---- MODULE VoterIssuance ----
(***************************************************************************)
(* The bounds on new voter identities (voter.rs, claim_voter_issuance).  A *)
(* handler reads the wall clock, then claims an issuance in a transaction  *)
(* that prunes rows older than a day and counts the others per window.     *)
(* Readings may commit out of order, the clock may be set back, and the    *)
(* sidecar may restart between the reading and the claim.                  *)
(***************************************************************************)
EXTENDS Integers, FiniteSets

CONSTANTS
    Subjects,        \* Core's rate subjects
    NoSubject,       \* a caller Core cannot tell apart
    Handlers,        \* vote calls in flight at once
    RowIds,          \* rows voter_issuance may ever hold
    Minute, Hour, Day,                      \* windows, in clock units
    PerMinute, PerHour,                     \* node-wide limits
    PerClientPerHour, PerClientPerDay,      \* limits per rate subject
    MaxLag,          \* how far a claim's reading lags the latest clock
    MaxClock         \* bound: the clock stops here

ASSUME NoSubjectAssumption == NoSubject \notin Subjects
ASSUME WindowsAssumption ==
    /\ Minute \in Nat /\ Hour \in Nat /\ Day \in Nat
    /\ Minute <= Hour
ASSUME LimitsAssumption ==
    /\ PerMinute \in Nat /\ PerHour \in Nat
    /\ PerClientPerHour \in Nat /\ PerClientPerDay \in Nat
ASSUME LagAssumption ==
    /\ MaxLag \in Nat /\ MaxClock \in Nat
    /\ Hour + MaxLag <= Day

VARIABLES
    clock,           \* SystemTime::now, in ms
    latest,          \* history: the latest the clock ever showed
    claim,           \* the issue() calls in flight: subject and reading
    voter_issuance,  \* the table: one row per issuance of the last day
    issued,          \* history: every issuance ever made
    newest,          \* history: the latest reading committed so far
    inOrder          \* history: no claim committed after a later reading

commits == <<voter_issuance, issued, newest, inOrder>>
vars == <<clock, latest, claim, commits>>

Callers == Subjects \cup {NoSubject}
Issuance == [id : RowIds, subject : Callers, at : Int]
Claim == [subject : Callers, now : Int]
NoClaim == [now |-> 0]

TypeOK ==
    /\ clock \in Nat
    /\ latest \in Nat
    /\ claim \in [Handlers -> Claim \cup {NoClaim}]
    /\ issued \subseteq Issuance
    /\ IsFiniteSet(issued)
    /\ voter_issuance \subseteq issued
    /\ newest \in Int
    /\ inOrder \in BOOLEAN

Init ==
    /\ clock = 0
    /\ latest = 0
    /\ claim = [h \in Handlers |-> NoClaim]
    /\ voter_issuance = {}
    /\ issued = {}
    /\ newest = 0
    /\ inOrder = TRUE

----------------------------------------------------------------------------
(* The clock                                                               *)

Tick ==
    /\ clock < MaxClock
    /\ clock' = clock + 1
    /\ latest' = IF clock' > latest THEN clock' ELSE latest
    \* Bound: no claim lags the latest clock by more than MaxLag.
    /\ \A h \in Handlers :
          claim[h] # NoClaim => claim[h].now + MaxLag >= latest'
    /\ UNCHANGED <<claim, commits>>

\* The node's clock is corrected backwards.
SetBack ==
    /\ clock > 0
    /\ clock - 1 + MaxLag >= latest
    /\ clock' = clock - 1
    /\ UNCHANGED <<latest, claim, commits>>

----------------------------------------------------------------------------
(* Issuing                                                                 *)

\* VoterTokens::issue reads the clock before it asks for the lock.
Issue(h) ==
    /\ claim[h] = NoClaim
    /\ \E subject \in Callers :
          claim' = [claim EXCEPT ![h] = [subject |-> subject, now |-> clock]]
    /\ UNCHANGED <<clock, latest, commits>>

Since(rows, since) == {i \in rows : i.at > since}

Of(rows, subject) == {i \in rows : i.subject = subject}

\* Mutant: rows are pruned after an hour.
HourKept(rows, now) == Since(rows, now - Hour)

\* DELETE FROM voter_issuance WHERE issued_at_ms <= now - DAY_MS
Kept(rows, now) == Since(rows, now - Day)

\* Mutant: <= for <.
AtMostWithin(rows, window, now, limit) ==
    Cardinality(Since(rows, now - window)) <= limit

\* count_since(now - window) < limit: rows after the reading count as well.
Within(rows, window, now, limit) ==
    Cardinality(Since(rows, now - window)) < limit

\* Mutant: only the node-wide limits.
NodeAllowed(rows, c) ==
    /\ Within(rows, Minute, c.now, PerMinute)
    /\ Within(rows, Hour, c.now, PerHour)

Allowed(rows, c) ==
    /\ Within(rows, Minute, c.now, PerMinute)
    /\ Within(rows, Hour, c.now, PerHour)
    /\ c.subject # NoSubject =>
          /\ Within(Of(rows, c.subject), Hour, c.now, PerClientPerHour)
          /\ Within(Of(rows, c.subject), Day, c.now, PerClientPerDay)

RowOf(id, c) == [id |-> id, subject |-> c.subject, at |-> c.now]

\* Mutant: a refused claim leaves a row, too.
AlsoKept(kept, c) ==
    kept \cup {RowOf(CHOOSE id \in RowIds : TRUE, c)}

\* What a refused claim leaves in the table: the prune commits all the same.
KeptOnRefusal(kept, c) == kept

\* claim_voter_issuance, one transaction.
Claims(h) ==
    /\ claim[h] # NoClaim
    /\ LET c == claim[h]
           kept == Kept(voter_issuance, c.now)
       IN  /\ \/ /\ Allowed(kept, c)
                 /\ \E id \in RowIds :
                       /\ \A i \in issued : i.id # id
                       /\ voter_issuance' = kept \cup {RowOf(id, c)}
                       /\ issued' = issued \cup {RowOf(id, c)}
              \/ /\ ~Allowed(kept, c)
                 /\ voter_issuance' = KeptOnRefusal(kept, c)
                 /\ UNCHANGED issued
           /\ newest' = IF c.now > newest THEN c.now ELSE newest
           /\ inOrder' = (inOrder /\ newest <= c.now)
    /\ claim' = [claim EXCEPT ![h] = NoClaim]
    /\ UNCHANGED <<clock, latest>>

\* The sidecar is killed or stopped when idle; the table is on disk.
Restart ==
    /\ claim' = [h \in Handlers |-> NoClaim]
    /\ UNCHANGED <<clock, latest, commits>>

Next ==
    \/ Tick \/ SetBack \/ Restart
    \/ \E h \in Handlers : Issue(h) \/ Claims(h)

Spec == Init /\ [][Next]_vars

----------------------------------------------------------------------------
(* Properties                                                              *)

\* Any window of this length holds at most limit of these issuances.
Bounded(rows, window, limit) ==
    \A e \in 0 .. MaxClock :
        Cardinality({i \in rows : e - window < i.at /\ i.at <= e}) <= limit

\* In no minute and in no hour, wherever it starts, are more identities issued
\* than the node-wide backstop allows, out-of-order claims, restarts and a
\* clock set back included.
NodeBound ==
    /\ Bounded(issued, Minute, PerMinute)
    /\ Bounded(issued, Hour, PerHour)

\* In no hour does one rate subject get more identities than its limit.
ClientHourBound ==
    \A s \in Subjects : Bounded(Of(issued, s), Hour, PerClientPerHour)

\* In no day does one rate subject get more identities than its limit, as
\* long as claims commit in the order of their readings.
ClientDayBoundInOrder ==
    inOrder =>
        \A s \in Subjects : Bounded(Of(issued, s), Day, PerClientPerDay)

\* A claim is refused only when the issuances really made since the start of
\* some window have spent a limit: refusals never lock a visitor out.
RefusedOnlyWhenSpent ==
    [][\A h \in Handlers :
          Claims(h) /\ issued' = issued => ~Allowed(issued, claim[h])]_vars

\* voter.rs: "one subject may be issued at most [..] a day".
ClientDayBound ==
    \A s \in Subjects : Bounded(Of(issued, s), Day, PerClientPerDay)
====
