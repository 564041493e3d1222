---- MODULE VoterIssuanceProofs ----
(***************************************************************************)
(* The issuance bounds for every choice of windows, limits, callers and    *)
(* lag.  A new row at time n can only fill windows that end at n or later; *)
(* such a window starts no earlier than n's own, so the claim's count,     *)
(* which has no upper end, covers everything else in it, provided no such  *)
(* row was pruned: the reading must not lag the newest one committed by    *)
(* more than a day less the window.                                        *)
(***************************************************************************)
EXTENDS VoterIssuance, FiniteSetTheorems, TLAPS

----------------------------------------------------------------------------
(* The inductive invariant                                                 *)

\* The clock, and every reading in flight, lags the latest clock by MaxLag at
\* most.
Lagging ==
    /\ clock <= latest
    /\ latest <= clock + MaxLag
    /\ newest <= latest
    /\ \A h \in Handlers : claim[h] # NoClaim =>
          /\ claim[h].now <= latest
          /\ latest <= claim[h].now + MaxLag

\* No row less than a day older than the newest reading has been pruned.
DayKept == \A i \in issued : i.at > newest - Day => i \in voter_issuance

Bounds == NodeBound /\ ClientHourBound /\ ClientDayBoundInOrder

IInv == TypeOK /\ Lagging /\ DayKept /\ Bounds

----------------------------------------------------------------------------
(* Counting                                                                *)

\* Adding a row that its own claim counted as within the limit keeps every
\* window within the limit.
LEMMA WindowLemma ==
    ASSUME NEW old \in SUBSET Issuance, IsFiniteSet(old),
           NEW rows \in SUBSET old, NEW new \in Issuance,
           NEW window \in Nat, NEW limit \in Nat,
           Bounded(old, window, limit),
           \A i \in old : i.at > new.at - window => i \in rows,
           Within(rows, window, new.at, limit)
    PROVE  Bounded(old \cup {new}, window, limit)
<1> DEFINE In(S, e) == {i \in S : e - window < i.at /\ i.at <= e}
<1> SUFFICES ASSUME NEW e \in 0 .. MaxClock
             PROVE  Cardinality(In(old \cup {new}, e)) <= limit
    BY DEF Bounded
<1>0. e \in Int /\ new.at \in Int /\ \A i \in old : i.at \in Int
    BY LagAssumption DEF Issuance
<1>1. Cardinality(In(old, e)) <= limit
    BY DEF Bounded
<1>2. CASE e - window < new.at /\ new.at <= e
    <2> DEFINE counted == Since(rows, new.at - window)
    <2>1. IsFiniteSet(counted) /\ Cardinality(counted) \in Nat
        <3>1. counted \subseteq old
            BY DEF Since
        <3> QED BY <3>1, FS_Subset, FS_CardinalityType
    <2>2. Cardinality(counted) < limit
        BY DEF Within
    <2>3. In(old \cup {new}, e) \subseteq counted \cup {new}
        BY <1>0, <1>2 DEF Since
    <2>4. /\ IsFiniteSet(counted \cup {new})
          /\ Cardinality(counted \cup {new}) <= Cardinality(counted) + 1
        <3> HIDE DEF counted
        <3>1. /\ IsFiniteSet(counted \cup {new})
              /\ Cardinality(counted \cup {new}) =
                    IF new \in counted THEN Cardinality(counted)
                    ELSE Cardinality(counted) + 1
            BY <2>1, FS_AddElement, Zenon
        <3> QED BY <2>1, <3>1
    <2>5. /\ Cardinality(In(old \cup {new}, e))
                <= Cardinality(counted \cup {new})
          /\ IsFiniteSet(In(old \cup {new}, e))
        BY <2>3, <2>4, FS_Subset
    <2>6. /\ Cardinality(In(old \cup {new}, e)) \in Nat
          /\ Cardinality(counted \cup {new}) \in Nat
        BY <2>4, <2>5, FS_CardinalityType
    <2> HIDE DEF counted
    <2> QED BY <2>1, <2>2, <2>4, <2>5, <2>6
<1>3. CASE ~(e - window < new.at /\ new.at <= e)
    <2>1. In(old \cup {new}, e) = In(old, e)
        BY <1>3
    <2> QED BY <1>1, <2>1
<1> QED BY <1>2, <1>3

----------------------------------------------------------------------------
(* Induction                                                               *)

LEMMA InitIInv == Init => IInv
<1> SUFFICES ASSUME Init PROVE IInv
    OBVIOUS
<1>1. TypeOK
    BY FS_EmptySet DEF Init, TypeOK
<1>2. Lagging /\ DayKept
    BY LagAssumption DEF Init, Lagging, DayKept
<1>3. \A e \in Int, w \in Nat : \A S :
         S = {} => Cardinality({i \in S : e - w < i.at /\ i.at <= e}) = 0
    <2> SUFFICES ASSUME NEW e \in Int, NEW w \in Nat
                 PROVE  Cardinality({i \in {} : e - w < i.at /\ i.at <= e}) = 0
        OBVIOUS
    <2>1. {i \in {} : e - w < i.at /\ i.at <= e} = {}
        OBVIOUS
    <2> QED BY <2>1, FS_EmptySet
<1>4. \A w, l \in Nat : Bounded({}, w, l)
    BY <1>3, LagAssumption DEF Bounded
<1>5. \A s : Of({}, s) = {}
    BY DEF Of
<1>6. Bounds
    BY <1>4, <1>5, WindowsAssumption, LimitsAssumption
       DEF Init, Bounds, NodeBound, ClientHourBound, ClientDayBoundInOrder
<1> QED BY <1>1, <1>2, <1>6 DEF IInv

\* A claim that is allowed keeps every bound.
LEMMA AllowedLemma ==
    ASSUME IInv, NEW c \in Claim, NEW id \in RowIds,
           c.now <= latest, latest <= c.now + MaxLag,
           Allowed(Kept(voter_issuance, c.now), c),
           issued' = issued \cup {RowOf(id, c)},
           inOrder' = (inOrder /\ newest <= c.now)
    PROVE  Bounds'
<1> DEFINE kept == Kept(voter_issuance, c.now)
           new == RowOf(id, c)
           Covered(w) == w <= Day /\ newest + w <= c.now + Day
<1>1. /\ new \in Issuance /\ new.at = c.now /\ new.subject = c.subject
      /\ c.now \in Int /\ latest \in Int /\ newest \in Int
    BY DEF RowOf, Claim, Issuance, IInv, TypeOK
<1>2. kept \in SUBSET issued /\ IsFiniteSet(issued) /\ issued \subseteq Issuance
    BY DEF Kept, Since, IInv, TypeOK
<1>3. ASSUME NEW w \in Nat, Covered(w), NEW i \in issued,
             i.at > new.at - w
      PROVE  i \in kept
    <2>1. i.at \in Int
        BY <1>2 DEF Issuance
    <2>2. i.at > newest - Day /\ i.at > c.now - Day
        BY <1>1, <1>3, <2>1, WindowsAssumption, LagAssumption
    <2> QED BY <2>2 DEF Kept, Since, IInv, DayKept
<1>4. ASSUME NEW w \in Nat, Covered(w), NEW l \in Nat,
             Bounded(issued, w, l), Within(kept, w, c.now, l)
      PROVE  Bounded(issued', w, l)
    <2> HIDE DEF kept, new
    <2>1. \A i \in issued : i.at > new.at - w => i \in kept
        BY <1>3, <1>4
    <2>2. Within(kept, w, new.at, l)
        BY <1>1, <1>4
    <2>3. Bounded(issued \cup {new}, w, l)
        BY <1>1, <1>2, <1>4, <2>1, <2>2, WindowLemma
    <2> QED BY <2>3 DEF new
<1>5. ASSUME NEW w \in Nat, Covered(w), NEW l \in Nat,
             NEW s \in Subjects,
             Bounded(Of(issued, s), w, l),
             c.subject = s => Within(Of(kept, s), w, c.now, l)
      PROVE  Bounded(Of(issued', s), w, l)
    <2>1. CASE c.subject = s
        <3> HIDE DEF kept, new
        <3>1. Of(issued', s) = Of(issued, s) \cup {new}
            BY <1>1, <2>1 DEF Of, new
        <3>2. Of(kept, s) \in SUBSET Of(issued, s)
            BY <1>2 DEF Of
        <3>3. IsFiniteSet(Of(issued, s)) /\ Of(issued, s) \in SUBSET Issuance
            <4>1. Of(issued, s) \in SUBSET issued
                BY DEF Of
            <4> QED BY <4>1, <1>2, FS_Subset
        <3>4. \A i \in Of(issued, s) : i.at > new.at - w => i \in Of(kept, s)
            BY <1>3, <1>5 DEF Of
        <3>5. Within(Of(kept, s), w, new.at, l)
            BY <1>1, <1>5, <2>1
        <3>6. Bounded(Of(issued, s) \cup {new}, w, l)
            BY <1>1, <1>5, <3>2, <3>3, <3>4, <3>5, WindowLemma
        <3> QED BY <3>1, <3>6
    <2>2. CASE c.subject # s
        <3>1. Of(issued', s) = Of(issued, s)
            BY <1>1, <2>2 DEF Of
        <3> QED BY <1>5, <3>1
    <2> QED BY <2>1, <2>2
<1>6. /\ Minute \in Nat /\ Covered(Minute)
      /\ Hour \in Nat /\ Covered(Hour)
      /\ Day \in Nat /\ (newest <= c.now => Covered(Day))
    BY <1>1, WindowsAssumption, LagAssumption DEF IInv, Lagging
<1>7. /\ Within(kept, Minute, c.now, PerMinute)
      /\ Within(kept, Hour, c.now, PerHour)
    BY DEF Allowed
<1>8. \A s \in Subjects : c.subject = s =>
         /\ Within(Of(kept, s), Hour, c.now, PerClientPerHour)
         /\ Within(Of(kept, s), Day, c.now, PerClientPerDay)
    BY NoSubjectAssumption DEF Allowed
<1> HIDE DEF kept, new, Covered
<1>9. NodeBound'
    BY <1>4, <1>6, <1>7, LimitsAssumption DEF IInv, Bounds, NodeBound
<1>10. ClientHourBound'
    BY <1>5, <1>6, <1>8, LimitsAssumption DEF IInv, Bounds, ClientHourBound
<1>11. ClientDayBoundInOrder'
    BY <1>5, <1>6, <1>8, LimitsAssumption
       DEF IInv, Bounds, ClientDayBoundInOrder
<1> QED BY <1>9, <1>10, <1>11 DEF Bounds

LEMMA NextIInv == IInv /\ [Next]_vars => IInv'
<1> SUFFICES ASSUME IInv, [Next]_vars PROVE IInv'
    OBVIOUS
<1> USE DEF IInv
<1>1. CASE Tick
    <2>1. TypeOK'
        BY <1>1 DEF Tick, commits, TypeOK
    <2>2. /\ latest' >= latest /\ latest' \in Nat /\ newest' <= latest'
          /\ clock' <= latest' /\ latest' <= clock' + MaxLag
        BY <1>1, LagAssumption DEF Tick, commits, Lagging, TypeOK
    <2>3. \A h \in Handlers : claim'[h] # NoClaim =>
             claim'[h].now <= latest' /\ latest' <= claim'[h].now + MaxLag
        BY <1>1, <2>2, LagAssumption DEF Tick, commits, Lagging, TypeOK, Claim
    <2>4. Lagging'
        BY <2>2, <2>3 DEF Lagging
    <2>5. DayKept'
        BY <1>1, <2>2, WindowsAssumption DEF Tick, commits, DayKept, TypeOK, Issuance
    <2>6. Bounds'
        BY <1>1 DEF Tick, commits, Bounds, NodeBound, ClientHourBound,
                    ClientDayBoundInOrder
    <2> QED BY <2>1, <2>4, <2>5, <2>6
<1>2. CASE SetBack
    <2>1. TypeOK'
        BY <1>2 DEF SetBack, commits, TypeOK
    <2>2. Lagging' /\ DayKept'
        BY <1>2, LagAssumption DEF SetBack, commits, Lagging, DayKept, TypeOK
    <2>3. Bounds'
        BY <1>2 DEF SetBack, commits, Bounds, NodeBound, ClientHourBound,
                    ClientDayBoundInOrder
    <2> QED BY <2>1, <2>2, <2>3
<1>3. CASE Restart
    <2>1. TypeOK'
        BY <1>3 DEF Restart, commits, TypeOK
    <2>2. Lagging' /\ DayKept'
        BY <1>3 DEF Restart, commits, Lagging, DayKept
    <2>3. Bounds'
        BY <1>3 DEF Restart, commits, Bounds, NodeBound, ClientHourBound,
                    ClientDayBoundInOrder
    <2> QED BY <2>1, <2>2, <2>3
<1>4. ASSUME NEW h \in Handlers, Issue(h) PROVE IInv'
    <2>1. TypeOK'
        BY <1>4 DEF Issue, commits, TypeOK, Claim
    <2>2. Lagging' /\ DayKept'
        BY <1>4 DEF Issue, commits, Lagging, DayKept, TypeOK
    <2>3. Bounds'
        BY <1>4 DEF Issue, commits, Bounds, NodeBound, ClientHourBound,
                    ClientDayBoundInOrder
    <2> QED BY <2>1, <2>2, <2>3
<1>5. ASSUME NEW h \in Handlers, Claims(h) PROVE IInv'
    <2> DEFINE c == claim[h]
               kept == Kept(voter_issuance, c.now)
    <2>1. /\ c \in Claim /\ c.now \in Int
          /\ c.now <= latest /\ latest <= c.now + MaxLag
          /\ latest \in Nat /\ newest \in Int /\ newest <= latest
        BY <1>5 DEF Claims, TypeOK, Lagging, Claim
    <2>1a. /\ newest' \in Int /\ newest <= newest' /\ c.now <= newest'
           /\ newest' <= latest
           /\ inOrder' = (inOrder /\ newest <= c.now)
        BY <1>5, <2>1 DEF Claims
    <2>1b. inOrder' \in BOOLEAN
        BY <1>5, <2>1a, Zenon DEF TypeOK
    <2>2. Lagging'
        BY <1>5, <2>1a DEF Claims, Lagging, TypeOK
    <2>3. kept \subseteq voter_issuance
        BY DEF Kept, Since
    <2>4. \A i \in issued : i.at > newest' - Day => i \in kept
        BY <2>1, <2>1a, WindowsAssumption
           DEF Kept, Since, DayKept, TypeOK, Issuance
    <2>5. ASSUME NEW id \in RowIds, Allowed(kept, c),
                 voter_issuance' = kept \cup {RowOf(id, c)},
                 issued' = issued \cup {RowOf(id, c)}
          PROVE  TypeOK' /\ DayKept' /\ Bounds'
        <3>1. RowOf(id, c) \in Issuance
            BY <2>1 DEF RowOf, Issuance, Claim
        <3>2. IsFiniteSet(issued')
            BY <2>5, FS_AddElement DEF TypeOK
        <3>3. TypeOK'
            BY <1>5, <2>1a, <2>1b, <2>3, <2>5, <3>1, <3>2 DEF Claims, TypeOK
        <3>4. DayKept'
            BY <1>5, <2>4, <2>5 DEF Claims, DayKept
        <3>5. Bounds'
            BY <2>1, <2>1a, <2>5, AllowedLemma
        <3> QED BY <3>3, <3>4, <3>5
    <2>6. ASSUME voter_issuance' = kept, issued' = issued
          PROVE  TypeOK' /\ DayKept' /\ Bounds'
        <3>1. TypeOK'
            BY <1>5, <2>1a, <2>1b, <2>3, <2>6 DEF Claims, TypeOK
        <3>2. DayKept'
            BY <1>5, <2>4, <2>6 DEF Claims, DayKept
        <3>3. Bounds'
            BY <2>1a, <2>6 DEF Bounds, NodeBound, ClientHourBound,
                        ClientDayBoundInOrder
        <3> QED BY <3>1, <3>2, <3>3
    <2> QED BY <1>5, <2>2, <2>5, <2>6 DEF Claims, KeptOnRefusal
<1>6. CASE UNCHANGED vars
    BY <1>6 DEF vars, commits, TypeOK, Lagging, DayKept, Bounds, NodeBound,
                ClientHourBound, ClientDayBoundInOrder
<1> QED BY <1>1, <1>2, <1>3, <1>4, <1>5, <1>6 DEF Next

----------------------------------------------------------------------------
(* The theorems                                                            *)

LEMMA IInvHolds == Spec => []IInv
<1> QED BY InitIInv, NextIInv, PTL DEF Spec

\* The issuance table holds issuances really made, whatever the clock does.
THEOREM TypeCorrect == Spec => []TypeOK
<1>1. IInv => TypeOK
    BY DEF IInv
<1> QED BY <1>1, IInvHolds, PTL

\* claim_voter_issuance: no minute and no hour holds more new identities than
\* the node-wide backstop, for readings that lag by up to a day less an hour.
THEOREM NodeBounded == Spec => []NodeBound
<1>1. IInv => NodeBound
    BY DEF IInv, Bounds
<1> QED BY <1>1, IInvHolds, PTL

\* claim_voter_issuance: no hour holds more new identities of one client than
\* its limit, however its calls interleave with other clients'.
THEOREM ClientHourBounded == Spec => []ClientHourBound
<1>1. IInv => ClientHourBound
    BY DEF IInv, Bounds
<1> QED BY <1>1, IInvHolds, PTL

\* claim_voter_issuance: no day holds more new identities of one client than
\* its limit, when claims commit in the order of their readings.
THEOREM ClientDayBounded == Spec => []ClientDayBoundInOrder
<1>1. IInv => ClientDayBoundInOrder
    BY DEF IInv, Bounds
<1> QED BY <1>1, IInvHolds, PTL

----------------------------------------------------------------------------
(* Refusals                                                                *)

\* Fewer rows never spend a limit that more rows leave.
LEMMA WithinFewer ==
    ASSUME NEW more, IsFiniteSet(more), NEW rows \in SUBSET more,
           NEW window, NEW now, NEW limit \in Nat,
           Within(more, window, now, limit)
    PROVE  Within(rows, window, now, limit)
<1> DEFINE few == Since(rows, now - window)
           many == Since(more, now - window)
<1>1. many \subseteq more /\ few \subseteq many
    BY DEF Since
<1> HIDE DEF few, many
<1>2. IsFiniteSet(many)
    BY <1>1, FS_Subset
<1>3. IsFiniteSet(few) /\ Cardinality(few) <= Cardinality(many)
    BY <1>1, <1>2, FS_Subset
<1>4. Cardinality(few) \in Nat /\ Cardinality(many) \in Nat
    BY <1>2, <1>3, FS_CardinalityType
<1>5. Cardinality(many) < limit
    BY DEF Within, many
<1>6. Cardinality(few) < limit
    BY <1>3, <1>4, <1>5
<1> QED BY <1>6 DEF Within, few

LEMMA AllowedByFewer ==
    ASSUME IsFiniteSet(issued), NEW rows \in SUBSET issued, NEW c,
           Allowed(issued, c)
    PROVE  Allowed(rows, c)
<1>1. /\ Within(rows, Minute, c.now, PerMinute)
      /\ Within(rows, Hour, c.now, PerHour)
    BY WithinFewer, LimitsAssumption DEF Allowed
<1>2. ASSUME c.subject # NoSubject
      PROVE  /\ Within(Of(rows, c.subject), Hour, c.now, PerClientPerHour)
             /\ Within(Of(rows, c.subject), Day, c.now, PerClientPerDay)
    <2>1. /\ Of(issued, c.subject) \subseteq issued
          /\ Of(rows, c.subject) \in SUBSET Of(issued, c.subject)
        BY DEF Of
    <2>2. IsFiniteSet(Of(issued, c.subject))
        BY <2>1, FS_Subset
    <2> QED BY <1>2, <2>1, <2>2, WithinFewer, LimitsAssumption DEF Allowed
<1> QED BY <1>1, <1>2 DEF Allowed

\* claim_voter_issuance: a claim is refused only when issuances really made
\* since the start of one of its windows have spent a limit; neither the rows
\* a refusal leaves nor those pruned or kept too long lock a visitor out.
THEOREM RefusedForASpentLimit == Spec => RefusedOnlyWhenSpent
<1>1. ASSUME IInv, NEW h \in Handlers, Claims(h), issued' = issued,
             Allowed(issued, claim[h])
      PROVE  FALSE
    <2> DEFINE c == claim[h]
               kept == Kept(voter_issuance, c.now)
    <2>1. kept \in SUBSET issued /\ IsFiniteSet(issued)
        BY <1>1 DEF IInv, TypeOK, Kept, Since
    <2>2. Allowed(kept, c)
        BY <1>1, <2>1, AllowedByFewer
    <2>3. PICK id \in RowIds :
             /\ \A i \in issued : i.id # id
             /\ issued' = issued \cup {RowOf(id, c)}
        BY <1>1, <2>2 DEF Claims
    <2>4. RowOf(id, c).id = id /\ RowOf(id, c) \in issued
        BY <1>1, <2>3 DEF RowOf
    <2> QED BY <2>3, <2>4
<1>2. IInv /\ [Next]_vars =>
        [\A h \in Handlers :
            Claims(h) /\ issued' = issued => ~Allowed(issued, claim[h])]_vars
    BY <1>1
<1> QED BY <1>2, IInvHolds, PTL DEF Spec, RefusedOnlyWhenSpent
====
