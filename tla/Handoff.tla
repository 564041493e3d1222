------------------------------- MODULE Handoff -------------------------------
(***************************************************************************)
(* How a second process reaches the store through the running sidecar      *)
(* (crates/core/sidecar-runtime/src/handoff.rs): each run of the sidecar   *)
(* publishes its port and a token of its own in one file, and withdraws it *)
(* when it is told to stop; a client reads the file, probes the port, and  *)
(* calls.  Which process calls what, and when, is not under src/: a run    *)
(* has its port before it publishes, and a client connects for each call.  *)
(***************************************************************************)
EXTENDS Naturals

CONSTANTS
    RunIds,         \* runs of the sidecar, each with its token and its pid
    Ports,
    NoHandoff,      \* no file
    MaxSlow         \* bound: answers that come too late

ASSUME HandoffAssumption == NoHandoff \notin [port : Ports, token : RunIds]

VARIABLES
    handoff,  \* secrets/sidecar-handoff.json: the port and the run whose token it holds
    life,     \* where each run is
    port,     \* its port
    latest,   \* history: the run that published last
    overtaken,\* history: runs that published while another was between its look and its removal
    client,   \* the client's call
    slow

handVars == <<handoff, life, port, latest, overtaken, client, slow>>

AtRest == [at |-> "rest", port |-> NoHandoff, token |-> NoHandoff, by |-> NoHandoff]
Stages == {"new", "temp", "up", "stopping", "withdrawing", "dead"}

\* A run answers from the moment it has its port until it is told to stop.
Listens(r, p) == life[r] \in {"temp", "up"} /\ port[r] = p
Listeners(p) == {r \in RunIds : Listens(r, p)}

---------------------------------------------------------------------------
\* publish: a temporary file of a random name is written and synced, then renamed.
BindPort(r) ==
    /\ life[r] = "new"
    /\ \E p \in Ports : Listeners(p) = {} /\ port' = [port EXCEPT ![r] = p]
    /\ life' = [life EXCEPT ![r] = "temp"]
    /\ UNCHANGED <<handoff, latest, overtaken, client, slow>>

\* Mutant: a file that is there is not replaced.
FirstStays(r) == IF handoff = NoHandoff THEN [port |-> port[r], token |-> r] ELSE handoff
InPlace(r) == [port |-> port[r], token |-> r]

Publish(r) ==
    /\ life[r] = "temp"
    /\ handoff' = InPlace(r)
    /\ life' = [life EXCEPT ![r] = "up"] /\ latest' = r
    /\ overtaken' = IF \E s \in RunIds : life[s] = "withdrawing" THEN overtaken \cup {r}
                    ELSE overtaken
    /\ UNCHANGED <<port, client, slow>>

\* shutdown_signal.
Signal(r) ==
    /\ life[r] = "up"
    /\ life' = [life EXCEPT ![r] = "stopping"]
    /\ UNCHANGED <<handoff, port, latest, overtaken, client, slow>>

\* Mutant: a run withdraws whatever is published.
OwnsAny(r) == handoff # NoHandoff
Owns(r) == handoff # NoHandoff /\ handoff.token = r

\* withdraw: load and compare, then remove: whatever has been renamed there in between goes.
LookBeforeWithdraw(r) ==
    /\ life[r] = "stopping"
    /\ life' = [life EXCEPT ![r] = IF Owns(r) THEN "withdrawing" ELSE "dead"]
    /\ UNCHANGED <<handoff, port, latest, overtaken, client, slow>>

Withdraw(r) ==
    /\ life[r] = "withdrawing"
    /\ handoff' = NoHandoff
    /\ life' = [life EXCEPT ![r] = "dead"]
    /\ UNCHANGED <<port, latest, overtaken, client, slow>>

\* A killed run leaves its file behind, and a temporary file no one reads.
KillRun(r) ==
    /\ life[r] \notin {"new", "dead"}
    /\ life' = [life EXCEPT ![r] = "dead"]
    /\ UNCHANGED <<handoff, port, latest, overtaken, client, slow>>

---------------------------------------------------------------------------
\* SidecarClient::connect: load, then an unauthenticated GET /health, for two seconds.
LoadHandoff ==
    /\ client.at = "rest" /\ handoff # NoHandoff
    /\ client' = [at |-> "probe", port |-> handoff.port, token |-> handoff.token, by |-> NoHandoff]
    /\ UNCHANGED <<handoff, life, port, latest, overtaken, slow>>

\* No file: the caller opens the store itself.
FallBack ==
    /\ \/ client.at = "rest" /\ handoff = NoHandoff
       \/ client.at = "probe" /\ Listeners(client.port) = {}
    /\ client' = [client EXCEPT !.at = "alone"]
    /\ UNCHANGED <<handoff, life, port, latest, overtaken, slow>>

ProbeAnswered ==
    /\ client.at = "probe" /\ Listeners(client.port) # {}
    /\ client' = [client EXCEPT !.at = "call"]
    /\ UNCHANGED <<handoff, life, port, latest, overtaken, slow>>

\* authorize: the handoff token of this run opens the routes under its prefixes.
TokenOk(provided, expected) == provided = expected
Authorizes(r, token) == TokenOk(token, r)

\* exchange: whoever listens on the port now answers, 401 to another run's token.
CallAnswered ==
    /\ client.at = "call"
    /\ \E r \in Listeners(client.port) :
           client' = IF Authorizes(r, client.token)
                     THEN [client EXCEPT !.at = "served", !.by = r]
                     ELSE [client EXCEPT !.at = "refused", !.by = r]
    /\ UNCHANGED <<handoff, life, port, latest, overtaken, slow>>

CallFails ==
    /\ client.at = "call" /\ Listeners(client.port) = {}
    /\ client' = [client EXCEPT !.at = "failed"]
    /\ UNCHANGED <<handoff, life, port, latest, overtaken, slow>>

\* PROBE_TIMEOUT, CALL_TIMEOUT.
AnswerTooLate ==
    /\ client.at \in {"probe", "call"} /\ slow < MaxSlow
    /\ slow' = slow + 1
    /\ client' = [client EXCEPT !.at = IF @ = "probe" THEN "alone" ELSE "failed"]
    /\ UNCHANGED <<handoff, life, port, latest, overtaken>>

\* The next call connects again.
CallDone ==
    /\ client.at \in {"alone", "served", "refused", "failed"}
    /\ client' = AtRest
    /\ UNCHANGED <<handoff, life, port, latest, overtaken, slow>>

---------------------------------------------------------------------------
HandInit ==
    /\ handoff = NoHandoff
    /\ life = [r \in RunIds |-> "new"] /\ port = [r \in RunIds |-> NoHandoff]
    /\ latest = NoHandoff /\ overtaken = {} /\ client = AtRest /\ slow = 0

ClientProceeds ==
    LoadHandoff \/ FallBack \/ ProbeAnswered \/ CallAnswered \/ CallFails \/ CallDone
RunProceeds(r) == Publish(r) \/ LookBeforeWithdraw(r) \/ Withdraw(r)

HandNext ==
    \/ ClientProceeds \/ AnswerTooLate
    \/ \E r \in RunIds : BindPort(r) \/ RunProceeds(r) \/ Signal(r) \/ KillRun(r)

\* The client goes on, and a run that is publishing or withdrawing does.
HandFairness == WF_handVars(ClientProceeds) /\ \A r \in RunIds : WF_handVars(RunProceeds(r))
HandSpec == HandInit /\ [][HandNext]_handVars /\ HandFairness

---------------------------------------------------------------------------
\* Every state the variables may be in.
HandTypeOK ==
    /\ handoff = NoHandoff \/ handoff \in [port : Ports, token : RunIds]
    /\ \A r \in RunIds : life[r] \in Stages /\ port[r] \in Ports \cup {NoHandoff}
    /\ client.at \in {"rest", "probe", "call", "alone", "served", "refused", "failed"}
    /\ overtaken \subseteq RunIds
    /\ slow \in 0..MaxSlow

\* The run that published last is the one a client finds for as long as it is up: no
\* earlier run, stopping late, takes its file away, except one that had looked at the file
\* before this run published and had not removed it yet; no other file ever replaces it.
UpIsPublished ==
    \A r \in RunIds :
        r = latest /\ life[r] = "up" =>
            \/ handoff = [port |-> port[r], token |-> r]
            \/ r \in overtaken /\ handoff = NoHandoff

\* A client is served again and again once the run that published last stays up, unless it
\* published under a withdrawal and its file is gone for good.
ServedWhileUp ==
    \A r \in RunIds :
        <>[](r = latest /\ life[r] = "up") =>
            \/ []<>(client.at = "served" /\ client.by = r)
            \/ <>[](r \in overtaken /\ handoff = NoHandoff)
==============================================================================
