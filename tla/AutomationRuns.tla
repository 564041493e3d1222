--------------------------- MODULE AutomationRuns ---------------------------
(***************************************************************************)
(* The automation runs of a request (store.rs, admin.rs): started for it,  *)
(* then reported on by whoever carries them out, in any order and more     *)
(* than once.  A run's mode and agent are written once, and left out.      *)
(***************************************************************************)
EXTENDS Naturals, FiniteSets

CONSTANTS
    Requested,   \* requests of the board (none is ever deleted)
    Missing,     \* ids of no request
    Runs,        \* ids runs may get
    Outcomes,    \* the statuses a report may name
    Words,       \* workflow runs, plans, summaries and errors
    Null,
    Starters,    \* starts at once
    MaxReports   \* bound: reports made

ASSUME ReportsAssumption == MaxReports \in Nat

VARIABLES
    run,       \* the automation_run rows
    starting,  \* the starts in flight
    reports    \* history: every report made: its status, summary and error

runVars == <<run, starting, reports>>

NotStarting == [request |-> Null, workflow |-> Null]
Queued == [status |-> "queued", summary |-> Null, error |-> Null]
Coalesce(new, old) == IF new = Null THEN old ELSE new

---------------------------------------------------------------------------
\* create_automation_run: the request is looked up, then the row inserted.
StartRun(t) ==
    /\ starting[t] = NotStarting
    /\ \E r \in Requested \cup Missing, w \in Words \cup {Null} :
           IF r \in Requested
           THEN starting' = [starting EXCEPT ![t] = [request |-> r, workflow |-> w]]
           ELSE UNCHANGED starting
    /\ UNCHANGED <<run, reports>>

InsertRun(t) ==
    /\ starting[t] # NotStarting
    /\ \E id \in Runs \ DOMAIN run :
           LET row == [request |-> starting[t].request, workflow |-> starting[t].workflow,
                       plan |-> Null, report |-> Queued]
           IN run' = [x \in DOMAIN run \cup {id} |-> IF x = id THEN row ELSE run[x]]
    /\ starting' = [starting EXCEPT ![t] = NotStarting]
    /\ UNCHANGED reports

IdsKept(row, w, p) == [row EXCEPT !.workflow = Coalesce(w, @), !.plan = Coalesce(p, @)]

\* Mutant: summary and error are kept like the ids.
Blended(old, new) ==
    [new EXCEPT !.summary = Coalesce(@, old.summary), !.error = Coalesce(@, old.error)]
Replaced(old, new) == new

\* update_automation_run, from .../:runId/resume: the request in the path is not looked at.
ReportRun ==
    /\ Cardinality(reports) < MaxReports
    /\ \E id \in DOMAIN run, w, p, summary, error \in Words \cup {Null}, status \in Outcomes :
           LET new == [status |-> status, summary |-> summary, error |-> error] IN
           /\ run' = [run EXCEPT ![id] =
                         [IdsKept(@, w, p) EXCEPT !.report = Replaced(@, new)]]
           /\ reports' = reports \cup {new}
    /\ UNCHANGED starting

\* A kill loses the starts in flight.
LoseStarts ==
    /\ \E t \in Starters : starting[t] # NotStarting
    /\ starting' = [t \in Starters |-> NotStarting]
    /\ UNCHANGED <<run, reports>>

RunInit ==
    /\ run = [id \in {} |-> Null] /\ reports = {}
    /\ starting = [t \in Starters |-> NotStarting]

RunNext == (\E t \in Starters : StartRun(t) \/ InsertRun(t)) \/ ReportRun \/ LoseStarts

RunSpec == RunInit /\ [][RunNext]_runVars

---------------------------------------------------------------------------
\* Every state the variables may be in.  What a run shows comes from one report: a run
\* reported done does not show the error of an earlier attempt.
RunTypeOK ==
    /\ \A id \in DOMAIN run :
           /\ run[id].request \in Requested
           /\ run[id].report \in reports \cup {Queued}
           /\ {run[id].workflow, run[id].plan} \subseteq Words \cup {Null}
    /\ Cardinality(reports) <= MaxReports
=============================================================================
