----------------------------- MODULE KeyCustody -----------------------------
(***************************************************************************)
(* The processes that resolve the key of a data folder, and the commands   *)
(* that change it.  In the slot "master": Core, which owns the record; the *)
(* Gateway, which only checks it and may be handed its key by Core         *)
(* (process_keys.rs); the commands keys adopt, keys retire and the import  *)
(* of a backup, run with Core stopped.  In the slot "app": the desktop's   *)
(* own key (app_key.rs), on the same ladder.  One action is one step on a  *)
(* file or on the keychain; any process can be killed between two.         *)
(***************************************************************************)
EXTENDS KeySlots

CONSTANTS
    Folders,      \* the folders to begin with
    Bundles,      \* exported keys: [current, retired]
    MaxStarts, MaxMoves

ASSUME CustodyAssumption ==
    /\ NoKey \notin Keys /\ EnvKeys \subseteq Keys
    /\ {MaxRetired, MaxStarts, MaxMoves} \subseteq Nat

VARIABLES
    slot,    \* "master" or "app"
    sealed,  \* the keys that sealed each kind of data
    made,    \* keys that exist
    proc,    \* the processes
    starts, moves,
    mishap,  \* history: a step was overtaken, or went wrong, in a way the code does not look out for
    stranded \* history: keys of the key files when a record was written that could not tell
             \* whether they are needed

bounds == <<starts, moves>>
history == <<mishap, stranded>>
vars == <<slots, slot, sealed, made, proc, bounds, history>>

Procs == {"core", "gateway", "cli", "desktop"}
Kinds == {"message", "store", "secret", "app"}

\* To begin with, the key of what was sealed is in a slot or with the operator.
ASSUME FolderAssumption ==
    /\ \A f \in Folders :
          /\ f.slot \in {"master", "app"} /\ f.kinds \subseteq Kinds
          /\ {f.chain, f.master, f.legacy, f.recorded, f.key} \subseteq Keys \cup {NoKey}
          /\ f.kinds # {} => f.key \in EnvKeys \cup ({f.chain, f.master, f.legacy} \ {NoKey})
    /\ Bundles \subseteq [current : Keys, retired : SUBSET Keys]

Down == [at |-> "down", env |-> NoKey, key |-> NoKey, source |-> "file", seen |-> NoKey,
         todo |-> {}, old |-> NoKey, idx |-> [k \in Keys |-> "none"],
         custody |-> "none", opens |-> {}, job |-> "resolve", locked |-> FALSE, failed |-> FALSE]

Phases == {"down", "look", "store", "verify", "publish", "decide", "retire", "index",
           "install", "remove", "record", "run"}

Working(p) == proc[p].at \notin {"down", "run"}
IsIn(p, at) == proc[p].at = at
Becomes(p, r) == proc' = [proc EXCEPT ![p] = r]
Goes(p, at) == Becomes(p, [proc[p] EXCEPT !.at = at])
Kept == UNCHANGED <<slot, sealed, starts, moves, reach>>

\* History only: it restricts no step.
Unlucky(now) == mishap' = (mishap \/ now)

(***************************************************************************)
(* Probing and evidence: only Core knows its messages.                     *)
(***************************************************************************)
\* Core tries three of its sealed messages; they may all be under another key.
ProbeResults(p, k) ==
    IF p = "gateway" \/ sealed.message = {} THEN {"none"}
    ELSE {IF k \in sample THEN "passed" ELSE "failed" : sample \in SUBSET sealed.message \ {{}}}

Evidence(p) ==
    IF p = "desktop" THEN reach # "open" /\ (recorded # NoKey \/ sealed.app # {})
    ELSE \/ recorded # NoKey \/ Retired(index) # {}
         \/ p = "core" /\ sealed.message # {}
         \/ sealed.store # {}

(***************************************************************************)
(* load_master_key_guarded: the ladder.                                    *)
(***************************************************************************)
\* ObservedKeychain: the app slot remembers whether the ladder found the keychain locked.
Observed(p) == p = "desktop" /\ proc[p].env = NoKey /\ reach = "locked"

Has(p, k, source) ==
    Becomes(p, [proc[p] EXCEPT !.at = "decide", !.key = k, !.source = source, !.seen = recorded,
                               !.locked = Observed(p)])

Takes(p, k, at) ==
    Becomes(p, [proc[p] EXCEPT !.at = at, !.key = k, !.seen = recorded, !.locked = Observed(p)])

\* The app slot's one file is also its legacy file.
CopyIsRetired(k) ==
    IF slot = "app" THEN master' = (IF master = k THEN NoKey ELSE master) /\ UNCHANGED legacy
    ELSE LegacyIsRetired(k) /\ UNCHANGED master

FreshKeys == Keys \ (made \cup EnvKeys)
Generates(p, at) ==
    /\ ~Evidence(p) /\ FreshKeys # {}
    /\ LET k == CHOOSE key \in FreshKeys : TRUE
       IN made' = made \cup {k} /\ Takes(p, k, at)

\* Mutant: after the ladder refuses nothing else is tried.
RecoversNothing(p, seen) == {}

\* resolve: after the ladder refused, a candidate of the recorded key recovers the folder.
Recovers(p, seen) == IF slot = "master" THEN {seen} \cap CandidateKeys(proc[p].env) ELSE {}

Refused(p, seen) ==
    IF Recovers(p, seen) # {}
    THEN Becomes(p, [proc[p] EXCEPT !.at = "run", !.key = seen, !.opens = {seen} \cup RetiredKeys])
    ELSE Becomes(p, [Down EXCEPT !.failed = TRUE, !.env = proc[p].env])

UsesEnv(p) == Has(p, proc[p].env, "env") /\ UNCHANGED <<master, legacy, made>>

FileOrLegacy == IF master # NoKey THEN master ELSE legacy

UsesKeychain(p) ==
    /\ reach = "open"
    /\ \/ chain # NoKey /\ CopyIsRetired(chain) /\ Has(p, chain, "keychain") /\ UNCHANGED made
       \/ /\ chain = NoKey
          /\ \/ FileOrLegacy # NoKey /\ Takes(p, FileOrLegacy, "store") /\ UNCHANGED made
             \/ FileOrLegacy = NoKey /\ Generates(p, "store")
          /\ UNCHANGED <<master, legacy>>

UsesFile(p) ==
    /\ reach = "locked"
    /\ \/ master # NoKey /\ Has(p, master, "file") /\ UNCHANGED made
       \/ master = NoKey /\ legacy # NoKey /\ Takes(p, legacy, "publish") /\ UNCHANGED made
       \/ master = NoKey /\ legacy = NoKey /\ Generates(p, "publish")
    /\ UNCHANGED <<master, legacy>>

IsRefused(p) ==
    /\ \/ reach = "corrupt"
       \/ FileOrLegacy = NoKey /\ Evidence(p) /\ (reach = "locked" \/ chain = NoKey)
    /\ Refused(p, recorded)
    /\ UNCHANGED <<master, legacy, made>>

Look(p) ==
    /\ IsIn(p, "look")
    /\ IF proc[p].env # NoKey THEN UsesEnv(p)
       ELSE UsesKeychain(p) \/ UsesFile(p) \/ IsRefused(p)
    /\ UNCHANGED <<chain, recorded, index, vault>>
    /\ Kept /\ UNCHANGED history

\* The keychain, found empty, takes the key whatever it holds by now; or it refuses, and then
\* the file holds the key.
Store(p) ==
    /\ IsIn(p, "store")
    /\ \/ reach = "open" /\ chain' = proc[p].key /\ Goes(p, "verify")
       \/ UNCHANGED chain /\ Goes(p, "publish")
    /\ UNCHANGED <<master, legacy, recorded, index, vault, made, stranded>>
    /\ Kept /\ Unlucky(chain # NoKey /\ chain' # chain)

Verify(p) ==
    /\ IsIn(p, "verify")
    /\ \/ /\ proc[p].key \in Held
          /\ CopyIsRetired(proc[p].key)
          /\ Becomes(p, [proc[p] EXCEPT !.at = "decide", !.source = "keychain"])
       \/ /\ proc[p].key \notin Held
          /\ Refused(p, proc[p].seen)
          /\ UNCHANGED <<master, legacy>>
    /\ UNCHANGED <<chain, recorded, index, vault, made>>
    /\ Kept /\ UNCHANGED history

Publish(p) ==
    /\ IsIn(p, "publish")
    /\ master' = Published(proc[p].key)
    /\ Becomes(p, [proc[p] EXCEPT !.at = "decide", !.key = master', !.source = "file"])
    /\ UNCHANGED <<chain, legacy, recorded, index, vault, made>>
    /\ Kept /\ UNCHANGED history

(***************************************************************************)
(* resolve: the key of the ladder against the recorded one.                *)
(***************************************************************************)
Runs(p, k, todo, at) ==
    Becomes(p, [proc[p] EXCEPT !.at = at, !.key = k, !.old = proc[p].key, !.todo = todo,
                               !.opens = {k, proc[p].key} \cup RetiredKeys])

\* A key from the environment is never put away.
Mismatched(p) == IF proc[p].source = "env" THEN {} ELSE {proc[p].key}

DecideMaster(p) ==
    LET seen == proc[p].seen
        k == proc[p].key
        others == CandidateKeys(proc[p].env)
    IN \/ seen = k /\ Runs(p, k, {}, "run")
       \/ /\ seen \notin {k, NoKey}
          /\ \/ /\ (proc[p].source = "env" /\ k \notin RetiredKeys) \/ seen \notin others
                /\ Becomes(p, [Down EXCEPT !.failed = TRUE, !.env = proc[p].env])
             \/ /\ proc[p].source # "env" \/ k \in RetiredKeys
                /\ seen \in others
                /\ Runs(p, seen, Mismatched(p), "retire")
       \/ seen = NoKey /\ p = "gateway" /\ Runs(p, k, {}, "run")
       \/ /\ seen = NoKey /\ p = "core"
          /\ \/ ProbeResults(p, k) \cap {"passed", "none"} # {} /\ Runs(p, k, {}, "record")
             \/ /\ "failed" \in ProbeResults(p, k)
                /\ \/ \E other \in others \ {k} :
                         "passed" \in ProbeResults(p, other) /\ Runs(p, other, Mismatched(p), "retire")
                   \/ /\ \A other \in others \ {k} : "failed" \in ProbeResults(p, other)
                      /\ Becomes(p, [Down EXCEPT !.failed = TRUE, !.env = proc[p].env])

\* Mutant: the key file is no candidate.
AppCandidatesHeld(p) == {proc[p].key, proc[p].env} \ {NoKey}

\* resolve_app_key: the keys the slot has used.  What the keychain held is the ladder's key,
\* since the ladder asks the keychain only when no environment won, and takes what it holds.
AppCandidates(p) == {proc[p].key, proc[p].env, master} \ {NoKey}

RunsApp(p, k) ==
    Becomes(p, [proc[p] EXCEPT !.at = IF proc[p].seen = k THEN "run" ELSE "record",
                               !.key = k, !.opens = AppCandidates(p)])

DecideApp(p) ==
    LET seen == proc[p].seen
        k == proc[p].key
        other == seen \notin {k, NoKey} /\ proc[p].source # "env"
    IN \/ ~other /\ RunsApp(p, k)
       \/ other /\ seen \in AppCandidates(p) /\ RunsApp(p, seen)
       \/ /\ other /\ seen \notin AppCandidates(p)
          /\ IF proc[p].source = "file" /\ proc[p].locked
             THEN Becomes(p, [Down EXCEPT !.failed = TRUE]) ELSE RunsApp(p, k)

Decide(p) ==
    /\ IsIn(p, "decide")
    /\ IF p = "desktop" THEN DecideApp(p) ELSE DecideMaster(p)
    /\ UNCHANGED <<chain, master, legacy, recorded, index, vault, made>>
    /\ Kept /\ UNCHANGED history

(***************************************************************************)
(* RetiredVault::retire, and what comes after the last key is put away.    *)
(***************************************************************************)
AfterRetiring(p) ==
    CASE proc[p].job = "install" -> "install"
      [] proc[p].job = "keep"    -> "down"
      [] proc[p].job = "retire"  -> "remove"
      [] proc[p].job = "resolve" -> IF p = "core" /\ proc[p].seen = NoKey THEN "record" ELSE "run"

Retired1(p, k) == [proc[p] EXCEPT !.todo = @ \ {k}, !.at = "retire"]

\* The keychain is preferred for a key that came from it, and by every command.
PrefersKeychain(p) == p = "cli" \/ proc[p].source = "keychain"

\* Mutant: the set is one key larger than it may be.
IsOverfull == Cardinality(Retired(index)) > MaxRetired
IsFull == Cardinality(Retired(index)) >= MaxRetired

RetireKey(p) ==
    /\ IsIn(p, "retire") /\ proc[p].todo # {}
    /\ \E k \in proc[p].todo :
          \/ index[k] # "none" /\ Becomes(p, Retired1(p, k)) /\ UNCHANGED vault
          \/ /\ index[k] = "none" /\ IsFull
             /\ Becomes(p, IF p = "cli" THEN Down ELSE Retired1(p, k))
             /\ UNCHANGED vault
          \/ /\ index[k] = "none" /\ ~IsFull
             /\ \E custody \in {"file", "keychain"} :
                   /\ custody = "keychain" => PrefersKeychain(p) /\ reach = "open"
                   /\ PutAway(k, custody)
                   /\ Becomes(p, [proc[p] EXCEPT !.at = "index", !.old = k, !.idx = index,
                                                 !.custody = custody])
    /\ UNCHANGED <<chain, master, legacy, recorded, index, made>>
    /\ Kept /\ UNCHANGED history

\* The whole index is written back as it was read.
ListKey(p) ==
    /\ IsIn(p, "index")
    /\ index' = [proc[p].idx EXCEPT ![proc[p].old] = proc[p].custody]
    /\ Becomes(p, Retired1(p, proc[p].old))
    /\ UNCHANGED <<chain, master, legacy, recorded, vault, made>>
    /\ Kept /\ UNCHANGED history

EndRetiring(p) ==
    /\ IsIn(p, "retire") /\ proc[p].todo = {}
    /\ IF AfterRetiring(p) = "down" THEN Becomes(p, Down) ELSE Goes(p, AfterRetiring(p))
    /\ UNCHANGED <<chain, master, legacy, recorded, index, vault, made>>
    /\ Kept /\ UNCHANGED history

\* The keys that may be needed and are not looked at when a key is recorded for the first
\* time: the key files', for a command, which records what it is told to, and for Core
\* without a message to try; the locked keychain's, for the desktop.
Overlooked(p) ==
    CASE p = "desktop" -> IF proc[p].locked THEN {chain} ELSE {}
      [] p # "desktop" /\ (p = "cli" \/ sealed.message = {}) -> {master, legacy}
      [] OTHER -> {}

WriteRecord(p) ==
    /\ IsIn(p, "record")
    /\ recorded' = proc[p].key
    /\ IF p = "cli" THEN Becomes(p, Down) ELSE Goes(p, "run")
    /\ stranded' = IF recorded = NoKey THEN stranded \cup (Overlooked(p) \ {NoKey, proc[p].key})
                   ELSE stranded
    /\ UNCHANGED <<chain, master, legacy, index, vault, made, mishap>>
    /\ Kept

(***************************************************************************)
(* keys adopt, keys retire and the import of a key bundle.                 *)
(***************************************************************************)
Commanded(job, k, env, todo, at) ==
    /\ Becomes("cli", [Down EXCEPT !.at = at, !.job = job, !.key = k, !.env = env, !.todo = todo])
    /\ UNCHANGED <<slots, slot, sealed, made, moves, stranded>>
    /\ Unlucky(~IsIn("core", "down") \/ Working("gateway"))
    /\ starts' = starts + 1

Installs(k, env, extras) ==
    /\ Cardinality(Retired(index) \cup ToRetire(k, env, extras)) <= MaxRetired
    /\ Commanded("install", k, env, ToRetire(k, env, extras), "retire")

\* With --accept-unreadable whatever the probe says is accepted.
Adopt(k, env, accept) ==
    /\ k \in (CandidateKeys(env) \ {legacy}) \cup RetiredKeys
    /\ recorded = k \/ accept \/ ProbeResults("cli", k) # {"failed"}
    /\ Installs(k, env, {})

\* A bundle whose key is in use already only adds its retired keys.
Import(bundle, env) ==
    /\ env \in {NoKey, bundle.current} \cup bundle.retired
    /\ IF recorded = bundle.current /\ bundle.current \in Held \cup {env, master}
       THEN Commanded("keep", bundle.current, env, bundle.retired \ {bundle.current}, "retire")
       ELSE Installs(bundle.current, env, bundle.retired)

RetireCommand(k, env) ==
    /\ recorded # k /\ k \in LiveKeys(env) /\ (k \notin Held \/ k = env)
    /\ Commanded("retire", k, env, {k}, "retire")

StoreCurrent ==
    /\ IsIn("cli", "install")
    /\ \/ reach = "open" /\ chain' = proc["cli"].key /\ UNCHANGED master
       \/ /\ master' = proc["cli"].key
          /\ chain' \in {chain} \cup (IF reach = "open" THEN {proc["cli"].key} ELSE {})
    /\ Goes("cli", "record")
    /\ UNCHANGED <<legacy, recorded, index, vault, made, stranded>>
    /\ Kept /\ Unlucky(reach = "open" /\ master' # master)

\* The retired copy must read back before the slot is emptied.
ReadsBack(k) == Loadable(k)

RemoveRetired ==
    /\ IsIn("cli", "remove")
    /\ LET k == proc["cli"].key
           removes == ReadsBack(k) /\ k # proc["cli"].env
       IN /\ master' = IF removes /\ master = k THEN NoKey ELSE master
          /\ legacy' = IF removes /\ master # k /\ legacy = k THEN NoKey ELSE legacy
    /\ Becomes("cli", Down)
    /\ UNCHANGED <<chain, recorded, index, vault, made>>
    /\ Kept /\ UNCHANGED history

(***************************************************************************)
(* Processes come and go, seal, and hand their key to a child.             *)
(***************************************************************************)
MayBegin(p) ==
    /\ IsIn(p, "down") /\ starts < MaxStarts
    /\ slot = IF p = "desktop" THEN "app" ELSE "master"

Start(p, env) ==
    /\ p # "cli" /\ MayBegin(p)
    /\ Becomes(p, [Down EXCEPT !.at = "look", !.env = env])
    /\ Unlucky(Working("cli"))
    /\ starts' = starts + 1
    /\ UNCHANGED <<slots, slot, sealed, made, moves, stranded>>

\* "Run with Core stopped", which nothing checks.
Command(env) ==
    /\ MayBegin("cli")
    /\ \/ \E k \in Keys : (\E accept \in BOOLEAN : Adopt(k, env, accept)) \/ RetireCommand(k, env)
       \/ \E bundle \in Bundles : Import(bundle, env)

\* plugin_child_env and component_child_env: a child of Core gets the subkeys of the
\* current key and of the retired ones; what it seals opens under those keys only.
Deliver ==
    /\ IsIn("core", "run") /\ MayBegin("gateway")
    /\ Becomes("gateway", [Down EXCEPT !.at = "run", !.key = proc["core"].key,
                                       !.opens = proc["core"].opens])
    /\ starts' = starts + 1
    /\ UNCHANGED <<slots, slot, sealed, made, moves, history>>

SealedBy(p) ==
    CASE p = "core" -> {"message", "store"} [] p = "gateway" -> {"secret"} [] p = "desktop" -> {"app"}
      [] p = "cli" -> {}

Seal(p, kind) ==
    /\ IsIn(p, "run") /\ kind \in SealedBy(p)
    /\ sealed' = [sealed EXCEPT ![kind] = @ \cup {proc[p].key}]
    /\ UNCHANGED <<slots, slot, made, proc, bounds, history>>

Stop(p) ==
    /\ ~IsIn(p, "down") /\ Becomes(p, Down)
    /\ UNCHANGED <<slots, slot, sealed, made, bounds, history>>

\* The keychain is locked, unlocked or damaged, also amid a resolution.
KeychainMoves ==
    /\ moves < MaxMoves /\ moves' = moves + 1
    /\ reach' \in Reaches \ {reach}
    /\ Unlucky(Working("cli"))
    /\ UNCHANGED <<chain, master, legacy, recorded, index, vault, slot, sealed, made, proc, starts,
                   stranded>>

-----------------------------------------------------------------------------
Init ==
    /\ \E f \in Folders :
          /\ slot = f.slot /\ chain = f.chain /\ master = f.master /\ legacy = f.legacy
          /\ recorded = f.recorded
          /\ sealed = [kind \in Kinds |-> IF kind \in f.kinds THEN {f.key} ELSE {}]
          /\ made = {f.chain, f.master, f.legacy, f.key} \ {NoKey}
          /\ stranded = IF f.recorded = NoKey THEN {}
                        ELSE (IF f.slot = "app" THEN {f.chain} ELSE {f.master, f.legacy}) \ {NoKey, f.recorded}
    /\ reach = "open"
    /\ index = [k \in Keys |-> "none"]
    /\ vault = [files |-> {}, chain |-> {}]
    /\ proc = [p \in Procs |-> Down]
    /\ starts = 0 /\ moves = 0 /\ mishap = FALSE

Resolve(p) == Look(p) \/ Store(p) \/ Verify(p) \/ Publish(p) \/ Decide(p)
              \/ RetireKey(p) \/ ListKey(p) \/ EndRetiring(p) \/ WriteRecord(p)

Quiescent == starts = MaxStarts /\ (\A p \in Procs : IsIn(p, "down")) /\ UNCHANGED vars

Next ==
    \/ \E p \in Procs : Resolve(p) \/ Stop(p) \/ (\E kind \in Kinds : Seal(p, kind))
                        \/ (\E env \in EnvKeys \cup {NoKey} : Start(p, env))
    \/ \E env \in EnvKeys \cup {NoKey} : Command(env)
    \/ StoreCurrent \/ RemoveRetired \/ Deliver \/ KeychainMoves \/ Quiescent

Spec == Init /\ [][Next]_vars

-----------------------------------------------------------------------------
TypeOK ==
    /\ SlotTypes
    /\ sealed \in [Kinds -> SUBSET Keys] /\ made \subseteq Keys
    /\ mishap \in BOOLEAN /\ stranded \subseteq Keys
    /\ \A p \in Procs : proc[p].at \in Phases /\ proc[p].todo \subseteq Keys
    /\ Cardinality(Retired(index)) <= MaxRetired

\* The keys that are somewhere a later start may look.
KeptKeys ==
    {chain, master, legacy} \cup {k \in vault.files : index[k] = "file"}
        \cup {k \in vault.chain : index[k] = "keychain"}

InUse == (UNION {sealed[kind] : kind \in Kinds})
         \cup {proc[p].key : p \in {q \in Procs \ {"cli"} : IsIn(q, "run")}}

\* A key that sealed anything, or is in use, is in a slot or listed with its copy, after any
\* kills, refusals and overlapping starts, unless one of the mishaps the code does not look
\* out for happened: a process stored its key over another one it had not seen, a command ran
\* beside another process or a moving keychain, or replaced the file's key when the keychain
\* it had read from refused its key.
KeysKept == ~mishap => InUse \ EnvKeys \subseteq KeptKeys

\* What Core sealed is under the recorded key, under a listed retired key, or under the
\* key the keychain holds, so that the next resolution finds it.  But for the keys of
\* key files that nobody tried when the record was first written, and short of a mishap.
KeysFound ==
    ~mishap /\ recorded # NoKey /\ slot = "master" =>
        (sealed.message \cup sealed.store) \ (EnvKeys \cup stranded)
            \subseteq {recorded, chain} \cup Retired(index)

\* A process that is started without a key of its own is refused only when no key file
\* holds the recorded key, unless that key was recorded while it resolved; mishap or not.
RefusedOnlyWithoutTheKey ==
    [][\A p \in Procs :
          (proc'[p].failed /\ ~proc[p].failed /\ proc[p].env = NoKey /\ recorded # NoKey
           /\ slot = "master" /\ (IsIn(p, "look") \/ proc[p].seen = recorded))
          => recorded \notin {master, legacy}]_vars

\* The desktop opens whatever it sealed under the keychain's key or the file's, unless the
\* operator's key stands in for both, or it recorded its key while a locked keychain held
\* another one.
AppOpens ==
    IsIn("desktop", "run") /\ proc["desktop"].source # "env" =>
        sealed.app \ (EnvKeys \cup stranded) \subseteq proc["desktop"].opens

\* What write_key_file says of processes that resolve at the same time: none ever seals
\* data under a key that is not kept.  Violated: with an open keychain both find it empty,
\* and one stores its new key over the other's.
SealsUnderKeptKeys ==
    [][\A kind \in Kinds : sealed'[kind] \ sealed[kind] \subseteq EnvKeys \cup KeptKeys]_vars
===============================================================================
