--------------------------- MODULE KeyCustodyProofs ---------------------------
(***************************************************************************)
(* Key custody for any number of keys, folders, bundles, starts and moves  *)
(* of the keychain.  Whatever happens, the files keep their types and a    *)
(* process is refused only when no key file holds the recorded key         *)
(* (Basic).  Short of the mishaps the model records, no key that sealed    *)
(* something is lost (IInv), and what Core sealed is under a key that the  *)
(* record, the retired set or the keychain names, but for the keys         *)
(* stranded by a first record (FInv).  The desktop's slot knows no mishap, *)
(* and the desktop opens what it sealed (AInv).                            *)
(***************************************************************************)
EXTENDS KeyCustody, FiniteSetTheorems, TLAPS

----------------------------------------------------------------------------
(* The inductive invariant                                                 *)

Process ==
    [at : Phases, env : EnvKeys \cup {NoKey}, key : Keys \cup {NoKey},
     source : {"file", "keychain", "env"}, seen : Keys \cup {NoKey}, todo : SUBSET Keys,
     old : Keys \cup {NoKey}, idx : [Keys -> Custodies], custody : Custodies,
     opens : SUBSET (Keys \cup {NoKey}), job : {"resolve", "install", "keep", "retire"},
     locked : BOOLEAN, failed : BOOLEAN]

IndexFits(idx) == IsFiniteSet(Retired(idx)) /\ Cardinality(Retired(idx)) <= MaxRetired

Typed ==
    /\ SlotTypes /\ IndexFits(index)
    /\ sealed \in [Kinds -> SUBSET Keys] /\ made \subseteq Keys
    /\ proc \in [Procs -> Process]

\* A command works alone; a slot is used by its own processes.
Placed == \A p \in Procs : ~IsIn(p, "down") => slot = IF p = "desktop" THEN "app" ELSE "master"

Alone ==
    /\ Working("cli") => \A q \in Procs \ {"cli"} : ~Working(q)
    /\ Placed

\* What is listed was put away, and so is what is about to be listed.
InVault(k, custody) ==
    /\ custody = "file" => k \in vault.files
    /\ custody = "keychain" => k \in vault.chain

ListsVaulted(r) ==
    r.at = "index" =>
        /\ \A k \in Keys : InVault(k, r.idx[k])
        /\ r.old \in Keys /\ r.custody # "none" /\ InVault(r.old, r.custody)
        /\ IsFiniteSet(Retired(r.idx)) /\ Cardinality(Retired(r.idx)) < MaxRetired

Vaulted ==
    /\ \A k \in Keys : InVault(k, index[k])
    /\ \A p \in Procs : ListsVaulted(proc[p])

Safe == EnvKeys \cup ({chain, master, legacy} \ {NoKey}) \cup Retired(index)

\* A process that resolves takes its key from a slot, and puts away only what the keychain
\* or the key file holds: those are the keys a list read too early can miss.
Resolves(r) ==
    /\ r.job = "resolve" /\ r.at \notin {"install", "remove"}
    /\ r.at \notin {"down", "look"} => r.key \in Keys
    /\ r.at = "decide" =>
          /\ r.source = "file" => r.key = master
          /\ r.source = "keychain" => r.key = chain
          /\ r.source = "env" => r.key = r.env
    /\ r.at \in {"retire", "index"} => r.todo \subseteq {chain, master}
    /\ r.at = "index" =>
          /\ r.old \in {chain, master}
          /\ Retired(r.idx) \ {chain, master} = Retired(index) \ {chain, master}
    /\ r.at \in {"decide", "retire", "index", "record", "run"} => r.key \in Safe

\* A command that installs a key has put away, or has yet to, the key it takes the place of.
Commands(r) ==
    /\ r.at \in {"down", "retire", "index", "install", "remove", "record"}
    /\ r.at # "down" => r.job # "resolve" /\ r.key \in Keys
    /\ r.at = "index" => r.idx = index
    /\ r.at = "install" => r.job = "install" /\ r.todo = {}
    /\ r.job = "install" /\ r.at \in {"retire", "index", "install"} =>
          PersistentKey \in {r.key, NoKey} \cup r.todo \cup Retired(index)

Used == \A kind \in Kinds : sealed[kind] \subseteq Safe

IInv ==
    /\ Typed /\ Alone /\ Vaulted /\ Used
    /\ \A p \in Procs \ {"cli"} : Resolves(proc[p])
    /\ Commands(proc["cli"])

----------------------------------------------------------------------------
(* What a step may disturb                                                 *)

LEMMA DownIs ==
    /\ Down \in Process /\ Down.at = "down" /\ Down.job = "resolve" /\ Down.todo = {}
    /\ Down.opens = {} /\ Down.source = "file" /\ ~Down.failed
BY CustodyAssumption DEF Down, Process, Phases, Custodies

LEMMA BecomesIs ==
    ASSUME Typed, NEW p \in Procs, NEW r, Becomes(p, r)
    PROVE  /\ proc'[p] = r /\ \A q \in Procs : q # p => proc'[q] = proc[q]
           /\ r \in Process => proc' \in [Procs -> Process]
BY DEF Typed, Becomes

\* The slots another process relies on while it works.
Steady ==
    /\ chain # NoKey => chain' = chain
    /\ master # NoKey => master' = master
    /\ Retired(index') \ {chain, master} = Retired(index) \ {chain, master}

LEMMA RetiredAreKeys == \A idx : Retired(idx) \subseteq Keys
BY DEF Retired

LEMMA OthersKeep ==
    ASSUME NEW p \in Procs, proc[p] \in Process, Resolves(proc[p]), ListsVaulted(proc[p]),
           proc'[p] = proc[p], Safe \subseteq Safe', Working(p) => Steady
    PROVE  Resolves(proc[p])'
<1> DEFINE r == proc[p]
<1>1. CASE Working(p)
    <2>1. Steady /\ {chain, master} \cap Keys \subseteq {chain', master'}
        BY <1>1, CustodyAssumption DEF Steady
    <2>2. r.at \in {"retire", "index"} => r.todo \subseteq {chain', master'}
        BY <2>1 DEF Resolves, Process
    <2>3. CASE r.at = "index"
        <3>1. r.old \in {chain', master'}
            BY <2>1, <2>3 DEF Resolves, ListsVaulted
        <3>2. Retired(r.idx) \ {chain, master} = Retired(index) \ {chain, master}
            BY <2>3 DEF Resolves
        <3>3. Retired(r.idx) \ {chain, master} = Retired(index') \ {chain, master}
            BY <2>1, <3>2 DEF Steady
        <3>4. Retired(r.idx) \ {chain', master'} = Retired(index') \ {chain', master'}
            BY <2>1, <3>3, RetiredAreKeys
        <3> QED BY <2>2, <2>3, <3>1, <3>4 DEF Resolves
    <2>4. CASE r.at # "index"
        BY <2>1, <2>2, <2>4, CustodyAssumption DEF Resolves, Steady
    <2> QED BY <2>3, <2>4
<1>2. CASE ~Working(p)
    <2>1. r.at \in {"down", "run"}
        BY <1>2 DEF Working
    <2> QED BY <2>1 DEF Resolves
<1> QED BY <1>1, <1>2

\* A step of p that is not its start keeps the invariant if it types, loses no key that is
\* safe or put away, leaves what others rely on, and leaves p as it should be.
LEMMA StepKeeps ==
    ASSUME IInv, NEW p \in Procs, NEW r, Becomes(p, r),
           proc'[p] \in Process, ListsVaulted(proc[p])',
           p # "cli" => Resolves(proc[p])', p = "cli" => Commands(proc[p])',
           proc'[p].at # "down" => ~IsIn(p, "down"),
           proc'[p].at \notin {"down", "run"} => Working(p),
           Kept, SlotTypes', made' \subseteq Keys, IndexFits(index'),
           \A k \in Keys : InVault(k, index[k])',
           vault.files \subseteq vault'.files, vault.chain \subseteq vault'.chain,
           Safe \subseteq Safe',
           (\E q \in Procs \ {p} : Working(q)) => Steady,
           ~Working(p) => UNCHANGED <<chain, master, index>>
    PROVE  IInv'
<1>1. \A q \in Procs : q # p => proc'[q] = proc[q]
    BY BecomesIs DEF IInv
<1>2. UNCHANGED <<slot, sealed, reach>>
    BY DEF Kept
<1>3. Typed'
    <2>1. Typed
        BY DEF IInv
    <2>2. proc' \in [Procs -> Process]
        BY <2>1, BecomesIs
    <2> QED BY <1>2, <2>1, <2>2 DEF Typed, IndexFits
<1>4. Alone'
    <2>1. \A q \in Procs : Working(q)' => Working(q)
        BY <1>1 DEF Working
    <2>2. (Working("cli") => \A q \in Procs \ {"cli"} : ~Working(q))'
        BY <2>1 DEF IInv, Alone, Procs
    <2>3. \A q \in Procs : ~IsIn(q, "down")' => ~IsIn(q, "down")
        BY <1>1 DEF IsIn
    <2>4. Placed'
        BY <1>2, <2>3 DEF IInv, Alone, Placed
    <2> QED BY <2>2, <2>4 DEF Alone
<1>5. Vaulted'
    <2>1. ASSUME NEW q \in Procs, q # p PROVE ListsVaulted(proc[q])'
        BY <1>1, <2>1 DEF IInv, Vaulted, ListsVaulted, InVault
    <2> QED BY <2>1 DEF Vaulted
<1>6. Used'
    BY <1>2 DEF IInv, Used
<1>7. ASSUME NEW q \in Procs \ {"cli"} PROVE Resolves(proc[q])'
    <2>1. CASE q = p
        BY <2>1
    <2>2. CASE q # p
        BY <1>1, <2>2, OthersKeep DEF IInv, Typed, Vaulted
    <2> QED BY <2>1, <2>2
<1>8. Commands(proc["cli"])'
    <2>1. CASE p # "cli"
        <3>1. proc'["cli"] = proc["cli"]
            BY <1>1, <2>1 DEF Procs
        <3>2. CASE Working("cli")
            <4>1. ~Working(p)
                BY <2>1, <3>2 DEF IInv, Alone, Placed, Procs
            <4> QED BY <1>2, <3>1, <4>1 DEF IInv, Commands, PersistentKey, Held
        <3>3. CASE ~Working("cli")
            BY <3>1, <3>3 DEF IInv, Commands, Working
        <3> QED BY <3>2, <3>3
    <2> QED BY <2>1
<1> QED BY <1>3, <1>4, <1>5, <1>6, <1>7, <1>8 DEF IInv

\* The files and the keychain stay as they are.
LEMMA MovesOn ==
    ASSUME IInv, NEW p \in Procs, NEW r, Becomes(p, r),
           UNCHANGED <<chain, master, legacy, recorded, index, vault, made>>, Kept,
           proc'[p] \in Process, ListsVaulted(proc[p])',
           p # "cli" => Resolves(proc[p])', p = "cli" => Commands(proc[p])',
           proc'[p].at # "down" => ~IsIn(p, "down"),
           proc'[p].at \notin {"down", "run"} => Working(p)
    PROVE  IInv'
<1>1. UNCHANGED <<slots, made>>
    BY DEF Kept, slots
<1>2. SlotTypes' /\ IndexFits(index') /\ (\A k \in Keys : InVault(k, index[k])') /\ made' \subseteq Keys
    BY <1>1 DEF IInv, Typed, SlotTypes, slots, Vaulted, InVault
<1>3. Safe' = Safe /\ Steady
    BY <1>1 DEF Safe, Steady, slots
<1> QED BY <1>1, <1>2, <1>3, StepKeeps DEF slots

LEMMA CandidatesSafe ==
    ASSUME Typed, NEW env \in EnvKeys \cup {NoKey}
    PROVE  /\ CandidateKeys(env) \subseteq Safe /\ CandidateKeys(env) \subseteq Keys
           /\ RetiredKeys \subseteq Safe /\ RetiredKeys \subseteq Keys
           /\ NoKey \notin Safe
BY CustodyAssumption DEF Typed, SlotTypes, CandidateKeys, LiveKeys, Held, RetiredKeys, Loadable, Safe, Retired

\* A process that is down, having failed or not.
LEMMA DownFits ==
    ASSUME NEW env \in EnvKeys \cup {NoKey}, NEW r,
           r \in {Down, [Down EXCEPT !.failed = TRUE], [Down EXCEPT !.failed = TRUE, !.env = env]}
    PROVE  r \in Process /\ r.at = "down" /\ r.job = "resolve"
BY DownIs DEF Process

\* A process may always end.
LEMMA EndsKeep ==
    ASSUME IInv, NEW p \in Procs, NEW r, Becomes(p, r),
           NEW env \in EnvKeys \cup {NoKey},
           r \in {Down, [Down EXCEPT !.failed = TRUE], [Down EXCEPT !.failed = TRUE, !.env = env]},
           UNCHANGED <<chain, master, legacy, recorded, index, vault, made>>, Kept
    PROVE  IInv'
<1>1. r \in Process /\ r.at = "down" /\ r.job = "resolve"
    BY DownFits
<1>2. proc'[p] = r
    BY BecomesIs DEF IInv
<1>3. Resolves(proc[p])' /\ Commands(proc[p])' /\ ListsVaulted(proc[p])'
    BY <1>1, <1>2 DEF Resolves, Commands, ListsVaulted
<1> QED BY <1>1, <1>2, <1>3, MovesOn

LEMMA RefusedKeeps ==
    ASSUME IInv, NEW p \in Procs \ {"cli"}, Working(p), NEW seen, Refused(p, seen),
           UNCHANGED <<chain, master, legacy, recorded, index, vault, made>>, Kept
    PROVE  IInv'
<1>1. proc[p] \in Process /\ proc[p].env \in EnvKeys \cup {NoKey}
    BY DEF IInv, Typed, Process
<1>2. CASE Recovers(p, seen) # {}
    <2>1. seen \in CandidateKeys(proc[p].env)
        BY <1>2 DEF Recovers
    <2>2. seen \in Safe /\ seen \in Keys /\ RetiredKeys \subseteq Keys
        BY <1>1, <2>1, CandidatesSafe DEF IInv
    <2> DEFINE r == [proc[p] EXCEPT !.at = "run", !.key = seen, !.opens = {seen} \cup RetiredKeys]
    <2>3. Becomes(p, r)
        BY <1>2 DEF Refused
    <2>4. r \in Process /\ r.at = "run" /\ r.key = seen /\ r.job = proc[p].job
        BY <1>1, <2>2 DEF Process, Phases
    <2> HIDE DEF r
    <2>5. proc'[p] = r
        BY <2>3, BecomesIs DEF IInv
    <2>6. Safe' = Safe
        BY DEF Safe
    <2>7. Resolves(proc[p])' /\ ListsVaulted(proc[p])'
        BY <2>2, <2>4, <2>5, <2>6 DEF Resolves, ListsVaulted, IInv
    <2> QED BY <2>3, <2>4, <2>5, <2>7, MovesOn DEF Working, IsIn
<1>3. CASE Recovers(p, seen) = {}
    <2>1. Becomes(p, [Down EXCEPT !.failed = TRUE, !.env = proc[p].env])
        BY <1>3 DEF Refused
    <2> QED BY <1>1, <2>1, EndsKeep
<1> QED BY <1>2, <1>3

----------------------------------------------------------------------------
(* The ladder                                                              *)

\* A process that takes a key goes on with it.
LEMMA TakesIs ==
    ASSUME Typed, NEW p \in Procs, NEW k \in Keys, NEW at \in {"decide", "store", "publish"},
           NEW source \in {"file", "keychain", "env"},
           \/ at = "decide" /\ Has(p, k, source)
           \/ at # "decide" /\ Takes(p, k, at)
    PROVE  /\ \E r : Becomes(p, r)
           /\ proc'[p] \in Process /\ proc'[p].at = at /\ proc'[p].key = k
           /\ at = "decide" => proc'[p].source = source
           /\ proc'[p].env = proc[p].env /\ proc'[p].job = proc[p].job
<1>1. proc[p] \in Process /\ recorded \in Keys \cup {NoKey}
    BY DEF Typed, SlotTypes
<1>2. CASE at = "decide"
    <2> DEFINE locked == Observed(p)
               r == [proc[p] EXCEPT !.at = "decide", !.key = k, !.source = source,
                                    !.seen = recorded, !.locked = locked]
    <2>0. locked \in BOOLEAN
        BY DEF Observed
    <2>1. Becomes(p, r)
        BY <1>2 DEF Has
    <2> HIDE DEF locked
    <2>2. r.at = "decide" /\ r.key = k /\ r.source = source
          /\ r.env = proc[p].env /\ r.job = proc[p].job
        BY <1>1 DEF Process
    <2>3. r \in Process
        BY <1>1, <2>0 DEF Process, Phases
    <2> HIDE DEF r
    <2>4. proc'[p] = r
        BY <2>1, BecomesIs
    <2> QED BY <1>2, <2>1, <2>2, <2>3, <2>4
<1>3. CASE at # "decide"
    <2> DEFINE locked == Observed(p)
               r == [proc[p] EXCEPT !.at = at, !.key = k, !.seen = recorded, !.locked = locked]
    <2>0. locked \in BOOLEAN
        BY DEF Observed
    <2>1. Becomes(p, r)
        BY <1>3 DEF Takes
    <2> HIDE DEF locked
    <2>2. r \in Process /\ r.at = at /\ r.key = k
          /\ r.env = proc[p].env /\ r.job = proc[p].job
        BY <1>1, <1>3, <2>0 DEF Process, Phases
    <2> HIDE DEF r
    <2>3. proc'[p] = r
        BY <2>1, BecomesIs
    <2> QED BY <1>3, <2>1, <2>2, <2>3
<1> QED BY <1>2, <1>3

\* A command works alone, and so does the desktop.
LEMMA WorksAlone ==
    ASSUME IInv, NEW p \in Procs, Working(p), slot = "app" \/ p = "cli", NEW q \in Procs \ {p}
    PROVE  ~Working(q)
BY DEF IInv, Alone, Placed, Working, IsIn

\* Taking a key from the ladder, with a copy that is retired or a key that is made.
LEMMA LadderKeeps ==
    ASSUME IInv, NEW p \in Procs \ {"cli"}, IsIn(p, "look"),
           NEW k \in Keys, NEW at \in {"decide", "store", "publish"},
           NEW source \in {"file", "keychain", "env"},
           \/ at = "decide" /\ Has(p, k, source)
           \/ at # "decide" /\ Takes(p, k, at),
           at = "decide" =>
              /\ source = "file" => k = master'
              /\ source = "keychain" => k = chain
              /\ source = "env" => k = proc[p].env
              /\ k \in Safe,
           made' \subseteq Keys,
           \/ UNCHANGED <<master, legacy>>
           \/ CopyIsRetired(chain) /\ chain # NoKey /\ reach = "open",
           UNCHANGED <<chain, recorded, index, vault>>, Kept
    PROVE  IInv'
<1>1. /\ \E r : Becomes(p, r)
      /\ proc'[p] \in Process /\ proc'[p].at = at /\ proc'[p].key = k
      /\ at = "decide" => proc'[p].source = source
      /\ proc'[p].env = proc[p].env /\ proc'[p].job = "resolve"
    <2>1. p \in Procs /\ proc[p].job = "resolve"
        BY DEF IInv, Resolves
    <2>2. CASE at = "decide" /\ Has(p, k, source)
        BY <2>1, <2>2, TakesIs DEF IInv
    <2>3. CASE at # "decide" /\ Takes(p, k, at)
        BY <2>1, <2>3, TakesIs DEF IInv
    <2> QED BY <2>2, <2>3
<1>2. /\ UNCHANGED <<chain, reach, recorded, index, vault>>
      /\ master' \in {master, NoKey} /\ legacy' \in {legacy, NoKey}
      /\ {master, legacy} \subseteq {master', legacy', chain}
      /\ chain = NoKey => master' = master /\ legacy' = legacy
      /\ (master' = master) \/ slot = "app"
    BY DEF Kept, CopyIsRetired, LegacyIsRetired
<1>3. SlotTypes' /\ IndexFits(index') /\ (\A j \in Keys : InVault(j, index[j])')
    BY <1>2 DEF IInv, Typed, SlotTypes, Vaulted, InVault
<1>4. Safe \subseteq Safe'
    BY <1>2 DEF Safe
<1>5. Working(p)
    BY DEF Working, IsIn
<1>6. (\E q \in Procs \ {p} : Working(q)) => Steady
    BY <1>2, <1>5, WorksAlone DEF Steady
<1>7. Resolves(proc[p])' /\ ListsVaulted(proc[p])'
    BY <1>1, <1>2, <1>4 DEF Resolves, ListsVaulted
<1> QED BY <1>1, <1>2, <1>3, <1>4, <1>5, <1>6, <1>7, StepKeeps DEF IsIn

LEMMA GeneratesIs ==
    ASSUME made \subseteq Keys, NEW p, NEW at, Generates(p, at)
    PROVE  made' \subseteq Keys /\ \E k \in Keys : Takes(p, k, at)
<1> DEFINE k == CHOOSE key \in FreshKeys : TRUE
<1>1. k \in FreshKeys
    BY DEF Generates
<1>2. k \in Keys
    BY <1>1 DEF FreshKeys
<1>3. made' = made \cup {k} /\ Takes(p, k, at)
    BY DEF Generates
<1> HIDE DEF k
<1> QED BY <1>2, <1>3

LEMMA LookStep ==
    ASSUME IInv, NEW p \in Procs, Look(p)
    PROVE  IInv'
<1>1. /\ IsIn(p, "look") /\ UNCHANGED <<chain, recorded, index, vault>> /\ Kept
      /\ p \in Procs \ {"cli"}
    BY DEF Look, IInv, Commands, IsIn
<1>2. /\ made \subseteq Keys /\ {chain, master, legacy} \subseteq Keys \cup {NoKey}
      /\ proc[p].env \in EnvKeys \cup {NoKey}
    BY DEF IInv, Typed, SlotTypes, Process
<1>3. CASE proc[p].env # NoKey /\ UsesEnv(p)
    <2>1. proc[p].env \in Keys /\ proc[p].env \in Safe
        BY <1>2, <1>3, CustodyAssumption DEF Safe
    <2> QED BY <1>1, <1>2, <1>3, <2>1, LadderKeeps DEF UsesEnv
<1>4. CASE UsesKeychain(p)
    <2>1. CASE chain # NoKey /\ CopyIsRetired(chain) /\ Has(p, chain, "keychain") /\ UNCHANGED made
        <3>1. chain \in Keys /\ chain \in Safe
            BY <1>2, <2>1 DEF Safe
        <3> QED BY <1>1, <1>2, <1>4, <2>1, <3>1, LadderKeeps DEF UsesKeychain
    <2>2. CASE chain = NoKey /\ FileOrLegacy # NoKey /\ Takes(p, FileOrLegacy, "store")
               /\ UNCHANGED <<made, master, legacy>>
        <3>1. FileOrLegacy \in Keys
            BY <1>2, <2>2 DEF FileOrLegacy
        <3> QED BY <1>1, <1>2, <2>2, <3>1, LadderKeeps
    <2>3. CASE chain = NoKey /\ Generates(p, "store") /\ UNCHANGED <<master, legacy>>
        BY <1>1, <1>2, <2>3, GeneratesIs, LadderKeeps
    <2> QED BY <1>4, <2>1, <2>2, <2>3 DEF UsesKeychain
<1>5. CASE UsesFile(p)
    <2>1. CASE master # NoKey /\ Has(p, master, "file") /\ UNCHANGED <<made, master, legacy>>
        <3>1. master \in Keys /\ master \in Safe
            BY <1>2, <2>1 DEF Safe
        <3> QED BY <1>1, <1>2, <2>1, <3>1, LadderKeeps
    <2>2. CASE legacy # NoKey /\ Takes(p, legacy, "publish") /\ UNCHANGED <<made, master, legacy>>
        BY <1>1, <1>2, <2>2, LadderKeeps
    <2>3. CASE Generates(p, "publish") /\ UNCHANGED <<master, legacy>>
        BY <1>1, <1>2, <2>3, GeneratesIs, LadderKeeps
    <2> QED BY <1>5, <2>1, <2>2, <2>3 DEF UsesFile
<1>6. CASE IsRefused(p)
    BY <1>1, <1>6, RefusedKeeps DEF IsRefused, Working, IsIn
<1> QED BY <1>3, <1>4, <1>5, <1>6 DEF Look

LEMMA GoesIs ==
    ASSUME Typed, NEW p \in Procs, NEW at \in Phases, Goes(p, at)
    PROVE  /\ \E r : Becomes(p, r)
           /\ proc'[p] \in Process /\ proc'[p].at = at
           /\ proc'[p].key = proc[p].key /\ proc'[p].job = proc[p].job
           /\ proc'[p].todo = proc[p].todo
<1> DEFINE r == [proc[p] EXCEPT !.at = at]
<1>1. Becomes(p, r)
    BY DEF Goes
<1>2. r \in Process /\ r.at = at /\ r.key = proc[p].key /\ r.job = proc[p].job
      /\ r.todo = proc[p].todo
    BY DEF Typed, Process
<1> HIDE DEF r
<1>3. proc'[p] = r
    BY <1>1, BecomesIs
<1> QED BY <1>1, <1>2, <1>3

LEMMA StoreStep ==
    ASSUME IInv, ~mishap', NEW p \in Procs, Store(p)
    PROVE  IInv'
<1>1. /\ IsIn(p, "store") /\ UNCHANGED <<master, legacy, recorded, index, vault, made>> /\ Kept
      /\ p \in Procs \ {"cli"}
    BY DEF Store, IInv, Commands, IsIn
<1>2. Working(p) /\ (chain = NoKey \/ chain' = chain) /\ proc[p].key \in Keys /\ proc[p].job = "resolve"
    BY <1>1 DEF Working, IsIn, IInv, Resolves, Store, Unlucky
<1>3. CASE reach = "open" /\ chain' = proc[p].key /\ Goes(p, "verify")
    <2>1. /\ \E r : Becomes(p, r)
          /\ proc'[p] \in Process /\ proc'[p].at = "verify"
          /\ proc'[p].key = proc[p].key /\ proc'[p].job = "resolve"
        BY <1>2, <1>3, GoesIs DEF IInv, Phases
    <2>2. SlotTypes' /\ IndexFits(index') /\ (\A j \in Keys : InVault(j, index[j])') /\ made' \subseteq Keys
        BY <1>1, <1>2, <1>3 DEF IInv, Typed, SlotTypes, Vaulted, InVault, Kept
    <2>3. Safe \subseteq Safe'
        BY <1>1, <1>2 DEF Safe
    <2>4. Steady
        BY <1>1, <1>2 DEF Steady
    <2>5. Resolves(proc[p])' /\ ListsVaulted(proc[p])'
        BY <1>2, <2>1 DEF Resolves, ListsVaulted
    <2> QED BY <1>1, <1>2, <2>1, <2>2, <2>3, <2>4, <2>5, StepKeeps DEF IsIn
<1>4. CASE UNCHANGED chain /\ Goes(p, "publish")
    <2>1. /\ \E r : Becomes(p, r)
          /\ proc'[p] \in Process /\ proc'[p].at = "publish"
          /\ proc'[p].key = proc[p].key /\ proc'[p].job = "resolve"
        BY <1>2, <1>4, GoesIs DEF IInv, Phases
    <2>2. Resolves(proc[p])' /\ ListsVaulted(proc[p])'
        BY <1>2, <2>1 DEF Resolves, ListsVaulted
    <2> QED BY <1>1, <1>2, <1>4, <2>1, <2>2, MovesOn DEF IsIn
<1> QED BY <1>3, <1>4 DEF Store

LEMMA VerifyStep ==
    ASSUME IInv, NEW p \in Procs, Verify(p)
    PROVE  IInv'
<1>1. /\ IsIn(p, "verify") /\ UNCHANGED <<chain, recorded, index, vault, made>> /\ Kept
      /\ p \in Procs \ {"cli"}
    BY DEF Verify, IInv, Commands, IsIn
<1>2. Working(p) /\ proc[p].key \in Keys /\ proc[p].job = "resolve" /\ proc[p] \in Process
    BY <1>1 DEF Working, IsIn, IInv, Resolves, Typed
<1> DEFINE r == [proc[p] EXCEPT !.at = "decide", !.source = "keychain"]
<1>3. CASE proc[p].key \in Held /\ CopyIsRetired(proc[p].key) /\ Becomes(p, r)
    <2>1. reach = "open" /\ chain = proc[p].key /\ chain # NoKey
        BY <1>3 DEF Held
    <2>2. /\ r \in Process /\ r.at = "decide" /\ r.source = "keychain" /\ r.key = chain
          /\ r.job = "resolve"
        BY <1>2, <2>1 DEF Process, Phases
    <2> HIDE DEF r
    <2>3. proc'[p] = r
        BY <1>3, BecomesIs DEF IInv
    <2>4. /\ master' \in {master, NoKey} /\ legacy' \in {legacy, NoKey}
          /\ {master, legacy} \subseteq {master', legacy', chain}
        BY <1>3, <2>1 DEF CopyIsRetired, LegacyIsRetired
    <2>5. SlotTypes' /\ IndexFits(index') /\ (\A j \in Keys : InVault(j, index[j])') /\ made' \subseteq Keys
        BY <1>1, <2>4 DEF IInv, Typed, SlotTypes, Vaulted, InVault, Kept
    <2>6. Safe \subseteq Safe' /\ chain \in Safe
        BY <1>1, <2>1, <2>4 DEF Safe
    <2>7. (\E q \in Procs \ {p} : Working(q)) => Steady
        BY <1>1, <1>2, <1>3, WorksAlone DEF Steady, CopyIsRetired
    <2>8. Resolves(proc[p])' /\ ListsVaulted(proc[p])'
        BY <1>1, <1>2, <2>1, <2>2, <2>3, <2>6 DEF Resolves, ListsVaulted
    <2> QED BY <1>1, <1>2, <1>3, <2>2, <2>3, <2>5, <2>6, <2>7, <2>8, StepKeeps DEF IsIn
<1>4. CASE Refused(p, proc[p].seen) /\ UNCHANGED <<master, legacy>>
    BY <1>1, <1>2, <1>4, RefusedKeeps
<1> QED BY <1>3, <1>4 DEF Verify

LEMMA PublishStep ==
    ASSUME IInv, NEW p \in Procs, Publish(p)
    PROVE  IInv'
<1> DEFINE r == [proc[p] EXCEPT !.at = "decide", !.key = master', !.source = "file"]
<1>1. /\ IsIn(p, "publish") /\ UNCHANGED <<chain, legacy, recorded, index, vault, made>> /\ Kept
      /\ p \in Procs \ {"cli"} /\ master' = Published(proc[p].key) /\ Becomes(p, r)
    BY DEF Publish, IInv, Commands, IsIn
<1>2. Working(p) /\ proc[p].key \in Keys /\ proc[p].job = "resolve" /\ proc[p] \in Process
    BY <1>1 DEF Working, IsIn, IInv, Resolves, Typed
<1>3. master' \in Keys /\ master' # NoKey /\ (master # NoKey => master' = master)
    BY <1>1, <1>2, CustodyAssumption DEF Published, IInv, Typed, SlotTypes
<1>4. r \in Process /\ r.at = "decide" /\ r.source = "file" /\ r.key = master' /\ r.job = "resolve"
    BY <1>2, <1>3 DEF Process, Phases
<1> HIDE DEF r
<1>5. proc'[p] = r
    BY <1>1, BecomesIs DEF IInv
<1>6. SlotTypes' /\ IndexFits(index') /\ (\A j \in Keys : InVault(j, index[j])') /\ made' \subseteq Keys
    BY <1>1, <1>3 DEF IInv, Typed, SlotTypes, Vaulted, InVault, Kept
<1>7. Safe \subseteq Safe' /\ Steady /\ master' \in Safe'
    BY <1>1, <1>3 DEF Safe, Steady
<1>8. Resolves(proc[p])' /\ ListsVaulted(proc[p])'
    BY <1>3, <1>4, <1>5, <1>7 DEF Resolves, ListsVaulted
<1> QED BY <1>1, <1>2, <1>4, <1>5, <1>6, <1>7, <1>8, StepKeeps DEF IsIn

----------------------------------------------------------------------------
(* The decision                                                            *)

\* A process that runs under a safe key, or will once it has put away the slot's.
LEMMA RunsKeeps ==
    ASSUME IInv, NEW p \in Procs \ {"cli"}, IsIn(p, "decide"), NEW k \in Safe, k \in Keys,
           NEW todo, todo \subseteq {chain, master}, todo \subseteq Keys,
           NEW at \in {"run", "retire", "record"}, Runs(p, k, todo, at),
           UNCHANGED <<chain, master, legacy, recorded, index, vault, made>>, Kept
    PROVE  IInv'
<1> DEFINE r == [proc[p] EXCEPT !.at = at, !.key = k, !.old = proc[p].key, !.todo = todo,
                                !.opens = {k, proc[p].key} \cup RetiredKeys]
<1>1. Becomes(p, r)
    BY DEF Runs
<1>2. proc[p] \in Process /\ proc[p].job = "resolve" /\ RetiredKeys \subseteq Keys
    BY CandidatesSafe DEF IInv, Typed, Resolves, RetiredKeys
<1>3. r \in Process /\ r.at = at /\ r.key = k /\ r.todo = todo /\ r.job = "resolve"
    <2>1. {k, proc[p].key} \cup RetiredKeys \in SUBSET (Keys \cup {NoKey})
        BY <1>2 DEF Process
    <2> QED BY <1>2, <2>1 DEF Process, Phases
<1> HIDE DEF r
<1>4. proc'[p] = r
    BY <1>1, BecomesIs DEF IInv
<1>5. Safe' = Safe
    BY DEF Safe
<1>6. Resolves(proc[p])' /\ ListsVaulted(proc[p])'
    BY <1>3, <1>4, <1>5 DEF Resolves, ListsVaulted
<1> QED BY <1>1, <1>3, <1>4, <1>6, MovesOn DEF Working, IsIn

LEMMA DecideStep ==
    ASSUME IInv, NEW p \in Procs, Decide(p)
    PROVE  IInv'
<1>1. /\ IsIn(p, "decide") /\ UNCHANGED <<chain, master, legacy, recorded, index, vault, made>> /\ Kept
      /\ p \in Procs \ {"cli"}
    BY DEF Decide, IInv, Commands, IsIn
<1> DEFINE seen == proc[p].seen
           k == proc[p].key
           others == CandidateKeys(proc[p].env)
<1>2. /\ k \in Keys /\ k \in Safe /\ proc[p] \in Process /\ proc[p].job = "resolve"
      /\ Mismatched(p) \subseteq {chain, master} /\ Mismatched(p) \subseteq Keys
      /\ proc[p].env \in EnvKeys \cup {NoKey}
    BY <1>1 DEF IInv, Resolves, IsIn, Typed, Process, Mismatched
<1>3. others \subseteq Safe /\ others \subseteq Keys
    BY <1>2, CandidatesSafe DEF IInv
<1>4. CASE p # "desktop"
    <2>1. DecideMaster(p)
        BY <1>4 DEF Decide
    <2>2. \/ Runs(p, k, {}, "run") \/ Runs(p, k, {}, "record")
          \/ Becomes(p, [Down EXCEPT !.failed = TRUE, !.env = proc[p].env])
          \/ \E other \in others : Runs(p, other, Mismatched(p), "retire")
        BY <2>1 DEF DecideMaster
    <2>3. CASE Runs(p, k, {}, "run") \/ Runs(p, k, {}, "record")
        BY <1>1, <1>2, <2>3, RunsKeeps
    <2>4. CASE Becomes(p, [Down EXCEPT !.failed = TRUE, !.env = proc[p].env])
        BY <1>1, <1>2, <2>4, EndsKeep
    <2>5. ASSUME NEW other \in others, Runs(p, other, Mismatched(p), "retire") PROVE IInv'
        BY <1>1, <1>2, <1>3, <2>5, RunsKeeps
    <2> QED BY <2>2, <2>3, <2>4, <2>5
<1>5. CASE p = "desktop"
    <2>1. AppCandidates(p) \subseteq Keys /\ AppCandidates(p) \subseteq Safe
        BY <1>2, CustodyAssumption DEF AppCandidates, Safe, Held, IInv, Typed, SlotTypes
    <2>2. ASSUME NEW j \in Keys, j \in Safe, RunsApp(p, j) PROVE IInv'
        <3> DEFINE at == IF proc[p].seen = j THEN "run" ELSE "record"
                   r == [proc[p] EXCEPT !.at = at, !.key = j, !.opens = AppCandidates(p)]
        <3>1. Becomes(p, r)
            BY <2>2 DEF RunsApp
        <3>2. at \in {"run", "record"}
            OBVIOUS
        <3> HIDE DEF at
        <3>3. r \in Process /\ r.at = at /\ r.key = j /\ r.job = "resolve"
            BY <1>2, <2>1, <3>2 DEF Process, Phases
        <3> HIDE DEF r
        <3>4. proc'[p] = r
            BY <3>1, BecomesIs DEF IInv
        <3>5. Safe' = Safe
            BY <1>1 DEF Safe
        <3>6. Resolves(proc[p])' /\ ListsVaulted(proc[p])'
            BY <2>2, <3>2, <3>3, <3>4, <3>5 DEF Resolves, ListsVaulted
        <3> QED BY <1>1, <3>1, <3>2, <3>3, <3>4, <3>6, MovesOn DEF Working, IsIn
    <2>3. \/ RunsApp(p, k)
          \/ seen \in AppCandidates(p) /\ RunsApp(p, seen)
          \/ Becomes(p, [Down EXCEPT !.failed = TRUE])
        BY <1>5 DEF Decide, DecideApp
    <2>4. CASE Becomes(p, [Down EXCEPT !.failed = TRUE])
        BY <1>1, <1>2, <2>4, EndsKeep
    <2> QED BY <1>2, <2>1, <2>2, <2>3, <2>4
<1> QED BY <1>4, <1>5

----------------------------------------------------------------------------
(* Putting keys away                                                       *)

LEMMA Retired1Is ==
    ASSUME Typed, NEW p \in Procs, NEW k, Becomes(p, Retired1(p, k))
    PROVE  /\ proc'[p] \in Process /\ proc'[p].at = "retire"
           /\ proc'[p].todo = proc[p].todo \ {k}
           /\ proc'[p].key = proc[p].key /\ proc'[p].job = proc[p].job
<1> DEFINE r == [proc[p] EXCEPT !.todo = @ \ {k}, !.at = "retire"]
<1>1. Becomes(p, r)
    BY DEF Retired1
<1>2. r \in Process /\ r.at = "retire" /\ r.todo = proc[p].todo \ {k}
      /\ r.key = proc[p].key /\ r.job = proc[p].job
    <2>1. proc[p] \in Process /\ proc[p].todo \ {k} \in SUBSET Keys /\ "retire" \in Phases
        BY DEF Typed, Process, Phases
    <2> DEFINE todo == proc[p].todo \ {k}
    <2>2. r = [proc[p] EXCEPT !.todo = todo, !.at = "retire"]
        BY <2>1 DEF Process
    <2> HIDE DEF r, todo
    <2>3. r \in Process /\ r.at = "retire" /\ r.todo = todo
          /\ r.key = proc[p].key /\ r.job = proc[p].job
        BY <2>1, <2>2 DEF Process, todo
    <2> QED BY <2>3 DEF todo
<1> HIDE DEF r
<1>3. proc'[p] = r
    BY <1>1, BecomesIs
<1> QED BY <1>1, <1>2, <1>3

\* A key that is dealt with is listed, or was given up by a process that only resolves.
LEMMA RetiredKeeps ==
    ASSUME IInv, NEW p \in Procs, IsIn(p, "retire"), NEW k, Becomes(p, Retired1(p, k)),
           p = "cli" => k \in Retired(index),
           UNCHANGED <<chain, master, legacy, recorded, index, vault, made>>, Kept
    PROVE  IInv'
<1>1. /\ proc'[p] \in Process /\ proc'[p].at = "retire"
      /\ proc'[p].todo = proc[p].todo \ {k}
      /\ proc'[p].key = proc[p].key /\ proc'[p].job = proc[p].job
    BY Retired1Is DEF IInv
<1>2. Safe' = Safe /\ PersistentKey' = PersistentKey
    BY DEF Safe, PersistentKey, Held, Kept
<1>3. ListsVaulted(proc[p])'
    BY <1>1 DEF ListsVaulted
<1>4. p # "cli" => Resolves(proc[p])'
    BY <1>1, <1>2 DEF IInv, Resolves, IsIn
<1>5. p = "cli" => Commands(proc[p])'
    BY <1>1, <1>2 DEF IInv, Commands, IsIn
<1> QED BY <1>1, <1>3, <1>4, <1>5, MovesOn DEF Working, IsIn

LEMMA PutAwayKeeps ==
    ASSUME IInv, NEW p \in Procs, IsIn(p, "retire"), NEW k \in proc[p].todo, ~IsFull,
           NEW custody \in {"file", "keychain"}, PutAway(k, custody),
           Becomes(p, [proc[p] EXCEPT !.at = "index", !.old = k, !.idx = index,
                                      !.custody = custody]),
           UNCHANGED <<chain, master, legacy, recorded, index, made>>, Kept
    PROVE  IInv'
<1> DEFINE r == [proc[p] EXCEPT !.at = "index", !.old = k, !.idx = index, !.custody = custody]
<1>1. proc[p] \in Process /\ k \in Keys /\ index \in [Keys -> Custodies]
      /\ vault \in [files : SUBSET Keys, chain : SUBSET Keys]
    BY DEF IInv, Typed, Process, SlotTypes
<1>2. r \in Process /\ r.at = "index" /\ r.old = k /\ r.idx = index /\ r.custody = custody
      /\ r.todo = proc[p].todo /\ r.key = proc[p].key /\ r.job = proc[p].job
    <2>1. custody \in Custodies /\ "index" \in Phases
        BY DEF Custodies, Phases
    <2> QED BY <1>1, <2>1 DEF Process
<1> HIDE DEF r
<1>3. proc'[p] = r
    BY BecomesIs DEF IInv, r
<1>4. /\ vault' \in [files : SUBSET Keys, chain : SUBSET Keys]
      /\ vault.files \subseteq vault'.files /\ vault.chain \subseteq vault'.chain
      /\ InVault(k, custody)'
    BY <1>1 DEF PutAway, InVault
<1>5. SlotTypes' /\ IndexFits(index') /\ (\A j \in Keys : InVault(j, index[j])') /\ made' \subseteq Keys
    BY <1>4 DEF IInv, Typed, SlotTypes, Vaulted, InVault, Kept
<1>6. Safe' = Safe /\ PersistentKey' = PersistentKey /\ Steady
    BY DEF Safe, PersistentKey, Held, Kept, Steady
<1>7. ListsVaulted(proc[p])'
    <2>1. Cardinality(Retired(index)) < MaxRetired
        BY FS_CardinalityType, CustodyAssumption DEF IInv, Typed, IndexFits, IsFull
    <2> QED BY <1>1, <1>2, <1>3, <1>4, <1>5, <2>1 DEF ListsVaulted, IInv, Typed, IndexFits
<1>8. p # "cli" => Resolves(proc[p])'
    BY <1>1, <1>2, <1>3, <1>6 DEF IInv, Resolves, IsIn
<1>9. p = "cli" => Commands(proc[p])'
    BY <1>2, <1>3, <1>6 DEF IInv, Commands, IsIn
<1> QED BY <1>2, <1>3, <1>4, <1>5, <1>6, <1>7, <1>8, <1>9, StepKeeps DEF Working, IsIn

LEMMA RetireStep ==
    ASSUME IInv, NEW p \in Procs, RetireKey(p)
    PROVE  IInv'
<1>1. IsIn(p, "retire") /\ UNCHANGED <<chain, master, legacy, recorded, index, made>> /\ Kept
    BY DEF RetireKey
<1>2. PICK k \in proc[p].todo :
          \/ index[k] # "none" /\ Becomes(p, Retired1(p, k)) /\ UNCHANGED vault
          \/ /\ index[k] = "none" /\ IsFull
             /\ Becomes(p, IF p = "cli" THEN Down ELSE Retired1(p, k))
             /\ UNCHANGED vault
          \/ /\ index[k] = "none" /\ ~IsFull
             /\ \E custody \in {"file", "keychain"} :
                   /\ custody = "keychain" => PrefersKeychain(p) /\ reach = "open"
                   /\ PutAway(k, custody)
                   /\ Becomes(p, [proc[p] EXCEPT !.at = "index", !.old = k, !.idx = index,
                                                 !.custody = custody])
    BY DEF RetireKey
<1>3. k \in Keys
    BY DEF IInv, Typed, Process
<1>4. CASE index[k] # "none" /\ Becomes(p, Retired1(p, k)) /\ UNCHANGED vault
    BY <1>1, <1>3, <1>4, RetiredKeeps DEF Retired
<1>5. CASE p # "cli" /\ Becomes(p, Retired1(p, k)) /\ UNCHANGED vault
    BY <1>1, <1>5, RetiredKeeps
<1>6. CASE Becomes(p, Down) /\ UNCHANGED vault
    BY <1>1, <1>6, EndsKeep
<1>7. ASSUME ~IsFull, NEW custody \in {"file", "keychain"}, PutAway(k, custody),
             Becomes(p, [proc[p] EXCEPT !.at = "index", !.old = k, !.idx = index,
                                        !.custody = custody])
      PROVE  IInv'
    BY <1>1, <1>7, PutAwayKeeps
<1> QED BY <1>2, <1>4, <1>5, <1>6, <1>7

\* The list as it was read, with one key more: only keys of the slots can be missing.
LEMMA ListStep ==
    ASSUME IInv, NEW p \in Procs, ListKey(p)
    PROVE  IInv'
<1> DEFINE idx == proc[p].idx
           old == proc[p].old
<1>1. /\ IsIn(p, "index") /\ index' = [idx EXCEPT ![old] = proc[p].custody]
      /\ Becomes(p, Retired1(p, old))
      /\ UNCHANGED <<chain, master, legacy, recorded, vault, made>> /\ Kept
    BY DEF ListKey
<1>2. /\ idx \in [Keys -> Custodies] /\ proc[p].custody \in Custodies \ {"none"} /\ old \in Keys
      /\ IsFiniteSet(Retired(idx)) /\ Cardinality(Retired(idx)) < MaxRetired
      /\ \A k \in Keys : InVault(k, idx[k])
      /\ InVault(old, proc[p].custody)
    BY <1>1 DEF IInv, Typed, Process, Vaulted, ListsVaulted, IsIn
<1>3. /\ index' \in [Keys -> Custodies] /\ Retired(index') = Retired(idx) \cup {old}
      /\ \A k \in Keys : InVault(k, index'[k])
    BY <1>1, <1>2 DEF Retired
<1>4. IndexFits(index')
    <2>1. /\ IsFiniteSet(Retired(idx) \cup {old})
          /\ \/ Cardinality(Retired(idx) \cup {old}) = Cardinality(Retired(idx))
             \/ Cardinality(Retired(idx) \cup {old}) = Cardinality(Retired(idx)) + 1
        BY <1>2, FS_AddElement
    <2>2. Cardinality(Retired(idx)) \in Nat /\ MaxRetired \in Nat
        BY <1>2, FS_CardinalityType, CustodyAssumption
    <2> QED BY <1>2, <1>3, <2>1, <2>2 DEF IndexFits
<1>5. /\ proc'[p] \in Process /\ proc'[p].at = "retire" /\ proc'[p].todo = proc[p].todo \ {old}
      /\ proc'[p].key = proc[p].key /\ proc'[p].job = proc[p].job
    BY <1>1, Retired1Is DEF IInv
<1>6. SlotTypes' /\ (\A j \in Keys : InVault(j, index[j])') /\ made' \subseteq Keys
    BY <1>1, <1>3 DEF IInv, Typed, SlotTypes, Kept, InVault
<1>7. /\ p = "cli" => Retired(index) \subseteq Retired(index')
      /\ p # "cli" => Retired(idx) \ {chain, master} = Retired(index) \ {chain, master}
                      /\ old \in {chain, master}
    BY <1>1, <1>3 DEF IInv, Commands, Resolves, IsIn
<1>8. Safe \subseteq Safe'
    BY <1>1, <1>3, <1>7, RetiredAreKeys, CustodyAssumption DEF Safe
<1>9. p # "cli" => Steady
    BY <1>1, <1>3, <1>7 DEF Steady
<1>10. Working(p)
    BY <1>1 DEF Working, IsIn
<1>11. (\E q \in Procs \ {p} : Working(q)) => p # "cli"
    BY <1>10, WorksAlone
<1>12. ListsVaulted(proc[p])'
    BY <1>5 DEF ListsVaulted
<1>13. p # "cli" => Resolves(proc[p])'
    <2> SUFFICES ASSUME p # "cli" PROVE Resolves(proc[p])'
        OBVIOUS
    <2>1. proc[p].job = "resolve" /\ proc[p].key \in Keys /\ proc[p].key \in Safe
          /\ proc[p].todo \subseteq {chain, master}
        BY <1>1 DEF IInv, Resolves, IsIn
    <2> QED BY <1>1, <1>5, <1>8, <2>1 DEF Resolves
<1>14. p = "cli" => Commands(proc[p])'
    <2>1. PersistentKey' = PersistentKey
        BY <1>1 DEF PersistentKey, Held, Kept
    <2> QED BY <1>1, <1>3, <1>5, <1>7, <2>1 DEF IInv, Commands, IsIn
<1> QED BY <1>1, <1>4, <1>5, <1>6, <1>8, <1>9, <1>10, <1>11, <1>12, <1>13, <1>14, StepKeeps DEF IsIn

LEMMA EndRetiringStep ==
    ASSUME IInv, NEW p \in Procs, EndRetiring(p)
    PROVE  IInv'
<1>1. /\ IsIn(p, "retire") /\ proc[p].todo = {}
      /\ UNCHANGED <<chain, master, legacy, recorded, index, vault, made>> /\ Kept
      /\ IF AfterRetiring(p) = "down" THEN Becomes(p, Down) ELSE Goes(p, AfterRetiring(p))
    BY DEF EndRetiring
<1> DEFINE at == AfterRetiring(p)
<1>2. /\ p # "cli" => at \in {"record", "run"}
      /\ p = "cli" => \/ at = "install" /\ proc[p].job = "install"
                      \/ at = "down" \/ at = "remove"
    BY <1>1 DEF AfterRetiring, IInv, Typed, Process, Resolves, Commands, IsIn
<1> HIDE DEF at
<1>3. CASE at = "down"
    BY <1>1, <1>3, EndsKeep DEF at
<1>4. CASE at # "down"
    <2>1. /\ \E r : Becomes(p, r)
          /\ proc'[p] \in Process /\ proc'[p].at = at
          /\ proc'[p].key = proc[p].key /\ proc'[p].job = proc[p].job
          /\ proc'[p].todo = proc[p].todo
        BY <1>1, <1>2, <1>4, GoesIs DEF IInv, at, Phases
    <2>2. Safe' = Safe /\ PersistentKey' = PersistentKey
        BY <1>1 DEF Safe, PersistentKey, Held, Kept
    <2>3. ListsVaulted(proc[p])'
        BY <1>2, <2>1 DEF ListsVaulted
    <2>4. p # "cli" => Resolves(proc[p])'
        BY <1>1, <1>2, <2>1, <2>2 DEF IInv, Resolves, IsIn
    <2>5. p = "cli" => Commands(proc[p])'
        BY <1>1, <1>2, <1>4, <2>1, <2>2 DEF IInv, Commands, IsIn
    <2> QED BY <1>1, <2>1, <2>3, <2>4, <2>5, MovesOn DEF Working, IsIn
<1> QED BY <1>3, <1>4

LEMMA RecordStep ==
    ASSUME IInv, NEW p \in Procs, WriteRecord(p)
    PROVE  IInv'
<1>1. /\ IsIn(p, "record") /\ recorded' = proc[p].key
      /\ UNCHANGED <<chain, master, legacy, index, vault, made>> /\ Kept
      /\ IF p = "cli" THEN Becomes(p, Down) ELSE Goes(p, "run")
    BY DEF WriteRecord
<1>2. proc[p].key \in Keys /\ Working(p)
    BY <1>1 DEF IInv, Resolves, Commands, IsIn, Working
<1>3. SlotTypes' /\ IndexFits(index') /\ (\A j \in Keys : InVault(j, index[j])') /\ made' \subseteq Keys
    BY <1>1, <1>2 DEF IInv, Typed, SlotTypes, Vaulted, InVault, Kept
<1>4. Safe' = Safe /\ Steady
    BY <1>1 DEF Safe, Steady
<1>5. CASE p = "cli"
    <2>1. proc'[p] = Down
        BY <1>1, <1>5, BecomesIs DEF IInv
    <2>2. Commands(proc[p])' /\ ListsVaulted(proc[p])'
        BY <2>1, DownIs DEF Commands, ListsVaulted
    <2> QED BY <1>1, <1>2, <1>3, <1>4, <1>5, <2>1, <2>2, DownIs, StepKeeps DEF IsIn
<1>6. CASE p # "cli"
    <2>1. /\ \E r : Becomes(p, r)
          /\ proc'[p] \in Process /\ proc'[p].at = "run"
          /\ proc'[p].key = proc[p].key /\ proc'[p].job = proc[p].job
        BY <1>1, <1>6, GoesIs DEF IInv, Phases
    <2>2. ListsVaulted(proc[p])' /\ Resolves(proc[p])'
        BY <1>1, <1>2, <1>4, <1>6, <2>1 DEF IInv, Resolves, ListsVaulted, IsIn
    <2> QED BY <1>1, <1>2, <1>3, <1>4, <1>6, <2>1, <2>2, StepKeeps DEF IsIn
<1> QED BY <1>5, <1>6

----------------------------------------------------------------------------
(* The commands                                                            *)

\* The key that is replaced has been put away.
LEMMA StoreCurrentStep ==
    ASSUME IInv, ~mishap', StoreCurrent
    PROVE  IInv'
<1>1. /\ IsIn("cli", "install") /\ Goes("cli", "record") /\ "cli" \in Procs
      /\ UNCHANGED <<legacy, recorded, index, vault, made>> /\ Kept
      /\ \/ reach = "open" /\ chain' \in {chain, proc["cli"].key} /\ UNCHANGED master
         \/ reach # "open" /\ master' = proc["cli"].key /\ UNCHANGED chain
    BY DEF StoreCurrent, Unlucky, Procs
<1>2. /\ proc["cli"].key \in Keys /\ Working("cli")
      /\ proc["cli"].job = "install"
      /\ PersistentKey \in {proc["cli"].key, NoKey} \cup Retired(index)
    BY <1>1 DEF IInv, Commands, IsIn, Working
<1>3. SlotTypes' /\ IndexFits(index') /\ (\A j \in Keys : InVault(j, index[j])') /\ made' \subseteq Keys
    BY <1>1, <1>2 DEF IInv, Typed, SlotTypes, Vaulted, InVault, Kept
<1>4. Safe \subseteq Safe'
    BY <1>1, <1>2, CustodyAssumption DEF Safe, PersistentKey, Held
<1>5. /\ \E r : Becomes("cli", r)
      /\ proc'["cli"] \in Process /\ proc'["cli"].at = "record"
      /\ proc'["cli"].key = proc["cli"].key /\ proc'["cli"].job = "install"
    BY <1>1, <1>2, GoesIs DEF IInv, Phases
<1>6. Commands(proc["cli"])' /\ ListsVaulted(proc["cli"])'
    BY <1>2, <1>5 DEF Commands, ListsVaulted
<1>7. \A q \in Procs \ {"cli"} : ~Working(q)
    BY <1>1, <1>2, WorksAlone
<1> QED BY <1>1, <1>2, <1>3, <1>4, <1>5, <1>6, <1>7, StepKeeps DEF IsIn

LEMMA RemoveStep ==
    ASSUME IInv, RemoveRetired
    PROVE  IInv'
<1> DEFINE k == proc["cli"].key
<1>1. /\ IsIn("cli", "remove") /\ Becomes("cli", Down) /\ "cli" \in Procs
      /\ UNCHANGED <<chain, recorded, index, vault, made>> /\ Kept
      /\ master' \in {master, NoKey} /\ legacy' \in {legacy, NoKey}
      /\ master' # master => master = k /\ Loadable(k)
      /\ legacy' # legacy => legacy = k /\ Loadable(k)
    BY DEF RemoveRetired, ReadsBack, Procs
<1>2. k \in Keys /\ Working("cli")
    BY <1>1 DEF IInv, Commands, IsIn, Working
<1>3. Loadable(k) => k \in Retired(index)
    BY <1>2 DEF Loadable, Retired
<1>4. SlotTypes' /\ IndexFits(index') /\ (\A j \in Keys : InVault(j, index[j])') /\ made' \subseteq Keys
    BY <1>1 DEF IInv, Typed, SlotTypes, Vaulted, InVault, Kept
<1>5. Safe \subseteq Safe'
    BY <1>1, <1>3 DEF Safe
<1>6. proc'["cli"] = Down
    BY <1>1, BecomesIs DEF IInv
<1>7. Commands(proc["cli"])' /\ ListsVaulted(proc["cli"])'
    BY <1>6, DownIs DEF Commands, ListsVaulted
<1>8. \A q \in Procs \ {"cli"} : ~Working(q)
    BY <1>1, <1>2, WorksAlone
<1> QED BY <1>1, <1>2, <1>4, <1>5, <1>6, <1>7, <1>8, DownIs, StepKeeps DEF IsIn

----------------------------------------------------------------------------
(* Processes come and go                                                   *)

LEMMA BeginsKeep ==
    ASSUME IInv, NEW p \in Procs, NEW r \in Process, MayBegin(p), Becomes(p, r),
           UNCHANGED <<slots, slot, sealed, made>>, ListsVaulted(r),
           r.at # "down",
           p # "cli" => r.at = "run" \/ ~Working("cli"),
           p = "cli" => \A q \in Procs \ {"cli"} : ~Working(q),
           p # "cli" => Resolves(r), p = "cli" => Commands(r)
    PROVE  IInv'
<1>1. proc'[p] = r /\ (\A q \in Procs : q # p => proc'[q] = proc[q]) /\ proc' \in [Procs -> Process]
    BY BecomesIs DEF IInv
<1>2. UNCHANGED <<chain, reach, master, legacy, recorded, index, vault, slot, sealed, made>>
    BY DEF slots
<1>3. Safe' = Safe /\ PersistentKey' = PersistentKey
    BY <1>2 DEF Safe, PersistentKey, Held
<1>4. Typed'
    BY <1>1, <1>2 DEF IInv, Typed, SlotTypes
<1>5. Alone'
    <2>1. slot = IF p = "desktop" THEN "app" ELSE "master"
        BY DEF MayBegin
    <2>2. Placed'
        BY <1>1, <1>2, <2>1 DEF IInv, Alone, Placed, IsIn
    <2>3. Working("cli")' => \A q \in Procs \ {"cli"} : ~Working(q)'
        BY <1>1 DEF IInv, Alone, Placed, Working, IsIn, Procs
    <2> QED BY <2>2, <2>3 DEF Alone
<1>6. \A q \in Procs : ListsVaulted(proc[q])'
    BY <1>1, <1>2 DEF IInv, Vaulted, ListsVaulted, InVault
<1>7. Vaulted' /\ Used'
    BY <1>2, <1>3, <1>6 DEF IInv, Vaulted, InVault, Used
<1>8. \A q \in Procs \ {"cli"} : Resolves(proc[q])'
    BY <1>1, <1>2, <1>3 DEF IInv, Resolves
<1>9. Commands(proc["cli"])'
    <2>1. CASE p = "cli"
        BY <1>1, <1>2, <1>3, <2>1 DEF Commands
    <2>2. CASE p # "cli"
        BY <1>1, <1>2, <1>3, <2>2 DEF IInv, Commands, Procs
    <2> QED BY <2>1, <2>2
<1> QED BY <1>4, <1>5, <1>7, <1>8, <1>9 DEF IInv

LEMMA StartStep ==
    ASSUME IInv, ~mishap', NEW p \in Procs, NEW env \in EnvKeys \cup {NoKey}, Start(p, env)
    PROVE  IInv'
<1> DEFINE r == [Down EXCEPT !.at = "look", !.env = env]
<1>1. p # "cli" /\ ~Working("cli") /\ MayBegin(p) /\ Becomes(p, r) /\ UNCHANGED <<slots, slot, sealed, made>>
    BY DEF Start, Unlucky
<1>2. r \in Process /\ r.at = "look" /\ r.job = "resolve"
    BY DownIs DEF Process, Phases
<1> HIDE DEF r
<1>3. Resolves(r) /\ ListsVaulted(r)
    BY <1>2 DEF Resolves, ListsVaulted
<1> QED BY <1>1, <1>2, <1>3, BeginsKeep

LEMMA DeliverStep ==
    ASSUME IInv, Deliver
    PROVE  IInv'
<1> DEFINE k == proc["core"].key
           opens == proc["core"].opens
           r == [Down EXCEPT !.at = "run", !.key = k, !.opens = opens]
<1>1. /\ IsIn("core", "run") /\ MayBegin("gateway") /\ Becomes("gateway", r)
      /\ UNCHANGED <<slots, slot, sealed, made>> /\ "gateway" \in Procs
    BY DEF Deliver, Procs
<1>2. k \in Keys /\ k \in Safe /\ opens \in SUBSET (Keys \cup {NoKey})
    BY <1>1 DEF IInv, Typed, Process, Procs, Resolves, IsIn
<1> HIDE DEF k, opens
<1>3. r \in Process /\ r.at = "run" /\ r.job = "resolve" /\ r.key = k
    BY <1>2, DownIs DEF Process, Phases
<1> HIDE DEF r
<1>4. Resolves(r) /\ ListsVaulted(r)
    BY <1>2, <1>3 DEF Resolves, ListsVaulted
<1> QED BY <1>1, <1>3, <1>4, BeginsKeep

LEMMA CommandedKeeps ==
    ASSUME IInv, ~mishap', MayBegin("cli"), NEW job \in {"install", "keep", "retire"},
           NEW k \in Keys, NEW env \in EnvKeys \cup {NoKey}, NEW todo \in SUBSET Keys,
           Commanded(job, k, env, todo, "retire"),
           job = "install" => PersistentKey \in {k, NoKey} \cup todo
    PROVE  IInv'
<1> DEFINE r == [Down EXCEPT !.at = "retire", !.job = job, !.key = k, !.env = env, !.todo = todo]
<1>1. Becomes("cli", r) /\ UNCHANGED <<slots, slot, sealed, made>> /\ "cli" \in Procs
    BY DEF Commanded, Procs
<1>2. r \in Process /\ r.at = "retire" /\ r.job = job /\ r.key = k /\ r.todo = todo
    BY DownIs DEF Process, Phases
<1> HIDE DEF r
<1>3. Commands(r) /\ ListsVaulted(r)
    BY <1>2 DEF Commands, ListsVaulted
<1>4. \A q \in Procs \ {"cli"} : ~Working(q)
    <2>1. IsIn("core", "down") /\ ~Working("gateway")
        BY DEF Commanded, Unlucky
    <2>2. IsIn("desktop", "down")
        BY DEF MayBegin, IInv, Alone, Placed, Procs
    <2> QED BY <2>1, <2>2 DEF Working, IsIn, Procs
<1> QED BY <1>1, <1>2, <1>3, <1>4, BeginsKeep

LEMMA InstallsKeeps ==
    ASSUME IInv, ~mishap', MayBegin("cli"), NEW k \in Keys, NEW env \in EnvKeys \cup {NoKey},
           NEW extras \in SUBSET Keys, Installs(k, env, extras)
    PROVE  IInv'
<1> DEFINE todo == ToRetire(k, env, extras)
<1>1. {PersistentKey, recorded} \subseteq Keys \cup {NoKey}
    BY DEF IInv, Typed, SlotTypes, PersistentKey
<1>2. todo \in SUBSET Keys /\ PersistentKey \in {k, NoKey} \cup todo
    BY <1>1 DEF ToRetire
<1>3. Commanded("install", k, env, todo, "retire")
    BY DEF Installs
<1> HIDE DEF todo
<1> QED BY <1>2, <1>3, CommandedKeeps

LEMMA CommandStep ==
    ASSUME IInv, ~mishap', NEW env \in EnvKeys \cup {NoKey}, Command(env)
    PROVE  IInv'
<1>1. MayBegin("cli")
    BY DEF Command
<1>2. ASSUME NEW k \in Keys, NEW accept \in BOOLEAN, Adopt(k, env, accept) PROVE IInv'
    BY <1>1, <1>2, InstallsKeeps DEF Adopt
<1>3. ASSUME NEW k \in Keys, RetireCommand(k, env) PROVE IInv'
    BY <1>1, <1>3, CommandedKeeps DEF RetireCommand
<1>4. ASSUME NEW bundle \in Bundles, Import(bundle, env) PROVE IInv'
    <2>1. bundle.current \in Keys /\ bundle.retired \in SUBSET Keys
        BY FolderAssumption
    <2>2. bundle.retired \ {bundle.current} \in SUBSET Keys
        BY <2>1
    <2>3. \/ Commanded("keep", bundle.current, env, bundle.retired \ {bundle.current}, "retire")
          \/ Installs(bundle.current, env, bundle.retired)
        BY <1>4 DEF Import
    <2> QED BY <1>1, <2>1, <2>2, <2>3, CommandedKeeps, InstallsKeeps
<1> QED BY <1>2, <1>3, <1>4 DEF Command

LEMMA SealStep ==
    ASSUME IInv, NEW p \in Procs, NEW kind \in Kinds, Seal(p, kind)
    PROVE  IInv'
<1>1. /\ IsIn(p, "run") /\ sealed' = [sealed EXCEPT ![kind] = @ \cup {proc[p].key}]
      /\ UNCHANGED <<chain, reach, master, legacy, recorded, index, vault, slot, made, proc>>
    BY DEF Seal, slots
<1>2. p # "cli"
    BY <1>1 DEF IInv, Commands, IsIn
<1>3. proc[p].key \in Keys /\ proc[p].key \in Safe
    BY <1>1, <1>2 DEF IInv, Resolves, IsIn
<1>4. sealed' \in [Kinds -> SUBSET Keys]
    BY <1>1, <1>3 DEF IInv, Typed
<1>5. Safe' = Safe /\ PersistentKey' = PersistentKey
    BY <1>1 DEF Safe, PersistentKey, Held
<1>6. Used'
    BY <1>1, <1>3, <1>5 DEF IInv, Used, Typed
<1>7. Typed' /\ Alone' /\ Vaulted'
    BY <1>1, <1>4 DEF IInv, Typed, SlotTypes, Alone, Placed, Working, IsIn, Vaulted, ListsVaulted, InVault
<1>8. (\A q \in Procs \ {"cli"} : Resolves(proc[q])') /\ Commands(proc["cli"])'
    BY <1>1, <1>5 DEF IInv, Resolves, Commands
<1> QED BY <1>6, <1>7, <1>8 DEF IInv

LEMMA StopStep ==
    ASSUME IInv, NEW p \in Procs, Stop(p)
    PROVE  IInv'
<1>1. /\ Becomes(p, Down) /\ UNCHANGED <<chain, reach, master, legacy, recorded, index, vault>>
      /\ UNCHANGED <<slot, sealed, made, starts, moves>>
    BY DEF Stop, slots, bounds
<1>2. NoKey \in EnvKeys \cup {NoKey}
    OBVIOUS
<1> QED BY <1>1, <1>2, EndsKeep DEF Kept

LEMMA KeychainStep ==
    ASSUME IInv, ~mishap', KeychainMoves
    PROVE  IInv'
<1>1. /\ reach' \in Reaches /\ ~Working("cli")
      /\ UNCHANGED <<chain, master, legacy, recorded, index, vault, slot, sealed, made, proc>>
    BY DEF KeychainMoves, Unlucky
<1>2. Safe' = Safe
    BY <1>1 DEF Safe
<1>3. Typed' /\ Alone' /\ Vaulted' /\ Used'
    BY <1>1, <1>2
       DEF IInv, Typed, SlotTypes, Alone, Placed, Working, IsIn, Vaulted, ListsVaulted, InVault, Used
<1>4. \A q \in Procs \ {"cli"} : Resolves(proc[q])'
    BY <1>1, <1>2 DEF IInv, Resolves
<1>5. Commands(proc["cli"])'
    BY <1>1 DEF IInv, Commands, Working
<1> QED BY <1>3, <1>4, <1>5 DEF IInv

LEMMA InitInv == Init => IInv
<1> SUFFICES ASSUME Init PROVE IInv
    OBVIOUS
<1>1. PICK f \in Folders :
          /\ slot = f.slot /\ chain = f.chain /\ master = f.master /\ legacy = f.legacy
          /\ recorded = f.recorded
          /\ sealed = [kind \in Kinds |-> IF kind \in f.kinds THEN {f.key} ELSE {}]
          /\ made = {f.chain, f.master, f.legacy, f.key} \ {NoKey}
    BY DEF Init
<1>2. /\ f.kinds \subseteq Kinds
      /\ {f.chain, f.master, f.legacy, f.recorded, f.key} \subseteq Keys \cup {NoKey}
      /\ f.kinds # {} => f.key \in EnvKeys \cup ({f.chain, f.master, f.legacy} \ {NoKey})
    BY FolderAssumption
<1>3. /\ reach = "open" /\ index = [k \in Keys |-> "none"] /\ vault = [files |-> {}, chain |-> {}]
      /\ proc = [p \in Procs |-> Down]
    BY DEF Init
<1>4. SlotTypes
    BY <1>1, <1>2, <1>3 DEF SlotTypes, Reaches, Custodies
<1>5. IndexFits(index)
    <2>1. Retired(index) = {}
        BY <1>3 DEF Retired
    <2> QED BY <2>1, FS_EmptySet, CustodyAssumption DEF IndexFits
<1>6. f.kinds # {} => f.key \in Keys /\ f.key \in Safe
    BY <1>1, <1>2, CustodyAssumption DEF Safe
<1>7. sealed \in [Kinds -> SUBSET Keys] /\ made \subseteq Keys /\ Used
    BY <1>1, <1>2, <1>6 DEF Used
<1>8. \A p \in Procs : proc[p] = Down
    BY <1>3
<1>9. Typed
    BY <1>3, <1>4, <1>5, <1>7, DownIs DEF Typed
<1>10. Alone
    BY <1>8, DownIs DEF Alone, Placed, Working, IsIn
<1>11. Vaulted
    BY <1>3, <1>8, DownIs DEF Vaulted, InVault, ListsVaulted
<1>12. (\A p \in Procs \ {"cli"} : Resolves(proc[p])) /\ Commands(proc["cli"])
    BY <1>8, DownIs DEF Resolves, Commands, Procs
<1> QED BY <1>7, <1>9, <1>10, <1>11, <1>12 DEF IInv

LEMMA NextInv == IInv /\ ~mishap' /\ [Next]_vars => IInv'
<1> SUFFICES ASSUME IInv, ~mishap', [Next]_vars PROVE IInv'
    OBVIOUS
<1>1. ASSUME NEW p \in Procs, Resolve(p) PROVE IInv'
    BY <1>1, LookStep, StoreStep, VerifyStep, PublishStep, DecideStep, RetireStep, ListStep,
       EndRetiringStep, RecordStep DEF Resolve
<1>2. ASSUME NEW p \in Procs, Stop(p) PROVE IInv'
    BY <1>2, StopStep
<1>3. ASSUME NEW p \in Procs, NEW kind \in Kinds, Seal(p, kind) PROVE IInv'
    BY <1>3, SealStep
<1>4. ASSUME NEW p \in Procs, NEW env \in EnvKeys \cup {NoKey}, Start(p, env) PROVE IInv'
    BY <1>4, StartStep
<1>5. ASSUME NEW env \in EnvKeys \cup {NoKey}, Command(env) PROVE IInv'
    BY <1>5, CommandStep
<1>6. CASE StoreCurrent \/ RemoveRetired \/ Deliver \/ KeychainMoves
    BY <1>6, StoreCurrentStep, RemoveStep, DeliverStep, KeychainStep
<1>7. CASE Quiescent \/ UNCHANGED vars
    <2>1. UNCHANGED <<chain, reach, master, legacy, recorded, index, vault, slot, sealed, made, proc>>
        BY <1>7 DEF Quiescent, vars, slots
    <2>2. Safe' = Safe /\ PersistentKey' = PersistentKey
        BY <2>1 DEF Safe, PersistentKey, Held
    <2>3. Typed' /\ Alone' /\ Vaulted' /\ Used'
        BY <2>1, <2>2 DEF IInv, Typed, SlotTypes, Alone, Placed, Working, IsIn, Vaulted, ListsVaulted, InVault, Used
    <2>4. (\A q \in Procs \ {"cli"} : Resolves(proc[q])') /\ Commands(proc["cli"])'
        BY <2>1, <2>2 DEF IInv, Resolves, Commands
    <2> QED BY <2>3, <2>4 DEF IInv
<1> QED BY <1>1, <1>2, <1>3, <1>4, <1>5, <1>6, <1>7 DEF Next

LEMMA MishapStays == mishap /\ [Next]_vars => mishap'
<1> SUFFICES ASSUME mishap, [Next]_vars PROVE mishap'
    OBVIOUS
<1>1. (\E now : Unlucky(now)) \/ UNCHANGED mishap
    BY DEF Next, vars, history, Resolve, Look, Store, Verify, Publish, Decide, RetireKey, ListKey,
           EndRetiring, WriteRecord, StoreCurrent, RemoveRetired, Stop, Seal, Start, Command, Adopt,
           RetireCommand, Import, Installs, Commanded, Deliver, KeychainMoves, Quiescent
<1> QED BY <1>1 DEF Unlucky

LEMMA Invariance == Spec => [](~mishap => IInv)
<1>1. Init => IInv
    BY InitInv
<1>2. (~mishap => IInv) /\ [Next]_vars => (~mishap => IInv)'
    BY NextInv, MishapStays
<1> QED BY <1>1, <1>2, PTL DEF Spec

----------------------------------------------------------------------------
(* What holds whatever happens, mishaps too                                *)

Reads(r) ==
    /\ r.job = "resolve" /\ r.at \notin {"install", "remove"}
    /\ r.at \notin {"down", "look"} => r.key \in Keys
    /\ r.at = "decide" /\ r.source = "env" => r.key = r.env

Obeys(r) ==
    /\ r.at \in {"down", "retire", "index", "install", "remove", "record"}
    /\ r.at # "down" => r.job # "resolve" /\ r.key \in Keys

Basic ==
    /\ Typed /\ Placed /\ Vaulted
    /\ \A p \in Procs \ {"cli"} : Reads(proc[p])
    /\ Obeys(proc["cli"])

Told == mishap \in BOOLEAN /\ stranded \subseteq Keys

\* What a step makes of its process.
Fits(p) ==
    /\ proc'[p] \in Process /\ ListsVaulted(proc[p])'
    /\ p # "cli" => Reads(proc[p])'
    /\ p = "cli" => Obeys(proc[p])'
    /\ \/ proc'[p].at = "down" \/ ~IsIn(p, "down")
       \/ slot = IF p = "desktop" THEN "app" ELSE "master"

LEMMA BasicKeeps ==
    ASSUME Basic, NEW p \in Procs, NEW r, Becomes(p, r), Fits(p),
           UNCHANGED <<slot, sealed>>, SlotTypes', made' \subseteq Keys, IndexFits(index'),
           \A k \in Keys : InVault(k, index[k])',
           vault.files \subseteq vault'.files, vault.chain \subseteq vault'.chain
    PROVE  Basic'
<1>1. Typed
    BY DEF Basic
<1>2. \A q \in Procs : q # p => proc'[q] = proc[q]
    BY <1>1, BecomesIs
<1>3. Typed'
    <2>1. proc' \in [Procs -> Process]
        BY <1>1, <1>2 DEF Typed, Becomes, Fits
    <2> QED BY <1>1, <2>1 DEF Typed
<1>4. Placed'
    BY <1>2 DEF Basic, Placed, IsIn, Fits
<1>5. Vaulted'
    <2>1. ASSUME NEW q \in Procs, q # p PROVE ListsVaulted(proc[q])'
        BY <1>2, <2>1 DEF Basic, Vaulted, ListsVaulted, InVault
    <2> QED BY <2>1 DEF Vaulted, Fits
<1>6. \A q \in Procs \ {"cli"} : Reads(proc[q])'
    BY <1>2 DEF Basic, Fits, Reads
<1>7. Obeys(proc["cli"])'
    BY <1>2 DEF Basic, Fits, Obeys, Procs
<1> QED BY <1>3, <1>4, <1>5, <1>6, <1>7 DEF Basic

\* Neither the list nor what was put away changes.
LEMMA SlotsKeep ==
    ASSUME Basic, NEW p \in Procs, NEW r, Becomes(p, r), Fits(p),
           UNCHANGED <<slot, sealed, index, vault, reach>>, made' \subseteq Keys,
           {chain', master', legacy', recorded'} \subseteq Keys \cup {NoKey}
    PROVE  Basic'
<1>1. SlotTypes' /\ IndexFits(index') /\ \A k \in Keys : InVault(k, index[k])'
    BY DEF Basic, Typed, SlotTypes, Vaulted, InVault
<1> QED BY <1>1, BasicKeeps

LEMMA BasicTypes ==
    ASSUME Basic
    PROVE  /\ Typed /\ made \subseteq Keys
           /\ {chain, master, legacy, recorded} \subseteq Keys \cup {NoKey}
BY DEF Basic, Typed, SlotTypes

LEMMA EndFits ==
    ASSUME Typed, NEW p \in Procs, NEW r, Becomes(p, r), NEW env \in EnvKeys \cup {NoKey},
           r \in {Down, [Down EXCEPT !.failed = TRUE], [Down EXCEPT !.failed = TRUE, !.env = env]}
    PROVE  Fits(p)
<1>1. r \in Process /\ r.at = "down" /\ r.job = "resolve"
    BY DownFits
<1>2. proc'[p] = r
    BY BecomesIs
<1> QED BY <1>1, <1>2 DEF Fits, Reads, Obeys, ListsVaulted

\* A process goes on with a key.
LEMMA GoesOnFits ==
    ASSUME Basic, NEW p \in Procs \ {"cli"}, ~IsIn(p, "down"), NEW r, Becomes(p, r),
           r \in Process, r.at \notin {"index", "install", "remove"}, r.job = proc[p].job,
           r.key \in Keys, r.at = "decide" /\ r.source = "env" => r.key = r.env
    PROVE  Fits(p)
<1>1. proc'[p] = r
    BY BecomesIs, BasicTypes
<1> QED BY <1>1 DEF Fits, Basic, Reads, ListsVaulted

LEMMA RefusedFits ==
    ASSUME Basic, NEW p \in Procs \ {"cli"}, ~IsIn(p, "down"), NEW seen, Refused(p, seen)
    PROVE  Fits(p) /\ \E r : Becomes(p, r)
<1>1. proc[p] \in Process /\ proc[p].env \in EnvKeys \cup {NoKey} /\ Typed
    BY BasicTypes DEF Typed, Process
<1>2. CASE Recovers(p, seen) # {}
    <2>1. seen \in CandidateKeys(proc[p].env)
        BY <1>2 DEF Recovers
    <2>2. seen \in Keys /\ RetiredKeys \subseteq Keys
        BY <1>1, <2>1, CandidatesSafe
    <2> DEFINE r == [proc[p] EXCEPT !.at = "run", !.key = seen, !.opens = {seen} \cup RetiredKeys]
    <2>3. Becomes(p, r)
        BY <1>2 DEF Refused
    <2>4. r \in Process /\ r.at = "run" /\ r.key = seen /\ r.job = proc[p].job
        BY <1>1, <2>2 DEF Process, Phases
    <2> HIDE DEF r
    <2> QED BY <2>2, <2>3, <2>4, GoesOnFits
<1>3. CASE Recovers(p, seen) = {}
    <2>1. Becomes(p, [Down EXCEPT !.failed = TRUE, !.env = proc[p].env])
        BY <1>3 DEF Refused
    <2> QED BY <1>1, <2>1, EndFits
<1> QED BY <1>2, <1>3

LEMMA LookBasic ==
    ASSUME Basic, NEW p \in Procs, Look(p)
    PROVE  Basic'
<1>1. /\ IsIn(p, "look") /\ UNCHANGED <<chain, recorded, index, vault>> /\ Kept
      /\ p \in Procs \ {"cli"}
    BY DEF Look, Basic, Obeys, IsIn
<1>2. /\ proc[p].env \in EnvKeys \cup {NoKey} /\ Typed /\ proc[p].job = "resolve"
      /\ {chain, master, legacy} \subseteq Keys \cup {NoKey} /\ EnvKeys \subseteq Keys
    BY <1>1, BasicTypes, CustodyAssumption DEF Typed, Process, Basic, Reads
<1>3. CASE IsRefused(p)
    BY <1>1, <1>3, RefusedFits, SlotsKeep, BasicTypes DEF IsRefused, Kept, IsIn
<1>4. CASE ~IsRefused(p)
    <2>1. /\ master' \in {master, NoKey} /\ legacy' \in {legacy, NoKey} /\ made' \subseteq Keys
          /\ \E k \in Keys :
                \/ \E source \in {"file", "keychain", "env"} :
                      Has(p, k, source) /\ (source = "env" => k = proc[p].env)
                \/ \E at \in {"store", "publish"} : Takes(p, k, at)
        <3>1. CASE proc[p].env # NoKey /\ UsesEnv(p)
            BY <1>2, <3>1, BasicTypes DEF UsesEnv
        <3>2. CASE UsesKeychain(p)
            <4>1. CASE FileOrLegacy = NoKey /\ Generates(p, "store") /\ UNCHANGED <<master, legacy>>
                BY <4>1, <1>2, BasicTypes, GeneratesIs
            <4> QED BY <1>2, <3>2, <4>1, BasicTypes
                    DEF UsesKeychain, CopyIsRetired, LegacyIsRetired, FileOrLegacy
        <3>3. CASE UsesFile(p)
            <4>1. CASE Generates(p, "publish") /\ UNCHANGED <<master, legacy>>
                BY <4>1, <1>2, BasicTypes, GeneratesIs
            <4> QED BY <1>2, <3>3, <4>1, BasicTypes DEF UsesFile
        <3> QED BY <1>4, <3>1, <3>2, <3>3 DEF Look
    <2>2. ASSUME NEW k \in Keys, NEW source \in {"file", "keychain", "env"},
                 Has(p, k, source), source = "env" => k = proc[p].env
          PROVE  Fits(p) /\ \E r : Becomes(p, r)
        <3>1. /\ \E r : Becomes(p, r)
              /\ proc'[p] \in Process /\ proc'[p].at = "decide" /\ proc'[p].key = k
              /\ proc'[p].source = source
              /\ proc'[p].env = proc[p].env /\ proc'[p].job = proc[p].job
            BY <1>2, <2>2, TakesIs
        <3> QED BY <1>1, <1>2, <2>2, <3>1 DEF Fits, Reads, ListsVaulted, IsIn
    <2>3. ASSUME NEW k \in Keys, NEW at \in {"store", "publish"}, Takes(p, k, at)
          PROVE  Fits(p) /\ \E r : Becomes(p, r)
        <3>1. /\ \E r : Becomes(p, r)
              /\ proc'[p] \in Process /\ proc'[p].at = at /\ proc'[p].key = k
              /\ proc'[p].job = proc[p].job
            <4> DEFINE source == "file"
            <4>1. source \in {"file", "keychain", "env"} /\ at # "decide"
                OBVIOUS
            <4> QED BY <1>2, <2>3, <4>1, TakesIs
        <3> QED BY <1>1, <1>2, <3>1 DEF Fits, Reads, ListsVaulted, IsIn
    <2>4. Fits(p) /\ \E r : Becomes(p, r)
        BY <2>1, <2>2, <2>3
    <2>5. {chain', master', legacy', recorded'} \subseteq Keys \cup {NoKey}
        BY <1>1, <2>1, BasicTypes
    <2> QED BY <1>1, <2>1, <2>4, <2>5, SlotsKeep DEF Kept
<1> QED BY <1>3, <1>4

LEMMA LadderBasic ==
    ASSUME Basic, NEW p \in Procs, Store(p) \/ Verify(p) \/ Publish(p)
    PROVE  Basic'
<1>1. /\ p \in Procs \ {"cli"} /\ proc[p].at \in {"store", "verify", "publish"} /\ ~IsIn(p, "down")
      /\ UNCHANGED <<recorded, index, vault, made>> /\ Kept
    BY DEF Store, Verify, Publish, Basic, Obeys, IsIn
<1>2. /\ proc[p] \in Process /\ proc[p].key \in Keys /\ proc[p].job = "resolve" /\ Typed
    BY <1>1, BasicTypes DEF Typed, Basic, Reads
<1>3. CASE Store(p)
    <2>1. PICK at \in {"verify", "publish"} : Goes(p, at)
        BY <1>3 DEF Store
    <2>2. /\ \E r : Becomes(p, r)
          /\ proc'[p] \in Process /\ proc'[p].at = at
          /\ proc'[p].key = proc[p].key /\ proc'[p].job = proc[p].job
        BY <1>2, <2>1, GoesIs DEF Phases
    <2>3. Fits(p)
        BY <1>1, <1>2, <2>2 DEF Fits, Reads, ListsVaulted
    <2>4. chain' \in Keys \cup {NoKey} /\ UNCHANGED <<master, legacy>>
        BY <1>2, <1>3, BasicTypes DEF Store
    <2> QED BY <1>1, <2>2, <2>3, <2>4, BasicTypes, SlotsKeep DEF Kept
<1>4. CASE Verify(p)
    <2> DEFINE r == [proc[p] EXCEPT !.at = "decide", !.source = "keychain"]
    <2>1. /\ UNCHANGED chain /\ master' \in {master, NoKey} /\ legacy' \in {legacy, NoKey}
          /\ Becomes(p, r) \/ Refused(p, proc[p].seen)
        BY <1>4 DEF Verify, CopyIsRetired, LegacyIsRetired
    <2>2. r \in Process /\ r.at = "decide" /\ r.source = "keychain" /\ r.key = proc[p].key
          /\ r.job = proc[p].job
        BY <1>2 DEF Process, Phases
    <2> HIDE DEF r
    <2>3. Fits(p) /\ \E x : Becomes(p, x)
        BY <1>1, <1>2, <2>1, <2>2, GoesOnFits, RefusedFits
    <2>4. {chain', master', legacy', recorded'} \subseteq Keys \cup {NoKey}
        BY <1>1, <2>1, BasicTypes
    <2> QED BY <1>1, <2>3, <2>4, BasicTypes, SlotsKeep DEF Kept
<1>5. CASE Publish(p)
    <2> DEFINE r == [proc[p] EXCEPT !.at = "decide", !.key = master', !.source = "file"]
    <2>1. Becomes(p, r) /\ UNCHANGED <<chain, legacy>> /\ master' \in Keys
        BY <1>2, <1>5, BasicTypes DEF Publish, Published
    <2>2. r \in Process /\ r.at = "decide" /\ r.source = "file" /\ r.key \in Keys
          /\ r.job = proc[p].job
        BY <1>2, <2>1 DEF Process, Phases
    <2> HIDE DEF r
    <2>3. Fits(p)
        BY <1>1, <2>1, <2>2, GoesOnFits
    <2>4. {chain', master', legacy', recorded'} \subseteq Keys \cup {NoKey}
        BY <1>1, <2>1, BasicTypes
    <2> QED BY <1>1, <2>1, <2>3, <2>4, BasicTypes, SlotsKeep DEF Kept
<1> QED BY <1>3, <1>4, <1>5

LEMMA DecideBasic ==
    ASSUME Basic, NEW p \in Procs, Decide(p)
    PROVE  Basic'
<1>1. /\ IsIn(p, "decide") /\ UNCHANGED <<chain, master, legacy, recorded, index, vault, made>> /\ Kept
      /\ p \in Procs \ {"cli"} /\ ~IsIn(p, "down")
    BY DEF Decide, Basic, Obeys, IsIn
<1> DEFINE k == proc[p].key
           others == CandidateKeys(proc[p].env)
<1>2. /\ k \in Keys /\ proc[p] \in Process /\ proc[p].job = "resolve" /\ Typed
      /\ proc[p].env \in EnvKeys \cup {NoKey} /\ Mismatched(p) \in SUBSET Keys
    BY <1>1, BasicTypes DEF Basic, Reads, IsIn, Typed, Process, Mismatched
<1>3. others \subseteq Keys /\ RetiredKeys \subseteq Keys
    BY <1>2, CandidatesSafe
<1>4. ASSUME NEW j \in Keys, NEW todo \in SUBSET Keys, NEW at \in {"run", "retire", "record"},
             Runs(p, j, todo, at)
      PROVE  Fits(p) /\ \E r : Becomes(p, r)
    <2> DEFINE opens == {j, k} \cup RetiredKeys
               r == [proc[p] EXCEPT !.at = at, !.key = j, !.old = k, !.todo = todo, !.opens = opens]
    <2>1. opens \in SUBSET (Keys \cup {NoKey}) /\ at \in Phases
        BY <1>2, <1>3 DEF Phases
    <2>2. Becomes(p, r)
        BY <1>4 DEF Runs
    <2> HIDE DEF opens, k
    <2>3. r \in Process /\ r.at = at /\ r.key = j /\ r.job = proc[p].job
        BY <1>2, <2>1 DEF Process
    <2> HIDE DEF r
    <2> QED BY <1>1, <2>2, <2>3, GoesOnFits
<1>5. ASSUME NEW j \in Keys, RunsApp(p, j) PROVE Fits(p) /\ \E r : Becomes(p, r)
    <2> DEFINE opens == AppCandidates(p)
               at == IF proc[p].seen = j THEN "run" ELSE "record"
               r == [proc[p] EXCEPT !.at = at, !.key = j, !.opens = opens]
    <2>1. opens \in SUBSET (Keys \cup {NoKey}) /\ at \in Phases /\ at \in {"run", "record"}
        BY <1>2, BasicTypes, CustodyAssumption DEF AppCandidates, Phases
    <2>2. Becomes(p, r)
        BY <1>5 DEF RunsApp
    <2> HIDE DEF opens, at
    <2>3. r \in Process /\ r.at = at /\ r.key = j /\ r.job = proc[p].job
        BY <1>2, <2>1 DEF Process
    <2> HIDE DEF r
    <2> QED BY <1>1, <2>1, <2>2, <2>3, GoesOnFits
<1>6. AppCandidates(p) \subseteq Keys
    BY <1>2, BasicTypes, CustodyAssumption DEF AppCandidates
<1>7. \/ \E j \in Keys, todo \in SUBSET Keys, at \in {"run", "retire", "record"} :
            Runs(p, j, todo, at)
      \/ \E j \in Keys : RunsApp(p, j)
      \/ Becomes(p, [Down EXCEPT !.failed = TRUE, !.env = proc[p].env])
      \/ Becomes(p, [Down EXCEPT !.failed = TRUE])
    <2>1. CASE p = "desktop"
        BY <1>2, <1>6, <2>1 DEF Decide, DecideApp
    <2>2. CASE p # "desktop"
        <3>1. \/ Runs(p, k, {}, "run") \/ Runs(p, k, {}, "record")
              \/ Becomes(p, [Down EXCEPT !.failed = TRUE, !.env = proc[p].env])
              \/ \E other \in others : Runs(p, other, Mismatched(p), "retire")
            BY <2>2 DEF Decide, DecideMaster
        <3> QED BY <1>2, <1>3, <3>1
    <2> QED BY <2>1, <2>2
<1>8. Fits(p) /\ \E r : Becomes(p, r)
    BY <1>2, <1>4, <1>5, <1>7, EndFits
<1> QED BY <1>1, <1>8, BasicTypes, SlotsKeep DEF Kept

LEMMA RetireBasic ==
    ASSUME Basic, NEW p \in Procs, RetireKey(p)
    PROVE  Basic'
<1>1. /\ IsIn(p, "retire") /\ ~IsIn(p, "down")
      /\ UNCHANGED <<chain, master, legacy, recorded, index, made>> /\ Kept
    BY DEF RetireKey, IsIn
<1>2. /\ Typed /\ proc[p] \in Process /\ proc[p].key \in Keys
      /\ p # "cli" => proc[p].job = "resolve"
      /\ p = "cli" => proc[p].job # "resolve"
    BY <1>1, BasicTypes DEF Basic, Reads, Obeys, Typed, IsIn
<1>3. ASSUME NEW k \in Keys, ~IsFull, NEW custody \in {"file", "keychain"}, PutAway(k, custody),
             Becomes(p, [proc[p] EXCEPT !.at = "index", !.old = k, !.idx = index,
                                        !.custody = custody])
      PROVE  Basic'
    <2> DEFINE r == [proc[p] EXCEPT !.at = "index", !.old = k, !.idx = index, !.custody = custody]
    <2>1. index \in [Keys -> Custodies] /\ vault \in [files : SUBSET Keys, chain : SUBSET Keys]
          /\ custody \in Custodies /\ "index" \in Phases
        BY <1>2 DEF Typed, SlotTypes, Custodies, Phases
    <2>2. r \in Process /\ r.at = "index" /\ r.old = k /\ r.idx = index /\ r.custody = custody
          /\ r.key = proc[p].key /\ r.job = proc[p].job
        BY <1>2, <1>3, <2>1 DEF Process
    <2>3. Becomes(p, r)
        BY <1>3
    <2> HIDE DEF r
    <2>4. proc'[p] = r
        BY <1>2, <2>3, BecomesIs
    <2>5. /\ vault' \in [files : SUBSET Keys, chain : SUBSET Keys]
          /\ vault.files \subseteq vault'.files /\ vault.chain \subseteq vault'.chain
          /\ InVault(k, custody)'
        BY <1>3, <2>1 DEF PutAway, InVault
    <2>6. SlotTypes' /\ IndexFits(index') /\ (\A j \in Keys : InVault(j, index[j])') /\ made' \subseteq Keys
        BY <1>1, <2>5 DEF Basic, Typed, SlotTypes, Vaulted, InVault, Kept
    <2>7. ListsVaulted(proc[p])'
        <3>1. Cardinality(Retired(index)) < MaxRetired /\ IsFiniteSet(Retired(index))
            BY <1>2, <1>3, FS_CardinalityType, CustodyAssumption DEF Typed, IndexFits, IsFull
        <3>2. \A j \in Keys : InVault(j, index[j])'
            BY <2>6
        <3> QED BY <1>1, <1>3, <2>2, <2>4, <2>5, <3>1, <3>2 DEF ListsVaulted, InVault
    <2>8. Fits(p)
        BY <1>1, <1>2, <2>2, <2>4, <2>7 DEF Fits, Reads, Obeys
    <2> QED BY <1>1, <2>3, <2>5, <2>6, <2>8, BasicKeeps DEF Kept
<1>4. ASSUME NEW k, Becomes(p, Retired1(p, k)), UNCHANGED vault PROVE Basic'
    <2>1. /\ proc'[p] \in Process /\ proc'[p].at = "retire"
          /\ proc'[p].key = proc[p].key /\ proc'[p].job = proc[p].job
        BY <1>2, <1>4, Retired1Is
    <2>2. Fits(p)
        BY <1>1, <1>2, <2>1 DEF Fits, Reads, Obeys, ListsVaulted
    <2> QED BY <1>1, <1>4, <2>2, BasicTypes, SlotsKeep DEF Kept
<1>5. CASE Becomes(p, Down) /\ UNCHANGED vault
    <2>1. Fits(p)
        BY <1>2, <1>5, EndFits
    <2> QED BY <1>1, <1>5, <2>1, BasicTypes, SlotsKeep DEF Kept
<1>6. proc[p].todo \subseteq Keys
    BY <1>2 DEF Process
<1> QED BY <1>3, <1>4, <1>5, <1>6 DEF RetireKey

\* An index read too early was below the bound when it was read.
LEMMA ListBasic ==
    ASSUME Basic, NEW p \in Procs, ListKey(p)
    PROVE  Basic'
<1> DEFINE idx == proc[p].idx
           old == proc[p].old
<1>1. /\ IsIn(p, "index") /\ ~IsIn(p, "down") /\ index' = [idx EXCEPT ![old] = proc[p].custody]
      /\ Becomes(p, Retired1(p, old))
      /\ UNCHANGED <<chain, master, legacy, recorded, vault, made>> /\ Kept
    BY DEF ListKey, IsIn
<1>2. /\ Typed /\ proc[p] \in Process /\ proc[p].key \in Keys
      /\ p # "cli" => proc[p].job = "resolve"
      /\ p = "cli" => proc[p].job # "resolve"
    BY <1>1, BasicTypes DEF Basic, Reads, Obeys, Typed, IsIn
<1>3. /\ idx \in [Keys -> Custodies] /\ proc[p].custody \in Custodies \ {"none"} /\ old \in Keys
      /\ IsFiniteSet(Retired(idx)) /\ Cardinality(Retired(idx)) < MaxRetired
      /\ \A k \in Keys : InVault(k, idx[k])
      /\ InVault(old, proc[p].custody)
    BY <1>1, <1>2 DEF Basic, Process, Vaulted, ListsVaulted, IsIn
<1>4. /\ index' \in [Keys -> Custodies] /\ Retired(index') = Retired(idx) \cup {old}
      /\ \A k \in Keys : InVault(k, index'[k])
    BY <1>1, <1>3 DEF Retired
<1>5. IndexFits(index')
    <2>1. /\ IsFiniteSet(Retired(idx) \cup {old})
          /\ \/ Cardinality(Retired(idx) \cup {old}) = Cardinality(Retired(idx))
             \/ Cardinality(Retired(idx) \cup {old}) = Cardinality(Retired(idx)) + 1
        BY <1>3, FS_AddElement
    <2>2. Cardinality(Retired(idx)) \in Nat /\ MaxRetired \in Nat
        BY <1>3, FS_CardinalityType, CustodyAssumption
    <2> QED BY <1>3, <1>4, <2>1, <2>2 DEF IndexFits
<1>6. SlotTypes' /\ (\A j \in Keys : InVault(j, index[j])') /\ made' \subseteq Keys
    BY <1>1, <1>4 DEF Basic, Typed, SlotTypes, Kept, InVault
<1>7. /\ proc'[p] \in Process /\ proc'[p].at = "retire"
      /\ proc'[p].key = proc[p].key /\ proc'[p].job = proc[p].job
    BY <1>1, <1>2, Retired1Is
<1>8. Fits(p)
    BY <1>1, <1>2, <1>7 DEF Fits, Reads, Obeys, ListsVaulted
<1> QED BY <1>1, <1>5, <1>6, <1>8, BasicKeeps DEF Kept

LEMMA EndBasic ==
    ASSUME Basic, NEW p \in Procs, EndRetiring(p) \/ WriteRecord(p)
    PROVE  Basic'
<1>1. /\ proc[p].at \in {"retire", "record"} /\ ~IsIn(p, "down")
      /\ UNCHANGED <<chain, master, legacy, index, vault, made>> /\ Kept
    BY DEF EndRetiring, WriteRecord, IsIn
<1>2. /\ Typed /\ proc[p] \in Process /\ proc[p].key \in Keys
      /\ p # "cli" => proc[p].job = "resolve"
      /\ p = "cli" => proc[p].job # "resolve"
    BY <1>1, BasicTypes DEF Basic, Reads, Obeys, Typed
<1>3. recorded' \in Keys \cup {NoKey}
    BY <1>2, BasicTypes DEF EndRetiring, WriteRecord
<1>4. \/ Becomes(p, Down)
      \/ \E at \in {"install", "remove", "record", "run"} :
            /\ p = "cli" => at \in {"install", "remove"}
            /\ p # "cli" => at \in {"record", "run"}
            /\ Goes(p, at)
    BY <1>2 DEF EndRetiring, WriteRecord, AfterRetiring, Process
<1>5. ASSUME NEW at \in {"install", "remove", "record", "run"}, Goes(p, at),
             p = "cli" => at \in {"install", "remove"}, p # "cli" => at \in {"record", "run"}
      PROVE  Fits(p) /\ \E r : Becomes(p, r)
    <2>1. /\ \E r : Becomes(p, r)
          /\ proc'[p] \in Process /\ proc'[p].at = at
          /\ proc'[p].key = proc[p].key /\ proc'[p].job = proc[p].job
        BY <1>2, <1>5, GoesIs DEF Phases
    <2> QED BY <1>1, <1>2, <1>5, <2>1 DEF Fits, Reads, Obeys, ListsVaulted
<1>6. Fits(p) /\ \E r : Becomes(p, r)
    BY <1>2, <1>4, <1>5, EndFits
<1> QED BY <1>1, <1>3, <1>6, BasicTypes, SlotsKeep DEF Kept

LEMMA InstallBasic ==
    ASSUME Basic, StoreCurrent \/ RemoveRetired
    PROVE  Basic'
<1>1. /\ "cli" \in Procs /\ proc["cli"].at \in {"install", "remove"} /\ ~IsIn("cli", "down")
      /\ UNCHANGED <<recorded, index, vault, made>> /\ Kept
    BY DEF StoreCurrent, RemoveRetired, IsIn, Procs
<1>2. /\ Typed /\ proc["cli"] \in Process /\ proc["cli"].key \in Keys /\ proc["cli"].job # "resolve"
    BY <1>1, BasicTypes DEF Basic, Obeys, Typed
<1>3. {chain', master', legacy', recorded'} \subseteq Keys \cup {NoKey}
    BY <1>1, <1>2, BasicTypes DEF StoreCurrent, RemoveRetired
<1>4. Becomes("cli", Down) \/ Goes("cli", "record")
    BY DEF StoreCurrent, RemoveRetired
<1>5. CASE Goes("cli", "record")
    <2>1. /\ \E r : Becomes("cli", r)
          /\ proc'["cli"] \in Process /\ proc'["cli"].at = "record"
          /\ proc'["cli"].key = proc["cli"].key /\ proc'["cli"].job = proc["cli"].job
        BY <1>1, <1>2, <1>5, GoesIs DEF Phases
    <2>2. Fits("cli")
        BY <1>1, <1>2, <2>1 DEF Fits, Obeys, ListsVaulted
    <2> QED BY <1>1, <1>3, <2>1, <2>2, BasicTypes, SlotsKeep DEF Kept
<1>6. CASE Becomes("cli", Down)
    <2>1. Fits("cli")
        BY <1>1, <1>2, <1>6, EndFits
    <2> QED BY <1>1, <1>3, <1>6, <2>1, BasicTypes, SlotsKeep DEF Kept
<1> QED BY <1>4, <1>5, <1>6

\* A process, a command or a child begins.
LEMMA BeginsBasic ==
    ASSUME Basic, NEW p \in Procs, NEW r \in Process, MayBegin(p), Becomes(p, r),
           UNCHANGED <<slots, slot, sealed, made>>, r.at # "index",
           p # "cli" => Reads(r), p = "cli" => Obeys(r)
    PROVE  Basic'
<1>1. proc'[p] = r
    BY BecomesIs, BasicTypes
<1>2. Fits(p)
    BY <1>1 DEF Fits, Reads, Obeys, ListsVaulted, MayBegin
<1> QED BY <1>2, BasicTypes, SlotsKeep DEF slots

LEMMA CommandedBasic ==
    ASSUME Basic, MayBegin("cli"), NEW job \in {"install", "keep", "retire"}, NEW k \in Keys,
           NEW env \in EnvKeys \cup {NoKey}, NEW todo \in SUBSET Keys,
           Commanded(job, k, env, todo, "retire")
    PROVE  Basic'
<1> DEFINE r == [Down EXCEPT !.at = "retire", !.job = job, !.key = k, !.env = env, !.todo = todo]
<1>1. Becomes("cli", r) /\ UNCHANGED <<slots, slot, sealed, made>> /\ "cli" \in Procs
    BY DEF Commanded, Procs
<1>2. r \in Process /\ r.at = "retire" /\ r.job = job /\ r.key = k
    BY DownIs DEF Process, Phases
<1> HIDE DEF r
<1>3. Obeys(r)
    BY <1>2 DEF Obeys
<1> QED BY <1>1, <1>2, <1>3, BeginsBasic

LEMMA CommandBasic ==
    ASSUME Basic, NEW env \in EnvKeys \cup {NoKey}, Command(env)
    PROVE  Basic'
<1>1. MayBegin("cli")
    BY DEF Command
<1>2. ASSUME NEW k \in Keys, NEW extras \in SUBSET Keys, Installs(k, env, extras) PROVE Basic'
    <2> DEFINE todo == ToRetire(k, env, extras)
    <2>1. todo \in SUBSET Keys
        BY BasicTypes DEF ToRetire, PersistentKey
    <2>2. Commanded("install", k, env, todo, "retire")
        BY <1>2 DEF Installs
    <2> HIDE DEF todo
    <2> QED BY <1>1, <2>1, <2>2, CommandedBasic
<1>3. \A bundle \in Bundles : bundle.current \in Keys /\ bundle.retired \in SUBSET Keys
    BY FolderAssumption
<1>4. ASSUME NEW bundle \in Bundles, Import(bundle, env) PROVE Basic'
    <2>1. bundle.retired \ {bundle.current} \in SUBSET Keys
        BY <1>3
    <2> QED BY <1>1, <1>2, <1>3, <1>4, <2>1, CommandedBasic DEF Import
<1>5. ASSUME NEW k \in Keys, RetireCommand(k, env) PROVE Basic'
    BY <1>1, <1>5, CommandedBasic DEF RetireCommand
<1>6. ASSUME NEW k \in Keys, NEW accept, Adopt(k, env, accept) PROVE Basic'
    BY <1>2, <1>6 DEF Adopt
<1> QED BY <1>4, <1>5, <1>6 DEF Command

LEMMA InitBasic == Init => Basic /\ Told
<1> SUFFICES ASSUME Init PROVE Basic /\ Told
    OBVIOUS
<1>1. Typed /\ Placed /\ Vaulted
    BY InitInv DEF IInv, Alone
<1>2. \A p \in Procs : proc[p] = Down
    BY DEF Init
<1>3. (\A p \in Procs \ {"cli"} : Reads(proc[p])) /\ Obeys(proc["cli"])
    BY <1>2, DownIs DEF Reads, Obeys, Procs
<1>4. \A f \in Folders : {f.chain, f.master, f.legacy} \subseteq Keys \cup {NoKey}
    BY FolderAssumption
<1>5. mishap = FALSE /\ \E f \in Folders :
          stranded = IF f.recorded = NoKey THEN {}
                     ELSE (IF f.slot = "app" THEN {f.chain} ELSE {f.master, f.legacy})
                          \ {NoKey, f.recorded}
    BY DEF Init
<1>6. stranded \subseteq Keys
    BY <1>4, <1>5
<1> QED BY <1>1, <1>3, <1>5, <1>6 DEF Basic, Told

LEMMA NextBasic == Basic /\ [Next]_vars => Basic'
<1> SUFFICES ASSUME Basic, [Next]_vars PROVE Basic'
    OBVIOUS
<1>1. ASSUME NEW p \in Procs, Resolve(p) PROVE Basic'
    BY <1>1, LookBasic, LadderBasic, DecideBasic, RetireBasic, ListBasic, EndBasic DEF Resolve
<1>2. ASSUME NEW p \in Procs, Stop(p) PROVE Basic'
    <2>1. Becomes(p, Down) /\ UNCHANGED <<slots, slot, sealed, made>>
        BY <1>2 DEF Stop
    <2>2. Fits(p)
        BY <2>1, BasicTypes, EndFits
    <2> QED BY <2>1, <2>2, BasicTypes, SlotsKeep DEF slots
<1>3. ASSUME NEW p \in Procs, NEW kind \in Kinds, Seal(p, kind) PROVE Basic'
    <2>1. /\ IsIn(p, "run") /\ sealed' = [sealed EXCEPT ![kind] = @ \cup {proc[p].key}]
          /\ UNCHANGED <<chain, reach, master, legacy, recorded, index, vault, slot, made, proc>>
        BY <1>3 DEF Seal, slots
    <2>2. proc[p].key \in Keys
        BY <2>1 DEF Basic, Reads, Obeys, IsIn
    <2>3. sealed' \in [Kinds -> SUBSET Keys]
        BY <2>1, <2>2, BasicTypes DEF Typed
    <2> QED BY <2>1, <2>3 DEF Basic, Typed, SlotTypes, Placed, IsIn, Vaulted, ListsVaulted, InVault,
                              Reads, Obeys
<1>4. ASSUME NEW p \in Procs, NEW env \in EnvKeys \cup {NoKey}, Start(p, env) PROVE Basic'
    <2> DEFINE r == [Down EXCEPT !.at = "look", !.env = env]
    <2>1. p # "cli" /\ MayBegin(p) /\ Becomes(p, r) /\ UNCHANGED <<slots, slot, sealed, made>>
        BY <1>4 DEF Start
    <2>2. r \in Process /\ r.at = "look" /\ r.job = "resolve"
        BY DownIs DEF Process, Phases
    <2> HIDE DEF r
    <2> QED BY <2>1, <2>2, BeginsBasic DEF Reads
<1>5. ASSUME NEW env \in EnvKeys \cup {NoKey}, Command(env) PROVE Basic'
    BY <1>5, CommandBasic
<1>6. CASE StoreCurrent \/ RemoveRetired
    BY <1>6, InstallBasic
<1>7. CASE Deliver
    <2> DEFINE k == proc["core"].key
               opens == proc["core"].opens
               r == [Down EXCEPT !.at = "run", !.key = k, !.opens = opens]
    <2>1. /\ IsIn("core", "run") /\ MayBegin("gateway") /\ Becomes("gateway", r)
          /\ UNCHANGED <<slots, slot, sealed, made>> /\ "gateway" \in Procs
        BY <1>7 DEF Deliver, Procs
    <2>2. k \in Keys /\ opens \in SUBSET (Keys \cup {NoKey})
        BY <2>1, BasicTypes DEF Typed, Process, Procs, Basic, Reads, IsIn
    <2> HIDE DEF k, opens
    <2>3. r \in Process /\ r.at = "run" /\ r.job = "resolve" /\ r.key = k
        BY <2>2, DownIs DEF Process, Phases
    <2> HIDE DEF r
    <2>4. Reads(r)
        BY <2>2, <2>3 DEF Reads
    <2> QED BY <2>1, <2>3, <2>4, BeginsBasic
<1>8. CASE KeychainMoves \/ Quiescent \/ UNCHANGED vars
    <2>1. /\ reach' \in Reaches
          /\ UNCHANGED <<chain, master, legacy, recorded, index, vault, slot, sealed, made, proc>>
        BY <1>8 DEF KeychainMoves, Quiescent, vars, slots, Basic, Typed, SlotTypes
    <2> QED BY <2>1 DEF Basic, Typed, SlotTypes, Placed, IsIn, Vaulted, ListsVaulted, InVault,
                        Reads, Obeys
<1> QED BY <1>1, <1>2, <1>3, <1>4, <1>5, <1>6, <1>7, <1>8 DEF Next

\* The histories stay what they are: a truth value and a set of keys.
LEMMA NextTold == Basic /\ Told /\ [Next]_vars => Told'
<1> SUFFICES ASSUME Basic, Told, [Next]_vars PROVE Told'
    OBVIOUS
<1>1. (\E now : Unlucky(now)) \/ UNCHANGED mishap
    BY DEF Next, vars, history, Resolve, Look, Store, Verify, Publish, Decide, RetireKey, ListKey,
           EndRetiring, WriteRecord, StoreCurrent, RemoveRetired, Stop, Seal, Start, Command, Adopt,
           RetireCommand, Import, Installs, Commanded, Deliver, KeychainMoves, Quiescent
<1>2. mishap' \in BOOLEAN
    BY <1>1 DEF Unlucky, Told
<1>3. (\E p \in Procs : stranded' = stranded \cup (Overlooked(p) \ {NoKey, proc[p].key}))
      \/ UNCHANGED stranded
    BY DEF Next, vars, history, Resolve, Look, Store, Verify, Publish, Decide, RetireKey, ListKey,
           EndRetiring, WriteRecord, StoreCurrent, RemoveRetired, Stop, Seal, Start, Command, Adopt,
           RetireCommand, Import, Installs, Commanded, Deliver, KeychainMoves, Quiescent
<1>4. \A p \in Procs : Overlooked(p) \subseteq Keys \cup {NoKey}
    BY BasicTypes DEF Overlooked
<1>5. stranded' \subseteq Keys
    BY <1>3, <1>4 DEF Told
<1> QED BY <1>2, <1>5 DEF Told

LEMMA Basics == Spec => [](Basic /\ Told)
<1>1. Init => Basic /\ Told
    BY InitBasic
<1>2. (Basic /\ Told) /\ [Next]_vars => (Basic /\ Told)'
    BY NextBasic, NextTold
<1> QED BY <1>1, <1>2, PTL DEF Spec

----------------------------------------------------------------------------
(* What follows                                                            *)

\* Every file, the keychain and every process keep their types, and the retired set its
\* bound (MAX_RETIRED_KEYS, custody.rs), which an index that was read too early respects too.
THEOREM CustodyTypes == Spec => []TypeOK
<1>1. Basic /\ Told => TypeOK
    BY DEF Basic, Told, Typed, IndexFits, TypeOK, Process
<1> QED BY <1>1, Basics, PTL

\* Short of a mishap, a key that sealed something, or under which a process runs, stays in a
\* slot, or listed beside its copy, or with the operator, wherever a resolution or a command
\* was killed (load_master_key_guarded, RetiredVault::retire, install_current).
THEOREM NoKeyIsLost == Spec => []KeysKept
<1>1. ASSUME IInv PROVE InUse \ EnvKeys \subseteq KeptKeys
    <2>1. Safe \ EnvKeys \subseteq KeptKeys
        <3>1. index \in [Keys -> Custodies] /\ \A k \in Keys : InVault(k, index[k])
            BY <1>1 DEF IInv, Typed, SlotTypes, Vaulted
        <3> QED BY <3>1 DEF Safe, Retired, Custodies, InVault, KeptKeys
    <2>2. \A kind \in Kinds : sealed[kind] \subseteq Safe
        BY <1>1 DEF IInv, Used
    <2>3. \A p \in Procs \ {"cli"} : IsIn(p, "run") => proc[p].key \in Safe
        BY <1>1 DEF IInv, Resolves, IsIn
    <2>4. InUse \subseteq Safe
        BY <2>2, <2>3 DEF InUse
    <2> QED BY <2>1, <2>4
<1>2. (~mishap => IInv) => KeysKept
    BY <1>1 DEF KeysKept
<1> QED BY <1>2, Invariance, PTL

----------------------------------------------------------------------------
(* Refusals                                                                *)

NoneFails == \A q \in Procs : proc'[q].failed => proc[q].failed

LEMMA Calm ==
    ASSUME Typed, NEW p \in Procs, NEW r, Becomes(p, r), r.failed => proc[p].failed
    PROVE  NoneFails
BY BecomesIs DEF NoneFails

LEMMA CalmRuns ==
    ASSUME Typed, NEW p \in Procs, NEW k, NEW todo, NEW at, Runs(p, k, todo, at)
    PROVE  NoneFails
<1> DEFINE r == [proc[p] EXCEPT !.at = at, !.key = k, !.old = proc[p].key, !.todo = todo,
                                !.opens = {k, proc[p].key} \cup RetiredKeys]
<1>1. Becomes(p, r)
    BY DEF Runs
<1>2. r.failed = proc[p].failed
    BY DEF Typed, Process
<1> HIDE DEF r
<1> QED BY <1>1, <1>2, Calm

LEMMA CalmTakes ==
    ASSUME Typed, NEW p \in Procs, NEW k, NEW x, Has(p, k, x) \/ Takes(p, k, x)
    PROVE  NoneFails
<1> DEFINE h == [proc[p] EXCEPT !.at = "decide", !.key = k, !.source = x, !.seen = recorded,
                                !.locked = Observed(p)]
           t == [proc[p] EXCEPT !.at = x, !.key = k, !.seen = recorded, !.locked = Observed(p)]
<1>1. Becomes(p, h) \/ Becomes(p, t)
    BY DEF Has, Takes
<1>2. h.failed = proc[p].failed /\ t.failed = proc[p].failed
    BY DEF Typed, Process
<1> HIDE DEF h, t
<1> QED BY <1>1, <1>2, Calm

LEMMA CalmGoes ==
    ASSUME Typed, NEW p \in Procs, NEW at, Goes(p, at)
    PROVE  NoneFails
<1> DEFINE r == [proc[p] EXCEPT !.at = at]
<1>1. Becomes(p, r)
    BY DEF Goes
<1>2. r.failed = proc[p].failed
    BY DEF Typed, Process
<1> HIDE DEF r
<1> QED BY <1>1, <1>2, Calm

LEMMA CalmEnd ==
    ASSUME Typed, NEW p \in Procs, Becomes(p, Down)
    PROVE  NoneFails
BY DownIs, Calm

LEMMA CalmRetired1 ==
    ASSUME Typed, NEW p \in Procs, NEW k, Becomes(p, Retired1(p, k))
    PROVE  NoneFails
<1> DEFINE r == [proc[p] EXCEPT !.todo = @ \ {k}, !.at = "retire"]
<1>1. Becomes(p, r)
    BY DEF Retired1
<1>2. r.failed = proc[p].failed
    BY DEF Typed, Process
<1> HIDE DEF r
<1> QED BY <1>1, <1>2, Calm

\* A refusal: the ladder's, with the key then on record, or the one after it.
Refuses(p) ==
    \/ IsIn(p, "look") /\ Refused(p, recorded)
    \/ IsIn(p, "verify") /\ Refused(p, proc[p].seen)
    \/ Decide(p)

LEMMA ResolvesOrRefuses ==
    ASSUME Typed, NEW p \in Procs, Resolve(p)
    PROVE  NoneFails \/ Refuses(p)
<1>1. CASE Look(p)
    BY <1>1, CalmTakes DEF Look, UsesEnv, UsesKeychain, UsesFile, Generates, IsRefused, Refuses
<1>2. CASE Store(p)
    BY <1>2, CalmGoes DEF Store
<1>3. CASE Verify(p)
    <2> DEFINE r == [proc[p] EXCEPT !.at = "decide", !.source = "keychain"]
    <2>1. Becomes(p, r) \/ Refuses(p)
        BY <1>3 DEF Verify, Refuses
    <2>2. r.failed = proc[p].failed
        BY DEF Typed, Process
    <2> HIDE DEF r
    <2> QED BY <2>1, <2>2, Calm
<1>4. CASE Publish(p)
    <2> DEFINE r == [proc[p] EXCEPT !.at = "decide", !.key = master', !.source = "file"]
    <2>1. Becomes(p, r)
        BY <1>4 DEF Publish
    <2>2. r.failed = proc[p].failed
        BY DEF Typed, Process
    <2> HIDE DEF r
    <2> QED BY <2>1, <2>2, Calm
<1>5. CASE Decide(p)
    BY <1>5 DEF Refuses
<1>6. CASE RetireKey(p)
    <2>1. PICK k \in proc[p].todo :
              \/ Becomes(p, Retired1(p, k))
              \/ Becomes(p, Down)
              \/ \E custody \in {"file", "keychain"} :
                     Becomes(p, [proc[p] EXCEPT !.at = "index", !.old = k, !.idx = index,
                                                !.custody = custody])
        BY <1>6 DEF RetireKey
    <2>2. ASSUME NEW custody \in {"file", "keychain"},
                 Becomes(p, [proc[p] EXCEPT !.at = "index", !.old = k, !.idx = index,
                                            !.custody = custody])
          PROVE NoneFails
        <3> DEFINE r == [proc[p] EXCEPT !.at = "index", !.old = k, !.idx = index,
                                        !.custody = custody]
        <3>1. Becomes(p, r)
            BY <2>2
        <3>2. r.failed = proc[p].failed
            BY DEF Typed, Process
        <3> HIDE DEF r
        <3> QED BY <3>1, <3>2, Calm
    <2> QED BY <2>1, <2>2, CalmRetired1, CalmEnd
<1>7. CASE ListKey(p)
    BY <1>7, CalmRetired1 DEF ListKey
<1>8. CASE EndRetiring(p)
    BY <1>8, CalmEnd, CalmGoes DEF EndRetiring
<1>9. CASE WriteRecord(p)
    BY <1>9, CalmEnd, CalmGoes DEF WriteRecord
<1> QED BY <1>1, <1>2, <1>3, <1>4, <1>5, <1>6, <1>7, <1>8, <1>9 DEF Resolve

\* What begins has not failed.
LEMMA BegunIsCalm ==
    ASSUME Typed, NEW p \in Procs, NEW at, NEW job, NEW k, NEW env, NEW todo, NEW opens,
           \/ Becomes(p, [Down EXCEPT !.at = at, !.env = env])
           \/ Becomes(p, [Down EXCEPT !.at = at, !.key = k, !.opens = opens])
           \/ Becomes(p, [Down EXCEPT !.at = at, !.job = job, !.key = k, !.env = env, !.todo = todo])
    PROVE  NoneFails
<1> DEFINE r1 == [Down EXCEPT !.at = at, !.env = env]
           r2 == [Down EXCEPT !.at = at, !.key = k, !.opens = opens]
           r3 == [Down EXCEPT !.at = at, !.job = job, !.key = k, !.env = env, !.todo = todo]
<1>1. Becomes(p, r1) \/ Becomes(p, r2) \/ Becomes(p, r3)
    OBVIOUS
<1>2. ~r1.failed /\ ~r2.failed /\ ~r3.failed
    BY DownIs DEF Process
<1> HIDE DEF r1, r2, r3
<1> QED BY <1>1, <1>2, Calm

LEMMA CommandsAreCalm ==
    ASSUME Typed, NEW env, Command(env)
    PROVE  NoneFails
<1>1. "cli" \in Procs
    BY DEF Procs
<1>2. \E job, k, todo, at : Commanded(job, k, env, todo, at)
    BY DEF Command, Adopt, RetireCommand, Import, Installs
<1> QED BY <1>1, <1>2, BegunIsCalm DEF Commanded

LEMMA OnlyResolversFail ==
    ASSUME Typed, [Next]_vars
    PROVE  NoneFails \/ \E p \in Procs : Refuses(p)
<1>1. {"cli", "core", "gateway"} \subseteq Procs
    BY DEF Procs
<1>2. ASSUME NEW p \in Procs, Resolve(p) PROVE NoneFails \/ Refuses(p)
    BY <1>2, ResolvesOrRefuses
<1>3. ASSUME NEW p \in Procs, Stop(p) PROVE NoneFails
    BY <1>3, CalmEnd DEF Stop
<1>4. ASSUME NEW p \in Procs, NEW env, Start(p, env) PROVE NoneFails
    BY <1>4, BegunIsCalm DEF Start
<1>5. ASSUME NEW env, Command(env) PROVE NoneFails
    BY <1>5, CommandsAreCalm
<1>6. CASE Deliver
    <2>1. \E k, opens : Becomes("gateway", [Down EXCEPT !.at = "run", !.key = k, !.opens = opens])
        BY <1>6 DEF Deliver
    <2> QED BY <1>1, <2>1, BegunIsCalm
<1>7. CASE StoreCurrent
    BY <1>1, <1>7, CalmGoes DEF StoreCurrent
<1>8. CASE RemoveRetired
    BY <1>1, <1>8, CalmEnd DEF RemoveRetired
<1>9. CASE (\E p \in Procs, kind \in Kinds : Seal(p, kind)) \/ KeychainMoves \/ Quiescent \/ UNCHANGED vars
    BY <1>9 DEF Seal, KeychainMoves, Quiescent, vars, NoneFails
<1> QED BY <1>2, <1>3, <1>4, <1>5, <1>6, <1>7, <1>8, <1>9 DEF Next

LEMMA RefusalKeepsFailed ==
    ASSUME Typed, NEW p \in Procs, NEW seen, Refused(p, seen), proc'[p].failed, ~proc[p].failed
    PROVE  Recovers(p, seen) = {}
<1> SUFFICES ASSUME Recovers(p, seen) # {} PROVE FALSE
    OBVIOUS
<1> DEFINE r == [proc[p] EXCEPT !.at = "run", !.key = seen, !.opens = {seen} \cup RetiredKeys]
<1>1. Becomes(p, r)
    BY DEF Refused
<1>2. r.failed = proc[p].failed
    BY DEF Typed, Process
<1> HIDE DEF r
<1> QED BY <1>1, <1>2, BecomesIs

LEMMA OneChanges ==
    ASSUME Typed, NEW p \in Procs, Refuses(p)
    PROVE  \A q \in Procs : q # p => proc'[q] = proc[q]
<1>1. \E r : Becomes(p, r)
    BY DEF Refuses, Refused, Decide, DecideApp, DecideMaster, Runs, RunsApp
<1> QED BY <1>1, BecomesIs

\* A process that decides fails over the recorded key only when no candidate is that key.
LEMMA DecisionFails ==
    ASSUME Basic, NEW p \in Procs, Decide(p), slot = "master", proc[p].env = NoKey,
           proc[p].seen = recorded, recorded # NoKey, proc'[p].failed, ~proc[p].failed
    PROVE  recorded \notin CandidateKeys(NoKey)
<1>1. p \in Procs \ {"cli", "desktop"} /\ IsIn(p, "decide") /\ DecideMaster(p)
    BY DEF Decide, Basic, Placed, Obeys, IsIn
<1>2. proc[p].source # "env"
    BY <1>1, CustodyAssumption DEF Basic, Reads, IsIn
<1>3. \/ NoneFails
      \/ recorded \notin CandidateKeys(NoKey)
    BY <1>1, <1>2, BasicTypes, CalmRuns DEF DecideMaster
<1> QED BY <1>3 DEF NoneFails

\* A process without a key of its own is refused over the recorded key only when neither key
\* file holds it (resolve and load_master_key_guarded, lib.rs): what another process, a
\* keychain that comes and goes, or a command cut short did to the slots does not refuse it, mishap or not.
THEOREM RefusedForWantOfTheKey == Spec => RefusedOnlyWithoutTheKey
<1>1. ASSUME Basic, [Next]_vars,
             NEW p \in Procs, proc'[p].failed, ~proc[p].failed, proc[p].env = NoKey,
             recorded # NoKey, slot = "master", IsIn(p, "look") \/ proc[p].seen = recorded
      PROVE  recorded \notin {master, legacy}
    <2>1. Refuses(p)
        <3>1. PICK q \in Procs : Refuses(q)
            BY <1>1, BasicTypes, OnlyResolversFail DEF NoneFails
        <3>2. q = p
            BY <1>1, <3>1, BasicTypes, OneChanges
        <3> QED BY <3>1, <3>2
    <2>2. recorded \notin CandidateKeys(NoKey)
        <3>1. CASE Refused(p, recorded)
            <4>1. Recovers(p, recorded) = {}
                BY <1>1, <3>1, BasicTypes, RefusalKeepsFailed
            <4> QED BY <1>1, <4>1 DEF Recovers
        <3>2. CASE Decide(p)
            <4>1. proc[p].seen = recorded
                BY <1>1, <3>2 DEF Decide, IsIn
            <4> QED BY <1>1, <3>2, <4>1, DecisionFails
        <3>3. CASE IsIn(p, "verify") /\ Refused(p, proc[p].seen)
            BY <1>1, <3>1, <3>3 DEF IsIn
        <3> QED BY <2>1, <3>1, <3>2, <3>3 DEF Refuses
    <2> QED BY <1>1, <2>2 DEF CandidateKeys, LiveKeys
<1>2. Basic /\ [Next]_vars =>
          [\A p \in Procs :
              (proc'[p].failed /\ ~proc[p].failed /\ proc[p].env = NoKey /\ recorded # NoKey
               /\ slot = "master" /\ (IsIn(p, "look") \/ proc[p].seen = recorded))
              => recorded \notin {master, legacy}]_vars
    BY <1>1
<1> QED BY <1>2, Basics, PTL DEF Spec, RefusedOnlyWithoutTheKey

----------------------------------------------------------------------------
(* What a step leaves in the process that takes it                         *)

LEMMA HasFields ==
    ASSUME Typed, NEW p \in Procs, NEW k, NEW source, Has(p, k, source)
    PROVE  /\ \E r : Becomes(p, r)
           /\ proc'[p].at = "decide" /\ proc'[p].key = k /\ proc'[p].source = source
           /\ proc'[p].seen = recorded /\ proc'[p].env = proc[p].env
           /\ proc'[p].locked = Observed(p)
<1> DEFINE r == [proc[p] EXCEPT !.at = "decide", !.key = k, !.source = source,
                                !.seen = recorded, !.locked = Observed(p)]
<1>1. Becomes(p, r)
    BY DEF Has
<1>2. /\ r.at = "decide" /\ r.key = k /\ r.source = source
      /\ r.seen = recorded /\ r.env = proc[p].env /\ r.locked = Observed(p)
    BY DEF Typed, Process
<1> HIDE DEF r
<1> QED BY <1>1, <1>2, BecomesIs

LEMMA TakesFields ==
    ASSUME Typed, NEW p \in Procs, NEW k, NEW at, Takes(p, k, at)
    PROVE  /\ \E r : Becomes(p, r)
           /\ proc'[p].at = at /\ proc'[p].key = k /\ proc'[p].source = proc[p].source
           /\ proc'[p].seen = recorded /\ proc'[p].env = proc[p].env
           /\ proc'[p].locked = Observed(p)
<1> DEFINE r == [proc[p] EXCEPT !.at = at, !.key = k, !.seen = recorded, !.locked = Observed(p)]
<1>1. Becomes(p, r)
    BY DEF Takes
<1>2. /\ r.at = at /\ r.key = k /\ r.source = proc[p].source
      /\ r.seen = recorded /\ r.env = proc[p].env /\ r.locked = Observed(p)
    BY DEF Typed, Process
<1> HIDE DEF r
<1> QED BY <1>1, <1>2, BecomesIs

LEMMA GoesFields ==
    ASSUME Typed, NEW p \in Procs, NEW at, Goes(p, at)
    PROVE  /\ \E r : Becomes(p, r)
           /\ proc'[p].at = at /\ proc'[p].key = proc[p].key /\ proc'[p].source = proc[p].source
           /\ proc'[p].seen = proc[p].seen /\ proc'[p].env = proc[p].env
           /\ proc'[p].locked = proc[p].locked /\ proc'[p].job = proc[p].job
           /\ proc'[p].todo = proc[p].todo /\ proc'[p].opens = proc[p].opens
<1> DEFINE r == [proc[p] EXCEPT !.at = at]
<1>1. Becomes(p, r)
    BY DEF Goes
<1>2. /\ r.at = at /\ r.key = proc[p].key /\ r.source = proc[p].source
      /\ r.seen = proc[p].seen /\ r.env = proc[p].env
      /\ r.locked = proc[p].locked /\ r.job = proc[p].job
      /\ r.todo = proc[p].todo /\ r.opens = proc[p].opens
    BY DEF Typed, Process
<1> HIDE DEF r
<1> QED BY <1>1, <1>2, BecomesIs

LEMMA RunsFields ==
    ASSUME Typed, NEW p \in Procs, NEW k, NEW todo, NEW at, Runs(p, k, todo, at)
    PROVE  /\ \E r : Becomes(p, r)
           /\ proc'[p].at = at /\ proc'[p].key = k /\ proc'[p].seen = proc[p].seen
<1> DEFINE r == [proc[p] EXCEPT !.at = at, !.key = k, !.old = proc[p].key, !.todo = todo,
                                !.opens = {k, proc[p].key} \cup RetiredKeys]
<1>1. Becomes(p, r)
    BY DEF Runs
<1>2. r.at = at /\ r.key = k /\ r.seen = proc[p].seen
    BY DEF Typed, Process
<1> HIDE DEF r
<1> QED BY <1>1, <1>2, BecomesIs

LEMMA RetiredFields ==
    ASSUME Typed, NEW p \in Procs, NEW k, Becomes(p, Retired1(p, k))
    PROVE  /\ proc'[p].at = "retire" /\ proc'[p].key = proc[p].key
           /\ proc'[p].seen = proc[p].seen /\ proc'[p].job = proc[p].job
           /\ proc'[p].todo = proc[p].todo \ {k}
<1> DEFINE r == [proc[p] EXCEPT !.todo = @ \ {k}, !.at = "retire"]
<1>1. Becomes(p, r)
    BY DEF Retired1
<1>2. r.seen = proc[p].seen
    BY DEF Typed, Process
<1> HIDE DEF r
<1>3. proc'[p].seen = proc[p].seen
    BY <1>1, <1>2, BecomesIs
<1> QED BY <1>3, Retired1Is

LEMMA ListingFields ==
    ASSUME Typed, NEW p \in Procs, NEW k, NEW custody,
           Becomes(p, [proc[p] EXCEPT !.at = "index", !.old = k, !.idx = index,
                                      !.custody = custody])
    PROVE  /\ proc'[p].at = "index" /\ proc'[p].key = proc[p].key
           /\ proc'[p].seen = proc[p].seen /\ proc'[p].job = proc[p].job
           /\ proc'[p].todo = proc[p].todo /\ proc'[p].idx = index
<1> DEFINE r == [proc[p] EXCEPT !.at = "index", !.old = k, !.idx = index, !.custody = custody]
<1>1. Becomes(p, r)
    OBVIOUS
<1>2. /\ r.at = "index" /\ r.key = proc[p].key /\ r.seen = proc[p].seen
      /\ r.job = proc[p].job /\ r.todo = proc[p].todo /\ r.idx = index
    BY DEF Typed, Process
<1> HIDE DEF r
<1> QED BY <1>1, <1>2, BecomesIs

LEMMA DownFields ==
    ASSUME Typed, NEW p \in Procs, NEW env \in EnvKeys \cup {NoKey}, NEW r, Becomes(p, r),
           r \in {Down, [Down EXCEPT !.failed = TRUE], [Down EXCEPT !.failed = TRUE, !.env = env]}
    PROVE  proc'[p].at = "down" /\ proc'[p].job = "resolve"
<1>1. r.at = "down" /\ r.job = "resolve"
    BY DownFits
<1>2. proc'[p] = r
    BY BecomesIs
<1> QED BY <1>1, <1>2

\* A refused process ends, or runs on a candidate that is the recorded key.
LEMMA RefusedFields ==
    ASSUME Typed, NEW p \in Procs, NEW seen, Refused(p, seen)
    PROVE  /\ \E r : Becomes(p, r)
           /\ \/ proc'[p].at = "down"
              \/ /\ proc'[p].at = "run" /\ proc'[p].key = seen /\ seen \in Keys
                 /\ slot = "master"
<1>1. proc[p].env \in EnvKeys \cup {NoKey}
    BY DEF Typed, Process
<1>2. CASE Recovers(p, seen) # {}
    <2> DEFINE r == [proc[p] EXCEPT !.at = "run", !.key = seen, !.opens = {seen} \cup RetiredKeys]
    <2>1. Becomes(p, r)
        BY <1>2 DEF Refused
    <2>2. r.at = "run" /\ r.key = seen
        BY DEF Typed, Process
    <2>3. seen \in Keys /\ slot = "master"
        BY <1>1, <1>2, CandidatesSafe DEF Recovers
    <2> HIDE DEF r
    <2> QED BY <2>1, <2>2, <2>3, BecomesIs
<1>3. CASE Recovers(p, seen) = {}
    <2>1. Becomes(p, [Down EXCEPT !.failed = TRUE, !.env = proc[p].env])
        BY <1>3 DEF Refused
    <2> QED BY <1>1, <2>1, DownFields
<1> QED BY <1>2, <1>3

\* While another process works no command does.
LEMMA NoCommand ==
    ASSUME IInv, NEW p \in Procs \ {"cli"}, Working(p)
    PROVE  IsIn("cli", "down")
<1>1. ~Working("cli")
    BY DEF IInv, Alone, Placed, Procs
<1> QED BY <1>1 DEF Working, IsIn, IInv, Commands

----------------------------------------------------------------------------
(* What Core has to find again                                             *)

CoreSealed == sealed.message \cup sealed.store

\* What is to be found again; and is, with a list idx.
Needed == CoreSealed \ (EnvKeys \cup stranded)
Listing(idx) == Needed \subseteq {recorded, chain} \cup Retired(idx)

\* Before the first record, all that Core sealed is under one key.
Unrecorded == \A k, l \in CoreSealed : k = l

\* Core goes by the record as it is, since nobody else writes it while Core is up; what it
\* runs on is recorded, and what it is about to record opens its messages, if it has any.
CoreReads(r) ==
    /\ r.at \notin {"down", "look", "run"} => r.seen = recorded
    /\ r.at = "run" => r.key = recorded /\ recorded # NoKey
    /\ r.at \in {"retire", "index"} /\ r.seen # NoKey => r.key = r.seen
    /\ r.at \in {"retire", "index", "record"} /\ r.seen = NoKey /\ sealed.message # {} =>
          CoreSealed \subseteq {r.key}
    /\ r.at = "record" => r.seen = NoKey
    /\ r.at = "index" /\ recorded # NoKey => Listing(r.idx)

\* The Gateway may have read the record before Core wrote it, and then retires nothing.
GatewayReads(r) ==
    /\ r.at \notin {"down", "look", "run"} => r.seen \in {NoKey, recorded}
    /\ r.at # "record"
    /\ r.at \in {"retire", "index"} => r.seen # NoKey
    /\ r.at = "index" => Listing(r.idx)

\* A command that installs a key leaves nothing behind that only the old record names.
Replaces(r) ==
    /\ r.at # "down" => IsIn("core", "down")
    /\ recorded # NoKey =>
          /\ r.job = "install" /\ r.at \in {"retire", "index", "install"} =>
                Needed \subseteq {r.key, chain} \cup r.todo \cup Retired(index)
          /\ r.at = "record" => Needed \subseteq {r.key, chain} \cup Retired(index)

Found ==
    /\ recorded # NoKey => Listing(index)
    /\ recorded = NoKey => Unrecorded
    /\ CoreReads(proc["core"]) /\ GatewayReads(proc["gateway"]) /\ Replaces(proc["cli"])

FInv == slot = "master" => Found

----------------------------------------------------------------------------
(* Core and the Gateway                                                    *)

\* What Core sealed, while the record and the data stay as they are.
LEMMA ListingKept ==
    ASSUME IInv, UNCHANGED <<sealed, recorded, stranded>>, chain' = chain \/ chain = NoKey,
           NEW idx, NEW wider, Retired(idx) \subseteq Retired(wider), Listing(idx)
    PROVE  Needed \subseteq {recorded', chain'} \cup Retired(wider)
<1>1. NoKey \notin CoreSealed
    BY CustodyAssumption DEF IInv, Typed, CoreSealed, Kinds
<1> QED BY <1>1 DEF Listing, Needed

\* A step of Core or of the Gateway, with no command about.
LEMMA FoundKeeps ==
    ASSUME IInv, Found, NEW p \in {"core", "gateway"}, NEW r, Becomes(p, r), IsIn("cli", "down"),
           UNCHANGED <<sealed, recorded, stranded>>, chain' = chain \/ chain = NoKey,
           recorded # NoKey => Retired(index) \subseteq Retired(index') \/ Listing(index)',
           p = "core" => CoreReads(proc["core"])',
           p = "gateway" => GatewayReads(proc["gateway"])'
    PROVE  Found'
<1>1. \A q \in Procs : q # p => proc'[q] = proc[q]
    BY BecomesIs DEF IInv, Procs
<1>2. CoreSealed' = CoreSealed /\ Needed' = Needed
    BY DEF CoreSealed, Needed
<1>3. (recorded # NoKey => Listing(index))' /\ (recorded = NoKey => Unrecorded)'
    BY <1>2, ListingKept DEF Found, Listing, Unrecorded
<1>4. \A idx : Listing(idx) => Needed \subseteq {recorded', chain'} \cup Retired(idx)
    BY ListingKept
<1>5. CoreReads(proc["core"])'
    <2>1. CASE p = "core"
        BY <2>1
    <2>2. CASE p = "gateway"
        BY <1>1, <1>2, <1>4, <2>2 DEF Found, CoreReads, Listing, Procs
    <2> QED BY <2>1, <2>2
<1>6. GatewayReads(proc["gateway"])'
    <2>1. CASE p = "gateway"
        BY <2>1
    <2>2. CASE p = "core"
        BY <1>1, <1>2, <1>4, <2>2 DEF Found, GatewayReads, Listing, Procs
    <2> QED BY <2>1, <2>2
<1>7. Replaces(proc["cli"])'
    BY <1>1 DEF Replaces, IsIn, Procs
<1> QED BY <1>3, <1>5, <1>6, <1>7 DEF Found

\* A step of a command, with Core down and the Gateway down or running.
LEMMA FoundCommands ==
    ASSUME IInv, Found, NEW r, Becomes("cli", r), IsIn("core", "down"), ~Working("gateway"),
           (recorded # NoKey => Listing(index))', (recorded = NoKey => Unrecorded)',
           Replaces(proc["cli"])'
    PROVE  Found'
<1>1. proc'["core"] = proc["core"] /\ proc'["gateway"] = proc["gateway"]
    BY BecomesIs DEF IInv, Procs
<1>2. CoreReads(proc["core"])'
    BY <1>1 DEF CoreReads, IsIn
<1>3. GatewayReads(proc["gateway"])'
    BY <1>1 DEF GatewayReads, Working
<1> QED BY <1>2, <1>3 DEF Found

LEMMA CommandAlone ==
    ASSUME IInv, Found, Working("cli")
    PROVE  IsIn("core", "down") /\ ~Working("gateway")
<1>1. ~Working("gateway")
    BY DEF IInv, Alone, Placed, Procs
<1> QED BY <1>1 DEF Found, Replaces, Working

\* Process p reads the record while it resolves, or has read it.
LEMMA FoundReads ==
    ASSUME IInv, Found, NEW p \in {"core", "gateway"}, NEW r, Becomes(p, r), IsIn("cli", "down"),
           UNCHANGED <<sealed, recorded, index, stranded>>, chain' = chain \/ chain = NoKey,
           \/ proc'[p].at \in {"down", "look"}
           \/ proc'[p].at = "run" /\ proc'[p].key = recorded /\ recorded # NoKey
           \/ proc'[p].at \in {"store", "verify", "publish", "decide"} /\ proc'[p].seen = recorded
           \/ /\ proc'[p].at \in {"store", "verify", "publish", "decide"} /\ Working(p)
              /\ proc'[p].seen = proc[p].seen /\ ~IsIn(p, "look")
    PROVE  Found'
<1>1. p = "core" => CoreReads(proc["core"])'
    BY DEF Found, CoreReads, Working, IsIn
<1>2. p = "gateway" => GatewayReads(proc["gateway"])'
    BY DEF Found, GatewayReads, Working, IsIn
<1> QED BY <1>1, <1>2, FoundKeeps

LEMMA FoundRefused ==
    ASSUME IInv, Found, NEW p \in {"core", "gateway"}, Working(p), NEW seen, Refused(p, seen),
           p = "core" => seen = recorded, seen \in {NoKey, recorded},
           UNCHANGED <<sealed, recorded, index, chain, stranded>>
    PROVE  Found'
<1>1. IsIn("cli", "down") /\ NoKey \notin Keys
    BY NoCommand, CustodyAssumption DEF Procs
<1>2. /\ \E r : Becomes(p, r)
      /\ \/ proc'[p].at = "down"
         \/ proc'[p].at = "run" /\ proc'[p].key = seen /\ seen \in Keys
    BY RefusedFields DEF IInv, Procs
<1> QED BY <1>1, <1>2, FoundReads

LEMMA FoundLooks ==
    ASSUME IInv, Found, slot = "master", NEW p \in {"core", "gateway"}, Look(p)
    PROVE  Found'
<1>1. /\ IsIn(p, "look") /\ UNCHANGED <<chain, recorded, index, sealed, stranded>> /\ p \in Procs
      /\ Working(p) /\ Typed
    BY DEF Look, Kept, history, Procs, Working, IsIn, IInv
<1>2. IsIn("cli", "down")
    BY <1>1, NoCommand DEF Procs
<1>3. ASSUME NEW k, NEW source, Has(p, k, source) PROVE Found'
    BY <1>1, <1>2, <1>3, HasFields, FoundReads
<1>4. ASSUME NEW k, NEW at \in {"store", "publish"}, Takes(p, k, at) PROVE Found'
    BY <1>1, <1>2, <1>4, TakesFields, FoundReads
<1>5. ASSUME NEW at \in {"store", "publish"}, Generates(p, at) PROVE Found'
    BY <1>4, <1>5 DEF Generates
<1>6. CASE Refused(p, recorded)
    BY <1>1, <1>6, FoundRefused
<1> QED BY <1>3, <1>4, <1>5, <1>6 DEF Look, UsesEnv, UsesKeychain, UsesFile, IsRefused

LEMMA FoundStores ==
    ASSUME IInv, Found, ~mishap', NEW p \in {"core", "gateway"},
           Store(p) \/ Verify(p) \/ Publish(p)
    PROVE  Found'
<1>1. /\ UNCHANGED <<recorded, index, sealed, stranded>> /\ p \in Procs /\ Working(p) /\ Typed
      /\ ~IsIn(p, "look")
    BY DEF Store, Verify, Publish, Kept, history, Procs, Working, IsIn, IInv
<1>2. IsIn("cli", "down")
    BY <1>1, NoCommand DEF Procs
<1>3. CASE Store(p)
    <2>1. chain = NoKey \/ chain' = chain
        BY <1>3 DEF Store, Unlucky
    <2>2. Goes(p, "verify") \/ Goes(p, "publish")
        BY <1>3 DEF Store
    <2> QED BY <1>1, <1>2, <2>1, <2>2, GoesFields, FoundReads
<1>4. CASE Verify(p)
    <2>1. UNCHANGED chain /\ IsIn(p, "verify")
        BY <1>4 DEF Verify
    <2>2. CASE Becomes(p, [proc[p] EXCEPT !.at = "decide", !.source = "keychain"])
        <3> DEFINE r == [proc[p] EXCEPT !.at = "decide", !.source = "keychain"]
        <3>1. Becomes(p, r) /\ r.at = "decide" /\ r.seen = proc[p].seen
            BY <1>1, <2>2 DEF Typed, Process
        <3> HIDE DEF r
        <3>2. proc'[p].at = "decide" /\ proc'[p].seen = proc[p].seen
            BY <1>1, <3>1, BecomesIs
        <3> QED BY <1>1, <1>2, <2>1, <3>1, <3>2, FoundReads
    <2>3. CASE Refused(p, proc[p].seen)
        <3>1. proc[p].seen \in {NoKey, recorded} /\ (p = "core" => proc[p].seen = recorded)
            BY <2>1 DEF Found, CoreReads, GatewayReads, IsIn
        <3> QED BY <1>1, <2>1, <2>3, <3>1, FoundRefused
    <2> QED BY <1>4, <2>2, <2>3 DEF Verify
<1>5. CASE Publish(p)
    <2>1. UNCHANGED chain
        BY <1>5 DEF Publish
    <2> DEFINE k == master'
               r == [proc[p] EXCEPT !.at = "decide", !.key = k, !.source = "file"]
    <2>2. Becomes(p, r)
        BY <1>5 DEF Publish
    <2> HIDE DEF k
    <2>3. r.at = "decide" /\ r.seen = proc[p].seen
        BY <1>1 DEF Typed, Process
    <2> HIDE DEF r
    <2>4. proc'[p].at = "decide" /\ proc'[p].seen = proc[p].seen
        BY <1>1, <2>2, <2>3, BecomesIs
    <2> QED BY <1>1, <1>2, <2>1, <2>2, <2>4, FoundReads
<1> QED BY <1>3, <1>4, <1>5

\* Before the first record, a key that passes the probe opens all that Core sealed.
LEMMA ProbeFits ==
    ASSUME IInv, Unrecorded, NEW k,
           \/ "passed" \in ProbeResults("core", k)
           \/ "none" \in ProbeResults("core", k)
    PROVE  sealed.message # {} => CoreSealed \subseteq {k}
<1>1. CASE sealed.message = {}
    BY <1>1
<1>2. CASE sealed.message # {}
    <2>1. PICK sample \in SUBSET sealed.message \ {{}} : k \in sample
        BY <1>2 DEF ProbeResults
    <2>2. k \in CoreSealed
        BY <2>1 DEF CoreSealed
    <2> QED BY <2>2 DEF Unrecorded
<1> QED BY <1>1, <1>2

LEMMA FoundDecides ==
    ASSUME IInv, Found, NEW p \in {"core", "gateway"}, Decide(p)
    PROVE  Found'
<1> DEFINE seen == proc[p].seen
           k == proc[p].key
           others == CandidateKeys(proc[p].env)
<1>1. /\ UNCHANGED <<chain, recorded, index, sealed, stranded>> /\ p \in Procs /\ Working(p) /\ Typed
      /\ IsIn(p, "decide") /\ DecideMaster(p)
    BY DEF Decide, Kept, history, Procs, Working, IsIn, IInv
<1>2. /\ IsIn("cli", "down") /\ seen \in {NoKey, recorded} /\ (p = "core" => seen = recorded)
      /\ k \in Keys /\ NoKey \notin Keys
    <2>1. IsIn("cli", "down")
        BY <1>1, NoCommand DEF Procs
    <2>2. k \in Keys
        BY <1>1 DEF IInv, Resolves, IsIn, Procs
    <2> QED BY <1>1, <2>1, <2>2, CustodyAssumption DEF Found, CoreReads, GatewayReads, IsIn
<1>3. CASE Runs(p, k, {}, "run") /\ seen = k
    <2>1. (\E r : Becomes(p, r)) /\ proc'[p].at = "run" /\ proc'[p].key = k
        BY <1>1, <1>3, RunsFields
    <2> QED BY <1>1, <1>2, <1>3, <2>1, FoundReads
<1>4. CASE Becomes(p, [Down EXCEPT !.failed = TRUE, !.env = proc[p].env])
    <2>1. proc[p].env \in EnvKeys \cup {NoKey}
        BY <1>1 DEF Typed, Process
    <2>2. proc'[p].at = "down"
        BY <1>1, <1>4, <2>1, DownFields
    <2> QED BY <1>1, <1>2, <1>4, <2>2, FoundReads
<1>5. CASE seen # NoKey /\ Runs(p, seen, Mismatched(p), "retire")
    <2>1. /\ \E r : Becomes(p, r)
          /\ proc'[p].at = "retire" /\ proc'[p].key = seen /\ proc'[p].seen = seen
        BY <1>1, <1>5, RunsFields
    <2>2. p = "core" => CoreReads(proc["core"])'
        BY <1>1, <1>2, <1>5, <2>1 DEF CoreReads
    <2>3. p = "gateway" => GatewayReads(proc["gateway"])'
        BY <1>1, <1>2, <1>5, <2>1 DEF GatewayReads
    <2> QED BY <1>1, <1>2, <2>1, <2>2, <2>3, FoundKeeps
<1>6. CASE p = "gateway" /\ Runs(p, k, {}, "run")
    <2>1. (\E r : Becomes(p, r)) /\ proc'[p].at = "run"
        BY <1>1, <1>6, RunsFields
    <2>2. GatewayReads(proc["gateway"])'
        BY <1>6, <2>1 DEF GatewayReads
    <2> QED BY <1>1, <1>2, <1>6, <2>1, <2>2, FoundKeeps
<1>7. ASSUME p = "core", seen = NoKey, NEW j, NEW todo, NEW at \in {"record", "retire"},
             Runs(p, j, todo, at),
             "passed" \in ProbeResults(p, j) \/ "none" \in ProbeResults(p, j)
      PROVE  Found'
    <2>1. (\E r : Becomes(p, r)) /\ proc'[p].at = at /\ proc'[p].key = j /\ proc'[p].seen = NoKey
        BY <1>1, <1>7, RunsFields
    <2>2. (sealed.message # {} => CoreSealed \subseteq {j}) /\ CoreSealed' = CoreSealed
        BY <1>1, <1>2, <1>7, ProbeFits DEF Found, CoreSealed
    <2>3. CoreReads(proc["core"])'
        BY <1>1, <1>2, <1>7, <2>1, <2>2 DEF CoreReads
    <2> QED BY <1>1, <1>2, <1>7, <2>1, <2>3, FoundKeeps
<1>8. \/ seen = k /\ Runs(p, k, {}, "run")
      \/ Becomes(p, [Down EXCEPT !.failed = TRUE, !.env = proc[p].env])
      \/ seen # NoKey /\ Runs(p, seen, Mismatched(p), "retire")
      \/ p = "gateway" /\ Runs(p, k, {}, "run")
      \/ /\ p = "core" /\ seen = NoKey /\ Runs(p, k, {}, "record")
         /\ "passed" \in ProbeResults(p, k) \/ "none" \in ProbeResults(p, k)
      \/ /\ p = "core" /\ seen = NoKey
         /\ \E other \in others \ {k} :
               "passed" \in ProbeResults(p, other) /\ Runs(p, other, Mismatched(p), "retire")
    BY <1>1 DEF DecideMaster
<1> QED BY <1>3, <1>4, <1>5, <1>6, <1>7, <1>8

LEMMA FoundRetires ==
    ASSUME IInv, Found, NEW p \in {"core", "gateway"}, RetireKey(p)
    PROVE  Found'
<1>1. /\ UNCHANGED <<chain, recorded, index, sealed, stranded>> /\ p \in Procs /\ Working(p) /\ Typed
      /\ IsIn(p, "retire") /\ CoreSealed' = CoreSealed /\ Needed' = Needed
    BY DEF RetireKey, Kept, Procs, Working, IsIn, IInv, history, CoreSealed, Needed
<1>2. IsIn("cli", "down")
    BY <1>1, NoCommand DEF Procs
<1>3. ASSUME NEW k, Becomes(p, Retired1(p, k)) PROVE Found'
    <2>1. /\ proc'[p].at = "retire" /\ proc'[p].key = proc[p].key /\ proc'[p].seen = proc[p].seen
        BY <1>1, <1>3, RetiredFields
    <2>2. p = "core" => CoreReads(proc["core"])'
        BY <1>1, <2>1 DEF Found, CoreReads, IsIn
    <2>3. p = "gateway" => GatewayReads(proc["gateway"])'
        BY <1>1, <2>1 DEF Found, GatewayReads, IsIn
    <2> QED BY <1>1, <1>2, <1>3, <2>1, <2>2, <2>3, FoundKeeps
<1>4. ASSUME NEW k, NEW custody,
             Becomes(p, [proc[p] EXCEPT !.at = "index", !.old = k, !.idx = index,
                                        !.custody = custody])
      PROVE  Found'
    <2>1. /\ proc'[p].at = "index" /\ proc'[p].key = proc[p].key /\ proc'[p].seen = proc[p].seen
          /\ proc'[p].idx = index
        BY <1>1, <1>4, ListingFields
    <2>2. recorded # NoKey => Listing(index)'
        BY <1>1 DEF Found, Listing
    <2>3. p = "core" => CoreReads(proc["core"])'
        BY <1>1, <2>1, <2>2 DEF Found, CoreReads, IsIn, Listing
    <2>4. p = "gateway" => GatewayReads(proc["gateway"])'
        BY <1>1, <2>1, <2>2 DEF Found, GatewayReads, IsIn, Listing
    <2> QED BY <1>1, <1>2, <1>4, <2>2, <2>3, <2>4, FoundKeeps
<1> QED BY <1>3, <1>4 DEF RetireKey

\* The list grows on what was read, and what was read names every key that is needed.
LEMMA FoundLists ==
    ASSUME IInv, Found, NEW p \in {"core", "gateway"}, ListKey(p)
    PROVE  Found'
<1>1. /\ UNCHANGED <<chain, recorded, sealed, stranded>> /\ p \in Procs /\ Working(p) /\ Typed
      /\ IsIn(p, "index") /\ CoreSealed' = CoreSealed /\ Needed' = Needed
      /\ index' = [proc[p].idx EXCEPT ![proc[p].old] = proc[p].custody]
      /\ Becomes(p, Retired1(p, proc[p].old))
    BY DEF ListKey, Kept, Procs, Working, IsIn, IInv, history, CoreSealed, Needed
<1>2. IsIn("cli", "down")
    BY <1>1, NoCommand DEF Procs
<1>3. Retired(proc[p].idx) \subseteq Retired(index')
    <2>1. proc[p].idx \in [Keys -> Custodies] /\ proc[p].old \in Keys /\ proc[p].custody # "none"
        BY <1>1 DEF Typed, Process, IInv, Vaulted, ListsVaulted, IsIn
    <2> QED BY <1>1, <2>1 DEF Retired
<1>4. recorded # NoKey => Listing(index)'
    <2>1. recorded # NoKey => Listing(proc[p].idx)
        BY <1>1 DEF Found, CoreReads, GatewayReads, IsIn
    <2> QED BY <1>1, <1>3, <2>1 DEF Listing
<1>5. /\ proc'[p].at = "retire" /\ proc'[p].key = proc[p].key /\ proc'[p].seen = proc[p].seen
    BY <1>1, RetiredFields
<1>6. p = "core" => CoreReads(proc["core"])'
    BY <1>1, <1>5 DEF Found, CoreReads, IsIn
<1>7. p = "gateway" => GatewayReads(proc["gateway"])'
    BY <1>1, <1>5 DEF Found, GatewayReads, IsIn
<1> QED BY <1>1, <1>2, <1>4, <1>6, <1>7, FoundKeeps

LEMMA FoundEndsRetiring ==
    ASSUME IInv, Found, NEW p \in {"core", "gateway"}, EndRetiring(p)
    PROVE  Found'
<1>1. /\ UNCHANGED <<chain, recorded, index, sealed, stranded>> /\ p \in Procs /\ Working(p) /\ Typed
      /\ IsIn(p, "retire") /\ CoreSealed' = CoreSealed /\ Needed' = Needed /\ proc[p].job = "resolve"
    BY DEF EndRetiring, Kept, Procs, Working, IsIn, IInv, history, CoreSealed, Needed, Resolves
<1>2. IsIn("cli", "down")
    BY <1>1, NoCommand DEF Procs
<1> DEFINE at == IF p = "core" /\ proc[p].seen = NoKey THEN "record" ELSE "run"
<1>3. Goes(p, at)
    BY <1>1 DEF EndRetiring, AfterRetiring
<1>4. /\ \E r : Becomes(p, r)
      /\ proc'[p].at = at /\ proc'[p].key = proc[p].key /\ proc'[p].seen = proc[p].seen
    BY <1>1, <1>3, GoesFields
<1>5. p = "core" => CoreReads(proc["core"])'
    BY <1>1, <1>4 DEF Found, CoreReads, IsIn
<1>6. p = "gateway" => GatewayReads(proc["gateway"])'
    BY <1>1, <1>4 DEF Found, GatewayReads, IsIn
<1> QED BY <1>1, <1>2, <1>4, <1>5, <1>6, FoundKeeps

\* What a first record leaves out: with the keys of the key files set aside, the keychain and
\* the list hold what Core sealed.
LEMMA FirstRecord ==
    ASSUME IInv, recorded = NoKey, NEW k, NEW p \in Procs, k = proc[p].key, recorded' = k,
           stranded' = stranded \cup (Overlooked(p) \ {NoKey, k}), Overlooked(p) = {master, legacy},
           UNCHANGED <<chain, index, sealed>>
    PROVE  Listing(index)'
<1>1. CoreSealed \subseteq Safe /\ CoreSealed' = CoreSealed
    BY DEF IInv, Used, CoreSealed, Kinds
<1>2. Needed' = CoreSealed \ (EnvKeys \cup stranded')
    BY <1>1 DEF Needed
<1>3. ({master, legacy} \ {NoKey, k}) \subseteq stranded'
    OBVIOUS
<1>4. Needed' \subseteq {k, chain} \cup Retired(index)
    BY <1>1, <1>2, <1>3 DEF Safe
<1> QED BY <1>4 DEF Listing

\* Core writes the first record, of the key that opens its messages.
LEMMA FoundRecords ==
    ASSUME IInv, Found, NEW p \in {"core", "gateway"}, WriteRecord(p)
    PROVE  Found'
<1>1. p = "core" /\ IsIn("core", "record")
    BY DEF WriteRecord, Found, GatewayReads, IsIn
<1>2. /\ UNCHANGED <<chain, index, sealed>> /\ Goes("core", "run") /\ "core" \in Procs
      /\ recorded' = proc["core"].key /\ CoreSealed' = CoreSealed /\ Typed
    BY <1>1 DEF WriteRecord, Kept, CoreSealed, Procs, IInv
<1>3. /\ recorded = NoKey /\ recorded' # NoKey /\ IsIn("cli", "down")
      /\ sealed.message # {} => CoreSealed \subseteq {recorded'}
    <2>1. proc["core"].key \in Keys
        BY <1>1 DEF IInv, Resolves, IsIn, Procs
    <2>2. IsIn("cli", "down")
        BY <1>1, NoCommand DEF Procs, Working, IsIn
    <2> QED BY <1>1, <1>2, <2>1, <2>2, CustodyAssumption DEF Found, CoreReads, IsIn
<1>4. /\ \E r : Becomes("core", r)
      /\ proc'["core"].at = "run" /\ proc'["core"].key = proc["core"].key
    BY <1>2, GoesFields
<1>5. proc'["gateway"] = proc["gateway"] /\ proc'["cli"] = proc["cli"]
    BY <1>2, <1>4, BecomesIs DEF Procs
<1>6. Listing(index)'
    <2>1. CASE sealed.message # {}
        <3>1. Needed' \subseteq CoreSealed'
            BY DEF Needed
        <3> QED BY <1>2, <1>3, <2>1, <3>1 DEF Listing
    <2>2. CASE sealed.message = {}
        <3>1. Overlooked("core") = {master, legacy}
            BY <2>2 DEF Overlooked
        <3>2. stranded' = stranded \cup (Overlooked("core") \ {NoKey, proc["core"].key})
            BY <1>1, <1>3 DEF WriteRecord
        <3> QED BY <1>2, <1>3, <3>1, <3>2, FirstRecord
    <2> QED BY <2>1, <2>2
<1>7. CoreReads(proc["core"])'
    BY <1>2, <1>3, <1>4 DEF CoreReads
<1>8. GatewayReads(proc["gateway"])'
    BY <1>3, <1>5 DEF Found, GatewayReads
<1>9. Replaces(proc["cli"])'
    BY <1>3, <1>5 DEF Replaces, IsIn
<1> QED BY <1>3, <1>6, <1>7, <1>8, <1>9 DEF Found

----------------------------------------------------------------------------
(* Commands, sealing and the keychain                                      *)

LEMMA FoundCommandRetires ==
    ASSUME IInv, Found, RetireKey("cli")
    PROVE  Found'
<1>1. /\ UNCHANGED <<chain, recorded, index, sealed, stranded>> /\ "cli" \in Procs /\ Typed
      /\ IsIn("cli", "retire") /\ CoreSealed' = CoreSealed /\ Needed' = Needed
    BY DEF RetireKey, Kept, Procs, IsIn, IInv, history, CoreSealed, Needed
<1>2. IsIn("core", "down") /\ ~Working("gateway")
    BY <1>1, CommandAlone DEF Working, IsIn
<1>3. (recorded # NoKey => Listing(index))' /\ (recorded = NoKey => Unrecorded)' /\ IsIn("core", "down")'
    <2>1. \A r : Becomes("cli", r) => proc'["core"] = proc["core"]
        BY <1>1, BecomesIs DEF Procs
    <2> QED BY <1>1, <1>2, <2>1 DEF Found, Listing, Unrecorded, RetireKey, IsIn
<1>4. PICK k \in proc["cli"].todo :
          \/ index[k] # "none" /\ Becomes("cli", Retired1("cli", k))
          \/ Becomes("cli", Down)
          \/ \E custody : Becomes("cli", [proc["cli"] EXCEPT !.at = "index", !.old = k,
                                                             !.idx = index, !.custody = custody])
    BY DEF RetireKey
<1>5. k \in Keys
    BY <1>1 DEF Typed, Process
<1>6. CASE index[k] # "none" /\ Becomes("cli", Retired1("cli", k))
    <2>1. /\ proc'["cli"].at = "retire" /\ proc'["cli"].key = proc["cli"].key
          /\ proc'["cli"].job = proc["cli"].job /\ proc'["cli"].todo = proc["cli"].todo \ {k}
        BY <1>1, <1>6, RetiredFields
    <2>2. k \in Retired(index)
        BY <1>5, <1>6 DEF Retired
    <2>3. Replaces(proc["cli"])'
        BY <1>1, <1>3, <2>1, <2>2 DEF Found, Replaces, IsIn
    <2> QED BY <1>2, <1>3, <1>6, <2>3, FoundCommands
<1>7. CASE Becomes("cli", Down)
    <2>1. Replaces(proc["cli"])'
        BY <1>1, <1>7, BecomesIs, DownIs DEF Replaces
    <2> QED BY <1>2, <1>3, <1>7, <2>1, FoundCommands
<1>8. ASSUME NEW custody,
             Becomes("cli", [proc["cli"] EXCEPT !.at = "index", !.old = k, !.idx = index,
                                                !.custody = custody])
      PROVE  Found'
    <2>1. /\ proc'["cli"].at = "index" /\ proc'["cli"].key = proc["cli"].key
          /\ proc'["cli"].job = proc["cli"].job /\ proc'["cli"].todo = proc["cli"].todo
        BY <1>1, <1>8, ListingFields
    <2>2. Replaces(proc["cli"])'
        BY <1>1, <1>3, <2>1 DEF Found, Replaces, IsIn
    <2> QED BY <1>2, <1>3, <1>8, <2>2, FoundCommands
<1> QED BY <1>4, <1>6, <1>7, <1>8

LEMMA FoundCommandLists ==
    ASSUME IInv, Found, ListKey("cli")
    PROVE  Found'
<1>1. /\ UNCHANGED <<chain, recorded, sealed, stranded>> /\ "cli" \in Procs /\ Typed
      /\ IsIn("cli", "index") /\ CoreSealed' = CoreSealed /\ Needed' = Needed
      /\ index' = [proc["cli"].idx EXCEPT ![proc["cli"].old] = proc["cli"].custody]
      /\ Becomes("cli", Retired1("cli", proc["cli"].old))
    BY DEF ListKey, Kept, Procs, IsIn, IInv, history, CoreSealed, Needed
<1>2. IsIn("core", "down") /\ ~Working("gateway")
    BY <1>1, CommandAlone DEF Working, IsIn
<1>3. Retired(index') = Retired(index) \cup {proc["cli"].old}
    <2>1. /\ index \in [Keys -> Custodies] /\ proc["cli"].idx = index
          /\ proc["cli"].old \in Keys /\ proc["cli"].custody # "none"
        BY <1>1 DEF Typed, SlotTypes, IInv, Commands, Vaulted, ListsVaulted, IsIn
    <2> QED BY <1>1, <2>1 DEF Retired
<1>4. (recorded # NoKey => Listing(index))' /\ (recorded = NoKey => Unrecorded)' /\ IsIn("core", "down")'
    <2>1. proc'["core"] = proc["core"]
        BY <1>1, BecomesIs DEF Procs
    <2> QED BY <1>1, <1>2, <1>3, <2>1 DEF Found, Listing, Unrecorded, IsIn
<1>5. /\ proc'["cli"].at = "retire" /\ proc'["cli"].key = proc["cli"].key
      /\ proc'["cli"].job = proc["cli"].job
      /\ proc'["cli"].todo = proc["cli"].todo \ {proc["cli"].old}
    BY <1>1, RetiredFields
<1>6. Replaces(proc["cli"])'
    BY <1>1, <1>3, <1>4, <1>5 DEF Found, Replaces, IsIn
<1> QED BY <1>1, <1>2, <1>4, <1>6, FoundCommands

LEMMA FoundCommandEndsRetiring ==
    ASSUME IInv, Found, EndRetiring("cli")
    PROVE  Found'
<1>1. /\ UNCHANGED <<chain, recorded, index, sealed, stranded>> /\ "cli" \in Procs /\ Typed
      /\ IsIn("cli", "retire") /\ CoreSealed' = CoreSealed /\ Needed' = Needed /\ proc["cli"].todo = {}
    BY DEF EndRetiring, Kept, Procs, IsIn, IInv, history, CoreSealed, Needed
<1>2. IsIn("core", "down") /\ ~Working("gateway")
    BY <1>1, CommandAlone DEF Working, IsIn
<1>3. CASE Becomes("cli", Down)
    <2>1. proc'["core"] = proc["core"] /\ proc'["cli"] = Down
        BY <1>1, <1>3, BecomesIs DEF Procs
    <2>2. (recorded # NoKey => Listing(index))' /\ (recorded = NoKey => Unrecorded)' /\ Replaces(proc["cli"])'
        BY <1>1, <1>2, <2>1, DownIs DEF Found, Listing, Unrecorded, Replaces
    <2> QED BY <1>1, <1>2, <1>3, <2>2, FoundCommands
<1>4. ASSUME NEW at, at = "remove" \/ (at = "install" /\ proc["cli"].job = "install"), Goes("cli", at)
      PROVE  Found'
    <2>1. /\ \E r : Becomes("cli", r)
          /\ proc'["cli"].at = at /\ proc'["cli"].key = proc["cli"].key
          /\ proc'["cli"].job = proc["cli"].job /\ proc'["cli"].todo = {}
        BY <1>1, <1>4, GoesFields
    <2>2. proc'["core"] = proc["core"]
        BY <1>1, <2>1, BecomesIs DEF Procs
    <2>3. (recorded # NoKey => Listing(index))' /\ (recorded = NoKey => Unrecorded)'
        BY <1>1, <1>2 DEF Found, Listing, Unrecorded
    <2>4. CASE at = "install" /\ proc["cli"].job = "install"
        <3>1. recorded # NoKey => Needed \subseteq {proc["cli"].key, chain} \cup Retired(index)
            BY <1>1, <2>4 DEF Found, Replaces, IsIn
        <3>2. Replaces(proc["cli"])'
            BY <1>1, <1>2, <2>1, <2>2, <2>4, <3>1 DEF Replaces, IsIn
        <3> QED BY <1>1, <1>2, <2>1, <2>3, <3>2, FoundCommands
    <2>5. CASE at = "remove"
        <3>1. Replaces(proc["cli"])'
            BY <1>1, <1>2, <2>1, <2>2, <2>5 DEF Replaces, IsIn
        <3> QED BY <1>1, <1>2, <2>1, <2>3, <3>1, FoundCommands
    <2> QED BY <1>4, <2>4, <2>5
<1>5. \/ Becomes("cli", Down)
      \/ proc["cli"].job = "install" /\ Goes("cli", "install")
      \/ Goes("cli", "remove")
    <2>1. proc["cli"].job \in {"install", "keep", "retire"}
        BY <1>1 DEF IInv, Commands, Typed, Process, IsIn
    <2> QED BY <2>1 DEF EndRetiring, AfterRetiring
<1> QED BY <1>3, <1>4, <1>5

\* A key that the keychain is about to give up is in the list by now.
LEMMA FoundInstalls ==
    ASSUME IInv, Found, ~mishap', StoreCurrent
    PROVE  Found'
<1> DEFINE k == proc["cli"].key
<1>1. /\ UNCHANGED <<recorded, index, sealed>> /\ "cli" \in Procs /\ Typed
      /\ IsIn("cli", "install") /\ CoreSealed' = CoreSealed /\ Needed' = Needed /\ Goes("cli", "record")
      /\ chain' \in {chain, k} /\ (chain' # chain => reach = "open")
    BY DEF StoreCurrent, Unlucky, Kept, Procs, IsIn, IInv, history, CoreSealed, Needed
<1>2. IsIn("core", "down") /\ ~Working("gateway")
    BY <1>1, CommandAlone DEF Working, IsIn
<1>3. proc["cli"].job = "install" /\ PersistentKey \in {k, NoKey} \cup Retired(index)
    BY <1>1 DEF IInv, Commands, IsIn
<1>4. recorded # NoKey => Needed \subseteq {k, chain} \cup Retired(index)
    <2>1. proc["cli"].todo = {}
        BY <1>1 DEF IInv, Commands, IsIn
    <2> QED BY <1>1, <1>3, <2>1 DEF Found, Replaces, IsIn
<1>5. recorded # NoKey /\ chain' # chain => Needed \subseteq {k} \cup Retired(index)
    <2>1. NoKey \notin Needed
        BY CustodyAssumption DEF IInv, Typed, CoreSealed, Kinds, Needed
    <2> QED BY <1>1, <1>3, <1>4, <2>1 DEF PersistentKey, Held
<1>6. /\ \E r : Becomes("cli", r)
      /\ proc'["cli"].at = "record" /\ proc'["cli"].key = k
    BY <1>1, GoesFields
<1>7. proc'["core"] = proc["core"]
    BY <1>1, <1>6, BecomesIs DEF Procs
<1>8. (recorded # NoKey => Listing(index))' /\ (recorded = NoKey => Unrecorded)'
    BY <1>1, <1>2, <1>5 DEF Found, Listing, Unrecorded
<1>9. Replaces(proc["cli"])'
    BY <1>1, <1>2, <1>4, <1>5, <1>6, <1>7 DEF Replaces, IsIn
<1> QED BY <1>1, <1>2, <1>6, <1>8, <1>9, FoundCommands

LEMMA FoundCommandRecords ==
    ASSUME IInv, Found, WriteRecord("cli")
    PROVE  Found'
<1>1. /\ UNCHANGED <<chain, index, sealed>> /\ "cli" \in Procs /\ Typed
      /\ IsIn("cli", "record") /\ Becomes("cli", Down) /\ recorded' = proc["cli"].key
    BY DEF WriteRecord, Kept, Procs, IsIn, IInv
<1>2. IsIn("core", "down") /\ ~Working("gateway")
    BY <1>1, CommandAlone DEF Working, IsIn
<1>3. recorded' # NoKey
    BY <1>1, CustodyAssumption DEF IInv, Commands, IsIn
<1>4. Listing(index)'
    <2>1. CASE recorded # NoKey
        <3>1. UNCHANGED stranded
            BY <2>1 DEF WriteRecord
        <3>2. Needed' = Needed
            BY <1>1, <3>1 DEF Needed, CoreSealed
        <3> QED BY <1>1, <2>1, <3>2 DEF Found, Replaces, Listing, IsIn
    <2>2. CASE recorded = NoKey
        <3>1. Overlooked("cli") = {master, legacy}
            BY DEF Overlooked
        <3>2. stranded' = stranded \cup (Overlooked("cli") \ {NoKey, proc["cli"].key})
            BY <2>2 DEF WriteRecord
        <3> QED BY <1>1, <2>2, <3>1, <3>2, FirstRecord
    <2> QED BY <2>1, <2>2
<1>5. proc'["cli"] = Down
    BY <1>1, BecomesIs
<1>6. Replaces(proc["cli"])'
    BY <1>5, DownIs DEF Replaces
<1> QED BY <1>1, <1>2, <1>3, <1>4, <1>6, FoundCommands

LEMMA FoundRemoves ==
    ASSUME IInv, Found, RemoveRetired
    PROVE  Found'
<1>1. /\ UNCHANGED <<chain, recorded, index, sealed, stranded>> /\ "cli" \in Procs /\ Typed
      /\ IsIn("cli", "remove") /\ CoreSealed' = CoreSealed /\ Needed' = Needed /\ Becomes("cli", Down)
    BY DEF RemoveRetired, Kept, Procs, IsIn, IInv, history, CoreSealed, Needed
<1>2. IsIn("core", "down") /\ ~Working("gateway")
    BY <1>1, CommandAlone DEF Working, IsIn
<1>3. proc'["cli"] = Down
    BY <1>1, BecomesIs
<1>4. (recorded # NoKey => Listing(index))' /\ (recorded = NoKey => Unrecorded)' /\ Replaces(proc["cli"])'
    BY <1>1, <1>2, <1>3, DownIs DEF Found, Listing, Unrecorded, Replaces
<1> QED BY <1>1, <1>2, <1>4, FoundCommands

\* What a process that begins may already rely on.
LEMMA FoundBegins ==
    ASSUME IInv, Found, NEW p \in {"core", "gateway"}, NEW r, Becomes(p, r), IsIn("cli", "down"),
           UNCHANGED <<slots, sealed, stranded>>, r.at \in {"look", "run"}, p = "core" => r.at = "look"
    PROVE  Found'
<1>1. p \in Procs /\ UNCHANGED <<chain, recorded, index>>
    BY DEF Procs, slots
<1>2. proc'[p] = r
    BY <1>1, BecomesIs DEF IInv
<1>3. p = "core" => CoreReads(proc["core"])'
    BY <1>2 DEF CoreReads
<1>4. p = "gateway" => GatewayReads(proc["gateway"])'
    BY <1>2 DEF GatewayReads
<1> QED BY <1>1, <1>3, <1>4, FoundKeeps

LEMMA FoundStarts ==
    ASSUME IInv, Found, ~mishap', slot = "master", NEW p \in Procs, NEW env \in EnvKeys \cup {NoKey},
           Start(p, env)
    PROVE  Found'
<1> DEFINE r == [Down EXCEPT !.at = "look", !.env = env]
<1>1. p \in {"core", "gateway"} /\ Becomes(p, r) /\ UNCHANGED <<slots, sealed, stranded>>
    BY DEF Start, MayBegin, Procs
<1>2. IsIn("cli", "down")
    BY DEF Start, Unlucky, IInv, Commands, Working, IsIn
<1>3. r.at = "look"
    BY DownIs DEF Process
<1> HIDE DEF r
<1> QED BY <1>1, <1>2, <1>3, FoundBegins

LEMMA FoundDelivers ==
    ASSUME IInv, Found, Deliver
    PROVE  Found'
<1> DEFINE k == proc["core"].key
           opens == proc["core"].opens
           r == [Down EXCEPT !.at = "run", !.key = k, !.opens = opens]
<1>1. Becomes("gateway", r) /\ UNCHANGED <<slots, sealed, stranded>> /\ IsIn("core", "run")
    BY DEF Deliver, history
<1>2. IsIn("cli", "down")
    BY <1>1 DEF Found, Replaces, IsIn
<1> HIDE DEF k, opens
<1>3. r.at = "run"
    BY DownIs DEF Process
<1> HIDE DEF r
<1> QED BY <1>1, <1>2, <1>3, FoundBegins

\* The recorded key is put away by a command that takes a live slot from it; a recorded
\* key that no slot holds sealed nothing that is still to be read.
LEMMA FoundCommanded ==
    ASSUME IInv, Found, ~mishap', NEW job \in {"install", "keep", "retire"}, NEW k \in Keys,
           NEW env \in EnvKeys \cup {NoKey}, NEW todo \in SUBSET Keys,
           Commanded(job, k, env, todo, "retire"),
           job = "install" => ({recorded} \cap LiveKeys(env)) \subseteq {k} \cup todo
    PROVE  Found'
<1> DEFINE r == [Down EXCEPT !.at = "retire", !.job = job, !.key = k, !.env = env, !.todo = todo]
<1>1. /\ Becomes("cli", r) /\ "cli" \in Procs /\ Typed
      /\ UNCHANGED <<chain, recorded, index, sealed, stranded>> /\ CoreSealed' = CoreSealed
      /\ IsIn("core", "down") /\ ~Working("gateway")
    BY DEF Commanded, Unlucky, Procs, slots, CoreSealed, IInv
<1>2. r.at = "retire" /\ r.job = job /\ r.key = k /\ r.todo = todo
    BY DownIs DEF Process
<1> HIDE DEF r
<1>3. proc'["cli"] = r /\ proc'["core"] = proc["core"]
    BY <1>1, BecomesIs DEF Procs
<1>4. Needed' = Needed
    BY <1>1 DEF Needed
<1>5. (recorded # NoKey => Listing(index))' /\ (recorded = NoKey => Unrecorded)'
    BY <1>1, <1>4 DEF Found, Listing, Unrecorded
<1>6. recorded \in Needed => recorded \in {chain} \cup LiveKeys(env) \cup Retired(index)
    BY DEF IInv, Used, Safe, CoreSealed, Needed, Kinds, LiveKeys
<1>7. recorded # NoKey /\ job = "install" =>
          Needed \subseteq {k, chain} \cup todo \cup Retired(index)
    BY <1>6 DEF Found, Listing
<1>8. Replaces(proc["cli"])'
    BY <1>1, <1>2, <1>3, <1>4, <1>7 DEF Replaces, IsIn
<1> QED BY <1>1, <1>5, <1>8, FoundCommands

LEMMA FoundInstalling ==
    ASSUME IInv, Found, ~mishap', NEW k \in Keys, NEW env \in EnvKeys \cup {NoKey},
           NEW extras \in SUBSET Keys, Installs(k, env, extras)
    PROVE  Found'
<1> DEFINE todo == ToRetire(k, env, extras)
<1>1. {PersistentKey, recorded} \subseteq Keys \cup {NoKey}
    BY DEF IInv, Typed, SlotTypes, PersistentKey
<1>2. todo \in SUBSET Keys /\ ({recorded} \cap LiveKeys(env)) \subseteq {k} \cup todo
    BY <1>1 DEF ToRetire, LiveKeys
<1>3. Commanded("install", k, env, todo, "retire")
    BY DEF Installs
<1> HIDE DEF todo
<1> QED BY <1>2, <1>3, FoundCommanded

LEMMA FoundCommand ==
    ASSUME IInv, Found, ~mishap', NEW env \in EnvKeys \cup {NoKey}, Command(env)
    PROVE  Found'
<1>1. ASSUME NEW k \in Keys, NEW accept \in BOOLEAN, Adopt(k, env, accept) PROVE Found'
    BY <1>1, FoundInstalling DEF Adopt
<1>2. ASSUME NEW k \in Keys, RetireCommand(k, env) PROVE Found'
    BY <1>2, FoundCommanded DEF RetireCommand
<1>3. ASSUME NEW bundle \in Bundles, Import(bundle, env) PROVE Found'
    <2>1. bundle.current \in Keys /\ bundle.retired \in SUBSET Keys
        BY FolderAssumption
    <2>2. bundle.retired \ {bundle.current} \in SUBSET Keys
        BY <2>1
    <2>3. \/ Commanded("keep", bundle.current, env, bundle.retired \ {bundle.current}, "retire")
          \/ Installs(bundle.current, env, bundle.retired)
        BY <1>3 DEF Import
    <2> QED BY <2>1, <2>2, <2>3, FoundCommanded, FoundInstalling
<1> QED BY <1>1, <1>2, <1>3 DEF Command

\* Core seals with the recorded key, and nobody else seals what Core reads.
LEMMA FoundSeals ==
    ASSUME IInv, Found, slot = "master", NEW p \in Procs, NEW kind \in Kinds, Seal(p, kind)
    PROVE  Found'
<1>1. /\ IsIn(p, "run") /\ sealed' = [sealed EXCEPT ![kind] = @ \cup {proc[p].key}]
      /\ UNCHANGED <<chain, recorded, index, proc, stranded>> /\ kind \in SealedBy(p)
    BY DEF Seal, slots, history
<1>2. CASE p = "core"
    <2>1. proc["core"].key = recorded /\ recorded # NoKey /\ IsIn("cli", "down")
        BY <1>1, <1>2 DEF Found, CoreReads, Replaces, IsIn
    <2>2. Needed' \subseteq Needed \cup {recorded}
        BY <1>1, <1>2, <2>1 DEF CoreSealed, Needed, IInv, Typed
    <2>3. \A idx : Listing(idx) => Needed' \subseteq {recorded', chain'} \cup Retired(idx)
        BY <1>1, <2>2 DEF Listing
    <2>4. (recorded # NoKey => Listing(index))'
        BY <1>1, <2>3 DEF Found, Listing
    <2>5. CoreReads(proc["core"])'
        BY <1>1, <1>2 DEF Found, CoreReads, IsIn
    <2>6. GatewayReads(proc["gateway"])'
        BY <1>1, <2>3 DEF Found, GatewayReads, Listing
    <2>7. Replaces(proc["cli"])'
        BY <1>1, <2>1 DEF Replaces, IsIn
    <2> QED BY <1>1, <2>1, <2>4, <2>5, <2>6, <2>7 DEF Found
<1>3. CASE p # "core"
    <2>1. kind \notin {"message", "store"}
        BY <1>1, <1>3 DEF SealedBy, Procs
    <2>2. sealed'.message = sealed.message /\ sealed'.store = sealed.store /\ CoreSealed' = CoreSealed
        BY <1>1, <2>1 DEF CoreSealed, IInv, Typed, Kinds
    <2>3. Needed' = Needed
        BY <1>1, <2>2 DEF Needed
    <2> QED BY <1>1, <2>2, <2>3
            DEF Found, Listing, Unrecorded, CoreReads, GatewayReads, Replaces, IsIn
<1> QED BY <1>2, <1>3

LEMMA FoundStops ==
    ASSUME IInv, Found, slot = "master", NEW p \in Procs, Stop(p)
    PROVE  Found'
<1>1. /\ Becomes(p, Down) /\ UNCHANGED <<chain, recorded, index, sealed, slot, stranded>> /\ Typed
      /\ CoreSealed' = CoreSealed /\ Needed' = Needed
    BY DEF Stop, slots, history, IInv, CoreSealed, Needed
<1>2. proc'[p] = Down /\ \A q \in Procs : q # p => proc'[q] = proc[q]
    BY <1>1, BecomesIs
<1>3. \A q \in Procs : proc'[q] = proc[q] \/ proc'[q] = Down
    BY <1>2
<1>4. (recorded # NoKey => Listing(index))' /\ (recorded = NoKey => Unrecorded)'
    BY <1>1 DEF Found, Listing, Unrecorded
<1>5. CoreReads(proc["core"])'
    BY <1>1, <1>3, DownIs DEF Found, CoreReads, Listing, Procs
<1>6. GatewayReads(proc["gateway"])'
    BY <1>1, <1>3, DownIs DEF Found, GatewayReads, Listing, Procs
<1>7. Replaces(proc["cli"])'
    BY <1>1, <1>3, DownIs DEF Found, Replaces, IsIn, Procs
<1> QED BY <1>4, <1>5, <1>6, <1>7 DEF Found

LEMMA InitFound == Init => FInv
<1> SUFFICES ASSUME Init, slot = "master" PROVE Found
    BY DEF FInv
<1>1. PICK f \in Folders :
          /\ slot = f.slot /\ chain = f.chain /\ master = f.master /\ legacy = f.legacy
          /\ recorded = f.recorded
          /\ sealed = [kind \in Kinds |-> IF kind \in f.kinds THEN {f.key} ELSE {}]
          /\ stranded = IF f.recorded = NoKey THEN {}
                        ELSE (IF f.slot = "app" THEN {f.chain} ELSE {f.master, f.legacy})
                             \ {NoKey, f.recorded}
    BY DEF Init
<1>2. \A p \in Procs : proc[p] = Down
    BY DEF Init
<1>3. CoreSealed \subseteq {f.key} /\ (f.kinds = {} => CoreSealed = {})
    BY <1>1 DEF CoreSealed, Kinds
<1>4. f.kinds # {} => f.key \in EnvKeys \cup ({chain, master, legacy} \ {NoKey})
    BY <1>1, FolderAssumption
<1>5. recorded # NoKey => Listing(index)
    BY <1>1, <1>3, <1>4 DEF Listing, Needed
<1>6. Unrecorded
    BY <1>3 DEF Unrecorded
<1> QED BY <1>2, <1>5, <1>6, DownIs DEF Found, CoreReads, GatewayReads, Replaces, Procs

LEMMA NextFound == IInv /\ FInv /\ ~mishap' /\ [Next]_vars => FInv'
<1> SUFFICES ASSUME IInv, FInv, ~mishap', [Next]_vars PROVE FInv'
    OBVIOUS
<1>1. UNCHANGED slot
    BY DEF Next, vars, Resolve, Look, Store, Verify, Publish, Decide, RetireKey, ListKey,
           EndRetiring, WriteRecord, StoreCurrent, RemoveRetired, Kept, Stop, Seal, Start, Command,
           Adopt, RetireCommand, Import, Installs, Commanded, Deliver, KeychainMoves, Quiescent
<1> SUFFICES ASSUME slot = "master", Found PROVE Found'
    BY <1>1 DEF FInv
<1>2. ASSUME NEW p \in Procs, Resolve(p) PROVE Found'
    <2>1. CASE p \in {"core", "gateway"}
        BY <1>2, <2>1, FoundLooks, FoundStores, FoundDecides, FoundRetires, FoundLists,
           FoundEndsRetiring, FoundRecords DEF Resolve
    <2>2. CASE p = "cli"
        <3>1. \/ RetireKey("cli") \/ ListKey("cli") \/ EndRetiring("cli") \/ WriteRecord("cli")
            BY <1>2, <2>2 DEF Resolve, Look, Store, Verify, Publish, Decide, IsIn, IInv, Commands
        <3> QED BY <3>1, FoundCommandRetires, FoundCommandLists, FoundCommandEndsRetiring,
                   FoundCommandRecords
    <2>3. CASE p = "desktop"
        <3>1. IsIn("desktop", "down")
            BY <2>3 DEF IInv, Alone, Placed
        <3> QED BY <1>2, <2>3, <3>1 DEF Resolve, Look, Store, Verify, Publish, Decide, RetireKey,
                   ListKey, EndRetiring, WriteRecord, IsIn
    <2> QED BY <2>1, <2>2, <2>3 DEF Procs
<1>3. ASSUME NEW p \in Procs, Stop(p) PROVE Found'
    BY <1>3, FoundStops
<1>4. ASSUME NEW p \in Procs, NEW kind \in Kinds, Seal(p, kind) PROVE Found'
    BY <1>4, FoundSeals
<1>5. ASSUME NEW p \in Procs, NEW env \in EnvKeys \cup {NoKey}, Start(p, env) PROVE Found'
    BY <1>5, FoundStarts
<1>6. ASSUME NEW env \in EnvKeys \cup {NoKey}, Command(env) PROVE Found'
    BY <1>6, FoundCommand
<1>7. CASE StoreCurrent \/ RemoveRetired \/ Deliver
    BY <1>7, FoundInstalls, FoundRemoves, FoundDelivers
<1>8. CASE KeychainMoves \/ Quiescent \/ UNCHANGED vars
    <2>1. UNCHANGED <<chain, recorded, index, sealed, proc, stranded>>
        BY <1>8 DEF KeychainMoves, Quiescent, vars, slots, history
    <2>2. CoreSealed' = CoreSealed /\ Needed' = Needed
        BY <2>1 DEF CoreSealed, Needed
    <2> QED BY <2>1, <2>2 DEF Found, Listing, Unrecorded, CoreReads, GatewayReads, Replaces, IsIn
<1> QED BY <1>2, <1>3, <1>4, <1>5, <1>6, <1>7, <1>8 DEF Next

\* Short of a mishap, once a key is recorded, every key that sealed what Core reads is the
\* recorded one, a listed retired one, or the one the keychain holds (resolve_with,
\* RetiredVault::retire, install_current), but for the keys of the key files that nobody
\* tried when the first record was written.
THEOREM NeededKeysAreFound == Spec => []KeysFound
<1>1. Init => FInv
    BY InitFound
<1>2. IInv /\ FInv /\ ~mishap' /\ [Next]_vars => FInv'
    BY NextFound
<1>3. (~mishap => FInv) => KeysFound
    BY DEF FInv, Found, Listing, Needed, CoreSealed, KeysFound
<1>4. (~mishap => IInv) /\ (~mishap => FInv) /\ [Next]_vars => (~mishap => FInv)'
    BY <1>2, MishapStays
<1> QED BY <1>1, <1>3, <1>4, Invariance, PTL DEF Spec

----------------------------------------------------------------------------
(* What the desktop has to open                                            *)

App == sealed.app \ (EnvKeys \cup stranded)

\* Where the file's key is the recorded one, it sealed everything.
FileSealed == master # NoKey /\ recorded = master => App \subseteq {master}

\* What a first record, about to be written, strands.
Strands(r) == IF r.locked /\ recorded = NoKey THEN {chain} ELSE {}

DesktopOpens(r) ==
    /\ r.at \in {"down", "look", "store", "verify", "publish", "decide", "record", "run"}
    /\ r.at \in {"store", "verify", "publish", "decide"} => r.seen = recorded
    /\ r.at \in {"store", "verify", "publish"} =>
          r.env = NoKey /\ r.key \notin EnvKeys /\ master \in {NoKey, r.key} /\ App \subseteq {r.key}
    /\ r.at = "store" => chain = NoKey
    /\ r.at = "verify" => chain = r.key
    /\ r.at = "decide" /\ r.source # "env" => r.env = NoKey
    /\ r.at = "decide" /\ r.source = "file" /\ ~r.locked => App \subseteq {master}
    /\ r.at \in {"record", "run"} => r.key \in r.opens \cup EnvKeys
    /\ r.at = "record" /\ r.source # "env" => App \subseteq r.opens \cup Strands(r)
    /\ r.at = "record" /\ r.key = master => App \subseteq {master} \cup Strands(r)
    /\ r.at = "run" /\ r.source # "env" => App \subseteq r.opens
    /\ r.at = "run" => r.key \in EnvKeys \cup {recorded}

\* The app slot has one key file and no retired set.
AppSlot == legacy = NoKey /\ master \notin EnvKeys /\ Retired(index) = {} /\ FileSealed

AInv == slot = "app" => ~mishap /\ AppSlot /\ DesktopOpens(proc["desktop"])

\* app_key.rs names one key file for the desktop, the current and the legacy one at once; and
\* no operator supplies the key that it holds.
OneFile == \A f \in Folders : f.slot = "app" => f.legacy = NoKey /\ f.master \notin EnvKeys

\* The data are under the keys of the two slots.
LEMMA AppSealed ==
    ASSUME IInv, AppSlot
    PROVE  App \subseteq {chain, master} \ {NoKey} /\ App \subseteq Keys /\ NoKey \notin Keys
<1>1. sealed.app \subseteq Safe /\ sealed.app \subseteq Keys
    BY DEF IInv, Used, Typed, Kinds
<1> QED BY <1>1, CustodyAssumption DEF App, AppSlot, Safe

LEMMA DesktopLooks ==
    ASSUME IInv, slot = "app", AppSlot, DesktopOpens(proc["desktop"]), Look("desktop")
    PROVE  AppSlot' /\ DesktopOpens(proc["desktop"])'
<1> DEFINE d == proc["desktop"]
<1>1. /\ IsIn("desktop", "look") /\ UNCHANGED <<chain, recorded, index, sealed>> /\ App' = App
      /\ "desktop" \in Procs /\ Typed /\ {chain, master} \subseteq Keys \cup {NoKey}
      /\ d.env \in EnvKeys \cup {NoKey} /\ NoKey \notin Keys /\ EnvKeys \subseteq Keys
    BY CustodyAssumption DEF Look, Kept, Procs, IInv, Typed, SlotTypes, Process, App, history
<1>2. App \subseteq {chain, master} \ {NoKey}
    BY AppSealed
<1>3. CASE d.env # NoKey /\ UsesEnv("desktop")
    <2>1. /\ proc'["desktop"].at = "decide" /\ proc'["desktop"].source = "env"
          /\ proc'["desktop"].seen = recorded
        BY <1>1, <1>3, HasFields DEF UsesEnv
    <2>2. AppSlot'
        BY <1>1, <1>3 DEF UsesEnv, AppSlot, FileSealed
    <2>3. DesktopOpens(proc["desktop"])'
        BY <1>1, <2>1 DEF DesktopOpens
    <2> QED BY <2>2, <2>3
<1>4. CASE d.env = NoKey /\ chain # NoKey /\ CopyIsRetired(chain) /\ Has("desktop", chain, "keychain")
    <2>1. /\ proc'["desktop"].at = "decide" /\ proc'["desktop"].source = "keychain"
          /\ proc'["desktop"].seen = recorded /\ proc'["desktop"].env = NoKey
        BY <1>1, <1>4, HasFields
    <2>2. master' \in {master, NoKey} /\ UNCHANGED legacy
        BY <1>4 DEF CopyIsRetired
    <2>3. AppSlot'
        BY <1>1, <2>2 DEF AppSlot, FileSealed
    <2>4. DesktopOpens(proc["desktop"])'
        BY <1>1, <2>1 DEF DesktopOpens
    <2> QED BY <2>3, <2>4
<1>5. ASSUME NEW k, NEW at \in {"store", "publish"}, Takes("desktop", k, at), d.env = NoKey,
             k \notin EnvKeys, master \in {NoKey, k}, App \subseteq {k},
             at = "store" => chain = NoKey, UNCHANGED <<master, legacy>>
      PROVE  AppSlot' /\ DesktopOpens(proc["desktop"])'
    <2>1. /\ proc'["desktop"].at = at /\ proc'["desktop"].key = k
          /\ proc'["desktop"].seen = recorded /\ proc'["desktop"].env = NoKey
        BY <1>1, <1>5, TakesFields
    <2>2. AppSlot'
        BY <1>1, <1>5 DEF AppSlot, FileSealed
    <2>3. DesktopOpens(proc["desktop"])'
        BY <1>1, <1>5, <2>1 DEF DesktopOpens
    <2> QED BY <2>2, <2>3
<1>6. ASSUME NEW at \in {"store", "publish"}, Generates("desktop", at), d.env = NoKey,
             master = NoKey,
             chain = NoKey \/ (at = "publish" /\ sealed.app = {}), UNCHANGED <<master, legacy>>
      PROVE  AppSlot' /\ DesktopOpens(proc["desktop"])'
    <2>1. PICK k \in FreshKeys : Takes("desktop", k, at)
        <3> DEFINE k == CHOOSE key \in FreshKeys : TRUE
        <3>1. k \in FreshKeys /\ Takes("desktop", k, at)
            BY <1>6 DEF Generates
        <3> HIDE DEF k
        <3> QED BY <3>1
    <2>2. k \notin EnvKeys
        BY DEF FreshKeys
    <2>3. App = {}
        BY <1>2, <1>6 DEF App
    <2> QED BY <1>5, <1>6, <2>1, <2>2, <2>3
<1>7. CASE d.env = NoKey /\ UsesKeychain("desktop")
    <2>1. CASE chain # NoKey /\ CopyIsRetired(chain) /\ Has("desktop", chain, "keychain")
        BY <1>4, <1>7, <2>1
    <2>2. CASE /\ chain = NoKey /\ FileOrLegacy # NoKey /\ Takes("desktop", FileOrLegacy, "store")
               /\ UNCHANGED <<master, legacy>>
        <3>1. FileOrLegacy = master /\ master \notin EnvKeys
            BY <2>2 DEF FileOrLegacy, AppSlot
        <3>2. Takes("desktop", master, "store") /\ App \subseteq {master}
            BY <1>2, <2>2, <3>1
        <3> QED BY <1>5, <1>7, <2>2, <3>1, <3>2
    <2>3. CASE chain = NoKey /\ FileOrLegacy = NoKey /\ Generates("desktop", "store")
               /\ UNCHANGED <<master, legacy>>
        BY <1>6, <1>7, <2>3 DEF FileOrLegacy
    <2> QED BY <1>7, <2>1, <2>2, <2>3 DEF UsesKeychain
<1>8. CASE d.env = NoKey /\ UsesFile("desktop")
    <2>1. reach = "locked" /\ UNCHANGED <<master, legacy>>
        BY <1>8 DEF UsesFile
    <2>2. CASE master # NoKey /\ Has("desktop", master, "file")
        <3>1. /\ proc'["desktop"].at = "decide" /\ proc'["desktop"].source = "file"
              /\ proc'["desktop"].seen = recorded /\ proc'["desktop"].env = NoKey
              /\ proc'["desktop"].locked = Observed("desktop")
            BY <1>1, <1>8, <2>2, HasFields
        <3>2. Observed("desktop")
            BY <1>8, <2>1 DEF Observed
        <3>3. AppSlot'
            BY <1>1, <2>1 DEF AppSlot, FileSealed
        <3>4. DesktopOpens(proc["desktop"])'
            BY <1>1, <3>1, <3>2 DEF DesktopOpens
        <3> QED BY <3>3, <3>4
    <2>3. CASE master = NoKey /\ Generates("desktop", "publish")
        <3>1. sealed.app = {}
            BY <2>1, <2>3 DEF Generates, Evidence
        <3> QED BY <1>6, <1>8, <2>1, <2>3, <3>1
    <2> QED BY <1>8, <2>2, <2>3 DEF UsesFile, AppSlot
<1>9. CASE IsRefused("desktop")
    <2>1. proc'["desktop"].at = "down"
        BY <1>1, <1>9, RefusedFields DEF IsRefused
    <2>2. AppSlot'
        BY <1>1, <1>9 DEF IsRefused, AppSlot, FileSealed
    <2>3. DesktopOpens(proc["desktop"])'
        BY <2>1 DEF DesktopOpens
    <2> QED BY <2>2, <2>3
<1> QED BY <1>3, <1>7, <1>8, <1>9 DEF Look

LEMMA DesktopStores ==
    ASSUME IInv, slot = "app", AppSlot, DesktopOpens(proc["desktop"]), Store("desktop")
    PROVE  AppSlot' /\ DesktopOpens(proc["desktop"])'
<1> DEFINE d == proc["desktop"]
<1>1. /\ IsIn("desktop", "store") /\ UNCHANGED <<master, legacy, recorded, index, sealed>>
      /\ App' = App /\ "desktop" \in Procs /\ Typed
      /\ (Goes("desktop", "verify") /\ chain' = d.key) \/ Goes("desktop", "publish")
    BY DEF Store, Kept, Procs, IInv, App, history
<1>2. \A at : Goes("desktop", at) =>
          /\ proc'["desktop"].at = at /\ proc'["desktop"].key = d.key
          /\ proc'["desktop"].seen = d.seen /\ proc'["desktop"].env = d.env
    BY <1>1, GoesFields
<1>3. AppSlot'
    BY <1>1 DEF AppSlot, FileSealed
<1>4. DesktopOpens(proc["desktop"])'
    BY <1>1, <1>2 DEF DesktopOpens, IsIn
<1> QED BY <1>3, <1>4

LEMMA DesktopVerifies ==
    ASSUME IInv, slot = "app", AppSlot, DesktopOpens(proc["desktop"]), Verify("desktop")
    PROVE  AppSlot' /\ DesktopOpens(proc["desktop"])'
<1> DEFINE d == proc["desktop"]
<1>1. /\ IsIn("desktop", "verify") /\ UNCHANGED <<chain, recorded, index, sealed>>
      /\ App' = App /\ "desktop" \in Procs /\ Typed
    BY DEF Verify, Kept, Procs, IInv, App, history
<1>2. CASE CopyIsRetired(d.key) /\ Becomes("desktop", [d EXCEPT !.at = "decide", !.source = "keychain"])
    <2> DEFINE r == [d EXCEPT !.at = "decide", !.source = "keychain"]
    <2>1. Becomes("desktop", r)
        BY <1>2
    <2>2. r.at = "decide" /\ r.source = "keychain" /\ r.seen = d.seen /\ r.env = d.env
        BY <1>1 DEF Typed, Process
    <2> HIDE DEF r
    <2>3. proc'["desktop"] = r
        BY <1>1, <2>1, BecomesIs
    <2>4. master' \in {master, NoKey} /\ UNCHANGED legacy
        BY <1>2 DEF CopyIsRetired
    <2>5. AppSlot'
        BY <1>1, <2>4, CustodyAssumption DEF AppSlot, FileSealed
    <2>6. DesktopOpens(proc["desktop"])'
        BY <1>1, <2>2, <2>3 DEF DesktopOpens, IsIn
    <2> QED BY <2>5, <2>6
<1>3. CASE Refused("desktop", d.seen) /\ UNCHANGED <<master, legacy>>
    <2>1. proc'["desktop"].at = "down"
        BY <1>1, <1>3, RefusedFields
    <2>2. AppSlot' /\ DesktopOpens(proc["desktop"])'
        BY <1>1, <1>3, <2>1 DEF AppSlot, FileSealed, DesktopOpens
    <2> QED BY <2>2
<1> QED BY <1>2, <1>3 DEF Verify

LEMMA DesktopPublishes ==
    ASSUME IInv, slot = "app", AppSlot, DesktopOpens(proc["desktop"]), Publish("desktop")
    PROVE  AppSlot' /\ DesktopOpens(proc["desktop"])'
<1> DEFINE d == proc["desktop"]
<1>1. /\ IsIn("desktop", "publish") /\ UNCHANGED <<chain, legacy, recorded, index, sealed>>
      /\ App' = App /\ "desktop" \in Procs /\ Typed
    BY DEF Publish, Kept, Procs, IInv, App, history
<1>2. /\ master' = d.key /\ d.env = NoKey /\ d.key \notin EnvKeys /\ App \subseteq {d.key}
      /\ d.seen = recorded
    BY <1>1 DEF Publish, Published, DesktopOpens, IsIn
<1> DEFINE k == d.key
           r == [d EXCEPT !.at = "decide", !.key = k, !.source = "file"]
<1>3. Becomes("desktop", r)
    BY <1>2 DEF Publish
<1> HIDE DEF k
<1>4. r.at = "decide" /\ r.source = "file" /\ r.seen = d.seen /\ r.env = d.env
    BY <1>1 DEF Typed, Process
<1> HIDE DEF r
<1>5. proc'["desktop"] = r
    BY <1>1, <1>3, BecomesIs
<1>6. AppSlot'
    BY <1>1, <1>2 DEF AppSlot, FileSealed
<1>7. DesktopOpens(proc["desktop"])'
    BY <1>1, <1>2, <1>4, <1>5 DEF DesktopOpens
<1> QED BY <1>6, <1>7

LEMMA RunsAppFields ==
    ASSUME Typed, NEW k \in Keys, RunsApp("desktop", k)
    PROVE  /\ proc'["desktop"].at = (IF proc["desktop"].seen = k THEN "run" ELSE "record")
           /\ proc'["desktop"].key = k /\ proc'["desktop"].source = proc["desktop"].source
           /\ proc'["desktop"].opens = AppCandidates("desktop")
           /\ proc'["desktop"].locked = proc["desktop"].locked
<1> DEFINE d == proc["desktop"]
           at == IF d.seen = k THEN "run" ELSE "record"
           r == [d EXCEPT !.at = at, !.key = k, !.opens = AppCandidates("desktop")]
<1>1. Becomes("desktop", r) /\ "desktop" \in Procs
    BY DEF RunsApp, Procs
<1> HIDE DEF at
<1>2. r.at = at /\ r.key = k /\ r.source = d.source /\ r.opens = AppCandidates("desktop")
      /\ r.locked = d.locked
    BY <1>1 DEF Typed, Process
<1> HIDE DEF r
<1>3. proc'["desktop"] = r
    BY <1>1, BecomesIs
<1> QED BY <1>2, <1>3 DEF at

\* The desktop runs on a key, and opens what the file's key or the keychain's sealed.
LEMMA DesktopDecides ==
    ASSUME IInv, slot = "app", AppSlot, DesktopOpens(proc["desktop"]), Decide("desktop")
    PROVE  AppSlot' /\ DesktopOpens(proc["desktop"])'
<1> DEFINE d == proc["desktop"]
           k == d.key
           other == recorded \notin {k, NoKey} /\ d.source # "env"
<1>1. /\ IsIn("desktop", "decide") /\ UNCHANGED <<chain, master, legacy, recorded, index, sealed>>
      /\ App' = App /\ "desktop" \in Procs /\ Typed /\ DecideApp("desktop")
    BY DEF Decide, Kept, Procs, IInv, App, history
<1>2. /\ d.seen = recorded /\ (d.source # "env" => d.env = NoKey)
      /\ d.source = "file" /\ ~d.locked => App \subseteq {master}
      /\ d.source \in {"file", "keychain", "env"}
    BY <1>1 DEF DesktopOpens, IsIn, Typed, Process
<1>3. /\ d.source = "file" => k = master
      /\ d.source = "keychain" => k = chain
      /\ d.source = "env" => k = d.env
      /\ k \in Keys /\ recorded \in Keys \cup {NoKey} /\ d.env \in EnvKeys \cup {NoKey}
      /\ master \notin EnvKeys
    BY <1>1 DEF IInv, Resolves, IsIn, Typed, SlotTypes, Process, AppSlot, Procs
<1>4. App \subseteq {chain, master} \ {NoKey} /\ NoKey \notin Keys
    BY AppSealed
<1>5. AppSlot'
    BY <1>1 DEF AppSlot, FileSealed
<1>6. k \in AppCandidates("desktop") /\ (master # NoKey => master \in AppCandidates("desktop"))
    BY <1>3, <1>4 DEF AppCandidates
<1>7. master # NoKey /\ recorded = master => App \subseteq {master}
    BY DEF AppSlot, FileSealed
<1>8. ASSUME RunsApp("desktop", k), other => d.source # "file" \/ ~d.locked
      PROVE  DesktopOpens(proc["desktop"])'
    <2> DEFINE strands == IF d.locked /\ recorded = NoKey THEN {chain} ELSE {}
    <2>1. /\ proc'["desktop"].at = (IF recorded = k THEN "run" ELSE "record")
          /\ proc'["desktop"].key = k /\ proc'["desktop"].source = d.source
          /\ proc'["desktop"].opens = AppCandidates("desktop")
          /\ Strands(proc["desktop"])' = strands
        BY <1>1, <1>2, <1>3, <1>8, RunsAppFields DEF Strands
    <2>2. CASE d.source = "keychain"
        <3>1. App \subseteq AppCandidates("desktop") /\ (k = master => App \subseteq {master})
            BY <1>3, <1>4, <1>6, <2>2
        <3> QED BY <1>1, <1>6, <2>1, <3>1 DEF DesktopOpens
    <2>3. CASE d.source = "file"
        <3>1. App \subseteq {master} \cup strands
            BY <1>2, <1>3, <1>4, <1>7, <1>8, <2>3
        <3>2. recorded = k => App \subseteq {master}
            BY <1>3, <1>4, <1>7, <2>3
        <3>3. master \in AppCandidates("desktop")
            BY <1>3, <1>6, <2>3
        <3> QED BY <1>1, <1>6, <2>1, <3>1, <3>2, <3>3 DEF DesktopOpens
    <2>4. CASE d.source = "env"
        <3>1. k # master /\ k \in EnvKeys
            BY <1>3, <1>4, <2>4
        <3> QED BY <1>1, <1>6, <2>1, <2>4, <3>1 DEF DesktopOpens
    <2> QED BY <1>2, <2>2, <2>3, <2>4
<1>9. ASSUME other, recorded \in AppCandidates("desktop"), RunsApp("desktop", recorded)
      PROVE  DesktopOpens(proc["desktop"])'
    <2>1. /\ proc'["desktop"].at = "run" /\ proc'["desktop"].key = recorded
          /\ proc'["desktop"].opens = AppCandidates("desktop")
        BY <1>1, <1>2, <1>3, <1>9, RunsAppFields
    <2>2. d.source = "keychain"
        BY <1>2, <1>3, <1>9 DEF AppCandidates
    <2>3. App \subseteq AppCandidates("desktop")
        BY <1>3, <1>4, <1>6, <2>2
    <2> QED BY <1>1, <1>9, <2>1, <2>3 DEF DesktopOpens
<1>10. CASE Becomes("desktop", [Down EXCEPT !.failed = TRUE])
    <2>1. proc'["desktop"].at = "down"
        BY <1>1, <1>3, <1>10, DownFields
    <2> QED BY <1>5, <2>1 DEF DesktopOpens
<1>11. \/ RunsApp("desktop", k) /\ (other => d.source # "file" \/ ~d.locked)
       \/ other /\ recorded \in AppCandidates("desktop") /\ RunsApp("desktop", recorded)
       \/ Becomes("desktop", [Down EXCEPT !.failed = TRUE])
    BY <1>1, <1>2 DEF DecideApp
<1> QED BY <1>5, <1>8, <1>9, <1>10, <1>11

LEMMA DesktopRecords ==
    ASSUME IInv, slot = "app", AppSlot, DesktopOpens(proc["desktop"]), WriteRecord("desktop")
    PROVE  AppSlot' /\ DesktopOpens(proc["desktop"])'
<1> DEFINE d == proc["desktop"]
<1>1. /\ IsIn("desktop", "record") /\ UNCHANGED <<chain, master, legacy, index, sealed>>
      /\ "desktop" \in Procs /\ Typed
      /\ Goes("desktop", "run") /\ recorded' = d.key
    BY DEF WriteRecord, Kept, Procs, IInv
<1>2. d.key \in Keys /\ NoKey \notin Keys /\ App \subseteq Keys
    BY <1>1, AppSealed, CustodyAssumption DEF IInv, Resolves, IsIn, Procs
<1>3. /\ proc'["desktop"].at = "run" /\ proc'["desktop"].key = d.key
      /\ proc'["desktop"].source = d.source /\ proc'["desktop"].opens = d.opens
    BY <1>1, GoesFields
<1>4. App' \subseteq App /\ App' \cap Strands(d) \subseteq {d.key} /\ App' \cap EnvKeys = {}
    <2>1. /\ stranded \subseteq stranded'
          /\ recorded = NoKey => (Overlooked("desktop") \ {NoKey, d.key}) \subseteq stranded'
        BY DEF WriteRecord
    <2>2. recorded = NoKey => Strands(d) = Overlooked("desktop")
        BY DEF Strands, Overlooked
    <2>3. recorded # NoKey => Strands(d) = {}
        BY DEF Strands
    <2> QED BY <1>1, <1>2, <2>1, <2>2, <2>3 DEF App
<1>5. /\ d.key \in d.opens \cup EnvKeys
      /\ d.source # "env" => App \subseteq d.opens \cup Strands(d)
      /\ d.key = master => App \subseteq {master} \cup Strands(d)
    BY <1>1 DEF DesktopOpens, IsIn
<1>6. AppSlot'
    BY <1>1, <1>2, <1>4, <1>5 DEF AppSlot, FileSealed
<1>7. DesktopOpens(proc["desktop"])'
    BY <1>1, <1>3, <1>4, <1>5 DEF DesktopOpens
<1> QED BY <1>6, <1>7

LEMMA DesktopSeals ==
    ASSUME IInv, slot = "app", AppSlot, DesktopOpens(proc["desktop"]), NEW kind \in Kinds,
           Seal("desktop", kind)
    PROVE  AppSlot' /\ DesktopOpens(proc["desktop"])'
<1> DEFINE d == proc["desktop"]
<1>1. /\ IsIn("desktop", "run") /\ UNCHANGED <<chain, master, legacy, recorded, index, proc, stranded>>
      /\ sealed' = [sealed EXCEPT ![kind] = @ \cup {d.key}] /\ kind = "app"
      /\ sealed \in [Kinds -> SUBSET Keys]
    BY DEF Seal, slots, history, SealedBy, IInv, Typed
<1>2. App' = App \cup ({d.key} \ (EnvKeys \cup stranded))
    BY <1>1 DEF App, Kinds
<1>3. d.key \in Keys /\ NoKey \notin Keys /\ d.key \in EnvKeys \cup {recorded}
    BY <1>1, CustodyAssumption DEF IInv, Resolves, IsIn, Procs, DesktopOpens
<1>4. AppSlot'
    BY <1>1, <1>2, <1>3 DEF AppSlot, FileSealed
<1>5. DesktopOpens(proc["desktop"])'
    BY <1>1, <1>2 DEF DesktopOpens, IsIn
<1> QED BY <1>4, <1>5

LEMMA InitApp == Init /\ OneFile => AInv
<1> SUFFICES ASSUME Init, OneFile, slot = "app"
             PROVE  ~mishap /\ AppSlot /\ DesktopOpens(proc["desktop"])
    BY DEF AInv
<1>1. PICK f \in Folders :
          /\ slot = f.slot /\ chain = f.chain /\ master = f.master /\ legacy = f.legacy
          /\ recorded = f.recorded
          /\ sealed = [kind \in Kinds |-> IF kind \in f.kinds THEN {f.key} ELSE {}]
          /\ stranded = IF f.recorded = NoKey THEN {}
                        ELSE (IF f.slot = "app" THEN {f.chain} ELSE {f.master, f.legacy}) \ {NoKey, f.recorded}
    BY DEF Init
<1>2. index = [k \in Keys |-> "none"] /\ proc["desktop"] = Down /\ mishap = FALSE
    BY DEF Init, Procs
<1>3. Retired(index) = {}
    BY <1>2 DEF Retired
<1>4. sealed.app = IF "app" \in f.kinds THEN {f.key} ELSE {}
    BY <1>1 DEF Kinds
<1>5. sealed.app \subseteq EnvKeys \cup ({chain, master, legacy} \ {NoKey})
    <2>1. f.kinds # {} => f.key \in EnvKeys \cup ({f.chain, f.master, f.legacy} \ {NoKey})
        BY FolderAssumption
    <2>2. "app" \in f.kinds => f.kinds # {}
        OBVIOUS
    <2>3. chain = f.chain /\ master = f.master /\ legacy = f.legacy
        BY <1>1
    <2> QED BY <1>4, <2>1, <2>2, <2>3
<1>6. legacy = NoKey /\ master \notin EnvKeys
    BY <1>1 DEF OneFile
<1>7. recorded # NoKey => {chain} \ {NoKey, recorded} \subseteq stranded
    BY <1>1
<1>8. AppSlot
    BY <1>3, <1>5, <1>6, <1>7 DEF AppSlot, FileSealed, App
<1>9. DesktopOpens(proc["desktop"])
    BY <1>2, DownIs DEF DesktopOpens
<1> QED BY <1>2, <1>8, <1>9

\* Nothing in the desktop's slot is a mishap: it works alone there.
LEMMA NextApp == (~mishap => IInv) /\ AInv /\ [Next]_vars => AInv'
<1> SUFFICES ASSUME ~mishap => IInv, AInv, [Next]_vars PROVE AInv'
    OBVIOUS
<1>1. UNCHANGED slot
    BY DEF Next, vars, Resolve, Look, Store, Verify, Publish, Decide, RetireKey, ListKey,
           EndRetiring, WriteRecord, StoreCurrent, RemoveRetired, Kept, Stop, Seal, Start, Command,
           Adopt, RetireCommand, Import, Installs, Commanded, Deliver, KeychainMoves, Quiescent
<1> SUFFICES ASSUME slot = "app", IInv, ~mishap, AppSlot, DesktopOpens(proc["desktop"])
             PROVE  ~mishap' /\ AppSlot' /\ DesktopOpens(proc["desktop"])'
    BY <1>1 DEF AInv
<1>2. \A p \in Procs : p # "desktop" => IsIn(p, "down")
    BY DEF IInv, Alone, Placed
<1>3. ASSUME NEW p \in Procs, Resolve(p)
      PROVE  ~mishap' /\ AppSlot' /\ DesktopOpens(proc["desktop"])'
    <2>1. CASE p # "desktop"
        BY <1>2, <1>3, <2>1 DEF Resolve, Look, Store, Verify, Publish, Decide, RetireKey,
           ListKey, EndRetiring, WriteRecord, IsIn
    <2>2. CASE p = "desktop"
        <3>1. ~IsIn("desktop", "retire") /\ ~IsIn("desktop", "index")
            BY DEF DesktopOpens, IsIn
        <3>2. AppSlot' /\ DesktopOpens(proc["desktop"])'
            BY <1>3, <2>2, <3>1, DesktopLooks, DesktopStores, DesktopVerifies,
               DesktopPublishes, DesktopDecides, DesktopRecords
            DEF Resolve, RetireKey, ListKey, EndRetiring
        <3>3. IsIn("desktop", "store") => chain = NoKey
            BY DEF DesktopOpens, IsIn
        <3>4. ~mishap'
            BY <1>3, <2>2, <3>3 DEF Resolve, Look, Store, Verify, Publish, Decide, RetireKey,
               ListKey, EndRetiring, WriteRecord, history, Unlucky
        <3> QED BY <3>2, <3>4
    <2> QED BY <2>1, <2>2
<1>4. ASSUME NEW p \in Procs, Stop(p)
      PROVE  ~mishap' /\ AppSlot' /\ DesktopOpens(proc["desktop"])'
    <2>1. p = "desktop"
        BY <1>2, <1>4 DEF Stop
    <2>2. proc'["desktop"] = Down
        BY <1>4, <2>1, BecomesIs DEF Stop, IInv
    <2>3. ~mishap' /\ AppSlot'
        BY <1>4 DEF Stop, slots, history, AppSlot, FileSealed, App
    <2>4. DesktopOpens(proc["desktop"])'
        BY <2>2, DownIs DEF DesktopOpens
    <2> QED BY <2>3, <2>4
<1>5. ASSUME NEW p \in Procs, NEW kind \in Kinds, Seal(p, kind)
      PROVE  ~mishap' /\ AppSlot' /\ DesktopOpens(proc["desktop"])'
    <2>1. p = "desktop" /\ ~mishap'
        BY <1>2, <1>5 DEF Seal, IsIn, history
    <2> QED BY <1>5, <2>1, DesktopSeals
<1>6. ASSUME NEW p \in Procs, NEW env \in EnvKeys \cup {NoKey}, Start(p, env)
      PROVE  ~mishap' /\ AppSlot' /\ DesktopOpens(proc["desktop"])'
    <2> DEFINE r == [Down EXCEPT !.at = "look", !.env = env]
    <2>1. p = "desktop" /\ Becomes(p, r)
        BY <1>6 DEF Start, MayBegin
    <2>2. r.at = "look"
        BY DownIs DEF Process
    <2> HIDE DEF r
    <2>3. proc'["desktop"] = r
        BY <2>1, BecomesIs DEF IInv
    <2>4. AppSlot'
        BY <1>6 DEF Start, slots, AppSlot, FileSealed, App
    <2>5. DesktopOpens(proc["desktop"])'
        BY <2>2, <2>3 DEF DesktopOpens
    <2>6. ~mishap'
        BY <1>2, <1>6 DEF Start, Unlucky, Working, IsIn, Procs
    <2> QED BY <2>4, <2>5, <2>6
<1>7. CASE KeychainMoves \/ Quiescent \/ UNCHANGED vars
    <2>1. UNCHANGED <<chain, master, legacy, recorded, index, sealed, proc, stranded>>
        BY <1>7 DEF KeychainMoves, Quiescent, vars, slots, history
    <2>2. ~mishap'
        BY <1>2, <1>7 DEF KeychainMoves, Quiescent, vars, history, Unlucky, Working, IsIn, Procs
    <2> QED BY <2>1, <2>2 DEF AppSlot, FileSealed, App, DesktopOpens, Strands
<1>8. ~StoreCurrent /\ ~RemoveRetired /\ ~Deliver /\ \A env : ~Command(env)
    BY <1>2 DEF StoreCurrent, RemoveRetired, Deliver, Command, MayBegin, IsIn, Procs
<1> QED BY <1>3, <1>4, <1>5, <1>6, <1>7, <1>8 DEF Next

\* Whatever the keychain did while the desktop resolved its key (resolve_app_key goes by
\* what the ladder observed of it), the desktop opens what it sealed before, but under the
\* keys AppOpens excepts; if its key file holds no key that an operator supplies.
THEOREM DesktopOpensItsData == OneFile => (Spec => []AppOpens)
<1> SUFFICES ASSUME OneFile PROVE Spec => []AppOpens
    OBVIOUS
<1>1. Init => AInv
    BY InitApp
<1>2. (~mishap => IInv) /\ AInv /\ [Next]_vars => AInv'
    BY NextApp
<1>3. (~mishap => IInv) /\ AInv /\ Basic => AppOpens
    <2> SUFFICES ASSUME AInv, Basic, IsIn("desktop", "run") PROVE AppOpens
        BY DEF AppOpens
    <2>1. slot = "app"
        BY DEF Basic, Placed, IsIn, Procs
    <2> QED BY <2>1 DEF AInv, DesktopOpens, AppOpens, App, IsIn
<1> QED BY <1>1, <1>2, <1>3, Invariance, Basics, PTL DEF Spec
=============================================================================
