---------------------------- MODULE StandaloneRoot ----------------------------
(***************************************************************************)
(* The key of a plugin run outside Core (crates/core/crypto/src/           *)
(* plugin_keys/): RYU_MASTER_KEY if it is set, else a root generated once  *)
(* into secrets/standalone-root.key; a second file pins which key sealed   *)
(* the data.  Several processes of the plugin share the two files.  Files  *)
(* that were edited by hand are left out.                                  *)
(***************************************************************************)
EXTENDS Naturals

CONSTANTS
    Processes,
    Masters,          \* values of RYU_MASTER_KEY
    Roots,            \* keys that may be generated
    NoMaster,         \* the variable is not set
    NoSecret,         \* no file, no key
    Torn,             \* a root file created and not yet written
    SameEnvironment,  \* assumed: processes that start at once have the same environment
    MaxBoots          \* bound: starts in all

ASSUME RootAssumption ==
    /\ NoSecret \notin Roots \cup Masters \cup {Torn}
    /\ Torn \notin Roots

VARIABLES
    root,      \* the root file
    pin,       \* the key the pinned check value is of
    process,   \* each process: where it is, its environment, its key
    rooted,    \* keys generated
    sealings,  \* history: environments, each with the key data was sealed under
    boots

rootVars == <<root, pin, process, rooted, sealings, boots>>

Absent == [at |-> "absent", env |-> NoMaster, key |-> NoSecret]
Settled == {"absent", "up", "compat"}
Goes(p, at) == process' = [process EXCEPT ![p].at = at]
Holds(p, key, at) == process' = [process EXCEPT ![p].at = at, ![p].key = key]
Refused(p) == process' = [process EXCEPT ![p] = Absent]
IsAt(p, at) == process[p].at = at

---------------------------------------------------------------------------
\* resolve, or resolve_existing, which never generates a root.
Boot(p) ==
    /\ IsAt(p, "absent") /\ boots < MaxBoots /\ boots' = boots + 1
    /\ \E env \in Masters \cup {NoMaster}, existing \in BOOLEAN :
           /\ SameEnvironment =>
                  \A q \in Processes : process[q].at \notin Settled => process[q].env = env
           /\ process' = [process EXCEPT ![p] =
                  [at |-> IF existing /\ env = NoMaster /\ root = NoSecret THEN "compat" ELSE "look",
                   env |-> env, key |-> NoSecret]]
    /\ UNCHANGED <<root, pin, rooted, sealings>>

\* With RYU_MASTER_KEY, a root file is another key's data.
LookWithMaster(p) ==
    /\ IsAt(p, "look") /\ process[p].env # NoMaster
    /\ IF root # NoSecret THEN Refused(p) ELSE Holds(p, process[p].env, "read_pin")
    /\ UNCHANGED <<root, pin, rooted, sealings, boots>>

\* load_or_create_standalone_root, one file access at a time.
ReadRoot(p) ==
    /\ IsAt(p, "look") /\ process[p].env = NoMaster
    /\ \/ root = NoSecret /\ Goes(p, "check_pin")
       \/ root = Torn /\ Refused(p)
       \/ root \in Roots /\ Holds(p, root, "read_pin")
    /\ UNCHANGED <<root, pin, rooted, sealings, boots>>

\* Mutant: a root is generated beside a pinned key.
GeneratesBeside == TRUE
MayGenerate == pin = NoSecret

CheckPin(p) ==
    /\ IsAt(p, "check_pin")
    /\ IF MayGenerate THEN Goes(p, "create") ELSE Refused(p)
    /\ UNCHANGED <<root, pin, rooted, sealings, boots>>

\* write_new_private_file creates a file that is not there, then writes it.
CreateRoot(p) ==
    /\ IsAt(p, "create")
    /\ IF root # NoSecret THEN Refused(p) /\ UNCHANGED <<root, rooted>>
       ELSE \E key \in Roots \ rooted :
                root' = Torn /\ rooted' = rooted \cup {key} /\ Holds(p, key, "write")
    /\ UNCHANGED <<pin, sealings, boots>>

WriteRoot(p) ==
    /\ IsAt(p, "write")
    /\ root' = process[p].key /\ Goes(p, "read_pin")
    /\ UNCHANGED <<pin, rooted, sealings, boots>>

\* pin_standalone_kcv: read, then replace by a rename.
ReadPin(p) ==
    /\ IsAt(p, "read_pin")
    /\ \/ pin = NoSecret /\ Goes(p, "write_pin")
       \/ pin # NoSecret /\ pin = process[p].key /\ Goes(p, "up")
       \/ pin \notin {NoSecret, process[p].key} /\ Refused(p)
    /\ UNCHANGED <<root, pin, rooted, sealings, boots>>

WritePin(p) ==
    /\ IsAt(p, "write_pin")
    /\ pin' = process[p].key /\ Goes(p, "up")
    /\ UNCHANGED <<root, rooted, sealings, boots>>

SealData(p) ==
    /\ IsAt(p, "up")
    /\ sealings' = sealings \cup {[env |-> process[p].env, key |-> process[p].key]}
    /\ UNCHANGED <<root, pin, process, rooted, boots>>

\* A process exits, or is killed between two accesses.
Leave(p) ==
    /\ ~IsAt(p, "absent")
    /\ Refused(p)
    /\ UNCHANGED <<root, pin, rooted, sealings, boots>>

RootInit ==
    /\ root = NoSecret /\ pin = NoSecret
    /\ process = [p \in Processes |-> Absent]
    /\ rooted = {} /\ sealings = {} /\ boots = 0

RootNext ==
    \E p \in Processes :
        \/ Boot(p) \/ LookWithMaster(p) \/ ReadRoot(p) \/ CheckPin(p) \/ CreateRoot(p)
        \/ WriteRoot(p) \/ ReadPin(p) \/ WritePin(p) \/ SealData(p) \/ Leave(p)

RootSpec == RootInit /\ [][RootNext]_rootVars

---------------------------------------------------------------------------
\* Every state the variables may be in.
RootTypeOK ==
    /\ root \in Roots \cup {NoSecret, Torn} /\ pin \in Roots \cup Masters \cup {NoSecret}
    /\ rooted \subseteq Roots /\ boots \in 0..MaxBoots
    /\ \A p \in Processes :
           process[p].at \in Settled \cup {"look", "check_pin", "create", "write", "read_pin", "write_pin"}

\* What a start in the environment resolves to when no other start is under way.
Resolves(env) ==
    LET key == IF env = NoMaster THEN root ELSE IF root = NoSecret THEN env ELSE NoSecret
    IN IF pin \in {NoSecret, key} THEN key ELSE NoSecret

\* All data of a plugin outside Core is under one key, and the environment that sealed it
\* gets that key at its next start: no kill between two files, and no start in another
\* environment, leaves something behind that refuses it.
OneKeyForever ==
    \A s \in sealings :
        /\ Resolves(s.env) = s.key
        /\ \A t \in sealings : t.key = s.key
==============================================================================
