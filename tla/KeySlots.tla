------------------------------ MODULE KeySlots ------------------------------
(***************************************************************************)
(* Where one data folder keeps its master key (crates/core/crypto: lib.rs  *)
(* and custody.rs): the OS keychain, two key files, the retired keys, and  *)
(* the recorded key check value.  A key stands for its check value.        *)
(* Corrupt key files and hosts that forbid a key file are left out.        *)
(***************************************************************************)
EXTENDS Naturals, FiniteSets

CONSTANTS
    Keys, NoKey,
    EnvKeys,     \* the keys an operator may supply in RYU_MASTER_KEY
    MaxRetired   \* MAX_RETIRED_KEYS

VARIABLES
    chain,    \* the keychain slot
    reach,    \* the keychain: "open", "locked" (or switched off) or "corrupt"
    master,   \* secrets/master.key
    legacy,   \* secrets/memory.key
    recorded, \* state/master-key.kcv
    index,    \* state/retired-keys.json: the custody of each retired key
    vault     \* the retired keys themselves: in files and in the keychain

slots == <<chain, reach, master, legacy, recorded, index, vault>>

Custodies == {"none", "file", "keychain"}
Reaches == {"open", "locked", "corrupt"}

Held == IF reach = "open" THEN {chain} \ {NoKey} ELSE {}

\* candidates(): the live slots.
LiveKeys(env) == (Held \cup {env, master, legacy}) \ {NoKey}

\* RetiredVault::load_all.
Loadable(k) ==
    \/ index[k] = "file" /\ k \in vault.files
    \/ index[k] = "keychain" /\ reach = "open" /\ k \in vault.chain
RetiredKeys == {k \in Keys : Loadable(k)}

CandidateKeys(env) == LiveKeys(env) \cup RetiredKeys

Retired(idx) == {k \in Keys : idx[k] # "none"}

\* RetiredVault::retire puts the key away before it is listed.
PutAway(k, custody) ==
    vault' = IF custody = "keychain" THEN [vault EXCEPT !.chain = @ \cup {k}]
             ELSE [vault EXCEPT !.files = @ \cup {k}]

\* retire_matching_legacy_key.
LegacyIsRetired(k) == legacy' = IF legacy = k THEN NoKey ELSE legacy

\* write_key_file: the first writer wins, the loser takes the winner's key.
\* Mutant: the loser replaces the winner's file.
PublishedOver(k) == k
Published(k) == IF master = NoKey THEN k ELSE master

\* persistent_key: the keychain, then the file.
PersistentKey == IF Held # {} THEN chain ELSE master

\* Mutant: only the persistent key is retired.
ToRetireOne(k, env, extras) == {PersistentKey} \ {k, NoKey}

\* install_current: what is retired before k becomes the current key.
ToRetire(k, env, extras) ==
    (({PersistentKey} \cup ({recorded} \cap LiveKeys(env)) \cup extras) \ {k, NoKey})

SlotTypes ==
    /\ {chain, master, legacy, recorded} \subseteq Keys \cup {NoKey}
    /\ reach \in Reaches
    /\ index \in [Keys -> Custodies]
    /\ vault \in [files : SUBSET Keys, chain : SUBSET Keys]
===============================================================================
