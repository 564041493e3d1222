------------------------- MODULE CryptoPartsProofs --------------------------
(***************************************************************************)
(* Four parts of the crypto crate, for any number of processes, starts,    *)
(* stores, threads and vectors.  The key of a plugin outside Core: it is   *)
(* pinned only while the root file agrees with it, and no root is made once*)
(* a key is pinned; starts that overlap must have the same environment     *)
(* (SameEnvironment), since the code reads the two files one after the     *)
(* other, under no lock.  The compaction queue: the worker looks at the queue*)
(* and clears its flag under one lock.  The collector of the best k: it    *)
(* always holds a choice of the best it was offered.  The vector index: the*)
(* budget counts exactly what is held, the partitions held are in order of *)
(* use, and an index that misses a vector says so.                         *)
(***************************************************************************)
EXTENDS StandaloneRoot, CompactionQueue, TopK, VectorIndex, FoldLemmas, FiniteSetTheorems, TLAPS

----------------------------------------------------------------------------
(* The inductive invariant                                                 *)

Environments == Masters \cup {NoMaster}
Places == Settled \cup {"look", "check_pin", "create", "write", "read_pin", "write_pin"}
Process == [at : Places, env : Environments, key : Roots \cup Masters \cup {NoSecret}]

RootTyped ==
    /\ root \in Roots \cup {NoSecret, Torn}
    /\ pin \in Roots \cup Masters \cup {NoSecret}
    /\ process \in [Processes -> Process]
    /\ sealings \subseteq [env : Environments, key : Roots \cup Masters]

\* The key the environment resolves to, as long as the root file stays what it is.
Owned(env, key) ==
    IF env = NoMaster THEN key \in Roots /\ root = key ELSE key = env /\ root = NoSecret

\* What a process knows of the two files at each step of its start.
Sound(x) ==
    /\ x.at \in {"check_pin", "create", "write"} => x.env = NoMaster
    /\ x.at = "create" => pin = NoSecret \/ root # NoSecret
    /\ x.at = "write" => root = Torn /\ x.key \in Roots
    /\ x.at \in {"read_pin", "write_pin", "up"} => Owned(x.env, x.key)
    /\ x.at = "write_pin" => pin \in {NoSecret, x.key}
    /\ x.at = "up" => pin = x.key

\* Starts under way have the same environment, and one of them at most writes the root.
Together ==
    \A p, q \in Processes :
        /\ process[p].at \notin Settled /\ process[q].at \notin Settled =>
               process[p].env = process[q].env
        /\ process[p].at = "write" /\ process[q].at = "write" => p = q

\* A pinned key is the root file's, or RYU_MASTER_KEY's with no root file.
PinAgrees ==
    \/ pin = NoSecret
    \/ pin \in Roots /\ root = pin
    \/ pin \in Masters /\ root = NoSecret

SealedUnderPin == \A s \in sealings : pin = s.key /\ Owned(s.env, s.key)

RootInv ==
    /\ SameEnvironment /\ RootTyped
    /\ \A p \in Processes : Sound(process[p])
    /\ Together /\ PinAgrees /\ SealedUnderPin

----------------------------------------------------------------------------
(* The invariant is inductive                                              *)

LEMMA RootInitInv == SameEnvironment /\ RootInit => RootInv
<1> SUFFICES ASSUME SameEnvironment, RootInit PROVE RootInv
    OBVIOUS
<1> USE DEF RootInit, Absent, Settled
<1>1. RootTyped
    BY DEF RootTyped, Process, Places, Environments
<1>2. \A p \in Processes : Sound(process[p])
    BY DEF Sound
<1>3. Together /\ PinAgrees /\ SealedUnderPin
    BY DEF Together, PinAgrees, SealedUnderPin
<1> QED BY <1>1, <1>2, <1>3 DEF RootInv

\* A process goes on, or is gone, and the files stay: what it knows at its new place must
\* hold, and a start keeps its environment.
LEMMA RootMoveKeeps ==
    ASSUME RootInv, NEW p \in Processes, NEW x \in Process,
           process' = [process EXCEPT ![p] = x],
           UNCHANGED <<root, pin, sealings>>,
           Sound(x), x.at # "write",
           x.at \notin Settled => process[p].at \notin Settled /\ x.env = process[p].env
    PROVE  RootInv'
<1>1. \A q \in Processes : process'[q] = IF q = p THEN x ELSE process[q]
    BY DEF RootInv, RootTyped
<1>2. RootTyped'
    BY DEF RootInv, RootTyped, Environments
<1>3. \A q \in Processes : Sound(process[q])'
    BY <1>1 DEF RootInv, Sound, Owned
<1>4. Together'
    <2> SUFFICES ASSUME NEW q \in Processes, NEW r \in Processes
                 PROVE  /\ process'[q].at \notin Settled /\ process'[r].at \notin Settled =>
                               process'[q].env = process'[r].env
                        /\ process'[q].at = "write" /\ process'[r].at = "write" => q = r
        BY DEF Together, Settled
    <2> QED BY <1>1 DEF RootInv, Together
<1>5. PinAgrees' /\ SealedUnderPin'
    BY DEF RootInv, PinAgrees, SealedUnderPin, Owned
<1> QED BY <1>2, <1>3, <1>4, <1>5 DEF RootInv

\* A start that gives up.
LEMMA RefusedKeeps ==
    ASSUME RootInv, NEW p \in Processes, Refused(p), UNCHANGED <<root, pin, sealings>>
    PROVE  RootInv'
<1>1. Absent \in Process /\ Absent.at = "absent"
    BY DEF Absent, Process, Places, Settled, Environments
<1>2. Sound(Absent)
    BY <1>1 DEF Sound
<1>3. Absent.at \in Settled
    BY <1>1 DEF Settled
<1> QED BY <1>1, <1>2, <1>3, RootMoveKeeps DEF Refused

\* A start goes to its next place with the key it had, or with one it found.
LEMMA GoesKeeps ==
    ASSUME RootInv, NEW p \in Processes, NEW key \in Roots \cup Masters \cup {NoSecret},
           NEW at \in {"check_pin", "create", "read_pin", "write_pin", "up"},
           process' = [process EXCEPT ![p] = [at |-> at, env |-> process[p].env, key |-> key]],
           UNCHANGED <<root, pin, sealings>>,
           process[p].at \notin Settled,
           Sound([at |-> at, env |-> process[p].env, key |-> key])
    PROVE  RootInv'
<1> DEFINE x == [at |-> at, env |-> process[p].env, key |-> key]
<1>1. x \in Process /\ x.at # "write" /\ x.env = process[p].env
    BY DEF RootInv, RootTyped, Process, Places, Settled
<1> HIDE DEF x
<1>2. process' = [process EXCEPT ![p] = x] /\ Sound(x)
    BY DEF x
<1> QED BY <1>1, <1>2, RootMoveKeeps

\* How the two ways of going on change the process.
LEMMA Going ==
    ASSUME RootTyped, NEW p \in Processes, NEW at, NEW key
    PROVE  /\ Goes(p, at) => process' = [process EXCEPT ![p] =
                  [at |-> at, env |-> process[p].env, key |-> process[p].key]]
           /\ Holds(p, key, at) => process' = [process EXCEPT ![p] =
                  [at |-> at, env |-> process[p].env, key |-> key]]
<1>1. process \in [Processes -> Process]
    BY DEF RootTyped
<1> QED BY <1>1 DEF Goes, Holds, Process

LEMMA BootStep ==
    ASSUME RootInv, NEW p \in Processes, Boot(p)
    PROVE  RootInv'
<1>1. PICK env \in Environments, existing \in BOOLEAN :
          /\ \A q \in Processes : process[q].at \notin Settled => process[q].env = env
          /\ process' = [process EXCEPT ![p] =
                 [at |-> IF existing /\ env = NoMaster /\ root = NoSecret THEN "compat" ELSE "look",
                  env |-> env, key |-> NoSecret]]
    BY DEF Boot, Environments, RootInv
<1>2. UNCHANGED <<root, pin, sealings>>
    BY DEF Boot
<1>3. PICK at \in {"compat", "look"} :
          process' = [process EXCEPT ![p] = [at |-> at, env |-> env, key |-> NoSecret]]
    BY <1>1
<1> DEFINE x == [at |-> at, env |-> env, key |-> NoSecret]
<1>4. x \in Process /\ x.at \in {"compat", "look"} /\ x.env = env
    BY DEF Process, Places, Settled
<1>5. process' = [process EXCEPT ![p] = x]
    BY <1>3
<1> HIDE DEF x
<1>6. \A q \in Processes : process'[q] = IF q = p THEN x ELSE process[q]
    BY <1>5 DEF RootInv, RootTyped
<1>7. RootTyped'
    BY <1>2, <1>4, <1>5 DEF RootInv, RootTyped, Environments
<1>8. \A q \in Processes : Sound(process[q])'
    BY <1>2, <1>4, <1>6 DEF RootInv, Sound, Owned
<1>9. Together'
    <2> SUFFICES ASSUME NEW q \in Processes, NEW r \in Processes
                 PROVE  /\ process'[q].at \notin Settled /\ process'[r].at \notin Settled =>
                               process'[q].env = process'[r].env
                        /\ process'[q].at = "write" /\ process'[r].at = "write" => q = r
        BY DEF Together, Settled
    <2> QED BY <1>1, <1>4, <1>6 DEF RootInv, Together
<1>10. PinAgrees' /\ SealedUnderPin'
    BY <1>2 DEF RootInv, PinAgrees, SealedUnderPin, Owned
<1> QED BY <1>7, <1>8, <1>9, <1>10 DEF RootInv

\* A start looks at the files and changes neither.
LEMMA LookStep ==
    ASSUME RootInv, NEW p \in Processes, LookWithMaster(p) \/ ReadRoot(p) \/ CheckPin(p) \/ ReadPin(p)
    PROVE  RootInv'
<1>1. UNCHANGED <<root, pin, sealings>> /\ RootTyped
    BY DEF LookWithMaster, ReadRoot, CheckPin, ReadPin, RootInv
<1>2. process[p] \in Process /\ Sound(process[p])
    BY DEF RootInv, RootTyped
<1>3. CASE LookWithMaster(p) /\ root = NoSecret
    <2>1. /\ process[p].at = "look" /\ process[p].env # NoMaster
          /\ Holds(p, process[p].env, "read_pin")
        BY <1>3 DEF LookWithMaster, IsAt
    <2>2. process[p].env \in Roots \cup Masters \cup {NoSecret}
        BY <1>2, <2>1 DEF Process, Environments
    <2>3. Sound([at |-> "read_pin", env |-> process[p].env, key |-> process[p].env])
        BY <1>3, <2>1 DEF Sound, Owned
    <2>4. process' = [process EXCEPT ![p] =
              [at |-> "read_pin", env |-> process[p].env, key |-> process[p].env]]
        BY <1>1, <2>1, Going
    <2>5. process[p].at \notin Settled
        BY <2>1 DEF Settled
    <2> QED BY <1>1, <2>2, <2>3, <2>4, <2>5, GoesKeeps
<1>4. CASE ReadRoot(p) /\ root = NoSecret
    <2>1. process[p].at = "look" /\ process[p].env = NoMaster /\ Goes(p, "check_pin")
        BY <1>4, RootAssumption DEF ReadRoot, IsAt
    <2>2. Sound([at |-> "check_pin", env |-> process[p].env, key |-> process[p].key])
        BY <2>1 DEF Sound
    <2> QED BY <1>1, <1>2, <2>1, <2>2, GoesKeeps, Going DEF Settled, Process
<1>5. CASE ReadRoot(p) /\ root \in Roots
    <2>1. process[p].at = "look" /\ process[p].env = NoMaster /\ Holds(p, root, "read_pin")
        BY <1>5, RootAssumption DEF ReadRoot, IsAt
    <2>2. Sound([at |-> "read_pin", env |-> process[p].env, key |-> root])
        BY <1>5, <2>1 DEF Sound, Owned
    <2> QED BY <1>1, <1>5, <2>1, <2>2, GoesKeeps, Going DEF Settled
<1>6. CASE CheckPin(p) /\ pin = NoSecret
    <2>1. process[p].at = "check_pin" /\ process[p].env = NoMaster /\ Goes(p, "create")
        BY <1>2, <1>6 DEF CheckPin, MayGenerate, IsAt, Sound
    <2>2. Sound([at |-> "create", env |-> process[p].env, key |-> process[p].key])
        BY <1>6, <2>1 DEF Sound
    <2> QED BY <1>1, <1>2, <2>1, <2>2, GoesKeeps, Going DEF Settled, Process
<1>7. CASE ReadPin(p) /\ pin \in {NoSecret, process[p].key}
    <2>1. process[p].at = "read_pin" /\ Owned(process[p].env, process[p].key)
        BY <1>2, <1>7 DEF ReadPin, IsAt, Sound
    <2>2. PICK at \in {"write_pin", "up"} :
              Goes(p, at) /\ (at = "up" => pin = process[p].key)
        BY <1>7 DEF ReadPin
    <2>3. Sound([at |-> at, env |-> process[p].env, key |-> process[p].key])
        BY <1>7, <2>1, <2>2 DEF Sound
    <2>4. process' = [process EXCEPT ![p] =
              [at |-> at, env |-> process[p].env, key |-> process[p].key]]
        BY <1>1, <2>2, Going
    <2> QED BY <1>1, <1>2, <2>1, <2>3, <2>4, GoesKeeps DEF Settled, Process
<1>8. CASE Refused(p)
    BY <1>1, <1>8, RefusedKeeps
<1> QED BY <1>3, <1>4, <1>5, <1>6, <1>7, <1>8
        DEF LookWithMaster, ReadRoot, CheckPin, MayGenerate, ReadPin

\* Nothing is pinned and no start under way has a key: only those beside this one that
\* have none are left, whatever they go on to find.
LEMMA CreateStep ==
    ASSUME RootInv, NEW p \in Processes, CreateRoot(p)
    PROVE  RootInv'
<1>1. process[p].at = "create" /\ process[p].env = NoMaster /\ UNCHANGED <<pin, sealings>>
    BY DEF CreateRoot, IsAt, RootInv, Sound
<1>2. CASE root # NoSecret
    BY <1>1, <1>2, RefusedKeeps DEF CreateRoot
<1>3. CASE root = NoSecret
    <2>1. PICK key \in Roots : root' = Torn /\ Holds(p, key, "write")
        BY <1>3 DEF CreateRoot
    <2> DEFINE x == [at |-> "write", env |-> NoMaster, key |-> key]
    <2>2. process' = [process EXCEPT ![p] = x]
        BY <1>1, <2>1, Going DEF RootInv
    <2>3. x \in Process /\ x.at = "write" /\ x.env = NoMaster /\ x.key \in Roots
        BY DEF Process, Places, Environments
    <2> HIDE DEF x
    <2>4. \A q \in Processes : process'[q] = IF q = p THEN x ELSE process[q]
        BY <2>2 DEF RootInv, RootTyped
    <2>5. pin = NoSecret
        BY <1>1, <1>3 DEF RootInv, Sound
    <2>6. \A q \in Processes :
              /\ process[q].at \notin {"write", "read_pin", "write_pin", "up"}
              /\ process[q].at \notin Settled => process[q].env = NoMaster
        <3> SUFFICES ASSUME NEW q \in Processes
                     PROVE  /\ process[q].at \notin {"write", "read_pin", "write_pin", "up"}
                            /\ process[q].at \notin Settled => process[q].env = NoMaster
            OBVIOUS
        <3>1. process[q].at \notin Settled => process[q].env = NoMaster
            BY <1>1 DEF RootInv, Together, Settled
        <3>2. process[q].at # "write"
            BY <1>3, RootAssumption DEF RootInv, Sound
        <3>3. process[q].at # "up"
            BY <1>3, <2>5, RootAssumption DEF RootInv, Sound, Owned, RootTyped, Process, Environments
        <3>4. process[q].at \notin {"read_pin", "write_pin"}
            BY <1>3, <3>1, RootAssumption DEF RootInv, Sound, Owned, Settled
        <3> QED BY <3>1, <3>2, <3>3, <3>4
    <2>7. RootTyped'
        BY <1>1, <2>1, <2>2, <2>3 DEF RootInv, RootTyped, Environments
    <2>8. \A q \in Processes : Sound(process[q])'
        BY <1>1, <2>1, <2>3, <2>4, <2>5, <2>6 DEF RootInv, Sound
    <2>9. Together'
        <3> SUFFICES ASSUME NEW q \in Processes, NEW r \in Processes
                     PROVE  /\ process'[q].at \notin Settled /\ process'[r].at \notin Settled =>
                                   process'[q].env = process'[r].env
                            /\ process'[q].at = "write" /\ process'[r].at = "write" => q = r
            BY DEF Together, Settled
        <3> QED BY <2>3, <2>4, <2>6
    <2>10. sealings = {}
        BY <2>5, RootAssumption DEF RootInv, SealedUnderPin, RootTyped
    <2> QED BY <1>1, <2>5, <2>7, <2>8, <2>9, <2>10 DEF RootInv, PinAgrees, SealedUnderPin
<1> QED BY <1>2, <1>3

\* The torn file is this start's alone: nothing is pinned, and no other start has a key.
LEMMA WriteStep ==
    ASSUME RootInv, NEW p \in Processes, WriteRoot(p)
    PROVE  RootInv'
<1>1. /\ process[p].at = "write" /\ process[p].env = NoMaster
      /\ root = Torn /\ process[p].key \in Roots
      /\ root' = process[p].key /\ Goes(p, "read_pin") /\ UNCHANGED <<pin, sealings>>
    BY DEF WriteRoot, IsAt, RootInv, Sound
<1> DEFINE x == [at |-> "read_pin", env |-> NoMaster, key |-> process[p].key]
<1>2. process' = [process EXCEPT ![p] = x]
    BY <1>1, Going DEF RootInv
<1>3. /\ x \in Process /\ x.at = "read_pin" /\ x.env = NoMaster
      /\ x.key \in Roots /\ x.key = process[p].key
    BY <1>1 DEF Process, Places, Environments
<1> HIDE DEF x
<1>4. \A q \in Processes : process'[q] = IF q = p THEN x ELSE process[q]
    BY <1>2 DEF RootInv, RootTyped
<1>5. pin = NoSecret
    BY <1>1, RootAssumption DEF RootInv, PinAgrees
<1>6. \A q \in Processes : q # p => process[q].at \notin {"write", "read_pin", "write_pin", "up"}
    BY <1>1, RootAssumption DEF RootInv, Together, Sound, Owned
<1>7. RootTyped'
    BY <1>1, <1>2, <1>3 DEF RootInv, RootTyped, Environments
<1>8. \A q \in Processes : Sound(process[q])'
    <2> SUFFICES ASSUME NEW q \in Processes PROVE Sound(process[q])'
        OBVIOUS
    <2>1. CASE q = p
        BY <1>1, <1>3, <1>4, <2>1 DEF Sound, Owned
    <2>2. CASE q # p
        BY <1>1, <1>4, <1>5, <1>6, <2>2 DEF RootInv, Sound
    <2> QED BY <2>1, <2>2
<1>9. Together'
    <2> SUFFICES ASSUME NEW q \in Processes, NEW r \in Processes
                 PROVE  /\ process'[q].at \notin Settled /\ process'[r].at \notin Settled =>
                               process'[q].env = process'[r].env
                        /\ process'[q].at = "write" /\ process'[r].at = "write" => q = r
        BY DEF Together, Settled
    <2>1. process[p].at \notin Settled
        BY <1>1 DEF Settled
    <2> QED BY <1>1, <1>3, <1>4, <2>1 DEF RootInv, Together
<1>10. sealings = {}
    BY <1>5, RootAssumption DEF RootInv, SealedUnderPin, RootTyped
<1> QED BY <1>1, <1>5, <1>7, <1>8, <1>9, <1>10 DEF RootInv, PinAgrees, SealedUnderPin

\* Every start under way has the same environment, so the same key, and nothing else is
\* pinned.
LEMMA PinStep ==
    ASSUME RootInv, NEW p \in Processes, WritePin(p)
    PROVE  RootInv'
<1>1. /\ process[p].at = "write_pin" /\ Owned(process[p].env, process[p].key)
      /\ pin \in {NoSecret, process[p].key}
      /\ pin' = process[p].key /\ Goes(p, "up") /\ UNCHANGED <<root, sealings>>
    BY DEF WritePin, IsAt, RootInv, Sound
<1> DEFINE x == [at |-> "up", env |-> process[p].env, key |-> process[p].key]
<1>2. process' = [process EXCEPT ![p] = x]
    BY <1>1, Going DEF RootInv
<1>3. process[p] \in Process
    BY DEF RootInv, RootTyped
<1>4. /\ x \in Process /\ x.at = "up" /\ x.env = process[p].env /\ x.key = process[p].key
    BY <1>3 DEF Process, Places, Settled
<1> HIDE DEF x
<1>5. \A q \in Processes : process'[q] = IF q = p THEN x ELSE process[q]
    BY <1>2 DEF RootInv, RootTyped
<1>6. process[p].key \in Roots \cup Masters /\ process[p].key # NoSecret
    BY <1>1, <1>3, RootAssumption DEF Owned, Process, Environments
<1>7. RootTyped'
    BY <1>1, <1>2, <1>4, <1>6 DEF RootInv, RootTyped, Environments
<1>8. \A q \in Processes : Sound(process[q])'
    <2> SUFFICES ASSUME NEW q \in Processes PROVE Sound(process[q])'
        OBVIOUS
    <2>1. CASE q = p
        BY <1>1, <1>4, <1>5, <2>1 DEF Sound, Owned
    <2>2. CASE q # p
        <3>1. process'[q] = process[q] /\ Sound(process[q])
            BY <1>5, <2>2 DEF RootInv
        <3>2. process[q].at \notin Settled => process[q].env = process[p].env
            BY <1>1 DEF RootInv, Together, Settled
        <3>3. process[q].at = "create" => root' # NoSecret
            BY <1>1, <3>1, <3>2, RootAssumption DEF Sound, Owned, Settled
        <3>4. process[q].at = "write_pin" => process[q].key = pin'
            BY <1>1, <3>1, <3>2 DEF Sound, Owned, Settled
        <3>5. process[q].at = "up" => process[q].key = pin'
            <4> SUFFICES ASSUME process[q].at = "up" PROVE process[q].key = pin'
                OBVIOUS
            <4>1. pin = process[q].key /\ Owned(process[q].env, process[q].key)
                BY <3>1 DEF Sound
            <4>2. process[q] \in Process
                BY DEF RootInv, RootTyped
            <4>3. pin # NoSecret
                BY <4>1, <4>2, RootAssumption DEF Owned, Process, Environments
            <4> QED BY <1>1, <4>1, <4>3
        <3> QED BY <1>1, <3>1, <3>3, <3>4, <3>5 DEF Sound, Owned
    <2> QED BY <2>1, <2>2
<1>9. Together'
    <2> SUFFICES ASSUME NEW q \in Processes, NEW r \in Processes
                 PROVE  /\ process'[q].at \notin Settled /\ process'[r].at \notin Settled =>
                               process'[q].env = process'[r].env
                        /\ process'[q].at = "write" /\ process'[r].at = "write" => q = r
        BY DEF Together, Settled
    <2> QED BY <1>4, <1>5 DEF RootInv, Together, Settled
<1>10. PinAgrees'
    BY <1>1, <1>3 DEF PinAgrees, Owned, Process, Environments
<1>11. SealedUnderPin'
    <2>1. \A s \in sealings : s.key # NoSecret
        BY RootAssumption DEF RootInv, RootTyped
    <2> QED BY <1>1, <2>1 DEF RootInv, SealedUnderPin, Owned
<1> QED BY <1>7, <1>8, <1>9, <1>10, <1>11 DEF RootInv

LEMMA SealStep ==
    ASSUME RootInv, NEW p \in Processes, SealData(p)
    PROVE  RootInv'
<1>1. /\ process[p].at = "up" /\ UNCHANGED <<root, pin, process>>
      /\ sealings' = sealings \cup {[env |-> process[p].env, key |-> process[p].key]}
    BY DEF SealData, IsAt
<1>2. /\ pin = process[p].key /\ Owned(process[p].env, process[p].key)
      /\ process[p] \in Process
    BY <1>1 DEF RootInv, Sound, RootTyped
<1>3. process[p].key \in Roots \cup Masters
    BY <1>2 DEF Owned, Process, Environments
<1>4. RootTyped'
    BY <1>1, <1>2, <1>3 DEF RootInv, RootTyped, Process
<1>5. SealedUnderPin'
    BY <1>1, <1>2 DEF RootInv, SealedUnderPin, Owned
<1> QED BY <1>1, <1>4, <1>5 DEF RootInv, Sound, Owned, Together, PinAgrees

LEMMA RootNextInv == RootInv /\ [RootNext]_rootVars => RootInv'
<1> SUFFICES ASSUME RootInv, [RootNext]_rootVars PROVE RootInv'
    OBVIOUS
<1>1. ASSUME NEW p \in Processes, Leave(p)
      PROVE  RootInv'
    BY <1>1, RefusedKeeps DEF Leave
<1>2. CASE RootNext
    BY <1>1, <1>2, BootStep, LookStep, CreateStep, WriteStep, PinStep, SealStep DEF RootNext
<1>3. CASE UNCHANGED rootVars
    BY <1>3 DEF rootVars, RootInv, RootTyped, Sound, Owned, Together, PinAgrees, SealedUnderPin
<1> QED BY <1>2, <1>3

LEMMA InvOneKey == RootInv => OneKeyForever
<1> SUFFICES ASSUME RootInv, NEW s \in sealings, NEW t \in sealings
             PROVE  Resolves(s.env) = s.key /\ t.key = s.key
    BY DEF OneKeyForever
<1>1. pin = s.key /\ pin = t.key /\ Owned(s.env, s.key)
    BY DEF RootInv, SealedUnderPin
<1> QED BY <1>1 DEF Owned, Resolves

\* If the starts that overlap have the same environment, all data of a plugin outside Core is
\* under one key, and the environment that sealed it gets that key again, for any number of
\* processes, kills and values of RYU_MASTER_KEY.
THEOREM OneKeyHolds == SameEnvironment /\ RootSpec => []OneKeyForever
<1>1. SameEnvironment /\ RootInit => RootInv
    BY RootInitInv
<1>2. RootInv /\ [RootNext]_rootVars => RootInv'
    BY RootNextInv
<1>3. RootInv => OneKeyForever
    BY InvOneKey
<1> QED BY <1>1, <1>2, <1>3, PTL DEF RootSpec

----------------------------------------------------------------------------
(* The compaction queue                                                    *)

----------------------------------------------------------------------------
(* The inductive invariant                                                 *)

Thread == [at : {"out", "asleep", "next", "job", "check"}, store : BigStores \cup {NoStore}]

QueueTyped ==
    /\ jobs \in Seq(BigStores)
    /\ worker \in BOOLEAN
    /\ unspawned \in BOOLEAN
    /\ runner \in [Runners -> Thread]

\* A thread has a store only while it compacts it.
IdleHasNone == \A r \in Runners : runner[r].at # "job" => runner[r].store = NoStore

QueueInv == QueueTyped /\ IdleHasNone /\ NoJobStranded

LEMMA WorkerRuns == Worker \in Runners
    BY DEF Runners

----------------------------------------------------------------------------
(* The invariant is inductive                                              *)

LEMMA QueueInitInv == QueueInit => QueueInv
<1> SUFFICES ASSUME QueueInit PROVE QueueInv
    OBVIOUS
<1> USE DEF QueueInit, Out
<1>1. QueueTyped
    <2>1. jobs \in Seq(BigStores)
        OBVIOUS
    <2>2. runner \in [Runners -> Thread]
        BY DEF Thread
    <2> QED BY <2>1, <2>2 DEF QueueTyped
<1>2. IdleHasNone
    BY DEF IdleHasNone
<1>3. NoJobStranded
    BY WorkerRuns DEF NoJobStranded, RunnerAt
<1> QED BY <1>1, <1>2, <1>3 DEF QueueInv

\* A thread that has no store goes from one place to another, both of which the worker
\* passes while its flag is set.
LEMMA QueueMoveKeeps ==
    ASSUME QueueInv, NEW r \in Runners, NEW at \in {"out", "asleep", "next", "check"},
           RunnerTo(r, at), runner[r].at # "job",
           r = Worker => runner[r].at # "out" /\ at # "out",
           UNCHANGED <<jobs, worker, running, unspawned>>
    PROVE  QueueInv'
<1>1. runner' = [runner EXCEPT ![r] = [at |-> at, store |-> NoStore]]
    BY DEF RunnerTo
<1>2. QueueTyped'
    BY <1>1 DEF QueueInv, QueueTyped, Thread
<1>3. IdleHasNone'
    BY <1>1 DEF QueueInv, QueueTyped, IdleHasNone
<1>4. \A t \in Runners : runner'[t].store = runner[t].store
    BY <1>1 DEF QueueInv, QueueTyped, IdleHasNone
<1>5. RunnerAt(Worker, "out")' <=> RunnerAt(Worker, "out")
    BY <1>1, WorkerRuns DEF QueueInv, QueueTyped, RunnerAt
<1>6. NoJobStranded'
    BY <1>4, <1>5 DEF QueueInv, NoJobStranded
<1> QED BY <1>2, <1>3, <1>6 DEF QueueInv

LEMMA DeferStep ==
    ASSUME QueueInv, Defer
    PROVE  QueueInv'
<1>1. jobs' \in Seq(BigStores) /\ running' = running
    <2>1. PICK s \in BigStores : jobs' = Append(jobs, s)
        BY DEF Defer
    <2> QED BY <2>1 DEF Defer, QueueInv, QueueTyped
<1>2. CASE worker
    <2>1. UNCHANGED <<worker, runner, unspawned>>
        BY <1>2 DEF Defer
    <2> QED BY <1>1, <1>2, <2>1 DEF QueueInv, QueueTyped, IdleHasNone, NoJobStranded, RunnerAt
<1>3. CASE ~worker
    <2>1. runner[Worker].at = "out" /\ runner[Worker].store = NoStore
        BY <1>3, WorkerRuns DEF QueueInv, NoJobStranded, RunnerAt, IdleHasNone
    <2>2. CASE worker' = TRUE /\ RunnerTo(Worker, "asleep") /\ unspawned' = FALSE
        <3>1. runner' = [runner EXCEPT ![Worker] = [at |-> "asleep", store |-> NoStore]]
            BY <2>2 DEF RunnerTo
        <3>2. QueueTyped'
            BY <1>1, <2>2, <3>1 DEF QueueInv, QueueTyped, Thread
        <3>3. IdleHasNone' /\ \A t \in Runners : runner'[t].store = runner[t].store
            BY <2>1, <3>1 DEF QueueInv, QueueTyped, IdleHasNone
        <3>4. RunnerAt(Worker, "asleep")'
            BY <3>1, WorkerRuns DEF RunnerAt, QueueInv, QueueTyped
        <3> QED BY <1>1, <2>2, <3>2, <3>3, <3>4 DEF QueueInv, NoJobStranded, RunnerAt
    <2>3. CASE unspawned' = TRUE /\ UNCHANGED <<worker, runner>>
        BY <1>1, <1>3, <2>3 DEF QueueInv, QueueTyped, IdleHasNone, NoJobStranded, RunnerAt
    <2> QED BY <1>3, <2>2, <2>3 DEF Defer, StartWorker
<1> QED BY <1>2, <1>3

\* The worker leaves only an empty queue.
LEMMA LeaveStep ==
    ASSUME QueueInv, LeaveOrSleep
    PROVE  QueueInv'
<1>1. runner[Worker].at = "check" /\ UNCHANGED <<jobs, running, unspawned>>
    BY DEF LeaveOrSleep, RunnerAt
<1>2. CASE jobs = <<>>
    <2>1. worker' = FALSE /\ runner' = [runner EXCEPT ![Worker] = [at |-> "out", store |-> NoStore]]
        BY <1>2 DEF LeaveOrSleep, MayLeave, RunnerTo
    <2>2. QueueTyped'
        BY <1>1, <2>1 DEF QueueInv, QueueTyped, Thread
    <2>3. IdleHasNone' /\ \A t \in Runners : runner'[t].store = runner[t].store
        BY <1>1, <2>1 DEF QueueInv, QueueTyped, IdleHasNone
    <2>4. RunnerAt(Worker, "out")'
        BY <2>1, WorkerRuns DEF RunnerAt, QueueInv, QueueTyped
    <2> QED BY <1>1, <1>2, <2>1, <2>2, <2>3, <2>4 DEF QueueInv, NoJobStranded
<1>3. CASE jobs # <<>>
    <2>1. RunnerTo(Worker, "asleep") /\ UNCHANGED worker
        BY <1>3 DEF LeaveOrSleep, MayLeave
    <2> QED BY <1>1, <2>1, WorkerRuns, QueueMoveKeeps
<1> QED BY <1>2, <1>3

\* The job and the mark of what runs are taken together, and given up together.
LEMMA JobStep ==
    ASSUME QueueInv, NEW r \in Runners, TakeJob(r) \/ EndJob(r)
    PROVE  QueueInv'
<1>1. CASE TakeJob(r)
    <2>1. /\ jobs # <<>> /\ jobs' = Tail(jobs) /\ running' = Head(jobs)
          /\ runner[r].at = "next"
          /\ runner' = [runner EXCEPT ![r] = [at |-> "job", store |-> Head(jobs)]]
          /\ UNCHANGED <<worker, unspawned>>
        BY <1>1 DEF TakeJob, RunnerAt
    <2>2. Head(jobs) \in BigStores /\ jobs' \in Seq(BigStores)
        BY <2>1 DEF QueueInv, QueueTyped
    <2>3. QueueTyped' /\ IdleHasNone'
        BY <2>1, <2>2 DEF QueueInv, QueueTyped, Thread, IdleHasNone
    <2>4. runner'[r].store = running'
        BY <2>1 DEF QueueInv, QueueTyped
    <2>5. RunnerAt(Worker, "out")' <=> RunnerAt(Worker, "out")
        BY <2>1, WorkerRuns DEF QueueInv, QueueTyped, RunnerAt
    <2> QED BY <2>1, <2>3, <2>4, <2>5 DEF QueueInv, NoJobStranded
<1>2. CASE EndJob(r)
    <2>1. /\ running' = NoStore /\ runner[r].at = "job"
          /\ runner' = [runner EXCEPT ![r] = [at |-> "next", store |-> NoStore]]
          /\ UNCHANGED <<jobs, worker, unspawned>>
        BY <1>2 DEF EndJob, RunnerAt, RunnerTo
    <2>2. QueueTyped' /\ IdleHasNone'
        BY <2>1 DEF QueueInv, QueueTyped, Thread, IdleHasNone
    <2>3. RunnerAt(Worker, "out")' <=> RunnerAt(Worker, "out")
        BY <2>1, WorkerRuns DEF QueueInv, QueueTyped, RunnerAt
    <2> QED BY <2>1, <2>2, <2>3 DEF QueueInv, NoJobStranded
<1> QED BY <1>1, <1>2

LEMMA QueueNextInv == QueueInv /\ [QueueNext]_queueVars => QueueInv'
<1> SUFFICES ASSUME QueueInv, [QueueNext]_queueVars PROVE QueueInv'
    OBVIOUS
<1>1. CASE Defer
    BY <1>1, DeferStep
<1>2. CASE Wake
    BY <1>2, WorkerRuns, QueueMoveKeeps DEF Wake, RunnerAt
<1>3. CASE LeaveOrSleep
    BY <1>3, LeaveStep
<1>4. ASSUME NEW r \in Runners, Maintain(r)
      PROVE  QueueInv'
    <2>1. r # Worker
        BY <1>4, QueueAssumption DEF Maintain
    <2> QED BY <1>4, <2>1, QueueMoveKeeps DEF Maintain, RunnerAt
<1>5. ASSUME NEW r \in Runners, NoMoreJobs(r)
      PROVE  QueueInv'
    <2> DEFINE at == IF r = Worker THEN "check" ELSE "out"
    <2>1. at \in {"out", "asleep", "next", "check"} /\ (r = Worker => at # "out")
        OBVIOUS
    <2>2. RunnerTo(r, at) /\ runner[r].at = "next" /\ UNCHANGED <<jobs, worker, running, unspawned>>
        BY <1>5 DEF NoMoreJobs, RunnerAt
    <2> HIDE DEF at
    <2> QED BY <2>1, <2>2, QueueMoveKeeps
<1>6. CASE UNCHANGED queueVars
    BY <1>6 DEF queueVars, QueueInv, QueueTyped, IdleHasNone, NoJobStranded, RunnerAt
<1> QED BY <1>1, <1>2, <1>3, <1>4, <1>5, <1>6, JobStep DEF QueueNext

\* No store waits in the queue with no worker to come for it, unless the system refused the
\* thread, and health names only what is being compacted, for any number of stores and of
\* maintenance actions that empty the queue beside the worker.
THEOREM NoJobLeftBehind == QueueSpec => []NoJobStranded
<1>1. QueueInit => QueueInv
    BY QueueInitInv
<1>2. QueueInv /\ [QueueNext]_queueVars => QueueInv'
    BY QueueNextInv
<1>3. QueueInv => NoJobStranded
    BY DEF QueueInv
<1> QED BY <1>1, <1>2, <1>3, PTL DEF QueueSpec

----------------------------------------------------------------------------
(* The best k                                                              *)

\* Whatever part of the vectors is looked at, some of it scores lowest.
HasLowest == \A set \in SUBSET offered : set # {} => Lowest(set) # {}

TopInv ==
    /\ wanted \in Nat
    /\ IsFiniteSet(offered) /\ offered \subseteq Nat \X Scores
    /\ \A v \in offered : v[1] <= Cardinality(offered)
    /\ HasLowest /\ KeepsTheBest

LEMMA BestIs ==
    ASSUME NEW set, IsFiniteSet(set), NEW n \in Nat, NEW best
    PROVE  best \in Best(set, n) <=>
               /\ best \subseteq set
               /\ Cardinality(best) = IF n < Cardinality(set) THEN n ELSE Cardinality(set)
               /\ \A v \in best, w \in set \ best : v[2] >= w[2]
BY DEF Best, kSubset

LEMMA TopInitInv == TopInit => TopInv
<1> SUFFICES ASSUME TopInit PROVE TopInv
    OBVIOUS
<1>1. wanted \in Nat /\ offered = {} /\ heap = {} /\ Cardinality({}) = 0 /\ IsFiniteSet({})
    BY TopAssumption, FS_EmptySet DEF TopInit
<1>2. KeepsTheBest
    BY <1>1, BestIs DEF KeepsTheBest
<1> QED BY <1>1, <1>2 DEF TopInv, HasLowest

\* One more vector: it is new, and some vector of whatever part holds it scores lowest.
LEMMA OneMore ==
    ASSUME TopInv, NEW score \in Scores, NEW v, v = <<Cardinality(offered) + 1, score>>,
           offered' = offered \cup {v}
    PROVE  /\ v \notin offered /\ v[2] = score /\ Cardinality(offered) \in Nat
           /\ IsFiniteSet(offered') /\ offered' \subseteq Nat \X Scores
           /\ Cardinality(offered') = Cardinality(offered) + 1
           /\ \A w \in offered' : w[1] <= Cardinality(offered')
           /\ HasLowest'
<1>1. Cardinality(offered) \in Nat /\ IsFiniteSet(offered)
    BY FS_CardinalityType DEF TopInv
<1>2. v \notin offered
    BY <1>1 DEF TopInv
<1>3. IsFiniteSet(offered') /\ Cardinality(offered') = Cardinality(offered) + 1
    BY <1>1, <1>2, FS_AddElement
<1>4. offered' \subseteq Nat \X Scores
    BY <1>1 DEF TopInv
<1>5. \A w \in offered' : w[1] <= Cardinality(offered')
    BY <1>1, <1>3, <1>4 DEF TopInv
<1>6. ASSUME NEW set \in SUBSET offered', set # {} PROVE Lowest(set) # {}
    <2>1. \A w \in set : w[2] \in Nat
        BY <1>4, TopAssumption
    <2>2. CASE set \ {v} = {}
        <3>1. v \in Lowest(set)
            BY <1>6, <2>1, <2>2 DEF Lowest
        <3> QED BY <3>1
    <2>3. CASE set \ {v} # {}
        <3>1. PICK low \in set \ {v} : \A w \in set \ {v} : low[2] <= w[2]
            BY <1>6, <2>3 DEF TopInv, HasLowest, Lowest
        <3>2. low \in Lowest(set) \/ (v \in set /\ v[2] < low[2])
            BY <2>1, <3>1 DEF Lowest
        <3>3. v \in set /\ v[2] < low[2] => v \in Lowest(set)
            BY <2>1, <3>1 DEF Lowest
        <3> QED BY <3>2, <3>3
    <2> QED BY <2>2, <2>3
<1> QED BY <1>1, <1>2, <1>3, <1>4, <1>5, <1>6 DEF HasLowest

LEMMA TopStep ==
    ASSUME TopInv, Offer
    PROVE  TopInv'
<1>1. PICK score \in Scores : LET v == <<Cardinality(offered) + 1, score>>
                              IN /\ offered' = offered \cup {v}
                                 /\ IF AcceptsScore(score) THEN Push(v) ELSE UNCHANGED heap
    BY DEF Offer
<1> DEFINE v == <<Cardinality(offered) + 1, score>>
           n == Cardinality(offered)
<1>2. /\ v \notin offered /\ v[2] = score /\ n \in Nat
      /\ IsFiniteSet(offered') /\ offered' \subseteq Nat \X Scores
      /\ Cardinality(offered') = n + 1
      /\ \A w \in offered' : w[1] <= Cardinality(offered')
      /\ HasLowest'
    BY <1>1, OneMore
<1>3. offered' = offered \cup {v} /\ (IF AcceptsScore(score) THEN Push(v) ELSE heap' = heap)
    BY <1>1
<1>4. /\ wanted \in Nat /\ wanted' = wanted /\ heap \subseteq offered
      /\ Cardinality(heap) = IF wanted < n THEN wanted ELSE n
      /\ \A a \in heap, b \in offered \ heap : a[2] >= b[2]
      /\ IsFiniteSet(heap) /\ IsFiniteSet(offered)
    <2>1. wanted \in Nat /\ wanted' = wanted /\ IsFiniteSet(offered)
        BY DEF TopInv, Offer
    <2>2. heap \in Best(offered, wanted)
        BY DEF TopInv, KeepsTheBest
    <2>3. /\ heap \subseteq offered
          /\ Cardinality(heap) = IF wanted < n THEN wanted ELSE n
          /\ \A a \in heap, b \in offered \ heap : a[2] >= b[2]
        BY <2>1, <2>2, BestIs
    <2> QED BY <2>1, <2>3, FS_Subset
<1>5. \A w \in offered' : w[2] \in Nat
    BY <1>2, TopAssumption
<1>6. v \in offered'
    BY <1>3
<1> HIDE DEF v, n
<1>7. /\ heap' \subseteq offered'
      /\ Cardinality(heap') = IF wanted < n + 1 THEN wanted ELSE n + 1
      /\ \A a \in heap', b \in offered' \ heap' : a[2] >= b[2]
    <2>1. CASE Cardinality(heap) # wanted
        <3>1. heap = offered /\ n < wanted
            <4>1. Cardinality(heap) = n /\ n < wanted
                BY <1>2, <1>4, <2>1
            <4> QED BY <1>4, <4>1, FS_Subset DEF n
        <3>2. heap' = offered'
            BY <1>2, <1>3, <1>4, <2>1, <3>1 DEF AcceptsScore, Push
        <3> QED BY <1>2, <1>4, <3>1, <3>2
    <2>2. CASE Cardinality(heap) = wanted /\ AcceptsScore(score)
        <3>1. PICK out \in Lowest(heap) : heap' = (heap \ {out}) \cup {v}
            BY <1>3, <2>2 DEF Push
        <3>2. PICK low \in Lowest(heap) : score > low[2]
            BY <1>4, <2>2 DEF AcceptsScore
        <3>3. out \in heap /\ out[2] < score /\ \A a \in heap : out[2] <= a[2]
            BY <1>3, <1>4, <1>5, <3>1, <3>2 DEF Lowest
        <3>4. Cardinality(heap') = wanted
            <4>1. IsFiniteSet(heap \ {out}) /\ Cardinality(heap \ {out}) = wanted - 1
                BY <1>4, <2>2, <3>3, FS_RemoveElement
            <4>2. v \notin heap \ {out}
                BY <1>2, <1>4
            <4>3. Cardinality((heap \ {out}) \cup {v}) = (wanted - 1) + 1
                BY <4>1, <4>2, FS_AddElement
            <4> QED BY <1>4, <3>1, <4>3
        <3>5. ASSUME NEW a \in heap', NEW b \in offered' \ heap' PROVE a[2] >= b[2]
            <4>1. b = out \/ b \in offered \ heap
                BY <1>3, <3>1, <3>5
            <4>2. out[2] >= b[2]
                BY <1>3, <1>4, <1>5, <3>3, <4>1
            <4>3. a[2] >= out[2]
                <5>1. out[2] \in Nat /\ a[2] \in Nat /\ score \in Nat
                    BY <1>3, <1>4, <1>5, <3>1, <3>3, TopAssumption
                <5>2. a = v \/ a \in heap
                    BY <3>1
                <5> QED BY <1>2, <3>3, <5>1, <5>2
            <4> QED BY <1>3, <1>4, <1>5, <3>1, <3>3, <4>2, <4>3
        <3> QED BY <1>2, <1>3, <1>4, <2>2, <3>1, <3>4, <3>5
    <2>3. CASE Cardinality(heap) = wanted /\ ~AcceptsScore(score)
        <3>1. heap' = heap
            BY <1>3, <2>3
        <3>2. \A a \in heap : a[2] >= score
            <4>1. CASE heap = {}
                BY <4>1
            <4>2. CASE heap # {}
                <5>1. wanted > 0
                    BY <1>4, <2>3, <4>2, FS_EmptySet
                <5>2. PICK low \in Lowest(heap) : TRUE
                    BY <1>4, <4>2 DEF TopInv, HasLowest
                <5>3. ~(score > low[2]) /\ low \in heap /\ \A a \in heap : low[2] <= a[2]
                    BY <2>3, <5>1, <5>2 DEF AcceptsScore, Lowest
                <5> QED BY <1>2, <1>3, <1>4, <1>5, <1>6, <5>3
            <4> QED BY <4>1, <4>2
        <3>3. wanted < n + 1
            BY <1>2, <1>4, <2>3
        <3> QED BY <1>2, <1>3, <1>4, <2>3, <3>1, <3>2, <3>3
    <2> QED BY <2>1, <2>2, <2>3
<1>8. KeepsTheBest'
    BY <1>2, <1>4, <1>7, BestIs DEF KeepsTheBest
<1> QED BY <1>2, <1>4, <1>8 DEF TopInv

\* However many vectors are offered, with whatever scores, the collector of the sealed store
\* keeps what top_k returns for them (TopK::push, TopK::accepts, top_k of vector_index.rs).
THEOREM CollectorKeepsTheBest == TopSpec => []KeepsTheBest
<1>1. TopInv /\ [TopNext]_topVars => TopInv'
    <2>1. TopInv /\ UNCHANGED topVars => TopInv'
        BY DEF topVars, TopInv, HasLowest, KeepsTheBest
    <2> QED BY <2>1, TopStep DEF TopNext
<1>2. TopInv => KeepsTheBest
    BY DEF TopInv
<1> QED BY TopInitInv, <1>1, <1>2, PTL DEF TopSpec

----------------------------------------------------------------------------
(* A partition                                                             *)

Vector == [id : Ids, size : Sizes]
SizesOf(vectors) == [i \in DOMAIN vectors |-> vectors[i].size]
Distinct(vectors) == \A i, j \in DOMAIN vectors : vectors[i].id = vectors[j].id => i = j

\* Its vectors are of distinct ids, and its bytes are theirs.
PartitionSound(p) ==
    /\ p = [vectors |-> p.vectors, bytes |-> p.bytes]
    /\ p.vectors \in Seq(Vector) /\ Distinct(p.vectors)
    /\ p.bytes = SumFunctionOnSet(SizesOf(p.vectors), DOMAIN p.vectors)

LEMMA SizesAre ==
    ASSUME NEW vectors \in Seq(Vector)
    PROVE  /\ DOMAIN vectors = 1..Len(vectors) /\ Len(vectors) \in Nat
           /\ IsFiniteSet(DOMAIN vectors)
           /\ Ints(SizesOf(vectors), DOMAIN vectors)
           /\ \A i \in DOMAIN vectors : /\ vectors[i] \in Vector /\ SizesOf(vectors)[i] = vectors[i].size
                                        /\ vectors[i].size \in Nat
<1>1. DOMAIN vectors = 1..Len(vectors) /\ Len(vectors) \in Nat
    OBVIOUS
<1>2. \A i \in DOMAIN vectors : vectors[i] \in Vector
    OBVIOUS
<1>3. IsFiniteSet(DOMAIN vectors)
    BY <1>1, FS_Interval
<1>4. \A i \in DOMAIN vectors : vectors[i].size \in Nat
    BY <1>2, VecAssumption DEF Vector
<1>5. \A i \in DOMAIN vectors : SizesOf(vectors)[i] = vectors[i].size
    BY DEF SizesOf
<1>6. Ints(SizesOf(vectors), DOMAIN vectors)
    BY <1>4, <1>5 DEF Ints
<1> QED BY <1>1, <1>2, <1>3, <1>4, <1>5, <1>6

LEMMA BytesAreANumber ==
    ASSUME NEW p, PartitionSound(p)
    PROVE  p.bytes \in Nat
<1>1. \A i \in DOMAIN p.vectors : SizesOf(p.vectors)[i] \in Nat
    BY SizesAre DEF PartitionSound
<1>2. IsFiniteSet(DOMAIN p.vectors)
    BY SizesAre DEF PartitionSound
<1>3. SumFunctionOnSet(SizesOf(p.vectors), DOMAIN p.vectors) \in Nat
    BY <1>1, <1>2, TotalIsNat
<1> QED BY <1>3 DEF PartitionSound

\* As many vectors as ids.
LEMMA IdsAreCounted ==
    ASSUME NEW p, PartitionSound(p)
    PROVE  /\ IsFiniteSet(IdsOf(p)) /\ IdsOf(p) \subseteq Ids
           /\ Cardinality(IdsOf(p)) = Len(p.vectors)
<1> DEFINE n == Len(p.vectors)
           f == [i \in 1..n |-> p.vectors[i].id]
<1>1. DOMAIN p.vectors = 1..n /\ n \in Nat /\ IsFiniteSet(1..n)
    BY SizesAre DEF PartitionSound
<1>2. \A i \in 1..n : p.vectors[i] \in Vector
    BY <1>1, SizesAre DEF PartitionSound
<1>3. f \in Bijection(1..n, IdsOf(p))
    <2>1. f \in [1..n -> IdsOf(p)]
        BY <1>1 DEF IdsOf
    <2>2. \A i, j \in 1..n : f[i] = f[j] => i = j
        BY <1>1 DEF PartitionSound, Distinct
    <2>3. \A id \in IdsOf(p) : \E i \in 1..n : f[i] = id
        BY <1>1 DEF IdsOf
    <2>4. DOMAIN f = 1..n
        OBVIOUS
    <2> HIDE DEF f
    <2> QED BY <2>1, <2>2, <2>3, <2>4 DEF Bijection, Injection, Surjection, IsInjective
<1>4. ExistsBijection(1..n, IdsOf(p))
    BY <1>3 DEF ExistsBijection
<1>5. IsFiniteSet(IdsOf(p)) /\ Cardinality(IdsOf(p)) = Cardinality(1..n)
    BY <1>1, <1>4, FS_Bijection
<1>6. Cardinality(1..n) = n
    BY <1>1, FS_Interval
<1>7. IdsOf(p) \subseteq Ids
    BY <1>1, <1>2 DEF IdsOf, Vector
<1> QED BY <1>5, <1>6, <1>7

LEMMA EmptyIsSound == PartitionSound(Empty) /\ IdsOf(Empty) = {}
<1>1. <<>> \in Seq(Vector) /\ DOMAIN <<>> = {}
    OBVIOUS
<1>2. SumFunctionOnSet(SizesOf(<<>>), {}) = 0
    BY TotalOfNone
<1> QED BY <1>1, <1>2 DEF PartitionSound, Empty, Distinct, IdsOf

LEMMA PlaceIs ==
    ASSUME NEW p, PartitionSound(p), NEW id \in IdsOf(p)
    PROVE  PlaceOf(p, id) \in DOMAIN p.vectors /\ p.vectors[PlaceOf(p, id)].id = id
<1>1. \E i \in DOMAIN p.vectors : p.vectors[i].id = id
    BY DEF IdsOf
<1> QED BY <1>1 DEF PlaceOf

LEMMA UpsertIsSound ==
    ASSUME NEW p, PartitionSound(p), NEW id \in Ids, NEW size \in Sizes
    PROVE  /\ PartitionSound(Upserted(p, id, size))
           /\ IdsOf(Upserted(p, id, size)) = IdsOf(p) \cup {id}
<1> DEFINE v == p.vectors
           D == DOMAIN v
           q == Upserted(p, id, size)
           w == q.vectors
<1>1. /\ v \in Seq(Vector) /\ D = 1..Len(v) /\ Len(v) \in Nat /\ IsFiniteSet(D)
      /\ Ints(SizesOf(v), D) /\ size \in Nat
      /\ \A i \in D : v[i] \in Vector /\ SizesOf(v)[i] = v[i].size /\ v[i].size \in Nat
    BY SizesAre, VecAssumption DEF PartitionSound
<1>2. p.bytes = SumFunctionOnSet(SizesOf(v), D) /\ p.bytes \in Nat
    BY BytesAreANumber DEF PartitionSound
<1>3. CASE id \in IdsOf(p)
    <2> DEFINE k == PlaceOf(p, id)
    <2>1. k \in D /\ v[k].id = id
        BY <1>3, PlaceIs
    <2>2. q = [vectors |-> [v EXCEPT ![k].size = size], bytes |-> p.bytes + size - v[k].size]
        BY <1>3 DEF Upserted, Added
    <2> HIDE DEF k, q
    <2>3. w = [v EXCEPT ![k].size = size] /\ q.bytes = p.bytes + size - v[k].size
        BY <2>2
    <2>4. /\ w \in Seq(Vector) /\ DOMAIN w = D
          /\ \A i \in D : w[i].id = v[i].id /\ w[i].size = IF i = k THEN size ELSE v[i].size
        <3> DEFINE new == [v[k] EXCEPT !.size = size]
        <3>1. v[k] \in Vector /\ k \in 1..Len(v)
            BY <1>1, <2>1
        <3>2. new \in Vector /\ new.id = v[k].id /\ new.size = size
            BY <3>1 DEF Vector
        <3>3. w = [v EXCEPT ![k] = new]
            BY <2>3
        <3> HIDE DEF new, v, w
        <3>4. w \in Seq(Vector) /\ DOMAIN w = D
            BY <1>1, <3>1, <3>2, <3>3
        <3>5. \A i \in D : w[i] = IF i = k THEN new ELSE v[i]
            BY <1>1, <3>3
        <3> QED BY <3>2, <3>4, <3>5
    <2>5. Distinct(w)
        BY <2>4 DEF PartitionSound, Distinct
    <2>6. Ints(SizesOf(w), D)
        BY <2>4, SizesAre
    <2>7. SumFunctionOnSet(SizesOf(v), D) = SumFunctionOnSet(SizesOf(v), D \ {k}) + SizesOf(v)[k]
        BY <1>1, <2>1, TotalTakes
    <2>8. SumFunctionOnSet(SizesOf(w), D) = SumFunctionOnSet(SizesOf(w), D \ {k}) + SizesOf(w)[k]
        BY <1>1, <2>1, <2>6, TotalTakes
    <2>9. SumFunctionOnSet(SizesOf(v), D \ {k}) = SumFunctionOnSet(SizesOf(w), D \ {k})
        <3>1. \A i \in D \ {k} : SizesOf(v)[i] = SizesOf(w)[i]
            BY <1>1, <2>4 DEF SizesOf
        <3>2. Ints(SizesOf(v), D \ {k}) /\ IsFiniteSet(D \ {k})
            BY <1>1, FS_RemoveElement DEF Ints
        <3> QED BY <3>1, <3>2, TotalSame
    <2>10. SumFunctionOnSet(SizesOf(v), D \ {k}) \in Int
        <3>1. Ints(SizesOf(v), D \ {k}) /\ IsFiniteSet(D \ {k})
            BY <1>1, FS_RemoveElement DEF Ints
        <3> QED BY <3>1, TotalIsInt
    <2>11. q.bytes = SumFunctionOnSet(SizesOf(w), D)
        <3>1. SizesOf(v)[k] = v[k].size /\ SizesOf(w)[k] = size /\ v[k].size \in Nat
            BY <1>1, <2>1, <2>4 DEF SizesOf
        <3> QED BY <1>1, <1>2, <2>3, <2>7, <2>8, <2>9, <2>10, <3>1
    <2>12. PartitionSound(q)
        BY <2>2, <2>3, <2>4, <2>5, <2>11 DEF PartitionSound
    <2>13. IdsOf(q) = IdsOf(p)
        BY <2>4 DEF IdsOf
    <2> QED BY <1>3, <2>12, <2>13 DEF q
<1>4. CASE id \notin IdsOf(p)
    <2> DEFINE new == [id |-> id, size |-> size]
               n == Len(v) + 1
    <2>1. q = [vectors |-> Append(v, new), bytes |-> p.bytes + size]
        BY <1>4 DEF Upserted, Added
    <2> HIDE DEF q
    <2>2. w = Append(v, new) /\ q.bytes = p.bytes + size /\ new \in Vector
        BY <2>1 DEF Vector
    <2>3. /\ w \in Seq(Vector) /\ DOMAIN w = D \cup {n} /\ n \notin D /\ w[n] = new
          /\ \A i \in D : w[i] = v[i]
        BY <1>1, <2>2
    <2>4. \A i \in D : v[i].id # id
        BY <1>4 DEF IdsOf
    <2>5. Distinct(w)
        BY <2>3, <2>4 DEF PartitionSound, Distinct
    <2>6. Ints(SizesOf(w), D \cup {n})
        BY <2>3, SizesAre
    <2>7. SumFunctionOnSet(SizesOf(w), D \cup {n}) = SumFunctionOnSet(SizesOf(w), D) + SizesOf(w)[n]
        <3>1. IsFiniteSet(D) /\ n \notin D
            BY <1>1
        <3> HIDE DEF D, n
        <3> QED BY <3>1, <2>6, TotalAdds
    <2>8. SumFunctionOnSet(SizesOf(v), D) = SumFunctionOnSet(SizesOf(w), D)
        <3>1. \A i \in D : SizesOf(v)[i] = SizesOf(w)[i]
            BY <1>1, <2>3 DEF SizesOf
        <3> QED BY <1>1, <3>1, TotalSame
    <2>9. SizesOf(w)[n] = size
        BY <2>3 DEF SizesOf
    <2>10. q.bytes = SumFunctionOnSet(SizesOf(w), DOMAIN w)
        BY <1>2, <2>2, <2>3, <2>7, <2>8, <2>9
    <2>11. PartitionSound(q)
        BY <2>1, <2>2, <2>3, <2>5, <2>10 DEF PartitionSound
    <2>12. IdsOf(q) = IdsOf(p) \cup {id}
        BY <2>3 DEF IdsOf
    <2> QED BY <2>11, <2>12 DEF q
<1> QED BY <1>3, <1>4

LEMMA RemovedIsSound ==
    ASSUME NEW p, PartitionSound(p), NEW id
    PROVE  /\ PartitionSound(Removed(p, id)) /\ Removed(p, id).bytes <= p.bytes
           /\ IdsOf(Removed(p, id)) = IdsOf(p) \ {id}
           /\ id \in IdsOf(p) => Len(Removed(p, id).vectors) = Len(p.vectors) - 1
<1> DEFINE v == p.vectors
           D == DOMAIN v
           n == Len(v)
           q == Removed(p, id)
           w == q.vectors
<1>1. /\ v \in Seq(Vector) /\ D = 1..n /\ n \in Nat /\ IsFiniteSet(D)
      /\ Ints(SizesOf(v), D)
      /\ \A i \in D : v[i] \in Vector /\ SizesOf(v)[i] = v[i].size /\ v[i].size \in Nat
    BY SizesAre DEF PartitionSound
<1>2. p.bytes = SumFunctionOnSet(SizesOf(v), D) /\ p.bytes \in Nat
    BY BytesAreANumber DEF PartitionSound
<1>3. CASE id \notin IdsOf(p)
    <2>1. q = p
        BY <1>3 DEF Removed
    <2> QED BY <1>2, <1>3, <2>1
<1>4. CASE id \in IdsOf(p)
    <2> DEFINE k == PlaceOf(p, id)
               moved == [v EXCEPT ![k] = v[n]]
    <2>1. k \in D /\ v[k].id = id
        BY <1>4, PlaceIs
    <2>2. q = [vectors |-> SubSeq(moved, 1, Len(moved) - 1), bytes |-> p.bytes - v[k].size]
        BY <1>4 DEF Removed, Front, Last
    <2>3. moved \in Seq(Vector) /\ Len(moved) = n /\ \A i \in D : moved[i] = IF i = k THEN v[n] ELSE v[i]
        BY <1>1, <2>1
    <2> HIDE DEF k, q, moved
    <2>4. w = SubSeq(moved, 1, n - 1) /\ q.bytes = p.bytes - v[k].size
        BY <2>2, <2>3
    <2>5. n \in D /\ n - 1 \in Nat /\ D \ {n} = 1..(n - 1)
        BY <1>1, <2>1
    <2>6. /\ w \in Seq(Vector) /\ Len(w) = n - 1 /\ DOMAIN w = D \ {n}
          /\ \A i \in D \ {n} : w[i] = IF i = k THEN v[n] ELSE v[i]
        BY <1>1, <2>3, <2>4, <2>5
    <2>7. Distinct(w)
        BY <2>1, <2>5, <2>6 DEF PartitionSound, Distinct
    <2>8. IdsOf(q) = IdsOf(p) \ {id}
        <3>1. \A i \in DOMAIN w : w[i].id \in IdsOf(p) /\ w[i].id # id
            <4>1. \A i, j \in D : v[i].id = v[j].id => i = j
                BY DEF PartitionSound, Distinct
            <4> QED BY <2>1, <2>5, <2>6, <4>1 DEF IdsOf
        <3>2. ASSUME NEW i \in D, v[i].id # id PROVE \E j \in DOMAIN w : w[j].id = v[i].id
            <4>1. i # k
                BY <2>1, <3>2
            <4>2. CASE i = n
                BY <2>1, <2>6, <4>1, <4>2
            <4>3. CASE i # n
                BY <2>6, <4>1, <4>3
            <4> QED BY <4>2, <4>3
        <3> QED BY <3>1, <3>2 DEF IdsOf
    <2>9. SumFunctionOnSet(SizesOf(v), D) = SumFunctionOnSet(SizesOf(v), D \ {k}) + SizesOf(v)[k]
        BY <1>1, <2>1, TotalTakes
    <2>10. IsFiniteSet(D \ {k}) /\ Ints(SizesOf(v), D \ {k}) /\ IsFiniteSet(D \ {n})
        BY <1>1, FS_RemoveElement DEF Ints
    <2>11. Ints(SizesOf(w), D \ {n})
        BY <2>6, SizesAre
    <2>12. SumFunctionOnSet(SizesOf(w), D \ {n}) = SumFunctionOnSet(SizesOf(v), D \ {k})
        <3>1. CASE k = n
            <4>1. \A i \in D \ {n} : SizesOf(w)[i] = SizesOf(v)[i]
                BY <1>1, <2>6, <3>1 DEF SizesOf
            <4>2. SumFunctionOnSet(SizesOf(w), D \ {n}) = SumFunctionOnSet(SizesOf(v), D \ {n})
                BY <2>10, <2>11, <4>1, TotalSame
            <4> QED BY <3>1, <4>2
        <3>2. CASE k # n
            <4> DEFINE rest == (D \ {n}) \ {k}
            <4>1. k \in D \ {n} /\ n \in D \ {k} /\ (D \ {k}) \ {n} = rest
                BY <2>1, <2>5, <3>2
            <4>2. SumFunctionOnSet(SizesOf(w), D \ {n}) = SumFunctionOnSet(SizesOf(w), rest) + SizesOf(w)[k]
                BY <2>10, <2>11, <4>1, TotalTakes
            <4>3. SumFunctionOnSet(SizesOf(v), D \ {k}) = SumFunctionOnSet(SizesOf(v), (D \ {k}) \ {n}) + SizesOf(v)[n]
                BY <2>10, <4>1, TotalTakes
            <4>4. SizesOf(w)[k] = SizesOf(v)[n]
                BY <1>1, <2>5, <2>6, <4>1 DEF SizesOf
            <4>5. \A i \in rest : SizesOf(w)[i] = SizesOf(v)[i]
                BY <1>1, <2>6 DEF SizesOf
            <4>6. IsFiniteSet(rest) /\ Ints(SizesOf(w), rest)
                BY <2>10, <2>11, FS_RemoveElement DEF Ints
            <4>7. SumFunctionOnSet(SizesOf(w), rest) = SumFunctionOnSet(SizesOf(v), rest)
                BY <4>5, <4>6, TotalSame
            <4>8. SumFunctionOnSet(SizesOf(v), (D \ {k}) \ {n}) = SumFunctionOnSet(SizesOf(v), rest)
                BY <4>1
            <4> QED BY <4>2, <4>3, <4>4, <4>7, <4>8
        <3> QED BY <3>1, <3>2
    <2>13. SumFunctionOnSet(SizesOf(v), D \ {k}) \in Int
        BY <2>10, TotalIsInt
    <2>14. v[k].size \in Nat /\ SizesOf(v)[k] = v[k].size
        BY <1>1, <2>1
    <2>15. q.bytes = SumFunctionOnSet(SizesOf(w), D \ {n}) /\ q.bytes <= p.bytes
        BY <1>2, <2>4, <2>9, <2>12, <2>13, <2>14
    <2>16. PartitionSound(q)
        BY <2>2, <2>4, <2>6, <2>7, <2>15 DEF PartitionSound
    <2> QED BY <2>6, <2>8, <2>15, <2>16 DEF q
<1> QED BY <1>3, <1>4

\* Building: the vectors named are upserted one by one into an empty partition.
BuiltFrom(sizes, ids) == FoldLeft(LAMBDA p, id : Upserted(p, id, sizes[id]), Empty, ids)

LEMMA BuiltIsSound ==
    ASSUME NEW S, S \subseteq Ids, IsFiniteSet(S), NEW sizes, \A id \in S : sizes[id] \in Sizes
    PROVE  PartitionSound(BuiltFrom(sizes, SetToSeq(S))) /\ IdsOf(BuiltFrom(sizes, SetToSeq(S))) \subseteq S
<1> DEFINE seq == SetToSeq(S)
           n == Cardinality(S)
           A == {p \in [vectors : Seq(Vector), bytes : Nat] : PartitionSound(p) /\ IdsOf(p) \subseteq S}
           step == [x \in (1..n) \X A |-> Upserted(x[2], seq[x[1]], sizes[seq[x[1]]])]
           Builds(g) == g = [s \in SUBSET (1..n) |->
                                IF s = {} THEN Empty
                                ELSE Upserted(g[s \ {Max(s)}], seq[Max(s)], sizes[seq[Max(s)]])]
<1>1. n \in Nat
    BY FS_CardinalityType
<1>2. seq \in [1..n -> S]
    <2>1. ExistsBijection(1..n, S)
        <3>1. PICK m \in Nat : ExistsBijection(1..m, S)
            BY FS_NatBijection
        <3>2. m = n
            BY <3>1, FS_CountingElements
        <3> QED BY <3>1, <3>2
    <2>2. \E f \in [1..n -> S] : IsInjective(f)
        BY <2>1 DEF ExistsBijection, Bijection, Injection
    <2> QED BY <2>2 DEF SetToSeq
<1>3. \A p : p \in A <=> PartitionSound(p) /\ IdsOf(p) \subseteq S
    <2>1. ASSUME NEW p, PartitionSound(p) PROVE p \in [vectors : Seq(Vector), bytes : Nat]
        <3>1. p.bytes \in Nat
            BY <2>1, BytesAreANumber
        <3>2. p = [vectors |-> p.vectors, bytes |-> p.bytes] /\ p.vectors \in Seq(Vector)
            BY <2>1 DEF PartitionSound
        <3> QED BY <3>1, <3>2
    <2> QED BY <2>1
<1>4. Empty \in A
    BY <1>3, EmptyIsSound
<1>5. ASSUME NEW i \in 1..n, NEW p \in A PROVE Upserted(p, seq[i], sizes[seq[i]]) \in A
    <2>1. seq[i] \in S /\ seq[i] \in Ids /\ sizes[seq[i]] \in Sizes /\ PartitionSound(p) /\ IdsOf(p) \subseteq S
        BY <1>2, <1>3
    <2>2. /\ PartitionSound(Upserted(p, seq[i], sizes[seq[i]]))
          /\ IdsOf(Upserted(p, seq[i], sizes[seq[i]])) = IdsOf(p) \cup {seq[i]}
        BY <2>1, UpsertIsSound
    <2> HIDE DEF A, seq
    <2> QED BY <1>3, <2>1, <2>2
<1> HIDE DEF A, n, seq
<1>6. step \in [(1..n) \X A -> A]
    BY <1>5
<1>7. \A i \in 1..n, p \in A : step[<<i, p>>] = Upserted(p, seq[i], sizes[seq[i]])
    OBVIOUS
<1> HIDE DEF step
<1>81. PICK h \in [SUBSET (1..n) -> A] : UnfoldsLeft(h, n, Empty, step)
    BY <1>1, <1>4, <1>6, LeftFoldExists
<1>8. \A s \in SUBSET (1..n) : h[s] = IF s = {} THEN Empty ELSE step[<<Max(s), h[s \ {Max(s)}]>>]
    BY <1>81 DEF UnfoldsLeft
<1>9. Builds(h)
    <2>1. ASSUME NEW s \in SUBSET (1..n), s # {}
          PROVE  step[<<Max(s), h[s \ {Max(s)}]>>] = Upserted(h[s \ {Max(s)}], seq[Max(s)], sizes[seq[Max(s)]])
        <3>1. n \in Nat /\ s \subseteq 1..n /\ s \subseteq 0..n
            BY <1>1, <2>1
        <3>2. Max(s) \in s
            BY <2>1, <3>1, GreatestNumber
        <3>3. Max(s) \in 1..n /\ s \ {Max(s)} \in SUBSET (1..n)
            BY <3>1, <3>2
        <3>4. h[s \ {Max(s)}] \in A
            BY <1>81, <3>3
        <3> QED BY <1>7, <3>3, <3>4
    <2> QED BY <1>8, <2>1
<1> DEFINE g == CHOOSE g : Builds(g)
<1>10. Builds(g)
    <2> HIDE DEF Builds
    <2> QED BY <1>9
<1>11. BuiltFrom(sizes, seq) = g[1..n]
    <2>1. DOMAIN seq = 1..n
        BY <1>2
    <2> QED BY <2>1, Zenon DEF BuiltFrom, FoldLeft, MapThenFoldSet
<1> HIDE DEF g
<1>12. \A s \in SUBSET (1..n) : g[s] = IF s = {} THEN Empty
                                     ELSE Upserted(g[s \ {Max(s)}], seq[Max(s)], sizes[seq[Max(s)]])
    BY <1>10 DEF Builds
<1> HIDE DEF Builds
<1> DEFINE T == {i \in Nat : i <= n => g[1..i] \in A}
<1>13. 0 \in T
    BY <1>1, <1>4, <1>12, Initially
<1>14. ASSUME NEW i \in Nat, i \in T PROVE i + 1 \in T
    <2>1. SUFFICES ASSUME i + 1 <= n PROVE g[1..(i + 1)] \in A
        OBVIOUS
    <2>2. i + 1 \in Nat \ {0} /\ (i + 1) - 1 = i /\ i + 1 \in 1..n /\ 1..(i + 1) \in SUBSET (1..n)
        BY <1>1, <2>1
    <2>3. /\ Max(1..(i + 1)) = i + 1 /\ 1..(i + 1) # {}
          /\ (1..(i + 1)) \ {Max(1..(i + 1))} = 1..i
        BY <2>2, Initially
    <2>4. g[1..(i + 1)] = Upserted(g[1..i], seq[i + 1], sizes[seq[i + 1]])
        BY <1>12, <2>2, <2>3
    <2>5. g[1..i] \in A
        BY <1>1, <1>14, <2>1
    <2> QED BY <1>5, <2>2, <2>4, <2>5
<1>15. n \in T
    <2> HIDE DEF T
    <2> QED BY <1>1, <1>13, <1>14, CountingUp
<1> QED BY <1>1, <1>3, <1>11, <1>15 DEF seq

----------------------------------------------------------------------------
(* The budget                                                              *)

Partitions(ps) == DOMAIN ps \subseteq Keys /\ \A k \in DOMAIN ps : PartitionSound(ps[k])

LEMMA BytesAddUp ==
    ASSUME NEW ps, Partitions(ps), NEW keys, keys \subseteq DOMAIN ps
    PROVE  /\ IsFiniteSet(DOMAIN ps) /\ BytesOf(ps, keys) \in Nat
           /\ Ints([k \in DOMAIN ps |-> ps[k].bytes], DOMAIN ps)
           /\ BytesOf(ps, keys) = SumFunctionOnSet([k \in DOMAIN ps |-> ps[k].bytes], keys)
<1> DEFINE all == [k \in DOMAIN ps |-> ps[k].bytes]
           some == [k \in keys |-> ps[k].bytes]
<1>1. IsFiniteSet(DOMAIN ps) /\ IsFiniteSet(keys)
    <2>1. IsFiniteSet(DOMAIN ps)
        BY VecAssumption, FS_Subset DEF Partitions
    <2> QED BY <2>1, FS_Subset
<1>2. \A k \in DOMAIN ps : ps[k].bytes \in Nat
    BY BytesAreANumber DEF Partitions
<1>3. /\ \A k \in DOMAIN ps : all[k] \in Nat
      /\ \A k \in keys : some[k] \in Nat /\ some[k] = all[k]
      /\ DOMAIN some = keys
    BY <1>2
<1>4. BytesOf(ps, keys) = SumFunction(some)
    BY DEF BytesOf
<1> HIDE DEF all, some
<1>5. BytesOf(ps, keys) = SumFunctionOnSet(some, keys)
    BY <1>3, <1>4, SumIsTotal
<1>6. Ints(some, keys) /\ Ints(all, DOMAIN ps)
    BY <1>3 DEF Ints
<1>7. SumFunctionOnSet(some, keys) = SumFunctionOnSet(all, keys)
    BY <1>1, <1>3, <1>6, TotalSame
<1>8. SumFunctionOnSet(some, keys) \in Nat
    BY <1>1, <1>3, TotalIsNat
<1> QED BY <1>1, <1>5, <1>6, <1>7, <1>8 DEF all

LEMMA BytesCut ==
    ASSUME NEW ps, Partitions(ps), NEW gone, gone \subseteq DOMAIN ps
    PROVE  /\ BytesOf(ps, DOMAIN ps) = BytesOf(ps, gone) + BytesOf(ps, DOMAIN ps \ gone)
           /\ BytesOf(ps, DOMAIN ps) \in Nat /\ BytesOf(ps, gone) \in Nat
           /\ BytesOf(ps, DOMAIN ps \ gone) \in Nat
<1> DEFINE all == [k \in DOMAIN ps |-> ps[k].bytes]
           D == DOMAIN ps
           left == D \ gone
<1>1. /\ IsFiniteSet(D) /\ Ints(all, D)
      /\ BytesOf(ps, D) \in Nat /\ BytesOf(ps, D) = SumFunctionOnSet(all, D)
    BY BytesAddUp
<1>2. BytesOf(ps, gone) \in Nat /\ BytesOf(ps, gone) = SumFunctionOnSet(all, gone)
    BY BytesAddUp
<1>3. BytesOf(ps, left) \in Nat /\ BytesOf(ps, left) = SumFunctionOnSet(all, left)
    <2>1. left \subseteq DOMAIN ps
        OBVIOUS
    <2> HIDE DEF left
    <2> QED BY <2>1, BytesAddUp
<1>4. gone \in SUBSET D
    OBVIOUS
<1> HIDE DEF all
<1>5. SumFunctionOnSet(all, D) = SumFunctionOnSet(all, gone) + SumFunctionOnSet(all, D \ gone)
    BY <1>1, <1>4, TotalCutsInto
<1> QED BY <1>1, <1>2, <1>3, <1>5

LEMMA BytesOfOne ==
    ASSUME NEW ps, Partitions(ps), NEW key \in DOMAIN ps
    PROVE  BytesOf(ps, {key}) = ps[key].bytes
<1> DEFINE all == [k \in DOMAIN ps |-> ps[k].bytes]
<1>1. BytesOf(ps, {key}) = SumFunctionOnSet(all, {key}) /\ Ints(all, DOMAIN ps)
    BY BytesAddUp
<1>2. all[key] = ps[key].bytes
    OBVIOUS
<1> HIDE DEF all
<1>3. Ints(all, {key}) /\ IsFiniteSet({key}) /\ {key} \ {key} = {} /\ key \in {key}
    BY <1>1, FS_Singleton DEF Ints
<1>4. SumFunctionOnSet(all, {key}) = SumFunctionOnSet(all, {key} \ {key}) + all[key]
    BY <1>3, TotalTakes
<1>5. SumFunctionOnSet(all, {key} \ {key}) = 0
    BY <1>3, TotalOfNone
<1>6. all[key] \in Int
    BY <1>1 DEF Ints
<1> QED BY <1>1, <1>2, <1>4, <1>5, <1>6

LEMMA BytesWithout ==
    ASSUME NEW ps, Partitions(ps), NEW key \in DOMAIN ps
    PROVE  /\ BytesOf(ps, DOMAIN ps) = ps[key].bytes + BytesOf(ps, DOMAIN ps \ {key})
           /\ BytesOf(ps, DOMAIN ps) \in Nat /\ ps[key].bytes \in Nat
           /\ BytesOf(ps, DOMAIN ps \ {key}) \in Nat
<1>1. {key} \subseteq DOMAIN ps
    OBVIOUS
<1>2. /\ BytesOf(ps, DOMAIN ps) = BytesOf(ps, {key}) + BytesOf(ps, DOMAIN ps \ {key})
      /\ BytesOf(ps, DOMAIN ps) \in Nat /\ BytesOf(ps, {key}) \in Nat
      /\ BytesOf(ps, DOMAIN ps \ {key}) \in Nat
    BY <1>1, BytesCut
<1>3. BytesOf(ps, {key}) = ps[key].bytes
    BY BytesOfOne
<1> QED BY <1>2, <1>3

LEMMA NoBytes == BytesOf([k \in {} |-> Empty], {}) = 0 /\ \A ps : BytesOf(ps, {}) = 0
<1>1. ASSUME NEW ps PROVE BytesOf(ps, {}) = 0
    <2>1. SumFunction([k \in {} |-> ps[k].bytes]) = SumFunctionOnSet([k \in {} |-> ps[k].bytes], {})
        BY SumIsTotal
    <2> QED BY <2>1, TotalOfNone DEF BytesOf
<1> QED BY <1>1

\* Enough of the others go for the rest to fit, or all of them.
LEMMA VictimsMakeRoom ==
    ASSUME NEW ps, Partitions(ps), NEW key \in DOMAIN ps, NEW held
    PROVE  /\ Victims(ps, held, key) \subseteq DOMAIN ps \ {key}
           /\ \/ held - BytesOf(ps, Victims(ps, held, key)) <= Limit
              \/ Victims(ps, held, key) = DOMAIN ps \ {key}
<1> DEFINE others == Others(ps, key)
           runs == {UpTo(ps, key, last) : last \in others} \cup {{}, others}
           enough == {run \in runs : held - BytesOf(ps, run) <= Limit}
<1>1. \A run \in runs : run \subseteq others
    BY DEF UpTo
<1>2. others = DOMAIN ps \ {key} /\ IsFiniteSet(others)
    <2>1. IsFiniteSet(DOMAIN ps)
        BY VecAssumption, FS_Subset DEF Partitions
    <2> QED BY <2>1, FS_RemoveElement DEF Others
<1>3. Victims(ps, held, key) = IF enough = {} THEN others
        ELSE CHOOSE run \in enough : \A more \in enough : Cardinality(run) <= Cardinality(more)
    BY DEF Victims
<1>4. enough # {} => \E run \in enough : \A more \in enough : Cardinality(run) <= Cardinality(more)
    <2> DEFINE sizes == {Cardinality(run) : run \in enough}
    <2>1. SUFFICES ASSUME enough # {}
                   PROVE  \E run \in enough : \A more \in enough : Cardinality(run) <= Cardinality(more)
        OBVIOUS
    <2>2. \A run \in enough : Cardinality(run) \in Nat
        <3>1. \A run \in enough : run \subseteq others
            BY <1>1
        <3> HIDE DEF enough, others
        <3> QED BY <1>2, <3>1, FS_Subset, FS_CardinalityType
    <2>3. sizes \subseteq Nat /\ sizes # {}
        <3> HIDE DEF enough
        <3> QED BY <2>1, <2>2
    <2>4. PICK least \in sizes : \A m \in sizes : least <= m
        <3> HIDE DEF sizes
        <3> QED BY <2>3, LeastNumber
    <2> HIDE DEF enough
    <2> QED BY <2>4
<1> HIDE DEF others
<1>5. Victims(ps, held, key) \in enough \/ Victims(ps, held, key) = others
    <2> HIDE DEF enough
    <2> QED BY <1>3, <1>4
<1>6. Victims(ps, held, key) \in enough =>
          /\ Victims(ps, held, key) \subseteq others
          /\ held - BytesOf(ps, Victims(ps, held, key)) <= Limit
    BY <1>1
<1> HIDE DEF enough, runs
<1> QED BY <1>2, <1>5, <1>6

Fits(ps, bytes) == bytes = BytesOf(ps, DOMAIN ps) /\ (bytes <= Limit \/ Cardinality(DOMAIN ps) = 1)

\* The victims gone, what is left is counted and within the limit, or is one partition.
LEMMA TrimmedFits ==
    ASSUME NEW ps, Partitions(ps), NEW key \in DOMAIN ps,
           NEW held, held = BytesOf(ps, DOMAIN ps), NEW flags, Trimmed(ps, held, key, flags)
    PROVE  /\ Partitions(parts') /\ Fits(parts', used')
           /\ DOMAIN parts' \subseteq DOMAIN ps
           /\ \A k \in DOMAIN parts' : parts'[k] = ps[k]
<1> DEFINE gone == Victims(ps, held, key)
           kept == DOMAIN ps \ gone
<1>1. gone \subseteq DOMAIN ps \ {key} /\ (held - BytesOf(ps, gone) <= Limit \/ gone = DOMAIN ps \ {key})
    BY VictimsMakeRoom
<1>2. parts' = [k \in kept |-> ps[k]] /\ used' = held - BytesOf(ps, gone)
    BY DEF Trimmed
<1> HIDE DEF gone
<1>3. /\ BytesOf(ps, DOMAIN ps) = BytesOf(ps, gone) + BytesOf(ps, kept)
      /\ BytesOf(ps, DOMAIN ps) \in Nat /\ BytesOf(ps, gone) \in Nat /\ BytesOf(ps, kept) \in Nat
    BY <1>1, BytesCut
<1>4. DOMAIN parts' = kept /\ kept \subseteq DOMAIN ps /\ \A k \in kept : parts'[k] = ps[k]
    BY <1>2
<1>5. Partitions(parts')
    BY <1>4 DEF Partitions
<1>6. BytesOf(parts', kept) = BytesOf(ps, kept)
    <2>1. [k \in kept |-> parts'[k].bytes] = [k \in kept |-> ps[k].bytes]
        BY <1>4
    <2> QED BY <2>1 DEF BytesOf
<1>7. used' = BytesOf(parts', DOMAIN parts')
    BY <1>2, <1>3, <1>4, <1>6
<1>8. used' <= Limit \/ Cardinality(kept) = 1
    <2>1. gone = DOMAIN ps \ {key} => kept = {key}
        OBVIOUS
    <2> QED BY <1>1, <1>2, <2>1, FS_Singleton
<1> QED BY <1>4, <1>5, <1>7, <1>8 DEF Fits

\* A partition gone, what is left still fits.
LEMMA WithoutFits ==
    ASSUME Partitions(parts), Fits(parts, used), NEW key, NEW left,
           parts' = Without(key),
           left = IF key \in Hydrated THEN used - parts[key].bytes ELSE used
    PROVE  Partitions(parts') /\ Fits(parts', left)
<1>1. DOMAIN parts' = Hydrated \ {key} /\ \A k \in Hydrated \ {key} : parts'[k] = parts[k]
    BY DEF Without
<1>2. Partitions(parts')
    BY <1>1 DEF Partitions, Hydrated
<1>3. BytesOf(parts', Hydrated \ {key}) = BytesOf(parts, Hydrated \ {key})
    <2>1. [k \in Hydrated \ {key} |-> parts'[k].bytes] = [k \in Hydrated \ {key} |-> parts[k].bytes]
        BY <1>1
    <2> QED BY <2>1 DEF BytesOf
<1>4. CASE key \notin Hydrated
    <2>1. Hydrated \ {key} = DOMAIN parts
        BY <1>4 DEF Hydrated
    <2> QED BY <1>1, <1>2, <1>3, <1>4, <2>1 DEF Fits
<1>5. CASE key \in Hydrated
    <2>1. /\ BytesOf(parts, DOMAIN parts) = parts[key].bytes + BytesOf(parts, DOMAIN parts \ {key})
          /\ BytesOf(parts, DOMAIN parts) \in Nat /\ parts[key].bytes \in Nat
          /\ BytesOf(parts, DOMAIN parts \ {key}) \in Nat
        BY <1>5, BytesWithout DEF Hydrated
    <2>2. left = used - parts[key].bytes /\ used = BytesOf(parts, DOMAIN parts)
        BY <1>5 DEF Fits
    <2>3. left = BytesOf(parts', DOMAIN parts')
        BY <1>1, <1>3, <2>1, <2>2 DEF Hydrated
    <2>4. left <= Limit
        <3>1. CASE used <= Limit
            BY <2>1, <2>2, <3>1, VecAssumption
        <3>2. CASE Cardinality(DOMAIN parts) = 1
            <4>1. IsFiniteSet(DOMAIN parts)
                BY VecAssumption, FS_Subset DEF Partitions
            <4>2. IsFiniteSet(DOMAIN parts \ {key}) /\ Cardinality(DOMAIN parts \ {key}) = 0
                BY <1>5, <3>2, <4>1, FS_RemoveElement DEF Hydrated
            <4>3. DOMAIN parts \ {key} = {}
                BY <4>2, FS_EmptySet
            <4>4. BytesOf(parts, DOMAIN parts \ {key}) = 0
                BY <4>3, NoBytes
            <4> QED BY <2>1, <2>2, <4>4, VecAssumption
        <3> QED BY <3>1, <3>2 DEF Fits
    <2> QED BY <1>2, <2>3, <2>4 DEF Fits
<1> QED BY <1>4, <1>5

----------------------------------------------------------------------------
(* The invariant                                                           *)

Stored == [Ids -> Sizes \cup {0}]
StoreOK ==
    \A key \in Keys : /\ DOMAIN store[key] \subseteq Ids
                      /\ \A id \in DOMAIN store[key] : store[key][id] \in Sizes \cup {0}

VecInv ==
    /\ DOMAIN store = Keys /\ StoreOK
    /\ Partitions(parts) /\ Partitions(building)
    /\ Fits(parts, used)
    /\ DOMAIN totals = Keys /\ \A key \in Keys : totals[key] \in Nat

\* What is stored is known, but for the partitions with a vector nobody counted.
Counted ==
    \A key \in Keys : key \notin uncounted => Cardinality(DOMAIN store[key]) <= totals[key]

LEMMA StoredCounts ==
    ASSUME VecInv, NEW key \in Keys
    PROVE  IsFiniteSet(DOMAIN store[key]) /\ Cardinality(DOMAIN store[key]) \in Nat
<1>1. DOMAIN store[key] \subseteq Ids
    BY DEF VecInv, StoreOK
<1> QED BY <1>1, VecAssumption, FS_Subset, FS_CardinalityType

LEMMA VecInitially == VecInit => VecInv /\ Counted
<1> SUFFICES ASSUME VecInit PROVE VecInv /\ Counted
    OBVIOUS
<1>1. DOMAIN parts = {} /\ DOMAIN building = {} /\ Hydrated = {}
    BY DEF VecInit, Hydrated
<1>2. /\ DOMAIN store = Keys
      /\ \A key \in Keys : /\ DOMAIN store[key] = {i \in Ids : <<key, i>> \in Damaged}
                           /\ \A id \in DOMAIN store[key] : store[key][id] = 0
    BY DEF VecInit
<1>3. StoreOK
    BY <1>2 DEF StoreOK
<1>4. Partitions(parts) /\ Partitions(building)
    BY <1>1 DEF Partitions
<1>5. Fits(parts, used)
    <2>1. BytesOf(parts, DOMAIN parts) = 0 /\ used = 0
        BY <1>1, NoBytes DEF VecInit
    <2> QED BY <2>1, VecAssumption DEF Fits
<1>6. DOMAIN totals = Keys /\ \A key \in Keys : totals[key] = 0
    BY DEF VecInit
<1>7. VecInv
    BY <1>2, <1>3, <1>4, <1>5, <1>6 DEF VecInv
<1>8. ASSUME NEW key \in Keys, key \notin uncounted PROVE Cardinality(DOMAIN store[key]) <= totals[key]
    <2>1. DOMAIN store[key] = {}
        BY <1>8 DEF VecInit
    <2>2. Cardinality(DOMAIN store[key]) = 0
        BY <2>1, FS_EmptySet
    <2> QED BY <1>6, <2>2
<1> QED BY <1>7, <1>8 DEF Counted

----------------------------------------------------------------------------
(* Each call keeps it                                                      *)

LEMMA UpsertStep ==
    ASSUME VecInv, NEW key \in Keys, NEW id \in Ids, NEW size \in Sizes, Upsert(key, id, size)
    PROVE  /\ VecInv' /\ (Counted => Counted')
<1>1. /\ DOMAIN store = Keys /\ StoreOK
      /\ Partitions(parts) /\ Partitions(building) /\ Fits(parts, used)
      /\ DOMAIN totals = Keys /\ \A k \in Keys : totals[k] \in Nat
    BY DEF VecInv
<1>2. /\ DOMAIN store' = Keys
      /\ \A k \in Keys \ {key} : store'[k] = store[k]
      /\ DOMAIN store'[key] = DOMAIN store[key] \cup {id}
      /\ \A i \in DOMAIN store'[key] : store'[key][i] = IF i = id THEN size ELSE store[key][i]
    BY <1>1 DEF Upsert
<1>3. StoreOK'
    BY <1>1, <1>2 DEF StoreOK
<1>4. /\ building' = building
      /\ totals' = IF CountsNew(key, id) THEN [totals EXCEPT ![key] = @ + 1] ELSE totals
      /\ uncounted' = IF id \in DOMAIN store[key] \/ CountsNew(key, id) THEN uncounted
                      ELSE uncounted \cup {key}
    BY DEF Upsert
<1>5. Partitions(building')
    BY <1>1, <1>4
<1>6. /\ \A k \in Keys : IsFiniteSet(DOMAIN store[k]) /\ Cardinality(DOMAIN store[k]) \in Nat
      /\ IsFiniteSet(DOMAIN store'[key])
      /\ Cardinality(DOMAIN store'[key]) =
             IF id \in DOMAIN store[key] THEN Cardinality(DOMAIN store[key]) ELSE Cardinality(DOMAIN store[key]) + 1
    <2>1. \A k \in Keys : IsFiniteSet(DOMAIN store[k]) /\ Cardinality(DOMAIN store[k]) \in Nat
        BY StoredCounts
    <2>2. /\ IsFiniteSet(DOMAIN store[key] \cup {id})
          /\ Cardinality(DOMAIN store[key] \cup {id}) =
                 IF id \in DOMAIN store[key] THEN Cardinality(DOMAIN store[key]) ELSE Cardinality(DOMAIN store[key]) + 1
        BY <2>1, FS_AddElement
    <2> QED BY <1>2, <2>1, <2>2
<1>7. /\ DOMAIN totals' = Keys /\ \A k \in Keys \ {key} : totals'[k] = totals[k]
      /\ totals'[key] = IF CountsNew(key, id) THEN totals[key] + 1 ELSE totals[key]
    BY <1>1, <1>4
<1>8. \A k \in Keys : totals'[k] \in Nat
    BY <1>1, <1>7
<1>9. Partitions(parts') /\ Fits(parts', used')
    <2> SUFFICES ASSUME key \in Hydrated PROVE Partitions(parts') /\ Fits(parts', used')
        BY <1>1 DEF Upsert
    <2> DEFINE ps == [parts EXCEPT ![key] = Upserted(@, id, size)]
               held == used + ps[key].bytes - parts[key].bytes
    <2>1. Trimmed(ps, held, key, evicted)
        BY DEF Upsert
    <2>2. key \in DOMAIN parts /\ PartitionSound(parts[key])
        BY <1>1 DEF Hydrated, Partitions
    <2>3. PartitionSound(Upserted(parts[key], id, size)) /\ IdsOf(Upserted(parts[key], id, size)) = IdsOf(parts[key]) \cup {id}
        BY <2>2, UpsertIsSound
    <2>4. /\ DOMAIN ps = DOMAIN parts /\ ps[key] = Upserted(parts[key], id, size)
          /\ \A k \in DOMAIN parts \ {key} : ps[k] = parts[k]
        BY <2>2
    <2> HIDE DEF ps
    <2>5. Partitions(ps)
        BY <1>1, <2>3, <2>4 DEF Partitions
    <2>6. held = BytesOf(ps, DOMAIN ps)
        <3>1. /\ BytesOf(parts, DOMAIN parts) = parts[key].bytes + BytesOf(parts, DOMAIN parts \ {key})
              /\ parts[key].bytes \in Nat /\ BytesOf(parts, DOMAIN parts \ {key}) \in Nat
            BY <1>1, <2>2, BytesWithout
        <3>2. /\ BytesOf(ps, DOMAIN ps) = ps[key].bytes + BytesOf(ps, DOMAIN ps \ {key})
              /\ ps[key].bytes \in Nat
            BY <2>2, <2>4, <2>5, BytesWithout
        <3>3. BytesOf(ps, DOMAIN ps \ {key}) = BytesOf(parts, DOMAIN parts \ {key})
            <4>1. [k \in DOMAIN ps \ {key} |-> ps[k].bytes] = [k \in DOMAIN parts \ {key} |-> parts[k].bytes]
                BY <2>4
            <4> QED BY <4>1 DEF BytesOf
        <3>4. used = BytesOf(parts, DOMAIN parts)
            BY <1>1 DEF Fits
        <3> QED BY <3>1, <3>2, <3>3, <3>4
    <2> HIDE DEF held
    <2>7. /\ Partitions(parts') /\ Fits(parts', used')
          /\ DOMAIN parts' \subseteq DOMAIN ps /\ \A k \in DOMAIN parts' : parts'[k] = ps[k]
        BY <2>1, <2>2, <2>4, <2>5, <2>6, TrimmedFits
    <2> QED BY <2>7
<1>10. VecInv'
    BY <1>2, <1>3, <1>5, <1>7, <1>8, <1>9 DEF VecInv
<1>11. ASSUME Counted PROVE Counted'
    <2>1. ASSUME NEW k \in Keys, k \notin uncounted'
          PROVE  Cardinality(DOMAIN store'[k]) <= totals'[k]
        <3>1. k \notin uncounted
            BY <1>4, <2>1
        <3>2. Cardinality(DOMAIN store[k]) <= totals[k] /\ Cardinality(DOMAIN store[k]) \in Nat
            BY <1>6, <1>11, <3>1 DEF Counted
        <3>3. CASE k # key
            BY <1>2, <1>7, <3>2, <3>3
        <3>4. CASE k = key
            BY <1>1, <1>4, <1>6, <1>7, <2>1, <3>2, <3>4
        <3> QED BY <3>3, <3>4
    <2> QED BY <2>1 DEF Counted
<1> QED BY <1>10, <1>11

LEMMA RemoveStep ==
    ASSUME VecInv, NEW key \in Keys, NEW id \in Ids, RemoveVector(key, id)
    PROVE  /\ VecInv' /\ (Counted => Counted')
<1>1. /\ DOMAIN store = Keys /\ StoreOK
      /\ Partitions(parts) /\ Partitions(building) /\ Fits(parts, used)
      /\ DOMAIN totals = Keys /\ \A k \in Keys : totals[k] \in Nat
    BY DEF VecInv
<1>2. /\ DOMAIN store' = Keys
      /\ \A k \in Keys \ {key} : store'[k] = store[k]
      /\ DOMAIN store'[key] = DOMAIN store[key] \ {id}
      /\ \A i \in DOMAIN store'[key] : store'[key][i] = store[key][i]
    BY <1>1 DEF RemoveVector
<1>3. StoreOK'
    BY <1>1, <1>2 DEF StoreOK
<1>4. building' = building /\ uncounted' = uncounted /\ id \in DOMAIN store[key]
    BY DEF RemoveVector
<1>5. Partitions(building')
    BY <1>1, <1>4
<1>6. /\ \A k \in Keys : Cardinality(DOMAIN store[k]) \in Nat
      /\ Cardinality(DOMAIN store'[key]) = Cardinality(DOMAIN store[key]) - 1
    <2>1. \A k \in Keys : IsFiniteSet(DOMAIN store[k]) /\ Cardinality(DOMAIN store[k]) \in Nat
        BY StoredCounts
    <2>2. Cardinality(DOMAIN store[key] \ {id}) =
              IF id \in DOMAIN store[key] THEN Cardinality(DOMAIN store[key]) - 1 ELSE Cardinality(DOMAIN store[key])
        BY <2>1, FS_RemoveElement
    <2> QED BY <1>2, <1>4, <2>1, <2>2
<1>8. CASE key \in Hydrated /\ id \in IdsOf(parts[key])
    <2>1. /\ parts' = [parts EXCEPT ![key] = Removed(@, id)]
          /\ used' = used - (parts[key].bytes - parts'[key].bytes)
          /\ totals' = [totals EXCEPT ![key] = IF @ = 0 THEN 0 ELSE @ - 1]
        BY <1>8 DEF RemoveVector
    <2>2. key \in DOMAIN parts /\ PartitionSound(parts[key])
        BY <1>1, <1>8 DEF Hydrated, Partitions
    <2>3. /\ PartitionSound(Removed(parts[key], id)) /\ Removed(parts[key], id).bytes <= parts[key].bytes
          /\ IdsOf(Removed(parts[key], id)) = IdsOf(parts[key]) \ {id}
        BY <2>2, RemovedIsSound
    <2>4. /\ DOMAIN parts' = DOMAIN parts /\ parts'[key] = Removed(parts[key], id)
          /\ \A k \in DOMAIN parts \ {key} : parts'[k] = parts[k]
        BY <2>1, <2>2
    <2>5. Partitions(parts')
        BY <1>1, <2>3, <2>4 DEF Partitions
    <2>6. Fits(parts', used')
        <3>1. /\ BytesOf(parts, DOMAIN parts) = parts[key].bytes + BytesOf(parts, DOMAIN parts \ {key})
              /\ parts[key].bytes \in Nat /\ BytesOf(parts, DOMAIN parts \ {key}) \in Nat
            BY <1>1, <2>2, BytesWithout
        <3> DEFINE ps == parts'
        <3>2. Partitions(ps) /\ key \in DOMAIN ps
            BY <2>2, <2>4, <2>5
        <3>3. /\ BytesOf(ps, DOMAIN ps) = ps[key].bytes + BytesOf(ps, DOMAIN ps \ {key})
              /\ ps[key].bytes \in Nat
            <4> HIDE DEF ps
            <4> QED BY <3>2, BytesWithout
        <3>4. BytesOf(ps, DOMAIN ps \ {key}) = BytesOf(parts, DOMAIN parts \ {key})
            <4>1. [k \in DOMAIN ps \ {key} |-> ps[k].bytes] = [k \in DOMAIN parts \ {key} |-> parts[k].bytes]
                BY <2>4
            <4> QED BY <4>1 DEF BytesOf
        <3>5. used = BytesOf(parts, DOMAIN parts) /\ (used <= Limit \/ Cardinality(DOMAIN parts) = 1)
            BY <1>1 DEF Fits
        <3>6. used' = BytesOf(ps, DOMAIN ps)
            BY <2>1, <3>1, <3>3, <3>4, <3>5
        <3>7. ps[key].bytes <= parts[key].bytes
            BY <2>3, <2>4
        <3>8. used' <= Limit \/ Cardinality(DOMAIN ps) = 1
            <4>1. CASE used <= Limit
                BY <2>1, <3>1, <3>3, <3>5, <3>7, <4>1, VecAssumption
            <4>2. CASE Cardinality(DOMAIN parts) = 1
                BY <2>4, <4>2
            <4> QED BY <3>5, <4>1, <4>2
        <3> QED BY <3>6, <3>8 DEF Fits
    <2>7. /\ DOMAIN totals' = Keys /\ \A k \in Keys \ {key} : totals'[k] = totals[k]
          /\ totals'[key] = IF totals[key] = 0 THEN 0 ELSE totals[key] - 1
          /\ \A k \in Keys : totals'[k] \in Nat
        BY <1>1, <2>1
    <2>8. VecInv'
        BY <1>2, <1>3, <1>5, <2>5, <2>6, <2>7 DEF VecInv
    <2>9. ASSUME Counted, NEW k \in Keys, k \notin uncounted
          PROVE  Cardinality(DOMAIN store'[k]) <= totals'[k]
        <3>1. Cardinality(DOMAIN store[k]) <= totals[k]
            BY <2>9 DEF Counted
        <3> QED BY <1>1, <1>2, <1>6, <2>7, <3>1
    <2> QED BY <1>4, <2>8, <2>9 DEF Counted
<1>9. CASE ~(key \in Hydrated /\ id \in IdsOf(parts[key]))
    <2>1. parts' = parts /\ used' = used /\ totals' = totals
        BY <1>9 DEF RemoveVector
    <2>2. VecInv'
        BY <1>1, <1>2, <1>3, <1>5, <2>1 DEF VecInv
    <2>3. ASSUME Counted, NEW k \in Keys, k \notin uncounted
          PROVE  Cardinality(DOMAIN store'[k]) <= totals'[k]
        <3>1. Cardinality(DOMAIN store[k]) <= totals[k]
            BY <2>3 DEF Counted
        <3>2. totals'[k] = totals[k] /\ totals[k] \in Nat
            BY <1>1, <2>1
        <3>3. Cardinality(DOMAIN store'[k]) <= Cardinality(DOMAIN store[k])
            BY <1>2, <1>6
        <3>4. Cardinality(DOMAIN store'[k]) \in Int /\ Cardinality(DOMAIN store[k]) \in Int
            BY <1>2, <1>6
        <3> QED BY <3>1, <3>2, <3>3, <3>4
    <2> QED BY <1>4, <2>2, <2>3 DEF Counted
<1> QED BY <1>8, <1>9

LEMMA DropStep ==
    ASSUME VecInv, NEW key \in Keys, DropPartition(key)
    PROVE  /\ VecInv' /\ (Counted => Counted')
<1>1. /\ DOMAIN store = Keys /\ StoreOK
      /\ Partitions(parts) /\ Partitions(building) /\ Fits(parts, used)
      /\ DOMAIN totals = Keys /\ \A k \in Keys : totals[k] \in Nat
    BY DEF VecInv
<1>2. /\ DOMAIN store' = Keys
      /\ \A k \in Keys \ {key} : store'[k] = store[k]
      /\ DOMAIN store'[key] = {}
    BY <1>1 DEF DropPartition
<1>3. StoreOK'
    BY <1>1, <1>2 DEF StoreOK
<1>4. building' = building /\ uncounted' = uncounted \ {key}
    BY DEF DropPartition
<1>5. /\ parts' = Without(key)
      /\ used' = IF key \in Hydrated THEN used - parts[key].bytes ELSE used
    BY DEF DropPartition
<1>6. Partitions(parts') /\ Fits(parts', used')
    BY <1>1, <1>5, WithoutFits
<1>7. /\ DOMAIN totals' = Keys /\ \A k \in Keys \ {key} : totals'[k] = totals[k]
      /\ totals'[key] = 0
    BY <1>1 DEF DropPartition
<1>8. VecInv'
    BY <1>1, <1>2, <1>3, <1>4, <1>6, <1>7 DEF VecInv
<1>9. Cardinality(DOMAIN store'[key]) = 0
    BY <1>2, FS_EmptySet
<1> QED BY <1>2, <1>4, <1>7, <1>8, <1>9 DEF Counted

LEMMA CountStep ==
    ASSUME VecInv, NEW key \in Keys, SetPartitionTotal(key)
    PROVE  /\ VecInv' /\ (Counted => Counted')
<1>1. /\ store' = store /\ parts' = parts /\ building' = building /\ used' = used
      /\ totals' = [totals EXCEPT ![key] = Cardinality(DOMAIN store[key])]
      /\ uncounted' = uncounted \ {key}
    BY DEF SetPartitionTotal
<1>2. Cardinality(DOMAIN store[key]) \in Nat
    BY StoredCounts
<1>3. /\ DOMAIN totals' = Keys /\ \A k \in Keys : totals'[k] \in Nat
      /\ \A k \in Keys \ {key} : totals'[k] = totals[k]
      /\ totals'[key] = Cardinality(DOMAIN store[key])
    BY <1>1, <1>2 DEF VecInv
<1>4. VecInv'
    BY <1>1, <1>3 DEF VecInv, StoreOK
<1>5. Counted => Counted'
    BY <1>1, <1>2, <1>3 DEF Counted
<1> QED BY <1>4, <1>5

LEMMA BuildStep ==
    ASSUME VecInv, NEW key \in Keys, Build(key)
    PROVE  /\ VecInv' /\ (Counted => Counted')
<1> DEFINE S == {id \in DOMAIN store[key] : store[key][id] > 0}
           built == BuiltFrom(store[key], SetToSeq(S))
<1>1. /\ store' = store /\ parts' = parts /\ totals' = totals /\ used' = used
      /\ uncounted' = uncounted
      /\ building' = [k \in DOMAIN building \cup {key} |-> IF k = key THEN built ELSE building[k]]
    BY DEF Build, BuiltFrom
<1>2. /\ S \subseteq Ids /\ IsFiniteSet(S) /\ S \subseteq DOMAIN store[key]
      /\ \A id \in S : store[key][id] \in Sizes
    <2>1. \A id \in DOMAIN store[key] : id \in Ids /\ store[key][id] \in Sizes \cup {0}
        BY DEF VecInv, StoreOK
    <2>2. S \subseteq Ids /\ \A id \in S : store[key][id] \in Sizes
        BY <2>1
    <2> QED BY <2>2, VecAssumption, FS_Subset
<1> HIDE DEF S
<1>3. PartitionSound(built) /\ IdsOf(built) \subseteq S
    BY <1>2, BuiltIsSound
<1> HIDE DEF built
<1>4. /\ DOMAIN building' = DOMAIN building \cup {key} /\ building'[key] = built
      /\ \A k \in DOMAIN building \ {key} : building'[k] = building[k]
    BY <1>1
<1>5. Partitions(building')
    BY <1>3, <1>4 DEF VecInv, Partitions
<1>6. VecInv'
    BY <1>1, <1>5 DEF VecInv, StoreOK
<1> QED BY <1>1, <1>6 DEF Counted

LEMMA HydrateStep ==
    ASSUME VecInv, NEW key \in Keys, Hydrate(key)
    PROVE  /\ VecInv' /\ (Counted => Counted')
<1> DEFINE built == building[key]
           held == IF key \in Hydrated THEN used - parts[key].bytes ELSE used
           ps == [k \in Hydrated \cup {key} |-> IF k = key THEN built ELSE parts[k]]
<1>1. /\ DOMAIN store = Keys /\ StoreOK
      /\ Partitions(parts) /\ Partitions(building) /\ Fits(parts, used)
      /\ DOMAIN totals = Keys /\ \A k \in Keys : totals[k] \in Nat
    BY DEF VecInv
<1>2. /\ key \in DOMAIN building /\ store' = store
      /\ totals' = [totals EXCEPT ![key] = Known(@, Len(built.vectors))]
      /\ building' = [k \in DOMAIN building \ {key} |-> building[k]]
    BY DEF Hydrate
<1>3. PartitionSound(built)
    BY <1>1, <1>2 DEF Partitions
<1>4. /\ DOMAIN building' = DOMAIN building \ {key}
      /\ \A k \in DOMAIN building' : building'[k] = building[k]
    BY <1>2
<1>5. Partitions(building')
    BY <1>1, <1>4 DEF Partitions
<1>6. Len(built.vectors) \in Nat
    BY <1>3, SizesAre DEF PartitionSound
<1>7. /\ DOMAIN totals' = Keys /\ \A k \in Keys \ {key} : totals'[k] = totals[k]
      /\ \A k \in Keys : totals'[k] \in Nat /\ totals[k] <= totals'[k]
    BY <1>1, <1>2, <1>6 DEF Known
<1>8. /\ Partitions(parts') /\ Fits(parts', used')
      /\ \A k \in DOMAIN parts' : \/ k = key /\ parts'[k] = built
                                  \/ k \in Hydrated /\ parts'[k] = parts[k]
    <2>1. CASE built.bytes > Limit
        <3>1. parts' = Without(key) /\ used' = held
            BY <2>1 DEF Hydrate
        <3>2. Partitions(parts') /\ Fits(parts', used')
            BY <1>1, <3>1, WithoutFits
        <3> QED BY <3>1, <3>2 DEF Without
    <2>2. CASE ~(built.bytes > Limit)
        <3>1. Trimmed(ps, held + built.bytes, key, evicted \ {key})
            BY <2>2 DEF Hydrate
        <3>2. /\ DOMAIN ps = Hydrated \cup {key} /\ ps[key] = built
              /\ \A k \in Hydrated \ {key} : ps[k] = parts[k]
            OBVIOUS
        <3> HIDE DEF ps
        <3>3. Partitions(ps) /\ key \in DOMAIN ps
            BY <1>1, <1>3, <3>2 DEF Partitions, Hydrated
        <3>4. held + built.bytes = BytesOf(ps, DOMAIN ps)
            <4>1. /\ BytesOf(ps, DOMAIN ps) = ps[key].bytes + BytesOf(ps, DOMAIN ps \ {key})
                  /\ ps[key].bytes \in Nat /\ BytesOf(ps, DOMAIN ps \ {key}) \in Nat
                BY <3>3, BytesWithout
            <4>2. BytesOf(ps, DOMAIN ps \ {key}) = BytesOf(parts, Hydrated \ {key})
                <5>1. [k \in DOMAIN ps \ {key} |-> ps[k].bytes] = [k \in Hydrated \ {key} |-> parts[k].bytes]
                    BY <3>2
                <5> QED BY <5>1 DEF BytesOf
            <4>3. used = BytesOf(parts, Hydrated)
                BY <1>1 DEF Fits, Hydrated
            <4>4. held = BytesOf(parts, Hydrated \ {key})
                <5>1. CASE key \in Hydrated
                    <6>1. /\ BytesOf(parts, DOMAIN parts) = parts[key].bytes + BytesOf(parts, DOMAIN parts \ {key})
                          /\ parts[key].bytes \in Nat /\ BytesOf(parts, DOMAIN parts \ {key}) \in Nat
                        BY <1>1, <5>1, BytesWithout DEF Hydrated
                    <6> QED BY <4>3, <5>1, <6>1 DEF Hydrated
                <5>2. CASE key \notin Hydrated
                    <6>1. Hydrated \ {key} = Hydrated
                        BY <5>2
                    <6> QED BY <4>3, <5>2, <6>1
                <5> QED BY <5>1, <5>2
            <4> QED BY <3>2, <4>1, <4>2, <4>4
        <3> HIDE DEF held
        <3>5. /\ Partitions(parts') /\ Fits(parts', used')
              /\ DOMAIN parts' \subseteq DOMAIN ps /\ \A k \in DOMAIN parts' : parts'[k] = ps[k]
            BY <3>1, <3>3, <3>4, TrimmedFits
        <3> HIDE DEF built
        <3> QED BY <3>2, <3>5
    <2> QED BY <2>1, <2>2
<1>9. VecInv'
    BY <1>1, <1>2, <1>5, <1>7, <1>8 DEF VecInv, StoreOK
<1>10. ASSUME Counted, NEW k \in Keys, k \notin uncounted'
       PROVE  Cardinality(DOMAIN store'[k]) <= totals'[k]
    <2>1. IsFiniteSet(DOMAIN store[k]) /\ Cardinality(DOMAIN store[k]) \in Nat
        BY StoredCounts
    <2>2. CASE k \notin uncounted
        BY <1>1, <1>2, <1>7, <1>10, <2>1, <2>2 DEF Counted
    <2>3. CASE k \in uncounted
        <3>1. k = key /\ DOMAIN store[k] \subseteq IdsOf(built)
            BY <1>10, <2>3 DEF Hydrate
        <3>2. IsFiniteSet(IdsOf(built)) /\ Cardinality(IdsOf(built)) = Len(built.vectors)
            BY <1>3, IdsAreCounted DEF PartitionSound
        <3>3. Cardinality(DOMAIN store[k]) <= Len(built.vectors)
            BY <3>1, <3>2, FS_Subset
        <3>4. Len(built.vectors) <= totals'[k]
            <4> HIDE DEF built
            <4> QED BY <1>1, <1>2, <1>6, <3>1 DEF Known
        <3> QED BY <1>2, <1>6, <1>7, <2>1, <3>3, <3>4
    <2> QED BY <2>2, <2>3
<1> QED BY <1>9, <1>10 DEF Counted

\* A search only changes which partition was used last.
LEMMA StillStep ==
    ASSUME VecInv, UNCHANGED <<store, parts, totals, used, building, uncounted>>
    PROVE  VecInv' /\ (Counted => Counted')
    BY DEF VecInv, StoreOK, Counted

LEMMA VecStep ==
    ASSUME VecInv, [VecNext]_vecVars
    PROVE  /\ VecInv' /\ (Counted => Counted')
<1>1. CASE VecNext
    <2>1. PICK key \in Keys :
              \/ \E id \in Ids, size \in Sizes : Upsert(key, id, size)
              \/ \E id \in Ids : RemoveVector(key, id)
              \/ DropPartition(key) \/ SetPartitionTotal(key) \/ Search(key)
              \/ Build(key) \/ Hydrate(key)
        BY <1>1 DEF VecNext
    <2>2. CASE \E id \in Ids, size \in Sizes : Upsert(key, id, size)
        BY <2>2, UpsertStep
    <2>3. CASE \E id \in Ids : RemoveVector(key, id)
        BY <2>3, RemoveStep
    <2>4. CASE DropPartition(key)
        BY <2>4, DropStep
    <2>5. CASE SetPartitionTotal(key)
        BY <2>5, CountStep
    <2>6. CASE Search(key)
        BY <2>6, StillStep DEF Search
    <2>7. CASE Build(key)
        BY <2>7, BuildStep
    <2>8. CASE Hydrate(key)
        BY <2>8, HydrateStep
    <2> QED BY <2>1, <2>2, <2>3, <2>4, <2>5, <2>6, <2>7, <2>8
<1>2. CASE UNCHANGED vecVars
    BY <1>2, StillStep DEF vecVars
<1> QED BY <1>1, <1>2

----------------------------------------------------------------------------
(* What follows from it                                                    *)

\* The budget counts exactly what is held, whatever the callers do: every byte of every
\* hydrated partition, and nothing of those evicted, refused, dropped or replaced; and after
\* every call it is within the limit, or one partition alone is held.
THEOREM BudgetIsKept == VecSpec => []WithinBudget
<1>1. VecInit => VecInv
    BY VecInitially
<1>2. VecInv /\ [VecNext]_vecVars => VecInv'
    BY VecStep
<1>3. VecInv => WithinBudget
    <2>1. SUFFICES ASSUME VecInv PROVE WithinBudget
        OBVIOUS
    <2>2. ASSUME NEW key \in Hydrated
          PROVE  parts[key].bytes = SumFunction([i \in DOMAIN parts[key].vectors |-> parts[key].vectors[i].size])
        <3> DEFINE v == parts[key].vectors
        <3>1. parts[key].bytes = SumFunctionOnSet(SizesOf(v), DOMAIN v)
            BY <2>1 DEF VecInv, Partitions, PartitionSound, Hydrated
        <3>2. DOMAIN SizesOf(v) = DOMAIN v
            BY DEF SizesOf
        <3> HIDE DEF v
        <3>3. SumFunction(SizesOf(v)) = SumFunctionOnSet(SizesOf(v), DOMAIN SizesOf(v))
            BY SumIsTotal
        <3>4. parts[key].bytes = SumFunction(SizesOf(v))
            BY <3>1, <3>2, <3>3
        <3> QED BY <3>4 DEF SizesOf, v
    <2>3. used = BytesOf(parts, Hydrated) /\ (used <= Limit \/ Cardinality(Hydrated) = 1)
        BY <2>1 DEF VecInv, Fits, Hydrated
    <2> QED BY <2>2, <2>3 DEF WithinBudget
<1> QED BY <1>1, <1>2, <1>3, PTL DEF VecSpec

LEMMA CountedIsSeen ==
    ASSUME VecInv, Counted
    PROVE  MissesCounted
<1> SUFFICES ASSUME NEW index \in Indexes,
                    \A k \in KeysOf(index) : k \notin uncounted /\ ~HoldsDeleted(k),
                    NEW key \in KeysOf(index), NEW id \in DOMAIN store[key],
                    key \in Hydrated => id \notin IdsOf(parts[key])
             PROVE  CoverageHydrated(index) < CoverageTotal(index)
    BY DEF MissesCounted, Misses, Visible
<1> DEFINE all == KeysOf(index)
           found == [k \in all |-> IF k \in Hydrated THEN Len(parts[k].vectors) ELSE 0]
           lengths == [k \in HeldOf(index) |-> Len(parts[k].vectors)]
           known == SumFunctionOnSet(totals, all)
<1>1. all \subseteq Keys /\ IsFiniteSet(all) /\ HeldOf(index) \subseteq all /\ key \in all
    <2>1. all \subseteq Keys /\ HeldOf(index) \subseteq all
        BY DEF KeysOf, HeldOf, VecInv, Partitions, Hydrated
    <2> QED BY <2>1, VecAssumption, FS_Subset
<1>2. ASSUME NEW k \in all
      PROVE  /\ totals[k] \in Nat /\ found[k] \in Nat /\ found[k] <= totals[k]
             /\ k = key => found[k] < totals[k]
    <2>1. /\ k \in Keys /\ totals[k] \in Nat
          /\ IsFiniteSet(DOMAIN store[k]) /\ Cardinality(DOMAIN store[k]) \in Nat
          /\ Cardinality(DOMAIN store[k]) <= totals[k]
        BY <1>1, StoredCounts DEF VecInv, Counted
    <2>2. CASE k \in Hydrated
        <3>1. PartitionSound(parts[k]) /\ IdsOf(parts[k]) \subseteq DOMAIN store[k]
            BY <2>2 DEF VecInv, Partitions, Hydrated, HoldsDeleted
        <3>2. Cardinality(IdsOf(parts[k])) = Len(parts[k].vectors) /\ Len(parts[k].vectors) \in Nat
            BY <3>1, IdsAreCounted, SizesAre DEF PartitionSound
        <3>3. Cardinality(IdsOf(parts[k])) <= Cardinality(DOMAIN store[k])
            BY <2>1, <3>1, FS_Subset
        <3>4. k = key => Cardinality(IdsOf(parts[k])) < Cardinality(DOMAIN store[k])
            <4>1. ASSUME k = key PROVE Cardinality(IdsOf(parts[k])) < Cardinality(DOMAIN store[k])
                <5>1. IdsOf(parts[k]) # DOMAIN store[k]
                    BY <2>2, <4>1
                <5>2. Cardinality(IdsOf(parts[k])) # Cardinality(DOMAIN store[k])
                    BY <2>1, <3>1, <5>1, FS_Subset
                <5> QED BY <2>1, <3>2, <3>3, <5>2
            <4> QED BY <4>1
        <3> QED BY <2>1, <2>2, <3>2, <3>3, <3>4
    <2>3. CASE k \notin Hydrated
        <3>1. k = key => Cardinality(DOMAIN store[k]) # 0
            BY <2>1, FS_EmptySet
        <3> QED BY <2>1, <2>3, <3>1
    <2> QED BY <2>2, <2>3
<1>3. \A k \in HeldOf(index) : lengths[k] = found[k]
    BY <1>1 DEF HeldOf
<1>4. CoverageHydrated(index) = SumFunctionOnSet(lengths, HeldOf(index))
    <2>1. CoverageHydrated(index) = SumFunction(lengths) /\ DOMAIN lengths = HeldOf(index)
        BY DEF CoverageHydrated
    <2> HIDE DEF lengths
    <2> QED BY <2>1, SumIsTotal
<1>5. CoverageTotal(index) = IF known > CoverageHydrated(index) THEN known ELSE CoverageHydrated(index)
    BY DEF CoverageTotal
<1> HIDE DEF found, lengths, all
<1>6. Ints(found, all) /\ Ints(totals, all) /\ \A k \in all : found[k] <= totals[k]
    BY <1>2 DEF Ints
<1>7. SumFunctionOnSet(found, all) < SumFunctionOnSet(totals, all)
    BY <1>1, <1>2, <1>6, TotalCompareStrictly
<1>8. /\ IsFiniteSet(HeldOf(index)) /\ IsFiniteSet(all \ HeldOf(index))
      /\ \A k \in HeldOf(index) : found[k] \in Nat
      /\ \A k \in all \ HeldOf(index) : found[k] \in Nat
    BY <1>1, <1>2, FS_Subset
<1>9. /\ SumFunctionOnSet(found, HeldOf(index)) \in Nat
      /\ SumFunctionOnSet(found, all \ HeldOf(index)) \in Nat
    BY <1>8, TotalIsNat
<1>10. SumFunctionOnSet(found, all)
           = SumFunctionOnSet(found, HeldOf(index)) + SumFunctionOnSet(found, all \ HeldOf(index))
    <2>1. HeldOf(index) \in SUBSET all
        BY <1>1
    <2> QED BY <1>1, <1>6, <2>1, TotalCutsInto
<1>11. SumFunctionOnSet(lengths, HeldOf(index)) = SumFunctionOnSet(found, HeldOf(index))
    <2>1. Ints(lengths, HeldOf(index))
        BY <1>3, <1>8 DEF Ints
    <2> QED BY <1>3, <1>8, <2>1, TotalSame
<1>12. SumFunctionOnSet(totals, all) \in Int
    BY <1>1, <1>6, TotalIsInt
<1> QED BY <1>4, <1>5, <1>7, <1>9, <1>10, <1>11, <1>12

\* Whatever the callers do between a call and the next, an index that does not hold a stored
\* vector says so (what it reports as hydrated is less than what it reports as known), unless
\* one of its partitions has a vector nobody counted or read since it was stored, or holds one
\* deleted while the partition was being read.
THEOREM MissesAreSeen == VecSpec => []MissesCounted
<1>1. VecInit => VecInv /\ Counted
    BY VecInitially
<1>2. VecInv /\ Counted /\ [VecNext]_vecVars => (VecInv /\ Counted)'
    BY VecStep
<1>3. VecInv /\ Counted => MissesCounted
    BY CountedIsSeen
<1> QED BY <1>1, <1>2, <1>3, PTL DEF VecSpec

----------------------------------------------------------------------------
(* The order of use                                                        *)

\* The pairs put the keys in one line, none of them before itself.
InLine(keys, pairs) ==
    /\ pairs \subseteq keys \X keys
    /\ \A a, b \in keys : <<a, b>> \in pairs <=> a # b /\ <<b, a>> \notin pairs
    /\ \A a, b, c \in keys : <<a, b>> \in pairs /\ <<b, c>> \in pairs => <<a, c>> \in pairs

UsedInOrder == InLine(Hydrated, older) /\ evicted \cap Hydrated = {}

LEMMA SomeLeave ==
    ASSUME InLine(Hydrated, older), NEW kept \in SUBSET Hydrated
    PROVE  InLine(kept, Among(kept))
BY DEF InLine, Among

LEMMA OneIsNewest ==
    ASSUME InLine(Hydrated, older), NEW key, NEW kept \in SUBSET (Hydrated \cup {key}), key \in kept
    PROVE  InLine(kept, Touched(kept, key))
<1> DEFINE rest == kept \ {key}
           pairs == Among(rest) \cup (rest \X {key})
<1>1. InLine(rest, Among(rest))
    BY SomeLeave
<1>2. pairs \subseteq kept \X kept
    BY <1>1 DEF InLine
<1>3. /\ \A a, b \in rest : <<a, b>> \in pairs <=> <<a, b>> \in Among(rest)
      /\ \A a \in rest : <<a, key>> \in pairs
      /\ \A a \in kept : <<key, a>> \notin pairs
    BY <1>1 DEF InLine
<1> HIDE DEF pairs
<1>4. ASSUME NEW a \in kept, NEW b \in kept
      PROVE  <<a, b>> \in pairs <=> a # b /\ <<b, a>> \notin pairs
    <2>1. CASE a \in rest /\ b \in rest
        BY <1>1, <1>3, <2>1 DEF InLine
    <2>2. CASE a = key \/ b = key
        BY <1>3, <2>2
    <2> QED BY <2>1, <2>2
<1>5. ASSUME NEW a \in kept, NEW b \in kept, NEW c \in kept, <<a, b>> \in pairs, <<b, c>> \in pairs
      PROVE  <<a, c>> \in pairs
    <2>1. a \in rest /\ b \in rest
        BY <1>3, <1>5
    <2>2. CASE c \in rest
        BY <1>1, <1>3, <1>5, <2>1, <2>2 DEF InLine
    <2>3. CASE c = key
        BY <1>3, <2>1, <2>3
    <2> QED BY <2>2, <2>3
<1>6. InLine(kept, pairs)
    BY <1>2, <1>4, <1>5 DEF InLine
<1> QED BY <1>6 DEF pairs, Touched

LEMMA TrimmedInLine ==
    ASSUME UsedInOrder, NEW ps, Partitions(ps), NEW held, NEW key \in DOMAIN ps, NEW flags,
           DOMAIN ps \subseteq Hydrated \cup {key}, flags \cap DOMAIN ps = {}, Trimmed(ps, held, key, flags)
    PROVE  UsedInOrder'
<1> DEFINE gone == Victims(ps, held, key)
           kept == DOMAIN ps \ gone
<1>1. DOMAIN parts' = kept /\ evicted' = flags \cup gone /\ older' = Touched(kept, key)
    BY DEF Trimmed
<1>2. gone \subseteq DOMAIN ps \ {key}
    BY VictimsMakeRoom
<1>3. key \in kept
    BY <1>2
<1>4. InLine(kept, Touched(kept, key))
    BY <1>3, OneIsNewest DEF UsedInOrder
<1> QED BY <1>1, <1>4 DEF UsedInOrder, Hydrated

LEMMA OrderStep ==
    ASSUME VecInv, UsedInOrder, [VecNext]_vecVars
    PROVE  UsedInOrder'
<1>1. ASSUME NEW gone, Hydrated' = Hydrated \ gone, older' = Among(Hydrated \ gone),
             evicted' \subseteq evicted \cup gone
      PROVE  UsedInOrder'
    BY <1>1, SomeLeave DEF UsedInOrder
<1>2. ASSUME UNCHANGED <<older, evicted>>, Hydrated' = Hydrated
      PROVE  UsedInOrder'
    BY <1>2 DEF UsedInOrder, InLine
<1>3. ASSUME NEW key \in Keys, NEW id \in Ids, NEW size \in Sizes, Upsert(key, id, size)
      PROVE  UsedInOrder'
    <2>1. CASE key \in Hydrated
        <3> DEFINE ps == [parts EXCEPT ![key] = Upserted(@, id, size)]
        <3>1. DOMAIN ps = Hydrated
            BY DEF Hydrated
        <3>2. Partitions(ps)
            BY <2>1, UpsertIsSound DEF VecInv, Partitions, Hydrated
        <3>3. Trimmed(ps, used + ps[key].bytes - parts[key].bytes, key, evicted)
            BY <1>3, <2>1 DEF Upsert
        <3> HIDE DEF ps
        <3> QED BY <2>1, <3>1, <3>2, <3>3, TrimmedInLine DEF UsedInOrder
    <2>2. CASE key \notin Hydrated
        BY <1>2, <1>3, <2>2 DEF Upsert, Hydrated
    <2> QED BY <2>1, <2>2
<1>4. ASSUME NEW key \in Keys, NEW id \in Ids, RemoveVector(key, id)
      PROVE  UsedInOrder'
    <2>1. UNCHANGED <<older, evicted>> /\ DOMAIN parts' = DOMAIN parts
        BY <1>4 DEF RemoveVector, Hydrated
    <2> QED BY <1>2, <2>1 DEF Hydrated
<1>5. ASSUME NEW key \in Keys, DropPartition(key)
      PROVE  UsedInOrder'
    <2>1. Hydrated' = Hydrated \ {key} /\ older' = Among(Hydrated \ {key}) /\ evicted' = evicted \ {key}
        BY <1>5 DEF DropPartition, Without, Hydrated
    <2> QED BY <1>1, <2>1
<1>6. ASSUME NEW key \in Keys, Search(key)
      PROVE  UsedInOrder'
    <2>1. key \in Hydrated /\ Hydrated' = Hydrated /\ evicted' = evicted
              /\ older' = Touched(Hydrated, key)
        BY <1>6 DEF Search, Hydrated
    <2> QED BY <2>1, OneIsNewest DEF UsedInOrder
<1>7. ASSUME NEW key \in Keys, Hydrate(key)
      PROVE  UsedInOrder'
    <2> DEFINE built == building[key]
               held == IF key \in Hydrated THEN used - parts[key].bytes ELSE used
               ps == [k \in Hydrated \cup {key} |-> IF k = key THEN built ELSE parts[k]]
    <2>1. CASE built.bytes > Limit
        <3>1. /\ parts' = Without(key) /\ older' = Among(Hydrated \ {key})
              /\ evicted' = evicted \cup {key}
            BY <1>7, <2>1 DEF Hydrate
        <3>2. Hydrated' = Hydrated \ {key}
            BY <3>1 DEF Without, Hydrated
        <3> QED BY <1>1, <3>1, <3>2
    <2>2. CASE ~(built.bytes > Limit)
        <3>1. DOMAIN ps = Hydrated \cup {key} /\ key \in DOMAIN ps
            OBVIOUS
        <3>2. Partitions(ps)
            BY <1>7 DEF VecInv, Partitions, Hydrated, Hydrate
        <3>3. Trimmed(ps, held + built.bytes, key, evicted \ {key})
            BY <1>7, <2>2 DEF Hydrate
        <3> HIDE DEF ps, held, built
        <3> QED BY <3>1, <3>2, <3>3, TrimmedInLine DEF UsedInOrder
    <2> QED BY <2>1, <2>2
<1>8. CASE VecNext
    <2>1. PICK key \in Keys :
              \/ \E id \in Ids, size \in Sizes : Upsert(key, id, size)
              \/ \E id \in Ids : RemoveVector(key, id)
              \/ DropPartition(key) \/ SetPartitionTotal(key) \/ Search(key)
              \/ Build(key) \/ Hydrate(key)
        BY <1>8 DEF VecNext
    <2>2. CASE SetPartitionTotal(key) \/ Build(key)
        BY <1>2, <2>2 DEF SetPartitionTotal, Build, Hydrated
    <2> QED BY <1>3, <1>4, <1>5, <1>6, <1>7, <2>1, <2>2
<1>9. CASE UNCHANGED vecVars
    BY <1>2, <1>9 DEF vecVars, Hydrated
<1> QED BY <1>8, <1>9

\* Whatever calls an index gets, the partitions held are in one line, the one used longest ago
\* first, none twice and none missing, so that make_room always finds whom to evict; and a
\* partition held is never one that counts as evicted.
THEOREM HeldInOrderOfUse == VecSpec => []UsedInOrder
<1>1. VecInit => VecInv /\ UsedInOrder
    <2>1. VecInit => UsedInOrder
        BY DEF VecInit, UsedInOrder, InLine, Hydrated
    <2> QED BY <2>1, VecInitially
<1>2. VecInv /\ UsedInOrder /\ [VecNext]_vecVars => (VecInv /\ UsedInOrder)'
    BY VecStep, OrderStep
<1> QED BY <1>1, <1>2, PTL DEF VecSpec
=============================================================================
