-------------------------- MODULE SealedStoreProofs --------------------------
(***************************************************************************)
(* The sealed store for any number of columns, rows, keys, starts, kills   *)
(* and writes: no value is lost, a column recorded as sealed is sealed, a  *)
(* store recorded as compacted is clean, and an owner that resets its      *)
(* columns moves the recorded key last.                                    *)
(***************************************************************************)
EXTENDS SealedStore, FiniteSetTheorems, TLAPS

----------------------------------------------------------------------------
(* The inductive invariant                                                 *)

Owner ==
    [at : Phases, opener : Openers, ring : Rings \cup {NoKey}, mode : Modes, retired : BOOLEAN,
     i : Items, cursor : 0 .. NRows, sealed : BOOLEAN, unreadable : BOOLEAN, scrub : BOOLEAN,
     job : {"owed", "finish", "deferred"}]

Typed ==
    /\ TypeOK
    /\ owner \in Owner
    /\ written \in [Items -> [Rows -> Texts \cup {Unknown}]]
    /\ day \in 0 .. MaxDay /\ reader \in BOOLEAN /\ strays \in BOOLEAN
    /\ peer \in {"absent", "compat", "refreshed", "unhealthy"}

\* Who walks the columns holds a key and has recorded one; without a record nothing was
\* walked.
Keyed ==
    /\ owner.mode = "sealing" => owner.ring \in Rings /\ record.kcv # NoKey
    /\ owner.at \in {"reset", "owed", "reopen", "migrate", "batch", "sealItem"}
          => owner.mode = "sealing"
    /\ owner.at \in {"scrub", "gate", "confirm"} /\ owner.job = "owed" => owner.mode = "sealing"
    /\ owner.mode = "compat" /\ owner.at \notin {"down", "check"} => record.kcv = NoKey
    /\ record.kcv = NoKey => \A i \in Items : item[i] = NoItem

\* What a cell holds is what was last stored there, and opens there.
Holds(s, t, p) ==
    /\ s.form = "sealed" => s.place = p
    /\ s.form = "plain" => s.text \notin Lookalikes
    /\ t # Unknown => s.form # "null" /\ s.text = t

Values == \A i \in Items, r \in Rows : Holds(cell[i][r], written[i][r], Place(i, r))

\* Behind its cursor a column is sealed, but for what the peer wrote there since.
Clear(i, r) == cell[i][r].form \in {"plain", "escaped"}
Behind(i, r) == item[i].state = "sealed" \/ r <= item[i].cursor

Walked ==
    /\ \A i \in Items, r \in Rows : Clear(i, r) /\ Behind(i, r) => Place(i, r) \in late
    /\ owner.at = "batch" =>
           item[owner.i].state = "sealing" /\ item[owner.i].cursor = owner.cursor
    /\ owner.at = "sealItem" => \A r \in Rows : Clear(owner.i, r) => Place(owner.i, r) \in late

\* A scrub is owed while a column is walked, and what it has cleaned stays clean.
AllSealed == \A i \in Items : item[i].state = "sealed"

Clean == ~residue.wal /\ residue.free = 0 /\ ~residue.fragments

Scrubs ==
    /\ record.scrubbed \/ owner.at \in {"gate", "confirm"} => residue.free = 0
    /\ owner.at = "confirm" =>
           /\ ~residue.fragments
           /\ residue.wal /\ record.kcv # NoKey => strays
    /\ ~strays => late = {}
    /\ owner.at \in {"batch", "sealItem"} => record.state = "vacuum_pending"
    /\ record.state # "vacuum_pending" /\ record.kcv # NoKey /\ ~strays /\ AllSealed
          => Clean

\* An owner that found a retired key and reset every column has sealed all it walked since
\* under its own key, unless it met a value that does not open.
Current(i, r) == cell[i][r].form # "null" =>
                     cell[i][r].form = "sealed" /\ cell[i][r].key = owner.ring.current

Resealing == owner.opener = "core" /\ owner.retired

Moving ==
    /\ owner.retired => owner.mode = "sealing"
    /\ owner.at \in {"down", "check"} => owner.i = 1
    /\ owner.opener = "core" => peer = "absent"
    /\ Resealing /\ owner.at = "reset" => \A i \in Items : i < owner.i => item[i] = [state |-> "pending", cursor |-> 0]
    /\ Resealing /\ owner.at # "reset" /\ ~owner.unreadable =>
           /\ \A i \in Items, r \in Rows : Behind(i, r) \/ item[i].state = "none" => Current(i, r)
           /\ owner.at = "sealItem" => \A r \in Rows : Current(owner.i, r)

IInv == Typed /\ Keyed /\ Values /\ Walked /\ Scrubs /\ Moving

----------------------------------------------------------------------------
(* Values                                                                  *)

LEMMA PlaceType ==
    ASSUME NEW i \in Items, NEW r \in Rows
    PROVE  Place(i, r) \in Items \X Rows
    BY DEF Place

\* What an owner or the peer stores is that text, and opens at its place.
LEMMA StoredHolds ==
    ASSUME NEW mode \in {"sealing", "compat"}, NEW c, mode = "sealing" => c.current \in Keys,
           NEW t \in Texts, NEW p \in Items \X Rows
    PROVE  /\ StoreSealText(mode, c, t, p) \in Stored
           /\ Holds(StoreSealText(mode, c, t, p), t, p)
           /\ mode = "sealing" => StoreSealText(mode, c, t, p) = Sealed(t, c.current, p)
<1>1. CASE mode = "sealing"
    BY <1>1 DEF StoreSealText, SealText, Sealed, Stored, Holds
<1>2. CASE mode = "compat"
    BY <1>2 DEF StoreSealText, Escaped, Plain, Stored, Holds
<1> QED BY <1>1, <1>2

\* A cell that is walked keeps its text.  It is empty or sealed, under the current key if
\* it opened.
LEMMA ResealedHolds ==
    ASSUME NEW c, c.current \in Keys, NEW s \in Stored, NEW t, NEW p \in Items \X Rows,
           Holds(s, t, p)
    PROVE  /\ Resealed(c, s, p) \in Stored
           /\ Holds(Resealed(c, s, p), t, p)
           /\ Resealed(c, s, p).form \in {"null", "sealed"}
           /\ \/ Unreadable(c, s, p)
              \/ Resealed(c, s, p).form = "null"
              \/ Resealed(c, s, p).key = c.current
<1> USE DEF Resealed, Reseals, Unreadable, OpenText, Opened, NoText, LooksSealed, SealText, Holds
<1>1. CASE s = Null
    BY <1>1 DEF Null
<1>2. CASE s \in {Plain(text) : text \in Texts} \cup {Escaped(text) : text \in Texts}
    BY <1>2 DEF Plain, Escaped, Sealed, Stored
<1>3. ASSUME NEW text \in Texts, NEW k \in Keys, NEW q \in Items \X Rows, s = Sealed(text, k, q)
      PROVE  /\ Resealed(c, s, p) \in Stored
             /\ Holds(Resealed(c, s, p), t, p)
             /\ Resealed(c, s, p).form \in {"null", "sealed"}
             /\ \/ Unreadable(c, s, p)
                \/ Resealed(c, s, p).form = "null"
                \/ Resealed(c, s, p).key = c.current
    <2>1. s.form = "sealed" /\ s.text = text /\ s.key = k /\ s.place = q /\ q = p
        BY <1>3 DEF Sealed
    <2>2. CASE k \in {c.current} \cup c.retired
        <3>1. OpenText(c, s, p) = [ok |-> TRUE, text |-> text, reseal |-> k # c.current]
            BY <2>1, <2>2 DEF Opens
        <3>2. Resealed(c, s, p) = IF k # c.current THEN Sealed(text, c.current, p) ELSE s
            BY <2>1, <3>1
        <3> QED BY <2>1, <3>2 DEF Sealed, Stored
    <2>3. CASE k \notin {c.current} \cup c.retired
        <3>1. ~OpenText(c, s, p).ok
            BY <2>1, <2>3 DEF Opens
        <3>2. Resealed(c, s, p) = s /\ Unreadable(c, s, p)
            BY <2>1, <3>1
        <3> QED BY <2>1, <3>2
    <2> QED BY <2>2, <2>3
<1> QED BY <1>1, <1>2, <1>3 DEF Stored

\* The rows of a batch are the next ones, and a short batch reaches the last row.
LEMMA BatchAdvances ==
    ASSUME owner.cursor \in 0 .. NRows
    PROVE  /\ NextCursor \in 0 .. NRows /\ NextCursor >= owner.cursor
           /\ \A r \in Rows : r <= NextCursor => r <= owner.cursor \/ r \in BatchRows
           /\ Cardinality(BatchRows) < BatchSize =>
                  \A r \in Rows : r <= owner.cursor \/ r \in BatchRows
<1> USE StoreAssumption DEF Rows
<1> DEFINE m == IF owner.cursor + BatchSize <= NRows THEN owner.cursor + BatchSize ELSE NRows
<1>1. BatchRows = (owner.cursor + 1) .. m
    BY DEF BatchRows
<1>2. m \in Nat /\ m <= NRows /\ owner.cursor \in Nat /\ m >= owner.cursor
    OBVIOUS
<1>3. CASE m = owner.cursor
    <2>1. m = NRows
        BY <1>3
    <2>2. BatchRows = {}
        BY <1>1, <1>2, <1>3
    <2> QED BY <1>2, <1>3, <2>1, <2>2 DEF NextCursor
<1>4. CASE m > owner.cursor
    <2>1. m \in BatchRows /\ \A r \in BatchRows : r \in Nat /\ m >= r
        BY <1>1, <1>2, <1>4
    <2>2. Max(BatchRows) = m
        BY <2>1, <1>2 DEF Max
    <2>3. NextCursor = m
        BY <2>1, <2>2 DEF NextCursor
    <2>4. Cardinality(BatchRows) = m - owner.cursor
        <3> HIDE DEF m
        <3>1. owner.cursor + 1 \in Int /\ m \in Int /\ ~(owner.cursor + 1 > m)
            BY <1>2, <1>4
        <3>2. Cardinality((owner.cursor + 1) .. m) = m - (owner.cursor + 1) + 1
            BY <3>1, FS_Interval
        <3> QED BY <1>1, <1>2, <3>2
    <2>5. Cardinality(BatchRows) < BatchSize => m = NRows
        BY <2>4
    <2> QED BY <1>1, <1>2, <2>3, <2>5
<1> QED BY <1>2, <1>3, <1>4

----------------------------------------------------------------------------
(* The invariant holds at first, and each step keeps it                    *)

\* An owner that is down, or has just begun.
Begun(at, opener, ring) ==
    [at |-> at, opener |-> opener, ring |-> ring, mode |-> "compat", retired |-> FALSE,
     i |-> 1, cursor |-> 0, sealed |-> FALSE, unreadable |-> FALSE, scrub |-> FALSE,
     job |-> "owed"]

LEMMA BegunIs ==
    ASSUME NEW opener \in Openers, NEW at \in Phases, NEW ring \in Rings \cup {NoKey}
    PROVE  /\ Begun(at, opener, ring) \in Owner
           /\ Begun(at, opener, ring).at = at
           /\ Begun(at, opener, ring).opener = opener
           /\ Begun(at, opener, ring).ring = ring
           /\ Begun(at, opener, ring).mode = "compat"
           /\ Begun(at, opener, ring).i = 1
           /\ ~Begun(at, opener, ring).retired
<1>1. 1 \in Items /\ 0 \in 0 .. NRows
    BY StoreAssumption DEF Items
<1>2. Begun(at, opener, ring) \in Owner
    BY <1>1 DEF Begun, Owner, Modes
<1> QED BY <1>2 DEF Begun

LEMMA InitInv == Init => IInv
<1> SUFFICES ASSUME Init PROVE IInv
    OBVIOUS
<1>0. /\ item = [i \in Items |-> NoItem] /\ record = NoRecord
      /\ residue = [wal |-> FALSE, free |-> MaxChunks, fragments |-> TRUE]
      /\ peer = "absent" /\ ~reader /\ reader \in BOOLEAN /\ day = 0
      /\ late = {} /\ ~strays /\ strays \in BOOLEAN
    BY DEF Init
<1>1. PICK empty \in EmptyPlaces, lost \in LostPlaces, t \in Texts \ Lookalikes :
          cell = [i \in Items |-> [r \in Rows |-> LegacyCell(i, r, empty, lost, t)]]
    BY DEF Init
<1>2. \A i \in Items, r \in Rows :
          cell[i][r] \in {Null, Plain(t), Sealed(t, LostKey, Place(i, r))}
    BY <1>1 DEF LegacyCell
<1>3. \A i \in Items, r \in Rows : cell[i][r] \in Stored
    BY <1>2, PlaceType, StoreAssumption DEF Stored
<1>4. CellTypes
    <2>1. \A i \in Items : cell[i] = [r \in Rows |-> cell[i][r]]
        BY <1>1
    <2> QED BY <1>1, <1>3, <2>1 DEF CellTypes
<1>5. \A i \in Items, r \in Rows :
          written[i][r] = IF cell[i][r].form = "plain" THEN cell[i][r].text ELSE Unknown
    BY DEF Init
<1>6. PICK opener \in Openers : owner = [Down EXCEPT !.opener = opener]
    BY DEF Init
<1>7. 1 \in Items /\ NItems \in Nat /\ NRows \in Nat /\ MaxDay \in Nat /\ MaxChunks \in Nat
    BY StoreAssumption DEF Items
<1>8. owner \in Owner /\ owner.at = "down" /\ owner.mode = "compat" /\ owner.i = 1 /\ ~owner.retired
    <2>1. owner = Begun("down", opener, NoKey)
        BY <1>6 DEF Down, Begun
    <2>2. "down" \in Phases
        BY DEF Phases
    <2> QED BY <2>1, <2>2, BegunIs
<1>9. written \in [Items -> [Rows -> Texts \cup {Unknown}]]
    <2>1. \A i \in Items, r \in Rows : written[i][r] \in Texts \cup {Unknown}
        BY <1>2, <1>5 DEF Null, Plain, Sealed
    <2>2. written = [i \in Items |-> [r \in Rows |-> written[i][r]]]
        BY DEF Init
    <2> QED BY <2>1, <2>2
<1>10. Typed
    <2>1. item \in [Items -> [state : {"none", "pending", "sealing", "sealed"}, cursor : 0 .. NRows]]
        BY <1>0, <1>7 DEF NoItem
    <2>2. record \in [state : {"none", "ok", "vacuum_pending"}, kcv : Keys \cup {NoKey},
                      scrubbed : BOOLEAN, attempt : 0 .. NoAttempt]
        BY <1>0, <1>7 DEF NoRecord, NoAttempt
    <2>5. late \subseteq Items \X Rows /\ day \in 0 .. MaxDay /\ reader \in BOOLEAN
          /\ strays \in BOOLEAN /\ peer \in {"absent", "compat", "refreshed", "unhealthy"}
        BY <1>0, <1>7
    <2>3. residue \in [wal : BOOLEAN, free : 0 .. MaxChunks, fragments : BOOLEAN]
        BY <1>0, <1>7
    <2>4. owner.at \in Phases /\ owner.mode \in Modes
        BY <1>8 DEF Owner
    <2> QED BY <1>4, <1>8, <1>9, <2>1, <2>2, <2>3, <2>4, <2>5 DEF Typed, TypeOK
<1>11. Keyed
    BY <1>0, <1>8 DEF Keyed, NoRecord
<1>12. Values
    BY <1>2, <1>5 DEF Values, Holds, Null, Plain, Sealed
<1>13. Walked
    <2>1. \A i \in Items : item[i].state = "none" /\ item[i].cursor = 0
        BY <1>0 DEF NoItem
    <2>2. \A i \in Items, r \in Rows : ~Behind(i, r)
        BY <2>1, <1>7 DEF Behind, Rows
    <2> QED BY <1>8, <2>2 DEF Walked
<1>14. Scrubs
    BY <1>0, <1>8 DEF Scrubs, NoRecord
<1>15. Moving
    BY <1>0, <1>8 DEF Moving, Resealing
<1> QED BY <1>10, <1>11, <1>12, <1>13, <1>14, <1>15 DEF IInv

LEMMA StartStep ==
    ASSUME IInv, NEW ring \in Rings \cup {NoKey}, Start(owner.opener, ring)
    PROVE  IInv'
<1>1. /\ owner' = [Down EXCEPT !.at = "check", !.opener = owner.opener, !.ring = ring]
      /\ UNCHANGED <<disk, peer, reader, day, late, strays>>
    BY DEF Start
<1>2. owner' = Begun("check", owner.opener, ring)
    BY <1>1 DEF Down, Begun
<1>3. owner' \in Owner /\ owner'.at = "check" /\ owner'.mode = "compat" /\ owner'.i = 1
      /\ ~owner'.retired /\ owner'.opener = owner.opener
    <2>1. owner.opener \in Openers /\ "check" \in Phases
        BY DEF IInv, Typed, Owner, Phases
    <2> QED BY <1>2, <2>1, BegunIs
<1>4. UNCHANGED <<cell, item, record, residue, written, peer, reader, day, late, strays>>
    BY <1>1 DEF disk
<1> USE <1>3, <1>4 DEF IInv
<1>5. Typed'
    BY DEF Typed, TypeOK, CellTypes, Owner
<1>6. Keyed' /\ Values'
    BY DEF Keyed, Values
<1>7. Walked' /\ Scrubs'
    BY DEF Walked, Clear, Behind, Scrubs, AllSealed, Clean
<1>8. Moving'
    BY DEF Moving, Resealing
<1> QED BY <1>5, <1>6, <1>7, <1>8

LEMMA CheckStep ==
    ASSUME IInv, CheckKey
    PROVE  IInv'
<1>1. owner.at = "check" /\ UNCHANGED <<cell, item, comments, residue, peer, reader, day, late, strays, written>>
    BY DEF CheckKey, Others
<1> DEFINE keyed == owner.ring # NoKey
           fresh == record.kcv = NoKey
           match == IF fresh THEN "current" ELSE MatchKcv(owner.ring, record.kcv)
           mode == IF ~keyed THEN KeylessMode(record.kcv, NoKey)
                   ELSE IF match = "unknown" THEN "unhealthy" ELSE "sealing"
           retired == keyed /\ match = "retired"
           next == AfterCheck(owner.opener, mode, retired)
<1>2. owner' = [owner EXCEPT !.mode = mode, !.retired = retired, !.at = next]
    BY DEF CheckKey
<1>13. record' = IF keyed /\ fresh THEN WithKcv(record, owner.ring.current) ELSE record
    BY DEF CheckKey
<1>3. /\ mode \in Modes /\ retired \in BOOLEAN
      /\ mode = "sealing" => keyed
      /\ mode = "compat" => ~keyed /\ fresh
      /\ retired => mode = "sealing"
    BY DEF KeylessMode, Modes, MatchKcv
<1>4. /\ next \in {"reset", "owed", "comments", "serve"}
      /\ next \in {"reset", "owed"} <=> mode = "sealing"
      /\ next = "reset" <=> mode = "sealing" /\ owner.opener = "core" /\ retired
    BY DEF AfterCheck
<1> HIDE DEF mode, retired, next
<1>5. owner' \in Owner /\ owner'.at = next /\ owner'.mode = mode /\ owner'.ring = owner.ring
      /\ owner'.retired = retired /\ owner'.opener = owner.opener /\ owner'.i = 1
    BY <1>1, <1>2, <1>3, <1>4 DEF IInv, Typed, Moving, Owner, Phases
<1>6. keyed => owner.ring \in Rings /\ owner.ring.current \in Keys /\ owner.ring.current # NoKey
    BY StoreAssumption DEF IInv, Typed, Owner
<1>7. /\ record'.kcv = IF keyed /\ fresh THEN owner.ring.current ELSE record.kcv
      /\ record'.scrubbed => record.scrubbed
      /\ record' # record => item = [i \in Items |-> NoItem]
      /\ record' \in [state : {"none", "ok", "vacuum_pending"}, kcv : Keys \cup {NoKey},
                      scrubbed : BOOLEAN, attempt : 0 .. NoAttempt]
    <2>1. record' = IF ~(keyed /\ fresh) THEN record
                    ELSE IF record.state = "none"
                    THEN [state |-> "ok", kcv |-> owner.ring.current, scrubbed |-> FALSE,
                          attempt |-> NoAttempt]
                    ELSE [record EXCEPT !.kcv = owner.ring.current]
        <3>1. CASE keyed /\ fresh /\ record.state = "none"
            <4>1. record' = [NoRecord EXCEPT !.state = "ok", !.kcv = owner.ring.current]
                BY <1>13, <3>1 DEF WithKcv
            <4>2. record' = [state |-> "ok", kcv |-> owner.ring.current, scrubbed |-> FALSE,
                             attempt |-> NoAttempt]
                BY <4>1 DEF NoRecord
            <4> QED BY <3>1, <4>2
        <3>2. CASE ~(keyed /\ fresh /\ record.state = "none")
            BY <1>13, <3>2 DEF WithKcv
        <3> QED BY <3>1, <3>2
    <2>2. record \in [state : {"none", "ok", "vacuum_pending"}, kcv : Keys \cup {NoKey},
                      scrubbed : BOOLEAN, attempt : 0 .. NoAttempt]
        BY DEF IInv, Typed, TypeOK
    <2>3. record' # record => item = [i \in Items |-> NoItem]
        BY <2>1 DEF IInv, Keyed, Typed, TypeOK
    <2> QED BY <1>6, <2>1, <2>2, <2>3, StoreAssumption DEF NoAttempt
<1> USE <1>1 DEF IInv
<1>8. Typed'
    BY <1>5, <1>7 DEF Typed, TypeOK, CellTypes, Owner
<1>9. Keyed'
    BY <1>3, <1>4, <1>5, <1>6, <1>7 DEF Keyed
<1>10. Values' /\ Walked'
    BY <1>4, <1>5 DEF Values, Walked, Clear, Behind
<1>11. Scrubs'
    <2>1. record' # record => ~AllSealed
        BY <1>7, StoreAssumption DEF AllSealed, NoItem, Items
    <2> QED BY <1>4, <1>5, <1>7, <2>1 DEF Scrubs, AllSealed, Clean
<1>12. Moving'
    BY <1>3, <1>4, <1>5 DEF Moving, Resealing, Items
<1> QED BY <1>8, <1>9, <1>10, <1>11, <1>12

ItemTypes == [Items -> [state : {"none", "pending", "sealing", "sealed"}, cursor : 0 .. NRows]]

LEMMA ItemSet ==
    ASSUME item \in ItemTypes, NEW i \in Items, NEW c \in 0 .. NRows,
           NEW state \in {"none", "pending", "sealing", "sealed"}, SetItem(i, state, c)
    PROVE  /\ item' \in ItemTypes
           /\ item'[i].state = state /\ item'[i].cursor = c
           /\ item'[i] = [state |-> state, cursor |-> c]
           /\ \A j \in Items : j # i => item'[j] = item[j]
<1>1. item' = [item EXCEPT ![i] = [state |-> state, cursor |-> c]]
    BY DEF SetItem
<1>2. [state |-> state, cursor |-> c] \in [state : {"none", "pending", "sealing", "sealed"}, cursor : 0 .. NRows]
    OBVIOUS
<1>3. item'[i] = [state |-> state, cursor |-> c]
    BY <1>1 DEF ItemTypes
<1>4. item' \in ItemTypes
    BY <1>1, <1>2 DEF ItemTypes
<1>5. item'[i].state = state /\ item'[i].cursor = c
    BY <1>3
<1>6. \A j \in Items : j # i => item'[j] = item[j]
    BY <1>1 DEF ItemTypes
<1> QED BY <1>3, <1>4, <1>5, <1>6

\* The owner goes on to another stage, or to another column.
LEMMA OwnerMoves ==
    ASSUME owner \in Owner, NEW at \in Phases, NEW i \in Items,
           owner' = [owner EXCEPT !.at = at, !.i = i]
    PROVE  /\ owner' \in Owner /\ owner'.at = at /\ owner'.i = i
           /\ owner'.opener = owner.opener /\ owner'.ring = owner.ring
           /\ owner'.mode = owner.mode /\ owner'.retired = owner.retired
           /\ owner'.cursor = owner.cursor /\ owner'.unreadable = owner.unreadable
           /\ owner'.job = owner.job
BY DEF Owner

LEMMA WalksOn ==
    ASSUME owner \in Owner, NEW at \in Phases,
           owner' = IF owner.i = NItems THEN [owner EXCEPT !.at = at, !.i = 1]
                    ELSE [owner EXCEPT !.i = @ + 1]
    PROVE  /\ owner' \in Owner
           /\ owner'.opener = owner.opener /\ owner'.ring = owner.ring
           /\ owner'.mode = owner.mode /\ owner'.retired = owner.retired
           /\ owner'.unreadable = owner.unreadable
           /\ \/ owner.i = NItems /\ owner'.at = at
              \/ owner.i # NItems /\ owner'.at = owner.at /\ owner'.i = owner.i + 1
<1>1. owner.i \in Items /\ owner.at \in Phases
    BY DEF Owner
<1>2. CASE owner.i = NItems
    <2>1. 1 \in Items
        BY StoreAssumption DEF Items
    <2> QED BY <1>2, <2>1, OwnerMoves
<1>3. CASE owner.i # NItems
    <2>1. owner.i + 1 \in Items
        BY <1>1, <1>3, StoreAssumption DEF Items
    <2>2. owner' = [owner EXCEPT !.at = owner.at, !.i = owner.i + 1]
        BY <1>3 DEF Owner
    <2> QED BY <1>1, <1>3, <2>1, <2>2, OwnerMoves
<1> QED BY <1>2, <1>3

LEMMA ResetStep ==
    ASSUME IInv, ResetItem
    PROVE  IInv'
<1>1. /\ owner.at = "reset" /\ item' = [item EXCEPT ![owner.i] = [state |-> "pending", cursor |-> 0]]
      /\ owner' = IF owner.i = NItems THEN [owner EXCEPT !.at = "owed", !.i = 1]
                  ELSE [owner EXCEPT !.i = @ + 1]
      /\ UNCHANGED <<cell, record, residue, peer, reader, day, late, strays, written>>
    BY DEF ResetItem, SetItem, Others
<1>2. owner.i \in 1 .. NItems /\ NItems \in Nat /\ NRows \in Nat /\ NItems > 0
    BY StoreAssumption DEF IInv, Typed, Owner, Items
<1>3. /\ owner' \in Owner /\ owner'.ring = owner.ring /\ owner'.mode = owner.mode
      /\ owner'.retired = owner.retired /\ owner'.opener = owner.opener
      /\ \/ owner.i = NItems /\ owner'.at = "owed"
         \/ owner.i # NItems /\ owner'.at = "reset" /\ owner'.i = owner.i + 1
    <2>1. "owed" \in Phases
        BY DEF Phases
    <2> QED BY <1>1, <2>1, WalksOn DEF IInv, Typed
<1>4. /\ item'[owner.i] = [state |-> "pending", cursor |-> 0]
      /\ \A j \in Items : j # owner.i => item'[j] = item[j]
      /\ item' \in ItemTypes
      /\ ~AllSealed'
    <2>1. owner.i \in Items /\ item \in ItemTypes /\ 0 \in 0 .. NRows /\ SetItem(owner.i, "pending", 0)
        BY <1>2 DEF IInv, Typed, TypeOK, ItemTypes, Items, ResetItem
    <2>2. item'[owner.i].state = "pending"
        BY <2>1, ItemSet
    <2> QED BY <2>1, <2>2, ItemSet DEF AllSealed
<1>5. \A j \in Items, r \in Rows : Behind(j, r)' => Behind(j, r)
    BY <1>2, <1>4 DEF Behind, Rows
<1> USE <1>1, <1>3 DEF IInv
<1>6. Typed'
    BY <1>4 DEF Typed, TypeOK, CellTypes, Owner, ItemTypes
<1>7. Keyed' /\ Values'
    BY DEF Keyed, Values
<1>8. Walked' /\ Scrubs'
    BY <1>4, <1>5 DEF Walked, Clear, Scrubs
<1>9. Moving'
    <2>1. \A j \in Items : j <= owner.i => j < owner.i \/ j = owner.i
        BY <1>2 DEF Items
    <2>2. Resealing => \A j \in Items : j <= owner.i => item'[j] = [state |-> "pending", cursor |-> 0]
        BY <1>4, <2>1 DEF Moving
    <2>3. Resealing /\ owner.i = NItems =>
             \A j \in Items, r \in Rows : ~Behind(j, r)' /\ item'[j].state # "none"
        BY <1>2, <2>2 DEF Items, Rows, Behind
    <2>4. \A j \in Items : j < owner.i + 1 => j <= owner.i
        BY <1>2 DEF Items
    <2> QED BY <2>2, <2>3, <2>4 DEF Moving, Resealing
<1> QED BY <1>6, <1>7, <1>8, <1>9

LEMMA CommentsStep ==
    ASSUME IInv, ClearComments
    PROVE  IInv'
<1>1. /\ owner.at = "comments"
      /\ owner' = [owner EXCEPT
                      !.scrub = (comments = "kept"),
                      !.at = IF owner.mode = "sealing" THEN "migrate"
                             ELSE IF comments = "kept" THEN "finish" ELSE "serve"]
      /\ UNCHANGED <<cell, item, record, residue, peer, reader, day, late, strays, written>>
    BY DEF ClearComments, Others
<1>2. /\ owner' \in Owner /\ owner'.ring = owner.ring /\ owner'.mode = owner.mode
      /\ owner'.retired = owner.retired /\ owner'.opener = owner.opener
      /\ owner'.unreadable = owner.unreadable
      /\ owner'.at \in {"migrate", "finish", "serve"}
      /\ owner'.at = "migrate" => owner.mode = "sealing"
    BY <1>1 DEF IInv, Typed, Owner, Phases
<1> USE <1>1, <1>2 DEF IInv
<1>3. Typed'
    BY DEF Typed, TypeOK, CellTypes, Owner
<1>4. Keyed' /\ Values'
    BY DEF Keyed, Values
<1>5. Walked' /\ Scrubs'
    BY DEF Walked, Clear, Behind, Scrubs, AllSealed, Clean
<1>6. Moving'
    BY DEF Moving, Resealing, Behind, Current
<1> QED BY <1>3, <1>4, <1>5, <1>6

LEMMA ReopenStep ==
    ASSUME IInv, ReopenItem
    PROVE  IInv'
<1>1. /\ owner.at = "reopen"
      /\ owner' = IF owner.i = NItems THEN [owner EXCEPT !.at = "migrate", !.i = 1]
                  ELSE [owner EXCEPT !.i = @ + 1]
      /\ late' = IF item[owner.i].state = "sealed" THEN late \ ({owner.i} \X Rows) ELSE late
      /\ UNCHANGED <<cell, record, residue, peer, reader, day, strays, written>>
    BY DEF ReopenItem
<1>2. owner.i \in 1 .. NItems /\ NItems \in Nat /\ NRows \in Nat /\ NItems > 0
    BY StoreAssumption DEF IInv, Typed, Owner, Items
<1>3. /\ owner' \in Owner /\ owner'.ring = owner.ring /\ owner'.mode = owner.mode
      /\ owner'.retired = owner.retired /\ owner'.opener = owner.opener
      /\ owner'.unreadable = owner.unreadable
      /\ owner'.at \in {"migrate", "reopen"}
    <2>1. "migrate" \in Phases
        BY DEF Phases
    <2> QED BY <1>1, <2>1, WalksOn DEF IInv, Typed
<1>4. \/ /\ item[owner.i].state = "sealed" /\ HoldsPlaintext(owner.i)
         /\ SetItem(owner.i, "pending", 0)
      \/ /\ item[owner.i].state = "sealed" => ~HoldsPlaintext(owner.i)
         /\ item' = item
    BY DEF ReopenItem
<1>5. /\ item' \in ItemTypes
      /\ \A j \in Items : j # owner.i => item'[j] = item[j]
      /\ \/ item' = item /\ (item[owner.i].state = "sealed" => ~HoldsPlaintext(owner.i))
         \/ item'[owner.i].state = "pending" /\ item'[owner.i].cursor = 0
    <2>1. owner.i \in Items /\ item \in ItemTypes /\ 0 \in 0 .. NRows
        BY <1>2 DEF IInv, Typed, TypeOK, ItemTypes, Items
    <2> QED BY <1>4, <2>1, ItemSet
<1>6. \A j \in Items, r \in Rows : Behind(j, r)' => Behind(j, r) /\ item'[j] = item[j]
    <2>1. \A r \in Rows : r \in Nat /\ r > 0
        BY <1>2 DEF Rows
    <2> QED BY <1>5, <2>1 DEF Behind
<1>7. \A j \in Items, r \in Rows :
          j = owner.i /\ item[j].state = "sealed" /\ Behind(j, r)' => ~Clear(j, r)
    <2> SUFFICES ASSUME NEW j \in Items, NEW r \in Rows, j = owner.i, item[j].state = "sealed",
                        Behind(j, r)', Clear(j, r)
                 PROVE  FALSE
        OBVIOUS
    <2>2. r \in Nat /\ r > 0
        BY <1>2 DEF Rows
    <2>3. ~HoldsPlaintext(j)
        BY <1>5, <2>2 DEF Behind
    <2>4. LooksSealed(cell[j][r])
        BY <2>3 DEF HoldsPlaintext, Clear
    <2> QED BY <2>4 DEF LooksSealed, Clear, IInv, Values, Holds
<1> USE <1>1, <1>3 DEF IInv
<1>8. Typed'
    BY <1>5 DEF Typed, TypeOK, CellTypes, Owner, ItemTypes
<1>9. Keyed'
    BY DEF Keyed
<1>10. Values'
    BY DEF Values
<1>11. Walked'
    <2>1. \A j \in Items, r \in Rows : j # owner.i /\ Place(j, r) \in late => Place(j, r) \in late'
        BY DEF Place
    <2>2. \A j \in Items, r \in Rows : Clear(j, r)' => Clear(j, r)
        BY DEF Clear
    <2>3. item[owner.i].state # "sealed" => late' = late
        OBVIOUS
    <2>4. ASSUME NEW j \in Items, NEW r \in Rows, Clear(j, r)', Behind(j, r)'
          PROVE  Place(j, r) \in late'
        <3>1. Clear(j, r) /\ Behind(j, r) /\ Place(j, r) \in late
            BY <1>6, <2>2, <2>4 DEF Walked
        <3> QED BY <1>7, <2>1, <2>3, <2>4, <3>1
    <2> QED BY <2>4 DEF Walked
<1>12. Scrubs'
    <2>1. AllSealed' => AllSealed
        BY <1>2, <1>5 DEF AllSealed, Items
    <2> QED BY <2>1 DEF Scrubs, Clean
<1>13. Moving'
    <2>1. \A j \in Items : item'[j].state = "none" => item[j].state = "none"
        BY <1>5
    <2> QED BY <1>6, <2>1 DEF Moving, Resealing, Current
<1> QED BY <1>8, <1>9, <1>10, <1>11, <1>12, <1>13

RecordTypes == [state : {"none", "ok", "vacuum_pending"}, kcv : Keys \cup {NoKey},
                scrubbed : BOOLEAN, attempt : 0 .. NoAttempt]

\* What is written of the scrub leaves the recorded key alone.
LEMMA WithStateIs ==
    ASSUME NEW rec \in RecordTypes, NEW state \in {"none", "ok", "vacuum_pending"},
           NEW scrubbed \in BOOLEAN, NEW attempt \in 0 .. NoAttempt
    PROVE  /\ WithState(rec, state, scrubbed, attempt) \in RecordTypes
           /\ WithState(rec, state, scrubbed, attempt).state = state
           /\ WithState(rec, state, scrubbed, attempt).scrubbed = scrubbed
           /\ WithState(rec, state, scrubbed, attempt).kcv = rec.kcv
BY DEF WithState, RecordTypes

\* The owner has finished with a column.
LEMMA NextItemIs ==
    ASSUME owner \in Owner, owner' = NextItem(owner)
    PROVE  /\ owner' \in Owner
           /\ owner'.opener = owner.opener /\ owner'.ring = owner.ring
           /\ owner'.mode = owner.mode /\ owner'.retired = owner.retired
           /\ owner'.unreadable = owner.unreadable
           /\ owner'.at \in {"finish", "serve", "migrate"}
           /\ owner'.at = "migrate" => owner.i # NItems
<1>1. owner.i \in Items /\ "migrate" \in Phases /\ AfterMigration \in Phases
      /\ AfterMigration \in {"finish", "serve"}
    BY DEF Owner, Phases, AfterMigration
<1>2. CASE owner.i = NItems
    <2>1. 1 \in Items
        BY StoreAssumption DEF Items
    <2>2. owner' = [owner EXCEPT !.at = AfterMigration, !.i = 1]
        BY <1>2 DEF NextItem
    <2> QED BY <1>1, <1>2, <2>1, <2>2, OwnerMoves
<1>3. CASE owner.i # NItems
    <2>1. owner.i + 1 \in Items
        BY <1>1, <1>3, StoreAssumption DEF Items
    <2>2. owner' = [owner EXCEPT !.at = "migrate", !.i = owner.i + 1]
        BY <1>3 DEF NextItem, Owner
    <2> QED BY <1>1, <1>3, <2>1, <2>2, OwnerMoves
<1> QED BY <1>2, <1>3

LEMMA SkipStep ==
    ASSUME IInv, SkipItem
    PROVE  IInv'
<1>1. owner.at = "migrate" /\ owner' = NextItem(owner)
      /\ UNCHANGED <<cell, item, record, residue, peer, reader, day, late, strays, written>>
    BY DEF SkipItem, Others, disk
<1>2. /\ owner' \in Owner
      /\ owner'.opener = owner.opener /\ owner'.ring = owner.ring
      /\ owner'.mode = owner.mode /\ owner'.retired = owner.retired
      /\ owner'.unreadable = owner.unreadable
      /\ owner'.at \in {"finish", "serve", "migrate"}
    BY <1>1, NextItemIs DEF IInv, Typed
<1> USE <1>1, <1>2 DEF IInv
<1>3. Typed'
    BY DEF Typed, TypeOK, CellTypes, Owner
<1>4. Keyed' /\ Values'
    BY DEF Keyed, Values
<1>5. Walked' /\ Scrubs'
    BY DEF Walked, Clear, Behind, Scrubs, AllSealed, Clean
<1>6. Moving'
    BY DEF Moving, Resealing, Behind, Current
<1> QED BY <1>3, <1>4, <1>5, <1>6

LEMMA StartItemStep ==
    ASSUME IInv, StartItem
    PROVE  IInv'
<1>1. /\ owner.at = "migrate" /\ item[owner.i].state # "sealed"
      /\ record' = ScrubOwed(record)
      /\ SetItem(owner.i, "sealing", item[owner.i].cursor)
      /\ owner' = [owner EXCEPT !.at = "batch", !.cursor = item[owner.i].cursor]
      /\ UNCHANGED <<cell, residue, peer, reader, day, late, strays, written>>
    BY DEF StartItem, Others
<1>2. owner.i \in Items /\ item \in ItemTypes /\ item[owner.i].cursor \in 0 .. NRows
    <2>1. owner.i \in Items /\ item \in ItemTypes
        BY DEF IInv, Typed, TypeOK, ItemTypes, Owner
    <2>2. item[owner.i] \in [state : {"none", "pending", "sealing", "sealed"}, cursor : 0 .. NRows]
        BY <2>1 DEF ItemTypes
    <2> QED BY <2>1, <2>2
<1>3. /\ owner' \in Owner /\ owner'.at = "batch" /\ owner'.cursor = item[owner.i].cursor
      /\ owner'.opener = owner.opener /\ owner'.ring = owner.ring /\ owner'.i = owner.i
      /\ owner'.mode = owner.mode /\ owner'.retired = owner.retired
      /\ owner'.unreadable = owner.unreadable
    BY <1>1, <1>2 DEF IInv, Typed, Owner, Phases
<1>4. /\ item' \in ItemTypes
      /\ item'[owner.i].state = "sealing" /\ item'[owner.i].cursor = item[owner.i].cursor
      /\ \A j \in Items : j # owner.i => item'[j] = item[j]
    BY <1>1, <1>2, ItemSet
<1>5. /\ record' \in RecordTypes /\ record'.state = "vacuum_pending" /\ ~record'.scrubbed
      /\ record'.kcv = record.kcv
    <2>1. record \in RecordTypes
        BY DEF IInv, Typed, TypeOK, RecordTypes
    <2>2. NoAttempt \in 0 .. NoAttempt
        BY StoreAssumption DEF NoAttempt
    <2>3. CASE record.state = "vacuum_pending"
        BY <1>1, <2>1, <2>3 DEF ScrubOwed, RecordTypes
    <2>4. CASE record.state # "vacuum_pending"
        <3>1. record' = WithState(record, "vacuum_pending", FALSE, NoAttempt)
            BY <1>1, <2>4 DEF ScrubOwed, Pending
        <3> QED BY <2>1, <2>2, <3>1 DEF WithState, RecordTypes
    <2> QED BY <2>3, <2>4
<1>6. \A j \in Items, r \in Rows : Behind(j, r)' => Behind(j, r)
    BY <1>4 DEF Behind
<1>7. \A j \in Items : item'[j].state = "none" => item[j].state = "none"
    BY <1>4
<1> USE <1>1, <1>2, <1>3 DEF IInv
<1>8. Typed'
    BY <1>4, <1>5 DEF Typed, TypeOK, CellTypes, Owner, ItemTypes, RecordTypes
<1>9. Keyed' /\ Values'
    BY <1>5 DEF Keyed, Values
<1>10. Walked'
    BY <1>4, <1>6 DEF Walked, Clear
<1>11. Scrubs'
    BY <1>5 DEF Scrubs
<1>12. Moving'
    BY <1>6, <1>7 DEF Moving, Resealing, Current
<1> QED BY <1>8, <1>9, <1>10, <1>11, <1>12

LEMMA BatchStep ==
    ASSUME IInv, SealBatch
    PROVE  IInv'
<1> DEFINE i == owner.i
           c == owner.ring
           next == NextCursor
           resealed == {r \in BatchRows : Reseals(c, cell[i][r], Place(i, r))}
           unread == \E r \in BatchRows : Unreadable(c, cell[i][r], Place(i, r))
           full == Cardinality(BatchRows) < BatchSize
<1>1. /\ owner.at = "batch"
      /\ cell' = [cell EXCEPT ![i] = [r \in Rows |->
                    IF r \in BatchRows THEN Resealed(c, @[r], Place(i, r)) ELSE @[r]]]
      /\ residue' = [residue EXCEPT !.wal = @ \/ \E r \in resealed : cell[i][r].form # "sealed"]
      /\ SetItem(i, "sealing", next)
      /\ owner' = [owner EXCEPT
            !.cursor = next,
            !.sealed = @ \/ resealed # {},
            !.unreadable = @ \/ unread,
            !.at = IF full THEN "sealItem" ELSE "batch"]
      /\ UNCHANGED <<record, peer, reader, day, late, strays, written>>
    BY DEF SealBatch, Others
<1>2. i \in Items /\ item \in ItemTypes /\ owner \in Owner /\ owner.cursor \in 0 .. NRows
      /\ item[i].state = "sealing" /\ item[i].cursor = owner.cursor
    BY <1>1 DEF IInv, Typed, TypeOK, ItemTypes, Owner, Walked
<1>3. /\ next \in 0 .. NRows /\ next >= owner.cursor
      /\ \A r \in Rows : r <= next => r <= owner.cursor \/ r \in BatchRows
      /\ full => \A r \in Rows : r <= owner.cursor \/ r \in BatchRows
      /\ BatchRows \subseteq Rows
    BY <1>2, BatchAdvances DEF BatchRows
<1> HIDE DEF next, full, unread
<1>4. /\ owner' \in Owner /\ owner'.i = i /\ owner'.cursor = next
      /\ owner'.opener = owner.opener /\ owner'.ring = owner.ring
      /\ owner'.mode = owner.mode /\ owner'.retired = owner.retired
      /\ owner'.unreadable = (owner.unreadable \/ unread)
      /\ owner'.at = IF full THEN "sealItem" ELSE "batch"
    <2>1. unread \in BOOLEAN
        BY DEF unread
    <2> HIDE DEF resealed
    <2> QED BY <1>1, <1>2, <1>3, <2>1 DEF Owner, Phases
<1>5. /\ item' \in ItemTypes
      /\ item'[i].state = "sealing" /\ item'[i].cursor = next
      /\ \A j \in Items : j # i => item'[j] = item[j]
    BY <1>1, <1>2, <1>3, ItemSet
<1>6. c \in Rings /\ c.current \in Keys /\ record.kcv # NoKey /\ owner.mode = "sealing"
    BY <1>1, StoreAssumption DEF IInv, Keyed
<1>7. \A j \in Items, r \in Rows :
          cell'[j][r] = IF j = i /\ r \in BatchRows THEN Resealed(c, cell[j][r], Place(j, r))
                        ELSE cell[j][r]
    BY <1>1, <1>2 DEF IInv, Typed, TypeOK, CellTypes
<1>8. \A j \in Items, r \in Rows : cell[j][r] \in Stored /\ Holds(cell[j][r], written[j][r], Place(j, r))
    BY DEF IInv, Typed, TypeOK, CellTypes, Values
<1>9. \A j \in Items, r \in Rows :
          cell'[j][r] \in Stored /\ Holds(cell'[j][r], written[j][r], Place(j, r))
    <2> SUFFICES ASSUME NEW j \in Items, NEW r \in Rows
                 PROVE  cell'[j][r] \in Stored /\ Holds(cell'[j][r], written[j][r], Place(j, r))
        OBVIOUS
    <2>1. /\ Resealed(c, cell[j][r], Place(j, r)) \in Stored
          /\ Holds(Resealed(c, cell[j][r], Place(j, r)), written[j][r], Place(j, r))
        BY <1>6, <1>8, ResealedHolds, PlaceType
    <2> QED BY <1>7, <1>8, <2>1
<1>10. \A r \in BatchRows :
          /\ cell'[i][r].form \in {"null", "sealed"}
          /\ ~unread => cell'[i][r].form = "null" \/ cell'[i][r].key = c.current
    <2> SUFFICES ASSUME NEW r \in BatchRows
                 PROVE  /\ cell'[i][r].form \in {"null", "sealed"}
                        /\ \/ Unreadable(c, cell[i][r], Place(i, r))
                           \/ cell'[i][r].form = "null"
                           \/ cell'[i][r].key = c.current
        BY DEF unread
    <2>1. i \in Items /\ r \in Rows
        BY <1>2, <1>3
    <2>2. cell'[i][r] = Resealed(c, cell[i][r], Place(i, r))
        BY <1>7, <2>1
    <2>3. /\ cell[i][r] \in Stored /\ Holds(cell[i][r], written[i][r], Place(i, r))
          /\ Place(i, r) \in Items \X Rows
        BY <1>8, <2>1, PlaceType
    <2> HIDE DEF c
    <2> QED BY <1>6, <2>2, <2>3, ResealedHolds
<1>11. CellTypes'
    BY <1>1, <1>2, <1>7, <1>9 DEF IInv, Typed, TypeOK, CellTypes
<1>12. \A j \in Items, r \in Rows : j = i /\ r \in BatchRows => ~Clear(j, r)'
    BY <1>10 DEF Clear
<1>13. \A j \in Items, r \in Rows :
          (j = i => r \notin BatchRows) => (Clear(j, r)' <=> Clear(j, r)) /\ (Current(j, r)' <=> Current(j, r))
    BY <1>4, <1>7 DEF Clear, Current
<1>14. \A j \in Items, r \in Rows :
          /\ Behind(j, r)' => Behind(j, r) \/ (j = i /\ r \in BatchRows)
          /\ owner'.at = "sealItem" /\ j = i => Behind(j, r) \/ r \in BatchRows
    <2>1. \A r \in Rows : r <= next => r <= owner.cursor \/ r \in BatchRows
        BY <1>3
    <2> QED BY <1>2, <1>3, <1>4, <1>5 DEF Behind
<1>15. ~unread => \A j \in Items, r \in Rows : j = i /\ r \in BatchRows => Current(j, r)'
    BY <1>4, <1>10 DEF Current
<1> USE DEF IInv
<1>16. Typed'
    <2>1. residue' \in [wal : BOOLEAN, free : 0 .. MaxChunks, fragments : BOOLEAN]
        <3> HIDE DEF resealed
        <3> QED BY <1>1 DEF Typed, TypeOK
    <2> QED BY <1>1, <1>4, <1>5, <1>11, <2>1 DEF Typed, TypeOK, Owner, ItemTypes
<1>17. Keyed' /\ Values'
    BY <1>1, <1>4, <1>6, <1>9 DEF Keyed, Values
<1>18. Walked'
    BY <1>1, <1>2, <1>4, <1>5, <1>12, <1>13, <1>14 DEF Walked
<1>19. Scrubs'
    <2>1. residue'.free = residue.free
        <3> HIDE DEF resealed
        <3> QED BY <1>1 DEF Typed, TypeOK
    <2> QED BY <1>1, <1>4, <2>1 DEF Scrubs
<1>20. Moving'
    <2>1. owner'.at # "reset" /\ owner'.at # "down" /\ owner'.at # "check"
        BY <1>4
    <2>2. \A j \in Items : item'[j].state = "none" => item[j].state = "none"
        BY <1>5
    <2>3. Resealing' /\ ~owner'.unreadable => Resealing /\ owner.at # "reset" /\ ~owner.unreadable /\ ~unread
        BY <1>1, <1>4 DEF Resealing
    <2> QED BY <1>1, <1>2, <1>4, <1>13, <1>14, <1>15, <2>1, <2>2, <2>3 DEF Moving
<1> QED BY <1>16, <1>17, <1>18, <1>19, <1>20

LEMMA SealItemStep ==
    ASSUME IInv, SealItem
    PROVE  IInv'
<1>1. /\ owner.at = "sealItem" /\ SetItem(owner.i, "sealed", 0) /\ owner' = NextItem(owner)
      /\ record' = IF owner.retired /\ ~owner.unreadable /\ AllItemsSealed(item')
                   THEN WithKcv(record, owner.ring.current) ELSE record
      /\ UNCHANGED <<cell, residue, peer, reader, day, late, strays, written>>
    BY DEF SealItem, Others
<1>2. /\ owner' \in Owner
      /\ owner'.opener = owner.opener /\ owner'.ring = owner.ring
      /\ owner'.mode = owner.mode /\ owner'.retired = owner.retired
      /\ owner'.unreadable = owner.unreadable
      /\ owner'.at \in {"finish", "serve", "migrate"}
    BY <1>1, NextItemIs DEF IInv, Typed
<1>3. /\ owner.i \in Items /\ item' \in ItemTypes /\ item'[owner.i].state = "sealed"
      /\ \A j \in Items : j # owner.i => item'[j] = item[j]
    <2>1. owner.i \in Items /\ item \in ItemTypes /\ 0 \in 0 .. NRows
        BY StoreAssumption DEF IInv, Typed, TypeOK, ItemTypes, Owner
    <2> QED BY <1>1, <2>1, ItemSet
<1>4. /\ record' \in RecordTypes /\ record'.kcv # NoKey
      /\ record'.state = record.state /\ record'.scrubbed = record.scrubbed
      /\ record.state = "vacuum_pending"
    <2>1. record \in RecordTypes /\ record.state = "vacuum_pending" /\ record.kcv # NoKey
          /\ owner.ring.current \in Keys /\ owner.ring.current # NoKey
        BY <1>1, StoreAssumption DEF IInv, Typed, TypeOK, RecordTypes, Keyed, Scrubs
    <2> QED BY <1>1, <2>1 DEF WithKcv, RecordTypes
<1>5. \A j \in Items, r \in Rows : Behind(j, r)' => Behind(j, r) \/ j = owner.i
    BY <1>3 DEF Behind
<1>6. \A j \in Items : item'[j].state = "none" => item[j].state = "none"
    BY <1>3
<1> USE <1>1, <1>2 DEF IInv
<1>7. Typed'
    BY <1>3, <1>4 DEF Typed, TypeOK, CellTypes, Owner, ItemTypes, RecordTypes
<1>8. Keyed' /\ Values'
    BY <1>4 DEF Keyed, Values
<1>9. Walked'
    BY <1>5 DEF Walked, Clear
<1>10. Scrubs'
    BY <1>4 DEF Scrubs
<1>11. Moving'
    BY <1>5, <1>6 DEF Moving, Resealing, Current
<1> QED BY <1>7, <1>8, <1>9, <1>10, <1>11

----------------------------------------------------------------------------
(* Scrubbing and compaction                                                *)

ResidueTypes == [wal : BOOLEAN, free : 0 .. MaxChunks, fragments : BOOLEAN]

\* A job touches no cell and no column, and leaves the recorded key alone.
LEMMA JobKeeps ==
    ASSUME IInv, UNCHANGED <<cell, item>>, Others,
           record' \in RecordTypes, record'.kcv = record.kcv, residue' \in ResidueTypes,
           NEW at \in {"comments", "reopen", "migrate", "serve", "scrub", "gate", "confirm"},
           NEW job \in {"owed", "finish", "deferred"},
           owner' = [owner EXCEPT !.at = at, !.job = job],
           owner.at \notin {"down", "check", "reset"},
           at \in {"reopen", "migrate"} \/ (at \in {"scrub", "gate", "confirm"} /\ job = "owed")
              => owner.mode = "sealing",
           Scrubs'
    PROVE  IInv'
<1>1. UNCHANGED <<cell, item, peer, reader, day, late, strays, written>>
    BY DEF Others
<1>2. /\ owner' \in Owner /\ owner'.at = at /\ owner'.job = job
      /\ owner'.opener = owner.opener /\ owner'.ring = owner.ring
      /\ owner'.mode = owner.mode /\ owner'.retired = owner.retired
      /\ owner'.unreadable = owner.unreadable
    BY DEF IInv, Typed, Owner, Phases
<1> USE <1>1, <1>2 DEF IInv
<1>3. Typed'
    BY DEF Typed, TypeOK, CellTypes, Owner, RecordTypes, ResidueTypes
<1>4. Keyed' /\ Values'
    BY DEF Keyed, Values
<1>5. Walked'
    BY DEF Walked, Clear, Behind
<1>6. Moving'
    BY DEF Moving, Resealing, Behind, Current
<1> QED BY <1>3, <1>4, <1>5, <1>6

LEMMA JobEnds ==
    ASSUME IInv, UNCHANGED <<cell, item>>, Others,
           owner.at \in {"owed", "scrub", "gate", "confirm"},
           NEW rec, EndsJob(rec), rec \in RecordTypes, rec.kcv = record.kcv,
           rec.scrubbed => residue.free = 0,
           rec.state # "vacuum_pending" /\ record.kcv # NoKey /\ ~strays /\ AllSealed => Clean
    PROVE  IInv'
<1>1. record' = rec /\ UNCHANGED residue /\ owner' = [owner EXCEPT !.at = AfterJob]
    BY DEF EndsJob, Goes
<1>2. /\ AfterJob \in {"comments", "reopen", "migrate", "serve"}
      /\ AfterJob \in {"reopen", "migrate"} => owner.mode = "sealing"
    BY DEF AfterJob, IInv, Keyed
<1>3. /\ owner' = [owner EXCEPT !.at = AfterJob, !.job = owner.job]
      /\ owner.job \in {"owed", "finish", "deferred"} /\ owner'.at = AfterJob
    BY <1>1, <1>2 DEF IInv, Typed, Owner
<1>4. Scrubs'
    BY <1>1, <1>2, <1>3 DEF Others, IInv, Scrubs, AllSealed, Clean
<1>5. residue' \in ResidueTypes
    BY <1>1 DEF ResidueTypes, IInv, Typed, TypeOK
<1> HIDE DEF AfterJob
<1> QED BY <1>1, <1>2, <1>3, <1>4, <1>5, JobKeeps

\* A job that leaves a scrub owed, or the record as it was, says no more than is so.
LEMMA JobEndsOwing ==
    ASSUME IInv, UNCHANGED <<cell, item>>, Others,
           owner.at \in {"owed", "scrub", "gate", "confirm"},
           NEW scrubbed \in BOOLEAN, NEW attempt \in 0 .. NoAttempt,
           scrubbed => residue.free = 0,
           EndsJob(Pending(record, scrubbed, attempt)) \/ EndsJob(record)
    PROVE  IInv'
<1>1. record \in RecordTypes
    BY DEF IInv, Typed, TypeOK, RecordTypes
<1>2. CASE EndsJob(record)
    BY <1>1, <1>2, JobEnds DEF IInv, Scrubs
<1>3. CASE EndsJob(Pending(record, scrubbed, attempt))
    <2> DEFINE rec == Pending(record, scrubbed, attempt)
    <2>1. /\ rec \in RecordTypes /\ rec.kcv = record.kcv /\ rec.state = "vacuum_pending"
          /\ rec.scrubbed = scrubbed
        BY <1>1 DEF Pending, WithState, RecordTypes
    <2> HIDE DEF rec
    <2> QED BY <1>3, <2>1, JobEnds DEF rec
<1> QED BY <1>2, <1>3

\* A job that goes on has emptied the WAL.
LEMMA JobGoesOn ==
    ASSUME IInv, UNCHANGED <<cell, item>>, Others,
           owner.at \in {"owed", "finish", "serve", "scrub", "gate"},
           NEW at \in {"scrub", "gate", "confirm"}, NEW job \in {"owed", "finish", "deferred"},
           owner' = [owner EXCEPT !.at = at, !.job = job],
           job = "owed" => owner.mode = "sealing",
           residue' \in ResidueTypes, ~residue'.wal, residue'.free = residue.free,
           residue'.fragments => residue.fragments,
           at # "scrub" => residue.free = 0,
           at = "confirm" => ~residue'.fragments,
           \/ record' = record
           \/ record' = Pending(record, TRUE, NoAttempt) /\ residue.free = 0
    PROVE  IInv'
<1>1. /\ record' \in RecordTypes /\ record'.kcv = record.kcv
      /\ record' = record \/ record'.state = "vacuum_pending"
      /\ record'.scrubbed => record.scrubbed \/ residue.free = 0
    <2>1. record \in RecordTypes /\ NoAttempt \in 0 .. NoAttempt
        BY StoreAssumption DEF IInv, Typed, TypeOK, RecordTypes, NoAttempt
    <2> QED BY <2>1 DEF Pending, WithState, RecordTypes
<1>2. owner'.at = at
    BY DEF IInv, Typed, Owner
<1>3. Scrubs'
    BY <1>1, <1>2 DEF Others, IInv, Scrubs, AllSealed, Clean
<1> QED BY <1>1, <1>3, JobKeeps

LEMMA AttemptTypes ==
    ASSUME Typed
    PROVE  NoAttempt \in 0 .. NoAttempt /\ day \in 0 .. NoAttempt /\ residue \in ResidueTypes
           /\ residue.free \in Nat /\ owner.job \in {"owed", "finish", "deferred"}
BY StoreAssumption DEF Typed, TypeOK, NoAttempt, ResidueTypes, Owner

LEMMA CheckpointedIs ==
    ASSUME Typed, Checkpointed
    PROVE  /\ residue' \in ResidueTypes /\ ~residue'.wal
           /\ residue'.free = residue.free /\ residue'.fragments = residue.fragments
BY DEF Typed, TypeOK, Checkpointed, ResidueTypes

\* The owner goes to a stage of the job it is in.
LEMMA GoesIs ==
    ASSUME Typed, NEW at, Goes(at)
    PROVE  owner' = [owner EXCEPT !.at = at, !.job = owner.job]
BY DEF Typed, Goes, Owner

LEMMA JobSteps ==
    ASSUME IInv, BeginOwed \/ BeginFinish \/ BeginDeferred \/ ScrubChunk \/ Scrubbed \/ Vacuum \/ Confirm
    PROVE  IInv'
<1> USE AttemptTypes DEF IInv
<1> DEFINE Owing(scrubbed, attempt) == EndsJob(Pending(record, scrubbed, attempt))
<1>1. CASE BeginOwed
    <2>1. owner.at = "owed" /\ owner.mode = "sealing" /\ UNCHANGED <<cell, item>> /\ Others
        BY <1>1 DEF BeginOwed, Keyed
    <2>2. CASE EndsJob(record)
        BY <2>1, <2>2, JobEndsOwing
    <2>3. CASE /\ Checkpointed
               /\ Goes(IF record.scrubbed THEN "gate" ELSE "scrub")
               /\ UNCHANGED record
        <3> DEFINE at == IF record.scrubbed THEN "gate" ELSE "scrub"
        <3>1. at \in {"scrub", "gate", "confirm"} /\ (at # "scrub" => residue.free = 0)
              /\ at # "confirm"
            BY DEF Scrubs
        <3>2. owner' = [owner EXCEPT !.at = at, !.job = owner.job]
            BY <2>3, GoesIs
        <3> HIDE DEF at
        <3> QED BY <2>1, <2>3, <3>1, <3>2, CheckpointedIs, JobGoesOn
    <2> QED BY <1>1, <2>2, <2>3 DEF BeginOwed
<1>2. CASE BeginFinish
    <2>1. owner.at = "finish" /\ UNCHANGED <<cell, item>> /\ Others
        BY <1>2 DEF BeginFinish
    <2>2. CASE /\ record' = Pending(record, FALSE, NoAttempt)
               /\ owner' = [owner EXCEPT !.at = "serve", !.job = "finish"]
               /\ UNCHANGED <<residue, comments>>
        <3>1. /\ record' \in RecordTypes /\ record'.kcv = record.kcv
              /\ record'.state = "vacuum_pending" /\ ~record'.scrubbed
            BY <2>2 DEF Typed, TypeOK, RecordTypes, Pending, WithState
        <3>2. owner'.at = "serve"
            BY <2>2 DEF Typed, Owner
        <3>3. Scrubs'
            BY <2>1, <2>2, <3>1, <3>2 DEF Scrubs, Others
        <3> QED BY <2>1, <2>2, <3>1, <3>3, JobKeeps
    <2>3. CASE /\ Checkpointed
               /\ owner' = [owner EXCEPT !.job = "finish",
                     !.at = IF record.state = "vacuum_pending" /\ record.scrubbed THEN "gate" ELSE "scrub"]
               /\ UNCHANGED record
        <3> DEFINE at == IF record.state = "vacuum_pending" /\ record.scrubbed THEN "gate" ELSE "scrub"
        <3>1. at \in {"scrub", "gate", "confirm"} /\ (at # "scrub" => residue.free = 0)
              /\ at # "confirm"
            BY DEF Scrubs
        <3>2. owner' = [owner EXCEPT !.at = at, !.job = "finish"]
            BY <2>3 DEF Typed, Owner
        <3> HIDE DEF at
        <3> QED BY <2>1, <2>3, <3>1, <3>2, CheckpointedIs, JobGoesOn
    <2> QED BY <1>2, <2>2, <2>3 DEF BeginFinish
<1>3. CASE BeginDeferred
    <2> DEFINE at == IF record.scrubbed THEN "gate" ELSE "scrub"
    <2>1. owner.at = "serve" /\ owner.mode = "sealing" /\ UNCHANGED <<cell, item, record>> /\ Others
          /\ Checkpointed
        BY <1>3 DEF BeginDeferred
    <2>2. at \in {"scrub", "gate", "confirm"} /\ (at # "scrub" => residue.free = 0) /\ at # "confirm"
        BY DEF Scrubs
    <2>3. owner' = [owner EXCEPT !.at = at, !.job = "deferred"]
        BY <1>3 DEF BeginDeferred, Typed, Owner
    <2> HIDE DEF at
    <2> QED BY <2>1, <2>2, <2>3, CheckpointedIs, JobGoesOn
<1>4. CASE ScrubChunk
    <2>1. owner.at = "scrub" /\ residue.free > 0 /\ UNCHANGED <<cell, item>> /\ Others
        BY <1>4 DEF ScrubChunk
    <2>2. CASE Owing(FALSE, IF owner.job = "finish" THEN NoAttempt ELSE day)
        BY <2>1, <2>2, JobEndsOwing
    <2>3. CASE EndsJob(Failed)
        BY <2>1, <2>3, JobEndsOwing DEF Failed
    <2>4. CASE /\ residue' = [residue EXCEPT !.free = @ - 1, !.wal = FALSE]
               /\ UNCHANGED <<record, comments, owner>>
        <3>1. residue' \in ResidueTypes
            <4>1. residue.free \in 0 .. MaxChunks /\ residue.free - 1 \in 0 .. MaxChunks
                BY <2>1, StoreAssumption DEF ResidueTypes
            <4> QED BY <2>4, <4>1 DEF ResidueTypes
        <3>2. Scrubs'
            BY <2>1, <2>4 DEF Scrubs, AllSealed, Clean, Others
        <3>3. owner' = [owner EXCEPT !.at = "scrub", !.job = owner.job]
            BY <2>1, <2>4 DEF Typed, Owner
        <3>4. owner.job = "owed" => owner.mode = "sealing"
            BY <2>1 DEF Keyed
        <3>5. record' \in RecordTypes /\ record'.kcv = record.kcv
            BY <2>4 DEF Typed, TypeOK, RecordTypes
        <3> QED BY <2>1, <3>1, <3>2, <3>3, <3>4, <3>5, JobKeeps
    <2> QED BY <1>4, <2>2, <2>3, <2>4 DEF ScrubChunk
<1>5. CASE Scrubbed
    <2>1. owner.at = "scrub" /\ residue.free = 0 /\ UNCHANGED <<cell, item>> /\ Others
        BY <1>5 DEF Scrubbed
    <2>2. CASE EndsJob(Failed)
        BY <2>1, <2>2, JobEndsOwing DEF Failed
    <2>3. CASE /\ Checkpointed
               /\ record' = IF owner.job = "finish" THEN record ELSE Pending(record, TRUE, NoAttempt)
               /\ Goes("gate")
        <3>1. owner' = [owner EXCEPT !.at = "gate", !.job = owner.job]
            BY <2>3, GoesIs
        <3>2. owner.job = "owed" => owner.mode = "sealing"
            BY <2>1 DEF Keyed
        <3> QED BY <2>1, <2>3, <3>1, <3>2, CheckpointedIs, JobGoesOn
    <2> QED BY <1>5, <2>2, <2>3 DEF Scrubbed
<1>6. CASE Vacuum
    <2>1. owner.at = "gate" /\ UNCHANGED <<cell, item>> /\ Others /\ residue.free = 0
        BY <1>6 DEF Vacuum, Scrubs
    <2>2. CASE EndsJob(record) \/ EndsJob(Failed)
        BY <2>1, <2>2, JobEndsOwing DEF Failed
    <2>3. CASE Owing(TRUE, IF owner.job = "finish" THEN NoAttempt ELSE day) \/ Owing(TRUE, NoAttempt)
        BY <2>1, <2>3, JobEndsOwing
    <2>4. CASE /\ residue' = [residue EXCEPT !.fragments = FALSE, !.wal = FALSE]
               /\ Goes("confirm")
               /\ UNCHANGED record
        <3>1. owner' = [owner EXCEPT !.at = "confirm", !.job = owner.job]
            BY <2>4, GoesIs
        <3>2. owner.job = "owed" => owner.mode = "sealing"
            BY <2>1 DEF Keyed
        <3>3. residue' \in ResidueTypes /\ ~residue'.wal /\ residue'.free = residue.free
              /\ ~residue'.fragments
            BY <2>4 DEF ResidueTypes
        <3> QED BY <2>1, <2>4, <3>1, <3>2, <3>3, JobGoesOn
    <2> QED BY <1>6, <2>2, <2>3, <2>4 DEF Vacuum, TooLarge, NoRoom
<1>7. CASE Confirm
    <2> DEFINE rec == WithState(record, "ok", FALSE, NoAttempt)
    <2>1. owner.at = "confirm" /\ UNCHANGED <<cell, item>> /\ Others /\ EndsJob(rec)
        BY <1>7 DEF Confirm
    <2>2. record \in RecordTypes
        BY DEF Typed, TypeOK, RecordTypes
    <2>3. rec \in RecordTypes /\ rec.kcv = record.kcv /\ ~rec.scrubbed
        BY <2>2 DEF WithState, RecordTypes
    <2>4. record.kcv # NoKey /\ ~strays => Clean
        BY <2>1 DEF Scrubs, Clean
    <2> HIDE DEF rec
    <2> QED BY <2>1, <2>3, <2>4, JobEnds
<1> QED BY <1>1, <1>2, <1>3, <1>4, <1>5, <1>6, <1>7

----------------------------------------------------------------------------
(* Writes, and the other processes                                         *)

\* A write keeps the invariant if it stores the text so that it opens, in the clear only
\* where no column is taken for sealed or the cell is remembered as a stray.
LEMMA WriteKeeps ==
    ASSUME IInv, NEW i \in Items, NEW r \in Rows, NEW t \in Texts, NEW s \in Stored,
           Stores(i, r, t, s), Holds(s, t, Place(i, r)), UNCHANGED owner,
           record.kcv # NoKey => s.form = "sealed" \/ Place(i, r) \in late',
           late \subseteq late', late' \subseteq Items \X Rows,
           strays \in BOOLEAN => strays' \in BOOLEAN, strays => strays',
           ~strays' => ~strays /\ late' = late,
           record.kcv # NoKey /\ owner.at = "confirm" => strays',
           peer' \in {"absent", "compat", "refreshed", "unhealthy"},
           owner.opener = "core" => peer' = "absent",
           Resealing => s.form = "sealed" /\ s.key = owner.ring.current
    PROVE  IInv'
<1>1. /\ cell' = [cell EXCEPT ![i][r] = s] /\ written' = [written EXCEPT ![i][r] = t]
      /\ residue' = [residue EXCEPT !.wal = @ \/ cell[i][r].form \in {"plain", "escaped"}]
      /\ UNCHANGED <<item, record, comments, reader, day, owner>>
    BY DEF Stores
<1>2. /\ cell \in [Items -> [Rows -> Stored]]
      /\ written \in [Items -> [Rows -> Texts \cup {Unknown}]]
    BY DEF IInv, Typed, TypeOK, CellTypes
<1>3. cell' \in [Items -> [Rows -> Stored]] /\ written' \in [Items -> [Rows -> Texts \cup {Unknown}]]
    BY <1>1, <1>2
<1>4. \A j \in Items, q \in Rows :
          \/ j = i /\ q = r /\ cell'[j][q] = s /\ written'[j][q] = t
          \/ cell'[j][q] = cell[j][q] /\ written'[j][q] = written[j][q]
    BY <1>1, <1>2
<1>5. /\ residue' \in ResidueTypes
      /\ residue'.free = residue.free /\ residue'.fragments = residue.fragments
      /\ residue'.wal => residue.wal \/ Clear(i, r)
    BY <1>1 DEF IInv, Typed, TypeOK, ResidueTypes, Clear
<1>6. record.kcv # NoKey =>
          \A j \in Items, q \in Rows :
              Clear(j, q)' => Place(j, q) \in late' \/ Clear(j, q)
    BY <1>4 DEF Clear
<1>7. record.kcv = NoKey => \A j \in Items, q \in Rows : ~Behind(j, q)
    BY StoreAssumption DEF IInv, Keyed, NoItem, Behind, Rows
<1> USE <1>1 DEF IInv
<1>8. Typed'
    BY <1>3, <1>5 DEF Typed, TypeOK, CellTypes, Owner, ResidueTypes
<1>9. Keyed'
    BY DEF Keyed
<1>10. Values'
    BY <1>4 DEF Values
<1>11. Walked'
    <2>1. \A j \in Items, q \in Rows : Behind(j, q)' <=> Behind(j, q)
        BY DEF Behind
    <2>2. owner.at = "sealItem" => record.kcv # NoKey
        BY DEF Keyed
    <2>3. owner.i \in Items
        BY DEF Typed, Owner
    <2> QED BY <1>6, <1>7, <2>1, <2>2, <2>3 DEF Walked
<1>12. Scrubs'
    <2>1. AllSealed' <=> AllSealed
        BY DEF AllSealed
    <2>2. record.kcv # NoKey /\ ~strays' /\ AllSealed => ~Clear(i, r)
        BY DEF Walked, Behind, Scrubs, AllSealed
    <2> QED BY <1>5, <2>1, <2>2 DEF Scrubs, Clean
<1>13. Moving'
    <2>1. \A j \in Items, q \in Rows : Behind(j, q)' <=> Behind(j, q)
        BY DEF Behind
    <2>2. Resealing => \A j \in Items, q \in Rows : Current(j, q) => Current(j, q)'
        BY <1>4 DEF Current
    <2>3. Resealing' <=> Resealing
        BY DEF Resealing
    <2>4. owner.i \in Items
        BY DEF Typed, Owner
    <2> QED BY <2>1, <2>2, <2>3, <2>4 DEF Moving
<1> QED BY <1>8, <1>9, <1>10, <1>11, <1>12, <1>13

LEMMA WriteStep ==
    ASSUME IInv, NEW i \in Items, NEW r \in Rows, NEW t \in Texts, Write(i, r, t)
    PROVE  IInv'
<1> DEFINE s == StoreSealText(owner.mode, owner.ring, t, Place(i, r))
<1>1. /\ owner.at = "serve" /\ Writable(owner.mode) /\ Stores(i, r, t, s)
      /\ UNCHANGED <<owner, peer, late, strays>>
    BY DEF Write
<1>2. /\ owner.mode \in {"sealing", "compat"}
      /\ owner.mode = "sealing" => owner.ring.current \in Keys
    BY <1>1, StoreAssumption DEF IInv, Typed, TypeOK, Keyed, Writable, Modes
<1>3. /\ s \in Stored /\ Holds(s, t, Place(i, r))
      /\ owner.mode = "sealing" => s = Sealed(t, owner.ring.current, Place(i, r))
    BY <1>2, PlaceType, StoredHolds
<1>4. owner.mode = "sealing" => s.form = "sealed" /\ s.key = owner.ring.current
    BY <1>3 DEF Sealed
<1>5. record.kcv # NoKey => owner.mode = "sealing"
    BY <1>1, <1>2 DEF IInv, Keyed
<1>6. /\ late \subseteq Items \X Rows /\ strays \in BOOLEAN
      /\ peer \in {"absent", "compat", "refreshed", "unhealthy"}
      /\ owner.opener = "core" => peer = "absent"
      /\ Resealing => owner.mode = "sealing"
    BY DEF IInv, Typed, TypeOK, Moving, Resealing
<1> HIDE DEF s
<1> QED BY <1>1, <1>3, <1>4, <1>5, <1>6, WriteKeeps

\* The process without a key writes only beside an owner of a satellite's store.
LEMMA PeerWriteStep ==
    ASSUME IInv, NEW i \in Items, NEW r \in Rows, NEW t \in Texts,
           PeerWrites(i, r, t) \/ PeerWritesGuarded(i, r, t)
    PROVE  IInv'
<1> DEFINE s == StoreSealText("compat", owner.ring, t, Place(i, r))
<1>1. /\ Stores(i, r, t, s) /\ UNCHANGED owner /\ peer \in {"compat", "refreshed"} /\ peer' = "compat"
    BY DEF PeerWrites, PeerWritesGuarded
<1>2. s \in Stored /\ Holds(s, t, Place(i, r))
    BY PlaceType, StoredHolds
<1>3. owner.opener # "core" /\ late \subseteq Items \X Rows /\ strays \in BOOLEAN
    BY <1>1 DEF IInv, Typed, TypeOK, Moving
<1>4. /\ late \subseteq late' /\ late' \subseteq Items \X Rows /\ strays' \in BOOLEAN
      /\ strays => strays'
      /\ ~strays' => late' = late
      /\ record.kcv # NoKey => Place(i, r) \in late' /\ strays'
    BY <1>3, PlaceType DEF PeerWrites, PeerWritesGuarded
<1> HIDE DEF s
<1> QED BY <1>1, <1>2, <1>3, <1>4, WriteKeeps DEF Resealing

LEMMA OtherSteps ==
    ASSUME IInv, PeerOpens \/ PeerRefreshes \/ ReaderMoves \/ NextDay \/ Quiescent \/ UNCHANGED vars
    PROVE  IInv'
<1>1. UNCHANGED <<cell, item, record, residue, written, owner, late, strays>>
    BY DEF PeerOpens, PeerRefreshes, ReaderMoves, NextDay, Quiescent, vars, disk
<1>2. /\ peer' \in {"absent", "compat", "refreshed", "unhealthy"}
      /\ peer' = peer \/ owner.opener = "satellite" \/ peer = "compat"
      /\ day' \in 0 .. MaxDay /\ reader' \in BOOLEAN
    <2>1. peer \in {"absent", "compat", "refreshed", "unhealthy"} /\ day \in 0 .. MaxDay
          /\ reader \in BOOLEAN /\ MaxDay \in Nat
        BY StoreAssumption DEF IInv, Typed
    <2>2. CASE PeerOpens
        BY <2>1, <2>2 DEF PeerOpens, KeylessMode
    <2>3. CASE PeerRefreshes
        BY <2>1, <2>3 DEF PeerRefreshes
    <2>4. CASE ReaderMoves
        <3>1. reader' \in BOOLEAN
            BY <2>4, Zenon DEF ReaderMoves, SnapshotBegins, SnapshotEnds
        <3>2. peer' = peer /\ day' = day
            BY <2>4 DEF ReaderMoves
        <3> QED BY <2>1, <3>1, <3>2
    <2>5. CASE NextDay
        BY <2>1, <2>5 DEF NextDay
    <2>6. CASE Quiescent \/ UNCHANGED vars
        BY <2>1, <2>6 DEF Quiescent, vars
    <2> QED BY <2>2, <2>3, <2>4, <2>5, <2>6
<1> USE <1>1, <1>2 DEF IInv
<1>3. Typed'
    BY DEF Typed, TypeOK, CellTypes, Owner
<1>4. Keyed' /\ Values'
    BY DEF Keyed, Values
<1>5. Walked' /\ Scrubs'
    BY DEF Walked, Clear, Behind, Scrubs, AllSealed, Clean
<1>6. Moving'
    BY DEF Moving, Resealing, Behind, Current
<1> QED BY <1>3, <1>4, <1>5, <1>6

LEMMA StopStep ==
    ASSUME IInv, Stop
    PROVE  IInv'
<1>1. /\ owner' = [Down EXCEPT !.opener = owner.opener]
      /\ UNCHANGED <<cell, item, record, residue, written, peer, reader, day, late, strays>>
    BY DEF Stop, disk
<1>2. owner' = Begun("down", owner.opener, NoKey)
    BY <1>1 DEF Down, Begun
<1>3. owner' \in Owner /\ owner'.at = "down" /\ owner'.mode = "compat" /\ owner'.i = 1
      /\ ~owner'.retired /\ owner'.opener = owner.opener
    <2>1. owner.opener \in Openers /\ "down" \in Phases
        BY DEF IInv, Typed, Owner, Phases
    <2> QED BY <1>2, <2>1, BegunIs
<1> USE <1>3 DEF IInv
<1>4. UNCHANGED <<cell, item, record, residue, written, peer, reader, day, late, strays>>
    BY <1>1
<1>5. Typed'
    BY <1>4 DEF Typed, TypeOK, CellTypes, Owner
<1>6. Keyed' /\ Values'
    BY <1>4 DEF Keyed, Values
<1>7. Walked' /\ Scrubs'
    BY <1>4 DEF Walked, Clear, Behind, Scrubs, AllSealed, Clean
<1>8. Moving'
    BY <1>4 DEF Moving, Resealing
<1> QED BY <1>5, <1>6, <1>7, <1>8

LEMMA NextInv == IInv /\ [Next]_vars => IInv'
<1> SUFFICES ASSUME IInv, [Next]_vars PROVE IInv'
    OBVIOUS
<1>1. ASSUME NEW ring \in Rings \cup {NoKey}, Start(owner.opener, ring) PROVE IInv'
    BY <1>1, StartStep
<1>2. CASE OwnerSteps
    BY <1>2, CheckStep, ResetStep, CommentsStep, ReopenStep, SkipStep, StartItemStep, BatchStep,
       SealItemStep, JobSteps DEF OwnerSteps
<1>3. CASE BeginDeferred
    BY <1>3, JobSteps
<1>4. ASSUME NEW i \in Items, NEW r \in Rows, NEW t \in Texts,
             Write(i, r, t) \/ PeerWrites(i, r, t) \/ PeerWritesGuarded(i, r, t)
      PROVE  IInv'
    BY <1>4, WriteStep, PeerWriteStep
<1>5. CASE PeerOpens \/ PeerRefreshes \/ ReaderMoves \/ NextDay \/ Quiescent \/ UNCHANGED vars
    BY <1>5, OtherSteps
<1>6. CASE Stop
    BY <1>6, StopStep
<1> QED BY <1>1, <1>2, <1>3, <1>4, <1>5, <1>6 DEF Next

\* IInv holds in every reachable state.
LEMMA Invariance == Spec => []IInv
<1>1. Init => IInv
    BY InitInv
<1>2. IInv /\ [Next]_vars => IInv'
    BY NextInv
<1> QED BY <1>1, <1>2, PTL DEF Spec

----------------------------------------------------------------------------
(* What follows                                                            *)

\* Every variable of the store keeps its type (the state table and the open store's state
\* in content_sqlite.rs).
THEOREM StoreTypes == Spec => []TypeOK
<1>1. IInv => TypeOK
    BY DEF IInv, Typed
<1> QED BY <1>1, Invariance, PTL

\* What was last stored in a cell opens for a holder of the keys to what was stored,
\* wherever migrate_columns or a change of keys was interrupted.
THEOREM StoreLosesNothing == Spec => []NothingLost
<1>1. ASSUME IInv PROVE NothingLost
    <2> SUFFICES ASSUME NEW i \in Items, NEW r \in Rows, written[i][r] # Unknown
                 PROVE  LET opened == StoreOpenText("sealing", Everything, cell[i][r], Place(i, r))
                        IN  opened.ok /\ opened.text = written[i][r]
        BY DEF NothingLost
    <2>1. /\ cell[i][r] \in Stored
          /\ Holds(cell[i][r], written[i][r], Place(i, r))
        BY <1>1 DEF IInv, Typed, TypeOK, CellTypes, Values
    <2>2. cell[i][r].form = "sealed" => Opens(Everything, cell[i][r], Place(i, r))
        BY <2>1 DEF Holds, Stored, Null, Plain, Escaped, Sealed, Opens, Everything
    <2>3. cell[i][r].form \in {"plain", "escaped", "sealed"} /\ cell[i][r].text = written[i][r]
          /\ (cell[i][r].form = "plain" => cell[i][r].text \notin Lookalikes)
        BY <2>1 DEF Holds, Stored, Null, Plain, Escaped, Sealed
    <2> QED BY <2>2, <2>3 DEF StoreOpenText, OpenText, LooksSealed, Opened
<1> QED BY <1>1, Invariance, PTL

\* A column ryu_content_seal records as sealed holds no plaintext but what the process
\* without a key wrote there, which is remembered (migrate_columns, reopen_plaintext_items).
THEOREM SealedColumnsAreSealed == Spec => []SealedMeansSealed
<1>1. IInv => SealedMeansSealed
    BY DEF IInv, Walked, Clear, Behind, SealedMeansSealed
<1> QED BY <1>1, Invariance, PTL

\* A store recorded as compacted, with every column sealed, keeps no old plaintext,
\* however often its scrub was interrupted or put off (run_pending_vacuum, finish_store).
THEOREM CompactedStoresAreClean == Spec => []OkIsClean
<1>1. ASSUME IInv PROVE OkIsClean
    <2>1. residue \in [wal : BOOLEAN, free : 0 .. MaxChunks, fragments : BOOLEAN]
        BY <1>1 DEF IInv, Typed, TypeOK
    <2>2. Clean => residue = [wal |-> FALSE, free |-> 0, fragments |-> FALSE]
        BY <2>1 DEF Clean
    <2> QED BY <1>1, <2>2 DEF IInv, Scrubs, AllSealed, OkIsClean
<1> QED BY <1>1, Invariance, PTL

\* An owner that resets every column when check_store_key finds a retired key moves the
\* recorded key only once every value opens under the new one, wherever it was stopped.
THEOREM TheKeyMovesLast == Spec => ResetMovesTheKeyLast
<1>1. ASSUME IInv, [Next]_vars, owner.opener = "core", record.kcv # NoKey,
             record'.kcv # record.kcv, NEW i \in Items, NEW r \in Rows, cell'[i][r].form # "null"
      PROVE  SealedUnder(record'.kcv, cell'[i][r], Place(i, r))
    <2>1. SealItem
        <3>1. record \in RecordTypes
            BY <1>1 DEF IInv, Typed, TypeOK, RecordTypes
        <3>2. /\ \A state, scrubbed, attempt : WithState(record, state, scrubbed, attempt).kcv = record.kcv
              /\ \A scrubbed, attempt : Pending(record, scrubbed, attempt).kcv = record.kcv
              /\ Failed.kcv = record.kcv
            BY <3>1 DEF Failed, Pending, WithState, RecordTypes
        <3>3. ~CheckKey
            BY <1>1 DEF CheckKey
        <3>4. \A ring : ~Start(owner.opener, ring)
            BY <1>1 DEF Start, disk
        <3>5. \A j, q, t : ~Write(j, q, t) /\ ~PeerWrites(j, q, t) /\ ~PeerWritesGuarded(j, q, t)
            BY <1>1 DEF Write, PeerWrites, PeerWritesGuarded, Stores
        <3>6. ~PeerOpens /\ ~PeerRefreshes /\ ~ReaderMoves /\ ~NextDay
            BY <1>1 DEF PeerOpens, PeerRefreshes, ReaderMoves, NextDay, disk
        <3>7. ~Stop /\ ~Quiescent /\ ~UNCHANGED vars /\ ~BeginDeferred
            BY <1>1 DEF Stop, Quiescent, vars, disk, BeginDeferred
        <3>8. ~ResetItem /\ ~ClearComments /\ ~ReopenItem /\ ~SkipItem /\ ~SealBatch
            BY <1>1 DEF ResetItem, ClearComments, ReopenItem, SkipItem, SealBatch, disk
        <3>9. ~StartItem
            BY <1>1, <3>1 DEF StartItem, ScrubOwed, Pending, WithState, RecordTypes
        <3>10. ~BeginOwed /\ ~BeginFinish
            <4>1. BeginOwed => record' = record
                BY DEF BeginOwed, EndsJob
            <4>2. BeginFinish => record' = Pending(record, FALSE, NoAttempt) \/ record' = record
                BY Zenon DEF BeginFinish
            <4> QED BY <1>1, <3>2, <4>1, <4>2
        <3>11. ~ScrubChunk /\ ~Scrubbed
            BY <1>1, <3>2 DEF ScrubChunk, Scrubbed, EndsJob
        <3>12. ~Vacuum /\ ~Confirm
            BY <1>1, <3>2 DEF Vacuum, TooLarge, NoRoom, Confirm, EndsJob
        <3> QED BY <1>1, <3>3, <3>4, <3>5, <3>6, <3>7, <3>8, <3>9, <3>10, <3>11, <3>12 DEF Next, OwnerSteps
    <2>2. /\ owner.retired /\ ~owner.unreadable /\ AllItemsSealed(item')
          /\ record'.kcv = owner.ring.current /\ owner.at = "sealItem"
          /\ cell' = cell
        <3>1. record \in RecordTypes /\ record.state = "vacuum_pending"
            BY <2>1, <1>1 DEF IInv, Typed, TypeOK, RecordTypes, SealItem, Scrubs
        <3> QED BY <1>1, <2>1, <3>1 DEF SealItem, WithKcv, RecordTypes
    <2>3. owner.i \in Items /\ item' \in ItemTypes /\ item'[owner.i].state = "sealed"
          /\ \A j \in Items : j # owner.i => item'[j] = item[j]
        <3>1. owner.i \in Items /\ item \in ItemTypes /\ 0 \in 0 .. NRows
              /\ SetItem(owner.i, "sealed", 0)
            BY <1>1, <2>1, StoreAssumption DEF IInv, Typed, TypeOK, ItemTypes, Owner, SealItem
        <3> QED BY <3>1, ItemSet
    <2>4. Current(i, r)
        <3>1. i # owner.i => Behind(i, r) \/ item[i].state = "none"
            BY <2>2, <2>3 DEF AllItemsSealed, Behind
        <3> QED BY <1>1, <2>2, <3>1 DEF IInv, Moving, Resealing
    <2>5. cell[i][r].form = "sealed" /\ cell[i][r].key = record'.kcv /\ cell[i][r].place = Place(i, r)
        BY <1>1, <2>2, <2>4 DEF Current, IInv, Values, Holds
    <2> QED BY <2>2, <2>5 DEF SealedUnder, Opens, CipherOf
<1>2. IInv /\ [Next]_vars =>
          [(owner.opener = "core" /\ record.kcv # NoKey /\ record'.kcv # record.kcv) =>
              \A i \in Items, r \in Rows :
                  cell'[i][r].form # "null" => SealedUnder(record'.kcv, cell'[i][r], Place(i, r))]_vars
    BY <1>1
<1> QED BY <1>2, Invariance, PTL DEF Spec, ResetMovesTheKeyLast
==============================================================================
