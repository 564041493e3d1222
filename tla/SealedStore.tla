----------------------------- MODULE SealedStore -----------------------------
(***************************************************************************)
(* One SQLite store whose TEXT columns are sealed: how it is opened,       *)
(* migrated in place and scrubbed (crates/core/crypto/src/                 *)
(* content_sqlite.rs), by the three ways an owner opens it:                *)
(*   "board"      backend/src/store.rs, from_connection                    *)
(*   "satellite"  plugin_keys/sql.rs, open_store                           *)
(*   "core"       the protocol StoreKeyState::Retired prescribes:          *)
(*                check_store_key, reset_items, migrate_columns.           *)
(* One action is one SQLite transaction or autocommitted statement; the    *)
(* owner can be killed between any two.  A second process without a key    *)
(* may share a satellite's store, and a reader may hold a snapshot.        *)
(***************************************************************************)
EXTENDS Naturals, Sequences, SequencesExt, FiniteSetsExt

CONSTANTS
    Keys, NoKey, \* root keys, and what a process without one has
    LostKey,     \* a key nobody holds any more
    Rings,       \* the ciphers an owner may start with
    Openers,     \* the kinds of owner
    Texts, Lookalikes,
    Unknown,     \* no text: the cell was empty, or sealed under a lost key
    NItems, NRows, BatchSize,
    EmptyPlaces, LostPlaces, \* what cells may be empty or lost to begin with
    MaxChunks,   \* chunks of free pages that hold old plaintext
    MaxStarts, MaxWrites, MaxDay

ASSUME StoreAssumption ==
    /\ Lookalikes \subseteq Texts
    /\ {NItems, NRows, BatchSize, MaxChunks, MaxStarts, MaxWrites, MaxDay} \subseteq Nat
    /\ NItems > 0 /\ NRows > 0 /\ BatchSize > 0
    /\ LostKey \in Keys /\ NoKey \notin Keys
    /\ \A ring \in Rings : ring.current \in Keys \ {LostKey} /\ ring.retired \subseteq Keys \ {LostKey}

Items == 1 .. NItems          \* the ColumnPlans, in the order of the list
Rows == 1 .. NRows            \* the rows, in the order of their stable key
Place(i, r) == <<i, r>>

INSTANCE ContentEnvelope WITH Places <- Items \X Rows

VARIABLES
    cell,     \* the sealed columns
    item,     \* ryu_content_seal, one row per column
    record,   \* ryu_content_seal, the row "__store__"
    comments, \* the board's comment emails: "kept", "freed" or "gone"
    residue,  \* where old plaintext is left: WAL, free pages, page fragments
    owner,    \* the process that owns the store
    peer,     \* the process without a key
    reader,   \* whether another connection holds a snapshot
    day, starts, writes,
    written,  \* history: the text last stored in each cell
    late,     \* history: cells the peer wrote into a sealed store, since last looked for
    strays    \* history: whether the peer ever did

disk == <<cell, item, record, comments, residue, written>>
vars == <<disk, owner, peer, reader, day, starts, writes, late, strays>>

NoAttempt == MaxDay + 1
NoRecord == [state |-> "none", kcv |-> NoKey, scrubbed |-> FALSE, attempt |-> NoAttempt]
NoItem == [state |-> "none", cursor |-> 0]

Down == [at |-> "down", opener |-> "board", ring |-> NoKey, mode |-> "compat",
         retired |-> FALSE, i |-> 1, cursor |-> 0, sealed |-> FALSE,
         unreadable |-> FALSE, scrub |-> FALSE, job |-> "owed"]

Phases == {"down", "check", "reset", "owed", "comments", "reopen", "migrate", "batch",
           "sealItem", "finish", "scrub", "gate", "confirm", "serve"}

(***************************************************************************)
(* The state table.                                                        *)
(***************************************************************************)
SetItem(i, state, cursor) == item' = [item EXCEPT ![i] = [state |-> state, cursor |-> cursor]]

WithKcv(rec, kcv) ==
    IF rec.state = "none" THEN [NoRecord EXCEPT !.state = "ok", !.kcv = kcv]
    ELSE [rec EXCEPT !.kcv = kcv]

WithState(rec, state, scrubbed, attempt) ==
    [rec EXCEPT !.state = state, !.scrubbed = scrubbed, !.attempt = attempt]

Pending(rec, scrubbed, attempt) == WithState(rec, "vacuum_pending", scrubbed, attempt)

\* Mutant: the debt is recorded by finish_store only.
ScrubNotOwed(rec) == rec

\* mark_scrub_owed keeps the time of the last attempt and forgets a finished scrub.
ScrubOwed(rec) ==
    IF rec.state = "vacuum_pending" THEN [rec EXCEPT !.scrubbed = FALSE]
    ELSE Pending(rec, FALSE, NoAttempt)

AllItemsSealed(items) == \A i \in Items : items[i].state \in {"none", "sealed"}

Goes(at) == owner' = [owner EXCEPT !.at = at]
Others == UNCHANGED <<peer, reader, day, starts, writes, late, strays, written>>

(***************************************************************************)
(* Opening.  StoreIsOpened is where an owner goes once it knows its mode.  *)
(***************************************************************************)
Start(opener, ring) ==
    /\ owner.at = "down"
    /\ starts < MaxStarts
    /\ owner' = [Down EXCEPT !.at = "check", !.opener = opener, !.ring = ring]
    /\ starts' = starts + 1
    /\ UNCHANGED <<disk, peer, reader, day, writes, late, strays>>

\* Mutant: a retired key is found and no column is reset.
AfterCheckUnreset(opener, mode, retired) ==
    IF mode = "sealing" THEN "owed" ELSE IF opener = "board" THEN "comments" ELSE "serve"

AfterCheck(opener, mode, retired) ==
    CASE mode = "sealing" -> IF opener = "core" /\ retired THEN "reset" ELSE "owed"
      [] mode # "sealing" -> IF opener = "board" THEN "comments" ELSE "serve"

\* sqlite_store_seal: check_store_key records the key of a store that has none.
CheckKey ==
    /\ owner.at = "check"
    /\ LET keyed == owner.ring # NoKey
           fresh == record.kcv = NoKey
           match == IF fresh THEN "current" ELSE MatchKcv(owner.ring, record.kcv)
           mode == IF ~keyed THEN KeylessMode(record.kcv, NoKey)
                   ELSE IF match = "unknown" THEN "unhealthy" ELSE "sealing"
           retired == keyed /\ match = "retired"
       IN /\ record' = IF keyed /\ fresh THEN WithKcv(record, owner.ring.current) ELSE record
          /\ owner' = [owner EXCEPT !.mode = mode, !.retired = retired,
                                    !.at = AfterCheck(owner.opener, mode, retired)]
    /\ UNCHANGED <<cell, item, comments, residue>>
    /\ Others

\* reset_items, one autocommitted statement per column.
ResetItem ==
    /\ owner.at = "reset"
    /\ SetItem(owner.i, "pending", 0)
    /\ owner' = IF owner.i = NItems THEN [owner EXCEPT !.at = "owed", !.i = 1]
                ELSE [owner EXCEPT !.i = @ + 1]
    /\ UNCHANGED <<cell, record, comments, residue>>
    /\ Others

\* Where the owner goes on after run_pending_vacuum, finish_store or a compaction.
AfterJob ==
    CASE owner.job = "owed" -> IF owner.opener = "board" THEN "comments"
                               ELSE IF owner.opener = "satellite" THEN "reopen" ELSE "migrate"
      [] owner.job # "owed" -> "serve"

\* The board stops keeping comment emails, whatever its mode.
ClearComments ==
    /\ owner.at = "comments"
    /\ comments' = IF comments = "kept" THEN "freed" ELSE comments
    /\ owner' = [owner EXCEPT
                    !.scrub = (comments = "kept"),
                    !.at = IF owner.mode = "sealing" THEN "migrate"
                           ELSE IF comments = "kept" THEN "finish" ELSE "serve"]
    /\ UNCHANGED <<cell, item, record, residue>>
    /\ Others

\* Mutant: an escaped value passes for an envelope.
HoldsUnescaped(i) == \E r \in Rows : cell[i][r].form = "plain" /\ ~LooksSealed(cell[i][r])

\* reopen_plaintext_items: a finished column that holds plaintext is walked again.
HoldsPlaintext(i) == \E r \in Rows : cell[i][r].form # "null" /\ ~LooksSealed(cell[i][r])

ReopenItem ==
    /\ owner.at = "reopen"
    /\ IF item[owner.i].state = "sealed" /\ HoldsPlaintext(owner.i)
       THEN SetItem(owner.i, "pending", 0) ELSE UNCHANGED item
    /\ owner' = IF owner.i = NItems THEN [owner EXCEPT !.at = "migrate", !.i = 1]
                ELSE [owner EXCEPT !.i = @ + 1]
    /\ late' = IF item[owner.i].state = "sealed" THEN late \ ({owner.i} \X Rows) ELSE late
    /\ UNCHANGED <<cell, record, comments, residue, written, peer, reader, day, starts, writes, strays>>

(***************************************************************************)
(* migrate_columns.                                                        *)
(***************************************************************************)
\* Past the last column: finish_store when something was rewritten.
AfterMigration == IF owner.sealed \/ owner.scrub THEN "finish" ELSE "serve"

NextItem(own) ==
    IF owner.i = NItems THEN [own EXCEPT !.at = AfterMigration, !.i = 1]
    ELSE [own EXCEPT !.at = "migrate", !.i = @ + 1]

SkipItem ==
    /\ owner.at = "migrate"
    /\ item[owner.i].state = "sealed"
    /\ owner' = NextItem(owner)
    /\ UNCHANGED disk
    /\ Others

\* The scrub is owed before the first cell of a column is rewritten.
StartItem ==
    /\ owner.at = "migrate"
    /\ item[owner.i].state # "sealed"
    /\ record' = ScrubOwed(record)
    /\ SetItem(owner.i, "sealing", item[owner.i].cursor)
    /\ owner' = [owner EXCEPT !.at = "batch", !.cursor = item[owner.i].cursor]
    /\ UNCHANGED <<cell, comments, residue>>
    /\ Others

\* Mutant: the last key of the batch is not remembered.
CursorStays == owner.cursor

\* Mutant: the cursor counts rows, as OFFSET does.
CursorCounts == owner.cursor + BatchSize

BatchRows == {r \in Rows : r > owner.cursor /\ r <= owner.cursor + BatchSize}

NextCursor == IF BatchRows = {} THEN owner.cursor ELSE Max(BatchRows)

SealBatch ==
    /\ owner.at = "batch"
    /\ LET i == owner.i
           c == owner.ring
           next == NextCursor
           resealed == {r \in BatchRows : Reseals(c, cell[i][r], Place(i, r))}
       IN /\ cell' = [cell EXCEPT ![i] = [r \in Rows |->
                        IF r \in BatchRows THEN Resealed(c, @[r], Place(i, r)) ELSE @[r]]]
          /\ residue' = [residue EXCEPT !.wal = @ \/ \E r \in resealed : cell[i][r].form # "sealed"]
          /\ SetItem(i, "sealing", next)
          /\ owner' = [owner EXCEPT
                !.cursor = next,
                !.sealed = @ \/ resealed # {},
                !.unreadable = @ \/ \E r \in BatchRows : Unreadable(c, cell[i][r], Place(i, r)),
                !.at = IF Cardinality(BatchRows) < BatchSize THEN "sealItem" ELSE "batch"]
    /\ UNCHANGED <<record, comments>>
    /\ Others

SealItem ==
    /\ owner.at = "sealItem"
    /\ SetItem(owner.i, "sealed", 0)
    /\ record' = IF owner.retired /\ ~owner.unreadable /\ AllItemsSealed(item')
                 THEN WithKcv(record, owner.ring.current) ELSE record
    /\ owner' = NextItem(owner)
    /\ UNCHANGED <<cell, comments, residue>>
    /\ Others

(***************************************************************************)
(* Scrubbing and compaction: run_pending_vacuum_with ("owed" at a start,   *)
(* "deferred" in the background under the store's lock) and finish_store   *)
(* ("finish") go through the same stages.                                  *)
(***************************************************************************)
Checkpointed ==
    /\ ~reader
    /\ residue' = [residue EXCEPT !.wal = FALSE]
    /\ comments' = IF comments = "freed" THEN "gone" ELSE comments

\* An error or a refusal ends the job; the owner logs it and goes on.
EndsJob(rec) ==
    /\ record' = rec
    /\ Goes(AfterJob)
    /\ UNCHANGED <<residue, comments>>

Failed == IF owner.job = "finish" THEN Pending(record, FALSE, NoAttempt) ELSE record

TriedToday == record.attempt # NoAttempt /\ day - record.attempt < 1

BeginOwed ==
    /\ owner.at = "owed"
    /\ IF record.state # "vacuum_pending" \/ TriedToday \/ reader
       THEN EndsJob(record)
       ELSE /\ Checkpointed
            /\ Goes(IF record.scrubbed THEN "gate" ELSE "scrub")
            /\ UNCHANGED record
    /\ UNCHANGED <<cell, item>>
    /\ Others

BeginFinish ==
    /\ owner.at = "finish"
    /\ \/ /\ reader
          /\ record' = Pending(record, FALSE, NoAttempt)
          /\ owner' = [owner EXCEPT !.at = "serve", !.job = "finish"]
          /\ UNCHANGED <<residue, comments>>
       \/ /\ Checkpointed
          /\ owner' = [owner EXCEPT !.job = "finish",
                !.at = IF record.state = "vacuum_pending" /\ record.scrubbed THEN "gate" ELSE "scrub"]
          /\ UNCHANGED record
    /\ UNCHANGED <<cell, item>>
    /\ Others

\* defer_compaction's job takes the connection's lock, so nothing is served meanwhile.
BeginDeferred ==
    /\ owner.at = "serve" /\ owner.opener = "core" /\ owner.mode = "sealing"
    /\ record.state = "vacuum_pending" /\ ~TriedToday
    /\ Checkpointed
    /\ owner' = [owner EXCEPT !.job = "deferred",
                    !.at = IF record.scrubbed THEN "gate" ELSE "scrub"]
    /\ UNCHANGED <<cell, item, record>>
    /\ Others

\* One zero blob of scrub_freelist, with the WAL truncated after it.
ScrubChunk ==
    /\ owner.at = "scrub" /\ residue.free > 0
    /\ \/ EndsJob(Pending(record, FALSE, IF owner.job = "finish" THEN NoAttempt ELSE day))
       \/ reader /\ EndsJob(Failed)
       \/ /\ ~reader
          /\ residue' = [residue EXCEPT !.free = @ - 1, !.wal = FALSE]
          /\ UNCHANGED <<record, comments, owner>>
    /\ UNCHANGED <<cell, item>>
    /\ Others

Scrubbed ==
    /\ owner.at = "scrub" /\ residue.free = 0
    /\ \/ reader /\ EndsJob(Failed)
       \/ /\ Checkpointed
          /\ record' = IF owner.job = "finish" THEN record ELSE Pending(record, TRUE, NoAttempt)
          /\ Goes("gate")
    /\ UNCHANGED <<cell, item>>
    /\ Others

\* The size gate, the free-space gate, and VACUUM with the checkpoint after it.
Gated == owner.job = "finish" \/ (owner.job = "owed" /\ owner.opener = "core")

TooLarge ==
    IF owner.job = "finish" THEN EndsJob(Pending(record, TRUE, NoAttempt)) ELSE EndsJob(record)

NoRoom == EndsJob(Pending(record, TRUE, IF owner.job = "finish" THEN NoAttempt ELSE day))

Vacuum ==
    /\ owner.at = "gate"
    /\ \/ Gated /\ TooLarge
       \/ NoRoom
       \/ reader /\ EndsJob(Failed)
       \/ /\ ~reader
          /\ residue' = [residue EXCEPT !.fragments = FALSE, !.wal = FALSE]
          /\ comments' = IF comments = "freed" THEN "gone" ELSE comments
          /\ Goes("confirm")
          /\ UNCHANGED record
    /\ UNCHANGED <<cell, item>>
    /\ Others

Confirm ==
    /\ owner.at = "confirm"
    /\ EndsJob(WithState(record, "ok", FALSE, NoAttempt))
    /\ UNCHANGED <<cell, item>>
    /\ Others

(***************************************************************************)
(* Serving, the other processes, and the end of the owner.                 *)
(***************************************************************************)
Stores(i, r, t, s) ==
    /\ writes < MaxWrites
    /\ writes' = writes + 1
    /\ cell' = [cell EXCEPT ![i][r] = s]
    /\ written' = [written EXCEPT ![i][r] = t]
    /\ residue' = [residue EXCEPT !.wal = @ \/ cell[i][r].form \in {"plain", "escaped"}]
    /\ UNCHANGED <<item, record, comments, reader, day, starts>>

Write(i, r, t) ==
    /\ owner.at = "serve" /\ Writable(owner.mode)
    /\ Stores(i, r, t, StoreSealText(owner.mode, owner.ring, t, Place(i, r)))
    /\ UNCHANGED <<owner, peer, late, strays>>

\* A process without a key opens a satellite's store (PluginKeys::resolve_existing).
PeerOpens ==
    /\ peer = "absent" /\ owner.opener = "satellite"
    /\ peer' = KeylessMode(record.kcv, NoKey)
    /\ UNCHANGED <<disk, owner, reader, day, starts, writes, late, strays>>

\* SqlSeal::refresh_compat, called before a write but outside its transaction.
PeerRefreshes ==
    /\ peer = "compat"
    /\ peer' = IF record.kcv = NoKey THEN "refreshed" ELSE "unhealthy"
    /\ UNCHANGED <<disk, owner, reader, day, starts, writes, late, strays>>

PeerWrites(i, r, t) ==
    /\ peer = "refreshed"
    /\ Stores(i, r, t, StoreSealText("compat", owner.ring, t, Place(i, r)))
    /\ peer' = "compat"
    /\ late' = IF record.kcv = NoKey THEN late ELSE late \cup {Place(i, r)}
    /\ strays' = (strays \/ record.kcv # NoKey)
    /\ UNCHANGED owner

\* ensure_compat_write, inside the write's own transaction.
PeerWritesGuarded(i, r, t) ==
    /\ peer = "compat" /\ record.kcv = NoKey
    /\ Stores(i, r, t, StoreSealText("compat", owner.ring, t, Place(i, r)))
    /\ UNCHANGED <<owner, peer, late, strays>>

SnapshotBegins == ~reader /\ reader' = TRUE
SnapshotEnds == reader /\ reader' = FALSE
ReaderMoves == (SnapshotBegins \/ SnapshotEnds)
               /\ UNCHANGED <<disk, owner, peer, day, starts, writes, late, strays>>

\* Opening and a background job take less than a day.
NextDay == owner.at \in {"down", "serve"} /\ day < MaxDay /\ day' = day + 1
           /\ UNCHANGED <<disk, owner, peer, reader, starts, writes, late, strays>>

Stop == owner.at # "down" /\ owner' = [Down EXCEPT !.opener = owner.opener]
        /\ UNCHANGED <<disk, peer, reader, day, starts, writes, late, strays>>

-----------------------------------------------------------------------------
LegacyCell(i, r, empty, lost, t) ==
    IF Place(i, r) \in empty THEN Null
    ELSE IF Place(i, r) \in lost THEN Sealed(t, LostKey, Place(i, r)) ELSE Plain(t)

\* A store from before sealing, in which a restored row may be sealed under a lost key.
Init ==
    /\ \E empty \in EmptyPlaces, lost \in LostPlaces, t \in Texts \ Lookalikes :
          cell = [i \in Items |-> [r \in Rows |-> LegacyCell(i, r, empty, lost, t)]]
    /\ written = [i \in Items |-> [r \in Rows |->
                    IF cell[i][r].form = "plain" THEN cell[i][r].text ELSE Unknown]]
    /\ item = [i \in Items |-> NoItem]
    /\ record = NoRecord
    /\ residue = [wal |-> FALSE, free |-> MaxChunks, fragments |-> TRUE]
    /\ \E opener \in Openers :
          /\ owner = [Down EXCEPT !.opener = opener]
          /\ comments = IF opener = "board" THEN "kept" ELSE "gone"
    /\ peer = "absent" /\ reader = FALSE
    /\ day = 0 /\ starts = 0 /\ writes = 0 /\ late = {} /\ strays = FALSE

OwnerSteps ==
    \/ CheckKey \/ ResetItem \/ ClearComments \/ ReopenItem
    \/ SkipItem \/ StartItem \/ SealBatch \/ SealItem
    \/ BeginOwed \/ BeginFinish \/ ScrubChunk \/ Scrubbed \/ Vacuum \/ Confirm

Quiescent == owner.at = "down" /\ starts = MaxStarts /\ UNCHANGED vars

Next ==
    \/ \E ring \in Rings \cup {NoKey} : Start(owner.opener, ring)
    \/ OwnerSteps \/ BeginDeferred
    \/ \E i \in Items, r \in Rows, t \in Texts :
          Write(i, r, t) \/ PeerWrites(i, r, t) \/ PeerWritesGuarded(i, r, t)
    \/ PeerOpens \/ PeerRefreshes \/ ReaderMoves \/ NextDay \/ Stop \/ Quiescent

Spec == Init /\ [][Next]_vars
FairSpec == Spec /\ WF_vars(OwnerSteps)

-----------------------------------------------------------------------------
CellTypes == cell \in [Items -> [Rows -> Stored]]

TypeOK ==
    /\ CellTypes
    /\ item \in [Items -> [state : {"none", "pending", "sealing", "sealed"}, cursor : 0 .. NRows]]
    /\ record \in [state : {"none", "ok", "vacuum_pending"}, kcv : Keys \cup {NoKey},
                   scrubbed : BOOLEAN, attempt : 0 .. NoAttempt]
    /\ residue \in [wal : BOOLEAN, free : 0 .. MaxChunks, fragments : BOOLEAN]
    /\ owner.at \in Phases /\ owner.mode \in Modes
    /\ late \subseteq Items \X Rows

\* No step of a migration, of a change of keys or of a kill loses a value: what was
\* last stored in a cell opens for a holder of the keys, and opens to what was stored.
Everything == [current |-> LostKey, retired |-> Keys \ {LostKey}]
NothingLost ==
    \A i \in Items, r \in Rows : written[i][r] # Unknown =>
        LET opened == StoreOpenText("sealing", Everything, cell[i][r], Place(i, r))
        IN opened.ok /\ opened.text = written[i][r]

\* A column recorded as sealed holds no plaintext, except where a process without a key
\* wrote after it had looked at the record and before the owner wrote its key, and then
\* only until a satellite opens its store again once the column is finished: a row
\* behind the cursor of a column that is still walked is not looked for.
SealedMeansSealed ==
    \A i \in Items, r \in Rows :
        item[i].state = "sealed" /\ cell[i][r].form \in {"plain", "escaped"} => Place(i, r) \in late

\* A store recorded as compacted, with every column sealed, keeps no old plaintext in
\* its WAL, its free pages or its page fragments, however often opening was interrupted.
OkIsClean ==
    (record.state = "ok" /\ record.kcv # NoKey /\ ~strays /\ \A i \in Items : item[i].state = "sealed")
        => residue = [wal |-> FALSE, free |-> 0, fragments |-> FALSE]

\* Opening ends, with writers at work beside it: no column is walked forever.
OpensEventually == owner.at = "check" ~> owner.at \in {"serve", "down"}

SealedUnder(k, s, p) == s.form = "sealed" /\ Opens(CipherOf(k, {}), s, p)

\* An owner that resets every column when it finds a retired key, as StoreKeyState::
\* Retired prescribes, moves the recorded key only when every value opens under it.
ResetMovesTheKeyLast ==
    [][(owner.opener = "core" /\ record.kcv # NoKey /\ record'.kcv # record.kcv) =>
        \A i \in Items, r \in Rows :
            cell'[i][r].form # "null" => SealedUnder(record'.kcv, cell'[i][r], Place(i, r))]_vars

\* "Every value now opens under the current root: the record moves on"
\* (content_sqlite.rs, migrate_columns): the recorded key changes from one to another
\* only when every value opens under the new one.
RecordMovesWhenAllOpen ==
    [][(record.kcv # NoKey /\ record'.kcv # record.kcv) =>
        \A i \in Items, r \in Rows :
            cell'[i][r].form # "null" => SealedUnder(record'.kcv, cell'[i][r], Place(i, r))]_vars
===============================================================================
