------------------------------ MODULE SealedLog ------------------------------
(***************************************************************************)
(* One recording (crates/core/crypto/src/sealed_log.rs): records appended  *)
(* to a sealed log, the log compacted into a sealed file, and a plain file *)
(* sealed in place; killed, out of disk or out of power at any step.       *)
(* The caller (no code under src/) works on one path at a time, and drops  *)
(* a writer whose append failed.                                           *)
(***************************************************************************)
EXTENDS SealedFile

CONSTANTS
    NoFile,
    k1, k2,      \* the content key at first, and after a rotation
    Records,     \* what may be appended, each a sequence of bytes
    Plain,       \* the bytes of the file sealed in place
    MaxRecords,  \* bound: records in the log
    MaxStops     \* bound: kills and power losses

VARIABLES
    current,  \* the cipher's current key; the other, once current, is retired
    log,      \* the log: its frames, how its last bytes end, how many frames are synced
    temp,     \* <dest>.sealing, and whether it is synced
    dest,     \* the file it becomes: plain, or sealed
    job,      \* the call in progress
    owed,     \* what the caller may rely on: the records synced
    stops

logVars == <<current, log, temp, dest, job, owed, stops>>

\* How a log ends: with a whole frame, in the middle of one, or with a whole one that does
\* not open.
Tails == {"clean", "short", "final"}

Idle == [kind |-> "idle"]
Fresh == [header |-> FALSE, frames |-> <<>>, tail |-> "clean", synced |-> 0]

\* The bytes that are sealed, and what the log and the file may hold.
Bytes == UNION {Range(s) : s \in Records \cup {Plain}}
LogFile ==
    [header : BOOLEAN, frames : Seq([key : {k1, k2}, at : Nat, rec : Seq(Bytes)]),
     tail : Tails, synced : Nat]
PlainFile == [plain : {TRUE}, bytes : Seq(Bytes)]
Published ==
    [plain : {FALSE}, synced : BOOLEAN, garbled : BOOLEAN, of : Seq(Bytes), settled : BOOLEAN,
     file : [key : {k1, k2}, chunks : Seq([data : Seq(Bytes), last : BOOLEAN]), size : Nat],
     old : {NoFile} \cup PlainFile]

ASSUME LogAssumption ==
    /\ Records \cup {Plain} \subseteq Seq(Bytes)
    /\ NoFile \notin LogFile \cup PlainFile \cup Published

\* The current key, and those retired.
AllKeys == {k1, current}

Texts(frames) == [i \in DOMAIN frames |-> frames[i].rec]

---------------------------------------------------------------------------
\* scan_with and open_log.

\* A record opens under its key, at its place.
OpensAt(frames, i, key) == frames[i].key = key /\ frames[i].at = i - 1
Committed(frames, key) ==
    Max({n \in 0..Len(frames) : \A i \in 1..n : OpensAt(frames, i, key)})

TailOf(l, key) ==
    CASE Committed(l.frames, key) = Len(l.frames) -> l.tail
      [] Committed(l.frames, key) = Len(l.frames) - 1 /\ l.tail = "clean" -> "final"
      [] OTHER -> "corrupt"

\* A complete first record that does not open: the key is wrong.
Accepts(l, key) ==
    /\ l.header
    /\ TailOf(l, key) # "corrupt"
    /\ ~(TailOf(l, key) = "final" /\ Committed(l.frames, key) = 0)

\* The current key is tried first.
LogOpens(l) == l # NoFile /\ \E key \in AllKeys : Accepts(l, key)
KeyOf(l) == IF Accepts(l, current) THEN current ELSE k1
IsTorn(l) == TailOf(l, KeyOf(l)) # "clean"
IsRetired(l) == KeyOf(l) # current

\* open_recovering.
Recovered(l) == SubSeq(Texts(l.frames), 1, Committed(l.frames, KeyOf(l)))

---------------------------------------------------------------------------
\* SealedLogWriter.

Create ==
    /\ job = Idle /\ log = NoFile /\ dest = NoFile
    /\ log' = Fresh
    /\ job' = [kind |-> "create", key |-> current]
    /\ UNCHANGED <<current, temp, dest, owed, stops>>

WriteHeader ==
    /\ job.kind = "create"
    /\ log' = [log EXCEPT !.header = TRUE]
    /\ job' = [kind |-> "write", key |-> job.key, next |-> 0, rec |-> <<>>, busy |-> FALSE]
    /\ UNCHANGED <<current, temp, dest, owed, stops>>

\* count_records.
\* Mutant: the frame that failed is counted with the others.
CountFrames(l) == Len(l.frames) + (IF l.tail = "final" THEN 1 ELSE 0)
CountRecords(l) == Committed(l.frames, KeyOf(l))

\* open_append cuts a torn tail and syncs what is left; a clean log it leaves as it is.
OpenAppend ==
    /\ job = Idle /\ dest = NoFile
    /\ LogOpens(log) /\ ~IsRetired(log)
    /\ log' = IF IsTorn(log)
              THEN [log EXCEPT !.frames = SubSeq(@, 1, Committed(@, KeyOf(log))),
                               !.tail = "clean", !.synced = Committed(log.frames, KeyOf(log))]
              ELSE log
    /\ owed' = IF IsTorn(log) THEN Recovered(log) ELSE owed
    /\ job' = [kind |-> "write", key |-> KeyOf(log), next |-> CountRecords(log),
               rec |-> <<>>, busy |-> FALSE]
    /\ UNCHANGED <<current, temp, dest, stops>>

\* append: the frame reaches the file in pieces.
AppendStarts ==
    /\ job.kind = "write" /\ ~job.busy
    /\ Len(log.frames) < MaxRecords
    /\ \E rec \in Records : job' = [job EXCEPT !.rec = rec, !.busy = TRUE]
    /\ log' = [log EXCEPT !.tail = "short"]
    /\ UNCHANGED <<current, temp, dest, owed, stops>>

AppendEnds ==
    /\ job.kind = "write" /\ job.busy
    /\ log' = [log EXCEPT !.frames = Append(@, [key |-> job.key, at |-> job.next, rec |-> job.rec]),
                          !.tail = "clean"]
    /\ job' = [job EXCEPT !.next = @ + 1, !.busy = FALSE, !.rec = <<>>]
    /\ UNCHANGED <<current, temp, dest, owed, stops>>

\* The disk is full: append returns the error.
AppendFails ==
    /\ job.kind = "write" /\ job.busy
    /\ job' = Idle
    /\ UNCHANGED <<current, log, temp, dest, owed, stops>>

Sync ==
    /\ job.kind = "write" /\ ~job.busy
    /\ log' = [log EXCEPT !.synced = Len(log.frames)]
    /\ owed' = Texts(log.frames)
    /\ UNCHANGED <<current, temp, dest, job, stops>>

\* The caller drops the writer.
Close ==
    /\ job.kind = "write" /\ ~job.busy
    /\ job' = Idle
    /\ UNCHANGED <<current, log, temp, dest, owed, stops>>

---------------------------------------------------------------------------
\* compact_to_sealed_file and seal_file_in_place: both write <dest>.sealing, then rename.

Sealing(pieces, kind) ==
    [kind |-> kind, at |-> "start", todo |-> pieces, of |-> FlattenSeq(pieces)]

\* read_log: strict.
Compact ==
    /\ job = Idle /\ dest = NoFile
    /\ LogOpens(log) /\ ~IsTorn(log)
    /\ job' = Sealing(Recovered(log), "compact")
    /\ UNCHANGED <<current, log, temp, dest, owed, stops>>

\* A file already sealed is left alone.
SealInPlace ==
    /\ job = Idle
    /\ dest # NoFile /\ dest.plain
    /\ job' = Sealing(<<dest.bytes>>, "inplace")
    /\ UNCHANGED <<current, log, temp, dest, owed, stops>>

Seals == job.kind \in {"compact", "inplace"}

\* A stale .sealing file is removed first.
CreateTemp ==
    /\ Seals /\ job.at = "start"
    /\ temp' = [w |-> NewWriter(current), synced |-> FALSE, garbled |-> FALSE]
    /\ job' = [job EXCEPT !.at = "write"]
    /\ UNCHANGED <<current, log, dest, owed, stops>>

WritePiece ==
    /\ Seals /\ job.at = "write" /\ job.todo # <<>>
    /\ temp' = [temp EXCEPT !.w = WritePlain(@, Head(job.todo))]
    /\ job' = [job EXCEPT !.todo = Tail(@)]
    /\ UNCHANGED <<current, log, dest, owed, stops>>

\* Mutant: finish does not sync.
FinishedUnsynced(t) == [t EXCEPT !.w = SealChunk(@, TRUE)]
Finished(t) == [t EXCEPT !.w = SealChunk(@, TRUE), !.synced = TRUE]

\* A copy may be garbled on its way to the disk, which only the in-place seal would notice: it
\* reads its copy back.  Compaction does not, and its copy is taken to be as written.
FinishTemp ==
    /\ Seals /\ job.at = "write" /\ job.todo = <<>>
    /\ \E garbled \in {FALSE, job.kind = "inplace"} : temp' = [Finished(temp) EXCEPT !.garbled = garbled]
    /\ job' = [job EXCEPT !.at = IF job.kind = "inplace" THEN "verify" ELSE "publish"]
    /\ UNCHANGED <<current, log, dest, owed, stops>>

Verifies(t) == ~t.garbled

Verify ==
    /\ Seals /\ job.at = "verify" /\ Verifies(temp)
    /\ job' = [job EXCEPT !.at = "publish"]
    /\ UNCHANGED <<current, log, temp, dest, owed, stops>>

\* The disk is full, or the copy does not verify: the copy goes.
SealFails ==
    /\ Seals
    /\ \/ job.at = "write"
       \/ job.at = "verify" /\ ~Verifies(temp)
    /\ temp' = NoFile /\ job' = Idle
    /\ UNCHANGED <<current, log, dest, owed, stops>>

\* The rename; the directory is synced after it.
Rename ==
    /\ Seals /\ job.at = "publish"
    /\ dest' = [plain |-> FALSE, file |-> OnDisk(temp.w, 0), synced |-> temp.synced,
                garbled |-> temp.garbled, of |-> job.of, settled |-> FALSE, old |-> dest]
    /\ temp' = NoFile
    /\ job' = [job EXCEPT !.at = "settle"]
    /\ UNCHANGED <<current, log, owed, stops>>

Settle ==
    /\ Seals /\ job.at = "settle"
    /\ dest' = [dest EXCEPT !.settled = TRUE, !.old = NoFile]
    /\ job' = [kind |-> IF job.kind = "compact" THEN "compacted" ELSE "idle"]
    /\ UNCHANGED <<current, log, temp, owed, stops>>

\* The caller deletes a log whose file is published.  A folder's names reach the disk
\* in the order they changed.
DeleteLog ==
    /\ job.kind = "compacted" \/ job = Idle
    /\ log # NoFile /\ dest # NoFile
    /\ log' = NoFile /\ job' = Idle
    /\ dest' = [dest EXCEPT !.settled = TRUE, !.old = NoFile]
    /\ UNCHANGED <<current, temp, owed, stops>>

---------------------------------------------------------------------------
\* The machine.

Kill ==
    /\ stops < MaxStops /\ job # Idle
    /\ job' = Idle /\ stops' = stops + 1
    /\ UNCHANGED <<current, log, temp, dest, owed>>

\* What is left of a log: every synced frame, some of the others, and the bytes of one more.
Cuts == [frames : log.synced..Len(log.frames), tail : Tails]
TornAt == {cut \in Cuts : cut.frames = Len(log.frames) /\ log.tail = "clean" => cut.tail = "clean"}
LogsLeft ==
    IF log = NoFile THEN {NoFile}
    ELSE {[log EXCEPT !.frames = SubSeq(@, 1, cut.frames), !.tail = cut.tail] : cut \in TornAt}
TempsLeft ==
    IF temp = NoFile \/ temp.synced THEN {NoFile, temp}
    ELSE {NoFile, [temp EXCEPT !.w = NewWriter(temp.w.key)]}
DestsLeft ==
    IF dest = NoFile \/ dest.plain THEN {dest}
    ELSE LET kept == IF dest.synced THEN {dest}
                     ELSE {[dest EXCEPT !.file.size = lost] : lost \in 0..dest.file.size}
         IN kept \cup (IF dest.settled THEN {} ELSE {dest.old})

PowerLoss ==
    /\ stops < MaxStops
    /\ job' = Idle /\ stops' = stops + 1
    /\ \E l \in LogsLeft : log' = IF l # NoFile /\ ~l.header THEN NoFile ELSE l
    /\ temp' \in TempsLeft
    /\ \E d \in DestsLeft :
           dest' = IF d = NoFile \/ d.plain THEN d ELSE [d EXCEPT !.settled = TRUE, !.old = NoFile]
    /\ UNCHANGED <<current, owed>>

\* A restart may find a new content key, the old one retired.
Rotate ==
    /\ job = Idle /\ current = k1
    /\ current' = k2
    /\ UNCHANGED <<log, temp, dest, job, owed, stops>>

---------------------------------------------------------------------------
LogInit ==
    /\ current = k1
    /\ log = NoFile /\ temp = NoFile
    /\ \/ dest = NoFile
       \/ dest = [plain |-> TRUE, bytes |-> Plain]
    /\ job = Idle /\ owed = <<>> /\ stops = 0

LogNext ==
    \/ Create \/ WriteHeader \/ OpenAppend
    \/ AppendStarts \/ AppendEnds \/ AppendFails \/ Sync \/ Close
    \/ Compact \/ SealInPlace \/ CreateTemp \/ WritePiece \/ FinishTemp
    \/ Verify \/ SealFails \/ Rename \/ Settle \/ DeleteLog
    \/ Kill \/ PowerLoss \/ Rotate

LogSpec == LogInit /\ [][LogNext]_logVars

---------------------------------------------------------------------------
\* Every state the variables may be in.
LogTypeOK ==
    /\ current \in {k1, k2}
    /\ log # NoFile =>
           /\ log.header \in BOOLEAN /\ log.tail \in {"clean", "short", "final"}
           /\ Len(log.frames) <= MaxRecords /\ log.synced <= Len(log.frames)
           /\ ~log.header => log = Fresh
    /\ temp # NoFile => temp.w.key \in {k1, k2} /\ Len(temp.w.buffer) <= ChunkSize
    /\ dest # NoFile => dest.plain \in BOOLEAN
    /\ job.kind \in {"idle", "create", "write", "compact", "inplace", "compacted"}
    /\ stops <= MaxStops

IsPublished == dest # NoFile /\ ~dest.plain

\* Every record the caller synced can be read back, in order: from the log, torn or not,
\* or from the file it was compacted into once the log is gone.
SyncedKept ==
    owed # <<>> =>
        \/ LogOpens(log) /\ IsPrefix(owed, Recovered(log))
        \/ /\ log = NoFile /\ IsPublished
           /\ Opens(dest.file, AllKeys)
           /\ IsPrefix(FlattenSeq(owed), ReadAll(dest.file))

\* A published file is never half-written: it opens, any range of it is that range of what
\* it was made from, and cut anywhere it is refused.
PublishedWhole ==
    IsPublished =>
        /\ Opens(dest.file, AllKeys) /\ ~dest.garbled
        /\ \A start, len \in 0..(Len(dest.of) + 1) :
               /\ Readable(dest.file, start, len)
               /\ ReadRange(dest.file, start, len) = SubSeq(dest.of, start + 1, RangeEnd(dest.file, start, len))
        /\ ReadAll(dest.file) = dest.of
        /\ \A lost \in 1..dest.file.size :
               ~Opens([dest.file EXCEPT !.size = @ - lost], AllKeys)
===============================================================================
