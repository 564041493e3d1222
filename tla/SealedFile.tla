----------------------------- MODULE SealedFile -----------------------------
(***************************************************************************)
(* RYU-SF01 (crates/core/crypto/src/sealed_file.rs): a write-once file of  *)
(* sealed chunks.  The writer holds one chunk back, so that it knows which *)
(* is the last; the reader works from the file's length alone.             *)
(* The header and the context are not told apart from the key.             *)
(***************************************************************************)
EXTENDS Naturals, SequencesExt

CONSTANTS
    ChunkSize, \* 1 << chunk_log2
    TagLen     \* TAG_LEN

ASSUME SizesAssumption == ChunkSize \in Nat \ {0} /\ TagLen \in Nat \ {0}

SealedChunk == ChunkSize + TagLen

---------------------------------------------------------------------------
\* SealedFileWriter.

NewWriter(key) == [key |-> key, chunks |-> <<>>, buffer |-> <<>>]

SealChunk(w, last) ==
    [w EXCEPT !.chunks = Append(@, [data |-> w.buffer, last |-> last]), !.buffer = <<>>]

MakeRoom(w) == IF Len(w.buffer) = ChunkSize THEN SealChunk(w, FALSE) ELSE w

WritePlain(w, data) ==
    FoldLeft(LAMBDA acc, byte : [MakeRoom(acc) EXCEPT !.buffer = Append(@, byte)], w, data)

\* The file a writer has on disk, once `lost` of its bytes are gone from the end.
BodyLen(chunks) == FoldLeft(LAMBDA sum, c : sum + Len(c.data) + TagLen, 0, chunks)
OnDisk(w, lost) == [key |-> w.key, chunks |-> w.chunks, size |-> BodyLen(w.chunks) - lost]

Finish(w) == OnDisk(SealChunk(w, TRUE), 0)

---------------------------------------------------------------------------
\* SealedFileReader.

Whole(f) == f.size \div SealedChunk
Rest(f) == f.size % SealedChunk

WellFormed(f) == f.size >= TagLen /\ Rest(f) \notin 1..(TagLen - 1)

ChunkCount(f) == IF Rest(f) = 0 THEN Whole(f) ELSE Whole(f) + 1
PlainLen(f) ==
    IF Rest(f) = 0 THEN Whole(f) * ChunkSize ELSE Whole(f) * ChunkSize + Rest(f) - TagLen

\* load_chunk: the bytes where chunk i must be open only if they are that chunk, whole,
\* sealed with the flag its place calls for.
ExpectedLen(f, i) ==
    IF i + 1 = ChunkCount(f) THEN PlainLen(f) - i * ChunkSize ELSE ChunkSize
Loads(f, i, key) ==
    /\ f.key = key /\ i < Len(f.chunks)
    /\ Len(f.chunks[i + 1].data) = ExpectedLen(f, i)
    /\ f.chunks[i + 1].last = (i + 1 = ChunkCount(f))

Opens(f, keys) ==
    WellFormed(f) /\ \E key \in keys : Loads(f, ChunkCount(f) - 1, key)

\* read_range, from byte `start` (counted from 0), clamped to the end of the file.
RangeEnd(f, start, len) ==
    IF start + len < PlainLen(f) THEN start + len ELSE PlainLen(f)
Covered(f, start, len) ==
    IF start >= RangeEnd(f, start, len) THEN {}
    ELSE (start \div ChunkSize)..((RangeEnd(f, start, len) - 1) \div ChunkSize)
Readable(f, start, len) == \A i \in Covered(f, start, len) : Loads(f, i, f.key)
ReadRange(f, start, len) ==
    [j \in 1..(RangeEnd(f, start, len) - start) |->
        f.chunks[((start + j - 1) \div ChunkSize) + 1].data[((start + j - 1) % ChunkSize) + 1]]

\* open_file_bytes: read to the end.
ReadAll(f) == ReadRange(f, 0, PlainLen(f))
===============================================================================
