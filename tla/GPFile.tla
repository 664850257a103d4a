------------------------------ MODULE GPFile ------------------------------
(***************************************************************************)
(* The goDB block file of pkg/goDB/GPFile.go: a header of three arrays of  *)
(* NumElements big-endian int64 (block end offsets, timestamps,            *)
(* uncompressed lengths) followed by the compressed blocks, appended one   *)
(* per WriteTimedBlock. One GPFile object at a time uses the file; it can  *)
(* be closed and the file opened again by NewGPFile.                       *)
(*                                                                         *)
(* A compressed block is a sequence of CompLen[d] cells <<d, k>> standing  *)
(* for its bytes: it decodes back to d only when read whole and in place.  *)
(* The header is kept on disk as the bytes the code writes.                *)
(* Crashes are of the process: what write(2) handed to the kernel stays.   *)
(***************************************************************************)
EXTENDS Integers, SequencesExt

CONSTANTS
    NumElements,  \* header slots per array (512 in the code)
    Timestamps,   \* timestamps callers write and read, 0 included
    Data,         \* payloads
    CompLen,      \* Data -> length of its LZ4 compressed form
    UncompLen,    \* Data -> len(data)
    Failures,     \* subset of {"crash", "partial", "openFail"} the run allows
    MaxFileCells, \* bound: cells appended after the header
    NoData,       \* no payload written under a timestamp
    NoRead        \* no read has happened yet

ASSUME /\ NumElements \in Nat \ {0}
       /\ Timestamps \subseteq Nat /\ 0 \in Timestamps
       /\ CompLen \in [Data -> Nat \ {0}] /\ UncompLen \in [Data -> Nat \ {0}]
       /\ Failures \subseteq {"crash", "partial", "openFail"}

Slots == 1..NumElements          \* slot i is index i-1 of the Go arrays
WordBytes == 8                   \* one int64
BufSize == WordBytes * NumElements
HeaderLen == 3 * BufSize         \* BufSize*3, where block 0 starts

VARIABLES
    disk,        \* "absent", "short" (created, header incomplete) or "ok"
    dhdr,        \* the header bytes on disk
    body,        \* the cells after the header
    isOpen,      \* a GPFile object is in use
    mhdr,        \* its blocks, timestamps, lengths arrays
    pos,         \* offset of its curFile
    lastSeekPos, \* f.lastSeekPos
    written,     \* history: payload of each timestamp WriteTimedBlock stored without error
    lastRead     \* history: timestamp and result of the latest ReadBlock

vars == <<disk, dhdr, body, isOpen, mhdr, pos, lastSeekPos, written, lastRead>>

Header == [blocks : [Slots -> Nat], timestamps : [Slots -> Nat],
           lengths : [Slots -> Nat]]
ZeroHdr == [blocks |-> [i \in Slots |-> 0], timestamps |-> [i \in Slots |-> 0],
            lengths |-> [i \in Slots |-> 0]]
Cell == Data \X (1..10)

(* The compressed form of a payload.                                       *)
Enc(d) == [k \in 1..CompLen[d] |-> <<d, k>>]

-----------------------------------------------------------------------------
(* The header conversions of NewGPFile and WriteTimedBlock.                *)

(* byte(v >> (56 - j*8)) for j = 0..n-1: the n low bytes of v, big end     *)
(* first (v >= 0).                                                         *)
RECURSIVE BigEndian(_, _)
BigEndian(v, n) ==
    IF n = 0 THEN <<>> ELSE BigEndian(v \div 256, n - 1) \o <<v % 256>>

(* int64(b[0])<<56 | ... | int64(b[7]).                                    *)
ParseWord(b) == FoldLeft(LAMBDA acc, x : acc * 256 + x, 0, b)

(* Mutant: the loop fills only the blocks and timestamps parts of wBuf.   *)
HeaderBytesNoLengths(h) ==
    LET arr(f) == FlattenSeq([i \in Slots |-> BigEndian(f[i], WordBytes)])
    IN arr(h.blocks) \o arr(h.timestamps)

(* f.wBuf: the blocks, timestamps and lengths arrays, each BufSize bytes.  *)
HeaderBytes(h) ==
    LET arr(f) == FlattenSeq([i \in Slots |-> BigEndian(f[i], WordBytes)])
    IN arr(h.blocks) \o arr(h.timestamps) \o arr(h.lengths)

(* The three parse loops of NewGPFile over bufH, bufTS, bufLen.            *)
ParseHeader(b) ==
    LET arr(base) == [i \in Slots |->
            ParseWord(SubSeq(b, base + (i - 1) * WordBytes + 1, base + i * WordBytes))]
    IN [blocks |-> arr(0), timestamps |-> arr(BufSize), lengths |-> arr(2 * BufSize)]

ZeroHeaderBytes == [k \in 1..HeaderLen |-> 0]

-----------------------------------------------------------------------------
(* Reading the header arrays.                                              *)

EmptySlot(h, i) == h.timestamps[i] = 0 /\ h.blocks[i] = 0 /\ h.lengths[i] = 0

(* Mutant: the first free slot's index is returned, not the count before it. *)
BlocksUsedOffByOne(h) ==
    IF \E i \in Slots : EmptySlot(h, i)
      THEN Min({i \in Slots : EmptySlot(h, i)})
      ELSE -1
(* BlocksUsed: index of the first all-zero slot, or -1 (an error) if none. *)
BlocksUsed(h) ==
    IF \E i \in Slots : EmptySlot(h, i)
      THEN Min({i \in Slots : EmptySlot(h, i)}) - 1
      ELSE -1

(* The slot WriteTimedBlock stops its scan at: the first whose timestamp   *)
(* is the one written or zero.                                             *)
ScanStop(h, ts) == {i \in Slots : h.timestamps[i] \in {ts, 0}}

(* The offset where block i starts according to header h.                  *)
BlockStart(h, i) == IF i = 1 THEN HeaderLen ELSE h.blocks[i - 1]

(* The cells of the file from offset p, at most n of them.                 *)
CellsAt(p, n) ==
    LET from == p - HeaderLen + 1
        to   == Min({p + n - HeaderLen, Len(body)})
    IN IF from > to THEN <<>> ELSE SubSeq(body, from, to)

TypeOK ==
    /\ disk \in {"absent", "short", "ok"}
    /\ dhdr \in Seq(0..255) /\ Len(dhdr) \in {0, HeaderLen}
    /\ body \in Seq(Cell) /\ Len(body) <= MaxFileCells
    /\ isOpen \in BOOLEAN /\ mhdr \in Header
    /\ pos \in Nat /\ lastSeekPos \in Nat
    /\ written \in [Timestamps -> Data \cup {NoData}]
    /\ lastRead \in [ts : Timestamps, res : Data \cup {"err", "garbage"}] \cup {NoRead}

-----------------------------------------------------------------------------
Init ==
    /\ disk = "absent" /\ dhdr = <<>> /\ body = <<>>
    /\ isOpen = FALSE /\ mhdr = ZeroHdr /\ pos = 0 /\ lastSeekPos = 0
    /\ written = [t \in Timestamps |-> NoData] /\ lastRead = NoRead

(* NewGPFile on a missing file: create it and write the three zero         *)
(* buffers; a crash before all three are written leaves a short file.      *)
NewGPFileCreate ==
    /\ ~isOpen /\ disk = "absent"
    /\ \/ /\ disk' = "ok" /\ dhdr' = ZeroHeaderBytes
          /\ isOpen' = TRUE /\ mhdr' = ParseHeader(ZeroHeaderBytes)
          /\ pos' = HeaderLen /\ lastSeekPos' = 0
       \/ /\ "crash" \in Failures
          /\ disk' = "short"
          /\ UNCHANGED <<dhdr, isOpen, mhdr, pos, lastSeekPos>>
    /\ UNCHANGED <<body, written, lastRead>>

(* NewGPFile on an existing file: read and parse the header. (A short file *)
(* fails with "Invalid header" and changes nothing.)                       *)
NewGPFileOpen ==
    /\ ~isOpen /\ disk = "ok"
    /\ isOpen' = TRUE /\ mhdr' = ParseHeader(dhdr)
    /\ pos' = HeaderLen /\ lastSeekPos' = 0
    /\ UNCHANGED <<disk, dhdr, body, written, lastRead>>

(* Close: the object is dropped and the file left as it is.                *)
Close ==
    /\ isOpen
    /\ isOpen' = FALSE /\ mhdr' = ZeroHdr /\ pos' = 0 /\ lastSeekPos' = 0
    /\ UNCHANGED <<disk, dhdr, body, written, lastRead>>

(* ReadBlock(i): read readLen bytes where block i starts, seeking only if  *)
(* that offset differs from lastSeekPos, and decompress them into          *)
(* lengths[i] bytes. Whole cells of one block decode to its payload; any   *)
(* other bytes fail the length check or, the Decompress error being        *)
(* ignored, come back as garbage.                                          *)
ReadBlock(i) ==
    LET seekPos == BlockStart(mhdr, i)
        readLen == mhdr.blocks[i] - seekPos
        p       == IF seekPos # lastSeekPos THEN seekPos ELSE pos
        got     == CellsAt(p, readLen)
        decoded == {d \in Data : got = Enc(d) /\ mhdr.lengths[i] = UncompLen[d]}
        results == IF Len(got) # readLen THEN {"err"}
                   ELSE IF decoded # {} THEN decoded ELSE {"err", "garbage"}
    IN /\ isOpen /\ ~EmptySlot(mhdr, i)
       /\ pos' = p + Len(got) /\ lastSeekPos' = seekPos
       /\ \E r \in results : lastRead' = [ts |-> mhdr.timestamps[i], res |-> r]
       /\ UNCHANGED <<disk, dhdr, body, isOpen, mhdr, written>>

(* ReadTimedBlock(ts): ReadBlock of the first slot holding ts.             *)
ReadTimedBlock(ts) ==
    LET found == {i \in Slots : mhdr.timestamps[i] = ts}
    IN found # {} /\ ReadBlock(Min(found))

(* The state after a process crash: only the file remains.                 *)
Dropped ==
    isOpen' = FALSE /\ mhdr' = ZeroHdr /\ pos' = 0 /\ lastSeekPos' = 0

(* The header after writing a prefix of k of the three arrays of h.        *)
TornHeader(h, k) == SubSeq(HeaderBytes(h), 1, k * BufSize)
                        \o SubSeq(dhdr, k * BufSize + 1, HeaderLen)

(* Mutant: the block end is computed from len(data), not nWrite.         *)
WriteTimedBlockLenData(ts, d) ==
    LET stop     == Min(ScanStop(mhdr, ts))
        nextFree == BlockStart(mhdr, stop)
        enc      == Enc(d)
        newHdr   == [mhdr EXCEPT !.blocks[stop] = nextFree + UncompLen[d],
                                 !.timestamps[stop] = ts,
                                 !.lengths[stop] = UncompLen[d]]
    IN /\ isOpen /\ ScanStop(mhdr, ts) # {} /\ mhdr.timestamps[stop] # ts
       /\ \/ \* Compress returns an error after writing k bytes
             /\ "partial" \in Failures
             /\ \E k \in 1..Len(enc) :
                   /\ Len(body) + k <= MaxFileCells
                   /\ body' = body \o SubSeq(enc, 1, k)
             /\ UNCHANGED <<disk, dhdr, isOpen, mhdr, pos, lastSeekPos, written>>
          \/ \* the process dies during the append
             /\ "crash" \in Failures
             /\ \E k \in 1..Len(enc) :
                   /\ Len(body) + k <= MaxFileCells
                   /\ body' = body \o SubSeq(enc, 1, k)
             /\ Dropped /\ UNCHANGED <<disk, dhdr, written>>
          \/ \* the block is appended whole; then the header
             /\ Len(body) + Len(enc) <= MaxFileCells
             /\ body' = body \o enc
             /\ \/ /\ dhdr' = HeaderBytes(newHdr) /\ mhdr' = newHdr
                   /\ written' = [written EXCEPT ![ts] = d]
                   /\ UNCHANGED <<disk, isOpen, pos, lastSeekPos>>
                \/ /\ "openFail" \in Failures
                   /\ mhdr' = newHdr
                   /\ UNCHANGED <<disk, dhdr, isOpen, pos, lastSeekPos, written>>
                \/ /\ "partial" \in Failures
                   /\ \E k \in 1..2 : dhdr' = TornHeader(newHdr, k)
                   /\ mhdr' = newHdr
                   /\ UNCHANGED <<disk, isOpen, pos, lastSeekPos, written>>
                \/ /\ "crash" \in Failures
                   /\ \E k \in 0..2 : dhdr' = TornHeader(newHdr, k)
                   /\ Dropped /\ UNCHANGED <<disk, written>>
    /\ UNCHANGED lastRead

(* Mutant: wBuf is filled before the arrays are updated.                  *)
WriteTimedBlockStaleHeader(ts, d) ==
    LET stop     == Min(ScanStop(mhdr, ts))
        nextFree == BlockStart(mhdr, stop)
        enc      == Enc(d)
        newHdr   == [mhdr EXCEPT !.blocks[stop] = nextFree + Len(enc),
                                 !.timestamps[stop] = ts,
                                 !.lengths[stop] = UncompLen[d]]
    IN /\ isOpen /\ ScanStop(mhdr, ts) # {} /\ mhdr.timestamps[stop] # ts
       /\ \/ \* Compress returns an error after writing k bytes
             /\ "partial" \in Failures
             /\ \E k \in 1..Len(enc) :
                   /\ Len(body) + k <= MaxFileCells
                   /\ body' = body \o SubSeq(enc, 1, k)
             /\ UNCHANGED <<disk, dhdr, isOpen, mhdr, pos, lastSeekPos, written>>
          \/ \* the process dies during the append
             /\ "crash" \in Failures
             /\ \E k \in 1..Len(enc) :
                   /\ Len(body) + k <= MaxFileCells
                   /\ body' = body \o SubSeq(enc, 1, k)
             /\ Dropped /\ UNCHANGED <<disk, dhdr, written>>
          \/ \* the block is appended whole; then the header
             /\ Len(body) + Len(enc) <= MaxFileCells
             /\ body' = body \o enc
             /\ \/ /\ dhdr' = HeaderBytes(mhdr) /\ mhdr' = newHdr
                   /\ written' = [written EXCEPT ![ts] = d]
                   /\ UNCHANGED <<disk, isOpen, pos, lastSeekPos>>
                \/ /\ "openFail" \in Failures
                   /\ mhdr' = newHdr
                   /\ UNCHANGED <<disk, dhdr, isOpen, pos, lastSeekPos, written>>
                \/ /\ "partial" \in Failures
                   /\ \E k \in 1..2 : dhdr' = TornHeader(newHdr, k)
                   /\ mhdr' = newHdr
                   /\ UNCHANGED <<disk, isOpen, pos, lastSeekPos, written>>
                \/ /\ "crash" \in Failures
                   /\ \E k \in 0..2 : dhdr' = TornHeader(newHdr, k)
                   /\ Dropped /\ UNCHANGED <<disk, written>>
    /\ UNCHANGED lastRead

(* WriteTimedBlock(ts, d): find the slot, append the compressed block with *)
(* O_APPEND, update the header arrays in memory, then rewrite the header.  *)
(* Each step may fail as Failures allows: the append may write part of the *)
(* block and return an error, the header open may fail after the arrays    *)
(* changed, the header write may stop after k arrays, and the process may  *)
(* crash after any byte count the kernel took.                             *)
WriteTimedBlock(ts, d) ==
    LET stop     == Min(ScanStop(mhdr, ts))
        nextFree == BlockStart(mhdr, stop)
        enc      == Enc(d)
        newHdr   == [mhdr EXCEPT !.blocks[stop] = nextFree + Len(enc),
                                 !.timestamps[stop] = ts,
                                 !.lengths[stop] = UncompLen[d]]
    IN /\ isOpen /\ ScanStop(mhdr, ts) # {} /\ mhdr.timestamps[stop] # ts
       /\ \/ \* Compress returns an error after writing k bytes
             /\ "partial" \in Failures
             /\ \E k \in 1..Len(enc) :
                   /\ Len(body) + k <= MaxFileCells
                   /\ body' = body \o SubSeq(enc, 1, k)
             /\ UNCHANGED <<disk, dhdr, isOpen, mhdr, pos, lastSeekPos, written>>
          \/ \* the process dies during the append
             /\ "crash" \in Failures
             /\ \E k \in 1..Len(enc) :
                   /\ Len(body) + k <= MaxFileCells
                   /\ body' = body \o SubSeq(enc, 1, k)
             /\ Dropped /\ UNCHANGED <<disk, dhdr, written>>
          \/ \* the block is appended whole; then the header
             /\ Len(body) + Len(enc) <= MaxFileCells
             /\ body' = body \o enc
             /\ \/ /\ dhdr' = HeaderBytes(newHdr) /\ mhdr' = newHdr
                   /\ written' = [written EXCEPT ![ts] = d]
                   /\ UNCHANGED <<disk, isOpen, pos, lastSeekPos>>
                \/ /\ "openFail" \in Failures
                   /\ mhdr' = newHdr
                   /\ UNCHANGED <<disk, dhdr, isOpen, pos, lastSeekPos, written>>
                \/ /\ "partial" \in Failures
                   /\ \E k \in 1..2 : dhdr' = TornHeader(newHdr, k)
                   /\ mhdr' = newHdr
                   /\ UNCHANGED <<disk, isOpen, pos, lastSeekPos, written>>
                \/ /\ "crash" \in Failures
                   /\ \E k \in 0..2 : dhdr' = TornHeader(newHdr, k)
                   /\ Dropped /\ UNCHANGED <<disk, written>>
    /\ UNCHANGED lastRead

-----------------------------------------------------------------------------
Next ==
    \/ NewGPFileCreate \/ NewGPFileOpen \/ Close
    \/ \E i \in Slots : ReadBlock(i)
    \/ \E ts \in Timestamps : ReadTimedBlock(ts)
    \/ \E ts \in Timestamps, d \in Data : WriteTimedBlock(ts, d)

Spec == Init /\ [][Next]_vars

-----------------------------------------------------------------------------
(* Properties.                                                             *)

DiskHeader == ParseHeader(dhdr)

(* The block a header h records under slot i, as the file holds it.        *)
StoredBlock(h, i) == CellsAt(BlockStart(h, i), h.blocks[i] - BlockStart(h, i))

(* Every block WriteTimedBlock reported stored is, by the header on disk,  *)
(* exactly its compressed bytes at the right offset with its length: a     *)
(* fresh NewGPFile reads back what was written. (Offsets come from         *)
(* nextFreeBlock + nWrite, the bytes land at the O_APPEND end.)            *)
StoredBlocksDecode ==
    \A ts \in Timestamps : written[ts] # NoData =>
        \E i \in Slots :
            /\ DiskHeader.timestamps[i] = ts
            /\ StoredBlock(DiskHeader, i) = Enc(written[ts])
            /\ DiskHeader.lengths[i] = UncompLen[written[ts]]

(* While a GPFile is open, the header on disk is the one it holds in       *)
(* memory: WriteTimedBlock's serialization into wBuf and NewGPFile's parse *)
(* are inverse, and the header is rewritten after every array update.      *)
DiskHeaderCurrent == isOpen => DiskHeader = mhdr

(* A block WriteTimedBlock reported stored stays listed in the header on   *)
(* disk whatever later writes fail or crash.                               *)
WrittenBlocksDurable ==
    \A ts \in Timestamps : written[ts] # NoData =>
        /\ disk = "ok"
        /\ \E i \in Slots : DiskHeader.timestamps[i] = ts

(* No slot of the header on disk points past the end of the file, so a     *)
(* crash never leaves ReadBlock a block it cannot read in full.            *)
ExtentsWithinFile ==
    disk = "ok" =>
        \A i \in Slots : ~EmptySlot(DiskHeader, i) =>
            DiskHeader.blocks[i] <= HeaderLen + Len(body)

(* A read that does not fail returns the payload written under the         *)
(* timestamp it read: ReadBlock's skipped seek never hands back the bytes  *)
(* of another block.                                                       *)
ReadNeverReturnsOtherData ==
    lastRead # NoRead /\ lastRead.res # "err" =>
        lastRead.res = written[lastRead.ts]

(* Without failures, BlocksUsed of an open file is where the next block   *)
(* goes: a timestamp not yet in the header is written to slot             *)
(* BlocksUsed + 1 (its 0-based index BlocksUsed), so the two scans, over  *)
(* all-zero slots and over zero timestamps, agree.                         *)
BlocksUsedIsNextWriteSlot ==
    isOpen /\ BlocksUsed(mhdr) >= 0 =>
        \A ts \in Timestamps \ ({0} \cup {mhdr.timestamps[i] : i \in Slots}) :
            Min(ScanStop(mhdr, ts)) = BlocksUsed(mhdr) + 1

(* The block store a fresh NewGPFile finds in the file: for each          *)
(* timestamp the header on disk lists, the payload its block decodes to    *)
(* (the first slot, as ReadTimedBlock takes), or "garbage".                *)
DecodeSlot(i) ==
    LET ok == {d \in Data : StoredBlock(DiskHeader, i) = Enc(d)
                            /\ DiskHeader.lengths[i] = UncompLen[d]}
    IN IF ok # {} THEN CHOOSE d \in ok : TRUE ELSE "garbage"
StoreOnDisk ==
    [ts \in Timestamps \ {0} |->
        LET at == IF disk = "ok" THEN {i \in Slots : DiskHeader.timestamps[i] = ts}
                  ELSE {}
        IN IF at = {} THEN NoData ELSE DecodeSlot(Min(at))]

BS == INSTANCE BlockStore WITH store <- StoreOnDisk

(* Without failures, the file as NewGPFile would find it is a BlockStore: *)
(* each WriteTimedBlock adds one payload under a new timestamp while a    *)
(* slot is free, and nothing stored changes afterwards; creating, opening, *)
(* reading and closing leave it as it is.                                 *)
BlockStoreRefined == BS!Spec

=============================================================================
