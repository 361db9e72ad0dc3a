----------------------------- MODULE ValueFile ------------------------------
(***************************************************************************)
(* The write side of one valueStoreFile (src/unnamed/part_002): the        *)
(* fileWriter goroutine calling fl.write(memBlock) and then closeWriting, *)
(* the store.workers writingChecksummer goroutines, and the writer         *)
(* goroutine that puts checksummed buffers on disk in seq order and hands  *)
(* the memBlocks they finish to the memClearers.                           *)
(*                                                                         *)
(* Lengths are in units of 32 bytes; a buffer holds CI units of payload.   *)
(* The checksum itself is not modelled: a buffer is written whole.         *)
(***************************************************************************)
EXTENDS Integers, Sequences, FiniteSets

CONSTANTS
    Workers,      \* store.workers: checksummers, buffers, channel capacities
    CI,           \* store.checksumInterval, in units
    Header,       \* the 32-byte header, in units
    BlockLens,    \* lengths of the memBlocks' values, in units
    MaxBlocks     \* memBlocks written to the file before closeWriting

ASSUME Header < CI

VARIABLES
    buf,      \* valueStoreFileWriteBuf: seq, offset, memBlocks
    cur,      \* fl.writerCurrentBuf
    free,     \* writerFreeBufChan
    ckQ,      \* writerChecksumBufChan
    ckOpen,   \* writerChecksumBufChan not yet closed
    ck,       \* the writingChecksummer goroutines
    dq,       \* writerToDiskBufChan; 0 is nil
    wr,       \* the writer goroutine
    disk,     \* seqs of the buffers written to the file, in order
    tail,     \* payload units closeWriting wrote after the last buffer
    offset,   \* fl.writerOffset
    mb,       \* memBlocks: length and fileOffset
    nmb,      \* memBlocks passed to fl.write so far
    fw,       \* the fileWriter goroutine (write, then closeWriting)
    hs,       \* the hand-over loop of the fileWriter and of the writer
    idx,      \* fl.freeableMemBlockChanIndex
    fq,       \* store.freeableMemBlockChans
    handed    \* history: how often each memBlock was handed over

vars == <<buf, cur, free, ckQ, ckOpen, ck, dq, wr, disk, tail, offset, mb, nmb,
          fw, hs, idx, fq, handed>>

BufIds   == 1 .. Workers
Shards   == 0 .. Workers - 1
MbIds    == 1 .. MaxBlocks
Nil      == 0
Handers  == {"fw", "wr"}
Room(q)  == Len(q) < Workers
MinOf(a, b) == IF a <= b THEN a ELSE b

\* createValueReadWriteFile: store.workers free buffers, the first one taken
\* as current with the header copied in, and the goroutines started.
Init ==
    /\ buf = [b \in BufIds |-> [seq |-> 0, off |-> IF b = 1 THEN Header ELSE 0,
                                mbs |-> <<>>]]
    /\ cur = 1
    /\ free = BufIds \ {1}
    /\ ckQ = <<>>
    /\ ckOpen = TRUE
    /\ ck = [i \in Shards |-> [pc |-> "recv", b |-> Nil]]
    /\ dq = <<>>
    /\ wr = [pc |-> "recv", seq |-> 0, lastWasNil |-> FALSE, b |-> Nil]
    /\ disk = <<>>
    /\ tail = 0
    /\ offset = Header
    /\ mb = [m \in MbIds |-> [len |-> 0, start |-> 0]]
    /\ nmb = 0
    /\ fw = [pc |-> "idle", m |-> 0, left |-> 0, dones |-> 0]
    /\ hs = [h \in Handers |-> [pc |-> "none", list |-> <<>>]]
    /\ idx = 0
    /\ fq = [i \in Shards |-> <<>>]
    /\ handed = [m \in MbIds |-> 0]

-----------------------------------------------------------------------------
(* Handing memBlocks to freeableMemBlockChans[freeableMemBlockChanIndex],  *)
(* then the index's increment and wrap-around: three statements, run by   *)
(* the fileWriter (in write and closeWriting) and by the writer without    *)
(* any lock between them.                                                  *)

StartHand(h, list) == [hs EXCEPT ![h] = [pc |-> IF list = <<>> THEN "none" ELSE "send",
                                         list |-> list]]

HandSend(h) ==
    /\ hs[h].pc = "send"
    /\ idx < Workers
    /\ Room(fq[idx])
    /\ fq' = [fq EXCEPT ![idx] = Append(@, Head(hs[h].list))]
    /\ handed' = [handed EXCEPT ![Head(hs[h].list)] = @ + 1]
    /\ hs' = [hs EXCEPT ![h].pc = "inc"]
    /\ UNCHANGED <<buf, cur, free, ckQ, ckOpen, ck, dq, wr, disk, tail, offset, mb,
                   nmb, fw, idx>>

HandInc(h) ==
    /\ hs[h].pc = "inc"
    /\ idx' = idx + 1
    /\ hs' = [hs EXCEPT ![h].pc = "wrap"]
    /\ UNCHANGED <<buf, cur, free, ckQ, ckOpen, ck, dq, wr, disk, tail, offset, mb,
                   nmb, fw, fq, handed>>

\* The send with the index past the last channel: freeableMemBlockChans[idx]
\* panics with index out of range, and the panic ends the whole process.
HandPanic(h) ==
    /\ hs[h].pc = "send"
    /\ idx >= Workers
    /\ hs' = [hs EXCEPT ![h].pc = "panic"]
    /\ UNCHANGED <<buf, cur, free, ckQ, ckOpen, ck, dq, wr, disk, tail, offset, mb,
                   nmb, fw, idx, fq, handed>>

HandWrap(h) ==
    /\ hs[h].pc = "wrap"
    /\ idx' = IF idx >= Workers THEN 0 ELSE idx
    /\ hs' = StartHand(h, Tail(hs[h].list))
    /\ UNCHANGED <<buf, cur, free, ckQ, ckOpen, ck, dq, wr, disk, tail, offset, mb,
                   nmb, fw, fq, handed>>

HandStep(h) == HandSend(h) \/ HandPanic(h) \/ HandInc(h) \/ HandWrap(h)

\* No goroutine of the process runs after the panic.
Panicked == \E h \in Handers : hs[h].pc = "panic"
Alive == ~Panicked

-----------------------------------------------------------------------------
(* fl.write(memBlock), on the fileWriter goroutine.                        *)

\* memBlock.fileOffset = writerOffset; an empty memBlock is handed over at
\* once, any other is copied into the current buffer.
WriteStart ==
    /\ fw.pc = "idle"
    /\ nmb < MaxBlocks
    /\ \E len \in BlockLens :
          /\ mb' = [mb EXCEPT ![nmb + 1] = [len |-> len, start |-> offset]]
          /\ IF len < 1
             THEN /\ fw' = [fw EXCEPT !.pc = "hand", !.m = nmb + 1]
                  /\ hs' = StartHand("fw", <<nmb + 1>>)
             ELSE /\ fw' = [fw EXCEPT !.pc = "copy", !.m = nmb + 1, !.left = len]
                  /\ UNCHANGED hs
    /\ nmb' = nmb + 1
    /\ UNCHANGED <<buf, cur, free, ckQ, ckOpen, ck, dq, wr, disk, tail, offset, idx,
                   fq, handed>>

\* Mutant: the copy is not bounded by checksumInterval.
WriteCopyNoCap ==
    /\ fw.pc = "copy"
    /\ offset' = offset + fw.left
    /\ buf' = [buf EXCEPT ![cur].off = @ + fw.left]
    /\ fw' = [fw EXCEPT !.left = 0,
                        !.pc = IF buf[cur].off + fw.left >= CI THEN "ship" ELSE "after"]
    /\ UNCHANGED <<cur, free, ckQ, ckOpen, ck, dq, wr, disk, tail, mb, nmb, hs, idx,
                   fq, handed>>

\* One pass of the copy loop: fill the current buffer up to CI.
WriteCopy ==
    LET n == MinOf(fw.left, CI - buf[cur].off) IN
    /\ fw.pc = "copy"
    /\ offset' = offset + n
    /\ buf' = [buf EXCEPT ![cur].off = @ + n]
    /\ fw' = [fw EXCEPT !.left = @ - n,
                        !.pc = IF buf[cur].off + n >= CI THEN "ship" ELSE "after"]
    /\ UNCHANGED <<cur, free, ckQ, ckOpen, ck, dq, wr, disk, tail, mb, nmb, hs, idx,
                   fq, handed>>

\* A full buffer goes to the checksummers ...
WriteShip ==
    /\ fw.pc = "ship"
    /\ Room(ckQ)
    /\ ckQ' = Append(ckQ, cur)
    /\ fw' = [fw EXCEPT !.pc = "take"]
    /\ UNCHANGED <<buf, cur, free, ckOpen, ck, dq, wr, disk, tail, offset, mb, nmb,
                   hs, idx, fq, handed>>

\* ... and a free one, numbered s + 1, becomes current.
WriteTake ==
    /\ fw.pc = "take"
    /\ free # {}
    /\ LET b == CHOOSE b \in free : \A x \in free : b <= x IN
          /\ cur' = b
          /\ free' = free \ {b}
          /\ buf' = [buf EXCEPT ![b].seq = buf[cur].seq + 1]
    /\ fw' = [fw EXCEPT !.pc = IF fw.left > 0 THEN "copy" ELSE "after"]
    /\ UNCHANGED <<ckQ, ckOpen, ck, dq, wr, disk, tail, offset, mb, nmb, hs, idx,
                   fq, handed>>

\* The memBlock ends on a buffer boundary: it is handed over now; otherwise
\* it rides on the current buffer until the writer has written that.
WriteAfter ==
    /\ fw.pc = "after"
    /\ IF buf[cur].off = 0
       THEN /\ fw' = [fw EXCEPT !.pc = "hand"]
            /\ hs' = StartHand("fw", <<fw.m>>)
            /\ UNCHANGED buf
       ELSE /\ buf' = [buf EXCEPT ![cur].mbs = Append(@, fw.m)]
            /\ fw' = [fw EXCEPT !.pc = "idle"]
            /\ UNCHANGED hs
    /\ UNCHANGED <<cur, free, ckQ, ckOpen, ck, dq, wr, disk, tail, offset, mb, nmb,
                   idx, fq, handed>>

WriteReturn ==
    /\ fw.pc = "hand"
    /\ hs["fw"].pc = "none"
    /\ fw' = [fw EXCEPT !.pc = "idle"]
    /\ UNCHANGED <<buf, cur, free, ckQ, ckOpen, ck, dq, wr, disk, tail, offset, mb,
                   nmb, hs, idx, fq, handed>>

-----------------------------------------------------------------------------
(* closeWriting, on the fileWriter goroutine.                              *)

\* close(writerChecksumBufChan), then wait for cap(...) = workers dones.
CloseStart ==
    /\ fw.pc = "idle"
    /\ ckOpen' = FALSE
    /\ fw' = [fw EXCEPT !.pc = "waitck", !.dones = 0]
    /\ UNCHANGED <<buf, cur, free, ckQ, ck, dq, wr, disk, tail, offset, mb, nmb, hs,
                   idx, fq, handed>>

\* <-fl.writerDoneChan: from any goroutine that has left its loop.
CloseRecvDone ==
    /\ fw.pc \in {"waitck", "waitwr"}
    /\ \/ \E i \in Shards : /\ ck[i].pc = "exit"
                             /\ ck' = [ck EXCEPT ![i].pc = "gone"]
                             /\ UNCHANGED wr
       \/ /\ wr.pc = "exit"
          /\ wr' = [wr EXCEPT !.pc = "gone"]
          /\ UNCHANGED ck
    /\ fw' = CASE fw.pc = "waitwr"          -> [fw EXCEPT !.pc = "term"]
               [] fw.dones + 1 = Workers    -> [fw EXCEPT !.pc = "nil"]
               [] OTHER -> [fw EXCEPT !.dones = @ + 1]
    /\ UNCHANGED <<buf, cur, free, ckQ, ckOpen, dq, disk, tail, offset, mb, nmb, hs,
                   idx, fq, handed>>

\* writerToDiskBufChan <- nil
CloseNil ==
    /\ fw.pc = "nil"
    /\ Room(dq)
    /\ dq' = Append(dq, Nil)
    /\ fw' = [fw EXCEPT !.pc = "waitwr"]
    /\ UNCHANGED <<buf, cur, free, ckQ, ckOpen, ck, wr, disk, tail, offset, mb, nmb,
                   hs, idx, fq, handed>>

\* The current buffer and "TERM v0 " are written and the file closed; then
\* the current buffer's memBlocks are handed over.
CloseTerm ==
    /\ fw.pc = "term"
    /\ tail' = buf[cur].off
    /\ hs' = StartHand("fw", buf[cur].mbs)
    /\ fw' = [fw EXCEPT !.pc = "closehand"]
    /\ UNCHANGED <<buf, cur, free, ckQ, ckOpen, ck, dq, wr, disk, offset, mb, nmb,
                   idx, fq, handed>>

CloseReturn ==
    /\ fw.pc = "closehand"
    /\ hs["fw"].pc = "none"
    /\ fw' = [fw EXCEPT !.pc = "closed"]
    /\ UNCHANGED <<buf, cur, free, ckQ, ckOpen, ck, dq, wr, disk, tail, offset, mb,
                   nmb, hs, idx, fq, handed>>

-----------------------------------------------------------------------------
(* writingChecksummer: store.workers goroutines.                           *)

CkRecv(i) ==
    /\ ck[i].pc = "recv"
    /\ \/ /\ ckQ # <<>>
          /\ ck' = [ck EXCEPT ![i] = [pc |-> "send", b |-> Head(ckQ)]]
          /\ ckQ' = Tail(ckQ)
       \/ /\ ckQ = <<>>
          /\ ~ckOpen
          /\ ck' = [ck EXCEPT ![i].pc = "exit"]
          /\ UNCHANGED ckQ
    /\ UNCHANGED <<buf, cur, free, ckOpen, dq, wr, disk, tail, offset, mb, nmb, fw,
                   hs, idx, fq, handed>>

\* The checksum is appended and the buffer sent on to the writer.
CkSend(i) ==
    /\ ck[i].pc = "send"
    /\ Room(dq)
    /\ dq' = Append(dq, ck[i].b)
    /\ ck' = [ck EXCEPT ![i] = [pc |-> "recv", b |-> Nil]]
    /\ UNCHANGED <<buf, cur, free, ckQ, ckOpen, wr, disk, tail, offset, mb, nmb, fw,
                   hs, idx, fq, handed>>

-----------------------------------------------------------------------------
(* writer: one goroutine.                                                  *)

\* Mutant: buffers are written in the order they arrive.
WrRecvAnyOrder ==
    LET x == Head(dq) IN
    /\ wr.pc = "recv"
    /\ dq # <<>>
    /\ dq' = Tail(dq)
    /\ wr' = CASE x = Nil /\ wr.lastWasNil -> [wr EXCEPT !.pc = "exit"]
               [] x = Nil -> [wr EXCEPT !.lastWasNil = TRUE, !.pc = "requeue", !.b = Nil]
               [] OTHER -> [wr EXCEPT !.lastWasNil = FALSE, !.pc = "write", !.b = x]
    /\ UNCHANGED <<buf, cur, free, ckQ, ckOpen, ck, disk, tail, offset, mb, nmb, fw,
                   hs, idx, fq, handed>>

\* Mutant: lastWasNil is never set, so a lone nil circulates for ever.
WrRecvNoNilFlag ==
    LET x == Head(dq) IN
    /\ wr.pc = "recv"
    /\ dq # <<>>
    /\ dq' = Tail(dq)
    /\ wr' = CASE x = Nil /\ wr.lastWasNil -> [wr EXCEPT !.pc = "exit"]
               [] x = Nil -> [wr EXCEPT !.pc = "requeue", !.b = Nil]
               [] buf[x].seq # wr.seq ->
                      [wr EXCEPT !.lastWasNil = FALSE, !.pc = "requeue", !.b = x]
               [] OTHER -> [wr EXCEPT !.lastWasNil = FALSE, !.pc = "write", !.b = x]
    /\ UNCHANGED <<buf, cur, free, ckQ, ckOpen, ck, disk, tail, offset, mb, nmb, fw,
                   hs, idx, fq, handed>>

\* A buffer out of seq order, and the first of two nils in a row, go back
\* on writerToDiskBufChan; the second nil in a row ends the loop.
WrRecv ==
    LET x == Head(dq) IN
    /\ wr.pc = "recv"
    /\ dq # <<>>
    /\ dq' = Tail(dq)
    /\ wr' = CASE x = Nil /\ wr.lastWasNil -> [wr EXCEPT !.pc = "exit"]
               [] x = Nil -> [wr EXCEPT !.lastWasNil = TRUE, !.pc = "requeue", !.b = Nil]
               [] buf[x].seq # wr.seq ->
                      [wr EXCEPT !.lastWasNil = FALSE, !.pc = "requeue", !.b = x]
               [] OTHER -> [wr EXCEPT !.lastWasNil = FALSE, !.pc = "write", !.b = x]
    /\ UNCHANGED <<buf, cur, free, ckQ, ckOpen, ck, disk, tail, offset, mb, nmb, fw,
                   hs, idx, fq, handed>>

WrRequeue ==
    /\ wr.pc = "requeue"
    /\ Room(dq)
    /\ dq' = Append(dq, wr.b)
    /\ wr' = [wr EXCEPT !.pc = "recv"]
    /\ UNCHANGED <<buf, cur, free, ckQ, ckOpen, ck, disk, tail, offset, mb, nmb, fw,
                   hs, idx, fq, handed>>

\* writerFP.Write(buf.buf), then the buffer's memBlocks are handed over.
WrWrite ==
    /\ wr.pc = "write"
    /\ disk' = Append(disk, buf[wr.b].seq)
    /\ hs' = StartHand("wr", buf[wr.b].mbs)
    /\ wr' = [wr EXCEPT !.pc = "free"]
    /\ UNCHANGED <<buf, cur, free, ckQ, ckOpen, ck, dq, tail, offset, mb, nmb, fw,
                   idx, fq, handed>>

\* Mutant: buf.memBlocks is not truncated after the hand-over.
WrFreeKeepMbs ==
    /\ wr.pc = "free"
    /\ hs["wr"].pc = "none"
    /\ buf' = [buf EXCEPT ![wr.b].off = 0]
    /\ free' = free \cup {wr.b}
    /\ wr' = [wr EXCEPT !.pc = "recv", !.seq = @ + 1, !.b = Nil]
    /\ UNCHANGED <<cur, ckQ, ckOpen, ck, dq, disk, tail, offset, mb, nmb, fw, hs,
                   idx, fq, handed>>

\* memBlocks = [:0], offset = 0, back to writerFreeBufChan, seq++.
WrFree ==
    /\ wr.pc = "free"
    /\ hs["wr"].pc = "none"
    /\ buf' = [buf EXCEPT ![wr.b].mbs = <<>>, ![wr.b].off = 0]
    /\ free' = free \cup {wr.b}
    /\ wr' = [wr EXCEPT !.pc = "recv", !.seq = @ + 1, !.b = Nil]
    /\ UNCHANGED <<cur, ckQ, ckOpen, ck, dq, disk, tail, offset, mb, nmb, fw, hs,
                   idx, fq, handed>>

-----------------------------------------------------------------------------

\* memClearer: memBlock := <-freeableMemBlockChan
ClearerRecv(i) ==
    /\ fq[i] # <<>>
    /\ fq' = [fq EXCEPT ![i] = Tail(@)]
    /\ UNCHANGED <<buf, cur, free, ckQ, ckOpen, ck, dq, wr, disk, tail, offset, mb,
                   nmb, fw, hs, idx, handed>>

FileWriterStep ==
    /\ Alive
    /\ \/ WriteStart \/ WriteCopy \/ WriteShip \/ WriteTake \/ WriteAfter \/ WriteReturn
       \/ CloseStart \/ CloseRecvDone \/ CloseNil \/ CloseTerm \/ CloseReturn
       \/ HandStep("fw")
WriterStep == Alive /\ (WrRecv \/ WrRequeue \/ WrWrite \/ WrFree \/ HandStep("wr"))
CheckerStep(i) == Alive /\ (CkRecv(i) \/ CkSend(i))
ClearerStep(i) == Alive /\ ClearerRecv(i)

Next ==
    \/ FileWriterStep \/ WriterStep
    \/ \E i \in Shards : CheckerStep(i) \/ ClearerStep(i)

\* Every goroutine is scheduled; the fileWriter's next write or its
\* closeWriting depends on the store's traffic and is not assumed.
Fairness ==
    /\ WF_vars(FileWriterStep /\ fw.pc \notin {"idle", "closed"})
    /\ WF_vars(WriterStep)
    /\ \A i \in Shards : WF_vars(CheckerStep(i)) /\ WF_vars(ClearerStep(i))

Spec == Init /\ [][Next]_vars /\ Fairness

-----------------------------------------------------------------------------
(* Properties.                                                             *)

TypeOK ==
    /\ cur \in BufIds /\ free \subseteq BufIds
    /\ \A b \in BufIds : buf[b].off \in 0 .. CI
    /\ ckQ \in Seq(BufIds) /\ Len(ckQ) <= Workers
    /\ dq \in Seq(BufIds \cup {Nil}) /\ Len(dq) <= Workers
    /\ idx \in 0 .. Workers + 1
    /\ \A i \in Shards : Len(fq[i]) <= Workers

\* writer: buffers reach the file in seq order however the checksummers
\* reorder them, so every payload unit lands at the offset write() gave it.
DiskInSeqOrder == \A n \in 1 .. Len(disk) : disk[n] = n - 1

\* Every memBlock is handed to a memClearer at most once, and by the time
\* closeWriting returns every memBlock written to the file has been.
HandedExactlyOnce ==
    /\ \A m \in MbIds : handed[m] <= 1
    /\ fw.pc = "closed" => \A m \in 1 .. nmb : handed[m] = 1

\* A memBlock reaches a memClearer, which re-points the index at the file,
\* only once all of its bytes are in the file.
HandedOnlyWhenOnDisk ==
    \A m \in 1 .. nmb :
        handed[m] > 0 => mb[m].start + mb[m].len <= Len(disk) * CI + tail

\* No goroutine sends on freeableMemBlockChans[freeableMemBlockChanIndex]
\* with the index past the last channel.
IndexInRange == \A h \in Handers : hs[h].pc = "send" => idx < Workers

\* Every fl.write and the closeWriting call return, unless the process has
\* died of the index race's panic: no goroutine of the file waits for ever
\* on a buffer, a channel or writerDoneChan.
CallsReturn == fw.pc \notin {"idle", "closed"} ~> (fw.pc \in {"idle", "closed"} \/ Panicked)

=============================================================================
