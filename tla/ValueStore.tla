----------------------------- MODULE ValueStore -----------------------------
(***************************************************************************)
(* The write pipeline of DefaultValueStore (src/valuestore_GEN_.go): the   *)
(* callers of Write/Delete, Flush and Enable/DisableWrites, one memWriter  *)
(* and one memClearer per shard, the fileWriter, the tocWriter, and a      *)
(* crash followed by recovery from the TOC files.                          *)
(*                                                                         *)
(* Every channel is a sequence bounded by its capacity in the code; a      *)
(* blocking send is a step guarded by room in the channel.  The location   *)
(* index is the atomic map of its Set/Get contract (ValueLocMap is checked *)
(* on its own); value bytes are abstracted to their lengths in units of    *)
(* the 32-byte TOC entry, so header and entry sizes keep their ratio.      *)
(***************************************************************************)
EXTENDS Integers, Sequences, FiniteSets
LOCAL INSTANCE SequencesExt

CONSTANTS
    Workers,        \* store.workers: shards, memWriters and memClearers
    Keys,           \* keys; keyA = keyB = the key
    Micros,         \* timestampmicro values callers pass
    ValueLens,      \* lengths of written values, in 32-byte units
    ValueCap,       \* store.valueCap, in units
    MinValueAlloc,  \* store.minValueAlloc, in units
    PageEntries,    \* TOC entries one memBlock holds (pageSize / 32)
    PageUnits,      \* value units one memBlock holds (pageSize / 32)
    MemBlocks,      \* workers * writePagesPerWorker memBlocks
    FileCap,        \* store.fileCap, in units
    TOCBlockEntries,\* entries of one TOC block (pageSize / 32, less the ts)
    Clients,        \* goroutines calling Write and Delete
    Flushers,       \* goroutines calling Flush
    DeleteOK,       \* whether callers also call Delete
    AckOK,          \* whether bulk-set-acks arrive (their LOCAL_REMOVAL writes)
    DiskWatcher,    \* whether the disk watcher also disables and enables writes
    MaxWrites, MaxFlushes, MaxToggles, MaxFiles, MaxCrashes

ASSUME Cardinality(Clients) <= 2 * Workers  \* freeWriteReqChans never empty
ASSUME \A l \in ValueLens \cup {0} :
          l <= ValueCap => (IF l < MinValueAlloc THEN MinValueAlloc ELSE l) <= PageUnits

VARIABLES
    loc,        \* the location index: key -> [ts, blk]
    cl,         \* Write/Delete callers
    mw,         \* memWriters
    blocks,     \* memBlocks: toc entries, value units, file
    free,       \* freeMemBlockChan (a pool of interchangeable buffers)
    fileQ,      \* fileMemBlockChan
    fw,         \* the fileWriter
    freeable,   \* freeableMemBlockChans
    mc,         \* memClearers
    tocQ,       \* pendingTOCBlockChan
    tocFree,    \* buffers in freeTOCBlockChan
    tw,         \* the tocWriter
    tocs,       \* TOC files on disk
    nfiles,     \* value files created so far
    flushed,    \* flushedChan (capacity 1)
    fl,         \* Flush callers
    tg,         \* the Enable/DisableWrites caller holding disableEnableWritesLock,
                \* userDisabled, and history: the user's writes-off state
    completed,  \* history: newest ts per key of a Write/Delete that won
    durable,    \* history: newest ts per key covered by a returned Flush
    nwrites, nflushes, ntoggles, ncrashes

vars == <<loc, cl, mw, blocks, free, fileQ, fw, freeable, mc, tocQ, tocFree,
          tw, tocs, nfiles, flushed, fl, tg, completed, durable,
          nwrites, nflushes, ntoggles, ncrashes>>

Shards    == 0 .. Workers - 1
BlockIds  == 1 .. MemBlocks
\* addLocBlock numbers memBlocks and files from one counter
FileIds   == MemBlocks + 1 .. MemBlocks + MaxFiles
FlushMark == 0              \* flushValueMemBlock
NilTOC    == [ts |-> 0, ents |-> <<>>]
Entry(k, ts) == [k |-> k, ts |-> ts]

\* timestampbits: the micros shifted left, the DELETION bit below them and
\* the LOCAL_REMOVAL bit below that (0x80 and 0x02 of the low byte)
TSBits(m, del) == 4 * m + (IF del THEN 2 ELSE 0)
LocalRemoval == 1
Removed(ts) == ts % 2 = 1
\* write: i := int(keyA>>1) % len(store.freeWriteReqChans)
Shard(k) == (k \div 2) % Workers
Alloc(len) == IF len < MinValueAlloc THEN MinValueAlloc ELSE len
Room(q) == Len(q) < Workers
MaxOf(a, b) == IF a >= b THEN a ELSE b

\* locmap.Set: overwrite when newer, or as new when evenIfSameTimestamp;
\* an item whose blockID is 0 is a free slot, so a winning Set with
\* blockID 0 leaves the key absent (timestamp 0 to later lookups)
LocSet(m, k, ts, blk, evenIfSame) ==
    IF ts > m[k].ts \/ (evenIfSame /\ ts = m[k].ts)
    THEN [m EXCEPT ![k] = IF blk = 0 THEN [ts |-> 0, blk |-> 0]
                                     ELSE [ts |-> ts, blk |-> blk]]
    ELSE m

EmptyLoc   == [k \in Keys |-> [ts |-> 0, blk |-> 0]]
ClientIdle == [pc |-> "idle", k |-> 0, ts |-> 0, internal |-> FALSE, len |-> 0,
               res |-> 0, err |-> FALSE]
MWInit     == [pc |-> "recv", c |-> CHOOSE c \in Clients : TRUE, blk |-> 0,
               enabled |-> FALSE]
BlockInit  == [toc |-> <<>>, vals |-> 0, file |-> 0]
FWInit     == [pc |-> "recv", fl |-> 0, tocLen |-> 0, valLen |-> 0, idx |-> 0,
               left |-> Workers, j |-> 0]
MCInit     == [pc |-> "recv", blk |-> 0, pos |-> 1, tb |-> <<>>, tbTS |-> 0]
TWInit     == [pc |-> "recv", A |-> 0, B |-> 0, left |-> Workers]
FlIdle     == [pc |-> "idle", j |-> 0, floor |-> [k \in Keys |-> 0]]
TgIdle     == [pc |-> "idle", tok |-> "enable", j |-> 0, user |-> TRUE,
               userDisabled |-> FALSE]
\* who calls disableWrites/enableWrites: the user (userCall), and the disk
\* watcher (spec 4.6, not in this repository) with userCall = false
ToggleUsers == IF DiskWatcher THEN BOOLEAN ELSE {TRUE}

\* The volatile state of a freshly started store (NewValueStore).
VolatileInit ==
    /\ cl = [c \in Clients |-> ClientIdle]
    /\ mw = [i \in Shards |-> MWInit]
    /\ blocks = [b \in BlockIds |-> BlockInit]
    /\ free = BlockIds
    /\ fileQ = <<>>
    /\ fw = FWInit
    /\ freeable = [i \in Shards |-> <<>>]
    /\ mc = [i \in Shards |-> MCInit]
    /\ tocQ = <<>>
    /\ tocFree = 2 * Workers
    /\ tw = TWInit
    /\ flushed = 0
    /\ fl = [f \in Flushers |-> FlIdle]
    /\ tg = TgIdle

Init ==
    /\ VolatileInit
    /\ loc = EmptyLoc
    /\ tocs = [f \in FileIds |-> [made |-> FALSE, ents |-> <<>>, term |-> FALSE]]
    /\ nfiles = 0
    /\ completed = [k \in Keys |-> 0]
    /\ durable = [k \in Keys |-> 0]
    /\ nwrites = 0 /\ nflushes = 0 /\ ntoggles = 0 /\ ncrashes = 0

-----------------------------------------------------------------------------
(* Callers.                                                                *)

\* Write (internal = FALSE), Delete (internal = TRUE, no value), or the
\* write of an incoming bulk-set-ack (spec 4.4, not in this repository:
\* internal, no value, the acked ts | LOCAL_REMOVAL) takes a writeReq of
\* its shard and sends it on the unbuffered pendingWriteReqChan.  Write's
\* and Delete's early returns for a timestamp outside TIMESTAMPMICRO_MIN ..
\* TIMESTAMPMICRO_MAX change nothing; every member of Micros is in range.
Call(c) ==
    /\ cl[c].pc = "idle"
    /\ nwrites < MaxWrites
    /\ \E k \in Keys, m \in Micros, del \in {FALSE, DeleteOK}, ack \in {FALSE, AckOK},
         len \in ValueLens :
          cl' = [cl EXCEPT ![c] = [pc |-> "send", k |-> k,
                                   ts |-> TSBits(m, del) + (IF ack THEN LocalRemoval ELSE 0),
                                   internal |-> del \/ ack,
                                   len |-> IF del \/ ack THEN 0 ELSE len,
                                   res |-> 0, err |-> FALSE]]
    /\ nwrites' = nwrites + 1
    /\ UNCHANGED <<loc, mw, blocks, free, fileQ, fw, freeable, mc, tocQ, tocFree,
                   tw, tocs, nfiles, flushed, fl, tg, completed,
                   durable, nflushes, ntoggles, ncrashes>>

\* The errChan receive: the writeReq goes back to its pool.
Return(c) ==
    /\ cl[c].pc = "done"
    /\ completed' = IF ~cl[c].err /\ cl[c].res < cl[c].ts
                    THEN [completed EXCEPT ![cl[c].k] = MaxOf(@, cl[c].ts)]
                    ELSE completed
    /\ cl' = [cl EXCEPT ![c] = ClientIdle]
    /\ UNCHANGED <<loc, mw, blocks, free, fileQ, fw, freeable, mc, tocQ, tocFree,
                   tw, tocs, nfiles, flushed, fl, tg, durable,
                   nwrites, nflushes, ntoggles, ncrashes>>

\* Flush sends flushValueWriteReq to every shard in turn, then waits.
FlushCall(f) ==
    /\ fl[f].pc = "idle"
    /\ nflushes < MaxFlushes
    /\ fl' = [fl EXCEPT ![f] = [pc |-> "send", j |-> 0, floor |-> completed]]
    /\ nflushes' = nflushes + 1
    /\ UNCHANGED <<loc, cl, mw, blocks, free, fileQ, fw, freeable, mc, tocQ,
                   tocFree, tw, tocs, nfiles, flushed, tg, completed,
                   durable, nwrites, ntoggles, ncrashes>>

FlushReturn(f) ==
    /\ fl[f].pc = "wait"
    /\ flushed = 1
    /\ flushed' = 0
    /\ durable' = [k \in Keys |-> MaxOf(durable[k], fl[f].floor[k])]
    /\ fl' = [fl EXCEPT ![f] = FlIdle]
    /\ UNCHANGED <<loc, cl, mw, blocks, free, fileQ, fw, freeable, mc, tocQ,
                   tocFree, tw, tocs, nfiles, tg, completed, nwrites,
                   nflushes, ntoggles, ncrashes>>

\* disableWrites(userCall) / enableWrites(userCall) take
\* disableEnableWritesLock; a user call sets or clears userDisabled; an
\* enable that is not the user's does nothing while userDisabled; else the
\* token goes to every shard in turn.
ToggleCall ==
    /\ tg.pc = "idle"
    /\ ntoggles < MaxToggles
    /\ \E tok \in {"enable", "disable"}, user \in ToggleUsers :
          tg' = IF tok = "disable" \/ user \/ ~tg.userDisabled
                THEN [tg EXCEPT !.pc = "send", !.tok = tok, !.j = 0, !.user = user,
                                !.userDisabled = IF user THEN tok = "disable" ELSE @]
                ELSE tg
    /\ ntoggles' = ntoggles + 1
    /\ UNCHANGED <<loc, cl, mw, blocks, free, fileQ, fw, freeable, mc, tocQ,
                   tocFree, tw, tocs, nfiles, flushed, fl, completed, durable,
                   nwrites, nflushes, ncrashes>>

ToggleReturn ==
    /\ tg.pc = "send"
    /\ tg.j = Workers
    /\ tg' = [TgIdle EXCEPT !.userDisabled = tg.userDisabled]
    /\ UNCHANGED <<loc, cl, mw, blocks, free, fileQ, fw, freeable, mc, tocQ,
                   tocFree, tw, tocs, nfiles, flushed, fl, completed, durable,
                   nwrites, nflushes, ntoggles, ncrashes>>
-----------------------------------------------------------------------------
(* memWriter(pendingWriteReqChan): one per shard.                          *)

Full(b, alloc) ==
    \/ Len(blocks[b].toc) + 1 > PageEntries
    \/ blocks[b].vals + alloc > PageUnits

\* Mutant: the disabled branch continues without answering on errChan.
MWRecvWriteNoReply(i, c) ==
    /\ mw[i].pc = "recv"
    /\ cl[c].pc = "send"
    /\ Shard(cl[c].k) = i
    /\ cl' = [cl EXCEPT ![c].pc = "wait"]
    /\ IF (~mw[i].enabled /\ ~cl[c].internal) \/ cl[c].len > ValueCap
       THEN UNCHANGED mw
       ELSE mw' = [mw EXCEPT ![i].pc = "write", ![i].c = c]
    /\ UNCHANGED <<loc, blocks, free, fileQ, fw, freeable, mc, tocQ, tocFree, tw,
                   tocs, nfiles, flushed, fl, tg, completed, durable,
                   nwrites, nflushes, ntoggles, ncrashes>>

\* Receive a writeReq; a disabled shard refuses it unless internal, and a
\* value over valueCap is refused.
MWRecvWrite(i, c) ==
    /\ mw[i].pc = "recv"
    /\ cl[c].pc = "send"
    /\ Shard(cl[c].k) = i
    /\ IF (~mw[i].enabled /\ ~cl[c].internal) \/ cl[c].len > ValueCap
       THEN /\ cl' = [cl EXCEPT ![c].pc = "done", ![c].res = cl[c].ts, ![c].err = TRUE]
            /\ UNCHANGED mw
       ELSE /\ cl' = [cl EXCEPT ![c].pc = "wait"]
            /\ mw' = [mw EXCEPT ![i].pc = "write", ![i].c = c]
    /\ UNCHANGED <<loc, blocks, free, fileQ, fw, freeable, mc, tocQ, tocFree, tw,
                   tocs, nfiles, flushed, fl, tg, completed, durable,
                   nwrites, nflushes, ntoggles, ncrashes>>

\* Mutant: the send on fileMemBlockChan never blocks.
MWSealNoRoom(i) ==
    /\ mw[i].pc = "write"
    /\ mw[i].blk # 0
    /\ Full(mw[i].blk, Alloc(cl[mw[i].c].len))
    /\ fileQ' = Append(fileQ, mw[i].blk)
    /\ mw' = [mw EXCEPT ![i].blk = 0]
    /\ UNCHANGED <<loc, cl, blocks, free, fw, freeable, mc, tocQ, tocFree, tw,
                   tocs, nfiles, flushed, fl, tg, completed, durable,
                   nwrites, nflushes, ntoggles, ncrashes>>

\* The current memBlock cannot take the entry: hand it to the fileWriter.
MWSeal(i) ==
    LET b == mw[i].blk IN
    /\ mw[i].pc = "write"
    /\ b # 0
    /\ Full(b, Alloc(cl[mw[i].c].len))
    /\ Room(fileQ)
    /\ fileQ' = Append(fileQ, b)
    /\ mw' = [mw EXCEPT ![i].blk = 0]
    /\ UNCHANGED <<loc, cl, blocks, free, fw, freeable, mc, tocQ, tocFree, tw,
                   tocs, nfiles, flushed, fl, tg, completed, durable,
                   nwrites, nflushes, ntoggles, ncrashes>>

\* memBlock = <-store.freeMemBlockChan
MWTake(i) ==
    /\ mw[i].pc = "write"
    /\ mw[i].blk = 0
    /\ free # {}
    /\ LET b == CHOOSE b \in free : \A x \in free : b <= x
       IN /\ mw' = [mw EXCEPT ![i].blk = b]
          /\ free' = free \ {b}
    /\ UNCHANGED <<loc, cl, blocks, fileQ, fw, freeable, mc, tocQ, tocFree, tw,
                   tocs, nfiles, flushed, fl, tg, completed, durable,
                   nwrites, nflushes, ntoggles, ncrashes>>

\* locmap.Set(..., memBlock.id, ..., false); a winner gets a TOC entry and
\* its value bytes, a loser's bytes are truncated away; the prior ts is sent
\* back on errChan.
MWApply(i) ==
    LET b == mw[i].blk
        r == cl[mw[i].c]
        old == loc[r.k].ts
    IN
    /\ mw[i].pc = "write"
    /\ b # 0
    /\ ~Full(b, Alloc(r.len))
    /\ loc' = LocSet(loc, r.k, r.ts, b, FALSE)
    /\ blocks' = IF old < r.ts
                 THEN [blocks EXCEPT ![b].toc = Append(@, Entry(r.k, r.ts)),
                                     ![b].vals = @ + Alloc(r.len)]
                 ELSE blocks
    /\ cl' = [cl EXCEPT ![mw[i].c].pc = "done", ![mw[i].c].res = old]
    /\ mw' = [mw EXCEPT ![i].pc = "recv"]
    /\ UNCHANGED <<free, fileQ, fw, freeable, mc, tocQ, tocFree, tw, tocs, nfiles,
                   flushed, fl, tg, completed, durable, nwrites,
                   nflushes, ntoggles, ncrashes>>

MWRecvFlush(i, f) ==
    /\ mw[i].pc = "recv"
    /\ fl[f].pc = "send"
    /\ fl[f].j = i
    /\ fl' = [fl EXCEPT ![f].j = i + 1,
                        ![f].pc = IF i + 1 = Workers THEN "wait" ELSE "send"]
    /\ mw' = [mw EXCEPT ![i].pc = "flush"]
    /\ UNCHANGED <<loc, cl, blocks, free, fileQ, fw, freeable, mc, tocQ, tocFree,
                   tw, tocs, nfiles, flushed, tg, completed, durable,
                   nwrites, nflushes, ntoggles, ncrashes>>

\* Mutant: the memBlock is sent but memBlock = nil is forgotten.
MWFlushBlockKeep(i) ==
    /\ mw[i].pc = "flush"
    /\ mw[i].blk # 0
    /\ blocks[mw[i].blk].toc # <<>>
    /\ Room(fileQ)
    /\ fileQ' = Append(fileQ, mw[i].blk)
    /\ UNCHANGED <<loc, cl, mw, blocks, free, fw, freeable, mc, tocQ, tocFree, tw,
                   tocs, nfiles, flushed, fl, tg, completed, durable,
                   nwrites, nflushes, ntoggles, ncrashes>>

\* A flush hands over a memBlock holding entries, then flushValueMemBlock.
MWFlushBlock(i) ==
    /\ mw[i].pc = "flush"
    /\ mw[i].blk # 0
    /\ blocks[mw[i].blk].toc # <<>>
    /\ Room(fileQ)
    /\ fileQ' = Append(fileQ, mw[i].blk)
    /\ mw' = [mw EXCEPT ![i].blk = 0]
    /\ UNCHANGED <<loc, cl, blocks, free, fw, freeable, mc, tocQ, tocFree, tw,
                   tocs, nfiles, flushed, fl, tg, completed, durable,
                   nwrites, nflushes, ntoggles, ncrashes>>

MWFlushMark(i) ==
    /\ mw[i].pc = "flush"
    /\ IF mw[i].blk = 0 THEN TRUE ELSE blocks[mw[i].blk].toc = <<>>
    /\ Room(fileQ)
    /\ fileQ' = Append(fileQ, FlushMark)
    /\ mw' = [mw EXCEPT ![i].pc = "recv"]
    /\ UNCHANGED <<loc, cl, blocks, free, fw, freeable, mc, tocQ, tocFree, tw,
                   tocs, nfiles, flushed, fl, tg, completed, durable,
                   nwrites, nflushes, ntoggles, ncrashes>>

MWRecvToggle(i) ==
    /\ mw[i].pc = "recv"
    /\ tg.pc = "send"
    /\ tg.j = i
    /\ mw' = [mw EXCEPT ![i].enabled = (tg.tok = "enable")]
    /\ tg' = [tg EXCEPT !.j = i + 1]
    /\ UNCHANGED <<loc, cl, blocks, free, fileQ, fw, freeable, mc, tocQ, tocFree,
                   tw, tocs, nfiles, flushed, fl, completed, durable,
                   nwrites, nflushes, ntoggles, ncrashes>>
-----------------------------------------------------------------------------
(* fileWriter: one goroutine; fl.write is the valueStoreFile writer.       *)

\* A memBlock: close the file first when its TOC or values would pass
\* fileCap, open a new file when there is none (headers take one unit),
\* and fl.write hands the memBlock round-robin to a memClearer.
FWRecvBlock ==
    LET b     == Head(fileQ)
        n     == Len(blocks[b].toc)
        v     == blocks[b].vals
        close == fw.fl # 0 /\ (fw.tocLen + n >= FileCap \/ fw.valLen + v > FileCap)
        open  == fw.fl = 0 \/ close
        f     == IF open THEN MemBlocks + nfiles + 1 ELSE fw.fl
        idx   == IF open THEN 0 ELSE fw.idx
    IN
    /\ fw.pc = "recv"
    /\ fileQ # <<>>
    /\ b # FlushMark
    /\ open => nfiles < MaxFiles
    /\ Room(freeable[idx])
    /\ fileQ' = Tail(fileQ)
    /\ blocks' = [blocks EXCEPT ![b].file = f]
    /\ freeable' = [freeable EXCEPT ![idx] = Append(@, b)]
    /\ fw' = [fw EXCEPT !.fl = f,
                        !.tocLen = (IF open THEN 1 ELSE fw.tocLen) + n,
                        !.valLen = (IF open THEN 1 ELSE fw.valLen) + v,
                        !.idx = (idx + 1) % Workers]
    /\ nfiles' = IF open THEN nfiles + 1 ELSE nfiles
    /\ UNCHANGED <<loc, cl, mw, free, mc, tocQ, tocFree, tw, tocs, flushed, fl, tg,
                   completed, durable, nwrites, nflushes, ntoggles,
                   ncrashes>>

\* Mutant: memWritersFlushLeft is tested before it is decremented.
FWRecvFlushLate ==
    /\ fw.pc = "recv"
    /\ fileQ # <<>>
    /\ Head(fileQ) = FlushMark
    /\ fileQ' = Tail(fileQ)
    /\ fw' = IF fw.left > 0
             THEN [fw EXCEPT !.left = @ - 1]
             ELSE [fw EXCEPT !.left = Workers, !.fl = 0, !.pc = "flush", !.j = 0]
    /\ UNCHANGED <<loc, cl, mw, blocks, free, freeable, mc, tocQ, tocFree, tw, tocs,
                   nfiles, flushed, fl, tg, completed, durable, nwrites,
                   nflushes, ntoggles, ncrashes>>

\* One flushValueMemBlock from every memWriter closes the file and starts
\* a flush to every memClearer.
FWRecvFlush ==
    /\ fw.pc = "recv"
    /\ fileQ # <<>>
    /\ Head(fileQ) = FlushMark
    /\ fileQ' = Tail(fileQ)
    /\ fw' = IF fw.left - 1 > 0
             THEN [fw EXCEPT !.left = @ - 1]
             ELSE [fw EXCEPT !.left = Workers, !.fl = 0, !.pc = "flush", !.j = 0]
    /\ UNCHANGED <<loc, cl, mw, blocks, free, freeable, mc, tocQ, tocFree, tw, tocs,
                   nfiles, flushed, fl, tg, completed, durable, nwrites,
                   nflushes, ntoggles, ncrashes>>

FWSendFlush ==
    /\ fw.pc = "flush"
    /\ Room(freeable[fw.j])
    /\ freeable' = [freeable EXCEPT ![fw.j] = Append(@, FlushMark)]
    /\ fw' = [fw EXCEPT !.j = @ + 1, !.pc = IF fw.j + 1 = Workers THEN "recv" ELSE "flush"]
    /\ UNCHANGED <<loc, cl, mw, blocks, free, fileQ, mc, tocQ, tocFree, tw, tocs,
                   nfiles, flushed, fl, tg, completed, durable, nwrites,
                   nflushes, ntoggles, ncrashes>>

-----------------------------------------------------------------------------
(* memClearer(freeableMemBlockChan): one per shard.  tb = <<>> is nil.     *)

MCRecv(i) ==
    LET x == Head(freeable[i]) IN
    /\ mc[i].pc = "recv"
    /\ freeable[i] # <<>>
    /\ freeable' = [freeable EXCEPT ![i] = Tail(@)]
    /\ mc' = [mc EXCEPT ![i] =
                 IF x = FlushMark THEN [@ EXCEPT !.pc = "flush"]
                 ELSE [@ EXCEPT !.blk = x, !.pos = 1,
                          !.pc = IF mc[i].tb # <<>> /\ mc[i].tbTS # blocks[x].file
                                 THEN "switch" ELSE "entry"]]
    /\ UNCHANGED <<loc, cl, mw, blocks, free, fileQ, fw, tocQ, tocFree, tw, tocs,
                   nfiles, flushed, fl, tg, completed, durable, nwrites,
                   nflushes, ntoggles, ncrashes>>

\* Send tb: when the memBlock's file differs from tb's (pc "switch"), when tb
\* is full (pc "full"), or on a flush (pc "flush").
MCSendTB(i) ==
    /\ mc[i].pc \in {"switch", "full", "flush"}
    /\ mc[i].tb # <<>>
    /\ Room(tocQ)
    /\ tocQ' = Append(tocQ, [ts |-> mc[i].tbTS, ents |-> mc[i].tb])
    /\ mc' = [mc EXCEPT ![i].tb = <<>>,
                        ![i].pc = CASE @ = "switch" -> "entry"
                                    [] @ = "full"   -> "take"
                                    [] @ = "flush"  -> "flush"]
    /\ UNCHANGED <<loc, cl, mw, blocks, free, fileQ, fw, freeable, tocFree, tw, tocs,
                   nfiles, flushed, fl, tg, completed, durable, nwrites,
                   nflushes, ntoggles, ncrashes>>

MCFlushNil(i) ==
    /\ mc[i].pc = "flush"
    /\ mc[i].tb = <<>>
    /\ Room(tocQ)
    /\ tocQ' = Append(tocQ, NilTOC)
    /\ mc' = [mc EXCEPT ![i].pc = "recv"]
    /\ UNCHANGED <<loc, cl, mw, blocks, free, fileQ, fw, freeable, tocFree, tw, tocs,
                   nfiles, flushed, fl, tg, completed, durable, nwrites,
                   nflushes, ntoggles, ncrashes>>

\* The blockID memClearer gives a TOC entry: the memBlock's file, or 0 (and
\* no offset or length) when the entry has LOCAL_REMOVAL set.
LocBlockOf(b, ts) == IF Removed(ts) THEN 0 ELSE blocks[b].file

\* Mutant: an entry whose ts equals the index's is taken as superseded.
MCEntrySkipSame(i) ==
    LET b == mc[i].blk
        e == blocks[b].toc[mc[i].pos]
    IN
    /\ mc[i].pc = "entry"
    /\ mc[i].pos <= Len(blocks[b].toc)
    /\ loc' = IF loc[e.k].ts >= e.ts THEN loc ELSE LocSet(loc, e.k, e.ts, LocBlockOf(b, e.ts), TRUE)
    /\ mc' = [mc EXCEPT ![i] =
                 CASE loc[e.k].ts >= e.ts -> [@ EXCEPT !.pos = @ + 1]
                   [] @.tb = <<>>        -> [@ EXCEPT !.pc = "take"]
                   [] Len(@.tb) + 1 > TOCBlockEntries -> [@ EXCEPT !.pc = "full"]
                   [] OTHER -> [@ EXCEPT !.tb = Append(@, e), !.pos = @ + 1]]
    /\ UNCHANGED <<cl, mw, blocks, free, fileQ, fw, freeable, tocQ, tocFree, tw, tocs,
                   nfiles, flushed, fl, tg, completed, durable, nwrites,
                   nflushes, ntoggles, ncrashes>>

\* Mutant: the entry re-points the index at the file whatever its ts.
MCEntryAnyTs(i) ==
    LET b == mc[i].blk
        e == blocks[b].toc[mc[i].pos]
    IN
    /\ mc[i].pc = "entry"
    /\ mc[i].pos <= Len(blocks[b].toc)
    /\ loc' = [loc EXCEPT ![e.k] = [ts |-> e.ts, blk |-> LocBlockOf(b, e.ts)]]
    /\ mc' = [mc EXCEPT ![i] =
                 CASE @.tb = <<>> -> [@ EXCEPT !.pc = "take"]
                   [] Len(@.tb) + 1 > TOCBlockEntries -> [@ EXCEPT !.pc = "full"]
                   [] OTHER -> [@ EXCEPT !.tb = Append(@, e), !.pos = @ + 1]]
    /\ UNCHANGED <<cl, mw, blocks, free, fileQ, fw, freeable, tocQ, tocFree, tw, tocs,
                   nfiles, flushed, fl, tg, completed, durable, nwrites,
                   nflushes, ntoggles, ncrashes>>

\* locmap.Set(..., fileID, ..., true) for the next TOC entry; a loser to a
\* newer ts is dropped, a winner is appended to tb.
MCEntry(i) ==
    LET b == mc[i].blk
        e == blocks[b].toc[mc[i].pos]
        f == LocBlockOf(b, e.ts)
    IN
    /\ mc[i].pc = "entry"
    /\ mc[i].pos <= Len(blocks[b].toc)
    /\ loc' = LocSet(loc, e.k, e.ts, f, TRUE)
    /\ mc' = [mc EXCEPT ![i] =
                 CASE loc[e.k].ts > e.ts -> [@ EXCEPT !.pos = @ + 1]
                   [] @.tb = <<>>        -> [@ EXCEPT !.pc = "take"]
                   [] Len(@.tb) + 1 > TOCBlockEntries -> [@ EXCEPT !.pc = "full"]
                   [] OTHER -> [@ EXCEPT !.tb = Append(@, e), !.pos = @ + 1]]
    /\ UNCHANGED <<cl, mw, blocks, free, fileQ, fw, freeable, tocQ, tocFree, tw, tocs,
                   nfiles, flushed, fl, tg, completed, durable, nwrites,
                   nflushes, ntoggles, ncrashes>>

\* tb = <-store.freeTOCBlockChan, stamped with the file, then the entry.
MCTake(i) ==
    LET b == mc[i].blk IN
    /\ mc[i].pc = "take"
    /\ tocFree > 0
    /\ tocFree' = tocFree - 1
    /\ mc' = [mc EXCEPT ![i].tb = <<blocks[b].toc[mc[i].pos]>>,
                        ![i].tbTS = blocks[b].file,
                        ![i].pos = @ + 1, ![i].pc = "entry"]
    /\ UNCHANGED <<loc, cl, mw, blocks, free, fileQ, fw, freeable, tocQ, tw, tocs,
                   nfiles, flushed, fl, tg, completed, durable, nwrites,
                   nflushes, ntoggles, ncrashes>>

\* The memBlock is reset under discardLock and goes back to the free pool.
MCFree(i) ==
    LET b == mc[i].blk IN
    /\ mc[i].pc = "entry"
    /\ mc[i].pos > Len(blocks[b].toc)
    /\ blocks' = [blocks EXCEPT ![b] = BlockInit]
    /\ free' = free \cup {b}
    /\ mc' = [mc EXCEPT ![i].pc = "recv", ![i].blk = 0]
    /\ UNCHANGED <<loc, cl, mw, fileQ, fw, freeable, tocQ, tocFree, tw, tocs, nfiles,
                   flushed, fl, tg, completed, durable, nwrites,
                   nflushes, ntoggles, ncrashes>>

-----------------------------------------------------------------------------
(* tocWriter: writer A is the current TOC file, writer B the previous one. *)

Closed(T, f) == IF f # 0 THEN [T EXCEPT ![f].term = TRUE] ELSE T

\* A TOC block for A or B is appended; any other file id closes B, rotates
\* A to B and os.Create()s the block's TOC file as the new A.
TWRecvBlock ==
    LET t == Head(tocQ) IN
    /\ tw.pc = "recv"
    /\ tocQ # <<>>
    /\ t # NilTOC
    /\ tocQ' = Tail(tocQ)
    /\ IF t.ts \in {tw.A, tw.B}
       THEN /\ tocs' = [tocs EXCEPT ![t.ts].ents = @ \o t.ents]
            /\ UNCHANGED tw
       ELSE /\ tocs' = [Closed(tocs, tw.B) EXCEPT
                           ![t.ts] = [made |-> TRUE, ents |-> t.ents, term |-> FALSE]]
            /\ tw' = [tw EXCEPT !.B = tw.A, !.A = t.ts]
    /\ tocFree' = tocFree + 1
    /\ UNCHANGED <<loc, cl, mw, blocks, free, fileQ, fw, freeable, mc, nfiles,
                   flushed, fl, tg, completed, durable, nwrites,
                   nflushes, ntoggles, ncrashes>>

\* A nil from every memClearer terminates and closes B and A.
TWRecvNil ==
    /\ tw.pc = "recv"
    /\ tocQ # <<>>
    /\ Head(tocQ) = NilTOC
    /\ tocQ' = Tail(tocQ)
    /\ IF tw.left - 1 > 0
       THEN /\ tw' = [tw EXCEPT !.left = @ - 1]
            /\ UNCHANGED tocs
       ELSE /\ tocs' = Closed(Closed(tocs, tw.B), tw.A)
            /\ tw' = [tw EXCEPT !.A = 0, !.B = 0, !.pc = "signal"]
    /\ UNCHANGED <<loc, cl, mw, blocks, free, fileQ, fw, freeable, mc, tocFree,
                   nfiles, flushed, fl, tg, completed, durable, nwrites,
                   nflushes, ntoggles, ncrashes>>

\* store.flushedChan <- struct{}{}
TWSignal ==
    /\ tw.pc = "signal"
    /\ flushed = 0
    /\ flushed' = 1
    /\ tw' = [tw EXCEPT !.left = Workers, !.pc = "recv"]
    /\ UNCHANGED <<loc, cl, mw, blocks, free, fileQ, fw, freeable, mc, tocQ, tocFree,
                   tocs, nfiles, fl, tg, completed, durable, nwrites,
                   nflushes, ntoggles, ncrashes>>
-----------------------------------------------------------------------------
(* Crash, restart and recovery.                                            *)

\* recovery: TOC files in name order, each one's entries in order, replayed
\* with locmap.Set(..., true); the workers split entries by keyB, so the
\* entries of one key keep this order; a LOCAL_REMOVAL entry gets blockID 0.
Recover(T) ==
    FoldLeft(LAMBDA m, f :
                 FoldLeft(LAMBDA a, e : LocSet(a, e.k, e.ts, IF Removed(e.ts) THEN 0 ELSE f, TRUE),
                          m, T[f].ents),
             EmptyLoc,
             SetToSortSeq({f \in FileIds : T[f].made}, <))

\* The process dies: an open TOC file keeps the prefix of its entries that
\* reached the disk; NewValueStore then runs recovery with every memWriter
\* disabled.
Crash ==
    /\ ncrashes < MaxCrashes
    /\ \E keep \in [FileIds -> 0 .. TOCBlockEntries * MaxWrites] :
          /\ \A f \in FileIds : keep[f] <= Len(tocs[f].ents)
                                /\ (tocs[f].term => keep[f] = Len(tocs[f].ents))
          /\ tocs' = [f \in FileIds |-> [tocs[f] EXCEPT !.ents = SubSeq(@, 1, keep[f])]]
    /\ loc' = Recover(tocs')
    /\ cl' = [c \in Clients |-> ClientIdle]
    /\ mw' = [i \in Shards |-> MWInit]
    /\ blocks' = [b \in BlockIds |-> BlockInit]
    /\ free' = BlockIds
    /\ fileQ' = <<>>
    /\ fw' = FWInit
    /\ freeable' = [i \in Shards |-> <<>>]
    /\ mc' = [i \in Shards |-> MCInit]
    /\ tocQ' = <<>>
    /\ tocFree' = 2 * Workers
    /\ tw' = TWInit
    /\ flushed' = 0
    /\ fl' = [f \in Flushers |-> FlIdle]
    /\ tg' = TgIdle
    /\ completed' = [k \in Keys |-> 0]
    /\ ncrashes' = ncrashes + 1
    /\ UNCHANGED <<nfiles, durable, nwrites, nflushes, ntoggles>>

-----------------------------------------------------------------------------

MemWriterStep(i) ==
    \/ \E c \in Clients : MWRecvWrite(i, c)
    \/ \E f \in Flushers : MWRecvFlush(i, f)
    \/ MWRecvToggle(i)
    \/ MWSeal(i) \/ MWTake(i) \/ MWApply(i)
    \/ MWFlushBlock(i) \/ MWFlushMark(i)

MemClearerStep(i) ==
    \/ MCRecv(i) \/ MCSendTB(i) \/ MCFlushNil(i)
    \/ MCEntry(i) \/ MCTake(i) \/ MCFree(i)

FileWriterStep == FWRecvBlock \/ FWRecvFlush \/ FWSendFlush
TOCWriterStep  == TWRecvBlock \/ TWRecvNil \/ TWSignal

Next ==
    \/ \E c \in Clients : Call(c) \/ Return(c)
    \/ \E f \in Flushers : FlushCall(f) \/ FlushReturn(f)
    \/ ToggleCall \/ ToggleReturn
    \/ \E i \in Shards : MemWriterStep(i) \/ MemClearerStep(i)
    \/ FileWriterStep \/ TOCWriterStep
    \/ Crash

\* Go schedules every runnable goroutine; callers are free to stop calling.
Fairness ==
    /\ \A i \in Shards : WF_vars(MemWriterStep(i)) /\ WF_vars(MemClearerStep(i))
    /\ WF_vars(FileWriterStep) /\ WF_vars(TOCWriterStep)
    /\ \A c \in Clients : WF_vars(Return(c))
    /\ \A f \in Flushers : WF_vars(FlushReturn(f))
    /\ WF_vars(ToggleReturn)

Spec == Init /\ [][Next]_vars /\ Fairness

-----------------------------------------------------------------------------
(* Properties.                                                             *)

TypeOK ==
    /\ loc \in [Keys -> [ts : Nat, blk : {0} \cup BlockIds \cup FileIds]]
    /\ \A c \in Clients : cl[c].pc \in {"idle", "send", "wait", "done"}
    /\ \A i \in Shards : /\ mw[i].pc \in {"recv", "write", "flush"}
                         /\ mw[i].blk \in {0} \cup BlockIds
    /\ \A b \in BlockIds : /\ Len(blocks[b].toc) <= PageEntries
                           /\ blocks[b].vals <= PageUnits
    /\ free \subseteq BlockIds
    /\ fileQ \in Seq({FlushMark} \cup BlockIds) /\ Len(fileQ) <= Workers
    /\ \A i \in Shards : Len(freeable[i]) <= Workers
    /\ \A i \in Shards : Len(mc[i].tb) <= TOCBlockEntries
    /\ Len(tocQ) <= Workers
    /\ tocFree \in 0 .. 2 * Workers
    /\ flushed \in 0 .. 1

\* Every memBlock is in exactly one place: the free pool, a memWriter, a
\* channel, or a memClearer; none is lost or handed out twice.
BlocksConserved ==
    LET queued == {<<0, n>> : n \in {n \in DOMAIN fileQ : fileQ[n] # FlushMark}}
                  \cup UNION {{<<i + 1, n>> :
                                 n \in {n \in DOMAIN freeable[i] : freeable[i][n] # FlushMark}}
                               : i \in Shards}
        Where(b) == Cardinality({x \in queued : (IF x[1] = 0 THEN fileQ[x[2]]
                                                 ELSE freeable[x[1] - 1][x[2]]) = b})
                    + Cardinality({i \in Shards : mw[i].blk = b})
                    + Cardinality({i \in Shards : mc[i].blk = b})
                    + (IF b \in free THEN 1 ELSE 0)
    IN \A b \in BlockIds : Where(b) = 1

\* Where the index points at a memBlock, that memBlock is in use and still
\* holds the entry: memClearer re-points every surviving entry at the file
\* before it resets the memBlock and frees it for reuse.
IndexPointsAtLiveBlock ==
    \A k \in Keys :
        loc[k].blk \in BlockIds =>
            /\ loc[k].blk \notin free
            /\ Entry(k, loc[k].ts) \in Range(blocks[loc[k].blk].toc)

\* Flush: "buffered data (at the time of the call) is written to disk".
\* Every Write or Delete that returned before a Flush call that has
\* returned survives a crash: the index after recovery is at least as new.
FlushedWritesSurviveRestart ==
    \A k \in Keys : loc[k].ts >= durable[k]

\* A TOC file's entries are only ever appended to, except that a crash
\* loses the unwritten tail of an open one (tocWriter's os.Create of a
\* file that already exists would truncate it).
TOCFilesOnlyGrow ==
    [][ncrashes' = ncrashes =>
          \A f \in FileIds : tocs[f].made =>
              SubSeq(tocs'[f].ents, 1, Len(tocs[f].ents)) = tocs[f].ents]_vars

\* The refinement mapping to DurableIndex: the index's timestamps; the
\* Write or Delete each caller is in, from Call to Return; and, as the part
\* on disk, the timestamp recovery would rebuild from the TERM-ed TOC files
\* alone (its Set keeps the newest), the entries no crash can lose.
WriteCalls ==
    [c \in Clients |-> IF cl[c].pc = "idle" THEN [k |-> CHOOSE k \in Keys : TRUE, ts |-> 0]
                                            ELSE [k |-> cl[c].k, ts |-> cl[c].ts]]
OnDisk ==
    LET kept == UNION {Range(tocs[f].ents) : f \in {f \in FileIds : tocs[f].term}}
    IN  [k \in Keys |-> Max({0} \cup {e.ts : e \in {e \in kept : e.k = k}})]

DI == INSTANCE DurableIndex
        WITH Timestamps <- {TSBits(m, d) + r : m \in Micros, d \in BOOLEAN, r \in {0, LocalRemoval}},
             Callers <- Clients, index <- [k \in Keys |-> loc[k].ts],
             call <- WriteCalls, disk <- OnDisk

\* The store keeps its index's promise across restarts: the newest
\* timestamp of a key only rises, and only to the timestamp of a Write or
\* Delete in progress (memWriter's Set; memClearer's and recovery's
\* Set(..., true) never move it); the TERM-ed TOC files never hold a newer
\* one; and a crash with recovery leaves it between those files and
\* what the index held.
StoreRefinesDurableIndex == DI!Spec

\* Every Flush call returns, and so does every Write or Delete.
FlushesReturn == \A f \in Flushers : fl[f].pc = "send" ~> fl[f].pc = "idle"
CallsReturn   == \A c \in Clients : cl[c].pc = "send" ~> cl[c].pc = "idle"
=============================================================================
