-------------------------- MODULE PullReplication --------------------------
(***************************************************************************)
(* Pull replication of a DefaultGroupStore                                 *)
(* (src/grouppullreplication_GEN_.go) between two replicas: the puller,    *)
(* whose outPullReplicationLauncher runs passes of outWorkers scanning     *)
(* goroutines that summarise each sub-range of a responsible partition and *)
(* send the summary, and the responder, whose inPullReplication answers a  *)
(* summary with a bulk-set of the entries the summary lacks.               *)
(*                                                                         *)
(* Keys are keyA values of KeyBits bits (64 in the code): every sum and    *)
(* difference on them wraps modulo 2^KeyBits as uint64 does.  An index     *)
(* maps a key to its timestamp, 0 when absent.  The bloom filter of a      *)
(* summary holds exactly the <<key, timestamp>> pairs that were added to   *)
(* it; a false positive of mayHave is a nondeterministic extra key.  The   *)
(* responder's index does not change; the puller's changes only by the     *)
(* bulk-sets it receives.  A summary travels as the code's 44-byte header *)
(* (node ID, ring version, partition, cutoff, rangeStart, rangeStop, big-  *)
(* endian) that the responder decodes; its bloom filter stays a set.       *)
(***************************************************************************)
EXTENDS Integers, Sequences, SequencesExt, FiniteSets, FiniteSetsExt

CONSTANTS
    KeyBits,        \* width of keyA
    PartBits,       \* ring.PartitionBitCount()
    OutWorkers,     \* pullReplicationState.outWorkers
    ReplicaCount,   \* ring.ReplicaCount()
    RespIdx,        \* partition -> the responder's ResponsibleReplica index
    PullerParts,    \* partitions for which ring.Responsible holds at the puller
    PInit,          \* the puller's index at start
    SInit,          \* the responder's index
    BloomN,         \* pullReplicationState.bloomN: entries per summary
    MsgCap,         \* bulkSetState.msgCap, in entries
    OutMsgs,        \* cap(outMsgChan)
    InMsgs,         \* cap(inFreeMsgChan)
    FalsePositives, \* whether ktbf.mayHave may report an absent entry
    Callers,        \* goroutines calling OutPullReplicationPass, Enable, Disable
    MaxCalls, MaxPasses,
    MaxFaults       \* lost messages and ring changes together

VARIABLES
    pIdx,        \* the puller's index
    abort,       \* pullReplicationState.outAbort
    enabled,     \* the launcher's local enabled
    lpc,         \* launcher: "wait" in its select, or "pass" in outPullReplicationPass
    lnote,       \* the notification whose pass is running, or NoCaller
    notes,       \* outNotifyChan (capacity 1): the callers whose notification waits
    signalled,   \* callers whose doneChan has been sent to
    cl,          \* caller c: [pc, op]
    ncalls,
    wk,          \* scanning goroutine w of the running pass
    passN,       \* passes started so far; the id of the running pass
    passRing,    \* ringVersion read at the start of the running pass
    ring,        \* the ring's current version
    outFree,     \* free messages in outMsgChan
    pulls,       \* pull-replication messages the MsgRing has not yet written
    inQ,         \* inMsgChan at the responder
    bulks,       \* bulk-set messages on their way to the puller
    faults,      \* lost messages and ring changes so far
    ended,       \* history: ids of passes that returned
    broken,      \* history: passes cut short by outAbort or a ring change
    dirty,       \* history: passes with a lost, dropped, truncated or false-positive answer
    curRanges    \* history: <<rangeStart, rangeStop>> of every summary of the running pass

vars == <<pIdx, abort, enabled, lpc, lnote, notes, signalled, cl, ncalls, wk, passN,
          passRing, ring, outFree, pulls, inQ, bulks, faults, ended, broken, dirty,
          curRanges>>
netVars  == <<pulls, inQ, bulks, faults>>
histVars == <<ended, broken, dirty, curRanges>>

Keys      == 0 .. (2^KeyBits - 1)
MaxKey    == 2^KeyBits - 1
U(x)      == x % 2^KeyBits                 \* uint64 wrap-around
PartCount == 2^PartBits                    \* partitionCount
\* uint64(1) << rightwardPartitionShift: 0 when the shift is the whole width
PartSize  == U(2^(KeyBits - PartBits))
Part(k)   == k \div 2^(KeyBits - PartBits)  \* k >> rightwardPartitionShift
Ts        == Range(PInit) \cup Range(SInit)
Workers   == 0 .. OutWorkers - 1          \* the scanning goroutines
Cutoff    == Max(Ts)  \* timestampbitsnow - replicationIgnoreRecent: no entry is too recent
NoCaller  == "none"
Ops       == {"pass", "enable", "disable"}

\* binary.BigEndian.PutUintN: the n bytes of v, most significant first.
RECURSIVE BigEndian(_, _)
BigEndian(v, n) == IF n = 0 THEN <<>> ELSE BigEndian(v \div 256, n - 1) \o <<v % 256>>

\* binary.BigEndian.UintN of the n bytes of header h from offset off.
RECURSIVE FromBigEndian(_, _, _)
FromBigEndian(h, off, n) ==
    IF n = 0 THEN 0 ELSE FromBigEndian(h, off, n - 1) * 256 + h[off + n]

\* newOutPullReplicationMsg: the 44-byte header, the puller's node ID
\* (r.LocalNode().ID()) first.
PullerID == 1
NewHeader(ringVersion, partition, cutoff, rangeStart, rangeStop) ==
    BigEndian(PullerID, 8) \o BigEndian(ringVersion, 8) \o BigEndian(partition, 4)
      \o BigEndian(cutoff, 8) \o BigEndian(rangeStart, 8) \o BigEndian(rangeStop, 8)

\* The header accessors inPullReplication reads a summary with.
NodeIDOf(h)     == FromBigEndian(h, 0, 8)
CutoffOf(h)     == FromBigEndian(h, 20, 8)
RangeStartOf(h) == FromBigEndian(h, 28, 8)
RangeStopOf(h)  == FromBigEndian(h, 36, 8)

\* Mutant: a worker's sub-range ends at the next worker's start.
SubRangeEndPastNext(p, w) ==
    LET pb == U(p * PartSize)
        rb == pb + (PartSize \div OutWorkers) * w
        re == IF w + 1 = OutWorkers
                THEN IF p + 1 = PartCount THEN MaxKey ELSE U(U((p + 1) * PartSize) - 1)
                ELSE U(pb + (PartSize \div OutWorkers) * (w + 1))
    IN <<rb, re>>

\* The sub-range [rb, re] of partition p that scanning goroutine w covers.
SubRange(p, w) ==
    LET pb == U(p * PartSize)
        rb == pb + (PartSize \div OutWorkers) * w
        re == IF w + 1 = OutWorkers
                THEN IF p + 1 = PartCount THEN MaxKey ELSE U(U((p + 1) * PartSize) - 1)
                ELSE U(pb + (PartSize \div OutWorkers) * (w + 1) - 1)
    IN <<rb, re>>

\* The keys start, start + 1, ..., stop in order (empty when start > stop).
Interval(start, stop) == [i \in 1 .. (stop - start + 1) |-> start + i - 1]

\* ScanCallback(start, stop, ..., max, cb) of the group index (not in this
\* repository): visits the present entries of [start, stop] in key order;
\* when more than max are present it stops after max and returns the key
\* of the next one with more = TRUE.
ScanCallback(idx, start, stop, max) ==
    LET Present(k) == idx[k] # 0
        s == SelectSeq(Interval(start, stop), Present)
    IN IF Len(s) > max
         THEN [ents |-> SubSeq(s, 1, max), next |-> s[max + 1], more |-> TRUE]
         ELSE [ents |-> s, next |-> stop, more |-> FALSE]

Take(s, n) == SubSeq(s, 1, IF n < Len(s) THEN n ELSE Len(s))

\* The keys inPullReplication puts in its bulk-set for summary m, when
\* ktbf.mayHave wrongly reports the keys fp: a scan from the staggered
\* scanStart to rangeStop and, while budget is left, a second scan from
\* rangeStart to scanStart - 1.
ScanStart(m) ==
    m.rs + ((m.re - m.rs) \div ReplicaCount) * RespIdx[Part(m.rs)]
Missing(m, fp, start, stop) ==
    LET Lacks(k) == /\ SInit[k] # 0 /\ SInit[k] <= m.cutoff
                    /\ <<k, SInit[k]>> \notin m.bloom /\ k \notin fp
    IN SelectSeq(Interval(start, stop), Lacks)
\* Mutant: no second scan below scanStart.
AnswerFirstScanOnly(m, fp) == Take(Missing(m, fp, ScanStart(m), m.re), MsgCap)
Answer(m, fp) ==
    LET first == Take(Missing(m, fp, ScanStart(m), m.re), MsgCap)
        l     == MsgCap - Len(first)
    IN IF l > 0
         THEN first \o Take(Missing(m, fp, m.rs, U(ScanStart(m) - 1)), l)
         ELSE first

IdleWorker == [pc |-> "idle", i |-> 0, rb |-> 0, re |-> 0, more |-> FALSE,
               m |-> [rs |-> 0, re |-> 0, bloom |-> {}, pass |-> 0]]

Init ==
    /\ pIdx = PInit
    /\ abort = 0
    /\ enabled = TRUE
    /\ lpc = "wait"
    /\ lnote = NoCaller
    /\ notes = <<>>
    /\ signalled = {}
    /\ cl = [c \in Callers |-> [pc |-> "idle", op |-> "pass"]]
    /\ ncalls = 0
    /\ wk = [w \in Workers |-> IdleWorker]
    /\ passN = 0
    /\ passRing = 0
    /\ ring = 0
    /\ outFree = OutMsgs
    /\ pulls = {}
    /\ inQ = <<>>
    /\ bulks = {}
    /\ faults = 0
    /\ ended = {}
    /\ broken = {}
    /\ dirty = {}
    /\ curRanges = {}

-----------------------------------------------------------------------------
(* Callers: OutPullReplicationPass stores 1 in outAbort, then, like        *)
(* Enable/DisableOutPullReplication, sends a notification and waits on     *)
(* its doneChan.                                                           *)

CallStart(c, op) ==
    /\ cl[c].pc = "idle"
    /\ ncalls < MaxCalls
    /\ cl' = [cl EXCEPT ![c] = [pc |-> IF op = "pass" THEN "abort" ELSE "send", op |-> op]]
    /\ ncalls' = ncalls + 1
    /\ UNCHANGED <<pIdx, abort, enabled, lpc, lnote, notes, signalled, wk, passN,
                   passRing, ring, outFree, netVars, histVars>>

CallAbort(c) ==
    /\ cl[c].pc = "abort"
    /\ abort' = 1
    /\ cl' = [cl EXCEPT ![c].pc = "send"]
    /\ UNCHANGED <<pIdx, enabled, lpc, lnote, notes, signalled, ncalls, wk, passN,
                   passRing, ring, outFree, netVars, histVars>>

CallSend(c) ==
    /\ cl[c].pc = "send"
    /\ Len(notes) < 1
    /\ notes' = Append(notes, c)
    /\ cl' = [cl EXCEPT ![c].pc = "wait"]
    /\ UNCHANGED <<pIdx, abort, enabled, lpc, lnote, signalled, ncalls, wk, passN,
                   passRing, ring, outFree, netVars, histVars>>

CallReturn(c) ==
    /\ cl[c].pc = "wait"
    /\ c \in signalled
    /\ signalled' = signalled \ {c}
    /\ cl' = [cl EXCEPT ![c].pc = "idle"]
    /\ UNCHANGED <<pIdx, abort, enabled, lpc, lnote, notes, ncalls, wk, passN,
                   passRing, ring, outFree, netVars, histVars>>
-----------------------------------------------------------------------------
(* outPullReplicationLauncher: its select takes a notification or, when   *)
(* the jittered sleep runs out, starts a pass if enabled.                  *)

StartPass ==
    /\ lpc' = "pass"
    /\ passN' = passN + 1
    /\ passRing' = ring
    /\ wk' = [w \in Workers |-> [IdleWorker EXCEPT !.pc = "visit"]]
    /\ curRanges' = {}

LauncherEnable ==
    /\ lpc = "wait"
    /\ notes # <<>>
    /\ cl[Head(notes)].op = "enable"
    /\ notes' = Tail(notes)
    /\ enabled' = TRUE
    /\ signalled' = signalled \cup {Head(notes)}
    /\ UNCHANGED <<pIdx, abort, lpc, lnote, cl, ncalls, wk, passN, passRing, ring,
                   outFree, netVars, histVars>>

LauncherDisable ==
    /\ lpc = "wait"
    /\ notes # <<>>
    /\ cl[Head(notes)].op = "disable"
    /\ notes' = Tail(notes)
    /\ abort' = 1
    /\ enabled' = FALSE
    /\ signalled' = signalled \cup {Head(notes)}
    /\ UNCHANGED <<pIdx, lpc, lnote, cl, ncalls, wk, passN, passRing, ring,
                   outFree, netVars, histVars>>

LauncherNotePass ==
    /\ lpc = "wait"
    /\ notes # <<>>
    /\ cl[Head(notes)].op = "pass"
    /\ notes' = Tail(notes)
    /\ abort' = 0
    /\ lnote' = Head(notes)
    /\ StartPass
    /\ UNCHANGED <<pIdx, enabled, signalled, cl, ncalls, ring, outFree, netVars,
                   ended, broken, dirty>>

LauncherTimer ==
    /\ lpc = "wait"
    /\ enabled
    /\ passN < MaxPasses
    /\ abort' = 0
    /\ lnote' = NoCaller
    /\ StartPass
    /\ UNCHANGED <<pIdx, enabled, notes, signalled, cl, ncalls, ring, outFree,
                   netVars, ended, broken, dirty>>

\* Mutant: the notification's doneChan is never sent to.
LauncherPassEndNoSignal ==
    /\ lpc = "pass"
    /\ \A w \in Workers : wk[w].pc = "done"
    /\ lpc' = "wait"
    /\ ended' = ended \cup {passN}
    /\ lnote' = NoCaller
    /\ wk' = [w \in Workers |-> IdleWorker]
    /\ UNCHANGED <<pIdx, abort, enabled, notes, signalled, cl, ncalls, passN, passRing,
                   ring, outFree, netVars, broken, dirty, curRanges>>

\* wg.Wait() returns: the pass is over and a notification's caller is told.
LauncherPassEnd ==
    /\ lpc = "pass"
    /\ \A w \in Workers : wk[w].pc = "done"
    /\ lpc' = "wait"
    /\ ended' = ended \cup {passN}
    /\ signalled' = IF lnote = NoCaller THEN signalled ELSE signalled \cup {lnote}
    /\ lnote' = NoCaller
    /\ wk' = [w \in Workers |-> IdleWorker]
    /\ UNCHANGED <<pIdx, abort, enabled, notes, cl, ncalls, passN, passRing, ring,
                   outFree, netVars, broken, dirty, curRanges>>

-----------------------------------------------------------------------------
(* Scanning goroutine w of outPullReplicationPass: partitions from        *)
(* partitionCount/ws*w round to the one before, each after the outAbort   *)
(* and ring-version checks; f(p, w, ktbf) for a responsible partition.    *)

WkPart(w) == ((PartCount \div OutWorkers) * w + wk[w].i) % PartCount
Stale     == abort # 0 \/ ring # passRing

WkVisitEnd(w) ==
    /\ wk[w].pc = "visit"
    /\ wk[w].i = PartCount
    /\ wk' = [wk EXCEPT ![w].pc = "done"]
    /\ UNCHANGED <<pIdx, abort, enabled, lpc, lnote, notes, signalled, cl, ncalls,
                   passN, passRing, ring, outFree, netVars, histVars>>

WkVisitBreak(w) ==
    /\ wk[w].pc = "visit"
    /\ wk[w].i < PartCount
    /\ Stale
    /\ wk' = [wk EXCEPT ![w].pc = "done"]
    /\ broken' = broken \cup {passN}
    /\ UNCHANGED <<pIdx, abort, enabled, lpc, lnote, notes, signalled, cl, ncalls,
                   passN, passRing, ring, outFree, netVars, ended, dirty, curRanges>>

WkVisit(w) ==
    /\ wk[w].pc = "visit"
    /\ wk[w].i < PartCount
    /\ ~Stale
    /\ wk' = IF WkPart(w) \in PullerParts
               THEN [wk EXCEPT ![w].pc = "scan", ![w].rb = SubRange(WkPart(w), w)[1],
                               ![w].re = SubRange(WkPart(w), w)[2]]
               ELSE [wk EXCEPT ![w].i = @ + 1]
    /\ UNCHANGED <<pIdx, abort, enabled, lpc, lnote, notes, signalled, cl, ncalls,
                   passN, passRing, ring, outFree, netVars, histVars>>

\* One turn of f's loop up to newOutPullReplicationMsg: reset the bloom,
\* scan up to bloomN entries into it, re-check outAbort and the ring.
WkScan(w) ==
    LET s == ScanCallback(pIdx, wk[w].rb, wk[w].re, BloomN) IN
    /\ wk[w].pc = "scan"
    /\ IF Stale
         THEN /\ wk' = [wk EXCEPT ![w].pc = "visit", ![w].i = @ + 1]
              /\ broken' = broken \cup {passN}
         ELSE /\ wk' = [wk EXCEPT ![w].pc = "send", ![w].rb = s.next, ![w].more = s.more,
                          ![w].m = [rs |-> wk[w].rb,
                                    re |-> IF s.more THEN U(s.next - 1) ELSE wk[w].re,
                                    bloom |-> {<<k, pIdx[k]>> : k \in ToSet(s.ents)},
                                    pass |-> passN]]
              /\ UNCHANGED broken
    /\ UNCHANGED <<pIdx, abort, enabled, lpc, lnote, notes, signalled, cl, ncalls,
                   passN, passRing, ring, outFree, netVars, ended, dirty, curRanges>>

\* The message newOutPullReplicationMsg fills for worker w's summary.
OutMsg(w) ==
    [hdr |-> NewHeader(passRing, WkPart(w), Cutoff, wk[w].m.rs, wk[w].m.re),
     bloom |-> wk[w].m.bloom, pass |-> wk[w].m.pass]

\* Mutant: newOutPullReplicationMsg does not wait for a free message.
WkSendNoWait(w) ==
    /\ wk[w].pc = "send"
    /\ outFree' = outFree - 1
    /\ pulls' = pulls \cup {OutMsg(w)}
    /\ curRanges' = curRanges \cup {<<wk[w].m.rs, wk[w].m.re>>}
    /\ wk' = IF wk[w].more THEN [wk EXCEPT ![w].pc = "scan"]
                           ELSE [wk EXCEPT ![w].pc = "visit", ![w].i = @ + 1]
    /\ UNCHANGED <<pIdx, abort, enabled, lpc, lnote, notes, signalled, cl, ncalls,
                   passN, passRing, ring, inQ, bulks, faults, ended, broken, dirty>>

\* newOutPullReplicationMsg blocks for a free message; MsgToOtherReplicas.
WkSend(w) ==
    /\ wk[w].pc = "send"
    /\ outFree > 0
    /\ outFree' = outFree - 1
    /\ pulls' = pulls \cup {OutMsg(w)}
    /\ curRanges' = curRanges \cup {<<wk[w].m.rs, wk[w].m.re>>}
    /\ wk' = IF wk[w].more THEN [wk EXCEPT ![w].pc = "scan"]
                           ELSE [wk EXCEPT ![w].pc = "visit", ![w].i = @ + 1]
    /\ UNCHANGED <<pIdx, abort, enabled, lpc, lnote, notes, signalled, cl, ncalls,
                   passN, passRing, ring, inQ, bulks, faults, ended, broken, dirty>>
-----------------------------------------------------------------------------
(* The MsgRing writes a summary to the responder and Frees it back to     *)
(* outMsgChan; newInPullReplicationMsg queues it when inFreeMsgChan has a  *)
(* message and otherwise reads and drops it.  A write may also fail or     *)
(* time out (outMsgTimeout); the message is freed all the same.           *)

\* Mutant: a written message is not Freed back to outMsgChan.
DeliverPullNoFree(m) ==
    /\ m \in pulls
    /\ Len(inQ) < InMsgs
    /\ pulls' = pulls \ {m}
    /\ inQ' = Append(inQ, m)
    /\ UNCHANGED <<pIdx, abort, enabled, lpc, lnote, notes, signalled, cl, ncalls, wk,
                   passN, passRing, ring, outFree, bulks, faults, histVars>>

DeliverPull(m) ==
    /\ m \in pulls
    /\ Len(inQ) < InMsgs
    /\ pulls' = pulls \ {m}
    /\ outFree' = outFree + 1
    /\ inQ' = Append(inQ, m)
    /\ UNCHANGED <<pIdx, abort, enabled, lpc, lnote, notes, signalled, cl, ncalls, wk,
                   passN, passRing, ring, bulks, faults, histVars>>

DropPull(m) ==
    /\ m \in pulls
    /\ Len(inQ) = InMsgs
    /\ pulls' = pulls \ {m}
    /\ outFree' = outFree + 1
    /\ dirty' = dirty \cup {m.pass}
    /\ UNCHANGED <<pIdx, abort, enabled, lpc, lnote, notes, signalled, cl, ncalls, wk,
                   passN, passRing, ring, inQ, bulks, faults, ended, broken, curRanges>>

LosePull(m) ==
    /\ m \in pulls
    /\ faults < MaxFaults
    /\ pulls' = pulls \ {m}
    /\ outFree' = outFree + 1
    /\ faults' = faults + 1
    /\ dirty' = dirty \cup {m.pass}
    /\ UNCHANGED <<pIdx, abort, enabled, lpc, lnote, notes, signalled, cl, ncalls, wk,
                   passN, passRing, ring, inQ, bulks, ended, broken, curRanges>>

\* inPullReplication answers the head of inMsgChan, frees it, and sends a
\* non-empty bulk-set with ack node id 0 to the summary's node.  The budget
\* l running out, or a false positive of mayHave, leaves entries unsent.
FPChoices(m) ==
    IF FalsePositives
      THEN {{}} \cup {{k} : k \in {x \in Keys : SInit[x] # 0 /\ <<x, SInit[x]>> \notin m.bloom}}
      ELSE {{}}

\* The summary inPullReplication reads from the header of message m.
Received(m) ==
    [node |-> NodeIDOf(m.hdr), rs |-> RangeStartOf(m.hdr), re |-> RangeStopOf(m.hdr),
     cutoff |-> CutoffOf(m.hdr), bloom |-> m.bloom, pass |-> m.pass]

InPull ==
    /\ inQ # <<>>
    /\ \E m \in {Received(Head(inQ))}, fp \in FPChoices(Head(inQ)) :
         LET ks == Answer(m, fp)
         IN /\ bulks' = IF ks = <<>> THEN bulks
                        ELSE bulks \cup {[ents |-> {<<k, SInit[k]>> : k \in ToSet(ks)},
                                          to |-> m.node, pass |-> m.pass,
                                          rs |-> m.rs, re |-> m.re]}
            /\ dirty' = IF Len(ks) = MsgCap \/ fp # {} THEN dirty \cup {m.pass} ELSE dirty
    /\ inQ' = Tail(inQ)
    /\ UNCHANGED <<pIdx, abort, enabled, lpc, lnote, notes, signalled, cl, ncalls, wk,
                   passN, passRing, ring, outFree, pulls, faults, ended, broken, curRanges>>

\* The puller's bulk-set handling writes each entry; a write takes effect
\* only over an older timestamp.
Apply(idx, ents) ==
    [k \in Keys |-> Max({idx[k]} \cup {e[2] : e \in {x \in ents : x[1] = k}})]

DeliverBulk(b) ==
    /\ b \in bulks
    /\ b.to = PullerID
    /\ bulks' = bulks \ {b}
    /\ pIdx' = Apply(pIdx, b.ents)
    /\ UNCHANGED <<abort, enabled, lpc, lnote, notes, signalled, cl, ncalls, wk, passN,
                   passRing, ring, outFree, pulls, inQ, faults, histVars>>

LoseBulk(b) ==
    /\ b \in bulks
    /\ faults < MaxFaults
    /\ bulks' = bulks \ {b}
    /\ faults' = faults + 1
    /\ dirty' = dirty \cup {b.pass}
    /\ UNCHANGED <<pIdx, abort, enabled, lpc, lnote, notes, signalled, cl, ncalls, wk,
                   passN, passRing, ring, outFree, pulls, inQ, ended, broken, curRanges>>

\* The ring moves to a new version (same responsibilities).
RingChange ==
    /\ faults < MaxFaults
    /\ ring' = ring + 1
    /\ faults' = faults + 1
    /\ UNCHANGED <<pIdx, abort, enabled, lpc, lnote, notes, signalled, cl, ncalls, wk,
                   passN, passRing, outFree, pulls, inQ, bulks, histVars>>

-----------------------------------------------------------------------------
CallerStep(c)   == (\E op \in Ops : CallStart(c, op)) \/ CallAbort(c) \/ CallSend(c)
                   \/ CallReturn(c)
LauncherStep    == LauncherEnable \/ LauncherDisable \/ LauncherNotePass
                   \/ LauncherTimer \/ LauncherPassEnd
WorkerStep(w)   == WkVisitEnd(w) \/ WkVisitBreak(w) \/ WkVisit(w) \/ WkScan(w) \/ WkSend(w)
Network         == \E m \in pulls : DeliverPull(m) \/ DropPull(m)
ResponderStep   == InPull
PullerApply     == \E b \in bulks : DeliverBulk(b)
Faults          == (\E m \in pulls : LosePull(m)) \/ (\E b \in bulks : LoseBulk(b))
                   \/ RingChange

Next ==
    \/ \E c \in Callers : CallerStep(c)
    \/ LauncherStep
    \/ \E w \in Workers : WorkerStep(w)
    \/ Network \/ ResponderStep \/ PullerApply \/ Faults

\* Goroutines that can run are eventually run; the MsgRing eventually
\* writes a queued message or gives up on it at outMsgTimeout.  A caller
\* starting a call, the timer and the faults are not fair.
Fairness ==
    /\ \A c \in Callers : WF_vars(CallAbort(c) \/ CallSend(c) \/ CallReturn(c))
    /\ WF_vars(LauncherEnable \/ LauncherDisable \/ LauncherNotePass \/ LauncherPassEnd)
    /\ \A w \in Workers : WF_vars(WorkerStep(w))
    /\ WF_vars(Network)
    /\ WF_vars(ResponderStep)
    /\ WF_vars(PullerApply)

Spec == Init /\ [][Next]_vars /\ Fairness

-----------------------------------------------------------------------------
Summary == [hdr : Seq(0 .. 255), bloom : SUBSET (Keys \X Ts), pass : Nat]

TypeOK ==
    /\ pIdx \in [Keys -> Ts]
    /\ abort \in {0, 1}
    /\ lpc \in {"wait", "pass"}
    /\ notes \in Seq(Callers) /\ Len(notes) <= 1
    /\ signalled \subseteq Callers
    /\ outFree \in 0 .. OutMsgs
    /\ \A m \in pulls : m \in Summary /\ Len(m.hdr) = 44
    /\ Cardinality(pulls) + outFree = OutMsgs
    /\ Len(inQ) <= InMsgs
    /\ \A w \in Workers : wk[w].pc \in {"idle", "visit", "scan", "send", "done"}
                             /\ wk[w].i \in 0 .. PartCount

\* After a pass that finished without outAbort or a ring change, whose
\* summaries were all answered in full and whose answers all arrived, the
\* puller holds every entry of the responder, in every partition it is
\* responsible for, at least as new (the sub-ranges of the scanning
\* goroutines, the bloomN continuation and the responder's two scans from
\* the staggered scanStart leave no gap).
NothingMissed ==
    \A id \in ended \ (broken \cup dirty) :
        ( /\ \A m \in pulls \cup ToSet(inQ) : m.pass # id
          /\ \A b \in bulks : b.pass # id )
        => \A k \in Keys : Part(k) \in PullerParts => pIdx[k] >= SInit[k]

\* When a pass's scanning goroutines have all finished without a break, the
\* summaries they sent cover every key of the responsible partitions exactly
\* once and no other key (SubRange and the rb - 1 of a continued scan).
SummariesTileRange ==
    (lpc = "pass" /\ passN \notin broken /\ \A w \in Workers : wk[w].pc = "done")
    => \A k \in Keys :
         Cardinality({r \in curRanges : r[1] <= k /\ k <= r[2]})
           = IF Part(k) \in PullerParts THEN 1 ELSE 0

\* The spec (4.3): the responder scans [rangeStart, rangeStop] of the
\* summary; every entry of its bulk-set lies in that range.
ResponsesInRange ==
    \A b \in bulks : \A e \in b.ents : b.rs <= e[1] /\ e[1] <= b.re

\* Every pass ends: its scanning goroutines never block for good on
\* outMsgChan.
PassesEnd == lpc = "pass" ~> lpc = "wait"

\* Every OutPullReplicationPass, EnableOutPullReplication and
\* DisableOutPullReplication call returns.
CallsReturn == \A c \in Callers : cl[c].pc # "idle" ~> cl[c].pc = "idle"
=============================================================================
