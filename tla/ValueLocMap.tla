---------------------------- MODULE ValueLocMap ----------------------------
(***************************************************************************)
(* The lock-free resizable location index of src/valuelocmap/valuelocmap.go *)
(* (ValueLocMap): a binary tree of valueLocNodes whose leaves own a         *)
(* valuesLocStore (buckets of valueLoc entries, one RWMutex per lock index, *)
(* an atomic used counter).  Get and Set walk the tree with atomic pointer  *)
(* loads and re-check the node's a, b, d and e pointers after touching a    *)
(* store; split runs as a background goroutine that copies the right half  *)
(* of a into a new store b in passes and then publishes children d and c.   *)
(*                                                                         *)
(* Each atomic pointer load is one step.  Each critical section under the  *)
(* bucket locks (Set's and Get's closure f, one bucket of one split pass,   *)
(* the clearing of a retried write) is one step: every access to a bucket  *)
(* chain happens under its lock, and the used counters are atomics.        *)
(* A store is abstracted to a function from key to its entry: the bucket   *)
(* chain holds at most one live entry per key, and a free slot (blockID 0) *)
(* is Free.  A Set's blockID is the number of the call, so an entry names   *)
(* the call that wrote it.                                                 *)
(***************************************************************************)
EXTENDS Integers, FiniteSets

CONSTANTS
  KeyBits,      \* width of keyA (64 in the code)
  Keys,         \* the <<keyA, keyB>> pairs the callers use
  BucketCount,  \* len(store.buckets); keyB % BucketCount picks the bucket
  SplitCount,   \* vlm.splitCount = int(bucketCount * splitMultiplier)
  Timestamps,   \* timestamps the callers pass to Set (all > 0)
  Setters,      \* goroutines calling Set
  Getters,      \* goroutines calling Get
  MaxNodes,     \* bound: valueLocNodes that may exist (root included)
  MaxStores,    \* bound: valuesLocStores that may exist
  MaxSets,      \* bound: Set calls in a behaviour
  MaxGets       \* bound: Get calls in a behaviour

ASSUME KeyBits \in Nat \ {0} /\ BucketCount \in Nat \ {0}
ASSUME Keys \subseteq (0..(2^KeyBits - 1)) \X Nat
ASSUME Timestamps \subseteq Nat \ {0}

VARIABLES
  nodes,       \* node id -> valueLocNode fields
  nodeCount,   \* nodes allocated so far (ids 1..nodeCount)
  stores,      \* store id -> [ent: key -> entry, used: the atomic counter]
  storeCount,  \* stores allocated so far
  setp,        \* Set goroutine -> its locals and program counter
  getp,        \* Get goroutine -> its locals and program counter
  splitp,      \* node id -> state of the split goroutine running on it
  pendSplit,   \* nodes with a `go vln.split()` not yet run
  pendUnsplit, \* nodes with a `go vlmPrev.unsplit()` not yet run
  nsets, ngets,\* calls started so far
  completed,   \* history: key -> highest timestamp of a returned, won Set
  seen         \* history: key -> highest timestamp returned by a Get

vars == <<nodes, nodeCount, stores, storeCount, setp, getp, splitp,
          pendSplit, pendUnsplit, nsets, ngets, completed, seen>>

Nil == 0
Root == 1
NodeIds == 1..MaxNodes
StoreIds == 1..MaxStores
Free == [ts |-> 0, blk |-> 0]
KeyA(k) == k[1]
KeyB(k) == k[2]
Bucket(k) == KeyB(k) % BucketCount

\* keyA & vln.leftMask != 0, for the power-of-two (or zero) leftMask
IsRight(k, n) ==
  nodes[n].leftMask > 0 /\ (KeyA(k) \div nodes[n].leftMask) % 2 = 1

Live(s, k) == stores[s].ent[k].blk # 0

EmptyStore == [ent |-> [k \in Keys |-> Free], used |-> 0]

NewNode(mask, start, stop, a) ==
  [leftMask |-> mask, rangeStart |-> start, rangeStop |-> stop,
   a |-> a, b |-> Nil, c |-> Nil, d |-> Nil, e |-> Nil, resizing |-> FALSE]

SetIdle == [pc |-> "idle", k |-> CHOOSE k \in Keys : TRUE, ts |-> 0, blk |-> 0,
            even |-> FALSE, vln |-> Nil, prev |-> Nil, a |-> Nil, s |-> Nil,
            fb |-> Nil, old |-> 0, oc |-> FALSE, oo |-> 0]
GetIdle == [pc |-> "idle", k |-> CHOOSE k \in Keys : TRUE, vln |-> Nil,
            a |-> Nil, s |-> Nil, fb |-> Nil, ts |-> 0, blk |-> 0,
            floor |-> 0, mono |-> 0]
SplitIdle == [phase |-> "idle", a |-> Nil, b |-> Nil, bix |-> 0,
              passes |-> 0, copies |-> 0, clears |-> 0]

\* NewValueLocMap: a root leaf covering the whole key space, with store a
Init ==
  /\ nodes = [n \in NodeIds |->
               IF n = Root THEN NewNode(2^(KeyBits - 1), 0, 2^KeyBits - 1, 1)
                           ELSE NewNode(0, 0, 0, Nil)]
  /\ nodeCount = 1
  /\ stores = [s \in StoreIds |-> EmptyStore]
  /\ storeCount = 1
  /\ setp = [p \in Setters |-> SetIdle]
  /\ getp = [p \in Getters |-> GetIdle]
  /\ splitp = [n \in NodeIds |-> SplitIdle]
  /\ pendSplit = {}
  /\ pendUnsplit = {}
  /\ nsets = 0 /\ ngets = 0
  /\ completed = [k \in Keys |-> 0]
  /\ seen = [k \in Keys |-> 0]

(***************************************************************************)
(* Shared by Get and Set: the VLN_SELECTION loop and the load of a.        *)
(***************************************************************************)
\* One iteration of the traversal: load c; nil means vln is a leaf.
\* Set also records vlmPrev; Get has no such local.
Descend(r, track) ==
  LET n == nodes[r.vln] IN
  IF n.c = Nil THEN [r EXCEPT !.pc = "loadA"]
  ELSE IF ~IsRight(r.k, r.vln)
       THEN IF track THEN [r EXCEPT !.vln = n.c, !.prev = r.vln]
                     ELSE [r EXCEPT !.vln = n.c]
       ELSE IF track THEN [r EXCEPT !.pc = "loadD", !.prev = r.vln]
                     ELSE [r EXCEPT !.pc = "loadD"]

\* Mutant of LoadD: the load of d is lost and the loop re-reads the same node.
LoadDStuck(r) == [r EXCEPT !.pc = "trav"]

\* vln = atomic.LoadPointer(&vln.d)
LoadD(r) == [r EXCEPT !.vln = nodes[r.vln].d, !.pc = "trav"]

(***************************************************************************)
(* Set's closure f(s, fb) under the write locks of s and fb: the entry it  *)
(* compares against is the newer of s's and fb's, any fb match is moved   *)
(* into s (fb.used--), and a key new to s takes a slot (s.used++).         *)
(***************************************************************************)
Wins(r, t) == r.ts > t \/ (r.even /\ r.ts = t)

Current(s, fb, k) ==
  LET sE == stores[s].ent[k]
      fE == IF fb = Nil THEN Free ELSE stores[fb].ent[k]
  IN  IF sE.blk # 0 /\ (fE.blk = 0 \/ sE.ts >= fE.ts) THEN sE
      ELSE IF fE.blk # 0 THEN fE ELSE Free

\* Mutant of SetF: fb.used is decremented whenever fb is given, match or not.
SetFAlwaysDecFb(r) ==
  LET cur == Current(r.s, r.fb, r.k)
      sm  == Live(r.s, r.k)
      new == IF Wins(r, cur.ts) THEN [ts |-> r.ts, blk |-> r.blk] ELSE cur
      st1 == [stores EXCEPT ![r.s] = [ent  |-> [@.ent EXCEPT ![r.k] = new],
                                      used |-> @.used + (IF sm THEN 0 ELSE 1)]]
  IN  IF r.fb # Nil
      THEN [st1 EXCEPT ![r.fb] = [ent  |-> [@.ent EXCEPT ![r.k] = Free],
                                   used |-> @.used - 1]]
      ELSE st1

\* Mutant of SetF: moving fb's match into s forgets atomic.AddInt32(&fb.used, -1).
SetFKeepFbUsed(r) ==
  LET cur == Current(r.s, r.fb, r.k)
      sm  == Live(r.s, r.k)
      new == IF Wins(r, cur.ts) THEN [ts |-> r.ts, blk |-> r.blk] ELSE cur
      st1 == [stores EXCEPT ![r.s] = [ent  |-> [@.ent EXCEPT ![r.k] = new],
                                      used |-> @.used + (IF sm THEN 0 ELSE 1)]]
  IN  IF r.fb # Nil /\ Live(r.fb, r.k)
      THEN [st1 EXCEPT ![r.fb].ent[r.k] = Free] ELSE st1

SetF(r) ==
  LET cur == Current(r.s, r.fb, r.k)
      sm  == Live(r.s, r.k)
      fm  == r.fb # Nil /\ Live(r.fb, r.k)
      new == IF Wins(r, cur.ts) THEN [ts |-> r.ts, blk |-> r.blk] ELSE cur
      st1 == [stores EXCEPT ![r.s] = [ent  |-> [@.ent EXCEPT ![r.k] = new],
                                      used |-> @.used + (IF sm THEN 0 ELSE 1)]]
  IN  IF fm THEN [st1 EXCEPT ![r.fb] = [ent  |-> [@.ent EXCEPT ![r.k] = Free],
                                         used |-> @.used - 1]]
            ELSE st1

\* The lock-protected loop that clears our own entry from a before a retry:
\* only an item with our timestamp and location is freed; used is untouched.
ClearOwn(r) ==
  IF stores[r.a].ent[r.k] = [ts |-> r.ts, blk |-> r.blk]
  THEN [stores EXCEPT ![r.a].ent[r.k] = Free]
  ELSE stores

\* The value Set returns: the original oldTimestamp if a retry saw a later one
SetResult(r, old) == IF r.oc /\ r.oo < old THEN r.oo ELSE old

(***************************************************************************)
(* Set(keyA, keyB, timestamp, blockID, offset, length, evenIfSameTimestamp) *)
(***************************************************************************)
SetCall(p) ==
  /\ setp[p].pc = "idle"
  /\ nsets < MaxSets
  /\ \E k \in Keys, ts \in Timestamps, even \in BOOLEAN :
       setp' = [setp EXCEPT ![p] = [SetIdle EXCEPT !.pc = "trav", !.k = k,
                  !.ts = ts, !.blk = nsets + 1, !.even = even, !.vln = Root]]
  /\ nsets' = nsets + 1
  /\ UNCHANGED <<nodes, nodeCount, stores, storeCount, getp, splitp, pendSplit,
                 pendUnsplit, ngets, completed, seen>>

\* The return statement: completed records a Set that reports it won.
SetReturn(p, r, old) ==
  LET res == SetResult(r, old) IN
  /\ setp' = [setp EXCEPT ![p] = SetIdle]
  /\ completed' = IF Wins(r, res) /\ r.ts > completed[r.k]
                  THEN [completed EXCEPT ![r.k] = r.ts] ELSE completed

\* Tree traversal, the load of d, and the load of a (with the side choice)
SetTraverse(p) ==
  LET r == setp[p] IN
  /\ r.pc \in {"trav", "loadD", "loadA"}
  /\ setp' = [setp EXCEPT ![p] =
       CASE r.pc = "trav"  -> Descend(r, TRUE)
         [] r.pc = "loadD" -> LoadD(r)
         [] r.pc = "loadA" ->
              LET a == nodes[r.vln].a IN
              IF IsRight(r.k, r.vln)
              THEN [r EXCEPT !.a = a, !.pc = "loadB"]
              ELSE [r EXCEPT !.a = a, !.s = a, !.fb = Nil, !.pc = "fL"]]
  /\ UNCHANGED <<nodes, nodeCount, stores, storeCount, getp, splitp, pendSplit,
                 pendUnsplit, nsets, ngets, completed, seen>>

\* Right side, before writing: b set means a split is in progress: f(b, a);
\* otherwise f(a, e) with e loaded next.
SetLoadBE(p) ==
  LET r == setp[p] IN
  /\ r.pc \in {"loadB", "loadE"}
  /\ setp' = [setp EXCEPT ![p] =
       IF r.pc = "loadB"
       THEN IF nodes[r.vln].b # Nil
            THEN [r EXCEPT !.s = nodes[r.vln].b, !.fb = r.a, !.pc = "fBA"]
            ELSE [r EXCEPT !.pc = "loadE"]
       ELSE [r EXCEPT !.s = r.a, !.fb = nodes[r.vln].e, !.pc = "fAE"]]
  /\ UNCHANGED <<nodes, nodeCount, stores, storeCount, getp, splitp, pendSplit,
                 pendUnsplit, nsets, ngets, completed, seen>>

\* f(s, fb) and what follows it: f(b, a) returns; a won f(a, nil) or f(a, e)
\* goes on to re-load a; a superseded one returns.
SetWrite(p) ==
  LET r == setp[p]
      old == Current(r.s, r.fb, r.k).ts
  IN
  /\ r.pc \in {"fL", "fAE", "fBA"}
  /\ stores' = SetF(r)
  /\ IF r.pc # "fBA" /\ Wins(r, old)
     THEN /\ setp' = [setp EXCEPT ![p].old = old,
                        ![p].pc = IF r.pc = "fL" THEN "lReA" ELSE "rReA"]
          /\ UNCHANGED completed
     ELSE SetReturn(p, r, old)
  /\ UNCHANGED <<nodes, nodeCount, storeCount, getp, splitp, pendSplit,
                 pendUnsplit, nsets, ngets, seen>>

\* After a won write into a: re-load a, then b, d and e.  On the left side
\* any b or e ends the call; on the right side b means f(b, a) again.  A nil
\* a (an unsplit ran) or, with b nil, a set d (a split finished) means: clear
\* our write from a under its lock and jump back to VLN_SELECTION, at the root
\* or at d.  The lock section is folded into the load that leads to it: the
\* model shows neither case can occur (split never resets b and unsplit never
\* passes its checks), so the finer interleaving is never exercised.
SetRecheck(p) ==
  LET r == setp[p]
      n == nodes[r.vln]
      retry(to) == /\ stores' = ClearOwn(r)
                   /\ setp' = [setp EXCEPT ![p] =
                        [r EXCEPT !.oc = TRUE, !.oo = IF r.oc THEN r.oo ELSE r.old,
                                  !.vln = to, !.pc = "trav"]]
                   /\ UNCHANGED completed
      goto(pc) == setp' = [setp EXCEPT ![p].pc = pc] /\ UNCHANGED <<stores, completed>>
  IN
  /\ r.pc \in {"lReA", "lLoadB", "lLoadE", "rReA", "rLoadB", "rLoadD", "rLoadE"}
  /\ CASE r.pc \in {"lReA", "rReA"} /\ n.a = Nil -> retry(Root)
       [] r.pc = "lReA" -> goto("lLoadB")
       [] r.pc = "rReA" -> goto("rLoadB")
       [] r.pc = "rLoadB" /\ n.b # Nil ->
            /\ setp' = [setp EXCEPT ![p] =
                 [r EXCEPT !.oc = TRUE, !.oo = IF r.oc THEN r.oo ELSE r.old,
                           !.s = n.b, !.fb = r.a, !.pc = "fBA"]]
            /\ UNCHANGED <<stores, completed>>
       [] r.pc = "rLoadB" -> goto("rLoadD")
       [] r.pc = "rLoadD" /\ n.d # Nil -> retry(n.d)
       [] r.pc = "rLoadD" -> goto("rLoadE")
       [] (r.pc = "lLoadB" /\ n.b # Nil) \/ (r.pc \in {"lLoadE", "rLoadE"} /\ n.e # Nil) ->
            SetReturn(p, r, r.old) /\ UNCHANGED stores
       [] r.pc = "lLoadB" -> goto("lLoadE")
       [] OTHER -> goto("used")
  /\ UNCHANGED <<nodes, nodeCount, storeCount, getp, splitp, pendSplit,
                 pendUnsplit, nsets, ngets, seen>>

\* With no b and no e: used > splitCount requests a split of vln, used == 0
\* requests an unsplit of the parent; then the call returns.
SetCheckUsed(p) ==
  LET r == setp[p]
      used == stores[r.a].used
  IN
  /\ r.pc = "used"
  /\ pendSplit' = IF used > SplitCount THEN pendSplit \cup {r.vln} ELSE pendSplit
  /\ pendUnsplit' = IF used <= SplitCount /\ used = 0 /\ r.prev # Nil
                    THEN pendUnsplit \cup {r.prev} ELSE pendUnsplit
  /\ SetReturn(p, r, r.old)
  /\ UNCHANGED <<nodes, nodeCount, stores, storeCount, getp, splitp,
                 nsets, ngets, seen>>

(***************************************************************************)
(* Get(keyA, keyB)                                                         *)
(***************************************************************************)
\* Get's closure f(s, fb) under the read locks: blockID is reset, the entry
\* of s is taken, else the one of fb; timestamp keeps its last value on a miss.
\* Mutant of GetF: the fallback store fb is never read.
GetFNoFallback(r) ==
  IF Live(r.s, r.k) THEN [r EXCEPT !.ts = stores[r.s].ent[r.k].ts,
                                   !.blk = stores[r.s].ent[r.k].blk]
  ELSE [r EXCEPT !.blk = 0]

GetF(r) ==
  LET e == IF Live(r.s, r.k) THEN stores[r.s].ent[r.k]
           ELSE IF r.fb # Nil /\ Live(r.fb, r.k) THEN stores[r.fb].ent[r.k]
           ELSE [ts |-> r.ts, blk |-> 0]
  IN  [r EXCEPT !.ts = e.ts, !.blk = e.blk]

\* A call records the highest completed Set and Get of its key so far.
GetCall(p) ==
  /\ getp[p].pc = "idle"
  /\ ngets < MaxGets
  /\ \E k \in Keys :
       getp' = [getp EXCEPT ![p] = [GetIdle EXCEPT !.pc = "trav", !.k = k,
                  !.vln = Root, !.floor = completed[k], !.mono = seen[k]]]
  /\ ngets' = ngets + 1
  /\ UNCHANGED <<nodes, nodeCount, stores, storeCount, setp, splitp, pendSplit,
                 pendUnsplit, nsets, completed, seen>>

GetReturn(p, r) ==
  /\ getp' = [getp EXCEPT ![p] = [r EXCEPT !.pc = "idle"]]
  /\ seen' = IF r.blk # 0 /\ r.ts > seen[r.k]
             THEN [seen EXCEPT ![r.k] = r.ts] ELSE seen

GetTraverse(p) ==
  LET r == getp[p] IN
  /\ r.pc \in {"trav", "loadD", "loadA", "gLoadB", "gLoadE"}
  /\ getp' = [getp EXCEPT ![p] =
       CASE r.pc = "trav"  -> Descend(r, FALSE)
         [] r.pc = "loadD" -> LoadD(r)
         [] r.pc = "loadA" ->
              LET a == nodes[r.vln].a IN
              IF IsRight(r.k, r.vln)
              THEN [r EXCEPT !.a = a, !.pc = "gLoadB"]
              ELSE [r EXCEPT !.a = a, !.s = a, !.fb = Nil, !.pc = "gfL"]
         [] r.pc = "gLoadB" ->
              IF nodes[r.vln].b # Nil
              THEN [r EXCEPT !.s = nodes[r.vln].b, !.fb = r.a, !.pc = "gfBA"]
              ELSE [r EXCEPT !.pc = "gLoadE"]
         [] r.pc = "gLoadE" ->
              [r EXCEPT !.s = r.a, !.fb = nodes[r.vln].e, !.pc = "gfAE"]]
  /\ UNCHANGED <<nodes, nodeCount, stores, storeCount, setp, splitp, pendSplit,
                 pendUnsplit, nsets, ngets, completed, seen>>

\* f(s, fb); f(b, a) ends the call, the others re-load a next.
GetRead(p) ==
  LET r == getp[p]
      r1 == GetF(r)
  IN
  /\ r.pc \in {"gfL", "gfAE", "gfBA"}
  /\ IF r.pc = "gfBA"
     THEN GetReturn(p, r1)
     ELSE /\ getp' = [getp EXCEPT ![p] =
                        [r1 EXCEPT !.pc = IF r.pc = "gfL" THEN "gReAL" ELSE "gReAR"]]
          /\ UNCHANGED seen
  /\ UNCHANGED <<nodes, nodeCount, stores, storeCount, setp, splitp, pendSplit,
                 pendUnsplit, nsets, ngets, completed>>

\* The re-checks after a read: a nil retries from the root; on the right
\* side b set means re-read f(b, a), and d set means retry from d.
GetRecheck(p) ==
  LET r == getp[p]
      n == nodes[r.vln]
  IN
  /\ r.pc \in {"gReAL", "gReAR", "gLoadB2", "gLoadD"}
  /\ CASE n.a = Nil /\ r.pc \in {"gReAL", "gReAR"} ->
            getp' = [getp EXCEPT ![p].vln = Root, ![p].pc = "trav"] /\ UNCHANGED seen
       [] r.pc = "gReAR" ->
            getp' = [getp EXCEPT ![p].pc = "gLoadB2"] /\ UNCHANGED seen
       [] r.pc = "gLoadB2" /\ n.b # Nil ->
            getp' = [getp EXCEPT ![p] = [r EXCEPT !.s = n.b, !.fb = r.a, !.pc = "gfBA"]]
            /\ UNCHANGED seen
       [] r.pc = "gLoadB2" ->
            getp' = [getp EXCEPT ![p].pc = "gLoadD"] /\ UNCHANGED seen
       [] r.pc = "gLoadD" /\ n.d # Nil ->
            getp' = [getp EXCEPT ![p].vln = n.d, ![p].pc = "trav"] /\ UNCHANGED seen
       [] OTHER -> GetReturn(p, r)
  /\ UNCHANGED <<nodes, nodeCount, stores, storeCount, setp, splitp, pendSplit,
                 pendUnsplit, nsets, ngets, completed>>

(***************************************************************************)
(* split: the goroutine started by `go vln.split(cores)`, with cores = 1,  *)
(* so the buckets of a pass are visited from the last to the first.        *)
(***************************************************************************)
\* valueLocNode.splitCount is never assigned, so it is always 0.
NodeSplitCount == 0

SplitRefused(n) ==
  \/ nodes[n].resizing
  \/ nodes[n].c # Nil
  \/ stores[nodes[n].a].used < NodeSplitCount

\* The goroutine returns without doing anything.
SplitRefuse(n) ==
  /\ n \in pendSplit
  /\ SplitRefused(n)
  /\ pendSplit' = pendSplit \ {n}
  /\ UNCHANGED <<nodes, nodeCount, stores, storeCount, setp, getp, splitp,
                 pendUnsplit, nsets, ngets, completed, seen>>

\* resizing = true, then a new empty store b is published as vln.b.
SplitBegin(n) ==
  /\ n \in pendSplit
  /\ ~SplitRefused(n)
  /\ storeCount < MaxStores /\ nodeCount + 2 <= MaxNodes
  /\ pendSplit' = pendSplit \ {n}
  /\ storeCount' = storeCount + 1
  /\ nodes' = [nodes EXCEPT ![n].resizing = TRUE, ![n].b = storeCount + 1]
  /\ splitp' = [splitp EXCEPT ![n] = [SplitIdle EXCEPT !.phase = "copy",
                  !.a = nodes[n].a, !.b = storeCount + 1, !.bix = BucketCount - 1]]
  /\ UNCHANGED <<nodeCount, stores, setp, getp, pendUnsplit, nsets, ngets, completed, seen>>

\* The items of a's bucket bix that the split moves: live, on the right side.
\* Mutant of Movable: the itemA.keyA & vln.leftMask == 0 skip is dropped.
MovableAnySide(n, A, bix) == {k \in Keys : Bucket(k) = bix /\ A[k].blk # 0}

Movable(n, A, bix) ==
  {k \in Keys : Bucket(k) = bix /\ A[k].blk # 0 /\ IsRight(k, n)}

\* A clearing pass frees the moved items of a: itemA.blockID = 0.
ClearedA(A, Mv) == [k \in Keys |-> IF k \in Mv THEN Free ELSE A[k]]

\* Mutant of Copied: an entry is copied over an equally new one in b.
CopiedEqual(Mv, A, B) == {k \in Mv : B[k].blk = 0 \/ A[k].ts >= B[k].ts}

\* Mutant of Copied: only items that b lacks are copied; a newer item of a
\* over an older one already in b is left behind (and cleared).
CopiedNewOnly(Mv, A, B) == {k \in Mv : B[k].blk = 0}

\* The moved items copied into b (each counted in copies): those b lacks and
\* those newer than b's (itemA.timestamp > itemB.timestamp).
Copied(Mv, A, B) == {k \in Mv : B[k].blk = 0 \/ A[k].ts > B[k].ts}

\* One bucket of a pass of f(coreOffset, clear), under the locks of b and a:
\* every live right-side entry of a is copied into b unless b holds one at
\* least as new; a clearing pass then frees it in a.  After the last bucket,
\* the pass loops decide between another pass, the clearing passes and the
\* publication of the children.
SplitBucket(n) ==
  LET r  == splitp[n]
      cl == r.phase = "clear"
      A  == stores[r.a].ent
      B  == stores[r.b].ent
      Mv == Movable(n, A, r.bix)
      Nw == {k \in Mv : B[k].blk = 0}
      Cp == Copied(Mv, A, B)
      copies == r.copies + Cardinality(Cp)
      clears == r.clears + (IF cl THEN Cardinality(Mv) ELSE 0)
      \* the loops only ask whether passes < 2, so the count stops at 2
      passes == IF r.passes >= 1 THEN 2 ELSE r.passes + 1
      again  == passes < 2 \/ copies > 0 \/ (cl /\ clears > 0)
  IN
  /\ r.phase \in {"copy", "clear"}
  /\ stores' = [stores EXCEPT
       ![r.b] = [ent  |-> [k \in Keys |-> IF k \in Cp THEN A[k] ELSE B[k]],
                 used |-> @.used + Cardinality(Nw)],
       ![r.a] = IF cl THEN [ent  |-> ClearedA(A, Mv),
                            used |-> @.used - Cardinality(Mv)]
                      ELSE @]
  /\ splitp' = [splitp EXCEPT ![n] =
       IF r.bix > 0 THEN [r EXCEPT !.bix = r.bix - 1, !.copies = copies, !.clears = clears]
       ELSE IF again THEN [r EXCEPT !.bix = BucketCount - 1, !.passes = passes,
                                    !.copies = 0, !.clears = 0]
       ELSE IF ~cl THEN [r EXCEPT !.phase = "clear", !.bix = BucketCount - 1,
                                  !.passes = 0, !.copies = 0, !.clears = 0]
       ELSE [r EXCEPT !.phase = "pubD"]]
  /\ UNCHANGED <<nodes, nodeCount, storeCount, setp, getp, pendSplit,
                 pendUnsplit, nsets, ngets, completed, seen>>

\* Mutant of SplitPubD: the left child is published as c first (the two
\* StorePointer calls swapped).
SplitPubDSwapped(n) ==
  LET r == splitp[n]
      v == nodes[n]
  IN
  /\ r.phase = "pubD"
  /\ nodeCount' = nodeCount + 1
  /\ nodes' = [nodes EXCEPT ![nodeCount + 1] =
                 NewNode(v.leftMask \div 2, v.rangeStart, v.rangeStop - v.leftMask, r.a),
                            ![n].c = nodeCount + 1]
  /\ splitp' = [splitp EXCEPT ![n].phase = "pubC"]
  /\ UNCHANGED <<stores, storeCount, setp, getp, pendSplit, pendUnsplit,
                 nsets, ngets, completed, seen>>

\* vln.d = a new node for the right half, whose store is b
SplitPubD(n) ==
  LET r == splitp[n]
      v == nodes[n]
  IN
  /\ r.phase = "pubD"
  /\ nodeCount' = nodeCount + 1
  /\ nodes' = [nodes EXCEPT ![nodeCount + 1] =
                 NewNode(v.leftMask \div 2, v.rangeStart + v.leftMask, v.rangeStop, r.b),
                            ![n].d = nodeCount + 1]
  /\ splitp' = [splitp EXCEPT ![n].phase = "pubC"]
  /\ UNCHANGED <<stores, storeCount, setp, getp, pendSplit, pendUnsplit,
                 nsets, ngets, completed, seen>>

\* vln.c = a new node for the left half, whose store is a; resizing = false.
\* Neither vln.a nor vln.b is cleared.
SplitPubC(n) ==
  LET r == splitp[n]
      v == nodes[n]
  IN
  /\ r.phase = "pubC"
  /\ nodeCount' = nodeCount + 1
  /\ nodes' = [nodes EXCEPT ![nodeCount + 1] =
                 NewNode(v.leftMask \div 2, v.rangeStart, v.rangeStop - v.leftMask, r.a),
                            ![n].c = nodeCount + 1, ![n].resizing = FALSE]
  /\ splitp' = [splitp EXCEPT ![n] = SplitIdle]
  /\ UNCHANGED <<stores, storeCount, setp, getp, pendSplit, pendUnsplit,
                 nsets, ngets, completed, seen>>

(***************************************************************************)
(* unsplit: the goroutine's refusal checks, under the resizingLocks of     *)
(* vln, c and d.  What it does past them is not modelled: UnsplitProceeds  *)
(* below is an invariant stating that no reachable state lets it pass.     *)
(***************************************************************************)
\* Mutant of UnsplitRefused: d.resizing is not checked.
UnsplitRefusedNoDResizing(n) ==
  LET c == nodes[n].c
      d == nodes[n].d
  IN  \/ nodes[n].resizing \/ c = Nil
      \/ nodes[c].resizing \/ nodes[c].c # Nil
      \/ nodes[d].c # Nil

UnsplitRefused(n) ==
  LET c == nodes[n].c
      d == nodes[n].d
  IN  \/ nodes[n].resizing \/ c = Nil
      \/ nodes[c].resizing \/ nodes[c].c # Nil
      \/ nodes[d].resizing \/ nodes[d].c # Nil

UnsplitRun(n) ==
  /\ n \in pendUnsplit
  /\ UnsplitRefused(n)
  /\ pendUnsplit' = pendUnsplit \ {n}
  /\ UNCHANGED <<nodes, nodeCount, stores, storeCount, setp, getp, splitp,
                 pendSplit, nsets, ngets, completed, seen>>

(***************************************************************************)
(* The specification                                                       *)
(***************************************************************************)
SetStep(p) == SetTraverse(p) \/ SetLoadBE(p) \/ SetWrite(p) \/ SetRecheck(p)
              \/ SetCheckUsed(p)
GetStep(p) == GetTraverse(p) \/ GetRead(p) \/ GetRecheck(p)
SplitStep(n) == SplitRefuse(n) \/ SplitBegin(n) \/ SplitBucket(n)
                \/ SplitPubD(n) \/ SplitPubC(n)

Next ==
  \/ \E p \in Setters : SetCall(p) \/ SetStep(p)
  \/ \E p \in Getters : GetCall(p) \/ GetStep(p)
  \/ \E n \in NodeIds : SplitStep(n) \/ UnsplitRun(n)

\* Goroutines that can run eventually do (Go's preemptive scheduler); calls
\* are made or not at the callers' will, so SetCall and GetCall are unfair.
Fairness ==
  /\ \A p \in Setters : WF_vars(SetStep(p))
  /\ \A p \in Getters : WF_vars(GetStep(p))
  /\ \A n \in NodeIds : WF_vars(SplitStep(n)) /\ WF_vars(UnsplitRun(n))

Spec == Init /\ [][Next]_vars /\ Fairness

(***************************************************************************)
(* Properties                                                              *)
(***************************************************************************)
Entry == [ts: {0} \cup Timestamps, blk: 0..MaxSets]

TypeOK ==
  /\ nodeCount \in 1..MaxNodes /\ storeCount \in 1..MaxStores
  /\ \A n \in NodeIds : nodes[n].a \in 0..MaxStores /\ nodes[n].b \in 0..MaxStores
                        /\ nodes[n].c \in 0..MaxNodes /\ nodes[n].d \in 0..MaxNodes
  /\ \A s \in StoreIds : /\ stores[s].ent \in [Keys -> Entry]
                        /\ stores[s].used \in 0..Cardinality(Keys)
  /\ \A p \in Setters : setp[p].vln \in 0..MaxNodes
  /\ \A p \in Getters : getp[p].vln \in 0..MaxNodes
  /\ pendSplit \subseteq NodeIds /\ pendUnsplit \subseteq NodeIds
  /\ nsets \in 0..MaxSets /\ ngets \in 0..MaxGets

\* A goroutine in the middle of Get or Set never follows a nil node pointer
\* and, once it has loaded a, holds a non-nil store (a nil one would panic
\* at len(a.buckets)): split publishes d before c.
NeverNilNode ==
  /\ \A p \in Setters : setp[p].pc # "idle" =>
        setp[p].vln \in NodeIds /\ (setp[p].pc \notin {"trav", "loadD", "loadA"} => setp[p].a # Nil)
  /\ \A p \in Getters : getp[p].pc # "idle" =>
        getp[p].vln \in NodeIds /\ (getp[p].pc \notin {"trav", "loadD", "loadA"} => getp[p].a # Nil)

\* A store's atomic used counter equals the number of live entries in it:
\* every slot that Set, split or a retried Set frees or takes moves it.
UsedCountsLive ==
  \A s \in 1..storeCount :
    stores[s].used = Cardinality({k \in Keys : Live(s, k)})

\* A Get that starts after a Set of its key returned reporting that it won
\* finds the key, with that Set's timestamp or a later one.
ReadSeesCompletedWrites ==
  \A p \in Getters :
    getp[p].pc = "idle" /\ getp[p].floor > 0 =>
      getp[p].blk # 0 /\ getp[p].ts >= getp[p].floor

\* A Get that starts after another Get of the same key returned a timestamp
\* finds the key with that timestamp or a later one (reads never go back).
MonotonicReads ==
  \A p \in Getters :
    getp[p].pc = "idle" /\ getp[p].mono > 0 =>
      getp[p].blk # 0 /\ getp[p].ts >= getp[p].mono

\* Whenever an unsplit goroutine is pending, one of its refusal checks holds:
\* the trigger in Set (a leaf's used == 0 right after a write into it) can
\* never let an unsplit of the parent go ahead.
UnsplitNeverProceeds == \A n \in pendUnsplit : UnsplitRefused(n)

\* The leaf a key's traversal reaches from node n.
RECURSIVE LeafOf(_, _)
LeafOf(k, n) ==
  IF nodes[n].c = Nil THEN n
  ELSE IF IsRight(k, n) THEN LeafOf(k, nodes[n].d) ELSE LeafOf(k, nodes[n].c)

\* No Set in progress and no split running.
Quiescent ==
  /\ \A p \in Setters : setp[p].pc = "idle"
  /\ \A n \in NodeIds : ~nodes[n].resizing

\* Once every Set has returned and no split runs, each live entry sits in the
\* store of the leaf its key's traversal reaches: Set's re-writes through
\* f(b, a) and split's copy and clear passes leave nothing out of place
\* (the background repair of misplaced entries is not implemented).
InPlaceWhenQuiescent ==
  Quiescent =>
    \A s \in 1..storeCount, k \in Keys :
      Live(s, k) => s = nodes[LeafOf(k, Root)].a

\* Every live entry sits in the store of its key's leaf.
InPlace ==
  \A s \in 1..storeCount, k \in Keys :
    Live(s, k) => s = nodes[LeafOf(k, Root)].a

\* The refinement mapping to LocMap: the index's timestamp of a key is the
\* newest live entry for it in any store, and a Setter is in a Set from
\* its call to its return.
Newest(k) ==
  LET S == {stores[s].ent[k].ts : s \in {s \in 1..storeCount : Live(s, k)}}
  IN  CHOOSE t \in S \cup {0} : \A u \in S : u <= t

SetCalls == [p \in Setters |-> IF setp[p].pc = "idle"
                                THEN [k |-> CHOOSE k \in Keys : TRUE, ts |-> 0]
                                ELSE [k |-> setp[p].k, ts |-> setp[p].ts]]

LM == INSTANCE LocMap WITH Callers <- Setters,
                           index <- [k \in Keys |-> Newest(k)], call <- SetCalls

\* The tree implements the index's contract (spec 3.1): through every split
\* pass, every fallback write f(b, a) and every move of fb's match into s,
\* the newest timestamp held for a key never drops, and it only rises to
\* the timestamp of a Set that is in progress, while that Set is running.
LocMapRefined == LM!Spec

\* Every Set call returns.
SetsReturn == \A p \in Setters : setp[p].pc # "idle" ~> setp[p].pc = "idle"

\* Every split that starts publishes its children and ends.
SplitsFinish == \A n \in NodeIds : nodes[n].resizing ~> ~nodes[n].resizing
=============================================================================
