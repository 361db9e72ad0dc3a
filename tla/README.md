# TLA+ models of valuestore

This directory holds TLA+ models of the concurrent parts of valuestore and the
TLC configurations that check them. `PROJECT.json` is the machine-readable
index of the project. It lists:

- the components;
- the runs;
- the mutants;
- the source lines each definition models (`map`);
- the findings;
- the hazards.

## The system

A `DefaultValueStore` (`src/valuestore_GEN_.go`) keeps the newest value of each
128-bit key. The pieces fit together like this:

- Calls to `write` (Write and Delete) go to one of `workers` `memWriter`
  goroutines, chosen by `keyA`. Each `memWriter` fills `memBlock`s and records
  each value's location in the **location index**, a `ValueLocMap`
  (`src/valuelocmap/valuelocmap.go`).
- Full `memBlock`s go to the `fileWriter`. It appends them to the current
  **value file**. The file's write side lives in `src/unnamed/part_002`:
  - `write` cuts the data into checksum-interval buffers;
  - `workers` checksummer goroutines checksum them;
  - the `writer` goroutine puts them on disk in order.
- Once a block is on disk, it is handed to a `memClearer`. The `memClearer`:
  1. re-points the index at the file;
  2. sends TOC entries to the `tocWriter`, which writes them to the file's
     `.valuetoc`;
  3. frees the `memBlock`.
- `Flush` pushes a token through every `memWriter`, the `fileWriter` and the
  `tocWriter`. `Flush` returns when the `tocWriter` signals `flushedChan`.
- At start-up, recovery replays the TOC files into the index.
- Pull replication (`src/grouppullreplication_GEN_.go`) works like this:
  1. Each pass scans the partitions this node is responsible for.
  2. For each range, it sends a bloom-filter summary of its index to a
     peer.
  3. The peer answers with a bulk-set of the entries the summary lacks.

Four of the modules below each model one of these parts. `LocMap` and
`DurableIndex` state what the index and the store promise. Where one part uses
another, it uses it through that part's contract:

- `ValueStore` treats the index as an atomic map. `ValueLocMap` checks the
  index on its own.
- `ValueStore` treats the value file as a writer that hands a `memBlock` back
  once it is on disk. `ValueFile` checks whether it does.

## Modules

### `ValueLocMap`: the location index

`ValueLocMap` is a lock-free binary tree of `valueLocNode`s. Each node has the
pointer slots `a` to `e`. A leaf keeps its entries in store `a`, a hash table
with bucket locks.

When `used` exceeds `splitCount`, `Set` starts `go vln.split()`. The split:

1. publishes a store `b` for the right half;
2. copies the right-half entries across in repeated passes;
3. publishes the child `d`, then the child `c`.

`Get` and `Set` re-check the slots after each atomic load. This is how they
tolerate a concurrent split.

State:

| Variable | Models |
|---|---|
| `nodes[n]` | A `valueLocNode`: its slots, `leftMask`, `rangeStart`/`rangeStop` and `resizing`. |
| `stores[s]` | A `valuesLocStore`: one bucket item per key, plus its `used` counter. |
| `setp`, `getp` | The locals and program counter of each goroutine calling `Set` or `Get`. |
| `splitp` | The running `split` goroutines, with their `passes`/`copies`/`clears` counters. |
| `pendSplit`, `pendUnsplit` | Goroutines started with `go` that have not yet run. |
| `nsets`, `ngets`, `completed`, `seen` | History variables. |

Each atomic load, or each critical section under the bucket locks, is one
action:

- `SetTraverse` and `GetTraverse`;
- `SetWrite` and `GetRead` (the closures, translated as `SetF` and `GetF`);
- `SetLoadBE`;
- `SetRecheck` and `GetRecheck`;
- `SetCheckUsed`;
- the split steps `SplitRefuse`, `SplitBegin`, `SplitBucket`, `SplitPubD` and
  `SplitPubC`;
- `UnsplitRun`, which covers unsplit's refusal checks.

### `LocMap` and `DurableIndex`: what the index and the store promise

These two modules are abstract specifications. They are not translations of
code.

- **`LocMap`** is the contract of `ValueLocMap.Set`, taken from spec §3.1 and
  §4.1. For each key it holds the newest accepted timestamp. A `Set` offers its
  timestamp once, at an instant between its call and its return, and the
  higher timestamp wins.
- **`DurableIndex`** extends `LocMap` with a `disk` part. `disk` only grows,
  and never past the index. A `Crash` ends every call in progress and leaves
  an index between `disk` and what the index was before the crash, as spec
  §4.2 "Recovery" describes.

Two refinement mappings show that the detailed modules implement these
contracts:

- **`ValueLocMap` to `LocMap`**. The mapping's `index` is, per key, the
  newest live entry in any store (`Newest`). Its `call` is each setter's key
  and timestamp while it is inside `Set` (`SetCalls`). The property holds
  through:
  - every split pass;
  - every fallback write `f(b, a)`.

  So splits never lose or roll back an accepted timestamp. The
  `MonotonicReads` finding is therefore about what `Get` can see during a
  split, not about what the tree holds. The run
  checks this as `LocMapRefined`.
- **`ValueStore` to `DurableIndex`**. The mapping's `index` is `loc`'s
  timestamp. Its `call` is each client's write in progress. Its `disk` is,
  per key, the newest entry of a TOC file that has its `TERM` marker. The run
  checks this as `StoreRefinesDurableIndex`.

### `ValueStore`: the write pipeline, TOC writer and recovery

This module covers these goroutines of the store:

- the callers of `write` (`Call`, `Return`), `Flush` (`FlushCall`,
  `FlushReturn`) and `Enable`/`DisableWrites` (`ToggleCall`,
  `ToggleReturn`);
- each shard's `memWriter` (`MW*` actions) and `memClearer` (`MC*` actions);
- the `fileWriter` (`FW*` actions);
- the `tocWriter` (`TW*` actions).

Every channel is a sequence bounded by its capacity in the code. A blocking
send is a guard that requires room in the channel.

The index appears in this module only as `loc`, a map from key to timestamp
and location. `LocSet` translates `Set` with its `evenIfSameTimestamp`
argument. The index treats an item whose block ID is 0 as a free slot, so a
winning `Set` with block ID 0 leaves the key absent (timestamp 0).

Callers, `Flush` and toggles run in any order against each other, as in the
code. `Write`'s and `Delete`'s early returns for a timestamp out of range
change nothing, and every modelled timestamp is in range.

TOC files are sequences of entries, each with a `TERM` flag:

- `Crash` keeps any prefix of each unterminated file and loses everything
  volatile.
- `Recover` folds `Set(..., true)` over the TOC files in name order.

Value bytes are abstracted to lengths in units of the 32-byte TOC entry.

Timestamps are encoded as `TSBits(m, del) = 4m + 2·del`, plus
`LocalRemoval = 1`. This keeps the order of the code's
`timestampmicro << 8 | flags` (with `DELETION = 0x80` and
`LOCAL_REMOVAL = 0x02`):

- `Removed` reads the `LOCAL_REMOVAL` flag.
- `LocBlockOf` gives a `LOCAL_REMOVAL` entry block ID 0, both in the TOC
  writer and in `Recover`. By `LocSet`, that entry then leaves the index.

`Call` also issues the internal write of a bulk-set-ack, a `LOCAL_REMOVAL`
with no value, when `AckOK` is set.

With `DiskWatcher` set, toggles come from two callers:

- the user, through `EnableWrites` and `DisableWrites`;
- the disk watcher, whose enable is skipped while the user has writes
  disabled (`userDisabled`).

### `ValueFile`: the value file writer

This module covers these goroutines:

- the `fileWriter` calling `write(memBlock)`, then `closeWriting`;
- the checksummer goroutines;
- the `writer` goroutine;
- the memClearers' receive (`ClearerRecv`).

Its state is:

- the `valueStoreFileWriteBuf`s, with their `seq`, `offset` and `memBlocks`;
- the free, checksum and to-disk channels;
- `writerOffset`;
- the shared `freeableMemBlockChanIndex` (`idx`).

A hand-over loop `hs[h]` models one `freeableMemBlockChans[idx] <- mb; idx++;
wrap` sequence, one step at a time. The steps are separate because that
index is shared by two goroutines without a lock.

### `PullReplication`: pull replication between two replicas

This module covers:

- the callers of `OutPullReplicationPass`, `EnableOutPullReplication` and
  `DisableOutPullReplication`;
- the launcher and its notification channel;
- the `outPullReplicationWorkers` scanning goroutines, with their
  partition/sub-range loops, the bloomN continuation (`WkVisit`) and the
  ring-version checks (`Stale`);
- the `outMsgChan` pool (`outFree`) and the responder's `inMsgChan` and
  `inFreeMsgChan` (`inQ`);
- `inPullReplication`'s two staggered scans and its byte budget (`Answer`);
- the puller applying the bulk-sets (`Apply`).

The bloom filter is exact. A false positive is a nondeterministic key of the
range, allowed when `FalsePositives` is TRUE. The responder's index is
static. The network may lose any message (`LosePull`, `LoseBulk`), and the
responder drops a pull when `inMsgChan` is full (`DropPull`).

Messages carry the code's wire format:

- `NewHeader` writes the 44-byte header of `newOutPullReplicationMsg`. The
  header holds, big-endian:
  - the node ID;
  - the ring version;
  - the partition;
  - the cutoff;
  - the range start and stop.
- `Received` decodes it again at the offsets `inPullReplication` reads.
- The responder's bulk-set is addressed to the decoded node ID.
- A key is only answered when it is older than the decoded cutoff. A fault step
`RingChange` moves the ring version, so a pass in progress stops at its next
check.

## Runs

| Run | Config | Checks | Result |
|---|---|---|---|
| `locmap_split_safety` | `MCValueLocMap.cfg` | `TypeOK`; `NeverNilNode`; `UsedCountsLive`; `InPlaceWhenQuiescent`; `ReadSeesCompletedWrites`; `LocMapRefined` | pass |
| `locmap_liveness` | `MCValueLocMapDeep.cfg` | `UnsplitNeverProceeds`; `SetsReturn`; `SplitsFinish` | pass |
| `locmap_monotonic_reads` | `MCValueLocMapReads.cfg` | `MonotonicReads` | violated |
| `store_pipeline_safety` | `MCValueStore.cfg` | `TypeOK`; `BlocksConserved`; `IndexPointsAtLiveBlock`; `StoreRefinesDurableIndex` | pass |
| `store_liveness` | `MCValueStoreLive.cfg` | `FlushesReturn`; `CallsReturn` | pass |
| `store_concurrent_flush` | `MCValueStoreFlushes.cfg` | `FlushedWritesSurviveRestart` | violated |
| `store_toc_recreate` | `MCValueStoreTOC.cfg` | `TOCFilesOnlyGrow` | violated |
| `valuefile_safety` | `MCValueFile.cfg` | `TypeOK`; `DiskInSeqOrder`; `HandedExactlyOnce`; `CallsReturn` | pass |
| `valuefile_handed_before_disk` | `MCValueFileOnDisk.cfg` | `HandedOnlyWhenOnDisk` | violated |
| `valuefile_index_race` | `MCValueFileIndex.cfg` | `IndexInRange` | violated |
| `pull_replication` | `MCPullReplication.cfg` | `TypeOK`; `NothingMissed`; `SummariesTileRange`; `PassesEnd`; `CallsReturn` | pass |
| `pull_scan_wraps` | `MCPullReplicationWrap.cfg` | `ResponsesInRange` | violated |

### What the passing runs show

**Location index**

- No goroutine follows a nil node.
- Each `used` counter equals the live entries of its store.
- A quiescent tree has every entry in its own leaf.
- A `Get` returns at least the newest `Set` that returned before the `Get`
  started.
- Every `Set` returns and every split ends, even through two levels of
  splits.
- The tree refines `LocMap`. Each `Set` takes effect once, inside its call,
  and no split step changes what the tree holds.
- Every `unsplit` request is refused.

**Write pipeline**

- Each `memBlock` is in exactly one place at a time.
- The index never points at a `memBlock` that has been freed.
- With two concurrent `Flush` calls, every call returns under fairness, and
  so does every write. This holds while the user and the disk watcher toggle
  writes.
- The store refines `DurableIndex`, with writes overlapping the `Flush`. The index changes only by writes in
  progress, where the newer timestamp wins. What recovery finds in finished
  TOC files only grows. A crash and recovery never bring back less than the
  finished TOC files hold, and never more than the index held.

**Value file**

- Buffers reach the file in `seq` order, although the checksummers reorder
  them.
- Each `memBlock` is handed to a `memClearer` exactly once.
- `write` and `closeWriting` return, unless the `freeableMemBlockChanIndex`
  race has panicked the process. The send with the index out of range is
  the step `HandPanic`, after which no goroutine runs.

**Pull replication**

- The summaries of a pass tile the ranges this node is responsible for,
  with two partitions. With `PartitionBitCount() = 0`, `1 << 64` is 0, and
  every worker summarises the whole ring (a hazard in `PROJECT.json`).
- A pass that ended cleanly leaves the puller missing nothing the responder
  holds. A pass is clean when:
  - it ended without a ring change;
  - no message was lost;
  - no response was truncated by the budget or by a false positive;
  - nothing is in flight.
- Every pass ends, and every call returns.

Each property of a passing run has a mutant in `PROJECT.json`: a plausible bug
in the modelled code, under which TLC finds the property violated. Examples:

- publishing `c` before `d`;
- not truncating a buffer's `memBlocks` after a write;
- sub-ranges that run past the next one;
- a responder that does only its first scan.

### What the violations show

- **`MonotonicReads`** (`valuelocmap.go:292`).
  1. A right-side `Set` loads `b` as nil.
  2. The split finishes its passes, and the `Set` then writes into `a`.
  3. A `Get` finds the entry through `f(b, a)`'s fallback to `a`.
  4. The split publishes `d`, and a later `Get` returns not found.

  An update becomes visible, then invisible, then visible again.
- **`FlushedWritesSurviveRestart` with two `Flush` callers**
  (`valuestore_GEN_.go:605`). The `fileWriter` counts flush tokens from any
  caller. Both tokens of shard 0 can close a round, and one `Flush` returns
  while shard 1's earlier write is still in memory. A crash then loses it.

  The same property also fails without a second caller (hazard
  `valuestore_GEN_.go:487`). A write that lands after `Flush` was called can
  supersede a flushed entry before the `memClearer` reaches it. The
  `memClearer` then skips that entry's TOC record, and a crash before the
  newer write is flushed loses both. So `store_pipeline_safety` does not
  check this property.
- **`TOCFilesOnlyGrow`** (`valuestore_GEN_.go:727`). With two
  `memClearer`s, a TOC block for the oldest file can arrive after blocks for
  two newer files. The `tocWriter` then `os.Create`s that file's TOC again,
  which truncates it.
- **`HandedOnlyWhenOnDisk`** (`part_002:182`). A `memBlock` whose values end
  exactly on a checksum-interval boundary is handed to a `memClearer` while
  its last buffer is still being checksummed. The `memClearer` re-points the
  index at bytes not yet on disk, and then frees the block for reuse.
- **`IndexInRange`** (`part_002:163`). `write` and `writer` both advance
  `freeableMemBlockChanIndex` without synchronisation. One of them can index
  `freeableMemBlockChans[len]`, which panics.
- **`ResponsesInRange`** (`grouppullreplication_GEN_.go:212`). A responder
  can be replica 0 of the partition that starts at key 0. There,
  `scanStart - 1` wraps to the largest key, so the second scan covers the
  whole keyspace. The bulk-set then carries keys of every partition.

## Bounds and why they are enough

**`ValueLocMap`**
- The safety run uses 2 keys on the two sides of the root's split, in two
  buckets.
- `SplitCount = 0`, so one entry already splits a node.
- It has two timestamps, two setters and one getter, with 2 calls each, and
  room for one split.
- This covers every race between one split, two writers and a reader. The
  setters are interchangeable, so the run uses them as a symmetry set.
- The deep run has 2 bits of `keyA` and 3 `Set`s. With these, the root
  splits, then `d` splits, and `unsplit` is requested.

**`ValueStore`**
- One shard and one key, with two `memBlock`s and a page of one entry.
  Every write fills a block, so every write goes through the whole pipeline.
- Two clients, three writes or deletes, one `Flush`, one toggle and one
  crash at any step. The `Flush` may overlap the writes.
- The liveness run has one client, two `Flush` callers, two flushes, two
  toggles from the user or the disk watcher, and one crash. It has a single
  write, which is an ack or a plain write. This keeps the liveness check
  under a minute: with two writes and deletes it took more than four minutes.
- Each violation cfg adds only what its scenario needs: a second shard and
  a second `Flush` caller, or a second `memClearer` and a third file. The
  TOC cfg also has a state constraint (`MCFlushAfterWrites`): its `Flush`
  starts after the four writes. That scenario does not need the overlap,
  and without it the run does not fit in five minutes.

**`ValueFile`**
- Two checksummers and a checksum interval of 2 units.
- Blocks of 0 to 3 units. Across 4 blocks this gives:
  - empty blocks;
  - blocks that end inside a buffer, on its boundary, or across it.

**`PullReplication`**
- 4-bit keys, two partitions, two workers and `bloomN = 1`. The puller is
  responsible for the last partition, so its last sub-range ends at the
  largest key. Each sub-range has 4 keys, which lets the responder's
  staggered second scan happen. A sub-range is continued after a full
  bulk-set.
- `MsgCap = 3`, so a budget cut happens.
- One message of each pool and one fault (a lost message or a ring change).
- One pass and one caller. The timer can start a second pass.
- The puller and responder indexes differ on both sides and on both halves,
  so some keys are missing on each side.

**Run times.** The refinement properties are the costly checks:

| Run | Distinct states | Time |
|---|---|---|
| `store_pipeline_safety` | about 2 million | about 2 min |
| `locmap_split_safety` | about 1.5 million | about 1 min 25 s |
| `pull_replication` | about 280,000 | about 3 min 30 s (liveness) |

The models keep these within the five-minute budget:

- `OnDisk` is a maximum over the terminated TOC entries, not a replay of
  `Recover`.
- The header decoding is a recursive operator rather than a fold.

## Fairness

Each `Spec` assumes weak fairness of every goroutine's next step. It does not
assume fairness for the steps that start new work:

- new calls;
- `PullReplication`'s launcher timer;
- fault steps.

Go's scheduler is preemptive, so a runnable goroutine eventually runs. The
steps that block (channel sends and receives) are enabled exactly when the
code could proceed.

In `PullReplication`, the network's delivery steps and the responder's
handling are also weakly fair. A message that is sent is then eventually
either delivered or lost: `MsgConn.MsgToNode` writes or times out, so it
cannot hold a message forever.

Symmetry is never used in a cfg that checks liveness.

`CHECK_DEADLOCK FALSE` is set in every cfg. These systems really do stop once
the bounded callers are done: the store and the index are passive, and
replication waits for the next timer. Liveness properties state what must
finish instead.

## Not modelled

| Part | Why it is not modelled |
|---|---|
| `unsplit` past its checks | No reachable state passes them (`UnsplitNeverProceeds`). |
| `Background` | It is a stub in `valuelocmap.go`. Its commented-out scan code is not live. |
| The older `ValuesStore` copy in `valuelocmap.go` | It calls methods that no longer exist. |
| `gatherStats`, `isResizing`, `Lookup` and `Read` | They do not change state. The window in which `Lookup` reports a `LOCAL_REMOVAL` entry present is listed as a hazard. |
| The disk watcher's free-space measurement | Only its enable and disable calls are modelled (spec 4.6). The watcher itself is not under `src/`. |
| The value file's read side, `close` and write errors | The model covers the write side only. The error path is listed as a hazard without a property. |
| Bloom filter hashing, the tombstone-age filter, `outIteration`'s salt, and changes of ring responsibility | Each pass is modelled against a fixed responsibility. |
| `GroupStore` | It is a generated copy of `ValueStore` whose keys have two parts instead of one, so its write pipeline is the same state machine. Its group-only reads (`LookupGroup`, `ReadGroup`) use a group index that is not in the repository. `ReadGroup` returns `TimestampMicro` unshifted, while `LookupGroup` shifts it. This is a difference in a read path, which does not change state. |
| `MsgConn` (`part_000`) | Nothing in the repository calls it. Its close race and its framing truncation are listed as hazards with no property. |
| `ValueDirectFile` | Sequential file code that nothing in the repository calls. Its read-order hazard is listed. |
| The bulk-set handler, and the benchmark CLI | They are not in the repository under `src/`. The ack's `LOCAL_REMOVAL` write is modelled as a store write. |

Two concurrent `OutPullReplicationPass` calls share the launcher's
notification channel. This is a hazard in `PROJECT.json`, but the model has
one caller per pass.

These documented promises are also hazards without a run, because the
project is at its limit of runs:

- `DisableWrites`' doc comment and the `Store` interface say a disabled store
  refuses `Delete`s. `memWriter` lets internal requests through
  (`valuestore_GEN_.go:544`), and `Delete` is internal. The model keeps
  that exemption.
- `Lookup` treats only `DELETION` as absent, while `Read` also treats
  `LOCAL_REMOVAL` as absent (`valuestore_GEN_.go:325`). They disagree while
  a locally removed entry is still in a `memBlock`.

The remaining work, in order:

1. `ValueStore` composed with `ValueFile`, so that the early hand-off reaches
   the index.
2. The bulk-set handler's message parsing, modelled from the spec.

The project is at the checker's limit of 12 runs. A new question has to be
added as a property of an existing run, or take the place of a run.
