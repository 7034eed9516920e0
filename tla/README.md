# TLA+ models of the BadgerDB buffer manager and B+ tree index

This directory models the two stateful C++ components of the repository with
TLA+ and checks them with TLC:

* the buffer manager, `src/P2 Buffer Manager/buffer.cpp` (class `BufMgr`);
* the B+ tree index over integer keys, `src/unnamed/part_003` (the
  `btree.cpp` of `BTreeIndex`), with its layouts in `src/P3 B+ Tree/btree.h`.

## Inventory of the repository

| part | source | state it changes | modelled |
|------|--------|------------------|----------|
| Buffer manager | buffer.cpp | frame descriptors, pool, hash table, clock hand, disk pages | `BufMgr`; its destructor in `BufMgrDestroy`; its promise in `PageStore` |
| Frame descriptor `BufDesc` (`Set`, `Clear`) | buffer.h (not in the repository) | one descriptor | `BufMgr` (from the spec) |
| Hash table `BufHashTbl` | not in the repository | (file, page) -> frame | a function in `BufMgr` |
| B+ tree insert | part_003 lines 39-512 | pages, meta page root | `BTree`, with BufferExceeded from each `readPage`/`allocPage` it calls |
| B+ tree scan | part_003 lines 519-646 | scan cursor, pins | `BTree` |
| B+ tree constructor: meta page, bulk load by `FileScan` | part_003 lines 70-102 | file, meta page | `BTree` Init only (empty relation) |
| B+ tree destructor | part_003 lines 654-658 | ends scan, flushes | `BTreeDestroy` |
| `File`, `PageFile`, `BlobFile`, `FileScan`, `Page` | not in the repository | disk | the `disk` function of `BufMgr` |
| ER schema and queries (P1, part_000, part_001) | SQL | none | no: queries, not a program with state |
| Loader (part_002: sort, uniq, parser.py) | shell | files | no: batch I/O |

How the parts interact: `BTreeIndex` keeps every page it uses in the buffer
pool. Every node visit is `readPage` + `unPinPage`, and a split calls
`allocPage`. A running scan keeps exactly one leaf pinned, from `startScan`
until `endScan`. The destructor ends the scan and calls `flushFile`. `BufMgr`
writes a dirty frame back to the `File` when the clock evicts it and when the
file is flushed.

## Modules

### `BufMgr.tla` — buffer manager

Its state is the code's members: `bufDescTable` (records `file, pageNo,
valid, dirty, refbit, pinCnt`), `bufPool`, `hashTable`, `clockHand`, plus `disk`
(the version of each page on file, `Absent` when not allocated) and `err`
(the exception thrown by the last call, `"none"` if none).

A page's content is abstracted to a version number. The caller is modelled
by four variables, `held`, `latest`, `mustDirty` and `writes`: the pins it
holds, the last version it wrote, the pages it wrote and has not unpinned
dirty, and a bound on writes.

Actions, one per public method:

| action | method | notes |
|--------|--------|-------|
| `ReadPage` | `readPage` | `ReadPageHit` (lookup succeeds) or `ReadPageMiss` (`allocBuf`, read, insert, `Set`) |
| `UnPinPage` | `unPinPage` | three outcomes: not cached (silent), `PageNotPinned`, or decrement |
| `AllocPage` | `allocPage` | the file page is allocated *before* `allocBuf` may throw |
| `DisposePage` | `disposePage` | |
| `FlushFile` | `flushFile` | the whole loop, frame by frame, as `FlushLoop` |
| `ClientWrite` | caller writes through the `Page*` it holds | |

`allocBuf` is the recursive operator `ClockLoop`. It runs the `while` loop
to completion inside the action that calls it, keeping `pinnedCount`
exactly as the code does.

### `PageStore.tla` — what the buffer manager promises

The abstract page store: each page of each file has a version (`store`,
`Absent` when not allocated) and a number of pins the caller holds
(`pinned`). Its actions are `Allocate`, `Pin`, `Unpin`, `Write` (only a
pinned page) and `Delete` (only an unpinned page). Frames, the clock,
eviction, write-back and flushing are invisible at this level: they must
not change what the caller sees.

`BufMgr` defines the refinement mapping. `StoreView` is the frame's
version for a cached page and the file's version otherwise. `PinView` is
the frame's `pinCnt`. `PageStoreRefinement == Abstract!Spec`, with
`Abstract == INSTANCE PageStore WITH store <- StoreView, pinned <- PinView`,
is checked as a PROPERTY. Eviction of a dirty frame and `flushFile` must be
stuttering steps of `PageStore`.

### `BufMgrDestroy.tla` — the buffer manager's destructor

It extends `BufMgr` with one variable, `destroyed`, and one action,
`Destroy`, for `~BufMgr`. The destructor frees the pool, so after it no
frame exists; the property is about what the file then holds. The caller
destroys the manager only when it holds no pins. It is its own module
because the program ends there: nothing follows `Destroy`.

### `OrderedIndex.tla` — what the B+ tree promises

The abstract index is the contract of the public methods `btree.h`
declares (lines 434-524) and the spec's sections 7 and 8. It has these
parts:
* `index`: a set of `<<key, rid>>` entries;
* `pending`: for the one scan, the entries of its range not yet returned;
* `out`: the entries the scan has returned;
* `completed`: the scan has reported IndexScanCompleted.

Its actions are `Insert`, `StartScan`, `ScanNext`, `Complete` and `EndScan`:
* `StartScan` ends a scan that is executing ("that needs to be ended
  here", says the header), and with an empty range ends at once
  (NoSuchKeyFound).
* `Insert` is allowed only while no scan executes: the header does not say
  what a scan returns after an insert into its range.
* `ScanNext` returns an entry of `pending` with the smallest key.
* `Complete` is possible only when `pending` is empty.

`BTree` maps onto it in `Abstract == INSTANCE OrderedIndex WITH ...`:
* `index` is the ghost `inserted`, which `EntriesPreserved` ties to the leaf
  level.
* `pending` is `PendingView`, the entries in range from the cursor
  (`currentPageNum`, `nextEntry`) to the end of the leaf chain.
* `out` is `emitted`.
* `completed` is "a scan executes and the last call threw
  IndexScanCompleted".

`OrderedIndexRefinement == Abstract!Spec` is checked as a PROPERTY.

### `BTreeDestroy.tla` — the B+ tree's destructor

It extends `BTree` with `destroyed` and `Destroy`, for `~BTreeIndex`:
1. `endScan` if a scan executes;
2. `flushFile`, which throws PagePinned when a page of the file is still
   pinned;
3. nothing catches the exception.

The pool's frames are not part of `BTree`, so `flushFile` is reduced to its
pin check. Its BadBuffer throw is shown by `BufMgr_flush.cfg`. The real
destructor therefore throws in more states than the model shows: a leaked
pin is one way to break `DestroyNoThrow`, not the only one.

### `BTree.tla` — B+ tree index

Node layouts follow btree.h:
* leaves have `keyArray[L]`, `ridArray[L]` and `rightSibPageNo`, at level -1;
* internal nodes have `keyArray[N]` and `pageNoArray[N+1]`, at level 0.

Both are fixed arrays with zero sentinels. The real capacities are L = 682
and N = 1023. The model uses L = 4 and N = 3, which keeps their parities:
`midIndex` and the split arithmetic depend on them. `INTARRAYLEAFSIZE` and
`INTARRAYNONLEAFSIZE` compute the real capacities from btree.h's formulas,
and two ASSUMEs check that L and N have their parities.

Keys are `W`-bit integers that wrap (`IncInt`), because `findLargerInt` does
`key++`. A record id is the number of the insert, so every entry is unique.
The helpers (`findSmallerKeyIndex`, `findIndexLeaf`, `splitLeaf`,
`splitNonLeaf`, ...) are operators with the code's names.
`numInLeaf` / `numInNonLeaf` use `LowerBound`, a recursive binary search
with the contract of `std::lower_bound`.

Actions:

| action | method |
|--------|--------|
| `InsertEntry(key)` | `insertEntry`: the recursive `insert` (with `insertToLeafPage`, `insertSplitChild`) then `splitRootNode` |
| `StartScan(lv, lo, hv, ho)` | `startScan` with `setPageScan`, `entryScanIndex`, `moveToNext`, and its `endScan` on an empty range |
| `ScanNext` | `scanNext` and `setNextEntry` |
| `EndScan` | `endScan` |

Pins taken by the tree are counted in `pinCnt` (per page). An insert that
succeeds reads and unpins every page it visits within the same call, so
only the scan's pin outlives it.

Fault model. One `InsertEntry` runs the whole call as one step. The
recursive operators pass a record `t` along: the pages, `nextPageNo`, the
split result, the pins taken by this call, and a `budget`. The budget is
how many `readPage`/`allocPage` calls still succeed; `NoFault` means all of
them. When the budget is 0, the next call throws BufferExceeded (`Throws`,
`failed`). Then nothing after it in the code runs: no unpin, no root
update. `Alloc` that throws still consumes a page number, because
`file->allocatePage` runs before `allocBuf`. `InsertEntry` chooses the
budget from `NoFault` and every point at which the call can fail, with at
most `MaxFailures` failing calls per behaviour. The pins of a failed call
stay in `pinCnt`. A failed call leaves `inserted` unchanged: `inserted` holds
the entries of the calls that returned.

Constants that model the caller:
* `RestartScan`: may `startScan` be called while a scan runs?
* `InsertDuringScan`: may `insertEntry` be called while a scan runs?
* `AscendingKeys`: are keys inserted in strictly ascending order, as the
  loader's `sort | uniq` produces them?

Ghost variables support the properties:
* `inserted`: every entry ever inserted;
* `emitted`: the entries the current scan returned;
* `scanFrom`: `inserted` when the scan started;
* `range`: the bounds of the last valid `startScan`;
* `failures`: the number of insertEntry calls that threw.

### `MC_BufMgr.tla`, `MC_BTree.tla`

These are the model-checking instances:
* `MC_BufMgr` gives two files as model values, symmetric under `MCSymmetry`.
* `MC_BTree` defines `DistinctKeys` for the ascending run, and `ScanView`.
  `ScanView` drops the scan registers once a scan is over: after `endScan` or
  a failed `startScan`, no action reads `nextEntry`, `currentPageNum`,
  `lowValInt`, `highValInt`, `lowOp`, `highOp`, `scanFrom` or `range` before
  the next valid `startScan` overwrites them. `ScanNext` and `EndScan`
  without a scan throw before reading them.
* `MC_BTree` also defines `LivenessView`, which leaves out the history
  variable `emitted`. No action reads `emitted`, so the view does not merge
  states that behave differently. It lets TLC see a scan that never ends as
  a cycle.
* `MC_BTree` defines `PinBound`, a state constraint used only by
  `BTree_badrange.cfg`: with `RestartScan`, every restart leaks a pin, and
  the bound keeps the leaked pins finite.
* `MC_BufMgrDestroy` instantiates `BufMgrDestroy` like `MC_BufMgr`.

## Runs

The pass runs:

| run | cfg | checks | bounds | result |
|-----|-----|--------|--------|--------|
| bufmgr_safety | BufMgr_safety.cfg | PageStoreRefinement, TypeOK, HashMatchesDescriptors, PinsMatchHolds, NoLostWrite | 2 files, 2 pages each, 2 frames, 2 pins per page, 1 write | pass, 185,864 states |
| btree_leaf | BTree_leaf.cfg | TypeOK, EntriesPreserved, ChainSorted, TreeCoversChain, ScanComplete, ScanOrderedBelowHigh, NoPinLeak | keys {1,2,3} in any order, 6 inserts, every scan over {1,2,3} x 4 operators | pass, 95,025 states |
| btree_deep | BTree_deep.cfg | EntriesPreserved, OccupancyExact (TypeOK is btree_leaf's) | 9 inserts, no scans | pass, 59,048 states |
| btree_liveness | BTree_liveness.cfg | ScanTerminates, OrderedIndexRefinement (under `FairSpec`) | keys {1,2}, 5 inserts (one leaf split), every scan over {1,2} with the operators LT, LTE, GTE (`Operators <- NoGTOperators`: GT scans are the btree_scan_gt finding) | pass, 26,295 states |

The violation runs check one property each. Every one records a disagreement
between the code and its spec or comments; see `findings` in `PROJECT.json`.

| run | property | what TLC finds |
|-----|----------|----------------|
| bufmgr_clock | ClockCompleteness | `allocBuf` counts the same pinned frame on every sweep of the clock. It throws BufferExceeded after `numBufs` pinned visits while an unpinned frame still has its refbit set. |
| btree_deep_sorted | ChainSorted | `insert` places the new child by `findSmallerKeyIndex(originalNode, newChildMidVal)`. With duplicate keys the separator equals an existing key, so the child lands in the wrong slot and the leaf chain is unsorted. |
| btree_deep_covers | TreeCoversChain | In the `moveKeyUp` case of an internal split, `newChildPageId` is never stored, so a leaf becomes unreachable from the root. |
| btree_ascending_sorted | ChainSorted | With distinct ascending keys (what the loader produces), the right-half insert index of an internal split is off by one (`index - midIndex`), and the 12th insert breaks the order. |
| btree_scan_gt | ScanSound | `(k, GT, ...)` returns key k when the landing leaf has no key above k and the next leaf starts with k. |
| btree_insert_during_scan | ScanComplete | An insert that splits the scan's leaf leaves `nextEntry` stale, and the scan ends early. |
| btree_fault_atomic | NoEntryOfFailedInsert | Four inserts fill the root leaf. The fifth splits it and links the new leaf into the chain; then `splitRootNode`'s `allocPage` throws BufferExceeded. The call fails, yet its entry is on the leaf level, against the spec's "an operation completes or fails". |
| btree_fault_destroy | DestroyNoThrow | Four inserts fill the root leaf. The fifth splits it, and its `allocPage` throws BufferExceeded with the leaf pinned. `~BTreeIndex` then calls `flushFile`, which throws PagePinned out of the destructor, against its comment and the spec ("destructors swallow errors"). |

### Further counterexamples

These configurations are not runs of the project. Each reproduces one more
disagreement with TLC (`tlc -config <cfg> MC_BTree`, or `MC_BufMgr` for the
first). Each bug shows after a short sequence a unit test would also
write.

| cfg | property | what TLC finds |
|-----|----------|----------------|
| BufMgr_flush.cfg (MC_BufMgr) | FlushCompletes | `flushFile` throws BadBufferException on any frame that is invalid or belongs to another file. |
| BTree_scan_overflow.cfg | ScanSound | `findLargerInt`'s `key++` wraps at INT_MAX, so a GT scan from INT_MAX returns every key. |
| BTree_restart.cfg | NoPinLeak | `startScan` during a scan does not end the old one, and its leaf stays pinned. |
| BufMgr_destroy.cfg (MC_BufMgrDestroy) | DestroyKeepsWrites | A page is written, unpinned dirty, and the manager is destroyed. `~BufMgr` only frees the pool, so the file keeps the old version, against its comment "Clean out the dirty pages out of buffer pool". |
| BTree_badrange.cfg | ScanOrderedBelowHigh | During a scan over [1, 1], `startScan(3, GTE, 2, LTE)` throws BadScanrange after it has stored 2 in `highValInt`; the running scan goes on and returns key 2. `PinBound` keeps the pins leaked by restarts finite. |
| BTree_fault_ChainSorted.cfg | ChainSorted | The orphan leaf of the btree_fault_atomic trace: the next split of the old leaf links a third leaf before the orphan, and the chain is unsorted. |
| BTree_fault_NoPinLeak.cfg | NoPinLeak | An `insertEntry` that throws BufferExceeded at a `readPage` or `allocPage` leaves every page read before the throw pinned. |

### Bounds

* Buffer manager: two frames and four pages make the clock evict and make
  BufferExceeded reachable. Two pins per page give the pinCnt 2 -> 1 -> 0
  sequences. One write per run is enough to lose it, and two writes did not
  add behaviour in a trial run (1m38s, same verdict).
* B+ tree: with L = 4, six inserts give the first root split and a
  two-leaf tree. Nine inserts give leaf splits under a split root and the
  first internal splits (N = 3). Twelve ascending keys give a split of a
  full internal node with the new entry in the right half. Three keys with
  duplicates exercise every `>=` against `>` boundary of the routing.
* Fault runs: one failing call (`MaxFailures = 1`) at any point of any of
  six inserts with L = 4 reaches a failure in a leaf split and in
  `splitRootNode`. Four inserts of one key and a fifth that fails in
  `splitRootNode` are the shortest path to a failed call whose entry
  stays (btree_fault_atomic).
* Liveness and refinement: five inserts of two keys make the chain two
  leaves long, with duplicates across the split. A scan therefore crosses a
  `moveToNext` to a sibling and then to page 0, and LT against LTE at an
  equal key is exercised. Larger instances took more than five minutes
  with the liveness checker.
* Destructor: five inserts are the fewest that split a leaf, and only a
  split takes a pin before a buffer call that can throw.

### Fairness

`FairSpec == Spec /\ WF_vars(ScanNext)`, used only by btree_liveness. The
spec (section 7) makes IndexScanCompleted the normal end of a scan: a
caller drives a scan by calling `scanNext` until it throws. Nothing else is
assumed fair. In particular, no insert and no `endScan` is required to
happen. `ScanNext` is enabled in every state, so weak fairness only rules
out a caller that stops calling it.

## Plan for the next steps

1. Compose `BTree` with `BufMgr` itself: the tree's pages held in frames,
   evicted and written back, and BufferExceeded arising from the pins
   rather than from a budget. See "Not modelled" for why this is not done
   yet.

## Not modelled

* SQL schema and queries (P1, part_000, part_001): they are queries over a
  database, not a program with state transitions.
* Loader (part_002): a sort/uniq/python pipeline. Only its effect, unique
  ascending keys, enters as `AscendingKeys`.
* `File`, `BlobFile`, `FileScan`, `BufHashTbl`: not in the repository. They
  are abstracted to functions (`disk`, `hashTable`).
* Page contents beyond versions and keys; record ids beyond uniqueness.
* `printSelf` and other output.
* The index meta-page. The spec says it is persisted in page 0, but the
  constructor only fills `indexMetaInfo` in memory. It creates a new file
  every time (`BlobFile(name, true)`), so no path reads it back. The model
  reads page 0 as an empty leaf, which is what a scan finds when
  `moveToNext` follows `rightSibPageNo = 0`.
* The tree's pages inside the buffer manager's frames. `BTree` replaces
  the pool by a fault budget: any `readPage` or `allocPage` may throw
  BufferExceeded, as it can when other users of the pool hold its frames.
  A composition would multiply each tree state by the frame layouts, which
  are the page, pin count, dirty bit and refbit of each frame, and the
  clock hand. A split needs at least six inserts and five pages to happen.
  At those bounds the product is estimated, not measured, to be beyond a run
  of a few minutes.
  What the composition would check is already covered by separate runs.
  `BufMgr` checks that the pool keeps every write and pin
  (`PageStoreRefinement`). `BTree`'s fault runs check what the tree does
  when the pool throws.
* The name copy into `indexMetaInfo.relationName` (20 bytes, no
  terminator) is string handling, out of this model's reach.
