------------------------------- MODULE BTree -------------------------------
(***************************************************************************)
(* The B+ tree index of src/unnamed/part_003 (btree.cpp) and src/P3 B+     *)
(* Tree/btree.h over integer keys.  A node is a page of the index file;    *)
(* pages maps a page number to its contents, read as a leaf when its level *)
(* is -1 and as an internal node otherwise, exactly as isLeaf does.  The   *)
(* arrays keep their fixed capacity L (INTARRAYLEAFSIZE) and N             *)
(* (INTARRAYNONLEAFSIZE) with zero-filled tails, because occupancy is      *)
(* recovered by a binary search for the first zero slot.                   *)
(*                                                                         *)
(* A RecordId is abstracted to one number: 0 is the empty RecordId (0,0),  *)
(* and the i-th inserted record has RecordId i.  Keys are W-bit integers:  *)
(* findLargerInt's key++ wraps at the top of the range.                    *)
(*                                                                         *)
(* The buffer manager is abstracted here: a page read is pages[pid] and    *)
(* pinCnt counts the pins the index holds on each page across operations. *)
(* insertEntry unpins every page it pins on every path, so it leaves       *)
(* pinCnt unchanged.                                                       *)
(***************************************************************************)
EXTENDS Integers, Sequences, FiniteSets

CONSTANTS
    L,            \* INTARRAYLEAFSIZE: 682 for 8 KB pages (even)
    N,            \* INTARRAYNONLEAFSIZE: 1023 for 8 KB pages (odd)
    W,            \* bits of an int
    Keys,         \* keys the relation's records carry
    ScanVals,     \* low and high values given to startScan
    MaxInserts,   \* bound on insertEntry calls (records of the relation)
    RestartScan,  \* the caller may call startScan while a scan executes
    InsertDuringScan, \* the caller may call insertEntry while a scan executes
    AscendingKeys, \* the relation is scanned in strictly ascending key order
    MaxFailures   \* bound on insertEntry calls that throw BufferExceeded

\* The capacities of btree.h for Page::SIZE = 8192, sizeof(int) = 4,
\* sizeof(PageId) = 4 and sizeof(RecordId) = 8 (a 4-byte page number and a
\* 2-byte slot, padded): 682 and 1023.
INTARRAYLEAFSIZE == (8192 - 4) \div (4 + 8)
INTARRAYNONLEAFSIZE == (8192 - 4 - 4) \div (4 + 4)

\* The small capacities keep the parity of the real ones, which decides
\* the split points L \div 2 and (N - 1) \div 2.
ASSUME L \in Nat /\ L >= 4 /\ L % 2 = INTARRAYLEAFSIZE % 2
ASSUME N \in Nat /\ N >= 3 /\ N % 2 = INTARRAYNONLEAFSIZE % 2
IntMin == -(2 ^ (W - 1))
IntMax == 2 ^ (W - 1) - 1
ASSUME Keys \cup ScanVals \subseteq IntMin .. IntMax

\* Every insert allocates at most one page per level plus a new root; one
\* that throws has allocated at most one page more than one that does not.
MaxPage == 1 + 2 * MaxInserts + MaxFailures
PageIds == 1 .. MaxPage
Rids == 1 .. MaxInserts

Operators == {"LT", "LTE", "GTE", "GT"}

ZeroLeaf == [level |-> -1, keyArray |-> [i \in 0 .. L - 1 |-> 0],
             ridArray |-> [i \in 0 .. L - 1 |-> 0], rightSibPageNo |-> 0]
ZeroNonLeaf == [level |-> 0, keyArray |-> [i \in 0 .. N - 1 |-> 0],
                pageNoArray |-> [i \in 0 .. N |-> 0]]
\* Page 0 of the index file holds the file header, never a node; read as a
\* leaf (moveToNext past the last leaf) it shows no entries.
HeaderPage == ZeroLeaf

(***************************************************************************)
(* Array helpers                                                           *)
(***************************************************************************)

\* Mutant: the search goes on from the middle element after skipping it.
RECURSIVE LowerBoundNoSkip(_, _, _)
LowerBoundNoSkip(before, first, count) ==
    IF count = 0 THEN first
    ELSE LET step == count \div 2
         IN IF before[first + step]
            THEN LowerBoundNoSkip(before, first + step, count - step - 1)
            ELSE LowerBoundNoSkip(before, first, step)

\* std::lower_bound over indices first .. first+count-1, where before[i] is
\* comp(array[i], value).  It returns the first index that is not before,
\* provided the before indices form a prefix.
RECURSIVE LowerBound(_, _, _)
LowerBound(before, first, count) ==
    IF count = 0 THEN first
    ELSE LET step == count \div 2
         IN IF before[first + step]
            THEN LowerBound(before, first + step + 1, count - step - 1)
            ELSE LowerBound(before, first, step)

\* memmove of arr[i .. size-2] to arr[i+1 .. size-1], then arr[i] := v
ShiftIn(arr, i, v, size) ==
    [j \in 0 .. size - 1 |-> IF j < i THEN arr[j] ELSE IF j = i THEN v ELSE arr[j - 1]]

\* arr[from ..] copied to the front of a zero array of the given size
CopyFrom(arr, from, len, size) ==
    [j \in 0 .. size - 1 |-> IF j < len THEN arr[from + j] ELSE 0]

\* memset(&arr[from], 0, ...) to the end of the array
ZeroFrom(arr, from) == [j \in DOMAIN arr |-> IF j >= from THEN 0 ELSE arr[j]]

\* key++ on a W-bit int
IncInt(k) == IF k = IntMax THEN IntMin ELSE k + 1

(***************************************************************************)
(* Node helpers of BTreeIndex                                              *)
(***************************************************************************)
isLeaf(node) == node.level = -1
isNonLeafFull(node) == node.pageNoArray[N] # 0
isLeafFull(node) == node.ridArray[L - 1] # 0
numInLeaf(node) == LowerBound([i \in 0 .. L - 1 |-> node.ridArray[i] > 0], 0, L)
numInNonLeaf(node) == LowerBound([i \in 0 .. N |-> node.pageNoArray[i] > 0], 0, N + 1)

findLargerInt(array, length, key, includeKey) ==
    LET k == IF includeKey THEN key ELSE IncInt(key)
        result == LowerBound([i \in DOMAIN array |-> array[i] < k], 0, length)
    IN IF result >= length THEN -1 ELSE result

\* Mutant: the search for the routing slot counts one key too many.
findSmallerKeyIndexAllKeys(node, key) ==
    LET len == numInNonLeaf(node)
        result == findLargerInt(node.keyArray, len, key, TRUE)
    IN IF result = -1 THEN len - 1 ELSE result

findSmallerKeyIndex(node, key) ==
    LET len == numInNonLeaf(node)
        result == findLargerInt(node.keyArray, len - 1, key, TRUE)
    IN IF result = -1 THEN len - 1 ELSE result

findInsertionIndexLeaf(node, key) ==
    LET len == numInLeaf(node)
        result == findLargerInt(node.keyArray, len, key, TRUE)
    IN IF result = -1 THEN len ELSE result

\* Mutant: entryScanIndex's inclusivity is inverted.
findIndexLeafInverted(node, key, includeKey) ==
    findLargerInt(node.keyArray, numInLeaf(node), key, ~includeKey)

findIndexLeaf(node, key, includeKey) ==
    findLargerInt(node.keyArray, numInLeaf(node), key, includeKey)

insertionLeafNode(node, i, key, rid) ==
    [node EXCEPT !.keyArray = ShiftIn(@, i, key, L),
                 !.ridArray = ShiftIn(@, i, rid, L)]

\* Mutant: the memmove of pageNoArray is forgotten.
insertionNonLeafNodeNoMove(n, i, key, pid) ==
    [n EXCEPT !.keyArray = ShiftIn(@, i, key, N),
              !.pageNoArray[i + 1] = pid]

insertionNonLeafNode(n, i, key, pid) ==
    [n EXCEPT !.keyArray = ShiftIn(@, i, key, N),
              !.pageNoArray = ShiftIn(@, i + 1, pid, N + 1)]

\* Mutant: the memset of the moved rids in the original leaf is missing.
splitLeafKeepRids(node, newNode, index) ==
    LET len == L - index IN
    <<[node EXCEPT !.keyArray = ZeroFrom(@, index)],
      [newNode EXCEPT !.keyArray = CopyFrom(node.keyArray, index, len, L),
                      !.ridArray = CopyFrom(node.ridArray, index, len, L)]>>

\* splitLeaf(node, newNode, index): the pair <<node, newNode>> after it
splitLeaf(node, newNode, index) ==
    LET len == L - index IN
    <<[node EXCEPT !.keyArray = ZeroFrom(@, index), !.ridArray = ZeroFrom(@, index)],
      [newNode EXCEPT !.keyArray = CopyFrom(node.keyArray, index, len, L),
                      !.ridArray = CopyFrom(node.ridArray, index, len, L)]>>

\* splitNonLeaf(curr, next, i, keepKey): the pair <<curr, next>> after it
splitNonLeaf(curr, next, i, keepKey) ==
    LET len == N - i IN
    <<[curr EXCEPT !.keyArray = ZeroFrom(@, i), !.pageNoArray = ZeroFrom(@, i + 1)],
      [next EXCEPT !.keyArray = IF keepKey THEN CopyFrom(curr.keyArray, i, len, N)
                                           ELSE CopyFrom(curr.keyArray, i + 1, len - 1, N),
                   !.pageNoArray = CopyFrom(curr.pageNoArray, i + 1, len, N + 1)]>>

(***************************************************************************)
(* insertEntry.  The recursion of insert runs on a record t of the state   *)
(* it changes: the pages, the next page number the file will allocate,    *)
(* and the results newPid (0 when no split) and midVal.                    *)
(***************************************************************************)
VARIABLES
    pages,          \* page number -> node (page 0 is the file header)
    nextPageNo,     \* page number the next allocatePage returns
    rootPageNo,     \* indexMetaInfo.rootPageNo
    scanExecuting, nextEntry, currentPageNum, lowValInt, highValInt, lowOp, highOp,
    pinCnt,         \* page number -> pins the index holds on it
    err,            \* exception the last operation threw
    inserted,       \* set of <<key, rid>> given to insertEntry
    emitted,        \* <<key, rid>> pairs scanNext returned in this scan, in order
    scanFrom,       \* inserted when the current scan started
    range,          \* the bounds and operators the current scan started with
    failures        \* insertEntry calls that threw BufferExceeded

treeVars == <<pages, nextPageNo, rootPageNo>>
scanVars == <<scanExecuting, nextEntry, currentPageNum, lowValInt, highValInt,
              lowOp, highOp>>
ghostVars == <<inserted, emitted, scanFrom, range, failures>>
vars == <<treeVars, scanVars, pinCnt, err, ghostVars>>

(***************************************************************************)
(* The buffer calls of insertEntry.  t.budget is the number of readPage   *)
(* and allocPage calls that still succeed (NoFault: all of them); the call *)
(* that finds it 0 throws BufferExceeded, which no frame of insertEntry    *)
(* catches, so every page in t.pins stays pinned.  t.pins counts the pins  *)
(* the call holds, page by page.                                           *)
(***************************************************************************)
NoFault == -1
Throws(t) == t.budget = 0

\* bufMgr->readPage(file, pid, page)
ReadPage(t, pid) ==
    IF Throws(t) THEN [t EXCEPT !.failed = TRUE]
    ELSE [t EXCEPT !.budget = @ - 1, !.pins[pid] = @ + 1]

\* bufMgr->unPinPage(file, pid, dirty)
UnPinPage(t, pid) == [t EXCEPT !.pins[pid] = @ - 1]

\* allocNonLeafNode / allocLeafNode: bufMgr->allocPage allocates the file
\* page before allocBuf can throw, then the frame is zeroed (level -1 for a
\* leaf) and returned pinned.
Alloc(t, node) ==
    IF Throws(t) THEN [t EXCEPT !.next = @ + 1, !.failed = TRUE]
    ELSE [t EXCEPT !.pages[t.next] = node, !.next = @ + 1, !.budget = @ - 1,
                   !.pins[t.next] = @ + 1]

\* insertToLeafPage, called with the leaf pid pinned
insertToLeafPage(t, pid, key, rid) ==
    LET node == t.pages[pid]
        index == findInsertionIndexLeaf(node, key)
        midIndex == L \div 2
        insertLeft == index < midIndex
        a == Alloc(t, ZeroLeaf)
        newPageId == t.next
        halves == splitLeaf(node, a.pages[newPageId], midIndex + (IF insertLeft THEN 1 ELSE 0))
        orig == IF insertLeft THEN insertionLeafNode(halves[1], index, key, rid)
                              ELSE halves[1]
        new == IF insertLeft THEN halves[2]
                             ELSE insertionLeafNode(halves[2], index - midIndex, key, rid)
        s == [a EXCEPT !.pages[pid] = [orig EXCEPT !.rightSibPageNo = newPageId],
                       !.pages[newPageId] = [new EXCEPT !.rightSibPageNo = node.rightSibPageNo],
                       !.newPid = newPageId,
                       !.midVal = new.keyArray[0]]
    IN CASE ~isLeafFull(node) ->
              UnPinPage([t EXCEPT !.pages[pid] = insertionLeafNode(node, index, key, rid),
                                  !.newPid = 0], pid)
         [] a.failed -> a
         [] OTHER -> UnPinPage(UnPinPage(s, pid), newPageId)

\* the part of insert after the child at the routing slot split into
\* <<pageNoArray[i], newChildPageId>> with separator newChildMidVal; pid is
\* pinned
insertSplitChild(t, pid, newChildMidVal, newChildPageId) ==
    LET node == t.pages[pid]
        index == findSmallerKeyIndex(node, newChildMidVal)
        midIndex == (N - 1) \div 2
        insertLeft == index < midIndex
        splitIndex == midIndex + (IF insertLeft THEN 1 ELSE 0)
        insertIndex == IF insertLeft THEN index ELSE index - midIndex
        moveKeyUp == ~insertLeft /\ insertIndex = 0
        a == Alloc(t, ZeroNonLeaf)
        newPageId == t.next
        halves == splitNonLeaf(node, a.pages[newPageId], splitIndex, moveKeyUp)
        orig == IF ~moveKeyUp /\ insertLeft
                THEN insertionNonLeafNode(halves[1], insertIndex, newChildMidVal, newChildPageId)
                ELSE halves[1]
        new == IF ~moveKeyUp /\ ~insertLeft
               THEN insertionNonLeafNode(halves[2], insertIndex, newChildMidVal, newChildPageId)
               ELSE halves[2]
        s == [a EXCEPT !.pages[pid] = orig,
                       !.pages[newPageId] = new,
                       !.newPid = newPageId,
                       !.midVal = IF moveKeyUp THEN newChildMidVal ELSE node.keyArray[splitIndex]]
    IN CASE ~isNonLeafFull(node) ->
              UnPinPage([t EXCEPT !.pages[pid] = insertionNonLeafNode(node, index, newChildMidVal,
                                                                      newChildPageId),
                                  !.newPid = 0], pid)
         [] a.failed -> a
         [] OTHER -> UnPinPage(UnPinPage(s, pid), newPageId)

\* the part of insert after the recursive call on the child returned c
insertAfterChild(c, pid) ==
    CASE c.failed -> c
      [] c.newPid = 0 -> UnPinPage(c, pid)
      [] OTHER -> insertSplitChild(c, pid, c.midVal, c.newPid)

\* The result of the recursive call is bound once, by a quantifier, as the
\* code holds it in the local newChildPageId.
RECURSIVE insert(_, _, _, _)
insert(t, pid, key, rid) ==
    LET r == ReadPage(t, pid)
        node == r.pages[pid]
        child == node.pageNoArray[findSmallerKeyIndex(node, key)]
    IN CASE r.failed -> r
         [] isLeaf(node) -> insertToLeafPage(r, pid, key, rid)
         [] OTHER -> CHOOSE v \in {insertAfterChild(c, pid) : c \in {insert(r, child, key, rid)}} : TRUE

\* splitRootNode(midVal, pid1, pid2)
splitRootNode(t, midVal, pid1, pid2) ==
    LET newRoot == [ZeroNonLeaf EXCEPT !.keyArray[0] = midVal,
                                       !.pageNoArray[0] = pid1,
                                       !.pageNoArray[1] = pid2]
        a == Alloc(t, newRoot)
    IN IF a.failed THEN a ELSE UnPinPage(a, t.next)

\* insertEntry, the whole call, with the buffer call it throws at (if any)
\* chosen among the calls it makes.
InsertCall(key, rid, budget) ==
    LET call == [pages |-> pages, next |-> nextPageNo, newPid |-> 0, midVal |-> 0,
                 budget |-> budget, failed |-> FALSE,
                 pins |-> [p \in 0 .. MaxPage |-> 0]]
        root(t) == IF ~t.failed /\ t.newPid # 0
                   THEN [splitRootNode(t, t.midVal, rootPageNo, t.newPid) EXCEPT !.newPid = t.next]
                   ELSE t
    IN CHOOSE v \in {root(t) : t \in {insert(call, rootPageNo, key, rid)}} : TRUE

InsertEntry(key) ==
    LET rid == Cardinality(inserted) + 1
        \* the buffer calls the call makes when none throws
        calls == NoFault - InsertCall(key, rid, NoFault).budget
    IN
    /\ Cardinality(inserted) < MaxInserts
    /\ InsertDuringScan \/ ~scanExecuting
    /\ AscendingKeys => \A e \in inserted : e[1] < key
    /\ \E budget \in {NoFault} \cup {b \in 0 .. calls - 1 : failures < MaxFailures} :
      \E u \in {InsertCall(key, rid, budget)} :
        /\ pages' = u.pages
        /\ nextPageNo' = u.next
        /\ rootPageNo' = IF ~u.failed /\ u.newPid # 0 THEN u.newPid ELSE rootPageNo
        /\ pinCnt' = [p \in DOMAIN pinCnt |-> pinCnt[p] + u.pins[p]]
        /\ IF u.failed
           THEN /\ err' = "BufferExceeded"
                /\ failures' = failures + 1
                /\ UNCHANGED inserted
           ELSE /\ err' = "none"
                /\ inserted' = inserted \cup {<<key, rid>>}
                /\ UNCHANGED failures
    /\ UNCHANGED <<scanVars, emitted, scanFrom, range>>

(***************************************************************************)
(* The constructor: a fresh index file whose first allocated page, 1, is  *)
(* the empty root leaf; the bulk load then calls insertEntry per record,  *)
(* which the InsertEntry steps model.                                      *)
(***************************************************************************)
Init ==
    /\ pages = [p \in 0 .. MaxPage |-> IF p = 0 THEN HeaderPage
                                       ELSE IF p = 1 THEN ZeroLeaf ELSE ZeroNonLeaf]
    /\ nextPageNo = 2
    /\ rootPageNo = 1
    /\ scanExecuting = FALSE
    /\ nextEntry = 0
    /\ currentPageNum = 0
    /\ lowValInt = 0
    /\ highValInt = 0
    /\ lowOp = "GT"
    /\ highOp = "LT"
    /\ pinCnt = [p \in 0 .. MaxPage |-> 0]
    /\ err = "none"
    /\ inserted = {}
    /\ emitted = <<>>
    /\ scanFrom = {}
    /\ range = [lv |-> 0, lo |-> "GT", hv |-> 0, ho |-> "LT"]
    /\ failures = 0

(***************************************************************************)
(* The scan protocol                                                       *)
(***************************************************************************)
Pin(pc, pid) == [pc EXCEPT ![pid] = @ + 1]
Unpin(pc, pid) == [pc EXCEPT ![pid] = @ - 1]

\* setPageScan: descend from pid along the routing slot of key; every
\* internal page is read and unpinned, the leaf stays pinned.
RECURSIVE setPageScan(_, _)
setPageScan(pid, key) ==
    IF isLeaf(pages[pid]) THEN pid
    ELSE setPageScan(pages[pid].pageNoArray[findSmallerKeyIndex(pages[pid], key)], key)

\* Mutant: the empty RecordId does not end the scan.
PastEndNoSentinel(node, i, hv, ho) ==
    \/ node.keyArray[i] > hv
    \/ node.keyArray[i] = hv /\ ho = "LT"

\* Mutant: the exclusive high end is not tested.
PastEndInclusive(node, i, hv, ho) ==
    \/ node.ridArray[i] = 0
    \/ node.keyArray[i] > hv

\* The condition startScan and scanNext use to end the scan at entry i.
PastEnd(node, i, hv, ho) ==
    \/ node.ridArray[i] = 0
    \/ node.keyArray[i] > hv
    \/ node.keyArray[i] = hv /\ ho = "LT"

StartScan(lv, lo, hv, ho) ==
    /\ RestartScan \/ ~scanExecuting
    /\ \/ /\ lo \notin {"GT", "GTE"} \/ ho \notin {"LT", "LTE"}
          /\ err' = "BadOpcodes"
          /\ UNCHANGED <<scanVars, pinCnt, ghostVars>>
       \/ /\ lo \in {"GT", "GTE"} /\ ho \in {"LT", "LTE"}
          /\ lv > hv
          /\ lowValInt' = lv
          /\ highValInt' = hv
          /\ err' = "BadScanrange"
          /\ UNCHANGED <<scanExecuting, nextEntry, currentPageNum, lowOp, highOp,
                         pinCnt, ghostVars>>
       \/ /\ lo \in {"GT", "GTE"} /\ ho \in {"LT", "LTE"}
          /\ lv <= hv
          /\ LET leaf == setPageScan(rootPageNo, lv)
                 entryIndex == findIndexLeaf(pages[leaf], lv, lo = "GTE")
                 \* entryScanIndex, moving to the right sibling when no entry qualifies
                 cur == IF entryIndex = -1 THEN pages[leaf].rightSibPageNo ELSE leaf
                 ne == IF entryIndex = -1 THEN 0 ELSE entryIndex
                 pins == Pin(Unpin(Pin(pinCnt, leaf), leaf), cur)
                 empty == PastEnd(pages[cur], ne, hv, ho)
             IN /\ lowValInt' = lv
                /\ highValInt' = hv
                /\ lowOp' = lo
                /\ highOp' = ho
                /\ currentPageNum' = cur
                /\ nextEntry' = ne
                \* an empty range ends the scan (endScan) and throws NoSuchKeyFound
                /\ scanExecuting' = ~empty
                /\ pinCnt' = IF empty THEN Unpin(pins, cur) ELSE pins
                /\ err' = IF empty THEN "NoSuchKeyFound" ELSE "none"
          /\ emitted' = <<>>
          /\ scanFrom' = inserted
          /\ range' = [lv |-> lv, lo |-> lo, hv |-> hv, ho |-> ho]
    /\ UNCHANGED <<treeVars, inserted, failures>>

ScanNext ==
    LET node == pages[currentPageNum]
        val == node.keyArray[nextEntry]
        rid == node.ridArray[nextEntry]
        next == nextEntry + 1
        \* setNextEntry: moveToNext when the leaf has no further entry
        move == next >= L \/ node.ridArray[next] = 0
    IN
    /\ \/ /\ ~scanExecuting
          /\ err' = "ScanNotInitialized"
          /\ UNCHANGED <<scanVars, pinCnt, emitted>>
       \/ /\ scanExecuting
          /\ PastEnd(node, nextEntry, highValInt, highOp)
          /\ err' = "IndexScanCompleted"
          /\ UNCHANGED <<scanVars, pinCnt, emitted>>
       \/ /\ scanExecuting
          /\ ~PastEnd(node, nextEntry, highValInt, highOp)
          /\ emitted' = Append(emitted, <<val, rid>>)
          /\ nextEntry' = IF move THEN 0 ELSE next
          /\ currentPageNum' = IF move THEN node.rightSibPageNo ELSE currentPageNum
          /\ pinCnt' = IF move THEN Pin(Unpin(pinCnt, currentPageNum), node.rightSibPageNo)
                               ELSE pinCnt
          /\ err' = "none"
          /\ UNCHANGED <<scanExecuting, lowValInt, highValInt, lowOp, highOp>>
    /\ UNCHANGED <<treeVars, inserted, scanFrom, range, failures>>

\* Mutant: endScan forgets to unpin the scan's page.
EndScanNoUnpin ==
    /\ \/ /\ ~scanExecuting
          /\ err' = "ScanNotInitialized"
          /\ UNCHANGED scanExecuting
       \/ /\ scanExecuting
          /\ scanExecuting' = FALSE
          /\ err' = "none"
    /\ emitted' = <<>>
    /\ UNCHANGED <<treeVars, nextEntry, currentPageNum, lowValInt, highValInt,
                   lowOp, highOp, pinCnt, inserted, scanFrom, range, failures>>

\* Mutant: endScan unpins the current page without checking that a scan
\* is executing.
EndScanNoCheck ==
    /\ scanExecuting' = FALSE
    /\ pinCnt' = Unpin(pinCnt, currentPageNum)
    /\ err' = "none"
    /\ emitted' = <<>>
    /\ UNCHANGED <<treeVars, nextEntry, currentPageNum, lowValInt, highValInt,
                   lowOp, highOp, inserted, scanFrom, range, failures>>

EndScan ==
    /\ \/ /\ ~scanExecuting
          /\ err' = "ScanNotInitialized"
          /\ UNCHANGED <<scanExecuting, pinCnt>>
       \/ /\ scanExecuting
          /\ scanExecuting' = FALSE
          /\ pinCnt' = Unpin(pinCnt, currentPageNum)
          /\ err' = "none"
    \* the record of the scan is dropped with it
    /\ emitted' = <<>>
    /\ UNCHANGED <<treeVars, nextEntry, currentPageNum, lowValInt, highValInt,
                   lowOp, highOp, inserted, scanFrom, range, failures>>

Next ==
    \/ \E k \in Keys : InsertEntry(k)
    \/ \E lv, hv \in ScanVals, lo, ho \in Operators : StartScan(lv, lo, hv, ho)
    \/ ScanNext
    \/ EndScan

Spec == Init /\ [][Next]_vars

\* The caller of a scan calls scanNext until it throws IndexScanCompleted,
\* the normal end of a scan (spec, section 7); nothing else is assumed to
\* happen.
FairSpec == Spec /\ WF_vars(ScanNext)

(***************************************************************************)
(* Views of the tree used by the properties                                *)
(***************************************************************************)
Node == [level: {-1}, keyArray: [0 .. L - 1 -> IntMin .. IntMax],
         ridArray: [0 .. L - 1 -> 0 .. MaxInserts], rightSibPageNo: 0 .. MaxPage]
   \cup [level: {0}, keyArray: [0 .. N - 1 -> IntMin .. IntMax],
         pageNoArray: [0 .. N -> 0 .. MaxPage]]

TypeOK ==
    /\ pages \in [0 .. MaxPage -> Node]
    /\ nextPageNo \in 2 .. MaxPage + 1
    /\ rootPageNo \in PageIds
    /\ scanExecuting \in BOOLEAN
    /\ nextEntry \in 0 .. L - 1
    /\ currentPageNum \in 0 .. MaxPage
    /\ lowValInt \in ScanVals \cup {0} /\ highValInt \in ScanVals \cup {0}
    /\ lowOp \in Operators /\ highOp \in Operators
    /\ pinCnt \in [0 .. MaxPage -> Nat]
    /\ err \in {"none", "BadOpcodes", "BadScanrange", "NoSuchKeyFound",
                "IndexScanCompleted", "ScanNotInitialized", "BufferExceeded"}
    /\ failures \in 0 .. MaxFailures
    /\ inserted \subseteq Keys \X Rids
    /\ emitted \in Seq(Keys \X Rids)
    /\ scanFrom \subseteq Keys \X Rids
    /\ range \in [lv: ScanVals \cup {0}, lo: {"GT", "GTE"}, hv: ScanVals \cup {0}, ho: {"LT", "LTE"}]

\* the <<key, rid>> entries of a leaf, in array order
LeafEntries(node) == [i \in 1 .. numInLeaf(node) |-> <<node.keyArray[i - 1], node.ridArray[i - 1]>>]

\* children of an internal node, as far as numInNonLeaf counts them
Children(node) == {node.pageNoArray[i] : i \in 0 .. numInNonLeaf(node) - 1}

RECURSIVE LeftmostLeaf(_)
LeftmostLeaf(pid) == IF isLeaf(pages[pid]) THEN pid ELSE LeftmostLeaf(pages[pid].pageNoArray[0])

\* the leaves met following rightSibPageNo from pid (at most MaxPage of them)
RECURSIVE ChainFrom(_, _)
ChainFrom(pid, fuel) ==
    IF pid = 0 \/ fuel = 0 THEN <<>>
    ELSE <<pid>> \o ChainFrom(pages[pid].rightSibPageNo, fuel - 1)

Chain == ChainFrom(LeftmostLeaf(rootPageNo), MaxPage)

RECURSIVE ConcatEntries(_)
ConcatEntries(ls) == IF ls = <<>> THEN <<>>
                     ELSE LeafEntries(pages[Head(ls)]) \o ConcatEntries(Tail(ls))

\* the entries of the leaf level, left to right
ChainEntries == ConcatEntries(Chain)

\* the leaves reachable from the root through child pointers
RECURSIVE LeavesUnder(_)
LeavesUnder(pid) == IF isLeaf(pages[pid]) THEN {pid}
                    ELSE UNION {LeavesUnder(c) : c \in Children(pages[pid])}

SeqToSet(s) == {s[i] : i \in DOMAIN s}

InRange(k) ==
    /\ IF range.lo = "GT" THEN k > range.lv ELSE k >= range.lv
    /\ IF range.ho = "LT" THEN k < range.hv ELSE k <= range.hv

(***************************************************************************)
(* Properties of the tree                                                  *)
(***************************************************************************)

\* Every entry insertEntry was given is on the leaf level exactly once:
\* leaf splits (splitLeaf, the shifts of insertionLeafNode and the sibling
\* relinking) neither lose nor duplicate an entry.
EntriesPreserved ==
    /\ SeqToSet(ChainEntries) = inserted
    /\ Len(ChainEntries) = Cardinality(inserted)

\* Every entry on the leaf level was given to an insertEntry call that
\* returned: a call that throws BufferExceeded has stored nothing (spec,
\* section 5: an operation completes or fails).
NoEntryOfFailedInsert == SeqToSet(ChainEntries) \subseteq inserted

\* The leaf level, read along rightSibPageNo, is in non-decreasing key order
\* (spec: "Sorted leaves"), whatever the order of the insertions and splits.
ChainSorted ==
    \A i \in 1 .. Len(ChainEntries) - 1 : ChainEntries[i][1] <= ChainEntries[i + 1][1]

\* The leaves the root reaches through child pointers are exactly the leaves
\* of the sibling chain: no split loses a child pointer or leaves a page the
\* routing reaches outside the chain.
TreeCoversChain == LeavesUnder(rootPageNo) = SeqToSet(Chain)

(***************************************************************************)
(* Properties of the scan                                                  *)
(***************************************************************************)

\* When a scan ends (NoSuchKeyFound from startScan, IndexScanCompleted from
\* scanNext) it has returned every entry inserted before it started whose
\* key is in the range.
ScanComplete ==
    err \in {"NoSuchKeyFound", "IndexScanCompleted"} =>
        \A e \in scanFrom :
            InRange(e[1]) => e \in SeqToSet(emitted)

\* scanNext returns entries in non-decreasing key order, never the same
\* record twice, and never a key above the high end of the range.
ScanOrderedBelowHigh ==
    /\ \A i \in 1 .. Len(emitted) - 1 : emitted[i][1] <= emitted[i + 1][1]
    /\ \A i, j \in DOMAIN emitted : i # j => emitted[i][2] # emitted[j][2]
    /\ \A i \in DOMAIN emitted :
         IF range.ho = "LT" THEN emitted[i][1] < range.hv ELSE emitted[i][1] <= range.hv

\* Every entry scanNext returns lies in the range the scan was started with
\* (spec: "the scan yields exactly the record ids whose keys satisfy the
\* half-open predicate").
ScanSound ==
    \A i \in DOMAIN emitted :
        InRange(emitted[i][1])

\* Between operations the index holds exactly one pin, on the leaf of an
\* executing scan, and none when no scan executes (spec, section 5).
NoPinLeak ==
    \A p \in 0 .. MaxPage :
        pinCnt[p] = IF scanExecuting /\ p = currentPageNum THEN 1 ELSE 0


\* Every scan startScan begins ends: scanNext, called again and again,
\* reaches an entry past the high end, the empty RecordId of the last leaf
\* or of the header page that moveToNext reads after it, and throws
\* IndexScanCompleted (unless the caller ends the scan first).
ScanTerminates == scanExecuting ~> (~scanExecuting \/ err = "IndexScanCompleted")


(***************************************************************************)
(* Refinement of the abstract index                                        *)
(***************************************************************************)

\* the entries at and after the scan's cursor, along the leaf level
ScanAhead ==
    LET node == pages[currentPageNum]
    IN SubSeq(LeafEntries(node), nextEntry + 1, numInLeaf(node))
         \o ConcatEntries(ChainFrom(node.rightSibPageNo, MaxPage))

PendingView ==
    IF scanExecuting THEN {e \in SeqToSet(ScanAhead) : InRange(e[1])} ELSE {}

Abstract == INSTANCE OrderedIndex
              WITH index <- inserted, scanning <- scanExecuting,
                   pending <- PendingView, out <- emitted,
                   completed <- scanExecuting /\ err = "IndexScanCompleted",
                   Rids <- 1 .. MaxInserts, Vals <- ScanVals

\* Every step of insertEntry, startScan, scanNext and endScan is a step of
\* the abstract index (or leaves it unchanged): an insert adds its one entry
\* to the leaf level, startScan's cursor has every entry of the range ahead
\* of it, scanNext returns the smallest key still ahead in range and moves
\* past it, and IndexScanCompleted comes only when none is left.
OrderedIndexRefinement == Abstract!Spec


\* On every page the occupancy numInLeaf / numInNonLeaf computes by binary
\* search over the zero sentinels is the number of slots in use: the binary
\* search keeps std::lower_bound's contract, and every split, shift and
\* memset leaves the used slots a prefix (the spec's "sentinel-driven
\* occupancy").
OccupancyExact ==
    \A p \in 0 .. MaxPage :
        LET n == pages[p]
        IN IF isLeaf(n)
           THEN numInLeaf(n) = Cardinality({i \in 0 .. L - 1 : n.ridArray[i] # 0})
           ELSE numInNonLeaf(n) = Cardinality({i \in 0 .. N : n.pageNoArray[i] # 0})

=============================================================================
