------------------------------- MODULE BufMgr -------------------------------
(***************************************************************************)
(* The BadgerDB buffer manager of src/P2 Buffer Manager/buffer.cpp: a pool *)
(* of NumBufs frames, a parallel descriptor table, a hash table from       *)
(* (file, pageNo) to frame, and a clock hand.  Page bytes are abstracted   *)
(* to a version number: version 0 is a freshly allocated page, and every   *)
(* write of the caller through a pinned page pointer makes a new version.  *)
(*                                                                         *)
(* The File collaborator (allocatePage, readPage, writePage, deletePage)   *)
(* is the variable disk; the BufDesc helpers Set and Clear live in         *)
(* buffer.h, which is not in the repository, and follow the spec.          *)
(*                                                                         *)
(* The caller is part of the model: held counts the pins the caller owns   *)
(* on each page, latest is the last version it wrote and mustDirty the     *)
(* pages it wrote since it last unpinned them dirty.                       *)
(***************************************************************************)
EXTENDS Integers, FiniteSets

CONSTANTS
    Files,      \* the open File objects (model values)
    PageNos,    \* page numbers a file may allocate (never 0)
    NumBufs,    \* frames in the buffer pool
    MaxWrites,  \* bound on the caller's writes through page pointers
    MaxPins,    \* bound on the pins the caller holds on one page
    NoFile      \* the file pointer of a cleared descriptor (NULL)

ASSUME NumBufs \in Nat \ {0}
ASSUME 0 \notin PageNos /\ NoFile \notin Files

Frames == 0 .. NumBufs - 1
NoFrame == -1
INVALID_NUMBER == 0          \* Page::INVALID_NUMBER, the pageNo of a cleared descriptor
Absent == -1                 \* a page the file has not allocated (or has deleted)
Versions == 0 .. MaxWrites
Errors == {"none", "BufferExceeded", "PageNotPinned", "PagePinned", "BadBuffer"}
Keys == Files \X PageNos

VARIABLES
    bufDescTable,  \* frame -> descriptor
    bufPool,       \* frame -> version of the page bytes held in the frame
    hashTable,     \* (file, pageNo) -> frame, or NoFrame
    clockHand,
    disk,          \* (file, pageNo) -> version on disk, or Absent
    err,           \* exception raised by the last operation
    held, latest, mustDirty, writes   \* the caller

bmVars == <<bufDescTable, bufPool, hashTable, clockHand, disk, err>>
callerVars == <<held, latest, mustDirty, writes>>
vars == <<bmVars, callerVars>>

Desc == [file: Files \cup {NoFile}, pageNo: PageNos \cup {INVALID_NUMBER},
         valid: BOOLEAN, dirty: BOOLEAN, refbit: BOOLEAN, pinCnt: 0 .. MaxPins]

\* BufDesc::Clear()
Cleared == [file |-> NoFile, pageNo |-> INVALID_NUMBER, valid |-> FALSE,
            dirty |-> FALSE, refbit |-> FALSE, pinCnt |-> 0]

\* BufDesc::Set(file, pageNo)
SetDesc(f, p) == [file |-> f, pageNo |-> p, valid |-> TRUE,
                  dirty |-> FALSE, refbit |-> TRUE, pinCnt |-> 1]

TypeOK ==
    /\ bufDescTable \in [Frames -> Desc]
    /\ bufPool \in [Frames -> Versions]
    /\ hashTable \in [Keys -> Frames \cup {NoFrame}]
    /\ clockHand \in Frames
    /\ disk \in [Keys -> Versions \cup {Absent}]
    /\ err \in Errors
    /\ held \in [Keys -> 0 .. MaxPins]
    /\ latest \in [Keys -> Versions \cup {Absent}]
    /\ mustDirty \subseteq Keys
    /\ writes \in 0 .. MaxWrites

\* BufMgr::BufMgr(bufs)
Init ==
    /\ bufDescTable = [fr \in Frames |-> Cleared]
    /\ bufPool = [fr \in Frames |-> 0]
    /\ hashTable = [k \in Keys |-> NoFrame]
    /\ clockHand = NumBufs - 1
    /\ disk = [k \in Keys |-> Absent]
    /\ err = "none"
    /\ held = [k \in Keys |-> 0]
    /\ latest = [k \in Keys |-> Absent]
    /\ mustDirty = {}
    /\ writes = 0

(***************************************************************************)
(* allocBuf: the clock loop, run to completion on a record s of the state *)
(* it changes.  count is pinnedCount, frame the chosen frame or NoFrame   *)
(* when BufferExceededException is thrown.                                 *)
(***************************************************************************)
AdvanceClock(h) == (h + 1) % NumBufs

RECURSIVE ClockLoop(_)
ClockLoop(s) ==
    LET h == AdvanceClock(s.hand)
        d == s.desc[h]
        t == [s EXCEPT !.hand = h]
    IN CASE s.count >= NumBufs -> [t EXCEPT !.frame = NoFrame]
         [] ~d.valid -> [t EXCEPT !.desc[h] = Cleared, !.frame = h]
         [] d.refbit -> ClockLoop([t EXCEPT !.desc[h].refbit = FALSE])
         [] d.pinCnt > 0 -> ClockLoop([t EXCEPT !.count = @ + 1])
         [] OTHER -> [t EXCEPT !.ht[<<d.file, d.pageNo>>] = NoFrame,
                               !.disk = IF d.dirty
                                        THEN [@ EXCEPT ![<<d.file, d.pageNo>>] = s.pool[h]]
                                        ELSE @,
                               !.desc[h] = Cleared, !.frame = h]

\* Mutant: the clock takes a frame whose refbit is clear without looking at pinCnt.
RECURSIVE ClockLoopNoPinCheck(_)
ClockLoopNoPinCheck(s) ==
    LET h == AdvanceClock(s.hand)
        d == s.desc[h]
        t == [s EXCEPT !.hand = h]
    IN CASE s.count >= NumBufs -> [t EXCEPT !.frame = NoFrame]
         [] ~d.valid -> [t EXCEPT !.desc[h] = Cleared, !.frame = h]
         [] d.refbit -> ClockLoopNoPinCheck([t EXCEPT !.desc[h].refbit = FALSE])
         [] OTHER -> [t EXCEPT !.ht[<<d.file, d.pageNo>>] = NoFrame,
                               !.disk = IF d.dirty
                                        THEN [@ EXCEPT ![<<d.file, d.pageNo>>] = s.pool[h]]
                                        ELSE @,
                               !.desc[h] = Cleared, !.frame = h]

AllocBufNoPinCheck(dsk) ==
    ClockLoopNoPinCheck([desc |-> bufDescTable, pool |-> bufPool, ht |-> hashTable,
                         disk |-> dsk, hand |-> clockHand, count |-> 0, frame |-> NoFrame])

\* allocBuf(frame) on the disk dsk the caller's file presents
AllocBuf(dsk) == ClockLoop([desc |-> bufDescTable, pool |-> bufPool, ht |-> hashTable,
                            disk |-> dsk, hand |-> clockHand, count |-> 0, frame |-> NoFrame])

\* The state allocBuf leaves behind, whether it found a frame or threw.
TakeAllocBuf(r) ==
    /\ clockHand' = r.hand
    /\ disk' = r.disk

Cached(k) == hashTable[k] # NoFrame

(***************************************************************************)
(* readPage(file, pageNo, page)                                            *)
(***************************************************************************)
ReadPageHit(f, p) ==
    LET fr == hashTable[<<f, p>>] IN
    /\ Cached(<<f, p>>)
    /\ bufDescTable' = [bufDescTable EXCEPT ![fr].refbit = TRUE, ![fr].pinCnt = @ + 1]
    /\ err' = "none"
    /\ UNCHANGED <<bufPool, hashTable, clockHand, disk>>

ReadPageMiss(f, p) ==
    LET r == AllocBuf(disk) IN
    /\ ~Cached(<<f, p>>)
    /\ TakeAllocBuf(r)
    /\ IF r.frame = NoFrame
       THEN /\ bufDescTable' = r.desc
            /\ UNCHANGED <<bufPool, hashTable>>
            /\ err' = "BufferExceeded"
       ELSE /\ bufPool' = [bufPool EXCEPT ![r.frame] = r.disk[<<f, p>>]]
            /\ hashTable' = [r.ht EXCEPT ![<<f, p>>] = r.frame]
            /\ bufDescTable' = [r.desc EXCEPT ![r.frame] = SetDesc(f, p)]
            /\ err' = "none"

\* The caller only reads pages its file has allocated.
ReadPage(f, p) ==
    /\ disk[<<f, p>>] # Absent
    /\ held[<<f, p>>] < MaxPins
    /\ \/ ReadPageHit(f, p)
       \/ ReadPageMiss(f, p)
    /\ held' = [held EXCEPT ![<<f, p>>] = IF err' = "none" THEN @ + 1 ELSE @]
    /\ UNCHANGED <<latest, mustDirty, writes>>

(***************************************************************************)
(* unPinPage(file, pageNo, dirty)                                          *)
(***************************************************************************)
\* Mutant: unPinPage assigns the dirty argument instead of or-ing it in.
UnPinPageAssignDirty(f, p, dirty) ==
    LET k == <<f, p>>
        fr == hashTable[k]
    IN
    /\ k \in mustDirty => dirty
    /\ \/ /\ ~Cached(k)
          /\ err' = "none"
          /\ UNCHANGED <<bufDescTable, held, mustDirty>>
       \/ /\ Cached(k)
          /\ bufDescTable[fr].pinCnt = 0
          /\ err' = "PageNotPinned"
          /\ UNCHANGED <<bufDescTable, held, mustDirty>>
       \/ /\ Cached(k)
          /\ bufDescTable[fr].pinCnt > 0
          /\ bufDescTable' = [bufDescTable EXCEPT ![fr].pinCnt = @ - 1,
                                                  ![fr].dirty = dirty]
          /\ err' = "none"
          /\ held' = [held EXCEPT ![k] = @ - 1]
          /\ mustDirty' = IF dirty THEN mustDirty \ {k} ELSE mustDirty
    /\ UNCHANGED <<bufPool, hashTable, clockHand, disk, latest, writes>>

\* Mutant: the pin count is decremented without the pinCnt == 0 check.
UnPinPageNoPinCheck(f, p, dirty) ==
    LET k == <<f, p>>
        fr == hashTable[k]
    IN
    /\ k \in mustDirty => dirty
    /\ \/ /\ ~Cached(k)
          /\ err' = "none"
          /\ UNCHANGED <<bufDescTable, held, mustDirty>>
       \/ /\ Cached(k)
          /\ bufDescTable' = [bufDescTable EXCEPT ![fr].pinCnt = @ - 1,
                                                  ![fr].dirty = @ \/ dirty]
          /\ err' = "none"
          /\ held' = [held EXCEPT ![k] = @ - 1]
          /\ mustDirty' = IF dirty THEN mustDirty \ {k} ELSE mustDirty
    /\ UNCHANGED <<bufPool, hashTable, clockHand, disk, latest, writes>>

UnPinPage(f, p, dirty) ==
    LET k == <<f, p>>
        fr == hashTable[k]
    IN
    \* the caller passes dirty = TRUE whenever it wrote the page
    /\ k \in mustDirty => dirty
    /\ \/ /\ ~Cached(k)
          /\ err' = "none"
          /\ UNCHANGED <<bufDescTable, held, mustDirty>>
       \/ /\ Cached(k)
          /\ bufDescTable[fr].pinCnt = 0
          /\ err' = "PageNotPinned"
          /\ UNCHANGED <<bufDescTable, held, mustDirty>>
       \/ /\ Cached(k)
          /\ bufDescTable[fr].pinCnt > 0
          /\ bufDescTable' = [bufDescTable EXCEPT ![fr].pinCnt = @ - 1,
                                                  ![fr].dirty = @ \/ dirty]
          /\ err' = "none"
          /\ held' = [held EXCEPT ![k] = @ - 1]
          /\ mustDirty' = IF dirty THEN mustDirty \ {k} ELSE mustDirty
    /\ UNCHANGED <<bufPool, hashTable, clockHand, disk, latest, writes>>

(***************************************************************************)
(* allocPage(file, pageNo, page): the file allocates the page before       *)
(* allocBuf runs, so a BufferExceededException leaves it allocated.        *)
(***************************************************************************)
AllocPage(f) ==
    \E p \in PageNos :
        LET k == <<f, p>>
            newDisk == [disk EXCEPT ![k] = 0]     \* File::allocatePage()
            r == AllocBuf(newDisk)
        IN
        /\ disk[k] = Absent
        /\ TakeAllocBuf(r)
        /\ latest' = [latest EXCEPT ![k] = 0]
        /\ IF r.frame = NoFrame
           THEN /\ bufDescTable' = r.desc
                /\ UNCHANGED <<bufPool, hashTable, held>>
                /\ err' = "BufferExceeded"
           ELSE /\ bufPool' = [bufPool EXCEPT ![r.frame] = 0]
                /\ hashTable' = [r.ht EXCEPT ![k] = r.frame]
                /\ bufDescTable' = [r.desc EXCEPT ![r.frame] = SetDesc(f, p)]
                /\ held' = [held EXCEPT ![k] = 1]
                /\ err' = "none"
        /\ UNCHANGED <<mustDirty, writes>>

(***************************************************************************)
(* disposePage(file, pageNo).  Disposing of a pinned page is undefined,    *)
(* so the caller only disposes of pages it holds no pin on.                *)
(***************************************************************************)
\* Mutant: disposePage clears the descriptor but leaves the hash entry.
DisposePageKeepHash(f, p) ==
    LET k == <<f, p>>
        fr == hashTable[k]
    IN
    /\ disk[k] # Absent
    /\ held[k] = 0
    /\ IF Cached(k)
       THEN /\ bufDescTable' = [bufDescTable EXCEPT ![fr] = Cleared]
            /\ UNCHANGED hashTable
       ELSE UNCHANGED <<bufDescTable, hashTable>>
    /\ disk' = [disk EXCEPT ![k] = Absent]
    /\ latest' = [latest EXCEPT ![k] = Absent]
    /\ err' = "none"
    /\ UNCHANGED <<bufPool, clockHand, held, mustDirty, writes>>

DisposePage(f, p) ==
    LET k == <<f, p>>
        fr == hashTable[k]
    IN
    /\ disk[k] # Absent
    /\ held[k] = 0
    /\ IF Cached(k)
       THEN /\ bufDescTable' = [bufDescTable EXCEPT ![fr] = Cleared]
            /\ hashTable' = [hashTable EXCEPT ![k] = NoFrame]
       ELSE UNCHANGED <<bufDescTable, hashTable>>
    /\ disk' = [disk EXCEPT ![k] = Absent]        \* File::deletePage()
    /\ latest' = [latest EXCEPT ![k] = Absent]
    /\ err' = "none"
    /\ UNCHANGED <<bufPool, clockHand, held, mustDirty, writes>>

(***************************************************************************)
(* flushFile(file): frames are visited in order 0 .. NumBufs-1 and an      *)
(* exception stops the loop, leaving the frames before it flushed.        *)
(***************************************************************************)
\* Mutant: flushFile clears a dirty frame without writing it to the file.
RECURSIVE FlushLoopNoWriteBack(_, _, _)
FlushLoopNoWriteBack(f, s, i) ==
    LET d == s.desc[i]
        k == <<d.file, d.pageNo>>
    IN CASE i = NumBufs -> s
         [] ~(d.file = f /\ d.valid) -> [s EXCEPT !.err = "BadBuffer"]
         [] d.pinCnt > 0 -> [s EXCEPT !.err = "PagePinned"]
         [] OTHER -> FlushLoopNoWriteBack(f, [s EXCEPT !.ht[k] = NoFrame,
                                                       !.desc[i] = Cleared], i + 1)

RECURSIVE FlushLoop(_, _, _)
FlushLoop(f, s, i) ==
    LET d == s.desc[i]
        k == <<d.file, d.pageNo>>
    IN CASE i = NumBufs -> s
         [] ~(d.file = f /\ d.valid) -> [s EXCEPT !.err = "BadBuffer"]
         [] d.pinCnt > 0 -> [s EXCEPT !.err = "PagePinned"]
         [] OTHER -> FlushLoop(f, [s EXCEPT !.disk = IF d.dirty
                                                     THEN [@ EXCEPT ![k] = s.pool[i]]
                                                     ELSE @,
                                            !.ht[k] = NoFrame,
                                            !.desc[i] = Cleared], i + 1)

FlushFile(f) ==
    LET r == FlushLoop(f, [desc |-> bufDescTable, pool |-> bufPool, ht |-> hashTable,
                           disk |-> disk, err |-> "none"], 0)
    IN /\ bufDescTable' = r.desc
       /\ hashTable' = r.ht
       /\ disk' = r.disk
       /\ err' = r.err
       /\ UNCHANGED <<bufPool, clockHand, callerVars>>

(***************************************************************************)
(* The caller writes the bytes of a page it holds pinned.                  *)
(***************************************************************************)
ClientWrite(f, p) ==
    LET k == <<f, p>> IN
    /\ held[k] > 0
    /\ writes < MaxWrites
    /\ writes' = writes + 1
    /\ bufPool' = [bufPool EXCEPT ![hashTable[k]] = writes + 1]
    /\ latest' = [latest EXCEPT ![k] = writes + 1]
    /\ mustDirty' = mustDirty \cup {k}
    /\ UNCHANGED <<bufDescTable, hashTable, clockHand, disk, err, held>>

Next ==
    \/ \E f \in Files :
         \/ AllocPage(f)
         \/ FlushFile(f)
         \/ \E p \in PageNos :
              \/ ReadPage(f, p)
              \/ \E dirty \in BOOLEAN : UnPinPage(f, p, dirty)
              \/ DisposePage(f, p)
              \/ ClientWrite(f, p)

Spec == Init /\ [][Next]_vars

(***************************************************************************)
(* Properties                                                              *)
(***************************************************************************)
Owner(fr) == <<bufDescTable[fr].file, bufDescTable[fr].pageNo>>

\* The hash table maps exactly the (file, pageNo) of every valid descriptor
\* to its frame, so no page is ever in two frames: allocBuf, flushFile and
\* disposePage must each remove the entry of the descriptor they clear.
HashMatchesDescriptors ==
    \A k \in Keys, fr \in Frames :
        hashTable[k] = fr <=> (bufDescTable[fr].valid /\ Owner(fr) = k)

\* Every pin the caller holds is counted in the frame of its page, and a
\* page the caller holds pinned is never evicted by the clock of allocBuf.
PinsMatchHolds ==
    \A k \in Keys :
        IF Cached(k) THEN bufDescTable[hashTable[k]].pinCnt = held[k]
                     ELSE held[k] = 0

\* No write of the caller is lost: the newest version of every allocated
\* page is in its frame if it is cached and on disk if it is not, across
\* unPinPage's dirty flag, allocBuf's write-back and flushFile.
NoLostWrite ==
    \A k \in Keys :
        disk[k] # Absent =>
            IF Cached(k) THEN bufPool[hashTable[k]] = latest[k]
                         ELSE disk[k] = latest[k]

\* allocBuf throws BufferExceededException only when every frame is pinned
\* (spec: "if all frames are pinned, it raises BufferExceeded").
ClockCompleteness ==
    [][err' = "BufferExceeded" => \A fr \in Frames : bufDescTable[fr].pinCnt > 0]_vars

\* flushFile(file) of a file none of whose pages is pinned completes without
\* an exception (spec: it flushes every active frame belonging to file).
FlushCompletes ==
    [][\A f \in Files :
         (FlushFile(f) /\ \A fr \in Frames : Owner(fr)[1] = f => bufDescTable[fr].pinCnt = 0)
            => err' = "none"]_vars


(***************************************************************************)
(* The buffer manager implements the page store of PageStore: the content  *)
(* of a page is its frame's while the page is cached and the file's        *)
(* otherwise, and its pins are the pinCnt of its frame.                     *)
(***************************************************************************)
StoreView == [k \in Keys |-> IF disk[k] = Absent THEN Absent
                             ELSE IF Cached(k) THEN bufPool[hashTable[k]]
                             ELSE disk[k]]
PinView == [k \in Keys |-> IF Cached(k) THEN bufDescTable[hashTable[k]].pinCnt ELSE 0]

Abstract == INSTANCE PageStore WITH store <- StoreView, pinned <- PinView

\* Every step of readPage, unPinPage, allocPage, disposePage, flushFile and
\* the caller's writes is a step of the page store or leaves it unchanged:
\* in particular the clock's evictions, flushFile's write-back and every
\* call that throws change neither a page's content nor its pins.
PageStoreRefinement == Abstract!Spec

=============================================================================
