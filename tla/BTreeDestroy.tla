---------------------------- MODULE BTreeDestroy ----------------------------
(***************************************************************************)
(* The end of an index's life: BTreeIndex::~BTreeIndex() after any         *)
(* sequence of the calls of BTree.  The destructor ends a running scan,    *)
(* then bufMgr->flushFile(file), which throws PagePinned when a page of    *)
(* the file is still pinned.  The pool's frames are not part of BTree, so  *)
(* flushFile is reduced to that pin check (its BadBuffer throw on a frame  *)
(* of another file is shown in BufMgr_flush.cfg).  Nothing follows.        *)
(***************************************************************************)
EXTENDS BTree

VARIABLE destroyed

\* ~BTreeIndex: if (scanExecuting) endScan(); bufMgr->flushFile(file);
\* delete file;  nothing catches what flushFile throws.
Destroy ==
    LET pins == IF scanExecuting THEN Unpin(pinCnt, currentPageNum) ELSE pinCnt
    IN /\ ~destroyed
       /\ destroyed' = TRUE
       /\ scanExecuting' = FALSE
       /\ pinCnt' = pins
       /\ err' = IF \E p \in DOMAIN pins : pins[p] > 0 THEN "PagePinned" ELSE "none"
       /\ UNCHANGED <<treeVars, nextEntry, currentPageNum, lowValInt, highValInt,
                      lowOp, highOp, ghostVars>>

DestroyInit == Init /\ destroyed = FALSE

DestroyNext ==
    \/ ~destroyed /\ Next /\ UNCHANGED destroyed
    \/ Destroy

DestroySpec == DestroyInit /\ [][DestroyNext]_<<vars, destroyed>>

\* The destructor does not throw: its comment says "Destructor should not
\* throw any exceptions. All exceptions should be caught in here itself",
\* and the spec that destructors swallow errors.  In the model only a pin
\* leaked by an earlier call breaks it; the real flushFile also throws
\* BadBuffer on any invalid frame or frame of another file, which the
\* model leaves out, so the code throws in more states than these.
DestroyNoThrow == destroyed => err = "none"

=============================================================================
