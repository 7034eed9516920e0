---------------------------- MODULE BufMgrDestroy ----------------------------
(***************************************************************************)
(* The end of a buffer manager's life: BufMgr::~BufMgr() after any         *)
(* sequence of the calls of BufMgr.  The caller has unpinned every page,   *)
(* as a program does before it deletes its buffer manager; after the       *)
(* destructor no call is made, and the file is all that remains.          *)
(***************************************************************************)
EXTENDS BufMgr

VARIABLE destroyed

\* BufMgr::~BufMgr(): delete[] bufPool, with no write-back of any frame
Destroy ==
    /\ ~destroyed
    /\ \A k \in Keys : held[k] = 0
    /\ destroyed' = TRUE
    /\ UNCHANGED vars

DestroyInit == Init /\ destroyed = FALSE

DestroyNext ==
    \/ ~destroyed /\ Next /\ UNCHANGED destroyed
    \/ Destroy

DestroySpec == DestroyInit /\ [][DestroyNext]_<<vars, destroyed>>

\* Once the buffer manager is destroyed, the file holds the last version the
\* caller wrote of every page it allocated (the destructor's comment: "Clean
\* out the dirty pages out of buffer pool").
DestroyKeepsWrites ==
    destroyed => \A k \in Keys : disk[k] # Absent => disk[k] = latest[k]

=============================================================================
