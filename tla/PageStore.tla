------------------------------ MODULE PageStore ------------------------------
(***************************************************************************)
(* What the buffer manager promises its single caller, with no frames, no  *)
(* clock and no write-back: every page of every file has one current      *)
(* content, a version, and a number of pins the caller holds on it.        *)
(*                                                                         *)
(*   - allocating a page makes it exist with version 0, pinned once when   *)
(*     its frame was obtained and unpinned when the pool threw            *)
(*     BufferExceeded after the file had allocated it;                     *)
(*   - reading a page pins it; unpinning releases one pin;                 *)
(*   - only a pinned page is written, and only by the caller;             *)
(*   - only an unpinned page is deleted;                                   *)
(*   - nothing else (eviction, write-back, flushing, a failed call)        *)
(*     changes what the caller sees.                                       *)
(***************************************************************************)
EXTENDS Naturals

CONSTANTS
    Keys,      \* <<file, pageNo>> pairs
    Versions,  \* contents a page can have
    Absent     \* the content of a page the file has not allocated

VARIABLES
    store,     \* key -> version, or Absent
    pinned     \* key -> pins the caller holds

Init ==
    /\ store = [k \in Keys |-> Absent]
    /\ pinned = [k \in Keys |-> 0]

Allocate(k, pins) ==
    /\ store[k] = Absent
    /\ store' = [store EXCEPT ![k] = 0]
    /\ pinned' = [pinned EXCEPT ![k] = pins]

Pin(k) ==
    /\ store[k] # Absent
    /\ pinned' = [pinned EXCEPT ![k] = @ + 1]
    /\ UNCHANGED store

Unpin(k) ==
    /\ pinned[k] > 0
    /\ pinned' = [pinned EXCEPT ![k] = @ - 1]
    /\ UNCHANGED store

Write(k, v) ==
    /\ store[k] # Absent
    /\ pinned[k] > 0
    /\ store' = [store EXCEPT ![k] = v]
    /\ UNCHANGED pinned

Delete(k) ==
    /\ store[k] # Absent
    /\ pinned[k] = 0
    /\ store' = [store EXCEPT ![k] = Absent]
    /\ UNCHANGED pinned

Next ==
    \E k \in Keys :
        \/ \E pins \in {0, 1} : Allocate(k, pins)
        \/ Pin(k)
        \/ Unpin(k)
        \/ \E v \in Versions : Write(k, v)
        \/ Delete(k)

Spec == Init /\ [][Next]_<<store, pinned>>

=============================================================================
