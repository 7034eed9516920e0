----------------------------- MODULE OrderedIndex -----------------------------
(***************************************************************************)
(* What a BTreeIndex promises its caller (spec, sections 7 and 8): a set   *)
(* of <<key, rid>> entries, and one scan at a time that returns every      *)
(* entry whose key lies in its range, each once, in non-decreasing key     *)
(* order, and reports completion only when none is left.  No pages, no     *)
(* splits, no cursor.  The operations are the public methods btree.h      *)
(* declares, with the contract their comments state.  Inserting during a  *)
(* scan, which the header leaves open, is not part of it.                 *)
(***************************************************************************)
EXTENDS Integers, Sequences

CONSTANTS
    Keys,      \* the keys insertEntry is given
    Rids,      \* record ids
    Vals       \* the bounds startScan is given

VARIABLES
    index,     \* the entries inserted
    scanning,  \* a scan is executing
    pending,   \* entries of the scan's range not yet returned
    out,       \* the entries the current scan returned, in order
    completed  \* the scan reported IndexScanCompleted

vars == <<index, scanning, pending, out, completed>>

Init ==
    /\ index = {}
    /\ scanning = FALSE
    /\ pending = {}
    /\ out = <<>>
    /\ completed = FALSE

Insert(k, r) ==
    /\ ~scanning
    /\ \A e \in index : e[2] # r
    /\ index' = index \cup {<<k, r>>}
    /\ UNCHANGED <<scanning, pending, out, completed>>

Matching(lv, lo, hv, ho) ==
    {e \in index : /\ IF lo = "GT" THEN e[1] > lv ELSE e[1] >= lv
                   /\ IF ho = "LT" THEN e[1] < hv ELSE e[1] <= hv}

\* a scan already executing is ended first ("that needs to be ended
\* here"); an empty range ends the new one at once (NoSuchKeyFound)
StartScan(lv, lo, hv, ho) ==
    /\ pending' = Matching(lv, lo, hv, ho)
    /\ scanning' = (pending' # {})
    /\ out' = <<>>
    /\ completed' = FALSE
    /\ UNCHANGED index

ScanNext ==
    /\ scanning /\ ~completed
    /\ \E e \in pending :
         /\ \A f \in pending : e[1] <= f[1]
         /\ out' = Append(out, e)
         /\ pending' = pending \ {e}
    /\ UNCHANGED <<index, scanning, completed>>

Complete ==
    /\ scanning /\ ~completed
    /\ pending = {}
    /\ completed' = TRUE
    /\ UNCHANGED <<index, scanning, pending, out>>

EndScan ==
    /\ scanning
    /\ scanning' = FALSE
    /\ pending' = {}
    /\ out' = <<>>
    /\ completed' = FALSE
    /\ UNCHANGED index

Next ==
    \/ \E k \in Keys, r \in Rids : Insert(k, r)
    \/ \E lv, hv \in Vals, lo \in {"GT", "GTE"}, ho \in {"LT", "LTE"} :
         lv <= hv /\ StartScan(lv, lo, hv, ho)
    \/ ScanNext
    \/ Complete
    \/ EndScan

Spec == Init /\ [][Next]_vars

=============================================================================
