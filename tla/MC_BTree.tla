------------------------------ MODULE MC_BTree ------------------------------
(* Model-checking instance of BTree with leaves of 4 entries and internal  *)
(* nodes of 3 keys, the smallest capacities with the parity of the 8 KB   *)
(* page (682 and 1023), over 3-bit ints.                                   *)
EXTENDS BTree

\* keys of a relation sorted and made unique on the indexed attribute
DistinctKeys == 1 .. 12

(* While no scan executes, scanNext and endScan throw without reading the *)
(* scan members and startScan overwrites them before it reads them, so    *)
(* states that differ only in what an ended scan left there behave alike. *)
(* The view keeps them only while a scan executes, or in the state right  *)
(* after NoSuchKeyFound, which ScanComplete reads.                        *)
ScanView ==
    IF scanExecuting \/ err = "NoSuchKeyFound" THEN vars
    ELSE <<treeVars, pinCnt, err, inserted, emitted, failures>>

(* emitted is a history variable: no action reads it, only properties do. *)
(* Without it the state of a scan that runs on forever repeats, and TLC   *)
(* finds the cycle.                                                        *)
LivenessView == <<treeVars, scanVars, pinCnt, err, inserted, scanFrom, range, failures>>


(* A caller that never starts a GT scan: GT scans return the low bound     *)
(* itself (btree_scan_gt), and the runs that check a scan against the      *)
(* abstract index leave them out.                                          *)
NoGTOperators == {"LT", "LTE", "GTE"}

(* A caller that restarts scans leaks a pin per restart (BTree_restart); *)
(* the bound keeps the leaked pins finite for the runs that allow it.     *)
PinBound == \A p \in 0 .. MaxPage : pinCnt[p] <= 2

=============================================================================
