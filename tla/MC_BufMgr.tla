----------------------------- MODULE MC_BufMgr -----------------------------
(* Model-checking instance of BufMgr: two files, two page numbers each and *)
(* a pool of two frames, so the pool is full as soon as two pages are in.  *)
EXTENDS BufMgr, TLC

CONSTANTS f1, f2

MCFiles == {f1, f2}
MCPageNos == {1, 2}
MCSymmetry == Permutations(MCFiles)
=============================================================================
