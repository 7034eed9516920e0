-------------------------- MODULE MC_BufMgrDestroy --------------------------
EXTENDS BufMgrDestroy, TLC

CONSTANTS f1, f2

MCFiles == {f1, f2}
MCPageNos == {1, 2}
MCSymmetry == Permutations(MCFiles)
=============================================================================
