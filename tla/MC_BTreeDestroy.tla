-------------------------- MODULE MC_BTreeDestroy --------------------------
EXTENDS BTreeDestroy
=============================================================================
