------------------------- MODULE MCTransferManager -------------------------
\* Small instances of TransferManager for TLC.
EXTENDS TransferManager, TLC

Sym == Permutations(Task) \cup Permutations(Worker)
=============================================================================
