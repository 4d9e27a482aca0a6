------------------------- MODULE MCTransactionJournal -------------------------
EXTENDS TransactionJournal, TLC

Symmetry == Permutations(Thread)
=============================================================================
