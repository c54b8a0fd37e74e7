------------------------------ MODULE MCCleanup ------------------------------
EXTENDS CleanupProps, TLC
Symmetry == Permutations(Page) \cup Permutations(Hash) \cup Permutations(Slot)
=============================================================================
