---------------------------- MODULE MCBenchExec ----------------------------
EXTENDS BenchExec, TLC
Symm == Permutations(Board)
AnyListing == Listing
=============================================================================
