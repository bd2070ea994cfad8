----------------------------- MODULE MCResultStore ---------------------------
(* ResultStore for TLC: benchmarks are interchangeable, and so are files.    *)
EXTENDS ResultStore

Symmetry == Permutations(Bench) \cup Permutations(File)
=============================================================================
