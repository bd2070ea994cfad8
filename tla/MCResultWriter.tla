---------------------------- MODULE MCResultWriter ---------------------------
(* ResultWriter for TLC: results are interchangeable, and so are inodes.     *)
EXTENDS ResultWriter, TLC

Symmetry == Permutations(Result) \cup Permutations(Inode)
=============================================================================
