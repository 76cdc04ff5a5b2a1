---------------------------- MODULE MCRefCount ----------------------------
(* RefCount for TLC.  Addresses and threads are interchangeable, and only  *)
(* safety is checked.                                                      *)
EXTENDS RefCount, TLC

Symmetry == Permutations(Object) \cup Permutations(Thread)

=============================================================================
