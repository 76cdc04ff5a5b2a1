------------------------------ MODULE MCFibers ------------------------------
(* Instances of Fibers for TLC.  Workers, promises and the fibers that are *)
(* not treated apart are interchangeable.                                  *)
EXTENDS Fibers, TLC

Symmetry == Permutations(Thread) \cup Permutations(Promise) \cup Permutations(Roots)
              \cup Permutations(Fiber \ Roots)

=============================================================================
