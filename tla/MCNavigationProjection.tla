------------------------ MODULE MCNavigationProjection ------------------------
(* NavigationProjection for TLC: processes are interchangeable, which is    *)
(* sound here because every property checked is an invariant.               *)
EXTENDS NavigationProjection, TLC

Symmetry == Permutations(Processes)
=============================================================================
