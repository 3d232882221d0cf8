---------------------------- MODULE MCMountPool -----------------------------
(* Instances of MountPool for TLC. *)
EXTENDS MountPool, TLC

CONSTANTS d1, d2, d3

ThreeDevs == {d1, d2, d3}

TwoDevs == {d1, d2}

Symmetry == Permutations(TwoDevs)
=============================================================================
