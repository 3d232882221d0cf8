----------------------------- MODULE MCSyslinux -----------------------------
(* Instances of Syslinux for TLC. *)
EXTENDS Syslinux

CONSTANTS a, b
TwoLabels == {a, b}
Symmetry == Permutations(Labels)
OddAppends == {"i1", "-", "---", "noscheme", "bare"}
TwoInitrds == {"i1", "i2"}
=============================================================================
