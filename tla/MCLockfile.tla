----------------------------- MODULE MCLockfile -----------------------------
(* Instances of Lockfile for TLC. *)
EXTENDS Lockfile

CONSTANTS p1, p2, p3

TwoProcs == {p1, p2}
ThreeProcs == {p1, p2, p3}
OneSlot == 1..1
TwoSlots == 1..2
AllErrors == {"create", "symlink", "read", "readlink", "remove"}
NoErrors == {}
Anywhere == Points
\* A process that dies here has removed a pid file but not the link to it.
NotBetweenRemoves == Points \ {"rmlink"}
=============================================================================
