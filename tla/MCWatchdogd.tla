---------------------------- MODULE MCWatchdogd -----------------------------
(* Instances of Watchdogd for TLC. *)
EXTENDS Watchdogd

CONSTANTS g1, g2, g3

ThreePetters == {g1, g2, g3}
=============================================================================
