----------------------------- MODULE MCHostReset ------------------------------
(* A small instance of HostReset for TLC. *)
EXTENDS HostReset

\* The instance is one that the theorems of HostResetProofs are about.
ASSUME AloneAssumption == OneCall
=============================================================================
