----------------------------- MODULE PacemakerMC -----------------------------
(***************************************************************************)
(* Small configurations of oracles for Pacemaker.                          *)
(***************************************************************************)
EXTENDS PacemakerProperties, TLC
CONSTANTS p1, p2, p3, p4
=============================================================================
