------------------------- MODULE ReportAttestationMC -------------------------
(***************************************************************************)
(* Small configurations of oracles for ReportAttestation.                  *)
(***************************************************************************)
EXTENDS ReportAttestationProperties, TLC
CONSTANTS p1, p2, p3, p4

=============================================================================
