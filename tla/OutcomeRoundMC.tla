---------------------------- MODULE OutcomeRoundMC ----------------------------
(***************************************************************************)
(* Small instances of OutcomeRound.                                        *)
(***************************************************************************)
EXTENDS OutcomeRoundProperties, TLC
CONSTANTS p1, p2, p3

ObserverSymmetry == Permutations(Oracle)
=============================================================================
