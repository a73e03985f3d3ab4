---------------------------- MODULE GovernanceMC ----------------------------
(***************************************************************************)
(* Small instances of Governance for TLC: what accounts may propose, and   *)
(* their symmetry.                                                         *)
(***************************************************************************)
EXTENDS GovernanceProperties, TLC

Plain(pause) ==
  [facets |-> FALSE, init |-> FALSE, data |-> FALSE, pauseOrUnpause |-> pause]

\* A BIP that adds facets.
OnlyCut == {[Plain(0) EXCEPT !.facets = TRUE]}

\* A BIP that adds facets, one that only pauses, and init contracts: without the
\* calldata for it, and one whose BIP also unpauses.
Mixed ==
  {[Plain(0) EXCEPT !.facets = TRUE], Plain(1),
   [Plain(0) EXCEPT !.init = TRUE], [Plain(2) EXCEPT !.init = TRUE, !.data = TRUE]}

Accounts == Permutations(Account)
=============================================================================
