------------------------- MODULE OutcomeGenerationMC -------------------------
(***************************************************************************)
(* Small configurations of oracles for OutcomeGeneration.                  *)
(***************************************************************************)
EXTENDS OutcomeGenerationProperties, TLC
CONSTANTS a, b, p1, p2, p3, p4

\* every oracle leads one epoch of a span of as many epochs as there are oracles
LeaderOfThree == [e \in Epoch |-> CASE e % 3 = 1 -> p3 [] e % 3 = 2 -> p2 [] OTHER -> p1]
LeaderOfFour == [e \in Epoch |-> CASE e % 4 = 1 -> p4 [] e % 4 = 2 -> p2 [] e % 4 = 3 -> p1 [] OTHER -> p3]
ValueSymmetry == Permutations(Value)
=============================================================================
