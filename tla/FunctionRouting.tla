--------------------------- MODULE FunctionRouting ---------------------------
(***************************************************************************)
(* What a diamond promises of its functions: a map from selectors to the   *)
(* contracts that implement them, changed by nested transactions.  A       *)
(* transaction works on a draft of the map, one function at a time; when   *)
(* it commits, the draft replaces the map of the transaction it is nested  *)
(* in, and when it aborts, the draft is forgotten.  Functions come only    *)
(* from contracts that have code, and those of the diamond itself are      *)
(* never touched.                                                          *)
(***************************************************************************)
EXTENDS Sequences, SequencesExt

CONSTANTS
  Function,   \* the functions
  Contract,   \* the contracts that may implement them
  Nobody,     \* for a function that nobody implements
  Immutable   \* the contract whose functions stay for ever

VARIABLE
  maps  \* the committed map first, then the draft of each transaction

Map == [Function -> Contract \cup {Nobody}]

Init == maps = <<[f \in Function |-> Nobody]>>

Start == maps' = Append(maps, Last(maps))

\* Only a draft changes, in one function, which gets or loses its contract.
Assign(f, c) ==
  /\ Len(maps) > 1
  /\ Last(maps)[f] # Immutable
  /\ Last(maps)[f] # c
  /\ maps' = Append(Front(maps), [Last(maps) EXCEPT ![f] = c])

Commit ==
  /\ Len(maps) > 1
  /\ maps' = Append(Front(Front(maps)), Last(maps))

Abort ==
  /\ Len(maps) > 1
  /\ maps' = Front(maps)

Next ==
  \/ Start
  \/ \E f \in Function, c \in Contract \cup {Nobody} : Assign(f, c)
  \/ Commit
  \/ Abort

Spec == Init /\ [][Next]_maps
=============================================================================
