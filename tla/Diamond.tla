------------------------------- MODULE Diamond -------------------------------
(***************************************************************************)
(* The function tables of a diamond (EIP-2535) and the cuts that change    *)
(* them: LibDiamond.                                                       *)
(*                                                                         *)
(* A call of diamondCut works through a list of facet cuts, selector by    *)
(* selector, and then gives an init contract control, which may call       *)
(* diamondCut again.  Each selector is a step here: what the loops keep in *)
(* local variables is in the frame of the call.  A call that reverts puts  *)
(* the tables back to where they were when it started; the calls that it   *)
(* is nested in may go on.                                                 *)
(*                                                                         *)
(* Positions count from 0 as in the code, sequences from 1.                *)
(***************************************************************************)
EXTENDS Integers, Sequences, SequencesExt

CONSTANTS
  Selector,   \* function selectors
  Address,    \* addresses of contracts and others
  NoAddress,  \* address(0)
  Self,       \* address(this), whose functions are immutable
  HasCode,    \* the addresses with contract code
  Requests,   \* the calls of diamondCut that are asked for
  MaxFrames   \* bound: nesting of calls (the EVM: 1024)

ASSUME AddressAssumption ==
  /\ NoAddress \notin Address
  /\ HasCode \subseteq Address
  /\ Self \in HasCode

FacetCut ==
  [action : {"Add", "Replace", "Remove"}, facet : Address \cup {NoAddress},
   selectors : Seq(Selector)]

\* The arguments of diamondCut; of the calldata, whether there is any.
Request ==
  [cuts : Seq(FacetCut), init : Address \cup {NoAddress}, data : BOOLEAN]

ASSUME RequestsAssumption ==
  /\ Requests \subseteq Request
  /\ MaxFrames \in Nat

VARIABLES
  tables,  \* DiamondStorage
  frames   \* the calls of diamondCut that have not returned, innermost last

vars == <<tables, frames>>

-----------------------------------------------------------------------------
(* The tables.                                                             *)

Tables ==
  [facetOf       : [Selector -> Address \cup {NoAddress}],
   position      : [Selector -> Nat],
   selectors     : [Address -> Seq(Selector)],
   facetPosition : [Address -> Nat],
   facets        : Seq(Address)]

EmptyTables ==
  [facetOf       |-> [s \in Selector |-> NoAddress],
   position      |-> [s \in Selector |-> 0],
   selectors     |-> [f \in Address |-> <<>>],
   facetPosition |-> [f \in Address |-> 0],
   facets        |-> <<>>]

\* Removal of the element at position p of an array: the last one takes its
\* place.
SwapPop(q, p) ==
  [i \in 1..(Len(q) - 1) |-> IF i = p + 1 THEN q[Len(q)] ELSE q[i]]

\* Bug: the position is counted as if the address were listed already.
AddFacetOffByOne(t, f) ==
  [t EXCEPT !.facetPosition = [t.facetPosition EXCEPT ![f] = Len(t.facets) - 1],
            !.facets = Append(t.facets, f)]

\* addFacet, of an address that has no functions yet.
AddFacet(t, f) ==
  [t EXCEPT !.facetPosition = [t.facetPosition EXCEPT ![f] = Len(t.facets)],
            !.facets = Append(t.facets, f)]

\* A facet that has functions is on the list already.
ListFacet(t, f) == IF t.selectors[f] = <<>> THEN AddFacet(t, f) ELSE t

\* addFunction
AddFunction(t, s, p, f) ==
  [t EXCEPT !.facetOf   = [t.facetOf EXCEPT ![s] = f],
            !.position  = [t.position EXCEPT ![s] = p],
            !.selectors = [t.selectors EXCEPT ![f] = Append(t.selectors[f], s)]]

\* The end of removeFunction: a facet without functions is taken off the list.
UnlistFacet(t, f) ==
  [t EXCEPT !.facetPosition = [t.facetPosition EXCEPT
                                 ![Last(t.facets)] = t.facetPosition[f],
                                 ![f] = 0],
            !.facets = SwapPop(t.facets, t.facetPosition[f])]

\* Bug: the selector that takes the freed place keeps its old position.
DropKeepingPosition(t, f, s) ==
  [t EXCEPT !.facetOf   = [t.facetOf EXCEPT ![s] = NoAddress],
            !.position  = [t.position EXCEPT ![s] = 0],
            !.selectors = [t.selectors EXCEPT
                             ![f] = SwapPop(t.selectors[f], t.position[s])]]

\* Bug: what is cleared is the selector that takes the freed place.
DropClearingLast(t, f, s) ==
  [t EXCEPT !.facetOf   = [t.facetOf EXCEPT ![Last(t.selectors[f])] = NoAddress],
            !.position  = [t.position EXCEPT ![Last(t.selectors[f])] = 0],
            !.selectors = [t.selectors EXCEPT
                             ![f] = SwapPop(t.selectors[f], t.position[s])]]

\* The selector is taken off its facet: the last one takes its place.
DropSelector(t, f, s) ==
  [t EXCEPT !.facetOf   = [t.facetOf EXCEPT ![s] = NoAddress],
            !.position  = [t.position EXCEPT
                             ![Last(t.selectors[f])] = t.position[s],
                             ![s] = 0],
            !.selectors = [t.selectors EXCEPT
                             ![f] = SwapPop(t.selectors[f], t.position[s])]]

\* removeFunction
RemoveFunction(t, f, s) ==
  LET u == DropSelector(t, f, s)
  IN  IF u.selectors[f] = <<>> THEN UnlistFacet(u, f) ELSE u

-----------------------------------------------------------------------------
(* The calls.                                                              *)

\* A call of diamondCut: its arguments, the indexes of its two loops (of the
\* one over selectors: 0 before it has begun), the position of the next
\* selector on its facet, and the tables to go back to.
Frame ==
  [request : Request, facetIndex : Nat, selectorIndex : Nat, next : Nat,
   saved : Tables]

Top == frames[Len(frames)]
Cut == Top.request.cuts[Top.facetIndex]
Sel == Cut.selectors[Top.selectorIndex]

Cutting == frames # <<>> /\ Top.facetIndex <= Len(Top.request.cuts)
Looping == Cutting /\ Top.selectorIndex > 0
Done    == frames # <<>> /\ Top.facetIndex > Len(Top.request.cuts)

\* What initializeDiamondCut requires before it calls the init contract.
InitCallable == Top.request.init \in HasCode /\ Top.request.data

Init ==
  /\ tables = EmptyTables
  /\ frames = <<>>

\* diamondCut is called, by a transaction or by the init contract of a call.
Call(request) ==
  /\ frames = <<>> \/ (Done /\ InitCallable)
  /\ Len(frames) < MaxFrames
  /\ frames' = Append(frames,
       [request |-> request, facetIndex |-> 1, selectorIndex |-> 0, next |-> 0,
        saved |-> tables])
  /\ UNCHANGED tables

\* The transaction, or the call within it, leaves no trace.
Revert ==
  /\ tables' = Top.saved
  /\ frames' = Front(frames)

\* The loop over the selectors begins, or goes on with the next one.
Loop(index, next) ==
  frames' = [frames EXCEPT ![Len(frames)] =
    [Top EXCEPT !.selectorIndex = index, !.next = next]]

\* Done with a selector: the next one, or the next facet cut.
Advance(next) ==
  \/ /\ Top.selectorIndex < Len(Cut.selectors)
     /\ Loop(Top.selectorIndex + 1, next)
  \/ /\ Top.selectorIndex = Len(Cut.selectors)
     /\ frames' = [frames EXCEPT ![Len(frames)] =
          [Top EXCEPT !.facetIndex = Top.facetIndex + 1, !.selectorIndex = 0,
                      !.next = 0]]

-----------------------------------------------------------------------------
(* The steps of addFunctions, replaceFunctions and removeFunctions, with   *)
(* their requires in the order of the code.                                *)

Begin == Cutting /\ Top.selectorIndex = 0

\* enforceHasContractCode
HasContractCode(f) == f \in HasCode

NoSelectors ==
  /\ Begin
  /\ Cut.selectors = <<>>
  /\ Revert  \* no selectors

\* addFunctions and replaceFunctions up to their loops.
BeginFacet ==
  /\ Begin
  /\ Cut.selectors # <<>>
  /\ Cut.action \in {"Add", "Replace"}
  /\ \/ Cut.facet = NoAddress /\ Revert  \* facet is address(0)
     \/ /\ Cut.facet # NoAddress
        /\ tables.selectors[Cut.facet] = <<>>
        /\ ~HasContractCode(Cut.facet)
        /\ Revert  \* facet has no code
     \/ /\ Cut.facet # NoAddress
        /\ tables.selectors[Cut.facet] = <<>> => HasContractCode(Cut.facet)
        /\ tables' = ListFacet(tables, Cut.facet)
        /\ Loop(1, Len(tables.selectors[Cut.facet]))

\* removeFunctions up to its loop.
BeginRemove ==
  /\ Begin
  /\ Cut.selectors # <<>>
  /\ Cut.action = "Remove"
  /\ \/ Cut.facet # NoAddress /\ Revert  \* facet is not address(0)
     \/ /\ Cut.facet = NoAddress
        /\ Loop(1, 0)
        /\ UNCHANGED tables

AddSelector ==
  /\ Looping
  /\ Cut.action = "Add"
  /\ \/ tables.facetOf[Sel] # NoAddress /\ Revert  \* function exists
     \/ /\ tables.facetOf[Sel] = NoAddress
        /\ tables' = AddFunction(tables, Sel, Top.next, Cut.facet)
        /\ Advance(Top.next + 1)

\* Bug: the functions of the diamond itself can be removed.
IsRemovableMutable(s) == tables.facetOf[s] # NoAddress

\* What removeFunction requires.
IsRemovable(s) == tables.facetOf[s] \notin {NoAddress, Self}

NotRemovable(s) ==
  \/ tables.facetOf[s] = NoAddress /\ Revert  \* function does not exist
  \/ ~IsRemovable(s) /\ tables.facetOf[s] = Self /\ Revert  \* function is immutable

SameFunction(s) == tables.facetOf[s] = Cut.facet

ReplaceSelector ==
  /\ Looping
  /\ Cut.action = "Replace"
  /\ \/ SameFunction(Sel) /\ Revert  \* same function
     \/ ~SameFunction(Sel) /\ NotRemovable(Sel)
     \/ /\ ~SameFunction(Sel)
        /\ IsRemovable(Sel)
        /\ tables' = AddFunction(
             RemoveFunction(tables, tables.facetOf[Sel], Sel),
             Sel, Top.next, Cut.facet)
        /\ Advance(Top.next + 1)

RemoveSelector ==
  /\ Looping
  /\ Cut.action = "Remove"
  /\ \/ NotRemovable(Sel)
     \/ /\ IsRemovable(Sel)
        /\ tables' = RemoveFunction(tables, tables.facetOf[Sel], Sel)
        /\ Advance(0)

-----------------------------------------------------------------------------
(* initializeDiamondCut                                                    *)

InitRefused ==
  /\ Done
  /\ \/ Top.request.init = NoAddress /\ Top.request.data /\ Revert  \* calldata without init
     \/ Top.request.init # NoAddress /\ ~Top.request.data /\ Revert  \* init without calldata
     \/ /\ Top.request.init # NoAddress /\ Top.request.data /\ Top.request.init \notin HasCode
        /\ Revert  \* init has no code

InitFails == Done /\ InitCallable /\ Revert  \* init reverted

Return ==
  /\ Done
  /\ InitCallable \/ (Top.request.init = NoAddress /\ ~Top.request.data)
  /\ frames' = Front(frames)
  /\ UNCHANGED tables

-----------------------------------------------------------------------------

Next ==
  \/ \E request \in Requests : Call(request)
  \/ NoSelectors
  \/ BeginFacet
  \/ BeginRemove
  \/ AddSelector
  \/ ReplaceSelector
  \/ RemoveSelector
  \/ InitRefused
  \/ InitFails
  \/ Return

Spec == Init /\ [][Next]_vars
=============================================================================
