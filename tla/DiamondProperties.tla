-------------------------- MODULE DiamondProperties --------------------------
(***************************************************************************)
(* What must be true of Diamond.                                           *)
(***************************************************************************)
EXTENDS Diamond

(* Every variable has its type. *)
TypeOK ==
  /\ tables \in Tables
  /\ frames \in Seq(Frame)

\* The facet whose functions are being added: it is on the list before it has
\* its first function.
Filling(f) == Looping /\ Cut.action # "Remove" /\ Cut.facet = f

-----------------------------------------------------------------------------
(* Safety.                                                                 *)

\* The two tables of selectors agree with each other.
SelectorsExactIn(t) ==
  /\ \A f \in Address : \A i \in DOMAIN t.selectors[f] :
       /\ t.facetOf[t.selectors[f][i]] = f
       /\ t.position[t.selectors[f][i]] = i - 1
  /\ \A s \in Selector : t.facetOf[s] # NoAddress =>
       /\ t.position[s] + 1 \in DOMAIN t.selectors[t.facetOf[s]]
       /\ t.selectors[t.facetOf[s]][t.position[s] + 1] = s

\* The list of facets has exactly those of the set F, at their positions.
FacetsExactIn(t, F) ==
  /\ \A i \in DOMAIN t.facets :
       t.facets[i] \in F /\ t.facetPosition[t.facets[i]] = i - 1
  /\ \A f \in F : /\ t.facetPosition[f] + 1 \in DOMAIN t.facets
                  /\ t.facets[t.facetPosition[f] + 1] = f

\* The addresses that have functions.
Facets(t) == {f \in Address : t.selectors[f] # <<>>}

(* After every selector of every cut, of whatever kinds and in whatever    *)
(* order, both swap-and-pops have left the tables exact: a function is on  *)
(* the list of the one facet that implements it, at the position noted for *)
(* it; the list of facets has every address that has functions once, at    *)
(* its position, and no other; and the position that the loops of          *)
(* addFunctions and replaceFunctions count on their own is where the next  *)
(* selector goes, although removals happen in between.                     *)
TablesExact ==
  /\ SelectorsExactIn(tables)
  /\ FacetsExactIn(tables, Facets(tables) \cup {f \in Address : Filling(f)})
  /\ Looping /\ Cut.action # "Remove" =>
       Top.next = Len(tables.selectors[Cut.facet])

-----------------------------------------------------------------------------
(* Steps.                                                                  *)

\* The facet of s that the cuts ask for, given the functions m before them:
\* the last cut that names s decides.
Asked(cuts, m, s) ==
  LET named == {i \in DOMAIN cuts : s \in Range(cuts[i].selectors)}
  IN  IF named = {} THEN m[s] ELSE cuts[Max(named)].facet

(* When a call is through with its cuts, every selector has the facet that *)
(* the last cut naming it asks for, and every other the facet that it had  *)
(* when the call began.                                                    *)
CutApplied ==
  [][Cutting /\ Done' /\ Len(frames') = Len(frames) =>
       \A s \in Selector : tables'.facetOf[s]
                           = Asked(Top.request.cuts, Top.saved.facetOf, s)]_vars

-----------------------------------------------------------------------------
(* Refinement.                                                             *)

\* The functions as each call found them, and as they are now.
Drafts ==
  [i \in 1..(Len(frames) + 1) |->
     IF i <= Len(frames) THEN frames[i].saved.facetOf ELSE tables.facetOf]

Routing == INSTANCE FunctionRouting WITH
  Function  <- Selector,
  Contract  <- HasCode,
  Nobody    <- NoAddress,
  Immutable <- Self,
  maps      <- Drafts

(* Diamond implements FunctionRouting: calls are nested transactions that  *)
(* leave all their changes or none, functions go to facets with code only, *)
(* and those of the diamond itself are neither replaced nor removed.       *)
ImplementsRouting == Routing!Spec
=============================================================================
