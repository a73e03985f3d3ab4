------------------------------ MODULE DiamondMC ------------------------------
(***************************************************************************)
(* Small instances of Diamond for TLC: the calls that are asked for.       *)
(***************************************************************************)
EXTENDS DiamondProperties

\* One facet cut, whatever it asks for, legal or not.
AnyCut ==
  [action : {"Add", "Replace", "Remove"}, facet : Address \cup {NoAddress},
   selectors : SeqOf(Selector, 2)]

OneCut == {[cuts |-> <<c>>, init |-> NoAddress, data |-> FALSE] : c \in AnyCut}

\* A facet cut of one selector that can be legal.
PlainCut ==
  {c \in AnyCut : /\ Len(c.selectors) = 1
                  /\ (c.action = "Remove") = (c.facet = NoAddress)
                  /\ c.facet \in HasCode \cup {NoAddress}}

\* Two facet cuts, the second after the tables have changed.
TwoCuts ==
  {[cuts |-> <<c, d>>, init |-> NoAddress, data |-> FALSE] :
     c \in PlainCut, d \in PlainCut}

\* Up to one facet cut and an init call, legal or not: which of the contracts
\* with code is called makes no difference.
AnyInit ==
  [cuts : {<<>>} \cup {<<c>> : c \in PlainCut},
   init : (Address \ HasCode) \cup {NoAddress, Self}, data : BOOLEAN]

\* All of these calls.
AnyRequest == OneCut \cup TwoCuts \cup AnyInit

Selectors == Permutations(Selector)
=============================================================================
