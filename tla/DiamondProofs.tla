---------------------------- MODULE DiamondProofs ----------------------------
(***************************************************************************)
(* Proofs about the function tables of a diamond, for any selectors and    *)
(* addresses and for any calls of diamondCut, nested to any depth.         *)
(***************************************************************************)
EXTENDS DiamondProperties, SequenceTheorems, TLAPS

-----------------------------------------------------------------------------
(* Arrays *)

\* Swap-and-pop: one element less, the last one at the place of the one removed.
LEMMA SwapPopFacts ==
  ASSUME NEW S, NEW q \in Seq(S), NEW p \in Nat, p < Len(q)
  PROVE  /\ SwapPop(q, p) \in Seq(S)
         /\ Len(SwapPop(q, p)) = Len(q) - 1
         /\ \A i \in 1..(Len(q) - 1) : SwapPop(q, p)[i] = IF i = p + 1 THEN q[Len(q)] ELSE q[i]
<1>1. Len(q) \in Nat /\ Len(q) - 1 \in Nat /\ q[Len(q)] \in S /\ \A i \in 1..Len(q) : q[i] \in S
  OBVIOUS
<1>2. \A i \in 1..(Len(q) - 1) : (IF i = p + 1 THEN q[Len(q)] ELSE q[i]) \in S
  BY <1>1
<1> QED BY <1>1, <1>2 DEF SwapPop

LEMMA AppendFacts ==
  ASSUME NEW S, NEW q \in Seq(S), NEW x \in S
  PROVE  /\ Append(q, x) \in Seq(S)
         /\ Len(Append(q, x)) = Len(q) + 1
         /\ \A i \in 1..Len(q) : Append(q, x)[i] = q[i]
         /\ Append(q, x)[Len(q) + 1] = x
OBVIOUS

LEMMA FrontFacts ==
  ASSUME NEW S, NEW q \in Seq(S), q # <<>>
  PROVE  /\ Front(q) \in Seq(S) /\ Len(Front(q)) = Len(q) - 1
         /\ \A i \in 1..(Len(q) - 1) : Front(q)[i] = q[i]
         /\ Len(q) \in Nat /\ Len(q) >= 1 /\ Last(q) = q[Len(q)]
<1>1. Len(q) \in Nat /\ Len(q) >= 1 /\ Len(q) - 1 \in Nat /\ 1 <= Len(q)
  OBVIOUS
<1>2. Front(q) = [i \in 1..(Len(q) - 1) |-> q[i]]
  BY <1>1, SMT DEF Front
<1>3. \A i \in 1..(Len(q) - 1) : q[i] \in S
  OBVIOUS
<1> QED BY <1>1, <1>2, <1>3 DEF Last

LEMMA LastReplaced ==
  ASSUME NEW S, NEW q \in Seq(S), q # <<>>, NEW x \in S
  PROVE  /\ [q EXCEPT ![Len(q)] = x] \in Seq(S)
         /\ Len([q EXCEPT ![Len(q)] = x]) = Len(q)
         /\ [q EXCEPT ![Len(q)] = x][Len(q)] = x
         /\ \A i \in 1..(Len(q) - 1) : [q EXCEPT ![Len(q)] = x][i] = q[i]
OBVIOUS

-----------------------------------------------------------------------------
(* The steps of the tables: what becomes of each field *)

LEMMA AddFacetFields ==
  ASSUME NEW t \in Tables, NEW f \in Address
  PROVE  LET u == AddFacet(t, f)
         IN  /\ u \in Tables
             /\ u.facetOf = t.facetOf /\ u.position = t.position /\ u.selectors = t.selectors
             /\ u.facetPosition[f] = Len(t.facets)
             /\ \A g \in Address \ {f} : u.facetPosition[g] = t.facetPosition[g]
             /\ u.facets = Append(t.facets, f)
<1>1. t.facets \in Seq(Address)
  BY DEF Tables
<1>2. Append(t.facets, f) \in Seq(Address) /\ Len(t.facets) \in Nat
  BY <1>1
<1> QED BY <1>2 DEF AddFacet, Tables

LEMMA AddFunctionFields ==
  ASSUME NEW t \in Tables, NEW s \in Selector, NEW p \in Nat, NEW f \in Address
  PROVE  LET u == AddFunction(t, s, p, f)
         IN  /\ u \in Tables
             /\ u.facetOf[s] = f /\ u.position[s] = p
             /\ \A r \in Selector \ {s} :
                  u.facetOf[r] = t.facetOf[r] /\ u.position[r] = t.position[r]
             /\ u.selectors[f] = Append(t.selectors[f], s)
             /\ \A g \in Address \ {f} : u.selectors[g] = t.selectors[g]
             /\ u.facetPosition = t.facetPosition /\ u.facets = t.facets
<1>1. t.selectors[f] \in Seq(Selector)
  BY DEF Tables
<1>2. Append(t.selectors[f], s) \in Seq(Selector)
  BY <1>1
<1> QED BY <1>2 DEF AddFunction, Tables

\* A function is where the tables say.
LEMMA Located ==
  ASSUME NEW t \in Tables, SelectorsExactIn(t), NEW s \in Selector, t.facetOf[s] # NoAddress
  PROVE  LET f == t.facetOf[s] q == t.selectors[f]
         IN  /\ f \in Address /\ q \in Seq(Selector) /\ q # <<>> /\ Len(q) \in Nat
             /\ t.position[s] \in Nat /\ t.position[s] < Len(q)
             /\ q[t.position[s] + 1] = s
             /\ Last(q) = q[Len(q)] /\ Last(q) \in Selector
<1> DEFINE f == t.facetOf[s]
           q == t.selectors[f]
<1>1. f \in Address /\ q \in Seq(Selector) /\ t.position[s] \in Nat
  BY DEF Tables
<1>2. t.position[s] + 1 \in DOMAIN q /\ q[t.position[s] + 1] = s
  BY DEF SelectorsExactIn
<1>3. Len(q) \in Nat /\ t.position[s] < Len(q) /\ q # <<>>
  BY <1>1, <1>2
<1>4. Last(q) = q[Len(q)] /\ Last(q) \in Selector
  BY <1>1, <1>3 DEF Last
<1> QED BY <1>1, <1>2, <1>3, <1>4

LEMMA DropSelectorFields ==
  ASSUME NEW t \in Tables, SelectorsExactIn(t), NEW s \in Selector, t.facetOf[s] # NoAddress
  PROVE  LET f == t.facetOf[s] q == t.selectors[f] u == DropSelector(t, f, s)
         IN  /\ u \in Tables
             /\ u.facetOf[s] = NoAddress
             /\ \A r \in Selector \ {s} :
                  /\ u.facetOf[r] = t.facetOf[r]
                  /\ u.position[r] = IF r = q[Len(q)] THEN t.position[s] ELSE t.position[r]
             /\ u.selectors[f] = SwapPop(q, t.position[s])
             /\ \A g \in Address \ {f} : u.selectors[g] = t.selectors[g]
             /\ u.facetPosition = t.facetPosition /\ u.facets = t.facets
<1> DEFINE f == t.facetOf[s]
           q == t.selectors[f]
<1>1. /\ f \in Address /\ q \in Seq(Selector) /\ t.position[s] \in Nat /\ t.position[s] < Len(q)
      /\ Last(q) = q[Len(q)] /\ q[Len(q)] \in Selector
  BY Located
<1>2. SwapPop(q, t.position[s]) \in Seq(Selector)
  BY <1>1, SwapPopFacts
<1> QED BY <1>1, <1>2 DEF DropSelector, Tables

\* A listed facet has a place on the list.
LEMMA Listed ==
  ASSUME NEW t \in Tables, NEW F, FacetsExactIn(t, F), NEW f \in F, f \in Address
  PROVE  /\ t.facets \in Seq(Address) /\ t.facets # <<>> /\ Len(t.facets) \in Nat
         /\ t.facetPosition[f] \in Nat /\ t.facetPosition[f] < Len(t.facets)
         /\ t.facets[t.facetPosition[f] + 1] = f
         /\ Last(t.facets) = t.facets[Len(t.facets)] /\ Last(t.facets) \in Address
<1>1. t.facets \in Seq(Address) /\ t.facetPosition[f] \in Nat
  BY DEF Tables
<1>2. t.facetPosition[f] + 1 \in DOMAIN t.facets /\ t.facets[t.facetPosition[f] + 1] = f
  BY DEF FacetsExactIn
<1>3. Len(t.facets) \in Nat /\ t.facetPosition[f] < Len(t.facets) /\ t.facets # <<>>
  BY <1>1, <1>2
<1>4. Last(t.facets) = t.facets[Len(t.facets)] /\ Last(t.facets) \in Address
  BY <1>1, <1>3 DEF Last
<1> QED BY <1>1, <1>2, <1>3, <1>4

LEMMA UnlistFacetFields ==
  ASSUME NEW t \in Tables, NEW F, FacetsExactIn(t, F), NEW f \in F, f \in Address
  PROVE  LET u == UnlistFacet(t, f)
         IN  /\ u \in Tables
             /\ u.facetOf = t.facetOf /\ u.position = t.position /\ u.selectors = t.selectors
             /\ \A g \in Address \ {f} : u.facetPosition[g] =
                  IF g = t.facets[Len(t.facets)] THEN t.facetPosition[f] ELSE t.facetPosition[g]
             /\ u.facets = SwapPop(t.facets, t.facetPosition[f])
<1>1. SwapPop(t.facets, t.facetPosition[f]) \in Seq(Address)
  BY Listed, SwapPopFacts
<1> QED BY <1>1, Listed DEF UnlistFacet, Tables

-----------------------------------------------------------------------------
(* The steps of the tables: they stay exact *)

LEMMA AddFacetExact ==
  ASSUME NEW t \in Tables, SelectorsExactIn(t), NEW F \in SUBSET Address, FacetsExactIn(t, F),
         NEW f \in Address, f \notin F
  PROVE  LET u == AddFacet(t, f)
         IN  SelectorsExactIn(u) /\ FacetsExactIn(u, F \cup {f})
<1> DEFINE u == AddFacet(t, f)
           n == Len(t.facets)
<1>1. /\ u.facetOf = t.facetOf /\ u.position = t.position /\ u.selectors = t.selectors
      /\ u.facetPosition[f] = n
      /\ \A g \in Address \ {f} : u.facetPosition[g] = t.facetPosition[g]
      /\ u.facets = Append(t.facets, f)
  BY AddFacetFields
<1>2. t.facets \in Seq(Address) /\ n \in Nat /\ t.facetPosition \in [Address -> Nat]
  BY DEF Tables
<1>3. SelectorsExactIn(u)
  BY <1>1 DEF SelectorsExactIn
<1>4. /\ Len(u.facets) = n + 1 /\ u.facets \in Seq(Address) /\ u.facets[n + 1] = f
      /\ \A i \in 1..n : u.facets[i] = t.facets[i]
  BY <1>1, <1>2, AppendFacts
<1>5. /\ \A i \in 1..n : t.facets[i] \in F /\ t.facetPosition[t.facets[i]] = i - 1
      /\ \A g \in F : t.facetPosition[g] + 1 \in 1..n /\ t.facets[t.facetPosition[g] + 1] = g
  BY <1>2 DEF FacetsExactIn
<1>6. u.facetPosition[f] = n /\ \A g \in F : u.facetPosition[g] = t.facetPosition[g]
  BY <1>1, <1>2
<1> HIDE DEF u, n
<1>7. ASSUME NEW i \in DOMAIN u.facets
      PROVE  u.facets[i] \in F \cup {f} /\ u.facetPosition[u.facets[i]] = i - 1
  <2>1. i \in 1..n \/ i = n + 1
    BY <1>2, <1>4
  <2>2. CASE i \in 1..n
    BY <1>4, <1>5, <1>6, <2>2
  <2>3. CASE i = n + 1
    BY <1>2, <1>4, <1>6, <2>3
  <2> QED BY <2>1, <2>2, <2>3
<1>8. ASSUME NEW g \in F \cup {f}
      PROVE  u.facetPosition[g] + 1 \in DOMAIN u.facets /\ u.facets[u.facetPosition[g] + 1] = g
  <2>1. DOMAIN u.facets = 1..(n + 1)
    BY <1>4
  <2>2. CASE g = f
    BY <1>2, <1>4, <1>6, <2>1, <2>2
  <2>3. CASE g \in F
    <3>1. t.facetPosition[g] + 1 \in 1..n /\ u.facetPosition[g] = t.facetPosition[g]
      BY <1>5, <1>6, <2>3
    <3>2. t.facetPosition[g] + 1 \in 1..(n + 1)
      BY <1>2, <3>1
    <3> QED BY <1>4, <1>5, <2>1, <2>3, <3>1, <3>2
  <2> QED BY <2>2, <2>3
<1> QED BY <1>3, <1>7, <1>8 DEF FacetsExactIn, u

LEMMA AddFunctionExact ==
  ASSUME NEW t \in Tables, SelectorsExactIn(t), NEW s \in Selector, t.facetOf[s] = NoAddress,
         NEW f \in Address, NEW n \in Nat, n = Len(t.selectors[f])
  PROVE  LET u == AddFunction(t, s, n, f)
         IN  /\ u \in Tables /\ SelectorsExactIn(u)
             /\ Facets(u) = Facets(t) \cup {f}
             /\ Len(u.selectors[f]) = n + 1
<1> DEFINE q == t.selectors[f]
           u == AddFunction(t, s, n, f)
<1>1. q \in Seq(Selector) /\ n = Len(q) /\ f # NoAddress
  BY AddressAssumption DEF Tables
<1>2. /\ u \in Tables
      /\ u.selectors[f] = Append(q, s) /\ \A g \in Address \ {f} : u.selectors[g] = t.selectors[g]
      /\ u.facetOf[s] = f /\ u.position[s] = n
      /\ \A r \in Selector \ {s} : u.facetOf[r] = t.facetOf[r] /\ u.position[r] = t.position[r]
  <2>1. u \in Tables
    BY AddFunctionFields
  <2>2. u.selectors[f] = Append(q, s)
    BY AddFunctionFields
  <2>3. ASSUME NEW g \in Address \ {f} PROVE u.selectors[g] = t.selectors[g]
    BY AddFunctionFields
  <2>4. u.facetOf[s] = f /\ u.position[s] = n
    BY AddFunctionFields
  <2>5. \A r \in Selector \ {s} : u.facetOf[r] = t.facetOf[r] /\ u.position[r] = t.position[r]
    BY AddFunctionFields
  <2> QED BY <2>1, <2>2, <2>3, <2>4, <2>5
<1>3. /\ t.facetOf \in [Selector -> Address \cup {NoAddress}] /\ t.position \in [Selector -> Nat]
      /\ t.selectors \in [Address -> Seq(Selector)]
  BY DEF Tables
<1>4. /\ Append(q, s) \in Seq(Selector) /\ Len(Append(q, s)) = n + 1 /\ Append(q, s)[n + 1] = s
      /\ \A i \in 1..n : Append(q, s)[i] = q[i]
  BY <1>1, AppendFacts
<1>5. /\ \A g \in Address : \A i \in DOMAIN t.selectors[g] :
           /\ t.selectors[g][i] \in Selector \ {s}
           /\ t.facetOf[t.selectors[g][i]] = g /\ t.position[t.selectors[g][i]] = i - 1
      /\ \A r \in Selector : t.facetOf[r] # NoAddress =>
           /\ t.position[r] + 1 \in DOMAIN t.selectors[t.facetOf[r]]
           /\ t.selectors[t.facetOf[r]][t.position[r] + 1] = r
  <2>1. \A g \in Address : \A i \in DOMAIN t.selectors[g] : t.selectors[g][i] \in Selector
    BY <1>3
  <2> QED BY <2>1, AddressAssumption DEF SelectorsExactIn
<1> HIDE DEF u
<1>6. ASSUME NEW g \in Address, NEW i \in DOMAIN u.selectors[g]
      PROVE  u.facetOf[u.selectors[g][i]] = g /\ u.position[u.selectors[g][i]] = i - 1
  <2>1. CASE g = f
    <3>1. i \in 1..n \/ i = n + 1
      BY <1>1, <1>4, <1>2, <2>1
    <3>2. CASE i \in 1..n
      <4>1. i \in DOMAIN t.selectors[f] /\ u.selectors[g][i] = t.selectors[f][i]
        BY <1>1, <1>4, <1>2, <2>1, <3>2
      <4> QED BY <1>2, <1>5, <2>1, <4>1
    <3>3. CASE i = n + 1
      BY <1>1, <1>4, <1>2, <2>1, <3>3
    <3> QED BY <3>1, <3>2, <3>3
  <2>2. CASE g # f
    BY <1>2, <1>5, <2>2
  <2> QED BY <2>1, <2>2
<1>7. ASSUME NEW r \in Selector, u.facetOf[r] # NoAddress
      PROVE  /\ u.position[r] + 1 \in DOMAIN u.selectors[u.facetOf[r]]
             /\ u.selectors[u.facetOf[r]][u.position[r] + 1] = r
  <2>1. CASE r = s
    <3>1. n + 1 \in 1..(n + 1) /\ DOMAIN Append(q, s) = 1..(n + 1)
      BY <1>4
    <3> QED BY <1>2, <1>4, <2>1, <3>1
  <2>2. CASE r # s /\ t.facetOf[r] = f
    <3>1. t.position[r] + 1 \in 1..n /\ q[t.position[r] + 1] = r
      BY <1>1, <1>2, <1>5, <1>7, <2>2
    <3>2. t.position[r] + 1 \in 1..(n + 1) /\ DOMAIN Append(q, s) = 1..(n + 1)
      BY <1>1, <1>4, <3>1
    <3>3. u.facetOf[r] = f /\ u.position[r] = t.position[r] /\ u.selectors[f] = Append(q, s)
      BY <1>2, <2>2
    <3> QED BY <1>4, <3>1, <3>2, <3>3
  <2>3. CASE r # s /\ t.facetOf[r] # f
    <3>1. t.facetOf[r] \in Address /\ t.facetOf[r] = u.facetOf[r]
      BY <1>3, <1>2, <1>7, <2>3
    <3> QED BY <1>2, <1>5, <1>7, <2>3, <3>1
  <2> QED BY <2>1, <2>2, <2>3
<1>8. SelectorsExactIn(u)
  BY <1>6, <1>7 DEF SelectorsExactIn
<1>9. Facets(u) = Facets(t) \cup {f}
  <2>1. u.selectors[f] # <<>>
    <3>1. Len(u.selectors[f]) # 0
      BY <1>1, <1>4, <1>2
    <3> QED BY <3>1
  <2> QED BY <1>2, <2>1 DEF Facets
<1> QED BY <1>2, <1>4, <1>8, <1>9 DEF u

LEMMA DropSelectorExact ==
  ASSUME NEW t \in Tables, SelectorsExactIn(t), NEW s \in Selector, t.facetOf[s] # NoAddress
  PROVE  LET f == t.facetOf[s] u == DropSelector(t, f, s)
         IN  SelectorsExactIn(u) /\ Facets(u) \subseteq Facets(t) /\ Facets(t) \subseteq Facets(u) \cup {f}
<1> DEFINE f == t.facetOf[s]
           q == t.selectors[f]
           p == t.position[s]
           n == Len(q)
           u == DropSelector(t, f, s)
<1>1. /\ f \in Address /\ q \in Seq(Selector) /\ q # <<>> /\ n \in Nat /\ p \in Nat /\ p < n
      /\ q[p + 1] = s
  BY Located
<1>2. /\ u.facetOf[s] = NoAddress
      /\ u.selectors[f] = SwapPop(q, p) /\ \A g \in Address \ {f} : u.selectors[g] = t.selectors[g]
      /\ \A r \in Selector \ {s} :
           u.facetOf[r] = t.facetOf[r] /\ u.position[r] = IF r = q[n] THEN p ELSE t.position[r]
  <2>1. u.facetOf[s] = NoAddress /\ u.selectors[f] = SwapPop(q, p)
    BY DropSelectorFields
  <2>2. \A g \in Address \ {f} : u.selectors[g] = t.selectors[g]
    BY DropSelectorFields
  <2>3. \A r \in Selector \ {s} :
          u.facetOf[r] = t.facetOf[r] /\ u.position[r] = IF r = q[n] THEN p ELSE t.position[r]
    BY DropSelectorFields
  <2> QED BY <2>1, <2>2, <2>3
<1>3. /\ Len(SwapPop(q, p)) = n - 1 /\ SwapPop(q, p) \in Seq(Selector)
      /\ \A i \in 1..(n - 1) : SwapPop(q, p)[i] = IF i = p + 1 THEN q[n] ELSE q[i]
  BY <1>1, SwapPopFacts
<1>4. /\ \A g \in Address : \A i \in DOMAIN t.selectors[g] :
           /\ t.selectors[g][i] \in Selector
           /\ t.facetOf[t.selectors[g][i]] = g /\ t.position[t.selectors[g][i]] = i - 1
      /\ \A r \in Selector : t.facetOf[r] # NoAddress =>
           /\ t.position[r] + 1 \in DOMAIN t.selectors[t.facetOf[r]]
           /\ t.selectors[t.facetOf[r]][t.position[r] + 1] = r
  <2>1. \A g \in Address : \A i \in DOMAIN t.selectors[g] : t.selectors[g][i] \in Selector
    BY DEF Tables
  <2> QED BY <2>1 DEF SelectorsExactIn
<1>5. \A i \in 1..n : q[i] \in Selector /\ t.facetOf[q[i]] = f /\ t.position[q[i]] = i - 1
  <2>1. DOMAIN t.selectors[f] = 1..n
    BY <1>1
  <2> HIDE DEF n
  <2> QED BY <1>1, <1>4, <2>1
<1>6. t.facetOf \in [Selector -> Address \cup {NoAddress}] /\ t.position \in [Selector -> Nat]
  BY DEF Tables
<1> HIDE DEF u, f, q, p, n
<1>7. ASSUME NEW g \in Address, NEW i \in DOMAIN u.selectors[g]
      PROVE  u.facetOf[u.selectors[g][i]] = g /\ u.position[u.selectors[g][i]] = i - 1
  <2>1. CASE g = f
    <3>1. i \in 1..(n - 1) /\ u.selectors[g] = SwapPop(q, p)
      BY <1>1, <1>2, <1>3, <2>1
    <3>2. CASE i = p + 1
      <4>1. u.selectors[g][i] = q[n] /\ n \in 1..n /\ n # p + 1
        BY <1>1, <1>3, <3>1, <3>2
      <4>2. q[n] \in Selector \ {s} /\ t.facetOf[q[n]] = f
        BY <1>1, <1>5, <4>1 DEF p
      <4> QED BY <1>1, <1>2, <2>1, <3>2, <4>1, <4>2
    <3>3. CASE i # p + 1
      <4>1. u.selectors[g][i] = q[i] /\ i \in 1..n /\ n \in 1..n /\ i # n
        BY <1>1, <1>3, <3>1, <3>3
      <4>2. q[i] \in Selector /\ q[i] # q[n] /\ t.facetOf[q[i]] = f /\ t.position[q[i]] = i - 1
        BY <1>1, <1>5, <4>1
      <4>3. q[i] # s
        BY <1>1, <3>3, <4>1, <4>2 DEF p
      <4> QED BY <1>2, <2>1, <4>1, <4>2, <4>3
    <3> QED BY <3>2, <3>3
  <2>2. CASE g # f
    <3>1. /\ i \in DOMAIN t.selectors[g] /\ u.selectors[g] = t.selectors[g]
      BY <1>2, <2>2
    <3>2. /\ t.selectors[g][i] \in Selector /\ t.facetOf[t.selectors[g][i]] = g
          /\ t.position[t.selectors[g][i]] = i - 1
      BY <1>4, <3>1
    <3>3. t.selectors[g][i] # s /\ t.selectors[g][i] # q[n]
      <4>1. n \in 1..n
        BY <1>1
      <4> QED BY <1>5, <2>2, <3>2, <4>1 DEF f
    <3> QED BY <1>2, <3>1, <3>2, <3>3
  <2> QED BY <2>1, <2>2
<1>8. ASSUME NEW r \in Selector, u.facetOf[r] # NoAddress
      PROVE  /\ u.position[r] + 1 \in DOMAIN u.selectors[u.facetOf[r]]
             /\ u.selectors[u.facetOf[r]][u.position[r] + 1] = r
  <2>1. /\ r # s /\ u.facetOf[r] = t.facetOf[r] /\ t.facetOf[r] \in Address
        /\ u.position[r] = IF r = q[n] THEN p ELSE t.position[r]
        /\ t.position[r] + 1 \in DOMAIN t.selectors[t.facetOf[r]]
        /\ t.selectors[t.facetOf[r]][t.position[r] + 1] = r
    BY <1>2, <1>4, <1>6, <1>8
  <2>2. n \in 1..n /\ DOMAIN SwapPop(q, p) = 1..(n - 1) /\ DOMAIN q = 1..n
    BY <1>1, <1>3 DEF n
  <2>3. CASE r = q[n]
    <3>1. u.facetOf[r] = f /\ u.position[r] = p
      BY <1>5, <2>1, <2>2, <2>3
    <3>2. p + 1 # n
      BY <1>1, <2>1, <2>3
    <3>3. p + 1 \in 1..(n - 1)
      BY <1>1, <3>2
    <3> QED BY <1>2, <1>3, <2>2, <2>3, <3>1, <3>3
  <2>4. CASE r # q[n] /\ t.facetOf[r] = f
    <3>1. t.position[r] + 1 \in 1..n /\ q[t.position[r] + 1] = r /\ t.position[r] \in Nat
      BY <1>6, <2>1, <2>2, <2>4 DEF q
    <3>2. t.position[r] + 1 # n /\ t.position[r] + 1 # p + 1
      BY <1>1, <2>1, <2>4, <3>1
    <3>3. t.position[r] + 1 \in 1..(n - 1)
      BY <1>1, <3>1, <3>2
    <3>4. SwapPop(q, p)[t.position[r] + 1] = q[t.position[r] + 1]
      BY <1>3, <3>2, <3>3
    <3> QED BY <1>2, <2>1, <2>2, <2>4, <3>1, <3>3, <3>4
  <2>5. CASE r # q[n] /\ t.facetOf[r] # f
    BY <1>2, <2>1, <2>5
  <2> QED BY <2>3, <2>4, <2>5
<1>9. SelectorsExactIn(u)
  BY <1>7, <1>8 DEF SelectorsExactIn
<1>10. Facets(u) \subseteq Facets(t) /\ Facets(t) \subseteq Facets(u) \cup {f}
  BY <1>1, <1>2 DEF Facets, q
<1> QED BY <1>9, <1>10 DEF u, f

LEMMA UnlistFacetExact ==
  ASSUME NEW t \in Tables, SelectorsExactIn(t), NEW F \in SUBSET Address, FacetsExactIn(t, F),
         NEW f \in F
  PROVE  LET u == UnlistFacet(t, f)
         IN  SelectorsExactIn(u) /\ FacetsExactIn(u, F \ {f})
<1> DEFINE q == t.facets
           p == t.facetPosition[f]
           n == Len(q)
           u == UnlistFacet(t, f)
<1>1. q \in Seq(Address) /\ n \in Nat /\ p \in Nat /\ p < n /\ q[p + 1] = f
  BY Listed
<1>2. /\ u.facetOf = t.facetOf /\ u.position = t.position /\ u.selectors = t.selectors
      /\ \A g \in Address \ {f} :
           u.facetPosition[g] = IF g = q[n] THEN p ELSE t.facetPosition[g]
      /\ u.facets = SwapPop(q, p)
  BY UnlistFacetFields
<1>3. /\ Len(u.facets) = n - 1 /\ u.facets \in Seq(Address) /\ DOMAIN u.facets = 1..(n - 1)
      /\ \A i \in 1..(n - 1) : u.facets[i] = IF i = p + 1 THEN q[n] ELSE q[i]
  <2>1. /\ Len(SwapPop(q, p)) = n - 1 /\ SwapPop(q, p) \in Seq(Address)
        /\ \A i \in 1..(n - 1) : SwapPop(q, p)[i] = IF i = p + 1 THEN q[n] ELSE q[i]
    BY <1>1, SwapPopFacts
  <2> QED BY <1>2, <2>1
<1>4. SelectorsExactIn(u)
  BY <1>2 DEF SelectorsExactIn
<1>5. /\ \A i \in 1..n : q[i] \in F /\ t.facetPosition[q[i]] = i - 1
      /\ \A g \in F : t.facetPosition[g] + 1 \in 1..n /\ q[t.facetPosition[g] + 1] = g
  <2>1. DOMAIN q = 1..n
    BY <1>1
  <2> QED BY <2>1 DEF FacetsExactIn
<1>6. t.facetPosition \in [Address -> Nat] /\ n \in 1..n
  BY <1>1 DEF Tables
<1> HIDE DEF u, q, p, n
<1>7. ASSUME NEW i \in DOMAIN u.facets
      PROVE  u.facets[i] \in F \ {f} /\ u.facetPosition[u.facets[i]] = i - 1
  <2>1. i \in 1..(n - 1)
    BY <1>3
  <2>2. CASE i = p + 1
    <3>1. u.facets[i] = q[n] /\ n # p + 1
      BY <1>1, <1>3, <2>1, <2>2
    <3>2. q[n] \in F \ {f}
      BY <1>1, <1>5, <1>6, <3>1 DEF p
    <3> QED BY <1>1, <1>2, <2>2, <3>1, <3>2
  <2>3. CASE i # p + 1
    <3>1. u.facets[i] = q[i] /\ i \in 1..n /\ i # n
      BY <1>1, <1>3, <2>1, <2>3
    <3>2. q[i] \in F /\ t.facetPosition[q[i]] = i - 1 /\ q[i] # q[n]
      <4>1. t.facetPosition[q[i]] = i - 1 /\ t.facetPosition[q[n]] = n - 1 /\ q[i] \in F
        BY <1>5, <1>6, <3>1
      <4>2. i - 1 # n - 1
        BY <1>1, <3>1
      <4> QED BY <4>1, <4>2
    <3>3. q[i] # f
      BY <1>1, <2>3, <3>1, <3>2 DEF p
    <3> QED BY <1>2, <3>1, <3>2, <3>3
  <2> QED BY <2>2, <2>3
<1>8. ASSUME NEW g \in F \ {f}
      PROVE  u.facetPosition[g] + 1 \in DOMAIN u.facets /\ u.facets[u.facetPosition[g] + 1] = g
  <2>1. /\ t.facetPosition[g] \in Nat /\ t.facetPosition[g] + 1 \in 1..n
        /\ q[t.facetPosition[g] + 1] = g
        /\ u.facetPosition[g] = IF g = q[n] THEN p ELSE t.facetPosition[g]
    BY <1>2, <1>5, <1>6
  <2>2. CASE g = q[n]
    <3>1. p + 1 # n
      BY <1>1, <2>2
    <3>2. p + 1 \in 1..(n - 1)
      BY <1>1, <3>1
    <3> QED BY <1>3, <2>1, <2>2, <3>2
  <2>3. CASE g # q[n]
    <3>1. t.facetPosition[g] + 1 # n /\ t.facetPosition[g] + 1 # p + 1
      BY <1>1, <2>1, <2>3
    <3>2. t.facetPosition[g] + 1 \in 1..(n - 1)
      BY <1>1, <2>1, <3>1
    <3> QED BY <1>3, <2>1, <2>3, <3>1, <3>2
  <2> QED BY <2>2, <2>3
<1> QED BY <1>4, <1>7, <1>8 DEF FacetsExactIn, u

\* A removal keeps the tables exact; G are facets listed that have no functions yet.
LEMMA RemoveFunctionExact ==
  ASSUME NEW t \in Tables, SelectorsExactIn(t), NEW s \in Selector, t.facetOf[s] # NoAddress,
         NEW G \in SUBSET Address, t.facetOf[s] \notin G, FacetsExactIn(t, Facets(t) \cup G)
  PROVE  LET f == t.facetOf[s] u == RemoveFunction(t, f, s)
         IN  /\ u \in Tables /\ SelectorsExactIn(u) /\ FacetsExactIn(u, Facets(u) \cup G)
             /\ u.facetOf[s] = NoAddress
             /\ \A r \in Selector \ {s} : u.facetOf[r] = t.facetOf[r]
             /\ \A g \in Address \ {f} : u.selectors[g] = t.selectors[g]
<1> DEFINE f == t.facetOf[s]
           d == DropSelector(t, f, s)
           u == RemoveFunction(t, f, s)
<1>1. f \in Facets(t) /\ f \in Address
  BY Located DEF Facets
<1>2. d \in Tables /\ d.facets = t.facets /\ d.facetPosition = t.facetPosition
  BY DropSelectorFields
<1>3. /\ d.facetOf[s] = NoAddress /\ \A r \in Selector \ {s} : d.facetOf[r] = t.facetOf[r]
      /\ \A g \in Address \ {f} : d.selectors[g] = t.selectors[g]
  <2>1. d.facetOf[s] = NoAddress
    BY DropSelectorFields
  <2>2. \A r \in Selector \ {s} : d.facetOf[r] = t.facetOf[r]
    BY DropSelectorFields
  <2>3. \A g \in Address \ {f} : d.selectors[g] = t.selectors[g]
    BY DropSelectorFields
  <2> QED BY <2>1, <2>2, <2>3
<1>4. SelectorsExactIn(d) /\ Facets(d) \subseteq Facets(t) /\ Facets(t) \subseteq Facets(d) \cup {f}
  BY DropSelectorExact
<1>5. FacetsExactIn(d, Facets(t) \cup G)
  BY <1>2 DEF FacetsExactIn
<1>6. u = IF d.selectors[f] = <<>> THEN UnlistFacet(d, f) ELSE d
  BY DEF RemoveFunction
<1> HIDE DEF d, u, f
<1>7. CASE d.selectors[f] = <<>>
  <2>1. u = UnlistFacet(d, f)
    BY <1>6, <1>7
  <2>2. f \in Facets(t) \cup G /\ Facets(t) \cup G \in SUBSET Address
    BY <1>1 DEF Facets
  <2>3. u \in Tables /\ u.facetOf = d.facetOf /\ u.selectors = d.selectors
    BY <1>1, <1>2, <1>5, <2>1, <2>2, UnlistFacetFields
  <2>4. SelectorsExactIn(u) /\ FacetsExactIn(u, (Facets(t) \cup G) \ {f})
    BY <1>2, <1>4, <1>5, <2>1, <2>2, UnlistFacetExact
  <2>5. (Facets(t) \cup G) \ {f} = Facets(u) \cup G
    <3>1. Facets(u) = Facets(d) /\ f \notin Facets(d)
      BY <1>7, <2>3 DEF Facets
    <3>2. f \notin G
      BY DEF f
    <3> QED BY <1>4, <3>1, <3>2
  <2> QED BY <1>3, <2>3, <2>4, <2>5 DEF f, u
<1>8. CASE d.selectors[f] # <<>>
  <2>1. u = d
    BY <1>6, <1>8
  <2>2. Facets(u) = Facets(t)
    BY <1>1, <1>4, <1>8, <2>1 DEF Facets
  <2> QED BY <1>2, <1>3, <1>4, <1>5, <2>1, <2>2 DEF f, u
<1> QED BY <1>7, <1>8

LEMMA ListFacetExact ==
  ASSUME NEW t \in Tables, SelectorsExactIn(t), FacetsExactIn(t, Facets(t)), NEW f \in Address
  PROVE  LET u == ListFacet(t, f)
         IN  /\ u \in Tables /\ SelectorsExactIn(u) /\ FacetsExactIn(u, Facets(u) \cup {f})
             /\ u.facetOf = t.facetOf /\ u.selectors = t.selectors
<1> DEFINE u == ListFacet(t, f)
<1>1. CASE t.selectors[f] = <<>>
  <2>1. u = AddFacet(t, f)
    BY <1>1 DEF ListFacet
  <2>2. u \in Tables /\ u.facetOf = t.facetOf /\ u.selectors = t.selectors
    BY <2>1, AddFacetFields
  <2>3. f \notin Facets(t) /\ Facets(t) \in SUBSET Address /\ Facets(u) = Facets(t)
    BY <1>1, <2>2 DEF Facets
  <2> QED BY <2>1, <2>2, <2>3, AddFacetExact
<1>2. CASE t.selectors[f] # <<>>
  <2>1. u = t
    BY <1>2 DEF ListFacet
  <2>2. Facets(t) \cup {f} = Facets(t)
    BY <1>2 DEF Facets
  <2> QED BY <2>1, <2>2
<1> QED BY <1>1, <1>2

-----------------------------------------------------------------------------
(* The calls *)

\* Functions come from contracts with code only.
Coded(t) == \A s \in Selector : t.facetOf[s] \in HasCode \cup {NoAddress}

\* Tables as they are between two facet cuts.
Clean(t) == SelectorsExactIn(t) /\ FacetsExactIn(t, Facets(t)) /\ Coded(t)

CutOf(fr) == fr.request.cuts[fr.facetIndex]
InCuts(fr) == fr.facetIndex <= Len(fr.request.cuts)

\* What the first n of the cuts make of a function s that had the facet c.
Names(cut, s) == \E j \in 1..Len(cut.selectors) : cut.selectors[j] = s
After(cuts, n, c, s, d) ==
  \/ d = c /\ \A k \in 1..n : ~Names(cuts[k], s)
  \/ \E k \in 1..n : /\ d = cuts[k].facet /\ Names(cuts[k], s)
                     /\ \A j \in (k + 1)..n : ~Names(cuts[j], s)

\* Each function is where the cuts and selectors that are done have put it.
Applied(fr, t) ==
  \A s \in Selector :
    IF \E j \in 1..(fr.selectorIndex - 1) : CutOf(fr).selectors[j] = s
    THEN t.facetOf[s] = CutOf(fr).facet
    ELSE After(fr.request.cuts, fr.facetIndex - 1, fr.saved.facetOf[s], s, t.facetOf[s])

\* Where the loops are: while functions are added, their facet is listed already,
\* and the position that is counted is that of its next selector.
Loops(fr, t) ==
  /\ fr.selectorIndex <= Len(CutOf(fr).selectors)
  /\ IF CutOf(fr).action = "Remove"
     THEN CutOf(fr).facet = NoAddress /\ FacetsExactIn(t, Facets(t))
     ELSE /\ CutOf(fr).facet \in HasCode
          /\ FacetsExactIn(t, Facets(t) \cup {CutOf(fr).facet})
          /\ fr.next = Len(t.selectors[CutOf(fr).facet])

Runs(fr, t) ==
  /\ SelectorsExactIn(t) /\ Coded(t) /\ fr.facetIndex >= 1
  /\ IF InCuts(fr) /\ fr.selectorIndex > 0 THEN Loops(fr, t) ELSE FacetsExactIn(t, Facets(t))
  /\ InCuts(fr) => Applied(fr, t)

\* The calls that wait for a call within them are through with their cuts, and all
\* go back to tables that are exact.
Waits ==
  /\ \A i \in 1..Len(frames) : Clean(frames[i].saved)
  /\ \A i \in 1..(Len(frames) - 1) : ~InCuts(frames[i])

CallInv == TypeOK /\ Waits /\ IF frames = <<>> THEN Clean(tables) ELSE Runs(Top, tables)

LEMMA CallInit == Init => CallInv
<1> SUFFICES ASSUME Init PROVE CallInv
  OBVIOUS
<1>1. tables = EmptyTables /\ frames = <<>> /\ EmptyTables \in Tables
  BY DEF Init, EmptyTables, Tables
<1>2. Clean(EmptyTables)
  BY AddressAssumption DEF EmptyTables, Clean, SelectorsExactIn, FacetsExactIn, Facets, Coded
<1> QED BY <1>1, <1>2 DEF CallInv, TypeOK, Waits

\* The call on top.
LEMMA TopTypes ==
  ASSUME TypeOK, frames # <<>>
  PROVE  /\ Len(frames) \in Nat /\ Len(frames) >= 1 /\ Len(frames) \in 1..Len(frames)
         /\ Top \in Frame /\ Top.request \in Request /\ Top.request.cuts \in Seq(FacetCut)
         /\ Top.facetIndex \in Nat /\ Top.selectorIndex \in Nat /\ Top.next \in Nat
         /\ Top.saved \in Tables /\ tables \in Tables /\ Len(Top.request.cuts) \in Nat
<1>1. Len(frames) \in Nat /\ Len(frames) >= 1 /\ frames[Len(frames)] \in Frame
  BY DEF TypeOK
<1>2. \A r \in Request : r.cuts \in Seq(FacetCut)
  BY DEF Request
<1> QED BY <1>1, <1>2 DEF Top, Frame, TypeOK

\* The facet cut that the call on top is at.
LEMMA CutTypes ==
  ASSUME TypeOK, frames # <<>>, InCuts(Top), Top.facetIndex >= 1
  PROVE  /\ Cut \in FacetCut /\ Cut.selectors \in Seq(Selector) /\ Len(Cut.selectors) \in Nat
         /\ Cut.facet \in Address \cup {NoAddress} /\ Cut.action \in {"Add", "Replace", "Remove"}
         /\ Cut = CutOf(Top)
<1>1. Top.request.cuts[Top.facetIndex] \in FacetCut
  BY TopTypes DEF InCuts
<1> QED BY <1>1 DEF Cut, CutOf, FacetCut

\* A call ends, whether it returns or reverts.
LEMMA Leaves ==
  ASSUME CallInv, frames # <<>>, frames' = Front(frames), tables' \in Tables, Clean(tables')
  PROVE  CallInv' /\ Len(frames') = Len(frames) - 1
<1>1. /\ frames' \in Seq(Frame) /\ Len(frames') = Len(frames) - 1 /\ Len(frames) \in Nat /\ Len(frames) >= 1
      /\ \A i \in 1..(Len(frames) - 1) : frames'[i] = frames[i]
  BY FrontFacts DEF CallInv, TypeOK
<1>2. Waits'
  <2>1. \A i \in 1..Len(frames') : i \in 1..Len(frames) /\ frames'[i] = frames[i]
    BY <1>1
  <2>2. \A i \in 1..(Len(frames') - 1) : i \in 1..(Len(frames) - 1) /\ frames'[i] = frames[i]
    BY <1>1
  <2> QED BY <2>1, <2>2 DEF CallInv, Waits
<1>3. CASE frames' = <<>>
  BY <1>1, <1>2, <1>3 DEF CallInv, TypeOK
<1>4. CASE frames' # <<>>
  <2>1. Len(frames') \in 1..(Len(frames) - 1)
    BY <1>1, <1>4
  <2>2. Top' = frames[Len(frames')] /\ Top' \in Frame
    BY <1>1, <2>1 DEF Top
  <2>3. ~InCuts(Top')
    BY <2>1, <2>2 DEF CallInv, Waits
  <2>4. Top'.facetIndex >= 1
    <3>1. Top'.facetIndex \in Nat /\ Top'.request.cuts \in Seq(FacetCut)
      BY <2>2 DEF Frame, Request
    <3>2. Len(Top'.request.cuts) \in Nat
      BY <3>1
    <3> QED BY <2>3, <3>1, <3>2 DEF InCuts
  <2>5. Runs(Top', tables')
    BY <2>3, <2>4 DEF Runs, Clean
  <2> QED BY <1>1, <1>2, <1>4, <2>5 DEF CallInv, TypeOK
<1> QED BY <1>1, <1>3, <1>4

LEMMA Reverts ==
  ASSUME CallInv, frames # <<>>, Revert
  PROVE  CallInv' /\ Len(frames') = Len(frames) - 1
<1>1. Clean(Top.saved) /\ Top.saved \in Tables
  BY TopTypes DEF CallInv, Waits, Top
<1> QED BY <1>1, Leaves DEF Revert

\* The same calls go on.
Kept == Len(frames') = Len(frames) /\ \A i \in 1..Len(frames) : frames'[i].saved = frames[i].saved

\* The call on top goes on.
LEMMA GoesOn ==
  ASSUME CallInv, frames # <<>>, NEW fr \in Frame, fr.saved = Top.saved,
         frames' = [frames EXCEPT ![Len(frames)] = fr], tables' \in Tables, Runs(fr, tables')
  PROVE  CallInv' /\ Kept /\ Top' = fr
<1>1. /\ frames' \in Seq(Frame) /\ Len(frames') = Len(frames) /\ frames'[Len(frames)] = fr
      /\ \A i \in 1..(Len(frames) - 1) : frames'[i] = frames[i]
  BY LastReplaced DEF CallInv, TypeOK
<1>2. Top' = fr /\ frames' # <<>> /\ Len(frames) \in Nat /\ Len(frames) >= 1
  <2>1. Len(frames) \in Nat /\ Len(frames) >= 1
    BY TopTypes DEF CallInv
  <2>2. Len(frames) # 0
    BY <2>1
  <2>3. Len(frames') # 0
    BY <1>1, <2>2
  <2> QED BY <1>1, <2>1, <2>3 DEF Top
<1>3. \A i \in 1..Len(frames) : frames'[i].saved = frames[i].saved
  <2>1. \A i \in 1..Len(frames) : i = Len(frames) \/ i \in 1..(Len(frames) - 1)
    BY <1>2
  <2> QED BY <1>1, <2>1 DEF Top
<1>4. Waits'
  BY <1>1, <1>3 DEF CallInv, Waits
<1>5. Runs(Top', tables')
  BY <1>2
<1> QED BY <1>1, <1>2, <1>3, <1>4, <1>5 DEF CallInv, TypeOK, Kept

-----------------------------------------------------------------------------
(* The steps of a call *)

LEMMA CallStep ==
  ASSUME CallInv, NEW request \in Requests, Call(request)
  PROVE  CallInv'
<1> DEFINE fr == [request |-> request, facetIndex |-> 1, selectorIndex |-> 0, next |-> 0,
                  saved |-> tables]
           n == Len(frames)
<1>1. /\ frames \in Seq(Frame) /\ n \in Nat /\ tables \in Tables /\ tables' = tables
      /\ frames' = Append(frames, fr)
  BY DEF CallInv, TypeOK, Call
<1>2. request \in Request
  BY RequestsAssumption
<1>3. fr \in Frame
  BY <1>1, <1>2 DEF Frame
<1>4. /\ frames' \in Seq(Frame) /\ Len(frames') = n + 1 /\ frames'[n + 1] = fr
      /\ \A i \in 1..n : frames'[i] = frames[i]
  BY <1>1, <1>3, AppendFacts
<1>5. Clean(tables)
  <2>1. CASE frames = <<>>
    BY <2>1 DEF CallInv
  <2>2. CASE frames # <<>>
    <3>1. ~InCuts(Top) /\ Runs(Top, tables)
      <4>1. Top.facetIndex \in Nat /\ Len(Top.request.cuts) \in Nat /\ Done
        BY <2>2, TopTypes DEF CallInv, Call
      <4> QED BY <2>2, <4>1 DEF CallInv, Done, InCuts
    <3> QED BY <3>1 DEF Runs, Clean
  <2> QED BY <2>1, <2>2
<1>6. Runs(fr, tables)
  <2>1. Applied(fr, tables)
    BY DEF Applied, After
  <2> QED BY <1>5, <2>1 DEF Runs, Clean
<1> HIDE DEF fr
<1>7. Waits'
  <2>1. ASSUME NEW i \in 1..Len(frames') PROVE Clean(frames'[i].saved)
    <3>1. i \in 1..n \/ i = n + 1
      BY <1>1, <1>4
    <3>2. CASE i \in 1..n
      BY <1>4, <3>2 DEF CallInv, Waits
    <3>3. CASE i = n + 1
      BY <1>4, <1>5, <3>3 DEF fr
    <3> QED BY <3>1, <3>2, <3>3
  <2>2. ASSUME NEW i \in 1..(Len(frames') - 1) PROVE ~InCuts(frames'[i])
    <3>1. i \in 1..n /\ frames'[i] = frames[i]
      BY <1>1, <1>4
    <3>2. CASE i \in 1..(n - 1)
      BY <3>1, <3>2 DEF CallInv, Waits
    <3>3. CASE i = n
      <4>1. frames # <<>> /\ Done /\ frames[i] = Top
        BY <1>1, <3>1, <3>3 DEF Call, Top
      <4>2. Top.facetIndex \in Nat /\ Len(Top.request.cuts) \in Nat
        BY <4>1, TopTypes DEF CallInv
      <4> QED BY <3>1, <4>1, <4>2 DEF Done, InCuts
    <3>4. i \in 1..(n - 1) \/ i = n
      BY <1>1, <3>1
    <3> QED BY <3>2, <3>3, <3>4
  <2> QED BY <2>1, <2>2 DEF Waits
<1>8. Top' = fr /\ frames' # <<>>
  <2>1. Len(frames') = n + 1 /\ Len(frames') # 0
    BY <1>1, <1>4
  <2> QED BY <1>4, <2>1 DEF Top
<1> QED BY <1>1, <1>4, <1>6, <1>7, <1>8 DEF CallInv, TypeOK

\* A cut names no function before its loop begins.
LEMMA BeginsApplied ==
  ASSUME NEW fr \in Frame, NEW t, Applied(fr, t), fr.selectorIndex = 0, NEW n, NEW u, u.facetOf = t.facetOf
  PROVE  Applied([fr EXCEPT !.selectorIndex = 1, !.next = n], u)
<1> DEFINE g == [fr EXCEPT !.selectorIndex = 1, !.next = n]
<1>1. /\ g.request = fr.request /\ g.facetIndex = fr.facetIndex /\ g.selectorIndex = 1 /\ g.saved = fr.saved
  BY DEF Frame
<1>2. 1..(fr.selectorIndex - 1) = {} /\ 1..(g.selectorIndex - 1) = {}
  BY <1>1
<1> HIDE DEF g
<1>3. Applied(g, u)
  BY <1>1, <1>2 DEF Applied, CutOf
<1> QED BY <1>3 DEF g

LEMMA BeginFacts ==
  ASSUME CallInv, Begin
  PROVE  /\ frames # <<>> /\ InCuts(Top) /\ Top.facetIndex >= 1 /\ Top \in Frame /\ Top.selectorIndex = 0
         /\ Clean(tables) /\ tables \in Tables /\ Applied(Top, tables)
         /\ Cut \in FacetCut /\ Cut = CutOf(Top)
<1>1. frames # <<>> /\ InCuts(Top) /\ Top.selectorIndex = 0 /\ TypeOK /\ Runs(Top, tables)
  BY DEF Begin, Cutting, InCuts, CallInv
<1>2. Top.facetIndex >= 1 /\ Clean(tables) /\ Applied(Top, tables)
  BY <1>1 DEF Runs, Clean
<1> QED BY <1>1, <1>2, TopTypes, CutTypes

\* The loop over the selectors begins.
LEMMA LoopBegins ==
  ASSUME CallInv, Begin, Cut.selectors # <<>>, NEW n \in Nat, Loop(1, n), tables' \in Tables,
         SelectorsExactIn(tables'), tables'.facetOf = tables.facetOf,
         IF Cut.action = "Remove"
         THEN Cut.facet = NoAddress /\ FacetsExactIn(tables', Facets(tables'))
         ELSE /\ Cut.facet \in HasCode /\ FacetsExactIn(tables', Facets(tables') \cup {Cut.facet})
              /\ n = Len(tables'.selectors[Cut.facet])
  PROVE  CallInv' /\ Kept /\ ~Done'
<1> DEFINE fr == [Top EXCEPT !.selectorIndex = 1, !.next = n]
<1>1. /\ fr \in Frame /\ fr.saved = Top.saved /\ fr.request = Top.request
      /\ fr.facetIndex = Top.facetIndex /\ fr.selectorIndex = 1 /\ fr.next = n
  BY BeginFacts DEF Frame
<1>2. frames' = [frames EXCEPT ![Len(frames)] = fr]
  BY DEF Loop
<1>3. Applied(fr, tables')
  BY BeginFacts, BeginsApplied
<1> HIDE DEF fr
<1>4. CutOf(fr) = Cut /\ InCuts(fr)
  BY <1>1, BeginFacts DEF CutOf, InCuts
<1>5. Loops(fr, tables')
  <2>1. Len(Cut.selectors) >= 1
    <3>1. Cut.selectors \in Seq(Selector)
      BY BeginFacts DEF FacetCut
    <3> QED BY <3>1
  <2> QED BY <1>1, <1>4, <2>1 DEF Loops
<1>6. Coded(tables')
  BY BeginFacts DEF Clean, Coded
<1>7. Runs(fr, tables')
  BY <1>1, <1>3, <1>4, <1>5, <1>6, BeginFacts DEF Runs
<1>8. CallInv' /\ Kept /\ Top' = fr
  BY <1>1, <1>2, <1>7, BeginFacts, GoesOn
<1>9. ~Done'
  <2>1. Top'.facetIndex \in Nat /\ Len(Top'.request.cuts) \in Nat
    BY <1>1, <1>8, TopTypes, BeginFacts DEF CallInv
  <2> QED BY <1>4, <1>8, <2>1 DEF Done, InCuts
<1> QED BY <1>8, <1>9

LEMMA BeginFacetStep ==
  ASSUME CallInv, BeginFacet
  PROVE  CallInv' /\ (Revert \/ (Kept /\ ~Done' /\ tables'.facetOf = tables.facetOf))
<1>1. Begin /\ Cut.selectors # <<>> /\ Cut.action # "Remove"
  BY DEF BeginFacet
<1>2. CASE Revert
  <2>1. frames # <<>> /\ Len(frames) \in Nat
    BY <1>1, BeginFacts, TopTypes DEF CallInv
  <2> QED BY <1>2, <2>1, Reverts
<1>3. CASE /\ Cut.facet # NoAddress
           /\ tables.selectors[Cut.facet] = <<>> => HasContractCode(Cut.facet)
           /\ tables' = ListFacet(tables, Cut.facet)
           /\ Loop(1, Len(tables.selectors[Cut.facet]))
  <2>1. Cut.facet \in Address /\ tables \in Tables /\ Clean(tables)
    BY <1>1, <1>3, BeginFacts DEF FacetCut
  <2>2. /\ tables' \in Tables /\ SelectorsExactIn(tables')
        /\ FacetsExactIn(tables', Facets(tables') \cup {Cut.facet})
        /\ tables'.facetOf = tables.facetOf /\ tables'.selectors = tables.selectors
    BY <1>3, <2>1, ListFacetExact DEF Clean
  <2>3. tables.selectors[Cut.facet] \in Seq(Selector) /\ Len(tables.selectors[Cut.facet]) \in Nat
    BY <2>1 DEF Tables
  <2>4. Cut.facet \in HasCode
    <3>1. CASE tables.selectors[Cut.facet] = <<>>
      BY <1>3, <3>1 DEF HasContractCode
    <3>2. CASE tables.selectors[Cut.facet] # <<>>
      <4>1. 1 \in DOMAIN tables.selectors[Cut.facet] /\ tables.selectors[Cut.facet][1] \in Selector
        BY <2>3, <3>2
      <4>2. tables.facetOf[tables.selectors[Cut.facet][1]] = Cut.facet
        BY <2>1, <4>1 DEF Clean, SelectorsExactIn
      <4> QED BY <1>3, <2>1, <4>1, <4>2 DEF Clean, Coded
    <3> QED BY <3>1, <3>2
  <2> QED BY <1>1, <1>3, <2>2, <2>3, <2>4, LoopBegins
<1> QED BY <1>2, <1>3 DEF BeginFacet

LEMMA BeginRemoveStep ==
  ASSUME CallInv, BeginRemove
  PROVE  CallInv' /\ (Revert \/ (Kept /\ ~Done' /\ tables'.facetOf = tables.facetOf))
<1>1. Begin /\ Cut.selectors # <<>> /\ Cut.action = "Remove"
  BY DEF BeginRemove
<1>2. CASE Revert
  <2>1. frames # <<>> /\ Len(frames) \in Nat
    BY <1>1, BeginFacts, TopTypes DEF CallInv
  <2> QED BY <1>2, <2>1, Reverts
<1>3. CASE Cut.facet = NoAddress /\ Loop(1, 0) /\ UNCHANGED tables
  BY <1>1, <1>3, BeginFacts, LoopBegins DEF Clean
<1> QED BY <1>2, <1>3 DEF BeginRemove

-----------------------------------------------------------------------------
(* The loops over the selectors *)

LEMMA AfterNext ==
  ASSUME NEW cuts, NEW n \in Nat, n >= 1, NEW c, NEW s, NEW d,
         IF Names(cuts[n], s) THEN d = cuts[n].facet ELSE After(cuts, n - 1, c, s, d)
  PROVE  After(cuts, n, c, s, d)
<1>1. CASE Names(cuts[n], s)
  <2>1. n \in 1..n /\ (n + 1)..n = {}
    OBVIOUS
  <2> QED BY <1>1, <2>1 DEF After
<1>2. CASE ~Names(cuts[n], s)
  <2>1. \A k \in 1..n : k \in 1..(n - 1) \/ k = n
    OBVIOUS
  <2>2. CASE d = c /\ \A k \in 1..(n - 1) : ~Names(cuts[k], s)
    BY <1>2, <2>1, <2>2 DEF After
  <2>3. ASSUME NEW k \in 1..(n - 1), d = cuts[k].facet /\ Names(cuts[k], s),
               \A j \in (k + 1)..(n - 1) : ~Names(cuts[j], s)
        PROVE  After(cuts, n, c, s, d)
    <3>1. k \in 1..n /\ \A j \in (k + 1)..n : j \in (k + 1)..(n - 1) \/ j = n
      OBVIOUS
    <3>2. \A j \in (k + 1)..n : ~Names(cuts[j], s)
      BY <1>2, <2>3, <3>1
    <3> QED BY <2>3, <3>1, <3>2 DEF After
  <2> QED BY <1>2, <2>2, <2>3 DEF After
<1> QED BY <1>1, <1>2

LEMMA LoopFacts ==
  ASSUME CallInv, Looping
  PROVE  /\ frames # <<>> /\ InCuts(Top) /\ Top.facetIndex >= 1 /\ Top \in Frame
         /\ Top.selectorIndex \in Nat /\ Top.selectorIndex >= 1
         /\ Top.selectorIndex <= Len(Cut.selectors) /\ Sel \in Selector
         /\ Cut \in FacetCut /\ Cut = CutOf(Top) /\ Len(Cut.selectors) \in Nat
         /\ tables \in Tables /\ SelectorsExactIn(tables) /\ Coded(tables)
         /\ Loops(Top, tables) /\ Applied(Top, tables)
<1>1. frames # <<>> /\ InCuts(Top) /\ Top.selectorIndex > 0 /\ TypeOK /\ Runs(Top, tables)
  BY DEF Looping, Cutting, InCuts, CallInv
<1>2. /\ Top.facetIndex >= 1 /\ SelectorsExactIn(tables) /\ Coded(tables)
      /\ Loops(Top, tables) /\ Applied(Top, tables)
  BY <1>1 DEF Runs
<1>3. Top.selectorIndex \in Nat /\ Top \in Frame /\ tables \in Tables
  BY <1>1, TopTypes
<1>4. /\ Cut \in FacetCut /\ Cut.selectors \in Seq(Selector) /\ Len(Cut.selectors) \in Nat
      /\ Cut = CutOf(Top)
  BY <1>1, <1>2, CutTypes
<1>5. Top.selectorIndex <= Len(Cut.selectors) /\ Top.selectorIndex >= 1
  BY <1>1, <1>2, <1>3, <1>4 DEF Loops
<1>6. Sel \in Selector
  BY <1>3, <1>4, <1>5 DEF Sel
<1> QED BY <1>1, <1>2, <1>3, <1>4, <1>5, <1>6

\* A selector has got the facet of its cut, or lost its facet.
LEMMA AdvanceStep ==
  ASSUME CallInv, Looping, NEW n \in Nat, Advance(n), tables' \in Tables,
         SelectorsExactIn(tables'), Coded(tables'), FacetsExactIn(tables', Facets(tables')),
         tables'.facetOf[Sel] = Cut.facet,
         \A s \in Selector \ {Sel} : tables'.facetOf[s] = tables.facetOf[s],
         Cut.action # "Remove" => /\ Cut.facet \in Facets(tables')
                                  /\ n = Len(tables'.selectors[Cut.facet])
  PROVE  /\ CallInv' /\ Kept
         /\ Top'.request = Top.request /\ Top'.saved = Top.saved /\ Applied(Top', tables')
         /\ \/ Top'.facetIndex = Top.facetIndex
            \/ Top'.facetIndex = Top.facetIndex + 1 /\ Top'.selectorIndex = 0
<1> DEFINE i == Top.facetIndex
           k == Top.selectorIndex
           cuts == Top.request.cuts
<1>1. /\ i \in Nat /\ i >= 1 /\ k \in Nat /\ k >= 1 /\ k <= Len(Cut.selectors) /\ Len(Cut.selectors) \in Nat
      /\ Cut = cuts[i] /\ Sel = Cut.selectors[k] /\ frames # <<>> /\ Sel \in Selector
  BY LoopFacts, TopTypes DEF CallInv, Cut, Sel
<1>2. \A s \in Selector :
        IF \E j \in 1..(k - 1) : Cut.selectors[j] = s
        THEN tables.facetOf[s] = Cut.facet
        ELSE After(cuts, i - 1, Top.saved.facetOf[s], s, tables.facetOf[s])
  BY LoopFacts DEF Applied
<1>k. k \in Nat /\ k >= 1
  BY <1>1
<1>3. \A j \in 1..k : j \in 1..(k - 1) \/ j = k
  <2> HIDE DEF k
  <2> QED BY <1>k
<1>4. k \in 1..k /\ \A j \in 1..(k - 1) : j \in 1..k
  <2> HIDE DEF k
  <2> QED BY <1>k
<1>5. CASE k < Len(Cut.selectors) /\ Loop(k + 1, n)
  <2> DEFINE fr == [Top EXCEPT !.selectorIndex = k + 1, !.next = n]
  <2>1. /\ fr \in Frame /\ fr.saved = Top.saved /\ fr.request = Top.request
        /\ fr.facetIndex = i /\ fr.selectorIndex = k + 1 /\ fr.next = n
    <3>1. k + 1 \in Nat
      <4> HIDE DEF k
      <4> QED BY <1>k
    <3> HIDE DEF k
    <3> QED BY <3>1, LoopFacts DEF Frame
  <2>2. frames' = [frames EXCEPT ![Len(frames)] = fr]
    BY <1>5 DEF Loop
  <2> HIDE DEF fr
  <2>3. CutOf(fr) = Cut /\ InCuts(fr) /\ fr.selectorIndex - 1 = k
    <3>1. CutOf(fr) = Cut /\ InCuts(fr)
      BY <2>1, LoopFacts DEF CutOf, InCuts
    <3>2. fr.selectorIndex = k + 1
      BY <2>1
    <3> HIDE DEF k
    <3> QED BY <1>k, <3>1, <3>2
  <2> HIDE DEF i, k, cuts
  <2>4. Applied(fr, tables')
    <3>1. ASSUME NEW s \in Selector
          PROVE  IF \E j \in 1..k : Cut.selectors[j] = s
                 THEN tables'.facetOf[s] = Cut.facet
                 ELSE After(cuts, i - 1, Top.saved.facetOf[s], s, tables'.facetOf[s])
      <4>1. CASE s = Sel
        BY <1>1, <1>4, <4>1
      <4>2. CASE s # Sel
        BY <1>1, <1>2, <1>3, <1>4, <4>2
      <4> QED BY <4>1, <4>2
    <3> QED BY <2>1, <2>3, <3>1 DEF Applied, cuts, i
  <2>5. Facets(tables') \cup {Cut.facet} = Facets(tables') \/ Cut.action = "Remove"
    OBVIOUS
  <2>6. Loops(fr, tables')
    <3>1. k + 1 <= Len(Cut.selectors)
      BY <1>1, <1>5
    <3> QED BY <2>1, <2>3, <2>5, <3>1, LoopFacts DEF Loops
  <2>7. Runs(fr, tables')
    BY <1>1, <2>1, <2>3, <2>4, <2>6 DEF Runs
  <2> QED BY <1>1, <2>1, <2>2, <2>4, <2>7, GoesOn DEF i
<1>6. CASE /\ k = Len(Cut.selectors)
           /\ frames' = [frames EXCEPT ![Len(frames)] =
                [Top EXCEPT !.facetIndex = Top.facetIndex + 1, !.selectorIndex = 0, !.next = 0]]
  <2> DEFINE fr == [Top EXCEPT !.facetIndex = Top.facetIndex + 1, !.selectorIndex = 0, !.next = 0]
  <2>1. /\ fr \in Frame /\ fr.saved = Top.saved /\ fr.request = Top.request
        /\ fr.facetIndex = i + 1 /\ fr.selectorIndex = 0
    <3>1. i + 1 \in Nat
      <4> HIDE DEF i
      <4> QED BY <1>1
    <3> QED BY <3>1, LoopFacts DEF Frame
  <2>2. frames' = [frames EXCEPT ![Len(frames)] = fr]
    BY <1>6
  <2> HIDE DEF fr, i, k, cuts
  <2>3. Applied(fr, tables')
    <3>1. ASSUME NEW s \in Selector
          PROVE  After(cuts, i, Top.saved.facetOf[s], s, tables'.facetOf[s])
      <4>1. CASE Names(Cut, s)
        <5>1. tables'.facetOf[s] = Cut.facet
          <6>1. s = Sel \/ \E j \in 1..(k - 1) : Cut.selectors[j] = s
            BY <1>1, <1>3, <1>6, <4>1 DEF Names
          <6> QED BY <1>2, <6>1
        <5> QED BY <1>1, <4>1, <5>1, AfterNext
      <4>2. CASE ~Names(Cut, s)
        <5>1. s # Sel /\ ~\E j \in 1..(k - 1) : Cut.selectors[j] = s
          BY <1>1, <1>4, <1>6, <4>2 DEF Names
        <5>2. After(cuts, i - 1, Top.saved.facetOf[s], s, tables'.facetOf[s])
          BY <1>2, <5>1
        <5> QED BY <1>1, <4>2, <5>2, AfterNext
      <4> QED BY <4>1, <4>2
    <3>2. 1..(fr.selectorIndex - 1) = {} /\ fr.facetIndex - 1 = i
      BY <1>1, <2>1
    <3> QED BY <2>1, <3>1, <3>2 DEF Applied, cuts
  <2>4. Runs(fr, tables')
    BY <1>1, <2>1, <2>3 DEF Runs
  <2> QED BY <1>1, <2>1, <2>2, <2>3, <2>4, GoesOn DEF i
<1> QED BY <1>5, <1>6 DEF Advance

\* What becomes of a selector, when the call goes on: its facet, and where the cuts
\* are over that of every other.
Turned ==
  /\ Kept /\ Sel \in Selector /\ Cut.facet \in HasCode \cup {NoAddress}
  /\ tables.facetOf[Sel] # Self /\ tables.facetOf[Sel] # Cut.facet
  /\ tables'.facetOf[Sel] = Cut.facet
  /\ \A s \in Selector \ {Sel} : tables'.facetOf[s] = tables.facetOf[s]
  /\ Done' => \A s \in Selector :
       After(Top.request.cuts, Len(Top.request.cuts), Top.saved.facetOf[s], s, tables'.facetOf[s])

LEMMA TurnStep ==
  ASSUME CallInv, Looping, NEW n \in Nat, Advance(n), tables' \in Tables,
         SelectorsExactIn(tables'), FacetsExactIn(tables', Facets(tables')),
         Cut.facet \in HasCode \cup {NoAddress},
         tables.facetOf[Sel] # Self, tables.facetOf[Sel] # Cut.facet,
         tables'.facetOf[Sel] = Cut.facet,
         \A s \in Selector \ {Sel} : tables'.facetOf[s] = tables.facetOf[s],
         Cut.action # "Remove" => /\ Cut.facet \in Facets(tables')
                                  /\ n = Len(tables'.selectors[Cut.facet])
  PROVE  CallInv' /\ Turned
<1>1. Coded(tables')
  BY LoopFacts DEF Coded
<1>2. /\ CallInv' /\ Kept
      /\ Top'.request = Top.request /\ Top'.saved = Top.saved /\ Applied(Top', tables')
      /\ \/ Top'.facetIndex = Top.facetIndex
         \/ Top'.facetIndex = Top.facetIndex + 1 /\ Top'.selectorIndex = 0
  BY <1>1, AdvanceStep
<1>3. ASSUME Done'
      PROVE  \A s \in Selector : After(Top.request.cuts, Len(Top.request.cuts), Top.saved.facetOf[s],
                                       s, tables'.facetOf[s])
  <2>1. Top.facetIndex \in Nat /\ Len(Top.request.cuts) \in Nat /\ Top.facetIndex <= Len(Top.request.cuts)
    BY LoopFacts, TopTypes DEF CallInv, InCuts
  <2>2. Top'.facetIndex > Len(Top.request.cuts)
    BY <1>2, <1>3 DEF Done
  <2>3. Top'.facetIndex - 1 = Len(Top.request.cuts) /\ Top'.selectorIndex = 0
    BY <1>2, <2>1, <2>2
  <2>4. 1..(Top'.selectorIndex - 1) = {}
    BY <2>3
  <2> QED BY <1>2, <2>3, <2>4 DEF Applied
<1> QED BY <1>2, <1>3, LoopFacts DEF Turned

LEMMA AddSelectorStep ==
  ASSUME CallInv, AddSelector
  PROVE  CallInv' /\ (Revert \/ Turned)
<1>1. Looping /\ Cut.action = "Add"
  BY DEF AddSelector
<1>2. CASE Revert
  BY <1>1, <1>2, LoopFacts, Reverts
<1>3. CASE /\ tables.facetOf[Sel] = NoAddress
           /\ tables' = AddFunction(tables, Sel, Top.next, Cut.facet)
           /\ Advance(Top.next + 1)
  <2> DEFINE f == Cut.facet
             n == Top.next
  <2>1. /\ tables \in Tables /\ SelectorsExactIn(tables) /\ Sel \in Selector
        /\ f \in HasCode /\ f \in Address /\ f # NoAddress /\ FacetsExactIn(tables, Facets(tables) \cup {f})
        /\ n = Len(tables.selectors[f]) /\ n \in Nat /\ Len(tables.selectors[f]) \in Nat
    <3>1. n \in Nat
      BY <1>1, LoopFacts, TopTypes DEF CallInv
    <3> QED BY <1>1, <3>1, LoopFacts, AddressAssumption DEF Loops
  <2>2. /\ tables' \in Tables /\ SelectorsExactIn(tables') /\ Facets(tables') = Facets(tables) \cup {f}
        /\ Len(tables'.selectors[f]) = n + 1
    BY <1>3, <2>1, AddFunctionExact
  <2>3. /\ tables'.facetOf[Sel] = f /\ \A r \in Selector \ {Sel} : tables'.facetOf[r] = tables.facetOf[r]
        /\ tables'.facets = tables.facets /\ tables'.facetPosition = tables.facetPosition
    BY <1>3, <2>1, AddFunctionFields
  <2>4. FacetsExactIn(tables', Facets(tables'))
    BY <2>1, <2>2, <2>3 DEF FacetsExactIn
  <2>5. n + 1 \in Nat
    BY <2>1
  <2>6. f \in Facets(tables') /\ Self # NoAddress
    BY <2>2, AddressAssumption
  <2> HIDE DEF n
  <2>7. Advance(n + 1)
    BY <1>3 DEF n
  <2> QED BY <1>1, <1>3, <2>1, <2>2, <2>3, <2>4, <2>5, <2>6, <2>7, TurnStep
<1> QED BY <1>2, <1>3 DEF AddSelector

LEMMA RemoveSelectorStep ==
  ASSUME CallInv, RemoveSelector
  PROVE  CallInv' /\ (Revert \/ Turned)
<1>1. Looping /\ Cut.action = "Remove"
  BY DEF RemoveSelector
<1>2. CASE Revert
  BY <1>1, <1>2, LoopFacts, Reverts
<1>3. CASE /\ IsRemovable(Sel)
           /\ tables' = RemoveFunction(tables, tables.facetOf[Sel], Sel)
           /\ Advance(0)
  <2>1. /\ tables \in Tables /\ SelectorsExactIn(tables) /\ Sel \in Selector
        /\ Cut.facet = NoAddress /\ FacetsExactIn(tables, Facets(tables))
        /\ tables.facetOf[Sel] # NoAddress /\ tables.facetOf[Sel] # Self
    BY <1>1, <1>3, LoopFacts DEF Loops, IsRemovable
  <2>2. /\ Facets(tables) = Facets(tables) \cup {} /\ Facets(tables') = Facets(tables') \cup {}
        /\ {} \in SUBSET Address /\ tables.facetOf[Sel] \notin {}
    OBVIOUS
  <2>3. /\ tables' \in Tables /\ SelectorsExactIn(tables') /\ FacetsExactIn(tables', Facets(tables') \cup {})
        /\ tables'.facetOf[Sel] = NoAddress
        /\ \A r \in Selector \ {Sel} : tables'.facetOf[r] = tables.facetOf[r]
    <3> DEFINE G == {}
    <3>1. /\ G \in SUBSET Address /\ tables.facetOf[Sel] \notin G
          /\ FacetsExactIn(tables, Facets(tables) \cup G)
      BY <2>1, <2>2
    <3> HIDE DEF G
    <3>2. /\ tables' \in Tables /\ SelectorsExactIn(tables') /\ FacetsExactIn(tables', Facets(tables') \cup G)
          /\ tables'.facetOf[Sel] = NoAddress
          /\ \A r \in Selector \ {Sel} : tables'.facetOf[r] = tables.facetOf[r]
      BY <1>3, <2>1, <3>1, RemoveFunctionExact
    <3> QED BY <3>2 DEF G
  <2> QED BY <1>1, <1>3, <2>1, <2>2, <2>3, TurnStep
<1> QED BY <1>2, <1>3 DEF RemoveSelector, NotRemovable

LEMMA ReplaceSelectorStep ==
  ASSUME CallInv, ReplaceSelector
  PROVE  CallInv' /\ (Revert \/ Turned)
<1>1. Looping /\ Cut.action = "Replace"
  BY DEF ReplaceSelector
<1>2. CASE Revert
  BY <1>1, <1>2, LoopFacts, Reverts
<1>3. CASE /\ ~SameFunction(Sel) /\ IsRemovable(Sel)
           /\ tables' = AddFunction(RemoveFunction(tables, tables.facetOf[Sel], Sel),
                                    Sel, Top.next, Cut.facet)
           /\ Advance(Top.next + 1)
  <2> DEFINE f == Cut.facet
             n == Top.next
             u == RemoveFunction(tables, tables.facetOf[Sel], Sel)
  <2>1. /\ tables \in Tables /\ SelectorsExactIn(tables) /\ Sel \in Selector
        /\ f \in HasCode /\ f \in Address /\ f # NoAddress /\ FacetsExactIn(tables, Facets(tables) \cup {f})
        /\ n = Len(tables.selectors[f]) /\ n \in Nat
        /\ tables.facetOf[Sel] # NoAddress /\ tables.facetOf[Sel] # Self /\ tables.facetOf[Sel] # f
    <3>1. n \in Nat
      BY <1>1, LoopFacts, TopTypes DEF CallInv
    <3> QED BY <1>1, <1>3, <3>1, LoopFacts, AddressAssumption DEF Loops, IsRemovable, SameFunction
  <2>2. /\ u \in Tables /\ SelectorsExactIn(u) /\ FacetsExactIn(u, Facets(u) \cup {f})
        /\ u.facetOf[Sel] = NoAddress
        /\ \A r \in Selector \ {Sel} : u.facetOf[r] = tables.facetOf[r]
        /\ \A g \in Address \ {tables.facetOf[Sel]} : u.selectors[g] = tables.selectors[g]
    <3>1. {f} \in SUBSET Address /\ tables.facetOf[Sel] \notin {f}
      BY <2>1
    <3> QED BY <2>1, <3>1, RemoveFunctionExact
  <2>3. n = Len(u.selectors[f]) /\ tables' = AddFunction(u, Sel, n, f)
    BY <1>3, <2>1, <2>2
  <2> HIDE DEF u, n
  <2>4. /\ tables' \in Tables /\ SelectorsExactIn(tables') /\ Facets(tables') = Facets(u) \cup {f}
        /\ Len(tables'.selectors[f]) = n + 1
    BY <2>1, <2>2, <2>3, AddFunctionExact
  <2>5. /\ tables'.facetOf[Sel] = f /\ \A r \in Selector \ {Sel} : tables'.facetOf[r] = u.facetOf[r]
        /\ tables'.facets = u.facets /\ tables'.facetPosition = u.facetPosition
    <3>1. tables'.facetOf[Sel] = f
      BY <2>1, <2>2, <2>3, AddFunctionFields
    <3>2. \A r \in Selector \ {Sel} : tables'.facetOf[r] = u.facetOf[r]
      <4>1. u \in Tables /\ Sel \in Selector /\ n \in Nat /\ f \in Address
        BY <2>1, <2>2
      <4>2. \A r \in Selector \ {Sel} : AddFunction(u, Sel, n, f).facetOf[r] = u.facetOf[r]
        BY <4>1, AddFunctionFields
      <4> QED BY <2>3, <4>2
    <3>3. tables'.facets = u.facets /\ tables'.facetPosition = u.facetPosition
      BY <2>1, <2>2, <2>3, AddFunctionFields
    <3> QED BY <3>1, <3>2, <3>3
  <2>6. FacetsExactIn(tables', Facets(tables'))
    BY <2>2, <2>4, <2>5 DEF FacetsExactIn
  <2>7. n + 1 \in Nat /\ f \in Facets(tables')
    BY <2>1, <2>4
  <2>8. Advance(n + 1)
    BY <1>3 DEF n
  <2> QED BY <1>1, <1>3, <2>1, <2>2, <2>4, <2>5, <2>6, <2>7, <2>8, TurnStep
<1> QED BY <1>2, <1>3 DEF ReplaceSelector, NotRemovable

\* Every step: a call begins, ends or goes on.
LEMMA EveryStep ==
  ASSUME CallInv, Next
  PROVE  /\ CallInv'
         /\ \/ /\ frames = <<>> \/ Done
               /\ \E request \in Requests : Call(request)
            \/ frames # <<>> /\ Revert /\ Len(frames') = Len(frames) - 1
            \/ frames # <<>> /\ Return /\ Len(frames') = Len(frames) - 1
            \/ frames # <<>> /\ Kept /\ ~Done' /\ tables'.facetOf = tables.facetOf
            \/ frames # <<>> /\ Turned
<1>1. CASE \E request \in Requests : Call(request)
  BY <1>1, CallStep DEF Call
<1>2. CASE BeginFacet
  BY <1>2, BeginFacetStep, BeginFacts, Reverts DEF BeginFacet
<1>3. CASE BeginRemove
  BY <1>3, BeginRemoveStep, BeginFacts, Reverts DEF BeginRemove
<1>4. CASE AddSelector
  BY <1>4, AddSelectorStep, LoopFacts, Reverts DEF AddSelector
<1>5. CASE ReplaceSelector
  BY <1>5, ReplaceSelectorStep, LoopFacts, Reverts DEF ReplaceSelector
<1>6. CASE RemoveSelector
  BY <1>6, RemoveSelectorStep, LoopFacts, Reverts DEF RemoveSelector
<1>7. CASE NoSelectors
  BY <1>7, BeginFacts, Reverts DEF NoSelectors
<1>8. CASE InitRefused \/ InitFails
  BY <1>8, Reverts DEF InitRefused, InitFails, Done
<1>9. CASE Return
  <2>1. frames # <<>> /\ Done /\ frames' = Front(frames) /\ tables' = tables
    BY <1>9 DEF Return, Done
  <2>2. tables \in Tables /\ ~InCuts(Top) /\ Runs(Top, tables)
    <3>1. Top.facetIndex \in Nat /\ Len(Top.request.cuts) \in Nat /\ tables \in Tables
      BY <2>1, TopTypes DEF CallInv
    <3> QED BY <2>1, <3>1 DEF Done, InCuts, CallInv
  <2>3. Clean(tables')
    BY <2>1, <2>2 DEF Runs, Clean
  <2> QED BY <1>9, <2>1, <2>2, <2>3, Leaves
<1> QED BY <1>1, <1>2, <1>3, <1>4, <1>5, <1>6, <1>7, <1>8, <1>9 DEF Next

LEMMA CallInvStep == CallInv /\ [Next]_vars => CallInv'
<1> SUFFICES ASSUME CallInv, [Next]_vars PROVE CallInv'
  OBVIOUS
<1>1. CASE Next
  BY <1>1, EveryStep
<1>2. CASE UNCHANGED vars
  BY <1>2 DEF vars, CallInv, TypeOK, Waits, Top
<1> QED BY <1>1, <1>2

LEMMA CallInvariant == Spec => []CallInv
BY CallInit, CallInvStep, PTL DEF Spec

-----------------------------------------------------------------------------
(* The tables *)

\* Every variable has its type, in calls nested to any depth.
THEOREM TypeCorrect == Spec => []TypeOK
<1>1. CallInv => TypeOK
  BY DEF CallInv
<1> QED BY <1>1, CallInvariant, PTL

\* Whatever cuts are asked for, legal or not, the tables agree after every selector:
\* with each other, with the list of facets and with the position that is counted.
THEOREM TablesStayExact == Spec => []TablesExact
<1>1. CallInv => TablesExact
  <2> SUFFICES ASSUME CallInv PROVE TablesExact
    OBVIOUS
  <2> DEFINE G == {f \in Address : Filling(f)}
  <2>1. CASE frames = <<>>
    <3>1. ~Looping
      BY <2>1 DEF Looping, Cutting
    <3>2. Facets(tables) \cup G = Facets(tables)
      BY <3>1 DEF Filling
    <3> QED BY <2>1, <3>1, <3>2 DEF CallInv, Clean, TablesExact
  <2>2. CASE frames # <<>> /\ Looping
    <3>1. SelectorsExactIn(tables) /\ Loops(Top, tables) /\ Cut = CutOf(Top)
      BY <2>2, LoopFacts
    <3>2. CASE Cut.action = "Remove"
      <4>1. Facets(tables) \cup G = Facets(tables)
        BY <3>2 DEF Filling
      <4> QED BY <3>1, <3>2, <4>1 DEF Loops, TablesExact
    <3>3. CASE Cut.action # "Remove"
      <4>1. Cut.facet \in Address
        BY <3>1, <3>3, AddressAssumption DEF Loops
      <4>2. G = {Cut.facet}
        BY <2>2, <3>3, <4>1 DEF Filling
      <4> QED BY <3>1, <3>3, <4>2 DEF Loops, TablesExact
    <3> QED BY <3>2, <3>3
  <2>3. CASE frames # <<>> /\ ~Looping
    <3>1. ~(InCuts(Top) /\ Top.selectorIndex > 0) /\ Runs(Top, tables)
      BY <2>3 DEF CallInv, Looping, Cutting, InCuts
    <3>2. Facets(tables) \cup G = Facets(tables)
      BY <2>3 DEF Filling
    <3> QED BY <2>3, <3>1, <3>2 DEF Runs, TablesExact
  <2> QED BY <2>1, <2>2, <2>3
<1> QED BY <1>1, CallInvariant, PTL

\* The last cut that names a function is found as the largest of their indexes.
LEMMA AskedFor ==
  ASSUME NEW cuts \in Seq(FacetCut), NEW m, NEW s, NEW d, After(cuts, Len(cuts), m[s], s, d)
  PROVE  d = Asked(cuts, m, s)
<1> DEFINE named == {i \in DOMAIN cuts : s \in Range(cuts[i].selectors)}
           n == Len(cuts)
<1>1. n \in Nat /\ DOMAIN cuts = 1..n
  OBVIOUS
<1>2. \A i \in 1..n : Names(cuts[i], s) <=> i \in named
  <2>1. ASSUME NEW i \in 1..n PROVE DOMAIN cuts[i].selectors = 1..Len(cuts[i].selectors)
    <3>1. cuts[i] \in FacetCut
      BY <2>1
    <3>2. cuts[i].selectors \in Seq(Selector)
      BY <3>1 DEF FacetCut
    <3> QED BY <3>2
  <2> QED BY <1>1, <2>1 DEF Names, Range
<1>3. named \subseteq 1..n
  BY <1>1
<1>4. Asked(cuts, m, s) = IF named = {} THEN m[s] ELSE cuts[Max(named)].facet
  BY DEF Asked
<1> HIDE DEF named, n
<1>5. CASE d = m[s] /\ \A k \in 1..n : ~Names(cuts[k], s)
  <2>1. named = {}
    BY <1>2, <1>3, <1>5
  <2> QED BY <1>4, <1>5, <2>1
<1>6. ASSUME NEW k \in 1..n, d = cuts[k].facet /\ Names(cuts[k], s),
             \A j \in (k + 1)..n : ~Names(cuts[j], s)
      PROVE  d = Asked(cuts, m, s)
  <2>1. k \in named
    BY <1>2, <1>6
  <2>2. \A i \in named : k >= i
    <3>1. \A i \in named : i \in 1..n /\ i \notin (k + 1)..n
      BY <1>2, <1>3, <1>6
    <3>2. n \in Nat /\ k \in Nat
      BY <1>1
    <3> QED BY <3>1, <3>2
  <2>3. \A i \in named : (\A j \in named : i >= j) => i = k
    BY <1>1, <1>3, <2>1, <2>2
  <2>4. Max(named) = k
    BY <2>1, <2>2, <2>3 DEF Max
  <2> QED BY <1>4, <1>6, <2>1, <2>4
<1> QED BY <1>5, <1>6 DEF After, n

\* When a call is through with its cuts, the last cut that names a function has
\* decided on it and no other function has moved.
THEOREM CutsApply == Spec => CutApplied
<1>1. ASSUME CallInv, Next, Cutting, Done', Len(frames') = Len(frames)
      PROVE  \A s \in Selector : tables'.facetOf[s] = Asked(Top.request.cuts, Top.saved.facetOf, s)
  <2>1. /\ frames # <<>> /\ ~Done /\ Len(frames) \in Nat /\ Top.request.cuts \in Seq(FacetCut)
    <3>1. frames # <<>>
      BY <1>1 DEF Cutting
    <3>2. Top.facetIndex \in Nat /\ Len(Top.request.cuts) \in Nat
      BY <1>1, <3>1, TopTypes DEF CallInv
    <3> QED BY <1>1, <3>1, <3>2, TopTypes DEF CallInv, Cutting, Done
  <2>2. Turned
    BY <1>1, <2>1, EveryStep
  <2>3. ASSUME NEW s \in Selector
        PROVE  tables'.facetOf[s] = Asked(Top.request.cuts, Top.saved.facetOf, s)
    <3> DEFINE cuts == Top.request.cuts
               m == Top.saved.facetOf
               d == tables'.facetOf[s]
    <3>1. After(cuts, Len(cuts), m[s], s, d)
      BY <1>1, <2>2 DEF Turned
    <3>2. cuts \in Seq(FacetCut)
      BY <2>1
    <3> HIDE DEF cuts, m, d
    <3>3. d = Asked(cuts, m, s)
      BY <3>1, <3>2, AskedFor
    <3> QED BY <3>3 DEF cuts, m, d
  <2> QED BY <2>3
<1>2. CallInv /\ [Next]_vars =>
        [Cutting /\ Done' /\ Len(frames') = Len(frames) =>
           \A s \in Selector : tables'.facetOf[s] = Asked(Top.request.cuts, Top.saved.facetOf, s)]_vars
  BY <1>1
<1> QED BY <1>2, CallInvariant, PTL DEF Spec, CutApplied

-----------------------------------------------------------------------------
(* The refinement *)

Facet == [Selector -> Address \cup {NoAddress}]

DraftsExact ==
  /\ Drafts \in Seq(Facet) /\ Len(Drafts) = Len(frames) + 1 /\ Len(frames) \in Nat
  /\ Drafts[Len(frames) + 1] = tables.facetOf
  /\ \A i \in 1..Len(frames) : Drafts[i] = frames[i].saved.facetOf

LEMMA DraftsFacts == TypeOK => DraftsExact
<1> SUFFICES ASSUME TypeOK PROVE DraftsExact
  OBVIOUS
<1>1. frames \in Seq(Frame) /\ Len(frames) \in Nat /\ tables.facetOf \in Facet
  BY DEF TypeOK, Tables, Facet
<1>2. \A i \in 1..Len(frames) : frames[i].saved.facetOf \in Facet
  <2>1. ASSUME NEW i \in 1..Len(frames) PROVE frames[i].saved \in Tables
    <3>1. frames[i] \in Frame
      BY <1>1
    <3> QED BY <3>1 DEF Frame
  <2> QED BY <2>1 DEF Tables, Facet
<1>3. \A i \in 1..(Len(frames) + 1) : i <= Len(frames) => i \in 1..Len(frames)
  BY <1>1
<1>4. Drafts = [i \in 1..(Len(frames) + 1) |->
                  IF i <= Len(frames) THEN frames[i].saved.facetOf ELSE tables.facetOf]
  BY DEF Drafts
<1>5. Drafts \in Seq(Facet) /\ Len(Drafts) = Len(frames) + 1
  <2>1. Len(frames) + 1 \in Nat
    BY <1>1
  <2>2. \A i \in 1..(Len(frames) + 1) :
          (IF i <= Len(frames) THEN frames[i].saved.facetOf ELSE tables.facetOf) \in Facet
    BY <1>1, <1>2, <1>3
  <2> QED BY <1>4, <2>1, <2>2
<1>6. /\ Len(frames) + 1 \in 1..(Len(frames) + 1) /\ ~(Len(frames) + 1 <= Len(frames))
      /\ \A i \in 1..Len(frames) : i \in 1..(Len(frames) + 1) /\ i <= Len(frames)
  BY <1>1
<1> QED BY <1>1, <1>4, <1>5, <1>6 DEF DraftsExact

LEMMA DraftsFactsNext == TypeOK' => DraftsExact'
BY DraftsFacts, PTL

LEMMA DraftsInit == Init => Routing!Init
<1> SUFFICES ASSUME Init PROVE Routing!Init
  OBVIOUS
<1> DEFINE m == [s \in Selector |-> NoAddress]
<1>1. TypeOK /\ frames = <<>> /\ tables.facetOf = m
  BY CallInit DEF CallInv, Init, EmptyTables
<1>2. Len(frames) = 0
  BY <1>1
<1>3. Drafts \in Seq(Facet) /\ Len(Drafts) = 1 /\ Drafts[1] = m
  BY <1>1, <1>2, DraftsFacts DEF DraftsExact
<1> HIDE DEF m
<1>4. <<m>> \in Seq(Facet) /\ Len(<<m>>) = 1 /\ <<m>>[1] = m
  <2>1. m \in Facet
    BY DEF m, Facet
  <2> QED BY <2>1
<1>5. Drafts = <<m>>
  BY <1>3, <1>4, SeqEqual
<1> QED BY <1>5 DEF Routing!Init, m

\* The last of the drafts is what the functions are now.
LEMMA LastDraft ==
  ASSUME TypeOK
  PROVE  Last(Drafts) = tables.facetOf
BY DraftsFacts DEF DraftsExact, Last

\* A call begins with a draft of its own.
LEMMA StartStep ==
  ASSUME CallInv, CallInv', NEW request \in Requests, Call(request)
  PROVE  Routing!Start
<1> DEFINE n == Len(frames)
           fr == [request |-> request, facetIndex |-> 1, selectorIndex |-> 0, next |-> 0,
                  saved |-> tables]
<1>1. /\ TypeOK /\ TypeOK' /\ n \in Nat /\ tables' = tables /\ frames' = Append(frames, fr)
      /\ fr.saved = tables
  BY DraftsFacts DEF DraftsExact, CallInv, Call
<1>2. /\ Len(frames') = n + 1 /\ frames'[n + 1].saved = tables
      /\ \A i \in 1..n : frames'[i] = frames[i]
  <2>1. fr \in Frame
    BY <1>1, RequestsAssumption DEF TypeOK, Frame
  <2>2. Len(frames') = n + 1 /\ frames'[n + 1] = fr /\ \A i \in 1..n : frames'[i] = frames[i]
    BY <1>1, <2>1, AppendFacts DEF TypeOK
  <2> QED BY <1>1, <2>2
<1>3. /\ Drafts \in Seq(Facet) /\ Len(Drafts) = n + 1 /\ Drafts[n + 1] = tables.facetOf
      /\ \A i \in 1..n : Drafts[i] = frames[i].saved.facetOf
  BY <1>1, DraftsFacts DEF DraftsExact
<1>4. /\ Drafts' \in Seq(Facet) /\ Len(Drafts') = n + 2 /\ Drafts'[n + 2] = tables.facetOf
      /\ \A i \in 1..(n + 1) : Drafts'[i] = frames'[i].saved.facetOf
  <2>1. /\ Drafts' \in Seq(Facet) /\ Len(Drafts') = Len(frames') + 1
        /\ Drafts'[Len(frames') + 1] = tables'.facetOf
        /\ \A i \in 1..Len(frames') : Drafts'[i] = frames'[i].saved.facetOf
    BY <1>1, DraftsFactsNext DEF DraftsExact
  <2>2. Len(frames') + 1 = n + 2
    BY <1>1, <1>2
  <2> QED BY <1>1, <1>2, <2>1, <2>2
<1> HIDE DEF n, fr
<1>5. tables.facetOf \in Facet
  BY <1>1 DEF TypeOK, Tables, Facet
<1>6. /\ Append(Drafts, tables.facetOf) \in Seq(Facet) /\ Len(Append(Drafts, tables.facetOf)) = n + 2
      /\ \A i \in 1..(n + 1) : Append(Drafts, tables.facetOf)[i] = Drafts[i]
      /\ Append(Drafts, tables.facetOf)[n + 2] = tables.facetOf
  <2>1. (n + 1) + 1 = n + 2
    BY <1>1
  <2> QED BY <1>3, <1>5, <2>1, AppendProperties
<1>7. \A i \in 1..(n + 2) : Drafts'[i] = Append(Drafts, tables.facetOf)[i]
  <2>1. \A i \in 1..(n + 2) : i = n + 2 \/ i = n + 1 \/ i \in 1..n
    BY <1>1
  <2>2. n + 1 \in 1..(n + 1) /\ \A i \in 1..n : i \in 1..(n + 1)
    BY <1>1
  <2> QED BY <1>2, <1>3, <1>4, <1>6, <2>1, <2>2
<1>8. Drafts' = Append(Drafts, tables.facetOf)
  BY <1>4, <1>6, <1>7, SeqEqual
<1> QED BY <1>1, <1>8, LastDraft DEF Routing!Start, Routing!Last, Last

\* A call that ends leaves the drafts of those before it.
LEMMA LeftDrafts ==
  ASSUME CallInv, CallInv', frames # <<>>, frames' = Front(frames)
  PROVE  /\ Len(frames) \in Nat /\ Len(frames) >= 1
         /\ Drafts \in Seq(Facet) /\ Len(Drafts) = Len(frames) + 1
         /\ Drafts[Len(frames)] = Top.saved.facetOf /\ Drafts[Len(frames) + 1] = tables.facetOf
         /\ Drafts' \in Seq(Facet) /\ Len(Drafts') = Len(frames)
         /\ Drafts'[Len(frames)] = tables'.facetOf
         /\ \A i \in 1..(Len(frames) - 1) : Drafts'[i] = Drafts[i]
<1>1. TypeOK /\ TypeOK' /\ Len(frames) \in Nat /\ Len(frames) >= 1 /\ Len(frames) \in 1..Len(frames)
  BY TopTypes DEF CallInv
<1>2. Len(frames') = Len(frames) - 1 /\ \A i \in 1..(Len(frames) - 1) : frames'[i] = frames[i]
  BY <1>1, FrontFacts DEF TypeOK
<1>3. /\ Drafts \in Seq(Facet) /\ Len(Drafts) = Len(frames) + 1
      /\ Drafts[Len(frames) + 1] = tables.facetOf
      /\ \A i \in 1..Len(frames) : Drafts[i] = frames[i].saved.facetOf
  BY <1>1, DraftsFacts DEF DraftsExact
<1>4. /\ Drafts' \in Seq(Facet) /\ Len(Drafts') = Len(frames') + 1
      /\ Drafts'[Len(frames') + 1] = tables'.facetOf
      /\ \A i \in 1..Len(frames') : Drafts'[i] = frames'[i].saved.facetOf
  BY <1>1, DraftsFactsNext DEF DraftsExact
<1>5. Len(frames') + 1 = Len(frames)
  BY <1>1, <1>2
<1>6. \A i \in 1..(Len(frames) - 1) : i \in 1..Len(frames) /\ i \in 1..Len(frames')
  BY <1>1, <1>2
<1>7. \A i \in 1..(Len(frames) - 1) : Drafts'[i] = Drafts[i]
  BY <1>2, <1>3, <1>4, <1>6
<1> QED BY <1>1, <1>3, <1>4, <1>5, <1>7 DEF Top

\* The drafts without the last.
LEMMA FrontDrafts ==
  ASSUME NEW q \in Seq(Facet), NEW n \in Nat, Len(q) = n + 1
  PROVE  /\ Front(q) \in Seq(Facet) /\ Len(Front(q)) = n /\ \A i \in 1..n : Front(q)[i] = q[i]
<1>1. q # <<>> /\ Len(q) - 1 = n
  OBVIOUS
<1> QED BY <1>1, FrontFacts

\* A call that reverts forgets its draft.
LEMMA AbortStep ==
  ASSUME CallInv, CallInv', frames # <<>>, Revert
  PROVE  Routing!Abort
<1> DEFINE n == Len(frames)
<1>1. /\ n \in Nat /\ n >= 1 /\ Drafts \in Seq(Facet) /\ Len(Drafts) = n + 1
      /\ Drafts' \in Seq(Facet) /\ Len(Drafts') = n
      /\ Drafts'[n] = tables'.facetOf /\ Drafts[n] = Top.saved.facetOf
      /\ \A i \in 1..(n - 1) : Drafts'[i] = Drafts[i]
  BY LeftDrafts DEF Revert
<1>2. Drafts'[n] = Drafts[n]
  BY <1>1 DEF Revert
<1> HIDE DEF n
<1>3. \A i \in 1..n : Drafts'[i] = Drafts[i]
  <2>1. \A i \in 1..n : i = n \/ i \in 1..(n - 1)
    BY <1>1
  <2> QED BY <1>1, <1>2, <2>1
<1>4. Drafts' = Front(Drafts)
  BY <1>1, <1>3, FrontDrafts, SeqEqual
<1>5. Len(Drafts) > 1
  BY <1>1
<1> QED BY <1>4, <1>5 DEF Routing!Abort, Routing!Front, Front

\* A call that returns hands its draft to the call it is nested in.
LEMMA CommitStep ==
  ASSUME CallInv, CallInv', frames # <<>>, Return
  PROVE  Routing!Commit
<1> DEFINE n == Len(frames)
<1>1. /\ n \in Nat /\ n >= 1 /\ Drafts \in Seq(Facet) /\ Len(Drafts) = n + 1
      /\ Drafts[n + 1] = tables.facetOf
      /\ Drafts' \in Seq(Facet) /\ Len(Drafts') = n
      /\ Drafts'[n] = tables'.facetOf
      /\ \A i \in 1..(n - 1) : Drafts'[i] = Drafts[i]
  BY LeftDrafts DEF Return
<1>2. Drafts'[n] = Drafts[n + 1] /\ Last(Drafts) = Drafts[n + 1] /\ Drafts[n + 1] \in Facet
  <2>1. n + 1 \in 1..(n + 1)
    BY <1>1
  <2> QED BY <1>1, <2>1 DEF Return, Last
<1> DEFINE p == Front(Front(Drafts))
           d == Last(Drafts)
<1> HIDE DEF n
<1>3. p \in Seq(Facet) /\ Len(p) = n - 1 /\ \A i \in 1..(n - 1) : p[i] = Drafts[i]
  <2>1. Front(Drafts) \in Seq(Facet) /\ Len(Front(Drafts)) = n /\ \A i \in 1..n : Front(Drafts)[i] = Drafts[i]
    BY <1>1, FrontDrafts
  <2>2. n - 1 \in Nat /\ n = (n - 1) + 1 /\ \A i \in 1..(n - 1) : i \in 1..n
    BY <1>1
  <2> QED BY <2>1, <2>2, FrontDrafts
<1> HIDE DEF p, d
<1>4. /\ Append(p, d) \in Seq(Facet) /\ Len(Append(p, d)) = n /\ Append(p, d)[n] = d
      /\ \A i \in 1..(n - 1) : Append(p, d)[i] = p[i]
  <2>1. (n - 1) + 1 = n /\ d \in Facet
    BY <1>1, <1>2 DEF d
  <2> QED BY <1>3, <2>1, AppendProperties
<1>5. \A i \in 1..n : Drafts'[i] = Append(p, d)[i]
  <2>1. \A i \in 1..n : i = n \/ i \in 1..(n - 1)
    BY <1>1
  <2> QED BY <1>1, <1>2, <1>3, <1>4, <2>1 DEF d
<1>6. Drafts' = Append(p, d)
  BY <1>1, <1>4, <1>5, SeqEqual
<1>7. Len(Drafts) > 1
  BY <1>1
<1> QED BY <1>6, <1>7 DEF Routing!Commit, Routing!Front, Routing!Last, Front, Last, p, d

\* While the calls stay the same, so do all drafts but the last.
LEMMA KeptDrafts ==
  ASSUME CallInv, CallInv', frames # <<>>, Kept
  PROVE  /\ Len(frames) \in Nat /\ Len(frames) >= 1
         /\ Drafts \in Seq(Facet) /\ Len(Drafts) = Len(frames) + 1
         /\ Drafts[Len(frames) + 1] = tables.facetOf
         /\ Drafts' \in Seq(Facet) /\ Len(Drafts') = Len(frames) + 1
         /\ Drafts'[Len(frames) + 1] = tables'.facetOf
         /\ \A i \in 1..Len(frames) : Drafts'[i] = Drafts[i]
<1>1. TypeOK /\ TypeOK' /\ Len(frames) \in Nat /\ Len(frames) >= 1
  BY TopTypes DEF CallInv
<1>2. /\ Drafts \in Seq(Facet) /\ Len(Drafts) = Len(frames) + 1
      /\ Drafts[Len(frames) + 1] = tables.facetOf
      /\ \A i \in 1..Len(frames) : Drafts[i] = frames[i].saved.facetOf
  BY <1>1, DraftsFacts DEF DraftsExact
<1>3. /\ Drafts' \in Seq(Facet) /\ Len(Drafts') = Len(frames') + 1
      /\ Drafts'[Len(frames') + 1] = tables'.facetOf
      /\ \A i \in 1..Len(frames') : Drafts'[i] = frames'[i].saved.facetOf
  BY <1>1, DraftsFactsNext DEF DraftsExact
<1>4. Len(frames') = Len(frames) /\ \A i \in 1..Len(frames) : frames'[i].saved = frames[i].saved
  BY DEF Kept
<1>5. \A i \in 1..Len(frames) : Drafts'[i] = Drafts[i]
  BY <1>2, <1>3, <1>4
<1> QED BY <1>1, <1>2, <1>3, <1>4, <1>5

\* A step of a call that moves no function.
LEMMA StutterStep ==
  ASSUME CallInv, CallInv', frames # <<>>, Kept, tables'.facetOf = tables.facetOf
  PROVE  Drafts' = Drafts
<1> DEFINE n == Len(frames)
<1>1. /\ n \in Nat /\ Drafts \in Seq(Facet) /\ Len(Drafts) = n + 1
      /\ Drafts' \in Seq(Facet) /\ Len(Drafts') = n + 1 /\ Drafts'[n + 1] = Drafts[n + 1]
      /\ \A i \in 1..n : Drafts'[i] = Drafts[i]
  BY KeptDrafts
<1> HIDE DEF n
<1>2. \A i \in 1..(n + 1) : i = n + 1 \/ i \in 1..n
  BY <1>1
<1> QED BY <1>1, <1>2, SeqEqual

\* A step of a call that moves a function changes its draft in that one place.
LEMMA AssignStep ==
  ASSUME CallInv, CallInv', frames # <<>>, Turned
  PROVE  \E s \in Selector, c \in HasCode \cup {NoAddress} : Routing!Assign(s, c)
<1> DEFINE n == Len(frames)
           m == [tables.facetOf EXCEPT ![Sel] = Cut.facet]
           p == Front(Drafts)
<1>1. /\ n \in Nat /\ n >= 1 /\ Drafts \in Seq(Facet) /\ Len(Drafts) = n + 1
      /\ Drafts' \in Seq(Facet) /\ Len(Drafts') = n + 1 /\ Drafts'[n + 1] = tables'.facetOf
      /\ \A i \in 1..n : Drafts'[i] = Drafts[i]
  BY KeptDrafts DEF Turned
<1>2. tables.facetOf \in Facet /\ tables'.facetOf \in Facet
  BY DEF CallInv, TypeOK, Tables, Facet
<1>3. tables'.facetOf = m
  <2>1. m \in [Selector -> Address \cup {NoAddress}]
    BY <1>2, AddressAssumption DEF Turned, Facet
  <2>2. \A s \in Selector : m[s] = tables'.facetOf[s]
    BY <1>2 DEF Turned, Facet
  <2> HIDE DEF m
  <2> QED BY <1>2, <2>1, <2>2 DEF Facet
<1> HIDE DEF n, m
<1>4. p \in Seq(Facet) /\ Len(p) = n /\ \A i \in 1..n : p[i] = Drafts[i]
  BY <1>1, FrontDrafts
<1> HIDE DEF p
<1>5. /\ Append(p, m) \in Seq(Facet) /\ Len(Append(p, m)) = n + 1 /\ Append(p, m)[n + 1] = m
      /\ \A i \in 1..n : Append(p, m)[i] = p[i]
  BY <1>2, <1>3, <1>4, AppendProperties
<1>6. \A i \in 1..(n + 1) : Drafts'[i] = Append(p, m)[i]
  <2>1. \A i \in 1..(n + 1) : i = n + 1 \/ i \in 1..n
    BY <1>1
  <2> QED BY <1>1, <1>3, <1>4, <1>5, <2>1
<1>7. Drafts' = Append(p, m)
  BY <1>1, <1>5, <1>6, SeqEqual
<1>8. Len(Drafts) > 1 /\ Last(Drafts) = tables.facetOf
  BY <1>1, LastDraft DEF CallInv
<1>9. Routing!Assign(Sel, Cut.facet)
  <2>1. Drafts' = Append(Front(Drafts), [Last(Drafts) EXCEPT ![Sel] = Cut.facet])
    BY <1>7, <1>8 DEF p, m
  <2>2. Last(Drafts)[Sel] # Self /\ Last(Drafts)[Sel] # Cut.facet
    BY <1>8 DEF Turned
  <2> QED BY <1>8, <2>1, <2>2 DEF Routing!Assign, Routing!Front, Routing!Last, Front, Last
<1> QED BY <1>9 DEF Turned

LEMMA RoutingStep == CallInv /\ CallInv' /\ [Next]_vars => [Routing!Next]_Drafts
<1> SUFFICES ASSUME CallInv, CallInv', [Next]_vars PROVE [Routing!Next]_Drafts
  OBVIOUS
<1>1. CASE Next
  <2>1. CASE \E request \in Requests : Call(request)
    BY <2>1, StartStep DEF Routing!Next
  <2>2. CASE frames # <<>> /\ Revert
    BY <2>2, AbortStep DEF Routing!Next
  <2>3. CASE frames # <<>> /\ Return
    BY <2>3, CommitStep DEF Routing!Next
  <2>4. CASE frames # <<>> /\ Kept /\ tables'.facetOf = tables.facetOf
    BY <2>4, StutterStep
  <2>5. CASE frames # <<>> /\ Turned
    BY <2>5, AssignStep DEF Routing!Next
  <2> QED BY <1>1, <2>1, <2>2, <2>3, <2>4, <2>5, EveryStep
<1>2. CASE UNCHANGED vars
  BY <1>2 DEF vars, Drafts
<1> QED BY <1>1, <1>2

\* The calls of diamondCut are nested transactions on the map of functions: a call
\* begins with a draft, moves one function at a time, commits or aborts; functions
\* go to facets with code only, and those of the diamond itself stay.
THEOREM RoutingImplemented == Spec => ImplementsRouting
BY DraftsInit, RoutingStep, CallInvariant, PTL DEF Spec, ImplementsRouting, Routing!Spec
=============================================================================
