--------------------------- MODULE PacemakerProofs ---------------------------
(***************************************************************************)
(* Proofs about the pacemaker, for any number of oracles and epochs.       *)
(***************************************************************************)
EXTENDS PacemakerProperties, FiniteSetTheorems, WellFoundedInduction, TLAPS

-----------------------------------------------------------------------------
(* The largest wishes *)

\* A set of numbers has a least one.
LEMMA LeastNumber ==
  ASSUME NEW T, T \subseteq Nat, T # {}
  PROVE  \E x \in T : \A y \in T : x <= y
<1> DEFINE R == OpToRel(<, Nat)
<1>1. IsWellFoundedOn(R, Nat)
  BY NatLessThanWellFounded
<1>2. PICK x \in T : \A y \in T : ~ (<<y, x>> \in R)
  <2> HIDE DEF R
  <2> QED BY <1>1, WFMin
<1>3. \A y \in T : x <= y
  <2> SUFFICES ASSUME NEW y \in T PROVE x <= y
    OBVIOUS
  <2>1. ~ (<<y, x>> \in R)
    BY <1>2
  <2>2. ~ (y < x)
    BY <2>1 DEF OpToRel
  <2> QED BY <2>2
<1> QED BY <1>3

\* Some wish after x is the lowest one after x: those at least as high are all
\* the wishes after x.
LEMMA LowestAbove ==
  ASSUME NEW w \in [Oracle -> Nat], NEW x \in Nat, Above(w, x) # {}
  PROVE  \E q \in Oracle : w[q] > x /\ {s \in Oracle : w[s] >= w[q]} = Above(w, x)
<1> DEFINE T == {w[q] : q \in Above(w, x)}
<1>1. T \subseteq Nat /\ T # {}
  BY DEF Above
<1>2. PICK y \in T : \A z \in T : y <= z
  <2> HIDE DEF T
  <2> QED BY <1>1, LeastNumber
<1>3. PICK q \in Above(w, x) : y = w[q]
  BY <1>2
<1>4. \A s \in Above(w, x) : w[s] >= w[q]
  BY <1>2, <1>3
<1>5. q \in Oracle /\ w[q] > x
  BY <1>3 DEF Above
<1>6. {s \in Oracle : w[s] >= w[q]} = Above(w, x)
  BY <1>4, <1>5 DEF Above
<1> QED BY <1>5, <1>6

\* The oracles that wish for at least, or for more than, some epoch are counted.
LEMMA Counted ==
  ASSUME NEW w \in [Oracle -> Nat], NEW x \in Nat
  PROVE  /\ IsFiniteSet(Above(w, x)) /\ Cardinality(Above(w, x)) \in Nat
         /\ IsFiniteSet({q \in Oracle : w[q] >= x})
         /\ Cardinality({q \in Oracle : w[q] >= x}) \in Nat
<1>1. Above(w, x) \subseteq Oracle /\ {q \in Oracle : w[q] >= x} \subseteq Oracle
  BY DEF Above
<1> QED BY <1>1, OracleAssumption, FS_Subset, FS_CardinalityType

\* Largest(w, k + 1) exists where more than k oracles wish for more than x: it is
\* after x, more than k wish for it or more, and at most k for more.
LEMMA LargestIsSupported ==
  ASSUME NEW w \in [Oracle -> Nat], NEW x \in Nat, NEW k \in Nat, Supported(w, x, k)
  PROVE  LET L == Largest(w, k + 1)
         IN  /\ L \in Nat /\ L > x
             /\ Cardinality({q \in Oracle : w[q] >= L}) > k
             /\ Cardinality(Above(w, L)) <= k
<1> DEFINE AtLeast(y) == {q \in Oracle : w[q] >= y}
           T == {Cardinality(AtLeast(w[q])) : q \in {r \in Oracle : Cardinality(AtLeast(w[r])) > k}}
<1>1. \A y \in Nat : /\ IsFiniteSet(AtLeast(y)) /\ Cardinality(AtLeast(y)) \in Nat
                     /\ IsFiniteSet(Above(w, y)) /\ Cardinality(Above(w, y)) \in Nat
  BY Counted
<1>2. \A y \in Nat : Cardinality(Above(w, y)) > k =>
        \E q \in Oracle : w[q] > y /\ AtLeast(w[q]) = Above(w, y)
  <2> SUFFICES ASSUME NEW y \in Nat, Cardinality(Above(w, y)) > k
               PROVE  \E q \in Oracle : w[q] > y /\ AtLeast(w[q]) = Above(w, y)
    OBVIOUS
  <2>1. Above(w, y) # {}
    BY FS_EmptySet
  <2> QED BY <2>1, LowestAbove
<1>3. T # {}
  <2>1. PICK q \in Oracle : AtLeast(w[q]) = Above(w, x)
    BY <1>2 DEF Supported
  <2>2. Cardinality(AtLeast(w[q])) > k
    BY <2>1 DEF Supported
  <2> QED BY <2>2
<1>4. T \subseteq Nat
  BY <1>1
<1>5. PICK n \in T : \A m \in T : n <= m
  <2> HIDE DEF T
  <2> QED BY <1>3, <1>4, LeastNumber
<1>6. PICK r \in Oracle : n = Cardinality(AtLeast(w[r])) /\ n > k
  BY <1>5
<1>7. Cardinality(Above(w, w[r])) <= k
  <2>0. w[r] \in Nat /\ Cardinality(Above(w, w[r])) \in Nat
    BY Counted
  <2>1. SUFFICES ASSUME Cardinality(Above(w, w[r])) > k PROVE FALSE
    BY <2>0
  <2>2. PICK q \in Oracle : w[q] > w[r] /\ AtLeast(w[q]) = Above(w, w[r])
    BY <1>2, <2>0, <2>1
  <2>3. Cardinality(AtLeast(w[q])) \in T
    BY <2>1, <2>2
  <2>4. AtLeast(w[q]) \subseteq AtLeast(w[r]) /\ r \in AtLeast(w[r]) \ AtLeast(w[q])
    BY <2>2 DEF Above
  <2>5. Cardinality(AtLeast(w[q])) < Cardinality(AtLeast(w[r]))
    <3> DEFINE A == AtLeast(w[q])
               B == AtLeast(w[r])
    <3>1. IsFiniteSet(B) /\ Cardinality(B) \in Nat /\ Cardinality(A) \in Nat
      BY Counted
    <3>2. A \subseteq B /\ A # B
      BY <2>4
    <3> HIDE DEF A, B
    <3>3. Cardinality(A) <= Cardinality(B) /\ Cardinality(A) # Cardinality(B)
      BY <3>1, <3>2, FS_Subset
    <3>4. Cardinality(A) < Cardinality(B)
      BY <3>1, <3>3
    <3> QED BY <3>4 DEF A, B
  <2>6. n <= Cardinality(AtLeast(w[q]))
    BY <1>5, <2>3
  <2>7. Cardinality(AtLeast(w[q])) \in Nat /\ n \in Nat
    BY <1>4, <1>5, <2>3
  <2> HIDE DEF AtLeast
  <2> QED BY <1>6, <2>5, <2>6, <2>7
<1> DEFINE L == Largest(w, k + 1)
<1>8. /\ L \in {w[q] : q \in Oracle}
      /\ Cardinality({q \in Oracle : w[q] >= L}) >= k + 1
      /\ Cardinality({q \in Oracle : w[q] > L}) < k + 1
  <2>1. /\ w[r] \in {w[q] : q \in Oracle}
        /\ Cardinality({q \in Oracle : w[q] >= w[r]}) >= k + 1
        /\ Cardinality({q \in Oracle : w[q] > w[r]}) < k + 1
    BY <1>1, <1>6, <1>7 DEF Above
  <2> QED BY <2>1 DEF Largest
<1>9. L \in Nat
  BY <1>8
<1>10. Cardinality(AtLeast(L)) > k /\ Cardinality(Above(w, L)) <= k
  <2>1. Cardinality(AtLeast(L)) \in Nat /\ Cardinality(Above(w, L)) \in Nat
    BY <1>9, Counted
  <2>2. {q \in Oracle : w[q] > L} = Above(w, L)
    BY DEF Above
  <2> HIDE DEF L
  <2> QED BY <1>8, <2>1, <2>2
<1>11. L > x
  <2> SUFFICES ASSUME L <= x PROVE FALSE
    BY <1>9
  <2>1. Above(w, x) \subseteq Above(w, L)
    BY <1>9 DEF Above
  <2>2. Cardinality(Above(w, x)) <= Cardinality(Above(w, L))
    BY <1>1, <1>9, <2>1, FS_Subset
  <2>3. Cardinality(Above(w, x)) \in Nat /\ Cardinality(Above(w, L)) \in Nat
    BY <1>1, <1>9
  <2>4. Cardinality(Above(w, x)) > k
    BY DEF Supported
  <2> HIDE DEF L
  <2> QED BY <1>10, <2>2, <2>3, <2>4
<1> QED BY <1>9, <1>10, <1>11

\* What WishedFor finds is supported by more than k oracles, and it is not below
\* what it finds with more support asked for.
LEMMA WishedForIsSupported ==
  ASSUME NEW w \in [Oracle -> Nat], NEW x \in Nat, NEW k \in Nat
  PROVE  LET y == WishedFor(w, k, x)
         IN  /\ y \in Nat
             /\ y # 0 => y > x /\ Cardinality({q \in Oracle : w[q] >= y}) > k
BY LargestIsSupported DEF WishedFor

\* More support for an epoch after x is support for one after x, too: the epoch
\* an oracle joins by F + 1 wishes is no lower than the one it switches to.
LEMMA JoinNotBelowSwitch ==
  ASSUME NEW w \in [Oracle -> Nat], NEW x \in Nat, NEW y \in Nat,
         NEW k \in Nat, NEW l \in Nat, k <= l, WishedFor(w, l, y) > x
  PROVE  WishedFor(w, k, x) >= WishedFor(w, l, y)
<1> DEFINE s == WishedFor(w, l, y)
           j == Largest(w, k + 1)
<1>1. s \in Nat /\ s # 0 /\ Cardinality({q \in Oracle : w[q] >= s}) > l
  BY WishedForIsSupported
<1> HIDE DEF s
<1>2. {q \in Oracle : w[q] >= s} \subseteq Above(w, x)
  BY <1>1 DEF Above, s
<1>3. Cardinality({q \in Oracle : w[q] >= s}) <= Cardinality(Above(w, x))
  BY <1>1, <1>2, Counted, FS_Subset
<1>4. Supported(w, x, k)
  <2>1. /\ Cardinality({q \in Oracle : w[q] >= s}) \in Nat
        /\ Cardinality(Above(w, x)) \in Nat
    BY <1>1, Counted
  <2> QED BY <1>1, <1>3, <2>1 DEF Supported
<1>5. WishedFor(w, k, x) = j /\ j \in Nat /\ Cardinality(Above(w, j)) <= k
  BY <1>4, LargestIsSupported DEF WishedFor
<1> HIDE DEF j
<1>6. j >= s
  <2> SUFFICES ASSUME j < s PROVE FALSE
    BY <1>1, <1>5
  <2>1. {q \in Oracle : w[q] >= s} \subseteq Above(w, j)
    BY <1>1, <1>5 DEF Above
  <2>2. Cardinality({q \in Oracle : w[q] >= s}) <= Cardinality(Above(w, j))
    BY <1>5, <2>1, Counted, FS_Subset
  <2>3. /\ Cardinality({q \in Oracle : w[q] >= s}) \in Nat
        /\ Cardinality(Above(w, j)) \in Nat
    BY <1>1, <1>5, Counted
  <2> QED BY <1>1, <1>5, <2>2, <2>3
<1> QED BY <1>5, <1>6 DEF s

-----------------------------------------------------------------------------
(* The invariant *)

\* An honest oracle received nothing of an honest one that it has not sent.
Received == \A p, q \in Honest : wishes[p][q] \in sent[q] \cup {0}

\* An oracle wishes for the epoch it is in, or for a later one.
EpochsWished == \A p \in Honest : e[p] <= ne[p]

\* With those that may say anything, more than 2F wished for an epoch that is entered.
Backed(x) == Cardinality(Faulty \cup Supporters(x)) > 2 * F

EpochsBacked == \A p \in Honest : Backed(e[p])

\* What was sent stays sent, so the support that an oracle counted, early or late,
\* lasts, whatever was forgotten since.
IndInv ==
  TypeOK /\ WishesDurable /\ Received /\ EpochsWished /\ EpochsBacked /\ NoEpochJumped

\* No oracle goes back in a step, but by a restart after a write that failed.
Forward ==
  \A p \in Honest \ (FailingDB \cap MayRestart) : e'[p] >= e[p] /\ ne'[p] >= ne[p]

\* The numbers of an oracle are epochs, in order.
LEMMA Ordered ==
  ASSUME IndInv, NEW p \in Honest
  PROVE  /\ p \in Oracle
         /\ e[p] \in Epoch /\ ne[p] \in Epoch /\ e[p] <= ne[p]
         /\ e[p] \in Nat /\ ne[p] \in Nat /\ 1 <= e[p]
         /\ ne[p] \in sent[p] /\ sent[p] \subseteq Epoch /\ sent[p] \subseteq Nat
         /\ Restored(p).epoch \in Epoch /\ Restored(p).ne \in Epoch
         /\ Restored(p).epoch <= Restored(p).ne /\ Restored(p).ne \in sent[p]
         /\ Restored(p).epoch <= e[p] /\ Restored(p).ne <= ne[p]
<1>1. p \in Oracle
  BY DEF Honest
<1>2. /\ e[p] \in Epoch /\ ne[p] \in Epoch /\ sent[p] \subseteq Epoch
      /\ disk[p] \in [epoch : Epoch, ne : Epoch] \cup {NoState}
  BY <1>1 DEF IndInv, TypeOK
<1>3. 1 \in Epoch /\ \A x \in Epoch : x \in Nat /\ 1 <= x
  BY BoundAssumption DEF Epoch
<1>4. Restored(p).epoch \in Epoch /\ Restored(p).ne \in Epoch
  BY <1>2, <1>3 DEF Restored
<1> QED BY <1>1, <1>2, <1>3, <1>4 DEF IndInv, WishesDurable, EpochsWished

\* Of oracles that are all among two sets, there are at most as many as in the two.
LEMMA AtMostBoth ==
  ASSUME NEW S, NEW A, NEW B, A \subseteq Oracle, B \subseteq Oracle, S \subseteq A \cup B
  PROVE  /\ Cardinality(S) \in Nat /\ Cardinality(A) \in Nat /\ Cardinality(B) \in Nat
         /\ Cardinality(S) <= Cardinality(A) + Cardinality(B)
<1>1. IsFiniteSet(A) /\ IsFiniteSet(B) /\ IsFiniteSet(A \cup B) /\ IsFiniteSet(A \cap B)
  <2>1. A \cup B \subseteq Oracle /\ A \cap B \subseteq Oracle
    OBVIOUS
  <2> QED BY <2>1, OracleAssumption, FS_Subset
<1>2. /\ IsFiniteSet(S) /\ Cardinality(S) <= Cardinality(A \cup B)
  BY <1>1, FS_Subset
<1>3. /\ Cardinality(S) \in Nat /\ Cardinality(A) \in Nat /\ Cardinality(B) \in Nat
      /\ Cardinality(A \cup B) \in Nat /\ Cardinality(A \cap B) \in Nat
  BY <1>1, <1>2, FS_CardinalityType
<1>4. Cardinality(A \cup B) = Cardinality(A) + Cardinality(B) - Cardinality(A \cap B)
  BY <1>1, FS_Union
<1> QED BY <1>2, <1>3, <1>4

\* Of more oracles, no fewer are counted.
LEMMA NoFewer ==
  ASSUME NEW A, NEW B, A \subseteq B, B \subseteq Oracle
  PROVE  /\ Cardinality(A) \in Nat /\ Cardinality(B) \in Nat
         /\ Cardinality(A) <= Cardinality(B)
<1>1. IsFiniteSet(B)
  BY OracleAssumption, FS_Subset
<1> QED BY <1>1, FS_Subset, FS_CardinalityType

LEMMA FewFaulty == Cardinality(Faulty) \in Nat /\ Cardinality(Faulty) <= F /\ F \in Nat
BY OracleAssumption, FaultAssumption, FS_Subset, FS_CardinalityType

\* More than F of those that back an epoch are honest.
LEMMA BackedByHonest ==
  ASSUME NEW x, Backed(x)
  PROVE  Cardinality(Supporters(x)) > F
<1>1. Supporters(x) \subseteq Oracle /\ Faulty \subseteq Oracle
  BY OracleAssumption DEF Supporters, Honest
<1>2. /\ Cardinality(Faulty \cup Supporters(x)) \in Nat /\ Cardinality(Supporters(x)) \in Nat
      /\ Cardinality(Faulty \cup Supporters(x)) <= Cardinality(Faulty) + Cardinality(Supporters(x))
  BY <1>1, AtMostBoth
<1> QED BY <1>2, FewFaulty DEF Backed

\* The first epoch, which every oracle begins with, is backed by all.
LEMMA FirstBacked ==
  ASSUME \A q \in Honest : ne[q] \in sent[q] /\ ne[q] >= 1
  PROVE  Backed(1)
<1>1. Supporters(1) = Honest
  BY DEF Supporters
<1>2. Faulty \cup Supporters(1) = Oracle
  BY <1>1, OracleAssumption DEF Honest
<1>3. Cardinality(Oracle) \in Nat
  BY OracleAssumption, FS_CardinalityType
<1>4. Cardinality(Oracle) > 2 * F
  BY <1>3, FaultAssumption
<1> QED BY <1>2, <1>4 DEF Backed

\* Who supports an epoch supports the earlier ones, too.
LEMMA EarlierSupported ==
  ASSUME NEW x \in Nat, NEW y \in Nat, y <= x, \A q \in Honest : sent[q] \subseteq Nat
  PROVE  /\ Backed(x) => Backed(y)
         /\ Cardinality(Supporters(x)) > F => Cardinality(Supporters(y)) > F
<1>1. Supporters(x) \subseteq Supporters(y)
  <2> SUFFICES ASSUME NEW q \in Honest, NEW z \in sent[q], z >= x PROVE z >= y
    BY DEF Supporters
  <2> QED BY z \in Nat
<1>2. Supporters(y) \subseteq Oracle /\ Faulty \cup Supporters(y) \subseteq Oracle
  BY OracleAssumption DEF Supporters, Honest
<1>3. /\ Cardinality(Supporters(x)) \in Nat /\ Cardinality(Supporters(y)) \in Nat
      /\ Cardinality(Supporters(x)) <= Cardinality(Supporters(y))
  BY <1>1, <1>2, NoFewer
<1>4. /\ Cardinality(Faulty \cup Supporters(x)) \in Nat
      /\ Cardinality(Faulty \cup Supporters(y)) \in Nat
      /\ Cardinality(Faulty \cup Supporters(x)) <= Cardinality(Faulty \cup Supporters(y))
  <2>1. Faulty \cup Supporters(x) \subseteq Faulty \cup Supporters(y)
    BY <1>1
  <2> QED BY <1>2, <2>1, NoFewer
<1> QED BY <1>3, <1>4, FewFaulty DEF Backed

\* Support is never lost.
LEMMA SupportLasts ==
  ASSUME NEW x, \A q \in Honest : sent[q] \subseteq sent'[q]
  PROVE  /\ Backed(x) => Backed(x)'
         /\ Cardinality(Supporters(x)) > F => Cardinality(Supporters(x)') > F
<1>1. Supporters(x) \subseteq Supporters(x)'
  BY DEF Supporters
<1>2. Supporters(x)' \subseteq Oracle /\ Faulty \cup Supporters(x)' \subseteq Oracle
  BY OracleAssumption DEF Supporters, Honest
<1>3. /\ Cardinality(Supporters(x)) \in Nat /\ Cardinality(Supporters(x)') \in Nat
      /\ Cardinality(Supporters(x)) <= Cardinality(Supporters(x)')
  BY <1>1, <1>2, NoFewer
<1>4. /\ Cardinality(Faulty \cup Supporters(x)) \in Nat
      /\ Cardinality(Faulty \cup Supporters(x)') \in Nat
      /\ Cardinality(Faulty \cup Supporters(x)) <= Cardinality(Faulty \cup Supporters(x)')
  <2>1. Faulty \cup Supporters(x) \subseteq Faulty \cup Supporters(x)'
    BY <1>1
  <2> QED BY <1>2, <2>1, NoFewer
<1> QED BY <1>3, <1>4, FewFaulty DEF Backed

\* The invariant gives the support that EpochSupported promises: those that forgot
\* are taken off like the faulty ones.
LEMMA SupportedEpochs == IndInv => EpochSupported
<1> SUFFICES ASSUME IndInv, NEW p \in Honest
             PROVE  /\ Cardinality(Supporters(e[p])) > F
                    /\ Cardinality(Faulty \cup Forgetful) <= F =>
                         Cardinality({q \in Honest : ne[q] >= e[p]}) > F
  BY DEF EpochSupported
<1>1. Backed(e[p])
  BY DEF IndInv, EpochsBacked
<1>2. ASSUME Cardinality(Faulty \cup Forgetful) <= F
      PROVE  Cardinality({q \in Honest : ne[q] >= e[p]}) > F
  <2> DEFINE S == Faulty \cup Supporters(e[p])
             T == Faulty \cup Forgetful
             H == {q \in Honest : ne[q] >= e[p]}
  <2>1. Supporters(e[p]) \subseteq Forgetful \cup H
    <3> SUFFICES ASSUME NEW q \in Honest, NEW y \in sent[q], y >= e[p], q \notin Forgetful
                 PROVE  ne[q] >= e[p]
      BY DEF Supporters
    <3>1. y \in Nat /\ ne[q] \in Nat /\ e[p] \in Nat
      BY Ordered
    <3>2. ~ (y > ne[q])
      BY DEF Forgetful
    <3> QED BY <3>1, <3>2
  <2>2. S \subseteq T \cup H /\ T \subseteq Oracle /\ H \subseteq Oracle
    BY <2>1, OracleAssumption DEF Honest, Forgetful
  <2> HIDE DEF S, T, H
  <2>3. /\ Cardinality(S) \in Nat /\ Cardinality(T) \in Nat /\ Cardinality(H) \in Nat
        /\ Cardinality(S) <= Cardinality(T) + Cardinality(H)
    BY <2>2, AtMostBoth
  <2>4. Cardinality(S) > 2 * F /\ Cardinality(T) <= F
    BY <1>1, <1>2 DEF Backed, S, T
  <2>5. Cardinality(H) > F
    BY <2>3, <2>4, FewFaulty
  <2> QED BY <2>5 DEF H
<1> QED BY <1>1, <1>2, BackedByHonest

\* Every action is a step of one honest oracle to a backed epoch and a wish one past
\* supported ones.  Both are written, or nothing is: then they are the old ones, if
\* the database works, and not behind what is on disk in any case.
Raises(p, epoch, wish) ==
  /\ epoch \in Epoch /\ wish \in Epoch /\ epoch <= wish
  /\ e' = [e EXCEPT ![p] = epoch]
  /\ ne' = [ne EXCEPT ![p] = wish]
  /\ sent' = [sent EXCEPT ![p] = @ \cup {wish}]
  /\ \/ disk' = [disk EXCEPT ![p] = [epoch |-> epoch, ne |-> wish]]
     \/ /\ disk' = disk
        /\ Restored(p).epoch <= epoch /\ Restored(p).ne <= wish
        /\ p \notin FailingDB => epoch = e[p] /\ wish = ne[p]
  /\ p \notin FailingDB \cap MayRestart => e[p] <= epoch /\ ne[p] <= wish
  /\ wishes' \in [Oracle -> [Oracle -> Wish \cup {0}]]
  /\ \A q, r \in Honest : wishes'[q][r] \in sent[r] \cup {0}
  /\ tProgress' \in [Oracle -> BOOLEAN] /\ notify' \in [Oracle -> BOOLEAN]
  /\ Backed(epoch)
  /\ wish > 1 => Cardinality(Supporters(wish - 1)) > F

LEMMA RaisesStep ==
  ASSUME IndInv, NEW p \in Honest, NEW epoch, NEW wish, Raises(p, epoch, wish)
  PROVE  IndInv' /\ Forward
<1>1. TypeOK
  BY DEF IndInv
<1>2. /\ epoch \in Epoch /\ wish \in Epoch /\ epoch \in Nat /\ wish \in Nat
      /\ 1 <= epoch /\ epoch <= wish
  BY BoundAssumption DEF Raises, Epoch
<1>3. \A q \in Honest : /\ q \in Oracle
                        /\ e'[q] = IF q = p THEN epoch ELSE e[q]
                        /\ ne'[q] = IF q = p THEN wish ELSE ne[q]
                        /\ sent'[q] = IF q = p THEN sent[q] \cup {wish} ELSE sent[q]
  BY <1>1 DEF Raises, TypeOK, Honest
<1>4. \A q \in Honest : /\ e[q] \in Nat /\ ne[q] \in Nat /\ e[q] <= ne[q]
                        /\ ne[q] \in sent[q] /\ sent[q] \subseteq Nat
  BY Ordered
<1>5. \A q \in Honest : sent[q] \subseteq sent'[q]
  BY <1>3
<1>6. Forward
  <2> SUFFICES ASSUME NEW q \in Honest, q \notin FailingDB \cap MayRestart
               PROVE  e'[q] >= e[q] /\ ne'[q] >= ne[q]
    BY DEF Forward
  <2> QED BY <1>2, <1>3, <1>4 DEF Raises
<1>7. TypeOK'
  <2>1. e' \in [Oracle -> Epoch] /\ ne' \in [Oracle -> Epoch] /\ sent' \in [Oracle -> SUBSET Epoch]
    BY <1>1, <1>2 DEF Raises, TypeOK
  <2>2. disk' \in [Oracle -> [epoch : Epoch, ne : Epoch] \cup {NoState}]
    <3>1. [epoch |-> epoch, ne |-> wish] \in [epoch : Epoch, ne : Epoch]
      BY <1>2
    <3>2. disk \in [Oracle -> [epoch : Epoch, ne : Epoch] \cup {NoState}]
      BY <1>1 DEF TypeOK
    <3>3. disk' = disk \/ disk' = [disk EXCEPT ![p] = [epoch |-> epoch, ne |-> wish]]
      BY DEF Raises
    <3> QED BY <3>1, <3>2, <3>3
  <2> QED BY <2>1, <2>2 DEF Raises, TypeOK
<1>8. WishesDurable'
  <2> SUFFICES ASSUME NEW q \in Honest
               PROVE  /\ ne'[q] \in sent'[q] /\ Restored(q)'.ne \in sent'[q]
                      /\ Restored(q)'.epoch <= e'[q] /\ Restored(q)'.ne <= ne'[q]
                      /\ Restored(q)'.epoch <= Restored(q)'.ne
                      /\ q \notin FailingDB =>
                           /\ Restored(q)' = [epoch |-> e'[q], ne |-> ne'[q]]
                           /\ \A x \in sent'[q] : x <= ne'[q]
    BY DEF WishesDurable
  <2>1. /\ ne[q] \in sent[q] /\ Restored(q).ne \in sent[q]
        /\ Restored(q).epoch <= e[q] /\ Restored(q).ne <= ne[q]
        /\ Restored(q).epoch <= Restored(q).ne
        /\ q \notin FailingDB =>
             /\ Restored(q) = [epoch |-> e[q], ne |-> ne[q]]
             /\ \A x \in sent[q] : x <= ne[q]
    BY DEF IndInv, WishesDurable
  <2>2. CASE q = p /\ disk' = [disk EXCEPT ![p] = [epoch |-> epoch, ne |-> wish]]
    <3>1. disk'[p] = [epoch |-> epoch, ne |-> wish]
      BY <1>1, <1>3, <2>2 DEF TypeOK
    <3>2. disk'[p] # NoState
      BY <1>2, <3>1 DEF NoState
    <3>3. Restored(p)' = [epoch |-> epoch, ne |-> wish]
      BY <3>1, <3>2 DEF Restored
    <3>4. e'[p] = epoch /\ ne'[p] = wish /\ wish \in sent'[p]
      BY <1>3
    <3>5. p \notin FailingDB => \A x \in sent'[p] : x <= wish
      <4> SUFFICES ASSUME p \notin FailingDB, NEW x \in sent'[p] PROVE x <= wish
        OBVIOUS
      <4>1. x = wish \/ (x \in sent[p] /\ x \in Nat /\ x <= ne[p])
        <5>1. x \in sent[p] \/ x = wish
          BY <1>3
        <5>2. x \in sent[p] => x \in Nat /\ x <= ne[p]
          BY <1>4, <2>1, <2>2
        <5> QED BY <5>1, <5>2
      <4>2. ne[p] <= wish
        BY DEF Raises
      <4> QED BY <1>2, <1>4, <4>1, <4>2
    <3> QED BY <1>2, <2>2, <3>3, <3>4, <3>5
  <2>3. CASE q = p /\ disk' # [disk EXCEPT ![p] = [epoch |-> epoch, ne |-> wish]]
    <3>1. /\ disk' = disk /\ Restored(p).epoch <= epoch /\ Restored(p).ne <= wish
          /\ p \notin FailingDB => epoch = e[p] /\ wish = ne[p]
      BY <2>3 DEF Raises
    <3>2. Restored(p)' = Restored(p)
      BY <3>1 DEF Restored
    <3>3. e'[p] = epoch /\ ne'[p] = wish /\ sent'[p] = sent[p] \cup {wish}
      BY <1>3
    <3> HIDE DEF Restored
    <3> QED BY <2>1, <2>3, <3>1, <3>2, <3>3
  <2>4. CASE q # p
    <3>1. disk'[q] = disk[q]
      BY <1>1, <1>3, <2>4 DEF Raises, TypeOK
    <3>2. Restored(q)' = Restored(q)
      BY <3>1 DEF Restored
    <3>3. e'[q] = e[q] /\ ne'[q] = ne[q] /\ sent'[q] = sent[q]
      BY <1>3, <2>4
    <3> QED BY <2>1, <3>2, <3>3
  <2> QED BY <2>2, <2>3, <2>4
<1>9. Received'
  BY <1>3 DEF Received, Raises
<1>10. EpochsWished'
  BY <1>2, <1>3, <1>4 DEF EpochsWished
<1>11. EpochsBacked'
  <2> SUFFICES ASSUME NEW q \in Honest PROVE Backed(e[q])'
    BY DEF EpochsBacked
  <2>1. Backed(e[q]) /\ Backed(epoch)
    BY DEF IndInv, EpochsBacked, Raises
  <2>2. \A x : Backed(x) => Backed(x)'
    BY <1>5, SupportLasts
  <2>3. PICK x : x = e'[q] /\ Backed(x)'
    BY <1>3, <2>1, <2>2
  <2> QED BY <2>3 DEF Backed, Supporters
<1>12. NoEpochJumped'
  <2> SUFFICES ASSUME NEW q \in Honest, NEW x \in sent'[q], x > 1
               PROVE  Cardinality(Supporters(x - 1)') > F
    BY DEF NoEpochJumped, Supporters
  <2>1. Cardinality(Supporters(x - 1)) > F
    <3>1. CASE x \in sent[q]
      BY <3>1 DEF IndInv, NoEpochJumped
    <3>2. CASE x \notin sent[q]
      <4>1. x = wish
        BY <1>3, <3>2
      <4> QED BY <4>1 DEF Raises
    <3> QED BY <3>1, <3>2
  <2> QED BY <1>5, <2>1, SupportLasts
<1> QED BY <1>6, <1>7, <1>8, <1>9, <1>10, <1>11, <1>12 DEF IndInv

-----------------------------------------------------------------------------
(* The actions *)

LEMMA InitInv == Init => IndInv
<1> SUFFICES ASSUME Init PROVE IndInv
  OBVIOUS
<1>1. 1 \in Epoch
  BY BoundAssumption DEF Epoch
<1>2. TypeOK
  BY <1>1 DEF Init, TypeOK
<1>3. \A p \in Honest : /\ p \in Oracle /\ e[p] = 1 /\ ne[p] = 1 /\ sent[p] = {1}
                        /\ Restored(p) = [epoch |-> 1, ne |-> 1]
                        /\ \A q \in Honest : wishes[p][q] = 0
  BY DEF Init, Honest, Restored
<1>4. WishesDurable
  <2> HIDE DEF Restored
  <2> QED BY <1>3 DEF WishesDurable
<1>5. Backed(1)
  BY <1>3, FirstBacked
<1>6. Received /\ EpochsWished /\ EpochsBacked /\ NoEpochJumped
  BY <1>3, <1>5 DEF Received, EpochsWished, EpochsBacked, NoEpochJumped
<1> QED BY <1>2, <1>4, <1>6 DEF IndInv

\* What an oracle already wishes for, or wished for, is no jump.
LEMMA SentNoJump ==
  ASSUME IndInv, NEW p \in Honest, NEW x \in sent[p], x > 1
  PROVE  Cardinality(Supporters(x - 1)) > F
BY DEF IndInv, NoEpochJumped

\* The actions that leave the epoch and the wish alone.
LEMMA KeepsStep ==
  ASSUME IndInv, NEW p \in Honest,
         NotifyOutcomeGeneration(p) \/ Progress(p) \/ TResendTimeout(p)
  PROVE  Raises(p, e[p], ne[p])
<1>1. p \in Oracle /\ TypeOK /\ Received /\ Backed(e[p])
  BY DEF IndInv, EpochsBacked, Honest
<1>2. /\ e[p] \in Epoch /\ ne[p] \in Epoch /\ e[p] <= ne[p] /\ ne[p] \in sent[p]
      /\ e[p] \in Nat /\ ne[p] \in Nat
      /\ Restored(p).epoch <= e[p] /\ Restored(p).ne <= ne[p]
  BY Ordered
<1>3. e = [e EXCEPT ![p] = e[p]] /\ ne = [ne EXCEPT ![p] = ne[p]]
  BY <1>1 DEF TypeOK
<1>4. sent = [sent EXCEPT ![p] = @ \cup {ne[p]}]
  BY <1>1, <1>2 DEF TypeOK
<1>5. ne[p] > 1 => Cardinality(Supporters(ne[p] - 1)) > F
  BY <1>2, SentNoJump
<1>6. CASE NotifyOutcomeGeneration(p)
  BY <1>1, <1>2, <1>3, <1>4, <1>5, <1>6 DEF NotifyOutcomeGeneration, Raises, TypeOK, Received
<1>7. CASE Progress(p)
  BY <1>1, <1>2, <1>3, <1>4, <1>5, <1>7 DEF Progress, Raises, TypeOK, Received
<1>8. CASE TResendTimeout(p)
  BY <1>1, <1>2, <1>3, <1>4, <1>5, <1>8 DEF TResendTimeout, Raises, TypeOK, Received
<1> QED BY <1>6, <1>7, <1>8

\* A restart: the epoch on disk is not after the one the oracle was in, so it has
\* the support of that.
LEMMA RestartStep ==
  ASSUME IndInv, NEW p \in Honest, Restart(p)
  PROVE  Raises(p, Restored(p).epoch, Restored(p).ne)
<1> DEFINE epoch == Restored(p).epoch
           wish == Restored(p).ne
<1>1. p \in Oracle /\ TypeOK /\ Received /\ Backed(e[p])
  BY DEF IndInv, EpochsBacked, Honest
<1>2. /\ epoch \in Epoch /\ wish \in Epoch /\ epoch <= wish /\ wish \in sent[p]
      /\ epoch <= e[p] /\ wish <= ne[p] /\ e[p] \in Nat /\ ne[p] \in Nat
      /\ \A q \in Honest : sent[q] \subseteq Nat
  BY Ordered
<1>3. epoch \in Nat /\ wish \in Nat
  BY <1>2, BoundAssumption DEF Epoch
<1>4. p \notin FailingDB => epoch = e[p] /\ wish = ne[p]
  <2> SUFFICES ASSUME p \notin FailingDB PROVE epoch = e[p] /\ wish = ne[p]
    OBVIOUS
  <2>1. Restored(p) = [epoch |-> e[p], ne |-> ne[p]]
    BY DEF IndInv, WishesDurable
  <2> QED BY <2>1
<1>5. e' = [e EXCEPT ![p] = epoch] /\ ne' = [ne EXCEPT ![p] = wish]
  BY DEF Restart
<1> HIDE DEF epoch, wish
<1>6. ne'[p] = wish
  BY <1>1, <1>5 DEF TypeOK
<1>7. /\ sent' = [sent EXCEPT ![p] = @ \cup {wish}] /\ disk' = disk
      /\ wishes' = [wishes EXCEPT ![p] = [q \in Oracle |-> 0]]
      /\ p \in MayRestart
  BY <1>6 DEF Restart
<1>8. wishes' \in [Oracle -> [Oracle -> Wish \cup {0}]]
  BY <1>1, <1>7 DEF TypeOK
<1>9. \A q, r \in Honest : wishes'[q][r] \in sent[r] \cup {0}
  <2> SUFFICES ASSUME NEW q \in Honest, NEW r \in Honest
               PROVE  wishes'[q][r] \in sent[r] \cup {0}
    OBVIOUS
  <2>1. q \in Oracle /\ r \in Oracle
    BY DEF Honest
  <2>2. wishes'[q][r] = IF q = p THEN 0 ELSE wishes[q][r]
    BY <1>1, <1>7, <2>1 DEF TypeOK
  <2> QED BY <1>1, <2>2 DEF Received
<1>10. tProgress' \in [Oracle -> BOOLEAN] /\ notify' \in [Oracle -> BOOLEAN]
  BY <1>1 DEF Restart, TypeOK
<1>11. Backed(epoch)
  BY <1>1, <1>2, <1>3, EarlierSupported
<1>12. wish > 1 => Cardinality(Supporters(wish - 1)) > F
  BY <1>2, SentNoJump
<1>13. p \notin FailingDB \cap MayRestart => e[p] <= epoch /\ ne[p] <= wish
  BY <1>2, <1>4, <1>7
<1>14. Restored(p).epoch <= epoch /\ Restored(p).ne <= wish
  BY <1>3 DEF epoch, wish
<1>15. Raises(p, epoch, wish)
  BY ONLY <1>2, <1>4, <1>5, <1>7, <1>8, <1>9, <1>10, <1>11, <1>12, <1>13, <1>14 DEF Raises
<1> QED BY <1>15 DEF epoch, wish

\* A request for a new epoch raises the wish above the epoch, which is backed.
LEMMA RequestStep ==
  ASSUME IndInv, NEW p \in Honest, NEW written \in BOOLEAN, RequestNewEpoch(p, written)
  PROVE  Raises(p, e[p], Highest(ne[p], e[p] + 1))
<1>1. p \in Oracle /\ TypeOK /\ Received /\ Backed(e[p])
  BY DEF IndInv, EpochsBacked, Honest
<1>2. /\ e[p] \in Epoch /\ ne[p] \in Epoch /\ e[p] <= ne[p] /\ ne[p] \in sent[p]
      /\ e[p] \in Nat /\ ne[p] \in Nat
      /\ Restored(p).epoch \in Epoch /\ Restored(p).epoch <= e[p]
      /\ Restored(p).ne \in Epoch /\ Restored(p).ne <= ne[p]
  BY Ordered
<1> DEFINE wish == Highest(ne[p], e[p] + 1)
<1>3. e[p] + 1 \in Epoch
  BY <1>2, BoundAssumption DEF RequestNewEpoch, Epoch
<1>4. wish \in Epoch /\ e[p] <= wish /\ ne[p] <= wish /\ wish \in Nat
  BY <1>2, <1>3, BoundAssumption DEF Highest, Epoch
<1>5. ne' = [ne EXCEPT ![p] = wish]
  BY <1>1, <1>2 DEF RequestNewEpoch, TypeOK
<1>6. ne'[p] = wish
  BY <1>1, <1>5 DEF TypeOK
<1>7. sent' = [sent EXCEPT ![p] = @ \cup {wish}]
  BY <1>6 DEF RequestNewEpoch
<1>8. \/ disk' = [disk EXCEPT ![p] = [epoch |-> e[p], ne |-> wish]]
      \/ disk' = disk /\ (p \notin FailingDB => wish = ne[p])
  <2>1. CASE written /\ ne[p] < e[p] + 1
    BY <1>2, <2>1 DEF RequestNewEpoch, Highest
  <2>2. CASE ~(written /\ ne[p] < e[p] + 1)
    <3>1. disk' = disk
      BY <1>1, <2>2 DEF RequestNewEpoch, TypeOK
    <3>2. p \notin FailingDB => wish = ne[p]
      BY <1>2, <2>2 DEF RequestNewEpoch, Highest
    <3> QED BY <3>1, <3>2
  <2> QED BY <2>1, <2>2
<1>9. e' = [e EXCEPT ![p] = e[p]] /\ wishes' = wishes
  BY <1>1 DEF RequestNewEpoch, TypeOK
<1>10. tProgress' \in [Oracle -> BOOLEAN] /\ notify' \in [Oracle -> BOOLEAN]
  BY <1>1 DEF RequestNewEpoch, TypeOK
<1>11. wish > 1 => Cardinality(Supporters(wish - 1)) > F
  <2>1. CASE wish = ne[p]
    BY <1>2, <2>1, SentNoJump
  <2>2. CASE wish = e[p] + 1
    <3>1. wish - 1 = e[p]
      BY <1>2, <2>2
    <3> QED BY <1>1, <3>1, BackedByHonest
  <2> QED BY <2>1, <2>2 DEF Highest
<1> HIDE DEF wish
<1>12. Raises(p, e[p], wish)
  <2>1. Restored(p).ne <= wish
    BY <1>2, <1>4, BoundAssumption DEF Epoch
  <2>2. wishes' \in [Oracle -> [Oracle -> Wish \cup {0}]]
    BY <1>1, <1>9 DEF TypeOK
  <2>3. \A q, r \in Honest : wishes'[q][r] \in sent[r] \cup {0}
    BY <1>1, <1>9 DEF Received
  <2>4. e[p] <= e[p]
    BY <1>2
  <2> QED BY ONLY <1>1, <1>2, <1>4, <1>5, <1>7, <1>8, <1>9, <1>10, <1>11, <2>1, <2>2, <2>3,
              <2>4 DEF Raises
<1> QED BY <1>12 DEF wish

\* What is found with the support of more than F is no more than some honest oracle
\* wished for.
LEMMA FoundInEpochs ==
  ASSUME IndInv, NEW w \in [Oracle -> Nat], \A r \in Honest : w[r] \in sent[r] \cup {0},
         NEW k \in Nat, k >= F, NEW x \in Nat, WishedFor(w, k, x) # 0
  PROVE  /\ WishedFor(w, k, x) \in Epoch
         /\ \E r \in Honest : \E z \in sent[r] : WishedFor(w, k, x) <= z
<1> DEFINE y == WishedFor(w, k, x)
           S == {q \in Oracle : w[q] >= y}
<1>1. y \in Nat /\ y > x /\ Cardinality(S) > k
  BY WishedForIsSupported
<1>2. S \cap Honest # {}
  <2> SUFFICES ASSUME S \cap Honest = {} PROVE FALSE
    OBVIOUS
  <2>1. S \subseteq Faulty /\ Faulty \subseteq Oracle
    BY OracleAssumption DEF Honest
  <2> HIDE DEF S
  <2>2. Cardinality(S) \in Nat /\ Cardinality(S) <= Cardinality(Faulty)
    BY <2>1, NoFewer
  <2> QED BY <1>1, <2>2, FewFaulty
<1>3. PICK r \in Honest : w[r] >= y
  BY <1>2
<1>4. w[r] \in sent[r]
  <2>1. w[r] # 0
    BY <1>1, <1>3
  <2> QED BY <2>1
<1>5. w[r] \in Epoch
  BY <1>4, Ordered
<1> HIDE DEF y
<1>6. y \in Epoch
  BY <1>1, <1>3, <1>5, BoundAssumption DEF Epoch
<1>7. y <= w[r]
  BY <1>1, <1>3, <1>5, BoundAssumption DEF Epoch
<1> QED BY <1>4, <1>6, <1>7 DEF y

\* A wish that arrives: what it makes the oracle wish for and switch to.
LEMMA WishStep ==
  ASSUME IndInv, NEW p \in Honest, NEW q \in Oracle, NEW x \in Wish,
         NEW written \in BOOLEAN, NewEpochWish(p, q, x, written)
  PROVE  \E epoch, wish : Raises(p, epoch, wish)
<1> DEFINE w == [wishes[p] EXCEPT ![q] = Highest(@, x)]
           join == WishedFor(w, F, ne[p])
           switch == WishedFor(w, 2 * F, e[p])
           wish == IF join = 0 THEN ne[p] ELSE join
           epoch == IF switch = 0 THEN e[p] ELSE switch
<1>1. p \in Oracle /\ TypeOK /\ Received /\ Backed(e[p])
  BY DEF IndInv, EpochsBacked, Honest
<1>2. /\ e[p] \in Epoch /\ ne[p] \in Epoch /\ e[p] <= ne[p] /\ ne[p] \in sent[p]
      /\ e[p] \in Nat /\ ne[p] \in Nat /\ ne[p] >= 1
      /\ Restored(p).epoch \in Nat /\ Restored(p).epoch <= e[p]
      /\ Restored(p).ne \in Nat /\ Restored(p).ne <= ne[p]
      /\ \A r \in Honest : sent[r] \subseteq Nat
  BY Ordered, BoundAssumption DEF Epoch
<1>3. Wish \subseteq Nat /\ Wish \cup {0} \subseteq Nat
  BY BoundAssumption, WishAssumption DEF Wish, Epoch
<1>4. wishes[p] \in [Oracle -> Wish \cup {0}]
  BY <1>1 DEF TypeOK
<1>5. Highest(wishes[p][q], x) \in {wishes[p][q], x}
  BY DEF Highest
<1>6. w \in [Oracle -> Wish \cup {0}]
  BY <1>4, <1>5
<1>7. w \in [Oracle -> Nat]
  BY <1>3, <1>6
<1>8. \A r \in Honest : w[r] \in sent[r] \cup {0}
  <2> SUFFICES ASSUME NEW r \in Honest PROVE w[r] \in sent[r] \cup {0}
    OBVIOUS
  <2>1. wishes[p][r] \in sent[r] \cup {0} /\ r \in Oracle
    BY <1>1 DEF Received, Honest
  <2>2. r = q => x \in sent[r]
    BY DEF NewEpochWish, Honest
  <2>3. w[r] = IF r = q THEN Highest(wishes[p][q], x) ELSE wishes[p][r]
    BY <1>4, <2>1
  <2> QED BY <1>5, <2>1, <2>2, <2>3
<1> HIDE DEF w
<1>9. /\ join \in Nat
      /\ join # 0 => /\ join > ne[p] /\ join \in Epoch
                     /\ \E r \in Honest : \E z \in sent[r] : join <= z
      /\ switch \in Nat
      /\ switch # 0 => /\ switch > e[p] /\ switch \in Epoch
                       /\ Cardinality({r \in Oracle : w[r] >= switch}) > 2 * F
  <2>1. F \in Nat /\ 2 * F \in Nat /\ 2 * F >= F /\ F >= F
    BY FaultAssumption
  <2>2. join \in Nat /\ (join # 0 => join > ne[p])
    BY <1>2, <1>7, <2>1, WishedForIsSupported
  <2>3. join # 0 => join \in Epoch /\ \E r \in Honest : \E z \in sent[r] : join <= z
    BY <1>2, <1>7, <1>8, <2>1, FoundInEpochs
  <2>4. /\ switch \in Nat
        /\ switch # 0 => /\ switch > e[p]
                         /\ Cardinality({r \in Oracle : w[r] >= switch}) > 2 * F
    BY <1>2, <1>7, <2>1, WishedForIsSupported
  <2>5. switch # 0 => switch \in Epoch
    BY <1>2, <1>7, <1>8, <2>1, FoundInEpochs
  <2> QED BY <2>2, <2>3, <2>4, <2>5
<1>10. switch > ne[p] => join >= switch
  BY <1>2, <1>7, FaultAssumption, JoinNotBelowSwitch
<1>11. /\ wishes' = [wishes EXCEPT ![p] = w]
       /\ disk' = [disk EXCEPT ![p] =
            IF written /\ (join # 0 \/ switch # 0) THEN RaisedState(epoch, wish) ELSE @]
       /\ ne' = [ne EXCEPT ![p] = Highest(wish, epoch)]
       /\ e' = [e EXCEPT ![p] = epoch]
       /\ sent' = [sent EXCEPT ![p] = IF join = 0 THEN @ ELSE @ \cup {wish}]
       /\ tProgress' = [tProgress EXCEPT ![p] = @ \/ switch # 0]
       /\ notify' = [notify EXCEPT ![p] = @ \/ switch # 0]
       /\ written \/ p \in FailingDB
  BY DEF NewEpochWish, w
<1>12. switch # 0 => Backed(switch)
  <2> SUFFICES ASSUME switch # 0 PROVE Backed(switch)
    OBVIOUS
  <2> DEFINE S == {r \in Oracle : w[r] >= switch}
             T == Faulty \cup Supporters(switch)
  <2>1. switch \in Nat /\ switch > 0 /\ Cardinality(S) > 2 * F
    BY <1>2, <1>9
  <2> HIDE DEF switch
  <2>2. S \subseteq T
    <3> SUFFICES ASSUME NEW r \in Honest, w[r] >= switch PROVE r \in Supporters(switch)
      BY DEF Honest
    <3>1. w[r] \in sent[r]
      BY <1>8, <2>1
    <3> QED BY <3>1 DEF Supporters
  <2>3. T \subseteq Oracle
    BY OracleAssumption DEF Supporters, Honest
  <2> HIDE DEF S, T
  <2>4. Cardinality(S) \in Nat /\ Cardinality(T) \in Nat /\ Cardinality(S) <= Cardinality(T)
    BY <2>2, <2>3, NoFewer
  <2>5. Cardinality(T) > 2 * F
    BY <2>1, <2>4, FewFaulty
  <2> QED BY <2>5 DEF T, Backed
<1>13. join # 0 => Cardinality(Supporters(join - 1)) > F
  <2> SUFFICES ASSUME join # 0 PROVE Cardinality(Supporters(join - 1)) > F
    OBVIOUS
  <2>1. PICK r \in Honest : \E z \in sent[r] : join <= z
    BY <1>9
  <2>2. PICK z \in sent[r] : join <= z
    BY <2>1
  <2>3. join \in Nat /\ join > 1 /\ z \in Nat
    BY <1>2, <1>9
  <2> HIDE DEF join
  <2>4. Cardinality(Supporters(z - 1)) > F
    BY <2>2, <2>3, SentNoJump
  <2>5. join - 1 \in Nat /\ z - 1 \in Nat /\ join - 1 <= z - 1
    BY <2>2, <2>3
  <2> QED BY <1>2, <2>4, <2>5, EarlierSupported
<1> HIDE DEF join, switch
<1>14. /\ join = 0 => wish = ne[p]
       /\ join # 0 => wish = join
       /\ switch = 0 => epoch = e[p]
       /\ switch # 0 => epoch = switch
  OBVIOUS
<1> HIDE DEF epoch, wish
<1>15. /\ epoch \in Epoch /\ wish \in Epoch /\ epoch \in Nat /\ wish \in Nat
       /\ e[p] <= epoch /\ epoch <= wish /\ ne[p] <= wish
       /\ Highest(wish, epoch) = wish
  <2>1. epoch \in Epoch /\ wish \in Epoch
    BY <1>2, <1>9, <1>14
  <2>2. epoch \in Nat /\ wish \in Nat
    BY <2>1, BoundAssumption DEF Epoch
  <2>3. e[p] <= epoch /\ ne[p] <= wish
    BY <1>2, <1>9, <1>14
  <2>4. epoch <= wish
    <3>1. CASE switch > ne[p]
      <4>1. join >= switch /\ join # 0 /\ epoch = switch
        BY <1>2, <1>9, <1>10, <1>14, <3>1
      <4> QED BY <1>14, <4>1
    <3>2. CASE ~ (switch > ne[p])
      <4>1. epoch <= ne[p]
        BY <1>2, <1>9, <1>14, <3>2
      <4> QED BY <1>2, <2>2, <2>3, <4>1
    <3> QED BY <3>1, <3>2
  <2>5. Highest(wish, epoch) = wish
    BY <2>2, <2>4 DEF Highest
  <2> QED BY <2>1, <2>2, <2>3, <2>4, <2>5
<1>16. sent' = [sent EXCEPT ![p] = @ \cup {wish}]
  <2>1. CASE join = 0
    <3>1. sent[p] \cup {wish} = sent[p]
      BY <1>2, <1>14, <2>1
    <3> QED BY <1>11, <2>1, <3>1
  <2>2. CASE join # 0
    BY <1>11, <2>2
  <2> QED BY <2>1, <2>2
<1>17. \/ disk' = [disk EXCEPT ![p] = [epoch |-> epoch, ne |-> wish]]
       \/ disk' = disk /\ (p \notin FailingDB => epoch = e[p] /\ wish = ne[p])
  <2>1. CASE written /\ (join # 0 \/ switch # 0)
    <3>1. RaisedState(epoch, wish) = [epoch |-> epoch, ne |-> wish]
      BY <1>15 DEF RaisedState
    <3> QED BY <1>11, <2>1, <3>1
  <2>2. CASE ~(written /\ (join # 0 \/ switch # 0))
    <3>1. disk' = disk
      BY <1>1, <1>11, <2>2 DEF TypeOK
    <3>2. p \notin FailingDB => epoch = e[p] /\ wish = ne[p]
      BY <1>11, <1>14, <2>2
    <3> QED BY <3>1, <3>2
  <2> QED BY <2>1, <2>2
<1>18. wishes' \in [Oracle -> [Oracle -> Wish \cup {0}]]
  BY <1>1, <1>6, <1>11 DEF TypeOK
<1>19. \A s, r \in Honest : wishes'[s][r] \in sent[r] \cup {0}
  <2> SUFFICES ASSUME NEW s \in Honest, NEW r \in Honest
               PROVE  wishes'[s][r] \in sent[r] \cup {0}
    OBVIOUS
  <2>1. s \in Oracle /\ r \in Oracle
    BY DEF Honest
  <2>2. wishes'[s] = IF s = p THEN w ELSE wishes[s]
    BY <1>1, <1>11, <2>1 DEF TypeOK
  <2> QED BY <1>1, <1>8, <2>2 DEF Received
<1>20. tProgress' \in [Oracle -> BOOLEAN] /\ notify' \in [Oracle -> BOOLEAN]
  <2> DEFINE switched == switch # 0
  <2>1. switched \in BOOLEAN
    OBVIOUS
  <2>2. /\ tProgress' = [tProgress EXCEPT ![p] = @ \/ switched]
        /\ notify' = [notify EXCEPT ![p] = @ \/ switched]
    BY <1>11
  <2> HIDE DEF switched
  <2> QED BY <1>1, <2>1, <2>2 DEF TypeOK
<1>21. Backed(epoch)
  BY <1>1, <1>12, <1>14
<1>22. wish > 1 => Cardinality(Supporters(wish - 1)) > F
  <2>1. CASE join = 0
    BY <1>2, <1>14, <2>1, SentNoJump
  <2>2. CASE join # 0
    BY <1>13, <1>14, <2>2
  <2> QED BY <2>1, <2>2
<1>23. Restored(p).epoch <= epoch /\ Restored(p).ne <= wish
  BY <1>2, <1>15
<1>24. ne' = [ne EXCEPT ![p] = wish] /\ e' = [e EXCEPT ![p] = epoch]
  BY <1>11, <1>15
<1>25. Raises(p, epoch, wish)
  BY ONLY <1>15, <1>16, <1>17, <1>18, <1>19, <1>20, <1>21, <1>22, <1>23, <1>24 DEF Raises
<1> QED BY <1>25

LEMMA NextStep == IndInv /\ [Next]_vars => IndInv' /\ Forward
<1> SUFFICES ASSUME IndInv, [Next]_vars PROVE IndInv' /\ Forward
  OBVIOUS
<1>1. CASE UNCHANGED vars
  <2>1. IndInv'
    BY <1>1 DEF vars, IndInv, TypeOK, WishesDurable, Restored, Received, EpochsWished,
      EpochsBacked, Backed, NoEpochJumped, Supporters
  <2>2. \A p \in Honest : e[p] \in Nat /\ ne[p] \in Nat
    BY Ordered
  <2>3. Forward
    BY <1>1, <2>2 DEF vars, Forward
  <2> QED BY <2>1, <2>3
<1>2. CASE Next
  <2>1. PICK p \in Honest :
          \/ NotifyOutcomeGeneration(p) \/ Progress(p) \/ TResendTimeout(p) \/ Restart(p)
          \/ \E written \in BOOLEAN :
               \/ RequestNewEpoch(p, written)
               \/ \E q \in Oracle, x \in Wish : NewEpochWish(p, q, x, written)
    BY <1>2 DEF Next, TProgressTimeout, OutcomeGenerationRequest
  <2>2. \E epoch, wish : Raises(p, epoch, wish)
    <3>1. CASE NotifyOutcomeGeneration(p) \/ Progress(p) \/ TResendTimeout(p)
      BY <3>1, KeepsStep
    <3>2. CASE Restart(p)
      BY <3>2, RestartStep
    <3>3. CASE \E written \in BOOLEAN : RequestNewEpoch(p, written)
      BY <3>3, RequestStep
    <3>4. CASE \E written \in BOOLEAN, q \in Oracle, x \in Wish : NewEpochWish(p, q, x, written)
      BY <3>4, WishStep
    <3> QED BY <2>1, <3>1, <3>2, <3>3, <3>4
  <2> QED BY <2>2, RaisesStep
<1> QED BY <1>1, <1>2

-----------------------------------------------------------------------------
(* The theorems: through crashes and restarts, and whatever writes fail *)

\* The invariant holds in every reachable state, for any number of oracles.
THEOREM Invariance == Spec => []IndInv
BY InitInv, NextStep, PTL DEF Spec

\* Every epoch and wish stays among the epochs, whatever the faulty oracles wish.
THEOREM TypeCorrect == Spec => []TypeOK
<1>1. IndInv => TypeOK
  BY DEF IndInv
<1> QED BY <1>1, Invariance, PTL

\* More than F honest oracles wished for every epoch that an honest oracle is in,
\* and still do as long as those that forgot are few.
THEOREM EpochsAreSupported == Spec => []EpochSupported
BY SupportedEpochs, Invariance, PTL

\* What a restart restores was sent and is not ahead of memory; where the writes
\* succeed, no crash and restart takes back a wish that was sent.
THEOREM WishesAreDurable == Spec => []WishesDurable
<1>1. IndInv => WishesDurable
  BY DEF IndInv
<1> QED BY <1>1, Invariance, PTL

\* However high the faulty oracles wish, the honest ones take the epochs one by one.
THEOREM NoEpochIsJumped == Spec => []NoEpochJumped
<1>1. IndInv => NoEpochJumped
  BY DEF IndInv
<1> QED BY <1>1, Invariance, PTL

\* No step, a restart included, takes an oracle back to an earlier epoch, unless its
\* database refuses writes and it restarts.
THEOREM NobodyGoesBack == Spec => NeverBack
<1>1. IndInv /\ [Next]_vars =>
        [\A p \in Honest \ (FailingDB \cap MayRestart) : e'[p] >= e[p] /\ ne'[p] >= ne[p]]_vars
  BY NextStep DEF Forward
<1> QED BY <1>1, Invariance, PTL DEF Spec, NeverBack
=============================================================================
