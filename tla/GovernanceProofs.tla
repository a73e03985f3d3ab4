-------------------------- MODULE GovernanceProofs --------------------------
(***************************************************************************)
(* Theorems about Governance, for any accounts, thresholds and periods.    *)
(***************************************************************************)
EXTENDS GovernanceProperties, TLAPS, FiniteSetTheorems, SequenceTheorems,
        WellFoundedInduction

-----------------------------------------------------------------------------
(* Lemmas about the operators.                                             *)

(* A non-empty set of numbers up to N has a greatest element, which is     *)
(* what Max returns: the lock that updateVotedUntil computes.              *)
LEMMA MaxOfBounded ==
  ASSUME NEW N \in Nat, NEW S \in SUBSET (0..N), S # {}
  PROVE  Max(S) \in S /\ \A x \in S : x <= Max(S)
<1> DEFINE U == {n \in Nat : \A x \in S : x <= n}
<1>1. N \in U
  OBVIOUS
<1>2. PICK m \in U : \A n \in U : ~ (<<n, m>> \in OpToRel(<, Nat))
  BY <1>1, NatLessThanWellFounded, WFMin
<1>3. \A n \in U : ~ (n < m)
  BY <1>2 DEF OpToRel
<1>4. m \in S
  <2> SUFFICES ASSUME m \notin S PROVE FALSE
    OBVIOUS
  <2>1. \A x \in S : x <= m - 1
    OBVIOUS
  <2>2. PICK x \in S : TRUE
    OBVIOUS
  <2>3. x \in Nat /\ x <= m - 1 /\ m \in Nat
    BY <2>1
  <2>4. m - 1 \in Nat
    BY <2>3
  <2>5. m - 1 \in U
    BY <2>1, <2>4
  <2> QED
    BY <2>4, <2>5, <1>3
<1>5. \E x \in S : \A y \in S : x >= y
  BY <1>4
<1> QED
  BY <1>5 DEF Max

-----------------------------------------------------------------------------
(* Roots are counted one by one, so that their sum over a set of accounts  *)
(* is a cardinality.                                                       *)

LEMMA UnitsFinite ==
  ASSUME NEW A \in SUBSET Account, NEW f
  PROVE  IsFiniteSet(Units(A, f)) /\ Cardinality(Units(A, f)) \in Nat
<1>1. IsFiniteSet(A)
  BY AccountAssumption, FS_Subset
<1>2. IsFiniteSet(1..MaxRoots)
  BY BoundAssumption, FS_Interval
<1>3. IsFiniteSet(A \X (1..MaxRoots))
  BY <1>1, <1>2, FS_Product
<1>4. Units(A, f) \in SUBSET (A \X (1..MaxRoots))
  BY DEF Units
<1> QED
  BY <1>3, <1>4, FS_Subset, FS_CardinalityType

(* Taking an account out of a set takes off its own roots.                 *)
LEMMA UnitsSplit ==
  ASSUME NEW A \in SUBSET Account, NEW f \in [Account -> 0..MaxRoots],
         NEW a \in A
  PROVE  Cardinality(Units(A, f)) = Cardinality(Units(A \ {a}, f)) + f[a]
<1> DEFINE R == Units(A \ {a}, f)
           O == {a} \X (1..f[a])
<1>1. f[a] \in 0..MaxRoots /\ MaxRoots \in Nat
  BY BoundAssumption
<1>2. Units(A, f) = R \cup O
  BY <1>1 DEF Units
<1>3. R \cap O = {}
  BY DEF Units
<1>4. IsFiniteSet(R) /\ Cardinality(R) \in Nat
  BY UnitsFinite
<1>5. IsFiniteSet({a}) /\ Cardinality({a}) = 1
  BY FS_Singleton
<1>6. IsFiniteSet(1..f[a]) /\ Cardinality(1..f[a]) = f[a]
  <2>1. f[a] \in Int /\ 1 \in Int /\ f[a] >= 0
    BY <1>1
  <2>2. /\ IsFiniteSet(1..f[a])
        /\ Cardinality(1..f[a]) = IF 1 > f[a] THEN 0 ELSE f[a] - 1 + 1
    BY <2>1, FS_Interval
  <2> QED
    BY <2>1, <2>2
<1>7. IsFiniteSet(O) /\ Cardinality(O) = 1 * f[a]
  BY <1>5, <1>6, FS_Product
<1>8. Cardinality(R \cap O) = 0
  BY <1>3, FS_EmptySet
<1>9. Cardinality(R \cup O) = Cardinality(R) + Cardinality(O) - Cardinality(R \cap O)
  BY <1>4, <1>7, FS_Union
<1> QED
  BY <1>1, <1>2, <1>4, <1>7, <1>8, <1>9

LEMMA UnitsMonotone ==
  ASSUME NEW A \in SUBSET Account, NEW B \in SUBSET A, NEW f
  PROVE  Cardinality(Units(B, f)) <= Cardinality(Units(A, f))
<1>1. IsFiniteSet(Units(A, f))
  BY UnitsFinite
<1>2. Units(B, f) \in SUBSET Units(A, f)
  BY DEF Units
<1> QED
  BY <1>1, <1>2, FS_Subset

(* Only the roots of the accounts counted matter.                          *)
LEMMA UnitsSame ==
  ASSUME NEW A \in SUBSET Account, NEW f, NEW g, \A a \in A : f[a] = g[a]
  PROVE  Units(A, f) = Units(A, g)
BY DEF Units

(* Changing one account's roots changes the sum by as much.                *)
LEMMA UnitsChange ==
  ASSUME NEW A \in SUBSET Account, NEW f \in [Account -> 0..MaxRoots],
         NEW a \in A, NEW n \in 0..MaxRoots
  PROVE  Cardinality(Units(A, [f EXCEPT ![a] = n]))
           = Cardinality(Units(A, f)) - f[a] + n
<1> DEFINE g == [f EXCEPT ![a] = n]
<1>1. g \in [Account -> 0..MaxRoots] /\ g[a] = n
  OBVIOUS
<1>2. Units(A \ {a}, f) = Units(A \ {a}, g)
  BY UnitsSame
<1>3. Cardinality(Units(A, g)) = Cardinality(Units(A \ {a}, g)) + n
  BY <1>1, UnitsSplit
<1>4. Cardinality(Units(A, f)) = Cardinality(Units(A \ {a}, f)) + f[a]
  BY UnitsSplit
<1>5. Cardinality(Units(A \ {a}, f)) \in Nat /\ f[a] \in Nat /\ n \in Nat
  BY UnitsFinite, BoundAssumption
<1> QED
  BY <1>2, <1>3, <1>4, <1>5

-----------------------------------------------------------------------------
(* Lists.                                                                  *)

(* The swap-and-pop of endBip removes b from a list without duplicates,    *)
(* and nothing else.                                                       *)
LEMMA SwapRemoveExact ==
  ASSUME NEW T, NEW s \in Seq(T), NEW b \in Range(s),
         \A i, j \in DOMAIN s : s[i] = s[j] => i = j
  PROVE  LET t == SwapRemove(s, b) IN
         /\ t \in Seq(T)
         /\ Range(t) = Range(s) \ {b}
         /\ \A i, j \in DOMAIN t : t[i] = t[j] => i = j
<1> DEFINE n == Len(s)
           k == CHOOSE i \in DOMAIN s : s[i] = b
           t == [i \in 1..(n - 1) |-> IF i = k THEN s[n] ELSE s[i]]
<1>1. n \in Nat /\ DOMAIN s = 1..n
  OBVIOUS
<1>2. k \in 1..n /\ s[k] = b
  BY <1>1 DEF Range
<1>3. n - 1 \in Nat /\ n \in 1..n
  BY <1>1, <1>2
<1> HIDE DEF k, n
<1>4. DOMAIN t = 1..(n - 1)
  OBVIOUS
<1>5. \A i \in 1..n : s[i] \in T
  BY <1>1
<1>6. t \in [1..(n - 1) -> T]
  BY <1>3, <1>5
<1>7. t \in Seq(T)
  BY <1>3, <1>6
<1>8. \A i \in 1..(n - 1) : t[i] # b
  BY <1>1, <1>2, <1>3
<1>9. \A i \in 1..(n - 1) : t[i] \in Range(s)
  BY <1>1, <1>3 DEF Range
<1>10. \A i \in 1..n : s[i] # b => \E j \in 1..(n - 1) : t[j] = s[i]
  <2> SUFFICES ASSUME NEW i \in 1..n, s[i] # b
               PROVE  \E j \in 1..(n - 1) : t[j] = s[i]
    OBVIOUS
  <2>1. CASE i = n
    BY <2>1, <1>1, <1>2, <1>3
  <2>2. CASE i # n
    <3>1. i \in 1..(n - 1)
      BY <2>2, <1>1
    <3>2. i # k
      BY <1>2
    <3>3. t[i] = s[i]
      BY <3>1, <3>2
    <3> QED
      BY <3>1, <3>3
  <2> QED
    BY <2>1, <2>2
<1>11. Range(t) = Range(s) \ {b}
  <2>1. \A x \in Range(t) : x \in Range(s) \ {b}
    BY <1>4, <1>8, <1>9 DEF Range
  <2>2. \A x \in Range(s) \ {b} : x \in Range(t)
    BY <1>1, <1>4, <1>10 DEF Range
  <2> QED
    BY <2>1, <2>2
<1>12. \A i, j \in 1..(n - 1) : t[i] = t[j] => i = j
  BY <1>1, <1>2, <1>3
<1>13. SwapRemove(s, b) = t
  BY DEF SwapRemove, k, n
<1> HIDE DEF t
<1> QED
  BY <1>4, <1>7, <1>11, <1>12, <1>13

LEMMA AppendRange ==
  ASSUME NEW T, NEW s \in Seq(T), NEW e \in T
  PROVE  /\ Append(s, e) \in Seq(T)
         /\ Range(Append(s, e)) = Range(s) \cup {e}
         /\ e \notin Range(s) /\ (\A i, j \in DOMAIN s : s[i] = s[j] => i = j)
              => \A i, j \in DOMAIN Append(s, e) :
                   Append(s, e)[i] = Append(s, e)[j] => i = j
<1> DEFINE t == Append(s, e)
<1>1. t \in Seq(T) /\ Len(t) = Len(s) + 1 /\ Len(s) \in Nat
  OBVIOUS
<1>2. DOMAIN s = 1..Len(s) /\ DOMAIN t = 1..(Len(s) + 1)
  OBVIOUS
<1>3. \A i \in 1..Len(s) : t[i] = s[i]
  OBVIOUS
<1>4. t[Len(s) + 1] = e
  OBVIOUS
<1> HIDE DEF t
<1>5. Range(t) = Range(s) \cup {e}
  BY <1>1, <1>2, <1>3, <1>4 DEF Range
<1>6. ASSUME e \notin Range(s), \A i, j \in DOMAIN s : s[i] = s[j] => i = j
      PROVE  \A i, j \in DOMAIN t : t[i] = t[j] => i = j
  BY <1>1, <1>2, <1>3, <1>4, <1>6 DEF Range
<1> QED
  BY <1>1, <1>5, <1>6 DEF t

-----------------------------------------------------------------------------
(* Voting.                                                                 *)

\* What every operation of the voting booth does for an account a.  On each
\* of the BIPs in B, all open for votes, the account's vote is put on or
\* taken off together with its roots, never its vote for its own BIP; its
\* lock ends up at or after the end of every listed BIP it votes for.
VotingStep(a, B) ==
  /\ a \in Account /\ B \in SUBSET BipId
  /\ \A b \in B : CanVoteOn(b)
  /\ \E f \in [BipId -> Nat] :
       /\ bips' = [b \in BipId |-> [bips[b] EXCEPT !.roots = f[b]]]
       /\ \A b \in BipId :
            \/ voted'[b] = voted[b] /\ f[b] = bips[b].roots
            \/ /\ b \in B /\ a \notin voted[b]
               /\ voted'[b] = voted[b] \cup {a}
               /\ f[b] = bips[b].roots + roots[a]
            \/ /\ b \in B /\ a \in voted[b] /\ bips[b].proposer # a
               /\ voted'[b] = voted[b] \ {a}
               /\ f[b] = bips[b].roots - roots[a]
  /\ voted' \in [BipId -> SUBSET Account]
  /\ \E lock \in 0..MaxSeason :
       /\ votedUntil' = [votedUntil EXCEPT ![a] = lock]
       /\ \A b \in Listed : a \in voted'[b] => lock >= votedUntil[a] \/ lock >= EndOf(b)
       /\ \A b \in B : a \in voted'[b] => lock >= EndOf(b)
  /\ UNCHANGED <<activeBips, bipIndex, proposedUntil, siloVars, seasonVars,
                 pauseVars, execVars>>

LEMMA NominatedInOrder ==
  ASSUME Structure, NEW b \in BipId, IsNominated(b)
  PROVE  Created(b) /\ EndOf(b) \in 0..MaxSeason
<1>1. bips[b].start > 0 /\ BipsInOrder
  BY DEF IsNominated, Structure
<1>2. Created(b)
  BY <1>1 DEF BipsInOrder, NoBip
<1>3. bips[b].start \in Nat
  <2>1. bips[b] \in Bip
    BY DEF Structure, TypeOK
  <2> QED
    BY <2>1 DEF Bip
<1>4. EndOf(b) <= MaxSeason
  BY <1>1, <1>2 DEF BipsInOrder
<1> QED
  BY <1>2, <1>3, <1>4, TermAssumption, BoundAssumption DEF EndOf

(* The roots of accounts and the tallies of BIPs are numbers.              *)
LEMMA RootsAreNumbers ==
  ASSUME TypeOK
  PROVE  /\ \A a \in Account : roots[a] \in Nat
         /\ \A b \in BipId : bips[b] \in Bip /\ bips[b].roots \in Nat
<1>1. roots \in [Account -> 0..MaxRoots] /\ bips \in [BipId -> Bip]
  BY DEF TypeOK
<1>2. \A r \in 0..MaxRoots : r \in Nat
  BY BoundAssumption
<1>3. \A x \in Bip : x.roots \in Nat
  BY DEF Bip
<1> QED
  BY <1>1, <1>2, <1>3

(* The ids on the list and in the frames are ids of BIPs.                  *)
LEMMA IdsInOrder ==
  ASSUME TypeOK
  PROVE  /\ Listed \subseteq BipId
         /\ \A i \in DOMAIN activeBips : activeBips[i] \in BipId
         /\ \A i \in DOMAIN frames : frames[i] \in Frame /\ frames[i].bip \in BipId
<1>1. \A i \in DOMAIN activeBips : activeBips[i] \in BipId
  BY DEF TypeOK
<1>2. \A i \in DOMAIN frames : frames[i] \in Frame
  BY DEF TypeOK
<1> QED
  BY <1>1, <1>2 DEF Listed, Range, Frame

LEMMA RecordVotesStep ==
  ASSUME Structure, NEW a \in Account, NEW B \in SUBSET BipId,
         \A b \in B : CanVoteOn(b) /\ a \notin voted[b],
         RecordVotes(a, B), PlaceVotedUntil(a, B),
         UNCHANGED <<activeBips, bipIndex, proposedUntil, siloVars, seasonVars,
                     pauseVars, execVars>>
  PROVE  VotingStep(a, B)
<1> DEFINE f == [b \in BipId |-> IF b \in B THEN bips[b].roots + roots[a]
                                 ELSE bips[b].roots]
           E == {votedUntil[a]} \cup {EndOf(b) : b \in B}
<1>1. /\ roots[a] \in Nat
      /\ \A b \in BipId : bips[b] \in Bip /\ bips[b].roots \in Nat
  BY RootsAreNumbers DEF Structure
<1>2. f \in [BipId -> Nat]
  BY <1>1
<1> USE DEF Structure, TypeOK
<1>3. bips' = [b \in BipId |-> [bips[b] EXCEPT !.roots = f[b]]]
  <2>1. \A b \in BipId : [bips[b] EXCEPT !.roots = bips[b].roots] = bips[b]
    BY <1>1 DEF Bip
  <2> QED
    BY <2>1 DEF RecordVotes
<1>4. \A b \in B : EndOf(b) \in 0..MaxSeason
  BY NominatedInOrder DEF CanVoteOn
<1>5. Max(E) \in E /\ \A x \in E : x <= Max(E)
  <2>1. E \in SUBSET (0..MaxSeason)
    BY <1>4
  <2> QED
    BY <2>1, BoundAssumption, MaxOfBounded
<1>6. Max(E) \in 0..MaxSeason /\ Max(E) >= votedUntil[a]
      /\ \A b \in B : Max(E) >= EndOf(b)
  BY <1>4, <1>5
<1>7. votedUntil' = [votedUntil EXCEPT ![a] = Max(E)]
  BY DEF PlaceVotedUntil
<1>8. voted' \in [BipId -> SUBSET Account]
  BY DEF RecordVotes
<1>9. \A b \in BipId :
        \/ voted'[b] = voted[b] /\ f[b] = bips[b].roots
        \/ /\ b \in B /\ a \notin voted[b]
           /\ voted'[b] = voted[b] \cup {a}
           /\ f[b] = bips[b].roots + roots[a]
  BY DEF RecordVotes
<1> HIDE DEF f, E
<1> QED
  BY <1>2, <1>3, <1>6, <1>7, <1>8, <1>9 DEF VotingStep

(* updateVotedUntil, given any votes cast or taken back in the same call.  *)
LEMMA UpdateVotedUntilStep ==
  ASSUME Structure, NEW a \in Account, UpdateVotedUntil(a)
  PROVE  \E lock \in 0..MaxSeason :
           /\ votedUntil' = [votedUntil EXCEPT ![a] = lock]
           /\ \A b \in Listed : a \in voted'[b] => lock >= EndOf(b)
<1> DEFINE L == {c \in Listed : a \in voted'[c]}
           E == {0} \cup {EndOf(b) : b \in L}
<1>1. \A b \in Listed : EndOf(b) \in 0..MaxSeason
  <2> TAKE b \in Listed
  <2>1. b \in BipId /\ IsNominated(b)
    BY IdsInOrder DEF Structure, ActiveListExact
  <2> QED
    BY <2>1, NominatedInOrder
<1>2. E \in SUBSET (0..MaxSeason) /\ E # {}
  BY <1>1, BoundAssumption
<1>3. Max(E) \in E /\ \A x \in E : x <= Max(E)
  BY <1>2, BoundAssumption, MaxOfBounded
<1>4. Max(E) \in 0..MaxSeason
  BY <1>2, <1>3
<1>5. \A b \in Listed : a \in voted'[b] => Max(E) >= EndOf(b)
  BY <1>1, <1>3, <1>4
<1>6. votedUntil' = [votedUntil EXCEPT ![a] = Max(E)]
  BY DEF UpdateVotedUntil
<1> HIDE DEF E
<1> QED
  BY <1>4, <1>5, <1>6

LEMMA UnrecordVotesStep ==
  ASSUME Structure, NEW a \in Account, NEW B \in SUBSET BipId,
         \A b \in B : CanUnvote(a, b),
         UnrecordVotes(a, B), UpdateVotedUntil(a),
         UNCHANGED <<activeBips, bipIndex, proposedUntil, siloVars, seasonVars,
                     pauseVars, execVars>>
  PROVE  VotingStep(a, B)
<1> DEFINE f == [b \in BipId |-> IF b \in B THEN bips[b].roots - roots[a]
                                 ELSE bips[b].roots]
<1>1. /\ roots[a] \in Nat
      /\ \A b \in BipId : bips[b] \in Bip /\ bips[b].roots \in Nat
  BY RootsAreNumbers DEF Structure
<1>2. f \in [BipId -> Nat]
  BY <1>1 DEF CanUnvote
<1> USE DEF Structure, TypeOK
<1>3. bips' = [b \in BipId |-> [bips[b] EXCEPT !.roots = f[b]]]
  <2>1. \A b \in BipId : [bips[b] EXCEPT !.roots = bips[b].roots] = bips[b]
    BY <1>1 DEF Bip
  <2> QED
    BY <2>1 DEF UnrecordVotes
<1>4. voted' \in [BipId -> SUBSET Account]
  BY DEF UnrecordVotes
<1>5. \A b \in BipId :
        \/ voted'[b] = voted[b] /\ f[b] = bips[b].roots
        \/ /\ b \in B /\ a \in voted[b] /\ bips[b].proposer # a
           /\ voted'[b] = voted[b] \ {a}
           /\ f[b] = bips[b].roots - roots[a]
  BY DEF UnrecordVotes, CanUnvote
<1>6. \A b \in B : CanVoteOn(b)
  BY DEF CanUnvote
<1>7. B \subseteq Listed
  BY <1>6 DEF CanVoteOn, ActiveListExact
<1>8. PICK lock \in 0..MaxSeason :
        /\ votedUntil' = [votedUntil EXCEPT ![a] = lock]
        /\ \A b \in Listed : a \in voted'[b] => lock >= EndOf(b)
  BY UpdateVotedUntilStep
<1> HIDE DEF f, Structure, TypeOK
<1> QED
  BY <1>2, <1>3, <1>4, <1>5, <1>6, <1>7, <1>8 DEF VotingStep

LEMMA ToggleVotesStep ==
  ASSUME Structure, NEW a \in Account, NEW B \in SUBSET BipId,
         \A b \in B : CanVoteOn(b) /\ (a \in voted[b] => CanUnvote(a, b)),
         ToggleVotes(a, B), UpdateVotedUntil(a),
         UNCHANGED <<activeBips, bipIndex, proposedUntil, siloVars, seasonVars,
                     pauseVars, execVars>>
  PROVE  VotingStep(a, B)
<1> DEFINE f == [b \in BipId |->
                  IF b \notin B THEN bips[b].roots
                  ELSE IF a \in voted[b] THEN bips[b].roots - roots[a]
                  ELSE bips[b].roots + roots[a]]
<1>1. /\ roots[a] \in Nat
      /\ \A b \in BipId : bips[b] \in Bip /\ bips[b].roots \in Nat
  BY RootsAreNumbers DEF Structure
<1>2. f \in [BipId -> Nat]
  BY <1>1 DEF CanUnvote
<1> USE DEF Structure, TypeOK
<1>3. bips' = [b \in BipId |-> [bips[b] EXCEPT !.roots = f[b]]]
  <2>1. \A b \in BipId : [bips[b] EXCEPT !.roots = bips[b].roots] = bips[b]
    BY <1>1 DEF Bip
  <2> QED
    BY <2>1 DEF ToggleVotes
<1>4. voted' \in [BipId -> SUBSET Account]
  BY DEF ToggleVotes
<1>5. \A b \in BipId :
        \/ voted'[b] = voted[b] /\ f[b] = bips[b].roots
        \/ /\ b \in B /\ a \notin voted[b]
           /\ voted'[b] = voted[b] \cup {a}
           /\ f[b] = bips[b].roots + roots[a]
        \/ /\ b \in B /\ a \in voted[b] /\ bips[b].proposer # a
           /\ voted'[b] = voted[b] \ {a}
           /\ f[b] = bips[b].roots - roots[a]
  BY DEF ToggleVotes, CanUnvote
<1>6. \A b \in B : CanVoteOn(b)
  OBVIOUS
<1>7. B \subseteq Listed
  BY <1>6 DEF CanVoteOn, ActiveListExact
<1>8. PICK lock \in 0..MaxSeason :
        /\ votedUntil' = [votedUntil EXCEPT ![a] = lock]
        /\ \A b \in Listed : a \in voted'[b] => lock >= EndOf(b)
  BY UpdateVotedUntilStep
<1> HIDE DEF f, Structure, TypeOK
<1> QED
  BY <1>2, <1>3, <1>4, <1>5, <1>6, <1>7, <1>8 DEF VotingStep

(* Each of the five voting operations is such a step.                      *)
LEMMA VotingOperations ==
  ASSUME Structure, NEW a \in Account
  PROVE  /\ \A b \in BipId : Vote(a, b) \/ Unvote(a, b) => VotingStep(a, {b})
         /\ \A B \in SUBSET BipId :
              VoteAll(a, B) \/ UnvoteAll(a, B) \/ VoteUnvoteAll(a, B)
                => VotingStep(a, B)
<1>1. ASSUME NEW b \in BipId, Vote(a, b) PROVE VotingStep(a, {b})
  BY <1>1, RecordVotesStep DEF Vote
<1>2. ASSUME NEW b \in BipId, Unvote(a, b) PROVE VotingStep(a, {b})
  BY <1>2, UnrecordVotesStep DEF Unvote
<1>3. ASSUME NEW B \in SUBSET BipId, VoteAll(a, B) PROVE VotingStep(a, B)
  BY <1>3, RecordVotesStep DEF VoteAll
<1>4. ASSUME NEW B \in SUBSET BipId, UnvoteAll(a, B) PROVE VotingStep(a, B)
  BY <1>4, UnrecordVotesStep DEF UnvoteAll
<1>5. ASSUME NEW B \in SUBSET BipId, VoteUnvoteAll(a, B) PROVE VotingStep(a, B)
  BY <1>5, ToggleVotesStep DEF VoteUnvoteAll
<1> QED
  BY <1>1, <1>2, <1>3, <1>4, <1>5

LEMMA VotingBips ==
  ASSUME TypeOK, NEW a, NEW B, VotingStep(a, B)
  PROVE  /\ bips' \in [BipId -> Bip]
         /\ \A b \in BipId :
              /\ bips'[b].start = bips[b].start
              /\ bips'[b].executed = bips[b].executed
              /\ bips'[b].proposer = bips[b].proposer
              /\ bips'[b].timestamp = bips[b].timestamp
              /\ bips'[b].payload = bips[b].payload
              /\ bips'[b].endTotalRoots = bips[b].endTotalRoots
              /\ b \notin B => bips'[b] = bips[b] /\ voted'[b] = voted[b]
<1>1. PICK f \in [BipId -> Nat] :
        /\ bips' = [b \in BipId |-> [bips[b] EXCEPT !.roots = f[b]]]
        /\ \A b \in BipId : b \notin B => voted'[b] = voted[b] /\ f[b] = bips[b].roots
  BY DEF VotingStep
<1>2. \A b \in BipId : bips[b] \in Bip
  BY DEF TypeOK
<1>3. \A b \in BipId : [bips[b] EXCEPT !.roots = bips[b].roots] = bips[b]
  BY <1>2 DEF Bip
<1>4. \A b \in BipId : [bips[b] EXCEPT !.roots = f[b]] \in Bip
  BY <1>1, <1>2 DEF Bip
<1>5. bips' \in [BipId -> Bip]
  BY <1>1, <1>4
<1>6. ASSUME NEW b \in BipId
      PROVE  /\ bips'[b].start = bips[b].start
             /\ bips'[b].executed = bips[b].executed
             /\ bips'[b].proposer = bips[b].proposer
             /\ bips'[b].timestamp = bips[b].timestamp
             /\ bips'[b].payload = bips[b].payload
             /\ bips'[b].endTotalRoots = bips[b].endTotalRoots
  <2>1. bips'[b] = [bips[b] EXCEPT !.roots = f[b]]
    BY <1>1
  <2> QED
    BY <2>1, <1>2 DEF Bip
<1>7. \A b \in BipId : b \notin B => bips'[b] = bips[b] /\ voted'[b] = voted[b]
  BY <1>1, <1>3
<1> QED
  BY <1>5, <1>6, <1>7

LEMMA VotingStructure ==
  ASSUME Structure, NEW a, NEW B, VotingStep(a, B)
  PROVE  Structure'
<1>1. TypeOK
  BY DEF Structure
<1>2. /\ bips' \in [BipId -> Bip]
      /\ \A b \in BipId :
           /\ bips'[b].start = bips[b].start
           /\ bips'[b].executed = bips[b].executed
           /\ bips'[b].proposer = bips[b].proposer
           /\ bips'[b].timestamp = bips[b].timestamp
           /\ b \notin B => bips'[b] = bips[b] /\ voted'[b] = voted[b]
  BY <1>1, VotingBips
<1>3. /\ a \in Account /\ B \in SUBSET BipId
      /\ \A b \in B : CanVoteOn(b)
      /\ voted' \in [BipId -> SUBSET Account]
      /\ UNCHANGED <<activeBips, bipIndex, proposedUntil, siloVars, seasonVars,
                     pauseVars, execVars>>
  BY DEF VotingStep
<1>4. TypeOK'
  <2>1. votedUntil' \in [Account -> 0..MaxSeason]
    BY <1>1 DEF VotingStep, TypeOK
  <2> QED
    BY <1>1, <1>2, <1>3, <2>1
    DEF TypeOK, siloVars, seasonVars, pauseVars, execVars
<1>5. BipsInOrder'
  <2>1. \A b \in B : Created(b)
    BY <1>3, NominatedInOrder DEF CanVoteOn
  <2>2. \A b \in BipId : a = bips[b].proposer /\ a \in voted[b] => a \in voted'[b]
    BY DEF VotingStep
  <2>3. \A b \in BipId : \A c \in voted[b] : c # a => c \in voted'[b]
    BY <1>3 DEF VotingStep
  <2>4. ASSUME NEW b \in BipId, Created(b)
        PROVE  /\ bips[b].start \in 1..season
               /\ EndOf(b) <= MaxSeason
               /\ bips[b].timestamp <= now
               /\ bips[b].proposer \in Account
               /\ bips[b].proposer \in voted[b]
    BY <2>4 DEF Structure, BipsInOrder
  <2>5. ASSUME NEW b \in BipId, ~Created(b)
        PROVE  bips[b] = NoBip /\ voted[b] = {}
    BY <2>5 DEF Structure, BipsInOrder
  <2>6. \A b \in BipId : Created(b)' <=> Created(b)
    BY <1>3 DEF Created
  <2> QED
    BY <1>2, <1>3, <2>1, <2>2, <2>3, <2>4, <2>5, <2>6
    DEF BipsInOrder, EndOf, seasonVars
<1>6. FramesInOrder'
  BY <1>1, <1>2, <1>3, IdsInOrder DEF Structure, FramesInOrder, execVars
<1>7. TotalExact'
  BY <1>3 DEF Structure, TotalExact, RootsOf, siloVars
<1>8. ActiveListExact'
  <2>1. Listed' = Listed /\ activeBips' = activeBips
    BY <1>3 DEF Listed
  <2>2. \A b \in BipId : /\ IsNominated(b)' <=> IsNominated(b)
                         /\ IsActive(b)' <=> IsActive(b)
    BY <1>2, <1>3 DEF IsNominated, IsActive, EndOf, seasonVars
  <2> QED
    BY <1>1, <2>1, <2>2, IdsInOrder DEF Structure, ActiveListExact
<1> QED
  BY <1>4, <1>5, <1>6, <1>7, <1>8 DEF Structure

\* The part of IndInv about votes, locks and execution.
Safety ==
  TallyExact /\ VotersLocked /\ ProposerCommitted /\ TallyBounded /\ ExecutedHadMajority

\* A tally that is exact does not exceed the total.
ListedBounded == \A b \in Listed : bips[b].roots <= totalRoots

LEMMA ExactIsBounded == Structure /\ TallyExact => ListedBounded
<1> SUFFICES ASSUME Structure, TallyExact, NEW b \in Listed
             PROVE  bips[b].roots <= totalRoots
  BY DEF ListedBounded
<1>1. b \in BipId /\ voted[b] \in SUBSET Account
  BY IdsInOrder DEF Structure, TypeOK
<1>2. RootsOf(voted[b]) <= RootsOf(Account)
  BY <1>1, UnitsMonotone DEF RootsOf
<1> QED
  BY <1>2 DEF Structure, TotalExact, TallyExact

LEMMA VotingSafety ==
  ASSUME Structure, Safety, NEW a, NEW B, VotingStep(a, B)
  PROVE  Safety'
<1>1. TypeOK /\ TypeOK' /\ Structure'
  BY VotingStructure DEF Structure
<1>2. /\ bips' \in [BipId -> Bip]
      /\ \A b \in BipId :
           /\ bips'[b].start = bips[b].start
           /\ bips'[b].executed = bips[b].executed
           /\ bips'[b].proposer = bips[b].proposer
           /\ bips'[b].endTotalRoots = bips[b].endTotalRoots
           /\ b \notin B => bips'[b] = bips[b] /\ voted'[b] = voted[b]
  BY <1>1, VotingBips
<1>3. /\ a \in Account /\ B \in SUBSET BipId
      /\ \A b \in B : CanVoteOn(b)
      /\ voted' \in [BipId -> SUBSET Account]
      /\ UNCHANGED <<activeBips, bipIndex, proposedUntil, siloVars, seasonVars,
                     pauseVars, execVars>>
  BY DEF VotingStep
<1>4. Listed' = Listed /\ roots' = roots /\ totalRoots' = totalRoots
      /\ proposedUntil' = proposedUntil
  BY <1>3 DEF Listed, siloVars
<1>5. Listed \subseteq BipId /\ B \subseteq Listed
  BY <1>1, <1>3, IdsInOrder DEF CanVoteOn, Structure, ActiveListExact
<1>6. TallyExact'
  <2> SUFFICES ASSUME NEW b \in Listed
               PROVE  bips'[b].roots = RootsOf(voted[b])'
    BY <1>4 DEF TallyExact
  <2>1. b \in BipId /\ bips[b].roots = RootsOf(voted[b])
    BY <1>5 DEF Safety, TallyExact
  <2>2. voted[b] \in SUBSET Account /\ voted'[b] \in SUBSET Account
    BY <1>1, <2>1 DEF TypeOK
  <2>3. /\ roots \in [Account -> 0..MaxRoots] /\ roots[a] \in Nat
        /\ Cardinality(Units(voted[b], roots)) \in Nat
        /\ Cardinality(Units(voted'[b], roots)) \in Nat
    <3>1. roots \in [Account -> 0..MaxRoots] /\ a \in Account
      BY <1>1, <1>3 DEF TypeOK
    <3>2. roots[a] \in Nat
      BY <3>1, BoundAssumption
    <3> QED
      BY <2>2, <3>1, <3>2, UnitsFinite
  <2>4. \/ voted'[b] = voted[b] /\ bips'[b].roots = bips[b].roots
        \/ /\ a \notin voted[b] /\ voted'[b] = voted[b] \cup {a}
           /\ bips'[b].roots = bips[b].roots + roots[a]
        \/ /\ a \in voted[b] /\ voted'[b] = voted[b] \ {a}
           /\ bips'[b].roots = bips[b].roots - roots[a]
    <3>1. PICK f \in [BipId -> Nat] :
            /\ bips' = [c \in BipId |-> [bips[c] EXCEPT !.roots = f[c]]]
            /\ \A c \in BipId :
                 \/ voted'[c] = voted[c] /\ f[c] = bips[c].roots
                 \/ /\ c \in B /\ a \notin voted[c]
                    /\ voted'[c] = voted[c] \cup {a}
                    /\ f[c] = bips[c].roots + roots[a]
                 \/ /\ c \in B /\ a \in voted[c] /\ bips[c].proposer # a
                    /\ voted'[c] = voted[c] \ {a}
                    /\ f[c] = bips[c].roots - roots[a]
      BY DEF VotingStep
    <3>2. bips'[b] = [bips[b] EXCEPT !.roots = f[b]] /\ bips[b] \in Bip
      BY <1>1, <2>1, <3>1 DEF TypeOK
    <3>3. bips'[b].roots = f[b]
      BY <3>2 DEF Bip
    <3> QED
      BY <2>1, <3>1, <3>3
  <2>5. CASE voted'[b] = voted[b] /\ bips'[b].roots = bips[b].roots
    BY <1>4, <2>1, <2>5 DEF RootsOf
  <2>6. CASE /\ a \notin voted[b] /\ voted'[b] = voted[b] \cup {a}
             /\ bips'[b].roots = bips[b].roots + roots[a]
    <3>1. voted'[b] \ {a} = voted[b] /\ a \in voted'[b]
      BY <2>6
    <3>2. Cardinality(Units(voted'[b], roots)) = Cardinality(Units(voted[b], roots)) + roots[a]
      BY <2>2, <2>3, <3>1, UnitsSplit
    <3> QED
      BY <1>4, <2>1, <2>6, <3>2 DEF RootsOf
  <2>7. CASE /\ a \in voted[b] /\ voted'[b] = voted[b] \ {a}
             /\ bips'[b].roots = bips[b].roots - roots[a]
    <3>1. Cardinality(Units(voted[b], roots)) = Cardinality(Units(voted'[b], roots)) + roots[a]
      BY <2>2, <2>3, <2>7, UnitsSplit
    <3> QED
      BY <1>4, <2>1, <2>3, <2>7, <3>1 DEF RootsOf
  <2> QED
    BY <2>4, <2>5, <2>6, <2>7
<1>7. VotersLocked'
  <2> SUFFICES ASSUME NEW b \in Listed, NEW c \in voted'[b]
               PROVE  votedUntil'[c] >= EndOf(b)'
    BY <1>4 DEF VotersLocked
  <2>1. b \in BipId /\ EndOf(b)' = EndOf(b) /\ EndOf(b) \in Nat
    <3>1. b \in BipId /\ bips[b] \in Bip /\ bips'[b].start = bips[b].start
      BY <1>1, <1>2, <1>5 DEF TypeOK
    <3> QED
      BY <3>1, TermAssumption DEF EndOf, Bip
  <2>2. c \in Account /\ votedUntil \in [Account -> 0..MaxSeason]
    BY <1>1, <2>1 DEF TypeOK
  <2>3. PICK lock \in 0..MaxSeason :
          /\ votedUntil' = [votedUntil EXCEPT ![a] = lock]
          /\ a \in voted'[b] => lock >= votedUntil[a] \/ lock >= EndOf(b)
          /\ b \in B /\ a \in voted'[b] => lock >= EndOf(b)
    BY DEF VotingStep
  <2>4. c \in voted[b] \/ b \in B
    BY <1>2, <2>1
  <2>5. c # a => c \in voted[b]
    BY <2>1 DEF VotingStep
  <2>6. c \in voted[b] => votedUntil[c] >= EndOf(b)
    BY DEF Safety, VotersLocked
  <2>7. CASE c = a
    BY <1>3, <2>1, <2>2, <2>3, <2>4, <2>6, <2>7, BoundAssumption
  <2>8. CASE c # a
    BY <2>2, <2>3, <2>5, <2>6, <2>1, <2>8
  <2> QED
    BY <2>7, <2>8
<1>8. ProposerCommitted'
  <2>1. \A b \in BipId : a = bips[b].proposer /\ a \in voted[b] => a \in voted'[b]
    BY DEF VotingStep
  <2>2. \A b \in BipId : \A c \in voted[b] : c # a => c \in voted'[b]
    BY DEF VotingStep
  <2> QED
    BY <1>2, <1>4, <1>5, <2>1, <2>2 DEF Safety, ProposerCommitted, EndOf
<1>9. TallyBounded'
  <2>1. ListedBounded'
    BY <1>1, <1>6, ExactIsBounded, PTL
  <2>2. \A b \in BipId : b \notin Listed => bips'[b] = bips[b]
    BY <1>2, <1>5
  <2> QED
    BY <1>4, <2>1, <2>2 DEF Safety, TallyBounded, ListedBounded
<1>10. ExecutedHadMajority'
  <2>1. \A b \in B : ~bips[b].executed
    BY <1>3 DEF CanVoteOn, IsNominated
  <2> QED
    BY <1>2, <2>1 DEF Safety, ExecutedHadMajority
<1> QED
  BY <1>6, <1>7, <1>8, <1>9, <1>10 DEF Safety

-----------------------------------------------------------------------------
(* Pausing, time and returning executions: nothing about the BIPs changes. *)

PauseTypes ==
  /\ seasonStart \in Nat
  /\ paused \in BOOLEAN
  /\ pausedAt \in 0..MaxTime
  /\ oracleInitialized \in BOOLEAN

LEMMA PausingTypes ==
  ASSUME TypeOK, Pause \/ Unpause \/ UNCHANGED pauseVars
  PROVE  PauseTypes'
<1>1. CASE Pause
  BY <1>1 DEF TypeOK, PauseTypes, Pause, pauseVars
<1>2. CASE Unpause
  <2>1. CASE paused /\ now >= pausedAt /\ paused' = FALSE
             /\ seasonStart' =
                  seasonStart + ((now - pausedAt) \div SeasonPeriod + 1) * SeasonPeriod
             /\ UNCHANGED <<pausedAt, oracleInitialized>>
    <3>1. SeasonPeriod \in Nat \ {0} /\ now - pausedAt \in Nat
      BY <2>1, TermAssumption, BoundAssumption DEF TypeOK
    <3>2. (now - pausedAt) \div SeasonPeriod + 1 \in Nat
      BY <3>1
    <3> DEFINE n == (now - pausedAt) \div SeasonPeriod + 1
    <3> HIDE DEF n
    <3>3. n * SeasonPeriod \in Nat
      BY <3>1, <3>2 DEF n
    <3>4. seasonStart' = seasonStart + n * SeasonPeriod
      BY <2>1 DEF n
    <3>5. seasonStart' \in Nat
      BY <3>3, <3>4 DEF TypeOK
    <3>6. /\ paused' \in BOOLEAN /\ pausedAt' \in 0..MaxTime
          /\ oracleInitialized' \in BOOLEAN
      BY <2>1 DEF TypeOK
    <3> QED
      BY <3>5, <3>6 DEF PauseTypes
  <2>2. CASE UNCHANGED pauseVars
    BY <2>2 DEF TypeOK, PauseTypes, pauseVars
  <2> QED
    BY <1>2, <2>1, <2>2 DEF Unpause
<1>3. CASE UNCHANGED pauseVars
  BY <1>3 DEF TypeOK, PauseTypes, pauseVars
<1> QED
  BY <1>1, <1>2, <1>3

LEMMA IncentiveTimeType ==
  ASSUME Structure, NEW b \in BipId
  PROVE  IncentiveTime(b) \in Nat
<1>1. bips[b] \in Bip /\ now \in Nat
  BY BoundAssumption DEF Structure, TypeOK
<1>2. bips[b].timestamp \in Nat /\ bips[b].timestamp <= now
  BY <1>1 DEF Structure, BipsInOrder, Bip, NoBip
<1> DEFINE time == now - bips[b].timestamp
           capped == IF time > IncentiveCap THEN IncentiveCap ELSE time
<1>3. time \in Nat
  BY <1>1, <1>2
<1> HIDE DEF time
<1>4. capped \in Nat /\ IncentiveStep \in Nat \ {0}
  BY <1>3, TermAssumption
<1> HIDE DEF capped
<1>5. capped \div IncentiveStep \in Nat
  BY <1>4
<1> QED
  BY <1>5 DEF IncentiveTime, capped, time

\* The BIPs, the votes and the roots stay, time may move on, executions may
\* return.
StillStep ==
  /\ UNCHANGED <<bipVars, lockVars, siloVars, diamond>>
  /\ season' \in season..MaxSeason
  /\ now' \in now..MaxTime
  /\ PauseTypes'
  /\ frames' \in Seq(Frame)
  /\ \A i \in DOMAIN frames' : i \in DOMAIN frames /\ frames'[i] = frames[i]
  /\ rewards' \in [BipId -> Seq(Nat)]

LEMMA StillStructure ==
  ASSUME Structure, StillStep
  PROVE  Structure'
<1>1. TypeOK
  BY DEF Structure
<1>2. /\ season \in 1..MaxSeason /\ season' \in 1..MaxSeason /\ season <= season'
      /\ now \in 0..MaxTime /\ now' \in 0..MaxTime /\ now <= now'
  BY <1>1, BoundAssumption DEF StillStep, TypeOK
<1>3. /\ activeBips' = activeBips /\ bipIndex' = bipIndex /\ bips' = bips
      /\ voted' = voted /\ roots' = roots /\ totalRoots' = totalRoots
  BY DEF StillStep, bipVars, siloVars
<1>4. TypeOK'
  BY <1>1, <1>2, <1>3 DEF StillStep, TypeOK, PauseTypes, lockVars
<1>5. BipsInOrder'
  <2>1. \A b \in BipId : bips[b] \in Bip
    BY <1>1 DEF TypeOK
  <2>2. \A b \in BipId : bips[b].start \in Nat /\ bips[b].timestamp \in Nat
    BY <2>1 DEF Bip
  <2> QED
    BY <1>2, <1>3, <2>2 DEF Structure, BipsInOrder, Created, EndOf
<1>6. FramesInOrder'
  BY <1>3 DEF Structure, StillStep, FramesInOrder
<1>7. TotalExact'
  BY <1>3 DEF Structure, TotalExact, RootsOf
<1>8. ActiveListExact'
  <2>1. Listed' = Listed /\ \A b \in BipId : IsNominated(b)' <=> IsNominated(b)
    BY <1>3 DEF Listed, IsNominated
  <2>2. \A b \in BipId : IsActive(b)' => IsActive(b)
    <3> SUFFICES ASSUME NEW b \in BipId, season' < EndOf(b)' PROVE season < EndOf(b)
      BY DEF IsActive
    <3>1. bips[b] \in Bip
      BY <1>1 DEF TypeOK
    <3>2. EndOf(b) \in Nat /\ EndOf(b)' = EndOf(b)
      BY <3>1, <1>3, TermAssumption DEF EndOf, Bip
    <3> QED
      BY <3>2, <1>2
  <2> QED
    BY <1>1, <1>3, <2>1, <2>2, IdsInOrder
    DEF Structure, ActiveListExact, IsNominated
<1> QED
  BY <1>4, <1>5, <1>6, <1>7, <1>8 DEF Structure

LEMMA StillSafety ==
  ASSUME Structure, Safety, StillStep
  PROVE  Safety'
<1>1. /\ activeBips' = activeBips /\ bips' = bips /\ voted' = voted
      /\ roots' = roots /\ totalRoots' = totalRoots
      /\ votedUntil' = votedUntil /\ proposedUntil' = proposedUntil
  BY DEF StillStep, bipVars, siloVars, lockVars
<1> QED
  BY <1>1 DEF Safety, TallyExact, VotersLocked, ProposerCommitted, TallyBounded,
              ExecutedHadMajority, Listed, RootsOf, EndOf

LEMMA FinishExecutionTypes ==
  ASSUME Structure, NEW b \in BipId, NEW ended \in BOOLEAN, FinishExecution(b, ended)
  PROVE  PauseTypes' /\ rewards' \in [BipId -> Seq(Nat)]
<1>1. Pause \/ Unpause \/ UNCHANGED pauseVars
  BY DEF FinishExecution, PauseOrUnpauseBip
<1>2. PauseTypes'
  BY <1>1, PausingTypes DEF Structure
<1>3. IncentiveTime(b) \in Nat
  BY IncentiveTimeType
<1>4. rewards' \in [BipId -> Seq(Nat)]
  BY <1>3 DEF FinishExecution, Structure, TypeOK
<1> QED
  BY <1>2, <1>4

LEMMA StillOperations ==
  ASSUME Structure,
         \/ \E a \in Account : OwnerPause(a) \/ OwnerUnpause(a)
         \/ InitReturns \/ Sunrise \/ Tick
  PROVE  StillStep
<1>1. TypeOK /\ season \in season..MaxSeason /\ now \in now..MaxTime
  BY BoundAssumption DEF Structure, TypeOK
<1>2. \A i \in DOMAIN frames : frames[i] \in Frame
  BY <1>1, IdsInOrder
<1>3. CASE \E a \in Account : OwnerPause(a) \/ OwnerUnpause(a)
  <2>1. PauseTypes'
    BY <1>1, <1>3, PausingTypes DEF OwnerPause, OwnerUnpause
  <2> QED
    BY <1>1, <1>3, <2>1
    DEF OwnerPause, OwnerUnpause, StillStep, TypeOK, seasonVars, execVars
<1>4. CASE InitReturns
  <2> DEFINE n == Len(frames)
  <2>1. n \in Nat /\ n >= 1 /\ DOMAIN frames = 1..n
    BY <1>1, <1>4 DEF InitReturns, TypeOK
  <2>2. frames[n] \in Frame /\ frames[n].bip \in BipId /\ frames[n].ended \in BOOLEAN
    BY <1>2, <2>1 DEF Frame
  <2>3. FinishExecution(frames[n].bip, frames[n].ended)
    BY <1>4 DEF InitReturns
  <2>4. PauseTypes' /\ rewards' \in [BipId -> Seq(Nat)]
    BY <2>2, <2>3, FinishExecutionTypes
  <2>5. frames' = SubSeq(frames, 1, n - 1)
    BY <1>4 DEF InitReturns
  <2>6. /\ frames' \in Seq(Frame)
        /\ \A i \in DOMAIN frames' : i \in DOMAIN frames /\ frames'[i] = frames[i]
    <3>1. frames \in Seq(Frame)
      BY <1>1 DEF TypeOK
    <3> QED
      BY <2>1, <2>5, <3>1
  <2> QED
    BY <1>1, <1>4, <2>4, <2>6 DEF InitReturns, StillStep, seasonVars
<1>5. CASE Sunrise
  <2>1. PauseTypes'
    BY <1>1, <1>5 DEF Sunrise, PauseTypes, TypeOK
  <2> QED
    BY <1>1, <1>5, <2>1, BoundAssumption DEF Sunrise, StillStep, TypeOK, execVars
<1>6. CASE Tick
  <2>1. PauseTypes'
    BY <1>1, <1>6 DEF Tick, PauseTypes, TypeOK, pauseVars
  <2> QED
    BY <1>1, <1>6, <2>1, BoundAssumption DEF Tick, StillStep, TypeOK, execVars
<1> QED
  BY <1>3, <1>4, <1>5, <1>6

-----------------------------------------------------------------------------
(* The Silo.                                                               *)

\* The roots of an account become r; the tallies of the listed BIPs it has
\* voted for follow.
SiloStep(a, r) ==
  /\ a \in Account /\ r \in 0..MaxRoots
  /\ roots' = [roots EXCEPT ![a] = r]
  /\ totalRoots' = totalRoots - roots[a] + r
  /\ bips' \in [BipId -> Bip]
  /\ \A b \in BipId :
       IF b \in Listed /\ a \in voted[b]
       THEN bips'[b] = [bips[b] EXCEPT !.roots = bips[b].roots - roots[a] + r]
       ELSE bips'[b] = bips[b]
  /\ UNCHANGED <<activeBips, bipIndex, voted, lockVars, seasonVars, pauseVars,
                 execVars>>

LEMMA SiloOperations ==
  ASSUME Structure, Safety, Settled, NEW a \in Account, NEW n \in 1..MaxRoots,
         SiloDeposit(a, n) \/ SiloWithdraw(a, n)
  PROVE  \E r \in 0..MaxRoots : SiloStep(a, r)
<1>1. /\ TypeOK /\ roots[a] \in 0..MaxRoots /\ totalRoots \in Nat /\ MaxRoots \in Nat
      /\ Listed \subseteq BipId
  BY BoundAssumption, IdsInOrder DEF Structure, TypeOK
<1>2. \A b \in BipId : bips[b] \in Bip /\ bips[b].roots \in Nat
  BY <1>1 DEF TypeOK, Bip
<1>3. CASE SiloDeposit(a, n)
  <2> DEFINE r == roots[a] + n
  <2>1. r \in 0..MaxRoots /\ r - roots[a] = n
    BY <1>1, <1>3 DEF SiloDeposit
  <2>2. roots' = [roots EXCEPT ![a] = r]
    BY <1>3 DEF SiloDeposit
  <2>3. totalRoots' = totalRoots - roots[a] + r
    BY <1>1, <1>3 DEF SiloDeposit
  <2>4. \A b \in BipId :
         IF b \in Listed /\ a \in voted[b]
         THEN bips'[b] = [bips[b] EXCEPT !.roots = bips[b].roots - roots[a] + r]
         ELSE bips'[b] = bips[b]
    <3>1. \A b \in BipId : bips[b].roots + n = bips[b].roots - roots[a] + r
      BY <1>1, <1>2
    <3>2. \A b \in BipId :
           bips'[b] = IF b \in Listed /\ a \in voted[b]
                      THEN [bips[b] EXCEPT !.roots = bips[b].roots + n] ELSE bips[b]
      BY <1>3 DEF SiloDeposit
    <3> QED
      BY <3>1, <3>2
  <2>5. bips' \in [BipId -> Bip]
    <3>1. \A b \in BipId : [bips[b] EXCEPT !.roots = bips[b].roots + n] \in Bip
      BY <1>2 DEF Bip
    <3> QED
      BY <1>2, <1>3, <3>1 DEF SiloDeposit
  <2> HIDE DEF r
  <2> QED
    BY <1>3, <2>1, <2>2, <2>3, <2>4, <2>5 DEF SiloDeposit, SiloStep
<1>4. CASE SiloWithdraw(a, n)
  <2> DEFINE r == roots[a] - n
  <2>1. r \in 0..MaxRoots
    BY <1>1, <1>4 DEF SiloWithdraw
  <2>2. roots' = [roots EXCEPT ![a] = r]
    BY <1>4 DEF SiloWithdraw
  <2>3. totalRoots' = totalRoots - roots[a] + r
    BY <1>1, <1>4 DEF SiloWithdraw
  <2>4. \A b \in Listed : a \notin voted[b]
    <3> SUFFICES ASSUME NEW b \in Listed, a \in voted[b] PROVE FALSE
      OBVIOUS
    <3>1. votedUntil[a] >= EndOf(b) /\ season >= votedUntil[a] /\ season < EndOf(b)
      BY <1>4 DEF Safety, VotersLocked, SiloWithdraw, Settled, IsActive
    <3>2. votedUntil[a] \in Nat /\ season \in Nat
      BY <1>1, BoundAssumption DEF TypeOK
    <3>3. EndOf(b) \in Nat
      <4>1. bips[b] \in Bip
        BY <1>1, <1>2
      <4> QED
        BY <4>1, TermAssumption DEF EndOf, Bip
    <3> QED
      BY <3>1, <3>2, <3>3
  <2>5. bips' = bips /\ bips' \in [BipId -> Bip]
    BY <1>1, <1>4 DEF SiloWithdraw, bipVars, TypeOK
  <2> HIDE DEF r
  <2> QED
    BY <1>4, <2>1, <2>2, <2>3, <2>4, <2>5 DEF SiloWithdraw, SiloStep, bipVars
<1> QED
  BY <1>3, <1>4

LEMMA SiloStructure ==
  ASSUME Structure, NEW a, NEW r, SiloStep(a, r)
  PROVE  Structure'
<1>1. TypeOK /\ a \in Account /\ r \in 0..MaxRoots
  BY DEF Structure, SiloStep
<1>2. /\ UNCHANGED <<activeBips, bipIndex, voted, lockVars, seasonVars, pauseVars,
                     execVars>>
      /\ bips' \in [BipId -> Bip]
      /\ roots' = [roots EXCEPT ![a] = r]
  BY DEF SiloStep
<1>3. /\ activeBips' = activeBips /\ bipIndex' = bipIndex /\ voted' = voted
      /\ season' = season /\ now' = now /\ frames' = frames
  BY <1>2 DEF seasonVars, execVars
<1>4. \A b \in BipId : /\ bips'[b].start = bips[b].start
                       /\ bips'[b].executed = bips[b].executed
                       /\ bips'[b].proposer = bips[b].proposer
                       /\ bips'[b].timestamp = bips[b].timestamp
  <2> TAKE b \in BipId
  <2>1. bips[b] \in Bip
    BY <1>1 DEF TypeOK
  <2>2. \/ bips'[b] = [bips[b] EXCEPT !.roots = bips[b].roots - roots[a] + r]
        \/ bips'[b] = bips[b]
    BY DEF SiloStep
  <2> QED
    BY <2>1, <2>2 DEF Bip
<1>5. TotalExact'
  <2>1. /\ roots \in [Account -> 0..MaxRoots] /\ roots[a] \in Nat /\ r \in Nat
    BY <1>1, BoundAssumption DEF TypeOK
  <2>2. Cardinality(Units(Account, roots'))
          = Cardinality(Units(Account, roots)) - roots[a] + r
    <3>1. Cardinality(Units(Account, [roots EXCEPT ![a] = r]))
            = Cardinality(Units(Account, roots)) - roots[a] + r
      <4>1. Account \in SUBSET Account
        OBVIOUS
      <4> QED
        BY <1>1, <2>1, <4>1, UnitsChange
    <3> QED
      BY <1>2, <3>1
  <2> QED
    BY <2>2 DEF Structure, TotalExact, RootsOf, SiloStep
<1>6. totalRoots' \in Nat
  BY <1>2, <1>5, UnitsFinite DEF TotalExact, RootsOf
<1>7. TypeOK'
  <2>1. roots' \in [Account -> 0..MaxRoots]
    BY <1>1, <1>2 DEF TypeOK
  <2> QED
    BY <1>1, <1>2, <1>6, <2>1 DEF TypeOK, lockVars, seasonVars, pauseVars, execVars
<1>8. BipsInOrder'
  <2>1. \A b \in BipId : ~Created(b) => b \notin Listed
    <3>1. \A b \in BipId : ~Created(b) => ~IsNominated(b)
      BY DEF Structure, BipsInOrder, IsNominated, NoBip
    <3> QED
      BY <3>1 DEF Structure, ActiveListExact
  <2>2. \A b \in BipId : ~Created(b) => bips'[b] = bips[b]
    BY <2>1 DEF SiloStep
  <2> QED
    BY <1>3, <1>4, <2>2 DEF Structure, BipsInOrder, Created, EndOf
<1>9. FramesInOrder'
  BY <1>1, <1>3, <1>4, IdsInOrder DEF Structure, FramesInOrder
<1>10. ActiveListExact'
  <2>1. Listed' = Listed
    BY <1>3 DEF Listed
  <2>2. \A b \in BipId : /\ IsNominated(b)' <=> IsNominated(b)
                         /\ IsActive(b)' <=> IsActive(b)
    BY <1>3, <1>4 DEF IsNominated, IsActive, EndOf
  <2> QED
    BY <1>1, <1>3, <2>1, <2>2, IdsInOrder DEF Structure, ActiveListExact
<1> QED
  BY <1>5, <1>7, <1>8, <1>9, <1>10 DEF Structure

LEMMA SiloSafety ==
  ASSUME Structure, Safety, NEW a, NEW r, SiloStep(a, r)
  PROVE  Safety'
<1>1. TypeOK /\ Structure' /\ a \in Account /\ r \in 0..MaxRoots
  BY SiloStructure DEF Structure, SiloStep
<1>2. /\ activeBips' = activeBips /\ voted' = voted /\ votedUntil' = votedUntil
      /\ proposedUntil' = proposedUntil /\ roots' = [roots EXCEPT ![a] = r]
      /\ Listed' = Listed /\ Listed \subseteq BipId
  BY <1>1, IdsInOrder DEF SiloStep, lockVars, Listed
<1>3. \A b \in BipId : b \notin Listed => bips'[b] = bips[b]
  BY DEF SiloStep
<1>4. \A b \in BipId : /\ bips'[b].start = bips[b].start
                       /\ bips'[b].executed = bips[b].executed
                       /\ bips'[b].proposer = bips[b].proposer
  <2> TAKE b \in BipId
  <2>1. bips[b] \in Bip
    BY <1>1 DEF TypeOK
  <2>2. \/ bips'[b] = [bips[b] EXCEPT !.roots = bips[b].roots - roots[a] + r]
        \/ bips'[b] = bips[b]
    BY DEF SiloStep
  <2> QED
    BY <2>1, <2>2 DEF Bip
<1>5. TallyExact'
  <2> SUFFICES ASSUME NEW b \in Listed
               PROVE  bips'[b].roots = Cardinality(Units(voted[b], roots'))
    BY <1>2 DEF TallyExact, RootsOf
  <2>1. /\ b \in BipId /\ bips[b] \in Bip /\ voted[b] \in SUBSET Account
        /\ roots \in [Account -> 0..MaxRoots]
    BY <1>1, <1>2 DEF TypeOK
  <2>2. bips[b].roots = Cardinality(Units(voted[b], roots))
    BY DEF Safety, TallyExact, RootsOf
  <2>3. CASE a \in voted[b]
    <3>1. bips'[b] = [bips[b] EXCEPT !.roots = bips[b].roots - roots[a] + r]
      BY <2>1, <2>3 DEF SiloStep
    <3>2. bips'[b].roots = bips[b].roots - roots[a] + r
      BY <2>1, <3>1 DEF Bip
    <3>3. Cardinality(Units(voted[b], [roots EXCEPT ![a] = r]))
            = Cardinality(Units(voted[b], roots)) - roots[a] + r
      BY <1>1, <2>1, <2>3, UnitsChange
    <3> QED
      BY <1>2, <2>2, <3>2, <3>3
  <2>4. CASE a \notin voted[b]
    <3>1. bips'[b] = bips[b]
      BY <2>1, <2>4 DEF SiloStep
    <3>2. \A c \in voted[b] : roots[c] = roots'[c]
      BY <1>2, <2>1, <2>4
    <3>3. Units(voted[b], roots) = Units(voted[b], roots')
      BY <2>1, <3>2, UnitsSame
    <3> QED
      BY <2>2, <3>1, <3>3
  <2> QED
    BY <2>3, <2>4
<1>6. VotersLocked'
  BY <1>2, <1>4 DEF Safety, VotersLocked, EndOf
<1>7. ProposerCommitted'
  BY <1>2, <1>4 DEF Safety, ProposerCommitted, EndOf
<1>8. TallyBounded'
  <2>1. ListedBounded'
    BY <1>1, <1>5, ExactIsBounded, PTL
  <2> QED
    BY <1>2, <1>3, <2>1 DEF Safety, TallyBounded, ListedBounded
<1>9. ExecutedHadMajority'
  <2>1. \A b \in Listed : ~bips[b].executed
    BY DEF Structure, ActiveListExact, IsNominated
  <2> QED
    BY <1>3, <1>4, <2>1 DEF Safety, ExecutedHadMajority
<1> QED
  BY <1>5, <1>6, <1>7, <1>8, <1>9 DEF Safety

-----------------------------------------------------------------------------
(* Ending and executing.                                                   *)

(* Decimal.ratio rounds down: a ratio of at least t is a share of at least *)
(* t parts in Base.                                                        *)
LEMMA RatioAtLeast ==
  ASSUME NEW n \in Nat, NEW d \in Nat \ {0}, NEW t \in Nat, Ratio(n, d) >= t
  PROVE  n * Base >= d * t
<1> DEFINE x == n * Base
           q == x \div d
<1>1. x \in Nat
  BY ThresholdAssumption
<1> HIDE DEF x
<1>2. q \in Nat /\ x >= d * q
  BY <1>1
<1>3. q >= t
  BY DEF Ratio, x
<1> HIDE DEF q
<1>4. d * q >= d * t
  BY <1>2, <1>3
<1>5. d * q \in Nat /\ d * t \in Nat
  BY <1>2
<1> QED
  BY <1>1, <1>2, <1>4, <1>5 DEF x

\* A BIP may leave the list, its total and its end recorded, and it may be
\* executed, with the majority it needs.
EndingStep(b) ==
  /\ b \in BipId /\ Created(b)
  /\ bips' \in [BipId -> Bip]
  /\ \A c \in BipId \ {b} : bips'[c] = bips[c]
  /\ bips'[b].start = bips[b].start
  /\ bips'[b].proposer = bips[b].proposer
  /\ bips'[b].roots = bips[b].roots
  /\ IF b \in Listed
     THEN bips'[b].timestamp = now /\ bips'[b].endTotalRoots = totalRoots
     ELSE /\ bips'[b].timestamp = bips[b].timestamp
          /\ bips'[b].endTotalRoots = bips[b].endTotalRoots
  /\ bips[b].executed => bips'[b].executed
  /\ bips'[b].executed => /\ bips'[b].endTotalRoots > 0
                          /\ bips'[b].roots * Base >= bips'[b].endTotalRoots * PassThreshold
  /\ bips'[b].executed \/ ~IsActive(b)
  /\ activeBips' \in Seq(BipId)
  /\ Listed' = Listed \ {b}
  /\ \A i, j \in DOMAIN activeBips' : activeBips'[i] = activeBips'[j] => i = j
  /\ PauseTypes'
  /\ diamond' \in Seq(BipId)
  /\ rewards' \in [BipId -> Seq(Nat)]
  /\ \/ frames' = frames
     \/ /\ bips'[b].executed
        /\ \E ended \in BOOLEAN : frames' = Append(frames, [bip |-> b, ended |-> ended])
  /\ UNCHANGED <<bipIndex, voted, lockVars, siloVars, seasonVars>>

LEMMA EndTermStep ==
  ASSUME Structure, NEW b \in BipId, EndTerm(b)
  PROVE  EndingStep(b)
<1>1. TypeOK /\ b \in Listed /\ IsNominated(b) /\ Created(b)
  BY NominatedInOrder DEF EndTerm, Structure, ActiveListExact
<1>2. /\ bips[b] \in Bip /\ bips \in [BipId -> Bip] /\ ~bips[b].executed
      /\ now \in Nat /\ totalRoots \in Nat
  BY <1>1, BoundAssumption DEF TypeOK, IsNominated
<1>3. EndedBip(b) \in Bip
  BY <1>2 DEF EndedBip, Bip
<1>4. bips' = [bips EXCEPT ![b] = EndedBip(b)]
  BY DEF EndTerm
<1>5. bips'[b] = EndedBip(b) /\ bips' \in [BipId -> Bip]
      /\ \A c \in BipId \ {b} : bips'[c] = bips[c]
  BY <1>2, <1>3, <1>4
<1>6. /\ bips'[b].start = bips[b].start
      /\ bips'[b].proposer = bips[b].proposer
      /\ bips'[b].roots = bips[b].roots
      /\ bips'[b].timestamp = now
      /\ bips'[b].endTotalRoots = totalRoots
      /\ bips'[b].executed = bips[b].executed
  BY <1>2, <1>5 DEF EndedBip, Bip
<1>7. /\ activeBips' \in Seq(BipId)
      /\ Range(activeBips') = Range(activeBips) \ {b}
      /\ \A i, j \in DOMAIN activeBips' : activeBips'[i] = activeBips'[j] => i = j
  <2>1. activeBips \in Seq(BipId) /\ b \in Range(activeBips)
        /\ \A i, j \in DOMAIN activeBips : activeBips[i] = activeBips[j] => i = j
    BY <1>1 DEF TypeOK, Listed, Structure, ActiveListExact
  <2>2. activeBips' = SwapRemove(activeBips, b)
    BY DEF EndTerm
  <2> QED
    BY <2>1, <2>2, SwapRemoveExact
<1>8. PauseTypes' /\ diamond' \in Seq(BipId) /\ rewards' \in [BipId -> Seq(Nat)]
      /\ frames' = frames
  BY <1>1 DEF EndTerm, TypeOK, PauseTypes, pauseVars, execVars
<1> QED
  BY <1>1, <1>2, <1>5, <1>6, <1>7, <1>8 DEF EndTerm, EndingStep, Listed

LEMMA ExecuteStep ==
  ASSUME Structure, NEW b \in BipId, NEW ended \in BOOLEAN, NEW cut \in BOOLEAN,
         Execute(b, ended, cut), IsNominated(b),
         IF ended THEN b \notin Listed /\ HasMajority(b) ELSE HasSuperMajority(b)
  PROVE  EndingStep(b)
<1>1. TypeOK /\ Created(b) /\ Listed \subseteq BipId
  BY NominatedInOrder, IdsInOrder DEF Structure
<1>2. /\ bips[b] \in Bip /\ bips \in [BipId -> Bip]
      /\ now \in Nat /\ totalRoots \in Nat
      /\ bips[b].roots \in Nat /\ bips[b].endTotalRoots \in Nat
      /\ PassThreshold \in Nat
  BY <1>1, BoundAssumption, ThresholdAssumption DEF TypeOK, Bip
<1>3. /\ PauseTypes' /\ diamond' \in Seq(BipId) /\ rewards' \in [BipId -> Seq(Nat)]
      /\ \/ frames' = frames
         \/ frames' = Append(frames, [bip |-> b, ended |-> ended])
  <2>1. diamond' \in Seq(BipId)
    <3>1. diamond' = diamond \/ diamond' = Append(diamond, b)
      BY DEF Execute
    <3>2. diamond \in Seq(BipId) /\ Append(diamond, b) \in Seq(BipId)
      BY <1>1, AppendProperties DEF TypeOK
    <3> QED
      BY <3>1, <3>2
  <2>2. \/ frames' = frames
        \/ frames' = Append(frames, [bip |-> b, ended |-> ended])
    BY DEF Execute
  <2>3. FinishExecution(b, ended) \/ UNCHANGED <<pauseVars, rewards>>
    BY DEF Execute
  <2>4. CASE FinishExecution(b, ended)
    BY <2>1, <2>2, <2>4, FinishExecutionTypes
  <2>5. CASE UNCHANGED <<pauseVars, rewards>>
    BY <1>1, <2>1, <2>2, <2>5 DEF TypeOK, PauseTypes, pauseVars
  <2> QED
    BY <2>3, <2>4, <2>5
<1>4. UNCHANGED <<bipIndex, voted, lockVars, siloVars, seasonVars>>
  BY DEF Execute
<1>5. CASE ended
  <2>1. /\ bips' = [bips EXCEPT ![b].executed = TRUE] /\ activeBips' = activeBips
        /\ b \notin Listed /\ HasMajority(b)
    BY <1>5 DEF Execute, MarkExecuted
  <2>2. [bips[b] EXCEPT !.executed = TRUE] \in Bip
    BY <1>2 DEF Bip
  <2>3. bips'[b] = [bips[b] EXCEPT !.executed = TRUE] /\ bips' \in [BipId -> Bip]
        /\ \A c \in BipId \ {b} : bips'[c] = bips[c]
    BY <1>2, <2>1, <2>2
  <2>4. /\ bips'[b].start = bips[b].start
        /\ bips'[b].proposer = bips[b].proposer
        /\ bips'[b].roots = bips[b].roots
        /\ bips'[b].timestamp = bips[b].timestamp
        /\ bips'[b].endTotalRoots = bips[b].endTotalRoots
        /\ bips'[b].executed
    BY <1>2, <2>3 DEF Bip
  <2>5. /\ bips[b].endTotalRoots > 0
        /\ bips[b].roots * Base >= bips[b].endTotalRoots * PassThreshold
    BY <1>2, <2>1, RatioAtLeast DEF HasMajority
  <2>6. /\ activeBips' \in Seq(BipId) /\ Listed' = Listed \ {b}
        /\ \A i, j \in DOMAIN activeBips' : activeBips'[i] = activeBips'[j] => i = j
    BY <1>1, <2>1 DEF TypeOK, Listed, Structure, ActiveListExact
  <2> QED
    BY <1>1, <1>3, <1>4, <2>1, <2>3, <2>4, <2>5, <2>6 DEF EndingStep
<1>6. CASE ~ended
  <2> DEFINE e == [EndedBip(b) EXCEPT !.executed = TRUE]
  <2>1. /\ b \in Listed
        /\ bips' = [bips EXCEPT ![b] = e]
        /\ activeBips' = SwapRemove(activeBips, b)
        /\ HasSuperMajority(b)
    BY <1>6 DEF Execute, MarkExecuted
  <2>2. e \in Bip
    BY <1>2 DEF EndedBip, Bip
  <2>3. bips'[b] = e /\ bips' \in [BipId -> Bip]
        /\ \A c \in BipId \ {b} : bips'[c] = bips[c]
    BY <1>2, <2>1, <2>2
  <2>4. /\ bips'[b].start = bips[b].start
        /\ bips'[b].proposer = bips[b].proposer
        /\ bips'[b].roots = bips[b].roots
        /\ bips'[b].timestamp = now
        /\ bips'[b].endTotalRoots = totalRoots
        /\ bips'[b].executed
    BY <1>2, <2>3 DEF EndedBip, Bip
  <2>5. /\ totalRoots > 0
        /\ bips[b].roots * Base >= totalRoots * PassThreshold
    <3>1. EmergencyThreshold \in Int
      BY ThresholdAssumption DEF EmergencyThreshold, Ratio
    <3>2. totalRoots \in Nat \ {0} /\ Ratio(bips[b].roots, totalRoots) \in Int
      BY <1>2, <2>1, ThresholdAssumption DEF HasSuperMajority, Ratio
    <3>3. Ratio(bips[b].roots, totalRoots) >= PassThreshold
      BY <1>2, <2>1, <3>1, <3>2, ThresholdAssumption DEF HasSuperMajority
    <3> QED
      BY <1>2, <3>2, <3>3, RatioAtLeast
  <2>6. /\ activeBips' \in Seq(BipId) /\ Range(activeBips') = Range(activeBips) \ {b}
        /\ \A i, j \in DOMAIN activeBips' : activeBips'[i] = activeBips'[j] => i = j
    <3>1. activeBips \in Seq(BipId) /\ b \in Range(activeBips)
          /\ \A i, j \in DOMAIN activeBips : activeBips[i] = activeBips[j] => i = j
      BY <1>1, <2>1 DEF TypeOK, Listed, Structure, ActiveListExact
    <3> QED
      BY <2>1, <3>1, SwapRemoveExact
  <2> QED
    BY <1>1, <1>3, <1>4, <2>1, <2>3, <2>4, <2>5, <2>6 DEF EndingStep, Listed
<1> QED
  BY <1>5, <1>6

LEMMA EndingStructure ==
  ASSUME Structure, NEW b, EndingStep(b)
  PROVE  Structure'
<1>1. /\ TypeOK /\ b \in BipId /\ Created(b) /\ bips' \in [BipId -> Bip]
      /\ \A c \in BipId \ {b} : bips'[c] = bips[c]
      /\ bips'[b].start = bips[b].start
      /\ bips'[b].proposer = bips[b].proposer
      /\ Listed \subseteq BipId
  BY IdsInOrder DEF Structure, EndingStep
<1>2. /\ bipIndex' = bipIndex /\ voted' = voted /\ season' = season /\ now' = now
      /\ roots' = roots /\ totalRoots' = totalRoots
      /\ Listed' = Listed \ {b} /\ UNCHANGED lockVars
  BY DEF EndingStep, siloVars, seasonVars
<1>3. frames' \in Seq(Frame) /\ FramesInOrder'
  <2>1. CASE frames' = frames
    <3>1. \A i \in DOMAIN frames : bips'[frames[i].bip].executed
      <4> SUFFICES ASSUME NEW i \in DOMAIN frames
                   PROVE  bips'[frames[i].bip].executed
        OBVIOUS
      <4>1. frames[i].bip \in BipId /\ bips[frames[i].bip].executed
        BY <1>1, IdsInOrder DEF Structure, FramesInOrder
      <4>2. bips[b].executed => bips'[b].executed
        BY DEF EndingStep
      <4> QED
        BY <1>1, <4>1, <4>2
    <3> QED
      BY <1>1, <2>1, <3>1 DEF FramesInOrder, TypeOK
  <2>2. CASE /\ bips'[b].executed
             /\ \E ended \in BOOLEAN : frames' = Append(frames, [bip |-> b, ended |-> ended])
    <3>1. PICK ended \in BOOLEAN : frames' = Append(frames, [bip |-> b, ended |-> ended])
      BY <2>2
    <3> DEFINE f == [bip |-> b, ended |-> ended]
    <3>2. f \in Frame /\ f.bip = b /\ frames \in Seq(Frame)
      BY <1>1 DEF Frame, TypeOK
    <3> HIDE DEF f
    <3>3. /\ Append(frames, f) \in Seq(Frame)
          /\ DOMAIN Append(frames, f) = 1..(Len(frames) + 1)
          /\ DOMAIN frames = 1..Len(frames)
          /\ Len(frames) \in Nat
          /\ \A i \in 1..Len(frames) : Append(frames, f)[i] = frames[i]
          /\ Append(frames, f)[Len(frames) + 1] = f
      BY <3>2
    <3>4. \A i \in 1..Len(frames) : bips'[frames[i].bip].executed
      <4> SUFFICES ASSUME NEW i \in 1..Len(frames)
                   PROVE  bips'[frames[i].bip].executed
        OBVIOUS
      <4>1. frames[i].bip \in BipId /\ bips[frames[i].bip].executed
        BY <1>1, <3>3, IdsInOrder DEF Structure, FramesInOrder
      <4> QED
        BY <1>1, <2>2, <4>1
    <3>5. \A i \in DOMAIN Append(frames, f) : bips'[Append(frames, f)[i].bip].executed
      <4> SUFFICES ASSUME NEW i \in 1..(Len(frames) + 1)
                   PROVE  bips'[Append(frames, f)[i].bip].executed
        BY <3>3
      <4>1. CASE i \in 1..Len(frames)
        BY <3>3, <3>4, <4>1
      <4>2. CASE i = Len(frames) + 1
        BY <2>2, <3>2, <3>3, <4>2
      <4> QED
        BY <3>3, <4>1, <4>2
    <3>6. frames' = Append(frames, f)
      BY <3>1 DEF f
    <3> QED
      BY <3>3, <3>5, <3>6 DEF FramesInOrder
  <2> QED
    BY <2>1, <2>2 DEF EndingStep
<1>4. TypeOK'
  BY <1>1, <1>2, <1>3 DEF EndingStep, TypeOK, PauseTypes, lockVars
<1>5. BipsInOrder'
  <2>1. now \in Nat /\ bips'[b].timestamp <= now
    <3>1. now \in Nat
      BY <1>1, BoundAssumption DEF TypeOK
    <3>2. bips[b].timestamp <= now
      BY <1>1 DEF Structure, BipsInOrder
    <3> QED
      BY <3>1, <3>2 DEF EndingStep
  <2>2. ASSUME NEW c \in BipId
        PROVE  IF Created(c)'
               THEN /\ bips'[c].start \in 1..season'
                    /\ EndOf(c)' <= MaxSeason
                    /\ bips'[c].timestamp <= now'
                    /\ bips'[c].proposer \in Account
                    /\ bips'[c].proposer \in voted'[c]
               ELSE bips'[c] = NoBip /\ voted'[c] = {}
    <3>1. CASE c = b
      BY <1>1, <1>2, <2>1, <3>1 DEF Structure, BipsInOrder, Created, EndOf
    <3>2. CASE c # b
      BY <1>1, <1>2, <3>2 DEF Structure, BipsInOrder, Created, EndOf
    <3> QED
      BY <3>1, <3>2
  <2> QED
    BY <2>2 DEF BipsInOrder
<1>6. TotalExact'
  BY <1>2 DEF Structure, TotalExact, RootsOf
<1>7. ActiveListExact'
  <2>1. \A c \in BipId \ {b} : /\ IsNominated(c)' <=> IsNominated(c)
                               /\ IsActive(c)' <=> IsActive(c)
    BY <1>1, <1>2 DEF IsNominated, IsActive, EndOf
  <2>2. ~ (IsNominated(b)' /\ IsActive(b)')
    <3>1. IsActive(b)' <=> IsActive(b)
      BY <1>1, <1>2 DEF IsActive, EndOf
    <3>2. bips'[b].executed \/ ~IsActive(b)
      BY DEF EndingStep
    <3> QED
      BY <3>1, <3>2 DEF IsNominated
  <2>3. \A i, j \in DOMAIN activeBips' : activeBips'[i] = activeBips'[j] => i = j
    BY DEF EndingStep
  <2>4. \A c \in Listed' : IsNominated(c)'
    BY <1>1, <1>2, <2>1 DEF Structure, ActiveListExact
  <2>5. \A c \in BipId : IsNominated(c)' /\ IsActive(c)' => c \in Listed'
    BY <1>1, <1>2, <2>1, <2>2 DEF Structure, ActiveListExact
  <2> QED
    BY <2>3, <2>4, <2>5 DEF ActiveListExact
<1> QED
  BY <1>3, <1>4, <1>5, <1>6, <1>7 DEF Structure

LEMMA EndingSafety ==
  ASSUME Structure, Safety, NEW b, EndingStep(b)
  PROVE  Safety'
<1>1. /\ TypeOK /\ Structure' /\ b \in BipId
      /\ \A c \in BipId \ {b} : bips'[c] = bips[c]
      /\ Listed \subseteq BipId
  BY EndingStructure, IdsInOrder DEF Structure, EndingStep
<1>2. /\ voted' = voted /\ roots' = roots /\ totalRoots' = totalRoots
      /\ votedUntil' = votedUntil /\ proposedUntil' = proposedUntil
      /\ Listed' = Listed \ {b}
  BY DEF EndingStep, siloVars, lockVars
<1>3. \A c \in Listed' : c \in Listed /\ bips'[c] = bips[c]
  BY <1>1, <1>2
<1>4. TallyExact'
  BY <1>2, <1>3 DEF Safety, TallyExact, RootsOf
<1>5. VotersLocked'
  BY <1>2, <1>3 DEF Safety, VotersLocked, EndOf
<1>6. ProposerCommitted'
  BY <1>2, <1>3 DEF Safety, ProposerCommitted, EndOf
<1>7. TallyBounded'
  <2>1. bips'[b].roots <= bips'[b].endTotalRoots
    BY <1>1 DEF EndingStep, Safety, TallyBounded
  <2>2. ListedBounded'
    BY <1>1, <1>4, ExactIsBounded, PTL
  <2>3. \A c \in BipId : c \notin Listed' => bips'[c].roots <= bips'[c].endTotalRoots
    BY <1>1, <1>2, <2>1 DEF Safety, TallyBounded
  <2> QED
    BY <2>2, <2>3 DEF TallyBounded, ListedBounded
<1>8. ExecutedHadMajority'
  <2>1. bips'[b].executed =>
          /\ bips'[b].endTotalRoots > 0
          /\ bips'[b].roots * Base >= bips'[b].endTotalRoots * PassThreshold
    BY DEF EndingStep
  <2> QED
    BY <1>1, <2>1 DEF Safety, ExecutedHadMajority
<1> QED
  BY <1>4, <1>5, <1>6, <1>7, <1>8 DEF Safety

-----------------------------------------------------------------------------
(* Proposing.                                                              *)

\* A BIP just created by account a.
NewBip(a, p) ==
  [proposer |-> a, start |-> season, executed |-> FALSE, payload |-> p,
   timestamp |-> now, roots |-> roots[a], endTotalRoots |-> 0]

LEMMA ProposeStep ==
  ASSUME Structure, NEW a \in Account, NEW p \in Payloads, Propose(a, p)
  PROVE  /\ bipIndex \in BipId /\ bipIndex \notin Listed
         /\ voted[bipIndex] = {}
         /\ NewBip(a, p) \in Bip
         /\ bips' = [bips EXCEPT ![bipIndex] = NewBip(a, p)]
         /\ voted' = [voted EXCEPT ![bipIndex] = {a}]
         /\ bipIndex' = bipIndex + 1
         /\ activeBips' \in Seq(BipId)
         /\ Listed' = Listed \cup {bipIndex}
         /\ \A i, j \in DOMAIN activeBips' : activeBips'[i] = activeBips'[j] => i = j
         /\ season + Period \in 0..MaxSeason
         /\ proposedUntil' = [proposedUntil EXCEPT ![a] = season + Period]
         /\ \E lock \in 0..MaxSeason :
              /\ lock >= votedUntil[a] /\ lock >= season + Period
              /\ votedUntil' = [votedUntil EXCEPT ![a] = lock]
         /\ UNCHANGED <<siloVars, seasonVars, pauseVars, execVars>>
<1> DEFINE b == bipIndex
<1>1. /\ TypeOK /\ b \in BipId /\ b + 1 \in 0..MaxBips
      /\ season \in 1..MaxSeason /\ now \in Nat /\ roots[a] \in Nat
      /\ season + Period \in 0..MaxSeason
      /\ p \in Payload
  <2>1. TypeOK
    BY DEF Structure
  <2>2. bipIndex < MaxBips /\ season + Period <= MaxSeason
    BY DEF Propose
  <2>3. bipIndex \in 0..MaxBips /\ season \in 1..MaxSeason /\ now \in 0..MaxTime
        /\ roots[a] \in 0..MaxRoots
    BY <2>1 DEF TypeOK
  <2>4. b \in BipId /\ b + 1 \in 0..MaxBips
    BY <2>2, <2>3, BoundAssumption DEF BipId
  <2>5. now \in Nat /\ roots[a] \in Nat /\ season + Period \in 0..MaxSeason
    BY <2>2, <2>3, BoundAssumption, TermAssumption
  <2> QED
    BY <2>1, <2>3, <2>4, <2>5, PayloadsAssumption
<1>2. bips[b] = NoBip /\ voted[b] = {}
  <2>1. ~Created(b)
    BY <1>1, BoundAssumption DEF Created, TypeOK
  <2> QED
    BY <1>1, <2>1 DEF Structure, BipsInOrder
<1>3. b \notin Listed
  BY <1>2 DEF Structure, ActiveListExact, IsNominated, NoBip
<1>4. NewBip(a, p) \in Bip
  BY <1>1, BoundAssumption DEF NewBip, Bip
<1>5. bips' = [bips EXCEPT ![b] = NewBip(a, p)]
  <2>1. [NoBip EXCEPT !.start = season, !.timestamp = now, !.proposer = a,
                      !.payload = p, !.roots = NoBip.roots + roots[a]]
          = NewBip(a, p)
    <3>1. NoBip.roots + roots[a] = roots[a]
      BY <1>1 DEF NoBip
    <3>2. [NoBip EXCEPT !.start = season, !.timestamp = now, !.proposer = a,
                        !.payload = p, !.roots = roots[a]] = NewBip(a, p)
      <4> DEFINE n == [NoBip EXCEPT !.start = season, !.timestamp = now, !.proposer = a,
                                    !.payload = p, !.roots = roots[a]]
                 F == {"proposer", "start", "executed", "payload", "timestamp",
                       "roots", "endTotalRoots"}
      <4>1. /\ n.start = season /\ n.timestamp = now /\ n.proposer = a /\ n.payload = p
            /\ n.roots = roots[a] /\ n.executed = FALSE /\ n.endTotalRoots = 0
        BY DEF NoBip
      <4>2. n = [f \in F |-> n[f]]
        BY DEF NoBip
      <4> HIDE DEF n
      <4>3. n = NewBip(a, p)
        BY <4>1, <4>2 DEF NewBip
      <4> QED
        BY <4>3 DEF n
    <3> QED
      BY <3>1, <3>2
  <2>2. bips' = [bips EXCEPT ![b] =
          [bips[b] EXCEPT !.start = season, !.timestamp = now, !.proposer = a,
                          !.payload = p, !.roots = bips[b].roots + roots[a]]]
    BY DEF Propose
  <2> QED
    BY <1>2, <2>1, <2>2
<1>6. voted' = [voted EXCEPT ![b] = {a}]
  BY <1>1, <1>2 DEF Propose, TypeOK
<1>7. /\ activeBips' \in Seq(BipId)
      /\ Range(activeBips') = Range(activeBips) \cup {b}
      /\ \A i, j \in DOMAIN activeBips' : activeBips'[i] = activeBips'[j] => i = j
  <2>1. /\ activeBips \in Seq(BipId) /\ b \notin Range(activeBips)
        /\ \A i, j \in DOMAIN activeBips : activeBips[i] = activeBips[j] => i = j
    BY <1>1, <1>3 DEF TypeOK, Structure, ActiveListExact, Listed
  <2>2. activeBips' = Append(activeBips, b)
    BY DEF Propose
  <2> QED
    BY <1>1, <2>1, <2>2, AppendRange
<1>8. \E lock \in 0..MaxSeason :
        /\ lock >= votedUntil[a] /\ lock >= season + Period
        /\ votedUntil' = [votedUntil EXCEPT ![a] = lock]
  <2> DEFINE lock == IF season + Period > votedUntil[a] THEN season + Period
                     ELSE votedUntil[a]
  <2>1. votedUntil[a] \in 0..MaxSeason /\ votedUntil \in [Account -> 0..MaxSeason]
    BY <1>1 DEF TypeOK
  <2>2. lock \in 0..MaxSeason /\ lock >= votedUntil[a] /\ lock >= season + Period
    BY <1>1, <2>1, BoundAssumption
  <2>3. votedUntil' = [votedUntil EXCEPT ![a] = lock]
    BY <2>1 DEF Propose
  <2> HIDE DEF lock
  <2> QED
    BY <2>2, <2>3
<1> QED
  BY <1>1, <1>2, <1>3, <1>4, <1>5, <1>6, <1>7, <1>8 DEF Propose, Listed

LEMMA ProposeStructure ==
  ASSUME Structure, NEW a \in Account, NEW p \in Payloads, Propose(a, p)
  PROVE  Structure'
<1> DEFINE n == NewBip(a, p)
<1>0. PICK b \in BipId : b = bipIndex
  BY ProposeStep
<1>1. /\ b \in BipId /\ b \notin Listed /\ n \in Bip
      /\ bips' = [bips EXCEPT ![b] = n]
      /\ voted' = [voted EXCEPT ![b] = {a}]
      /\ bipIndex' = b + 1
      /\ activeBips' \in Seq(BipId)
      /\ Listed' = Listed \cup {b}
      /\ \A i, j \in DOMAIN activeBips' : activeBips'[i] = activeBips'[j] => i = j
      /\ season + Period \in 0..MaxSeason
      /\ UNCHANGED <<siloVars, seasonVars, pauseVars, execVars>>
  BY <1>0, ProposeStep
<1>2. /\ n.start = season /\ n.proposer = a /\ n.timestamp = now /\ ~n.executed
  BY DEF NewBip
<1> HIDE DEF n
<1>3. TypeOK /\ Listed \subseteq BipId
  BY IdsInOrder DEF Structure
<1>4. /\ bips'[b] = n /\ voted'[b] = {a}
      /\ \A c \in BipId \ {b} : bips'[c] = bips[c] /\ voted'[c] = voted[c]
      /\ bips' \in [BipId -> Bip] /\ voted' \in [BipId -> SUBSET Account]
  BY <1>1, <1>3 DEF TypeOK
<1>5. season' = season /\ now' = now /\ roots' = roots /\ totalRoots' = totalRoots
      /\ frames' = frames
  BY <1>1 DEF siloVars, seasonVars, execVars
<1>6. TypeOK'
  <2>1. votedUntil' \in [Account -> 0..MaxSeason]
    <3>1. PICK lock \in 0..MaxSeason : votedUntil' = [votedUntil EXCEPT ![a] = lock]
      BY ProposeStep
    <3> QED
      BY <1>3, <3>1 DEF TypeOK
  <2>2. proposedUntil' \in [Account -> 0..MaxSeason]
    <3>1. proposedUntil' = [proposedUntil EXCEPT ![a] = season + Period]
      BY ProposeStep
    <3> QED
      BY <1>1, <1>3, <3>1 DEF TypeOK
  <2>3. bipIndex' \in 0..MaxBips
    BY <1>1, BoundAssumption DEF BipId
  <2> QED
    BY <1>1, <1>3, <1>4, <2>1, <2>2, <2>3
    DEF TypeOK, siloVars, seasonVars, pauseVars, execVars
<1>7. BipsInOrder'
  <2>1. \A c \in BipId \ {b} : c < b + 1 <=> c < b
    BY <1>1, BoundAssumption DEF BipId
  <2>2. season \in 1..season /\ now <= now /\ season + Period <= MaxSeason
    BY <1>1, <1>3, BoundAssumption DEF TypeOK
  <2>3. ASSUME NEW c \in BipId
        PROVE  IF Created(c)'
               THEN /\ bips'[c].start \in 1..season'
                    /\ EndOf(c)' <= MaxSeason
                    /\ bips'[c].timestamp <= now'
                    /\ bips'[c].proposer \in Account
                    /\ bips'[c].proposer \in voted'[c]
               ELSE bips'[c] = NoBip /\ voted'[c] = {}
    <3>1. CASE c = b
      <4>1. Created(c)'
        BY <1>1, <3>1, BoundAssumption DEF Created, BipId
      <4> QED
        BY <1>2, <1>4, <1>5, <2>2, <3>1, <4>1 DEF EndOf
    <3>2. CASE c # b
      <4>1. Created(c)' <=> Created(c)
        BY <1>0, <1>1, <2>1, <3>2 DEF Created
      <4> QED
        BY <1>4, <1>5, <3>2, <4>1 DEF Structure, BipsInOrder, EndOf
    <3> QED
      BY <3>1, <3>2
  <2> QED
    BY <2>3 DEF BipsInOrder
<1>8. FramesInOrder'
  <2>1. ~bips[b].executed
    <3>1. ~Created(b)
      BY <1>0, <1>1, BoundAssumption DEF Created, BipId
    <3> QED
      BY <1>1, <3>1 DEF Structure, BipsInOrder, NoBip
  <2> SUFFICES ASSUME NEW i \in DOMAIN frames
               PROVE  bips'[frames[i].bip].executed
    BY <1>5 DEF FramesInOrder
  <2>2. frames[i].bip \in BipId /\ bips[frames[i].bip].executed
    BY <1>3, IdsInOrder DEF Structure, FramesInOrder
  <2> QED
    BY <1>4, <2>1, <2>2
<1>9. TotalExact'
  BY <1>5 DEF Structure, TotalExact, RootsOf
<1>10. ActiveListExact'
  <2>1. \A c \in BipId \ {b} : /\ IsNominated(c)' <=> IsNominated(c)
                               /\ IsActive(c)' <=> IsActive(c)
    BY <1>4, <1>5 DEF IsNominated, IsActive, EndOf
  <2>2. IsNominated(b)'
    <3>1. season > 0
      BY <1>3, BoundAssumption DEF TypeOK
    <3> QED
      BY <1>2, <1>4, <3>1 DEF IsNominated
  <2> QED
    BY <1>1, <1>3, <2>1, <2>2 DEF Structure, ActiveListExact
<1> QED
  BY <1>6, <1>7, <1>8, <1>9, <1>10 DEF Structure

LEMMA ProposeSafety ==
  ASSUME Structure, Safety, NEW a \in Account, NEW p \in Payloads, Propose(a, p)
  PROVE  Safety'
<1> DEFINE n == NewBip(a, p)
<1>0. PICK b \in BipId : b = bipIndex
  BY ProposeStep
<1>1. /\ b \in BipId /\ b \notin Listed /\ n \in Bip
      /\ bips' = [bips EXCEPT ![b] = n]
      /\ voted' = [voted EXCEPT ![b] = {a}]
      /\ Listed' = Listed \cup {b}
      /\ proposedUntil' = [proposedUntil EXCEPT ![a] = season + Period]
      /\ UNCHANGED <<siloVars, seasonVars, pauseVars, execVars>>
  BY <1>0, ProposeStep
<1>2. n.start = season /\ n.proposer = a /\ ~n.executed /\ n.roots = roots[a]
  BY DEF NewBip
<1> HIDE DEF n
<1>3. TypeOK /\ Structure' /\ Listed \subseteq BipId
  BY ProposeStructure, IdsInOrder DEF Structure
<1>4. /\ bips'[b] = n /\ voted'[b] = {a}
      /\ \A c \in BipId \ {b} : bips'[c] = bips[c] /\ voted'[c] = voted[c]
  BY <1>1, <1>3 DEF TypeOK
<1>5. roots' = roots /\ totalRoots' = totalRoots /\ roots[a] \in Nat
  BY <1>1, <1>3, BoundAssumption DEF siloVars, TypeOK
<1>6. PICK lock \in 0..MaxSeason :
        /\ lock >= votedUntil[a] /\ lock >= season + Period
        /\ votedUntil' = [votedUntil EXCEPT ![a] = lock]
  BY ProposeStep
<1>7. \A c \in Listed : /\ c # b /\ bips'[c] = bips[c] /\ voted'[c] = voted[c]
                        /\ EndOf(c)' = EndOf(c) /\ EndOf(c) \in Nat
  <2> TAKE c \in Listed
  <2>1. c \in BipId /\ c # b /\ bips'[c] = bips[c] /\ voted'[c] = voted[c]
        /\ bips[c] \in Bip
    BY <1>1, <1>3, <1>4 DEF TypeOK
  <2> QED
    BY <2>1, TermAssumption DEF EndOf, Bip
<1>8. EndOf(b)' = season + Period /\ season + Period \in Nat
  BY <1>2, <1>3, <1>4, TermAssumption, BoundAssumption DEF EndOf, TypeOK
<1>9. TallyExact'
  <2>1. Cardinality(Units({a}, roots)) = roots[a]
    <3>1. Cardinality(Units({a}, roots)) = Cardinality(Units({a} \ {a}, roots)) + roots[a]
      BY <1>3, UnitsSplit DEF TypeOK
    <3>2. Units({a} \ {a}, roots) = {}
      BY DEF Units
    <3>3. Cardinality(Units({a} \ {a}, roots)) = 0
      BY <3>2, FS_EmptySet
    <3> QED
      BY <1>5, <3>1, <3>3
  <2>2. bips'[b].roots = RootsOf(voted[b])'
    BY <1>2, <1>4, <1>5, <2>1 DEF RootsOf
  <2>3. \A c \in Listed : bips'[c].roots = RootsOf(voted[c])'
    BY <1>5, <1>7 DEF Safety, TallyExact, RootsOf
  <2> QED
    BY <1>1, <2>2, <2>3 DEF TallyExact
<1>10. VotersLocked'
  <2>1. votedUntil \in [Account -> 0..MaxSeason]
    BY <1>3 DEF TypeOK
  <2>2. votedUntil'[a] >= EndOf(b)'
    BY <1>6, <1>8, <2>1
  <2>3. ASSUME NEW c \in Listed, NEW d \in voted'[c]
        PROVE  votedUntil'[d] >= EndOf(c)'
    <3>1. d \in voted[c] /\ d \in Account /\ votedUntil[d] >= EndOf(c)
      BY <1>3, <1>7, <2>3 DEF Safety, VotersLocked, TypeOK
    <3>2. votedUntil'[d] >= votedUntil[d] /\ votedUntil'[d] \in Nat /\ votedUntil[d] \in Nat
      BY <1>6, <2>1, <3>1, BoundAssumption
    <3> QED
      BY <1>7, <3>1, <3>2
  <2> QED
    BY <1>1, <1>4, <2>2, <2>3 DEF VotersLocked
<1>11. ProposerCommitted'
  <2>1. proposedUntil \in [Account -> 0..MaxSeason]
    BY <1>3 DEF TypeOK
  <2>2. \A c \in Listed : EndOf(c) <= season + Period
    <3> TAKE c \in Listed
    <3>1. c \in BipId /\ Created(c) /\ bips[c] \in Bip
      BY <1>3, NominatedInOrder DEF Structure, ActiveListExact, TypeOK
    <3>2. bips[c].start \in 1..season /\ season \in Nat
      BY <1>3, <3>1, BoundAssumption DEF Structure, BipsInOrder, TypeOK
    <3> QED
      BY <3>2, TermAssumption DEF EndOf
  <2>3. ASSUME NEW c \in Listed
        PROVE  /\ bips'[c].proposer \in voted'[c]
               /\ proposedUntil'[bips'[c].proposer] >= EndOf(c)'
    <3>1. /\ bips[c].proposer \in voted[c]
          /\ proposedUntil[bips[c].proposer] >= EndOf(c)
      BY DEF Safety, ProposerCommitted
    <3>2. bips[c].proposer \in Account
      BY <1>3, <3>1 DEF TypeOK
    <3> QED
      BY <1>1, <1>7, <1>8, <2>1, <2>2, <3>1, <3>2
  <2>4. a \in voted'[b] /\ proposedUntil'[a] >= EndOf(b)'
    BY <1>1, <1>4, <1>8, <2>1
  <2> QED
    BY <1>1, <1>2, <1>4, <2>3, <2>4 DEF ProposerCommitted
<1>12. TallyBounded'
  <2>1. ListedBounded'
    BY <1>3, <1>9, ExactIsBounded, PTL
  <2>2. \A c \in BipId : c \notin Listed' => bips'[c].roots <= bips'[c].endTotalRoots
    BY <1>1, <1>4 DEF Safety, TallyBounded
  <2> QED
    BY <2>1, <2>2 DEF TallyBounded, ListedBounded
<1>13. ExecutedHadMajority'
  BY <1>2, <1>4 DEF Safety, ExecutedHadMajority
<1> QED
  BY <1>9, <1>10, <1>11, <1>12, <1>13 DEF Safety

-----------------------------------------------------------------------------
(* The invariant.                                                          *)

LEMMA InitInv == Init => IndInv
<1> SUFFICES ASSUME Init PROVE IndInv
  OBVIOUS
<1>1. /\ activeBips = <<>> /\ bipIndex = 0 /\ frames = <<>>
      /\ bips = [b \in BipId |-> NoBip] /\ voted = [b \in BipId |-> {}]
  BY DEF Init
<1>2. NoBip \in Bip
  BY DEF NoBip, Bip, EmptyPayload, Payload
<1>3. Listed = {} /\ \A b \in BipId : ~Created(b)
  BY <1>1, BoundAssumption DEF Listed, Range, Created, BipId
<1>4. totalRoots \in Nat /\ TotalExact
  BY UnitsFinite DEF Init, TotalExact, RootsOf
<1>5. TypeOK
  <2>1. activeBips \in Seq(BipId) /\ bipIndex \in 0..MaxBips /\ frames \in Seq(Frame)
    BY <1>1, BoundAssumption
  <2>2. bips \in [BipId -> Bip] /\ voted \in [BipId -> SUBSET Account]
    BY <1>1, <1>2
  <2>3. /\ votedUntil \in [Account -> 0..MaxSeason]
        /\ proposedUntil \in [Account -> 0..MaxSeason]
    BY BoundAssumption DEF Init
  <2>4. roots \in [Account -> 0..MaxRoots] /\ season \in 1..MaxSeason
    BY BoundAssumption DEF Init
  <2>5. now \in 0..MaxTime /\ seasonStart \in Nat /\ pausedAt \in 0..MaxTime
    BY BoundAssumption DEF Init
  <2>6. paused \in BOOLEAN /\ oracleInitialized \in BOOLEAN
    BY Zenon DEF Init
  <2>7. diamond \in Seq(BipId)
    BY DEF Init
  <2>8. rewards \in [BipId -> Seq(Nat)]
    <3>1. <<>> \in Seq(Nat)
      OBVIOUS
    <3> QED
      BY <3>1 DEF Init
  <2> QED
    BY <1>4, <2>1, <2>2, <2>3, <2>4, <2>5, <2>6, <2>7, <2>8 DEF TypeOK
<1>6. BipsInOrder
  BY <1>1, <1>3 DEF BipsInOrder
<1>7. FramesInOrder
  BY <1>1 DEF FramesInOrder
<1>8. ActiveListExact
  BY <1>1, <1>3 DEF ActiveListExact, IsNominated, NoBip
<1>9. Safety
  BY <1>1, <1>3 DEF Safety, TallyExact, VotersLocked, ProposerCommitted, TallyBounded,
                    ExecutedHadMajority, NoBip
<1> QED
  BY <1>4, <1>5, <1>6, <1>7, <1>8, <1>9 DEF IndInv, Structure, Safety

(* Executing is an ending step: what commit, emergencyCommit and           *)
(* pauseOrUnpause require is what the majority invariant needs.            *)
LEMMA ExecuteOperations ==
  ASSUME Structure, Settled, NEW b \in BipId,
         Commit(b) \/ EmergencyCommit(b) \/ PauseOrUnpause(b)
  PROVE  EndingStep(b)
<1>1. CASE Commit(b)
  <2>1. b \notin Listed
    BY <1>1 DEF Commit, Settled
  <2> QED
    BY <1>1, <2>1, ExecuteStep DEF Commit
<1>2. CASE EmergencyCommit(b)
  BY <1>2, ExecuteStep DEF EmergencyCommit
<1>3. CASE PauseOrUnpause(b)
  BY <1>3, ExecuteStep DEF PauseOrUnpause
<1> QED
  BY <1>1, <1>2, <1>3

LEMMA NextInv == IndInv /\ [Next]_vars => IndInv'
<1> SUFFICES ASSUME Structure, Safety, [Next]_vars
             PROVE  Structure' /\ Safety'
  BY DEF IndInv, Safety
<1>1. CASE \E b \in BipId : EndTerm(b)
  BY <1>1, EndTermStep, EndingStructure, EndingSafety
<1>2. ASSUME NEW a \in Account, NEW p \in Payloads, Propose(a, p)
      PROVE  Structure' /\ Safety'
  BY <1>2, ProposeStructure, ProposeSafety
<1>3. ASSUME NEW a \in Account, NEW b \in BipId, Vote(a, b) \/ Unvote(a, b)
      PROVE  Structure' /\ Safety'
  <2>1. VotingStep(a, {b})
    BY <1>3, VotingOperations
  <2> QED
    BY <2>1, VotingStructure, VotingSafety
<1>4. ASSUME NEW a \in Account, NEW B \in SUBSET BipId,
             VoteAll(a, B) \/ UnvoteAll(a, B) \/ VoteUnvoteAll(a, B)
      PROVE  Structure' /\ Safety'
  <2>1. VotingStep(a, B)
    BY <1>4, VotingOperations
  <2> QED
    BY <2>1, VotingStructure, VotingSafety
<1>5. ASSUME NEW a \in Account, OwnerPause(a) \/ OwnerUnpause(a)
      PROVE  Structure' /\ Safety'
  BY <1>5, StillOperations, StillStructure, StillSafety
<1>6. ASSUME NEW a \in Account, NEW n \in 1..MaxRoots, Settled,
             SiloDeposit(a, n) \/ SiloWithdraw(a, n)
      PROVE  Structure' /\ Safety'
  <2>1. PICK r \in 0..MaxRoots : SiloStep(a, r)
    BY <1>6, SiloOperations
  <2> QED
    BY <2>1, SiloStructure, SiloSafety
<1>7. ASSUME NEW b \in BipId, Settled,
             Commit(b) \/ EmergencyCommit(b) \/ PauseOrUnpause(b)
      PROVE  Structure' /\ Safety'
  BY <1>7, ExecuteOperations, EndingStructure, EndingSafety
<1>8. CASE InitReturns \/ Sunrise \/ Tick
  BY <1>8, StillOperations, StillStructure, StillSafety
<1>9. CASE UNCHANGED vars
  <2>1. UNCHANGED <<activeBips, bipIndex, bips, voted, votedUntil, proposedUntil, roots,
                    totalRoots, season, now, seasonStart, paused, pausedAt,
                    oracleInitialized, frames, diamond, rewards>>
    BY <1>9 DEF vars, bipVars, lockVars, siloVars, seasonVars, pauseVars, execVars
  <2>2. StillStep
    BY <2>1, BoundAssumption
    DEF StillStep, bipVars, lockVars, siloVars, PauseTypes, Structure, TypeOK
  <2> QED
    BY <2>2, StillStructure, StillSafety
<1> QED
  BY <1>1, <1>2, <1>3, <1>4, <1>5, <1>6, <1>7, <1>8, <1>9 DEF Next

(* IndInv holds in every reachable state of Governance, for any accounts   *)
(* and payloads, any thresholds and any lengths of terms.                  *)
THEOREM Invariance == Spec => []IndInv
BY InitInv, NextInv, PTL DEF Spec

(* Every variable keeps its type; in particular no sum of seasons          *)
(* overflows and no tally goes below zero.                                 *)
THEOREM TypeCorrect == Spec => []TypeOK
<1>1. IndInv => TypeOK
  BY DEF IndInv, Structure
<1> QED
  BY <1>1, Invariance, PTL

(* The active list is exact: endBip loses and repeats nothing.             *)
THEOREM ListIsExact == Spec => []ActiveListExact
<1>1. IndInv => ActiveListExact
  BY DEF IndInv, Structure
<1> QED
  BY <1>1, Invariance, PTL

(* The running tally of a listed BIP is the sum of its voters' roots.      *)
THEOREM TallyIsExact == Spec => []TallyExact
<1>1. IndInv => TallyExact
  BY DEF IndInv
<1> QED
  BY <1>1, Invariance, PTL

(* No voter of a listed BIP is unlocked before the BIP's term is over.     *)
THEOREM VotersStayLocked == Spec => []VotersLocked
<1>1. IndInv => VotersLocked
  BY DEF IndInv
<1> QED
  BY <1>1, Invariance, PTL

(* No proposer takes back its vote or its lock.                            *)
THEOREM ProposersStayCommitted == Spec => []ProposerCommitted
<1>1. IndInv => ProposerCommitted
  BY DEF IndInv
<1> QED
  BY <1>1, Invariance, PTL

(* No vote share exceeds one, running or frozen.                           *)
THEOREM TalliesAreBounded == Spec => []TallyBounded
<1>1. IndInv => TallyBounded
  BY DEF IndInv
<1> QED
  BY <1>1, Invariance, PTL

(* Whatever executes, has the majority it needs, for ever.                 *)
THEOREM MajoritiesLast == Spec => []ExecutedHadMajority
<1>1. IndInv => ExecutedHadMajority
  BY DEF IndInv
<1> QED
  BY <1>1, Invariance, PTL
=============================================================================
