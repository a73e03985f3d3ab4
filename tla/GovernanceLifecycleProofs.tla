---------------------- MODULE GovernanceLifecycleProofs ----------------------
(***************************************************************************)
(* What becomes of BIPs, for any accounts, thresholds and terms.           *)
(* Governance implements BipLifecycle: the proof takes the kinds of steps  *)
(* of GovernanceProofs one by one and says how each moves the life of      *)
(* every BIP.  Executions cut and pay once, never early, and a pause keeps *)
(* the oracle out of use.                                                  *)
(***************************************************************************)
EXTENDS GovernanceProofs

\* The sunrise ends a term in the season in which it is over.
TermsInTime == \A b \in Listed : season <= EndOf(b)

\* What the refinement needs of the reachable states.
LifeInv == IndInv /\ TermsInTime

-----------------------------------------------------------------------------
(* Terms end in time.                                                      *)

LEMMA NextKind ==
  ASSUME IndInv, Next
  PROVE  \/ \E a, B : VotingStep(a, B)
         \/ \E a, r : SiloStep(a, r)
         \/ \E b \in BipId : EndTerm(b)
         \/ \E b \in BipId : Settled /\ (Commit(b) \/ EmergencyCommit(b) \/ PauseOrUnpause(b))
         \/ \E a \in Account : \E p \in Payloads : Propose(a, p)
         \/ StillStep /\ (UNCHANGED season \/ (Settled /\ Sunrise))
<1>1. Structure /\ Safety
  BY DEF IndInv, Safety
<1>2. ASSUME NEW a \in Account, NEW b \in BipId, Vote(a, b) \/ Unvote(a, b)
      PROVE  \E B : VotingStep(a, B)
  BY <1>1, <1>2, VotingOperations
<1>3. ASSUME NEW a \in Account, NEW B \in SUBSET BipId,
             VoteAll(a, B) \/ UnvoteAll(a, B) \/ VoteUnvoteAll(a, B)
      PROVE  VotingStep(a, B)
  BY <1>1, <1>3, VotingOperations
<1>4. ASSUME NEW a \in Account, NEW n \in 1..MaxRoots, Settled,
             SiloDeposit(a, n) \/ SiloWithdraw(a, n)
      PROVE  \E r : SiloStep(a, r)
  BY <1>1, <1>4, SiloOperations
<1>5. ASSUME NEW a \in Account, OwnerPause(a) \/ OwnerUnpause(a)
      PROVE  StillStep /\ UNCHANGED season
  BY <1>1, <1>5, StillOperations DEF OwnerPause, OwnerUnpause, seasonVars
<1>6. ASSUME InitReturns \/ Tick PROVE StillStep /\ UNCHANGED season
  BY <1>1, <1>6, StillOperations DEF InitReturns, Tick, seasonVars
<1>7. ASSUME Sunrise PROVE StillStep
  BY <1>1, <1>7, StillOperations
<1> QED
  BY <1>2, <1>3, <1>4, <1>5, <1>6, <1>7 DEF Next

LEMMA EndingKind ==
  ASSUME IndInv, NEW b \in BipId,
         \/ EndTerm(b)
         \/ Settled /\ (Commit(b) \/ EmergencyCommit(b) \/ PauseOrUnpause(b))
  PROVE  /\ EndingStep(b) /\ ~bips[b].executed
         /\ b \notin Listed => bips'[b].executed /\ ~IsExpired(b)
<1>1. Structure /\ bips \in [BipId -> Bip]
  BY DEF IndInv, Structure, TypeOK
<1>2. CASE EndTerm(b)
  BY <1>1, <1>2, EndTermStep DEF EndTerm, Structure, ActiveListExact, IsNominated
<1>3. CASE Settled /\ Commit(b)
  <2>1. EndingStep(b) /\ ~bips[b].executed /\ ~IsExpired(b)
    BY <1>1, <1>3, ExecuteOperations DEF Commit, IsNominated
  <2>2. bips' = [bips EXCEPT ![b].executed = TRUE]
    BY <1>3 DEF Commit, Execute, MarkExecuted
  <2>3. bips'[b].executed
    BY <1>1, <2>2 DEF Bip
  <2> QED
    BY <2>1, <2>3
<1>4. CASE Settled /\ (EmergencyCommit(b) \/ PauseOrUnpause(b))
  <2>1. EndingStep(b) /\ ~bips[b].executed
    BY <1>1, <1>4, ExecuteOperations DEF EmergencyCommit, PauseOrUnpause, IsNominated
  <2>2. b \in Listed
    BY <1>1, <1>4 DEF EmergencyCommit, PauseOrUnpause, Structure, ActiveListExact
  <2> QED
    BY <2>1, <2>2
<1> QED
  BY <1>2, <1>3, <1>4

LEMMA ListedEnds ==
  ASSUME Structure, NEW b \in Listed
  PROVE  b \in BipId /\ Created(b) /\ ~bips[b].executed /\ EndOf(b) \in Nat /\ season \in Nat
<1>1. b \in BipId /\ IsNominated(b) /\ season \in Nat
  BY IdsInOrder, BoundAssumption DEF Structure, ActiveListExact, TypeOK
<1>2. Created(b) /\ EndOf(b) \in 0..MaxSeason
  BY <1>1, NominatedInOrder
<1> QED
  BY <1>1, <1>2, BoundAssumption DEF IsNominated

LEMMA LifeInit == Init => LifeInv
<1> SUFFICES ASSUME Init PROVE TermsInTime
  BY InitInv DEF LifeInv
<1>1. Listed = {}
  BY DEF Init, Listed, Range
<1> QED
  BY <1>1 DEF TermsInTime

LEMMA LifeStep == LifeInv /\ [Next]_vars => LifeInv'
<1> SUFFICES ASSUME LifeInv, [Next]_vars PROVE TermsInTime'
  BY NextInv DEF LifeInv
<1>1. IndInv /\ Structure /\ TypeOK /\ TermsInTime
  BY DEF LifeInv, IndInv, Structure
<1>2. ASSUME Listed' \subseteq Listed, season' = season,
             \A b \in Listed' : bips'[b].start = bips[b].start
      PROVE  TermsInTime'
  BY <1>1, <1>2 DEF TermsInTime, EndOf
<1>3. CASE UNCHANGED vars
  BY <1>2, <1>3 DEF vars, bipVars, seasonVars, Listed
<1>4. ASSUME NEW a, NEW B, VotingStep(a, B) PROVE TermsInTime'
  <2>1. Listed' = Listed /\ season' = season
    BY <1>4 DEF VotingStep, Listed, seasonVars
  <2>2. \A b \in Listed : bips'[b].start = bips[b].start
    BY <1>1, <1>4, VotingBips, IdsInOrder
  <2> QED
    BY <1>2, <2>1, <2>2
<1>5. ASSUME NEW a, NEW r, SiloStep(a, r) PROVE TermsInTime'
  <2>1. Listed' = Listed /\ season' = season
    BY <1>5 DEF SiloStep, Listed, seasonVars
  <2>2. ASSUME NEW b \in Listed PROVE bips'[b].start = bips[b].start
    <3>1. b \in BipId /\ bips[b] \in Bip
      BY <1>1, IdsInOrder DEF TypeOK
    <3> QED
      BY <1>5, <3>1 DEF SiloStep, Bip
  <2> QED
    BY <1>2, <2>1, <2>2
<1>6. ASSUME NEW b \in BipId, EndingStep(b) PROVE TermsInTime'
  <2>1. Listed' = Listed \ {b} /\ season' = season
    BY <1>6 DEF EndingStep, seasonVars
  <2>2. \A c \in Listed' : bips'[c] = bips[c]
    BY <1>1, <1>6, <2>1, IdsInOrder DEF EndingStep
  <2> QED
    BY <1>2, <2>1, <2>2
<1>7. ASSUME NEW a \in Account, NEW p \in Payloads, Propose(a, p) PROVE TermsInTime'
  <2>0. PICK n \in BipId : n = bipIndex
    BY <1>1, <1>7, ProposeStep
  <2>1. /\ n \notin Listed /\ bips' = [bips EXCEPT ![n] = NewBip(a, p)]
        /\ Listed' = Listed \cup {n} /\ season' = season
    BY <1>1, <1>7, <2>0, ProposeStep DEF seasonVars
  <2>2. bips'[n].start = season /\ season \in Nat
    BY <1>1, <2>1, BoundAssumption DEF TypeOK, NewBip
  <2>3. \A b \in Listed : b \in BipId /\ bips'[b] = bips[b]
    BY <1>1, <2>1, IdsInOrder DEF TypeOK
  <2> QED
    BY <1>1, <2>1, <2>2, <2>3, TermAssumption DEF TermsInTime, EndOf
<1>8. CASE StillStep /\ UNCHANGED season
  BY <1>2, <1>8 DEF StillStep, bipVars, Listed
<1>9. CASE StillStep /\ Settled /\ Sunrise
  <2>1. Listed' = Listed /\ bips' = bips /\ season' = season + 1
    BY <1>9 DEF StillStep, Sunrise, bipVars, Listed
  <2>2. \A b \in Listed : season < EndOf(b) /\ EndOf(b) \in Nat /\ season \in Nat
    BY <1>1, <1>9, ListedEnds DEF Settled, IsActive
  <2> QED
    BY <2>1, <2>2 DEF TermsInTime, EndOf
<1> QED
  BY <1>1, <1>3, <1>4, <1>5, <1>6, <1>7, <1>8, <1>9, NextKind, EndingKind

-----------------------------------------------------------------------------
(* The life of one BIP.                                                    *)

\* What the phase of b depends on stays.
Same(b) ==
  /\ Created(b)' = Created(b)
  /\ (b \in Listed)' = (b \in Listed)
  /\ bips'[b].executed = bips[b].executed
  /\ bips'[b].start = bips[b].start

LEMMA SamePhase ==
  ASSUME NEW b, Same(b), season' = season
  PROVE  PhaseOf(b)' = PhaseOf(b)
BY DEF Same, PhaseOf, IsExpired, EndOf, Created

LEMMA Moves ==
  ASSUME NEW b \in BipId,
         \/ /\ PhaseOf(b)' = PhaseOf(b) \/ (PhaseOf(b) = "closed" /\ PhaseOf(b)' = "expired")
            /\ bips'[b].roots = bips[b].roots
            /\ bips'[b].endTotalRoots = bips[b].endTotalRoots
         \/ /\ PhaseOf(b) = "open" /\ PhaseOf(b)' = "open"
            /\ bips'[b].roots >= 0
            /\ bips'[b].endTotalRoots = bips[b].endTotalRoots
         \/ /\ PhaseOf(b) = "none" /\ PhaseOf(b)' = "open"
            /\ bips'[b].roots > 0
            /\ bips'[b].endTotalRoots = bips[b].endTotalRoots
         \/ /\ PhaseOf(b) = "open" /\ PhaseOf(b)' = "closed"
            /\ bips'[b].roots = bips[b].roots
            /\ bips'[b].endTotalRoots >= bips[b].roots
         \/ /\ PhaseOf(b) \in {"open", "closed"} /\ PhaseOf(b)' = "adopted"
            /\ bips'[b].roots = bips[b].roots
            /\ PhaseOf(b) = "closed" => bips'[b].endTotalRoots = bips[b].endTotalRoots
            /\ bips'[b].endTotalRoots >= bips[b].roots
            /\ bips[b].roots * Base >= bips'[b].endTotalRoots * PassThreshold
  PROVE  Lifecycle!Step(b)
BY DEF Lifecycle!Step, Lifecycle!Stay, Lifecycle!Open, Lifecycle!Count, Lifecycle!Close,
       Lifecycle!Adopt, Lifecycle!Expire

LEMMA VotingMoves ==
  ASSUME LifeInv, NEW a, NEW B, VotingStep(a, B), NEW b \in BipId
  PROVE  Lifecycle!Step(b)
<1>1. Structure /\ TypeOK
  BY DEF LifeInv, IndInv, Structure
<1>2. /\ bips'[b] \in Bip /\ bips'[b].start = bips[b].start
      /\ bips'[b].executed = bips[b].executed
      /\ bips'[b].endTotalRoots = bips[b].endTotalRoots
      /\ b \notin B => bips'[b] = bips[b]
  BY <1>1, VotingBips
<1>3. Listed' = Listed /\ bipIndex' = bipIndex /\ season' = season
  BY DEF VotingStep, Listed, seasonVars
<1>4. PhaseOf(b)' = PhaseOf(b)
  <2>1. Same(b)
    BY <1>2, <1>3 DEF Same, Created
  <2> QED
    BY <1>3, <2>1, SamePhase
<1>5. CASE b \notin B
  BY <1>2, <1>4, <1>5, Moves
<1>6. CASE b \in B
  <2>1. b \in Listed
    BY <1>1, <1>6 DEF VotingStep, CanVoteOn, Structure, ActiveListExact
  <2>2. PhaseOf(b) = "open"
    BY <1>1, <2>1, ListedEnds DEF PhaseOf
  <2>3. bips'[b].roots >= 0
    BY <1>2 DEF Bip
  <2> QED
    BY <1>2, <1>4, <2>2, <2>3, Moves
<1> QED
  BY <1>5, <1>6

LEMMA SiloMoves ==
  ASSUME LifeInv, NEW a, NEW r, SiloStep(a, r), NEW b \in BipId
  PROVE  Lifecycle!Step(b)
<1>1. Structure /\ TypeOK /\ bips[b] \in Bip /\ bips'[b] \in Bip
  BY DEF LifeInv, IndInv, Structure, TypeOK, SiloStep
<1>2. Listed' = Listed /\ bipIndex' = bipIndex /\ season' = season
  BY DEF SiloStep, Listed, seasonVars
<1>3. /\ bips'[b].start = bips[b].start /\ bips'[b].executed = bips[b].executed
      /\ bips'[b].endTotalRoots = bips[b].endTotalRoots
      /\ b \notin Listed => bips'[b] = bips[b]
  BY <1>1 DEF SiloStep, Bip
<1>4. PhaseOf(b)' = PhaseOf(b)
  <2>1. Same(b)
    BY <1>2, <1>3 DEF Same, Created
  <2> QED
    BY <1>2, <2>1, SamePhase
<1>5. CASE b \notin Listed
  BY <1>3, <1>4, <1>5, Moves
<1>6. CASE b \in Listed
  <2>1. PhaseOf(b) = "open"
    BY <1>1, <1>6, ListedEnds DEF PhaseOf
  <2>2. bips'[b].roots >= 0
    BY <1>1 DEF Bip
  <2> QED
    BY <1>3, <1>4, <2>1, <2>2, Moves
<1> QED
  BY <1>5, <1>6

LEMMA EndingMoves ==
  ASSUME LifeInv, NEW c \in BipId, EndingStep(c), ~bips[c].executed,
         c \notin Listed => bips'[c].executed /\ ~IsExpired(c),
         NEW b \in BipId
  PROVE  Lifecycle!Step(b)
<1>1. Structure /\ TypeOK /\ bips[b] \in Bip /\ bips'[b] \in Bip
  BY DEF LifeInv, IndInv, Structure, TypeOK, EndingStep
<1>2. /\ Listed' = Listed \ {c} /\ bipIndex' = bipIndex /\ season' = season
      /\ totalRoots' = totalRoots /\ Created(c)
  BY DEF EndingStep, seasonVars, siloVars
<1>3. CASE b # c
  <2>1. bips'[b] = bips[b]
    BY <1>3 DEF EndingStep
  <2>2. Same(b)
    BY <1>2, <1>3, <2>1 DEF Same, Created
  <2> QED
    BY <1>2, <2>1, <2>2, SamePhase, Moves
<1>4. CASE b = c
  <2>1. /\ bips'[b].roots = bips[b].roots /\ bips'[b].start = bips[b].start
        /\ bips'[b].executed => bips'[b].roots * Base >= bips'[b].endTotalRoots * PassThreshold
        /\ IF b \in Listed THEN bips'[b].endTotalRoots = totalRoots
                           ELSE bips'[b].endTotalRoots = bips[b].endTotalRoots
    BY <1>4 DEF EndingStep
  <2>2. bips'[b].endTotalRoots >= bips[b].roots
    <3>1. bips[b].roots <= IF b \in Listed THEN totalRoots ELSE bips[b].endTotalRoots
      BY DEF LifeInv, IndInv, TallyBounded
    <3>2. bips[b].roots \in Nat /\ bips[b].endTotalRoots \in Nat /\ totalRoots \in Nat
      BY <1>1 DEF Bip, TypeOK
    <3> QED
      BY <2>1, <3>1, <3>2
  <2>3. Created(b)' /\ b \notin Listed'
    BY <1>2, <1>4 DEF Created
  <2>4. CASE bips'[b].executed
    <3>1. PhaseOf(b)' = "adopted"
      BY <2>3, <2>4 DEF PhaseOf
    <3>2. PhaseOf(b) = IF b \in Listed THEN "open" ELSE "closed"
      BY <1>2, <1>4 DEF PhaseOf
    <3> QED
      BY <2>1, <2>2, <2>4, <3>1, <3>2, Moves
  <2>5. CASE ~bips'[b].executed
    <3>1. b \in Listed /\ PhaseOf(b) = "open"
      BY <1>2, <1>4, <2>5 DEF PhaseOf
    <3>2. ~IsExpired(b)'
      <4>1. season <= EndOf(b) /\ EndOf(b) \in Nat /\ season \in Nat
        BY <1>1, <3>1, ListedEnds DEF LifeInv, TermsInTime
      <4>2. EndOf(b)' = EndOf(b)
        BY <2>1 DEF EndOf
      <4> QED
        BY <1>2, <4>1, <4>2, TermAssumption DEF IsExpired
    <3>3. PhaseOf(b)' = "closed"
      BY <2>3, <2>5, <3>2 DEF PhaseOf
    <3> QED
      BY <2>1, <2>2, <3>1, <3>3, Moves
  <2> QED
    BY <2>4, <2>5
<1> QED
  BY <1>3, <1>4

LEMMA ProposeMoves ==
  ASSUME LifeInv, NEW a \in Account, NEW p \in Payloads, Propose(a, p), NEW b \in BipId
  PROVE  Lifecycle!Step(b)
<1>1. Structure /\ TypeOK
  BY DEF LifeInv, IndInv, Structure
<1>2. PICK n \in BipId : n = bipIndex
  BY <1>1, ProposeStep
<1>3. /\ n \notin Listed /\ bips' = [bips EXCEPT ![n] = NewBip(a, p)]
      /\ Listed' = Listed \cup {n} /\ season' = season /\ bipIndex' = n + 1
  BY <1>1, <1>2, ProposeStep DEF seasonVars
<1>4. n \in Nat /\ b \in Nat /\ bips \in [BipId -> Bip]
  BY <1>1, BoundAssumption DEF BipId, TypeOK
<1>5. CASE b = n
  <2>1. bips'[b] = NewBip(a, p) /\ roots[a] > 0
    BY <1>3, <1>4, <1>5 DEF Propose, CanPropose
  <2>2. bips'[b].roots > 0 /\ bips'[b].endTotalRoots = 0
    BY <2>1 DEF NewBip
  <2>3. ~Created(b) /\ Created(b)'
    BY <1>2, <1>3, <1>4, <1>5 DEF Created
  <2>4. bips[b].endTotalRoots = 0
    BY <1>1, <2>3 DEF Structure, BipsInOrder, NoBip
  <2>5. PhaseOf(b) = "none" /\ PhaseOf(b)' = "open"
    BY <1>3, <1>5, <2>3 DEF PhaseOf
  <2> QED
    BY <2>2, <2>4, <2>5, Moves
<1>6. CASE b # n
  <2>1. bips'[b] = bips[b]
    BY <1>3, <1>4, <1>6
  <2>2. Same(b)
    BY <1>2, <1>3, <1>4, <1>6, <2>1 DEF Same, Created
  <2> QED
    BY <1>3, <2>1, <2>2, SamePhase, Moves
<1> QED
  BY <1>5, <1>6

LEMMA StillMoves ==
  ASSUME LifeInv, StillStep, NEW b \in BipId
  PROVE  Lifecycle!Step(b)
<1>1. TypeOK /\ bips[b] \in Bip
  BY DEF LifeInv, IndInv, Structure, TypeOK
<1>2. Listed' = Listed /\ bipIndex' = bipIndex /\ bips' = bips /\ season' \in season..MaxSeason
  BY DEF StillStep, bipVars, Listed
<1>3. season' >= season /\ season \in Nat /\ season' \in Nat /\ EndOf(b) \in Nat
  BY <1>1, <1>2, BoundAssumption, TermAssumption DEF TypeOK, EndOf, Bip
<1>4. IsExpired(b) => IsExpired(b)'
  BY <1>2, <1>3, TermAssumption DEF IsExpired, EndOf
<1>5. PhaseOf(b)' = PhaseOf(b) \/ (PhaseOf(b) = "closed" /\ PhaseOf(b)' = "expired")
  BY <1>2, <1>4 DEF PhaseOf, Created
<1> QED
  BY <1>2, <1>5, Moves

-----------------------------------------------------------------------------
(* The refinement.                                                         *)

LEMMA LifecycleInit == Init => Lifecycle!Init
<1> SUFFICES ASSUME Init PROVE Lifecycle!Init
  OBVIOUS
<1>1. bips = [b \in BipId |-> NoBip] /\ bipIndex = 0
  BY DEF Init
<1>2. ASSUME NEW b \in BipId
      PROVE  PhaseOf(b) = "none" /\ bips[b].roots = 0 /\ bips[b].endTotalRoots = 0
  BY <1>1, BoundAssumption DEF PhaseOf, Created, BipId, NoBip
<1> QED
  BY <1>2 DEF Lifecycle!Init

LEMMA LifecycleStep == LifeInv /\ [Next]_vars => [Lifecycle!Next]_(Lifecycle!vars)
<1> SUFFICES ASSUME LifeInv, Next PROVE Lifecycle!Next
  <2>1. ASSUME UNCHANGED vars PROVE UNCHANGED Lifecycle!vars
    BY <2>1 DEF vars, bipVars, seasonVars, Lifecycle!vars, PhaseOf, Created, Listed, IsExpired, EndOf
  <2> QED
    BY <2>1
<1> SUFFICES ASSUME NEW b \in BipId PROVE Lifecycle!Step(b)
  BY DEF Lifecycle!Next
<1>1. IndInv
  BY DEF LifeInv
<1> QED
  BY <1>1, NextKind, EndingKind, VotingMoves, SiloMoves, EndingMoves, ProposeMoves, StillMoves

(* Governance implements BipLifecycle: every BIP is opened once, counted   *)
(* while it is open, closed with its tally fixed, and adopted once with    *)
(* the share required or not at all.                                       *)
THEOREM GovernanceImplementsLifecycle == Spec => ImplementsLifecycle
<1>1. Spec => []LifeInv
  BY LifeInit, LifeStep, PTL DEF Spec
<1> QED
  BY <1>1, LifecycleInit, LifecycleStep, PTL DEF Spec, ImplementsLifecycle, Lifecycle!Spec

-----------------------------------------------------------------------------
(* Counting executions that wait and cuts.                                 *)

\* The executions of b that wait for an init contract, and the cuts of b.
Waiting(b) == {i \in DOMAIN frames : frames[i].bip = b}
Cuts(b) == {i \in DOMAIN diamond : diamond[i] = b}

LEMMA CountsAreNumbers ==
  ASSUME TypeOK, NEW b \in BipId
  PROVE  /\ IsFiniteSet(Waiting(b)) /\ Cardinality(Waiting(b)) \in Nat
         /\ IsFiniteSet(Cuts(b)) /\ Cardinality(Cuts(b)) \in Nat
<1>1. /\ DOMAIN frames = 1..Len(frames) /\ Len(frames) \in Int
      /\ DOMAIN diamond = 1..Len(diamond) /\ Len(diamond) \in Int
  BY DEF TypeOK
<1>2. IsFiniteSet(1..Len(frames)) /\ IsFiniteSet(1..Len(diamond))
  BY <1>1, FS_Interval, 1 \in Int
<1>3. Waiting(b) \subseteq 1..Len(frames) /\ Cuts(b) \subseteq 1..Len(diamond)
  BY <1>1 DEF Waiting, Cuts
<1>4. IsFiniteSet(Waiting(b)) /\ IsFiniteSet(Cuts(b))
  BY <1>2, <1>3, FS_Subset
<1> QED
  BY <1>4, FS_CardinalityType

LEMMA WaitingPushed ==
  ASSUME TypeOK, NEW b \in BipId, NEW f \in Frame, frames' = Append(frames, f)
  PROVE  /\ Cardinality(Waiting(b)) \in Nat
         /\ Cardinality(Waiting(b)') = Cardinality(Waiting(b)) + (IF f.bip = b THEN 1 ELSE 0)
<1> DEFINE n == Len(frames)
           T == Waiting(b)
<1>1. /\ frames \in Seq(Frame) /\ n \in Nat /\ DOMAIN frames = 1..n
      /\ DOMAIN frames' = 1..(n + 1)
      /\ \A i \in 1..n : frames'[i] = frames[i]
      /\ frames'[n + 1] = f
  BY AppendProperties DEF TypeOK
<1>2. IsFiniteSet(T) /\ Cardinality(T) \in Nat
  BY CountsAreNumbers
<1>3. CASE f.bip = b
  <2>1. Waiting(b)' = T \cup {n + 1} /\ n + 1 \notin T
    BY <1>1, <1>3 DEF Waiting
  <2> QED
    BY <1>2, <1>3, <2>1, FS_AddElement
<1>4. CASE f.bip # b
  <2>1. Waiting(b)' = T
    BY <1>1, <1>4 DEF Waiting
  <2> QED
    BY <1>2, <1>4, <2>1
<1> QED
  BY <1>2, <1>3, <1>4

LEMMA WaitingPopped ==
  ASSUME TypeOK, NEW b \in BipId, frames # <<>>,
         frames' = SubSeq(frames, 1, Len(frames) - 1)
  PROVE  /\ Cardinality(Waiting(b)') \in Nat
         /\ Cardinality(Waiting(b)) =
              Cardinality(Waiting(b)') + (IF frames[Len(frames)].bip = b THEN 1 ELSE 0)
<1> DEFINE n == Len(frames)
           T == Waiting(b)'
<1>1. /\ frames \in Seq(Frame) /\ n \in Nat /\ n >= 1 /\ DOMAIN frames = 1..n
      /\ DOMAIN frames' = 1..(n - 1)
      /\ \A i \in 1..(n - 1) : frames'[i] = frames[i]
  BY DEF TypeOK
<1>2. IsFiniteSet(T) /\ Cardinality(T) \in Nat
  <2>1. T \subseteq 1..(n - 1) /\ n - 1 \in Int
    BY <1>1 DEF Waiting
  <2>2. IsFiniteSet(1..(n - 1))
    BY <2>1, FS_Interval, 1 \in Int
  <2>3. IsFiniteSet(T)
    BY <2>1, <2>2, FS_Subset
  <2> QED
    BY <2>3, FS_CardinalityType
<1>3. CASE frames[n].bip = b
  <2>1. Waiting(b) = T \cup {n} /\ n \notin T
    BY <1>1, <1>3 DEF Waiting
  <2> QED
    BY <1>2, <1>3, <2>1, FS_AddElement
<1>4. CASE frames[n].bip # b
  <2>1. Waiting(b) = T
    BY <1>1, <1>4 DEF Waiting
  <2> QED
    BY <1>2, <1>4, <2>1
<1> QED
  BY <1>2, <1>3, <1>4

LEMMA CutsAppended ==
  ASSUME TypeOK, NEW b \in BipId, NEW c \in BipId, diamond' = Append(diamond, c)
  PROVE  /\ Cardinality(Cuts(b)) \in Nat
         /\ Cardinality(Cuts(b)') = Cardinality(Cuts(b)) + (IF c = b THEN 1 ELSE 0)
<1> DEFINE n == Len(diamond)
           T == Cuts(b)
<1>1. /\ diamond \in Seq(BipId) /\ n \in Nat /\ DOMAIN diamond = 1..n
      /\ DOMAIN diamond' = 1..(n + 1)
      /\ \A i \in 1..n : diamond'[i] = diamond[i]
      /\ diamond'[n + 1] = c
  BY AppendProperties DEF TypeOK
<1>2. IsFiniteSet(T) /\ Cardinality(T) \in Nat
  BY CountsAreNumbers
<1>3. CASE c = b
  <2>1. Cuts(b)' = T \cup {n + 1} /\ n + 1 \notin T
    BY <1>1, <1>3 DEF Cuts
  <2> QED
    BY <1>2, <1>3, <2>1, FS_AddElement
<1>4. CASE c # b
  <2>1. Cuts(b)' = T
    BY <1>1, <1>4 DEF Cuts
  <2> QED
    BY <1>2, <1>4, <2>1
<1> QED
  BY <1>2, <1>3, <1>4

-----------------------------------------------------------------------------
(* Executions.                                                             *)

\* A BIP b is paid, waits and is cut as often as it is executed.
Once(b) ==
  /\ Len(rewards[b]) + Cardinality(Waiting(b)) = IF bips[b].executed THEN 1 ELSE 0
  /\ Cardinality(Cuts(b)) = IF bips[b].executed /\ ~DiamondCutIsEmpty(b) THEN 1 ELSE 0

LEMMA OnceMeans == ExecutedOnce <=> \A b \in BipId : Once(b)
BY DEF ExecutedOnce, Once, Waiting, Cuts

\* A step that executes nothing and returns from nothing.
LEMMA OnceKept ==
  ASSUME ExecutedOnce, UNCHANGED execVars,
         \A b \in BipId : /\ bips'[b].executed = bips[b].executed
                          /\ bips[b].executed => bips'[b].payload = bips[b].payload
  PROVE  ExecutedOnce'
BY DEF ExecutedOnce, execVars, DiamondCutIsEmpty

LEMMA ExecutionPays ==
  ASSUME IndInv, ExecutedOnce, NEW c \in BipId, NEW ended \in BOOLEAN, NEW cut \in BOOLEAN,
         Execute(c, ended, cut), ~bips[c].executed, cut \/ DiamondCutIsEmpty(c)
  PROVE  ExecutedOnce'
<1>1. /\ TypeOK /\ bips \in [BipId -> Bip] /\ rewards \in [BipId -> Seq(Nat)]
      /\ now \in Nat /\ totalRoots \in Nat /\ Structure
  BY BoundAssumption DEF IndInv, Structure, TypeOK
<1>2. /\ bips'[c].executed /\ bips'[c].payload = bips[c].payload
      /\ \A b \in BipId \ {c} : bips'[b] = bips[b]
  <2>1. \/ bips' = [bips EXCEPT ![c].executed = TRUE]
        \/ bips' = [bips EXCEPT ![c] = [EndedBip(c) EXCEPT !.executed = TRUE]]
    BY DEF Execute, MarkExecuted
  <2>2. bips[c] \in Bip
    BY <1>1
  <2> QED
    BY <1>1, <2>1, <2>2 DEF EndedBip, Bip
<1>3. DiamondCutIsEmpty(c)' = DiamondCutIsEmpty(c)
      /\ \A b \in BipId \ {c} : DiamondCutIsEmpty(b)' = DiamondCutIsEmpty(b)
  BY <1>2 DEF DiamondCutIsEmpty
<1> DEFINE x == IF ended THEN IncentiveTime(c) ELSE 0
           f == [bip |-> c, ended |-> ended]
<1>4. x \in Nat /\ f \in Frame
  BY <1>1, IncentiveTimeType DEF Frame
<1>5. \A b \in BipId : Once(b)
  BY OnceMeans
<1>6. \/ /\ DiamondCutIsEmpty(c)
         /\ rewards' = [rewards EXCEPT ![c] = Append(rewards[c], x)]
         /\ UNCHANGED <<frames, diamond>>
      \/ /\ ~DiamondCutIsEmpty(c)
         /\ diamond' = Append(diamond, c)
         /\ rewards' = [rewards EXCEPT ![c] = Append(rewards[c], x)]
         /\ UNCHANGED frames
      \/ /\ ~DiamondCutIsEmpty(c)
         /\ diamond' = Append(diamond, c)
         /\ frames' = Append(frames, f)
         /\ UNCHANGED rewards
  BY DEF Execute, FinishExecution, DiamondCutIsEmpty
<1> HIDE DEF x, f
<1>7. f.bip = c
  BY DEF f
<1>8. Len(rewards[c]) \in Nat /\ Len(Append(rewards[c], x)) = Len(rewards[c]) + 1
  BY <1>1, <1>4, AppendProperties
<1>9. ASSUME NEW b \in BipId PROVE Once(b)'
  <2> DEFINE w == Cardinality(Waiting(b))
             wn == Cardinality(Waiting(b)')
             d == Cardinality(Cuts(b))
             dn == Cardinality(Cuts(b)')
             r == Len(rewards[b])
             rn == Len(rewards'[b])
  <2>1. w \in Nat /\ d \in Nat /\ r \in Nat
    BY <1>1, CountsAreNumbers
  <2>2. /\ r + w = (IF bips[b].executed THEN 1 ELSE 0)
        /\ d = (IF bips[b].executed /\ ~DiamondCutIsEmpty(b) THEN 1 ELSE 0)
    BY <1>5 DEF Once
  <2>3. frames' = frames => wn = w
    BY DEF Waiting
  <2>4. frames' = Append(frames, f) => wn = w + (IF c = b THEN 1 ELSE 0)
    BY <1>1, <1>4, <1>7, WaitingPushed
  <2>5. diamond' = diamond => dn = d
    BY DEF Cuts
  <2>6. diamond' = Append(diamond, c) => dn = d + (IF c = b THEN 1 ELSE 0)
    BY <1>1, CutsAppended
  <2>7. rewards' = rewards => rn = r
    OBVIOUS
  <2>8. rewards' = [rewards EXCEPT ![c] = Append(rewards[c], x)]
           => rn = r + (IF c = b THEN 1 ELSE 0)
    <3>1. CASE c = b
      BY <1>1, <1>8, <3>1
    <3>2. CASE c # b
      BY <1>1, <2>1, <3>2
    <3> QED
      BY <3>1, <3>2
  <2> HIDE DEF w, wn, d, dn, r, rn
  <2>9. /\ rn + wn = r + w + (IF c = b THEN 1 ELSE 0)
        /\ dn = d + (IF c = b /\ ~DiamondCutIsEmpty(c) THEN 1 ELSE 0)
    <3>1. CASE DiamondCutIsEmpty(c)
      BY ONLY <1>6, <2>1, <2>3, <2>5, <2>8, <3>1
    <3>2. CASE ~DiamondCutIsEmpty(c)
      BY ONLY <1>6, <2>1, <2>3, <2>4, <2>6, <2>7, <2>8, <3>2
    <3> QED
      BY <3>1, <3>2
  <2>10. CASE b # c
    <3>1. bips'[b] = bips[b] /\ DiamondCutIsEmpty(b)' = DiamondCutIsEmpty(b)
      BY <1>2, <1>3, <2>10
    <3>2. rn + wn = r + w /\ dn = d
      BY ONLY <2>1, <2>9, <2>10
    <3> QED
      BY <2>2, <3>1, <3>2 DEF Once, rn, wn, dn
  <2>11. CASE b = c
    <3>1. bips'[b].executed /\ DiamondCutIsEmpty(b)' = DiamondCutIsEmpty(b) /\ ~bips[b].executed
      BY <1>2, <1>3, <2>11
    <3>2. r + w = 0 /\ d = 0
      BY <2>2, <3>1
    <3>3. rn + wn = 1 /\ dn = (IF ~DiamondCutIsEmpty(b) THEN 1 ELSE 0)
      BY ONLY <2>1, <2>9, <2>11, <3>2
    <3> QED
      BY <3>1, <3>3 DEF Once, rn, wn, dn
  <2> QED
    BY <2>10, <2>11
<1>10. (\A b \in BipId : Once(b))' => ExecutedOnce'
  BY OnceMeans, PTL
<1> QED
  BY <1>9, <1>10

LEMMA ReturnPays ==
  ASSUME IndInv, ExecutedOnce, InitReturns
  PROVE  ExecutedOnce'
<1> DEFINE n == Len(frames)
           c == frames[n].bip
           x == IF frames[n].ended THEN IncentiveTime(c) ELSE 0
<1>1. /\ TypeOK /\ Structure /\ rewards \in [BipId -> Seq(Nat)]
      /\ frames \in Seq(Frame) /\ frames # <<>> /\ n \in DOMAIN frames
  <2>1. TypeOK /\ Structure /\ frames # <<>>
    BY DEF IndInv, Structure, InitReturns
  <2>2. frames \in Seq(Frame) /\ rewards \in [BipId -> Seq(Nat)]
    BY <2>1 DEF TypeOK
  <2> QED
    BY <2>1, <2>2
<1>2. c \in BipId
  BY <1>1, IdsInOrder
<1>3. x \in Nat
  BY <1>1, <1>2, IncentiveTimeType
<1>4. /\ rewards' = [rewards EXCEPT ![c] = Append(rewards[c], x)]
      /\ frames' = SubSeq(frames, 1, n - 1)
      /\ UNCHANGED <<bips, diamond>>
  BY DEF InitReturns, FinishExecution, bipVars
<1> HIDE DEF x
<1>5. ASSUME NEW b \in BipId PROVE Once(b)'
  <2> DEFINE w == Cardinality(Waiting(b))
             wn == Cardinality(Waiting(b)')
             r == Len(rewards[b])
             rn == Len(rewards'[b])
  <2>1. wn \in Nat /\ w = wn + (IF c = b THEN 1 ELSE 0)
    BY <1>1, <1>4, WaitingPopped
  <2>2. rn = r + (IF c = b THEN 1 ELSE 0) /\ r \in Nat
    <3>1. r \in Nat /\ Len(rewards[c]) \in Nat /\ Len(Append(rewards[c], x)) = Len(rewards[c]) + 1
      BY <1>1, <1>2, <1>3, AppendProperties
    <3> HIDE DEF c
    <3>2. CASE c = b
      BY <1>1, <1>2, <1>4, <3>1, <3>2
    <3>3. CASE c # b
      BY <1>1, <1>2, <1>4, <3>1, <3>3
    <3> QED
      BY <3>2, <3>3
  <2>3. Once(b)
    BY OnceMeans
  <2>4. rn + wn = r + w
    <3> HIDE DEF w, wn, r, rn, c
    <3> QED
      BY ONLY <2>1, <2>2
  <2>5. Cuts(b)' = Cuts(b) /\ bips'[b] = bips[b] /\ DiamondCutIsEmpty(b)' = DiamondCutIsEmpty(b)
    BY <1>4 DEF Cuts, DiamondCutIsEmpty
  <2> QED
    BY <2>3, <2>4, <2>5 DEF Once
<1>6. (\A b \in BipId : Once(b))' => ExecutedOnce'
  BY OnceMeans, PTL
<1> QED
  BY <1>5, <1>6

LEMMA OnceStep == IndInv /\ ExecutedOnce /\ [Next]_vars => ExecutedOnce'
<1> SUFFICES ASSUME IndInv, ExecutedOnce, [Next]_vars PROVE ExecutedOnce'
  OBVIOUS
<1>1. Structure /\ TypeOK /\ bips \in [BipId -> Bip] /\ Safety
  BY DEF IndInv, Structure, TypeOK, Safety
<1>2. CASE UNCHANGED vars
  BY <1>2, OnceKept DEF vars, bipVars, execVars
<1>3. ASSUME NEW a, NEW B, VotingStep(a, B) PROVE ExecutedOnce'
  BY <1>1, <1>3, VotingBips, OnceKept DEF VotingStep
<1>4. ASSUME NEW a, NEW r, SiloStep(a, r) PROVE ExecutedOnce'
  <2>1. \A b \in BipId : bips'[b].executed = bips[b].executed /\ bips'[b].payload = bips[b].payload
    BY <1>1, <1>4 DEF SiloStep, Bip
  <2> QED
    BY <1>4, <2>1, OnceKept DEF SiloStep
<1>5. ASSUME NEW b \in BipId, EndTerm(b) PROVE ExecutedOnce'
  <2>1. \A c \in BipId : bips'[c].executed = bips[c].executed /\ bips'[c].payload = bips[c].payload
    BY <1>1, <1>5 DEF EndTerm, EndedBip, Bip
  <2> QED
    BY <1>5, <2>1, OnceKept DEF EndTerm
<1>6. ASSUME NEW b \in BipId, Commit(b) \/ EmergencyCommit(b) \/ PauseOrUnpause(b) PROVE ExecutedOnce'
  BY <1>6, ExecutionPays DEF Commit, EmergencyCommit, PauseOrUnpause, IsNominated
<1>7. ASSUME NEW a \in Account, NEW p \in Payloads, Propose(a, p) PROVE ExecutedOnce'
  <2>0. PICK n \in BipId : n = bipIndex
    BY <1>1, <1>7, ProposeStep
  <2>1. bips' = [bips EXCEPT ![n] = NewBip(a, p)] /\ UNCHANGED execVars
    BY <1>1, <1>7, <2>0, ProposeStep
  <2>2. ~Created(n) /\ n \in Nat
    BY <2>0, BoundAssumption DEF Created, BipId
  <2>3. bips[n] = NoBip
    BY <1>1, <2>2 DEF Structure, BipsInOrder
  <2>4. bips[n].executed = FALSE /\ bips'[n].executed = FALSE
    BY <1>1, <2>1, <2>3 DEF NoBip, NewBip
  <2>5. /\ bips'[n].executed = bips[n].executed
        /\ \A b \in BipId : b # n => bips'[b] = bips[b]
    BY <1>1, <2>1, <2>4
  <2>6. \A b \in BipId : /\ bips'[b].executed = bips[b].executed
                         /\ bips[b].executed => bips'[b].payload = bips[b].payload
    BY <2>4, <2>5
  <2> QED
    BY <2>1, <2>6, OnceKept
<1>8. ASSUME \/ \E a \in Account : OwnerPause(a) \/ OwnerUnpause(a)
             \/ Sunrise \/ Tick
      PROVE  ExecutedOnce'
  BY <1>8, OnceKept DEF OwnerPause, OwnerUnpause, Sunrise, Tick, bipVars
<1>9. ASSUME InitReturns PROVE ExecutedOnce'
  BY <1>9, ReturnPays
<1>10. ASSUME NEW a \in Account, NEW b \in BipId, Vote(a, b) \/ Unvote(a, b) PROVE ExecutedOnce'
  <2>1. VotingStep(a, {b})
    BY <1>1, <1>10, VotingOperations
  <2> QED
    BY <1>3, <2>1
<1>11. ASSUME NEW a \in Account, NEW B \in SUBSET BipId,
              VoteAll(a, B) \/ UnvoteAll(a, B) \/ VoteUnvoteAll(a, B)
       PROVE  ExecutedOnce'
  <2>1. VotingStep(a, B)
    BY <1>1, <1>11, VotingOperations
  <2> QED
    BY <1>3, <2>1
<1>12. ASSUME NEW a \in Account, NEW n \in 1..MaxRoots, Settled,
              SiloDeposit(a, n) \/ SiloWithdraw(a, n)
       PROVE  ExecutedOnce'
  <2>1. PICK r \in 0..MaxRoots : SiloStep(a, r)
    BY <1>1, <1>12, SiloOperations
  <2> QED
    BY <1>4, <2>1
<1> QED
  BY <1>2, <1>5, <1>6, <1>7, <1>8, <1>9, <1>10, <1>11, <1>12 DEF Next

LEMMA OnceInit == Init => ExecutedOnce
<1> SUFFICES ASSUME Init PROVE ExecutedOnce
  OBVIOUS
<1>1. ASSUME NEW b \in BipId PROVE Once(b)
  <2>1. /\ frames = <<>> /\ diamond = <<>> /\ rewards[b] = <<>> /\ ~bips[b].executed
    BY DEF Init, NoBip
  <2>2. Waiting(b) = {} /\ Cuts(b) = {} /\ Len(rewards[b]) = 0
    BY <2>1 DEF Waiting, Cuts
  <2>3. Cardinality({}) = 0
    BY FS_EmptySet
  <2> QED
    BY <2>1, <2>2, <2>3 DEF Once
<1> QED
  BY <1>1, OnceMeans

(* However executions nest, every executed BIP is paid once or waits to be *)
(* paid once, and its cut, if it has one, reached the diamond once.        *)
THEOREM ExecutionsCountOnce == Spec => []ExecutedOnce
BY OnceInit, OnceStep, Invariance, PTL DEF Spec

-----------------------------------------------------------------------------
(* The season clock.                                                       *)

\* What Solidity's division is, for any divisor.
LEMMA Quotient ==
  ASSUME NEW x \in Nat, NEW d \in Nat \ {0}
  PROVE  /\ x \div d \in Nat /\ d * (x \div d) \in Nat
         /\ d * (x \div d) <= x /\ x < d * (x \div d) + d
<1> DEFINE q == x \div d
           r == x % d
<1>1. q \in Nat /\ r \in 0..(d - 1) /\ x = d * q + r
  OBVIOUS
<1> HIDE DEF q, r
<1>2. d * q \in Nat
  BY <1>1
<1> DEFINE y == d * q
<1>3. y \in Nat /\ y <= x /\ x < y + d
  <2> HIDE DEF y
  <2>1. y \in Nat /\ x = y + r
    BY <1>1, <1>2 DEF y
  <2> QED
    BY <1>1, <2>1
<1> QED
  BY <1>1, <1>3 DEF q

LEMMA QuotientUnique ==
  ASSUME NEW x \in Nat, NEW d \in Nat \ {0}, NEW q \in Nat, d * q <= x, x < d * q + d
  PROVE  x \div d = q
<1> DEFINE k == x \div d
<1>1. k \in Nat /\ d * k \in Nat /\ d * k <= x /\ x < d * k + d
  BY Quotient
<1>2. d * q \in Nat
  OBVIOUS
<1> HIDE DEF k
<1>3. ASSUME NEW i \in Nat, NEW j \in Nat, i < j PROVE d * i + d <= d * j
  <2>1. i + 1 <= j /\ d * (i + 1) = d * i + d
    BY <1>3
  <2>2. d * (i + 1) <= d * j
    BY <2>1
  <2> QED
    BY <2>1, <2>2
<1>4. ~(k < q) /\ ~(q < k)
  <2>1. ASSUME k < q PROVE FALSE
    <3>1. d * k + d <= d * q
      BY <1>1, <1>3, <2>1
    <3> QED
      BY <1>1, <1>2, <3>1
  <2>2. ASSUME q < k PROVE FALSE
    <3>1. d * q + d <= d * k
      BY <1>1, <1>3, <2>2
    <3> QED
      BY <1>1, <1>2, <3>1
  <2> QED
    BY <2>1, <2>2
<1> QED
  BY <1>1, <1>4 DEF k

\* The seasons a clock has counted at time t that was started at time s.
SeasonsAt(t, s) == IF t < s THEN 0 ELSE (t - s) \div SeasonPeriod

(* A clock that is put back by the time passed since p, rounded up to      *)
(* whole seasons, shows what it showed at p, or one season less.           *)
LEMMA ClockPutBack ==
  ASSUME NEW n \in Nat, NEW p \in Nat, NEW s \in Nat, p <= n
  PROVE  SeasonsAt(n, s + ((n - p) \div SeasonPeriod + 1) * SeasonPeriod)
           \in {SeasonsAt(p, s), SeasonsAt(p, s) - 1}
<1> DEFINE k == (n - p) \div SeasonPeriod
           z == SeasonPeriod * k
           t == s + (k + 1) * SeasonPeriod
<1>1. SeasonPeriod \in Nat \ {0} /\ n - p \in Nat
  BY TermAssumption
<1>2. k \in Nat /\ z \in Nat /\ z <= n - p /\ n - p < z + SeasonPeriod
  BY <1>1, Quotient
<1>3. t = s + z + SeasonPeriod
  <2> HIDE DEF k
  <2>1. (k + 1) * SeasonPeriod = SeasonPeriod * k + SeasonPeriod
    BY <1>1, <1>2
  <2> QED
    BY <1>1, <1>2, <2>1
<1> HIDE DEF k, z, t
<1>4. CASE n < t
  <2>1. SeasonsAt(n, t) = 0
    BY <1>4 DEF SeasonsAt
  <2>2. ASSUME ~(p < s) PROVE (p - s) \div SeasonPeriod = 0
    <3>1. p - s \in Nat /\ p - s < SeasonPeriod
      BY <1>1, <1>2, <1>3, <1>4, <2>2
    <3>2. SeasonPeriod * 0 = 0
      BY <1>1
    <3>3. SeasonPeriod * 0 <= p - s /\ p - s < SeasonPeriod * 0 + SeasonPeriod
      BY <1>1, <3>1, <3>2
    <3> QED
      BY <1>1, <3>1, <3>3, QuotientUnique
  <2>3. SeasonsAt(p, s) = 0
    BY <2>2 DEF SeasonsAt
  <2> QED
    BY <2>1, <2>3 DEF t, k
<1>5. CASE ~(n < t)
  <2> DEFINE x == p - s
             y == n - t
             q == x \div SeasonPeriod
             w == SeasonPeriod * q
  <2>1. x \in Nat /\ y \in Nat /\ y < x /\ x <= y + SeasonPeriod /\ ~(p < s)
    BY <1>1, <1>2, <1>3, <1>5
  <2>2. SeasonsAt(n, t) = y \div SeasonPeriod /\ SeasonsAt(p, s) = q
    BY <1>5, <2>1 DEF SeasonsAt
  <2> HIDE DEF x, y
  <2>3. q \in Nat /\ w \in Nat /\ w <= x /\ x < w + SeasonPeriod
    BY <1>1, <2>1, Quotient
  <2> HIDE DEF q
  <2>4. CASE w <= y
    <3>1. y < w + SeasonPeriod
      <4> HIDE DEF w
      <4> QED
        BY <1>1, <2>1, <2>3
    <3>2. y \div SeasonPeriod = q
      BY <1>1, <2>1, <2>3, <2>4, <3>1, QuotientUnique
    <3> QED
      BY <2>2, <3>2 DEF t, k
  <2>5. CASE y < w
    <3>1. q > 0
      <4>1. q # 0
        <5>1. SeasonPeriod * 0 = 0
          BY <1>1
        <5> QED
          BY <2>1, <2>5, <5>1
      <4> QED
        BY <2>3, <4>1
    <3> DEFINE v == SeasonPeriod * (q - 1)
    <3>2. q - 1 \in Nat
      BY <2>3, <3>1
    <3>3. v = w - SeasonPeriod
      BY <1>1, <2>3
    <3>4. v <= y /\ y < v + SeasonPeriod
      <4> HIDE DEF v, w
      <4> QED
        BY <1>1, <2>1, <2>3, <2>5, <3>3
    <3>5. y \div SeasonPeriod = q - 1
      BY <1>1, <2>1, <3>2, <3>4, QuotientUnique
    <3> QED
      BY <2>2, <3>5 DEF t, k
  <2> QED
    BY <2>1, <2>3, <2>4, <2>5
<1> QED
  BY <1>4, <1>5

LEMMA ClockStep ==
  ASSUME IndInv, [Next]_vars, paused, ~paused'
  PROVE  SeasonTime' \in {SeasonTimeAt(pausedAt), SeasonTimeAt(pausedAt) - 1}
<1>1. now \in Nat /\ pausedAt \in Nat /\ seasonStart \in Nat
  BY BoundAssumption DEF IndInv, Structure, TypeOK
<1>2. Unpause /\ now' = now
  <2>1. paused' # paused
    OBVIOUS
  <2>2. ASSUME Pause \/ Unpause \/ UNCHANGED pauseVars PROVE Unpause
    BY <2>1, <2>2 DEF Pause, pauseVars
  <2>3. ASSUME NEW b, NEW ended, NEW cut, Execute(b, ended, cut) PROVE Unpause /\ now' = now
    BY <2>1, <2>2, <2>3 DEF Execute, FinishExecution, PauseOrUnpauseBip, seasonVars, pauseVars
  <2>4. ASSUME InitReturns PROVE Unpause /\ now' = now
    BY <2>2, <2>4 DEF InitReturns, FinishExecution, PauseOrUnpauseBip, seasonVars
  <2> QED
    BY <2>1, <2>2, <2>3, <2>4
    DEF Next, vars, pauseVars, seasonVars, EndTerm, Propose, Vote, Unvote, VoteAll, UnvoteAll,
        VoteUnvoteAll, OwnerPause, OwnerUnpause, SiloDeposit, SiloWithdraw, Commit,
        EmergencyCommit, PauseOrUnpause, Sunrise, Tick
<1>3. /\ now >= pausedAt
      /\ seasonStart' = seasonStart + ((now - pausedAt) \div SeasonPeriod + 1) * SeasonPeriod
  BY <1>2 DEF Unpause, pauseVars
<1>4. SeasonTime' = SeasonsAt(now, seasonStart')
  BY <1>2 DEF SeasonTime, SeasonsAt
<1>5. SeasonTimeAt(pausedAt) = SeasonsAt(pausedAt, seasonStart)
  BY DEF SeasonTimeAt, SeasonsAt
<1>6. pausedAt <= now
  BY <1>1, <1>3
<1> QED
  BY <1>1, <1>3, <1>4, <1>5, <1>6, ClockPutBack

(* Lifting a pause, by a BIP or by the owner, puts the season clock back   *)
(* to where it was when the pause began or one season before that.         *)
THEOREM PausesStopTheClock == Spec => PauseStopsSeasonClock
<1>1. IndInv /\ [Next]_vars =>
        [paused /\ ~paused' =>
           SeasonTime' \in {SeasonTimeAt(pausedAt), SeasonTimeAt(pausedAt) - 1}]_vars
  BY ClockStep
<1> QED
  BY <1>1, Invariance, PTL DEF Spec, PauseStopsSeasonClock
=============================================================================
