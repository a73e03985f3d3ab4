--------------------------- MODULE OutcomeEpochProofs ---------------------------
(***************************************************************************)
(* Proofs about the epochs of outcome generation, for any oracles, leaders *)
(* and values: how many rounds a leader has in its epoch, and what the     *)
(* next epoch keeps of what was committed.  They hold as long as no oracle *)
(* restarts and no database refuses a write; see OutcomeGenerationProofs   *)
(* for what holds without these hypotheses.                                *)
(***************************************************************************)
EXTENDS OutcomeGenerationProofs

-----------------------------------------------------------------------------
(* The rounds of an epoch *)

\* The prepares that p signed for rounds of epoch x: not a re-proposal.
RoundPrepares(p, x) ==
  {m \in msgs : m.type = "Prepare" /\ m.from = p /\ m.epoch = x /\ m.inputs # None}

\* p leaves its epoch after RMax rounds.  After a re-proposal its first round may be
\* far behind what it has committed; then it signs a prepare of one round only.
Counted(p) ==
  /\ phase[p] = "newRound" => firstSeqNr[p] <= seqNr[p]
  /\ phase[p] \in {"sentPrepare", "sentCommit"} => firstSeqNr[p] <= seqNr[p] + 1
  /\ \A m \in RoundPrepares(p, epoch[p]) :
       /\ firstSeqNr[p] <= Len(m.outcome)
       /\ Len(m.outcome) = seqNr[p] \/ seqNr[p] < firstSeqNr[p] + RMax
       /\ phase[p] \in {"sentPrepare", "sentCommit"} => Len(committed[p]) <= seqNr[p]

\* What p signs in an epoch are RMax successive rounds at most.
Spread(p) ==
  \A x \in Epoch : \A m, n \in RoundPrepares(p, x) : Len(m.outcome) < Len(n.outcome) + RMax

CountInv == OnceInv /\ \A p \in Honest : Counted(p) /\ Spread(p)

LEMMA OthersStayCounted ==
  ASSUME CountInv, NEW p \in Honest, OnceInv', StepOf(p),
         \A q \in Oracle \ {p} : firstSeqNr'[q] = firstSeqNr[q],
         Counted(p)', Spread(p)'
  PROVE  CountInv'
<1>1. ASSUME NEW q \in Honest, q # p PROVE Counted(q)' /\ Spread(q)'
  <2>1. q \in Oracle \ {p} /\ Counted(q) /\ Spread(q)
    BY <1>1, HonestOracle DEF CountInv
  <2>2. /\ epoch'[q] = epoch[q] /\ phase'[q] = phase[q] /\ seqNr'[q] = seqNr[q]
        /\ committed'[q] = committed[q] /\ firstSeqNr'[q] = firstSeqNr[q]
    BY <2>1 DEF StepOf
  <2>3. \A x : RoundPrepares(q, x)' = RoundPrepares(q, x)
    BY <1>1 DEF StepOf, RoundPrepares
  <2>4. Counted(q)'
    BY <2>1, <2>2, <2>3 DEF Counted
  <2>5. Spread(q)'
    BY <2>1, <2>3 DEF Spread
  <2> QED BY <2>4, <2>5
<1> QED BY <1>1 DEF CountInv

\* The types of what is counted.
LEMMA CountTypes ==
  ASSUME CountInv, NEW p \in Honest
  PROVE  /\ p \in Oracle /\ Types /\ TypeOK /\ Placed(p) /\ Signed(p) /\ Counted(p) /\ Spread(p)
         /\ seqNr[p] \in Nat /\ firstSeqNr[p] \in Nat /\ epoch[p] \in Nat
         /\ committed[p] \in Outcome /\ Len(committed[p]) \in Nat
         /\ RMax \in Nat /\ RMax > 0
         /\ \A m \in msgs : m.type = "Prepare" => Len(m.outcome) \in Nat
<1>1. p \in Oracle /\ Types /\ TypeOK /\ Placed(p) /\ Signed(p) /\ Counted(p) /\ Spread(p)
  BY HonestOracle DEF CountInv, OnceInv, Inv, Types
<1>2. /\ seqNr[p] \in Nat /\ firstSeqNr[p] \in Nat /\ epoch[p] \in Nat
      /\ committed[p] \in Outcome /\ RMax \in Nat /\ RMax > 0
  BY <1>1, BoundAssumption DEF TypeOK
<1>3. Len(committed[p]) \in Nat
  BY <1>2, OutcomeTypes
<1>4. \A m \in msgs : m.type = "Prepare" => Len(m.outcome) \in Nat
  BY <1>1, OutcomeTypes DEF Types, Messages
<1> QED BY <1>1, <1>2, <1>3, <1>4

\* Before its first round p has signed nothing in its epoch.
LEMMA NothingInNewEpoch ==
  ASSUME CountInv, NEW p \in Honest, phase[p] = "newEpoch"
  PROVE  RoundPrepares(p, epoch[p]) = {}
BY CountTypes DEF Signed, RoundPrepares

\* A step that signs no prepare of a round, in an epoch p has signed nothing in.
LEMMA NotSignedYet ==
  ASSUME CountInv, NEW p \in Honest, OnceInv', StepOf(p),
         \A q \in Oracle \ {p} : firstSeqNr'[q] = firstSeqNr[q],
         \A m \in msgs' \ msgs : m.type = "Prepare" => m.inputs = None,
         RoundPrepares(p, epoch'[p]) = {},
         phase'[p] = "newRound" => firstSeqNr'[p] <= seqNr'[p],
         phase'[p] \in {"sentPrepare", "sentCommit"} => firstSeqNr'[p] <= seqNr'[p] + 1
  PROVE  CountInv'
<1>1. \A x : RoundPrepares(p, x)' = RoundPrepares(p, x)
  BY DEF StepOf, RoundPrepares
<1>2. Counted(p)'
  BY <1>1 DEF Counted
<1>3. Spread(p)'
  BY <1>1, CountTypes DEF Spread
<1> QED BY <1>2, <1>3, OthersStayCounted

LEMMA HandleProposalCount ==
  ASSUME CountInv, OnceInv', NEW p \in Honest, NEW v \in Value, HandleProposal(p, v)
  PROVE  CountInv'
<1> DEFINE n == PrepareMsg(p, epoch[p], v, Append(committed[p], v))
<1>1. /\ p \in Oracle /\ TypeOK /\ Placed(p) /\ Signed(p) /\ Counted(p) /\ Spread(p)
      /\ seqNr[p] \in Nat /\ firstSeqNr[p] \in Nat
      /\ committed[p] \in Outcome /\ Len(committed[p]) \in Nat
      /\ RMax \in Nat /\ RMax > 0
      /\ \A m \in msgs : m.type = "Prepare" => Len(m.outcome) \in Nat
  BY CountTypes
<1>2. StepOf(p)
  BY HandleProposalInv DEF CountInv, OnceInv
<1>3. /\ phase[p] = "newRound" /\ seqNr[p] <= MaxSeqNr /\ phase'[p] = "sentPrepare"
      /\ seqNr'[p] = seqNr[p] /\ firstSeqNr' = firstSeqNr /\ epoch'[p] = epoch[p]
      /\ committed'[p] = committed[p] /\ msgs' = msgs \cup {n}
      /\ seqNr[p] = Len(committed[p]) + 1
  BY <1>1 DEF HandleProposal, TypeOK, Placed
<1>4. n.type = "Prepare" /\ n.from = p /\ n.epoch = epoch[p] /\ Len(n.outcome) = seqNr[p]
  <2>1. Len(committed[p]) < MaxSeqNr
    BY <1>1, <1>3, BoundAssumption
  <2>2. Len(Append(committed[p], v)) = seqNr[p]
    BY <1>1, <1>3, <2>1, NextOutcome
  <2> QED BY <2>2 DEF PrepareMsg
<1> HIDE DEF n
<1>5. \A m \in RoundPrepares(p, epoch[p]) :
        /\ firstSeqNr[p] <= Len(m.outcome) /\ Len(m.outcome) < seqNr[p]
        /\ seqNr[p] < firstSeqNr[p] + RMax /\ Len(m.outcome) \in Nat
  BY <1>1, <1>3 DEF Counted, Signed, RoundPrepares
<1>6. \A x : RoundPrepares(p, x)' \subseteq RoundPrepares(p, x) \cup {n}
  BY <1>3 DEF RoundPrepares
<1>7. firstSeqNr[p] <= seqNr[p]
  BY <1>1, <1>3 DEF Counted
<1>8. Counted(p)'
  <2>1. ASSUME NEW m \in RoundPrepares(p, epoch[p])'
        PROVE  /\ firstSeqNr[p] <= Len(m.outcome)
               /\ Len(m.outcome) = seqNr[p] \/ seqNr[p] < firstSeqNr[p] + RMax
    <3>1. CASE m = n
      BY <1>4, <1>7, <3>1
    <3>2. CASE m \in RoundPrepares(p, epoch[p])
      BY <1>5, <3>2
    <3> QED BY <1>3, <1>6, <2>1, <3>1, <3>2
  <2>2. Len(committed[p]) <= seqNr[p] /\ firstSeqNr[p] <= seqNr[p] + 1
    BY <1>1, <1>3, <1>7
  <2> QED BY <1>3, <2>1, <2>2 DEF Counted
<1>9. Spread(p)'
  <2> SUFFICES ASSUME NEW x \in Epoch, NEW m \in RoundPrepares(p, x)', NEW k \in RoundPrepares(p, x)'
               PROVE  Len(m.outcome) < Len(k.outcome) + RMax
    BY DEF Spread
  <2>1. m.epoch = x /\ k.epoch = x
    BY DEF RoundPrepares
  <2>2. CASE m \in RoundPrepares(p, x) /\ k \in RoundPrepares(p, x)
    BY <1>1, <2>2 DEF Spread
  <2>3. CASE m = n /\ k = n
    BY <1>1, <1>4, <2>3
  <2>4. CASE m = n /\ k \in RoundPrepares(p, x)
    <3>1. k \in RoundPrepares(p, epoch[p])
      BY <1>4, <2>1, <2>4
    <3>2. firstSeqNr[p] <= Len(k.outcome) /\ seqNr[p] < firstSeqNr[p] + RMax /\ Len(k.outcome) \in Nat
      BY <1>5, <3>1
    <3> QED BY <1>1, <1>4, <2>4, <3>2
  <2>5. CASE m \in RoundPrepares(p, x) /\ k = n
    <3>1. m \in RoundPrepares(p, epoch[p])
      BY <1>4, <2>1, <2>5
    <3>2. Len(m.outcome) < seqNr[p] /\ Len(m.outcome) \in Nat
      BY <1>5, <3>1
    <3> QED BY <1>1, <1>4, <2>5, <3>2
  <2> QED BY <1>6, <2>2, <2>3, <2>4, <2>5
<1> QED BY <1>2, <1>3, <1>8, <1>9, OthersStayCounted

LEMMA LockCount ==
  ASSUME CountInv, OnceInv', NEW p \in Honest, Lock(p)
  PROVE  CountInv'
<1>1. p \in Oracle /\ TypeOK /\ Counted(p) /\ Spread(p)
  BY CountTypes
<1>2. StepOf(p)
  BY LockInv DEF CountInv, OnceInv
<1>3. /\ phase[p] = "sentPrepare" /\ phase'[p] = "sentCommit"
      /\ UNCHANGED <<epoch, seqNr, firstSeqNr, committed>>
      /\ \A m \in msgs' \ msgs : m.type = "Commit"
  BY <1>1 DEF Lock, CommitMsg, TypeOK
<1>4. \A x : RoundPrepares(p, x)' = RoundPrepares(p, x)
  BY <1>2, <1>3 DEF StepOf, RoundPrepares
<1>5. Counted(p)'
  BY <1>1, <1>3, <1>4 DEF Counted
<1>6. Spread(p)'
  BY <1>1, <1>4 DEF Spread
<1> QED BY <1>2, <1>3, <1>5, <1>6, OthersStayCounted

\* The last round is not followed by another one; an earlier one is followed by its
\* successor, as what p signed in the epoch is not behind what it has committed.
LEMMA FinishRoundCount ==
  ASSUME FailingDB = {}, CountInv, OnceInv', NEW p \in Honest, NEW written \in BOOLEAN,
         FinishRound(p, written)
  PROVE  CountInv'
<1> DEFINE c == Committed(epoch[p], current[p].outcome)
<1>1. /\ p \in Oracle /\ Types /\ TypeOK /\ Placed(p) /\ Counted(p) /\ Spread(p)
      /\ seqNr[p] \in Nat /\ firstSeqNr[p] \in Nat
      /\ committed[p] \in Outcome /\ Len(committed[p]) \in Nat
      /\ RMax \in Nat /\ RMax > 0
      /\ \A m \in msgs : m.type = "Prepare" => Len(m.outcome) \in Nat
  BY CountTypes
<1>2. StepOf(p)
  BY FinishRoundInv DEF CountInv, OnceInv
<1>3. /\ phase[p] = "sentCommit" /\ msgs' = msgs /\ UNCHANGED <<epoch, firstSeqNr>>
      /\ Commit(p, c, written)
  BY DEF FinishRound
<1>4. /\ current[p].outcome \in Outcome /\ Len(current[p].outcome) = seqNr[p] /\ epoch[p] \in Epoch
  BY <1>1, <1>3 DEF TypeOK, Placed
<1>5. c \in Certificate /\ SeqNr(c) = seqNr[p] /\ c.outcome = current[p].outcome
  BY <1>4, BoundAssumption DEF Committed, Certificate, Epoch, Inputs, SeqNr
<1> HIDE DEF c
<1>6. /\ committed' \in [Oracle -> Outcome] /\ committed'[p] \in {committed[p], c.outcome}
      /\ Len(committed'[p]) >= seqNr[p]
  BY <1>1, <1>3, <1>5, CommitEffect
<1>7. Len(committed'[p]) \in Nat
  BY <1>1, <1>6, OutcomeTypes
<1>8. \A x : RoundPrepares(p, x)' = RoundPrepares(p, x)
  BY <1>3 DEF RoundPrepares
<1>9. Spread(p)'
  BY <1>1, <1>8 DEF Spread
<1>10. \A m \in RoundPrepares(p, epoch[p]) :
         /\ Len(committed'[p]) = seqNr[p] /\ firstSeqNr[p] <= Len(m.outcome)
         /\ Len(m.outcome) = seqNr[p] \/ seqNr[p] < firstSeqNr[p] + RMax
  <2> SUFFICES ASSUME NEW m \in RoundPrepares(p, epoch[p])
               PROVE  /\ Len(committed'[p]) = seqNr[p] /\ firstSeqNr[p] <= Len(m.outcome)
                      /\ Len(m.outcome) = seqNr[p] \/ seqNr[p] < firstSeqNr[p] + RMax
    OBVIOUS
  <2>1. /\ Len(committed[p]) <= seqNr[p] /\ firstSeqNr[p] <= Len(m.outcome)
        /\ Len(m.outcome) = seqNr[p] \/ seqNr[p] < firstSeqNr[p] + RMax
    BY <1>1, <1>3 DEF Counted
  <2>2. Len(committed'[p]) <= seqNr[p]
    BY <1>1, <1>4, <1>5, <1>6, <2>1
  <2> QED BY <1>1, <1>6, <1>7, <2>1, <2>2
<1>11. firstSeqNr[p] <= seqNr[p] + 1
  BY <1>1, <1>3 DEF Counted
<1>12. CASE UNCHANGED <<seqNr, phase>>
  <2>1. Counted(p)'
    BY <1>1, <1>3, <1>8, <1>10, <1>11, <1>12 DEF Counted
  <2> QED BY <1>2, <1>3, <1>9, <2>1, OthersStayCounted
<1>13. CASE ~(RMax <= seqNr[p] - firstSeqNr[p] + 1) /\ StartSubsequentFollowerRound(p)
  <2>1. phase'[p] = "newRound" /\ seqNr'[p] = Len(committed'[p]) + 1
    BY <1>1, <1>6, <1>13, FollowerRoundEffect
  <2>2. firstSeqNr[p] <= seqNr'[p]
    BY <1>1, <1>6, <1>7, <1>11, <2>1
  <2>3. \A m \in RoundPrepares(p, epoch[p]) : seqNr'[p] < firstSeqNr[p] + RMax
    BY <1>1, <1>7, <1>10, <1>13, <2>1
  <2>4. Counted(p)'
    BY <1>3, <1>8, <1>10, <2>1, <2>2, <2>3 DEF Counted
  <2> QED BY <1>2, <1>3, <1>9, <2>4, OthersStayCounted
<1> QED BY <1>12, <1>13 DEF FinishRound

LEMMA CountInit == Init => CountInv
<1> SUFFICES ASSUME Init PROVE CountInv
  OBVIOUS
<1>1. OnceInv
  BY OnceInit
<1>2. \A p, x : RoundPrepares(p, x) = {}
  BY DEF Init, RoundPrepares
<1>3. \A p \in Honest : phase[p] = "unknown"
  BY HonestOracle DEF Init
<1> QED BY <1>1, <1>2, <1>3 DEF CountInv, Counted, Spread

LEMMA CountStep ==
  ASSUME MayRestart = {}, FailingDB = {}
  PROVE  CountInv /\ [Next]_vars => CountInv'
<1> SUFFICES ASSUME CountInv, [Next]_vars PROVE CountInv'
  OBVIOUS
<1>1. OnceInv /\ OnceInv' /\ Inv
  BY OnceStep DEF CountInv, OnceInv
<1>2. CASE UNCHANGED vars
  BY <1>1, <1>2 DEF vars, CountInv, Counted, Spread, RoundPrepares
<1>3. ASSUME NEW p \in Honest, NEW x \in Epoch, NewEpochStart(p, x) PROVE CountInv'
  <2>1. /\ p \in Oracle /\ TypeOK /\ Signed(p) /\ epoch[p] \in Nat
    BY CountTypes
  <2>2. /\ epoch'[p] = x /\ x > epoch[p] /\ phase'[p] = "newEpoch" /\ x \in Nat
        /\ \A q \in Oracle \ {p} : firstSeqNr'[q] = firstSeqNr[q]
        /\ \A m \in msgs' \ msgs : m.type = "EpochStartRequest"
    BY <1>3, <2>1 DEF NewEpochStart, TypeOK, RequestMsg, Epoch
  <2>3. RoundPrepares(p, x) = {}
    BY <2>1, <2>2 DEF Signed, RoundPrepares
  <2>4. StepOf(p)
    BY <1>1, <1>3, NewEpochStartInv
  <2> QED BY <1>1, <2>2, <2>3, <2>4, NotSignedYet
<1>4. ASSUME NEW p \in Honest, NEW Q \in SUBSET Oracle, NEW c \in CertOfRequests(p),
             NEW written \in BOOLEAN, LeadEpoch(p, Q, c, written)
      PROVE  CountInv'
  <2>1. p \in Oracle /\ TypeOK /\ Placed(p)
    BY CountTypes
  <2>2. phase[p] = "newEpoch"
    BY <1>4, <2>1 DEF LeadEpoch, Placed
  <2>3. /\ UNCHANGED <<epoch, phase>> /\ \A q \in Oracle \ {p} : firstSeqNr'[q] = firstSeqNr[q]
        /\ \A m \in msgs' \ msgs : m.type = "EpochStart"
    BY <1>4, <2>1 DEF LeadEpoch, Send, EpochStartMsg, TypeOK
  <2>4. RoundPrepares(p, epoch[p]) = {}
    BY <2>2, NothingInNewEpoch
  <2>5. StepOf(p)
    BY <1>1, <1>4, LeadEpochInv
  <2> QED BY <1>1, <2>2, <2>3, <2>4, <2>5, NotSignedYet
<1>5. ASSUME NEW p \in Honest, NEW c \in CertOfEpochStart(p), NEW written \in BOOLEAN,
             FollowEpoch(p, c, written)
      PROVE  CountInv'
  <2>1. p \in Oracle /\ TypeOK
    BY CountTypes
  <2>2. /\ phase[p] = "newEpoch" /\ phase'[p] = "newRound" /\ UNCHANGED <<epoch, msgs>>
        /\ \A q \in Oracle \ {p} : firstSeqNr'[q] = firstSeqNr[q]
        /\ firstSeqNr'[p] = Len(committed'[p]) + 1 /\ seqNr'[p] = Len(committed'[p]) + 1
    BY <1>5, <2>1 DEF FollowEpoch, CanStartEpoch, StartSubsequentFollowerRound, TypeOK
  <2>3. committed'[p] \in Outcome
    BY <1>1, <2>1 DEF OnceInv, Inv, Types, TypeOK
  <2>4. firstSeqNr'[p] <= seqNr'[p]
    BY <2>2, <2>3, OutcomeTypes
  <2>5. RoundPrepares(p, epoch[p]) = {}
    BY <2>2, NothingInNewEpoch
  <2>6. StepOf(p)
    BY <1>1, <1>5, FollowEpochInv
  <2> QED BY <1>1, <2>2, <2>4, <2>5, <2>6, NotSignedYet
<1>6. ASSUME NEW p \in Honest, NEW c \in CertOfEpochStart(p), Repropose(p, c) PROVE CountInv'
  <2>1. p \in Oracle /\ Types /\ TypeOK
    BY CountTypes
  <2>2. /\ phase[p] = "newEpoch" /\ phase'[p] = "sentPrepare" /\ epoch' = epoch
        /\ \A q \in Oracle \ {p} : firstSeqNr'[q] = firstSeqNr[q]
        /\ firstSeqNr'[p] = SeqNr(c) + 1 /\ seqNr'[p] = SeqNr(c)
        /\ msgs' = msgs \cup {PrepareMsg(p, epoch[p], None, c.outcome)}
    BY <1>6, <2>1 DEF Repropose, CanStartEpoch, TypeOK
  <2>3. \A m \in msgs' \ msgs : m.type = "Prepare" => m.inputs = None
    BY <2>2 DEF PrepareMsg
  <2>4. firstSeqNr'[p] <= seqNr'[p] + 1
    <3>1. SeqNr(c) \in Nat
      BY <1>6, <2>1, TakenTypes, CertTypes
    <3> QED BY <2>2, <3>1
  <2>5. RoundPrepares(p, epoch[p]) = {}
    BY <2>2, NothingInNewEpoch
  <2>6. StepOf(p)
    BY <1>1, <1>6, ReproposeInv
  <2> QED BY <1>1, <2>2, <2>3, <2>4, <2>5, <2>6, NotSignedYet
<1>7. ASSUME NEW p \in Honest, NEW v \in Value, Propose(p, v) PROVE CountInv'
  <2>1. /\ UNCHANGED <<epoch, phase, seqNr, firstSeqNr, committed>>
        /\ \A m \in msgs' \ msgs : m.type = "Proposal"
    BY <1>7 DEF Propose, Send, ProposalMsg
  <2>2. StepOf(p)
    BY <1>1, <1>7, ProposeInv
  <2>3. Counted(p) /\ Spread(p)
    BY CountTypes
  <2>4. \A x : RoundPrepares(p, x)' = RoundPrepares(p, x)
    BY <2>1, <2>2 DEF StepOf, RoundPrepares
  <2>5. Counted(p)'
    BY <2>1, <2>3, <2>4 DEF Counted
  <2>6. Spread(p)'
    BY <2>3, <2>4 DEF Spread
  <2> QED BY <1>1, <2>1, <2>2, <2>5, <2>6, OthersStayCounted
<1>8. ASSUME NEW p \in Honest, Restart(p) PROVE CountInv'
  BY <1>8 DEF Restart
<1> QED BY <1>1, <1>2, <1>3, <1>4, <1>5, <1>6, <1>7, <1>8, HandleProposalCount, LockCount,
     FinishRoundCount DEF Next

\* A nonempty set of naturals that are within r of each other has r elements at most.
LEMMA WithinRange ==
  ASSUME NEW S \in SUBSET Nat, NEW r \in Nat, \A k, l \in S : k < l + r
  PROVE  IsFiniteSet(S) /\ Cardinality(S) <= r
<1>1. CASE S = {}
  BY <1>1, FS_EmptySet
<1>2. CASE S # {}
  <2>1. PICK lo \in S : \A k \in S : <<k, lo>> \notin OpToRel(<, Nat)
    BY <1>2, WFMin, NatLessThanWellFounded, Zenon
  <2>2. lo \in Nat /\ \A k \in S : k \in Nat /\ ~(k < lo)
    BY <2>1 DEF OpToRel
  <2>3. S \subseteq lo..(lo + r - 1)
    BY <2>2
  <2>4. IsFiniteSet(lo..(lo + r - 1)) /\ Cardinality(lo..(lo + r - 1)) <= r
    <3>1. lo \in Int /\ lo + r - 1 \in Int
      BY <2>2
    <3>2. /\ IsFiniteSet(lo..(lo + r - 1))
          /\ Cardinality(lo..(lo + r - 1)) = IF lo > lo + r - 1 THEN 0 ELSE (lo + r - 1) - lo + 1
      BY <3>1, FS_Interval
    <3> QED BY <2>2, <3>2
  <2>5. IsFiniteSet(S) /\ Cardinality(S) <= Cardinality(lo..(lo + r - 1))
    BY <2>3, <2>4, FS_Subset
  <2>6. Cardinality(S) \in Nat /\ Cardinality(lo..(lo + r - 1)) \in Nat
    BY <2>4, <2>5, FS_CardinalityType
  <2> QED BY <2>4, <2>5, <2>6
<1> QED BY <1>1, <1>2

LEMMA CountedRounds == CountInv => RoundsOfEpoch
<1> SUFFICES ASSUME CountInv, NEW x \in Epoch
             PROVE  Cardinality({c \in Certificates :
                                  c.kind = "prepare" /\ c.epoch = x /\ c.inputs # None}) <= RMax
  BY DEF RoundsOfEpoch
<1> DEFINE R == {c \in Certificates : c.kind = "prepare" /\ c.epoch = x /\ c.inputs # None}
           S == {SeqNr(c) : c \in R}
           f == [c \in R |-> SeqNr(c)]
<1>1. PrepareUnique /\ Types /\ RMax \in Nat
  BY OnceMeansUnique, BoundAssumption DEF CountInv, OnceInv, Inv
<1>2. \A c \in R : c \in Certificate /\ SeqNr(c) \in Nat
  BY <1>1, CertificatesTypes, CertTypes
<1>3. ASSUME NEW c \in R, NEW d \in R PROVE SeqNr(c) < SeqNr(d) + RMax
  <2> DEFINE Q(z) == PrepareSigners(z.epoch, z.inputs, z.outcome)
  <2>1. ASSUME NEW z \in R PROVE IsQuorum(Q(z)) /\ Q(z) \subseteq Oracle
    <3>1. z # Genesis
      BY DEF Genesis, Committed
    <3> QED BY <3>1 DEF Certificates, Verified, PrepareSigners
  <2>2. PICK p \in Honest : p \in Q(c) /\ p \in Q(d)
    <3>1. IsQuorum(Q(c)) /\ Q(c) \subseteq Oracle /\ IsQuorum(Q(d)) /\ Q(d) \subseteq Oracle
      BY <2>1
    <3> HIDE DEF Q
    <3> QED BY <3>1, QuorumsIntersect
  <2>3. /\ PrepareMsg(p, x, c.inputs, c.outcome) \in RoundPrepares(p, x)
        /\ PrepareMsg(p, x, d.inputs, d.outcome) \in RoundPrepares(p, x)
    BY <2>2, HonestOracle DEF PrepareSigners, RoundPrepares, PrepareMsg
  <2>4. Spread(p)
    BY DEF CountInv
  <2>5. Len(PrepareMsg(p, x, c.inputs, c.outcome).outcome)
          < Len(PrepareMsg(p, x, d.inputs, d.outcome).outcome) + RMax
    BY <2>3, <2>4 DEF Spread
  <2> QED BY <2>5 DEF PrepareMsg, SeqNr
<1>4. \A c, d \in R : SeqNr(c) = SeqNr(d) => c = d
  BY <1>1 DEF PrepareUnique
<1> HIDE DEF R
<1>5. S \in SUBSET Nat /\ \A k, l \in S : k < l + RMax
  BY <1>2, <1>3
<1>6. IsFiniteSet(S) /\ Cardinality(S) <= RMax
  <2> HIDE DEF S
  <2> QED BY <1>1, <1>5, WithinRange
<1>7. f \in Injection(R, S)
  <2>1. f \in [R -> S] /\ \A c \in R : f[c] = SeqNr(c)
    OBVIOUS
  <2> HIDE DEF f
  <2>2. \A c, d \in R : f[c] = f[d] => c = d
    BY <1>4, <2>1
  <2> QED BY <2>1, <2>2 DEF Injection, IsInjective
<1> HIDE DEF S, f
<1>8. IsFiniteSet(R) /\ Cardinality(R) <= Cardinality(S)
  BY <1>6, <1>7, FS_Injection
<1>9. Cardinality(R) \in Nat /\ Cardinality(S) \in Nat
  BY <1>6, <1>8, FS_CardinalityType
<1> QED BY <1>1, <1>6, <1>8, <1>9 DEF R

\* A leader has RMax rounds at most, besides the outcome it re-proposes, also when
\* oracles start its epoch late and with different first rounds, as long as no oracle
\* restarts and no database refuses a write.
THEOREM RoundsAreBounded ==
  ASSUME MayRestart = {}, FailingDB = {} PROVE Spec => []RoundsOfEpoch
<1>1. Spec => []CountInv
  BY CountInit, CountStep, PTL DEF Spec
<1> QED BY <1>1, CountedRounds, PTL

-----------------------------------------------------------------------------
(* Prefixes *)

\* A prefix, element by element.
LEMMA PrefixElements ==
  ASSUME NEW S, NEW s \in Seq(S), NEW t \in Seq(S)
  PROVE  IsPrefix(s, t) <=> Len(s) <= Len(t) /\ \A i \in 1..Len(s) : s[i] = t[i]
<1>1. Len(s) \in Nat /\ Len(t) \in Nat /\ SubSeq(s, 1, Len(s)) = s
  BY SubSeqFull
<1>2. ASSUME Len(s) <= Len(t)
      PROVE  /\ SubSeq(t, 1, Len(s)) \in Seq(S) /\ Len(SubSeq(t, 1, Len(s))) = Len(s)
             /\ \A i \in 1..Len(s) : SubSeq(t, 1, Len(s))[i] = t[i]
  BY <1>1, <1>2
<1>3. ASSUME Len(s) <= Len(t) PROVE s = SubSeq(t, 1, Len(s)) <=> \A i \in 1..Len(s) : s[i] = t[i]
  <2> DEFINE u == SubSeq(t, 1, Len(s))
  <2>1. u \in Seq(S) /\ Len(u) = Len(s) /\ \A i \in 1..Len(s) : u[i] = t[i]
    BY <1>2, <1>3
  <2> HIDE DEF u
  <2>2. ASSUME \A i \in 1..Len(s) : s[i] = t[i] PROVE s = u
    <3>1. \A i \in 1..Len(s) : s[i] = u[i]
      BY <2>1, <2>2
    <3> QED BY <2>1, <3>1, SeqEqual
  <2> QED BY <2>1, <2>2 DEF u
<1> QED BY <1>1, <1>3 DEF IsPrefix

LEMMA PrefixFacts ==
  ASSUME NEW S, NEW s \in Seq(S), NEW t \in Seq(S)
  PROVE  /\ IsPrefix(s, s)
         /\ Len(s) = 0 => IsPrefix(s, t)
         /\ IsPrefix(s, t) => Len(s) <= Len(t)
         /\ IsPrefix(s, t) /\ Len(t) <= Len(s) => s = t
         /\ \A v \in S : IsPrefix(s, Append(s, v))
<1>1. Len(s) \in Nat /\ Len(t) \in Nat
  OBVIOUS
<1>2. IsPrefix(s, s)
  BY <1>1, PrefixElements
<1>3. ASSUME Len(s) = 0 PROVE IsPrefix(s, t)
  <2>1. Len(s) <= Len(t) /\ \A i \in 1..Len(s) : s[i] = t[i]
    BY <1>1, <1>3
  <2> QED BY <2>1, PrefixElements
<1>4. ASSUME IsPrefix(s, t) PROVE Len(s) <= Len(t)
  BY <1>4, PrefixElements
<1>5. ASSUME IsPrefix(s, t), Len(t) <= Len(s) PROVE s = t
  <2>1. Len(s) = Len(t) /\ \A i \in 1..Len(s) : s[i] = t[i]
    BY <1>1, <1>5, PrefixElements
  <2> QED BY <2>1, SeqEqual
<1>6. ASSUME NEW v \in S PROVE IsPrefix(s, Append(s, v))
  <2> DEFINE u == Append(s, v)
  <2>1. u \in Seq(S) /\ Len(u) = Len(s) + 1 /\ \A i \in 1..Len(s) : u[i] = s[i]
    BY AppendProperties
  <2> HIDE DEF u
  <2>2. IsPrefix(s, u)
    BY <1>1, <2>1, PrefixElements
  <2> QED BY <2>2 DEF u
<1> QED BY <1>2, <1>3, <1>4, <1>5, <1>6

LEMMA PrefixTransitive ==
  ASSUME NEW S, NEW s \in Seq(S), NEW t \in Seq(S), NEW u \in Seq(S),
         IsPrefix(s, t), IsPrefix(t, u)
  PROVE  IsPrefix(s, u)
<1>1. /\ Len(s) \in Nat /\ Len(t) \in Nat /\ Len(u) \in Nat
      /\ Len(s) <= Len(t) /\ \A i \in 1..Len(s) : s[i] = t[i]
      /\ Len(t) <= Len(u) /\ \A i \in 1..Len(t) : t[i] = u[i]
  BY PrefixElements
<1>2. Len(s) <= Len(u) /\ \A i \in 1..Len(s) : s[i] = u[i]
  BY <1>1
<1> QED BY <1>2, PrefixElements

LEMMA PrefixOfItself ==
  ASSUME NEW S, NEW t \in Seq(S), NEW n \in 0..Len(t)
  PROVE  /\ SubSeq(t, 1, n) \in Seq(S) /\ Len(SubSeq(t, 1, n)) = n
         /\ IsPrefix(SubSeq(t, 1, n), t)
<1> DEFINE s == SubSeq(t, 1, n)
<1>1. s \in Seq(S) /\ Len(s) = n /\ \A i \in 1..n : s[i] = t[i]
  OBVIOUS
<1> HIDE DEF s
<1>2. IsPrefix(s, t)
  BY <1>1, PrefixElements
<1> QED BY <1>1, <1>2 DEF s

-----------------------------------------------------------------------------
(* What a request for the start of an epoch knows of the epochs before it *)

\* A quorum has prepared o in epoch x, as a proposal or a re-proposal.
PreparedIn(x, o) == \E i \in Inputs : Prepared(x, i, o) \in Certificates

\* An oracle commits what a quorum prepared in the epoch.
CommitsFollowPrepares ==
  \A m \in msgs : m.type = "Commit" => PreparedIn(m.epoch, m.outcome)

\* No message is of an epoch its sender has not entered.
MessagesOfThePast == \A m \in msgs : m.epoch <= epoch[m.from]

\* With its request for an epoch an oracle sends a certificate that is no lower than
\* what it has signed the commit of in earlier epochs.
CommitsBeforeRequests ==
  \A m, n \in msgs :
    (/\ m.type = "Commit" /\ n.type = "EpochStartRequest"
     /\ m.from = n.from /\ m.epoch < n.epoch) => Len(m.outcome) <= SeqNr(n.cert)

KnownInv ==
  SoundInv /\ OnceInv /\ CommitsFollowPrepares /\ MessagesOfThePast /\ CommitsBeforeRequests

\* What a step adds to the messages.
NewMessages(p) ==
  /\ StepOf(p) /\ epoch[p] <= epoch'[p]
  /\ \A m \in msgs' \ msgs :
       /\ m.epoch = epoch'[p]
       /\ m.type = "Commit" => PreparedIn(m.epoch, m.outcome)
       /\ m.type = "EpochStartRequest" => m.cert = cert[p]

\* The signatures of a quorum are those of a certificate.
LEMMA LockPrepared ==
  ASSUME SoundInv, NEW p \in Honest, Lock(p)
  PROVE  PreparedIn(epoch[p], current[p].outcome)
<1> DEFINE c == Prepared(epoch[p], current[p].inputs, current[p].outcome)
           m == PrepareMsg(p, epoch[p], current[p].inputs, current[p].outcome)
<1>1. p \in Oracle /\ TypeOK /\ Sound(p) /\ phase[p] = "sentPrepare"
  BY HonestOracle DEF SoundInv, Inv, Types, Lock
<1>2. seqNr[p] \in Nat /\ cached[p] \in Nat /\ cached[p] # seqNr[p]
  BY <1>1, BoundAssumption DEF Sound, TypeOK
<1>3. IsQuorum(PrepareSigners(epoch[p], current[p].inputs, current[p].outcome))
  BY <1>2 DEF Lock, CachedQuorum
<1>4. Verified(c)
  BY <1>3 DEF Verified, Prepared
<1>5. m \in msgs /\ m.type = "Prepare" /\ c = Prepared(m.epoch, m.inputs, m.outcome)
  BY <1>1 DEF Sound, PrepareMsg, Prepared
<1> HIDE DEF m
<1>6. c \in Certificates
  BY <1>4, <1>5 DEF Certificates
<1>7. current[p].inputs \in Inputs
  BY <1>1 DEF TypeOK
<1> QED BY <1>6, <1>7 DEF PreparedIn

LEMMA StepSends ==
  ASSUME MayRestart = {}, SoundInv, Next
  PROVE  \E p \in Honest : NewMessages(p)
<1>1. Inv
  BY DEF SoundInv
<1>2. ASSUME NEW p \in Honest
      PROVE  p \in Oracle /\ TypeOK /\ epoch[p] \in Nat /\ epoch[p] <= epoch[p]
  BY <1>1, HonestOracle, BoundAssumption DEF Inv, Types, TypeOK
<1>3. ASSUME NEW p \in Honest, NEW x \in Epoch, NewEpochStart(p, x) PROVE NewMessages(p)
  <2>1. StepOf(p) /\ p \in Oracle /\ TypeOK /\ epoch[p] \in Nat /\ x \in Nat
    BY <1>1, <1>2, <1>3, NewEpochStartInv DEF Epoch
  <2>2. epoch'[p] = x /\ x > epoch[p] /\ msgs' = msgs \cup {RequestMsg(p, x, cert[p])}
    BY <1>3, <2>1 DEF NewEpochStart, TypeOK
  <2> QED BY <2>1, <2>2 DEF NewMessages, RequestMsg
<1>4. ASSUME NEW p \in Honest, NEW Q \in SUBSET Oracle, NEW c \in CertOfRequests(p),
             NEW written \in BOOLEAN, LeadEpoch(p, Q, c, written)
      PROVE  NewMessages(p)
  <2>1. StepOf(p)
    BY <1>1, <1>4, LeadEpochInv
  <2>2. epoch' = epoch /\ msgs' = msgs \cup {EpochStartMsg(p, epoch[p], c)}
    BY <1>4 DEF LeadEpoch, Send
  <2> QED BY <1>2, <2>1, <2>2 DEF NewMessages, EpochStartMsg
<1>5. ASSUME NEW p \in Honest, NEW c \in CertOfEpochStart(p), Repropose(p, c) PROVE NewMessages(p)
  <2>1. StepOf(p)
    BY <1>1, <1>5, ReproposeInv
  <2>2. epoch' = epoch /\ msgs' = msgs \cup {PrepareMsg(p, epoch[p], None, c.outcome)}
    BY <1>5 DEF Repropose
  <2> QED BY <1>2, <2>1, <2>2 DEF NewMessages, PrepareMsg
<1>6. ASSUME NEW p \in Honest, NEW c \in CertOfEpochStart(p), NEW written \in BOOLEAN,
             FollowEpoch(p, c, written)
      PROVE  NewMessages(p)
  <2>1. StepOf(p)
    BY <1>1, <1>6, FollowEpochInv
  <2>2. epoch' = epoch /\ msgs' = msgs
    BY <1>6 DEF FollowEpoch
  <2> QED BY <1>2, <2>1, <2>2 DEF NewMessages
<1>7. ASSUME NEW p \in Honest, NEW v \in Value, Propose(p, v) PROVE NewMessages(p)
  <2>1. StepOf(p)
    BY <1>1, <1>7, ProposeInv
  <2>2. epoch' = epoch /\ msgs' = msgs \cup {ProposalMsg(p, epoch[p], seqNr[p], v)}
    BY <1>7 DEF Propose, Send
  <2> QED BY <1>2, <2>1, <2>2 DEF NewMessages, ProposalMsg
<1>8. ASSUME NEW p \in Honest, NEW v \in Value, HandleProposal(p, v) PROVE NewMessages(p)
  <2>1. StepOf(p)
    BY <1>1, <1>8, HandleProposalInv
  <2>2. epoch' = epoch /\ msgs' = msgs \cup {PrepareMsg(p, epoch[p], v, Append(committed[p], v))}
    BY <1>8 DEF HandleProposal
  <2> QED BY <1>2, <2>1, <2>2 DEF NewMessages, PrepareMsg
<1>9. ASSUME NEW p \in Honest, Lock(p) PROVE NewMessages(p)
  <2>1. StepOf(p)
    BY <1>1, <1>9, LockInv
  <2>2. epoch' = epoch /\ msgs' = msgs \cup {CommitMsg(p, epoch[p], current[p].outcome)}
    BY <1>9 DEF Lock
  <2>3. PreparedIn(epoch[p], current[p].outcome)
    BY <1>9, LockPrepared
  <2> QED BY <1>2, <2>1, <2>2, <2>3 DEF NewMessages, CommitMsg
<1>10. ASSUME NEW p \in Honest, NEW written \in BOOLEAN, FinishRound(p, written)
       PROVE  NewMessages(p)
  <2>1. StepOf(p)
    BY <1>1, <1>10, FinishRoundInv
  <2>2. epoch' = epoch /\ msgs' = msgs
    BY <1>10 DEF FinishRound
  <2> QED BY <1>2, <2>1, <2>2 DEF NewMessages
<1>11. ASSUME NEW p \in Honest, Restart(p) PROVE FALSE
  BY <1>11 DEF Restart
<1> QED BY <1>3, <1>4, <1>5, <1>6, <1>7, <1>8, <1>9, <1>10, <1>11 DEF Next

LEMMA PreparedStays ==
  ASSUME msgs \subseteq msgs', NEW x, NEW o, PreparedIn(x, o)
  PROVE  PreparedIn(x, o)'
BY MoreMessages DEF PreparedIn

LEMMA KnownStep ==
  ASSUME MayRestart = {}, FailingDB = {}
  PROVE  KnownInv /\ [Next]_vars => KnownInv'
<1> SUFFICES ASSUME KnownInv, [Next]_vars PROVE KnownInv'
  OBVIOUS
<1>1. SoundInv /\ SoundInv' /\ OnceInv'
  BY SoundStep, OnceStep DEF KnownInv
<1>2. CASE UNCHANGED vars
  <2>1. msgs' = msgs /\ epoch' = epoch
    BY <1>2 DEF vars
  <2>2. CommitsFollowPrepares'
    BY <2>1, PreparedStays DEF KnownInv, CommitsFollowPrepares
  <2>3. MessagesOfThePast' /\ CommitsBeforeRequests'
    BY <2>1 DEF KnownInv, MessagesOfThePast, CommitsBeforeRequests, SeqNr
  <2> QED BY <1>1, <2>2, <2>3 DEF KnownInv
<1>3. CASE Next
  <2>1. PICK p \in Honest : NewMessages(p)
    BY <1>1, <1>3, StepSends
  <2>2. /\ msgs \subseteq msgs' /\ p \in Oracle /\ Locked(p) /\ TypeOK
        /\ \A m \in msgs' \ msgs : m.from = p /\ m.epoch = epoch'[p]
        /\ \A m \in msgs : m.from \in Oracle /\ m.epoch \in Nat /\ m.epoch <= epoch[m.from]
        /\ epoch[p] \in Nat /\ epoch'[p] \in Nat /\ epoch[p] <= epoch'[p]
        /\ \A q \in Oracle \ {p} : epoch'[q] = epoch[q]
    <3>1. msgs \subseteq msgs' /\ p \in Oracle /\ Locked(p) /\ TypeOK /\ TypeOK'
      BY <1>1, <2>1, HonestOracle DEF NewMessages, StepOf, SoundInv, Inv, Types
    <3>2. \A m \in msgs : m.from \in Oracle /\ m.epoch \in Nat /\ m.epoch <= epoch[m.from]
      BY <3>1, HonestOracle DEF TypeOK, Epoch, KnownInv, MessagesOfThePast
    <3>3. epoch[p] \in Nat /\ epoch'[p] \in Nat
      BY <3>1, BoundAssumption DEF TypeOK
    <3>4. /\ \A m \in msgs' \ msgs : m.from = p /\ m.epoch = epoch'[p]
          /\ epoch[p] <= epoch'[p]
          /\ \A q \in Oracle \ {p} : epoch'[q] = epoch[q]
      BY <2>1 DEF NewMessages, StepOf
    <3> QED BY <3>1, <3>2, <3>3, <3>4
  <2>3. CommitsFollowPrepares'
    <3> SUFFICES ASSUME NEW m \in msgs', m.type = "Commit" PROVE PreparedIn(m.epoch, m.outcome)'
      BY DEF CommitsFollowPrepares
    <3>1. PreparedIn(m.epoch, m.outcome)
      BY <2>1 DEF NewMessages, KnownInv, CommitsFollowPrepares
    <3> QED BY <2>2, <3>1, PreparedStays
  <2>4. MessagesOfThePast'
    <3> SUFFICES ASSUME NEW m \in msgs' PROVE m.epoch <= epoch'[m.from]
      BY DEF MessagesOfThePast
    <3>1. CASE m \in msgs /\ m.from = p
      BY <2>2, <3>1
    <3>2. CASE m \in msgs /\ m.from # p
      BY <2>2, <3>2
    <3>3. CASE m \notin msgs
      BY <2>2, <3>3
    <3> QED BY <3>1, <3>2, <3>3
  <2>5. CommitsBeforeRequests'
    <3> SUFFICES ASSUME NEW m \in msgs', NEW n \in msgs', m.type = "Commit",
                        n.type = "EpochStartRequest", m.from = n.from, m.epoch < n.epoch
                 PROVE  Len(m.outcome) <= SeqNr(n.cert)
      BY DEF CommitsBeforeRequests, SeqNr
    <3>1. CASE m \in msgs /\ n \in msgs
      BY <3>1 DEF KnownInv, CommitsBeforeRequests
    <3>2. CASE m \in msgs /\ n \notin msgs
      BY <2>1, <2>2, <3>2 DEF NewMessages, Locked
    <3>3. CASE m \notin msgs
      <4>1. m.from = p /\ m.epoch = epoch'[p] /\ n.from = p
        BY <2>2, <3>3
      <4>2. n.epoch <= epoch'[p] /\ n.epoch \in Nat
        BY <2>2, <4>1
      <4> QED BY <2>2, <4>1, <4>2
    <3> QED BY <3>1, <3>2, <3>3
  <2> QED BY <1>1, <2>3, <2>4, <2>5 DEF KnownInv
<1> QED BY <1>2, <1>3

LEMMA KnownInit == Init => KnownInv
<1> SUFFICES ASSUME Init PROVE KnownInv
  OBVIOUS
<1>1. msgs = {}
  BY DEF Init
<1> QED BY <1>1, SoundInit, OnceInit
     DEF KnownInv, CommitsFollowPrepares, MessagesOfThePast, CommitsBeforeRequests

\* A certificate other than the genesis is one of an epoch, and a quorum prepared
\* its outcome in that epoch.
LEMMA SourceOf ==
  ASSUME KnownInv, NEW c \in Certificate, Verified(c), c # Genesis
  PROVE  PreparedIn(c.epoch, c.outcome)
<1>1. CASE c.kind = "prepare"
  <2>1. IsQuorum(PrepareSigners(c.epoch, c.inputs, c.outcome))
    BY <1>1 DEF Verified
  <2>2. PICK p \in Honest : p \in PrepareSigners(c.epoch, c.inputs, c.outcome)
    BY <2>1, QuorumHasHonest DEF PrepareSigners
  <2> DEFINE m == PrepareMsg(p, c.epoch, c.inputs, c.outcome)
  <2>3. m \in msgs /\ m.type = "Prepare" /\ Prepared(c.epoch, c.inputs, c.outcome) = Prepared(m.epoch, m.inputs, m.outcome)
    BY <2>2, HonestOracle DEF PrepareSigners, PrepareMsg
  <2> HIDE DEF m
  <2>4. Verified(Prepared(c.epoch, c.inputs, c.outcome))
    BY <2>1 DEF Verified, Prepared
  <2>5. Prepared(c.epoch, c.inputs, c.outcome) \in Certificates
    BY <2>3, <2>4 DEF Certificates
  <2> QED BY <2>5 DEF PreparedIn, Certificate
<1>2. CASE c.kind = "commit"
  <2>1. IsQuorum(CommitSigners(c.epoch, c.outcome))
    BY <1>2 DEF Verified
  <2>2. PICK p \in Honest : p \in CommitSigners(c.epoch, c.outcome)
    BY <2>1, QuorumHasHonest DEF CommitSigners
  <2>3. CommitMsg(p, c.epoch, c.outcome) \in msgs
    BY <2>2, HonestOracle DEF CommitSigners
  <2>4. PreparedIn(CommitMsg(p, c.epoch, c.outcome).epoch, CommitMsg(p, c.epoch, c.outcome).outcome)
    BY <2>3 DEF KnownInv, CommitsFollowPrepares, CommitMsg
  <2> QED BY <2>4 DEF CommitMsg
<1> QED BY <1>1, <1>2, CertTypes

\* An honest oracle signed what a quorum prepared.
LEMMA PreparedBySome ==
  ASSUME KnownInv, NEW x, NEW o, PreparedIn(x, o)
  PROVE  /\ \E m \in msgs : m.type = "Prepare" /\ m.epoch = x /\ m.outcome = o
         /\ o \in Outcome /\ x \in Epoch /\ Rooted(o)
<1>1. PICK i \in Inputs : Prepared(x, i, o) \in Certificates
  BY DEF PreparedIn
<1>2. Prepared(x, i, o) # Genesis
  BY DEF Prepared, Genesis, Committed
<1>3. IsQuorum(PrepareSigners(x, i, o))
  BY <1>1, <1>2 DEF Certificates, Verified, Prepared
<1>4. PICK p \in Honest : p \in PrepareSigners(x, i, o)
  BY <1>3, QuorumHasHonest DEF PrepareSigners
<1> DEFINE m == PrepareMsg(p, x, i, o)
<1>5. m \in msgs /\ m.type = "Prepare" /\ m.epoch = x /\ m.outcome = o
  BY <1>4, HonestOracle DEF PrepareSigners, PrepareMsg
<1> HIDE DEF m
<1>6. m.outcome \in Outcome /\ m.epoch \in Epoch /\ Rooted(m.outcome)
  BY <1>5 DEF KnownInv, SoundInv, Inv, Types, Messages, SoundMessage
<1> QED BY <1>5, <1>6

\* A quorum prepares one outcome for a sequence number of an epoch.
LEMMA PreparedOnce ==
  ASSUME KnownInv, NEW x, NEW o, NEW u, PreparedIn(x, o), PreparedIn(x, u), Len(o) = Len(u)
  PROVE  o = u
<1>1. PICK i, j \in Inputs : Prepared(x, i, o) \in Certificates /\ Prepared(x, j, u) \in Certificates
  BY DEF PreparedIn
<1>2. PrepareUnique
  BY OnceMeansUnique DEF KnownInv
<1>3. Prepared(x, i, o) = Prepared(x, j, u)
  BY <1>1, <1>2 DEF PrepareUnique, Prepared, SeqNr
<1> QED BY <1>3 DEF Prepared

\* What a quorum committed it had prepared.
LEMMA CommittedPrepared ==
  ASSUME KnownInv, NEW x, NEW o, Committed(x, o) \in Certificates, Len(o) > 0
  PROVE  PreparedIn(x, o) /\ o \in Outcome /\ x \in Epoch
<1> DEFINE c == Committed(x, o)
<1>1. c \in Certificate /\ Verified(c)
  <2>1. Certificates \subseteq Certificate
    BY CertificatesTypes DEF KnownInv, SoundInv, Inv
  <2> QED BY <2>1 DEF Certificates
<1>2. c # Genesis /\ c.epoch = x /\ c.outcome = o
  BY EmptyOutcome DEF Genesis, Committed
<1> HIDE DEF c
<1>3. PreparedIn(x, o)
  BY <1>1, <1>2, SourceOf
<1> QED BY <1>3, PreparedBySome

\* The start of an epoch is from a certificate that is no lower than what was
\* committed in the epochs before.
LEMMA HighEnough ==
  ASSUME KnownInv, NEW e \in Nat, NEW c \in Certificate, ValidProof(e, c),
         NEW x \in Nat, x < e, NEW o, Len(o) > 0, Committed(x, o) \in Certificates
  PROVE  Len(o) <= SeqNr(c)
<1> DEFINE S == {p \in Oracle : p \in Faulty \/ \E m \in Requests(e) : m.from = p /\ ~Less(c, m.cert)}
           T == CommitSigners(x, o)
<1>1. IsQuorum(S)
  BY DEF ValidProof
<1>2. IsQuorum(T)
  <2>1. Committed(x, o) # Genesis
    BY EmptyOutcome DEF Genesis, Committed
  <2> QED BY <2>1 DEF Certificates, Verified, Committed
<1>3. S \subseteq Oracle /\ T \subseteq Oracle
  BY DEF CommitSigners
<1>4. PICK p \in Honest : p \in S /\ p \in T
  <2> HIDE DEF S, T
  <2> QED BY <1>1, <1>2, <1>3, QuorumsIntersect
<1>5. PICK n \in Requests(e) : n.from = p /\ ~Less(c, n.cert)
  BY <1>4, HonestOracle
<1> DEFINE m == CommitMsg(p, x, o)
<1>6. m \in msgs /\ m.type = "Commit" /\ m.from = p /\ m.epoch = x /\ m.outcome = o
  BY <1>4, HonestOracle DEF CommitSigners, CommitMsg
<1> HIDE DEF m
<1>7. n \in msgs /\ n.type = "EpochStartRequest" /\ n.epoch = e
  BY <1>5 DEF Requests
<1>8. Len(o) <= SeqNr(n.cert)
  BY <1>5, <1>6, <1>7 DEF KnownInv, CommitsBeforeRequests
<1>9. SeqNr(n.cert) \in Nat /\ SeqNr(c) \in Nat /\ Len(o) \in Nat
  <2>1. n.cert \in Certificate /\ m.outcome \in Outcome
    BY <1>6, <1>7 DEF KnownInv, SoundInv, Inv, Types, Messages
  <2> QED BY <1>6, <2>1, CertTypes, OutcomeTypes
<1>10. SeqNr(n.cert) <= SeqNr(c)
  BY <1>5, <1>9 DEF Less
<1> QED BY <1>8, <1>9, <1>10

-----------------------------------------------------------------------------
(* What the next epoch keeps of what was committed *)

\* o is built on the certificate that epoch e was started from.
Ground(o, e) ==
  \E c \in Certificate : c.epoch < e /\ ValidProof(e, c) /\ IsPrefix(c.outcome, o)

\* What is signed in epoch e, and what its rounds go on from, is.
Grounded(e) ==
  /\ \A m \in msgs : m.type = "Prepare" /\ m.epoch = e => Ground(m.outcome, e)
  /\ \A p \in Honest : epoch[p] = e /\ phase[p] = "newRound" => Ground(committed[p], e)

\* No prepare was signed in any other epochs.
Only(d, e) == \A m \in msgs : m.type = "Prepare" => m.epoch \in {d, e}

GroundInv == \A d, e \in Nat : d < e /\ Only(d, e) => Grounded(e)

LEMMA InEpochs ==
  ASSUME KnownInv, NEW d, NEW e, Only(d, e), NEW x, NEW o, PreparedIn(x, o)
  PROVE  x \in {d, e}
BY PreparedBySome DEF Only

LEMMA PreparedIsGrounded ==
  ASSUME KnownInv, NEW e, Grounded(e), NEW o, PreparedIn(e, o)
  PROVE  Ground(o, e)
BY PreparedBySome DEF Grounded

\* The certificate that epoch e was started from is built on everything that was
\* committed in epoch d.  If it is longer, what it is built on was committed too, in
\* epoch d or in e, where it is built on the certificate of a proof again.
LEMMA ProofExtends ==
  ASSUME KnownInv, NEW d \in Nat, NEW e \in Nat, d < e, Only(d, e), Grounded(e),
         NEW c \in Certificate, ValidProof(e, c), c.epoch < e,
         NEW o, Len(o) > 0, Committed(d, o) \in Certificates
  PROVE  IsPrefix(o, c.outcome)
<1>1. /\ PreparedIn(d, o) /\ o \in Outcome /\ o \in Seq(Value) /\ Len(o) \in Nat
  BY CommittedPrepared, OutcomeTypes
<1>2. c.outcome \in Outcome /\ c.outcome \in Seq(Value) /\ Len(c.outcome) \in Nat /\ SeqNr(c) = Len(c.outcome)
  BY CertTypes, OutcomeTypes DEF SeqNr
<1>3. Len(o) <= Len(c.outcome)
  BY <1>2, HighEnough
<1>4. ASSUME NEW b \in Certificate, ValidProof(e, b), b.epoch < e, Len(b.outcome) = Len(o)
      PROVE  b.outcome = o
  <2>1. Verified(b) /\ b # Genesis
    BY <1>4, EmptyOutcome DEF ValidProof, Genesis, Committed
  <2>2. PreparedIn(b.epoch, b.outcome)
    BY <2>1, SourceOf
  <2>3. b.epoch = d
    BY <1>4, <2>2, InEpochs
  <2> QED BY <1>1, <1>4, <2>2, <2>3, PreparedOnce
<1>5. CASE Len(o) = Len(c.outcome)
  BY <1>1, <1>4, <1>5, PrefixFacts
<1>6. CASE Len(o) < Len(c.outcome)
  <2> DEFINE u == SubSeq(c.outcome, 1, Len(o))
  <2>1. u \in Seq(Value) /\ Len(u) = Len(o) /\ IsPrefix(u, c.outcome)
    BY <1>1, <1>2, <1>3, PrefixOfItself
  <2>2. ByQuorum(u)
    <3>1. Verified(c) /\ c # Genesis
      BY <1>1, <1>6, EmptyOutcome DEF ValidProof, Genesis, Committed
    <3>2. Rooted(c.outcome)
      BY <3>1, SourceOf, PreparedBySome
    <3>3. Len(o) \in 1..Len(c.outcome) - 1
      BY <1>1, <1>2, <1>6
    <3> QED BY <3>2, <3>3 DEF Rooted
  <2> HIDE DEF u
  <2>3. PICK y \in Epoch : Committed(y, u) \in Certificates
    BY <2>2 DEF ByQuorum
  <2>4. PreparedIn(y, u)
    BY <2>1, <2>3, CommittedPrepared
  <2>5. y \in {d, e}
    BY <2>4, InEpochs
  <2>6. CASE y = d
    BY <1>1, <2>1, <2>4, <2>6, PreparedOnce
  <2>7. CASE y = e
    <3>1. PICK b \in Certificate : b.epoch < e /\ ValidProof(e, b) /\ IsPrefix(b.outcome, u)
      BY <2>4, <2>7, PreparedIsGrounded DEF Ground
    <3>2. b.outcome \in Seq(Value) /\ Len(b.outcome) \in Nat /\ SeqNr(b) = Len(b.outcome)
      BY CertTypes, OutcomeTypes DEF SeqNr
    <3>3. Len(o) <= Len(b.outcome)
      BY <3>1, <3>2, HighEnough
    <3>4. b.outcome = u
      BY <2>1, <3>1, <3>2, <3>3, PrefixFacts
    <3>5. u = o
      BY <1>4, <2>1, <3>1, <3>4
    <3> QED BY <2>1, <3>5
  <2> QED BY <2>5, <2>6, <2>7
<1> QED BY <1>1, <1>2, <1>3, <1>5, <1>6

\* So the proof of the start of an epoch gives what it starts from its ground.
LEMMA GroundOfProof ==
  ASSUME KnownInv, NEW d \in Nat, NEW e \in Nat, d < e, Only(d, e), Grounded(e),
         NEW c \in Certificate, ValidProof(e, c)
  PROVE  Ground(c.outcome, e)
<1>1. c.outcome \in Seq(Value) /\ c.epoch \in Nat
  BY CertTypes, OutcomeTypes, BoundAssumption DEF Certificate
<1>2. CASE c.epoch < e
  BY <1>1, <1>2, PrefixFacts DEF Ground
<1>3. CASE ~(c.epoch < e)
  <2>1. Verified(c) /\ c # Genesis
    BY <1>3 DEF ValidProof, Genesis, Committed
  <2>2. PreparedIn(c.epoch, c.outcome)
    BY <2>1, SourceOf
  <2>3. c.epoch = e
    BY <1>1, <1>3, <2>2, InEpochs
  <2> QED BY <2>2, <2>3, PreparedIsGrounded
<1> QED BY <1>2, <1>3

\* What was committed has the ground of whatever is no longer.
LEMMA GroundOfCommitted ==
  ASSUME KnownInv, NEW d \in Nat, NEW e \in Nat, d < e, Only(d, e), Grounded(e),
         NEW o \in Outcome, \A s \in 1..Len(o) : ByQuorum(SubSeq(o, 1, s)),
         NEW u \in Outcome, Ground(u, e), Len(u) <= Len(o)
  PROVE  Ground(o, e)
<1>1. PICK c \in Certificate : c.epoch < e /\ ValidProof(e, c) /\ IsPrefix(c.outcome, u)
  BY DEF Ground
<1>2. /\ o \in Seq(Value) /\ u \in Seq(Value) /\ c.outcome \in Seq(Value)
      /\ Len(o) \in Nat /\ Len(u) \in Nat /\ Len(c.outcome) \in Nat
  BY CertTypes, OutcomeTypes
<1>3. Len(c.outcome) <= Len(u)
  BY <1>1, <1>2, PrefixFacts
<1>4. CASE Len(o) = 0
  <2>1. Len(c.outcome) = 0
    BY <1>2, <1>3, <1>4
  <2> QED BY <1>1, <1>2, <2>1, PrefixFacts DEF Ground
<1>5. CASE Len(o) > 0
  <2>1. ByQuorum(o)
    <3>1. Len(o) \in 1..Len(o)
      BY <1>2, <1>5
    <3> QED BY <1>2, <3>1, SubSeqFull
  <2>2. PICK y \in Epoch : Committed(y, o) \in Certificates
    BY <2>1 DEF ByQuorum
  <2>3. PreparedIn(y, o)
    BY <1>5, <2>2, CommittedPrepared
  <2>4. CASE y = e
    BY <2>3, <2>4, PreparedIsGrounded
  <2>5. CASE y = d
    <3>1. IsPrefix(o, c.outcome)
      BY <1>1, <1>5, <2>2, <2>5, ProofExtends
    <3>2. o = c.outcome
      BY <1>2, <1>3, <3>1, PrefixFacts
    <3> QED BY <1>1, <1>2, <3>2, PrefixFacts DEF Ground
  <2> QED BY <2>3, <2>4, <2>5, InEpochs
<1> QED BY <1>2, <1>4, <1>5

LEMMA GroundStays ==
  ASSUME msgs \subseteq msgs'
  PROVE  \A o, e : Ground(o, e) => Ground(o, e)'
BY MoreMessages DEF Ground

\* A step of p that signs grounded prepares, and goes on from a grounded outcome.
LEMMA GroundedStays ==
  ASSUME KnownInv, NEW e \in Nat, Grounded(e), NEW p \in Honest, StepOf(p),
         \A m \in msgs' \ msgs : m.type = "Prepare" /\ m.epoch = e => Ground(m.outcome, e),
         epoch'[p] = e /\ phase'[p] = "newRound" => Ground(committed'[p], e)
  PROVE  Grounded(e)'
<1>1. msgs \subseteq msgs'
  BY DEF StepOf
<1>2. \A o : Ground(o, e) => Ground(o, e)'
  BY <1>1, GroundStays
<1>3. ASSUME NEW m \in msgs', m.type = "Prepare", m.epoch = e PROVE Ground(m.outcome, e)'
  <2>1. Ground(m.outcome, e)
    BY <1>3 DEF Grounded
  <2> QED BY <1>2, <2>1
<1>4. ASSUME NEW q \in Honest, epoch'[q] = e, phase'[q] = "newRound"
      PROVE  Ground(committed'[q], e)
  <2>1. CASE q = p
    BY <1>4, <2>1
  <2>2. CASE q # p
    <3>1. epoch'[q] = epoch[q] /\ phase'[q] = phase[q] /\ committed'[q] = committed[q]
      BY <2>2, HonestOracle DEF StepOf
    <3>2. Ground(committed[q], e)
      BY <1>4, <3>1 DEF Grounded
    <3> QED BY <3>1, <3>2
  <2> QED BY <2>1, <2>2
<1>5. ASSUME NEW q \in Honest, epoch'[q] = e, phase'[q] = "newRound"
      PROVE  Ground(committed[q], e)'
  BY <1>2, <1>4, <1>5
<1> QED BY <1>3, <1>5 DEF Grounded

\* The leader's message, or the proof a faulty leader sends, is a valid proof.
LEMMA StartIsValid ==
  ASSUME KnownInv, NEW p \in Honest, NEW c \in CertOfEpochStart(p), CanStartEpoch(p, c)
  PROVE  c \in Certificate /\ ValidProof(epoch[p], c)
<1>1. c \in Certificate
  BY TakenIsVerified DEF KnownInv
<1>2. CASE Leader[epoch[p]] \in Faulty
  BY <1>1, <1>2 DEF CanStartEpoch
<1>3. CASE Leader[epoch[p]] \notin Faulty
  <2> DEFINE m == EpochStartMsg(Leader[epoch[p]], epoch[p], c)
  <2>1. m \in msgs
    <3>1. m \in Received(p)
      BY <1>3 DEF CanStartEpoch
    <3>2. Received(p) \subseteq msgs
      BY HonestOracle DEF Received, KnownInv, SoundInv, Inv, Types, Messages
    <3> QED BY <3>1, <3>2
  <2>2. m.type = "EpochStart" /\ m.epoch = epoch[p] /\ m.cert = c
    BY DEF EpochStartMsg
  <2> HIDE DEF m
  <2>3. ValidProof(m.epoch, m.cert)
    BY <2>1, <2>2 DEF KnownInv, SoundInv, SoundMessage
  <2> QED BY <1>1, <2>2, <2>3
<1> QED BY <1>2, <1>3

LEMMA FollowEpochGround ==
  ASSUME FailingDB = {}, KnownInv, NEW d \in Nat, NEW e \in Nat, d < e, Only(d, e), Grounded(e),
         NEW p \in Honest, NEW c \in CertOfEpochStart(p), NEW written \in BOOLEAN,
         FollowEpoch(p, c, written)
  PROVE  Grounded(e)'
<1>1. /\ p \in Oracle /\ Types /\ committed[p] \in Outcome /\ Len(committed[p]) \in Nat
      /\ \A s \in 1..Len(committed[p]) : ByQuorum(SubSeq(committed[p], 1, s))
  <2>1. p \in Oracle /\ Types /\ committed[p] \in Outcome
    BY HonestOracle DEF KnownInv, SoundInv, Inv, Types, TypeOK
  <2>2. \A s \in 1..Len(committed[p]) : ByQuorum(SubSeq(committed[p], 1, s))
    BY DEF KnownInv, SoundInv, Sound
  <2> QED BY <2>1, <2>2, OutcomeTypes
<1>2. /\ CanStartEpoch(p, c) /\ msgs' = msgs /\ epoch' = epoch
      /\ (c = Genesis /\ committed' = committed) \/ Commit(p, c, written)
  BY DEF FollowEpoch
<1>3. c \in Certificate /\ ValidProof(epoch[p], c)
  BY <1>2, StartIsValid
<1>4. c.outcome \in Outcome /\ SeqNr(c) = Len(c.outcome) /\ SeqNr(c) \in Nat
  BY <1>3, CertTypes DEF SeqNr
<1>5. committed'[p] = c.outcome \/ (committed'[p] = committed[p] /\ SeqNr(c) <= Len(committed[p]))
  <2>1. CASE c = Genesis /\ committed' = committed
    BY <1>1, <2>1, EmptyOutcome DEF Genesis, Committed, SeqNr
  <2>2. CASE Commit(p, c, written)
    <3>1. committed'[p] \in {committed[p], c.outcome} /\ Len(committed'[p]) >= SeqNr(c)
      BY <1>1, <1>3, <2>2, CommitEffect
    <3> QED BY <1>1, <1>4, <3>1
  <2> QED BY <1>2, <2>1, <2>2
<1>6. ASSUME epoch[p] = e PROVE Ground(committed'[p], e)
  <2>1. Ground(c.outcome, e)
    BY <1>3, <1>6, GroundOfProof
  <2>2. ASSUME SeqNr(c) <= Len(committed[p]) PROVE Ground(committed[p], e)
    BY <1>1, <1>4, <2>1, <2>2, GroundOfCommitted
  <2> QED BY <1>5, <2>1, <2>2
<1>7. StepOf(p)
  BY FollowEpochInv DEF KnownInv, SoundInv
<1> QED BY <1>2, <1>6, <1>7, GroundedStays

LEMMA ReproposeGround ==
  ASSUME KnownInv, NEW d \in Nat, NEW e \in Nat, d < e, Only(d, e), Grounded(e),
         NEW p \in Honest, NEW c \in CertOfEpochStart(p), Repropose(p, c)
  PROVE  Grounded(e)'
<1>1. /\ CanStartEpoch(p, c) /\ phase'[p] = "sentPrepare"
      /\ msgs' = msgs \cup {PrepareMsg(p, epoch[p], None, c.outcome)}
  <2>1. p \in Oracle /\ TypeOK
    BY HonestOracle DEF KnownInv, SoundInv, Inv, Types
  <2> QED BY <2>1 DEF Repropose, TypeOK
<1>2. c \in Certificate /\ ValidProof(epoch[p], c)
  BY <1>1, StartIsValid
<1>3. epoch[p] = e => Ground(c.outcome, e)
  BY <1>2, GroundOfProof
<1>4. \A m \in msgs' \ msgs : m.epoch = e => Ground(m.outcome, e)
  BY <1>1, <1>3 DEF PrepareMsg
<1>5. StepOf(p)
  BY ReproposeInv DEF KnownInv, SoundInv
<1> QED BY <1>1, <1>4, <1>5, GroundedStays

LEMMA HandleProposalGround ==
  ASSUME KnownInv, NEW e \in Nat, Grounded(e),
         NEW p \in Honest, NEW v \in Value, HandleProposal(p, v)
  PROVE  Grounded(e)'
<1>1. p \in Oracle /\ TypeOK /\ committed[p] \in Seq(Value)
  <2>1. p \in Oracle /\ TypeOK /\ committed[p] \in Outcome
    BY HonestOracle DEF KnownInv, SoundInv, Inv, Types, TypeOK
  <2> QED BY <2>1, OutcomeTypes
<1>2. /\ phase[p] = "newRound" /\ phase'[p] = "sentPrepare"
      /\ msgs' = msgs \cup {PrepareMsg(p, epoch[p], v, Append(committed[p], v))}
  BY <1>1 DEF HandleProposal, TypeOK
<1>3. ASSUME epoch[p] = e PROVE Ground(Append(committed[p], v), e)
  <2>1. Ground(committed[p], e)
    BY <1>2, <1>3 DEF Grounded
  <2>2. PICK c \in Certificate : c.epoch < e /\ ValidProof(e, c) /\ IsPrefix(c.outcome, committed[p])
    BY <2>1 DEF Ground
  <2>3. IsPrefix(committed[p], Append(committed[p], v)) /\ Append(committed[p], v) \in Seq(Value)
    BY <1>1, PrefixFacts, AppendProperties
  <2>4. c.outcome \in Seq(Value)
    BY CertTypes, OutcomeTypes
  <2>5. IsPrefix(c.outcome, Append(committed[p], v))
    BY <1>1, <2>2, <2>3, <2>4, PrefixTransitive
  <2> QED BY <2>2, <2>5 DEF Ground
<1>4. \A m \in msgs' \ msgs : m.epoch = e => Ground(m.outcome, e)
  <2> DEFINE o == Append(committed[p], v)
  <2>1. \A m \in msgs' \ msgs : m.epoch = epoch[p] /\ m.outcome = o
    BY <1>2 DEF PrepareMsg
  <2>2. epoch[p] = e => Ground(o, e)
    BY <1>3
  <2> HIDE DEF o
  <2> QED BY <2>1, <2>2
<1>5. StepOf(p)
  BY HandleProposalInv DEF KnownInv, SoundInv
<1> QED BY <1>2, <1>4, <1>5, GroundedStays

LEMMA FinishRoundGround ==
  ASSUME FailingDB = {}, KnownInv, NEW d \in Nat, NEW e \in Nat, d < e, Only(d, e), Grounded(e),
         NEW p \in Honest, NEW written \in BOOLEAN, FinishRound(p, written)
  PROVE  Grounded(e)'
<1> DEFINE o == current[p].outcome
           c == Committed(epoch[p], o)
<1>1. /\ p \in Oracle /\ Types /\ TypeOK /\ Placed(p) /\ Sound(p)
      /\ committed[p] \in Outcome /\ Len(committed[p]) \in Nat
      /\ o \in Outcome /\ Len(o) \in Nat
  <2>1. /\ p \in Oracle /\ Types /\ TypeOK /\ Placed(p) /\ Sound(p)
        /\ committed[p] \in Outcome /\ o \in Outcome
    BY HonestOracle DEF KnownInv, SoundInv, Inv, Types, TypeOK
  <2> QED BY <2>1, OutcomeTypes
<1>2. /\ phase[p] = "sentCommit" /\ msgs' = msgs /\ epoch' = epoch /\ Commit(p, c, written)
  BY DEF FinishRound
<1>3. c \in Certificate /\ c.outcome = o /\ SeqNr(c) = Len(o)
  <2>1. epoch[p] \in Epoch
    BY <1>1, <1>2 DEF Placed
  <2> QED BY <1>1, <2>1, BoundAssumption DEF Committed, Certificate, Epoch, Inputs, SeqNr
<1>4. PrepareMsg(p, epoch[p], current[p].inputs, o) \in msgs
  BY <1>1, <1>2 DEF Sound
<1> HIDE DEF c, o
<1>5. committed'[p] \in {committed[p], o} /\ Len(committed'[p]) >= Len(o)
  BY <1>1, <1>2, <1>3, CommitEffect
<1>6. ASSUME epoch[p] = e PROVE Ground(committed'[p], e)
  <2>1. Ground(o, e)
    BY <1>4, <1>6 DEF Grounded, PrepareMsg
  <2>2. ASSUME Len(o) <= Len(committed[p]) PROVE Ground(committed[p], e)
    <3>1. \A s \in 1..Len(committed[p]) : ByQuorum(SubSeq(committed[p], 1, s))
      BY <1>1 DEF Sound
    <3> QED BY <1>1, <2>1, <2>2, <3>1, GroundOfCommitted
  <2> QED BY <1>1, <1>5, <2>1, <2>2
<1>7. StepOf(p)
  BY FinishRoundInv DEF KnownInv, SoundInv
<1> QED BY <1>2, <1>6, <1>7, GroundedStays

LEMMA GroundStep ==
  ASSUME MayRestart = {}, FailingDB = {}
  PROVE  KnownInv /\ GroundInv /\ [Next]_vars => GroundInv'
<1> SUFFICES ASSUME KnownInv, GroundInv, [Next]_vars, NEW d \in Nat, NEW e \in Nat, d < e, Only(d, e)'
             PROVE  Grounded(e)'
  BY DEF GroundInv
<1>1. Inv
  BY DEF KnownInv, SoundInv
<1>2. CASE UNCHANGED vars
  <2>1. Grounded(e)
    BY <1>2 DEF GroundInv, Only, vars
  <2>2. msgs' = msgs /\ epoch' = epoch /\ phase' = phase /\ committed' = committed
    BY <1>2 DEF vars
  <2>3. \A o : Ground(o, e) => Ground(o, e)'
    BY <2>2, GroundStays
  <2>4. \A m \in msgs : m.type = "Prepare" /\ m.epoch = e => Ground(m.outcome, e)'
    BY <2>1, <2>3 DEF Grounded
  <2>5. \A p \in Honest : epoch[p] = e /\ phase[p] = "newRound" => Ground(committed'[p], e)
    BY <2>1, <2>2 DEF Grounded
  <2>6. \A p \in Honest : epoch[p] = e /\ phase[p] = "newRound" => Ground(committed[p], e)'
    BY <2>3, <2>5
  <2> QED BY <2>2, <2>4, <2>6 DEF Grounded
<1>3. CASE Next
  <2>1. msgs \subseteq msgs'
    <3>1. \E p \in Honest : NewMessages(p)
      BY <1>3, StepSends DEF KnownInv
    <3> QED BY <3>1 DEF NewMessages, StepOf
  <2>2. Only(d, e) /\ Grounded(e)
    <3>1. Only(d, e)
      BY <2>1 DEF Only
    <3> QED BY <3>1 DEF GroundInv
  <2>3. ASSUME NEW p \in Honest, NEW x \in Epoch, NewEpochStart(p, x) PROVE Grounded(e)'
    <3>1. p \in Oracle /\ TypeOK /\ StepOf(p)
      BY <1>1, <2>3, NewEpochStartInv, HonestOracle DEF Inv, Types
    <3>2. phase'[p] = "newEpoch" /\ \A m \in msgs' \ msgs : m.type = "EpochStartRequest"
      BY <2>3, <3>1 DEF NewEpochStart, RequestMsg, TypeOK
    <3> QED BY <2>2, <3>1, <3>2, GroundedStays
  <2>4. ASSUME NEW p \in Honest, NEW Q \in SUBSET Oracle, NEW c \in CertOfRequests(p),
               NEW written \in BOOLEAN, LeadEpoch(p, Q, c, written)
        PROVE  Grounded(e)'
    <3>1. p \in Oracle /\ Placed(p) /\ StepOf(p)
      BY <1>1, <2>4, LeadEpochInv, HonestOracle DEF Inv
    <3>2. phase'[p] = "newEpoch" /\ \A m \in msgs' \ msgs : m.type = "EpochStart"
      BY <2>4, <3>1 DEF LeadEpoch, Send, EpochStartMsg, Placed
    <3> QED BY <2>2, <3>1, <3>2, GroundedStays
  <2>5. ASSUME NEW p \in Honest, NEW v \in Value, Propose(p, v) PROVE Grounded(e)'
    <3>1. StepOf(p)
      BY <1>1, <2>5, ProposeInv
    <3>2. /\ UNCHANGED <<epoch, phase, committed>> /\ \A m \in msgs' \ msgs : m.type = "Proposal"
      BY <2>5 DEF Propose, Send, ProposalMsg
    <3>3. epoch'[p] = e /\ phase'[p] = "newRound" => Ground(committed'[p], e)
      BY <2>2, <3>2 DEF Grounded
    <3> QED BY <2>2, <3>1, <3>2, <3>3, GroundedStays
  <2>6. ASSUME NEW p \in Honest, Lock(p) PROVE Grounded(e)'
    <3>1. p \in Oracle /\ TypeOK /\ StepOf(p)
      BY <1>1, <2>6, LockInv, HonestOracle DEF Inv, Types
    <3>2. phase'[p] = "sentCommit" /\ \A m \in msgs' \ msgs : m.type = "Commit"
      BY <2>6, <3>1 DEF Lock, CommitMsg, TypeOK
    <3> QED BY <2>2, <3>1, <3>2, GroundedStays
  <2>7. ASSUME NEW p \in Honest, Restart(p) PROVE FALSE
    BY <2>7 DEF Restart
  <2> QED BY <1>3, <2>2, <2>3, <2>4, <2>5, <2>6, <2>7, FollowEpochGround, ReproposeGround,
       HandleProposalGround, FinishRoundGround DEF Next
<1> QED BY <1>2, <1>3

LEMMA GroundInit == Init => GroundInv
<1> SUFFICES ASSUME Init PROVE GroundInv
  OBVIOUS
<1>1. msgs = {} /\ \A p \in Honest : phase[p] = "unknown"
  BY HonestOracle DEF Init
<1> QED BY <1>1 DEF GroundInv, Grounded

\* A quorum commits one outcome for a sequence number, in one epoch or the other.
LEMMA CommittedOnce ==
  ASSUME KnownInv, NEW d \in Nat, NEW e \in Nat, d < e, Only(d, e), Grounded(e),
         NEW x, NEW o, Committed(x, o) \in Certificates,
         NEW y, NEW u, Committed(y, u) \in Certificates,
         Len(o) = Len(u), Len(o) > 0
  PROVE  o = u
<1>1. /\ PreparedIn(x, o) /\ o \in Seq(Value) /\ Len(o) \in Nat
      /\ PreparedIn(y, u) /\ u \in Seq(Value) /\ Len(u) \in Nat
  BY CommittedPrepared, OutcomeTypes
<1>2. x \in {d, e} /\ y \in {d, e}
  BY <1>1, InEpochs
<1>3. ASSUME NEW s \in Seq(Value), NEW t \in Seq(Value), Committed(d, s) \in Certificates,
             PreparedIn(e, t), Len(s) = Len(t), Len(s) > 0
      PROVE  s = t
  <2>1. PICK c \in Certificate : c.epoch < e /\ ValidProof(e, c) /\ IsPrefix(c.outcome, t)
    BY <1>3, PreparedIsGrounded DEF Ground
  <2>2. IsPrefix(s, c.outcome)
    BY <1>3, <2>1, ProofExtends
  <2>3. c.outcome \in Seq(Value)
    BY CertTypes, OutcomeTypes
  <2>4. IsPrefix(s, t)
    BY <2>1, <2>2, <2>3, PrefixTransitive
  <2>5. Len(t) <= Len(s)
    BY <1>3
  <2> QED BY <2>4, <2>5, PrefixFacts
<1>4. CASE x = y
  BY <1>1, <1>4, PreparedOnce
<1>5. CASE x = d /\ y = e
  BY <1>1, <1>3, <1>5
<1>6. CASE x = e /\ y = d
  <2>1. Len(u) > 0
    OBVIOUS
  <2> QED BY <1>1, <1>3, <1>6, <2>1
<1> QED BY <1>2, <1>4, <1>5, <1>6

\* The shorter of two committed outcomes is what the longer is built on.
LEMMA ShorterIsPrefix ==
  ASSUME KnownInv, NEW d \in Nat, NEW e \in Nat, d < e, Only(d, e), Grounded(e),
         NEW b \in Certificates, b.kind = "commit", NEW c \in Certificates, c.kind = "commit",
         Len(b.outcome) <= Len(c.outcome)
  PROVE  IsPrefix(b.outcome, c.outcome)
<1>1. \A z \in Certificates : z.kind = "commit" => z = Committed(z.epoch, z.outcome)
  BY DEF Certificates, Genesis, Committed, Prepared
<1>2. b \in Certificate /\ c \in Certificate /\ Verified(c)
  <2>1. Certificates \subseteq Certificate
    BY CertificatesTypes DEF KnownInv, SoundInv, Inv
  <2> QED BY <2>1 DEF Certificates
<1>3. /\ b.outcome \in Seq(Value) /\ Len(b.outcome) \in Nat
      /\ c.outcome \in Seq(Value) /\ Len(c.outcome) \in Nat
  BY <1>2, CertTypes, OutcomeTypes
<1>4. CASE Len(b.outcome) = 0
  BY <1>3, <1>4, PrefixFacts
<1>5. CASE Len(b.outcome) > 0
  <2> DEFINE u == SubSeq(c.outcome, 1, Len(b.outcome))
  <2>1. Len(u) = Len(b.outcome) /\ IsPrefix(u, c.outcome)
    BY <1>3, PrefixOfItself
  <2>2. ByQuorum(u)
    <3>1. c # Genesis
      BY <1>3, <1>5, EmptyOutcome DEF Genesis, Committed
    <3>2. Len(b.outcome) \in 1..Len(c.outcome)
      BY <1>3, <1>5
    <3> QED BY <1>2, <3>1, <3>2, CommittedIsSound DEF KnownInv
  <2> HIDE DEF u
  <2>3. PICK y \in Epoch : Committed(y, u) \in Certificates
    BY <2>2 DEF ByQuorum
  <2>4. Committed(b.epoch, b.outcome) \in Certificates
    BY <1>1
  <2>5. b.outcome = u
    BY <1>5, <2>1, <2>3, <2>4, CommittedOnce
  <2> QED BY <2>1, <2>5
<1> QED BY <1>3, <1>4, <1>5

\* All prepares that were ever signed are of two epochs.
TwoEpochs == \E d, e \in 0..MaxEpoch : Only(d, e)

LEMMA GroundAgrees == KnownInv /\ GroundInv => (TwoEpochs => Agreement)
<1> SUFFICES ASSUME KnownInv, GroundInv, TwoEpochs PROVE Agreement
  OBVIOUS
<1>1. PICK d, e \in Nat : d < e /\ Only(d, e)
  <2>1. PICK x, y \in 0..MaxEpoch : Only(x, y)
    BY DEF TwoEpochs
  <2>2. x \in Nat /\ y \in Nat /\ x + 1 \in Nat /\ x < x + 1
    BY BoundAssumption
  <2>3. CASE x = y
    BY <2>1, <2>2, <2>3 DEF Only
  <2>4. CASE x < y
    BY <2>1, <2>2, <2>4
  <2>5. CASE y < x
    BY <2>1, <2>2, <2>5 DEF Only
  <2> QED BY <2>2, <2>3, <2>4, <2>5
<1>2. Grounded(e)
  BY <1>1 DEF GroundInv
<1>3. ASSUME NEW b \in Certificates, NEW c \in Certificates, b.kind = "commit", c.kind = "commit"
      PROVE  IsPrefix(b.outcome, c.outcome) \/ IsPrefix(c.outcome, b.outcome)
  <2>1. Len(b.outcome) \in Nat /\ Len(c.outcome) \in Nat
    <3>1. b \in Certificate /\ c \in Certificate
      BY CertificatesTypes DEF KnownInv, SoundInv, Inv
    <3> QED BY <3>1, CertTypes, OutcomeTypes
  <2>2. Len(b.outcome) <= Len(c.outcome) \/ Len(c.outcome) <= Len(b.outcome)
    BY <2>1
  <2> QED BY <1>1, <1>2, <1>3, <2>2, ShorterIsPrefix
<1> QED BY <1>3 DEF Agreement

\* As long as no more than two epochs prepare anything, the outcomes that quorums commit
\* are one growing sequence, whatever the faulty oracles send and however many rounds
\* the epochs have.  With three epochs it is not so: see the run outcome_agreement.
THEOREM TwoEpochsAgree ==
  ASSUME MayRestart = {}, FailingDB = {} PROVE Spec => [](TwoEpochs => Agreement)
<1>1. Init => KnownInv /\ GroundInv
  BY KnownInit, GroundInit
<1>2. KnownInv /\ GroundInv /\ [Next]_vars => (KnownInv /\ GroundInv)'
  BY KnownStep, GroundStep
<1> QED BY <1>1, <1>2, GroundAgrees, PTL DEF Spec
=============================================================================
