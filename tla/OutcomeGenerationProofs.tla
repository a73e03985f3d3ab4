------------------------ MODULE OutcomeGenerationProofs ------------------------
(***************************************************************************)
(* Proofs about outcome generation, for any oracles, leaders and values.   *)
(***************************************************************************)
EXTENDS OutcomeGenerationProperties, FiniteSetTheorems, SequenceTheorems, TLAPS

-----------------------------------------------------------------------------
(* Outcomes and certificates *)

LEMMA OutcomeTypes ==
  ASSUME NEW o \in Outcome
  PROVE  o \in Seq(Value) /\ Len(o) \in 0..MaxSeqNr /\ Len(o) \in Nat
<1>1. PICK n \in 0..MaxSeqNr : o \in [1..n -> Value]
  BY DEF Outcome
<1> QED BY <1>1, BoundAssumption

LEMMA EmptyOutcome == <<>> \in Outcome /\ Len(<<>>) = 0
<1>1. <<>> \in [1..0 -> Value]
  OBVIOUS
<1> QED BY <1>1, BoundAssumption DEF Outcome

LEMMA NextOutcome ==
  ASSUME NEW o \in Outcome, NEW v \in Value, Len(o) < MaxSeqNr
  PROVE  Append(o, v) \in Outcome /\ Len(Append(o, v)) = Len(o) + 1
<1>1. o \in Seq(Value) /\ Len(o) \in Nat
  BY OutcomeTypes
<1>2. Append(o, v) \in Seq(Value) /\ Len(Append(o, v)) = Len(o) + 1
  BY <1>1, AppendProperties
<1>3. Append(o, v) \in [1..(Len(o) + 1) -> Value]
  <2> DEFINE a == Append(o, v)
  <2>1. a \in [1..Len(a) -> Value]
    <3> HIDE DEF a
    <3> QED BY <1>2, LenProperties DEF a
  <2> QED BY <1>2, <2>1
<1>4. Len(o) + 1 \in 0..MaxSeqNr
  BY <1>1, BoundAssumption
<1> QED BY <1>2, <1>3, <1>4 DEF Outcome

LEMMA CertTypes ==
  ASSUME NEW c \in Certificate
  PROVE  /\ c.outcome \in Outcome /\ SeqNr(c) \in Nat /\ SeqNr(c) \in 0..MaxSeqNr
         /\ c.kind \in {"prepare", "commit"}
BY OutcomeTypes DEF Certificate, SeqNr

LEMMA GenesisType == Genesis \in Certificate
BY EmptyOutcome, BoundAssumption DEF Genesis, Committed, Certificate, Inputs

\* The higher of two certificates is no lower than either.
LEMMA GreaterIsHigher ==
  ASSUME NEW c \in Certificate, NEW d \in Certificate
  PROVE  /\ Greater(c, d) \in {c, d}
         /\ ~Less(Greater(c, d), c)
         /\ SeqNr(Greater(c, d)) >= SeqNr(c) /\ SeqNr(Greater(c, d)) >= SeqNr(d)
<1>1. SeqNr(c) \in Nat /\ SeqNr(d) \in Nat
  BY CertTypes
<1> QED BY <1>1 DEF Greater, Less

-----------------------------------------------------------------------------
(* Quorums *)

LEMMA SizeOfQuorum ==
  /\ ByzQuorumSize \in Nat /\ Cardinality(Oracle) \in Nat
  /\ ByzQuorumSize <= Cardinality(Oracle) /\ ByzQuorumSize > F
  /\ 2 * ByzQuorumSize > Cardinality(Oracle) + F
<1>1. Cardinality(Oracle) \in Nat /\ F \in Nat /\ Cardinality(Oracle) >= 3 * F + 1
  BY OracleAssumption, FaultAssumption, FS_CardinalityType
<1> DEFINE n == Cardinality(Oracle)
<1> HIDE DEF n
<1> QED BY <1>1 DEF ByzQuorumSize, n

LEMMA AllAreAQuorum == IsQuorum(Oracle)
BY SizeOfQuorum DEF IsQuorum

LEMMA LargerQuorum ==
  ASSUME NEW S, NEW T, IsQuorum(S), S \subseteq T, T \subseteq Oracle
  PROVE  IsQuorum(T)
<1>1. IsFiniteSet(T) /\ Cardinality(S) <= Cardinality(T)
  BY OracleAssumption, FS_Subset
<1>2. Cardinality(S) \in Nat /\ Cardinality(T) \in Nat
  BY <1>1, FS_Subset, FS_CardinalityType
<1> QED BY <1>1, <1>2, SizeOfQuorum DEF IsQuorum

-----------------------------------------------------------------------------
(* The invariant that holds whatever crashes and whichever database fails *)

\* What the messages carry.
Messages ==
  /\ toSelf \in [Oracle -> SUBSET msgs]
  /\ \A m \in msgs :
       /\ m.from \in Honest /\ m.epoch \in Epoch
       /\ m.type = "Prepare" =>
            /\ m.inputs \in Inputs /\ m.outcome \in Outcome
            /\ m = PrepareMsg(m.from, m.epoch, m.inputs, m.outcome)
       /\ m.type = "Commit" =>
            m.outcome \in Outcome /\ m = CommitMsg(m.from, m.epoch, m.outcome)
       /\ m.type \in {"EpochStartRequest", "EpochStart"} => m.cert \in Certificate

Types == TypeOK /\ Messages

\* Where p is in its epoch.  The round goes on from what is committed; so a leader
\* that has not started its epoch has no round, and one that has does not start it
\* again.
Placed(p) ==
  /\ phase[p] # "unknown" => epoch[p] \in Epoch
  /\ phase[p] = "newRound" => seqNr[p] = Len(committed[p]) + 1
  /\ phase[p] \in {"sentPrepare", "sentCommit"} => Len(current[p].outcome) = seqNr[p]
  /\ leaderPhase[p] = "newEpoch" => phase[p] = "newEpoch" \/ Leader[epoch[p]] # p
  /\ \A m \in toSelf[p] : m.type = "EpochStart" => leaderPhase[p] = "sentEpochStart"

\* What p has signed the commit of is on its disk.
Locked(p) ==
  \A m \in msgs : m.type = "Commit" /\ m.from = p => Len(m.outcome) <= SeqNr(cert[p])

Inv == Types /\ \A p \in Honest : Placed(p) /\ Locked(p)

LEMMA HonestOracle == ASSUME NEW p \in Honest PROVE p \in Oracle /\ p \notin Faulty
BY DEF Honest

\* The certificates that an oracle can take.
LEMMA CertificatesTypes ==
  ASSUME Types
  PROVE  Certificates \subseteq Certificate
<1>1. \A m \in msgs : m.type = "Prepare" => Prepared(m.epoch, m.inputs, m.outcome) \in Certificate
  BY BoundAssumption DEF Types, Messages, Prepared, Certificate, Epoch
<1>2. \A m \in msgs : m.type = "Commit" => Committed(m.epoch, m.outcome) \in Certificate
  BY BoundAssumption DEF Types, Messages, Committed, Certificate, Epoch, Inputs
<1> QED BY <1>1, <1>2, GenesisType DEF Certificates

LEMMA TakenTypes ==
  ASSUME Types, NEW p \in Honest
  PROVE  CertOfRequests(p) \subseteq Certificate /\ CertOfEpochStart(p) \subseteq Certificate
BY CertificatesTypes DEF Types, Messages, CertOfRequests, CertOfEpochStart, Requests

\* A step of p changes nothing of the other oracles, and sends in its own name.
StepOf(p) ==
  /\ \A q \in Oracle \ {p} :
       /\ epoch'[q] = epoch[q] /\ phase'[q] = phase[q] /\ seqNr'[q] = seqNr[q]
       /\ current'[q] = current[q] /\ cached'[q] = cached[q]
       /\ cert'[q] = cert[q] /\ committed'[q] = committed[q]
       /\ leaderPhase'[q] = leaderPhase[q] /\ toSelf'[q] = toSelf[q]
  /\ msgs \subseteq msgs' /\ \A m \in msgs' \ msgs : m.from = p

LEMMA OthersStay ==
  ASSUME Inv, NEW p \in Honest, StepOf(p), Types', Placed(p)', Locked(p)'
  PROVE  Inv'
<1>1. ASSUME NEW q \in Honest PROVE Placed(q)' /\ Locked(q)'
  <2>1. CASE q = p
    BY <2>1
  <2>2. CASE q # p
    <3>1. q \in Oracle \ {p} /\ Placed(q) /\ Locked(q)
      BY <1>1, <2>2, HonestOracle DEF Inv
    <3>2. Placed(q)'
      BY <3>1 DEF StepOf, Placed
    <3>3. Locked(q)'
      BY <2>2, <3>1 DEF StepOf, Locked
    <3> QED BY <3>2, <3>3
  <2> QED BY <2>1, <2>2
<1> QED BY <1>1 DEF Inv

\* A commit: the certificate of p goes up or stays, and so does what it committed.
LEMMA CommitEffect ==
  ASSUME Types, NEW p \in Honest, NEW c \in Certificate, NEW written \in BOOLEAN,
         Commit(p, c, written)
  PROVE  /\ cert' \in [Oracle -> Certificate] /\ committed' \in [Oracle -> Outcome]
         /\ \A q \in Oracle \ {p} : cert'[q] = cert[q] /\ committed'[q] = committed[q]
         /\ cert'[p] \in {cert[p], c} /\ ~Less(cert'[p], cert[p])
         /\ SeqNr(cert'[p]) >= SeqNr(cert[p])
         /\ committed'[p] \in {committed[p], c.outcome}
         /\ Len(committed'[p]) >= Len(committed[p])
         /\ FailingDB = {} => Len(committed'[p]) >= SeqNr(c)
<1>1. p \in Oracle /\ cert \in [Oracle -> Certificate] /\ committed \in [Oracle -> Outcome]
  BY HonestOracle DEF Types, TypeOK
<1>2. cert[p] \in Certificate /\ committed[p] \in Outcome /\ c.outcome \in Outcome
  BY <1>1, CertTypes
<1>3. /\ SeqNr(c) \in Nat /\ SeqNr(cert[p]) \in Nat /\ Len(committed[p]) \in Nat
      /\ SeqNr(c) = Len(c.outcome) /\ ~Less(cert[p], cert[p])
  BY <1>2, CertTypes, OutcomeTypes DEF SeqNr, Less
<1>4. /\ cert' = [cert EXCEPT ![p] =
            IF TakesCommit(p, c, written) THEN Greater(cert[p], c) ELSE cert[p]]
      /\ committed' = [committed EXCEPT ![p] =
            IF TakesCommit(p, c, written) THEN c.outcome ELSE committed[p]]
      /\ FailingDB = {} => written
  BY DEF Commit
<1>5. CASE TakesCommit(p, c, written)
  <2>1. SeqNr(c) > Len(committed[p])
    BY <1>5 DEF TakesCommit
  <2>2. cert' = [cert EXCEPT ![p] = Greater(cert[p], c)]
        /\ committed' = [committed EXCEPT ![p] = c.outcome]
    BY <1>4, <1>5
  <2>3. /\ Greater(cert[p], c) \in {cert[p], c} /\ ~Less(Greater(cert[p], c), cert[p])
        /\ SeqNr(Greater(cert[p], c)) >= SeqNr(cert[p])
    BY <1>2, GreaterIsHigher
  <2>4. Greater(cert[p], c) \in Certificate
    BY <1>2, <2>3
  <2> HIDE DEF Greater, Less, SeqNr
  <2> QED BY <1>1, <1>2, <1>3, <2>1, <2>2, <2>3, <2>4
<1>6. CASE ~TakesCommit(p, c, written)
  <2>1. cert' = cert /\ committed' = committed
    BY <1>1, <1>4, <1>6
  <2>2. FailingDB = {} => Len(committed[p]) >= SeqNr(c)
    BY <1>3, <1>4, <1>6 DEF TakesCommit
  <2> QED BY <1>1, <1>3, <2>1, <2>2
<1> QED BY <1>5, <1>6

-----------------------------------------------------------------------------
(* The actions *)

\* A certificate that does not go down keeps the lock.
LEMMA LockedKept ==
  ASSUME Types, NEW p \in Honest, Locked(p),
         cert' \in [Oracle -> Certificate], SeqNr(cert'[p]) >= SeqNr(cert[p]),
         \A m \in msgs' \ msgs : m.type # "Commit"
  PROVE  Locked(p)'
<1>1. cert[p] \in Certificate /\ cert'[p] \in Certificate
  BY HonestOracle DEF Types, TypeOK
<1>2. SeqNr(cert[p]) \in Nat /\ SeqNr(cert'[p]) \in Nat
  BY <1>1, CertTypes
<1>3. \A m \in msgs : m.type = "Commit" => Len(m.outcome) \in Nat
  BY OutcomeTypes DEF Types, Messages
<1>4. ASSUME NEW m \in msgs', m.type = "Commit", m.from = p
      PROVE  Len(m.outcome) <= SeqNr(cert'[p])
  <2>1. m \in msgs /\ Len(m.outcome) <= SeqNr(cert[p])
    BY <1>4 DEF Locked
  <2> HIDE DEF SeqNr
  <2> QED BY <1>2, <1>3, <1>4, <2>1
<1> QED BY <1>4 DEF Locked, SeqNr

LEMMA InvInit == Init => Inv
<1> SUFFICES ASSUME Init PROVE Inv
  OBVIOUS
<1>1. TypeOK
  BY EmptyOutcome, GenesisType, BoundAssumption DEF Init, TypeOK, NoOutcome, Inputs, Phase
<1>2. Messages
  BY DEF Init, Messages
<1>3. \A p \in Honest : Placed(p) /\ Locked(p)
  BY HonestOracle DEF Init, Placed, Locked
<1> QED BY <1>1, <1>2, <1>3 DEF Inv, Types

LEMMA NewEpochStartInv ==
  ASSUME Inv, NEW p \in Honest, NEW x \in Epoch, NewEpochStart(p, x)
  PROVE  Inv' /\ StepOf(p)
<1>1. p \in Oracle /\ TypeOK /\ Messages /\ Locked(p) /\ cert[p] \in Certificate
  BY HonestOracle DEF Inv, Types, TypeOK
<1>2. TypeOK'
  <2>1. x \in 0..MaxEpoch /\ x \in Nat /\ 0 \in 0..MaxSeqNr + 1 /\ 0 \in 0..MaxSeqNr
    BY BoundAssumption DEF Epoch
  <2>2. NoOutcome \in [inputs : Inputs, outcome : Outcome] /\ None \in Inputs
    BY EmptyOutcome DEF NoOutcome, Inputs
  <2>3. \A m \in msgs' : m.from \in Honest /\ m.epoch \in Epoch
    BY <1>1 DEF NewEpochStart, TypeOK, RequestMsg
  <2>4. \A m \in msgs' : m.type \in {"EpochStart", "Proposal"} => m.from = Leader[m.epoch]
    BY <1>1 DEF NewEpochStart, TypeOK, RequestMsg
  <2> QED BY <1>1, <2>1, <2>2, <2>3, <2>4 DEF NewEpochStart, TypeOK, Phase
<1>3. Messages'
  BY <1>1 DEF NewEpochStart, Messages, RequestMsg
<1>4. StepOf(p)
  BY <1>1 DEF NewEpochStart, StepOf, TypeOK, Messages, RequestMsg
<1>5. Placed(p)'
  BY <1>1 DEF NewEpochStart, Placed, TypeOK, Messages, RequestMsg
<1>6. Locked(p)'
  BY <1>1 DEF NewEpochStart, Locked, RequestMsg
<1> QED BY <1>2, <1>3, <1>4, <1>5, <1>6, OthersStay DEF Types

LEMMA LeadEpochInv ==
  ASSUME Inv, NEW p \in Honest, NEW Q \in SUBSET Oracle, NEW c \in CertOfRequests(p),
         NEW written \in BOOLEAN, LeadEpoch(p, Q, c, written)
  PROVE  Inv' /\ StepOf(p)
<1> DEFINE m == EpochStartMsg(p, epoch[p], c)
<1>1. /\ p \in Oracle /\ TypeOK /\ Messages /\ Placed(p) /\ Locked(p) /\ c \in Certificate
      /\ epoch[p] \in Epoch /\ Leader[epoch[p]] = p /\ leaderPhase[p] = "newEpoch"
      /\ phase[p] = "newEpoch"
  BY HonestOracle, TakenTypes DEF Inv, Types, LeadEpoch, Placed
<1>2. /\ cert' \in [Oracle -> Certificate] /\ committed' \in [Oracle -> Outcome]
      /\ \A q \in Oracle \ {p} : cert'[q] = cert[q] /\ committed'[q] = committed[q]
      /\ SeqNr(cert'[p]) >= SeqNr(cert[p])
  <2>1. CASE UNCHANGED <<cert, committed>>
    BY <1>1, <2>1, CertTypes DEF TypeOK
  <2>2. CASE Commit(p, c, written)
    BY <1>1, <2>2, CommitEffect DEF Types
  <2> QED BY <2>1, <2>2 DEF LeadEpoch
<1>3. /\ leaderPhase' = [leaderPhase EXCEPT ![p] = "sentEpochStart"]
      /\ msgs' = msgs \cup {m} /\ toSelf' = [toSelf EXCEPT ![p] = @ \cup {m}]
      /\ UNCHANGED <<epoch, startedEpoch, phase, seqNr, proposal, current, cached, completed>>
  BY DEF LeadEpoch, Send
<1>4. firstSeqNr' \in [Oracle -> 0..MaxSeqNr + 1]
  <2>1. SeqNr(c) + 1 \in 0..MaxSeqNr + 1
    BY <1>1, CertTypes, BoundAssumption
  <2>2. Len(committed'[p]) + 1 \in 0..MaxSeqNr + 1
    BY <1>1, <1>2, OutcomeTypes, BoundAssumption
  <2> QED BY <1>1, <2>1, <2>2 DEF LeadEpoch, TypeOK
<1>5. m.type = "EpochStart" /\ m.from = p /\ m.epoch = epoch[p] /\ m.cert = c
  BY DEF EpochStartMsg
<1> HIDE DEF m
<1>6. TypeOK'
  BY <1>1, <1>2, <1>3, <1>4, <1>5 DEF TypeOK
<1>7. Messages'
  BY <1>1, <1>3, <1>5 DEF Messages
<1>8. StepOf(p)
  BY <1>1, <1>2, <1>3, <1>5 DEF StepOf, TypeOK, Messages
<1>9. Placed(p)'
  BY <1>1, <1>3, <1>5 DEF Placed, TypeOK, Messages
<1>10. Locked(p)'
  BY <1>1, <1>2, <1>3, <1>5, LockedKept DEF Types
<1> QED BY <1>6, <1>7, <1>8, <1>9, <1>10, OthersStay DEF Types

\* The round after the committed outcome.
LEMMA FollowerRoundEffect ==
  ASSUME Types, NEW p \in Honest, Placed(p), committed' \in [Oracle -> Outcome],
         StartSubsequentFollowerRound(p)
  PROVE  /\ seqNr' \in [Oracle -> 0..MaxSeqNr + 1] /\ phase' \in [Oracle -> Phase]
         /\ current' \in [Oracle -> [inputs : Inputs, outcome : Outcome]]
         /\ proposal' \in [Oracle -> Inputs] /\ cached' \in [Oracle -> 0..MaxSeqNr]
         /\ \A q \in Oracle \ {p} : /\ seqNr'[q] = seqNr[q] /\ phase'[q] = phase[q]
                                  /\ current'[q] = current[q] /\ cached'[q] = cached[q]
         /\ phase'[p] = "newRound" /\ seqNr'[p] = Len(committed'[p]) + 1
         /\ \/ cached'[p] = 0
            \/ phase[p] = "sentCommit" /\ cached'[p] = seqNr[p]
            \/ phase[p] # "sentCommit" /\ cached'[p] = cached[p]
<1>1. p \in Oracle /\ TypeOK
  BY HonestOracle DEF Types
<1>2. Len(committed'[p]) + 1 \in 0..MaxSeqNr + 1
  BY <1>1, OutcomeTypes, BoundAssumption
<1>3. phase[p] = "sentCommit" => seqNr[p] \in 0..MaxSeqNr
  BY <1>1, OutcomeTypes DEF Placed, TypeOK
<1>4. NoOutcome \in [inputs : Inputs, outcome : Outcome] /\ None \in Inputs
  BY EmptyOutcome DEF NoOutcome, Inputs
<1>5. /\ seqNr' = [seqNr EXCEPT ![p] = Len(committed'[p]) + 1]
      /\ phase' = [phase EXCEPT ![p] = "newRound"]
      /\ current' = [current EXCEPT ![p] = NoOutcome]
      /\ proposal' = [proposal EXCEPT ![p] = IF seqNr'[p] = seqNr[p] THEN proposal[p] ELSE None]
  BY DEF StartSubsequentFollowerRound
<1> DEFINE k == CASE Len(committed'[p]) > Len(committed[p]) -> 0
                  [] phase[p] = "sentCommit" -> seqNr[p]
                  [] OTHER -> cached[p]
<1>6. /\ cached' = [cached EXCEPT ![p] = k]
      /\ \/ k = 0
         \/ phase[p] = "sentCommit" /\ k = seqNr[p]
         \/ phase[p] # "sentCommit" /\ k = cached[p]
  <2>1. cached' = [cached EXCEPT ![p] = k]
    BY DEF StartSubsequentFollowerRound
  <2>2. CASE Len(committed'[p]) > Len(committed[p])
    BY <2>1, <2>2
  <2>3. CASE ~(Len(committed'[p]) > Len(committed[p])) /\ phase[p] = "sentCommit"
    BY <2>1, <2>3
  <2>4. CASE ~(Len(committed'[p]) > Len(committed[p])) /\ phase[p] # "sentCommit"
    BY <2>1, <2>4
  <2> QED BY <2>2, <2>3, <2>4
<1> HIDE DEF k
<1>7. cached[p] \in 0..MaxSeqNr /\ k \in 0..MaxSeqNr
  BY <1>1, <1>3, <1>6, BoundAssumption DEF TypeOK
<1>8. /\ seqNr' \in [Oracle -> 0..MaxSeqNr + 1] /\ phase' \in [Oracle -> Phase]
      /\ current' \in [Oracle -> [inputs : Inputs, outcome : Outcome]]
  BY <1>1, <1>2, <1>4, <1>5 DEF TypeOK, Phase
<1>9. proposal' \in [Oracle -> Inputs] /\ cached' \in [Oracle -> 0..MaxSeqNr]
  BY <1>1, <1>4, <1>5, <1>6, <1>7 DEF TypeOK
<1>10. \A q \in Oracle \ {p} : /\ seqNr'[q] = seqNr[q] /\ phase'[q] = phase[q]
                            /\ current'[q] = current[q] /\ cached'[q] = cached[q]
  BY <1>1, <1>5, <1>6 DEF TypeOK
<1>11. /\ phase'[p] = "newRound" /\ seqNr'[p] = Len(committed'[p]) + 1 /\ cached'[p] = k
  BY <1>1, <1>5, <1>6 DEF TypeOK
<1> QED BY <1>6, <1>8, <1>9, <1>10, <1>11

\* An epoch that its own leader has not started can not be followed.
LEMMA NotBeforeTheLeader ==
  ASSUME Types, NEW p \in Honest, Placed(p), NEW c, CanStartEpoch(p, c)
  PROVE  leaderPhase[p] # "newEpoch" \/ Leader[epoch[p]] # p
<1> SUFFICES ASSUME leaderPhase[p] = "newEpoch", Leader[epoch[p]] = p PROVE FALSE
  OBVIOUS
<1>1. EpochStartMsg(p, epoch[p], c) \in Received(p)
  BY HonestOracle DEF CanStartEpoch
<1>2. EpochStartMsg(p, epoch[p], c) \in toSelf[p]
  BY <1>1 DEF Received, EpochStartMsg
<1> QED BY <1>2 DEF Placed, EpochStartMsg

LEMMA FollowEpochInv ==
  ASSUME Inv, NEW p \in Honest, NEW c \in CertOfEpochStart(p), NEW written \in BOOLEAN,
         FollowEpoch(p, c, written)
  PROVE  Inv' /\ StepOf(p)
<1>1. /\ p \in Oracle /\ Types /\ TypeOK /\ Messages /\ Placed(p) /\ Locked(p)
      /\ c \in Certificate
  BY HonestOracle, TakenTypes DEF Inv, Types
<1>2. /\ cert' \in [Oracle -> Certificate] /\ committed' \in [Oracle -> Outcome]
      /\ \A q \in Oracle \ {p} : cert'[q] = cert[q] /\ committed'[q] = committed[q]
      /\ SeqNr(cert'[p]) >= SeqNr(cert[p])
  <2>1. CASE UNCHANGED <<cert, committed>>
    BY <1>1, <2>1, CertTypes DEF TypeOK
  <2>2. CASE Commit(p, c, written)
    BY <1>1, <2>2, CommitEffect
  <2> QED BY <2>1, <2>2 DEF FollowEpoch
<1>3. /\ seqNr' \in [Oracle -> 0..MaxSeqNr + 1] /\ phase' \in [Oracle -> Phase]
      /\ current' \in [Oracle -> [inputs : Inputs, outcome : Outcome]]
      /\ proposal' \in [Oracle -> Inputs] /\ cached' \in [Oracle -> 0..MaxSeqNr]
      /\ \A q \in Oracle \ {p} : /\ seqNr'[q] = seqNr[q] /\ phase'[q] = phase[q]
                               /\ current'[q] = current[q] /\ cached'[q] = cached[q]
      /\ phase'[p] = "newRound" /\ seqNr'[p] = Len(committed'[p]) + 1
  BY <1>1, <1>2, FollowerRoundEffect DEF FollowEpoch
<1>4. /\ UNCHANGED <<epoch, startedEpoch, leaderPhase, completed, msgs, toSelf>>
      /\ phase[p] = "newEpoch"
      /\ leaderPhase[p] # "newEpoch" \/ Leader[epoch[p]] # p
  BY <1>1, NotBeforeTheLeader DEF FollowEpoch, CanStartEpoch, leaderVars
<1>5. firstSeqNr' \in [Oracle -> 0..MaxSeqNr + 1]
  <2>1. Len(committed'[p]) + 1 \in 0..MaxSeqNr + 1
    BY <1>1, <1>2, OutcomeTypes, BoundAssumption
  <2> QED BY <1>1, <2>1 DEF FollowEpoch, TypeOK
<1>6. Types'
  BY <1>1, <1>2, <1>3, <1>4, <1>5 DEF Types, TypeOK, Messages
<1>7. StepOf(p)
  BY <1>2, <1>3, <1>4 DEF StepOf
<1>8. Placed(p)'
  BY <1>1, <1>3, <1>4 DEF Placed
<1>9. Locked(p)'
  BY <1>1, <1>2, <1>4, LockedKept
<1> QED BY <1>6, <1>7, <1>8, <1>9, OthersStay

LEMMA ReproposeInv ==
  ASSUME Inv, NEW p \in Honest, NEW c \in CertOfEpochStart(p), Repropose(p, c)
  PROVE  Inv' /\ StepOf(p)
<1> DEFINE m == PrepareMsg(p, epoch[p], None, c.outcome)
<1>1. /\ p \in Oracle /\ Types /\ TypeOK /\ Messages /\ Placed(p) /\ Locked(p)
      /\ c \in Certificate /\ c.outcome \in Outcome /\ cert[p] \in Certificate
  BY HonestOracle, TakenTypes, CertTypes DEF Inv, Types, TypeOK
<1>2. /\ SeqNr(c) \in 0..MaxSeqNr /\ SeqNr(c) \in 0..MaxSeqNr + 1
      /\ SeqNr(c) + 1 \in 0..MaxSeqNr + 1 /\ SeqNr(c) = Len(c.outcome)
  <2>1. SeqNr(c) \in 0..MaxSeqNr
    BY <1>1, CertTypes
  <2> QED BY <2>1, BoundAssumption DEF SeqNr
<1>3. /\ firstSeqNr' = [firstSeqNr EXCEPT ![p] = SeqNr(c) + 1]
      /\ seqNr' = [seqNr EXCEPT ![p] = SeqNr(c)]
      /\ phase' = [phase EXCEPT ![p] = "sentPrepare"]
      /\ current' = [current EXCEPT ![p] = [inputs |-> None, outcome |-> c.outcome]]
      /\ msgs' = msgs \cup {m}
      /\ UNCHANGED <<toSelf, epoch, startedEpoch, proposal, cached, cert, committed, leaderVars>>
      /\ phase[p] = "newEpoch" /\ epoch[p] \in Epoch
      /\ leaderPhase[p] # "newEpoch" \/ Leader[epoch[p]] # p
  BY <1>1, NotBeforeTheLeader DEF Repropose, CanStartEpoch, Placed
<1>4. /\ m.type = "Prepare" /\ m.from = p /\ m.epoch = epoch[p] /\ m.inputs = None
      /\ m.outcome = c.outcome /\ m = PrepareMsg(m.from, m.epoch, m.inputs, m.outcome)
  BY DEF PrepareMsg
<1>5. [inputs |-> None, outcome |-> c.outcome] \in [inputs : Inputs, outcome : Outcome]
  BY <1>1 DEF Inputs
<1> HIDE DEF m
<1>6. TypeOK'
  BY <1>1, <1>2, <1>3, <1>4, <1>5 DEF TypeOK, Phase, leaderVars
<1>7. Messages'
  BY <1>1, <1>3, <1>4 DEF Messages, Inputs
<1>8. StepOf(p)
  BY <1>1, <1>3, <1>4 DEF StepOf, TypeOK, leaderVars
<1>9. Placed(p)'
  BY <1>1, <1>2, <1>3 DEF Placed, TypeOK, leaderVars
<1>10. Locked(p)'
  <2>1. SeqNr(cert'[p]) >= SeqNr(cert[p])
    BY <1>1, <1>3, CertTypes
  <2> QED BY <1>1, <1>3, <1>4, <2>1, LockedKept DEF TypeOK
<1> QED BY <1>6, <1>7, <1>8, <1>9, <1>10, OthersStay DEF Types

LEMMA ProposeInv ==
  ASSUME Inv, NEW p \in Honest, NEW v \in Value, Propose(p, v)
  PROVE  Inv' /\ StepOf(p)
<1> DEFINE m == ProposalMsg(p, epoch[p], seqNr[p], v)
<1>1. /\ p \in Oracle /\ Types /\ TypeOK /\ Messages /\ Placed(p) /\ Locked(p)
      /\ cert[p] \in Certificate
  BY HonestOracle DEF Inv, Types, TypeOK
<1>2. /\ completed' = [completed EXCEPT ![p] = seqNr[p]]
      /\ msgs' = msgs \cup {m} /\ toSelf' = [toSelf EXCEPT ![p] = @ \cup {m}]
      /\ UNCHANGED <<epoch, startedEpoch, phase, seqNr, firstSeqNr, proposal, current,
                     cached, cert, committed, leaderPhase>>
      /\ epoch[p] \in Epoch /\ Leader[epoch[p]] = p /\ seqNr[p] <= MaxSeqNr
  BY DEF Propose, Send
<1>3. m.type = "Proposal" /\ m.from = p /\ m.epoch = epoch[p]
  BY DEF ProposalMsg
<1> HIDE DEF m
<1>4. seqNr[p] \in 0..MaxSeqNr
  BY <1>1, <1>2, BoundAssumption DEF TypeOK
<1>5. TypeOK'
  BY <1>1, <1>2, <1>3, <1>4 DEF TypeOK
<1>6. Messages'
  BY <1>1, <1>2, <1>3 DEF Messages
<1>7. StepOf(p)
  BY <1>1, <1>2, <1>3 DEF StepOf, Messages
<1>8. Placed(p)'
  BY <1>1, <1>2, <1>3 DEF Placed, Messages
<1>9. Locked(p)'
  <2>1. SeqNr(cert'[p]) >= SeqNr(cert[p])
    BY <1>1, <1>2, CertTypes
  <2> QED BY <1>1, <1>2, <1>3, <2>1, LockedKept DEF TypeOK
<1> QED BY <1>5, <1>6, <1>7, <1>8, <1>9, OthersStay DEF Types

LEMMA HandleProposalInv ==
  ASSUME Inv, NEW p \in Honest, NEW v \in Value, HandleProposal(p, v)
  PROVE  Inv' /\ StepOf(p)
<1> DEFINE o == Append(committed[p], v)
           m == PrepareMsg(p, epoch[p], v, o)
<1>1. /\ p \in Oracle /\ Types /\ TypeOK /\ Messages /\ Placed(p) /\ Locked(p)
      /\ cert[p] \in Certificate /\ committed[p] \in Outcome
  BY HonestOracle DEF Inv, Types, TypeOK
<1>2. /\ proposal' = [proposal EXCEPT ![p] = v]
      /\ current' = [current EXCEPT ![p] = [inputs |-> v, outcome |-> o]]
      /\ phase' = [phase EXCEPT ![p] = "sentPrepare"]
      /\ msgs' = msgs \cup {m}
      /\ UNCHANGED <<toSelf, epoch, startedEpoch, seqNr, firstSeqNr, cached, cert,
                     committed, leaderVars>>
      /\ phase[p] = "newRound" /\ seqNr[p] <= MaxSeqNr
  BY DEF HandleProposal
<1>3. o \in Outcome /\ Len(o) = seqNr[p] /\ epoch[p] \in Epoch
  <2>1. seqNr[p] = Len(committed[p]) + 1 /\ Len(committed[p]) \in Nat /\ epoch[p] \in Epoch
    BY <1>1, <1>2, OutcomeTypes DEF Placed
  <2>2. Len(committed[p]) < MaxSeqNr
    BY <1>2, <2>1, BoundAssumption
  <2> QED BY <1>1, <2>1, <2>2, NextOutcome
<1> HIDE DEF o
<1>4. /\ m.type = "Prepare" /\ m.from = p /\ m.epoch = epoch[p] /\ m.inputs = v
      /\ m.outcome = o /\ m = PrepareMsg(m.from, m.epoch, m.inputs, m.outcome)
  BY DEF PrepareMsg
<1>5. [inputs |-> v, outcome |-> o] \in [inputs : Inputs, outcome : Outcome] /\ v \in Inputs
  BY <1>3 DEF Inputs
<1> HIDE DEF m
<1>6. TypeOK'
  BY <1>1, <1>2, <1>3, <1>4, <1>5 DEF TypeOK, Phase, leaderVars
<1>7. Messages'
  BY <1>1, <1>2, <1>3, <1>4, <1>5 DEF Messages
<1>8. StepOf(p)
  BY <1>1, <1>2, <1>4 DEF StepOf, TypeOK, leaderVars
<1>9. Placed(p)'
  BY <1>1, <1>2, <1>3 DEF Placed, TypeOK, leaderVars
<1>10. Locked(p)'
  <2>1. SeqNr(cert'[p]) >= SeqNr(cert[p])
    BY <1>1, <1>2, CertTypes
  <2> QED BY <1>1, <1>2, <1>4, <2>1, LockedKept DEF TypeOK
<1> QED BY <1>6, <1>7, <1>8, <1>9, <1>10, OthersStay DEF Types

\* The lock is on the disk before the commit is signed.
LEMMA LockInv ==
  ASSUME Inv, NEW p \in Honest, Lock(p)
  PROVE  Inv' /\ StepOf(p)
<1> DEFINE m == CommitMsg(p, epoch[p], current[p].outcome)
           c == Prepared(epoch[p], current[p].inputs, current[p].outcome)
<1>1. /\ p \in Oracle /\ Types /\ TypeOK /\ Messages /\ Placed(p) /\ Locked(p)
      /\ cert[p] \in Certificate
      /\ current[p].inputs \in Inputs /\ current[p].outcome \in Outcome
  BY HonestOracle DEF Inv, Types, TypeOK
<1>2. /\ cert' = [cert EXCEPT ![p] = Greater(cert[p], c)]
      /\ phase' = [phase EXCEPT ![p] = "sentCommit"]
      /\ msgs' = msgs \cup {m}
      /\ UNCHANGED <<toSelf, epoch, startedEpoch, seqNr, firstSeqNr, proposal, current, cached,
                     committed, leaderVars>>
      /\ phase[p] = "sentPrepare"
  BY DEF Lock
<1>3. epoch[p] \in Epoch /\ Len(current[p].outcome) = seqNr[p]
  BY <1>1, <1>2 DEF Placed
<1>4. c \in Certificate /\ SeqNr(c) = Len(current[p].outcome)
  BY <1>1, <1>3, BoundAssumption DEF Prepared, Certificate, Epoch, SeqNr
<1>5. /\ m.type = "Commit" /\ m.from = p /\ m.epoch = epoch[p]
      /\ m.outcome = current[p].outcome /\ m = CommitMsg(m.from, m.epoch, m.outcome)
  BY DEF CommitMsg
<1> HIDE DEF m, c
<1>6. /\ Greater(cert[p], c) \in Certificate
      /\ SeqNr(Greater(cert[p], c)) >= SeqNr(cert[p]) /\ SeqNr(Greater(cert[p], c)) >= SeqNr(c)
  <2>1. Greater(cert[p], c) \in {cert[p], c}
    BY <1>1, <1>4, GreaterIsHigher
  <2> QED BY <1>1, <1>4, <2>1, GreaterIsHigher
<1>7. cert' \in [Oracle -> Certificate] /\ cert'[p] = Greater(cert[p], c)
  BY <1>1, <1>2, <1>6 DEF TypeOK
<1>8. TypeOK'
  BY <1>1, <1>2, <1>3, <1>5, <1>7 DEF TypeOK, Phase, leaderVars
<1>9. Messages'
  BY <1>1, <1>2, <1>3, <1>5 DEF Messages
<1>10. StepOf(p)
  BY <1>1, <1>2, <1>5 DEF StepOf, TypeOK, leaderVars
<1>11. Placed(p)'
  BY <1>1, <1>2, <1>3 DEF Placed, TypeOK, leaderVars
<1>12. Locked(p)'
  <2> SUFFICES ASSUME NEW n \in msgs', n.type = "Commit", n.from = p
               PROVE  Len(n.outcome) <= SeqNr(cert'[p])
    BY DEF Locked, SeqNr
  <2>1. CASE n = m
    BY <1>4, <1>5, <1>6, <1>7, <2>1
  <2>2. CASE n \in msgs
    <3>1. Len(n.outcome) <= SeqNr(cert[p]) /\ Len(n.outcome) \in Nat
      BY <1>1, <2>2, OutcomeTypes DEF Locked, Messages
    <3>2. SeqNr(cert[p]) \in Nat /\ SeqNr(cert'[p]) \in Nat
      BY <1>1, <1>6, <1>7, CertTypes
    <3> HIDE DEF SeqNr
    <3> QED BY <1>6, <1>7, <3>1, <3>2
  <2> QED BY <1>2, <2>1, <2>2
<1> QED BY <1>8, <1>9, <1>10, <1>11, <1>12, OthersStay DEF Types

LEMMA FinishRoundInv ==
  ASSUME Inv, NEW p \in Honest, NEW written \in BOOLEAN, FinishRound(p, written)
  PROVE  Inv' /\ StepOf(p)
<1> DEFINE c == Committed(epoch[p], current[p].outcome)
<1>1. /\ p \in Oracle /\ Types /\ TypeOK /\ Messages /\ Placed(p) /\ Locked(p)
      /\ current[p].outcome \in Outcome
  BY HonestOracle DEF Inv, Types, TypeOK
<1>2. /\ phase[p] = "sentCommit" /\ epoch[p] \in Epoch /\ Len(current[p].outcome) = seqNr[p]
      /\ Commit(p, c, written)
      /\ UNCHANGED <<epoch, startedEpoch, firstSeqNr, leaderPhase, msgs, toSelf>>
  BY <1>1 DEF FinishRound, Placed
<1>3. c \in Certificate
  BY <1>1, <1>2, BoundAssumption DEF Committed, Certificate, Epoch, Inputs
<1> HIDE DEF c
<1>4. /\ cert' \in [Oracle -> Certificate] /\ committed' \in [Oracle -> Outcome]
      /\ \A q \in Oracle \ {p} : cert'[q] = cert[q] /\ committed'[q] = committed[q]
      /\ SeqNr(cert'[p]) >= SeqNr(cert[p])
  BY <1>1, <1>2, <1>3, CommitEffect
<1>5. Locked(p)'
  BY <1>1, <1>2, <1>4, LockedKept
<1>6. CASE UNCHANGED <<seqNr, phase, current, proposal, cached, completed>>
  <2>1. Types'
    BY <1>1, <1>2, <1>4, <1>6 DEF Types, TypeOK, Messages
  <2>2. StepOf(p)
    BY <1>2, <1>4, <1>6 DEF StepOf
  <2>3. Placed(p)'
    BY <1>1, <1>2, <1>6 DEF Placed
  <2> QED BY <1>5, <2>1, <2>2, <2>3, OthersStay
<1>7. CASE StartSubsequentFollowerRound(p) /\ StartSubsequentLeaderRound(p, written)
  <2>1. /\ seqNr' \in [Oracle -> 0..MaxSeqNr + 1] /\ phase' \in [Oracle -> Phase]
        /\ current' \in [Oracle -> [inputs : Inputs, outcome : Outcome]]
        /\ proposal' \in [Oracle -> Inputs] /\ cached' \in [Oracle -> 0..MaxSeqNr]
        /\ \A q \in Oracle \ {p} : /\ seqNr'[q] = seqNr[q] /\ phase'[q] = phase[q]
                                 /\ current'[q] = current[q] /\ cached'[q] = cached[q]
        /\ phase'[p] = "newRound" /\ seqNr'[p] = Len(committed'[p]) + 1
    BY <1>1, <1>4, <1>7, FollowerRoundEffect
  <2>2. completed' \in [Oracle -> 0..MaxSeqNr]
    <3>1. committed[p] \in Outcome /\ completed \in [Oracle -> 0..MaxSeqNr]
      BY <1>1 DEF TypeOK
    <3>2. Len(committed[p]) \in 0..MaxSeqNr
      BY <3>1, OutcomeTypes
    <3> QED BY <1>7, <3>1, <3>2 DEF StartSubsequentLeaderRound
  <2>3. Types'
    BY <1>1, <1>2, <1>4, <2>1, <2>2 DEF Types, TypeOK, Messages
  <2>4. StepOf(p)
    BY <1>2, <1>4, <2>1 DEF StepOf
  <2>5. Placed(p)'
    BY <1>1, <1>2, <2>1 DEF Placed
  <2> QED BY <1>5, <2>3, <2>4, <2>5, OthersStay
<1> QED BY <1>6, <1>7 DEF FinishRound

LEMMA RestartInv ==
  ASSUME Inv, NEW p \in Honest, Restart(p)
  PROVE  Inv' /\ StepOf(p)
<1>1. /\ p \in Oracle /\ Types /\ TypeOK /\ Messages /\ Placed(p) /\ Locked(p)
      /\ cert[p] \in Certificate
  BY HonestOracle DEF Inv, Types, TypeOK
<1>2. NoOutcome \in [inputs : Inputs, outcome : Outcome] /\ None \in Inputs
  BY EmptyOutcome DEF NoOutcome, Inputs
<1>3. /\ 0 \in 0..MaxEpoch /\ 0 \in 0..MaxSeqNr + 1 /\ 0 \in 0..MaxSeqNr /\ <<>> \in Outcome
  BY EmptyOutcome, BoundAssumption
<1>4. TypeOK'
  BY <1>1, <1>2, <1>3 DEF Restart, TypeOK, Phase
<1>5. Messages'
  BY <1>1 DEF Restart, Messages
<1>6. StepOf(p)
  BY <1>1 DEF Restart, StepOf, TypeOK, Messages
<1>7. Placed(p)'
  BY <1>1 DEF Restart, Placed, TypeOK, Messages
<1>8. Locked(p)'
  BY <1>1 DEF Restart, Locked
<1> QED BY <1>4, <1>5, <1>6, <1>7, <1>8, OthersStay DEF Types

LEMMA InvStep == Inv /\ [Next]_vars => Inv'
<1> SUFFICES ASSUME Inv, [Next]_vars PROVE Inv'
  OBVIOUS
<1>1. CASE UNCHANGED vars
  BY <1>1 DEF vars, leaderVars, Inv, Types, TypeOK, Messages, Placed, Locked
<1>2. CASE Next
  BY <1>2, NewEpochStartInv, LeadEpochInv, FollowEpochInv, ReproposeInv, ProposeInv,
     HandleProposalInv, LockInv, FinishRoundInv, RestartInv DEF Next
<1> QED BY <1>1, <1>2

-----------------------------------------------------------------------------
(* What holds whatever crashes and whichever database fails *)

\* The invariant holds in every reachable state.
THEOREM Invariance == Spec => []Inv
BY InvInit, InvStep, PTL DEF Spec

\* Every variable keeps its type, and the honest oracles send nothing but what
\* their handlers send.
THEOREM TypeCorrect == Spec => []TypeOK
<1>1. Inv => TypeOK
  BY DEF Inv, Types
<1> QED BY <1>1, Invariance, PTL

\* A round in progress is the one after the committed outcome, so OutcomeCtx does not
\* panic when a round starts.
THEOREM RoundsFollow == Spec => []RoundFollowsCommitted
<1>1. Inv => RoundFollowsCommitted
  BY DEF Inv, Placed, RoundFollowsCommitted
<1> QED BY <1>1, Invariance, PTL

\* Whatever a quorum signed the commit of, a quorum has it on disk, through any
\* crashes and writes that fail.
THEOREM CommitsAreLocked == Spec => []CommitLocked
<1>1. Inv => CommitLocked
  <2> SUFFICES ASSUME Inv, NEW c \in Certificates, c.kind = "commit"
               PROVE  IsQuorum({p \in Oracle : p \in Faulty \/ Len(c.outcome) <= SeqNr(cert[p])})
    BY DEF CommitLocked
  <2> DEFINE S == {p \in Oracle : p \in Faulty \/ Len(c.outcome) <= SeqNr(cert[p])}
  <2>1. CASE c = Genesis
    <3>1. \A p \in Oracle : SeqNr(cert[p]) >= 0
      BY CertTypes DEF Inv, Types, TypeOK
    <3>2. S = Oracle
      BY <2>1, <3>1, EmptyOutcome DEF Genesis, Committed
    <3> QED BY <3>2, AllAreAQuorum
  <2>2. CASE c # Genesis
    <3>1. IsQuorum(CommitSigners(c.epoch, c.outcome))
      BY <2>2 DEF Certificates, Verified
    <3>2. CommitSigners(c.epoch, c.outcome) \subseteq S
      BY HonestOracle DEF CommitSigners, CommitMsg, Inv, Locked, Honest
    <3> QED BY <3>1, <3>2, LargerQuorum
  <2> QED BY <2>1, <2>2
<1> QED BY <1>1, Invariance, PTL

-----------------------------------------------------------------------------
(* What holds through any crashes as long as no database refuses a write *)

\* A quorum has signed the commit of o.
ByQuorum(o) == \E x \in Epoch : Committed(x, o) \in Certificates

\* Every outcome that o is built on was committed.
Rooted(o) == Len(o) > 0 /\ \A s \in 1..Len(o) - 1 : ByQuorum(SubSeq(o, 1, s))

\* An honest oracle has a certificate that verifies, has committed nothing but what
\* a quorum committed, has signed what it is about to commit, and has no signatures
\* in its pools that were verified for another outcome.
Sound(p) ==
  /\ Verified(cert[p])
  /\ \A s \in 1..Len(committed[p]) : ByQuorum(SubSeq(committed[p], 1, s))
  /\ phase[p] \in {"sentPrepare", "sentCommit"} =>
       PrepareMsg(p, epoch[p], current[p].inputs, current[p].outcome) \in msgs
  /\ cached[p] = 0 \/ cached[p] < seqNr[p]
  /\ phase[p] \in {"unknown", "newEpoch"} => cached[p] = 0
  /\ phase[p] \in {"newRound", "sentPrepare", "sentCommit"} => seqNr[p] > 0

\* What honest oracles send carries certificates that verify, a proof of the start
\* of an epoch is valid, and signatures are about outcomes that are built on what
\* was committed.
SoundMessage(m) ==
  /\ m.type \in {"EpochStartRequest", "EpochStart"} => Verified(m.cert)
  /\ m.type = "EpochStart" => ValidProof(m.epoch, m.cert)
  /\ m.type = "Prepare" => Rooted(m.outcome)
  /\ m.type = "Commit" => \E n \in msgs : n.type = "Prepare" /\ n.outcome = m.outcome

SoundInv ==
  /\ Inv
  /\ \A p \in Honest : Sound(p)
  /\ \A m \in msgs : SoundMessage(m)

LEMMA QuorumHasHonest ==
  ASSUME NEW S, S \subseteq Oracle, IsQuorum(S)
  PROVE  \E p \in Honest : p \in S
<1> SUFFICES ASSUME S \subseteq Faulty PROVE FALSE
  BY DEF Honest
<1>1. IsFiniteSet(Faulty) /\ Cardinality(S) <= Cardinality(Faulty)
  BY OracleAssumption, FS_Subset
<1>2. Cardinality(S) \in Nat /\ Cardinality(Faulty) \in Nat
  BY <1>1, FS_Subset, FS_CardinalityType
<1> QED BY <1>1, <1>2, SizeOfQuorum, FaultAssumption DEF IsQuorum

\* Messages are never taken back, so what was verified stays verified.
LEMMA MoreMessages ==
  ASSUME msgs \subseteq msgs'
  PROVE  /\ \A c : Verified(c) => Verified(c)'
         /\ \A c : c \in Certificates => c \in Certificates'
         /\ \A x, c : ValidProof(x, c) => ValidProof(x, c)'
         /\ \A o : ByQuorum(o) => ByQuorum(o)'
         /\ \A o : Rooted(o) => Rooted(o)'
<1>1. ASSUME NEW c, Verified(c) PROVE Verified(c)'
  <2>1. PrepareSigners(c.epoch, c.inputs, c.outcome) \subseteq PrepareSigners(c.epoch, c.inputs, c.outcome)'
        /\ PrepareSigners(c.epoch, c.inputs, c.outcome)' \subseteq Oracle
    BY DEF PrepareSigners
  <2>2. CommitSigners(c.epoch, c.outcome) \subseteq CommitSigners(c.epoch, c.outcome)'
        /\ CommitSigners(c.epoch, c.outcome)' \subseteq Oracle
    BY DEF CommitSigners
  <2>3. IsQuorum(PrepareSigners(c.epoch, c.inputs, c.outcome)) =>
          IsQuorum(PrepareSigners(c.epoch, c.inputs, c.outcome))'
    BY <2>1, LargerQuorum DEF IsQuorum
  <2>4. IsQuorum(CommitSigners(c.epoch, c.outcome)) => IsQuorum(CommitSigners(c.epoch, c.outcome))'
    BY <2>2, LargerQuorum DEF IsQuorum
  <2> QED BY <1>1, <2>3, <2>4 DEF Verified
<1>2. ASSUME NEW c, c \in Certificates PROVE c \in Certificates'
  BY <1>1, <1>2 DEF Certificates
<1>3. ASSUME NEW x, NEW c, ValidProof(x, c) PROVE ValidProof(x, c)'
  <2> DEFINE S == {p \in Oracle : p \in Faulty \/ \E m \in Requests(x) : m.from = p /\ ~Less(c, m.cert)}
  <2>1. Requests(x) \subseteq Requests(x)'
    BY DEF Requests
  <2>2. S \subseteq S' /\ S' \subseteq Oracle
    BY <2>1
  <2>3. IsQuorum(S)
    BY <1>3 DEF ValidProof
  <2> HIDE DEF S
  <2>4. IsQuorum(S)'
    BY <2>2, <2>3, LargerQuorum DEF IsQuorum
  <2> QED BY <1>1, <1>3, <2>1, <2>4 DEF ValidProof, S
<1>4. ASSUME NEW o, ByQuorum(o) PROVE ByQuorum(o)'
  BY <1>2, <1>4 DEF ByQuorum
<1>5. ASSUME NEW o, Rooted(o) PROVE Rooted(o)'
  BY <1>4, <1>5 DEF Rooted
<1> QED BY <1>1, <1>2, <1>3, <1>4, <1>5

\* An outcome that a quorum prepared is built on what was committed.
LEMMA PreparedIsRooted ==
  ASSUME SoundInv, NEW c \in Certificate, Verified(c), c.kind = "prepare"
  PROVE  Rooted(c.outcome)
<1>1. c # Genesis
  BY DEF Genesis, Committed
<1>2. IsQuorum(PrepareSigners(c.epoch, c.inputs, c.outcome))
  BY <1>1 DEF Verified
<1>3. PICK p \in Honest : p \in PrepareSigners(c.epoch, c.inputs, c.outcome)
  BY <1>2, QuorumHasHonest DEF PrepareSigners
<1>4. PrepareMsg(p, c.epoch, c.inputs, c.outcome) \in msgs
  BY <1>3, HonestOracle DEF PrepareSigners
<1>5. SoundMessage(PrepareMsg(p, c.epoch, c.inputs, c.outcome))
  BY <1>4 DEF SoundInv
<1> QED BY <1>5 DEF SoundMessage, PrepareMsg

\* So is one that a quorum committed, and it is committed itself.
LEMMA CommittedIsSound ==
  ASSUME SoundInv, NEW c \in Certificate, Verified(c), c.kind = "commit", c # Genesis
  PROVE  \A s \in 1..Len(c.outcome) : ByQuorum(SubSeq(c.outcome, 1, s))
<1>1. IsQuorum(CommitSigners(c.epoch, c.outcome))
  BY DEF Verified
<1>2. PICK p \in Honest : p \in CommitSigners(c.epoch, c.outcome)
  BY <1>1, QuorumHasHonest DEF CommitSigners
<1> DEFINE m == CommitMsg(p, c.epoch, c.outcome)
<1>3. m \in msgs
  BY <1>2, HonestOracle DEF CommitSigners
<1>4. m.type = "Commit" /\ m.outcome = c.outcome /\ m.epoch = c.epoch
  BY DEF CommitMsg
<1>5. SoundMessage(m) /\ m.epoch \in Epoch
  BY <1>3 DEF SoundInv, Inv, Types, Messages
<1>6. PICK n \in msgs : n.type = "Prepare" /\ n.outcome = c.outcome
  BY <1>4, <1>5 DEF SoundMessage
<1>7. Rooted(c.outcome)
  BY <1>6 DEF SoundInv, SoundMessage
<1>8. ByQuorum(c.outcome)
  <2>1. Verified(Committed(m.epoch, m.outcome))
    BY <1>1, <1>4 DEF Verified, Committed
  <2>2. Committed(m.epoch, m.outcome) \in Certificates
    BY <1>3, <1>4, <2>1 DEF Certificates
  <2> QED BY <1>4, <1>5, <2>2 DEF ByQuorum
<1>9. c.outcome \in Seq(Value) /\ Len(c.outcome) \in Nat
  BY CertTypes, OutcomeTypes
<1>10. ASSUME NEW s \in 1..Len(c.outcome) PROVE ByQuorum(SubSeq(c.outcome, 1, s))
  <2>1. CASE s = Len(c.outcome)
    BY <1>8, <1>9, <2>1, SubSeqFull
  <2>2. CASE s # Len(c.outcome)
    BY <1>7, <1>9, <2>2 DEF Rooted
  <2> QED BY <2>1, <2>2
<1> QED BY <1>10

\* The certificates that an oracle can take verify.
LEMMA TakenIsVerified ==
  ASSUME SoundInv, NEW p \in Honest, NEW c \in CertOfRequests(p) \cup CertOfEpochStart(p)
  PROVE  Verified(c) /\ c \in Certificate
<1>1. c \in Certificate
  BY TakenTypes DEF SoundInv, Inv
<1>2. \A d \in Certificates : Verified(d)
  BY DEF Certificates
<1>3. CASE c \in Certificates
  BY <1>1, <1>2, <1>3
<1>4. CASE c \notin Certificates
  <2>1. PICK m \in msgs : m.type \in {"EpochStartRequest", "EpochStart"} /\ m.cert = c
    <3>1. CASE c \in CertOfRequests(p)
      BY <1>4, <3>1 DEF CertOfRequests, Requests
    <3>2. CASE c \in CertOfEpochStart(p)
      BY <1>4, <3>2 DEF CertOfEpochStart
    <3> QED BY <3>1, <3>2
  <2>2. SoundMessage(m)
    BY <2>1 DEF SoundInv
  <2> QED BY <1>1, <2>1, <2>2 DEF SoundMessage
<1> QED BY <1>3, <1>4

LEMMA OthersStaySound ==
  ASSUME SoundInv, NEW p \in Honest, Inv', StepOf(p), Sound(p)',
         \A m \in msgs' \ msgs : SoundMessage(m)'
  PROVE  SoundInv'
<1>1. msgs \subseteq msgs'
  BY DEF StepOf
<1>2. ASSUME NEW q \in Honest PROVE Sound(q)'
  <2>1. CASE q = p
    BY <2>1
  <2>2. CASE q # p
    <3>1. q \in Oracle \ {p} /\ Sound(q)
      BY <2>2, HonestOracle DEF SoundInv
    <3>2. /\ epoch'[q] = epoch[q] /\ phase'[q] = phase[q] /\ seqNr'[q] = seqNr[q]
          /\ current'[q] = current[q] /\ cached'[q] = cached[q]
          /\ cert'[q] = cert[q] /\ committed'[q] = committed[q]
      BY <3>1 DEF StepOf
    <3>3. Verified(cert[q])'
      BY <1>1, <3>1, <3>2, MoreMessages DEF Sound
    <3>4. \A s \in 1..Len(committed'[q]) : ByQuorum(SubSeq(committed[q], 1, s))'
      BY <1>1, <3>1, <3>2, MoreMessages DEF Sound
    <3> QED BY <1>1, <3>1, <3>2, <3>3, <3>4 DEF Sound
  <2> QED BY <2>1, <2>2
<1>3. ASSUME NEW m \in msgs' PROVE SoundMessage(m)'
  <2>1. CASE m \in msgs
    <3>1. SoundMessage(m)
      BY <2>1 DEF SoundInv
    <3> QED BY <1>1, <3>1, MoreMessages DEF SoundMessage
  <2>2. CASE m \notin msgs
    BY <2>2
  <2> QED BY <2>1, <2>2
<1> QED BY <1>2, <1>3 DEF SoundInv

\* A commit takes what a quorum committed.
LEMMA CommitIsSound ==
  ASSUME SoundInv, NEW p \in Honest, NEW c \in Certificate, NEW written \in BOOLEAN,
         Verified(c), c.kind = "commit", msgs \subseteq msgs',
         (c # Genesis /\ Commit(p, c, written)) \/ UNCHANGED <<cert, committed>>
  PROVE  /\ Verified(cert[p])'
         /\ \A s \in 1..Len(committed'[p]) : ByQuorum(SubSeq(committed[p], 1, s))'
<1>1. Types /\ Sound(p)
  BY DEF SoundInv, Inv
<1>2. CASE UNCHANGED <<cert, committed>>
  BY <1>1, <1>2, MoreMessages DEF Sound
<1>3. CASE c # Genesis /\ Commit(p, c, written)
  <2>1. cert'[p] \in {cert[p], c} /\ committed'[p] \in {committed[p], c.outcome}
    BY <1>1, <1>3, CommitEffect
  <2>2. \A s \in 1..Len(c.outcome) : ByQuorum(SubSeq(c.outcome, 1, s))
    BY <1>3, CommittedIsSound
  <2>3. Verified(cert'[p]) /\ \A s \in 1..Len(committed'[p]) : ByQuorum(SubSeq(committed'[p], 1, s))
    BY <1>1, <2>1, <2>2 DEF Sound
  <2>4. /\ \A d : Verified(d) => Verified(d)'
        /\ \A o : ByQuorum(o) => ByQuorum(o)'
    BY MoreMessages
  <2> QED BY <2>3, <2>4
<1> QED BY <1>2, <1>3

LEMMA SoundInit == Init => SoundInv
<1> SUFFICES ASSUME Init PROVE SoundInv
  OBVIOUS
<1>1. Inv
  BY InvInit
<1>2. ASSUME NEW p \in Honest PROVE Sound(p)
  <2>1. /\ p \in Oracle /\ cert[p] = Genesis /\ committed[p] = <<>> /\ phase[p] = "unknown"
        /\ cached[p] = 0
    BY HonestOracle DEF Init
  <2>2. Verified(cert[p])
    BY <2>1 DEF Verified
  <2>3. 1..Len(committed[p]) = {}
    BY <2>1, EmptyOutcome
  <2> QED BY <2>1, <2>2, <2>3 DEF Sound
<1>3. msgs = {}
  BY DEF Init
<1> QED BY <1>1, <1>2, <1>3 DEF SoundInv

LEMMA NewEpochStartSound ==
  ASSUME SoundInv, NEW p \in Honest, NEW x \in Epoch, NewEpochStart(p, x)
  PROVE  SoundInv'
<1>1. Inv' /\ StepOf(p)
  BY NewEpochStartInv DEF SoundInv
<1>2. p \in Oracle /\ TypeOK /\ Sound(p) /\ msgs \subseteq msgs'
  BY <1>1, HonestOracle DEF SoundInv, Inv, Types, StepOf
<1>3. /\ cert' = cert /\ committed' = committed /\ cached'[p] = 0 /\ phase'[p] = "newEpoch"
      /\ msgs' = msgs \cup {RequestMsg(p, x, cert[p])}
  BY <1>2 DEF NewEpochStart, TypeOK
<1>4. Verified(cert[p])' /\ \A s \in 1..Len(committed'[p]) : ByQuorum(SubSeq(committed[p], 1, s))'
  BY <1>2, <1>3, MoreMessages DEF Sound
<1>5. Sound(p)'
  BY <1>3, <1>4 DEF Sound
<1>6. ASSUME NEW m \in msgs' \ msgs PROVE SoundMessage(m)'
  <2>1. m.type = "EpochStartRequest" /\ m.cert = cert[p]
    BY <1>3, <1>6 DEF RequestMsg
  <2>2. Verified(m.cert)'
    BY <1>3, <1>4, <2>1
  <2> QED BY <2>1, <2>2 DEF SoundMessage
<1> QED BY <1>1, <1>5, <1>6, OthersStaySound

LEMMA LeadEpochSound ==
  ASSUME SoundInv, NEW p \in Honest, NEW Q \in SUBSET Oracle, NEW c \in CertOfRequests(p),
         NEW written \in BOOLEAN, LeadEpoch(p, Q, c, written)
  PROVE  SoundInv'
<1> DEFINE S == {q \in Oracle : q \in Faulty \/ \E m \in Requests(epoch[p]) : m.from = q /\ ~Less(c, m.cert)}
<1>1. Inv' /\ StepOf(p)
  BY LeadEpochInv DEF SoundInv
<1>2. p \in Oracle /\ TypeOK /\ Sound(p) /\ msgs \subseteq msgs'
  BY <1>1, HonestOracle DEF SoundInv, Inv, Types, StepOf
<1>3. Verified(c) /\ c \in Certificate
  BY TakenIsVerified
<1>4. c.kind = "commit" \/ UNCHANGED <<cert, committed>>
  BY DEF LeadEpoch
<1>5. Verified(cert[p])' /\ \A s \in 1..Len(committed'[p]) : ByQuorum(SubSeq(committed[p], 1, s))'
  <2>1. CASE UNCHANGED <<cert, committed>>
    BY <1>2, <2>1, MoreMessages DEF Sound
  <2>2. CASE c # Genesis /\ c.kind = "commit" /\ Commit(p, c, written)
    BY <1>2, <1>3, <2>2, CommitIsSound
  <2> QED BY <2>1, <2>2 DEF LeadEpoch
<1>6. ValidProof(epoch[p], c)
  <2>1. /\ Cardinality(Q) = ByzQuorumSize
        /\ \A q \in Q \ Faulty : \E m \in Requests(epoch[p]) : m.from = q /\ ~Less(c, m.cert)
        /\ Faulty = {} => \E m \in Requests(epoch[p]) : m.cert = c
    BY DEF LeadEpoch
  <2>2. IsQuorum(S)
    <3>1. Q \subseteq S /\ S \subseteq Oracle
      BY <2>1
    <3>2. IsQuorum(Q)
      BY <2>1, SizeOfQuorum DEF IsQuorum
    <3> HIDE DEF S
    <3> QED BY <3>1, <3>2, LargerQuorum
  <2>3. SameTimestamp(c, c)
    BY <1>3, CertTypes DEF SameTimestamp, Less
  <2> QED BY <1>3, <2>1, <2>2, <2>3 DEF ValidProof
<1> HIDE DEF S
<1>7. /\ msgs' = msgs \cup {EpochStartMsg(p, epoch[p], c)}
      /\ UNCHANGED <<epoch, phase, seqNr, current, cached>>
  BY DEF LeadEpoch, Send
<1>8. Sound(p)'
  BY <1>2, <1>5, <1>7 DEF Sound
<1>9. ASSUME NEW m \in msgs' \ msgs PROVE SoundMessage(m)'
  <2>1. m.type = "EpochStart" /\ m.cert = c /\ m.epoch = epoch[p]
    BY <1>7, <1>9 DEF EpochStartMsg
  <2>2. Verified(m.cert) /\ ValidProof(m.epoch, m.cert)
    BY <1>3, <1>6, <2>1
  <2>3. Verified(m.cert)' /\ ValidProof(m.epoch, m.cert)'
    BY <1>2, <2>2, MoreMessages
  <2> QED BY <2>1, <2>3 DEF SoundMessage
<1> QED BY <1>1, <1>8, <1>9, OthersStaySound

LEMMA FollowEpochSound ==
  ASSUME SoundInv, NEW p \in Honest, NEW c \in CertOfEpochStart(p), NEW written \in BOOLEAN,
         FollowEpoch(p, c, written)
  PROVE  SoundInv'
<1>1. Inv' /\ StepOf(p)
  BY FollowEpochInv DEF SoundInv
<1>2. p \in Oracle /\ Types /\ TypeOK /\ Placed(p) /\ Sound(p) /\ msgs' = msgs
  BY HonestOracle DEF SoundInv, Inv, Types, FollowEpoch
<1>3. Verified(c) /\ c \in Certificate /\ c.kind = "commit"
  BY TakenIsVerified DEF FollowEpoch
<1>4. Verified(cert[p])' /\ \A s \in 1..Len(committed'[p]) : ByQuorum(SubSeq(committed[p], 1, s))'
  <2>1. (c # Genesis /\ Commit(p, c, written)) \/ UNCHANGED <<cert, committed>>
    BY DEF FollowEpoch
  <2> QED BY <1>2, <1>3, <2>1, CommitIsSound
<1>5. committed' \in [Oracle -> Outcome]
  BY <1>1 DEF Inv, Types, TypeOK
<1>6. phase[p] = "newEpoch" /\ cached[p] = 0
  BY <1>2 DEF FollowEpoch, CanStartEpoch, Sound
<1>7. phase'[p] = "newRound" /\ seqNr'[p] = Len(committed'[p]) + 1 /\ cached'[p] = 0
  BY <1>2, <1>5, <1>6, FollowerRoundEffect DEF FollowEpoch
<1>8. Len(committed'[p]) \in Nat
  BY <1>2, <1>5, OutcomeTypes
<1>9. Sound(p)'
  BY <1>4, <1>7, <1>8 DEF Sound
<1> QED BY <1>1, <1>2, <1>9, OthersStaySound

LEMMA ReproposeSound ==
  ASSUME SoundInv, NEW p \in Honest, NEW c \in CertOfEpochStart(p), Repropose(p, c)
  PROVE  SoundInv'
<1>1. Inv' /\ StepOf(p)
  BY ReproposeInv DEF SoundInv
<1>2. p \in Oracle /\ TypeOK /\ Sound(p) /\ msgs \subseteq msgs'
  BY <1>1, HonestOracle DEF SoundInv, Inv, Types, StepOf
<1>3. Verified(c) /\ c \in Certificate /\ c.kind = "prepare"
  BY TakenIsVerified DEF Repropose
<1>4. Rooted(c.outcome) /\ Len(c.outcome) \in Nat
  BY <1>3, PreparedIsRooted, CertTypes DEF SeqNr
<1>5. /\ phase[p] = "newEpoch" /\ phase'[p] = "sentPrepare" /\ seqNr'[p] = Len(c.outcome)
      /\ current'[p] = [inputs |-> None, outcome |-> c.outcome]
      /\ msgs' = msgs \cup {PrepareMsg(p, epoch[p], None, c.outcome)}
      /\ UNCHANGED <<epoch, cached, cert, committed>>
  BY <1>2 DEF Repropose, CanStartEpoch, TypeOK, SeqNr
<1>6. cached'[p] = 0 /\ seqNr'[p] > 0
  BY <1>2, <1>4, <1>5 DEF Sound, Rooted
<1>7. Verified(cert[p])' /\ \A s \in 1..Len(committed'[p]) : ByQuorum(SubSeq(committed[p], 1, s))'
  BY <1>2, <1>5, MoreMessages DEF Sound
<1>8. Sound(p)'
  BY <1>5, <1>6, <1>7 DEF Sound
<1>9. ASSUME NEW m \in msgs' \ msgs PROVE SoundMessage(m)'
  <2>1. m.type = "Prepare" /\ m.outcome = c.outcome
    BY <1>5, <1>9 DEF PrepareMsg
  <2>2. Rooted(m.outcome)'
    BY <1>2, <1>4, <2>1, MoreMessages
  <2> QED BY <2>1, <2>2 DEF SoundMessage
<1> QED BY <1>1, <1>8, <1>9, OthersStaySound

LEMMA ProposeSound ==
  ASSUME SoundInv, NEW p \in Honest, NEW v \in Value, Propose(p, v)
  PROVE  SoundInv'
<1>1. Inv' /\ StepOf(p)
  BY ProposeInv DEF SoundInv
<1>2. p \in Oracle /\ Sound(p) /\ msgs \subseteq msgs'
  BY <1>1, HonestOracle DEF SoundInv, StepOf
<1>3. /\ msgs' = msgs \cup {ProposalMsg(p, epoch[p], seqNr[p], v)}
      /\ UNCHANGED <<epoch, phase, seqNr, current, cached, cert, committed>>
  BY DEF Propose, Send
<1>4. Verified(cert[p])' /\ \A s \in 1..Len(committed'[p]) : ByQuorum(SubSeq(committed[p], 1, s))'
  BY <1>2, <1>3, MoreMessages DEF Sound
<1>5. Sound(p)'
  BY <1>2, <1>3, <1>4 DEF Sound
<1>6. ASSUME NEW m \in msgs' \ msgs PROVE SoundMessage(m)'
  <2>1. m.type = "Proposal"
    BY <1>3, <1>6 DEF ProposalMsg
  <2> QED BY <2>1 DEF SoundMessage
<1> QED BY <1>1, <1>5, <1>6, OthersStaySound

LEMMA HandleProposalSound ==
  ASSUME SoundInv, NEW p \in Honest, NEW v \in Value, HandleProposal(p, v)
  PROVE  SoundInv'
<1> DEFINE o == Append(committed[p], v)
<1>1. Inv' /\ StepOf(p)
  BY HandleProposalInv DEF SoundInv
<1>2. p \in Oracle /\ TypeOK /\ Placed(p) /\ Sound(p) /\ msgs \subseteq msgs'
  BY <1>1, HonestOracle DEF SoundInv, Inv, Types, StepOf
<1>3. /\ phase[p] = "newRound" /\ phase'[p] = "sentPrepare"
      /\ current'[p] = [inputs |-> v, outcome |-> o]
      /\ msgs' = msgs \cup {PrepareMsg(p, epoch[p], v, o)}
      /\ UNCHANGED <<epoch, seqNr, cached, cert, committed>>
  BY <1>2 DEF HandleProposal, TypeOK
<1>4. Rooted(o)
  <2>1. committed[p] \in Seq(Value) /\ Len(committed[p]) \in Nat
    BY <1>2, OutcomeTypes DEF TypeOK
  <2>2. o \in Seq(Value) /\ Len(o) = Len(committed[p]) + 1
    BY <2>1, AppendProperties
  <2>3. ASSUME NEW s \in 1..Len(o) - 1 PROVE ByQuorum(SubSeq(o, 1, s))
    <3>1. s \in 1..Len(committed[p])
      BY <2>1, <2>2
    <3>2. SubSeq(o, 1, s) = SubSeq(committed[p], 1, s)
      BY <2>1, <2>2, <3>1
    <3> HIDE DEF o
    <3> QED BY <1>2, <3>1, <3>2 DEF Sound
  <2> HIDE DEF o
  <2> QED BY <2>1, <2>2, <2>3 DEF Rooted
<1> HIDE DEF o
<1>5. Verified(cert[p])' /\ \A s \in 1..Len(committed'[p]) : ByQuorum(SubSeq(committed[p], 1, s))'
  BY <1>2, <1>3, MoreMessages DEF Sound
<1>6. Sound(p)'
  BY <1>2, <1>3, <1>5 DEF Sound
<1>7. ASSUME NEW m \in msgs' \ msgs PROVE SoundMessage(m)'
  <2>1. m.type = "Prepare" /\ m.outcome = o
    BY <1>3, <1>7 DEF PrepareMsg
  <2>2. Rooted(m.outcome)
    BY <1>4, <2>1
  <2>3. Rooted(m.outcome)'
    BY <1>2, <2>2, MoreMessages
  <2> QED BY <2>1, <2>3 DEF SoundMessage
<1> QED BY <1>1, <1>6, <1>7, OthersStaySound

\* As no pool holds signatures for another outcome, a quorum was verified now.
LEMMA LockSound ==
  ASSUME SoundInv, NEW p \in Honest, Lock(p)
  PROVE  SoundInv'
<1> DEFINE c == Prepared(epoch[p], current[p].inputs, current[p].outcome)
<1>1. Inv' /\ StepOf(p)
  BY LockInv DEF SoundInv
<1>2. p \in Oracle /\ TypeOK /\ Placed(p) /\ Sound(p) /\ msgs \subseteq msgs'
  BY <1>1, HonestOracle DEF SoundInv, Inv, Types, StepOf
<1>3. /\ phase[p] = "sentPrepare" /\ phase'[p] = "sentCommit"
      /\ cert' = [cert EXCEPT ![p] = Greater(cert[p], c)]
      /\ msgs' = msgs \cup {CommitMsg(p, epoch[p], current[p].outcome)}
      /\ UNCHANGED <<epoch, seqNr, current, cached, committed>>
  BY <1>2 DEF Lock, TypeOK
<1>4. seqNr[p] \in Nat /\ cached[p] \in Nat /\ seqNr[p] > 0 /\ cached[p] # seqNr[p]
  BY <1>2, <1>3, BoundAssumption DEF Sound, TypeOK
<1>5. Verified(c)
  <2>1. IsQuorum(PrepareSigners(epoch[p], current[p].inputs, current[p].outcome))
    BY <1>4 DEF Lock, CachedQuorum
  <2> QED BY <2>1 DEF Verified, Prepared
<1>6. cert'[p] \in {cert[p], c}
  <2>1. cert'[p] = Greater(cert[p], c)
    BY <1>2, <1>3 DEF TypeOK
  <2> HIDE DEF c
  <2> QED BY <2>1 DEF Greater
<1> HIDE DEF c
<1>7. Verified(cert[p])'
  <2>1. Verified(cert'[p])
    BY <1>2, <1>5, <1>6 DEF Sound
  <2>2. \A d : Verified(d) => Verified(d)'
    BY <1>2, MoreMessages
  <2> QED BY <2>1, <2>2
<1>8. \A s \in 1..Len(committed'[p]) : ByQuorum(SubSeq(committed[p], 1, s))'
  BY <1>2, <1>3, MoreMessages DEF Sound
<1>9. PrepareMsg(p, epoch[p], current[p].inputs, current[p].outcome) \in msgs
  BY <1>2, <1>3 DEF Sound
<1>10. Sound(p)'
  BY <1>2, <1>3, <1>7, <1>8, <1>9 DEF Sound
<1>11. ASSUME NEW m \in msgs' \ msgs PROVE SoundMessage(m)'
  <2>1. m.type = "Commit" /\ m.outcome = current[p].outcome
    BY <1>3, <1>11 DEF CommitMsg
  <2>2. \E n \in msgs : n.type = "Prepare" /\ n.outcome = m.outcome
    BY <1>9, <2>1 DEF PrepareMsg
  <2>3. \E n \in msgs' : n.type = "Prepare" /\ n.outcome = m.outcome
    BY <1>2, <2>2
  <2> QED BY <2>1, <2>3 DEF SoundMessage
<1> QED BY <1>1, <1>10, <1>11, OthersStaySound

LEMMA FinishRoundSound ==
  ASSUME SoundInv, FailingDB = {}, NEW p \in Honest, NEW written \in BOOLEAN, FinishRound(p, written)
  PROVE  SoundInv'
<1> DEFINE c == Committed(epoch[p], current[p].outcome)
<1>1. Inv' /\ StepOf(p)
  BY FinishRoundInv DEF SoundInv
<1>2. /\ p \in Oracle /\ Types /\ TypeOK /\ Placed(p) /\ Sound(p)
      /\ phase[p] = "sentCommit" /\ msgs' = msgs /\ UNCHANGED epoch
  BY HonestOracle DEF SoundInv, Inv, Types, FinishRound
<1>3. /\ current[p].outcome \in Outcome /\ Len(current[p].outcome) = seqNr[p]
      /\ seqNr[p] \in Nat /\ seqNr[p] > 0 /\ cached[p] \in Nat /\ cached[p] # seqNr[p]
      /\ epoch[p] \in Epoch
  BY <1>2, BoundAssumption DEF Sound, TypeOK, Placed
<1>4. c \in Certificate /\ c.kind = "commit" /\ c # Genesis /\ SeqNr(c) = seqNr[p]
  BY <1>3, BoundAssumption DEF Committed, Certificate, Genesis, Epoch, Inputs, SeqNr
<1>5. Verified(c)
  <2>1. IsQuorum(CommitSigners(epoch[p], current[p].outcome))
    BY <1>3 DEF FinishRound, CachedQuorum
  <2> QED BY <2>1 DEF Verified, Committed
<1>6. Commit(p, c, written)
  BY DEF FinishRound
<1> HIDE DEF c
<1>7. Verified(cert[p])' /\ \A s \in 1..Len(committed'[p]) : ByQuorum(SubSeq(committed[p], 1, s))'
  BY <1>2, <1>4, <1>5, <1>6, CommitIsSound
<1>8. committed' \in [Oracle -> Outcome] /\ Len(committed'[p]) >= seqNr[p] /\ Len(committed'[p]) \in Nat
  <2>1. committed' \in [Oracle -> Outcome] /\ Len(committed'[p]) >= seqNr[p]
    BY <1>2, <1>4, <1>6, CommitEffect
  <2> QED BY <1>2, <2>1, OutcomeTypes
<1>9. ASSUME UNCHANGED <<seqNr, phase, current, cached>> PROVE Sound(p)'
  BY <1>2, <1>7, <1>9 DEF Sound
<1>10. ASSUME StartSubsequentFollowerRound(p) PROVE Sound(p)'
  <2>1. /\ phase'[p] = "newRound" /\ seqNr'[p] = Len(committed'[p]) + 1
        /\ cached'[p] \in {0, seqNr[p]}
    BY <1>2, <1>8, <1>10, FollowerRoundEffect
  <2>2. seqNr'[p] > 0 /\ (cached'[p] = 0 \/ cached'[p] < seqNr'[p])
    BY <1>3, <1>8, <2>1
  <2> QED BY <1>7, <2>1, <2>2 DEF Sound
<1>11. Sound(p)'
  BY <1>9, <1>10 DEF FinishRound
<1> QED BY <1>1, <1>2, <1>11, OthersStaySound

LEMMA RestartSound ==
  ASSUME SoundInv, NEW p \in Honest, Restart(p)
  PROVE  SoundInv'
<1>1. Inv' /\ StepOf(p)
  BY RestartInv DEF SoundInv
<1>2. p \in Oracle /\ TypeOK /\ Sound(p)
  BY HonestOracle DEF SoundInv, Inv, Types
<1>3. /\ phase'[p] = "unknown" /\ cached'[p] = 0 /\ committed'[p] = <<>>
      /\ cert' = cert /\ msgs' = msgs
  BY <1>2 DEF Restart, TypeOK
<1>4. Verified(cert[p])'
  BY <1>2, <1>3, MoreMessages DEF Sound
<1>5. 1..Len(committed'[p]) = {}
  BY <1>3, EmptyOutcome
<1>6. Sound(p)'
  BY <1>3, <1>4, <1>5 DEF Sound
<1> QED BY <1>1, <1>3, <1>6, OthersStaySound

LEMMA SoundStep == ASSUME FailingDB = {} PROVE SoundInv /\ [Next]_vars => SoundInv'
<1> SUFFICES ASSUME SoundInv, [Next]_vars PROVE SoundInv'
  OBVIOUS
<1>1. CASE UNCHANGED vars
  <2>1. Inv'
    BY <1>1, InvStep DEF SoundInv
  <2>2. ASSUME NEW p \in Honest PROVE Sound(p)'
    <3>1. msgs' = msgs /\ Sound(p)
      BY <1>1 DEF vars, SoundInv
    <3>2. /\ \A d : Verified(d) => Verified(d)'
          /\ \A o : ByQuorum(o) => ByQuorum(o)'
      BY <3>1, MoreMessages
    <3> QED BY <1>1, <3>1, <3>2 DEF vars, Sound
  <2>3. ASSUME NEW m \in msgs' PROVE SoundMessage(m)'
    <3>1. msgs' = msgs /\ SoundMessage(m)
      BY <1>1, <2>3 DEF vars, SoundInv
    <3> QED BY <3>1, MoreMessages DEF SoundMessage
  <2> QED BY <2>1, <2>2, <2>3 DEF SoundInv
<1>2. CASE Next
  BY <1>2, NewEpochStartSound, LeadEpochSound, FollowEpochSound, ReproposeSound, ProposeSound,
     HandleProposalSound, LockSound, FinishRoundSound, RestartSound DEF Next
<1> QED BY <1>1, <1>2

LEMMA SoundInvariant == ASSUME FailingDB = {} PROVE Spec => []SoundInv
BY SoundInit, SoundStep, PTL DEF Spec

\* What an oracle takes for committed was committed by a quorum, and so was every
\* outcome before it, as long as no database refuses a write.
THEOREM NoGaps == ASSUME FailingDB = {} PROVE Spec => []NoGap
<1>1. SoundInv => NoGap
  <2> SUFFICES ASSUME SoundInv, NEW p \in Honest, NEW s \in 1..Len(committed[p])
               PROVE  Committed(0, SubSeq(committed[p], 1, s)) \in {[c EXCEPT !.epoch = 0] : c \in Certificates}
    BY DEF NoGap
  <2>1. PICK x \in Epoch : Committed(x, SubSeq(committed[p], 1, s)) \in Certificates
    BY DEF SoundInv, Sound, ByQuorum
  <2>2. ASSUME NEW o PROVE [Committed(x, o) EXCEPT !.epoch = 0] = Committed(0, o)
    BY DEF Committed
  <2> QED BY <2>1, <2>2
<1> QED BY <1>1, SoundInvariant, PTL

\* The sanity check of the leader does not fail: its proof of the start of the epoch
\* verifies, as long as no database refuses a write.
THEOREM LeaderProofsAreValid == ASSUME FailingDB = {} PROVE Spec => []LeaderProofValid
<1>1. SoundInv => LeaderProofValid
  BY DEF SoundInv, SoundMessage, LeaderProofValid
<1> QED BY <1>1, SoundInvariant, PTL

-----------------------------------------------------------------------------
(* What holds as long as no oracle restarts and no database refuses a write *)

\* Two quorums have an honest oracle in common.
LEMMA QuorumsIntersect ==
  ASSUME NEW S, NEW T, S \subseteq Oracle, T \subseteq Oracle, IsQuorum(S), IsQuorum(T)
  PROVE  \E p \in Honest : p \in S /\ p \in T
<1> SUFFICES ASSUME S \cap T \subseteq Faulty PROVE FALSE
  BY DEF Honest
<1>1. IsFiniteSet(S) /\ IsFiniteSet(T) /\ IsFiniteSet(Faulty) /\ IsFiniteSet(S \cap T) /\ IsFiniteSet(S \cup T)
  BY OracleAssumption, FS_Subset
<1>2. Cardinality(S \cup T) = Cardinality(S) + Cardinality(T) - Cardinality(S \cap T)
  BY <1>1, FS_Union
<1>3. Cardinality(S \cap T) <= Cardinality(Faulty)
  BY <1>1, FS_Subset
<1>4. Cardinality(S \cup T) <= Cardinality(Oracle)
  BY OracleAssumption, FS_Subset
<1>5. /\ Cardinality(S) \in Nat /\ Cardinality(T) \in Nat /\ Cardinality(S \cap T) \in Nat
      /\ Cardinality(S \cup T) \in Nat /\ Cardinality(Faulty) \in Nat
  BY <1>1, FS_CardinalityType
<1> QED BY <1>2, <1>3, <1>4, <1>5, SizeOfQuorum, FaultAssumption DEF IsQuorum

\* p has signed prepares of its epoch for the rounds it has been through only.
Signed(p) ==
  \A m \in msgs : m.type = "Prepare" /\ m.from = p =>
    /\ m.epoch <= epoch[p]
    /\ m.epoch = epoch[p] =>
         /\ phase[p] \in {"newRound", "sentPrepare", "sentCommit"}
         /\ Len(m.outcome) <= seqNr[p]
         /\ phase[p] = "newRound" => Len(m.outcome) < seqNr[p]

\* It signs one prepare for each sequence number of an epoch.
SignedOnce(p) ==
  \A m, n \in msgs :
    (/\ m.type = "Prepare" /\ n.type = "Prepare" /\ m.from = p /\ n.from = p
     /\ m.epoch = n.epoch /\ Len(m.outcome) = Len(n.outcome)) => m = n

OnceInv == Inv /\ \A p \in Honest : Signed(p) /\ SignedOnce(p)

LEMMA OthersSignedOnce ==
  ASSUME OnceInv, NEW p \in Honest, Inv', StepOf(p), Signed(p)', SignedOnce(p)'
  PROVE  OnceInv'
<1>1. ASSUME NEW q \in Honest, q # p PROVE Signed(q)' /\ SignedOnce(q)'
  <2>1. q \in Oracle \ {p} /\ Signed(q) /\ SignedOnce(q)
    BY <1>1, HonestOracle DEF OnceInv
  <2>2. epoch'[q] = epoch[q] /\ phase'[q] = phase[q] /\ seqNr'[q] = seqNr[q]
    BY <2>1 DEF StepOf
  <2>3. \A m \in msgs' : m.from = q => m \in msgs
    BY <1>1 DEF StepOf
  <2> QED BY <2>1, <2>2, <2>3 DEF Signed, SignedOnce
<1> QED BY <1>1 DEF OnceInv

\* A step that signs no prepare and goes on to a later round, if to any.
LEMMA NothingSigned ==
  ASSUME OnceInv, NEW p \in Honest, Inv', StepOf(p),
         \A m \in msgs' \ msgs : m.type # "Prepare",
         epoch'[p] = epoch[p],
         \/ phase'[p] = phase[p] /\ seqNr'[p] = seqNr[p]
         \/ phase'[p] = "sentCommit" /\ phase[p] = "sentPrepare" /\ seqNr'[p] = seqNr[p]
         \/ phase'[p] = "newRound" /\ phase[p] = "newEpoch"
         \/ phase'[p] = "newRound" /\ phase[p] = "sentCommit" /\ seqNr'[p] > seqNr[p]
  PROVE  OnceInv'
<1>1. p \in Oracle /\ Signed(p) /\ SignedOnce(p)
  BY HonestOracle DEF OnceInv
<1>2. \A m \in msgs' : m.type = "Prepare" => m \in msgs
  OBVIOUS
<1>3. seqNr[p] \in Nat /\ seqNr'[p] \in Nat
  BY <1>1, BoundAssumption DEF OnceInv, Inv, Types, TypeOK
<1>4. \A m \in msgs : m.type = "Prepare" => Len(m.outcome) \in Nat
  BY OutcomeTypes DEF OnceInv, Inv, Types, Messages
<1>5. SignedOnce(p)'
  BY <1>1, <1>2 DEF SignedOnce
<1>6. ASSUME NEW m \in msgs, m.type = "Prepare", m.from = p, m.epoch = epoch[p]
      PROVE  /\ phase'[p] \in {"newRound", "sentPrepare", "sentCommit"}
             /\ Len(m.outcome) <= seqNr'[p]
             /\ phase'[p] = "newRound" => Len(m.outcome) < seqNr'[p]
  <2>1. /\ phase[p] \in {"newRound", "sentPrepare", "sentCommit"} /\ Len(m.outcome) <= seqNr[p]
        /\ phase[p] = "newRound" => Len(m.outcome) < seqNr[p]
    BY <1>1, <1>6 DEF Signed
  <2> QED BY <1>3, <1>4, <1>6, <2>1
<1>7. Signed(p)'
  BY <1>1, <1>2, <1>6 DEF Signed
<1> QED BY <1>5, <1>7, OthersSignedOnce

\* A step that signs the prepare of its round, the first for its sequence number.
LEMMA PrepareSigned ==
  ASSUME OnceInv, NEW p \in Honest, Inv', StepOf(p), NEW i, NEW o \in Outcome,
         msgs' = msgs \cup {PrepareMsg(p, epoch[p], i, o)},
         epoch'[p] = epoch[p], phase'[p] = "sentPrepare", seqNr'[p] = Len(o),
         phase[p] = "newEpoch" \/ (phase[p] = "newRound" /\ seqNr[p] = Len(o))
  PROVE  OnceInv'
<1> DEFINE n == PrepareMsg(p, epoch[p], i, o)
<1>1. p \in Oracle /\ Signed(p) /\ SignedOnce(p) /\ epoch[p] \in Nat /\ Len(o) \in Nat
  BY HonestOracle, OutcomeTypes, BoundAssumption DEF OnceInv, Inv, Types, TypeOK
<1>2. n.type = "Prepare" /\ n.from = p /\ n.epoch = epoch[p] /\ n.outcome = o
  BY DEF PrepareMsg
<1>3. \A m \in msgs : m.type = "Prepare" => Len(m.outcome) \in Nat
  BY OutcomeTypes DEF OnceInv, Inv, Types, Messages
<1>4. msgs' = msgs \cup {n}
  OBVIOUS
<1> HIDE DEF n
<1>5. \A m \in msgs : m.type = "Prepare" /\ m.from = p /\ m.epoch = epoch[p] => Len(m.outcome) < Len(o)
  BY <1>1 DEF Signed
<1>6. SignedOnce(p)'
  <2> SUFFICES ASSUME NEW m \in msgs', NEW k \in msgs',
                      m.type = "Prepare", k.type = "Prepare", m.from = p, k.from = p,
                      m.epoch = k.epoch, Len(m.outcome) = Len(k.outcome)
               PROVE  m = k
    BY DEF SignedOnce
  <2>1. CASE m \in msgs /\ k \in msgs
    BY <1>1, <2>1 DEF SignedOnce
  <2>2. CASE m = n /\ k = n
    BY <2>2
  <2>3. CASE m \in msgs /\ k = n
    BY <1>1, <1>2, <1>3, <1>5, <2>3
  <2>4. CASE m = n /\ k \in msgs
    BY <1>1, <1>2, <1>3, <1>5, <2>4
  <2> QED BY <1>4, <2>1, <2>2, <2>3, <2>4
<1>7. Signed(p)'
  <2> SUFFICES ASSUME NEW m \in msgs', m.type = "Prepare", m.from = p
               PROVE  m.epoch <= epoch[p] /\ (m.epoch = epoch[p] => Len(m.outcome) <= Len(o))
    BY DEF Signed
  <2>1. CASE m = n
    BY <1>1, <1>2, <2>1
  <2>2. CASE m \in msgs
    BY <1>1, <1>3, <1>5, <2>2 DEF Signed
  <2> QED BY <1>4, <2>1, <2>2
<1> QED BY <1>6, <1>7, OthersSignedOnce

LEMMA OnceInit == Init => OnceInv
BY InvInit DEF Init, OnceInv, Signed, SignedOnce

LEMMA OnceStep ==
  ASSUME MayRestart = {}, FailingDB = {}
  PROVE  OnceInv /\ [Next]_vars => OnceInv'
<1> SUFFICES ASSUME OnceInv, [Next]_vars PROVE OnceInv'
  OBVIOUS
<1>1. Inv /\ Inv'
  BY InvStep DEF OnceInv
<1>2. CASE UNCHANGED vars
  BY <1>1, <1>2 DEF vars, OnceInv, Signed, SignedOnce
<1>3. ASSUME NEW p \in Honest, NEW x \in Epoch, NewEpochStart(p, x) PROVE OnceInv'
  <2>1. StepOf(p) /\ p \in Oracle /\ TypeOK /\ Signed(p) /\ SignedOnce(p)
    BY <1>1, <1>3, NewEpochStartInv, HonestOracle DEF OnceInv, Inv, Types
  <2>2. /\ epoch[p] \in Nat /\ x \in Nat /\ epoch'[p] = x /\ x > epoch[p]
        /\ \A m \in msgs : m.epoch \in Nat
    BY <1>3, <2>1, BoundAssumption DEF NewEpochStart, TypeOK, Epoch
  <2>3. \A m \in msgs' : m.type = "Prepare" => m \in msgs
    BY <1>3 DEF NewEpochStart, RequestMsg
  <2>4. SignedOnce(p)'
    BY <2>1, <2>3 DEF SignedOnce
  <2>5. Signed(p)'
    BY <2>1, <2>2, <2>3 DEF Signed
  <2> QED BY <1>1, <2>1, <2>4, <2>5, OthersSignedOnce
<1>4. ASSUME NEW p \in Honest, NEW c \in CertOfEpochStart(p), Repropose(p, c) PROVE OnceInv'
  <2>1. StepOf(p) /\ p \in Oracle /\ TypeOK /\ c \in Certificate
    BY <1>1, <1>4, ReproposeInv, HonestOracle, TakenTypes DEF Inv, Types
  <2>2. /\ c.outcome \in Outcome /\ phase[p] = "newEpoch" /\ phase'[p] = "sentPrepare"
        /\ seqNr'[p] = Len(c.outcome) /\ epoch'[p] = epoch[p]
        /\ msgs' = msgs \cup {PrepareMsg(p, epoch[p], None, c.outcome)}
    BY <1>4, <2>1, CertTypes DEF Repropose, CanStartEpoch, TypeOK, SeqNr
  <2> QED BY <1>1, <2>1, <2>2, PrepareSigned
<1>5. ASSUME NEW p \in Honest, NEW v \in Value, HandleProposal(p, v) PROVE OnceInv'
  <2>1. StepOf(p) /\ p \in Oracle /\ TypeOK /\ Placed(p)
    BY <1>1, <1>5, HandleProposalInv, HonestOracle DEF Inv, Types
  <2>2. /\ phase[p] = "newRound" /\ phase'[p] = "sentPrepare" /\ seqNr[p] <= MaxSeqNr
        /\ seqNr'[p] = seqNr[p] /\ epoch'[p] = epoch[p] /\ seqNr[p] = Len(committed[p]) + 1
        /\ msgs' = msgs \cup {PrepareMsg(p, epoch[p], v, Append(committed[p], v))}
    BY <1>5, <2>1 DEF HandleProposal, TypeOK, Placed
  <2>3. committed[p] \in Outcome /\ Len(committed[p]) < MaxSeqNr
    BY <2>1, <2>2, OutcomeTypes, BoundAssumption DEF TypeOK
  <2>4. Append(committed[p], v) \in Outcome /\ Len(Append(committed[p], v)) = seqNr[p]
    BY <2>2, <2>3, NextOutcome
  <2> QED BY <1>1, <2>1, <2>2, <2>4, PrepareSigned
<1>6. ASSUME NEW p \in Honest, NEW written \in BOOLEAN, FinishRound(p, written) PROVE OnceInv'
  <2> DEFINE c == Committed(epoch[p], current[p].outcome)
  <2>1. StepOf(p) /\ p \in Oracle /\ Types /\ TypeOK /\ Placed(p)
    BY <1>1, <1>6, FinishRoundInv, HonestOracle DEF Inv, Types
  <2>2. phase[p] = "sentCommit" /\ msgs' = msgs /\ epoch' = epoch /\ Commit(p, c, written)
    BY <1>6 DEF FinishRound
  <2>3. /\ current[p].outcome \in Outcome /\ Len(current[p].outcome) = seqNr[p] /\ epoch[p] \in Epoch
        /\ seqNr[p] \in Nat
    BY <2>1, <2>2, BoundAssumption DEF TypeOK, Placed
  <2>4. c \in Certificate /\ SeqNr(c) = seqNr[p]
    BY <2>3, BoundAssumption DEF Committed, Certificate, Epoch, Inputs, SeqNr
  <2> HIDE DEF c
  <2>5. committed' \in [Oracle -> Outcome] /\ Len(committed'[p]) >= seqNr[p]
    BY <2>1, <2>2, <2>4, CommitEffect
  <2>6. Len(committed'[p]) \in Nat
    BY <2>1, <2>5, OutcomeTypes
  <2>7. \/ UNCHANGED <<seqNr, phase>>
        \/ phase'[p] = "newRound" /\ seqNr'[p] = Len(committed'[p]) + 1
    BY <1>6, <2>1, <2>5, FollowerRoundEffect DEF FinishRound
  <2>8. \/ phase'[p] = phase[p] /\ seqNr'[p] = seqNr[p]
        \/ phase'[p] = "newRound" /\ seqNr'[p] > seqNr[p]
    BY <2>3, <2>5, <2>6, <2>7
  <2> QED BY <1>1, <2>1, <2>2, <2>8, NothingSigned
<1>7. ASSUME NEW p \in Honest, NEW Q \in SUBSET Oracle, NEW c \in CertOfRequests(p),
             NEW written \in BOOLEAN, LeadEpoch(p, Q, c, written)
      PROVE  OnceInv'
  <2>1. StepOf(p)
    BY <1>1, <1>7, LeadEpochInv
  <2>2. UNCHANGED <<epoch, phase, seqNr>> /\ \A m \in msgs' \ msgs : m.type # "Prepare"
    BY <1>7 DEF LeadEpoch, Send, EpochStartMsg
  <2> QED BY <1>1, <2>1, <2>2, NothingSigned
<1>8. ASSUME NEW p \in Honest, NEW c \in CertOfEpochStart(p), NEW written \in BOOLEAN,
             FollowEpoch(p, c, written)
      PROVE  OnceInv'
  <2>1. StepOf(p) /\ p \in Oracle /\ TypeOK
    BY <1>1, <1>8, FollowEpochInv, HonestOracle DEF Inv, Types
  <2>2. /\ epoch' = epoch /\ msgs' = msgs /\ phase[p] = "newEpoch" /\ phase'[p] = "newRound"
    BY <1>8, <2>1 DEF FollowEpoch, CanStartEpoch, StartSubsequentFollowerRound, TypeOK
  <2> QED BY <1>1, <2>1, <2>2, NothingSigned
<1>9. ASSUME NEW p \in Honest, NEW v \in Value, Propose(p, v) PROVE OnceInv'
  <2>1. StepOf(p)
    BY <1>1, <1>9, ProposeInv
  <2>2. UNCHANGED <<epoch, phase, seqNr>> /\ \A m \in msgs' \ msgs : m.type # "Prepare"
    BY <1>9 DEF Propose, Send, ProposalMsg
  <2> QED BY <1>1, <2>1, <2>2, NothingSigned
<1>10. ASSUME NEW p \in Honest, Lock(p) PROVE OnceInv'
  <2>1. StepOf(p) /\ p \in Oracle /\ TypeOK
    BY <1>1, <1>10, LockInv, HonestOracle DEF Inv, Types
  <2>2. /\ UNCHANGED <<epoch, seqNr>> /\ phase[p] = "sentPrepare" /\ phase'[p] = "sentCommit"
        /\ \A m \in msgs' \ msgs : m.type # "Prepare"
    BY <1>10, <2>1 DEF Lock, CommitMsg, TypeOK
  <2> QED BY <1>1, <2>1, <2>2, NothingSigned
<1>11. ASSUME NEW p \in Honest, Restart(p) PROVE OnceInv'
  BY <1>11 DEF Restart
<1> QED BY <1>2, <1>3, <1>4, <1>5, <1>6, <1>7, <1>8, <1>9, <1>10, <1>11 DEF Next

LEMMA OnceMeansUnique == OnceInv => PrepareUnique
<1> SUFFICES ASSUME OnceInv, NEW c \in Certificates, NEW d \in Certificates,
                    c.kind = "prepare", d.kind = "prepare", c.epoch = d.epoch, SeqNr(c) = SeqNr(d)
             PROVE  c = d
  BY DEF PrepareUnique
<1> DEFINE S(x) == PrepareSigners(x.epoch, x.inputs, x.outcome)
<1>1. ASSUME NEW x \in Certificates, x.kind = "prepare"
      PROVE  IsQuorum(S(x)) /\ S(x) \subseteq Oracle /\ x = Prepared(x.epoch, x.inputs, x.outcome)
  <2>1. x # Genesis
    BY <1>1 DEF Genesis, Committed
  <2>2. IsQuorum(S(x))
    BY <1>1, <2>1 DEF Certificates, Verified
  <2>3. x = Prepared(x.epoch, x.inputs, x.outcome)
    BY <1>1, <2>1 DEF Certificates, Prepared, Committed
  <2> QED BY <2>2, <2>3 DEF PrepareSigners
<1>2. PICK p \in Honest : p \in S(c) /\ p \in S(d)
  <2>1. IsQuorum(S(c)) /\ IsQuorum(S(d)) /\ S(c) \subseteq Oracle /\ S(d) \subseteq Oracle
    BY <1>1
  <2> HIDE DEF S
  <2> QED BY <2>1, QuorumsIntersect
<1>3. /\ PrepareMsg(p, c.epoch, c.inputs, c.outcome) \in msgs
      /\ PrepareMsg(p, d.epoch, d.inputs, d.outcome) \in msgs
  BY <1>2, HonestOracle DEF PrepareSigners
<1>4. PrepareMsg(p, c.epoch, c.inputs, c.outcome) = PrepareMsg(p, d.epoch, d.inputs, d.outcome)
  <2>1. SignedOnce(p)
    BY DEF OnceInv
  <2> QED BY <1>3, <2>1 DEF SignedOnce, PrepareMsg, SeqNr
<1>5. c.inputs = d.inputs /\ c.outcome = d.outcome
  BY <1>4 DEF PrepareMsg
<1> QED BY <1>1, <1>5

LEMMA OnceInvariant == ASSUME MayRestart = {}, FailingDB = {} PROVE Spec => []OnceInv
BY OnceInit, OnceStep, PTL DEF Spec

\* In an epoch a quorum prepares one outcome for a sequence number at most, as long as
\* no oracle restarts, which would sign again, and no database refuses a write.
THEOREM PreparesAreUnique ==
  ASSUME MayRestart = {}, FailingDB = {} PROVE Spec => []PrepareUnique
BY OnceMeansUnique, OnceInvariant, PTL
=============================================================================
