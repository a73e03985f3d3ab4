-------------------------- MODULE OutcomeGeneration --------------------------
(***************************************************************************)
(* Outcome generation, the consensus of the OCR3 protocol, across epochs:  *)
(* offchainreporting2plus/internal/ocr3/protocol/outcome_generation*.go    *)
(* and signed_data.go.  In each epoch the leader collects a quorum of      *)
(* signed timestamps of certificates, starts the epoch from the highest    *)
(* certificate, and drives rounds: proposal, prepare, commit.  What an     *)
(* oracle locks (its certificate) is on disk before it signs a commit.     *)
(*                                                                         *)
(* The network is the set of all messages ever sent: an oracle may read a  *)
(* message late, never, twice, or after later ones, which covers loss,     *)
(* reordering, the buffers for future epochs and the bounded pools.  A     *)
(* signature is a message; certificates are verified against the messages. *)
(* The steps of a round before the proposal are in OutcomeRound.           *)
(***************************************************************************)
EXTENDS Integers, FiniteSets, Sequences

CONSTANTS
  Oracle,      \* the oracles of the configuration
  Faulty,      \* the oracles that may send anything
  MayRestart,  \* the oracles that may crash and restart
  FailingDB,   \* the oracles whose database may refuse a write of a commit
  F,           \* the number of faults the configuration tolerates
  Leader,      \* the leader of each epoch
  Value,       \* what a proposal may contribute to an outcome
  None,        \* no value
  RMax,        \* the number of rounds after which an epoch is left
  MaxEpoch,    \* bound: the last epoch
  MaxSeqNr     \* bound: the last sequence number that is proposed

Honest == Oracle \ Faulty
Epoch == 1..MaxEpoch

ASSUME OracleAssumption == IsFiniteSet(Oracle) /\ Faulty \subseteq Oracle
ASSUME FaultAssumption ==
  F \in Nat /\ Cardinality(Faulty) <= F /\ Cardinality(Oracle) >= 3 * F + 1
ASSUME RestartAssumption == MayRestart \subseteq Honest /\ FailingDB \subseteq Honest
ASSUME BoundAssumption == MaxEpoch \in Nat /\ MaxSeqNr \in Nat /\ RMax \in Nat \ {0}
ASSUME LeaderAssumption == Leader \in [Epoch -> Oracle]
ASSUME NoneAssumption == None \notin Value

\* Bug: one signature less than a quorum.
SmallQuorumSize == (Cardinality(Oracle) + F) \div 2

\* two sets of this size have more than F oracles in common
ByzQuorumSize == (Cardinality(Oracle) + F) \div 2 + 1

\* An outcome is the sequence of the contributions of all rounds so far: its
\* length is its sequence number and its prefix the outcome it was built on.
Outcome == UNION {[1..n -> Value] : n \in 0..MaxSeqNr}

\* CertifiedPrepare, CertifiedCommit; inputs stands for the OutcomeInputsDigest,
\* which is empty in the certificate of a re-proposal
Prepared(e, i, o) == [kind |-> "prepare", epoch |-> e, inputs |-> i, outcome |-> o]
Committed(e, o) == [kind |-> "commit", epoch |-> e, inputs |-> None, outcome |-> o]
Genesis == Committed(0, <<>>)
SeqNr(c) == Len(c.outcome)

\* HighestCertifiedTimestamp: the sequence number, then committed else prepared
Less(c, d) ==
  \/ SeqNr(c) < SeqNr(d)
  \/ SeqNr(c) = SeqNr(d) /\ c.kind = "prepare" /\ d.kind = "commit"
SameTimestamp(c, d) == ~Less(c, d) /\ ~Less(d, c)

VARIABLES
  epoch,        \* sharedState.e, 0 before the first epoch since the start
  startedEpoch, \* the epoch the pacemaker has on disk
  phase,        \* followerState.phase
  seqNr,        \* sharedState.seqNr
  firstSeqNr,   \* sharedState.firstSeqNrOfEpoch
  proposal,     \* the entry of followerState.proposalPool for seqNr
  current,      \* followerState.outcome with its inputs digest
  cached,       \* a sequence number for which preparePool and commitPool hold quorums
                \* of signatures that were verified for an earlier outcome, or 0
  cert,         \* followerState.cert, the same in memory and on disk
  committed,    \* sharedState.committedOutcome; committedSeqNr is its length
  leaderPhase,  \* leaderState.phase, as far as the start of the epoch
  completed,    \* the completed sequence number of leaderState.observationPool
  msgs,         \* every message that was sent
  toSelf        \* those an oracle sent in this epoch and keeps in memory for itself

leaderVars == <<leaderPhase, completed>>
vars == <<epoch, startedEpoch, phase, seqNr, firstSeqNr, proposal, current, cached,
          cert, committed, leaderVars, msgs, toSelf>>

NoOutcome == [inputs |-> None, outcome |-> <<>>]

-----------------------------------------------------------------------------
(* Signatures and certificates *)

PrepareMsg(p, e, i, o) == [type |-> "Prepare", from |-> p, epoch |-> e, inputs |-> i, outcome |-> o]
CommitMsg(p, e, o) == [type |-> "Commit", from |-> p, epoch |-> e, inputs |-> None, outcome |-> o]
ProposalMsg(p, e, s, v) == [type |-> "Proposal", from |-> p, epoch |-> e, seqNr |-> s, value |-> v]
RequestMsg(p, e, c) == [type |-> "EpochStartRequest", from |-> p, epoch |-> e, cert |-> c]
EpochStartMsg(p, e, c) == [type |-> "EpochStart", from |-> p, epoch |-> e, cert |-> c]

PrepareSigners(e, i, o) == {p \in Oracle : p \in Faulty \/ PrepareMsg(p, e, i, o) \in msgs}
CommitSigners(e, o) == {p \in Oracle : p \in Faulty \/ CommitMsg(p, e, o) \in msgs}
IsQuorum(S) == Cardinality(S) >= ByzQuorumSize

\* CertifiedPrepare.Verify, CertifiedCommit.Verify
Verified(c) ==
  \/ c = Genesis
  \/ c.kind = "prepare" /\ IsQuorum(PrepareSigners(c.epoch, c.inputs, c.outcome))
  \/ c.kind = "commit" /\ IsQuorum(CommitSigners(c.epoch, c.outcome))

\* the certificates an oracle that reads every message could put together
Certificates ==
  {c \in {Genesis} \cup {Prepared(m.epoch, m.inputs, m.outcome) : m \in {x \in msgs : x.type = "Prepare"}}
                   \cup {Committed(m.epoch, m.outcome) : m \in {x \in msgs : x.type = "Commit"}} :
     Verified(c)}

Requests(e) == {m \in msgs : m.type = "EpochStartRequest" /\ m.epoch = e}

\* What p can receive and send.  What an oracle sends to itself stays in memory
\* (sendToSelf): a restart loses it.
Received(p) == {m \in msgs : m.from # p} \cup toSelf[p]
Send(p, m) == msgs' = msgs \cup {m} /\ toSelf' = [toSelf EXCEPT ![p] = @ \cup {m}]

\* EpochStartProof.Verify: c has the highest of a quorum of signed timestamps
ValidProof(e, c) ==
  /\ Verified(c)
  /\ IsQuorum({p \in Oracle : p \in Faulty \/ \E m \in Requests(e) : m.from = p /\ ~Less(c, m.cert)})
  /\ \/ Faulty # {}
     \/ \E m \in Requests(e) : SameTimestamp(m.cert, c)

-----------------------------------------------------------------------------
(* Steps shared by the handlers *)

\* Bug: the certificate is not kept.
FirstCert(c, d) == c
\* persistAndUpdateCertIfGreater, when the database takes the write
Greater(c, d) == IF Less(c, d) THEN d ELSE c

\* commit; nothing changes if the outcome is committed already or not written
TakesCommit(p, c, written) == SeqNr(c) > Len(committed[p]) /\ written
Commit(p, c, written) ==
  /\ written \/ (p \in FailingDB /\ Less(cert[p], c))
  /\ cert' = [cert EXCEPT ![p] = IF TakesCommit(p, c, written) THEN Greater(@, c) ELSE @]
  /\ committed' = [committed EXCEPT ![p] = IF TakesCommit(p, c, written) THEN c.outcome ELSE @]

\* Bug: the next round is the successor of the last round, committed or not.
StartRoundAfterRound(p) ==
  /\ seqNr' = [seqNr EXCEPT ![p] = @ + 1]
  /\ phase' = [phase EXCEPT ![p] = "newRound"]
  /\ current' = [current EXCEPT ![p] = NoOutcome]
  /\ proposal' = [proposal EXCEPT ![p] = None]
  /\ UNCHANGED cached

\* startSubsequentFollowerRound.  The pools were reaped up to the committed
\* outcome; a commit that was not written reaps nothing, so that the round starts
\* again with the pools of the finished one and what was verified in them.
StartSubsequentFollowerRound(p) ==
  /\ seqNr' = [seqNr EXCEPT ![p] = Len(committed'[p]) + 1]
  /\ phase' = [phase EXCEPT ![p] = "newRound"]
  /\ current' = [current EXCEPT ![p] = NoOutcome]
  /\ proposal' = [proposal EXCEPT ![p] = IF seqNr'[p] = seqNr[p] THEN @ ELSE None]
  /\ cached' = [cached EXCEPT ![p] =
       CASE Len(committed'[p]) > Len(committed[p]) -> 0
         [] phase[p] = "sentCommit" -> seqNr[p]
         [] OTHER -> @]

\* startSubsequentLeaderRound, of which the query reaps observationPool up to the
\* committed outcome: after a write that failed the round starts again
StartSubsequentLeaderRound(p, written) ==
  completed' = [completed EXCEPT ![p] = IF written THEN @ ELSE Len(committed[p])]

\* A pool is looked at when a message of a sender it has none of comes in; the
\* signatures it holds were verified once, for the outcome of that time.
CachedQuorum(p, type) ==
  /\ cached[p] = seqNr[p]
  /\ Cardinality({<<m.from, Len(m.outcome)>> : m \in
       {x \in msgs : x.type = type /\ x.epoch = epoch[p] /\ Len(x.outcome) >= seqNr[p]}}) > ByzQuorumSize

-----------------------------------------------------------------------------
Init ==
  /\ epoch = [p \in Oracle |-> 0]
  /\ startedEpoch = [p \in Oracle |-> 1]
  /\ phase = [p \in Oracle |-> "unknown"]
  /\ seqNr = [p \in Oracle |-> 0]
  /\ firstSeqNr = [p \in Oracle |-> 0]
  /\ proposal = [p \in Oracle |-> None]
  /\ current = [p \in Oracle |-> NoOutcome]
  /\ cached = [p \in Oracle |-> 0]
  /\ cert = [p \in Oracle |-> Genesis]
  /\ committed = [p \in Oracle |-> <<>>]
  /\ leaderPhase = [p \in Oracle |-> "unknown"]
  /\ completed = [p \in Oracle |-> 0]
  /\ msgs = {}
  /\ toSelf = [p \in Oracle |-> {}]

\* eventNewEpochStart: the pacemaker starts epoch e, a later one or, after a
\* restart, the one it has on disk
NewEpochStart(p, e) ==
  /\ e > epoch[p] /\ e >= startedEpoch[p]
  /\ epoch' = [epoch EXCEPT ![p] = e]
  /\ startedEpoch' = [startedEpoch EXCEPT ![p] = e]
  /\ phase' = [phase EXCEPT ![p] = "newEpoch"]
  /\ seqNr' = [seqNr EXCEPT ![p] = 0]
  /\ firstSeqNr' = [firstSeqNr EXCEPT ![p] = 0]
  /\ proposal' = [proposal EXCEPT ![p] = None]
  /\ current' = [current EXCEPT ![p] = NoOutcome]
  /\ cached' = [cached EXCEPT ![p] = 0]
  /\ leaderPhase' = [leaderPhase EXCEPT ![p] = "newEpoch"]
  /\ completed' = [completed EXCEPT ![p] = 0]
  /\ msgs' = msgs \cup {RequestMsg(p, e, cert[p])}
  /\ toSelf' = [toSelf EXCEPT ![p] = {RequestMsg(p, e, cert[p])}]
  /\ UNCHANGED <<cert, committed>>

\* Bug: any oracle starts the epoch, from any certificate of the quorum.
LeadEpochFromAny(p, Q, c, written) ==
  /\ epoch[p] \in Epoch /\ leaderPhase[p] = "newEpoch" /\ written
  /\ \A q \in Q \ Faulty : \E m \in Requests(epoch[p]) : m.from = q
  /\ \E m \in Requests(epoch[p]) : m.from \in Q /\ m.cert = c
  /\ leaderPhase' = [leaderPhase EXCEPT ![p] = "sentEpochStart"]
  /\ Send(p, EpochStartMsg(p, epoch[p], c))
  /\ firstSeqNr' = [firstSeqNr EXCEPT ![p] = SeqNr(c) + 1]
  /\ UNCHANGED <<epoch, startedEpoch, phase, seqNr, proposal, current, cached, completed,
                 cert, committed>>

\* messageEpochStartRequest, for the request that completes a quorum: the leader
\* takes a certificate with the highest timestamp of the quorum's, one of them
\* in the order of a map if several have it
LeadEpoch(p, Q, c, written) ==
  /\ epoch[p] \in Epoch /\ Leader[epoch[p]] = p
  /\ leaderPhase[p] = "newEpoch"
  /\ Cardinality(Q) = ByzQuorumSize
  /\ LET requests == Requests(epoch[p]) \cap Received(p) IN
       /\ \A q \in Q \ Faulty : \E m \in requests : m.from = q /\ ~Less(c, m.cert)
       /\ \/ \E m \in requests : m.from \in Q /\ m.cert = c
          \/ Q \cap Faulty # {} /\ c \in Certificates
  /\ leaderPhase' = [leaderPhase EXCEPT ![p] = "sentEpochStart"]
  /\ Send(p, EpochStartMsg(p, epoch[p], c))
  /\ IF c # Genesis /\ c.kind = "commit"
     THEN Commit(p, c, written)
     ELSE written /\ UNCHANGED <<cert, committed>>
  /\ firstSeqNr' = [firstSeqNr EXCEPT ![p] =
       IF c.kind = "commit" THEN Len(committed'[p]) + 1 ELSE SeqNr(c) + 1]
  /\ UNCHANGED <<epoch, startedEpoch, phase, seqNr, proposal, current, cached, completed>>

\* messageEpochStart from the leader, an honest one or not
CanStartEpoch(p, c) ==
  /\ phase[p] = "newEpoch"
  /\ IF Leader[epoch[p]] \in Faulty
     THEN ValidProof(epoch[p], c)
     ELSE EpochStartMsg(Leader[epoch[p]], epoch[p], c) \in Received(p)

\* Bug: a prepared outcome is taken for a committed one.
FollowEpochFromPrepared(p, c, written) ==
  /\ CanStartEpoch(p, c) /\ written
  /\ cert' = [cert EXCEPT ![p] = Greater(@, c)]
  /\ committed' = [committed EXCEPT ![p] = IF Len(@) < SeqNr(c) THEN c.outcome ELSE @]
  /\ firstSeqNr' = [firstSeqNr EXCEPT ![p] = Len(committed'[p]) + 1]
  /\ StartSubsequentFollowerRound(p)
  /\ UNCHANGED <<epoch, startedEpoch, leaderVars, msgs, toSelf>>

FollowEpoch(p, c, written) ==
  /\ CanStartEpoch(p, c)
  /\ c.kind = "commit"
  /\ IF c = Genesis THEN written /\ UNCHANGED <<cert, committed>> ELSE Commit(p, c, written)
  /\ firstSeqNr' = [firstSeqNr EXCEPT ![p] = Len(committed'[p]) + 1]
  /\ StartSubsequentFollowerRound(p)
  /\ UNCHANGED <<epoch, startedEpoch, leaderVars, msgs, toSelf>>

\* the re-proposal of an outcome that was prepared in a failed epoch; its inputs
\* are not known any more
Repropose(p, c) ==
  /\ CanStartEpoch(p, c)
  /\ c.kind = "prepare"
  /\ firstSeqNr' = [firstSeqNr EXCEPT ![p] = SeqNr(c) + 1]
  /\ seqNr' = [seqNr EXCEPT ![p] = SeqNr(c)]
  /\ phase' = [phase EXCEPT ![p] = "sentPrepare"]
  /\ current' = [current EXCEPT ![p] = [inputs |-> None, outcome |-> c.outcome]]
  /\ msgs' = msgs \cup {PrepareMsg(p, epoch[p], None, c.outcome)}
  /\ UNCHANGED <<toSelf, epoch, startedEpoch, proposal, cached, cert, committed, leaderVars>>

\* a round as the leader sees it, from its query to the proposal it broadcasts
\* when tGrace fires; the pool it reaps then keeps it from proposing twice, unless the
\* round starts again
Propose(p, v) ==
  /\ epoch[p] \in Epoch /\ Leader[epoch[p]] = p
  /\ leaderPhase[p] = "sentEpochStart"
  /\ phase[p] = "newRound"
  /\ seqNr[p] = Len(committed[p]) + 1 /\ seqNr[p] > completed[p]
  /\ seqNr[p] <= MaxSeqNr
  /\ Send(p, ProposalMsg(p, epoch[p], seqNr[p], v))
  /\ completed' = [completed EXCEPT ![p] = seqNr[p]]
  /\ UNCHANGED <<epoch, startedEpoch, phase, seqNr, firstSeqNr, proposal, current,
                 cached, cert, committed, leaderPhase>>

\* a round as a follower sees it, up to the prepare it signs: the first proposal
\* of the leader it pools for the sequence number is the one it computes
HandleProposal(p, v) ==
  /\ phase[p] = "newRound"
  /\ seqNr[p] <= MaxSeqNr
  /\ proposal[p] \in {None, v}
  /\ \/ Leader[epoch[p]] \in Faulty
     \/ ProposalMsg(Leader[epoch[p]], epoch[p], seqNr[p], v) \in Received(p)
  /\ proposal' = [proposal EXCEPT ![p] = v]
  /\ current' = [current EXCEPT ![p] = [inputs |-> v, outcome |-> Append(committed[p], v)]]
  /\ phase' = [phase EXCEPT ![p] = "sentPrepare"]
  /\ msgs' = msgs \cup {PrepareMsg(p, epoch[p], v, Append(committed[p], v))}
  /\ UNCHANGED <<toSelf, epoch, startedEpoch, seqNr, firstSeqNr, cached, cert,
                 committed, leaderVars>>

\* Bug: the commit is signed without writing the lock.
LockInMemory(p) ==
  /\ phase[p] = "sentPrepare"
  /\ IsQuorum(PrepareSigners(epoch[p], current[p].inputs, current[p].outcome))
  /\ phase' = [phase EXCEPT ![p] = "sentCommit"]
  /\ msgs' = msgs \cup {CommitMsg(p, epoch[p], current[p].outcome)}
  /\ UNCHANGED <<toSelf, epoch, startedEpoch, seqNr, firstSeqNr, proposal, current, cached,
                 cert, committed, leaderVars>>

\* tryProcessPreparePool: the lock is written before the commit is signed
Lock(p) ==
  /\ phase[p] = "sentPrepare"
  /\ \/ IsQuorum(PrepareSigners(epoch[p], current[p].inputs, current[p].outcome))
     \/ CachedQuorum(p, "Prepare")
  /\ cert' = [cert EXCEPT ![p] = Greater(@, Prepared(epoch[p], current[p].inputs, current[p].outcome))]
  /\ phase' = [phase EXCEPT ![p] = "sentCommit"]
  /\ msgs' = msgs \cup {CommitMsg(p, epoch[p], current[p].outcome)}
  /\ UNCHANGED <<toSelf, epoch, startedEpoch, seqNr, firstSeqNr, proposal, current, cached,
                 committed, leaderVars>>

\* Bug: the epoch is left one round late.
FinishRoundLate(p, written) ==
  /\ phase[p] = "sentCommit"
  /\ IsQuorum(CommitSigners(epoch[p], current[p].outcome))
  /\ Commit(p, Committed(epoch[p], current[p].outcome), written)
  /\ IF RMax < seqNr[p] - firstSeqNr[p] + 1
     THEN UNCHANGED <<seqNr, phase, current, proposal, cached, completed>>
     ELSE StartSubsequentFollowerRound(p) /\ StartSubsequentLeaderRound(p, written)
  /\ UNCHANGED <<epoch, startedEpoch, firstSeqNr, leaderPhase, msgs, toSelf>>

\* tryProcessCommitPool: after RMax rounds the oracle waits for the next epoch
FinishRound(p, written) ==
  /\ phase[p] = "sentCommit"
  /\ IsQuorum(CommitSigners(epoch[p], current[p].outcome)) \/ CachedQuorum(p, "Commit")
  /\ Commit(p, Committed(epoch[p], current[p].outcome), written)
  /\ IF RMax <= seqNr[p] - firstSeqNr[p] + 1
     THEN UNCHANGED <<seqNr, phase, current, proposal, cached, completed>>
     ELSE StartSubsequentFollowerRound(p) /\ StartSubsequentLeaderRound(p, written)
  /\ UNCHANGED <<epoch, startedEpoch, firstSeqNr, leaderPhase, msgs, toSelf>>

\* The process stops and starts again: the certificate and the pacemaker's epoch
\* are read from the database, the rest is as at the first start.
Restart(p) ==
  /\ p \in MayRestart
  /\ epoch[p] # 0
  /\ epoch' = [epoch EXCEPT ![p] = 0]
  /\ phase' = [phase EXCEPT ![p] = "unknown"]
  /\ seqNr' = [seqNr EXCEPT ![p] = 0]
  /\ firstSeqNr' = [firstSeqNr EXCEPT ![p] = 0]
  /\ proposal' = [proposal EXCEPT ![p] = None]
  /\ current' = [current EXCEPT ![p] = NoOutcome]
  /\ cached' = [cached EXCEPT ![p] = 0]
  /\ committed' = [committed EXCEPT ![p] = <<>>]
  /\ leaderPhase' = [leaderPhase EXCEPT ![p] = "unknown"]
  /\ completed' = [completed EXCEPT ![p] = 0]
  /\ toSelf' = [toSelf EXCEPT ![p] = {}]
  /\ UNCHANGED <<startedEpoch, cert, msgs>>

CertOfRequests(p) == {m.cert : m \in Requests(epoch[p])} \cup (IF Faulty = {} THEN {} ELSE Certificates)
CertOfEpochStart(p) ==
  IF epoch[p] \in Epoch /\ Leader[epoch[p]] \in Faulty
  THEN Certificates
  ELSE {m.cert : m \in {x \in msgs : x.type = "EpochStart" /\ x.epoch = epoch[p]}}

Next ==
  \E p \in Honest :
    \/ \E e \in Epoch : NewEpochStart(p, e)
    \/ \E Q \in SUBSET Oracle, c \in CertOfRequests(p), written \in BOOLEAN : LeadEpoch(p, Q, c, written)
    \/ \E c \in CertOfEpochStart(p) : Repropose(p, c) \/ \E written \in BOOLEAN : FollowEpoch(p, c, written)
    \/ \E v \in Value : Propose(p, v) \/ HandleProposal(p, v)
    \/ Lock(p)
    \/ \E written \in BOOLEAN : FinishRound(p, written)
    \/ Restart(p)

Spec == Init /\ [][Next]_vars
=============================================================================
