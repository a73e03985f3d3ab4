--------------------- MODULE OutcomeGenerationProperties ---------------------
(***************************************************************************)
(* What outcome generation promises: see OutcomeGeneration.                *)
(***************************************************************************)
EXTENDS OutcomeGeneration, SequencesExt

Phase == {"unknown", "newEpoch", "newRound", "sentPrepare", "sentCommit"}
Inputs == Value \cup {None}
Certificate ==
  [kind : {"prepare", "commit"}, epoch : 0..MaxEpoch, inputs : Inputs, outcome : Outcome]

\* Every variable has the type of the field it stands for, and every message in
\* the set is one that a handler of an honest oracle sends.
TypeOK ==
  /\ epoch \in [Oracle -> 0..MaxEpoch] /\ startedEpoch \in [Oracle -> Nat]
  /\ phase \in [Oracle -> Phase]
  /\ seqNr \in [Oracle -> 0..MaxSeqNr + 1] /\ firstSeqNr \in [Oracle -> 0..MaxSeqNr + 1]
  /\ proposal \in [Oracle -> Inputs] /\ cached \in [Oracle -> 0..MaxSeqNr]
  /\ current \in [Oracle -> [inputs : Inputs, outcome : Outcome]]
  /\ cert \in [Oracle -> Certificate] /\ committed \in [Oracle -> Outcome]
  /\ leaderPhase \in [Oracle -> {"unknown", "newEpoch", "sentEpochStart"}]
  /\ completed \in [Oracle -> 0..MaxSeqNr]
  /\ \A m \in msgs : m.from \in Honest /\ m.epoch \in Epoch
  /\ \A m \in msgs : m.type \in {"EpochStart", "Proposal"} => m.from = Leader[m.epoch]

-----------------------------------------------------------------------------
(* Certificates *)

\* In one epoch a quorum prepares at most one outcome for a sequence number: the
\* quorums intersect in an oracle that signs one prepare for each number.
PrepareUnique ==
  \A c, d \in Certificates :
    (c.kind = "prepare" /\ d.kind = "prepare" /\ c.epoch = d.epoch /\ SeqNr(c) = SeqNr(d)) => c = d

\* Once a quorum has signed the commit of an outcome, a quorum has a certificate
\* at least as high on disk, whatever crashes: no later quorum of epoch start
\* requests can miss it.
CommitLocked ==
  \A c \in Certificates :
    c.kind = "commit" =>
      IsQuorum({p \in Oracle : p \in Faulty \/ Len(c.outcome) <= SeqNr(cert[p])})

\* The outcomes that a quorum commits are one growing sequence: each is built on
\* the others, in whatever epochs they were committed.
Agreement ==
  \A c, d \in Certificates :
    (c.kind = "commit" /\ d.kind = "commit") =>
      IsPrefix(c.outcome, d.outcome) \/ IsPrefix(d.outcome, c.outcome)

\* What an oracle takes for committed was committed by a quorum, and so was every
\* outcome before it: no sequence number is skipped, also by those that missed it.
NoGap ==
  \A p \in Honest : \A s \in 1..Len(committed[p]) :
    Committed(0, SubSeq(committed[p], 1, s)) \in {[c EXCEPT !.epoch = 0] : c \in Certificates}

\* The sanity check of the leader, of which the code says "This should never
\* fail": the proof it builds for the start of an epoch verifies.
LeaderProofValid ==
  \A m \in msgs : m.type = "EpochStart" => ValidProof(m.epoch, m.cert)

\* A round in progress is the one after the committed outcome, so OutcomeCtx does not
\* panic when a round starts; what was prepared or committed has the round's number.
\* Outside these phases it may panic: see OutcomeRound.
RoundFollowsCommitted ==
  \A p \in Honest :
    /\ phase[p] = "newRound" => seqNr[p] = Len(committed[p]) + 1
    /\ phase[p] \in {"sentPrepare", "sentCommit"} => Len(current[p].outcome) = seqNr[p]

\* A leader has at most RMax rounds, besides the outcome it re-proposes, also when
\* oracles start its epoch late and with different first rounds.
RoundsOfEpoch ==
  \A x \in Epoch :
    Cardinality({c \in Certificates :
                   c.kind = "prepare" /\ c.epoch = x /\ c.inputs # None}) <= RMax
=============================================================================
