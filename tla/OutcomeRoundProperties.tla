------------------------ MODULE OutcomeRoundProperties ------------------------
(***************************************************************************)
(* What the event loop of an oracle promises: see OutcomeRound.            *)
(***************************************************************************)
EXTENDS OutcomeRound

Phase ==
  {"unknown", "newEpoch", "newRound", "backgroundObservation", "sentObservation",
   "backgroundProposalOutcome", "sentPrepare", "sentCommit"}
LeaderPhase ==
  {"unknown", "newEpoch", "sentEpochStart", "sentRoundStart", "grace", "sentProposal"}
Nrs == 0..MaxSeqNr + 1

\* Every variable has the type of the field it stands for, an oracle is idle as
\* follower and as leader exactly while it has no epoch, and what the observation
\* pool has verified it still holds.
TypeOK ==
  /\ e \in 0..MaxEpoch /\ {seqNr, firstSeqNr, committed, reaped, completed} \subseteq Nrs
  /\ phase \in Phase /\ leaderPhase \in LeaderPhase
  /\ e = 0 <=> phase = "unknown"
  /\ e = 0 <=> leaderPhase = "unknown"
  /\ {tInitial, tRound, tGrace, ready, again, panicked} \subseteq BOOLEAN
  /\ roundStarts \subseteq Nr /\ proposals \subseteq Nr
  /\ epochStart \in Certs \cup {NoCert}
  /\ verified \subseteq observed /\ observed \subseteq Oracle \X Nrs
  /\ \A t \in tasks : t.epoch \in Epoch /\ t.seqNr \in Nrs /\ t.from \in Oracle \cup {"self"}
  /\ \A m \in sent : m.epoch \in Epoch /\ m.seqNr \in Nrs /\ m.observations \in Nat

\* An oracle signs one observation and one prepare in a round, and a leader sends
\* one start and one proposal, whatever comes back late from the plugin: all
\* consensus of OutcomeGeneration rests on it.
OncePerRound == ~again

\* An oracle leads only its own epochs, also if a tRound or a query of an epoch it
\* led before is still on its way.
OnlyLeaderSends ==
  \A m \in sent : m.type \in {"RoundStart", "Proposal"} => m.epoch \in Leads

\* The followers do not drop the proposal of an honest leader: it has a quorum of
\* valid observations of its round.
ProposalHasQuorum ==
  \A m \in sent : m.type = "Proposal" => m.observations >= ObservationQuorum

\* "leader's phase conflicts TGrace timeout" is never logged.
GraceAgrees == tGrace => leaderPhase = "grace"

\* "assumption violation, seqNr isn't successor to committedSeqNr" (OutcomeCtx)
NoPanic == ~panicked
=============================================================================
