----------------------------- MODULE OutcomeRound -----------------------------
(***************************************************************************)
(* The event loop of one oracle's outcome generation: the rounds of an     *)
(* epoch step by step, as follower and, in the epochs it leads, as leader. *)
(* Calls of the reporting plugin run in the background and report back by  *)
(* events, which may come late, from an earlier round or epoch, or never   *)
(* (offchainreporting2plus/internal/ocr3/protocol/outcome_generation*.go). *)
(*                                                                         *)
(* The other oracles are the environment: a leader that is not this oracle *)
(* sends anything, in any order.  Outcomes are left out: see               *)
(* OutcomeGeneration, which takes the steps up to the proposal as one.     *)
(***************************************************************************)
EXTENDS Integers, FiniteSets

CONSTANTS
  Oracle,            \* the oracles that may send observations
  Leads,             \* the epochs this oracle leads
  ObservationQuorum, \* the number of observations the plugin wants
  DBFails,           \* whether the database may refuse a write of a commit
  PoolSize,          \* messages of one sender that a pool holds
  RMax,              \* the number of rounds after which an epoch is left
  MaxEpoch,          \* bound: the last epoch
  MaxSeqNr           \* bound: the last sequence number

Epoch == 1..MaxEpoch
Nr == 1..MaxSeqNr

ASSUME OracleAssumption == IsFiniteSet(Oracle) /\ Leads \subseteq Epoch
ASSUME BoundAssumption == MaxEpoch \in Nat /\ MaxSeqNr \in Nat
ASSUME SizeAssumption ==
  ObservationQuorum \in Nat \ {0} /\ PoolSize \in Nat \ {0} /\ RMax \in Nat \ {0} /\ DBFails \in BOOLEAN

VARIABLES
  e,           \* sharedState.e
  seqNr,       \* sharedState.seqNr
  firstSeqNr,  \* sharedState.firstSeqNrOfEpoch
  committed,   \* sharedState.committedSeqNr
  phase,       \* followerState.phase
  tInitial,    \* whether this timer is set and has not fired yet; so below
  roundStarts, \* roundStartPool: the sequence numbers it has entries of
  proposals,   \* proposalPool
  reaped,      \* completedSeqNr of both
  leaderPhase, \* leaderState.phase
  epochStart,  \* the certificate it started its epoch from
  ready,       \* leaderState.readyToStartRound
  tRound,
  tGrace,
  observed,    \* observationPool: sender and number of its entries
  verified,    \* those that are verified
  completed,   \* its completedSeqNr
  tasks,       \* what runs in the background; two calls for the same are one
  sent,        \* what this oracle sent
  again,       \* whether it sent a second message of a kind in a round
  panicked     \* whether OutcomeCtx ended the process

followerVars == <<phase, tInitial, roundStarts, proposals, reaped>>
observationVars == <<observed, verified, completed>>
leaderVars == <<leaderPhase, epochStart, ready, tRound, tGrace, observationVars>>
sharedVars == <<e, seqNr, firstSeqNr, committed>>
sentVars == <<sent, again>>
vars == <<sharedVars, followerVars, leaderVars, tasks, sentVars, panicked>>

\* the part of a certificate that matters here
Cert(kind, s) == [kind |-> kind, seqNr |-> s]
NoCert == Cert("none", 0)
Certs == {Cert("genesis", 0)} \cup [kind : {"commit", "prepare"}, seqNr : Nr]

Init ==
  /\ e = 0 /\ seqNr = 0 /\ firstSeqNr = 0 /\ committed = 0
  /\ phase = "unknown" /\ tInitial = FALSE
  /\ roundStarts = {} /\ proposals = {} /\ reaped = 0
  /\ leaderPhase = "unknown" /\ epochStart = NoCert
  /\ ready = FALSE /\ tRound = FALSE /\ tGrace = FALSE
  /\ observed = {} /\ verified = {} /\ completed = 0
  /\ tasks = {} /\ sent = {} /\ again = FALSE /\ panicked = FALSE

-----------------------------------------------------------------------------
(* Steps shared by the handlers *)

Task(kind, s, q) == [kind |-> kind, epoch |-> e, seqNr |-> s, from |-> q]
Own(kind, s) == Task(kind, s, "self")

\* Bug: an event of another epoch passes.
IsCurrentNr(t, s) == t.seqNr = s
IsCurrent(t, s) == t.epoch = e /\ t.seqNr = s

Send(type, s, n) ==
  /\ sent' = sent \cup {[type |-> type, epoch |-> e, seqNr |-> s, observations |-> n]}
  /\ again' = (again \/ \E m \in sent : m.type = type /\ m.epoch = e /\ m.seqNr = s)

\* Pool.Put for the leader's messages
CanPut(pool, s) == s > reaped /\ s \notin pool /\ Cardinality(pool) < PoolSize
After(pool, s) == {t \in pool : t > s}

\* commit; an outcome that is committed already only reaps
Commit(s, written) ==
  /\ written \/ DBFails
  /\ IF s > committed /\ ~written
     THEN UNCHANGED <<committed, roundStarts, proposals, reaped>>
     ELSE /\ committed' = IF s > committed THEN s ELSE committed
          /\ roundStarts' = After(roundStarts, committed')
          /\ proposals' = After(proposals, committed')
          /\ reaped' = committed'

\* startSubsequentFollowerRound and, in it, tryProcessRoundStartPool
StartFollowerRound ==
  /\ seqNr' = committed' + 1
  /\ phase' = IF seqNr' \in roundStarts' THEN "backgroundObservation" ELSE "newRound"
FollowerTasks == IF seqNr' \in roundStarts' THEN {Own("observation", seqNr')} ELSE {}

\* startSubsequentLeaderRound, of which every second call starts a round
StartLeaderRound == ready' = ~ready
\* Bug: every call starts a round.
LeaderTasksAlways == {Own("query", committed' + 1)}
LeaderTasks == IF ready THEN {Own("query", committed' + 1)} ELSE {}

\* OutcomeCtx panics unless s is the successor of the committed outcome
OutcomeCtxFails(s) == s # committed + 1

-----------------------------------------------------------------------------
(* Epochs *)

\* Bug: the leader's round is not reset.
NewEpochStartReady(x) ==
  /\ x > e
  /\ e' = x /\ seqNr' = 0 /\ firstSeqNr' = 0
  /\ phase' = "newEpoch" /\ tInitial' = TRUE
  /\ roundStarts' = {} /\ proposals' = {} /\ reaped' = 0
  /\ leaderPhase' = "newEpoch" /\ epochStart' = NoCert /\ tGrace' = FALSE
  /\ observed' = {} /\ verified' = {} /\ completed' = 0
  /\ tRound' = (tRound \/ x \in Leads)
  /\ UNCHANGED <<ready, committed, tasks, sentVars, panicked>>

\* eventNewEpochStart; a tRound of an epoch before goes on, and so do its tasks:
\* their context is cancelled, but their events may be ready already
NewEpochStart(x) ==
  /\ x > e
  /\ e' = x /\ seqNr' = 0 /\ firstSeqNr' = 0
  /\ phase' = "newEpoch" /\ tInitial' = TRUE
  /\ roundStarts' = {} /\ proposals' = {} /\ reaped' = 0
  /\ leaderPhase' = "newEpoch" /\ epochStart' = NoCert
  /\ ready' = FALSE /\ tGrace' = FALSE
  /\ observed' = {} /\ verified' = {} /\ completed' = 0
  /\ tRound' = (tRound \/ x \in Leads)
  /\ UNCHANGED <<committed, tasks, sentVars, panicked>>

\* eventTInitialTimeout: asks the pacemaker for a new epoch
TInitialTimeout ==
  /\ tInitial /\ tInitial' = FALSE
  /\ UNCHANGED <<sharedVars, phase, roundStarts, proposals, reaped, leaderVars, tasks,
                 sentVars, panicked>>

\* a certificate that a quorum can have as its highest: it has the outcome this
\* oracle committed, or one after it
CanStartFrom(c) ==
  IF c.kind = "genesis" THEN committed = 0 ELSE c.seqNr >= committed

\* messageEpochStartRequest, for the request that completes a quorum
LeadEpoch(c, written) ==
  /\ e \in Leads /\ leaderPhase = "newEpoch"
  /\ CanStartFrom(c)
  /\ leaderPhase' = "sentEpochStart" /\ epochStart' = c
  /\ IF c.kind = "commit"
     THEN Commit(c.seqNr, written)
     ELSE written /\ UNCHANGED <<committed, roundStarts, proposals, reaped>>
  /\ IF c.kind = "prepare"
     THEN /\ firstSeqNr' = c.seqNr + 1
          /\ UNCHANGED <<ready, tasks>>
     ELSE /\ firstSeqNr' = committed' + 1
          /\ StartLeaderRound
          /\ tasks' = tasks \cup LeaderTasks
  /\ UNCHANGED <<e, seqNr, phase, tInitial, tRound, tGrace, observationVars, sentVars, panicked>>

\* messageEpochStart
FollowEpoch(c, written) ==
  /\ phase = "newEpoch"
  /\ IF e \in Leads THEN c = epochStart ELSE CanStartFrom(c)
  /\ tInitial' = FALSE
  /\ IF c.kind = "prepare"
     THEN /\ written
          /\ firstSeqNr' = c.seqNr + 1 /\ seqNr' = c.seqNr
          /\ phase' = "sentPrepare"
          /\ Send("Prepare", c.seqNr, 0)
          /\ UNCHANGED <<committed, roundStarts, proposals, reaped, tasks>>
     ELSE /\ IF c.kind = "commit"
             THEN Commit(c.seqNr, written)
             ELSE written /\ UNCHANGED <<committed, roundStarts, proposals, reaped>>
          /\ firstSeqNr' = committed' + 1
          /\ StartFollowerRound
          /\ tasks' = tasks \cup FollowerTasks
          /\ UNCHANGED sentVars
  /\ UNCHANGED <<e, leaderVars, panicked>>

-----------------------------------------------------------------------------
(* Rounds, as a follower *)

FromLeader(type, s) ==
  e \in Leads => \E m \in sent : m.type = type /\ m.epoch = e /\ m.seqNr = s

\* messageRoundStart and tryProcessRoundStartPool
RoundStart(s) ==
  /\ e # 0 /\ FromLeader("RoundStart", s)
  /\ CanPut(roundStarts, s)
  /\ roundStarts' = roundStarts \cup {s}
  /\ IF phase = "newRound" /\ s = seqNr
     THEN phase' = "backgroundObservation" /\ tasks' = tasks \cup {Own("observation", seqNr)}
     ELSE UNCHANGED <<phase, tasks>>
  /\ UNCHANGED <<sharedVars, tInitial, proposals, reaped, leaderVars, sentVars, panicked>>

\* messageProposal and tryProcessProposalPool
Proposal(s) ==
  /\ e # 0 /\ FromLeader("Proposal", s)
  /\ CanPut(proposals, s)
  /\ proposals' = proposals \cup {s}
  /\ IF phase = "sentObservation" /\ s = seqNr
     THEN phase' = "backgroundProposalOutcome" /\ tasks' = tasks \cup {Own("outcome", seqNr)}
     ELSE UNCHANGED <<phase, tasks>>
  /\ UNCHANGED <<sharedVars, tInitial, roundStarts, reaped, leaderVars, sentVars, panicked>>

\* eventComputedObservation and tryProcessProposalPool
ComputedObservation(t) ==
  /\ t.kind = "observation"
  /\ IF phase = "backgroundObservation" /\ IsCurrent(t, seqNr)
     THEN /\ Send("Observation", seqNr, 0)
          /\ IF seqNr \in proposals
             THEN phase' = "backgroundProposalOutcome" /\ tasks' = (tasks \ {t}) \cup {Own("outcome", seqNr)}
             ELSE phase' = "sentObservation" /\ tasks' = tasks \ {t}
     ELSE tasks' = tasks \ {t} /\ UNCHANGED <<phase, sentVars>>
  /\ UNCHANGED <<sharedVars, tInitial, roundStarts, proposals, reaped, leaderVars, panicked>>

\* eventComputedProposalOutcome
ComputedOutcome(t) ==
  /\ t.kind = "outcome"
  /\ tasks' = tasks \ {t}
  /\ IF phase = "backgroundProposalOutcome" /\ IsCurrent(t, seqNr)
     THEN phase' = "sentPrepare" /\ Send("Prepare", seqNr, 0)
     ELSE UNCHANGED <<phase, sentVars>>
  /\ UNCHANGED <<sharedVars, tInitial, roundStarts, proposals, reaped, leaderVars, panicked>>

\* tryProcessPreparePool, when the pool has a quorum and the lock is written
Lock ==
  /\ phase = "sentPrepare"
  /\ phase' = "sentCommit"
  /\ UNCHANGED <<sharedVars, tInitial, roundStarts, proposals, reaped, leaderVars, tasks,
                 sentVars, panicked>>

\* tryProcessCommitPool, when the pool has a quorum; after RMax rounds it asks the
\* pacemaker for a new epoch and waits
FinishRound(written) ==
  /\ phase = "sentCommit"
  /\ Commit(seqNr, written)
  /\ IF RMax <= seqNr - firstSeqNr + 1
     THEN UNCHANGED <<seqNr, phase, ready, tasks>>
     ELSE /\ StartFollowerRound
          /\ IF e \in Leads
             THEN StartLeaderRound /\ tasks' = tasks \cup FollowerTasks \cup LeaderTasks
             ELSE UNCHANGED ready /\ tasks' = tasks \cup FollowerTasks
  /\ UNCHANGED <<e, firstSeqNr, tInitial, leaderPhase, epochStart, tRound, tGrace,
                 observationVars, sentVars, panicked>>

-----------------------------------------------------------------------------
(* Rounds, as a leader *)

\* eventTRoundTimeout, also of an epoch this oracle led before
TRoundTimeout ==
  /\ tRound /\ tRound' = FALSE
  /\ StartLeaderRound
  /\ UNCHANGED <<sharedVars, followerVars, leaderPhase, epochStart, tGrace, observationVars,
                 sentVars, panicked>>
  /\ tasks' = tasks \cup LeaderTasks

\* eventComputedQuery
ComputedQuery(t) ==
  /\ t.kind = "query"
  /\ tasks' = tasks \ {t}
  /\ IF IsCurrent(t, committed + 1)
     THEN /\ observed' = {o \in observed : o[2] > committed}
          /\ verified' = {o \in verified : o[2] > committed}
          /\ completed' = committed
          /\ tRound' = TRUE
          /\ leaderPhase' = "sentRoundStart"
          /\ Send("RoundStart", committed + 1, 0)
     ELSE UNCHANGED <<observationVars, tRound, leaderPhase, sentVars>>
  /\ UNCHANGED <<sharedVars, followerVars, epochStart, ready, tGrace, panicked>>

\* messageObservation
Observation(q) ==
  /\ e \in Leads /\ leaderPhase \in {"sentRoundStart", "grace"}
  /\ seqNr > completed /\ \A o \in observed : o[1] # q
  /\ observed' = observed \cup {<<q, seqNr>>}
  /\ IF OutcomeCtxFails(seqNr)
     THEN panicked' = TRUE /\ UNCHANGED tasks
     ELSE tasks' = tasks \cup {Task("validate", seqNr, q)} /\ UNCHANGED panicked
  /\ UNCHANGED <<sharedVars, followerVars, leaderPhase, epochStart, ready, tRound, tGrace,
                 verified, completed, sentVars>>

\* Bug: what was reaped in the meantime is stored again.
StoreVerifiedAlways(q, s) == verified' = verified \cup {<<q, s>>}
\* Pool.StoreVerified, which may find the entry reaped
StoreVerified(q, s) == verified' = verified \cup ({<<q, s>>} \cap observed)
ValidOf(vs, s) == {q \in Oracle : <<q, s>> \in vs}

\* eventComputedValidateVerifyObservation, of which the round is looked at and the
\* leader's phase is not
ComputedValidate(t) ==
  /\ t.kind = "validate"
  /\ IF IsCurrent(t, seqNr)
     THEN /\ StoreVerified(t.from, seqNr)
          /\ IF OutcomeCtxFails(seqNr)
             THEN panicked' = TRUE /\ tasks' = tasks \ {t}
             ELSE /\ tasks' = (tasks \ {t}) \cup
                       IF Cardinality(ValidOf(verified', seqNr)) >= ObservationQuorum
                       THEN {Own("quorum", seqNr)} ELSE {}
                  /\ UNCHANGED panicked
     ELSE tasks' = tasks \ {t} /\ UNCHANGED <<verified, panicked>>
  /\ UNCHANGED <<sharedVars, followerVars, leaderPhase, epochStart, ready, tRound, tGrace,
                 observed, completed, sentVars>>

\* eventComputedObservationQuorumSuccess
ComputedQuorum(t) ==
  /\ t.kind = "quorum"
  /\ tasks' = tasks \ {t}
  /\ IF leaderPhase = "sentRoundStart" /\ IsCurrent(t, seqNr)
     THEN leaderPhase' = "grace" /\ tGrace' = TRUE
     ELSE UNCHANGED <<leaderPhase, tGrace>>
  /\ UNCHANGED <<sharedVars, followerVars, epochStart, ready, tRound, observationVars,
                 sentVars, panicked>>

\* eventTGraceTimeout
TGraceTimeout ==
  /\ tGrace /\ tGrace' = FALSE
  /\ IF leaderPhase = "grace"
     THEN /\ leaderPhase' = "sentProposal"
          /\ Send("Proposal", seqNr, Cardinality(ValidOf(verified, seqNr)))
          /\ observed' = {o \in observed : o[2] > seqNr}
          /\ verified' = {o \in verified : o[2] > seqNr}
          /\ completed' = seqNr
     ELSE UNCHANGED <<leaderPhase, sentVars, observationVars>>
  /\ UNCHANGED <<sharedVars, followerVars, epochStart, ready, tRound, tasks, panicked>>

\* A call of the plugin fails, or returns that an observation or a proposal is not
\* valid: there is no event.
PluginFails(t) ==
  /\ tasks' = tasks \ {t}
  /\ UNCHANGED <<sharedVars, followerVars, leaderVars, sentVars, panicked>>

Next ==
  /\ ~panicked
  /\ \/ \E x \in Epoch : NewEpochStart(x)
     \/ TInitialTimeout
     \/ \E c \in Certs, written \in BOOLEAN : LeadEpoch(c, written) \/ FollowEpoch(c, written)
     \/ \E s \in Nr : RoundStart(s) \/ Proposal(s)
     \/ Lock
     \/ seqNr <= MaxSeqNr /\ \E written \in BOOLEAN : FinishRound(written)
     \/ TRoundTimeout
     \/ \E q \in Oracle : Observation(q)
     \/ TGraceTimeout
     \/ \E t \in tasks :
          \/ ComputedObservation(t) \/ ComputedOutcome(t)
          \/ ComputedQuery(t) \/ ComputedValidate(t) \/ ComputedQuorum(t)
          \/ PluginFails(t)

Spec == Init /\ [][Next]_vars
=============================================================================
