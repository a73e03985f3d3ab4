-------------------------- MODULE OutcomeRoundProofs --------------------------
(***************************************************************************)
(* Proofs about the event loop of an oracle, for any set of epochs that it *)
(* leads, any quorum and any number of rounds.                             *)
(*                                                                         *)
(* Types and OnlyLeaderSends need nothing else.  What is said of rounds    *)
(* needs a database that takes the writes of commits (DBFails = FALSE): a  *)
(* follower goes on although its commit was refused, into the same round   *)
(* once more.                                                              *)
(***************************************************************************)
EXTENDS OutcomeRoundProperties, FiniteSetTheorems, TLAPS

\* Only an oracle that leads its epoch is in the middle of a round as a leader,
\* and what could bring it there belongs to such an epoch: the queries on their
\* way, and the second of the two calls that start a round.  The first of these
\* two may be a tRound that an epoch before has left.
Leading ==
  /\ leaderPhase \in {"sentRoundStart", "grace", "sentProposal"} => e \in Leads
  /\ \A t \in tasks : t.kind = "query" => t.epoch \in Leads
  /\ e \in Leads \/ ~ready \/ ~tRound

LeadInv == Leading /\ OnlyLeaderSends

LEMMA LeadInit == Init => LeadInv
BY DEF Init, LeadInv, Leading, OnlyLeaderSends

\* The actions of the follower send nothing that a leader sends, and none but
\* FinishRound touches the leader.
LEMMA LeadFollower ==
  ASSUME LeadInv,
         \/ \E c \in Certs, written \in BOOLEAN : FollowEpoch(c, written)
         \/ \E s \in Nr : RoundStart(s) \/ Proposal(s)
         \/ \E t \in tasks : ComputedObservation(t) \/ ComputedOutcome(t)
         \/ Lock \/ TInitialTimeout
  PROVE  LeadInv'
<1>1. e' = e /\ UNCHANGED leaderVars
  BY DEF FollowEpoch, RoundStart, Proposal, ComputedObservation, ComputedOutcome, Lock,
         TInitialTimeout, sharedVars
<1>2. \A t \in tasks' \ tasks : t.kind # "query"
  BY DEF FollowEpoch, RoundStart, Proposal, ComputedObservation, ComputedOutcome, Lock,
         TInitialTimeout, FollowerTasks, Own, Task
<1>3. \A m \in sent' \ sent : m.type \in {"Observation", "Prepare"}
  BY DEF FollowEpoch, RoundStart, Proposal, ComputedObservation, ComputedOutcome, Lock,
         TInitialTimeout, Send, sentVars
<1>4. Leading'
  BY <1>1, <1>2 DEF LeadInv, Leading, leaderVars
<1>5. OnlyLeaderSends'
  BY <1>3 DEF LeadInv, OnlyLeaderSends
<1> QED BY <1>4, <1>5 DEF LeadInv

\* The leader's actions start rounds and proposals only in an epoch it leads.
LEMMA LeadLeader ==
  ASSUME LeadInv,
         \/ \E c \in Certs, written \in BOOLEAN : LeadEpoch(c, written)
         \/ \E written \in BOOLEAN : FinishRound(written)
         \/ TRoundTimeout \/ TGraceTimeout
         \/ \E q \in Oracle : Observation(q)
         \/ \E t \in tasks : ComputedQuery(t) \/ ComputedValidate(t) \/ ComputedQuorum(t)
  PROVE  LeadInv'
<1>1. CASE \E c \in Certs, written \in BOOLEAN : LeadEpoch(c, written)
  BY <1>1 DEF LeadEpoch, LeadInv, Leading, OnlyLeaderSends, LeaderTasks, Own, Task, sentVars
<1>2. CASE \E written \in BOOLEAN : FinishRound(written)
  <2>1. e' = e /\ leaderPhase' = leaderPhase /\ tRound' = tRound /\ sent' = sent
    BY <1>2 DEF FinishRound, sentVars
  <2>2. \A t \in tasks' \ tasks : t.epoch = e /\ (t.kind = "query" => e \in Leads)
    BY <1>2 DEF FinishRound, FollowerTasks, LeaderTasks, Own, Task
  <2>3. e \in Leads \/ ready' = ready
    BY <1>2 DEF FinishRound
  <2> QED BY <2>1, <2>2, <2>3 DEF LeadInv, Leading, OnlyLeaderSends
<1>3. CASE TRoundTimeout
  <2>1. /\ tRound /\ ~tRound' /\ e' = e /\ leaderPhase' = leaderPhase /\ sent' = sent
        /\ tasks' = tasks \cup LeaderTasks
    BY <1>3 DEF TRoundTimeout, sharedVars, sentVars
  <2>2. \A t \in LeaderTasks : t.epoch = e /\ ready
    BY DEF LeaderTasks, Own, Task
  <2>3. e \in Leads \/ ~ready
    BY <2>1 DEF LeadInv, Leading
  <2> QED BY <2>1, <2>2, <2>3 DEF LeadInv, Leading, OnlyLeaderSends
<1>4. CASE TGraceTimeout
  <2>1. e' = e /\ tasks' = tasks /\ ready' = ready /\ tRound' = tRound
    BY <1>4 DEF TGraceTimeout, sharedVars
  <2>2. \/ leaderPhase = "grace" /\ \A m \in sent' \ sent : m.epoch = e
        \/ leaderPhase' = leaderPhase /\ sent' = sent
    BY <1>4 DEF TGraceTimeout, Send, sentVars
  <2> QED BY <2>1, <2>2 DEF LeadInv, Leading, OnlyLeaderSends
<1>5. CASE \E q \in Oracle : Observation(q)
  <2>1. e' = e /\ leaderPhase' = leaderPhase /\ ready' = ready /\ tRound' = tRound /\ sent' = sent
    BY <1>5 DEF Observation, sharedVars, sentVars
  <2>2. \A t \in tasks' \ tasks : t.kind = "validate"
    BY <1>5 DEF Observation, Task
  <2> QED BY <2>1, <2>2 DEF LeadInv, Leading, OnlyLeaderSends
<1>6. CASE \E t \in tasks : ComputedQuery(t)
  <2>1. PICK t \in tasks : ComputedQuery(t)
    BY <1>6
  <2>2. t.epoch \in Leads /\ tasks' \subseteq tasks /\ e' = e /\ ready' = ready
    BY <2>1 DEF ComputedQuery, LeadInv, Leading, sharedVars
  <2>3. \/ t.epoch = e /\ \A m \in sent' \ sent : m.epoch = e
        \/ leaderPhase' = leaderPhase /\ tRound' = tRound /\ sent' = sent
    BY <2>1 DEF ComputedQuery, IsCurrent, Send, sentVars
  <2> QED BY <2>2, <2>3 DEF LeadInv, Leading, OnlyLeaderSends
<1>7. CASE \E t \in tasks : ComputedValidate(t)
  <2>1. e' = e /\ leaderPhase' = leaderPhase /\ ready' = ready /\ tRound' = tRound /\ sent' = sent
    BY <1>7 DEF ComputedValidate, sharedVars, sentVars
  <2>2. \A t \in tasks' \ tasks : t.kind = "quorum"
    BY <1>7 DEF ComputedValidate, Own, Task
  <2> QED BY <2>1, <2>2 DEF LeadInv, Leading, OnlyLeaderSends
<1>8. CASE \E t \in tasks : ComputedQuorum(t)
  <2>1. e' = e /\ ready' = ready /\ tRound' = tRound /\ sent' = sent /\ tasks' \subseteq tasks
    BY <1>8 DEF ComputedQuorum, sharedVars, sentVars
  <2>2. leaderPhase = "sentRoundStart" \/ leaderPhase' = leaderPhase
    BY <1>8 DEF ComputedQuorum
  <2> QED BY <2>1, <2>2 DEF LeadInv, Leading, OnlyLeaderSends
<1> QED BY <1>1, <1>2, <1>3, <1>4, <1>5, <1>6, <1>7, <1>8

LEMMA LeadStep == LeadInv /\ [Next]_vars => LeadInv'
<1> SUFFICES ASSUME LeadInv, [Next]_vars PROVE LeadInv'
  OBVIOUS
<1>1. CASE UNCHANGED vars
  BY <1>1 DEF vars, sharedVars, leaderVars, sentVars, LeadInv, Leading, OnlyLeaderSends
<1>2. CASE \E x \in Epoch : NewEpochStart(x)
  BY <1>2 DEF NewEpochStart, LeadInv, Leading, OnlyLeaderSends, sentVars
<1>3. CASE \E t \in tasks : PluginFails(t)
  BY <1>3 DEF PluginFails, LeadInv, Leading, OnlyLeaderSends, sharedVars, leaderVars, sentVars
<1> QED BY <1>1, <1>2, <1>3, LeadFollower, LeadLeader DEF Next

\* No timer, query or call of an epoch it led before makes an oracle start a round
\* or propose in an epoch that it does not lead.
THEOREM OnlyLeadersSend == Spec => []OnlyLeaderSends
<1>1. LeadInv => OnlyLeaderSends
  BY DEF LeadInv
<1> QED BY <1>1, LeadInit, LeadStep, PTL DEF Spec

-----------------------------------------------------------------------------
(* Types *)

Scalars ==
  /\ e \in 0..MaxEpoch /\ seqNr \in Nrs /\ firstSeqNr \in Nrs /\ committed \in 0..MaxSeqNr
  /\ reaped \in Nrs /\ completed \in Nrs
  /\ phase \in Phase /\ leaderPhase \in LeaderPhase /\ epochStart \in Certs \cup {NoCert}
  /\ tInitial \in BOOLEAN /\ tRound \in BOOLEAN /\ tGrace \in BOOLEAN /\ ready \in BOOLEAN
  /\ panicked \in BOOLEAN
  /\ e = 0 <=> phase = "unknown"
  /\ e = 0 <=> leaderPhase = "unknown"
  /\ e = 0 => ~tRound
Pools ==
  /\ roundStarts \subseteq Nr /\ proposals \subseteq Nr
  /\ verified \subseteq observed /\ observed \subseteq Oracle \X Nrs
Tasks ==
  \A t \in tasks : t.epoch \in 1..e /\ t.seqNr \in Nrs /\ t.from \in Oracle \cup {"self"}
Messages ==
  /\ again \in BOOLEAN
  /\ \A m \in sent : m.epoch \in 1..e /\ m.seqNr \in Nrs /\ m.observations \in Nat
Types == Scalars /\ Pools /\ Tasks /\ Messages

LEMMA TypesSuffice == Types => TypeOK
<1> SUFFICES ASSUME Types PROVE TypeOK
  OBVIOUS
<1>1. /\ {seqNr, firstSeqNr, committed, reaped, completed} \subseteq Nrs
      /\ {tInitial, tRound, tGrace, ready, again, panicked} \subseteq BOOLEAN
      /\ e \in 0..MaxEpoch
  BY BoundAssumption DEF Types, Scalars, Messages, Nrs
<1>2. 1..e \subseteq Epoch
  BY <1>1, BoundAssumption DEF Epoch
<1> QED BY <1>1, <1>2 DEF Types, Scalars, Pools, Tasks, Messages, TypeOK

LEMMA TypesInit == Init => Types
<1> SUFFICES ASSUME Init PROVE Types
  OBVIOUS
<1>1. Scalars
  <2>1. 0 \in Nrs /\ 0 \in 0..MaxSeqNr /\ 0 \in 0..MaxEpoch
    BY BoundAssumption DEF Nrs
  <2>2. "unknown" \in Phase /\ "unknown" \in LeaderPhase /\ NoCert \in Certs \cup {NoCert}
    BY DEF Phase, LeaderPhase
  <2> QED BY <2>1, <2>2 DEF Init, Scalars
<1> QED BY <1>1 DEF Init, Types, Pools, Tasks, Messages

LEMMA CertTypes ==
  ASSUME NEW c \in Certs
  PROVE  /\ c.seqNr \in 0..MaxSeqNr /\ c.seqNr + 1 \in Nrs /\ (c.kind = "prepare" => c.seqNr \in Nr)
         /\ c.kind \in {"genesis", "commit", "prepare"}
BY BoundAssumption DEF Certs, Cert, Nr, Nrs

\* What an oracle sends has a type.
LEMMA SendTypes ==
  ASSUME Messages, e' = e, e \in Nat, e # 0, NEW type, NEW s \in Nrs, NEW n \in Nat, Send(type, s, n)
  PROVE  Messages'
<1>1. again \in BOOLEAN /\ again' \in BOOLEAN
  BY DEF Messages, Send
<1> QED BY <1>1 DEF Messages, Send

LEMMA CommitTypes ==
  ASSUME Types, NEW s \in 0..MaxSeqNr, NEW written, Commit(s, written)
  PROVE  /\ committed' \in 0..MaxSeqNr /\ committed' + 1 \in Nrs /\ reaped' \in Nrs
         /\ roundStarts' \subseteq Nr /\ proposals' \subseteq Nr
BY BoundAssumption DEF Types, Scalars, Pools, Commit, After, Nrs

LEMMA TypesFollower ==
  ASSUME Types,
         \/ \E c \in Certs, written \in BOOLEAN : FollowEpoch(c, written)
         \/ \E s \in Nr : RoundStart(s) \/ Proposal(s)
         \/ \E t \in tasks : ComputedObservation(t) \/ ComputedOutcome(t)
         \/ Lock \/ TInitialTimeout
         \/ seqNr <= MaxSeqNr /\ \E written \in BOOLEAN : FinishRound(written)
  PROVE  Types'
<1> USE DEF Phase
<1>1. CASE \E c \in Certs, written \in BOOLEAN : FollowEpoch(c, written)
  <2> PICK c \in Certs, written \in BOOLEAN : FollowEpoch(c, written)
    BY <1>1
  <2>0. e \in Nat /\ e # 0 /\ e' = e /\ UNCHANGED leaderVars /\ panicked' = panicked
    BY DEF FollowEpoch, Types, Scalars
  <2>2. CASE c.kind = "prepare"
    <3>1. c.seqNr \in Nrs /\ Send("Prepare", c.seqNr, 0)
      BY <2>2, CertTypes, BoundAssumption DEF FollowEpoch, Nrs
    <3>2. Messages'
      BY <2>0, <3>1, SendTypes DEF Types
    <3>3. Scalars'
      BY <2>0, <2>2, <3>1, CertTypes DEF FollowEpoch, Types, Scalars, leaderVars, observationVars
    <3> QED BY <2>0, <2>2, <3>2, <3>3 DEF FollowEpoch, Types, Pools, Tasks, leaderVars, observationVars
  <2>3. CASE c.kind # "prepare"
    <3>1. /\ committed' \in 0..MaxSeqNr /\ committed' + 1 \in Nrs /\ reaped' \in Nrs
          /\ roundStarts' \subseteq Nr /\ proposals' \subseteq Nr
      <4>1. CASE c.kind = "commit"
        BY <4>1, CertTypes, CommitTypes DEF FollowEpoch
      <4>2. CASE c.kind # "commit"
        BY <2>3, <4>2, BoundAssumption DEF FollowEpoch, Types, Scalars, Pools, Nrs
      <4> QED BY <4>1, <4>2
    <3>2. Scalars'
      BY <2>0, <2>3, <3>1 DEF FollowEpoch, StartFollowerRound, Types, Scalars, leaderVars, observationVars
    <3>3. Tasks'
      BY <2>0, <2>3, <3>1 DEF FollowEpoch, StartFollowerRound, FollowerTasks, Own, Task, Types, Tasks
    <3>4. Messages'
      BY <2>0, <2>3 DEF FollowEpoch, Types, Messages, sentVars
    <3> QED BY <2>0, <3>1, <3>2, <3>3, <3>4 DEF Types, Pools, leaderVars, observationVars
  <2> QED BY <2>2, <2>3
<1>2. CASE \E s \in Nr : RoundStart(s) \/ Proposal(s)
  <2>0. e \in Nat /\ e # 0 /\ e' = e /\ UNCHANGED <<leaderVars, sentVars, sharedVars, tInitial, reaped, panicked>>
    BY <1>2 DEF RoundStart, Proposal, Types, Scalars, sharedVars
  <2>1. Scalars'
    BY <2>0, <1>2 DEF RoundStart, Proposal, Types, Scalars, leaderVars, observationVars, sharedVars
  <2>2. Tasks'
    BY <2>0, <1>2 DEF RoundStart, Proposal, Own, Task, Types, Scalars, Tasks
  <2>3. Pools' /\ Messages'
    BY <2>0, <1>2 DEF RoundStart, Proposal, Types, Pools, Messages, leaderVars, observationVars, sentVars
  <2> QED BY <2>1, <2>2, <2>3 DEF Types
<1>3. CASE \E t \in tasks : ComputedObservation(t) \/ ComputedOutcome(t)
  <2> PICK t \in tasks : ComputedObservation(t) \/ ComputedOutcome(t)
    BY <1>3
  <2>0. /\ e \in Nat /\ e # 0 /\ e' = e /\ UNCHANGED <<leaderVars, sharedVars, tInitial, reaped, panicked>>
        /\ UNCHANGED <<roundStarts, proposals>>
    BY DEF ComputedObservation, ComputedOutcome, Types, Scalars, Tasks, sharedVars
  <2>1. Scalars'
    BY <2>0 DEF ComputedObservation, ComputedOutcome, Types, Scalars, leaderVars, observationVars, sharedVars
  <2>2. Tasks'
    BY <2>0 DEF ComputedObservation, ComputedOutcome, Own, Task, Types, Scalars, Tasks
  <2>3. Messages'
    <3>1. seqNr \in Nrs
      BY DEF Types, Scalars
    <3>2. CASE UNCHANGED sentVars
      BY <2>0, <3>2 DEF Types, Messages, sentVars
    <3>3. CASE Send("Observation", seqNr, 0) \/ Send("Prepare", seqNr, 0)
      BY <2>0, <3>1, <3>3, SendTypes DEF Types
    <3> QED BY <3>2, <3>3 DEF ComputedObservation, ComputedOutcome
  <2> QED BY <2>0, <2>1, <2>2, <2>3 DEF Types, Pools, leaderVars, observationVars
<1>4. CASE Lock \/ TInitialTimeout
  <2>1. Scalars'
    <3>1. CASE Lock
      BY <3>1 DEF Lock, Types, Scalars, leaderVars, observationVars, sharedVars
    <3>2. CASE TInitialTimeout
      BY <3>2 DEF TInitialTimeout, Types, Scalars, leaderVars, observationVars, sharedVars
    <3> QED BY <1>4, <3>1, <3>2
  <2> QED
    BY <1>4, <2>1 DEF Lock, TInitialTimeout, Types, Pools, Tasks, Messages,
       leaderVars, observationVars, sentVars, sharedVars
<1>5. CASE seqNr <= MaxSeqNr /\ \E written \in BOOLEAN : FinishRound(written)
  <2> PICK written \in BOOLEAN : FinishRound(written)
    BY <1>5
  <2>0. e \in Nat /\ e # 0 /\ e' = e /\ UNCHANGED <<firstSeqNr, tInitial, leaderPhase, epochStart, tRound, tGrace,
                 observationVars, sentVars, panicked>>
    BY DEF FinishRound, Types, Scalars
  <2>1. seqNr \in 0..MaxSeqNr
    BY <1>5, BoundAssumption DEF Types, Scalars, Nrs
  <2>2. /\ committed' \in 0..MaxSeqNr /\ committed' + 1 \in Nrs /\ reaped' \in Nrs
        /\ roundStarts' \subseteq Nr /\ proposals' \subseteq Nr
    BY <2>1, CommitTypes DEF FinishRound
  <2>3. Scalars'
    BY <2>0, <2>2 DEF FinishRound, StartFollowerRound, StartLeaderRound, Types, Scalars, observationVars
  <2>4. Tasks'
    BY <2>0, <2>2 DEF FinishRound, StartFollowerRound, FollowerTasks, LeaderTasks, Own, Task, Types, Tasks
  <2> QED BY <2>0, <2>2, <2>3, <2>4 DEF Types, Pools, Messages, observationVars, sentVars
<1> QED BY <1>1, <1>2, <1>3, <1>4, <1>5

LEMMA TypesLeader ==
  ASSUME Types,
         \/ \E x \in Epoch : NewEpochStart(x)
         \/ \E c \in Certs, written \in BOOLEAN : LeadEpoch(c, written)
         \/ TRoundTimeout \/ TGraceTimeout
         \/ \E q \in Oracle : Observation(q)
         \/ \E t \in tasks : ComputedQuery(t) \/ ComputedValidate(t) \/ ComputedQuorum(t) \/ PluginFails(t)
  PROVE  Types'
<1> USE DEF LeaderPhase
<1>1. CASE \E x \in Epoch : NewEpochStart(x)
  <2> PICK x \in Epoch : NewEpochStart(x)
    BY <1>1
  <2>1. x \in 0..MaxEpoch /\ x > e /\ e' = x /\ e \in Nat /\ x \in Nat
    BY BoundAssumption DEF NewEpochStart, Epoch, Types, Scalars
  <2>2. 1..e \subseteq 1..e'
    BY <2>1
  <2>3. Scalars'
    <3>1. 0 \in Nrs /\ e' # 0 /\ tRound' \in BOOLEAN
      BY <2>1, BoundAssumption DEF NewEpochStart, Types, Scalars, Nrs
    <3> QED BY <2>1, <3>1 DEF NewEpochStart, Types, Scalars, Phase
  <2>4. Tasks' /\ Messages'
    BY <2>2 DEF NewEpochStart, Types, Tasks, Messages, sentVars
  <2> QED BY <2>3, <2>4 DEF NewEpochStart, Types, Pools
<1>2. CASE \E c \in Certs, written \in BOOLEAN : LeadEpoch(c, written)
  <2> PICK c \in Certs, written \in BOOLEAN : LeadEpoch(c, written)
    BY <1>2
  <2>0. e \in Nat /\ e # 0 /\ UNCHANGED <<e, seqNr, phase, tInitial, tRound, tGrace, observationVars, sentVars, panicked>>
    BY OracleAssumption DEF LeadEpoch, Epoch, Types, Scalars
  <2>1. /\ committed' \in 0..MaxSeqNr /\ committed' + 1 \in Nrs /\ reaped' \in Nrs
        /\ roundStarts' \subseteq Nr /\ proposals' \subseteq Nr
    <3>1. CASE c.kind = "commit"
      BY <3>1, CertTypes, CommitTypes DEF LeadEpoch
    <3>2. CASE c.kind # "commit"
      BY <3>2, BoundAssumption DEF LeadEpoch, Types, Scalars, Pools, Nrs
    <3> QED BY <3>1, <3>2
  <2>2. Scalars'
    BY <2>0, <2>1, CertTypes DEF LeadEpoch, StartLeaderRound, Types, Scalars, observationVars
  <2>3. Tasks'
    BY <2>0, <2>1 DEF LeadEpoch, LeaderTasks, Own, Task, Types, Tasks
  <2> QED BY <2>0, <2>1, <2>2, <2>3 DEF Types, Pools, Messages, observationVars, sentVars
<1>3. CASE TRoundTimeout
  <2>0. e \in Nat /\ e # 0 /\ UNCHANGED <<sharedVars, followerVars, leaderPhase, epochStart, tGrace, observationVars,
                 sentVars, panicked>> /\ tRound' = FALSE /\ ready' = ~ready /\ tasks' = tasks \cup LeaderTasks
    BY <1>3 DEF TRoundTimeout, StartLeaderRound, Types, Scalars
  <2>1. committed + 1 \in Nrs
    BY BoundAssumption DEF Types, Scalars, Nrs
  <2>2. Scalars'
    BY <2>0 DEF Types, Scalars, sharedVars, followerVars, observationVars
  <2>3. Tasks'
    BY <2>0, <2>1 DEF LeaderTasks, Own, Task, Types, Tasks, sharedVars
  <2> QED BY <2>0, <2>2, <2>3 DEF Types, Pools, Messages, sharedVars, followerVars, observationVars, sentVars
<1>4. CASE TGraceTimeout
  <2>0. /\ UNCHANGED <<sharedVars, followerVars, epochStart, ready, tRound, tasks, panicked>>
        /\ tGrace' = FALSE
    BY <1>4 DEF TGraceTimeout
  <2>1. CASE leaderPhase = "grace"
    <3>1. e \in Nat /\ e # 0 /\ e' = e /\ seqNr \in Nrs
      BY <2>0, <2>1 DEF Types, Scalars, sharedVars
    <3>2. Cardinality(ValidOf(verified, seqNr)) \in Nat
      BY OracleAssumption, FS_Subset, FS_CardinalityType DEF ValidOf
    <3>3. Messages'
      BY <1>4, <2>1, <3>1, <3>2, SendTypes DEF TGraceTimeout, Types
    <3>4. Scalars'
      BY <1>4, <2>0, <2>1, <3>1 DEF TGraceTimeout, Types, Scalars, sharedVars, followerVars
    <3> QED BY <1>4, <2>0, <2>1, <3>3, <3>4
            DEF TGraceTimeout, Types, Pools, Tasks, sharedVars, followerVars
  <2>2. CASE leaderPhase # "grace"
    <3>1. UNCHANGED <<leaderPhase, sentVars, observationVars>>
      BY <1>4, <2>2 DEF TGraceTimeout
    <3>2. Scalars'
      BY <2>0, <3>1 DEF Types, Scalars, sharedVars, followerVars, observationVars
    <3> QED BY <2>0, <3>1, <3>2 DEF Types, Pools, Tasks, Messages, sharedVars, followerVars,
            observationVars, sentVars
  <2> QED BY <2>1, <2>2
<1>5. CASE \E q \in Oracle : Observation(q)
  <2> PICK q \in Oracle : Observation(q)
    BY <1>5
  <2>0. /\ e \in Nat /\ e # 0 /\ seqNr \in Nrs
        /\ UNCHANGED <<sharedVars, followerVars, leaderPhase, epochStart, ready, tRound, tGrace,
                       verified, completed, sentVars>>
    BY OracleAssumption DEF Observation, Epoch, Types, Scalars
  <2>1. Scalars'
    BY <2>0 DEF Observation, Types, Scalars, sharedVars, followerVars
  <2>2. Tasks'
    BY <2>0 DEF Observation, Task, Types, Tasks, sharedVars
  <2>3. Pools'
    BY <2>0 DEF Observation, Types, Pools, followerVars
  <2> QED BY <2>0, <2>1, <2>2, <2>3 DEF Types, Messages, sharedVars, sentVars
<1>6. CASE \E t \in tasks : ComputedQuery(t)
  <2> PICK t \in tasks : ComputedQuery(t)
    BY <1>6
  <2>0. /\ e \in Nat /\ e # 0 /\ committed + 1 \in Nrs /\ committed \in Nrs /\ tasks' \subseteq tasks
        /\ UNCHANGED <<sharedVars, followerVars, epochStart, ready, tGrace, panicked>>
    BY BoundAssumption DEF ComputedQuery, Types, Tasks, Scalars, Nrs
  <2>1. Scalars'
    BY <2>0 DEF ComputedQuery, Types, Scalars, sharedVars, followerVars, observationVars
  <2>2. Messages'
    <3>1. CASE UNCHANGED sentVars
      BY <2>0, <3>1 DEF Types, Messages, sentVars, sharedVars
    <3>2. CASE Send("RoundStart", committed + 1, 0)
      BY <2>0, <3>2, SendTypes DEF Types, sharedVars
    <3> QED BY <3>1, <3>2 DEF ComputedQuery
  <2>3. Pools'
    BY <2>0 DEF ComputedQuery, Types, Pools, followerVars, observationVars
  <2> QED BY <2>0, <2>1, <2>2, <2>3 DEF Types, Tasks, sharedVars
<1>7. CASE \E t \in tasks : ComputedValidate(t)
  <2> PICK t \in tasks : ComputedValidate(t)
    BY <1>7
  <2>0. /\ e \in Nat /\ e # 0 /\ seqNr \in Nrs
        /\ UNCHANGED <<sharedVars, followerVars, leaderPhase, epochStart, ready, tRound, tGrace,
                       observed, completed, sentVars>>
    BY DEF ComputedValidate, Types, Tasks, Scalars
  <2>1. Scalars'
    BY <2>0 DEF ComputedValidate, Types, Scalars, sharedVars, followerVars
  <2>2. Tasks'
    BY <2>0 DEF ComputedValidate, Own, Task, Types, Tasks, sharedVars
  <2>3. Pools'
    BY <2>0 DEF ComputedValidate, StoreVerified, Types, Pools, followerVars
  <2> QED BY <2>0, <2>1, <2>2, <2>3 DEF Types, Messages, sharedVars, sentVars
<1>8. CASE \E t \in tasks : ComputedQuorum(t) \/ PluginFails(t)
  <2>0. /\ UNCHANGED <<sharedVars, followerVars, epochStart, ready, tRound, observationVars, sentVars, panicked>>
        /\ tasks' \subseteq tasks
    BY <1>8 DEF ComputedQuorum, PluginFails, leaderVars
  <2>1. Scalars'
    <3>1. \/ UNCHANGED <<leaderPhase, tGrace>>
          \/ leaderPhase = "sentRoundStart" /\ leaderPhase' = "grace" /\ tGrace' = TRUE
      BY <1>8 DEF ComputedQuorum, PluginFails, leaderVars
    <3> QED BY <2>0, <3>1 DEF Types, Scalars, sharedVars, followerVars, observationVars
  <2> QED
    BY <2>0, <2>1 DEF Types, Pools, Tasks, Messages, sharedVars, followerVars, observationVars, sentVars
<1> QED BY <1>1, <1>2, <1>3, <1>4, <1>5, <1>6, <1>7, <1>8

LEMMA TypesStep == Types /\ [Next]_vars => Types'
<1> SUFFICES ASSUME Types, [Next]_vars PROVE Types'
  OBVIOUS
<1>1. CASE UNCHANGED vars
  BY <1>1 DEF vars, sharedVars, followerVars, leaderVars, observationVars, sentVars,
     Types, Scalars, Pools, Tasks, Messages
<1> QED BY <1>1, TypesFollower, TypesLeader DEF Next

\* Every variable keeps its type: in particular what is verified stays among what
\* was observed, also if an event comes after the pool was reaped.
THEOREM TypeCorrect == Spec => []TypeOK
BY TypesInit, TypesStep, TypesSuffice, PTL DEF Spec

-----------------------------------------------------------------------------
(* The rounds of an epoch *)

\* Where a follower is: its phase and its round.
Placed ==
  /\ phase \in {"unknown", "newEpoch"} => seqNr = 0
  /\ phase \in {"newRound", "backgroundObservation", "sentObservation", "backgroundProposalOutcome"}
       => seqNr = committed + 1
  /\ leaderPhase \in {"unknown", "newEpoch"} => epochStart = NoCert

\* What it signed in this epoch, its phase shows.
SignedSoFar(type, done) ==
  \A m \in sent : (m.epoch = e /\ m.type = type) =>
    m.seqNr < seqNr \/ (m.seqNr = seqNr /\ phase \in done)
Signed ==
  /\ SignedSoFar("Observation",
       {"sentObservation", "backgroundProposalOutcome", "sentPrepare", "sentCommit"})
  /\ SignedSoFar("Prepare", {"sentPrepare", "sentCommit"})

SentIn(type, s) == \E m \in sent : m.type = type /\ m.epoch = e /\ m.seqNr = s

\* What an oracle follows in its own epoch, it has sent as the leader.
FromSelf ==
  e \in Leads =>
    /\ \A s \in roundStarts : SentIn("RoundStart", s)
    /\ \A s \in proposals : SentIn("Proposal", s)
    /\ phase = "backgroundObservation" => SentIn("RoundStart", seqNr)
    /\ phase = "backgroundProposalOutcome" => SentIn("Proposal", seqNr)

SentUpTo(type, s) == \A m \in sent : (m.type = type /\ m.epoch = e) => m.seqNr <= s
LeaderSentUpTo(s) == SentUpTo("RoundStart", s) /\ SentUpTo("Proposal", s)

Reproposes == epochStart.kind = "prepare"

\* No round was started after the last one that was committed.
Free ==
  /\ leaderPhase \in {"sentEpochStart", "sentProposal"}
  /\ phase = "newRound" \/ (phase = "newEpoch" /\ ~Reproposes)
  /\ LeaderSentUpTo(committed)

\* The leader waits for its epoch to start,
Starting == leaderPhase = "newEpoch" /\ phase = "newEpoch" /\ LeaderSentUpTo(0)
\* for an outcome that it re-proposed,
Reproposing ==
  /\ leaderPhase = "sentEpochStart" /\ Reproposes
  /\ firstSeqNr = epochStart.seqNr + 1
  /\ phase = "newEpoch" \/ (phase \in {"sentPrepare", "sentCommit"} /\ seqNr = epochStart.seqNr)
  /\ LeaderSentUpTo(0)
\* for observations,
Collecting ==
  /\ leaderPhase \in {"sentRoundStart", "grace"}
  /\ \/ phase \in {"newRound", "backgroundObservation", "sentObservation"}
     \/ phase = "newEpoch" /\ ~Reproposes /\ leaderPhase # "grace"
  /\ SentIn("RoundStart", committed + 1)
  /\ SentUpTo("RoundStart", committed + 1) /\ SentUpTo("Proposal", committed)
\* for its proposal to be committed, or, after the last round, for the next epoch.
Proposed ==
  /\ leaderPhase = "sentProposal"
  /\ phase \notin {"unknown", "newEpoch"}
  /\ LeaderSentUpTo(seqNr)
  /\ \/ seqNr = committed + 1
     \/ phase = "sentCommit" /\ seqNr = committed /\ RMax <= seqNr - firstSeqNr + 1

\* Of the two calls that start a round one is tRound, the other the start of the
\* epoch or the commit of the round before.  Where the two agree, either both are
\* due or both came, and nothing of the next round was sent.
Led ==
  e \in Leads =>
    /\ (phase = "newEpoch" /\ ~Reproposes) => epochStart.seqNr <= committed
    /\ IF ready = tRound
       THEN /\ Free
            /\ \A t \in tasks : (t.kind = "query" /\ t.epoch = e) =>
                 ~ready /\ t = Own("query", committed + 1)
       ELSE /\ Starting \/ Reproposing \/ Collecting \/ Proposed
            /\ \A t \in tasks : t.kind = "query" => t.epoch # e

EnoughIn(vs, s) == Cardinality(ValidOf(vs, s)) >= ObservationQuorum

\* What was found valid belongs to a round that was started; when a quorum of it is
\* reported, the pool still has a quorum.
Counted ==
  /\ GraceAgrees
  /\ \A t \in tasks : (t.epoch = e /\ t.kind \in {"validate", "quorum"}) =>
       /\ e \in Leads /\ t.seqNr >= 1 /\ t.seqNr <= seqNr /\ SentIn("RoundStart", t.seqNr)
       /\ (t.kind = "quorum" /\ t.seqNr = seqNr /\ leaderPhase = "sentRoundStart")
            => EnoughIn(verified, seqNr)
  /\ leaderPhase = "grace" => EnoughIn(verified, seqNr)

Rounds ==
  /\ Placed /\ Signed /\ FromSelf /\ Led /\ Counted
  /\ OncePerRound /\ ProposalHasQuorum

RoundInv == Types /\ LeadInv /\ Rounds

LEMMA RoundsInit == Init => Rounds
<1> SUFFICES ASSUME Init PROVE Rounds
  OBVIOUS
<1>1. 0 \notin Leads
  BY OracleAssumption DEF Epoch
<1> QED
  BY <1>1 DEF Init, Rounds, Placed, Signed, SignedSoFar, FromSelf, Led, Counted, GraceAgrees,
              OncePerRound, ProposalHasQuorum

\* The numbers among the variables.
LEMMA Numbers ==
  ASSUME Types
  PROVE  /\ e \in Nat /\ seqNr \in Nat /\ firstSeqNr \in Nat /\ committed \in Nat /\ completed \in Nat
         /\ \A m \in sent : m.epoch \in Nat /\ m.epoch <= e /\ m.seqNr \in Nat /\ m.observations \in Nat
         /\ \A t \in tasks : t.epoch \in Nat /\ t.epoch <= e /\ t.seqNr \in Nat
BY BoundAssumption DEF Types, Scalars, Tasks, Messages, Nrs

LEMMA Successor ==
  ASSUME NEW a \in Nat, NEW b \in Nat, a <= b
  PROVE  a < b + 1 /\ b + 1 \in Nat
OBVIOUS

\* A message that was not sent in the round yet.
LEMMA SendsOnce ==
  ASSUME NEW type, NEW s, NEW n, Send(type, s, n), ~SentIn(type, s), OncePerRound
  PROVE  /\ OncePerRound'
         /\ sent' = sent \cup {[type |-> type, epoch |-> e, seqNr |-> s, observations |-> n]}
BY DEF Send, SentIn, OncePerRound

\* What is sent stays sent.
LEMMA SentStays ==
  ASSUME e' = e, sent \subseteq sent', NEW type, NEW s, SentIn(type, s)
  PROVE  SentIn(type, s)'
BY DEF SentIn

\* A quorum of valid observations stays one when more are found valid.
LEMMA MoreIsEnough ==
  ASSUME NEW vs, NEW ws, vs \subseteq ws, NEW s, EnoughIn(vs, s)
  PROVE  EnoughIn(ws, s)
<1>1. ValidOf(vs, s) \subseteq ValidOf(ws, s) /\ IsFiniteSet(ValidOf(ws, s))
  BY OracleAssumption, FS_Subset DEF ValidOf
<1>2. /\ Cardinality(ValidOf(vs, s)) <= Cardinality(ValidOf(ws, s))
      /\ Cardinality(ValidOf(vs, s)) \in Nat /\ Cardinality(ValidOf(ws, s)) \in Nat
  BY <1>1, FS_Subset, FS_CardinalityType
<1> QED BY <1>2, SizeAssumption DEF EnoughIn

-----------------------------------------------------------------------------
(* Epochs and timers *)

roundVars == <<sharedVars, phase, roundStarts, proposals, leaderPhase, epochStart, ready, tRound,
               tGrace, verified, sentVars>>

\* Nothing happens but that background work ends.
LEMMA NothingHappens ==
  ASSUME Rounds, UNCHANGED roundVars, tasks' \subseteq tasks
  PROVE  Rounds'
<1>1. Placed' /\ Signed' /\ FromSelf' /\ OncePerRound' /\ ProposalHasQuorum'
  BY DEF Rounds, roundVars, sharedVars, sentVars, Placed, Signed, SignedSoFar, FromSelf, SentIn,
         OncePerRound, ProposalHasQuorum
<1>2. Led'
  BY DEF Rounds, roundVars, sharedVars, sentVars, Led, Free, Starting, Reproposing, Collecting,
         Proposed, Reproposes, LeaderSentUpTo, SentUpTo, SentIn, Own, Task
<1>3. Counted'
  BY DEF Rounds, roundVars, sharedVars, sentVars, Counted, GraceAgrees, SentIn, EnoughIn, ValidOf
<1> QED BY <1>1, <1>2, <1>3 DEF Rounds

LEMMA NewEpochStartRounds ==
  ASSUME RoundInv, NEW x \in Epoch, NewEpochStart(x)
  PROVE  Rounds'
<1>1. /\ Types /\ Rounds /\ x \in Nat /\ e \in Nat /\ x > e /\ e' = x /\ seqNr' = 0
      /\ phase' = "newEpoch" /\ roundStarts' = {} /\ proposals' = {}
      /\ leaderPhase' = "newEpoch" /\ epochStart' = NoCert /\ ready' = FALSE /\ tGrace' = FALSE
      /\ tRound' = (tRound \/ x \in Leads) /\ tasks' = tasks /\ UNCHANGED sentVars
  BY Numbers, BoundAssumption DEF RoundInv, NewEpochStart, Epoch
<1>2. /\ \A m \in sent' : m.epoch # e'
      /\ \A t \in tasks' : t.epoch # e'
  BY <1>1, Numbers DEF sentVars
<1>3. Placed' /\ Signed' /\ FromSelf' /\ OncePerRound' /\ ProposalHasQuorum'
  BY <1>1, <1>2 DEF Rounds, Placed, Signed, SignedSoFar, FromSelf, OncePerRound, ProposalHasQuorum, sentVars
<1>4. Led'
  <2>1. SUFFICES ASSUME e' \in Leads PROVE Led'
    BY DEF Led
  <2>2. tRound' = TRUE /\ ready' = FALSE
    BY <1>1, <2>1
  <2>3. Starting'
    BY <1>1, <1>2 DEF Starting, LeaderSentUpTo, SentUpTo
  <2>4. 0 <= committed'
    BY <1>1, Numbers DEF NewEpochStart
  <2> QED BY <1>1, <1>2, <2>2, <2>3, <2>4 DEF Led, NoCert, Cert
<1>5. Counted'
  BY <1>1, <1>2 DEF Counted, GraceAgrees
<1> QED BY <1>3, <1>4, <1>5 DEF Rounds

LEMMA TRoundTimeoutRounds ==
  ASSUME RoundInv, TRoundTimeout
  PROVE  Rounds'
<1>1. /\ Types /\ LeadInv /\ Rounds /\ tRound = TRUE /\ tRound' = FALSE /\ ready \in BOOLEAN /\ ready' = ~ready
      /\ tasks' = tasks \cup LeaderTasks
      /\ UNCHANGED <<sharedVars, followerVars, leaderPhase, epochStart, tGrace, observationVars, sentVars>>
  BY DEF RoundInv, TRoundTimeout, StartLeaderRound, Types, Scalars
<1>2. LeaderTasks = IF ready THEN {Own("query", committed + 1)} ELSE {}
  BY <1>1 DEF LeaderTasks, TRoundTimeout, sharedVars, Own, Task
<1>3. Placed' /\ Signed' /\ FromSelf' /\ OncePerRound' /\ ProposalHasQuorum'
  BY <1>1 DEF Rounds, Placed, Signed, SignedSoFar, FromSelf, SentIn, OncePerRound, ProposalHasQuorum,
              sharedVars, followerVars, sentVars
<1>4. Led'
  <2> SUFFICES ASSUME e \in Leads PROVE Led'
    BY <1>1 DEF Led, sharedVars
  <2>1. Led
    BY <1>1 DEF Rounds
  <2>2. /\ Free' = Free /\ (Starting \/ Reproposing \/ Collecting \/ Proposed)' = (Starting \/ Reproposing \/ Collecting \/ Proposed)
        /\ Own("query", committed + 1)' = Own("query", committed + 1) /\ e' = e
        /\ ((phase = "newEpoch" /\ ~Reproposes) => epochStart.seqNr <= committed)'
    BY <1>1, <2>1 DEF Free, Starting, Reproposing, Collecting, Proposed, Reproposes, LeaderSentUpTo, SentUpTo,
              SentIn, Own, Task, Led, sharedVars, followerVars, sentVars
  <2>3. CASE ready = TRUE
    <3>1. Free /\ \A t \in tasks : ~(t.kind = "query" /\ t.epoch = e)
      BY <1>1, <2>1, <2>3 DEF Led
    <3>2. ready' = FALSE /\ tasks' = tasks \cup {Own("query", committed + 1)}
      BY <1>1, <1>2, <2>3
    <3> QED BY <1>1, <2>2, <3>1, <3>2 DEF Led
  <2>4. CASE ready = FALSE
    <3>1. (Starting \/ Reproposing \/ Collecting \/ Proposed) /\ \A t \in tasks : t.kind = "query" => t.epoch # e
      BY <1>1, <2>1, <2>4 DEF Led
    <3>2. ready' = TRUE /\ tasks' = tasks
      BY <1>1, <1>2, <2>4
    <3> QED BY <1>1, <2>2, <3>1, <3>2 DEF Led
  <2> QED BY <1>1, <2>3, <2>4
<1>5. Counted'
  <2>1. \A t \in tasks' \ tasks : t.kind = "query"
    BY <1>1, <1>2 DEF Own, Task
  <2> QED BY <1>1, <2>1 DEF Rounds, Counted, GraceAgrees, SentIn, EnoughIn, ValidOf,
             sharedVars, observationVars, sentVars
<1> QED BY <1>3, <1>4, <1>5 DEF Rounds

-----------------------------------------------------------------------------
(* The start of an epoch *)

\* What the follower does that the leader does not look at.
LEMMA LeadEpochRounds ==
  ASSUME DBFails = FALSE, RoundInv, NEW c \in Certs, NEW written \in BOOLEAN, LeadEpoch(c, written)
  PROVE  Rounds'
<1>1. /\ Types /\ Rounds /\ e \in Leads /\ leaderPhase = "newEpoch" /\ leaderPhase' = "sentEpochStart"
      /\ epochStart' = c /\ tRound' = tRound /\ tRound \in BOOLEAN /\ ready \in BOOLEAN
      /\ UNCHANGED <<e, seqNr, phase, tInitial, tRound, tGrace, observationVars, sentVars>>
  BY DEF RoundInv, Types, Scalars, LeadEpoch
<1>2. /\ ready # tRound /\ Starting /\ \A t \in tasks : t.kind = "query" => t.epoch # e
  BY <1>1 DEF Rounds, Led, Free, Reproposing, Collecting, Proposed
<1>3. /\ committed' \in Nat /\ committed' >= committed
      /\ c.kind = "commit" => c.seqNr <= committed'
      /\ c.kind = "prepare" => committed' = committed
      /\ c.kind \in {"genesis", "commit", "prepare"} /\ c.seqNr \in Nat
      /\ c.kind = "genesis" => c.seqNr = 0
      /\ roundStarts' \subseteq roundStarts /\ proposals' \subseteq proposals
  <2>1. c.seqNr \in Nat /\ committed \in Nat /\ c.kind \in {"genesis", "commit", "prepare"}
    BY <1>1, Numbers, CertTypes
  <2>2. c.kind = "genesis" => c.seqNr = 0
    BY DEF Certs, Cert
  <2>3. CASE c.kind = "commit"
    BY <2>1, <2>2, <2>3 DEF LeadEpoch, Commit, After
  <2>4. CASE c.kind # "commit"
    BY <2>1, <2>2, <2>4 DEF LeadEpoch
  <2> QED BY <2>3, <2>4
<1>4. Placed'
  BY <1>1, <1>2 DEF Placed, Rounds, Starting
<1>5. Signed' /\ OncePerRound' /\ ProposalHasQuorum'
  BY <1>1 DEF Rounds, Signed, SignedSoFar, OncePerRound, ProposalHasQuorum, sentVars
<1>6. FromSelf'
  BY <1>1, <1>2, <1>3 DEF Rounds, FromSelf, SentIn, sentVars, Starting
<1>7. Led'
  <2>1. (phase' = "newEpoch" /\ ~Reproposes') => epochStart'.seqNr <= committed'
    BY <1>1, <1>3 DEF Reproposes
  <2>2. CASE c.kind = "prepare"
    <3>1. firstSeqNr' = c.seqNr + 1 /\ UNCHANGED <<ready, tasks>>
      BY <2>2 DEF LeadEpoch
    <3>2. Reproposing'
      BY <1>1, <1>2, <2>2, <3>1 DEF Starting, Reproposing, Reproposes, LeaderSentUpTo, SentUpTo, sentVars
    <3> QED BY <1>1, <1>2, <2>1, <3>1, <3>2 DEF Led
  <2>3. CASE c.kind # "prepare"
    <3>1. ready' = ~ready /\ tasks' = tasks \cup IF ready THEN {Own("query", committed' + 1)} ELSE {}
      BY <2>3 DEF LeadEpoch, StartLeaderRound, LeaderTasks, Own, Task
    <3>2. Free'
      <4>1. \A m \in sent' : m.epoch = e /\ m.type \in {"RoundStart", "Proposal"} => m.seqNr <= committed'
        BY <1>1, <1>2, <1>3, Numbers DEF Starting, LeaderSentUpTo, SentUpTo, sentVars
      <4> QED BY <1>1, <1>2, <2>3, <4>1 DEF Starting, Free, Reproposes, LeaderSentUpTo, SentUpTo
    <3>3. ready' = tRound'
      BY <1>1, <1>2, <3>1
    <3>4. Own("query", committed' + 1) = Own("query", committed + 1)'
      BY <1>1 DEF Own, Task
    <3>5. \A t \in tasks' : (t.kind = "query" /\ t.epoch = e') => ~ready' /\ t = Own("query", committed + 1)'
      <4>1. CASE ready = TRUE
        BY <1>1, <1>2, <3>1, <3>4, <4>1
      <4>2. CASE ready = FALSE
        BY <1>1, <1>2, <3>1, <4>2
      <4> QED BY <1>1, <4>1, <4>2
    <3> QED BY <2>1, <3>2, <3>3, <3>5 DEF Led
  <2> QED BY <2>2, <2>3
<1>8. Counted'
  <2>1. \A t \in tasks' \ tasks : t.kind = "query"
    BY DEF LeadEpoch, LeaderTasks, Own, Task
  <2> QED BY <1>1, <2>1 DEF Rounds, Counted, GraceAgrees, SentIn, EnoughIn, ValidOf,
             observationVars, sentVars
<1> QED BY <1>4, <1>5, <1>6, <1>7, <1>8 DEF Rounds

\* Before the epoch starts for the follower, nothing is signed in it.
LEMMA NothingSigned ==
  ASSUME Types, Rounds, phase = "newEpoch"
  PROVE  /\ seqNr = 0
         /\ \A m \in sent : m.epoch = e => m.type \notin {"Observation", "Prepare"}
         /\ \A t \in tasks : t.epoch = e => t.kind \notin {"validate", "quorum"}
<1>1. seqNr = 0
  BY DEF Rounds, Placed
<1> QED BY <1>1, Numbers DEF Rounds, Signed, SignedSoFar, Counted

LEMMA ReproposeRounds ==
  ASSUME DBFails = FALSE, RoundInv, NEW c \in Certs, NEW written \in BOOLEAN, FollowEpoch(c, written),
         c.kind = "prepare"
  PROVE  Rounds'
<1>1. /\ Types /\ LeadInv /\ Rounds /\ phase = "newEpoch" /\ phase' = "sentPrepare" /\ seqNr' = c.seqNr
      /\ firstSeqNr' = c.seqNr + 1 /\ Send("Prepare", c.seqNr, 0)
      /\ e \in Leads => c = epochStart
      /\ UNCHANGED <<e, committed, roundStarts, proposals, reaped, tasks, leaderVars>>
  BY DEF RoundInv, FollowEpoch
<1>2. c.seqNr \in Nat /\ c.seqNr >= 1 /\ c # NoCert
  BY BoundAssumption, CertTypes DEF Nr, NoCert, Cert, FollowEpoch
<1>3. /\ OncePerRound'
      /\ sent' = sent \cup {[type |-> "Prepare", epoch |-> e, seqNr |-> c.seqNr, observations |-> 0]}
  <2>1. ~SentIn("Prepare", c.seqNr)
    BY <1>1, NothingSigned DEF SentIn
  <2> QED BY <1>1, <2>1, SendsOnce DEF Rounds
<1>4. Placed'
  BY <1>1 DEF Placed, Rounds, leaderVars
<1>5. Signed'
  BY <1>1, <1>3, NothingSigned DEF Signed, SignedSoFar
<1>6. FromSelf'
  BY <1>1, <1>3 DEF Rounds, FromSelf, SentIn
<1>7. Led'
  <2> SUFFICES ASSUME e \in Leads PROVE Led'
    BY <1>1 DEF Led
  <2>1. Reproposes /\ Led /\ leaderPhase \notin {"unknown", "newEpoch"}
    BY <1>1, <1>2 DEF Rounds, Placed, Reproposes
  <2>2. Reproposing /\ ready # tRound /\ \A t \in tasks : t.kind = "query" => t.epoch # e
    BY <1>1, <2>1 DEF Led, Free, Starting, Collecting, Proposed
  <2>3. Reproposing'
    BY <1>1, <1>3, <2>2 DEF Reproposing, Reproposes, LeaderSentUpTo, SentUpTo, leaderVars
  <2> QED BY <1>1, <2>2, <2>3 DEF Led, leaderVars
<1>8. Counted'
  <2>1. leaderPhase # "grace"
    BY <1>1 DEF LeadInv, Leading, Rounds, Led, Free, Starting, Reproposing, Collecting, Proposed
  <2> QED BY <1>1, <2>1, NothingSigned DEF Rounds, Counted, GraceAgrees, leaderVars
<1>9. ProposalHasQuorum'
  <2>1. \A m \in sent' : m \in sent \/ m.type = "Prepare"
    BY <1>3
  <2> QED BY <1>1, <2>1 DEF Rounds, ProposalHasQuorum
<1> QED BY <1>3, <1>4, <1>5, <1>6, <1>7, <1>8, <1>9 DEF Rounds

LEMMA FollowEpochRounds ==
  ASSUME DBFails = FALSE, RoundInv, NEW c \in Certs, NEW written \in BOOLEAN, FollowEpoch(c, written),
         c.kind # "prepare"
  PROVE  Rounds'
<1>1. /\ Types /\ LeadInv /\ Rounds /\ phase = "newEpoch" /\ seqNr' = committed' + 1
      /\ phase' = (IF seqNr' \in roundStarts' THEN "backgroundObservation" ELSE "newRound")
      /\ e \in Leads => c = epochStart
      /\ UNCHANGED <<e, leaderVars, sentVars>>
      /\ \A t \in tasks' \ tasks : t.kind = "observation"
      /\ tasks \subseteq tasks'
  BY DEF RoundInv, FollowEpoch, StartFollowerRound, FollowerTasks, Own, Task
<1>2. /\ committed' \in Nat
      /\ c.seqNr <= committed => committed' = committed
      /\ roundStarts' \subseteq roundStarts /\ proposals' \subseteq proposals
  <2>1. c.seqNr \in Nat /\ committed \in Nat
    BY <1>1, Numbers, CertTypes
  <2>2. CASE c.kind = "commit"
    BY <2>1, <2>2 DEF FollowEpoch, Commit, After
  <2>3. CASE c.kind # "commit"
    BY <2>1, <2>3 DEF FollowEpoch
  <2> QED BY <2>2, <2>3
<1>3. c # NoCert
  BY DEF NoCert, Cert, Certs
<1>4. Placed'
  BY <1>1 DEF Placed, Rounds, leaderVars
<1>5. Signed' /\ OncePerRound' /\ ProposalHasQuorum'
  BY <1>1, NothingSigned DEF Rounds, Signed, SignedSoFar, OncePerRound, ProposalHasQuorum, sentVars
<1>6. FromSelf'
  BY <1>1, <1>2 DEF Rounds, FromSelf, SentIn, sentVars
<1>7. Led'
  <2> SUFFICES ASSUME e \in Leads PROVE Led'
    BY <1>1 DEF Led
  <2>1. ~Reproposes /\ Led /\ leaderPhase \notin {"unknown", "newEpoch"} /\ FromSelf
    BY <1>1, <1>3 DEF Rounds, Placed, Reproposes
  <2>2. committed' = committed
    BY <1>1, <1>2, <2>1 DEF Led
  <2>3. CASE ready = tRound
    <3>1. Free
      BY <2>1, <2>3 DEF Led
    <3>2. committed + 1 \notin roundStarts
      BY <1>1, <2>1, <3>1, Numbers DEF FromSelf, SentIn, Free, LeaderSentUpTo, SentUpTo
    <3>3. Free'
      BY <1>1, <1>2, <2>2, <3>1, <3>2 DEF Free, LeaderSentUpTo, SentUpTo, leaderVars, sentVars
    <3>4. Own("query", committed + 1)' = Own("query", committed + 1)
      BY <1>1, <2>2 DEF Own, Task
    <3> QED BY <1>1, <2>1, <2>3, <3>3, <3>4 DEF Led, leaderVars
  <2>4. CASE ready # tRound
    <3>1. Collecting /\ \A t \in tasks : t.kind = "query" => t.epoch # e
      BY <1>1, <2>1, <2>4 DEF Led, Starting, Reproposing, Proposed
    <3>2. Collecting'
      BY <1>1, <2>2, <3>1 DEF Collecting, SentUpTo, SentIn, leaderVars, sentVars
    <3> QED BY <1>1, <2>4, <3>1, <3>2 DEF Led, leaderVars
  <2> QED BY <2>3, <2>4
<1>8. Counted'
  <2>1. leaderPhase # "grace"
    BY <1>1 DEF LeadInv, Leading, Rounds, Led, Free, Starting, Reproposing, Collecting, Proposed
  <2> QED BY <1>1, <2>1, NothingSigned DEF Rounds, Counted, GraceAgrees, leaderVars
<1> QED BY <1>4, <1>5, <1>6, <1>7, <1>8 DEF Rounds

-----------------------------------------------------------------------------
(* Rounds, as a follower *)

\* The follower goes on in its round: what the leader waits for stays.
LEMMA FollowerMoves ==
  ASSUME RoundInv, UNCHANGED <<e, seqNr, firstSeqNr, committed, leaderVars>>,
         sent \subseteq sent', \A m \in sent' \ sent : m.type \in {"Observation", "Prepare"},
         \A t \in tasks' \ tasks : t.kind \in {"observation", "outcome"},
         phase' = phase \/ phase' \notin {"unknown", "newEpoch"},
         e \in Leads /\ Free => phase' = phase,
         e \in Leads /\ Starting => phase' = phase,
         e \in Leads /\ Reproposing => phase' = phase \/ phase' \in {"sentPrepare", "sentCommit"},
         e \in Leads /\ Collecting =>
           phase' = phase \/ phase' \in {"newRound", "backgroundObservation", "sentObservation"},
         phase = "sentCommit" => phase' = phase,
         phase = "newEpoch" => phase' = phase
  PROVE  Led' /\ Counted' /\ ProposalHasQuorum'
<1>1. Types /\ Rounds
  BY DEF RoundInv
<1>2. \A m \in sent' : m.type \in {"RoundStart", "Proposal"} => m \in sent
  OBVIOUS
<1>3. Led'
  <2> SUFFICES ASSUME e \in Leads PROVE Led'
    BY DEF Led
  <2>1. Led
    BY <1>1 DEF Rounds
  <2>2. Own("query", committed + 1)' = Own("query", committed + 1)
    BY DEF Own, Task
  <2>3. Free => Free'
    BY <1>2 DEF Free, Reproposes, LeaderSentUpTo, SentUpTo, leaderVars
  <2>4. Starting => Starting'
    BY <1>2 DEF Starting, LeaderSentUpTo, SentUpTo, leaderVars
  <2>5. Reproposing => Reproposing'
    BY <1>1, <1>2 DEF Reproposing, Reproposes, LeaderSentUpTo, SentUpTo, leaderVars
  <2>6. Collecting => Collecting'
    BY <1>2 DEF Collecting, Reproposes, SentIn, SentUpTo, leaderVars
  <2>7. Proposed => Proposed'
    BY <1>2 DEF Proposed, LeaderSentUpTo, SentUpTo, leaderVars
  <2>8. (phase' = "newEpoch" /\ ~Reproposes') => epochStart'.seqNr <= committed'
    BY <2>1 DEF Led, Reproposes, leaderVars
  <2>9. CASE ready = tRound
    BY <2>1, <2>2, <2>3, <2>8, <2>9 DEF Led, leaderVars
  <2>10. CASE ready # tRound
    BY <2>1, <2>4, <2>5, <2>6, <2>7, <2>8, <2>10 DEF Led, leaderVars
  <2> QED BY <2>9, <2>10
<1>4. Counted'
  BY <1>1 DEF Rounds, Counted, GraceAgrees, SentIn, EnoughIn, ValidOf, leaderVars, observationVars
<1>5. ProposalHasQuorum'
  BY <1>1, <1>2 DEF Rounds, ProposalHasQuorum
<1> QED BY <1>3, <1>4, <1>5

LEMMA RoundStartRounds ==
  ASSUME RoundInv, NEW s \in Nr, RoundStart(s)
  PROVE  Rounds'
<1>1. /\ Types /\ Rounds /\ (e \in Leads => SentIn("RoundStart", s))
      /\ roundStarts' = roundStarts \cup {s}
      /\ UNCHANGED <<e, seqNr, firstSeqNr, committed, proposals, leaderVars, sent, again>>
      /\ \/ UNCHANGED <<phase, tasks>>
         \/ /\ phase = "newRound" /\ s = seqNr
            /\ phase' = "backgroundObservation" /\ tasks' = tasks \cup {Own("observation", seqNr)}
  BY DEF RoundInv, RoundStart, FromLeader, SentIn, sharedVars, sentVars
<1>2. Placed' /\ Signed' /\ FromSelf' /\ OncePerRound'
  BY <1>1 DEF Rounds, Placed, Signed, SignedSoFar, FromSelf, SentIn, OncePerRound, leaderVars
<1>3. e \in Leads /\ Free => phase' = phase
  BY <1>1, Numbers DEF Rounds, Placed, Free, LeaderSentUpTo, SentUpTo, SentIn
<1>4. Led' /\ Counted' /\ ProposalHasQuorum'
  <2>1. \A t \in tasks' \ tasks : t.kind \in {"observation", "outcome"}
    BY <1>1 DEF Own, Task
  <2>2. CASE phase' = phase
    BY <1>1, <2>1, <2>2, FollowerMoves
  <2>3. CASE phase' # phase
    <3>1. phase = "newRound" /\ phase' = "backgroundObservation"
      BY <1>1, <2>3
    <3>2. /\ ~Starting /\ ~Reproposing
          /\ (e \in Leads => ~Free)
      BY <1>3, <2>3, <3>1 DEF Starting, Reproposing
    <3> QED BY <1>1, <1>3, <2>1, <3>1, <3>2, FollowerMoves
  <2> QED BY <2>2, <2>3
<1> QED BY <1>2, <1>4 DEF Rounds

LEMMA ProposalRounds ==
  ASSUME RoundInv, NEW s \in Nr, Proposal(s)
  PROVE  Rounds'
<1>1. /\ Types /\ Rounds /\ (e \in Leads => SentIn("Proposal", s))
      /\ proposals' = proposals \cup {s}
      /\ UNCHANGED <<e, seqNr, firstSeqNr, committed, roundStarts, leaderVars, sent, again>>
      /\ \/ UNCHANGED <<phase, tasks>>
         \/ /\ phase = "sentObservation" /\ s = seqNr
            /\ phase' = "backgroundProposalOutcome" /\ tasks' = tasks \cup {Own("outcome", seqNr)}
  BY DEF RoundInv, Proposal, FromLeader, SentIn, sharedVars, sentVars
<1>2. Placed' /\ Signed' /\ FromSelf' /\ OncePerRound'
  BY <1>1 DEF Rounds, Placed, Signed, SignedSoFar, FromSelf, SentIn, OncePerRound, leaderVars
<1>3. e \in Leads /\ Collecting => phase' = phase
  BY <1>1, Numbers DEF Rounds, Placed, Collecting, SentUpTo, SentIn
<1>4. Led' /\ Counted' /\ ProposalHasQuorum'
  <2>1. \A t \in tasks' \ tasks : t.kind \in {"observation", "outcome"}
    BY <1>1 DEF Own, Task
  <2>2. CASE phase' = phase
    BY <1>1, <2>1, <2>2, FollowerMoves
  <2>3. CASE phase' # phase
    <3>1. phase = "sentObservation" /\ phase' = "backgroundProposalOutcome"
      BY <1>1, <2>3
    <3>2. /\ ~Starting /\ ~Reproposing
          /\ ~Free /\ (e \in Leads => ~Collecting)
      BY <1>3, <2>3, <3>1 DEF Starting, Reproposing, Free
    <3> QED BY <1>1, <1>3, <2>1, <3>1, <3>2, FollowerMoves
  <2> QED BY <2>2, <2>3
<1> QED BY <1>2, <1>4 DEF Rounds

LEMMA ComputedObservationRounds ==
  ASSUME RoundInv, NEW t \in tasks, ComputedObservation(t)
  PROVE  Rounds'
<1>1. /\ Types /\ Rounds
      /\ UNCHANGED <<e, seqNr, firstSeqNr, committed, roundStarts, proposals, leaderVars>>
  BY DEF RoundInv, ComputedObservation, sharedVars
<1>2. CASE phase = "backgroundObservation" /\ IsCurrent(t, seqNr)
  <2>1. /\ Send("Observation", seqNr, 0)
        /\ phase' = (IF seqNr \in proposals THEN "backgroundProposalOutcome" ELSE "sentObservation")
        /\ \A u \in tasks' \ tasks : u.kind = "outcome"
    BY <1>2 DEF ComputedObservation, Own, Task
  <2>2. /\ OncePerRound'
        /\ sent' = sent \cup {[type |-> "Observation", epoch |-> e, seqNr |-> seqNr, observations |-> 0]}
    <3>1. ~SentIn("Observation", seqNr)
      BY <1>1, <1>2, Numbers DEF Rounds, Signed, SignedSoFar, SentIn
    <3> QED BY <1>1, <2>1, <3>1, SendsOnce DEF Rounds
  <2>3. Placed' /\ Signed' /\ FromSelf'
    BY <1>1, <1>2, <2>1, <2>2 DEF Rounds, Placed, Signed, SignedSoFar, FromSelf, SentIn, leaderVars
  <2>4. e \in Leads /\ Collecting => phase' = "sentObservation"
    BY <1>1, <1>2, <2>1, Numbers DEF Rounds, Placed, FromSelf, Collecting, SentUpTo, SentIn
  <2>5. Led' /\ Counted' /\ ProposalHasQuorum'
    <3>1. sent \subseteq sent' /\ \A m \in sent' \ sent : m.type = "Observation"
      BY <2>2
    <3> QED BY <1>1, <1>2, <2>1, <2>4, <3>1, FollowerMoves DEF Starting, Reproposing, Free
  <2> QED BY <2>2, <2>3, <2>5 DEF Rounds
<1>3. CASE ~(phase = "backgroundObservation" /\ IsCurrent(t, seqNr))
  BY <1>1, <1>3, NothingHappens DEF ComputedObservation, roundVars, sharedVars, leaderVars, observationVars
<1> QED BY <1>2, <1>3

LEMMA ComputedOutcomeRounds ==
  ASSUME RoundInv, NEW t \in tasks, ComputedOutcome(t)
  PROVE  Rounds'
<1>1. /\ Types /\ Rounds /\ tasks' \subseteq tasks
      /\ UNCHANGED <<e, seqNr, firstSeqNr, committed, roundStarts, proposals, leaderVars>>
  BY DEF RoundInv, ComputedOutcome, sharedVars
<1>2. CASE phase = "backgroundProposalOutcome" /\ IsCurrent(t, seqNr)
  <2>1. Send("Prepare", seqNr, 0) /\ phase' = "sentPrepare"
    BY <1>2 DEF ComputedOutcome
  <2>2. /\ OncePerRound'
        /\ sent' = sent \cup {[type |-> "Prepare", epoch |-> e, seqNr |-> seqNr, observations |-> 0]}
    <3>1. ~SentIn("Prepare", seqNr)
      BY <1>1, <1>2, Numbers DEF Rounds, Signed, SignedSoFar, SentIn
    <3> QED BY <1>1, <2>1, <3>1, SendsOnce DEF Rounds
  <2>3. Placed' /\ Signed' /\ FromSelf'
    BY <1>1, <1>2, <2>1, <2>2 DEF Rounds, Placed, Signed, SignedSoFar, FromSelf, SentIn, leaderVars
  <2>4. Led' /\ Counted' /\ ProposalHasQuorum'
    <3>1. sent \subseteq sent' /\ \A m \in sent' \ sent : m.type = "Prepare"
      BY <2>2
    <3> QED BY <1>1, <1>2, <2>1, <3>1, FollowerMoves DEF Starting, Reproposing, Free, Collecting
  <2> QED BY <2>2, <2>3, <2>4 DEF Rounds
<1>3. CASE ~(phase = "backgroundProposalOutcome" /\ IsCurrent(t, seqNr))
  BY <1>1, <1>3, NothingHappens DEF ComputedOutcome, roundVars, sharedVars, leaderVars, observationVars
<1> QED BY <1>2, <1>3

LEMMA LockRounds ==
  ASSUME RoundInv, Lock
  PROVE  Rounds'
<1>1. /\ Types /\ Rounds /\ phase = "sentPrepare" /\ phase' = "sentCommit"
      /\ UNCHANGED <<e, seqNr, firstSeqNr, committed, roundStarts, proposals, leaderVars, tasks, sent, again>>
  BY DEF RoundInv, Lock, sharedVars, sentVars
<1>2. Placed' /\ Signed' /\ FromSelf' /\ OncePerRound'
  BY <1>1 DEF Rounds, Placed, Signed, SignedSoFar, FromSelf, SentIn, OncePerRound, leaderVars
<1>3. Led' /\ Counted' /\ ProposalHasQuorum'
  BY <1>1, FollowerMoves DEF Starting, Reproposing, Free, Collecting
<1> QED BY <1>2, <1>3 DEF Rounds

LEMMA FinishRoundRounds ==
  ASSUME DBFails = FALSE, RoundInv, NEW written \in BOOLEAN, FinishRound(written)
  PROVE  Rounds'
<1> DEFINE last == RMax <= seqNr - firstSeqNr + 1
<1>1. /\ Types /\ LeadInv /\ Rounds /\ phase = "sentCommit"
      /\ UNCHANGED <<e, firstSeqNr, leaderPhase, epochStart, tRound, tGrace, observationVars, sentVars>>
      /\ ready \in BOOLEAN /\ tRound \in BOOLEAN
  BY DEF RoundInv, FinishRound, Types, Scalars
<1>2. /\ committed' \in Nat /\ committed' >= seqNr /\ (seqNr > committed => committed' = seqNr)
      /\ (seqNr = committed => committed' = seqNr)
      /\ roundStarts' \subseteq roundStarts /\ proposals' \subseteq proposals
  BY <1>1, Numbers DEF FinishRound, Commit, After
<1>3. CASE last
  <2>1. UNCHANGED <<seqNr, phase, ready, tasks>>
    BY <1>3 DEF FinishRound
  <2>2. Placed' /\ Signed' /\ FromSelf' /\ OncePerRound' /\ ProposalHasQuorum'
    BY <1>1, <1>2, <2>1 DEF Rounds, Placed, Signed, SignedSoFar, FromSelf, SentIn, OncePerRound,
       ProposalHasQuorum, sentVars
  <2>3. Led'
    <3> SUFFICES ASSUME e \in Leads PROVE Led'
      BY <1>1 DEF Led
    <3>1. ready # tRound /\ Proposed /\ \A t \in tasks : t.kind = "query" => t.epoch # e
      <4>1. ready # tRound /\ (Reproposing \/ Proposed) /\ \A t \in tasks : t.kind = "query" => t.epoch # e
        BY <1>1 DEF Rounds, Led, Free, Starting, Collecting
      <4>2. ~Reproposing
        <5>1. RMax \in Nat /\ RMax >= 1
          BY SizeAssumption
        <5> QED BY <1>1, <1>3, <5>1, Numbers DEF Reproposing
      <4> QED BY <4>1, <4>2
    <3>2. Proposed'
      BY <1>1, <1>2, <1>3, <2>1, <3>1, Numbers DEF Proposed, LeaderSentUpTo, SentUpTo, sentVars
    <3> QED BY <1>1, <2>1, <3>1, <3>2 DEF Led
  <2>4. Counted'
    BY <1>1, <2>1 DEF Rounds, Counted, GraceAgrees, SentIn, EnoughIn, ValidOf, observationVars, sentVars
  <2> QED BY <2>2, <2>3, <2>4 DEF Rounds
<1>4. CASE ~last
  <2>1. /\ seqNr' = committed' + 1
        /\ phase' = (IF seqNr' \in roundStarts' THEN "backgroundObservation" ELSE "newRound")
    BY <1>4 DEF FinishRound, StartFollowerRound
  <2>2. /\ e \notin Leads => ready' = ready
        /\ e \in Leads => ready' = ~ready
        /\ \A t \in tasks' \ tasks : \/ t.kind = "observation"
                                     \/ e \in Leads /\ ready /\ t = Own("query", committed' + 1)
    BY <1>4 DEF FinishRound, StartLeaderRound, FollowerTasks, LeaderTasks, Own, Task
  <2>3. seqNr < seqNr' /\ seqNr' \in Nat
    <3>1. seqNr \in Nat /\ committed' \in Nat /\ seqNr <= committed'
      BY <1>1, <1>2, Numbers
    <3>2. seqNr < committed' + 1 /\ committed' + 1 \in Nat
      BY <3>1, Successor
    <3> QED BY <2>1, <3>2
  <2>4. Placed' /\ OncePerRound' /\ ProposalHasQuorum'
    BY <1>1, <2>1 DEF Rounds, Placed, OncePerRound, ProposalHasQuorum, sentVars
  <2>5. Signed'
    BY <1>1, <2>3, Numbers DEF Rounds, Signed, SignedSoFar, sentVars
  <2>6. FromSelf'
    BY <1>1, <1>2, <2>1 DEF Rounds, FromSelf, SentIn, sentVars
  <2>7. e \in Leads => leaderPhase \in {"sentEpochStart", "sentProposal"}
    BY <1>1 DEF Rounds, Led, Free, Starting, Reproposing, Collecting, Proposed
  <2>8. Led'
    <3> SUFFICES ASSUME e \in Leads PROVE Led'
      BY <1>1 DEF Led
    <3>1. ready # tRound /\ (Reproposing \/ Proposed) /\ \A t \in tasks : t.kind = "query" => t.epoch # e
      BY <1>1 DEF Rounds, Led, Free, Starting, Collecting
    <3>2. \A m \in sent' : m.epoch = e /\ m.type \in {"RoundStart", "Proposal"} => m.seqNr <= committed'
      BY <1>1, <1>2, <3>1, Numbers DEF Reproposing, Proposed, LeaderSentUpTo, SentUpTo, sentVars
    <3>3. committed' + 1 \notin roundStarts'
      BY <1>1, <1>2, <3>2, Numbers DEF Rounds, FromSelf, SentIn, sentVars
    <3>4. Free'
      BY <1>1, <2>1, <2>7, <3>2, <3>3 DEF Free, LeaderSentUpTo, SentUpTo
    <3>5. ready' = tRound' /\ phase' = "newRound"
      BY <1>1, <2>1, <2>2, <3>1, <3>3
    <3>6. Own("query", committed' + 1) = Own("query", committed + 1)'
      BY <1>1 DEF Own, Task
    <3>7. \A t \in tasks' : (t.kind = "query" /\ t.epoch = e') => ~ready' /\ t = Own("query", committed + 1)'
      BY <1>1, <2>2, <3>1, <3>6
    <3> QED BY <3>4, <3>5, <3>7 DEF Led
  <2>9. Counted'
    <3>1. leaderPhase \notin {"sentRoundStart", "grace"}
      BY <1>1, <2>7 DEF LeadInv, Leading
    <3>2. \A t \in tasks' \ tasks : t.kind \in {"observation", "query"}
      BY <2>2 DEF Own, Task
    <3> QED BY <1>1, <2>3, <3>1, <3>2, Numbers DEF Rounds, Counted, GraceAgrees, SentIn, sentVars
  <2> QED BY <2>4, <2>5, <2>6, <2>8, <2>9 DEF Rounds
<1> QED BY <1>3, <1>4

-----------------------------------------------------------------------------
(* Rounds, as a leader *)

\* What the leader sends does not change where its own follower is.
LEMMA LeaderMoves ==
  ASSUME Rounds, UNCHANGED <<sharedVars, followerVars, epochStart>>,
         leaderPhase' = leaderPhase \/ leaderPhase' \notin {"unknown", "newEpoch"},
         sent \subseteq sent', \A m \in sent' \ sent : m.type \in {"RoundStart", "Proposal"}
  PROVE  Placed' /\ Signed' /\ FromSelf'
<1>1. Placed'
  BY DEF Rounds, Placed, sharedVars, followerVars
<1>2. Signed'
  BY DEF Rounds, Signed, SignedSoFar, sharedVars, followerVars
<1>3. FromSelf'
  BY DEF Rounds, FromSelf, SentIn, sharedVars, followerVars
<1> QED BY <1>1, <1>2, <1>3

\* A leader that has neither started the round nor is done with it is Collecting.
LEMMA MidRound ==
  ASSUME RoundInv, leaderPhase \in {"sentRoundStart", "grace"}
  PROVE  /\ e \in Leads /\ ready # tRound /\ Collecting
         /\ \A t \in tasks : t.kind = "query" => t.epoch # e
         /\ seqNr >= 1 => phase # "newEpoch" /\ seqNr = committed + 1
<1>1. e \in Leads
  BY DEF RoundInv, LeadInv, Leading
<1>2. ready # tRound /\ Collecting /\ \A t \in tasks : t.kind = "query" => t.epoch # e
  BY <1>1 DEF RoundInv, Rounds, Led, Free, Starting, Reproposing, Proposed
<1>3. ASSUME seqNr >= 1 PROVE phase # "newEpoch" /\ seqNr = committed + 1
  <2>1. seqNr # 0
    BY <1>3, Numbers DEF RoundInv
  <2> QED BY <1>2, <2>1 DEF RoundInv, Rounds, Placed, Collecting
<1> QED BY <1>1, <1>2, <1>3

LEMMA ObservationRounds ==
  ASSUME RoundInv, NEW q \in Oracle, Observation(q)
  PROVE  Rounds'
<1>1. /\ Types /\ Rounds /\ leaderPhase \in {"sentRoundStart", "grace"} /\ seqNr > completed
      /\ tasks' \subseteq tasks \cup {Task("validate", seqNr, q)}
      /\ UNCHANGED <<sharedVars, followerVars, leaderPhase, epochStart, ready, tRound, tGrace,
                     verified, sentVars>>
  BY DEF RoundInv, Observation
<1>2. seqNr \in Nat /\ seqNr >= 1
  BY <1>1, Numbers
<1>3. e \in Leads /\ SentIn("RoundStart", seqNr)
  BY <1>1, <1>2, MidRound DEF Collecting
<1>4. Placed' /\ Signed' /\ FromSelf' /\ OncePerRound' /\ ProposalHasQuorum'
  <2>1. OncePerRound' /\ ProposalHasQuorum'
    BY <1>1 DEF Rounds, OncePerRound, ProposalHasQuorum, sentVars
  <2> QED BY <1>1, <2>1, LeaderMoves DEF sentVars
<1>5. \A t \in tasks' \ tasks : t = Task("validate", seqNr, q)
  BY <1>1
<1>6. Led'
  <2>1. \A t \in tasks' \ tasks : t.kind = "validate"
    BY <1>5 DEF Task
  <2> QED BY <1>1, <2>1 DEF Rounds, Led, Free, Starting, Reproposing, Collecting, Proposed,
      Reproposes, LeaderSentUpTo, SentUpTo, SentIn, Own, Task, sharedVars, followerVars, sentVars
<1>7. Counted'
  <2>1. \A t \in tasks' \ tasks : t.kind = "validate" /\ t.seqNr = seqNr
    BY <1>5 DEF Task
  <2> QED BY <1>1, <1>2, <1>3, <2>1 DEF Rounds, Counted, GraceAgrees, SentIn, EnoughIn, ValidOf,
      sharedVars, sentVars
<1> QED BY <1>4, <1>6, <1>7 DEF Rounds

LEMMA ComputedQueryRounds ==
  ASSUME RoundInv, NEW t \in tasks, ComputedQuery(t)
  PROVE  Rounds'
<1>1. /\ Types /\ LeadInv /\ Rounds /\ t.kind = "query" /\ tasks' = tasks \ {t}
      /\ UNCHANGED <<sharedVars, followerVars, epochStart, ready, tGrace>>
  BY DEF RoundInv, ComputedQuery
<1>2. CASE IsCurrent(t, committed + 1)
  <2>1. /\ Send("RoundStart", committed + 1, 0) /\ leaderPhase' = "sentRoundStart" /\ tRound' = TRUE
        /\ t.epoch = e
    BY <1>2 DEF ComputedQuery, IsCurrent
  <2>2. /\ e \in Leads /\ Free /\ ready = FALSE
        /\ \A u \in tasks : (u.kind = "query" /\ u.epoch = e) => u = t
    <3>1. e \in Leads /\ Led /\ ready \in BOOLEAN
      BY <1>1, <2>1 DEF LeadInv, Leading, Rounds, Types, Scalars
    <3> QED BY <1>1, <2>1, <3>1 DEF Led
  <2>3. committed \in Nat /\ ~SentIn("RoundStart", committed + 1)
    BY <1>1, <2>2, Numbers DEF Free, LeaderSentUpTo, SentUpTo, SentIn
  <2>4. /\ OncePerRound'
        /\ sent' = sent \cup {[type |-> "RoundStart", epoch |-> e, seqNr |-> committed + 1, observations |-> 0]}
    BY <1>1, <2>1, <2>3, SendsOnce DEF Rounds
  <2>5. sent \subseteq sent' /\ \A m \in sent' \ sent : m.type = "RoundStart"
    BY <2>4
  <2>6. Placed' /\ Signed' /\ FromSelf' /\ ProposalHasQuorum'
    <3>1. ProposalHasQuorum'
      BY <1>1, <2>5 DEF Rounds, ProposalHasQuorum
    <3> QED BY <1>1, <2>1, <2>5, <3>1, LeaderMoves
  <2>7. Led'
    <3>1. Collecting'
      <4>1. SentIn("RoundStart", committed + 1)'
        <5> DEFINE m == [type |-> "RoundStart", epoch |-> e, seqNr |-> committed + 1, observations |-> 0]
        <5>1. m \in sent' /\ m.type = "RoundStart" /\ m.epoch = e /\ m.seqNr = committed + 1
          BY <2>4
        <5> HIDE DEF m
        <5> QED BY <1>1, <5>1 DEF SentIn, sharedVars
      <4>2. SentUpTo("RoundStart", committed + 1)' /\ SentUpTo("Proposal", committed)'
        <5>1. \A m \in sent : m.epoch = e /\ m.type \in {"RoundStart", "Proposal"} => m.seqNr <= committed
          BY <2>2 DEF Free, LeaderSentUpTo, SentUpTo
        <5>2. \A m \in sent : m.epoch = e /\ m.type \in {"RoundStart", "Proposal"} => m.seqNr <= committed + 1
          BY <1>1, <2>3, <5>1, Numbers
        <5>3. committed + 1 <= committed + 1
          BY <2>3
        <5> QED BY <1>1, <2>4, <5>1, <5>2, <5>3 DEF SentUpTo, sharedVars
      <4> QED BY <1>1, <2>1, <2>2, <4>1, <4>2 DEF Free, Collecting, Reproposes, sharedVars, followerVars
    <3>2. ready' # tRound' /\ \A u \in tasks' : u.kind = "query" => u.epoch # e'
      BY <1>1, <2>1, <2>2 DEF sharedVars
    <3> QED BY <1>1, <3>1, <3>2 DEF Rounds, Led, Reproposes, sharedVars, followerVars
  <2>8. Counted'
    <3>1. ~tGrace'
      BY <1>1, <2>2 DEF Rounds, Counted, GraceAgrees, Free
    <3>2. seqNr = 0 \/ seqNr = committed + 1
      BY <1>1, <2>2 DEF Rounds, Placed, Free
    <3>3. \A u \in tasks : (u.epoch = e /\ u.kind \in {"validate", "quorum"}) => u.seqNr # seqNr
      BY <1>1, <2>2, <2>3, <3>2, Numbers DEF Rounds, Counted, Free, LeaderSentUpTo, SentUpTo, SentIn
    <3> QED BY <1>1, <2>1, <2>5, <3>1, <3>3 DEF Rounds, Counted, GraceAgrees, SentIn, sharedVars
  <2> QED BY <2>4, <2>6, <2>7, <2>8 DEF Rounds
<1>3. CASE ~IsCurrent(t, committed + 1)
  BY <1>1, <1>3, NothingHappens DEF ComputedQuery, roundVars, sharedVars, followerVars, observationVars
<1> QED BY <1>2, <1>3

LEMMA ComputedValidateRounds ==
  ASSUME RoundInv, NEW t \in tasks, ComputedValidate(t)
  PROVE  Rounds'
<1>1. /\ Types /\ Rounds /\ t.kind = "validate"
      /\ UNCHANGED <<sharedVars, followerVars, leaderPhase, epochStart, ready, tRound, tGrace, sentVars>>
  BY DEF RoundInv, ComputedValidate
<1>2. CASE IsCurrent(t, seqNr)
  <2>1. /\ verified \subseteq verified'
        /\ \A u \in tasks' \ tasks : u = Own("quorum", seqNr) /\ EnoughIn(verified', seqNr)
    BY <1>2 DEF ComputedValidate, StoreVerified, EnoughIn
  <2>2. e \in Leads /\ seqNr >= 1 /\ seqNr <= seqNr /\ SentIn("RoundStart", seqNr)
    BY <1>1, <1>2 DEF Rounds, Counted, IsCurrent
  <2>3. \A u \in tasks' \ tasks : u.kind = "quorum" /\ u.seqNr = seqNr /\ EnoughIn(verified', seqNr)
    BY <2>1 DEF Own, Task
  <2>4. Placed' /\ Signed' /\ FromSelf' /\ OncePerRound' /\ ProposalHasQuorum'
    <3>1. OncePerRound' /\ ProposalHasQuorum'
      BY <1>1 DEF Rounds, OncePerRound, ProposalHasQuorum, sentVars
    <3> QED BY <1>1, <3>1, LeaderMoves DEF sentVars
  <2>5. Led'
    BY <1>1, <2>3 DEF Rounds, Led, Free, Starting, Reproposing, Collecting, Proposed,
       Reproposes, LeaderSentUpTo, SentUpTo, SentIn, Own, Task, sharedVars, followerVars, sentVars
  <2>6. Counted'
    <3>1. EnoughIn(verified, seqNr) => EnoughIn(verified', seqNr')
      BY <1>1, <2>1, MoreIsEnough DEF sharedVars
    <3>2. EnoughIn(verified', seqNr) => EnoughIn(verified', seqNr')
      BY <1>1 DEF sharedVars
    <3> QED BY <1>1, <2>2, <2>3, <3>1, <3>2 DEF Rounds, Counted, GraceAgrees, SentIn, sharedVars, sentVars
  <2> QED BY <2>4, <2>5, <2>6 DEF Rounds
<1>3. CASE ~IsCurrent(t, seqNr)
  BY <1>1, <1>3, NothingHappens DEF ComputedValidate, roundVars, followerVars
<1> QED BY <1>2, <1>3

LEMMA ComputedQuorumRounds ==
  ASSUME RoundInv, NEW t \in tasks, ComputedQuorum(t)
  PROVE  Rounds'
<1>1. /\ Types /\ Rounds /\ t.kind = "quorum" /\ tasks' = tasks \ {t}
      /\ UNCHANGED <<sharedVars, followerVars, epochStart, ready, tRound, observationVars, sentVars>>
  BY DEF RoundInv, ComputedQuorum
<1>2. CASE leaderPhase = "sentRoundStart" /\ IsCurrent(t, seqNr)
  <2>1. leaderPhase' = "grace" /\ tGrace' = TRUE
    BY <1>2 DEF ComputedQuorum
  <2>2. seqNr >= 1 /\ EnoughIn(verified, seqNr)
    BY <1>1, <1>2 DEF Rounds, Counted, IsCurrent
  <2>3. /\ ready # tRound /\ Collecting /\ phase # "newEpoch"
        /\ \A u \in tasks : u.kind = "query" => u.epoch # e
    BY <1>2, <2>2, MidRound
  <2>4. Placed' /\ Signed' /\ FromSelf' /\ OncePerRound' /\ ProposalHasQuorum'
    <3>1. OncePerRound' /\ ProposalHasQuorum'
      BY <1>1 DEF Rounds, OncePerRound, ProposalHasQuorum, sentVars
    <3> QED BY <1>1, <2>1, <3>1, LeaderMoves DEF sentVars
  <2>5. Led'
    <3>1. Collecting'
      BY <1>1, <2>1, <2>3 DEF Collecting, SentUpTo, SentIn, sharedVars, followerVars, sentVars
    <3>2. ready' # tRound' /\ \A u \in tasks' : u.kind = "query" => u.epoch # e'
      BY <1>1, <2>3 DEF sharedVars
    <3> QED BY <1>1, <3>1, <3>2 DEF Rounds, Led, Reproposes, sharedVars, followerVars
  <2>6. Counted'
    BY <1>1, <2>1, <2>2 DEF Rounds, Counted, GraceAgrees, SentIn, EnoughIn, ValidOf,
       sharedVars, observationVars, sentVars
  <2> QED BY <2>4, <2>5, <2>6 DEF Rounds
<1>3. CASE ~(leaderPhase = "sentRoundStart" /\ IsCurrent(t, seqNr))
  BY <1>1, <1>3, NothingHappens DEF ComputedQuorum, roundVars, followerVars, observationVars
<1> QED BY <1>2, <1>3

LEMMA TGraceTimeoutRounds ==
  ASSUME RoundInv, TGraceTimeout
  PROVE  Rounds'
<1> DEFINE n == Cardinality(ValidOf(verified, seqNr))
<1>1. /\ Types /\ Rounds /\ leaderPhase = "grace" /\ leaderPhase' = "sentProposal" /\ tGrace' = FALSE
      /\ Send("Proposal", seqNr, n)
      /\ UNCHANGED <<sharedVars, followerVars, epochStart, ready, tRound, tasks>>
  BY DEF RoundInv, Rounds, Counted, GraceAgrees, TGraceTimeout
<1>2. n >= ObservationQuorum
  BY <1>1 DEF Rounds, Counted, EnoughIn
<1>3. /\ e \in Leads /\ ready # tRound /\ Collecting
      /\ \A t \in tasks : t.kind = "query" => t.epoch # e
  BY <1>1, MidRound
<1> HIDE DEF n
<1>4. /\ phase \in {"newRound", "backgroundObservation", "sentObservation"}
      /\ seqNr = committed + 1 /\ committed \in Nat
  BY <1>1, <1>3, Numbers DEF Collecting, Rounds, Placed
<1>5. ~SentIn("Proposal", seqNr)
  BY <1>1, <1>3, <1>4, Numbers DEF Collecting, SentUpTo, SentIn
<1>6. /\ OncePerRound'
      /\ sent' = sent \cup {[type |-> "Proposal", epoch |-> e, seqNr |-> seqNr, observations |-> n]}
  BY <1>1, <1>5, SendsOnce DEF Rounds
<1>7. Placed' /\ Signed' /\ FromSelf' /\ ProposalHasQuorum'
  <2>1. sent \subseteq sent' /\ \A m \in sent' \ sent : m.type = "Proposal" /\ m.observations = n
    BY <1>6
  <2>2. ProposalHasQuorum'
    BY <1>1, <1>2, <2>1 DEF Rounds, ProposalHasQuorum
  <2> QED BY <1>1, <2>1, <2>2, LeaderMoves
<1>8. Led'
  <2>1. Proposed'
    <3>1. \A m \in sent : m.epoch = e /\ m.type \in {"RoundStart", "Proposal"} => m.seqNr <= seqNr
      BY <1>1, <1>3, <1>4, Numbers DEF Collecting, SentUpTo
    <3>2. seqNr <= seqNr
      BY <1>4
    <3>3. LeaderSentUpTo(seqNr)'
      BY <1>1, <1>6, <3>1, <3>2 DEF LeaderSentUpTo, SentUpTo, sharedVars
    <3> QED BY <1>1, <1>4, <3>3 DEF Proposed, sharedVars, followerVars
  <2>2. ready' # tRound' /\ \A t \in tasks' : t.kind = "query" => t.epoch # e'
    BY <1>1, <1>3 DEF sharedVars
  <2> QED BY <1>1, <2>1, <2>2 DEF Rounds, Led, Reproposes, sharedVars, followerVars
<1>9. Counted'
  <2>1. sent \subseteq sent'
    BY <1>6
  <2> QED BY <1>1, <2>1 DEF Rounds, Counted, GraceAgrees, SentIn, sharedVars
<1> QED BY <1>6, <1>7, <1>8, <1>9 DEF Rounds

-----------------------------------------------------------------------------
(* The theorems about rounds *)

LEMMA RoundsStep ==
  ASSUME DBFails = FALSE, RoundInv, [Next]_vars
  PROVE  Rounds'
<1>1. CASE UNCHANGED vars
  BY <1>1, NothingHappens DEF RoundInv, vars, roundVars, followerVars, leaderVars, observationVars
<1>2. CASE TInitialTimeout
  BY <1>2, NothingHappens DEF RoundInv, TInitialTimeout, roundVars, leaderVars, observationVars
<1>3. CASE \E t \in tasks : PluginFails(t)
  BY <1>3, NothingHappens DEF RoundInv, PluginFails, roundVars, followerVars, leaderVars, observationVars
<1>4. CASE \E c \in Certs, written \in BOOLEAN : LeadEpoch(c, written) \/ FollowEpoch(c, written)
  BY <1>4, LeadEpochRounds, ReproposeRounds, FollowEpochRounds
<1>5. CASE seqNr <= MaxSeqNr /\ \E written \in BOOLEAN : FinishRound(written)
  BY <1>5, FinishRoundRounds
<1>6. CASE \E s \in Nr : RoundStart(s) \/ Proposal(s)
  BY <1>6, RoundStartRounds, ProposalRounds
<1>7. CASE \E t \in tasks :
             \/ ComputedObservation(t) \/ ComputedOutcome(t)
             \/ ComputedQuery(t) \/ ComputedValidate(t) \/ ComputedQuorum(t)
  BY <1>7, ComputedObservationRounds, ComputedOutcomeRounds, ComputedQueryRounds,
     ComputedValidateRounds, ComputedQuorumRounds
<1> QED
  BY <1>1, <1>2, <1>3, <1>4, <1>5, <1>6, <1>7, NewEpochStartRounds, LockRounds, TRoundTimeoutRounds,
     ObservationRounds, TGraceTimeoutRounds DEF Next

LEMMA RoundInvariant == ASSUME DBFails = FALSE PROVE Spec => []RoundInv
<1>1. Init => RoundInv
  BY TypesInit, LeadInit, RoundsInit DEF RoundInv
<1>2. RoundInv /\ [Next]_vars => RoundInv'
  BY TypesStep, LeadStep, RoundsStep DEF RoundInv
<1> QED BY <1>1, <1>2, PTL DEF Spec

\* Where the database takes every write, an oracle signs at most one observation
\* and one prepare in a round, and a leader starts a round and proposes in it once:
\* no late event of the plugin, no timer of an epoch before and no second start of
\* the leader's round makes it do so again.
THEOREM SignsOnce == ASSUME DBFails = FALSE PROVE Spec => []OncePerRound
<1>1. RoundInv => OncePerRound
  BY DEF RoundInv, Rounds
<1> QED BY <1>1, RoundInvariant, PTL

\* An honest leader's proposal has a quorum of observations that were found valid in
\* the round it proposes for, although pool entries are reaped and results come late.
THEOREM ProposalsHaveQuorums == ASSUME DBFails = FALSE PROVE Spec => []ProposalHasQuorum
<1>1. RoundInv => ProposalHasQuorum
  BY DEF RoundInv, Rounds
<1> QED BY <1>1, RoundInvariant, PTL

\* TGrace runs only while the leader is in its grace phase.
THEOREM GraceIsInItsPhase == ASSUME DBFails = FALSE PROVE Spec => []GraceAgrees
<1>1. RoundInv => GraceAgrees
  BY DEF RoundInv, Rounds, Counted
<1> QED BY <1>1, RoundInvariant, PTL
=============================================================================
