------------------------ MODULE GovernanceProperties ------------------------
(***************************************************************************)
(* What must be true of Governance.                                        *)
(***************************************************************************)
EXTENDS Governance

(* Every variable has its type. *)
TypeOK ==
  /\ activeBips \in Seq(BipId)
  /\ bipIndex \in 0..MaxBips
  /\ bips \in [BipId -> Bip]
  /\ voted \in [BipId -> SUBSET Account]
  /\ votedUntil \in [Account -> 0..MaxSeason]
  /\ proposedUntil \in [Account -> 0..MaxSeason]
  /\ roots \in [Account -> 0..MaxRoots]
  /\ totalRoots \in Nat
  /\ season \in 1..MaxSeason
  /\ now \in 0..MaxTime
  /\ seasonStart \in Nat
  /\ paused \in BOOLEAN
  /\ pausedAt \in 0..MaxTime
  /\ oracleInitialized \in BOOLEAN
  /\ frames \in Seq(Frame)
  /\ diamond \in Seq(BipId)
  /\ rewards \in [BipId -> Seq(Nat)]

Created(b) == b < bipIndex

-----------------------------------------------------------------------------
(* Safety.                                                                 *)

(* The swap-and-pop of endBip (Bip.sol:105) neither loses nor repeats a    *)
(* BIP: the list has no duplicates and no executed BIP, and every BIP that *)
(* is nominated and in its term is on it.  While the sunrise has no term   *)
(* left to end, it has nothing else on it.                                 *)
ActiveListExact ==
  /\ \A i, j \in DOMAIN activeBips : activeBips[i] = activeBips[j] => i = j
  /\ \A b \in Listed : IsNominated(b)
  /\ \A b \in BipId : IsNominated(b) /\ IsActive(b) => b \in Listed

(* The running sum that recordVote and unrecordVote keep is, for every BIP *)
(* still listed, the roots its voters have at this moment: unvoting takes  *)
(* off exactly what was put on, whatever the account did in between.       *)
TallyExact == \A b \in Listed : bips[b].roots = RootsOf(voted[b])

(* Whoever has voted for a listed BIP stays locked until its term is over, *)
(* although updateVotedUntil recomputes the lock from the active list on   *)
(* every unvote: no account votes and moves its roots to vote again.       *)
VotersLocked ==
  \A b \in Listed : \A a \in voted[b] : votedUntil[a] >= EndOf(b)

(* The proposer of a listed BIP has voted for it and cannot take that vote *)
(* back by any of unvote, unvoteAll and voteUnvoteAll; its proposal lock   *)
(* lasts as long.                                                          *)
ProposerCommitted ==
  \A b \in Listed : LET a == bips[b].proposer
                    IN  a \in voted[b] /\ proposedUntil[a] >= EndOf(b)

(* No vote share exceeds the whole, while the BIP is listed and as endBip  *)
(* froze it: Decimal.ratio never returns more than one.                    *)
TallyBounded ==
  \A b \in BipId : bips[b].roots <= IF b \in Listed THEN totalRoots
                                    ELSE bips[b].endTotalRoots

(* An executed BIP keeps for ever a tally that is the required share of    *)
(* all roots at the time it ended, whichever of commit, emergencyCommit    *)
(* and pauseOrUnpause executed it.                                         *)
ExecutedHadMajority ==
  \A b \in BipId : bips[b].executed =>
    /\ bips[b].endTotalRoots > 0
    /\ bips[b].roots * Base >= bips[b].endTotalRoots * PassThreshold

(* Executing hands control to the init contract between the executed mark  *)
(* and the incentive (GovernanceFacet.sol:204).  However calls nest, each  *)
(* executed BIP has one incentive, minted or still to come from the one    *)
(* execution that waits, and its cut, if it has one, reached the diamond   *)
(* once; a BIP that is not executed has neither, nor has a pauseOrUnpause, *)
(* which executes a BIP without its cut, changed the diamond.              *)
ExecutedOnce ==
  \A b \in BipId :
    /\ Len(rewards[b]) + Cardinality({i \in DOMAIN frames : frames[i].bip = b})
         = IF bips[b].executed THEN 1 ELSE 0
    /\ Cardinality({i \in DOMAIN diamond : diamond[i] = b})
         = IF bips[b].executed /\ ~DiamondCutIsEmpty(b) THEN 1 ELSE 0

(* The invariant the proofs go by: what the properties above need of the   *)
(* rest of the state.  A created BIP started in a season gone by, its term *)
(* ends within the range of seasons, its proposer is an account that voted *)
(* for it; nothing is recorded about an id not handed out yet.             *)
BipsInOrder ==
  \A b \in BipId :
    IF Created(b)
    THEN /\ bips[b].start \in 1..season
         /\ EndOf(b) <= MaxSeason
         /\ bips[b].timestamp <= now
         /\ bips[b].proposer \in Account
         /\ bips[b].proposer \in voted[b]
    ELSE bips[b] = NoBip /\ voted[b] = {}

\* Only executed BIPs wait for their init contract.
FramesInOrder == \A i \in DOMAIN frames : bips[frames[i].bip].executed

\* The Silo's total is the sum over its accounts.
TotalExact == totalRoots = RootsOf(Account)

Structure ==
  TypeOK /\ BipsInOrder /\ FramesInOrder /\ TotalExact /\ ActiveListExact

(* The structure of the state and the safety of voting and of execution,   *)
(* which together are inductive.                                           *)
IndInv ==
  /\ Structure
  /\ TallyExact
  /\ VotersLocked
  /\ ProposerCommitted
  /\ TallyBounded
  /\ ExecutedHadMajority

-----------------------------------------------------------------------------
(* Steps.                                                                  *)

\* The seasons the clock had counted at time t.
SeasonTimeAt(t) ==
  IF t < seasonStart THEN 0 ELSE (t - seasonStart) \div SeasonPeriod

(* Lifting a pause puts the season clock back to where it was when the     *)
(* pause began, or one season before that (unpause rounds the time passed  *)
(* up to whole seasons); it never lets the clock run on.                   *)
PauseStopsSeasonClock ==
  [][paused /\ ~paused' =>
       SeasonTime' \in {SeasonTimeAt(pausedAt), SeasonTimeAt(pausedAt) - 1}]_vars

-----------------------------------------------------------------------------
(* Refinement.                                                             *)

PhaseOf(b) ==
  IF ~Created(b) THEN "none"
  ELSE IF b \in Listed THEN "open"
  ELSE IF bips[b].executed THEN "adopted"
  ELSE IF IsExpired(b) THEN "expired"
  ELSE "closed"

Lifecycle == INSTANCE BipLifecycle WITH
  Ballot     <- BipId,
  Share      <- PassThreshold,
  phase      <- [b \in BipId |-> PhaseOf(b)],
  tally      <- [b \in BipId |-> bips[b].roots],
  electorate <- [b \in BipId |-> bips[b].endTotalRoots]

(* Governance implements BipLifecycle.                                     *)
ImplementsLifecycle == Lifecycle!Spec

-----------------------------------------------------------------------------
(* Liveness.                                                               *)

\* Blocks keep coming, somebody calls each sunrise, sunrises end the terms
\* that are over, and the calls of init contracts return.
Fairness ==
  /\ WF_vars(Settled /\ Tick)
  /\ WF_vars(Settled /\ Sunrise)
  /\ WF_vars(\E b \in BipId : EndTerm(b))
  /\ WF_vars(Settled /\ InitReturns)

FairSpec == Spec /\ Fairness

\* Nobody has paused so far.
NeverPaused == ~paused /\ seasonStart = 0

(* As long as nobody pauses, every BIP leaves the active list.             *)
TermsEnd ==
  \A b \in BipId : b \in Listed ~> (b \notin Listed \/ ~NeverPaused)

(* However executions nest, whoever executes a BIP is paid in the end: the *)
(* execution that was interrupted by its init contract is resumed.         *)
IncentivePaid ==
  \A b \in BipId : bips[b].executed ~> (rewards[b] # <<>> \/ ~NeverPaused)
=============================================================================
