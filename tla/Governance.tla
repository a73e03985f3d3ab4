----------------------------- MODULE Governance -----------------------------
(***************************************************************************)
(* On-chain governance of Beanstalk: accounts holding roots propose,       *)
(* vote on and execute Beanstalk Improvement Proposals (BIPs).             *)
(*                                                                         *)
(* The operations are the external functions of GovernanceFacet with the   *)
(* functions of VotingBooth and Bip they call; all state lives in the      *)
(* shared AppStorage.  A transaction is one step, except that executing a  *)
(* BIP hands control to foreign code (the delegatecall to the BIP's init   *)
(* contract), which may call every operation again before the execution    *)
(* resumes: that is what the stack "frames" is for.  A transaction that    *)
(* reverts leaves no trace and is no step.                                 *)
(*                                                                         *)
(* The Silo (which changes an account's roots), the sunrise (which moves   *)
(* the season on and ends the BIPs whose term is over) and block time are  *)
(* not part of the repository.  They are external actions, written down    *)
(* from what this code expects of them.                                    *)
(***************************************************************************)
EXTENDS Integers, Sequences, FiniteSetsExt

CONSTANTS
  Account,              \* the addresses that hold roots and send transactions
  ContractOwner,        \* LibDiamond's contractOwner, one of them or nobody
  NoAccount,            \* address(0)
  Payloads,             \* the proposals accounts may submit
  Period,               \* GOVERNANCE_PERIOD, seasons a BIP can be voted on
  Expiration,           \* GOVERNANCE_EXPIRATION, seasons left to commit it
  EmergencyPeriod,      \* GOVERNANCE_EMERGENCY_PERIOD, seconds
  Base,                 \* Decimal.BASE, the fixed point of a ratio
  PassThreshold,        \* GOVERNANCE_PASS_THRESHOLD, in units of 1/Base
  ProposalThreshold,    \* GOVERNANCE_PROPOSAL_THRESHOLD, in units of 1/Base
  EmergencyNumerator,   \* GOVERNANCE_EMERGENCY_THRESHOLD_NUMERATOR
  EmergencyDenominator, \* GOVERNANCE_EMERGENCY_THRESHOLD_DENOMINATOR
  MaxPropositions,      \* MAX_PROPOSITIONS, active BIPs per proposer
  IncentiveCap,         \* the 1800 seconds of incentiveTime
  IncentiveStep,        \* and its 6 seconds per compounding step
  SeasonPeriod,         \* CURRENT_SEASON_PERIOD, seconds in a season
  MaxBips,              \* bound: BIPs ever created (the code: 2^32)
  MaxRoots,             \* bound: roots of one account (the code: 2^256 - 1)
  MaxSeason,            \* bound: last season (the code: 2^32 - 1)
  MaxTime,              \* bound: last block timestamp
  MaxFrames             \* bound: nesting of executions (the EVM: 1024)

\* What a BIP carries: facet cuts, an init address, calldata for it, and the
\* pause flag.  Contents are abstracted to whether they are there.
Payload == [facets : BOOLEAN, init : BOOLEAN, data : BOOLEAN,
            pauseOrUnpause : 0..255]

ASSUME AccountAssumption ==
  /\ IsFiniteSet(Account)
  /\ NoAccount \notin Account

ASSUME PayloadsAssumption == Payloads \subseteq Payload

ASSUME TermAssumption ==
  /\ Period \in Nat \ {0}
  /\ Expiration \in Nat
  /\ EmergencyPeriod \in Nat
  /\ MaxPropositions \in Nat \ {0}
  /\ SeasonPeriod \in Nat \ {0}
  /\ IncentiveCap \in Nat
  /\ IncentiveStep \in Nat \ {0}

\* Decimal.ratio rounds down; it divides by zero, and so reverts, for d = 0.
Ratio(n, d) == (n * Base) \div d

\* The share of all roots that executes a BIP before its term is over.
EmergencyThreshold == Ratio(EmergencyNumerator, EmergencyDenominator)

ASSUME ThresholdAssumption ==
  /\ Base \in Nat \ {0}
  /\ PassThreshold \in Nat
  /\ ProposalThreshold \in Nat
  /\ EmergencyNumerator \in Nat
  /\ EmergencyDenominator \in Nat \ {0}
  /\ PassThreshold <= EmergencyThreshold

ASSUME BoundAssumption ==
  /\ MaxBips \in Nat
  /\ MaxRoots \in Nat
  /\ MaxSeason \in Nat \ {0}
  /\ MaxTime \in Nat
  /\ MaxFrames \in Nat

VARIABLES
  activeBips,        \* s.g.activeBips, an array of BIP ids
  bipIndex,          \* s.g.bipIndex, the next id
  bips,              \* s.g.bips and s.g.diamondCuts
  voted,             \* s.g.voted, as the set of voters of each BIP
  votedUntil,        \* s.a[account].votedUntil
  proposedUntil,     \* s.a[account].proposedUntil
  roots,             \* s.a[account].roots
  totalRoots,        \* s.s.roots
  season,            \* s.season.current
  seasonStart,       \* s.season.start
  paused,            \* s.paused
  pausedAt,          \* s.pausedAt
  oracleInitialized, \* s.o.initialized
  now,               \* block.timestamp
  frames,            \* executions waiting for their init contract to return
  diamond,           \* the BIPs whose diamond cut was applied, in order
  rewards            \* for each BIP, the incentives minted for executing it,
                     \* as the number of compounding steps of each

bipVars    == <<activeBips, bipIndex, bips, voted>>
lockVars   == <<votedUntil, proposedUntil>>
siloVars   == <<roots, totalRoots>>
seasonVars == <<season, now>>
pauseVars  == <<seasonStart, paused, pausedAt, oracleInitialized>>
execVars   == <<frames, diamond, rewards>>
vars == <<bipVars, lockVars, siloVars, seasonVars, pauseVars, execVars>>

-----------------------------------------------------------------------------
(* State.                                                                  *)

BipId == 0..(MaxBips - 1)

EmptyPayload ==
  [facets |-> FALSE, init |-> FALSE, data |-> FALSE, pauseOrUnpause |-> 0]

NoBip ==
  [proposer |-> NoAccount, start |-> 0, executed |-> FALSE,
   payload |-> EmptyPayload, timestamp |-> 0, roots |-> 0,
   endTotalRoots |-> 0]

Bip ==
  [proposer : Account \cup {NoAccount}, start : Nat, executed : BOOLEAN,
   payload : Payload, timestamp : Nat, roots : Nat, endTotalRoots : Nat]

Frame == [bip : BipId, ended : BOOLEAN]

\* The BIPs on the active list.
Listed == Range(activeBips)

\* The first season in which the BIP can no longer be voted on.
EndOf(b) == bips[b].start + Period

\* Bug: an executed BIP can be executed again.
IsNominatedForEver(b) == bips[b].start > 0

IsNominated(b) == bips[b].start > 0 /\ ~bips[b].executed
IsActive(b)    == season < EndOf(b)
IsExpired(b)   == season > EndOf(b) + Expiration

\* No cut and no init address: only such a BIP may pause without delay.
DiamondCutIsEmpty(b) == ~bips[b].payload.facets /\ ~bips[b].payload.init

\* compareTo of bipVotePercent with the emergency threshold.
HasSuperMajority(b) ==
  /\ totalRoots > 0
  /\ Ratio(bips[b].roots, totalRoots) >= EmergencyThreshold

\* compareTo of endedBipVotePercent with the pass threshold.
HasMajority(b) ==
  /\ bips[b].endTotalRoots > 0
  /\ Ratio(bips[b].roots, bips[b].endTotalRoots) >= PassThreshold

CanPropose(a) ==
  /\ totalRoots > 0
  /\ roots[a] > 0
  /\ Ratio(roots[a], totalRoots) > ProposalThreshold

ActivePropositions(a) ==
  {i \in DOMAIN activeBips : bips[activeBips[i]].proposer = a}

NotTooProposed(a) == Cardinality(ActivePropositions(a)) < MaxPropositions

IncentiveTime(b) ==
  LET time == now - bips[b].timestamp
  IN  (IF time > IncentiveCap THEN IncentiveCap ELSE time) \div IncentiveStep

\* The roots of the accounts of A together, counted one by one.
Units(A, f) == {u \in A \X (1..MaxRoots) : u[2] <= f[u[1]]}
RootsOf(A)  == Cardinality(Units(A, roots))

Init ==
  /\ activeBips = <<>>
  /\ bipIndex = 0
  /\ bips = [b \in BipId |-> NoBip]
  /\ voted = [b \in BipId |-> {}]
  /\ votedUntil = [a \in Account |-> 0]
  /\ proposedUntil = [a \in Account |-> 0]
  /\ roots \in [Account -> 0..MaxRoots]
  /\ totalRoots = RootsOf(Account)
  /\ season = 1
  /\ now = 0
  /\ seasonStart = 0
  /\ paused = FALSE
  /\ pausedAt = 0
  /\ oracleInitialized = TRUE
  /\ frames = <<>>
  /\ diamond = <<>>
  /\ rewards = [b \in BipId |-> <<>>]

-----------------------------------------------------------------------------
(* Proposing.                                                              *)

\* createBip, then proposedUntil, then the proposer's own vote.  The season the
\* term ends in is a uint32 sum, and the transaction reverts when it overflows.
Propose(a, p) ==
  /\ CanPropose(a)
  /\ NotTooProposed(a)
  /\ p.init \/ p.facets \/ p.pauseOrUnpause > 0
  /\ p.init \/ ~p.data
  /\ bipIndex < MaxBips
  /\ season + Period <= MaxSeason
  /\ LET b   == bipIndex
         end == season + Period
     IN  /\ bipIndex' = bipIndex + 1
         /\ bips' = [bips EXCEPT ![b] =
              [@ EXCEPT !.start = season, !.timestamp = now, !.proposer = a,
                        !.payload = p, !.roots = bips[b].roots + roots[a]]]
         /\ activeBips' = Append(activeBips, b)
         /\ voted' = [voted EXCEPT ![b] = @ \cup {a}]
         /\ proposedUntil' = [proposedUntil EXCEPT ![a] = end]
         /\ votedUntil' = [votedUntil EXCEPT ![a] = IF end > @ THEN end ELSE @]
  /\ UNCHANGED <<siloVars, seasonVars, pauseVars, execVars>>

-----------------------------------------------------------------------------
(* Voting.  The list functions take an array of ids and revert when one    *)
(* entry does.  A repeated id makes voteAll and unvoteAll revert, so B is  *)
(* the set of the ids of the list.                                         *)

\* Bug: a BIP can be voted on after its term.
CanVoteOnEnded(b) == IsNominated(b)

CanVoteOn(b) == IsNominated(b) /\ IsActive(b)

\* recordVote for every BIP of the set.
RecordVotes(a, B) ==
  /\ bips' = [b \in BipId |->
       IF b \in B THEN [bips[b] EXCEPT !.roots = @ + roots[a]] ELSE bips[b]]
  /\ voted' = [b \in BipId |->
       IF b \in B THEN voted[b] \cup {a} ELSE voted[b]]

\* Bug: the lock is that of the last BIP voted on.
PlaceLastLock(a, B) ==
  votedUntil' = [votedUntil EXCEPT ![a] = Max({0} \cup {EndOf(b) : b \in B})]

\* placeVotedUntil and the lock kept by voteAll: the latest end so far.
PlaceVotedUntil(a, B) ==
  votedUntil' = [votedUntil EXCEPT ![a] = Max({@} \cup {EndOf(b) : b \in B})]

\* updateVotedUntil: recomputed from the active BIPs the account votes for
\* once the call's own votes and unvotes are recorded.
UpdateVotedUntil(a) ==
  votedUntil' = [votedUntil EXCEPT ![a] =
    Max({0} \cup {EndOf(b) : b \in {c \in Listed : a \in voted'[c]}})]

Vote(a, b) ==
  /\ roots[a] > 0
  /\ CanVoteOn(b)
  /\ a \notin voted[b]
  /\ RecordVotes(a, {b})
  /\ PlaceVotedUntil(a, {b})
  /\ UNCHANGED <<activeBips, bipIndex, proposedUntil, siloVars, seasonVars,
                 pauseVars, execVars>>

VoteAll(a, B) ==
  /\ roots[a] > 0
  /\ \A b \in B : CanVoteOn(b) /\ a \notin voted[b]
  /\ RecordVotes(a, B)
  /\ PlaceVotedUntil(a, B)
  /\ UNCHANGED <<activeBips, bipIndex, proposedUntil, siloVars, seasonVars,
                 pauseVars, execVars>>

\* Bug: a proposer can take back the vote for its own BIP.
CanUnvoteOwn(a, b) == CanVoteOn(b) /\ a \in voted[b] /\ bips[b].roots >= roots[a]

\* What unvote requires of each BIP; the last conjunct is SafeMath's sub.
CanUnvote(a, b) ==
  /\ CanVoteOn(b)
  /\ a \in voted[b]
  /\ bips[b].proposer # a
  /\ bips[b].roots >= roots[a]

\* unrecordVote for every BIP of the set.
UnrecordVotes(a, B) ==
  /\ bips' = [b \in BipId |->
       IF b \in B THEN [bips[b] EXCEPT !.roots = @ - roots[a]] ELSE bips[b]]
  /\ voted' = [b \in BipId |->
       IF b \in B THEN voted[b] \ {a} ELSE voted[b]]

Unvote(a, b) ==
  /\ roots[a] > 0
  /\ CanUnvote(a, b)
  /\ UnrecordVotes(a, {b})
  /\ UpdateVotedUntil(a)
  /\ UNCHANGED <<activeBips, bipIndex, proposedUntil, siloVars, seasonVars,
                 pauseVars, execVars>>

UnvoteAll(a, B) ==
  /\ roots[a] > 0
  /\ \A b \in B : CanUnvote(a, b)
  /\ UnrecordVotes(a, B)
  /\ UpdateVotedUntil(a)
  /\ UNCHANGED <<activeBips, bipIndex, proposedUntil, siloVars, seasonVars,
                 pauseVars, execVars>>

\* Bug: the branches of voteUnvoteAll swapped.
ToggleVotesSwapped(a, B) ==
  /\ bips' = [b \in BipId |->
       IF b \notin B THEN bips[b]
       ELSE IF a \in voted[b] THEN [bips[b] EXCEPT !.roots = @ + roots[a]]
       ELSE [bips[b] EXCEPT !.roots = @ - roots[a]]]
  /\ voted' = [b \in BipId |->
       IF b \notin B THEN voted[b]
       ELSE (voted[b] \ {a}) \cup ({a} \ voted[b])]

\* Flips the account's vote on every BIP of the set.  (An id listed twice is
\* flipped back, so B is the set of ids listed an odd number of times.)
ToggleVotes(a, B) ==
  /\ bips' = [b \in BipId |->
       IF b \notin B THEN bips[b]
       ELSE IF a \in voted[b] THEN [bips[b] EXCEPT !.roots = @ - roots[a]]
       ELSE [bips[b] EXCEPT !.roots = @ + roots[a]]]
  /\ voted' = [b \in BipId |->
       IF b \notin B THEN voted[b]
       ELSE (voted[b] \ {a}) \cup ({a} \ voted[b])]

VoteUnvoteAll(a, B) ==
  /\ roots[a] > 0
  /\ \A b \in B : CanVoteOn(b) /\ (a \in voted[b] => CanUnvote(a, b))
  /\ ToggleVotes(a, B)
  /\ UpdateVotedUntil(a)
  /\ UNCHANGED <<activeBips, bipIndex, proposedUntil, siloVars, seasonVars,
                 pauseVars, execVars>>

-----------------------------------------------------------------------------
(* Pausing.                                                                *)

\* pause() returns at once when already paused.
Pause ==
  \/ /\ paused
     /\ UNCHANGED pauseVars
  \/ /\ ~paused
     /\ paused' = TRUE
     /\ oracleInitialized' = FALSE
     /\ pausedAt' = now
     /\ UNCHANGED seasonStart

\* Bug: the time passed is rounded down.
UnpauseRoundingDown ==
  \/ ~paused /\ UNCHANGED pauseVars
  \/ /\ paused
     /\ seasonStart <= MaxTime
     /\ paused' = FALSE
     /\ seasonStart' =
          seasonStart + ((now - pausedAt) \div SeasonPeriod) * SeasonPeriod
     /\ UNCHANGED <<pausedAt, oracleInitialized>>

\* unpause() returns at once when not paused; otherwise the season clock is
\* put back by the time passed, rounded up to whole seasons.  (The bound: a
\* clock that starts after MaxTime is not put back any further.)
Unpause ==
  \/ /\ ~paused
     /\ UNCHANGED pauseVars
  \/ /\ paused
     /\ now >= pausedAt
     /\ seasonStart <= MaxTime
     /\ paused' = FALSE
     /\ seasonStart' =
          seasonStart + ((now - pausedAt) \div SeasonPeriod + 1) * SeasonPeriod
     /\ UNCHANGED <<pausedAt, oracleInitialized>>

PauseOrUnpauseBip(b) ==
  \/ bips[b].payload.pauseOrUnpause = 1 /\ Pause
  \/ bips[b].payload.pauseOrUnpause = 2 /\ Unpause
  \/ bips[b].payload.pauseOrUnpause \notin {1, 2} /\ UNCHANGED pauseVars

OwnerPause(sender) ==
  /\ sender = ContractOwner
  /\ Pause
  /\ UNCHANGED <<bipVars, lockVars, siloVars, seasonVars, execVars>>

OwnerUnpause(sender) ==
  /\ sender = ContractOwner
  /\ Unpause
  /\ UNCHANGED <<bipVars, lockVars, siloVars, seasonVars, execVars>>

-----------------------------------------------------------------------------
(* Ending and executing.                                                   *)

\* Bug: the last entry is dropped without taking the freed place.
DropLast(s, b) == SubSeq(s, 1, Len(s) - 1)

\* Bug: the last entry takes the freed place but stays.
SwapWithoutPop(s, b) ==
  [i \in DOMAIN s |-> IF s[i] = b THEN s[Len(s)] ELSE s[i]]

\* endBip's removal from the array: the last entry takes the freed place.
SwapRemove(s, b) ==
  LET k == CHOOSE i \in DOMAIN s : s[i] = b
      n == Len(s)
  IN  [i \in 1..(n - 1) |-> IF i = k THEN s[n] ELSE s[i]]

\* Bug: the total is not recorded.
EndedWithoutTotal(b) == [bips[b] EXCEPT !.timestamp = now]

EndedBip(b) ==
  [bips[b] EXCEPT !.timestamp = now, !.endTotalRoots = totalRoots]

\* endBip (which runs off the array, and reverts, for a BIP not listed)
\* unless the BIP has ended already; then the executed mark.
MarkExecuted(b, ended) ==
  \/ /\ ended
     /\ bips' = [bips EXCEPT ![b].executed = TRUE]
     /\ UNCHANGED activeBips
  \/ /\ ~ended
     /\ b \in Listed
     /\ bips' = [bips EXCEPT ![b] = [EndedBip(b) EXCEPT !.executed = TRUE]]
     /\ activeBips' = SwapRemove(activeBips, b)

\* Bug: the incentive that is not compounded is forgotten.
FinishCompoundedOnly(b, ended) ==
  /\ PauseOrUnpauseBip(b)
  /\ rewards' = IF ended THEN [rewards EXCEPT ![b] = Append(@, IncentiveTime(b))]
                ELSE rewards

\* What _execute does once the cut is done: the pause flag, then the
\* incentive, compounded only when the BIP had run its term.
FinishExecution(b, ended) ==
  /\ PauseOrUnpauseBip(b)
  /\ rewards' = [rewards EXCEPT ![b] =
       Append(@, IF ended THEN IncentiveTime(b) ELSE 0)]

\* _execute.  An init contract gets control after the cut is applied: the
\* rest of the execution waits for it in a frame.
Execute(b, ended, cut) ==
  /\ MarkExecuted(b, ended)
  /\ \/ /\ ~cut \/ DiamondCutIsEmpty(b)
        /\ FinishExecution(b, ended)
        /\ UNCHANGED <<frames, diamond>>
     \/ /\ cut /\ bips[b].payload.facets /\ ~bips[b].payload.init
        /\ diamond' = Append(diamond, b)
        /\ FinishExecution(b, ended)
        /\ UNCHANGED frames
     \/ /\ cut /\ bips[b].payload.init
        /\ bips[b].payload.data
        /\ Len(frames) < MaxFrames
        /\ diamond' = Append(diamond, b)
        /\ frames' = Append(frames, [bip |-> b, ended |-> ended])
        /\ UNCHANGED <<pauseVars, rewards>>
  /\ UNCHANGED <<bipIndex, voted, lockVars, siloVars, seasonVars>>

\* The delegatecall of the innermost execution returns.
InitReturns ==
  /\ frames # <<>>
  /\ LET f == frames[Len(frames)]
     IN  FinishExecution(f.bip, f.ended)
  /\ frames' = SubSeq(frames, 1, Len(frames) - 1)
  /\ UNCHANGED <<bipVars, lockVars, siloVars, seasonVars, diamond>>

\* The season it expires in is a uint32 sum as well.
Commit(b) ==
  /\ IsNominated(b)
  /\ EndOf(b) + Expiration <= MaxSeason
  /\ ~IsActive(b)
  /\ ~IsExpired(b)
  /\ HasMajority(b)
  /\ Execute(b, TRUE, TRUE)

NotTooEarly(b) == now >= bips[b].timestamp + EmergencyPeriod

EmergencyCommit(b) ==
  /\ IsNominated(b)
  /\ NotTooEarly(b)
  /\ IsActive(b)
  /\ HasSuperMajority(b)
  /\ Execute(b, FALSE, TRUE)

PauseOrUnpause(b) ==
  /\ IsNominated(b)
  /\ DiamondCutIsEmpty(b)
  /\ IsActive(b)
  /\ HasSuperMajority(b)
  /\ Execute(b, FALSE, FALSE)

-----------------------------------------------------------------------------
(* External actions.                                                       *)

\* The Silo adds roots.  unrecordVote takes the balance of the moment off a
\* tally, so the Silo must keep the tallies the account is part of in step.
SiloDeposit(a, n) ==
  /\ roots[a] + n <= MaxRoots
  /\ roots' = [roots EXCEPT ![a] = @ + n]
  /\ totalRoots' = totalRoots + n
  /\ bips' = [b \in BipId |->
       IF b \in Listed /\ a \in voted[b]
       THEN [bips[b] EXCEPT !.roots = @ + n] ELSE bips[b]]
  /\ UNCHANGED <<activeBips, bipIndex, voted, lockVars, seasonVars, pauseVars,
                 execVars>>

\* The Silo takes roots off, never while votedUntil locks the account.
SiloWithdraw(a, n) ==
  /\ roots[a] >= n
  /\ season >= votedUntil[a]
  /\ roots' = [roots EXCEPT ![a] = @ - n]
  /\ totalRoots' = totalRoots - n
  /\ UNCHANGED <<bipVars, lockVars, seasonVars, pauseVars, execVars>>

\* Seasons the clock has counted since seasonStart.
SeasonTime ==
  IF now < seasonStart THEN 0 ELSE (now - seasonStart) \div SeasonPeriod

\* The sunrise moves on by a season, unless paused, when the clock allows.
\* It also takes a fresh price from the oracle.
Sunrise ==
  /\ ~paused
  /\ season <= SeasonTime
  /\ season < MaxSeason
  /\ season' = season + 1
  /\ oracleInitialized' = TRUE
  /\ UNCHANGED <<bipVars, lockVars, siloVars, now, seasonStart, paused,
                 pausedAt, execVars>>

\* Still within the sunrise: endBip for a BIP whose term is over.
EndTerm(b) ==
  /\ b \in Listed
  /\ ~IsActive(b)
  /\ bips' = [bips EXCEPT ![b] = EndedBip(b)]
  /\ activeBips' = SwapRemove(activeBips, b)
  /\ UNCHANGED <<bipIndex, voted, lockVars, siloVars, seasonVars, pauseVars,
                 execVars>>

\* A later block; a transaction sees one block time only.
Tick ==
  /\ frames = <<>>
  /\ now < MaxTime
  /\ now' = now + 1
  /\ UNCHANGED <<bipVars, lockVars, siloVars, season, pauseVars, execVars>>

-----------------------------------------------------------------------------

\* The sunrise has ended every BIP whose term is over.
Settled == \A b \in Listed : IsActive(b)

\* A sunrise ends the terms that are over before anybody else acts.
Next ==
  \/ \E b \in BipId : EndTerm(b)
  \/ \E a \in Account :
       \/ \E p \in Payloads : Settled /\ Propose(a, p)
       \/ \E b \in BipId : Settled /\ Vote(a, b)
       \/ \E b \in BipId : Settled /\ Unvote(a, b)
       \/ \E B \in SUBSET BipId : Settled /\ VoteAll(a, B)
       \/ \E B \in SUBSET BipId : Settled /\ UnvoteAll(a, B)
       \/ \E B \in SUBSET BipId : Settled /\ VoteUnvoteAll(a, B)
       \/ Settled /\ OwnerPause(a)
       \/ Settled /\ OwnerUnpause(a)
       \/ \E n \in 1..MaxRoots : Settled /\ SiloDeposit(a, n)
       \/ \E n \in 1..MaxRoots : Settled /\ SiloWithdraw(a, n)
  \/ \E b \in BipId :
       \/ Settled /\ Commit(b)
       \/ Settled /\ EmergencyCommit(b)
       \/ Settled /\ PauseOrUnpause(b)
  \/ Settled /\ InitReturns
  \/ Settled /\ Sunrise
  \/ Settled /\ Tick

Spec == Init /\ [][Next]_vars
=============================================================================
