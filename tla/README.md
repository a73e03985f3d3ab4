# OCR3, Beanstalk governance and its diamond: specification and proofs

The repository is a set of security challenges around deployed contracts, and
it keeps their dependencies in the tree. Two parts of it have state and
behaviour whose correctness depends on the order of things, and these are
modelled:

* **OCR3**, the consensus protocol of the oracles, in Go, under
  `src/lib/libocr/offchainreporting2plus/internal/ocr3/protocol/`: outcome
  generation, pacemaker and report attestation. An epoch has a leader; in rounds
  of it the oracles agree on outcomes with Byzantine quorums; outcomes are turned
  into reports that enough oracles sign.
* **Beanstalk governance** and the **diamond** it upgrades, in Solidity, under
  `src/src/magic-beans/`: proposals (BIPs), votes weighted by Silo roots,
  execution by a delegatecall, and the function tables of `LibDiamond`.

The two have nothing to do with each other. Paths below are relative to
`src/lib/libocr/offchainreporting2plus/internal/ocr3/protocol/` for Go and to
`src/src/magic-beans/` for Solidity. Governance exists in two copies,
`original/` and `modified/`, which differ in import paths, in the contract's name
and in one constant (`C.sol:45`, `GOVERNANCE_EMERGENCY_PERIOD`, 86400 and 0).
The constant is a parameter of the model; the lines in `PROJECT.json` are those
of `modified/`, and of `original/` for what is only there.

## Inventory

| Component | State | Operations | Hard behaviour | What makes it correct |
|---|---|---|---|---|
| outcome generation (`outcome_generation*.go`, `signed_data.go`, `pool/`) | epoch, round, phases, pools, the certificate on disk | start of an epoch, round start, observation, proposal, prepare, commit, timers, plugin events | lost and reordered messages, faulty oracles, crashes, writes that fail, background calls that come back late | one sequence of outcomes without gaps; what is committed is locked by a quorum |
| pacemaker (`pacemaker.go`) | epoch, highest wish, wishes received, `PacemakerState` on disk | wish for, join and switch to an epoch; three timers | wishes lost, late and forged; restarts; writes that fail | epochs are taken one by one, each wanted by more than F honest oracles; whose writes succeed takes nothing back; failed leaders are left |
| report attestation (`report_attestation.go`) | a map of rounds, the highest numbers attested and signed for | outcome, computed reports, signatures, fetch of a missed outcome, reaping | any order of the three inputs of a round; a round reaped and opened again; requests sent once | reports attested once, memory bounded, a signed round ends |
| oracle (`oracle.go`, the database) | what is on disk | restart, dispatch to the three above | crash between a write and a message | see above |
| `GovernanceFacet.sol`, `VotingBooth.sol`, `Bip.sol`, `AppStorage.sol` | BIPs, votes, locks, the active list, the pause flag | `propose`, `vote`, `voteAll`, `unvote`, `unvoteAll`, `voteUnvoteAll`, `commit`, `emergencyCommit`, `pauseOrUnpause`, `ownerPause`, `ownerUnpause` | running sums taken off at a later balance, swap-and-pop, a field with two meanings, an execution that hands control to foreign code | tallies exact, voters locked, each BIP executed once with the share it needs, cut and paid once |
| `LibDiamond.sol` | selector table, selectors of each facet, facet list | `diamondCut` and its add, replace and remove, the init call | two swap-and-pops that must agree with two position tables, nested calls that revert | tables agree, a call does all it asks for or nothing |
| `Decimal.sol`, `SafeMath.sol`, `LibSafeMath32.sol`, `C.sol` | none | share of the roots, checked arithmetic, constants | rounding, reverts | a share that passes is at least the threshold |

The oracle runs outcome generation, pacemaker and report attestation as three
goroutines with an event loop each, joined by channels: the pacemaker tells
outcome generation its epoch, outcome generation reports progress and asks for
a new epoch, and every committed outcome goes to report attestation. Governance
and the other facets of Beanstalk share one storage: governance reads what the
Silo and the season facet write, they read what governance writes. These facets
are not in the repository and are external actions.

## Modules

| Module | Contents |
|---|---|
| `OutcomeGeneration` | the consensus of all oracles across epochs, from the start of an epoch to the commit |
| `OutcomeRound` | the event loop of one oracle: every handler, timer and background call of a round |
| `Pacemaker` | the pacemakers of all oracles |
| `ReportAttestation` | the attestation of all oracles of interest |
| `Governance` | one action per external function, the external actions |
| `BipLifecycle` | the abstract life of a BIP: none, open, closed, adopted or expired |
| `Diamond` | the function tables, one action per selector of `diamondCut` |
| `FunctionRouting` | what a diamond promises: a map changed by nested transactions |
| `XProperties` | for each of them: type invariant, safety, step properties, refinement, fairness and liveness |
| `XMC` | the constants of the small instances |
| `GovernanceProofs`, `GovernanceLifecycleProofs`, `DiamondProofs`, `OutcomeGenerationProofs`, `OutcomeEpochProofs`, `OutcomeRoundProofs`, `PacemakerProofs`, `ReportAttestationProofs` | the proofs |

A definition whose comment begins with "Bug:" is not part of a model. It is a
plausible mistake in the operator that follows it; put in that operator's place
it makes a property fail, which shows that the property depends on the code.

### The network, signatures and faults (OCR3)

The network is the set of all messages ever sent. An oracle may read a message
late, never, repeatedly and in any order; this covers loss, reordering, the
buffers for later epochs (`messagebuffer.go`), the bounded pools and what
`networking/` and `ragep2p/` do below. A signature is a message that was sent;
a certificate is valid if a quorum of its signatures were. Faulty oracles send
anything: instead of adding their messages to the set, every handler accepts
from them what it could accept. What an oracle sends to itself (`sendToSelf`)
stays in memory and is lost by a restart.

### OutcomeGeneration

Between the start of an epoch and the proposal of a round nothing is signed that
later steps rely on, so this module takes the steps up to the proposal as one
(`Propose`) and from the proposal to the signed prepare as one
(`HandleProposal`); `OutcomeRound` has them one by one. `LeadEpoch` is
`messageEpochStartRequest`, `FollowEpoch` and `Repropose` are the two branches of
`messageEpochStart`, `Lock` is `tryProcessPreparePool`, `FinishRound`
`tryProcessCommitPool`.

* An outcome is the sequence of what all rounds so far contributed, so that its
  prefix is the outcome it was built on and its length its sequence number.
* `cert` is the certificate in memory and on disk: `Lock` writes it before the
  commit is signed, and a failed write of a lock leaves the state as it was. A
  failed write of a commit does not, and is a parameter (`FailingDB`).
* `cached` is what the pools hold when a round starts again without having been
  reaped: signatures once verified are not verified for the new outcome.
* `Restart` keeps `cert` and the epoch of the pacemaker and forgets the rest; the
  pacemaker's own writes, and their failures, are in `Pacemaker`.

### OutcomeRound

One oracle with the events it may get at any time. `tasks` are the plugin calls
in the background with the epoch and sequence number they were started for; one
may come back when the round, phase or epoch is another. The context of tasks
of an earlier epoch is cancelled, but an event that is ready by then is taken.
Timers are flags: set and not fired. `Observation` from anybody and leaders
other than this oracle send whatever they like.

### Pacemaker

`RequestNewEpoch` is `eventNewEpochRequest`, reached from the progress timer and
from outcome generation, whose request carries no epoch; `NewEpochWish` is
`messageNewEpochWish`, which can wish, switch or both. `disk` is the
`PacemakerState`: it is written before the wish is sent. The code only logs a write
that fails and goes on with wish and epoch in memory: `written` says whether the
write succeeded, and it may fail at the oracles of `FailingDB`. `Restored` is what a
restart then takes from the disk. An oracle that wishes for less than it once
sent, because it restarted behind a failed write, is `Forgetful`; to the others it is
like a faulty one, and `EpochSupported` counts it among the F.

### ReportAttestation

One number stands for an outcome and its reports. `Local` oracles run the code,
`Remote` ones only send what a correct oracle sends, which keeps the state small.
A round is the record of the map's entry; `NoRound` is a number not in the map.
`scheduled` are the events of the fetch, `computing` the background
computations. `panicked` marks a nil dereference, after which the process is gone.

### Governance

A transaction is atomic and leaves no trace when it reverts, so one call is one
step whose guard is the conjunction of all its `require`s, SafeMath included.
The exception is an execution whose BIP has an init contract: `Execute` pushes a
frame, `InitReturns` pops the innermost one and does the rest
(`pauseOrUnpauseBip`, `incentivize`). Between the two every operation is possible,
further executions included; only time stands still.

* `bips[b]` is `s.g.bips[b]` with `s.g.diamondCuts[b]` as its `payload`; `period`
  is the constant `Period`, as `createBip` never gets another; `voted[b]` are the
  accounts whose flag is set.
* `diamond` and `rewards` record the cuts applied and the incentives minted, the
  latter as compounding steps.
* The lists of ids of `voteAll`, `unvoteAll` and `voteUnvoteAll` are sets: for
  the first two a repeated id reverts, for the third it is flipped back.
* Roots are counted in units: `RootsOf(A)` is the cardinality of the set of units
  of `A`'s accounts, the same definition for TLC and for the proofs.
* The environment: a deposit adds roots to the account, the total and the
  tallies of listed BIPs it voted for; a withdrawal needs
  `season >= votedUntil`, the only use of the lock; a sunrise needs `~paused`,
  initializes the oracle and ends, in the same transaction (`Settled`), the terms
  that are over. Init contracts call operations and do not write governance's
  storage directly. `Bean.mint` does not fail. The overflow of `roots * BASE`
  and events are left out; a cut that reverts undoes its execution.

### Diamond

A step is one selector, because that is where the tables could leave what the
loops have read before. A call of `diamondCut` is a frame with its arguments, the
tables it would go back to (`saved`) and the locals of the loops. A `require`
that fails is `Revert`, and the caller of a nested call may go on. After its cuts
a call with an init contract may be interrupted by calls (`Call`), fail or
return. An address has code or not throughout; positions fit their `uint96`; an
action other than the three is refused by the ABI decoder.

## Runs

All runs but `diamond` have `CHECK_DEADLOCK FALSE`: epochs, sequence numbers,
seasons and BIP ids are bounded, so every behaviour stops at the bounds. `diamond`
checks deadlock: no call gets stuck.

| Run | What it checks | Bounds, and why they are enough |
|---|---|---|
| `outcome_faulty` | `TypeOK`, `PrepareUnique`, `CommitLocked`, `Agreement`, `NoGap`, `RoundFollowsCommitted`, `RoundsOfEpoch`, `LeaderProofValid` | 4 oracles of which one is faulty and leads the first epoch, F = 1, 2 contributions under symmetry, 2 epochs of one round, 2 sequence numbers: a faulty leader proposes differently to different oracles, quorums overlap in one honest oracle, and the second epoch starts from genesis, a prepare or a commit |
| `outcome_crash` | `CommitLocked` | 3 oracles, F = 0, one restarts at any moment, the database of another refuses commits: 2 epochs, so that what is locked in the first is needed in the second |
| `outcome_agreement` | finding: `Agreement` is violated | 3 oracles without faults or restarts, 3 epochs, 1 sequence number |
| `outcome_write_fails` | finding: `NoGap` is violated | 3 oracles, one failing database, 2 rounds per epoch |
| `round` | `TypeOK`, `OncePerRound`, `OnlyLeaderSends`, `ProposalHasQuorum`, `GraceAgrees` | the oracle leads epochs 1 and 3 of 3, so that timers and calls of the first can arrive in the second, which it does not lead, and in the third; quorum 2 of 3 observers, 2 rounds per epoch, 1 sequence number |
| `round_late` | finding: `NoPanic` is violated | 1 epoch, 1 round |
| `pacemaker` | `NoEpochJumped`, `EpochSupported`, `WishesDurable`, `NeverBack`, liveness `FailedLeadersLeft` | 4 oracles, one faulty that wishes for epoch 3, two that restart at any moment, of which one has a database that refuses any write, F = 1, 2 epochs: wishes and epochs are taken back at one oracle and never at the others, and the thresholds F + 1 = 2 and 2F + 1 = 3 differ from one another and from all |
| `attestation` | `AttestedOnce`, `LookaheadHolds`, liveness `SignedRoundsEnd` | a local oracle whose plugin may fail, a remote and a faulty one, F = 1, windows 0 and 1, 2 numbers: rounds expire at once and open again |
| `attestation_panic` | finding: `NoPanic` is violated | 2 oracles, F = 0, windows 1 and 1, 3 numbers |
| `voting` | `TypeOK`, `TallyExact`, `VotersLocked`, `ExecutedHadMajority`, `ActiveListExact`, `ProposerCommitted`, refinement `ImplementsLifecycle` | 2 accounts under symmetry, 2 BIPs of each at a time and 3 in all (three are listed, and they end from the first, the middle and the last place), 2 roots each, terms of 2 seasons that start apart (different locks, tallies that tie, withdrawals between votes), no nesting |
| `execution` | `ExecutedOnce`, `PauseStopsSeasonClock`, liveness `TermsEnd`, `IncentivePaid` | 1 account that is the owner, 2 BIPs with every kind of payload, executions nested 2 deep, an emergency delay of 1, seasons of 2 ticks, 4 ticks: pauses within and across seasons, every value of the pause flag |
| `diamond` | `TypeOK`, `TablesExact`, `CutApplied`, refinement `ImplementsRouting` | 2 selectors under symmetry, two facets, the diamond itself and an address without code; calls of one cut of any kind, of two cuts, and with an init contract, nested 2 deep: removal from the first and the last place, a cut that undoes or meets another, rollback of an inner call under a commit of the outer one and the reverse |

Every property of a passing run is paired in `PROJECT.json` with a plausible
mistake in the code that makes the same run fail.

### Fairness

* `Pacemaker`: as long as some honest oracle can go on, because its `select` has a
  ready channel, its timer fires or the repeated wish of another gets through
  (`tResend` sends it for ever), one of them does. This is one weak fairness
  condition for all, with none on which oracle or step comes first. The claim is
  made when restarts and progress have ended (`Settled`): the leaders fail.
* `ReportAttestation`: one weak fairness condition on all that honest oracles,
  their background work and the scheduler do; the messages of the faulty are not
  among it. Requests are sent once, so what honest oracles send to each other
  must not be lost; the code relies on that too.
* `Governance`: blocks keep coming, somebody calls each sunrise that is due (the
  protocol pays for it), a sunrise ends the terms that are over (the same
  transaction), and the call of an init contract returns (gas is finite). No
  account is assumed to vote, propose or commit. Liveness is claimed as long as
  nobody pauses, since nothing in the code makes anybody lift a pause.
* `OutcomeGeneration` has no liveness property: that an epoch with a good leader
  commits rests on durations, which the models leave out. `Diamond` has none
  either: a call runs through finitely many selectors.

## Findings

* **`outcome_agreement`.** `HighestCertifiedTimestamp.Less`
  (`signed_data.go:270`) leaves the epoch out of the comparison. Certificates
  prepared for one sequence number in different epochs tie, and the leader takes
  either, in the order of a map. In the run an outcome is prepared in epoch 1,
  another in epoch 2 and committed; epoch 3 starts from the first prepare and
  commits it. The documentation promises exactly one outcome per `SeqNr`
  (`ocr3types/plugin.go:91`). No fault is needed, only messages that are late.
* **`outcome_write_fails`.** A commit that cannot be persisted should abort the
  round (`outcome_generation_follower.go:863`), but `tryProcessCommitPool` starts
  the next round with the same number and with pools that were not reaped. The
  signatures verified there count for the new outcome.
* **`attestation_panic`.** `eventMissingOutcome` (`report_attestation.go:175`)
  dereferences the entry of a round that may have been reaped;
  `eventComputedReports` tests for that.
* **`round_late`.** After the last round of an epoch an observation that is found
  valid leads to `OutcomeCtx(seqNr)` with a committed `seqNr`
  (`outcome_generation_leader.go:409`), which panics.

Met while modelling, without a run: the comment "Must have majority." of `commit`
and the `greaterThanOrEqualTo` one half that follows it; the comment of
`removeFunctions` (`LibDiamond.sol:161`) that a function that does not exist is
passed over, which line 184 refuses; rounds of report attestation are reaped
only when one completes (`report_attestation.go:406`), so an oracle that completes
none keeps all it opens; the pacemaker restarts behind a wish it sent if the write of
it failed (`pacemaker.go:220`), although what is on disk is called
`HighestSentNewEpochWish`; after a restart an oracle starts its epoch again and
may sign a second prepare, which a faulty oracle may do as well, so that the
restarting oracles belong into the count of F. `Agreement` and `PrepareUnique` are
claimed without restarts for that reason.

## Proofs

Theorems hold for every value of the constants that the named assumptions of the
modules allow; the bounds on epochs, numbers, ids and seasons are constants too.
The assumptions are those of a configuration (N > 3F, at most F faulty, RMax at
least 1, thresholds in order).

**`OutcomeGenerationProofs`.** Without further hypothesis: `TypeOK`,
`RoundFollowsCommitted` and `CommitLocked`. The invariant `Inv`
says where everything is (`Placed`) and that whoever signed a commit has a
certificate that high on disk (`Locked`); with it a quorum of signers is a quorum
of holders. If no database refuses writes (`FailingDB = {}`): `NoGap` and
`LeaderProofValid`. `SoundInv` adds that every certificate verifies, that all
prefixes of what is committed were committed by a quorum, and that prepares are
built on such prefixes. The hypothesis is needed: the run `outcome_write_fails`
refutes `NoGap` without it. If, besides, nobody restarts: `PrepareUnique`, from
`OnceInv`, which says that an honest oracle has signed only one prepare for a
number in an epoch; the quorums then intersect in an honest oracle.

**`OutcomeEpochProofs`**, with the same two hypotheses (nobody restarts, no database
refuses writes). `RoundsOfEpoch`: a leader gets `RMax` rounds in its epoch. The
counter of rounds is not the distance of the numbers signed, because after an
outcome proposed again an oracle starts below what it has committed; `Counted`
ties the two, `Spread` says that the rounds an oracle signs in an epoch are less
than `RMax` apart, two certificates share an honest signer, and numbers that close
are `RMax` at most. `Agreement` for two epochs:
`TwoEpochsAgree` says that it holds in every state in which no more than two
epochs have prepared anything, whichever two and however many were started. Whoever
signed a commit of the earlier epoch asks for the later one with a certificate
no lower (`CommitsBeforeRequests`), so that the highest one in the start proof
extends all that was committed (`ProofExtends`), and everything signed in
the later epoch is built on it (`Grounded`). With three epochs it is false:
`outcome_agreement` shows how two certificates of one number tie.

**`PacemakerProofs`.** `TypeOK`, `EpochSupported`, `NoEpochJumped`,
`WishesDurable` and `NeverBack`, for any `FailingDB`; what holds only where writes
succeed says so itself. The difficulty is the element that the code
takes from the sorted wishes: `Largest(w, k + 1)` exists and is backed by more
than k oracles, among which one is honest for k = F and more than F for k = 2F.
The invariant ties the wishes received to those ever sent (`Received`), of which an
oracle that restarts takes none back: the `Supporters` of an epoch only
grow, and together with the faulty oracles those of every epoch entered are more
than 2F (`EpochsBacked`). The step from what was sent to the present `ne` is
made last and costs the `Forgetful` ones.

**`ReportAttestationProofs`.** `TypeOK`, `AttestedOnce` and `LookaheadHolds`. The
first needs that an attested number is complete or beyond expiry and that
beyond expiry nothing opens a round again (`Finished`); the second that what an
oracle believes an honest one signed for was signed (`Heard`).

**`OutcomeRoundProofs`.** `OnlyLeaderSends` and `TypeOK` hold without an assumption.
`OncePerRound`, `ProposalHasQuorum` and `GraceAgrees` hold where the database takes
its writes (`DBFails = FALSE`): a follower goes on although a commit was refused,
and starts the same round once more (compare `outcome_write_fails`). They rest on
one another, and on this: two calls start a round of the leader, `tRound` on one
side and the start of the epoch or the commit of the round before on the other.
`ready = tRound` says that as many came from the one side as from the other, so
that the next round is free to start and nothing of it was sent (`Free`);
otherwise the leader waits for its epoch (`Starting`), for an outcome proposed
again (`Reproposing`), for observations (`Collecting`) or for its proposal
(`Proposed`), and no query is on its way. What a follower in its own epoch acts on
was sent by its own leader (`FromSelf`), so that the two are in step; what it signed
shows in its phase (`Signed`).

**`GovernanceProofs`.** `IndInv` is inductive, and with it `TypeOK`,
`ActiveListExact`, `TallyExact`, `VotersLocked`, `ProposerCommitted`,
`TallyBounded` and `ExecutedHadMajority`. The properties depend on each other,
which is why the invariant is their conjunction with the structure of the state:
a tally is exact only if a voter's roots do not shrink while it has voted, which
is the lock; the lock survives `updateVotedUntil` only if every BIP in its term is
on the list; the list is exact only if ids are handed out in order and what
waits in a frame is executed; tallies are bounded because they are exact and the
total is the sum over all accounts; a frozen majority lasts because the frozen
numbers do. There is one lemma per kind of step (`VotingStep`, `StillStep`,
`SiloStep`, `EndingStep`, `ProposeStep`), and every action is one of these.

**`GovernanceLifecycleProofs`.** `Governance` implements `BipLifecycle`
(`ImplementsLifecycle`): with `TermsInTime`, that no listed BIP is past the end of
its term, every kind of step is a step of the abstract machine or a stutter for
every BIP at once. On the same invariant, `ExecutedOnce` (the frames that wait,
the rewards and the cuts of a BIP are counted as cardinalities) and
`PauseStopsSeasonClock`. For the latter, `unpause` moves the start of the seasons
by whole seasons, rounded up; `ClockPutBack` shows that what was read before the
pause comes back or is one less, from the uniqueness of a quotient
(`QuotientUnique`), as the length of a season is not known to the provers.

**`DiamondProofs`.** `TypeOK`, `TablesExact`, `CutApplied` and the refinement
`ImplementsRouting`, for any selectors, addresses and calls, nested to any depth. One
lemma for each function of the library says what it does to a pair of tables that
agree; `DropSelectorExact` and `UnlistFacetExact` are the two swap-and-pops, where
the last entry moves and its position has to follow, unless it is the one removed.
In the middle of a loop more is needed: `CallInv` says that a call that waits for its
init contract is through with its cuts and goes back to clean tables, that the place
in the array that an add loop has read before is still the next free one
(`Loops`), that only a facet that is being added to may be listed without a selector,
and what the cuts done so far have made of every selector (`Applied`). Each step
of the tables is then one assignment of `FunctionRouting`, the start or the
end of a transaction, or a stutter.

**Only model-checked:** the liveness properties `TermsEnd`, `IncentivePaid`,
`FailedLeadersLeft` and `SignedRoundsEnd`, which rest on fairness and are out of the
prover's reach. Every other property of a passing run has a theorem, `Agreement`
with the limit above.

## Not modelled

* **Generated code.** Of 207,521 lines of Go some 180,000 are contract bindings and
  protobuf code in `gethwrappers*` and `*/serialization/*.pb.go`: declarations
  and byte strings without a state of their own. What is modelled is a small
  share of the lines for this reason.
* **Transmission and scheduler** (`transmission.go`, `../scheduler`, `../minheap`):
  delays and hands over reports that are independent of each other.
* **OCR2 and OCR1**, the earlier protocols, without agreement between epochs.
* **Managed oracles** (`managed/`): start and stop an oracle when the contract's
  configuration changes; the models cover one configuration.
* **Networking, ragep2p, serialization, configuration, plugins, telemetry**: the
  network is a set of messages that may be lost or late, messages are values,
  constants obey the checks of a configuration, and a plugin returns anything.
* **Incentive arithmetic** (`LibIncentive.sol`): a binomial estimate in 256 bits; an
  incentive is the number of steps it compounds.
* **Facets that are not in the repository** (Silo, season) and the **other
  challenges**, of which it has interfaces, instructions and tests against
  deployed contracts.

Parts that are modelled partly: of `AppStorage` the fields that governance
works on; of `Decimal` the share of the roots; of `LibDiamond` all but the owner
and `supportedInterfaces`.

## Plan

1. Governance, the diamond, OCR3's outcome generation, rounds, pacemaker and
   report attestation, and the proofs above: done.
2. The threads of peer discovery (`networking/ragedisco/discovery_protocol.go`),
   which hold a lock while they send on a channel, as one more module.
3. Transmission with its scheduler; the oracle manager across configurations; the
   streams of ragep2p.
4. OCR2's report generation, leader and followers.
5. `Governance` composed with `Diamond`: BIPs whose cuts may revert or take
   governance's own functions off.
