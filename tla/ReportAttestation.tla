-------------------------- MODULE ReportAttestation --------------------------
(***************************************************************************)
(* Report attestation of the OCR3 protocol: every oracle computes the      *)
(* reports of a committed outcome and signs them; one that has F + 1 valid *)
(* signatures hands the reports to transmission.  One that has signatures  *)
(* but missed the outcome asks their senders for it, one after the other   *)
(* (offchainreporting2plus/internal/ocr3/protocol/report_attestation.go).  *)
(*                                                                         *)
(* A sequence number stands for its outcome and its reports.  The network  *)
(* is the set of the messages ever sent, read late, never or twice.        *)
(***************************************************************************)
EXTENDS Integers, FiniteSets

CONSTANTS
  Oracle,          \* the oracles of the configuration
  Faulty,          \* the oracles that may send anything
  Remote,          \* the other oracles of which only what they send is modelled
  MayFail,         \* the oracles whose plugin or keyring may return an error
  F,               \* the number of faults the configuration tolerates
  ExpiryRounds,    \* rounds after which a report is not attested any more
  LookaheadRounds, \* rounds that signatures may be ahead of the oracle
  MaxSeqNr         \* bound: the last sequence number

Honest == Oracle \ Faulty
Local == Honest \ Remote
Nr == 1..MaxSeqNr

ASSUME OracleAssumption == IsFiniteSet(Oracle) /\ Faulty \subseteq Oracle /\ Remote \subseteq Honest
ASSUME FailAssumption == MayFail \subseteq Honest
ASSUME FaultAssumption ==
  F \in Nat /\ F < Cardinality(Oracle) /\ Cardinality(Faulty) <= F
ASSUME WindowAssumption == ExpiryRounds \in Nat /\ LookaheadRounds \in Nat
ASSUME BoundAssumption == MaxSeqNr \in Nat

VARIABLES
  outcome,         \* the highest sequence number the outcome generation committed
  rounds,          \* rounds: for each number its round, NoRound if it is not in the map
  highestAttested, \* highestAttestedSeqNr
  highestSigned,   \* highestReportSignaturesSeqNr: of each sender
  computing,       \* the rounds whose reports are being computed
  scheduled,       \* the EventMissingOutcome that the scheduler holds
  panicked,        \* whether the process ended in a panic
  attested,        \* the EventAttestedReport that transmission got, counted
  signed,          \* every MessageReportSignatures: sender, sequence number
  requests,        \* every MessageCertifiedCommitRequest: from, to, number
  replies          \* every MessageCertifiedCommit: from, to, number

network == <<signed, requests, replies>>
vars == <<outcome, rounds, highestAttested, highestSigned, computing, scheduled,
          panicked, attested, network>>

NewRound ==
  [open |-> TRUE,      \* whether the map has the round
   commit |-> FALSE,   \* verifiedCertifiedCommit # nil
   reports |-> FALSE,  \* reportsPlus # nil
   signers |-> {},     \* oracles with signatures
   good |-> {},        \* those of them whose signatures verify
   asked |-> {},       \* weRequested
   answered |-> {},    \* theyServiced
   served |-> {},      \* weServiced
   fetch |-> FALSE,    \* startedFetch
   complete |-> FALSE]

NoRound == [NewRound EXCEPT !.open = FALSE]

Init ==
  /\ outcome = [p \in Oracle |-> 0]
  /\ rounds = [p \in Oracle |-> [s \in Nr |-> NoRound]]
  /\ highestAttested = [p \in Oracle |-> 0]
  /\ highestSigned = [p \in Oracle |-> [q \in Oracle |-> 0]]
  /\ computing = [p \in Oracle |-> {}]
  /\ scheduled = [p \in Oracle |-> {}]
  /\ panicked = [p \in Oracle |-> FALSE]
  /\ attested = [p \in Oracle |-> [s \in Nr |-> 0]]
  /\ signed = {} /\ requests = {} /\ replies = {}

-----------------------------------------------------------------------------
(* Windows *)

IsBeyondExpiry(highest, s) == highest > ExpiryRounds /\ s < highest - ExpiryRounds

\* Bug: the highest number any oracle signed for counts.
LookaheadOfAny(h, s) == s > LookaheadRounds /\ \A q \in Oracle : h[q] < s - LookaheadRounds
\* at most F oracles signed for a number that is near s
IsBeyondLookahead(h, s) ==
  /\ s > LookaheadRounds
  /\ Cardinality({q \in Oracle : h[q] >= s - LookaheadRounds}) <= F

HasRound(p, s) == rounds[p][s].open
Open(rs) == {s \in Nr : rs[s].open}

\* the map with a round for s, a new one if there was none
WithRound(rs, s) == [rs EXCEPT ![s] = IF @.open THEN @ ELSE NewRound]

\* reap: the rounds left when highest was attested
Reaped(rs, highest) ==
  IF 3 * Cardinality(Open(rs)) <= 4 * (ExpiryRounds + LookaheadRounds)
  THEN rs
  ELSE [s \in Nr |-> IF IsBeyondExpiry(highest, s) THEN NoRound ELSE rs[s]]

Highest(x, y) == IF x < y THEN y ELSE x

-----------------------------------------------------------------------------
(* Completion *)

Enough(r) == Cardinality(r.good) > F

\* Bug: a round that is complete is completed again.
CanCompleteAgain(r) == r.commit /\ r.reports /\ Enough(r)
CanComplete(r) == ~r.complete /\ r.commit /\ r.reports /\ Enough(r)

CanFetch(r) == ~r.complete /\ ~r.commit /\ Cardinality(r.signers) > F /\ ~r.fetch

\* tryComplete, with the rounds rs as the handler left them
TryComplete(p, rs, s) ==
  \/ /\ CanComplete(rs[s])
     /\ highestAttested' = [highestAttested EXCEPT ![p] = Highest(@, s)]
     /\ attested' = [attested EXCEPT ![p][s] = @ + 1]
     /\ rounds' = [rounds EXCEPT ![p] = Reaped([rs EXCEPT ![s].complete = TRUE], highestAttested'[p])]
     /\ UNCHANGED scheduled
  \/ /\ CanFetch(rs[s])
     /\ rounds' = [rounds EXCEPT ![p] = [rs EXCEPT ![s].fetch = TRUE]]
     /\ scheduled' = [scheduled EXCEPT ![p] = @ \cup {s}]
     /\ UNCHANGED <<highestAttested, attested>>
  \/ /\ ~CanComplete(rs[s]) /\ ~CanFetch(rs[s])
     /\ rounds' = [rounds EXCEPT ![p] = rs]
     /\ UNCHANGED <<highestAttested, attested, scheduled>>

\* receivedVerifiedCertifiedCommit, with the rounds rs as the handler left them
ReceivedVerified(p, rs, s) ==
  IF rs[s].commit
  THEN rounds' = [rounds EXCEPT ![p] = rs] /\ UNCHANGED computing
  ELSE /\ rounds' = [rounds EXCEPT ![p] = [WithRound(rs, s) EXCEPT ![s].commit = TRUE]]
       /\ computing' = [computing EXCEPT ![p] = @ \cup {s}]

-----------------------------------------------------------------------------
(* Handlers *)

\* eventCommittedOutcome: the outcome generation commits an outcome, perhaps not
\* the one after the last it committed
CommittedOutcome(p, s) ==
  /\ s > outcome[p]
  /\ outcome' = [outcome EXCEPT ![p] = s]
  /\ ReceivedVerified(p, rounds[p], s)
  /\ UNCHANGED <<highestAttested, highestSigned, scheduled, panicked, attested, network>>

\* eventComputedReports, from the background: discarded if the round was reaped
ComputedReports(p, s) ==
  /\ s \in computing[p]
  /\ computing' = [computing EXCEPT ![p] = @ \ {s}]
  /\ IF HasRound(p, s)
     THEN /\ rounds' = [rounds EXCEPT ![p][s].reports = TRUE]
          /\ signed' = signed \cup {<<p, s>>}
     ELSE UNCHANGED <<rounds, signed>>
  /\ UNCHANGED <<outcome, highestAttested, highestSigned, scheduled, panicked, attested,
                 requests, replies>>

\* the plugin, or after it the keyring, returns an error: no signatures are sent
ReportsFail(p, s, computed) ==
  /\ p \in MayFail /\ s \in computing[p]
  /\ computing' = [computing EXCEPT ![p] = @ \ {s}]
  /\ rounds' = IF HasRound(p, s) THEN [rounds EXCEPT ![p][s].reports = computed] ELSE rounds
  /\ UNCHANGED <<outcome, highestAttested, highestSigned, scheduled, panicked, attested, network>>

\* messageReportSignatures; good says whether verifySignatures takes them: those of
\* a faulty oracle may be wrong
ReportSignatures(p, q, s, good) ==
  /\ q \in Faulty \/ (<<q, s>> \in signed /\ good)
  /\ ~IsBeyondExpiry(highestAttested[p], s)
  /\ highestSigned' = [highestSigned EXCEPT ![p][q] = Highest(@, s)]
  /\ LET rs == WithRound(rounds[p], s) IN
       \/ /\ IsBeyondLookahead(highestSigned'[p], s) \/ q \in rs[s].signers
          /\ UNCHANGED <<rounds, highestAttested, attested, scheduled>>
       \/ /\ ~IsBeyondLookahead(highestSigned'[p], s)
          /\ q \notin rs[s].signers
          /\ TryComplete(p, [rs EXCEPT ![s].signers = @ \cup {q},
                                       ![s].good = IF good THEN @ \cup {q} ELSE @], s)
  /\ UNCHANGED <<outcome, computing, panicked, network>>

Candidates(r) == r.signers \ r.asked

\* Bug: only one oracle is ever asked.
AskOnce(p, s) ==
  \E q \in Candidates(rounds[p][s]) :
    /\ rounds' = [rounds EXCEPT ![p][s].asked = @ \cup {q}]
    /\ requests' = requests \cup {<<p, q, s>>}
    /\ scheduled' = [scheduled EXCEPT ![p] = @ \ {s}]
\* tryRequestCertifiedCommit: one that was not asked yet is, at random; the event
\* comes again unless nobody was left
TryRequest(p, s) ==
  \/ \E q \in Candidates(rounds[p][s]) :
       /\ rounds' = [rounds EXCEPT ![p][s].asked = @ \cup {q}]
       /\ requests' = requests \cup {<<p, q, s>>}
       /\ UNCHANGED scheduled
  \/ /\ Candidates(rounds[p][s]) = {}
     /\ scheduled' = [scheduled EXCEPT ![p] = @ \ {s}]
     /\ UNCHANGED <<rounds, requests>>

\* eventMissingOutcome: the round is not looked for before it is used, so that
\* the event of a reaped round is a nil dereference
MissingOutcome(p, s) ==
  /\ s \in scheduled[p]
  /\ \/ /\ ~HasRound(p, s)
        /\ panicked' = [panicked EXCEPT ![p] = TRUE]
        /\ UNCHANGED <<rounds, requests, scheduled>>
     \/ /\ HasRound(p, s) /\ rounds[p][s].commit
        /\ scheduled' = [scheduled EXCEPT ![p] = @ \ {s}]
        /\ UNCHANGED <<rounds, requests, panicked>>
     \/ /\ HasRound(p, s) /\ ~rounds[p][s].commit
        /\ TryRequest(p, s)
        /\ UNCHANGED panicked
  /\ UNCHANGED <<outcome, highestAttested, highestSigned, computing, attested, signed, replies>>

\* messageCertifiedCommitRequest: an oracle that has the outcome sends it, once
CertifiedCommitRequest(p, q, s) ==
  /\ q \in Faulty \/ <<q, p, s>> \in requests
  /\ rounds[p][s].commit
  /\ q \notin rounds[p][s].served
  /\ rounds' = [rounds EXCEPT ![p][s].served = @ \cup {q}]
  /\ replies' = replies \cup {<<p, q, s>>}
  /\ UNCHANGED <<outcome, highestAttested, highestSigned, computing, scheduled, panicked,
                 attested, signed, requests>>

\* messageCertifiedCommit; valid says whether the certificate verifies
CertifiedCommit(p, q, s, valid) ==
  /\ q \in Faulty \/ (<<q, p, s>> \in replies /\ valid)
  /\ HasRound(p, s)
  /\ q \in rounds[p][s].asked /\ q \notin rounds[p][s].answered
  /\ LET rs == [rounds[p] EXCEPT ![s].answered = @ \cup {q}] IN
       IF valid
       THEN ReceivedVerified(p, rs, s)
       ELSE rounds' = [rounds EXCEPT ![p] = rs] /\ UNCHANGED computing
  /\ UNCHANGED <<outcome, highestAttested, highestSigned, scheduled, panicked, attested, network>>

\* What a remote oracle sends: the signatures of an outcome it has, and the outcome
\* to an oracle that asks for it.
RemoteSigns(q, s) ==
  /\ signed' = signed \cup {<<q, s>>}
  /\ UNCHANGED <<outcome, rounds, highestAttested, highestSigned, computing, scheduled,
                 panicked, attested, requests, replies>>
RemoteReplies(q, p, s) ==
  /\ <<q, s>> \in signed /\ <<p, q, s>> \in requests
  /\ replies' = replies \cup {<<q, p, s>>}
  /\ UNCHANGED <<outcome, rounds, highestAttested, highestSigned, computing, scheduled,
                 panicked, attested, signed, requests>>

\* signatures that were counted already change nothing
IsNews(p, q, s) == q \notin rounds[p][s].signers \/ s > highestSigned[p][q]

\* What is sent to a faulty or a remote oracle changes nothing.
Handle(p, s) ==
  \/ CommittedOutcome(p, s)
  \/ ComputedReports(p, s)
  \/ \E computed \in BOOLEAN : ReportsFail(p, s, computed)
  \/ MissingOutcome(p, s)
  \/ \E q \in Oracle \ Remote : CertifiedCommitRequest(p, q, s)
  \/ \E q \in Oracle :
       \/ \E good \in BOOLEAN : IsNews(p, q, s) /\ ReportSignatures(p, q, s, good)
       \/ \E valid \in BOOLEAN : CertifiedCommit(p, q, s, valid)

Next ==
  \E s \in Nr :
    \/ \E p \in Local : ~panicked[p] /\ Handle(p, s)
    \/ \E q \in Remote : RemoteSigns(q, s) \/ \E p \in Local : RemoteReplies(q, p, s)

Spec == Init /\ [][Next]_vars
=============================================================================
