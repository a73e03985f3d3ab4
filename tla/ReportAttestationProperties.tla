--------------------- MODULE ReportAttestationProperties ---------------------
(***************************************************************************)
(* What report attestation promises: see ReportAttestation.                *)
(***************************************************************************)
EXTENDS ReportAttestation

Round ==
  [open : BOOLEAN, commit : BOOLEAN, reports : BOOLEAN, signers : SUBSET Oracle, good : SUBSET Oracle,
   asked : SUBSET Oracle, answered : SUBSET Oracle, served : SUBSET Oracle,
   fetch : BOOLEAN, complete : BOOLEAN]

\* Every variable has the type of the field it stands for.
TypeOK ==
  /\ outcome \in [Oracle -> 0..MaxSeqNr] /\ highestAttested \in [Oracle -> 0..MaxSeqNr]
  /\ highestSigned \in [Oracle -> [Oracle -> 0..MaxSeqNr]]
  /\ rounds \in [Oracle -> [Nr -> Round]] /\ \A p \in Oracle, s \in Nr : HasRound(p, s) \/ rounds[p][s] = NoRound
  /\ computing \in [Oracle -> SUBSET Nr] /\ scheduled \in [Oracle -> SUBSET Nr]
  /\ panicked \in [Oracle -> BOOLEAN] /\ attested \in [Oracle -> [Nr -> Nat]]
  /\ signed \subseteq Honest \X Nr
  /\ requests \subseteq Honest \X Oracle \X Nr /\ replies \subseteq Honest \X Oracle \X Nr

\* Transmission gets the reports of a sequence number once, also when the round
\* was reaped and signatures, certificates or reports of it still come in.
AttestedOnce == \A p \in Local, s \in Nr : attested[p][s] <= 1

\* Whatever the faulty oracles sign for, a round without an outcome is one near
\* what an oracle that is not faulty signed for.
LookaheadHolds ==
  \A p \in Local, s \in Nr : HasRound(p, s) =>
    (rounds[p][s].commit \/ s <= LookaheadRounds \/
     \E q \in Honest, t \in Nr : <<q, t>> \in signed /\ s <= t + LookaheadRounds)

\* An event about a round that was reaped is discarded, as the log message of
\* eventComputedReports has it: "discarding EventComputedReports from old round".
NoPanic == \A p \in Local : ~panicked[p]

-----------------------------------------------------------------------------
(* Liveness *)

\* Nothing that an honest oracle sends to an honest one is lost, background work
\* ends and the scheduler fires, in whatever order; an honest oracle still has the
\* outcomes it signed for.  What the faulty send is never waited for.
Serves(p, s) ==
  \/ ComputedReports(p, s)
  \/ MissingOutcome(p, s)
  \/ \E q \in Local : CertifiedCommitRequest(p, q, s)
  \/ \E q \in Honest :
       \/ ReportSignatures(p, q, s, TRUE)
       \/ CertifiedCommit(p, q, s, TRUE)

Fairness ==
  WF_vars(\E p \in Local, s \in Nr :
            \/ ~panicked[p] /\ Serves(p, s)
            \/ \E q \in Remote : RemoteReplies(q, p, s))

FairSpec == Spec /\ Fairness

\* The plugin or the keyring failed to make the oracle's own signatures.
Failed(p, s) == rounds[p][s].commit /\ s \notin computing[p] /\ <<p, s>> \notin signed

\* The oracle has attested the reports, or never will: later rounds have expired
\* this one, its plugin failed or the oracle ended.
Ended(p, s) ==
  \/ attested[p][s] = 1
  \/ IsBeyondExpiry(highestAttested[p], s)
  \/ Failed(p, s)
  \/ panicked[p]

\* An oracle with valid signatures of more than F attests the reports, also if it
\* missed the outcome and first asks a faulty signer for it, who never answers: no
\* round is left that has them and is not ended.
SignedRoundsEnd ==
  []<>(\A p \in Local, s \in Nr : Enough(rounds[p][s]) => Ended(p, s))
=============================================================================
