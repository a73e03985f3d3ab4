----------------------- MODULE ReportAttestationProofs -----------------------
(***************************************************************************)
(* Proofs about report attestation, for any number of oracles, rounds and  *)
(* any windows.                                                            *)
(***************************************************************************)
EXTENDS ReportAttestationProperties, FiniteSetTheorems, TLAPS

-----------------------------------------------------------------------------
(* The invariant *)

\* A round that was attested is complete, or too old to be completed again.
Finished(rs, highest, counts) ==
  \A t \in Nr :
    /\ counts[t] <= 1
    /\ counts[t] = 1 => rs[t].complete \/ IsBeyondExpiry(highest, t)

\* A round not in the map has nothing.
MapOfRounds(rs) == rs \in [Nr -> Round] /\ \A t \in Nr : rs[t].open \/ rs[t] = NoRound

\* An honest oracle has signed for a number that is near t.
Near(t) ==
  t <= LookaheadRounds \/ \E q \in Honest, u \in Nr : <<q, u>> \in signed /\ t <= u + LookaheadRounds

RoundsNear(rs) == \A t \in Nr : rs[t].open => rs[t].commit \/ Near(t)

\* The highest number an honest oracle is taken to have signed for is one that it
\* has signed for.
Heard ==
  \A p \in Local, q \in Honest : highestSigned[p][q] = 0 \/ <<q, highestSigned[p][q]>> \in signed

\* What no handler depends on.
TypesOfRest ==
  /\ outcome \in [Oracle -> 0..MaxSeqNr]
  /\ highestSigned \in [Oracle -> [Oracle -> 0..MaxSeqNr]]
  /\ computing \in [Oracle -> SUBSET Nr] /\ scheduled \in [Oracle -> SUBSET Nr]
  /\ panicked \in [Oracle -> BOOLEAN]
  /\ signed \subseteq Honest \X Nr
  /\ requests \subseteq Honest \X Oracle \X Nr /\ replies \subseteq Honest \X Oracle \X Nr

IndInv ==
  /\ TypeOK
  /\ \A p \in Local : Finished(rounds[p], highestAttested[p], attested[p]) /\ RoundsNear(rounds[p])
  /\ Heard

LEMMA TypeParts ==
  TypeOK <=> /\ TypesOfRest
             /\ highestAttested \in [Oracle -> 0..MaxSeqNr]
             /\ attested \in [Oracle -> [Nr -> Nat]]
             /\ rounds \in [Oracle -> [Nr -> Round]]
             /\ \A p \in Oracle : MapOfRounds(rounds[p])
<1>1. rounds \in [Oracle -> [Nr -> Round]] =>
        ((\A p \in Oracle, s \in Nr : HasRound(p, s) \/ rounds[p][s] = NoRound)
          <=> \A p \in Oracle : MapOfRounds(rounds[p]))
  BY DEF HasRound, MapOfRounds
<1> QED BY <1>1 DEF TypeOK, TypesOfRest

-----------------------------------------------------------------------------
(* Rounds *)

\* What becomes of a round that is complete, or is fetched.
LEMMA RoundFlags ==
  ASSUME NEW r \in Round
  PROVE  /\ [r EXCEPT !.complete = TRUE] \in Round
         /\ [r EXCEPT !.complete = TRUE].open = r.open
         /\ [r EXCEPT !.complete = TRUE].commit = r.commit
         /\ [r EXCEPT !.complete = TRUE].complete = TRUE
         /\ [r EXCEPT !.fetch = TRUE] \in Round
         /\ [r EXCEPT !.fetch = TRUE].open = r.open
         /\ [r EXCEPT !.fetch = TRUE].commit = r.commit
         /\ [r EXCEPT !.fetch = TRUE].complete = r.complete
BY DEF Round

LEMMA RoundTypes ==
  /\ NewRound \in Round /\ NewRound.open = TRUE
  /\ NewRound.complete = FALSE /\ NewRound.commit = FALSE
  /\ NoRound \in Round /\ NoRound.open = FALSE
  /\ NoRound.complete = FALSE /\ NoRound.commit = FALSE
BY DEF NewRound, NoRound, Round

\* WithRound opens the round and changes nothing else of the map.
LEMMA WithRoundOpens ==
  ASSUME NEW rs, MapOfRounds(rs), NEW s \in Nr
  PROVE  /\ MapOfRounds(WithRound(rs, s))
         /\ WithRound(rs, s)[s].open
         /\ \A t \in Nr : WithRound(rs, s)[t].complete = rs[t].complete
         /\ \A t \in Nr : WithRound(rs, s)[t].commit = rs[t].commit
         /\ \A t \in Nr \ {s} : WithRound(rs, s)[t] = rs[t]
<1>1. rs \in [Nr -> Round]
  BY DEF MapOfRounds
<1>2. WithRound(rs, s) \in [Nr -> Round]
  BY <1>1, RoundTypes DEF WithRound
<1>3. \A t \in Nr \ {s} : WithRound(rs, s)[t] = rs[t]
  BY <1>1 DEF WithRound
<1>4. WithRound(rs, s)[s] = IF rs[s].open THEN rs[s] ELSE NewRound
  BY <1>1 DEF WithRound
<1>5. ~rs[s].open => rs[s].complete = FALSE /\ rs[s].commit = FALSE
  BY RoundTypes DEF MapOfRounds
<1>6. rs[s].complete \in BOOLEAN /\ rs[s].commit \in BOOLEAN /\ rs[s].open \in BOOLEAN
  BY <1>1 DEF Round
<1>7. WithRound(rs, s)[s].open /\ WithRound(rs, s)[s].complete = rs[s].complete
      /\ WithRound(rs, s)[s].commit = rs[s].commit
  BY <1>4, <1>5, <1>6, RoundTypes
<1>8. MapOfRounds(WithRound(rs, s))
  BY <1>2, <1>3, <1>7 DEF MapOfRounds
<1> QED BY <1>3, <1>7, <1>8

\* What reaping leaves is a map of rounds, and what it takes out has expired.
LEMMA ReapedKeeps ==
  ASSUME NEW rs, MapOfRounds(rs), NEW highest
  PROVE  /\ MapOfRounds(Reaped(rs, highest))
         /\ \A t \in Nr : \/ Reaped(rs, highest)[t] = rs[t]
                          \/ Reaped(rs, highest)[t] = NoRound /\ IsBeyondExpiry(highest, t)
<1>1. rs \in [Nr -> Round]
  BY DEF MapOfRounds
<1>2. Reaped(rs, highest) \in [Nr -> Round]
  BY <1>1, RoundTypes DEF Reaped
<1>3. \A t \in Nr : \/ Reaped(rs, highest)[t] = rs[t]
                    \/ Reaped(rs, highest)[t] = NoRound /\ IsBeyondExpiry(highest, t)
  BY <1>1 DEF Reaped
<1>4. \A t \in Nr : Reaped(rs, highest)[t].open \/ Reaped(rs, highest)[t] = NoRound
  BY <1>3 DEF MapOfRounds
<1> QED BY <1>2, <1>3, <1>4 DEF MapOfRounds

\* A round that expired stays expired.
LEMMA ExpiryLasts ==
  ASSUME NEW h \in Nat, NEW k \in Nat, h <= k, NEW t \in Nr, IsBeyondExpiry(h, t)
  PROVE  IsBeyondExpiry(k, t)
BY WindowAssumption, BoundAssumption DEF IsBeyondExpiry, Nr

\* All but F of any oracles are honest.
LEMMA SomeHonest ==
  ASSUME NEW S, S \subseteq Oracle, ~(Cardinality(S) <= F)
  PROVE  \E q \in Honest : q \in S
<1>1. SUFFICES ASSUME S \subseteq Faulty PROVE FALSE
  BY DEF Honest
<1>2. IsFiniteSet(Faulty) /\ IsFiniteSet(S)
  BY OracleAssumption, FS_Subset
<1>3. Cardinality(S) <= Cardinality(Faulty)
  BY <1>1, <1>2, FS_Subset
<1>4. Cardinality(S) \in Nat /\ Cardinality(Faulty) \in Nat
  BY <1>2, FS_CardinalityType
<1> QED BY <1>3, <1>4, FaultAssumption

-----------------------------------------------------------------------------
(* Steps *)

\* Every action that changes an oracle changes one, to rounds that are finished
\* and near as the invariant has it.
LEMMA OracleStep ==
  ASSUME IndInv, NEW p \in Local, NEW rs, NEW highest, NEW counts,
         rounds' = [rounds EXCEPT ![p] = rs],
         highestAttested' = [highestAttested EXCEPT ![p] = highest],
         attested' = [attested EXCEPT ![p] = counts],
         signed \subseteq signed', TypesOfRest', Heard',
         highest \in 0..MaxSeqNr, counts \in [Nr -> Nat],
         MapOfRounds(rs), Finished(rs, highest, counts), RoundsNear(rs)
  PROVE  IndInv'
<1>1. /\ highestAttested \in [Oracle -> 0..MaxSeqNr]
      /\ attested \in [Oracle -> [Nr -> Nat]]
      /\ rounds \in [Oracle -> [Nr -> Round]]
      /\ \A q \in Oracle : MapOfRounds(rounds[q])
  BY TypeParts DEF IndInv
<1>2. p \in Oracle /\ \A q \in Local : q \in Oracle
  BY DEF Local, Honest
<1>3. /\ highestAttested' \in [Oracle -> 0..MaxSeqNr]
      /\ attested' \in [Oracle -> [Nr -> Nat]]
  BY <1>1
<1>4. rounds' \in [Oracle -> [Nr -> Round]]
  BY <1>1 DEF MapOfRounds
<1>5. \A q \in Oracle : /\ rounds'[q] = IF q = p THEN rs ELSE rounds[q]
                        /\ highestAttested'[q] = IF q = p THEN highest ELSE highestAttested[q]
                        /\ attested'[q] = IF q = p THEN counts ELSE attested[q]
  BY <1>1
<1>6. \A q \in Oracle : MapOfRounds(rounds'[q])
  BY <1>1, <1>5
<1>7. TypeOK'
  <2>1. (\A q \in Oracle, s \in Nr : HasRound(q, s) \/ rounds[q][s] = NoRound)'
    BY <1>6 DEF MapOfRounds, HasRound
  <2> QED BY <1>3, <1>4, <2>1 DEF TypeOK, TypesOfRest
<1>8. \A q \in Local : Finished(rounds'[q], highestAttested'[q], attested'[q])
  BY <1>2, <1>5 DEF IndInv
<1>9. \A t \in Nr : Near(t) => Near(t)'
  BY DEF Near
<1>10. (\A q \in Local : RoundsNear(rounds[q]))'
  <2> SUFFICES ASSUME NEW q \in Local, NEW t \in Nr, rounds'[q][t].open
               PROVE  rounds'[q][t].commit \/ Near(t)'
    BY DEF RoundsNear
  <2>1. RoundsNear(rounds'[q])
    BY <1>2, <1>5 DEF IndInv
  <2> QED BY <1>9, <2>1 DEF RoundsNear
<1>11. (\A q \in Local : Finished(rounds[q], highestAttested[q], attested[q]))'
  BY <1>8 DEF Finished, IsBeyondExpiry
<1> QED BY <1>7, <1>10, <1>11 DEF IndInv

\* The actions that complete nothing: they change one round, and what is new has
\* an outcome or is near.
LEMMA QuietStep ==
  ASSUME IndInv, NEW p \in Local, NEW s \in Nr, NEW rs,
         rounds' = [rounds EXCEPT ![p] = rs],
         UNCHANGED <<highestAttested, attested>>,
         signed \subseteq signed', TypesOfRest', Heard',
         MapOfRounds(rs),
         \A t \in Nr \ {s} : rs[t] = rounds[p][t],
         rs[s].complete = rounds[p][s].complete,
         rs[s].open => rs[s].commit \/ Near(s)
  PROVE  IndInv'
<1>1. /\ highestAttested \in [Oracle -> 0..MaxSeqNr]
      /\ attested \in [Oracle -> [Nr -> Nat]]
  BY TypeParts DEF IndInv
<1>2. p \in Oracle
  BY DEF Local, Honest
<1>3. /\ highestAttested' = [highestAttested EXCEPT ![p] = highestAttested[p]]
      /\ attested' = [attested EXCEPT ![p] = attested[p]]
      /\ highestAttested[p] \in 0..MaxSeqNr /\ attested[p] \in [Nr -> Nat]
  BY <1>1, <1>2
<1>4. \A t \in Nr : rs[t].complete = rounds[p][t].complete
  OBVIOUS
<1>5. Finished(rs, highestAttested[p], attested[p])
  BY <1>4 DEF IndInv, Finished
<1>6. RoundsNear(rs)
  BY DEF IndInv, RoundsNear
<1> QED BY <1>3, <1>5, <1>6, OracleStep

\* TryComplete, with rounds that a handler left as the invariant has them: what it
\* completes was not complete, and had not expired.
LEMMA CompletionStep ==
  ASSUME IndInv, NEW p \in Local, NEW s \in Nr, NEW rs, TryComplete(p, rs, s),
         signed \subseteq signed', TypesOfRest', Heard',
         MapOfRounds(rs), rs[s].open, RoundsNear(rs),
         \A t \in Nr : rs[t].complete = rounds[p][t].complete,
         ~IsBeyondExpiry(highestAttested[p], s)
  PROVE  IndInv'
<1>1. /\ highestAttested \in [Oracle -> 0..MaxSeqNr]
      /\ attested \in [Oracle -> [Nr -> Nat]]
      /\ rs \in [Nr -> Round]
  BY TypeParts DEF IndInv, MapOfRounds
<1>2. p \in Oracle
  BY DEF Local, Honest
<1>3. /\ highestAttested[p] \in 0..MaxSeqNr /\ highestAttested[p] \in Nat
      /\ attested[p] \in [Nr -> Nat] /\ s \in Nat /\ s \in 0..MaxSeqNr
  BY <1>1, <1>2, BoundAssumption DEF Nr
<1>4. Finished(rs, highestAttested[p], attested[p])
  BY DEF IndInv, Finished
<1>5. CASE CanComplete(rs[s]) /\ rounds' = [rounds EXCEPT ![p] =
             Reaped([rs EXCEPT ![s].complete = TRUE], Highest(highestAttested[p], s))]
         /\ highestAttested' = [highestAttested EXCEPT ![p] = Highest(@, s)]
         /\ attested' = [attested EXCEPT ![p][s] = @ + 1]
  <2> DEFINE high == Highest(highestAttested[p], s)
             done == [rs EXCEPT ![s].complete = TRUE]
             counts == [attested[p] EXCEPT ![s] = @ + 1]
  <2>1. high \in 0..MaxSeqNr /\ high \in Nat /\ highestAttested[p] <= high
    BY <1>3 DEF Highest
  <2>2. counts \in [Nr -> Nat]
    BY <1>3
  <2>3. /\ done \in [Nr -> Round] /\ done[s].complete = TRUE /\ done[s].open = rs[s].open
        /\ done[s].commit = rs[s].commit
        /\ \A t \in Nr \ {s} : done[t] = rs[t]
    <3>1. rs[s] \in Round
      BY <1>1
    <3>2. /\ [rs[s] EXCEPT !.complete = TRUE] \in Round
          /\ [rs[s] EXCEPT !.complete = TRUE].open = rs[s].open
          /\ [rs[s] EXCEPT !.complete = TRUE].commit = rs[s].commit
          /\ [rs[s] EXCEPT !.complete = TRUE].complete = TRUE
      BY <3>1, RoundFlags
    <3> QED BY <1>1, <3>2
  <2>4. MapOfRounds(done)
    BY <2>3 DEF MapOfRounds
  <2>5. attested[p][s] = 0
    <3>1. attested[p][s] <= 1 /\ (attested[p][s] = 1 => rs[s].complete)
      BY <1>4 DEF Finished
    <3>2. ~rs[s].complete
      BY <1>5 DEF CanComplete
    <3> QED BY <1>3, <3>1, <3>2
  <2>6. \A t \in Nr : counts[t] = IF t = s THEN 1 ELSE attested[p][t]
    BY <1>3, <2>5
  <2> HIDE DEF high, done, counts
  <2>7. /\ MapOfRounds(Reaped(done, high))
        /\ \A t \in Nr : \/ Reaped(done, high)[t] = done[t]
                         \/ Reaped(done, high)[t] = NoRound /\ IsBeyondExpiry(high, t)
    BY <2>4, ReapedKeeps
  <2>8. Finished(Reaped(done, high), high, counts)
    <3> SUFFICES ASSUME NEW t \in Nr
                 PROVE  /\ counts[t] <= 1
                        /\ counts[t] = 1 =>
                             Reaped(done, high)[t].complete \/ IsBeyondExpiry(high, t)
      BY DEF Finished
    <3>1. attested[p][t] <= 1
          /\ (attested[p][t] = 1 => rs[t].complete \/ IsBeyondExpiry(highestAttested[p], t))
      BY <1>4 DEF Finished
    <3>2. IsBeyondExpiry(highestAttested[p], t) => IsBeyondExpiry(high, t)
      BY <1>3, <2>1, ExpiryLasts
    <3>3. CASE t = s
      BY <2>3, <2>6, <2>7, <3>3
    <3>4. CASE t # s
      BY <2>3, <2>6, <2>7, <3>1, <3>2, <3>4
    <3> QED BY <3>3, <3>4
  <2>9. RoundsNear(Reaped(done, high))
    <3> SUFFICES ASSUME NEW t \in Nr, Reaped(done, high)[t].open
                 PROVE  Reaped(done, high)[t].commit \/ Near(t)
      BY DEF RoundsNear
    <3>1. Reaped(done, high)[t] = done[t]
      BY <2>7, RoundTypes
    <3>2. done[t].open = rs[t].open /\ done[t].commit = rs[t].commit
      BY <2>3
    <3> QED BY <3>1, <3>2 DEF RoundsNear
  <2>10. /\ rounds' = [rounds EXCEPT ![p] = Reaped(done, high)]
         /\ highestAttested' = [highestAttested EXCEPT ![p] = high]
    BY <1>5 DEF done, high
  <2>11. attested' = [attested EXCEPT ![p] = counts]
    BY <1>5 DEF counts
  <2> QED BY <2>1, <2>2, <2>7, <2>8, <2>9, <2>10, <2>11, OracleStep
<1>6. CASE rounds' = [rounds EXCEPT ![p] = [rs EXCEPT ![s].fetch = TRUE]]
         /\ UNCHANGED <<highestAttested, attested>>
  <2> DEFINE done == [rs EXCEPT ![s].fetch = TRUE]
  <2>1. /\ done \in [Nr -> Round] /\ done[s].complete = rs[s].complete
        /\ done[s].open = rs[s].open /\ done[s].commit = rs[s].commit
        /\ \A t \in Nr \ {s} : done[t] = rs[t]
    <3>1. rs[s] \in Round
      BY <1>1
    <3>2. /\ [rs[s] EXCEPT !.fetch = TRUE] \in Round
          /\ [rs[s] EXCEPT !.fetch = TRUE].open = rs[s].open
          /\ [rs[s] EXCEPT !.fetch = TRUE].commit = rs[s].commit
          /\ [rs[s] EXCEPT !.fetch = TRUE].complete = rs[s].complete
      BY <3>1, RoundFlags
    <3> QED BY <1>1, <3>2
  <2> HIDE DEF done
  <2>2. MapOfRounds(done)
    BY <2>1 DEF MapOfRounds
  <2>3. Finished(done, highestAttested[p], attested[p])
    BY <1>4, <2>1 DEF Finished
  <2>4. RoundsNear(done)
    BY <2>1 DEF RoundsNear
  <2>5. /\ highestAttested' = [highestAttested EXCEPT ![p] = highestAttested[p]]
        /\ attested' = [attested EXCEPT ![p] = attested[p]]
    BY <1>1, <1>6
  <2>6. rounds' = [rounds EXCEPT ![p] = done]
    BY <1>6 DEF done
  <2> QED BY <1>3, <2>2, <2>3, <2>4, <2>5, <2>6, OracleStep
<1>7. CASE rounds' = [rounds EXCEPT ![p] = rs] /\ UNCHANGED <<highestAttested, attested>>
  <2>1. /\ highestAttested' = [highestAttested EXCEPT ![p] = highestAttested[p]]
        /\ attested' = [attested EXCEPT ![p] = attested[p]]
    BY <1>1, <1>7
  <2> QED BY <1>3, <1>4, <1>7, <2>1, OracleStep
<1>8. CanComplete(rs[s]) /\ highestAttested' = [highestAttested EXCEPT ![p] = Highest(@, s)]
        => highestAttested'[p] = Highest(highestAttested[p], s)
  BY <1>1, <1>2
<1> QED BY <1>5, <1>6, <1>7, <1>8 DEF TryComplete

-----------------------------------------------------------------------------
(* The actions *)

LEMMA InitInv == Init => IndInv
<1> SUFFICES ASSUME Init PROVE IndInv
  OBVIOUS
<1>1. TypesOfRest
  BY BoundAssumption DEF Init, TypesOfRest
<1>2. [s \in Nr |-> NoRound] \in [Nr -> Round]
  BY RoundTypes
<1>3. TypeOK
  BY <1>1, <1>2, TypeParts, BoundAssumption DEF Init, MapOfRounds
<1>4. \A p \in Local : Finished(rounds[p], highestAttested[p], attested[p])
  BY DEF Init, Finished, Local, Honest
<1>5. \A p \in Local : RoundsNear(rounds[p])
  BY RoundTypes DEF Init, RoundsNear, Local, Honest
<1>6. Heard
  BY DEF Init, Heard, Local, Honest
<1> QED BY <1>3, <1>4, <1>5, <1>6 DEF IndInv

\* What the invariant says of an oracle that runs this code.
LEMMA AtOracle ==
  ASSUME IndInv, NEW p \in Local
  PROVE  /\ p \in Oracle /\ TypesOfRest /\ Heard
         /\ rounds \in [Oracle -> [Nr -> Round]] /\ MapOfRounds(rounds[p]) /\ RoundsNear(rounds[p])
BY TypeParts DEF IndInv, Local, Honest

\* A change of one field of a round, other than what the invariant is about.
Touched(r, t) ==
  /\ t \in Round /\ t.open = r.open /\ t.commit = r.commit /\ t.complete = r.complete

LEMMA TouchStep ==
  ASSUME IndInv, NEW p \in Local, NEW s \in Nr, NEW r, rounds[p][s].open,
         Touched(rounds[p][s], r),
         rounds' = [rounds EXCEPT ![p][s] = r],
         UNCHANGED <<highestAttested, attested>>,
         signed \subseteq signed', TypesOfRest', Heard'
  PROVE  IndInv'
<1> DEFINE rs == [rounds[p] EXCEPT ![s] = r]
<1>1. /\ p \in Oracle /\ rounds[p] \in [Nr -> Round]
      /\ MapOfRounds(rounds[p]) /\ RoundsNear(rounds[p])
  BY AtOracle DEF MapOfRounds
<1>2. /\ rs \in [Nr -> Round] /\ rs[s] = r
      /\ \A t \in Nr \ {s} : rs[t] = rounds[p][t]
  BY <1>1 DEF Touched
<1>3. rounds' = [rounds EXCEPT ![p] = rs]
  OBVIOUS
<1> HIDE DEF rs
<1>4. MapOfRounds(rs)
  BY <1>1, <1>2 DEF MapOfRounds, Touched
<1>5. rs[s].open => rs[s].commit \/ Near(s)
  BY <1>1, <1>2 DEF RoundsNear, Touched
<1>6. rs[s].complete = rounds[p][s].complete
  BY <1>2 DEF Touched
<1> QED BY <1>2, <1>3, <1>4, <1>5, <1>6, QuietStep

\* ReceivedVerified leaves a round that has its outcome.
LEMMA ReceivedStep ==
  ASSUME IndInv, NEW p \in Local, NEW s \in Nr, NEW rs, ReceivedVerified(p, rs, s),
         MapOfRounds(rs), \A t \in Nr \ {s} : rs[t] = rounds[p][t],
         rs[s].complete = rounds[p][s].complete,
         UNCHANGED <<highestAttested, attested>>,
         signed \subseteq signed', TypesOfRest', Heard'
  PROVE  IndInv'
<1>1. CASE rs[s].commit /\ rounds' = [rounds EXCEPT ![p] = rs]
  BY <1>1, QuietStep
<1>2. CASE rounds' = [rounds EXCEPT ![p] = [WithRound(rs, s) EXCEPT ![s].commit = TRUE]]
  <2> DEFINE w == WithRound(rs, s)
             ws == [w EXCEPT ![s].commit = TRUE]
  <2>1. /\ MapOfRounds(w) /\ w[s].open /\ w[s].complete = rs[s].complete
        /\ \A t \in Nr \ {s} : w[t] = rs[t]
    BY WithRoundOpens
  <2>2. w \in [Nr -> Round]
    BY <2>1 DEF MapOfRounds
  <2> HIDE DEF w
  <2>3. /\ ws \in [Nr -> Round] /\ ws[s].open = w[s].open /\ ws[s].commit = TRUE
        /\ ws[s].complete = w[s].complete
        /\ \A t \in Nr \ {s} : ws[t] = w[t]
    BY <2>2 DEF Round
  <2>4. rounds' = [rounds EXCEPT ![p] = ws]
    BY <1>2 DEF w
  <2> HIDE DEF ws
  <2>5. MapOfRounds(ws)
    BY <2>1, <2>3 DEF MapOfRounds
  <2>6. \A t \in Nr \ {s} : ws[t] = rounds[p][t]
    BY <2>1, <2>3
  <2>7. ws[s].complete = rounds[p][s].complete /\ (ws[s].open => ws[s].commit \/ Near(s))
    BY <2>1, <2>3
  <2> QED BY <2>4, <2>5, <2>6, <2>7, QuietStep
<1> QED BY <1>1, <1>2 DEF ReceivedVerified

LEMMA CommittedOutcomeStep ==
  ASSUME IndInv, NEW p \in Local, NEW s \in Nr, CommittedOutcome(p, s)
  PROVE  IndInv'
<1>1. /\ p \in Oracle /\ TypesOfRest /\ Heard /\ MapOfRounds(rounds[p])
  BY AtOracle
<1>2. s \in 0..MaxSeqNr
  BY BoundAssumption DEF Nr
<1>3. TypesOfRest'
  BY <1>1, <1>2 DEF CommittedOutcome, ReceivedVerified, TypesOfRest, network
<1>4. Heard'
  BY <1>1 DEF CommittedOutcome, Heard, network
<1> QED BY <1>1, <1>3, <1>4, ReceivedStep DEF CommittedOutcome, network

LEMMA ComputedReportsStep ==
  ASSUME IndInv, NEW p \in Local, NEW s \in Nr,
         ComputedReports(p, s) \/ \E computed \in BOOLEAN : ReportsFail(p, s, computed)
  PROVE  IndInv'
<1>1. /\ p \in Oracle /\ p \in Honest /\ TypesOfRest /\ Heard /\ MapOfRounds(rounds[p])
      /\ rounds \in [Oracle -> [Nr -> Round]]
  BY AtOracle DEF Local
<1>2. TypesOfRest'
  BY <1>1 DEF ComputedReports, ReportsFail, TypesOfRest, network
<1>3. signed \subseteq signed' /\ highestSigned' = highestSigned
  BY DEF ComputedReports, ReportsFail, network
<1>4. Heard'
  BY <1>1, <1>3 DEF Heard
<1>5. UNCHANGED <<highestAttested, attested>>
  BY DEF ComputedReports, ReportsFail
<1>6. CASE rounds' = rounds
  <2>1. rounds' = [rounds EXCEPT ![p] = rounds[p]]
    BY <1>1, <1>6
  <2>2. rounds[p][s].open => rounds[p][s].commit \/ Near(s)
    BY AtOracle DEF RoundsNear
  <2> QED BY <1>1, <1>2, <1>3, <1>4, <1>5, <2>1, <2>2, QuietStep
<1>7. CASE rounds[p][s].open /\ \E b \in BOOLEAN : rounds' = [rounds EXCEPT ![p][s].reports = b]
  <2>1. PICK b \in BOOLEAN : rounds' = [rounds EXCEPT ![p][s].reports = b]
    BY <1>7
  <2>2. Touched(rounds[p][s], [rounds[p][s] EXCEPT !.reports = b])
    <3>1. rounds[p][s] \in Round
      BY <1>1
    <3> QED BY <3>1 DEF Touched, Round
  <2>3. rounds' = [rounds EXCEPT ![p][s] = [rounds[p][s] EXCEPT !.reports = b]]
    BY <1>1, <2>1
  <2> QED BY <1>2, <1>3, <1>4, <1>5, <1>7, <2>2, <2>3, TouchStep
<1>8. rounds' = rounds
        \/ (rounds[p][s].open /\ \E b \in BOOLEAN : rounds' = [rounds EXCEPT ![p][s].reports = b])
  BY DEF ComputedReports, ReportsFail, HasRound
<1> QED BY <1>6, <1>7, <1>8

\* Signatures: what is counted of an honest sender it has signed, so a round that
\* is opened is near what an honest oracle signed for.
LEMMA ReportSignaturesStep ==
  ASSUME IndInv, NEW p \in Local, NEW q \in Oracle, NEW s \in Nr, NEW good \in BOOLEAN,
         ReportSignatures(p, q, s, good)
  PROVE  IndInv'
<1>1. /\ p \in Oracle /\ TypesOfRest /\ Heard /\ MapOfRounds(rounds[p])
      /\ rounds \in [Oracle -> [Nr -> Round]] /\ RoundsNear(rounds[p])
  BY AtOracle
<1>2. s \in Nat /\ s \in 0..MaxSeqNr
  BY BoundAssumption DEF Nr
<1>3. highestSigned' = [highestSigned EXCEPT ![p][q] = Highest(@, s)]
  BY DEF ReportSignatures
<1>4. highestSigned \in [Oracle -> [Oracle -> 0..MaxSeqNr]]
  BY <1>1 DEF TypesOfRest
<1>5. Highest(highestSigned[p][q], s) \in 0..MaxSeqNr
  BY <1>1, <1>2, <1>4 DEF Highest
<1>6. highestSigned' \in [Oracle -> [Oracle -> 0..MaxSeqNr]]
  BY <1>1, <1>3, <1>4, <1>5
<1>7. UNCHANGED <<outcome, computing, panicked, signed, requests, replies>>
  BY DEF ReportSignatures, network
<1>8. scheduled' \in [Oracle -> SUBSET Nr]
  <2>1. scheduled' = scheduled \/ scheduled' = [scheduled EXCEPT ![p] = @ \cup {s}]
    BY DEF ReportSignatures, TryComplete
  <2>2. scheduled \in [Oracle -> SUBSET Nr]
    BY <1>1 DEF TypesOfRest
  <2> QED BY <1>1, <2>1, <2>2
<1>9. TypesOfRest'
  BY <1>1, <1>6, <1>7, <1>8 DEF TypesOfRest
<1>10. Heard'
  <2> SUFFICES ASSUME NEW l \in Local, NEW r \in Honest
               PROVE  highestSigned'[l][r] = 0 \/ <<r, highestSigned'[l][r]>> \in signed'
    BY DEF Heard
  <2>1. l \in Oracle /\ r \in Oracle
    BY DEF Local, Honest
  <2>2. highestSigned[l][r] = 0 \/ <<r, highestSigned[l][r]>> \in signed
    BY <1>1 DEF Heard
  <2>3. CASE l = p /\ r = q
    <3>1. highestSigned'[l][r] = Highest(highestSigned[l][r], s)
      BY <1>3, <1>4, <2>1, <2>3
    <3>2. <<q, s>> \in signed
      BY <2>3 DEF ReportSignatures, Honest
    <3>3. highestSigned'[l][r] \in {highestSigned[l][r], s}
      BY <3>1 DEF Highest
    <3> QED BY <1>7, <2>2, <2>3, <3>2, <3>3
  <2>4. CASE ~(l = p /\ r = q)
    <3>1. highestSigned'[l][r] = highestSigned[l][r]
      BY <1>3, <1>4, <2>1, <2>4
    <3> QED BY <1>7, <2>2, <3>1
  <2> QED BY <2>3, <2>4
<1> DEFINE w == WithRound(rounds[p], s)
           rs == [w EXCEPT ![s].signers = @ \cup {q}, ![s].good = IF good THEN @ \cup {q} ELSE @]
<1>11. /\ MapOfRounds(w) /\ w[s].open /\ w[s].commit = rounds[p][s].commit
       /\ \A t \in Nr : w[t].complete = rounds[p][t].complete
       /\ \A t \in Nr \ {s} : w[t] = rounds[p][t]
  BY <1>1, WithRoundOpens
<1>12. \/ UNCHANGED <<rounds, highestAttested, attested>>
       \/ ~IsBeyondLookahead(highestSigned'[p], s) /\ TryComplete(p, rs, s)
  BY DEF ReportSignatures
<1>13. ~IsBeyondExpiry(highestAttested[p], s)
  BY DEF ReportSignatures
<1> HIDE DEF w
<1>14. CASE UNCHANGED <<rounds, highestAttested, attested>>
  <2>1. rounds' = [rounds EXCEPT ![p] = rounds[p]]
    BY <1>1, <1>14
  <2>2. rounds[p][s].open => rounds[p][s].commit \/ Near(s)
    BY <1>1 DEF RoundsNear
  <2> QED BY <1>1, <1>7, <1>9, <1>10, <1>14, <2>1, <2>2, QuietStep
<1>15. CASE ~IsBeyondLookahead(highestSigned'[p], s) /\ TryComplete(p, rs, s)
  <2>1. w \in [Nr -> Round] /\ w[s] \in Round
    BY <1>11 DEF MapOfRounds
  <2>2. /\ w[s].signers \cup {q} \in SUBSET Oracle
        /\ (IF good THEN w[s].good \cup {q} ELSE w[s].good) \in SUBSET Oracle
    BY <2>1 DEF Round
  <2>3. rs[s] = [w[s] EXCEPT !.signers = @ \cup {q}, !.good = IF good THEN @ \cup {q} ELSE @]
        /\ \A t \in Nr \ {s} : rs[t] = w[t]
    BY <2>1
  <2>4. /\ rs[s] \in Round /\ rs[s].open = w[s].open /\ rs[s].commit = w[s].commit
        /\ rs[s].complete = w[s].complete
    BY <2>1, <2>2, <2>3 DEF Round
  <2>5. rs \in [Nr -> Round]
    <3>1. rs = [w EXCEPT ![s] = rs[s]]
      BY <2>1
    <3> HIDE DEF rs
    <3> QED BY <2>1, <2>4, <3>1
  <2> HIDE DEF rs
  <2>6. MapOfRounds(rs)
    BY <1>11, <2>3, <2>4, <2>5 DEF MapOfRounds
  <2>7. Near(s)
    <3>1. CASE ~(s > LookaheadRounds)
      BY <1>2, <3>1, WindowAssumption DEF Near
    <3>2. CASE s > LookaheadRounds
      <4> DEFINE S == {r \in Oracle : highestSigned'[p][r] >= s - LookaheadRounds}
      <4>1. ~(Cardinality(S) <= F)
        BY <1>15, <3>2 DEF IsBeyondLookahead
      <4>2. PICK r \in Honest : r \in S
        <5> HIDE DEF S
        <5>1. S \subseteq Oracle
          BY DEF S
        <5> QED BY <4>1, <5>1, SomeHonest
      <4>3. r \in Oracle /\ highestSigned'[p][r] >= s - LookaheadRounds
        BY <4>2
      <4>4. highestSigned'[p][r] \in 0..MaxSeqNr
        BY <1>1, <1>6, <4>3
      <4>5. highestSigned'[p][r] = 0 \/ <<r, highestSigned'[p][r]>> \in signed
        BY <1>7, <1>10 DEF Heard
      <4>6. /\ <<r, highestSigned'[p][r]>> \in signed
            /\ highestSigned'[p][r] \in Nr /\ s <= highestSigned'[p][r] + LookaheadRounds
        BY <1>2, <3>2, <4>3, <4>4, <4>5, WindowAssumption, BoundAssumption DEF Nr
      <4> QED BY <4>6 DEF Near
    <3> QED BY <3>1, <3>2
  <2>8. RoundsNear(rs)
    <3> SUFFICES ASSUME NEW t \in Nr, rs[t].open PROVE rs[t].commit \/ Near(t)
      BY DEF RoundsNear
    <3>1. CASE t = s
      BY <2>7, <3>1
    <3>2. CASE t # s
      BY <1>1, <1>11, <2>3, <3>2 DEF RoundsNear
    <3> QED BY <3>1, <3>2
  <2>9. \A t \in Nr : rs[t].complete = rounds[p][t].complete
    BY <1>11, <2>3, <2>4
  <2>10. rs[s].open
    BY <1>11, <2>4
  <2> QED BY <1>7, <1>9, <1>10, <1>13, <1>15, <2>6, <2>8, <2>9, <2>10, CompletionStep
<1> QED BY <1>12, <1>14, <1>15

\* The retry of a fetch: it asks one more oracle, ends, or panics.
LEMMA MissingOutcomeStep ==
  ASSUME IndInv, NEW p \in Local, NEW s \in Nr, MissingOutcome(p, s)
  PROVE  IndInv'
<1>1. /\ p \in Oracle /\ p \in Honest /\ TypesOfRest /\ Heard /\ MapOfRounds(rounds[p])
      /\ rounds \in [Oracle -> [Nr -> Round]] /\ RoundsNear(rounds[p])
  BY AtOracle DEF Local
<1>2. UNCHANGED <<outcome, highestAttested, highestSigned, computing, attested, signed, replies>>
  BY DEF MissingOutcome
<1>3. Heard'
  BY <1>1, <1>2 DEF Heard
<1>4. rounds[p][s] \in Round
  BY <1>1
<1>5. CASE rounds' = rounds /\ UNCHANGED requests
  <2>1. scheduled' = scheduled \/ scheduled' = [scheduled EXCEPT ![p] = @ \ {s}]
    BY <1>4, <1>5 DEF MissingOutcome, TryRequest
  <2>2. panicked' = panicked \/ panicked' = [panicked EXCEPT ![p] = TRUE]
    BY DEF MissingOutcome
  <2>3. TypesOfRest'
    <3>1. scheduled' \in [Oracle -> SUBSET Nr]
      <4>1. scheduled \in [Oracle -> SUBSET Nr]
        BY <1>1 DEF TypesOfRest
      <4> QED BY <1>1, <2>1, <4>1
    <3>2. panicked' \in [Oracle -> BOOLEAN]
      <4>1. panicked \in [Oracle -> BOOLEAN]
        BY <1>1 DEF TypesOfRest
      <4> QED BY <1>1, <2>2, <4>1
    <3> QED BY <1>1, <1>2, <1>5, <3>1, <3>2 DEF TypesOfRest
  <2>4. rounds' = [rounds EXCEPT ![p] = rounds[p]]
    BY <1>1, <1>5
  <2>5. rounds[p][s].open => rounds[p][s].commit \/ Near(s)
    BY <1>1 DEF RoundsNear
  <2> QED BY <1>1, <1>2, <1>3, <2>3, <2>4, <2>5, QuietStep
<1>6. CASE ~(rounds' = rounds /\ UNCHANGED requests)
  <2>1. HasRound(p, s) /\ TryRequest(p, s) /\ UNCHANGED panicked
    BY <1>6 DEF MissingOutcome
  <2>2. PICK q \in Candidates(rounds[p][s]) :
          /\ rounds' = [rounds EXCEPT ![p][s].asked = @ \cup {q}]
          /\ requests' = requests \cup {<<p, q, s>>}
          /\ UNCHANGED scheduled
    BY <1>6, <2>1 DEF TryRequest
  <2>3. q \in Oracle
    BY <1>4 DEF Candidates, Round
  <2>4. TypesOfRest'
    BY <1>1, <1>2, <2>1, <2>2, <2>3 DEF TypesOfRest
  <2> DEFINE r == [rounds[p][s] EXCEPT !.asked = @ \cup {q}]
  <2>5. Touched(rounds[p][s], r)
    BY <1>4, <2>3 DEF Touched, Round
  <2>6. rounds' = [rounds EXCEPT ![p][s] = r]
    BY <1>1, <2>2
  <2> QED BY <1>2, <1>3, <2>1, <2>4, <2>5, <2>6, TouchStep DEF HasRound
<1> QED BY <1>5, <1>6

\* The outcome is asked for: it is sent, once.
LEMMA CertifiedCommitRequestStep ==
  ASSUME IndInv, NEW p \in Local, NEW s \in Nr, NEW q \in Oracle,
         CertifiedCommitRequest(p, q, s)
  PROVE  IndInv'
<1>1. /\ p \in Oracle /\ p \in Honest /\ TypesOfRest /\ Heard /\ MapOfRounds(rounds[p])
      /\ rounds \in [Oracle -> [Nr -> Round]]
  BY AtOracle DEF Local
<1>2. /\ UNCHANGED <<outcome, highestAttested, highestSigned, computing, scheduled, panicked,
                     attested, signed, requests>>
      /\ replies' = replies \cup {<<p, q, s>>}
      /\ rounds' = [rounds EXCEPT ![p][s].served = @ \cup {q}]
      /\ rounds[p][s].commit
  BY DEF CertifiedCommitRequest
<1>3. Heard' /\ TypesOfRest'
  BY <1>1, <1>2 DEF Heard, TypesOfRest
<1>4. rounds[p][s] \in Round
  BY <1>1
<1> DEFINE r == [rounds[p][s] EXCEPT !.served = @ \cup {q}]
<1>5. Touched(rounds[p][s], r)
  BY <1>4 DEF Touched, Round
<1>6. rounds' = [rounds EXCEPT ![p][s] = r]
  BY <1>1, <1>2
<1>7. rounds[p][s].open
  BY <1>1, <1>2, RoundTypes DEF MapOfRounds
<1> QED BY <1>2, <1>3, <1>5, <1>6, <1>7, TouchStep

\* An answer: only one that was asked for counts, and only once.
LEMMA CertifiedCommitStep ==
  ASSUME IndInv, NEW p \in Local, NEW s \in Nr, NEW q \in Oracle, NEW valid \in BOOLEAN,
         CertifiedCommit(p, q, s, valid)
  PROVE  IndInv'
<1>1. /\ p \in Oracle /\ TypesOfRest /\ Heard /\ MapOfRounds(rounds[p])
      /\ rounds \in [Oracle -> [Nr -> Round]] /\ RoundsNear(rounds[p])
  BY AtOracle
<1>2. /\ UNCHANGED <<outcome, highestAttested, highestSigned, scheduled, panicked, attested>>
      /\ UNCHANGED <<signed, requests, replies>>
      /\ rounds[p][s].open
  BY DEF CertifiedCommit, network, HasRound
<1>3. Heard'
  BY <1>1, <1>2 DEF Heard
<1>4. computing' = computing \/ computing' = [computing EXCEPT ![p] = @ \cup {s}]
  BY DEF CertifiedCommit, ReceivedVerified
<1>5. TypesOfRest'
  <2>1. computing \in [Oracle -> SUBSET Nr]
    BY <1>1 DEF TypesOfRest
  <2>2. computing' \in [Oracle -> SUBSET Nr]
    BY <1>1, <1>4, <2>1
  <2> QED BY <1>1, <1>2, <2>2 DEF TypesOfRest
<1> DEFINE r == [rounds[p][s] EXCEPT !.answered = @ \cup {q}]
           rs == [rounds[p] EXCEPT ![s] = r]
<1>6. rounds[p][s] \in Round /\ rounds[p] \in [Nr -> Round]
  BY <1>1
<1>7. Touched(rounds[p][s], r)
  BY <1>6 DEF Touched, Round
<1>8. [rounds[p] EXCEPT ![s].answered = @ \cup {q}] = rs
  BY <1>6
<1>9. ReceivedVerified(p, rs, s) \/ rounds' = [rounds EXCEPT ![p] = rs]
  BY <1>8 DEF CertifiedCommit
<1> HIDE DEF r
<1>10. rs \in [Nr -> Round] /\ rs[s] = r /\ \A t \in Nr \ {s} : rs[t] = rounds[p][t]
  BY <1>6, <1>7 DEF Touched
<1> HIDE DEF rs
<1>11. MapOfRounds(rs) /\ rs[s].complete = rounds[p][s].complete
  BY <1>1, <1>2, <1>7, <1>10 DEF MapOfRounds, Touched
<1>12. rs[s].open => rs[s].commit \/ Near(s)
  BY <1>1, <1>7, <1>10 DEF RoundsNear, Touched
<1>13. CASE ReceivedVerified(p, rs, s)
  BY <1>2, <1>3, <1>5, <1>10, <1>11, <1>13, ReceivedStep
<1>14. CASE rounds' = [rounds EXCEPT ![p] = rs]
  BY <1>2, <1>3, <1>5, <1>10, <1>11, <1>12, <1>14, QuietStep
<1> QED BY <1>9, <1>13, <1>14

\* Steps that change no oracle that runs this code.
LEMMA IdleStep ==
  ASSUME IndInv, UNCHANGED <<rounds, highestAttested, attested, highestSigned>>,
         signed \subseteq signed', TypesOfRest'
  PROVE  IndInv'
<1>1. Heard'
  BY DEF IndInv, Heard
<1>2. TypeOK'
  <2>1. TypeOK
    BY DEF IndInv
  <2> QED BY <2>1 DEF TypeOK, TypesOfRest, HasRound
<1>3. \A t \in Nr : Near(t) => Near(t)'
  BY DEF Near
<1>4. (\A p \in Local : RoundsNear(rounds[p]))'
  BY <1>3 DEF IndInv, RoundsNear
<1>5. (\A p \in Local : Finished(rounds[p], highestAttested[p], attested[p]))'
  BY DEF IndInv, Finished, IsBeyondExpiry
<1> QED BY <1>1, <1>2, <1>4, <1>5 DEF IndInv

LEMMA RemoteStep ==
  ASSUME IndInv, NEW q \in Remote, NEW s \in Nr,
         RemoteSigns(q, s) \/ \E p \in Local : RemoteReplies(q, p, s)
  PROVE  IndInv'
<1>1. TypesOfRest
  BY TypeParts DEF IndInv
<1>2. q \in Honest
  BY OracleAssumption
<1>3. CASE RemoteSigns(q, s)
  <2>1. TypesOfRest'
    BY <1>1, <1>2, <1>3 DEF RemoteSigns, TypesOfRest
  <2> QED BY <1>3, <2>1, IdleStep DEF RemoteSigns
<1>4. CASE \E p \in Local : RemoteReplies(q, p, s)
  <2>1. PICK p \in Local : RemoteReplies(q, p, s)
    BY <1>4
  <2>2. p \in Oracle
    BY DEF Local, Honest
  <2>3. TypesOfRest'
    BY <1>1, <1>2, <2>1, <2>2 DEF RemoteReplies, TypesOfRest
  <2> QED BY <2>1, <2>3, IdleStep DEF RemoteReplies
<1> QED BY <1>3, <1>4

LEMMA NextStep == IndInv /\ [Next]_vars => IndInv'
<1> SUFFICES ASSUME IndInv, [Next]_vars PROVE IndInv'
  OBVIOUS
<1>1. CASE UNCHANGED vars
  <2>1. TypesOfRest'
    BY <1>1, TypeParts DEF IndInv, vars, network, TypesOfRest
  <2> QED BY <1>1, <2>1, IdleStep DEF vars, network
<1>2. CASE Next
  <2>1. PICK s \in Nr :
          \/ \E p \in Local : ~panicked[p] /\ Handle(p, s)
          \/ \E q \in Remote : RemoteSigns(q, s) \/ \E p \in Local : RemoteReplies(q, p, s)
    BY <1>2 DEF Next
  <2>2. CASE \E p \in Local : ~panicked[p] /\ Handle(p, s)
    <3>1. PICK p \in Local : Handle(p, s)
      BY <2>2
    <3>2. CASE CommittedOutcome(p, s)
      BY <3>2, CommittedOutcomeStep
    <3>3. CASE ComputedReports(p, s) \/ \E computed \in BOOLEAN : ReportsFail(p, s, computed)
      BY <3>3, ComputedReportsStep
    <3>4. CASE MissingOutcome(p, s)
      BY <3>4, MissingOutcomeStep
    <3>5. CASE \E q \in Oracle \ Remote : CertifiedCommitRequest(p, q, s)
      BY <3>5, CertifiedCommitRequestStep
    <3>6. CASE \E q \in Oracle, good \in BOOLEAN : ReportSignatures(p, q, s, good)
      BY <3>6, ReportSignaturesStep
    <3>7. CASE \E q \in Oracle, valid \in BOOLEAN : CertifiedCommit(p, q, s, valid)
      BY <3>7, CertifiedCommitStep
    <3> QED BY <3>1, <3>2, <3>3, <3>4, <3>5, <3>6, <3>7 DEF Handle
  <2>3. CASE \E q \in Remote : RemoteSigns(q, s) \/ \E p \in Local : RemoteReplies(q, p, s)
    BY <2>3, RemoteStep
  <2> QED BY <2>1, <2>2, <2>3
<1> QED BY <1>1, <1>2

-----------------------------------------------------------------------------
(* The theorems *)

\* The invariant holds in every reachable state, for any windows and oracles.
THEOREM Invariance == Spec => []IndInv
BY InitInv, NextStep, PTL DEF Spec

\* Every field keeps its type, and a round not in the map has nothing.
THEOREM TypeCorrect == Spec => []TypeOK
<1>1. IndInv => TypeOK
  BY DEF IndInv
<1> QED BY <1>1, Invariance, PTL

\* Transmission gets no reports twice, in whatever order signatures, outcomes and
\* reports come and rounds are reaped and opened again.
THEOREM NothingAttestedTwice == Spec => []AttestedOnce
<1>1. IndInv => AttestedOnce
  BY DEF IndInv, AttestedOnce, Finished
<1> QED BY <1>1, Invariance, PTL

\* Faulty oracles open no rounds that no honest oracle has come near.
THEOREM NoRoundsFarAhead == Spec => []LookaheadHolds
<1>1. IndInv => LookaheadHolds
  BY DEF IndInv, LookaheadHolds, RoundsNear, Near, HasRound
<1> QED BY <1>1, Invariance, PTL
=============================================================================
