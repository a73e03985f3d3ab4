------------------------------ MODULE Pacemaker ------------------------------
(***************************************************************************)
(* The pacemaker of the OCR3 protocol: it decides when an oracle leaves an *)
(* epoch, and with it the epoch's leader, and keeps the oracles' epochs    *)
(* together (offchainreporting2plus/internal/ocr3/protocol/pacemaker.go).  *)
(* An oracle broadcasts the epoch it wishes for; F + 1 wishes make it join *)
(* them, 2F + 1 make it switch.  It writes both to disk first, but goes on *)
(* if the write fails: then a restart takes them back.                     *)
(*                                                                         *)
(* The network is the set of wishes each oracle ever sent: tResend repeats *)
(* the last one for ever, earlier ones may still arrive, late or twice.    *)
(***************************************************************************)
EXTENDS Integers, FiniteSets

CONSTANTS
  Oracle,      \* the oracles of the configuration
  Faulty,      \* the oracles that may send any wish to anybody
  MayRestart,  \* the oracles that may crash and restart
  FailingDB,   \* the oracles whose database may refuse a write
  FaultyWish,  \* the wishes the faulty oracles may send
  Progressing, \* the oracles whose outcome generation may commit rounds
  F,           \* the number of faults the configuration tolerates
  MaxEpoch     \* bound: no timeout in this epoch or later

Honest == Oracle \ Faulty

ASSUME OracleAssumption == IsFiniteSet(Oracle) /\ Faulty \subseteq Oracle
ASSUME FaultAssumption ==
  F \in Nat /\ Cardinality(Oracle) >= 3 * F + 1 /\ Cardinality(Faulty) <= F
ASSUME RestartAssumption == MayRestart \subseteq Honest
ASSUME DatabaseAssumption == FailingDB \subseteq Honest
ASSUME BoundAssumption == MaxEpoch \in Nat \ {0}

Epoch == 1..MaxEpoch
Wish == Epoch \cup FaultyWish

ASSUME WishAssumption == FaultyWish \subseteq Nat /\ Progressing \subseteq Honest

VARIABLES
  e,          \* the current epoch of each oracle
  ne,         \* the highest epoch it has wished for
  wishes,     \* newEpochWishes: the highest wish it has received of each oracle
  tProgress,  \* whether its progress timer runs
  notify,     \* notifyOutcomeGenerationOfNewEpoch: its outcome generation is not
              \* in the current epoch yet
  disk,       \* its PacemakerState in the database, zero before the first write
  sent        \* every wish it ever broadcast

vars == <<e, ne, wishes, tProgress, notify, disk, sent>>

NoState == [epoch |-> 0, ne |-> 0]

Init ==
  /\ e = [p \in Oracle |-> 1]
  /\ ne = [p \in Oracle |-> 1]
  /\ wishes = [p \in Oracle |-> [q \in Oracle |-> 0]]
  /\ tProgress = [p \in Oracle |-> TRUE]
  /\ notify = [p \in Oracle |-> TRUE]
  /\ disk = [p \in Oracle |-> NoState]
  /\ sent = [p \in Oracle |-> {1}]

\* the outcome generation takes EventNewEpochStart
NotifyOutcomeGeneration(p) ==
  /\ notify[p]
  /\ notify' = [notify EXCEPT ![p] = FALSE]
  /\ UNCHANGED <<e, ne, wishes, tProgress, disk, sent>>

\* eventProgress: a round was committed; it restarts a timer that runs, too
Progress(p) ==
  /\ p \in Progressing /\ ~tProgress[p]
  /\ tProgress' = [tProgress EXCEPT ![p] = TRUE]
  /\ UNCHANGED <<e, ne, wishes, notify, disk, sent>>

Highest(x, y) == IF x < y THEN y ELSE x

\* Bug: the wish is sent but not written.
RequestUnwritten(p, written) ==
  /\ e[p] < MaxEpoch
  /\ tProgress' = [tProgress EXCEPT ![p] = FALSE]
  /\ ne' = [ne EXCEPT ![p] = IF @ < e[p] + 1 THEN e[p] + 1 ELSE @]
  /\ sent' = [sent EXCEPT ![p] = @ \cup {ne'[p]}]
  /\ UNCHANGED <<e, wishes, notify, disk>>
\* Bug: the wish is raised only if it is behind the epoch the oracle is in.
RequestTooLate(p, written) ==
  /\ e[p] < MaxEpoch
  /\ written \/ p \in FailingDB
  /\ tProgress' = [tProgress EXCEPT ![p] = FALSE]
  /\ ne' = [ne EXCEPT ![p] = IF @ < e[p] THEN e[p] + 1 ELSE @]
  /\ disk' = [disk EXCEPT ![p] =
       IF written /\ ne[p] < e[p] THEN [epoch |-> e[p], ne |-> e[p] + 1] ELSE @]
  /\ sent' = [sent EXCEPT ![p] = @ \cup {ne'[p]}]
  /\ UNCHANGED <<e, wishes, notify>>
\* eventNewEpochRequest: wish for the epoch after the current one, unless a wish
\* at least as high was sent already, and send the wish; if it could not be
\* written, too
RequestNewEpoch(p, written) ==
  /\ e[p] < MaxEpoch
  /\ written \/ p \in FailingDB
  /\ tProgress' = [tProgress EXCEPT ![p] = FALSE]
  /\ disk' = [disk EXCEPT ![p] =
       IF written /\ ne[p] < e[p] + 1 THEN [epoch |-> e[p], ne |-> e[p] + 1] ELSE @]
  /\ ne' = [ne EXCEPT ![p] = Highest(@, e[p] + 1)]
  /\ sent' = [sent EXCEPT ![p] = @ \cup {ne'[p]}]
  /\ UNCHANGED <<e, wishes, notify>>

TProgressTimeout(p, written) == tProgress[p] /\ RequestNewEpoch(p, written)

\* The outcome generation asks for a new epoch: tInitial fired, or the epoch had
\* RMax rounds.  The request carries no epoch: it may be about an earlier one.
OutcomeGenerationRequest(p, written) == RequestNewEpoch(p, written)

Above(w, x) == {q \in Oracle : w[q] > x}

\* the k-th largest wish of w
Largest(w, k) ==
  CHOOSE x \in {w[q] : q \in Oracle} :
    /\ Cardinality({q \in Oracle : w[q] >= x}) >= k
    /\ Cardinality({q \in Oracle : w[q] > x}) < k

\* more than k oracles wish for an epoch after x
Supported(w, x, k) == Cardinality(Above(w, x)) > k

\* Bug: the largest wish is taken, whoever sent it.
LargestOfAll(w, k, x) == IF Supported(w, x, k) THEN Largest(w, 1) ELSE 0
\* sortedGreaterThan and the element taken of it: the highest epoch that more
\* than k oracles wish for, 0 if it is not after x
WishedFor(w, k, x) == IF Supported(w, x, k) THEN Largest(w, k + 1) ELSE 0

\* the state that is written: "ne <- max{ne, e}" is part of it
RaisedState(epoch, wish) == [epoch |-> epoch, ne |-> Highest(wish, epoch)]

\* messageNewEpochWish
NewEpochWish(p, q, x, written) ==
  LET w == [wishes[p] EXCEPT ![q] = Highest(@, x)]
      wishForEpoch == WishedFor(w, F, ne[p])
      switchToEpoch == WishedFor(w, 2 * F, e[p])
      wish == IF wishForEpoch = 0 THEN ne[p] ELSE wishForEpoch
      epoch == IF switchToEpoch = 0 THEN e[p] ELSE switchToEpoch
  IN
  /\ IF q \in Faulty THEN x \in FaultyWish ELSE x \in sent[q]
  /\ written \/ p \in FailingDB
  /\ wishes' = [wishes EXCEPT ![p] = w]
  /\ disk' = [disk EXCEPT ![p] =
       IF written /\ (wishForEpoch # 0 \/ switchToEpoch # 0)
       THEN RaisedState(epoch, wish) ELSE @]
  /\ ne' = [ne EXCEPT ![p] = Highest(wish, epoch)]
  /\ e' = [e EXCEPT ![p] = epoch]
  /\ sent' = [sent EXCEPT ![p] = IF wishForEpoch = 0 THEN @ ELSE @ \cup {wish}]
  /\ tProgress' = [tProgress EXCEPT ![p] = @ \/ switchToEpoch # 0]
  /\ notify' = [notify EXCEPT ![p] = @ \/ switchToEpoch # 0]

\* tResend fires: the current wish is sent again.  The switch raises ne without
\* sending it, so that it might be an epoch that was never sent.
TResendTimeout(p) ==
  /\ sent' = [sent EXCEPT ![p] = @ \cup {ne[p]}]
  /\ UNCHANGED <<e, ne, wishes, tProgress, notify, disk>>

\* what a restart takes from the database
Restored(p) == IF disk[p] = NoState THEN [epoch |-> 1, ne |-> 1] ELSE disk[p]

\* the process stops and starts again
Restart(p) ==
  /\ p \in MayRestart
  /\ e' = [e EXCEPT ![p] = Restored(p).epoch]
  /\ ne' = [ne EXCEPT ![p] = Restored(p).ne]
  /\ wishes' = [wishes EXCEPT ![p] = [q \in Oracle |-> 0]]
  /\ tProgress' = [tProgress EXCEPT ![p] = TRUE]
  /\ notify' = [notify EXCEPT ![p] = TRUE]
  /\ sent' = [sent EXCEPT ![p] = @ \cup {ne'[p]}]
  /\ UNCHANGED disk

\* A wish that is not above the last one of its sender changes nothing; one that
\* is not after the epoch is counted nowhere, now or later.
Matters(p, q, x) == x > wishes[p][q] /\ x > e[p]

Next ==
  \E p \in Honest :
    \/ NotifyOutcomeGeneration(p)
    \/ Progress(p)
    \/ \E written \in BOOLEAN :
         \/ TProgressTimeout(p, written)
         \/ OutcomeGenerationRequest(p, written)
         \/ \E q \in Oracle, x \in Wish : Matters(p, q, x) /\ NewEpochWish(p, q, x, written)
    \/ TResendTimeout(p)
    \/ Restart(p)

Spec == Init /\ [][Next]_vars
=============================================================================
