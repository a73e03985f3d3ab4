------------------------- MODULE PacemakerProperties -------------------------
(***************************************************************************)
(* What the pacemakers of the oracles promise together: see Pacemaker.     *)
(***************************************************************************)
EXTENDS Pacemaker

\* Every variable has the type of the field it stands for.
TypeOK ==
  /\ e \in [Oracle -> Epoch] /\ ne \in [Oracle -> Epoch]
  /\ wishes \in [Oracle -> [Oracle -> Wish \cup {0}]]
  /\ tProgress \in [Oracle -> BOOLEAN] /\ notify \in [Oracle -> BOOLEAN]
  /\ disk \in [Oracle -> [epoch : Epoch, ne : Epoch] \cup {NoState}]
  /\ sent \in [Oracle -> SUBSET Epoch]

\* the honest oracles that ever sent a wish for epoch x or a later one
Supporters(x) == {q \in Honest : \E y \in sent[q] : y >= x}

\* the honest oracles that wish for less than they once sent: their write failed,
\* and they restarted
Forgetful == {q \in Honest : \E y \in sent[q] : y > ne[q]}

\* The faulty ones can not move anybody by themselves: more than F honest oracles
\* sent a wish for the epoch of any honest oracle.  Those that forgot theirs count
\* as faults; as long as there are F of them at most, more than F honest ones still
\* wish for that epoch.
EpochSupported ==
  \A p \in Honest :
    /\ Cardinality(Supporters(e[p])) > F
    /\ Cardinality(Faulty \cup Forgetful) <= F =>
         Cardinality({q \in Honest : ne[q] >= e[p]}) > F

\* No honest oracle ever sent a wish for an epoch unless more than F honest ones had
\* wished for the epoch before it or a later one, whatever the faulty ones wish for
\* and whatever is lost: epochs are taken one by one.
NoEpochJumped ==
  \A p \in Honest : \A x \in sent[p] : x > 1 => Cardinality(Supporters(x - 1)) > F

\* The others were told of every wish, also of one that a join or a switch made.
\* What a restart would restore was sent, too, and is not ahead of memory.  Where
\* the database takes the writes, a restart takes nothing back.
WishesDurable ==
  \A p \in Honest :
    /\ ne[p] \in sent[p] /\ Restored(p).ne \in sent[p]
    /\ Restored(p).epoch <= e[p] /\ Restored(p).ne <= ne[p]
    /\ Restored(p).epoch <= Restored(p).ne
    /\ p \notin FailingDB =>
         /\ Restored(p) = [epoch |-> e[p], ne |-> ne[p]]
         /\ \A x \in sent[p] : x <= ne[p]

\* An oracle never returns to an earlier epoch or a lower wish, restarts included,
\* unless its database refuses writes.
NeverBack ==
  [][\A p \in Honest \ (FailingDB \cap MayRestart) : e'[p] >= e[p] /\ ne'[p] >= ne[p]]_vars

-----------------------------------------------------------------------------
(* Liveness *)

\* What keeps a pacemaker going: its select has a channel that is ready, its timer
\* fires, or the wish that tResend repeats gets through.
Runs(p) ==
  \/ NotifyOutcomeGeneration(p)
  \/ \E written \in BOOLEAN : TProgressTimeout(p, written)
  \/ \E q \in Honest : Matters(p, q, ne[q]) /\ \E written \in BOOLEAN :
       NewEpochWish(p, q, ne[q], written)

\* As long as some honest oracle can go on, one does.  No order is assumed.
Fairness == WF_vars(\E p \in Honest : Runs(p))

FairSpec == Spec /\ Fairness

\* From some moment on nobody restarts, and no round is committed.
Settled ==
  <>[][\A p \in Honest : ~Restart(p) /\ ~Progress(p)]_vars

\* No honest oracle stays in the epoch of a failed leader, also if it missed the
\* switch of the others: without progress all go on from epoch to epoch, to the
\* last one there is here, and outcome generation is told.
FailedLeadersLeft == Settled => <>(\A p \in Honest : e[p] = MaxEpoch /\ ~notify[p])
=============================================================================
