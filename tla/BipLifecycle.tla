---------------------------- MODULE BipLifecycle ----------------------------
(***************************************************************************)
(* What governance promises of its BIPs, without saying how: a BIP is      *)
(* opened once, its tally moves only while it is open, closing fixes the   *)
(* tally and the electorate it is measured against, and it is adopted at   *)
(* most once, with the share of the electorate required, or expires.       *)
(* The BIPs are independent: any of them may move in a step.               *)
(***************************************************************************)
EXTENDS Integers

CONSTANTS
  Ballot,    \* the BIPs
  Base,      \* shares are counted in units of 1/Base
  Share      \* the share of the electorate required

VARIABLES
  phase,      \* where each BIP is in its life
  tally,      \* the roots that voted for it
  electorate  \* all the roots there were when it was closed

vars == <<phase, tally, electorate>>

Phase == {"none", "open", "closed", "adopted", "expired"}

Init ==
  /\ phase = [b \in Ballot |-> "none"]
  /\ tally = [b \in Ballot |-> 0]
  /\ electorate = [b \in Ballot |-> 0]

Stay(b) ==
  /\ phase'[b] = phase[b]
  /\ tally'[b] = tally[b]
  /\ electorate'[b] = electorate[b]

Open(b) ==
  /\ phase[b] = "none" /\ phase'[b] = "open"
  /\ tally'[b] > 0
  /\ electorate'[b] = electorate[b]

Count(b) ==
  /\ phase[b] = "open" /\ phase'[b] = "open"
  /\ tally'[b] >= 0
  /\ electorate'[b] = electorate[b]

Close(b) ==
  /\ phase[b] = "open" /\ phase'[b] = "closed"
  /\ tally'[b] = tally[b]
  /\ electorate'[b] >= tally[b]

\* Of an open BIP (at once) or of a closed one.
Adopt(b) ==
  /\ phase[b] \in {"open", "closed"} /\ phase'[b] = "adopted"
  /\ tally'[b] = tally[b]
  /\ phase[b] = "closed" => electorate'[b] = electorate[b]
  /\ electorate'[b] >= tally[b]
  /\ tally[b] * Base >= electorate'[b] * Share

Expire(b) ==
  /\ phase[b] = "closed" /\ phase'[b] = "expired"
  /\ tally'[b] = tally[b]
  /\ electorate'[b] = electorate[b]

Step(b) ==
  Stay(b) \/ Open(b) \/ Count(b) \/ Close(b) \/ Adopt(b) \/ Expire(b)

Next == \A b \in Ballot : Step(b)

Spec == Init /\ [][Next]_vars
=============================================================================
