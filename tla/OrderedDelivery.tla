-------------------------- MODULE OrderedDelivery --------------------------
(***************************************************************************)
(* What a peer link promises the code above it, with the carrier, the      *)
(* retransmits and the cursors left out: the far side sees the frames sent *)
(* to it in order, each once, with no hole, however far behind it runs;    *)
(* and the sender is told only of frames that got there.                   *)
(***************************************************************************)
EXTENDS Integers, Sequences

VARIABLES
  sent,       \* frames 1..sent have been sent
  delivered,  \* the frames dispatched at the far side, in order
  confirmed   \* the frames the sender holds to be delivered

vars == <<sent, delivered, confirmed>>

Init == sent = 0 /\ delivered = <<>> /\ confirmed = {}

\* Sending may push what was confirmed out of a bounded memory.
Send ==
  /\ sent' = sent + 1
  /\ confirmed' \in SUBSET confirmed
  /\ UNCHANGED delivered

\* The next frames, in one go, up to frame `upto'.
DeliverUpTo(upto) ==
  /\ upto \in (Len(delivered) + 1)..sent
  /\ delivered' = [i \in 1..upto |-> i]
  /\ UNCHANGED <<sent, confirmed>>

\* The sender learns of deliveries, and may forget what it learnt.
Confirm ==
  /\ confirmed' \in SUBSET (1..Len(delivered))
  /\ UNCHANGED <<sent, delivered>>

Next == Send \/ (\E upto \in 1..sent : DeliverUpTo(upto)) \/ Confirm

Spec == Init /\ [][Next]_vars
=============================================================================
