----------------------------- MODULE PierStream -----------------------------
(***************************************************************************)
(* One direction of a peer link over a LOSSY carrier (its connection says  *)
(* reliable:false): the frames one Pier books and sends, the carrier that  *)
(* loses, duplicates and reorders them, and the far Pier's seq discipline. *)
(* src/Ghost/N/Peeroleum.g with src/Ghost/N/Reliable.g.                    *)
(*                                                                         *)
(* A frame is its seq.  Deliveries are atomic: the carrier delivers inside *)
(* post_do, which holds the beliefs mutex across the whole                 *)
(* Peeroleum_deliver, its inbox.do() and the acks it sends.                *)
(*                                                                         *)
(* The inbox itself is not state here: a run is dispatched to completion   *)
(* within the delivery that releases it, and what the inbox remembers      *)
(* afterwards is not read on a lossy carrier (RelayStream models the       *)
(* carrier whose duplicates it does decide).                               *)
(***************************************************************************)
EXTENDS Outbox

CONSTANTS MaxSeq,      \* seqs the sender draws before the model stops
          MaxBeacons,  \* of them, seqs burnt by frames that are never booked
          MaxResets    \* re-dials, counted over both ends

ASSUME StreamAssumption == /\ MaxSeq \in Nat /\ MaxBeacons \in Nat
                           /\ MaxResets \in Nat

VARIABLES
  nseq,      \* sender: pier.c.seq, the last seq drawn
  outbox,    \* sender: %outbox/emit
  stalled,   \* sender: seqs latched under %stalled
  net,       \* frames in flight, sender to receiver
  acks,      \* acks in flight, receiver to sender
  inseq,     \* receiver: pier.c.inseq, the cursor
  held,      \* receiver: the seqs whose frames wait in pier.c.held
  log,       \* history: seqs dispatched to req_unemit, in order
  beacons,   \* history: seqs burnt by frames that book no emit
  forgotten, \* history: booked seqs whose emit was dropped unresolved
  resets     \* bound: re-dials so far

senderVars == <<nseq, outbox, stalled, beacons>>
receiverVars == <<inseq, held, log>>
vars == <<nseq, outbox, stalled, net, acks, inseq, held, log, beacons,
          forgotten, resets>>

Seqs == 1..MaxSeq

Init ==
  /\ nseq = 0
  /\ outbox = EmptyOutbox
  /\ stalled = {}
  /\ net = {}
  /\ acks = {}
  /\ inseq = FreshCursor
  /\ held = {}
  /\ log = <<>>
  /\ beacons = {}
  /\ forgotten = {}
  /\ resets = 0

-----------------------------------------------------------------------------
\* The sender.

\* The emits of live, un-acked frames: what a drop of them loses track of.
Unsettled(seqs) == {s \in seqs : ~outbox[s].acked}

\* Peeroleum_send_to with a reliable frame type: draw a seq, book the emit
\* (with the backstop), hand the frame to the carrier.
Send ==
  /\ nseq < MaxSeq
  /\ nseq' = nseq + 1
  /\ outbox' = BookEmit(outbox, nseq')
  /\ forgotten' = forgotten \cup Unsettled(Backstop(outbox))
  /\ net' = net \cup {nseq'}
  /\ UNCHANGED <<stalled, acks, receiverVars, beacons, resets>>

\* Peeroleum_send_to with an ephemeral type: it draws a seq all the same, but
\* books no emit.  A pulse or a swarm_hi the far end dispatches without showing
\* it to inseq; an ive_got or a repli_page goes through inseq like any frame.
SendBeacon ==
  /\ nseq < MaxSeq
  /\ Cardinality(beacons) < MaxBeacons
  /\ nseq' = nseq + 1
  /\ beacons' = beacons \cup {nseq'}
  /\ net' \in {net, net \cup {nseq'}}
  /\ UNCHANGED <<outbox, stalled, acks, receiverVars, forgotten, resets>>

\* An ack reaches the sender.
ReceiveAck(s) ==
  /\ s \in acks
  /\ acks' \in {acks, acks \ {s}}
  /\ outbox' = TakeAck(outbox, s)
  /\ UNCHANGED <<nseq, stalled, net, receiverVars, beacons, forgotten, resets>>

\* Mutated form: the dead are dropped before %stalled is latched from them.
BeatForgetful ==
  /\ net' = net \cup RetxDue(Aged(outbox)).resend
  /\ outbox' = Culled(Swept(outbox))
  /\ UNCHANGED <<nseq, stalled, acks, receiverVars, beacons, forgotten, resets>>

\* One beat of the sweeps: resend the due, latch and drop the dead, then cull
\* the acked.
Beat ==
  /\ LET verdict == RetxDue(Aged(outbox))
     IN  /\ net' = net \cup verdict.resend
         /\ stalled' = stalled \cup verdict.dead
  /\ outbox' = Culled(Swept(outbox))
  /\ UNCHANGED <<nseq, acks, receiverVars, beacons, forgotten, resets>>

-----------------------------------------------------------------------------
\* The receiver.

\* The seqs of a released run that still have a frame to book.
Booked(ready, s) ==
  LET framed(r) == r = s \/ r \in held
  IN  IF \A i \in DOMAIN ready : framed(ready[i])
      THEN ready
      ELSE SelectSeq(ready, framed)

\* Mutated form: every frame that releases no run is acked, held or not.
AdmitAckingHeld(s, bad) ==
  LET verdict == InseqAdmit(inseq, s)
      run == Booked(verdict.ready, s)
      ran == {run[i] : i \in DOMAIN run}
  IN  /\ inseq' = verdict.st
      /\ bad \subseteq ran
      /\ log' = log \o run
      /\ acks' = acks \cup (ran \ bad) \cup {s}
      /\ held' = IF verdict.ready = <<>> /\ s > inseq.last THEN held \cup {s}
                 ELSE held \ {verdict.ready[i] : i \in DOMAIN verdict.ready}

\* Peeroleum_deliver of frame s: fold it into the cursor, then re-ack a
\* duplicate, hold a frame behind a gap, or book and drain the released run.
\* bad is the part of the run whose unemit ends in an error and so draws no
\* ack: a refusing or throwing handler, a corrupt body, a frame before %Ud.
Admit(s, bad) ==
  LET verdict == InseqAdmit(inseq, s)
      run == Booked(verdict.ready, s)
      ran == {run[i] : i \in DOMAIN run}
  IN  /\ inseq' = verdict.st
      /\ bad \subseteq ran
      /\ log' = log \o run
      /\ \/ /\ verdict.ready = <<>>
            /\ s <= inseq.last
            /\ acks' = acks \cup {s}
            /\ UNCHANGED held
         \/ /\ verdict.ready = <<>>
            /\ s > inseq.last
            /\ held' = held \cup {s}
            /\ UNCHANGED acks
         \/ /\ verdict.ready # <<>>
            /\ held' = held \ {verdict.ready[i] : i \in DOMAIN verdict.ready}
            /\ acks' = acks \cup (ran \ bad)

\* The carrier delivers a frame, and may keep a copy to deliver again.
Deliver(s) ==
  /\ s \in net
  /\ net' \in {net, net \ {s}}
  /\ \E bad \in SUBSET Seqs : Admit(s, bad)
  /\ UNCHANGED <<senderVars, forgotten, resets>>

-----------------------------------------------------------------------------
\* The carrier and the re-dial.

LoseFrame(s) ==
  /\ s \in net
  /\ net' = net \ {s}
  /\ UNCHANGED <<senderVars, acks, receiverVars, forgotten, resets>>

LoseAck(s) ==
  /\ s \in acks
  /\ acks' = acks \ {s}
  /\ UNCHANGED <<senderVars, net, receiverVars, forgotten, resets>>

\* Peeroleum_reset_handshake at the sending end: the outbox and the stall
\* latch go, the seq counter stays.
ResetSender ==
  /\ resets < MaxResets
  /\ resets' = resets + 1
  /\ outbox' = EmptyOutbox
  /\ stalled' = {}
  /\ forgotten' = forgotten \cup Unsettled(DOMAIN outbox) \cup stalled
  /\ UNCHANGED <<nseq, net, acks, receiverVars, beacons>>

\* Mutated forms: a reset that clears the frames but not their seqs; and one
\* that re-bases the cursor as well.
ResetReceiverHalf ==
  /\ resets < MaxResets
  /\ resets' = resets + 1
  /\ held' = {}
  /\ UNCHANGED <<senderVars, net, acks, inseq, log, forgotten>>

ResetReceiverRebased ==
  /\ resets < MaxResets
  /\ resets' = resets + 1
  /\ inseq' = FreshCursor
  /\ held' = {}
  /\ UNCHANGED <<senderVars, net, acks, log, forgotten>>

\* Peeroleum_reset_handshake at the receiving end: the held tail goes, its
\* seqs with its frames; the cursor's `last' stays.
ResetReceiver ==
  /\ resets < MaxResets
  /\ resets' = resets + 1
  /\ inseq' = [last |-> inseq.last, buffered |-> {}]
  /\ held' = {}
  /\ UNCHANGED <<senderVars, net, acks, log, forgotten>>

Next ==
  \/ Send
  \/ SendBeacon
  \/ Beat
  \/ \E s \in Seqs : \/ ReceiveAck(s)
                     \/ Deliver(s)
                     \/ LoseFrame(s)
                     \/ LoseAck(s)
  \/ ResetSender
  \/ ResetReceiver

Spec == Init /\ [][Next]_vars

\* The sweeps are driven by a timer that keeps running (the live tab's
\* trickle, a Story's step boundary); nothing is assumed of the carrier.
FairSpec == Spec /\ WF_vars(Beat)

-----------------------------------------------------------------------------
\* Properties.

\* Every variable keeps to its shape.
TypeOK ==
  /\ nseq \in 0..MaxSeq
  /\ DOMAIN outbox \subseteq Seqs
  /\ outbox \in [DOMAIN outbox -> EmitType]
  /\ stalled \subseteq Seqs
  /\ net \subseteq Seqs
  /\ acks \subseteq Seqs
  /\ inseq \in [last : 0..MaxSeq, buffered : SUBSET Seqs]
  /\ held \subseteq Seqs
  /\ log \in Seq(Seqs)
  /\ beacons \subseteq Seqs
  /\ forgotten \subseteq Seqs
  /\ resets \in 0..MaxResets

\* The correctness floor of Reliable.g: whatever the carrier loses, repeats or
\* swaps, and whenever either end re-dials, req_unemit sees every seq up to the
\* cursor exactly once, in the order sent.
ExactlyOnceInOrder ==
  /\ Len(log) = inseq.last
  /\ \A i \in DOMAIN log : log[i] = i

\* "Two halves of one fact" (Peeroleum_reset_handshake): the seqs the cursor
\* holds are the seqs whose frames are kept, all of them beyond the gap.
HeldTail ==
  /\ inseq.buffered = held
  /\ \A s \in held : inseq.last + 1 < s /\ s <= nseq

\* An ack in flight, or an emit stamped %acked, names a frame the receiver
\* has dispatched, never one it merely holds behind a gap.
AckedWasAdmitted ==
  \A s \in acks \cup Acked(outbox) : s <= inseq.last

\* No booked frame is lost without a trace at the sender: until the receiver
\* has it, it is an emit still being retried, or latched under %stalled, or
\* one of those a re-dial or the outbox backstop dropped.
NothingVanishes ==
  \A s \in 1..nseq :
    \/ s <= inseq.last
    \/ s \in DOMAIN outbox
    \/ s \in stalled \cup forgotten \cup beacons

\* What is booked or in flight was sent, and the cursor is never ahead of the
\* sender.
Causality ==
  /\ DOMAIN outbox \subseteq 1..nseq
  /\ net \subseteq 1..nseq
  /\ inseq.last <= nseq

\* The inductive invariant: each safety property above leans on the others.
StreamInv ==
  /\ TypeOK
  /\ ExactlyOnceInOrder
  /\ HeldTail
  /\ AckedWasAdmitted
  /\ NothingVanishes
  /\ Causality

\* The next seq the cursor waits for was drawn, but no emit will resend it and
\* no copy of it is on the wire.
Unfillable(n) == inseq.last + 1 = n /\ n \in (1..nseq) \ (DOMAIN outbox \cup net)

\* "No-SACK: anything behind an unfillable gap dies too" (retx_due): a gap that
\* nothing can supply is never supplied again, not by a later send, a resend, a
\* late duplicate or a re-dial of either end, and req_unemit never sees the
\* missing seq or one behind it.
UnfillableGapIsForever ==
  \A n \in Seqs :
    [](Unfillable(n) => [](Unfillable(n) /\ \A i \in DOMAIN log : log[i] < n))

\* The link keeps the promise of OrderedDelivery.
Promise == INSTANCE OrderedDelivery
             WITH sent <- nseq, delivered <- log, confirmed <- Acked(outbox)

KeepsPromise == Promise!Spec

\* Every frame booked is dispatched in the end, or its loss is on record at
\* the sender: no emit is left in the outbox for ever, un-acked and undead.
EveryFrameAccounted ==
  \A s \in Seqs :
    (s \in DOMAIN outbox) ~> (s <= inseq.last \/ s \in stalled \cup forgotten)
=============================================================================
