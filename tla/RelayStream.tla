---------------------------- MODULE RelayStream ----------------------------
(***************************************************************************)
(* One direction of a peer link over a RELIABLE carrier (the relay         *)
(* websocket): src/Ghost/N/Peeroleum.g where conn.reliable is not false,   *)
(* with the era check of src/Ghost/S/Swarm.g.                              *)
(*                                                                         *)
(* The carrier is FIFO, but a reconnect loses what was in transit, and the *)
(* sweep then resends: an old seq can arrive behind a newer one.  The      *)
(* sender may restart (a reloaded tab): its seqs begin again at 1 under a  *)
(* new era, while the receiver still holds the rows of the one before.     *)
(*                                                                         *)
(* A frame is [seq, type, inc]; inc is the sender's incarnation, which the *)
(* code carries as the era of a swarm frame.  Two frames of one seq and    *)
(* type stand for frames with equal body_hash and body_len too.            *)
(*                                                                         *)
(* A row of the inbox, or of its ledger, stands for one dispatch and is    *)
(* named by the place of that dispatch in log: "oldest first", the order   *)
(* the code keeps its particles in, is the order of the places.            *)
(***************************************************************************)
EXTENDS Outbox, SequencesExt

CONSTANTS Types,       \* types that book an inbox row
          Knock,       \* the one among them that is a pier_hello
          Pulse,       \* pulse, swarm_hi: ephemeral, and bear an era
          Stride,      \* deliveries per visit of the inbox bound (50)
          DoneKeep,    \* served rows the bound leaves in place (200)
          LedgerKeep,  \* ledger rows the bound leaves (400)
          RecentKeep,  \* ledger rows the step-boundary cull leaves (200)
          InboxCap,    \* rows before the backstop sheds (2000)
          MaxSeq,      \* frames per incarnation of the sender
          MaxBoots,    \* incarnations
          MaxTroubles, \* restarts, re-dials, and frames or acks lost
          MaxTransit,  \* frames in transit at once
          MaxAcks      \* acks in transit when a frame is taken off the wire

ASSUME RelayAssumption ==
  /\ Knock \in Types /\ Pulse \notin Types
  /\ Stride \in Nat \ {0} /\ DoneKeep \in Nat /\ InboxCap \in Nat
  /\ LedgerKeep \in Nat /\ RecentKeep \in 0..LedgerKeep
  /\ MaxSeq \in Nat /\ MaxBoots \in Nat \ {0}
  /\ MaxTroubles \in Nat /\ MaxTransit \in Nat
  /\ MaxAcks \in Nat

VARIABLES
  inc,      \* sender: station_era, 1 for the first boot
  sent,     \* sender: the types of the seqs drawn in this incarnation
  outbox,   \* sender: %outbox/emit
  wire,     \* frames in transit, in order
  acks,     \* acks in transit, in order
  hiseq,    \* receiver: pier.c.hiseq, the high-water of the fast path
  rows,     \* receiver: the finished %req:unemit rows of the inbox
  ledger,   \* receiver: %inbox/recent
  peerEra,  \* receiver: route.c.peer_era, 0 when none was heard
  stride,   \* receiver: pier.c.bound_stride
  epoch,    \* history: times the receiver dropped its inbox
  log,      \* frames handed to a handler, with the verdict (history: the epoch)
  acked,    \* history: frames the receiver has acked, with the epoch
  shed,     \* history: rows the backstop dropped
  troubles  \* bound: what has gone wrong so far

senderVars == <<inc, sent, outbox>>
receiverVars == <<hiseq, rows, ledger, peerEra, stride, epoch, log,
                 acked, shed>>
vars == <<senderVars, wire, acks, receiverVars, troubles>>

Frame(s, t, i) == [seq |-> s, type |-> t, inc |-> i]

Init ==
  /\ inc = 1 /\ sent = <<>> /\ outbox = EmptyOutbox
  /\ wire = <<>> /\ acks = <<>>
  /\ hiseq = 0 /\ rows = {} /\ ledger = {} /\ peerEra = 0 /\ stride = 0
  /\ epoch = 0 /\ log = <<>> /\ acked = {} /\ shed = {}
  /\ troubles = 0

-----------------------------------------------------------------------------
\* The sender.

\* Peeroleum_send_to: draw a seq, book an emit unless the type is ephemeral.
Send(t) ==
  /\ Len(sent) < MaxSeq
  /\ sent' = Append(sent, t)
  /\ outbox' = IF t = Pulse THEN outbox ELSE BookEmit(outbox, Len(sent'))
  /\ wire' = Append(wire, Frame(Len(sent'), t, inc))
  /\ Len(wire') <= MaxTransit
  /\ UNCHANGED <<inc, acks, receiverVars, troubles>>

\* A finite set of seqs as a sequence, in ascending order.
InOrder(S) ==
  {q \in [1..Cardinality(S) -> S] : \A k, l \in DOMAIN q : k < l => q[k] < q[l]}

\* The sweeps: resend the due in seq order, drop the dead, cull the acked.
Beat ==
  /\ \E due \in InOrder(RetxDue(Aged(outbox)).resend) :
       wire' = wire \o [k \in DOMAIN due |-> Frame(due[k], sent[due[k]], inc)]
  /\ Len(wire') <= MaxTransit
  /\ outbox' = Culled(Swept(outbox))
  /\ UNCHANGED <<inc, sent, acks, receiverVars, troubles>>

ReceiveAck ==
  /\ acks # <<>>
  /\ outbox' = TakeAck(outbox, Head(acks))
  /\ acks' = Tail(acks)
  /\ UNCHANGED <<inc, sent, wire, receiverVars, troubles>>

\* The tab reloads.  What its old socket handed the relay is still on its way.
Restart ==
  /\ inc < MaxBoots
  /\ troubles < MaxTroubles
  /\ inc' = inc + 1
  /\ troubles' = troubles + 1
  /\ sent' = <<>>
  /\ outbox' = EmptyOutbox
  /\ UNCHANGED <<wire, acks, receiverVars>>

-----------------------------------------------------------------------------
\* The receiver's memory of what it served.

\* The rows the bound and the cull may move to the ledger; those it may shed.
Served(R) == {i \in R : log'[i].ok}

Bulk(R) == {i \in R : log'[i].frame.type # Knock}

Oldest(S, n) == {s \in S : Cardinality({t \in S : t <= s}) <= n}

\* The inbox after the bound: promote all but the newest DoneKeep served rows,
\* whittle the ledger, then shed the excess over InboxCap, oldest first, but
\* never a control-plane frame.
Bound(R) ==
  LET promoted == Served(R) \ Newest(Served(R), DoneKeep)
      left == R \ promoted
      bulk == Oldest(Bulk(left), Cardinality(left) - InboxCap)
  IN  [rows   |-> left \ bulk,
       shed   |-> bulk,
       ledger |-> Newest(ledger \cup promoted, LedgerKeep)]

\* Same frame as far as the inbox can tell: by seq and type alone.
SameRow(f, g) == f.seq = g.seq /\ f.type = g.type

\* Mutated forms: anything under the high-water is taken for a duplicate; and
\* the live inbox alone is asked.
RememberedByHighWater(f) == f.seq <= hiseq

RememberedInRows(f) == \E i \in rows : SameRow(log[i].frame, f)

Remembered(f) == \E i \in rows \cup ledger : SameRow(log[i].frame, f)

-----------------------------------------------------------------------------
\* Peeroleum_deliver on a reliable carrier.

Arrive(f) ==
  /\ wire' = Tail(wire)
  /\ UNCHANGED <<senderVars, troubles>>

InEpoch(f, e) == [frame |-> f, epoch |-> e]

Logged(f, e, ok) == Append(log, [frame |-> f, epoch |-> e, ok |-> ok])

\* Swarm_note_era from the ephemeral lane: a changed era drops the inbox.
HearPulse(f) ==
  /\ Arrive(f)
  /\ f.type = Pulse
  /\ peerEra' = f.inc
  /\ IF peerEra \notin {0, f.inc}
     THEN rows' = {} /\ ledger' = {} /\ epoch' = epoch + 1
     ELSE UNCHANGED <<rows, ledger, epoch>>
  /\ UNCHANGED <<acks, hiseq, stride, log, acked, shed>>

\* Mutated form: the slow path sets the high-water too.
HighWaterLast(seq) == seq

HighWater(seq) == IF seq > hiseq THEN seq ELSE hiseq

\* Mutated form: the stride is not set back when the bound runs.
NextStrideUnreset == stride + 1

NextStride == (stride + 1) % Stride

\* Book, drain and bound.  ok is req_unemit's verdict: a refusing or throwing
\* handler, a corrupt body or a frame before %Ud draws no ack.  A handler that
\* reaches the hear funnel records the frame's era, and resets nothing.
Dispatch(f, ok) ==
  LET booked == rows \cup {Len(log')}
      bound == Bound(booked)
  IN  /\ hiseq' = HighWater(f.seq)
      /\ log' = Logged(f, epoch, ok)
      /\ acks' = IF ok THEN Append(acks, f.seq) ELSE acks
      /\ acked' = IF ok THEN acked \cup {InEpoch(f, epoch)} ELSE acked
      /\ peerEra' \in {peerEra, f.inc}
      /\ stride' = NextStride
      /\ rows' = IF stride' = 0 THEN bound.rows ELSE booked
      /\ ledger' = IF stride' = 0 THEN bound.ledger ELSE ledger
      /\ shed' = IF stride' = 0 THEN shed \cup bound.shed ELSE shed
      /\ UNCHANGED epoch

\* The fast path, and the slow path when nothing remembered answers to the
\* frame's seq and type.
DeliverNew(f, ok) ==
  /\ Arrive(f)
  /\ f.type # Pulse
  /\ f.seq > hiseq \/ ~ Remembered(f)
  /\ Dispatch(f, ok)

\* The reused-seq guard: re-acked, not re-dispatched.
DeliverReused(f) ==
  /\ Arrive(f)
  /\ f.type \notin {Pulse, Knock}
  /\ f.seq <= hiseq /\ Remembered(f)
  /\ acks' = Append(acks, f.seq)
  /\ acked' = acked \cup {InEpoch(f, epoch)}
  /\ UNCHANGED <<hiseq, rows, ledger, peerEra, stride, epoch, log, shed>>

\* A pier_hello that lands on old rows is the rebirth: the stream is reset and
\* the knock handed straight to its handler.
DeliverRebornKnock(f) ==
  /\ Arrive(f)
  /\ f.type = Knock
  /\ f.seq <= hiseq /\ Remembered(f)
  /\ rows' = {} /\ ledger' = {}
  /\ hiseq' = f.seq
  /\ epoch' = epoch + 1
  /\ log' = Logged(f, epoch', TRUE)
  /\ acks' = Append(acks, f.seq)
  /\ acked' = acked \cup {InEpoch(f, epoch')}
  /\ UNCHANGED <<peerEra, stride, shed>>

\* Peeroleum_runstepped at the receiver.
Cull ==
  /\ UNCHANGED <<senderVars, wire, acks, hiseq, peerEra, stride, epoch, log,
                 acked, shed, troubles>>
  /\ rows' = rows \ Served(rows)
  /\ ledger' = Newest(ledger \cup Served(rows), RecentKeep)

\* Tribunal_redial: Peeroleum_reset_handshake on every Pier of the Peering.
Redial ==
  /\ troubles < MaxTroubles
  /\ troubles' = troubles + 1
  /\ rows' = {} /\ ledger' = {}
  /\ epoch' = epoch + 1
  /\ UNCHANGED <<senderVars, wire, acks, hiseq, peerEra, stride, log, acked,
                 shed>>

-----------------------------------------------------------------------------
\* The carrier: what a broken connection takes with it.

LoseFrame(i) ==
  /\ troubles < MaxTroubles
  /\ troubles' = troubles + 1
  /\ wire' = RemoveAt(wire, i)
  /\ UNCHANGED <<senderVars, acks, receiverVars>>

LoseAck(i) ==
  /\ troubles < MaxTroubles
  /\ troubles' = troubles + 1
  /\ acks' = RemoveAt(acks, i)
  /\ UNCHANGED <<senderVars, wire, receiverVars>>

Deliver ==
  /\ wire # <<>>
  /\ Len(acks) < MaxAcks
  /\ \/ HearPulse(Head(wire))
     \/ DeliverReused(Head(wire))
     \/ DeliverRebornKnock(Head(wire))
     \/ \E ok \in BOOLEAN : DeliverNew(Head(wire), ok)

Next ==
  \/ \E t \in Types \cup {Pulse} : Send(t)
  \/ Beat
  \/ ReceiveAck
  \/ Restart
  \/ Deliver
  \/ Cull
  \/ Redial
  \/ \E i \in DOMAIN wire : LoseFrame(i)
  \/ \E i \in DOMAIN acks : LoseAck(i)

Spec == Init /\ [][Next]_vars

-----------------------------------------------------------------------------
\* Properties.

FrameType == [seq : 1..MaxSeq, type : Types \cup {Pulse}, inc : 1..MaxBoots]

\* Every variable keeps to its shape.
TypeOK ==
  /\ inc \in 1..MaxBoots
  /\ sent \in Seq(Types \cup {Pulse}) /\ Len(sent) <= MaxSeq
  /\ DOMAIN outbox \subseteq DOMAIN sent
  /\ outbox \in [DOMAIN outbox -> EmitType]
  /\ wire \in Seq(FrameType)
  /\ acks \in Seq(1..MaxSeq)
  /\ hiseq \in 0..MaxSeq
  /\ rows \cup ledger \cup shed \subseteq DOMAIN log
  /\ peerEra \in 0..MaxBoots
  /\ stride \in 0..(Stride - 1)
  /\ epoch \in Nat
  /\ log \in Seq([frame : FrameType, epoch : Nat, ok : BOOLEAN])
  /\ acked \subseteq [frame : FrameType, epoch : Nat]

\* What licenses the fast path to book without looking: "a seq strictly higher
\* than any we've booked from this pier is provably NEW".
FreshIsNew == \A i \in rows \cup ledger : log[i].frame.seq <= hiseq

\* The reused-seq guard never invents a delivery: a frame is acked only if it,
\* or the frame whose seq and type it reuses, was dispatched since the inbox was
\* last dropped; so an acked emit names a seq that was dispatched.
AckIsExplained ==
  /\ \A a \in acked : \E i \in DOMAIN log :
       SameRow(log[i].frame, a.frame) /\ log[i].epoch = a.epoch
  /\ \A s \in Acked(outbox) : \E i \in DOMAIN log : log[i].frame.seq = s

\* The serves that came between the i-th and the j-th dispatch.
ServedBetween(i, j) ==
  Cardinality({k \in (i + 1)..(j - 1) : log[k].ok /\ log[k].epoch = log[i].epoch})

\* A frame reaches its handler a second time only when the inbox was dropped in
\* between, its row was shed, or the ledger was driven round by RecentKeep
\* later serves.  (A knock is dispatched at every arrival, by design.)
DuplicateNeedsForgetting ==
  \A i, j \in DOMAIN log :
    /\ i < j
    /\ log[i].frame = log[j].frame
    /\ log[i].epoch = log[j].epoch
    /\ log[i].frame.type # Knock
    => i \in shed \/ ServedBetween(i, j) >= RecentKeep
=============================================================================
