------------------------- MODULE RelayStreamProofs -------------------------
(***************************************************************************)
(* For every window, stride and cap, and for any number of restarts,       *)
(* re-dials and losses: the fast path of the relay link only ever skips    *)
(* the look for frames that cannot be remembered, no ack is invented, and  *)
(* a frame is dispatched twice in one epoch only if its row was shed or    *)
(* the ledger was driven round in between.                                 *)
(*                                                                         *)
(* The argument: what the receiver remembers is of the current epoch       *)
(* (InboxSound); the high-water stands over all of that epoch (Topped);    *)
(* and a dispatch it has forgotten was shed, or was pushed off the ledger  *)
(* by RecentKeep later serves (Remembers).  A frame that reaches the       *)
(* handler is above the high-water or is not remembered, so an earlier     *)
(* dispatch of it in this epoch is one of the forgotten.                   *)
(***************************************************************************)
EXTENDS RelayStream, TLAPS, FiniteSetTheorems

-----------------------------------------------------------------------------
\* The inductive invariant.

\* The inbox and its ledger hold rows of this epoch; the ledger's were served,
\* and are older than any served row that is still in the inbox.
InboxSound ==
  /\ \A i \in rows \cup ledger : log[i].epoch = epoch
  /\ \A i \in ledger : log[i].ok
  /\ \A i \in ledger, j \in rows : log[j].ok => i < j

\* No dispatch is of a later epoch, and those of this one are at or under the
\* high-water.
Topped ==
  \A i \in DOMAIN log :
    /\ log[i].epoch <= epoch
    /\ log[i].epoch = epoch => log[i].frame.seq <= hiseq

\* A dispatch of this epoch is remembered, or was shed, or was pushed off.
Remembers ==
  \A i \in DOMAIN log :
    /\ log[i].epoch = epoch
    /\ log[i].frame.type # Knock
    => \/ i \in rows \cup ledger \cup shed
       \/ ServedBetween(i, Len(log) + 1) >= RecentKeep

\* An ack in transit names a seq that was dispatched.
AcksSound ==
  \A k \in DOMAIN acks : \E i \in DOMAIN log : log[i].frame.seq = acks[k]

RelayInv ==
  /\ TypeOK
  /\ InboxSound
  /\ Topped
  /\ Remembers
  /\ AcksSound
  /\ AckIsExplained
  /\ DuplicateNeedsForgetting

-----------------------------------------------------------------------------
\* Sequences and finite sets of places.

\* A sequence with one element more.
LEMMA AppendFacts ==
  ASSUME NEW S, NEW q \in Seq(S), NEW e \in S
  PROVE  /\ Append(q, e) \in Seq(S) /\ Len(Append(q, e)) = Len(q) + 1
         /\ DOMAIN Append(q, e) = DOMAIN q \cup {Len(q) + 1}
         /\ Len(q) + 1 \notin DOMAIN q
         /\ Append(q, e)[Len(q) + 1] = e
         /\ \A i \in DOMAIN q : Append(q, e)[i] = q[i]
OBVIOUS

\* A sequence with one element less.
LEMMA TailFacts ==
  ASSUME NEW S, NEW q \in Seq(S), q # <<>>
  PROVE  /\ Tail(q) \in Seq(S) /\ Head(q) \in S /\ 1 \in DOMAIN q /\ Head(q) = q[1]
         /\ \A k \in DOMAIN Tail(q) : k + 1 \in DOMAIN q /\ Tail(q)[k] = q[k + 1]
OBVIOUS

LEMMA RemoveAtFacts ==
  ASSUME NEW S, NEW q \in Seq(S), NEW i \in DOMAIN q
  PROVE  /\ RemoveAt(q, i) \in Seq(S)
         /\ \A k \in DOMAIN RemoveAt(q, i) :
              \E j \in DOMAIN q : RemoveAt(q, i)[k] = q[j]
<1> DEFINE a == SubSeq(q, 1, i - 1)
           b == SubSeq(q, i + 1, Len(q))
<1>1. /\ a \in Seq(S) /\ Len(a) = i - 1
      /\ \A k \in 1..Len(a) : a[k] = q[k]
  OBVIOUS
<1>2. /\ b \in Seq(S) /\ Len(b) = Len(q) - i
      /\ \A k \in 1..Len(b) : b[k] = q[i + k]
  OBVIOUS
<1>3. RemoveAt(q, i) = a \o b
  BY DEF RemoveAt
<1> HIDE DEF a, b
<1>4. a \o b \in Seq(S) /\ Len(a \o b) = Len(q) - 1
  BY <1>1, <1>2
<1>5. ASSUME NEW k \in DOMAIN (a \o b)
      PROVE  \E j \in DOMAIN q : (a \o b)[k] = q[j]
  <2>1. k \in 1..(Len(q) - 1)
    BY <1>4
  <2>2. CASE k <= Len(a)
    BY <1>1, <1>2, <2>1, <2>2
  <2>3. CASE k > Len(a)
    <3>1. k - Len(a) \in 1..Len(b) /\ (a \o b)[k] = b[k - Len(a)]
      BY <1>1, <1>2, <2>1, <2>3
    <3>2. (a \o b)[k] = q[i + (k - Len(a))] /\ i + (k - Len(a)) \in DOMAIN q
      BY <1>1, <1>2, <2>1, <3>1
    <3> QED BY <3>2
  <2> QED BY <1>1, <2>1, <2>2, <2>3
<1> QED BY <1>3, <1>4, <1>5

\* Sets of places are finite, and count as they nest.
LEMMA PlacesCount ==
  ASSUME NEW m \in Nat, NEW S \in SUBSET (1..m), NEW T \in SUBSET S
  PROVE  /\ IsFiniteSet(S) /\ Cardinality(S) \in Nat
         /\ Cardinality(T) \in Nat /\ Cardinality(T) <= Cardinality(S)
<1>1. IsFiniteSet(1..m)
  BY FS_Interval
<1>2. IsFiniteSet(S)
  BY <1>1, FS_Subset
<1>3. IsFiniteSet(T) /\ Cardinality(T) <= Cardinality(S)
  BY <1>2, FS_Subset
<1> QED BY <1>2, <1>3, FS_CardinalityType

\* What whittle_N drops is older than all it keeps, and has n after it.
LEMMA NewestFacts ==
  ASSUME NEW m \in Nat, NEW S \in SUBSET (1..m), NEW n \in Nat,
         NEW s \in S \ Newest(S, n)
  PROVE  /\ Cardinality({t \in S : t > s}) >= n
         /\ \A t \in Newest(S, n) : s < t
<1> DEFINE Since(u) == {t \in S : t >= u}
<1>0. s \in S /\ s \in Nat /\ \A t \in S : t \in Nat
  OBVIOUS
<1>1. \A u \in S : IsFiniteSet(Since(u)) /\ Cardinality(Since(u)) \in Nat
  BY PlacesCount
<1>2. Cardinality(Since(s)) > n
  BY <1>1 DEF Newest
<1>3. Cardinality({t \in S : t > s}) >= n
  <2>1. {t \in S : t > s} = Since(s) \ {s} /\ s \in Since(s)
    <3>1. \A t \in S : t > s <=> (t >= s /\ t # s)
      BY <1>0
    <3>2. \A t : t \in Since(s) <=> (t \in S /\ t >= s)
      OBVIOUS
    <3>3. s >= s
      BY <1>0
    <3> HIDE DEF Since
    <3> QED BY <1>0, <3>1, <3>2, <3>3, Zenon
  <2>2. Cardinality(Since(s) \ {s}) = Cardinality(Since(s)) - 1
    BY <1>1, <2>1, FS_RemoveElement
  <2> QED BY <1>1, <1>2, <2>1, <2>2
<1>4. ASSUME NEW t \in Newest(S, n), t <= s PROVE FALSE
  <2>1. t \in S /\ Cardinality(Since(t)) <= n
    BY DEF Newest
  <2>2. \A u \in S : u >= s => u >= t
    BY <1>0, <1>4, <2>1
  <2>3. Since(s) \subseteq Since(t)
    BY <2>2, Zenon
  <2>4. Since(t) \in SUBSET (1..m) /\ Since(s) \in SUBSET Since(t)
    BY <2>3
  <2>5. Cardinality(Since(s)) <= Cardinality(Since(t))
    BY <2>4, PlacesCount
  <2> QED BY <1>1, <1>2, <2>1, <2>5
<1>5. \A t \in Newest(S, n) : s < t
  <2> SUFFICES ASSUME NEW t \in Newest(S, n) PROVE s < t
    OBVIOUS
  <2>1. t \in Nat /\ s \in Nat
    BY DEF Newest
  <2> QED BY <1>4, <2>1
<1> QED BY <1>3, <1>5

-----------------------------------------------------------------------------
\* The outbox, as far as an ack is concerned.

IsOutbox(o) == o \in [DOMAIN o -> EmitType]

\* A booking adds one emit that is not acked.
LEMMA BookEmitFacts ==
  ASSUME NEW o, IsOutbox(o), NEW seq
  PROVE  /\ IsOutbox(BookEmit(o, seq))
         /\ DOMAIN BookEmit(o, seq) \subseteq DOMAIN o \cup {seq}
         /\ Acked(BookEmit(o, seq)) \subseteq Acked(o)
<1>1. FreshEmit \in EmitType /\ FreshEmit.acked = FALSE
  BY DEF FreshEmit, Emit, EmitType
<1> QED
  BY <1>1 DEF IsOutbox, BookEmit, Without, Acked

\* An ack stamps the emit it names and no other.
LEMMA TakeAckFacts ==
  ASSUME NEW o, IsOutbox(o), NEW seq
  PROVE  /\ IsOutbox(TakeAck(o, seq))
         /\ DOMAIN TakeAck(o, seq) \subseteq DOMAIN o
         /\ Acked(TakeAck(o, seq)) \subseteq Acked(o) \cup {seq}
<1>1. CASE seq \notin DOMAIN o
  BY <1>1 DEF TakeAck
<1>2. CASE seq \in DOMAIN o
  <2> DEFINE stamped == [o EXCEPT ![seq] = Emit(@.age, @.attempts, TRUE)]
             gone == Acked(stamped) \ Newest(Acked(stamped), AckedKeep)
  <2>1. Emit(o[seq].age, o[seq].attempts, TRUE) \in EmitType
    BY <1>2 DEF IsOutbox, Emit, EmitType
  <2>2. /\ IsOutbox(stamped)
        /\ DOMAIN stamped = DOMAIN o
        /\ \A s \in DOMAIN o \ {seq} : stamped[s] = o[s]
    BY <1>2, <2>1 DEF IsOutbox
  <2>3. Acked(stamped) \subseteq Acked(o) \cup {seq}
    BY <2>2 DEF Acked
  <2>4. TakeAck(o, seq) = Without(stamped, gone)
    BY <1>2 DEF TakeAck
  <2> HIDE DEF stamped, gone
  <2> QED
    BY <2>2, <2>3, <2>4 DEF Without, IsOutbox, Acked
<1> QED
  BY <1>1, <1>2

\* A beat resends emits the outbox has, and leaves none that is acked.
LEMMA BeatFacts ==
  ASSUME NEW o, IsOutbox(o)
  PROVE  /\ IsOutbox(Culled(Swept(o)))
         /\ DOMAIN Culled(Swept(o)) \subseteq DOMAIN o
         /\ Acked(Culled(Swept(o))) = {}
         /\ RetxDue(Aged(o)).resend \subseteq DOMAIN o
<1> DEFINE aged == Aged(o)
           verdict == RetxDue(aged)
           resent == [s \in DOMAIN aged |->
                        IF s \in verdict.resend
                        THEN Emit(0, aged[s].attempts + 1, FALSE)
                        ELSE aged[s]]
<1>1. IsOutbox(aged) /\ DOMAIN aged = DOMAIN o
  <2>1. \A s \in DOMAIN o : Emit(o[s].age + 1, o[s].attempts, FALSE) \in EmitType
    BY DEF IsOutbox, Emit, EmitType
  <2> QED
    BY <2>1 DEF IsOutbox, Aged
<1>2. verdict.resend \subseteq DOMAIN aged
  BY DEF RetxDue
<1>3. IsOutbox(resent) /\ DOMAIN resent = DOMAIN aged
  <2> HIDE DEF verdict, aged
  <2>1. \A s \in DOMAIN aged : Emit(0, aged[s].attempts + 1, FALSE) \in EmitType
    BY <1>1 DEF IsOutbox, Emit, EmitType
  <2> QED
    BY <1>1, <2>1 DEF IsOutbox
<1>4. Swept(o) = Without(resent, verdict.dead)
  BY DEF Swept
<1> HIDE DEF aged, verdict, resent
<1>5. IsOutbox(Swept(o)) /\ DOMAIN Swept(o) \subseteq DOMAIN resent
  BY <1>3, <1>4 DEF Without, IsOutbox
<1>6. /\ IsOutbox(Culled(Swept(o)))
      /\ DOMAIN Culled(Swept(o)) \subseteq DOMAIN Swept(o)
      /\ Acked(Culled(Swept(o))) = {}
  BY <1>5 DEF Culled, Without, IsOutbox, Acked
<1> QED
  BY <1>1, <1>2, <1>3, <1>5, <1>6 DEF aged, verdict

-----------------------------------------------------------------------------
\* Type correctness is inductive by itself.

LogType == [frame : FrameType, epoch : Nat, ok : BOOLEAN]

\* TypeOK by the part of the link it speaks of.
SenderTyped ==
  /\ inc \in 1..MaxBoots
  /\ sent \in Seq(Types \cup {Pulse}) /\ Len(sent) <= MaxSeq
  /\ DOMAIN outbox \subseteq DOMAIN sent
  /\ IsOutbox(outbox)

TransitTyped == wire \in Seq(FrameType) /\ acks \in Seq(1..MaxSeq)

InboxTyped ==
  /\ rows \cup ledger \cup shed \subseteq DOMAIN log
  /\ log \in Seq(LogType)
  /\ epoch \in Nat

CountersTyped ==
  /\ hiseq \in 0..MaxSeq
  /\ peerEra \in 0..MaxBoots
  /\ stride \in 0..(Stride - 1)
  /\ acked \subseteq [frame : FrameType, epoch : Nat]

LEMMA TypeParts ==
  /\ TypeOK <=> SenderTyped /\ TransitTyped /\ InboxTyped /\ CountersTyped
  /\ (TypeOK <=> SenderTyped /\ TransitTyped /\ InboxTyped /\ CountersTyped)'
  /\ SenderTyped /\ UNCHANGED senderVars => SenderTyped'
  /\ TransitTyped /\ UNCHANGED <<wire, acks>> => TransitTyped'
  /\ InboxTyped /\ CountersTyped /\ UNCHANGED receiverVars
       => InboxTyped' /\ CountersTyped'
BY Zenon DEF TypeOK, SenderTyped, TransitTyped, InboxTyped, CountersTyped,
   LogType, IsOutbox, senderVars, receiverVars

\* What the bound does to a set of rows: it keeps, promotes or sheds them.
LEMMA BoundFacts ==
  ASSUME NEW R
  PROVE  /\ Bound(R).rows \subseteq R /\ Bound(R).shed \subseteq R
         /\ Bound(R).ledger \subseteq ledger \cup Served(R)
BY DEF Bound, Oldest, Newest, Bulk, Served

\* What a dispatch does beside the rows.
LEMMA DispatchEffect ==
  ASSUME NEW f, NEW ok, Dispatch(f, ok)
  PROVE  /\ hiseq' = HighWater(f.seq) /\ log' = Logged(f, epoch, ok)
         /\ acks' = IF ok THEN Append(acks, f.seq) ELSE acks
         /\ acked' = IF ok THEN acked \cup {InEpoch(f, epoch)} ELSE acked
         /\ peerEra' \in {peerEra, f.inc} /\ stride' = NextStride
         /\ epoch' = epoch
BY Zenon DEF Dispatch

LEMMA DispatchTyped ==
  ASSUME InboxTyped, CountersTyped, TransitTyped, wire # <<>>,
         NEW f \in FrameType, NEW ok \in BOOLEAN, Dispatch(f, ok), Arrive(f)
  PROVE  TransitTyped' /\ InboxTyped' /\ CountersTyped'
<1> USE RelayAssumption
<1>1. wire' \in Seq(FrameType)
  BY TailFacts DEF Arrive, TransitTyped
<1>2. f.seq \in 1..MaxSeq /\ f.inc \in 1..MaxBoots
  BY DEF FrameType
<1>3. /\ hiseq' \in 0..MaxSeq /\ peerEra' \in 0..MaxBoots
      /\ stride' \in 0..(Stride - 1)
  BY <1>2, DispatchEffect DEF HighWater, NextStride, CountersTyped
<1>4. /\ log' \in Seq(LogType) /\ Len(log') = Len(log) + 1
      /\ DOMAIN log' = DOMAIN log \cup {Len(log')}
  <2>1. [frame |-> f, epoch |-> epoch, ok |-> ok] \in LogType /\ log \in Seq(LogType)
    BY DEF LogType, InboxTyped
  <2>2. log' = Append(log, [frame |-> f, epoch |-> epoch, ok |-> ok])
    BY DispatchEffect DEF Logged
  <2> QED BY <2>1, <2>2, AppendFacts
<1>5. rows' \cup ledger' \cup shed' \subseteq DOMAIN log'
  <2> DEFINE booked == rows \cup {Len(log')}
  <2>1. rows \cup ledger \cup shed \subseteq DOMAIN log'
        /\ booked \subseteq DOMAIN log'
    BY <1>4 DEF InboxTyped
  <2>2. Served(booked) \subseteq booked
    BY DEF Served
  <2> QED BY <2>1, <2>2, BoundFacts DEF Dispatch
<1>6. acks' \in Seq(1..MaxSeq)
  <2>1. acks \in Seq(1..MaxSeq)
    BY DEF TransitTyped
  <2> QED BY <1>2, <2>1, DispatchEffect, AppendFacts
<1>7. acked' \subseteq [frame : FrameType, epoch : Nat]
  <2>1. InEpoch(f, epoch) \in [frame : FrameType, epoch : Nat]
    BY DEF InEpoch, InboxTyped
  <2> QED BY <2>1, DispatchEffect DEF CountersTyped
<1>8. epoch' \in Nat
  BY DispatchEffect DEF InboxTyped
<1> QED BY <1>1, <1>3, <1>4, <1>5, <1>6, <1>7, <1>8, Zenon
        DEF TransitTyped, InboxTyped, CountersTyped

\* The frames a beat resends are frames of this incarnation.
LEMMA ResendTyped ==
  ASSUME SenderTyped, TransitTyped, NEW S \in SUBSET DOMAIN sent, NEW due \in InOrder(S)
  PROVE  wire \o [k \in DOMAIN due |-> Frame(due[k], sent[due[k]], inc)] \in Seq(FrameType)
<1>1. /\ sent \in Seq(Types \cup {Pulse}) /\ Len(sent) \in 0..MaxSeq
      /\ DOMAIN sent = 1..Len(sent) /\ wire \in Seq(FrameType) /\ inc \in 1..MaxBoots
  BY RelayAssumption DEF SenderTyped, TransitTyped
<1>2. Cardinality(S) \in Nat
  <2>1. S \in SUBSET (1..Len(sent)) /\ Len(sent) \in Nat
    BY <1>1
  <2> QED BY <2>1, PlacesCount
<1>3. due \in [1..Cardinality(S) -> S]
  BY DEF InOrder
<1>4. \A s \in S : Frame(s, sent[s], inc) \in FrameType
  BY <1>1, RelayAssumption DEF Frame, FrameType
<1> DEFINE resent == [k \in DOMAIN due |-> Frame(due[k], sent[due[k]], inc)]
<1>5. resent \in [1..Cardinality(S) -> FrameType]
  BY <1>3, <1>4
<1>6. resent \in Seq(FrameType)
  BY <1>2, <1>5
<1> HIDE DEF resent
<1>7. wire \o resent \in Seq(FrameType)
  BY <1>1, <1>6
<1> QED BY <1>7 DEF resent

LEMMA DeliverTyped ==
  ASSUME InboxTyped, CountersTyped, TransitTyped, Deliver
  PROVE  TransitTyped' /\ InboxTyped' /\ CountersTyped' /\ UNCHANGED senderVars
<1>1. wire # <<>> /\ Head(wire) \in FrameType /\ Tail(wire) \in Seq(FrameType)
  BY TailFacts DEF Deliver, TransitTyped
<1> DEFINE f == Head(wire)
<1>2. f.seq \in 1..MaxSeq /\ f.inc \in 1..MaxBoots /\ acks \in Seq(1..MaxSeq)
  BY <1>1 DEF FrameType, TransitTyped
<1>3. CASE HearPulse(f)
  <2>1. TransitTyped'
    BY <1>1, <1>3 DEF HearPulse, Arrive, TransitTyped
  <2>2. InboxTyped'
    BY <1>3 DEF HearPulse, InboxTyped
  <2>3. CountersTyped'
    BY <1>2, <1>3 DEF HearPulse, CountersTyped
  <2> QED BY <1>3, <2>1, <2>2, <2>3 DEF HearPulse, Arrive
<1>4. CASE DeliverReused(f)
  <2>1. TransitTyped'
    BY <1>1, <1>2, <1>4, AppendFacts DEF DeliverReused, Arrive, TransitTyped
  <2>2. InEpoch(f, epoch) \in [frame : FrameType, epoch : Nat]
    BY <1>1 DEF InEpoch, InboxTyped
  <2>3. InboxTyped' /\ CountersTyped'
    BY <1>4, <2>2 DEF DeliverReused, InboxTyped, CountersTyped
  <2> QED BY <1>4, <2>1, <2>3 DEF DeliverReused, Arrive
<1>5. CASE DeliverRebornKnock(f)
  <2>1. TransitTyped'
    BY <1>1, <1>2, <1>5, AppendFacts DEF DeliverRebornKnock, Arrive, TransitTyped
  <2>2. epoch' \in Nat
    BY <1>5 DEF DeliverRebornKnock, InboxTyped
  <2>3. /\ InEpoch(f, epoch') \in [frame : FrameType, epoch : Nat]
        /\ [frame |-> f, epoch |-> epoch', ok |-> TRUE] \in LogType
    BY <1>1, <2>2 DEF InEpoch, LogType
  <2>4. log' \in Seq(LogType) /\ DOMAIN log \subseteq DOMAIN log'
    <3>1. log \in Seq(LogType)
      BY DEF InboxTyped
    <3>2. log' = Append(log, [frame |-> f, epoch |-> epoch', ok |-> TRUE])
      BY <1>5 DEF DeliverRebornKnock, Logged
    <3> QED BY <2>3, <3>1, <3>2, AppendFacts
  <2>5. InboxTyped'
    BY <1>5, <2>2, <2>4 DEF DeliverRebornKnock, InboxTyped
  <2>6. CountersTyped'
    BY <1>2, <1>5, <2>3 DEF DeliverRebornKnock, CountersTyped
  <2> QED BY <1>5, <2>1, <2>5, <2>6 DEF DeliverRebornKnock, Arrive
<1>6. ASSUME NEW ok \in BOOLEAN, DeliverNew(f, ok)
      PROVE  TransitTyped' /\ InboxTyped' /\ CountersTyped' /\ UNCHANGED senderVars
  <2>1. Dispatch(f, ok) /\ Arrive(f)
    BY <1>6 DEF DeliverNew
  <2>2. UNCHANGED senderVars
    BY <2>1 DEF Arrive
  <2> QED BY <1>1, <2>1, <2>2, DispatchTyped
<1> QED BY <1>3, <1>4, <1>5, <1>6 DEF Deliver

LEMMA TypeStep == TypeOK /\ [Next]_vars => TypeOK'
<1> SUFFICES ASSUME TypeOK, [Next]_vars
             PROVE  SenderTyped' /\ TransitTyped' /\ InboxTyped' /\ CountersTyped'
  BY TypeParts
<1>0. SenderTyped /\ TransitTyped /\ InboxTyped /\ CountersTyped
  BY TypeParts
<1>1. ASSUME NEW t \in Types \cup {Pulse}, Send(t)
      PROVE  SenderTyped' /\ TransitTyped' /\ UNCHANGED receiverVars
  <2>1. sent \in Seq(Types \cup {Pulse}) /\ sent' = Append(sent, t) /\ Len(sent) < MaxSeq
    BY <1>0, <1>1 DEF Send, SenderTyped
  <2>2. /\ sent' \in Seq(Types \cup {Pulse}) /\ Len(sent') = Len(sent) + 1
        /\ DOMAIN sent' = DOMAIN sent \cup {Len(sent')}
    BY <2>1, AppendFacts
  <2>3. Len(sent') \in 1..MaxSeq
    BY <2>1, <2>2, RelayAssumption
  <2>4. Frame(Len(sent'), t, inc) \in FrameType
    BY <1>0, <2>3 DEF Frame, FrameType, SenderTyped
  <2>5. TransitTyped'
    BY <1>0, <1>1, <2>4, AppendFacts DEF Send, TransitTyped
  <2>6. IsOutbox(outbox') /\ DOMAIN outbox' \subseteq DOMAIN sent'
    BY <1>0, <1>1, <2>2, BookEmitFacts DEF Send, SenderTyped
  <2> QED BY <1>0, <1>1, <2>2, <2>3, <2>5, <2>6 DEF Send, SenderTyped
<1>2. CASE Beat
  <2>1. /\ IsOutbox(outbox') /\ DOMAIN outbox' \subseteq DOMAIN outbox
        /\ RetxDue(Aged(outbox)).resend \in SUBSET DOMAIN sent
    BY <1>0, <1>2, BeatFacts DEF Beat, SenderTyped
  <2>2. wire' \in Seq(FrameType)
    BY <1>0, <1>2, <2>1, ResendTyped, Zenon DEF Beat
  <2>3. UNCHANGED <<inc, sent, acks, receiverVars>>
    BY <1>2 DEF Beat
  <2>4. SenderTyped'
    BY <1>0, <2>1, <2>3 DEF SenderTyped
  <2>5. TransitTyped'
    BY <1>0, <2>2, <2>3 DEF TransitTyped
  <2> QED BY <1>0, <2>3, <2>4, <2>5, TypeParts
<1>3. CASE ReceiveAck
  <2>1. IsOutbox(outbox') /\ DOMAIN outbox' \subseteq DOMAIN outbox
    BY <1>0, <1>3, TakeAckFacts DEF ReceiveAck, SenderTyped
  <2>2. TransitTyped'
    BY <1>0, <1>3, TailFacts DEF ReceiveAck, TransitTyped
  <2>3. SenderTyped'
    BY <1>0, <1>3, <2>1 DEF ReceiveAck, SenderTyped
  <2> QED BY <1>0, <1>3, <2>2, <2>3, TypeParts DEF ReceiveAck
<1>4. CASE Restart
  <2>1. inc' \in 1..MaxBoots
    BY <1>0, <1>4, RelayAssumption DEF Restart, SenderTyped
  <2>2. IsOutbox(outbox') /\ DOMAIN outbox' = {}
    BY <1>4 DEF Restart, EmptyOutbox, IsOutbox
  <2>3. SenderTyped'
    BY <1>4, <2>1, <2>2, RelayAssumption DEF Restart, SenderTyped
  <2> QED BY <1>0, <1>4, <2>3, TypeParts DEF Restart
<1>5. CASE Deliver
  BY <1>0, <1>5, DeliverTyped, TypeParts
<1>6. CASE Cull
  <2>1. rows' \subseteq rows /\ ledger' \subseteq ledger \cup rows
    BY <1>6 DEF Cull, Newest, Served
  <2>2. InboxTyped'
    BY <1>0, <1>6, <2>1 DEF Cull, InboxTyped
  <2>3. CountersTyped'
    BY <1>0, <1>6 DEF Cull, CountersTyped
  <2> QED BY <1>0, <1>6, <2>2, <2>3, TypeParts DEF Cull
<1>7. CASE Redial
  <2>1. InboxTyped'
    BY <1>0, <1>7 DEF Redial, InboxTyped
  <2>2. CountersTyped'
    BY <1>0, <1>7 DEF Redial, CountersTyped
  <2> QED BY <1>0, <1>7, <2>1, <2>2, TypeParts DEF Redial
<1>8. ASSUME NEW i \in DOMAIN wire, LoseFrame(i)
      PROVE  TransitTyped' /\ UNCHANGED <<senderVars, receiverVars>>
  BY <1>0, <1>8, RemoveAtFacts DEF LoseFrame, TransitTyped
<1>9. ASSUME NEW i \in DOMAIN acks, LoseAck(i)
      PROVE  TransitTyped' /\ UNCHANGED <<senderVars, receiverVars>>
  BY <1>0, <1>9, RemoveAtFacts DEF LoseAck, TransitTyped
<1>10. CASE UNCHANGED vars
  BY <1>0, <1>10, TypeParts DEF vars
<1> QED BY <1>0, <1>1, <1>2, <1>3, <1>4, <1>5, <1>6, <1>7, <1>8, <1>9, <1>10,
        TypeParts DEF Next

LEMMA InitTyped == Init => TypeOK
<1> SUFFICES ASSUME Init PROVE SenderTyped /\ TransitTyped /\ InboxTyped /\ CountersTyped
  BY TypeParts
<1>1. SenderTyped
  BY RelayAssumption DEF Init, SenderTyped, EmptyOutbox, IsOutbox
<1>2. TransitTyped
  BY DEF Init, TransitTyped
<1>3. InboxTyped /\ CountersTyped
  BY RelayAssumption DEF Init, InboxTyped, CountersTyped
<1> QED BY <1>1, <1>2, <1>3

\* The relay link keeps its types, whatever restarts, re-dials and is lost.
THEOREM RelayTypeCorrect == Spec => []TypeOK
<1> QED BY InitTyped, TypeStep, PTL DEF Spec

-----------------------------------------------------------------------------
\* The serves after a place, in a log given.

Serves(lg, i, j) == {k \in (i + 1)..(j - 1) : lg[k].ok /\ lg[k].epoch = lg[i].epoch}

LEMMA ServesCount ==
  /\ \A i, j : ServedBetween(i, j) = Cardinality(Serves(log, i, j))
  /\ (\A i, j : ServedBetween(i, j) = Cardinality(Serves(log, i, j)))'
BY Zenon DEF ServedBetween, Serves

\* What whittle_N drops from rows of one epoch, all served, has that many
\* serves after it.
LEMMA PushedOff ==
  ASSUME NEW m \in Nat, NEW S \in SUBSET (1..m), NEW n \in Nat, NEW r \in 0..n,
         NEW lg, NEW e, \A s \in S : lg[s].ok /\ lg[s].epoch = e,
         NEW i \in S \ Newest(S, n)
  PROVE  Cardinality(Serves(lg, i, m + 1)) >= r
<1> DEFINE later == {t \in S : t > i}
<1>1. Cardinality(later) >= n
  BY NewestFacts
<1>2. i \in 1..m /\ (m + 1) - 1 = m /\ \A t \in S : t \in 1..m
  OBVIOUS
<1>3. later \subseteq Serves(lg, i, m + 1)
  <2>1. \A t \in later : t \in (i + 1)..m
    BY <1>2
  <2>2. \A t \in later : lg[t].ok /\ lg[t].epoch = lg[i].epoch
    OBVIOUS
  <2> HIDE DEF later
  <2> QED BY <1>2, <2>1, <2>2 DEF Serves
<1>4. Serves(lg, i, m + 1) \in SUBSET (1..m)
  BY <1>2 DEF Serves
<1>5. /\ Cardinality(later) \in Nat /\ Cardinality(Serves(lg, i, m + 1)) \in Nat
      /\ Cardinality(later) <= Cardinality(Serves(lg, i, m + 1))
  <2> HIDE DEF later
  <2> QED BY <1>3, <1>4, PlacesCount
<1> HIDE DEF later
<1> QED BY <1>1, <1>5

\* Two logs that agree as far as place m have the same serves up to there, and
\* the longer one no fewer after it.
LEMMA ServesKept ==
  ASSUME NEW m \in Nat, NEW lg, NEW lh, \A k \in 1..m : lh[k] = lg[k],
         NEW i \in 1..m, NEW j \in 1..(m + 1)
  PROVE  /\ Serves(lh, i, j) = Serves(lg, i, j)
         /\ Cardinality(Serves(lg, i, m + 1)) \in Nat
         /\ Cardinality(Serves(lh, i, m + 2)) \in Nat
         /\ Cardinality(Serves(lh, i, m + 2)) >= Cardinality(Serves(lg, i, m + 1))
<1>1. /\ \A k \in (i + 1)..(j - 1) : k \in 1..m
      /\ \A k \in (i + 1)..((m + 1) - 1) : k \in 1..m
      /\ (i + 1)..((m + 1) - 1) \subseteq (i + 1)..((m + 2) - 1)
      /\ (i + 1)..((m + 2) - 1) \subseteq 1..(m + 1)
  OBVIOUS
<1>2. Serves(lh, i, j) = Serves(lg, i, j)
  BY <1>1 DEF Serves
<1>3. /\ Serves(lg, i, m + 1) \in SUBSET Serves(lh, i, m + 2)
      /\ Serves(lh, i, m + 2) \in SUBSET (1..(m + 1))
  BY <1>1 DEF Serves
<1>4. m + 1 \in Nat
  OBVIOUS
<1> QED BY <1>2, <1>3, <1>4, PlacesCount

-----------------------------------------------------------------------------
\* The invariant, step by step.

LEMMA RelayInit == Init => RelayInv
<1> SUFFICES ASSUME Init PROVE RelayInv
  OBVIOUS
<1>1. rows = {} /\ ledger = {} /\ log = <<>> /\ acks = <<>> /\ acked = {}
      /\ Acked(outbox) = {}
  BY DEF Init, Acked, EmptyOutbox
<1>2. InboxSound /\ Topped /\ Remembers /\ AcksSound /\ AckIsExplained
      /\ DuplicateNeedsForgetting
  BY <1>1 DEF InboxSound, Topped, Remembers, AcksSound, AckIsExplained,
     DuplicateNeedsForgetting
<1> QED BY <1>2, InitTyped DEF RelayInv

\* What the receiver's side of the invariant says.
Receiver == InboxSound /\ Topped /\ Remembers /\ DuplicateNeedsForgetting

LEMMA ReceiverRests ==
  Receiver /\ UNCHANGED <<rows, ledger, hiseq, epoch, log, shed>> => Receiver'
BY DEF Receiver, InboxSound, Topped, Remembers, DuplicateNeedsForgetting,
   ServedBetween

\* A log that only grows explains what it explained.
LEMMA AcksKept ==
  ASSUME AcksSound, AckIsExplained,
         \A i \in DOMAIN log : i \in DOMAIN log' /\ log'[i] = log[i],
         \A k \in DOMAIN acks' : \/ \E l \in DOMAIN acks : acks'[k] = acks[l]
                                 \/ \E i \in DOMAIN log' : log'[i].frame.seq = acks'[k],
         \A a \in acked' : \/ a \in acked
                           \/ \E i \in DOMAIN log' :
                                SameRow(log'[i].frame, a.frame) /\ log'[i].epoch = a.epoch,
         \A s \in Acked(outbox') : \/ s \in Acked(outbox)
                                   \/ \E l \in DOMAIN acks : s = acks[l]
  PROVE  AcksSound' /\ AckIsExplained'
<1>1. ASSUME NEW s, \E i \in DOMAIN log : log[i].frame.seq = s
      PROVE  \E i \in DOMAIN log' : log'[i].frame.seq = s
  BY <1>1
<1>2. AcksSound'
  BY <1>1 DEF AcksSound
<1>3. \A a \in acked' : \E i \in DOMAIN log' :
        SameRow(log'[i].frame, a.frame) /\ log'[i].epoch = a.epoch
  BY DEF AckIsExplained
<1>4. \A s \in Acked(outbox') : \E i \in DOMAIN log' : log'[i].frame.seq = s
  BY <1>1 DEF AckIsExplained, AcksSound
<1> QED BY <1>3, <1>4, <1>2 DEF AckIsExplained
\* No dispatch is of an epoch yet to come.
LEMMA EpochsPast ==
  ASSUME Topped, InboxTyped
  PROVE  \A i \in DOMAIN log : log[i].epoch <= epoch /\ log[i].epoch \in Nat
<1>1. \A i \in DOMAIN log : log[i] \in LogType
  BY DEF InboxTyped
<1>2. \A e \in LogType : e.epoch \in Nat
  BY DEF LogType
<1> QED BY <1>1, <1>2, Zenon DEF Topped

\* The inbox dropped: the epoch it remembered is over.
LEMMA EpochOver ==
  ASSUME Receiver, InboxTyped,
         rows' = {}, ledger' = {}, epoch' = epoch + 1,
         UNCHANGED <<hiseq, log, shed>>
  PROVE  Receiver'
<1>1. \A i \in DOMAIN log : log[i].epoch <= epoch /\ log[i].epoch \in Nat
  BY EpochsPast DEF Receiver
<1>2. \A i \in DOMAIN log' : log'[i].epoch <= epoch' /\ log'[i].epoch # epoch'
  BY <1>1 DEF InboxTyped
<1>3. InboxSound' /\ Topped' /\ Remembers'
  BY <1>2 DEF InboxSound, Topped, Remembers
<1>4. DuplicateNeedsForgetting'
  BY DEF Receiver, DuplicateNeedsForgetting, ServedBetween
<1> QED BY <1>3, <1>4 DEF Receiver

\* The cull at a step boundary.
LEMMA CullKeeps ==
  ASSUME Receiver, InboxTyped, Cull
  PROVE  Receiver'
<1> DEFINE culled == ledger \cup Served(rows)
<1>0. /\ UNCHANGED <<hiseq, epoch, log, shed>>
      /\ rows' = rows \ Served(rows) /\ ledger' = Newest(culled, RecentKeep)
  BY DEF Cull
<1>1. Served(rows) = {i \in rows : log[i].ok}
  BY <1>0 DEF Served
<1>2. ledger' \subseteq culled
  BY <1>0 DEF Newest
<1>3. \A s \in culled : log[s].ok /\ log[s].epoch = epoch
  BY <1>1 DEF Receiver, InboxSound
<1>4. InboxSound'
  BY <1>0, <1>1, <1>2, <1>3 DEF Receiver, InboxSound
<1>5. Topped'
  BY <1>0 DEF Receiver, Topped
<1>6. Len(log) \in Nat /\ culled \in SUBSET (1..Len(log)) /\ DOMAIN log = 1..Len(log)
  BY <1>1 DEF InboxTyped
<1>7. RecentKeep \in Nat /\ RecentKeep \in 0..RecentKeep
  BY RelayAssumption
<1>8. ASSUME NEW i \in DOMAIN log, log[i].epoch = epoch, log[i].frame.type # Knock
      PROVE  \/ i \in rows' \cup ledger' \cup shed
             \/ ServedBetween(i, Len(log) + 1) >= RecentKeep
  <2>1. CASE i \in culled
    <3>1. CASE i \in Newest(culled, RecentKeep)
      BY <1>0, <3>1
    <3>2. CASE i \notin Newest(culled, RecentKeep)
      <4> HIDE DEF culled
      <4>1. Cardinality(Serves(log, i, Len(log) + 1)) >= RecentKeep
        BY <1>3, <1>6, <1>7, <2>1, <3>2, PushedOff
      <4> QED BY <4>1, ServesCount
    <3> QED BY <3>1, <3>2
  <2>2. CASE i \notin culled
    <3>1. i \in rows' \/ i \in shed \/ i \notin rows \cup ledger \cup shed
      BY <1>0, <2>2
    <3> QED BY <1>8, <2>2, <3>1 DEF Receiver, Remembers
  <2> QED BY <2>1, <2>2
<1>9. Remembers'
  <2>1. \A i, j : ServedBetween(i, j)' = ServedBetween(i, j)
    BY <1>0 DEF ServedBetween
  <2> QED BY <1>0, <1>8, <2>1, Zenon DEF Remembers
<1>10. DuplicateNeedsForgetting'
  BY <1>0 DEF Receiver, DuplicateNeedsForgetting, ServedBetween
<1> QED BY <1>4, <1>5, <1>9, <1>10 DEF Receiver

\* A knock on old rows: the reset, and the one dispatch of the new epoch.
LEMMA RebornKnockKeeps ==
  ASSUME Receiver, InboxTyped, NEW f \in FrameType, DeliverRebornKnock(f)
  PROVE  Receiver'
<1>0. /\ rows' = {} /\ ledger' = {} /\ hiseq' = f.seq /\ epoch' = epoch + 1
      /\ shed' = shed /\ f.type = Knock
      /\ log' = Append(log, [frame |-> f, epoch |-> epoch', ok |-> TRUE])
  BY DEF DeliverRebornKnock, Logged
<1>1. epoch \in Nat /\ epoch' \in Nat /\ f.seq \in Nat /\ Len(log) \in Nat
  BY <1>0, RelayAssumption DEF InboxTyped, FrameType
<1>2. /\ [frame |-> f, epoch |-> epoch', ok |-> TRUE] \in LogType
      /\ log \in Seq(LogType)
  BY <1>1 DEF InboxTyped, LogType
<1>3. /\ Len(log') = Len(log) + 1
      /\ DOMAIN log' = DOMAIN log \cup {Len(log) + 1}
      /\ log'[Len(log) + 1] = [frame |-> f, epoch |-> epoch', ok |-> TRUE]
      /\ \A i \in DOMAIN log : log'[i] = log[i]
  BY <1>0, <1>2, AppendFacts
<1>4. \A i \in DOMAIN log : log'[i].epoch <= epoch /\ log'[i].epoch \in Nat
  BY <1>3, EpochsPast DEF Receiver
<1>5. /\ \A i \in DOMAIN log : log'[i].epoch <= epoch' /\ log'[i].epoch # epoch'
      /\ log'[Len(log) + 1].epoch = epoch' /\ log'[Len(log) + 1].frame = f
  BY <1>0, <1>1, <1>3, <1>4
<1>6. InboxSound' /\ Topped' /\ Remembers'
  BY <1>0, <1>1, <1>3, <1>5 DEF InboxSound, Topped, Remembers
<1>7. ASSUME NEW i \in DOMAIN log', NEW j \in DOMAIN log',
             i < j, log'[i].frame = log'[j].frame, log'[i].epoch = log'[j].epoch,
             log'[i].frame.type # Knock
      PROVE  i \in shed \/ ServedBetween(i, j)' >= RecentKeep
  <2>1. i \in DOMAIN log /\ j \in DOMAIN log
    BY <1>0, <1>3, <1>5, <1>7
  <2>2. i \in 1..Len(log) /\ j \in 1..(Len(log) + 1) /\ \A k \in 1..Len(log) : log'[k] = log[k]
    BY <1>2, <1>3, <2>1
  <2>3. Serves(log', i, j) = Serves(log, i, j)
    BY <1>1, <2>2, ServesKept
  <2>4. i \in shed \/ Cardinality(Serves(log, i, j)) >= RecentKeep
    <3>1. /\ log[i].frame = log[j].frame /\ log[i].epoch = log[j].epoch
          /\ log[i].frame.type # Knock
      BY <1>3, <1>7, <2>1
    <3> QED BY <1>7, <2>1, <3>1, ServesCount DEF Receiver, DuplicateNeedsForgetting
  <2> QED BY <2>3, <2>4, ServesCount
<1>8. DuplicateNeedsForgetting'
  BY <1>0, <1>7, Zenon DEF DuplicateNeedsForgetting
<1> QED BY <1>6, <1>8 DEF Receiver
\* The rows after a dispatch: with this row booked, they are those, or what the
\* bound makes of them.
LEMMA DispatchRows ==
  ASSUME NEW f, NEW ok, Dispatch(f, ok)
  PROVE  LET booked == rows \cup {Len(log')}
             bound == Bound(booked)
         IN  \/ rows' = booked /\ ledger' = ledger /\ shed' = shed
             \/ /\ rows' = bound.rows /\ ledger' = bound.ledger
                /\ shed' = shed \cup bound.shed
BY DEF Dispatch

\* What the bound keeps, promotes and sheds, and what falls off the ledger.
LEMMA BoundParts ==
  ASSUME NEW R
  PROVE  LET promoted == Served(R) \ Newest(Served(R), DoneKeep) IN
         /\ Bound(R).ledger = Newest(ledger \cup promoted, LedgerKeep)
         /\ Bound(R).rows \subseteq R \ promoted
         /\ Bound(R).rows \cup Bound(R).shed = R \ promoted
<1> DEFINE promoted == Served(R) \ Newest(Served(R), DoneKeep)
           left == R \ promoted
           bulk == Oldest(Bulk(left), Cardinality(left) - InboxCap)
<1>1. bulk \subseteq left
  BY DEF Oldest, Bulk
<1>2. Bound(R) = [rows |-> left \ bulk, shed |-> bulk,
                  ledger |-> Newest(ledger \cup promoted, LedgerKeep)]
  BY DEF Bound
<1> HIDE DEF promoted, bulk
<1>3. /\ Bound(R).ledger = Newest(ledger \cup promoted, LedgerKeep)
      /\ Bound(R).rows = left \ bulk /\ Bound(R).shed = bulk
  BY <1>2
<1>4. Bound(R).rows \subseteq R \ promoted
      /\ Bound(R).rows \cup Bound(R).shed = R \ promoted
  BY <1>1, <1>3
<1> QED BY <1>3, <1>4 DEF promoted

\* A frame that reaches its handler from the fast path, or unremembered.
LEMMA DispatchKeeps ==
  ASSUME Receiver, InboxTyped, CountersTyped, NEW f \in FrameType, NEW ok \in BOOLEAN,
         Dispatch(f, ok), f.seq > hiseq \/ ~ Remembered(f)
  PROVE  Receiver'
<1> DEFINE L == Len(log) + 1
           booked == rows \cup {L}
           served == {i \in booked : log'[i].ok}
           promoted == served \ Newest(served, DoneKeep)
           kept == ledger \cup promoted
<1>1. /\ epoch' = epoch /\ hiseq' = HighWater(f.seq)
      /\ log' = Append(log, [frame |-> f, epoch |-> epoch, ok |-> ok])
  BY DispatchEffect DEF Logged
<1>2. /\ [frame |-> f, epoch |-> epoch, ok |-> ok] \in LogType
      /\ log \in Seq(LogType) /\ Len(log) \in Nat /\ DOMAIN log = 1..Len(log)
      /\ epoch \in Nat
  BY DEF InboxTyped, LogType
<1>3. /\ Len(log') = L /\ DOMAIN log' = DOMAIN log \cup {L}
      /\ log'[L] = [frame |-> f, epoch |-> epoch, ok |-> ok]
      /\ \A i \in DOMAIN log : log'[i] = log[i]
  BY <1>1, <1>2, AppendFacts
<1>4. log'[L].frame = f /\ log'[L].epoch = epoch /\ log'[L].ok = ok
  BY <1>3
<1>5. Served(booked) = served
  BY DEF Served
<1>6. \/ rows' = booked /\ ledger' = ledger /\ shed' = shed
      \/ /\ ledger' = Newest(kept, LedgerKeep)
         /\ rows' \subseteq booked \ promoted
         /\ rows' \cup shed' = (booked \ promoted) \cup shed
         /\ shed \subseteq shed'
  <2> HIDE DEF booked, served
  <2>1. \/ rows' = booked /\ ledger' = ledger /\ shed' = shed
        \/ /\ rows' = Bound(booked).rows /\ ledger' = Bound(booked).ledger
           /\ shed' = shed \cup Bound(booked).shed
    BY <1>3, DispatchRows DEF booked
  <2>2. /\ Bound(booked).ledger = Newest(kept, LedgerKeep)
        /\ Bound(booked).rows \subseteq booked \ promoted
        /\ Bound(booked).rows \cup Bound(booked).shed = booked \ promoted
    BY <1>5, BoundParts
  <2> HIDE DEF kept, promoted
  <2> QED BY <2>1, <2>2
<1>7. /\ rows \subseteq 1..Len(log) /\ ledger \subseteq 1..Len(log)
      /\ shed \subseteq 1..Len(log) /\ L \in Nat /\ booked \in SUBSET (1..L)
      /\ served \in SUBSET (1..L) /\ kept \in SUBSET (1..L)
  BY <1>2 DEF InboxTyped
<1>8. \A i \in booked \cup ledger : log'[i].epoch = epoch
  BY <1>2, <1>3, <1>4, <1>7 DEF Receiver, InboxSound
<1>9. \A i \in kept : log'[i].ok /\ log'[i].epoch = epoch
  BY <1>2, <1>3, <1>7, <1>8 DEF Receiver, InboxSound
<1>10. \A i \in kept, j \in booked \ promoted : log'[j].ok => i < j
  <2> SUFFICES ASSUME NEW i \in kept, NEW j \in booked \ promoted, log'[j].ok
               PROVE  i < j
    OBVIOUS
  <2>1. j \in Newest(served, DoneKeep)
    OBVIOUS
  <2>2. CASE i \in promoted
    <3> HIDE DEF served
    <3>1. DoneKeep \in Nat
      BY RelayAssumption
    <3> QED BY <1>7, <2>1, <2>2, <3>1, NewestFacts
  <2>3. CASE i \in ledger /\ j = L
    BY <1>2, <1>7, <2>3
  <2>4. CASE i \in ledger /\ j \in rows
    BY <1>2, <1>3, <1>7, <2>4 DEF Receiver, InboxSound
  <2> QED BY <2>2, <2>3, <2>4
<1>11. InboxSound'
  <2> HIDE DEF L
  <2>1. CASE rows' = booked /\ ledger' = ledger
    <3>1. \A i \in ledger, j \in booked : log'[j].ok => i < j
      BY <1>2, <1>3, <1>7 DEF Receiver, InboxSound, L
    <3> QED BY <1>1, <1>8, <1>9, <2>1, <3>1 DEF InboxSound
  <2>2. CASE rows' \subseteq booked \ promoted /\ ledger' = Newest(kept, LedgerKeep)
    <3>1. ledger' \subseteq kept
      BY <2>2 DEF Newest
    <3>2. \A i \in kept : i \in booked \cup ledger
      OBVIOUS
    <3> HIDE DEF kept, promoted, booked
    <3> QED BY <1>1, <1>8, <1>9, <1>10, <2>2, <3>1, <3>2 DEF InboxSound
  <2> QED BY <1>6, <2>1, <2>2
<1>12. Topped'
  <2>1. f.seq \in Nat /\ hiseq \in Nat /\ \A i \in DOMAIN log : log[i].frame.seq \in Nat
    <3>1. \A i \in DOMAIN log : log[i] \in LogType
      BY <1>2
    <3> QED BY <3>1, RelayAssumption DEF LogType, FrameType, CountersTyped
  <2>2. hiseq' >= hiseq /\ hiseq' >= f.seq /\ hiseq' \in Nat
    BY <1>1, <2>1 DEF HighWater
  <2>3. \A i \in DOMAIN log : log[i].epoch = epoch => log[i].frame.seq <= hiseq'
    BY <2>1, <2>2 DEF Receiver, Topped
  <2> QED BY <1>1, <1>2, <1>3, <1>4, <2>2, <2>3 DEF Receiver, Topped
<1>13. ASSUME NEW i \in DOMAIN log', log'[i].epoch = epoch, log'[i].frame.type # Knock
       PROVE  \/ i \in rows' \cup ledger' \cup shed'
              \/ Cardinality(Serves(log', i, Len(log') + 1)) >= RecentKeep
  <2>1. CASE i \in kept
    <3>1. CASE i \in rows' \cup ledger'
      BY <3>1
    <3>2. CASE i \notin rows' \cup ledger'
      <4>1. i \in kept \ Newest(kept, LedgerKeep)
        BY <1>6, <2>1, <3>2
      <4> HIDE DEF kept, L
      <4>2. Cardinality(Serves(log', i, L + 1)) >= RecentKeep
        BY <1>7, <1>9, <4>1, PushedOff, RelayAssumption
      <4> QED BY <1>3, <4>2
    <3> QED BY <3>1, <3>2
  <2>2. CASE i \notin kept /\ i \in booked \cup shed
    BY <1>6, <2>2
  <2>3. CASE i \notin booked \cup ledger \cup shed
    <3>1. i \in DOMAIN log /\ log[i].epoch = epoch /\ log[i].frame.type # Knock
      BY <1>3, <1>13, <2>3
    <3>2. Cardinality(Serves(log, i, Len(log) + 1)) >= RecentKeep
      BY <2>3, <3>1, ServesCount DEF Receiver, Remembers
    <3>3. /\ Cardinality(Serves(log', i, Len(log) + 2)) >= Cardinality(Serves(log, i, Len(log) + 1))
          /\ Cardinality(Serves(log', i, Len(log) + 2)) \in Nat
          /\ Cardinality(Serves(log, i, Len(log) + 1)) \in Nat
      <4>1. i \in 1..Len(log) /\ Len(log) + 1 \in 1..(Len(log) + 1)
        BY <1>2, <3>1
      <4> QED BY <1>2, <1>3, <4>1, ServesKept
    <3>4. Len(log) + 2 = Len(log') + 1
      BY <1>2, <1>3
    <3> QED BY <3>2, <3>3, <3>4, RelayAssumption
  <2> QED BY <2>1, <2>2, <2>3
<1>14. Remembers'
  <2> HIDE DEF L
  <2> QED BY <1>1, <1>13, Zenon DEF Remembers, ServedBetween, Serves
<1>15. ASSUME NEW i \in DOMAIN log', NEW j \in DOMAIN log',
              i < j, log'[i].frame = log'[j].frame, log'[i].epoch = log'[j].epoch,
              log'[i].frame.type # Knock
       PROVE  i \in shed' \/ ServedBetween(i, j)' >= RecentKeep
  <2>1. i \in 1..Len(log) /\ j \in 1..(Len(log) + 1)
    BY <1>2, <1>3, <1>15
  <2>2. log[i] = log'[i] /\ \A k \in 1..Len(log) : log'[k] = log[k]
    BY <1>2, <1>3, <2>1
  <2>3. Serves(log', i, j) = Serves(log, i, j)
    BY <1>2, <2>1, <2>2, ServesKept
  <2>4. shed \subseteq shed'
    BY <1>6, <1>7
  <2>5. i \in shed \/ Cardinality(Serves(log, i, j)) >= RecentKeep
    <3>1. CASE j # L
      <4>1. i \in DOMAIN log /\ j \in DOMAIN log /\ log[j] = log'[j]
        BY <1>2, <1>3, <2>1, <3>1
      <4> QED BY <1>15, <2>2, <4>1, ServesCount DEF Receiver, DuplicateNeedsForgetting
    <3>2. CASE j = L
      <4>1. log[i].frame = f /\ log[i].epoch = epoch /\ f.type # Knock /\ i \in DOMAIN log
        BY <1>2, <1>4, <1>15, <2>1, <2>2, <3>2
      <4>2. ~ f.seq > hiseq
        BY <4>1, RelayAssumption DEF Receiver, Topped, CountersTyped, FrameType
      <4>3. i \notin rows \cup ledger
        BY <4>1, <4>2 DEF Remembered, SameRow
      <4> QED BY <3>2, <4>1, <4>3, ServesCount DEF Receiver, Remembers
    <3> QED BY <3>1, <3>2
  <2> QED BY <2>3, <2>4, <2>5, ServesCount
<1>16. DuplicateNeedsForgetting'
  BY <1>15, Zenon DEF DuplicateNeedsForgetting
<1> QED BY <1>11, <1>12, <1>14, <1>16 DEF Receiver
\* Every step keeps the receiver's side.
LEMMA ReceiverStep ==
  ASSUME TypeOK, Receiver, Next
  PROVE  Receiver'
<1>0. InboxTyped /\ CountersTyped /\ TransitTyped
  BY TypeParts
<1>1. ASSUME NEW t \in Types \cup {Pulse}, Send(t) PROVE Receiver'
  BY <1>1, ReceiverRests DEF Send, receiverVars
<1>2. CASE Beat \/ ReceiveAck \/ Restart
  BY <1>2, ReceiverRests DEF Beat, ReceiveAck, Restart, receiverVars
<1>3. CASE Deliver
  <2> DEFINE f == Head(wire)
  <2>1. f \in FrameType
    BY <1>0, <1>3, TailFacts DEF Deliver, TransitTyped
  <2> HIDE DEF f
  <2>2. CASE HearPulse(f)
    <3>1. CASE peerEra \in {0, f.inc}
      BY <2>2, <3>1, ReceiverRests DEF HearPulse
    <3>2. CASE peerEra \notin {0, f.inc}
      BY <1>0, <2>2, <3>2, EpochOver DEF HearPulse
    <3> QED BY <3>1, <3>2
  <2>3. CASE DeliverReused(f)
    BY <2>3, ReceiverRests DEF DeliverReused
  <2>4. CASE DeliverRebornKnock(f)
    BY <1>0, <2>1, <2>4, RebornKnockKeeps
  <2>5. ASSUME NEW ok \in BOOLEAN, DeliverNew(f, ok) PROVE Receiver'
    BY <1>0, <2>1, <2>5, DispatchKeeps DEF DeliverNew
  <2> QED BY <1>3, <2>2, <2>3, <2>4, <2>5 DEF Deliver, f
<1>4. CASE Cull
  BY <1>0, <1>4, CullKeeps
<1>5. CASE Redial
  BY <1>0, <1>5, EpochOver DEF Redial
<1>6. ASSUME NEW i \in DOMAIN wire, LoseFrame(i) PROVE Receiver'
  BY <1>6, ReceiverRests DEF LoseFrame, receiverVars
<1>7. ASSUME NEW i \in DOMAIN acks, LoseAck(i) PROVE Receiver'
  BY <1>7, ReceiverRests DEF LoseAck, receiverVars
<1> QED BY <1>1, <1>2, <1>3, <1>4, <1>5, <1>6, <1>7 DEF Next

\* An ack goes out for a frame that was dispatched, and for no other.
LEMMA AppendedAck ==
  ASSUME TransitTyped, NEW seq \in 1..MaxSeq, acks' = Append(acks, seq),
         \E i \in DOMAIN log' : log'[i].frame.seq = seq,
         NEW k \in DOMAIN acks'
  PROVE  \/ \E l \in DOMAIN acks : acks'[k] = acks[l]
         \/ \E i \in DOMAIN log' : log'[i].frame.seq = acks'[k]
<1>1. acks \in Seq(1..MaxSeq)
  BY DEF TransitTyped
<1>2. /\ DOMAIN acks' = DOMAIN acks \cup {Len(acks) + 1}
      /\ acks'[Len(acks) + 1] = seq
      /\ \A l \in DOMAIN acks : acks'[l] = acks[l]
  BY <1>1, AppendFacts
<1> QED BY <1>2

LEMMA DeliverAcks ==
  ASSUME TypeOK, Receiver, AcksSound, AckIsExplained, Deliver
  PROVE  AcksSound' /\ AckIsExplained'
<1> DEFINE f == Head(wire)
<1>0. InboxTyped /\ CountersTyped /\ TransitTyped /\ log \in Seq(LogType)
  BY TypeParts DEF InboxTyped
<1>1. f \in FrameType /\ f.seq \in 1..MaxSeq
  <2>1. f \in FrameType
    BY <1>0, TailFacts DEF Deliver, TransitTyped
  <2> QED BY <2>1 DEF FrameType
<1> HIDE DEF f
<1>2. CASE HearPulse(f)
  BY <1>2, AcksKept DEF HearPulse, Arrive, senderVars
<1>3. CASE DeliverReused(f)
  <2>1. PICK i \in rows \cup ledger : SameRow(log[i].frame, f)
    BY <1>3 DEF DeliverReused, Remembered
  <2>2. i \in DOMAIN log /\ log[i].epoch = epoch
    BY <1>0 DEF Receiver, InboxSound, InboxTyped
  <2>3. /\ acks' = Append(acks, f.seq) /\ UNCHANGED <<log, outbox>>
        /\ acked' = acked \cup {InEpoch(f, epoch)}
    BY <1>3 DEF DeliverReused, Arrive, senderVars
  <2>4. log'[i].frame.seq = f.seq /\ i \in DOMAIN log'
    BY <2>1, <2>2, <2>3 DEF SameRow
  <2>5. \A k \in DOMAIN acks' : \/ \E l \in DOMAIN acks : acks'[k] = acks[l]
                                \/ \E n \in DOMAIN log' : log'[n].frame.seq = acks'[k]
    BY <1>0, <1>1, <2>3, <2>4, AppendedAck
  <2>6. \A a \in acked' : \/ a \in acked
                          \/ \E n \in DOMAIN log' :
                               SameRow(log'[n].frame, a.frame) /\ log'[n].epoch = a.epoch
    BY <2>1, <2>2, <2>3 DEF InEpoch
  <2> QED BY <2>3, <2>5, <2>6, AcksKept
<1>4. ASSUME NEW e \in Nat, NEW ok \in BOOLEAN,
             log' = Append(log, [frame |-> f, epoch |-> e, ok |-> ok]),
             acks' = IF ok THEN Append(acks, f.seq) ELSE acks,
             acked' = IF ok THEN acked \cup {InEpoch(f, e)} ELSE acked,
             UNCHANGED outbox
      PROVE  AcksSound' /\ AckIsExplained'
  <2>1. [frame |-> f, epoch |-> e, ok |-> ok] \in LogType
    BY <1>1, <1>4 DEF LogType
  <2>2. /\ Len(log) + 1 \in DOMAIN log'
        /\ log'[Len(log) + 1] = [frame |-> f, epoch |-> e, ok |-> ok]
        /\ \A i \in DOMAIN log : i \in DOMAIN log' /\ log'[i] = log[i]
    BY <1>0, <1>4, <2>1, AppendFacts
  <2>3. log'[Len(log) + 1].frame = f /\ log'[Len(log) + 1].epoch = e
    BY <2>2
  <2>4. \A k \in DOMAIN acks' : \/ \E l \in DOMAIN acks : acks'[k] = acks[l]
                                \/ \E n \in DOMAIN log' : log'[n].frame.seq = acks'[k]
    <3>1. CASE ok
      BY <1>0, <1>1, <1>4, <2>2, <2>3, <3>1, AppendedAck
    <3>2. CASE ~ ok
      BY <1>4, <3>2
    <3> QED BY <3>1, <3>2
  <2>5. \A a \in acked' : \/ a \in acked
                          \/ \E n \in DOMAIN log' :
                               SameRow(log'[n].frame, a.frame) /\ log'[n].epoch = a.epoch
    BY <1>4, <2>2, <2>3 DEF InEpoch, SameRow
  <2> QED BY <1>4, <2>2, <2>4, <2>5, AcksKept
<1>5. CASE DeliverRebornKnock(f)
  <2>1. epoch' \in Nat
    BY <1>0, <1>5 DEF DeliverRebornKnock, InboxTyped
  <2> QED BY <1>4, <1>5, <2>1 DEF DeliverRebornKnock, Logged, Arrive, senderVars
<1>6. ASSUME NEW ok \in BOOLEAN, DeliverNew(f, ok)
      PROVE  AcksSound' /\ AckIsExplained'
  <2>1. Dispatch(f, ok) /\ UNCHANGED outbox /\ epoch \in Nat
    BY <1>0, <1>6 DEF DeliverNew, Arrive, senderVars, InboxTyped
  <2>2. /\ log' = Append(log, [frame |-> f, epoch |-> epoch, ok |-> ok])
        /\ acks' = IF ok THEN Append(acks, f.seq) ELSE acks
        /\ acked' = IF ok THEN acked \cup {InEpoch(f, epoch)} ELSE acked
    BY <2>1, DispatchEffect DEF Logged
  <2> QED BY <1>4, <2>1, <2>2
<1> QED BY <1>2, <1>3, <1>5, <1>6 DEF Deliver, f
LEMMA AcksStep ==
  ASSUME TypeOK, Receiver, AcksSound, AckIsExplained, Next
  PROVE  AcksSound' /\ AckIsExplained'
<1>0. InboxTyped /\ SenderTyped /\ TransitTyped
  BY TypeParts
<1>1. ASSUME NEW t \in Types \cup {Pulse}, Send(t) PROVE AcksSound' /\ AckIsExplained'
  <2>1. Acked(outbox') \subseteq Acked(outbox)
    BY <1>0, <1>1, BookEmitFacts DEF Send, SenderTyped
  <2> QED BY <1>1, <2>1, AcksKept DEF Send, receiverVars
<1>2. CASE Beat
  <2>1. Acked(outbox') = {}
    BY <1>0, <1>2, BeatFacts DEF Beat, SenderTyped
  <2> QED BY <1>2, <2>1, AcksKept DEF Beat, receiverVars
<1>3. CASE ReceiveAck
  <2>1. Acked(outbox') \subseteq Acked(outbox) \cup {Head(acks)}
    BY <1>0, <1>3, TakeAckFacts DEF ReceiveAck, SenderTyped
  <2>2. /\ 1 \in DOMAIN acks /\ Head(acks) = acks[1]
        /\ \A k \in DOMAIN acks' : k + 1 \in DOMAIN acks /\ acks'[k] = acks[k + 1]
    BY <1>0, <1>3, TailFacts DEF ReceiveAck, TransitTyped
  <2> QED BY <1>3, <2>1, <2>2, AcksKept DEF ReceiveAck, receiverVars
<1>4. CASE Restart
  <2>1. Acked(outbox') = {}
    BY <1>4 DEF Restart, Acked, EmptyOutbox
  <2> QED BY <1>4, <2>1, AcksKept DEF Restart, receiverVars
<1>5. CASE Deliver
  BY <1>5, DeliverAcks
<1>6. CASE Cull \/ Redial
  BY <1>6, AcksKept DEF Cull, Redial, senderVars
<1>7. ASSUME NEW i \in DOMAIN wire, LoseFrame(i) PROVE AcksSound' /\ AckIsExplained'
  BY <1>7, AcksKept DEF LoseFrame, senderVars, receiverVars
<1>8. ASSUME NEW i \in DOMAIN acks, LoseAck(i) PROVE AcksSound' /\ AckIsExplained'
  <2>1. \A k \in DOMAIN acks' : \E l \in DOMAIN acks : acks'[k] = acks[l]
    BY <1>0, <1>8, RemoveAtFacts DEF LoseAck, TransitTyped
  <2> QED BY <1>8, <2>1, AcksKept DEF LoseAck, senderVars, receiverVars
<1> QED BY <1>1, <1>2, <1>3, <1>4, <1>5, <1>6, <1>7, <1>8 DEF Next

LEMMA RelayStep == RelayInv /\ [Next]_vars => RelayInv'
<1> SUFFICES ASSUME RelayInv, [Next]_vars PROVE RelayInv'
  OBVIOUS
<1>1. TypeOK /\ Receiver /\ AcksSound /\ AckIsExplained
  BY DEF RelayInv, Receiver
<1>2. TypeOK'
  BY <1>1, TypeStep
<1>3. CASE Next
  <2>1. Receiver' /\ AcksSound' /\ AckIsExplained'
    BY <1>1, <1>3, ReceiverStep, AcksStep
  <2> QED BY <1>2, <2>1 DEF RelayInv, Receiver
<1>4. CASE UNCHANGED vars
  <2>1. UNCHANGED <<rows, ledger, hiseq, epoch, log, shed, acks, acked, outbox>>
    BY <1>4 DEF vars, receiverVars, senderVars
  <2>2. Receiver'
    BY <1>1, <2>1, ReceiverRests
  <2>3. AcksSound' /\ AckIsExplained'
    BY <1>1, <2>1, AcksKept
  <2> QED BY <1>2, <2>2, <2>3 DEF RelayInv, Receiver
<1> QED BY <1>3, <1>4

\* The invariant holds throughout.
THEOREM RelayInvariant == Spec => []RelayInv
<1> QED BY RelayInit, RelayStep, PTL DEF Spec

\* The fast path of Peeroleum_deliver is right: a seq above the high-water is of
\* no row in the inbox and none in the ledger, after any restart or re-dial.
THEOREM FreshIsNewHolds == Spec => []FreshIsNew
<1>1. RelayInv => FreshIsNew
  <2> SUFFICES ASSUME RelayInv, NEW i \in rows \cup ledger
               PROVE  log[i].frame.seq <= hiseq
    BY DEF FreshIsNew
  <2>1. i \in DOMAIN log /\ log[i].epoch = epoch
    BY TypeParts DEF RelayInv, InboxSound, InboxTyped
  <2> QED BY <2>1 DEF RelayInv, Topped
<1> QED BY <1>1, RelayInvariant, PTL

\* The reused-seq guard never invents a delivery, nor an acked emit.
THEOREM AckIsExplainedHolds == Spec => []AckIsExplained
<1>1. RelayInv => AckIsExplained
  BY DEF RelayInv
<1> QED BY <1>1, RelayInvariant, PTL

\* A frame is dispatched twice in an epoch only after its row was shed, or after
\* RecentKeep later serves: the window of whittle_N is the whole guarantee.
THEOREM DuplicateNeedsForgettingHolds == Spec => []DuplicateNeedsForgetting
<1>1. RelayInv => DuplicateNeedsForgetting
  BY DEF RelayInv
<1> QED BY <1>1, RelayInvariant, PTL
=============================================================================
