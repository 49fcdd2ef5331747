-------------------------- MODULE PierStreamProofs --------------------------
(***************************************************************************)
(* What is proved of PierStream for every value of its constants.          *)
(***************************************************************************)
EXTENDS PierStream, TLAPS, WellFoundedInduction

-----------------------------------------------------------------------------
\* The drain loop of inseq_admit.

\* A set of naturals that is not empty has a least member.
LEMMA LeastNatural ==
  ASSUME NEW T \in SUBSET Nat, T # {}
  PROVE  \E n \in T : \A k \in T : n <= k
<1> DEFINE Below == OpToRel(<, Nat)
<1>1. Below = {p \in Nat \X Nat : p[1] < p[2]}
  BY Zenon DEF OpToRel
<1>2. IsWellFoundedOn(Below, Nat)
  BY NatLessThanWellFounded, Zenon
<1> HIDE DEF Below
<1>3. PICK n \in T : \A k \in T : ~ (<<k, n>> \in Below)
  BY <1>2, WFMin, Zenon
<1>4. ASSUME NEW k \in T, k < n
      PROVE  <<k, n>> \in Below
  BY <1>1, <1>4
<1>5. \A k \in T : ~ (k < n)
  BY <1>3, <1>4, Zenon
<1>6. \A k \in T : n <= k
  BY <1>5
<1> QED
  BY <1>6

\* The loop stops: at the end of the contiguous run, inside what was buffered.
LEMMA RunEndProperties ==
  ASSUME NEW m \in Nat, NEW buffered \in SUBSET (1..m), NEW seq \in 1..m
  PROVE  /\ RunEnd(buffered, seq) \in seq..m
         /\ RunEnd(buffered, seq) + 1 \notin buffered
         /\ (seq + 1)..RunEnd(buffered, seq) \subseteq buffered
<1> DEFINE T == {n \in Nat : n >= seq /\ n + 1 \notin buffered}
<1>1. m \in T
  OBVIOUS
<1>2. PICK n \in T : \A k \in T : n <= k
  BY <1>1, LeastNatural
<1>3. (seq + 1)..n \subseteq buffered
  <2> SUFFICES ASSUME NEW k \in (seq + 1)..n
               PROVE  k \in buffered
    OBVIOUS
  <2>1. k - 1 \in Nat /\ k - 1 >= seq /\ k - 1 < n
    BY <1>2
  <2>2. k - 1 \notin T
    BY <2>1, <1>2
  <2> QED
    BY <2>1, <2>2
<1>4. n \in {seq} \cup buffered
  <2>1. CASE n = seq
    BY <2>1
  <2>2. CASE n # seq
    BY <2>2, <1>2, <1>3
  <2> QED
    BY <2>1, <2>2
<1>5. RunEnd(buffered, seq) \in {seq} \cup buffered
      /\ RunEnd(buffered, seq) >= seq
      /\ RunEnd(buffered, seq) + 1 \notin buffered
      /\ (seq + 1)..RunEnd(buffered, seq) \subseteq buffered
  BY <1>2, <1>3, <1>4 DEF RunEnd
<1>6. ASSUME NEW e, e \in {seq} \cup buffered, e >= seq
      PROVE  e \in seq..m
  BY <1>6
<1> QED
  BY <1>5, <1>6

\* What folding one seq into a well-formed cursor can do: nothing, hold the
\* seq behind the gap, or release the run that starts at the next seq.
LEMMA AdmitCases ==
  ASSUME NEW m \in Nat, NEW st \in [last : 0..m, buffered : SUBSET (1..m)],
         NEW s \in 1..m
  PROVE  LET v == InseqAdmit(st, s)
         IN  \/ /\ s <= st.last \/ s \in st.buffered
                /\ v = [st |-> st, ready |-> <<>>]
             \/ /\ s > st.last + 1
                /\ v = [st |-> [last |-> st.last, buffered |-> st.buffered \cup {s}],
                        ready |-> <<>>]
             \/ /\ s = st.last + 1
                /\ \E end \in s..m :
                     /\ v = [st |-> [last |-> end, buffered |-> st.buffered \ (s..end)],
                             ready |-> Run(s, end)]
                     /\ end + 1 \notin st.buffered
                     /\ (s + 1)..end \subseteq st.buffered
<1>1. CASE s <= st.last \/ s \in st.buffered
  BY <1>1 DEF InseqAdmit
<1>2. CASE ~ (s <= st.last \/ s \in st.buffered) /\ s > st.last + 1
  BY <1>2 DEF InseqAdmit
<1>3. CASE ~ (s <= st.last \/ s \in st.buffered) /\ ~ (s > st.last + 1)
  <2> DEFINE end == RunEnd(st.buffered, s)
  <2>1. s = st.last + 1
    BY <1>3
  <2>2. /\ end \in s..m
        /\ end + 1 \notin st.buffered
        /\ (s + 1)..end \subseteq st.buffered
    BY RunEndProperties
  <2>3. InseqAdmit(st, s) = [st |-> [last |-> end, buffered |-> st.buffered \ (s..end)],
                             ready |-> Run(s, end)]
    BY <1>3 DEF InseqAdmit
  <2> HIDE DEF end
  <2> QED
    BY <2>1, <2>2, <2>3
<1> QED
  BY <1>1, <1>2, <1>3

-----------------------------------------------------------------------------
\* The outbox operators, as far as the invariant needs them: no emit appears
\* but the one booked, and none turns acked but the one an ack names.

IsOutbox(o) == o \in [DOMAIN o -> EmitType]

LEMMA BookEmitFacts ==
  ASSUME NEW o, IsOutbox(o), NEW seq
  PROVE  /\ IsOutbox(BookEmit(o, seq))
         /\ DOMAIN BookEmit(o, seq) = (DOMAIN o \ Backstop(o)) \cup {seq}
         /\ Acked(BookEmit(o, seq)) \subseteq Acked(o)
<1>1. FreshEmit \in EmitType /\ FreshEmit.acked = FALSE
  BY DEF FreshEmit, Emit, EmitType
<1> QED
  BY <1>1 DEF IsOutbox, BookEmit, Without, Acked

LEMMA TakeAckFacts ==
  ASSUME NEW o, IsOutbox(o), NEW seq
  PROVE  /\ IsOutbox(TakeAck(o, seq))
         /\ DOMAIN TakeAck(o, seq) \subseteq DOMAIN o
         /\ Acked(TakeAck(o, seq)) \subseteq Acked(o) \cup {seq}
         /\ DOMAIN o \ DOMAIN TakeAck(o, seq) \subseteq Acked(o) \cup {seq}
<1>1. CASE seq \notin DOMAIN o
  BY <1>1 DEF TakeAck
<1>2. CASE seq \in DOMAIN o
  <2> DEFINE stamped == [o EXCEPT ![seq] = Emit(@.age, @.attempts, TRUE)]
             gone == Acked(stamped) \ Newest(Acked(stamped), AckedKeep)
  <2>1. Emit(o[seq].age, o[seq].attempts, TRUE) \in EmitType
    BY <1>2 DEF IsOutbox, Emit, EmitType
  <2>2. /\ IsOutbox(stamped)
        /\ DOMAIN stamped = DOMAIN o
        /\ \A s \in DOMAIN o \ {seq} : stamped[s] = o[s]
    BY <1>2, <2>1 DEF IsOutbox
  <2>3. Acked(stamped) \subseteq Acked(o) \cup {seq}
    BY <2>2 DEF Acked
  <2>4. TakeAck(o, seq) = Without(stamped, gone)
    BY <1>2 DEF TakeAck
  <2>5. gone \subseteq Acked(o) \cup {seq}
    BY <2>3
  <2> HIDE DEF stamped, gone
  <2> QED
    BY <2>2, <2>3, <2>4, <2>5 DEF Without, IsOutbox, Acked
<1> QED
  BY <1>1, <1>2

LEMMA BeatFacts ==
  ASSUME NEW o, IsOutbox(o)
  PROVE  /\ IsOutbox(Culled(Swept(o)))
         /\ DOMAIN Culled(Swept(o)) \subseteq DOMAIN o
         /\ Acked(Culled(Swept(o))) = {}
         /\ RetxDue(Aged(o)).resend \subseteq DOMAIN o
         /\ RetxDue(Aged(o)).dead \subseteq DOMAIN o
         /\ DOMAIN o \ DOMAIN Culled(Swept(o))
              \subseteq Acked(o) \cup RetxDue(Aged(o)).dead
<1> DEFINE aged == Aged(o)
           verdict == RetxDue(aged)
           resent == [s \in DOMAIN aged |->
                        IF s \in verdict.resend
                        THEN Emit(0, aged[s].attempts + 1, FALSE)
                        ELSE aged[s]]
<1>1. /\ IsOutbox(aged)
      /\ DOMAIN aged = DOMAIN o
      /\ Acked(aged) = Acked(o)
  <2>1. ASSUME NEW s \in DOMAIN o, ~ o[s].acked
        PROVE  /\ Emit(o[s].age + 1, o[s].attempts, FALSE) \in EmitType
               /\ Emit(o[s].age + 1, o[s].attempts, FALSE).acked = FALSE
    BY <2>1 DEF IsOutbox, Emit, EmitType
  <2> QED
    BY <2>1 DEF IsOutbox, Aged, Acked
<1>2. /\ verdict.resend \subseteq DOMAIN aged
      /\ verdict.dead \subseteq DOMAIN aged
  BY DEF RetxDue
<1>3. /\ IsOutbox(resent)
      /\ DOMAIN resent = DOMAIN aged
      /\ Acked(resent) \subseteq Acked(aged)
  <2>1. ASSUME NEW s \in DOMAIN aged
        PROVE  /\ Emit(0, aged[s].attempts + 1, FALSE) \in EmitType
               /\ Emit(0, aged[s].attempts + 1, FALSE).acked = FALSE
    BY <1>1, <2>1 DEF IsOutbox, Emit, EmitType
  <2> HIDE DEF aged, verdict
  <2> QED
    BY <1>1, <2>1 DEF IsOutbox, Acked
<1>4. Swept(o) = Without(resent, verdict.dead)
  BY DEF Swept
<1> HIDE DEF aged, verdict, resent
<1>5. /\ IsOutbox(Swept(o))
      /\ DOMAIN Swept(o) = DOMAIN resent \ verdict.dead
      /\ Acked(Swept(o)) \subseteq Acked(resent)
  BY <1>3, <1>4 DEF Without, IsOutbox, Acked
<1>6. /\ IsOutbox(Culled(Swept(o)))
      /\ DOMAIN Culled(Swept(o)) = DOMAIN Swept(o) \ Acked(Swept(o))
      /\ Acked(Culled(Swept(o))) = {}
  BY <1>5 DEF Culled, Without, IsOutbox, Acked
<1> QED
  BY <1>1, <1>2, <1>3, <1>5, <1>6 DEF aged, verdict

-----------------------------------------------------------------------------
\* The invariant, action by action.

LEMMA InitInv == Init => StreamInv
<1> SUFFICES ASSUME Init PROVE StreamInv
  OBVIOUS
<1>1. DOMAIN outbox = {} /\ Acked(outbox) = {} /\ outbox \in [DOMAIN outbox -> EmitType]
  BY DEF Init, EmptyOutbox, Acked
<1>2. /\ Len(<<>>) = 0 /\ DOMAIN <<>> = {} /\ <<>> \in Seq(Seqs)
  OBVIOUS
<1> QED
  BY <1>1, <1>2, StreamAssumption
  DEF Init, FreshCursor, StreamInv, TypeOK, ExactlyOnceInOrder, HeldTail,
      AckedWasAdmitted, NothingVanishes, Causality, Seqs

LEMMA SendInv == StreamInv /\ Send => StreamInv'
<1> SUFFICES ASSUME StreamInv, Send PROVE StreamInv'
  OBVIOUS
<1> USE DEF StreamInv
<1>0. /\ nseq \in 0..MaxSeq /\ nseq < MaxSeq /\ nseq' = nseq + 1
      /\ nseq' \in 0..MaxSeq /\ nseq' \in Seqs
      /\ UNCHANGED <<stalled, acks, inseq, held, log, beacons, resets>>
      /\ net' = net \cup {nseq'}
      /\ forgotten' = forgotten \cup Unsettled(Backstop(outbox))
  BY StreamAssumption DEF Send, TypeOK, Seqs, receiverVars
<1>1. /\ IsOutbox(outbox')
      /\ DOMAIN outbox' = (DOMAIN outbox \ Backstop(outbox)) \cup {nseq'}
      /\ Acked(outbox') \subseteq Acked(outbox)
  BY BookEmitFacts DEF Send, TypeOK, IsOutbox
<1>2. Backstop(outbox) \subseteq DOMAIN outbox
  BY DEF Backstop
<1>3. TypeOK'
  BY <1>0, <1>1, <1>2 DEF TypeOK, Unsettled, IsOutbox
<1>4. ExactlyOnceInOrder'
  BY <1>0 DEF ExactlyOnceInOrder
<1>5. HeldTail'
  BY <1>0 DEF HeldTail, TypeOK, Seqs
<1>6. AckedWasAdmitted'
  BY <1>0, <1>1 DEF AckedWasAdmitted
<1>7. NothingVanishes'
  <2>1. ASSUME NEW s \in DOMAIN outbox, s \notin DOMAIN outbox'
        PROVE  s \in forgotten' \/ s <= inseq.last
    BY <1>0, <1>1, <1>2, <2>1 DEF Unsettled, AckedWasAdmitted, Acked
  <2> QED
    BY <1>0, <1>1, <2>1 DEF NothingVanishes
<1>8. Causality'
  BY <1>0, <1>1 DEF Causality, TypeOK
<1> QED
  BY <1>3, <1>4, <1>5, <1>6, <1>7, <1>8

\* A step that leaves the receiver, the seq counter and the sender's records
\* alone but for losing acks, frames and acked emits.
LEMMA SendBeaconInv == StreamInv /\ SendBeacon => StreamInv'
<1> SUFFICES ASSUME StreamInv, SendBeacon PROVE StreamInv'
  OBVIOUS
<1> USE DEF StreamInv
<1>0. /\ nseq \in 0..MaxSeq /\ nseq' = nseq + 1
      /\ nseq' \in 0..MaxSeq /\ nseq' \in Seqs
      /\ beacons' = beacons \cup {nseq'}
      /\ net' \subseteq net \cup {nseq'}
      /\ UNCHANGED <<outbox, stalled, acks, inseq, held, log,
                     forgotten, resets>>
  BY StreamAssumption DEF SendBeacon, TypeOK, Seqs, receiverVars
<1>1. TypeOK'
  BY <1>0 DEF TypeOK
<1>2. ExactlyOnceInOrder'
  BY <1>0 DEF ExactlyOnceInOrder
<1>3. HeldTail'
  BY <1>0 DEF HeldTail, TypeOK, Seqs
<1>4. AckedWasAdmitted'
  BY <1>0 DEF AckedWasAdmitted, Acked
<1>5. NothingVanishes'
  BY <1>0 DEF NothingVanishes
<1>6. Causality'
  BY <1>0 DEF Causality, TypeOK
<1> QED
  BY <1>1, <1>2, <1>3, <1>4, <1>5, <1>6

LEMMA ReceiveAckInv ==
  ASSUME NEW s \in Seqs, StreamInv, ReceiveAck(s)
  PROVE  StreamInv'
<1> USE DEF StreamInv
<1>0. /\ s \in acks /\ acks' \subseteq acks
      /\ UNCHANGED <<nseq, stalled, net, inseq, held, log, beacons,
                     forgotten, resets>>
  BY DEF ReceiveAck, receiverVars
<1>1. /\ IsOutbox(outbox')
      /\ DOMAIN outbox' \subseteq DOMAIN outbox
      /\ Acked(outbox') \subseteq Acked(outbox) \cup {s}
      /\ DOMAIN outbox \ DOMAIN outbox' \subseteq Acked(outbox) \cup {s}
  BY TakeAckFacts DEF ReceiveAck, TypeOK, IsOutbox
<1>2. TypeOK'
  BY <1>0, <1>1 DEF TypeOK, IsOutbox
<1>3. ExactlyOnceInOrder'
  BY <1>0 DEF ExactlyOnceInOrder
<1>4. HeldTail'
  BY <1>0 DEF HeldTail
<1>5. AckedWasAdmitted'
  BY <1>0, <1>1 DEF AckedWasAdmitted
<1>6. NothingVanishes'
  BY <1>0, <1>1 DEF NothingVanishes, AckedWasAdmitted
<1>7. Causality'
  BY <1>0, <1>1 DEF Causality
<1> QED
  BY <1>2, <1>3, <1>4, <1>5, <1>6, <1>7

LEMMA BeatInv == StreamInv /\ Beat => StreamInv'
<1> SUFFICES ASSUME StreamInv, Beat PROVE StreamInv'
  OBVIOUS
<1> USE DEF StreamInv
<1> DEFINE verdict == RetxDue(Aged(outbox))
<1>0. /\ net' = net \cup verdict.resend
      /\ stalled' = stalled \cup verdict.dead
      /\ UNCHANGED <<nseq, acks, inseq, held, log, beacons, forgotten,
                     resets>>
  BY DEF Beat, receiverVars
<1>1. /\ IsOutbox(outbox')
      /\ DOMAIN outbox' \subseteq DOMAIN outbox
      /\ Acked(outbox') = {}
      /\ verdict.resend \subseteq DOMAIN outbox
      /\ verdict.dead \subseteq DOMAIN outbox
      /\ DOMAIN outbox \ DOMAIN outbox' \subseteq Acked(outbox) \cup verdict.dead
  BY BeatFacts DEF Beat, TypeOK, IsOutbox
<1> HIDE DEF verdict
<1>2. TypeOK'
  BY <1>0, <1>1 DEF TypeOK, IsOutbox
<1>3. ExactlyOnceInOrder'
  BY <1>0 DEF ExactlyOnceInOrder
<1>4. HeldTail'
  BY <1>0 DEF HeldTail
<1>5. AckedWasAdmitted'
  BY <1>0, <1>1 DEF AckedWasAdmitted
<1>6. NothingVanishes'
  BY <1>0, <1>1 DEF NothingVanishes, AckedWasAdmitted
<1>7. Causality'
  BY <1>0, <1>1 DEF Causality
<1> QED
  BY <1>2, <1>3, <1>4, <1>5, <1>6, <1>7

\* A released run is booked whole: every seq of it has its frame.
LEMMA RunIsFramed ==
  ASSUME NEW s \in Nat, NEW end \in Nat, s <= end, (s + 1)..end \subseteq held
  PROVE  /\ Booked(Run(s, end), s) = Run(s, end)
         /\ {Run(s, end)[i] : i \in DOMAIN Run(s, end)} = s..end
         /\ Run(s, end) # <<>>
<1>1. DOMAIN Run(s, end) = 1..(end - s + 1)
  BY DEF Run
<1>2. \A i \in DOMAIN Run(s, end) : Run(s, end)[i] = s + i - 1
  BY DEF Run
<1>3. \A i \in DOMAIN Run(s, end) : Run(s, end)[i] = s \/ Run(s, end)[i] \in held
  BY <1>1, <1>2
<1>4. {Run(s, end)[i] : i \in DOMAIN Run(s, end)} = s..end
  <2>1. ASSUME NEW k \in s..end
        PROVE  k - s + 1 \in DOMAIN Run(s, end) /\ Run(s, end)[k - s + 1] = k
    BY <1>1, <1>2
  <2>2. ASSUME NEW i \in DOMAIN Run(s, end)
        PROVE  Run(s, end)[i] \in s..end
    BY <1>1, <1>2
  <2> QED
    BY <2>1, <2>2
<1>5. Run(s, end) # <<>>
  BY <1>1
<1> QED
  BY <1>3, <1>4, <1>5 DEF Booked

\* Appending the next run to a log of the seqs so far.
LEMMA LogGrows ==
  ASSUME NEW l \in Seq(Seqs), \A i \in DOMAIN l : l[i] = i,
         NEW end \in Seqs, Len(l) + 1 <= end
  PROVE  /\ l \o Run(Len(l) + 1, end) \in Seq(Seqs)
         /\ Len(l \o Run(Len(l) + 1, end)) = end
         /\ \A i \in DOMAIN (l \o Run(Len(l) + 1, end)) :
              (l \o Run(Len(l) + 1, end))[i] = i
<1> DEFINE r == Run(Len(l) + 1, end)
<1>1. Len(l) \in Nat /\ end \in Nat /\ end <= MaxSeq
  BY StreamAssumption DEF Seqs
<1>2. r = [i \in 1..(end - Len(l)) |-> Len(l) + i]
  BY <1>1 DEF Run
<1>3. \A i \in 1..(end - Len(l)) : Len(l) + i \in Seqs
  BY <1>1, StreamAssumption DEF Seqs
<1>4. r \in Seq(Seqs) /\ Len(r) = end - Len(l)
  <2>1. end - Len(l) \in Nat
    BY <1>1
  <2>2. r \in [1..(end - Len(l)) -> Seqs]
    BY <1>2, <1>3
  <2> HIDE DEF r
  <2> QED
    BY <2>1, <2>2
<1> HIDE DEF r
<1>5. /\ l \o r \in Seq(Seqs)
      /\ Len(l \o r) = end
      /\ DOMAIN (l \o r) = 1..end
  BY <1>1, <1>4
<1>6. ASSUME NEW i \in 1..end
      PROVE  (l \o r)[i] = i
  BY <1>1, <1>2, <1>4, <1>6
<1> QED
  BY <1>5, <1>6 DEF r

\* What a delivery does to the receiver: re-ack a duplicate, hold a frame, or
\* dispatch the run of seqs s..end.
Duplicate(s) ==
  /\ s <= inseq.last
  /\ acks' = acks \cup {s}
  /\ UNCHANGED <<inseq, held, log>>

Hold(s) ==
  /\ s > inseq.last + 1
  /\ inseq' = [last |-> inseq.last, buffered |-> held \cup {s}]
  /\ held' = held \cup {s}
  /\ UNCHANGED <<acks, log>>

Release(s, end) ==
  /\ s = Len(log) + 1
  /\ end \in s..nseq
  /\ end + 1 \notin held
  /\ inseq' = [last |-> end, buffered |-> held \ (s..end)]
  /\ held' = held \ (s..end)
  /\ log' = log \o Run(s, end)
  /\ acks' \subseteq acks \cup s..end

LEMMA DeliverEffect ==
  ASSUME NEW s \in Seqs, StreamInv, Deliver(s)
  PROVE  \/ Duplicate(s)
         \/ Hold(s)
         \/ \E end \in s..nseq : Release(s, end)
<1> USE DEF StreamInv
<1>0. s \in net
  BY DEF Deliver
<1>1. PICK bad \in SUBSET Seqs : Admit(s, bad)
  BY DEF Deliver
<1> DEFINE v == InseqAdmit(inseq, s)
           ran == {Booked(v.ready, s)[i] : i \in DOMAIN Booked(v.ready, s)}
<1>2. /\ nseq \in Nat /\ nseq <= MaxSeq /\ s \in 1..nseq
      /\ inseq \in [last : 0..nseq, buffered : SUBSET (1..nseq)]
      /\ inseq.buffered = held
      /\ inseq.last \in Nat
  BY <1>0, StreamAssumption DEF TypeOK, HeldTail, Causality, Seqs
<1>3. \/ /\ s <= inseq.last
         /\ v = [st |-> inseq, ready |-> <<>>]
      \/ /\ s > inseq.last
         /\ v = [st |-> [last |-> inseq.last, buffered |-> inseq.buffered \cup {s}],
                 ready |-> <<>>]
         /\ s > inseq.last + 1
      \/ /\ s = inseq.last + 1
         /\ \E end \in s..nseq :
              /\ v = [st |-> [last |-> end, buffered |-> inseq.buffered \ (s..end)],
                      ready |-> Run(s, end)]
              /\ end + 1 \notin inseq.buffered
              /\ (s + 1)..end \subseteq inseq.buffered
  <2> DEFINE Releases ==
               \E end \in s..nseq :
                 /\ v = [st |-> [last |-> end, buffered |-> inseq.buffered \ (s..end)],
                         ready |-> Run(s, end)]
                 /\ end + 1 \notin inseq.buffered
                 /\ (s + 1)..end \subseteq inseq.buffered
  <2>0. \/ /\ s <= inseq.last \/ s \in inseq.buffered
           /\ v = [st |-> inseq, ready |-> <<>>]
        \/ /\ s > inseq.last + 1
           /\ v = [st |-> [last |-> inseq.last, buffered |-> inseq.buffered \cup {s}],
                   ready |-> <<>>]
        \/ s = inseq.last + 1 /\ Releases
    BY <1>2, AdmitCases
  <2> HIDE DEF Releases, v
  <2>1. CASE s \in inseq.buffered /\ s > inseq.last
    <3>1. s > inseq.last + 1
      BY <2>1, <1>2 DEF HeldTail
    <3>2. inseq = [last |-> inseq.last, buffered |-> inseq.buffered \cup {s}]
      BY <2>1, <1>2
    <3> QED
      BY <3>1, <3>2, <2>0, <2>1, <1>2
  <2>2. CASE ~ (s \in inseq.buffered /\ s > inseq.last)
    BY <2>0, <2>2, <1>2 DEF Releases
  <2> QED
    BY <2>1, <2>2
<1>4. /\ inseq' = v.st
      /\ log' = log \o Booked(v.ready, s)
      /\ bad \subseteq ran
      /\ \/ /\ v.ready = <<>>
            /\ s <= inseq.last
            /\ acks' = acks \cup {s}
            /\ UNCHANGED held
         \/ /\ v.ready = <<>>
            /\ s > inseq.last
            /\ held' = held \cup {s}
            /\ UNCHANGED acks
         \/ /\ v.ready # <<>>
            /\ held' = held \ {v.ready[i] : i \in DOMAIN v.ready}
            /\ acks' = acks \cup (ran \ bad)
  BY <1>1 DEF Admit
<1> HIDE DEF v
<1>5. Booked(<<>>, s) = <<>> /\ log \o <<>> = log
  BY DEF Booked, TypeOK
<1>7. CASE /\ s <= inseq.last
           /\ v = [st |-> inseq, ready |-> <<>>]
  <2>1. v.st = inseq /\ v.ready = <<>>
    BY <1>7
  <2>2. inseq' = inseq /\ log' = log
    BY <1>4, <1>5, <2>1
  <2> QED
    BY <1>2, <1>4, <1>7, <2>1, <2>2 DEF Duplicate
<1>8. CASE /\ s > inseq.last
           /\ v = [st |-> [last |-> inseq.last, buffered |-> inseq.buffered \cup {s}],
                   ready |-> <<>>]
           /\ s > inseq.last + 1
  <2>1. v.st = [last |-> inseq.last, buffered |-> held \cup {s}] /\ v.ready = <<>>
    BY <1>2, <1>8
  <2>2. inseq' = v.st /\ log' = log
    BY <1>4, <1>5, <2>1
  <2> QED
    BY <1>2, <1>4, <1>8, <2>1, <2>2 DEF Hold
<1>9. ASSUME s = inseq.last + 1,
             NEW end \in s..nseq,
             v = [st |-> [last |-> end, buffered |-> inseq.buffered \ (s..end)],
                  ready |-> Run(s, end)],
             end + 1 \notin inseq.buffered,
             (s + 1)..end \subseteq inseq.buffered
      PROVE  Release(s, end)
  <2>1. /\ Booked(Run(s, end), s) = Run(s, end)
        /\ {Run(s, end)[i] : i \in DOMAIN Run(s, end)} = s..end
        /\ Run(s, end) # <<>>
    <3>1. s \in Nat /\ end \in Nat /\ s <= end /\ (s + 1)..end \subseteq held
      BY <1>2, <1>9
    <3> QED
      BY <3>1, RunIsFramed
  <2>2. v.st = [last |-> end, buffered |-> held \ (s..end)] /\ v.ready = Run(s, end)
    BY <1>2, <1>9
  <2>3. ran = s..end
    BY <2>1, <2>2
  <2> HIDE DEF ran
  <2>4. s = Len(log) + 1
    BY <1>9 DEF ExactlyOnceInOrder
  <2> QED
    BY <1>2, <1>4, <1>9, <2>1, <2>2, <2>3, <2>4 DEF Release
<1> QED
  BY <1>3, <1>7, <1>8, <1>9

LEMMA DeliverInv ==
  ASSUME NEW s \in Seqs, StreamInv, Deliver(s)
  PROVE  StreamInv'
<1> USE DEF StreamInv
<1>1. /\ s \in net /\ net' \subseteq net
      /\ UNCHANGED <<nseq, outbox, stalled, beacons, forgotten, resets>>
  BY DEF Deliver, senderVars
<1>2. /\ nseq \in Nat /\ nseq <= MaxSeq /\ s \in 1..nseq
      /\ inseq \in [last : 0..MaxSeq, buffered : SUBSET Seqs]
      /\ inseq.buffered = held
      /\ inseq.last = Len(log)
  BY <1>1, StreamAssumption
  DEF TypeOK, HeldTail, Causality, Seqs, ExactlyOnceInOrder
<1>3. Duplicate(s) \/ Hold(s) \/ \E end \in s..nseq : Release(s, end)
  BY DeliverEffect
<1>4. CASE Duplicate(s)
  <2>1. TypeOK'
    BY <1>1, <1>3, <1>4 DEF TypeOK, Duplicate
  <2>2. AckedWasAdmitted'
    BY <1>1, <1>4 DEF AckedWasAdmitted, Acked, Duplicate
  <2> QED
    BY <1>1, <1>4, <2>1, <2>2
    DEF ExactlyOnceInOrder, HeldTail, NothingVanishes, Causality, Duplicate
<1>5. CASE Hold(s)
  <2>1. inseq'.last = inseq.last /\ inseq'.buffered = held'
    BY <1>5 DEF Hold
  <2>2. TypeOK'
    BY <1>1, <1>2, <1>3, <1>5 DEF TypeOK, Hold
  <2>3. HeldTail'
    BY <1>1, <1>2, <1>5, <2>1 DEF HeldTail, Hold
  <2> QED
    BY <1>1, <1>5, <2>1, <2>2, <2>3
    DEF ExactlyOnceInOrder, AckedWasAdmitted, NothingVanishes, Causality,
        Acked, Hold
<1>6. ASSUME NEW end \in s..nseq, Release(s, end)
      PROVE  StreamInv'
  <2>1. end \in Seqs /\ s..end \subseteq Seqs /\ inseq'.last = end
    <3>1. inseq'.last = end
      BY <1>6 DEF Release
    <3>2. s..nseq \subseteq Seqs
      BY <1>2, StreamAssumption DEF Seqs
    <3> QED
      BY <1>2, <1>6, <3>1, <3>2
  <2>2. log' \in Seq(Seqs) /\ Len(log') = end /\ \A i \in DOMAIN log' : log'[i] = i
    <3>1. Len(log) + 1 = s /\ Len(log) + 1 <= end /\ log' = log \o Run(s, end)
      BY <1>2, <1>6 DEF Release
    <3> QED
      BY <2>1, <3>1, LogGrows DEF TypeOK, ExactlyOnceInOrder
  <2>3. TypeOK'
    <3>1. inseq' \in [last : 0..MaxSeq, buffered : SUBSET Seqs]
      BY <1>2, <1>6, <2>1 DEF Release, TypeOK, Seqs
    <3>2. acks' \subseteq Seqs /\ held' \subseteq Seqs
      BY <1>6, <2>1 DEF Release, TypeOK
    <3> QED
      BY <1>1, <1>3, <2>2, <3>1, <3>2 DEF TypeOK
  <2>4. HeldTail'
    <3>1. /\ held' = held \ (s..end) /\ inseq'.buffered = held'
          /\ s = inseq.last + 1 /\ end + 1 \notin held
      BY <1>2, <1>6 DEF Release
    <3>2. ASSUME NEW k \in held'
          PROVE  inseq'.last + 1 < k /\ k <= nseq'
      <4>1. k \in held /\ ~ (k \in s..end) /\ k # end + 1
        BY <3>1
      <4>2. k \in Nat /\ inseq.last + 1 < k /\ k <= nseq
        BY <4>1 DEF HeldTail, TypeOK, Seqs
      <4> QED
        BY <1>1, <1>2, <1>6, <2>1, <3>1, <4>1, <4>2
    <3> QED
      BY <3>1, <3>2 DEF HeldTail
  <2>5. AckedWasAdmitted'
    <3>1. acks' \subseteq acks \cup s..end /\ inseq.last <= end
      BY <1>2, <1>6 DEF Release
    <3> QED
      BY <1>1, <1>2, <1>6, <2>1, <3>1 DEF AckedWasAdmitted, TypeOK, Acked, Seqs
  <2>6. NothingVanishes'
    BY <1>1, <1>2, <1>6, <2>1 DEF NothingVanishes, Release
  <2>7. Causality'
    BY <1>1, <1>2, <2>1 DEF Causality
  <2> QED
    BY <2>1, <2>2, <2>3, <2>4, <2>5, <2>6, <2>7 DEF ExactlyOnceInOrder
<1> QED
  BY <1>3, <1>4, <1>5, <1>6

LEMMA LossInv ==
  ASSUME NEW s \in Seqs, StreamInv, LoseFrame(s) \/ LoseAck(s)
  PROVE  StreamInv'
<1>1. /\ net' \subseteq net /\ acks' \subseteq acks
      /\ UNCHANGED <<nseq, outbox, stalled, inseq, held, log, beacons,
                     forgotten, resets>>
  BY DEF LoseFrame, LoseAck, senderVars, receiverVars
<1> QED
  BY <1>1
  DEF StreamInv, TypeOK, ExactlyOnceInOrder, HeldTail, AckedWasAdmitted,
      NothingVanishes, Causality, Acked

LEMMA ResetSenderInv == StreamInv /\ ResetSender => StreamInv'
<1> SUFFICES ASSUME StreamInv, ResetSender PROVE StreamInv'
  OBVIOUS
<1> USE DEF StreamInv
<1>1. /\ DOMAIN outbox' = {} /\ Acked(outbox') = {}
      /\ outbox' \in [DOMAIN outbox' -> EmitType]
      /\ stalled' = {}
      /\ forgotten' = forgotten \cup Unsettled(DOMAIN outbox) \cup stalled
      /\ UNCHANGED <<nseq, net, acks, inseq, held, log, beacons>>
  BY DEF ResetSender, EmptyOutbox, Acked, receiverVars
<1>2. resets' \in 0..MaxResets
  BY StreamAssumption DEF ResetSender, TypeOK
<1>3. Unsettled(DOMAIN outbox) \subseteq DOMAIN outbox
      /\ DOMAIN outbox \ Unsettled(DOMAIN outbox) = Acked(outbox)
  BY DEF Unsettled, Acked
<1>4. TypeOK'
  BY <1>1, <1>2, <1>3 DEF TypeOK
<1>5. NothingVanishes'
  BY <1>1, <1>3 DEF NothingVanishes, AckedWasAdmitted
<1>6. AckedWasAdmitted'
  BY <1>1 DEF AckedWasAdmitted
<1> QED
  BY <1>1, <1>4, <1>5, <1>6 DEF ExactlyOnceInOrder, HeldTail, Causality

LEMMA ResetReceiverInv == StreamInv /\ ResetReceiver => StreamInv'
<1> SUFFICES ASSUME StreamInv, ResetReceiver PROVE StreamInv'
  OBVIOUS
<1> USE DEF StreamInv
<1>1. /\ inseq' = [last |-> inseq.last, buffered |-> {}]
      /\ held' = {}
      /\ UNCHANGED <<nseq, outbox, stalled, net, acks, log, beacons,
                     forgotten>>
  BY DEF ResetReceiver, senderVars
<1>2. resets' \in 0..MaxResets
  BY StreamAssumption DEF ResetReceiver, TypeOK
<1>3. inseq'.last = inseq.last /\ inseq'.buffered = {}
  BY <1>1
<1>4. TypeOK'
  BY <1>1, <1>2 DEF TypeOK
<1> QED
  BY <1>1, <1>3, <1>4
  DEF ExactlyOnceInOrder, HeldTail, AckedWasAdmitted, NothingVanishes,
      Causality, Acked

LEMMA NextInv == StreamInv /\ [Next]_vars => StreamInv'
<1> SUFFICES ASSUME StreamInv, [Next]_vars PROVE StreamInv'
  OBVIOUS
<1>1. CASE UNCHANGED vars
  BY <1>1
  DEF vars, StreamInv, TypeOK, ExactlyOnceInOrder, HeldTail,
      AckedWasAdmitted, NothingVanishes, Causality, Acked
<1>2. CASE Next
  <2>1. CASE \E s \in Seqs : ReceiveAck(s) \/ Deliver(s) \/ LoseFrame(s) \/ LoseAck(s)
    BY <2>1, ReceiveAckInv, DeliverInv, LossInv
  <2>2. CASE Send \/ SendBeacon \/ Beat \/ ResetSender \/ ResetReceiver
    BY <2>2, SendInv, SendBeaconInv, BeatInv, ResetSenderInv, ResetReceiverInv
  <2> QED
    BY <1>2, <2>1, <2>2 DEF Next
<1> QED
  BY <1>1, <1>2

-----------------------------------------------------------------------------
\* Theorems.

\* The cursor, the outbox, the held tail and the acks stay consistent with
\* each other in every reachable state of Peeroleum's lossy-carrier path.
THEOREM StreamInvariant == Spec => []StreamInv
<1>1. Init => StreamInv
  BY InitInv
<1>2. StreamInv /\ [Next]_vars => StreamInv'
  BY NextInv
<1> QED
  BY <1>1, <1>2, PTL DEF Spec

\* req_unemit sees every seq up to the cursor exactly once and in order.
THEOREM DeliversExactlyOnceInOrder == Spec => []ExactlyOnceInOrder
<1>1. StreamInv => ExactlyOnceInOrder
  BY DEF StreamInv
<1> QED
  BY <1>1, StreamInvariant, PTL

\* No booked frame is lost without the sender holding a record of it.
THEOREM FramesNeverVanish == Spec => []NothingVanishes
<1>1. StreamInv => NothingVanishes
  BY DEF StreamInv
<1> QED
  BY <1>1, StreamInvariant, PTL

\* The outbox, the cursor, the held frames and both directions of the carrier
\* keep to their shape, whatever the caps.
THEOREM StreamTypeCorrect == Spec => []TypeOK
<1>1. StreamInv => TypeOK
  BY DEF StreamInv
<1> QED
  BY <1>1, StreamInvariant, PTL

\* The seqs the cursor holds and the frames kept for them never drift apart.
THEOREM HeldTailMatchesCursor == Spec => []HeldTail
<1>1. StreamInv => HeldTail
  BY DEF StreamInv
<1> QED
  BY <1>1, StreamInvariant, PTL

\* No emit is stamped %acked, and no ack is on its way, for a frame that
\* req_unemit has not seen.
THEOREM AckedFramesWereAdmitted == Spec => []AckedWasAdmitted
<1>1. StreamInv => AckedWasAdmitted
  BY DEF StreamInv
<1> QED
  BY <1>1, StreamInvariant, PTL

-----------------------------------------------------------------------------
\* Action properties and the refinement.

\* A gap that nothing can supply stays one over every step: a send and a beacon
\* draw a later seq, a resend is of what is booked, and no other seq that arrives
\* moves the cursor.
LEMMA GapStays ==
  ASSUME StreamInv, [Next]_vars, NEW n \in Seqs, Unfillable(n)
  PROVE  Unfillable(n)'
<1>1. /\ inseq.last + 1 = n /\ n \in 1..nseq /\ n \notin DOMAIN outbox /\ n \notin net
      /\ nseq \in Nat
  BY StreamAssumption DEF Unfillable, StreamInv, TypeOK
<1>2. IsOutbox(outbox)
  BY DEF StreamInv, TypeOK, IsOutbox
<1> SUFFICES /\ inseq'.last = inseq.last /\ nseq' \in Nat /\ nseq <= nseq'
             /\ n \notin DOMAIN outbox' /\ n \notin net'
  BY <1>1 DEF Unfillable
<1>3. CASE Send \/ SendBeacon
  <2>1. nseq' = nseq + 1 /\ n # nseq' /\ inseq' = inseq /\ net' \subseteq net \cup {nseq'}
    BY <1>1, <1>3 DEF Send, SendBeacon, receiverVars
  <2>2. DOMAIN outbox' \subseteq DOMAIN outbox \cup {nseq'}
    <3>1. Send => outbox' = BookEmit(outbox, nseq')
      BY DEF Send
    <3>2. SendBeacon => outbox' = outbox
      BY DEF SendBeacon
    <3>3. DOMAIN BookEmit(outbox, nseq') \subseteq DOMAIN outbox \cup {nseq'}
      BY <1>2, BookEmitFacts
    <3> QED BY <1>3, <3>1, <3>2, <3>3
  <2> QED BY <1>1, <2>1, <2>2
<1>4. CASE Beat
  <2>1. RetxDue(Aged(outbox)).resend \subseteq DOMAIN outbox
        /\ DOMAIN Culled(Swept(outbox)) \subseteq DOMAIN outbox
    BY <1>2, BeatFacts
  <2> QED BY <1>1, <1>4, <2>1 DEF Beat, receiverVars
<1>5. ASSUME NEW s \in Seqs, ReceiveAck(s)
      PROVE  inseq' = inseq /\ nseq' = nseq /\ net' = net
             /\ DOMAIN outbox' \subseteq DOMAIN outbox
  BY <1>2, <1>5, TakeAckFacts DEF ReceiveAck, receiverVars
<1>6. ASSUME NEW s \in Seqs, Deliver(s)
      PROVE  inseq'.last = inseq.last /\ nseq' = nseq /\ outbox' = outbox
             /\ net' \subseteq net
  <2>1. s \in net /\ net' \subseteq net /\ nseq' = nseq /\ outbox' = outbox
    BY <1>6 DEF Deliver, senderVars
  <2>2. inseq.last = Len(log)
    BY DEF StreamInv, ExactlyOnceInOrder
  <2>3. Duplicate(s) \/ Hold(s)
    BY <1>1, <1>6, <2>1, <2>2, DeliverEffect DEF Release
  <2> QED BY <2>1, <2>3 DEF Duplicate, Hold
<1>7. ASSUME NEW s \in Seqs, LoseFrame(s) \/ LoseAck(s)
      PROVE  inseq' = inseq /\ nseq' = nseq /\ outbox' = outbox /\ net' \subseteq net
  BY <1>7 DEF LoseFrame, LoseAck, senderVars, receiverVars
<1>8. CASE ResetSender \/ ResetReceiver
  <2>1. inseq'.last = inseq.last /\ nseq' = nseq /\ net' = net
    BY <1>8 DEF ResetSender, ResetReceiver, senderVars, receiverVars
  <2>2. DOMAIN outbox' \subseteq DOMAIN outbox
    BY <1>8 DEF ResetSender, ResetReceiver, senderVars, EmptyOutbox
  <2> QED BY <1>1, <2>1, <2>2
<1>9. CASE UNCHANGED vars
  BY <1>1, <1>9 DEF vars
<1> QED BY <1>1, <1>3, <1>4, <1>5, <1>6, <1>7, <1>8, <1>9 DEF Next

\* Nothing at the gap or behind it has been seen by req_unemit.
LEMMA NoneSeenBehind ==
  ASSUME StreamInv, NEW n \in Seqs, Unfillable(n)
  PROVE  \A i \in DOMAIN log : log[i] < n
<1>1. inseq.last + 1 = n /\ Len(log) = inseq.last /\ log \in Seq(Seqs)
      /\ \A i \in DOMAIN log : log[i] = i
  BY DEF Unfillable, StreamInv, TypeOK, ExactlyOnceInOrder
<1>2. DOMAIN log = 1..Len(log) /\ Len(log) \in Nat
  BY <1>1
<1> QED BY <1>1, <1>2

\* Once neither an emit nor a copy in flight can supply the seq the cursor of
\* inseq_admit waits for, it is so for ever, over later sends, resends, late
\* duplicates and re-dials, and req_unemit never sees that seq or a later one.
THEOREM UnfillableGapLasts == Spec => UnfillableGapIsForever
<1> SUFFICES ASSUME NEW n \in Seqs
             PROVE  Spec => [](Unfillable(n) =>
                          [](Unfillable(n) /\ \A i \in DOMAIN log : log[i] < n))
  BY DEF UnfillableGapIsForever
<1> DEFINE Gap == Unfillable(n)
           Stuck == \A i \in DOMAIN log : log[i] < n
<1>1. StreamInv /\ [Next]_vars => (Gap => Gap')
  BY GapStays
<1>2. StreamInv => (Gap => Stuck)
  BY NoneSeenBehind
<1>3. [][Next]_vars /\ []StreamInv => [](Gap => [](Gap /\ Stuck))
  <2> HIDE DEF Gap, Stuck
  <2> QED BY <1>1, <1>2, PTL
<1> QED BY <1>3, StreamInvariant, PTL DEF Spec

\* The lossy-carrier link implements OrderedDelivery: losing, repeating and
\* swapping frames, retransmitting, holding and re-dialling are invisible above.
THEOREM LinkKeepsPromise == Spec => KeepsPromise
<1>1. Init => Promise!Init
  BY DEF Init, EmptyOutbox, Acked, Promise!Init
<1>2. ASSUME StreamInv, [Next]_vars
      PROVE  [Promise!Next]_(Promise!vars)
  <2> USE <1>2 DEF StreamInv
  <2>0. /\ IsOutbox(outbox) /\ nseq \in Nat
        /\ Acked(outbox) \subseteq 1..Len(log)
        /\ acks \cap Seqs \subseteq 1..Len(log)
    <3>1. Acked(outbox) \subseteq Seqs
      BY DEF Acked, TypeOK
    <3>2. Len(log) \in Nat /\ inseq.last = Len(log)
      BY DEF TypeOK, ExactlyOnceInOrder
    <3> QED
      BY <3>1, <3>2 DEF IsOutbox, TypeOK, AckedWasAdmitted, Seqs
  <2>1. CASE UNCHANGED vars
    BY <2>1 DEF vars, Promise!vars, Acked
  <2>2. CASE Send
    <3>1. /\ nseq' = nseq + 1 /\ log' = log
          /\ Acked(outbox') \subseteq Acked(outbox)
      BY <2>0, <2>2, BookEmitFacts DEF Send, receiverVars
    <3> QED
      BY <3>1 DEF Promise!Next, Promise!Send, Acked
  <2>3. CASE SendBeacon
    <3>1. nseq' = nseq + 1 /\ log' = log /\ Acked(outbox') = Acked(outbox)
      BY <2>3 DEF SendBeacon, receiverVars, Acked
    <3> QED
      BY <3>1 DEF Promise!Next, Promise!Send, Acked
  <2>4. ASSUME NEW s \in Seqs, ReceiveAck(s)
        PROVE  Promise!Next
    <3>1. /\ nseq' = nseq /\ log' = log
          /\ Acked(outbox') \subseteq Acked(outbox) \cup {s}
          /\ s \in acks
      BY <2>0, <2>4, TakeAckFacts DEF ReceiveAck, receiverVars
    <3> QED
      BY <2>0, <3>1 DEF Promise!Next, Promise!Confirm, Acked
  <2>5. CASE Beat \/ ResetSender
    <3>1. nseq' = nseq /\ log' = log /\ Acked(outbox') = {}
      BY <2>0, <2>5, BeatFacts
      DEF Beat, ResetSender, receiverVars, EmptyOutbox, Acked
    <3> QED
      BY <3>1 DEF Promise!Next, Promise!Confirm, Acked
  <2>6. ASSUME NEW s \in Seqs, Deliver(s)
        PROVE  [Promise!Next]_(Promise!vars)
    <3>1. nseq' = nseq /\ Acked(outbox') = Acked(outbox)
      BY <2>6 DEF Deliver, senderVars, Acked
    <3>2. CASE Duplicate(s) \/ Hold(s)
      BY <3>1, <3>2 DEF Duplicate, Hold, Promise!vars, Acked
    <3>3. ASSUME NEW end \in s..nseq, Release(s, end)
          PROVE  Promise!Next
      <4>1. /\ s = Len(log) + 1 /\ log' = log \o Run(Len(log) + 1, end)
            /\ end \in Seqs /\ Len(log) + 1 <= end
        BY <2>0, <3>3, StreamAssumption DEF Release, TypeOK, Seqs
      <4>2. log' \in Seq(Seqs) /\ Len(log') = end /\ \A i \in DOMAIN log' : log'[i] = i
        BY <4>1, LogGrows DEF TypeOK, ExactlyOnceInOrder
      <4>3. log' = [i \in 1..end |-> i]
        BY <4>2
      <4>4. end \in 1..nseq /\ end \in (Len(log) + 1)..nseq
        BY <2>0, <3>3, <4>1 DEF Seqs
      <4> QED
        BY <3>1, <4>3, <4>4 DEF Promise!Next, Promise!DeliverUpTo, Acked
    <3> QED
      BY <2>6, <3>2, <3>3, DeliverEffect
  <2>7. CASE \E s \in Seqs : LoseFrame(s) \/ LoseAck(s)
    BY <2>7 DEF LoseFrame, LoseAck, senderVars, receiverVars, Promise!vars, Acked
  <2>8. CASE ResetReceiver
    BY <2>8 DEF ResetReceiver, senderVars, Promise!vars, Acked
  <2> QED
    BY <2>1, <2>2, <2>3, <2>4, <2>5, <2>6, <2>7, <2>8 DEF Next
<1> QED
  BY <1>1, <1>2, StreamInvariant, PTL DEF Spec, KeepsPromise, Promise!Spec
=============================================================================
