------------------------------- MODULE Outbox -------------------------------
(***************************************************************************)
(* The sending half of a Pier (src/Ghost/N/Peeroleum.g): what               *)
(* Peeroleum_send, Peeroleum_take_ack, Peeroleum_retx_sweep and             *)
(* Peeroleum_runstepped do to %outbox/emit, as operators on the value of    *)
(* the outbox.                                                             *)
(*                                                                         *)
(* An outbox is a function from the seqs of its live emits to emit records.*)
(* The code lists emits oldest first and seqs only climb between resets,   *)
(* so "oldest" is "least seq".                                             *)
(***************************************************************************)
EXTENDS Reliable, FiniteSets

CONSTANTS OutboxCap,   \* live emits before the backstop drops one (2000)
          AckedKeep    \* acked emits kept on the outbox (ACKED_KEEP = 200)

ASSUME OutboxAssumption == OutboxCap \in Nat \ {0} /\ AckedKeep \in Nat

Emit(age, attempts, acked) ==
  [age |-> age, attempts |-> attempts, acked |-> acked]

EmitType == [age : Nat, attempts : Nat, acked : BOOLEAN]

\* An emit as Peeroleum_send books it.
FreshEmit == Emit(0, 1, FALSE)

EmptyOutbox == [s \in {} |-> FreshEmit]

Acked(outbox) == {s \in DOMAIN outbox : outbox[s].acked}

\* f without the seqs in S.
Without(outbox, S) == [s \in DOMAIN outbox \ S |-> outbox[s]]

\* What the structural backstop drops to make room: the oldest live emit.
Backstop(outbox) ==
  {s \in DOMAIN outbox : /\ Cardinality(DOMAIN outbox) >= OutboxCap
                         /\ \A t \in DOMAIN outbox : s <= t}

\* Book the emit of a frame handed to the carrier.
BookEmit(outbox, seq) ==
  LET kept == Without(outbox, Backstop(outbox))
  IN  [s \in DOMAIN kept \cup {seq} |->
         IF s = seq THEN FreshEmit ELSE kept[s]]

\* The newest n members of a set of seqs: what whittle_N leaves.
Newest(S, n) == {s \in S : Cardinality({t \in S : t >= s}) <= n}

\* An ack naming seq: stamp the emit, then whittle the acked rows.
TakeAck(outbox, seq) ==
  IF seq \notin DOMAIN outbox THEN outbox
  ELSE LET stamped == [outbox EXCEPT ![seq] = Emit(@.age, @.attempts, TRUE)]
           done == Acked(stamped)
       IN  Without(stamped, done \ Newest(done, AckedKeep))

\* Mutated form: a sweep that does not advance the tick.
AgedNever(outbox) == outbox

\* One tick of the sweep: every un-acked emit is a tick older.
Aged(outbox) ==
  [s \in DOMAIN outbox |->
     IF outbox[s].acked THEN outbox[s]
     ELSE Emit(outbox[s].age + 1, outbox[s].attempts, FALSE)]

\* The outbox after a sweep that resends and buries what RetxDue says.
Swept(outbox) ==
  LET aged == Aged(outbox)
      verdict == RetxDue(aged)
      resent == [s \in DOMAIN aged |->
                   IF s \in verdict.resend
                   THEN Emit(0, aged[s].attempts + 1, FALSE)
                   ELSE aged[s]]
  IN  Without(resent, verdict.dead)

\* The cull at a step boundary: acked emits leave for %outbox/recent, which
\* nothing reads back.
Culled(outbox) == Without(outbox, Acked(outbox))
=============================================================================
