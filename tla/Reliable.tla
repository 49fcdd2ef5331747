------------------------------ MODULE Reliable ------------------------------
(***************************************************************************)
(* The cursor and backoff algebra of src/Ghost/N/Reliable.g: pure          *)
(* operators, no state of their own, which the peer-link modules apply to  *)
(* their variables.                                                        *)
(*                                                                         *)
(* A receive cursor st is a record [last, buffered]: `last' is the highest *)
(* contiguous seq delivered, `buffered' the seqs held behind a gap.  The   *)
(* code keeps `buffered' in an array it only ever searches by value, so a  *)
(* set of seqs loses nothing.                                              *)
(*                                                                         *)
(* An emit is a record [age, attempts, acked].  The code stores the tick   *)
(* it was sent at (sent_tick) and compares now - sent_tick; age IS that    *)
(* difference, which keeps the tick counter out of the state.              *)
(***************************************************************************)
EXTENDS Integers, Sequences

CONSTANTS Base,        \* policy.base: ticks before the first resend
          Factor,      \* policy.factor: growth of the wait per attempt
          Cap,         \* policy.cap: longest wait
          MaxAttempts  \* policy.max_attempts: sends before an emit is dead

ASSUME PolicyAssumption == /\ Base \in Nat /\ Factor \in Nat /\ Cap \in Nat
                           /\ MaxAttempts \in Nat \ {0}

-----------------------------------------------------------------------------
\* Inbound: the per-Pier sequence discipline.

\* The cursor of a Pier that has delivered nothing.
FreshCursor == [last |-> 0, buffered |-> {}]

\* Mutated form: a drain loop that reads its counter one step too late.
RunEndOneLate(buffered, seq) ==
  (CHOOSE n \in {seq} \cup buffered :
     /\ n >= seq
     /\ n + 1 \notin buffered
     /\ (seq + 1)..n \subseteq buffered) + 1

\* The last seq of the contiguous run that starts at seq and goes on through
\* buffered: where the drain loop stops.
RunEnd(buffered, seq) ==
  CHOOSE n \in {seq} \cup buffered :
    /\ n >= seq
    /\ n + 1 \notin buffered
    /\ (seq + 1)..n \subseteq buffered

\* The seqs first..final in ascending order.
Run(first, final) == [i \in 1..(final - first + 1) |-> first + i - 1]

\* Mutated forms: no check for a seq already delivered; and a gap leapt over.
InseqAdmitAgain(st, seq) ==
  IF seq > st.last + 1
  THEN [st |-> [st EXCEPT !.buffered = @ \cup {seq}], ready |-> <<>>]
  ELSE LET end == RunEnd(st.buffered, seq)
       IN  [st |-> [last |-> end, buffered |-> st.buffered \ (seq..end)],
            ready |-> Run(seq, end)]

InseqAdmitLeaping(st, seq) ==
  IF seq <= st.last
  THEN [st |-> st, ready |-> <<>>]
  ELSE [st |-> [last |-> seq, buffered |-> {}], ready |-> Run(seq, seq)]

\* Fold an arriving seq into the cursor; ready is the run now deliverable.
InseqAdmit(st, seq) ==
  IF seq <= st.last \/ seq \in st.buffered
  THEN [st |-> st, ready |-> <<>>]
  ELSE IF seq > st.last + 1
  THEN [st |-> [last |-> st.last, buffered |-> st.buffered \cup {seq}],
        ready |-> <<>>]
  ELSE LET end == RunEnd(st.buffered, seq)
       IN  [st |-> [last |-> end, buffered |-> st.buffered \ (seq..end)],
            ready |-> Run(seq, end)]

-----------------------------------------------------------------------------
\* Outbound: which un-acked emits are due, and which are dead.

\* Ticks to wait after the n-th send: capped exponential backoff.
RetxDelay(attempts) ==
  LET n == IF attempts > 1 THEN attempts ELSE 1
      wait == Base * Factor ^ (n - 1)
  IN  IF wait < Cap THEN wait ELSE Cap

\* An emit whose window has elapsed un-acked.
Elapsed(e) == ~e.acked /\ e.age >= RetxDelay(e.attempts)

\* The verdict over a set of emits keyed by seq: resend, or give up.
RetxDue(emits) ==
  LET elapsed == {s \in DOMAIN emits : Elapsed(emits[s])}
  IN  [resend |-> {s \in elapsed : emits[s].attempts < MaxAttempts},
       dead   |-> {s \in elapsed : emits[s].attempts >= MaxAttempts}]
=============================================================================
