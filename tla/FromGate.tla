------------------------------ MODULE FromGate ------------------------------
(***************************************************************************)
(* The from-check of one browser socket at the relay                       *)
(* (src/src/lib/server/relay.ts, fromGate, handleHello): a frame that      *)
(* claims an identity passes if the socket bound that identity by a        *)
(* verified hello, waits if a hello is being verified, and is refused      *)
(* otherwise.  Verifications run beside the socket's messages and end in   *)
(* any order.  RELAY_FROM_CHECK is "enforce", the default; what binding an *)
(* identity means to other sockets is SoulDoor's.                          *)
(*                                                                         *)
(* Frames and hellos are numbered as they come.  A queue is a chain of     *)
(* promises: once the hello at its head is settled all its frames are      *)
(* judged before another message is read.                                  *)
(***************************************************************************)
EXTENDS Integers, Sequences, FiniteSets

CONSTANTS Souls,     \* keys a hello may be signed with
          Role,      \* any name a frame may come from that no key has
          MaxSeat,   \* bound: the highest suffix a seat is granted under
          MaxFrames, \* bound: frames the socket sends
          MaxHellos  \* bound: hellos the socket sends

\* The names a key has: its prepub, numbered 0, and the prepub with a suffix.
Family(s) == {s} \X (0..MaxSeat)
Addrs == Souls \X (0..MaxSeat)

ASSUME GateAssumption ==
  Role \notin Souls \X (0..MaxSeat) /\ {MaxSeat, MaxFrames, MaxHellos} \subseteq Nat

VARIABLES
  claims,    \* header.from of every frame that came
  asks,      \* the key of every hello that came
  verifying, \* hellos being verified
  pending,   \* ws.helloPending, or 0
  queue,     \* frames that wait (ws.fq)
  head,      \* the hello the first of them waits for, or 0
  bound,     \* ws.bound
  forwarded, refused,
  behind,    \* history: the hellos being verified when each frame came
  crossed    \* history: two hellos were being verified at once

inputs == <<claims, asks, behind, crossed>>
verdicts == <<forwarded, refused>>
gateVars == <<inputs, verifying, pending, queue, head, bound, verdicts>>

GateInit ==
  /\ claims = <<>> /\ asks = <<>> /\ behind = <<>> /\ crossed = FALSE
  /\ verifying = {} /\ pending = 0 /\ queue = <<>> /\ head = 0
  /\ bound = {} /\ forwarded = <<>> /\ refused = {}

Proven(c, known) == c \notin Addrs \/ c \in known

PassesBy(i, c) ==
  /\ Proven(c, bound)
  /\ forwarded' = Append(forwarded, i)
  /\ UNCHANGED <<queue, head, refused>>

\* Frame i, that claims c, joins a queue, passes, starts a queue or is refused.
Joins(i) ==
  /\ queue # <<>> /\ queue' = Append(queue, i)
  /\ UNCHANGED <<head, verdicts>>
Passes(i, c) ==
  /\ queue = <<>> /\ Proven(c, bound)
  /\ forwarded' = Append(forwarded, i)
  /\ UNCHANGED <<queue, head, refused>>
Waits(i, c) ==
  /\ queue = <<>> /\ ~Proven(c, bound) /\ pending # 0
  /\ queue' = <<i>> /\ head' = pending
  /\ UNCHANGED verdicts
Refused(i, c) ==
  /\ queue = <<>> /\ ~Proven(c, bound) /\ pending = 0
  /\ refused' = refused \union {i}
  /\ UNCHANGED <<queue, head, forwarded>>

Gate(i, c) == Joins(i) \/ Passes(i, c) \/ Waits(i, c) \/ Refused(i, c)

Frame(c) ==
  /\ Len(claims) < MaxFrames
  /\ claims' = Append(claims, c) /\ behind' = Append(behind, verifying)
  /\ Gate(Len(claims'), c)
  /\ UNCHANGED <<asks, crossed, verifying, pending, bound>>

HelloUnmarked(s) ==
  /\ Len(asks) < MaxHellos
  /\ asks' = Append(asks, s)
  /\ verifying' = verifying \union {Len(asks')}
  /\ crossed' = (crossed \/ verifying # {})
  /\ UNCHANGED <<claims, behind, pending, queue, head, bound, verdicts>>

\* The last hello that came is the one frames will wait for.
Hello(s) ==
  /\ Len(asks) < MaxHellos
  /\ asks' = Append(asks, s)
  /\ verifying' = verifying \union {Len(asks')} /\ pending' = Len(asks')
  /\ crossed' = (crossed \/ verifying # {})
  /\ UNCHANGED <<claims, behind, queue, head, bound, verdicts>>

JudgedFirst(known) ==
  LET ok == Proven(claims[Head(queue)], known)
  IN /\ forwarded' = IF ok THEN Append(forwarded, Head(queue)) ELSE forwarded
     /\ refused' = IF ok THEN refused ELSE refused \union {Head(queue)}
     /\ queue' = Tail(queue) /\ head' = 0

\* A finite set of places as a sequence, in ascending order.
InOrder(S) ==
  {q \in [1..Cardinality(S) -> S] : \A k, l \in DOMAIN q : k < l => q[k] < q[l]}

\* The queue is judged, in its order, by what the socket is known as by now.
Judged(known) ==
  LET good == {n \in DOMAIN queue : Proven(claims[queue[n]], known)}
  IN /\ \E passed \in InOrder(good) :
          forwarded' = forwarded \o [k \in DOMAIN passed |-> queue[passed[k]]]
     /\ refused' = refused \union {queue[n] : n \in DOMAIN queue \ good}
     /\ queue' = <<>> /\ head' = 0

SettledKept(h) == UNCHANGED pending

\* helloPending is dropped, unless another hello has taken its place.
Settled(h) == pending' = IF pending = h THEN 0 ELSE pending

\* The verification of h ends, for good or ill (one signed but stale, or that
\* wants a name of another's family, is ill).  A good one binds the prepub and
\* the seat granted, n: the prepub itself where the hello wants no other, the
\* name wanted, or the first suffix free where another body holds that.
Verified(h, good) ==
  /\ h \in verifying /\ verifying' = verifying \ {h}
  /\ Settled(h)
  /\ IF good
     THEN \E n \in 0..MaxSeat : bound' = bound \union {<<asks[h], 0>>, <<asks[h], n>>}
     ELSE bound' = bound
  /\ IF head = h THEN Judged(bound') ELSE UNCHANGED <<queue, head, verdicts>>
  /\ UNCHANGED inputs

GateNext ==
  \/ \E c \in Addrs \union {Role} : Frame(c)
  \/ \E s \in Souls : Hello(s)
  \/ \E h \in 1..MaxHellos, good \in BOOLEAN : Verified(h, good)

GateSpec == GateInit /\ [][GateNext]_gateVars

\* Every verification ends.
GateFairness ==
  \A h \in 1..MaxHellos : WF_gateVars(\E good \in BOOLEAN : Verified(h, good))

GateFairSpec == GateSpec /\ GateFairness

-----------------------------------------------------------------------------
\* What each variable ranges over; a frame waits only for a hello that is
\* still being verified.
GateTypeOK ==
  /\ claims \in Seq(Addrs \union {Role}) /\ Len(claims) =< MaxFrames
  /\ asks \in Seq(Souls) /\ Len(asks) =< MaxHellos
  /\ verifying \subseteq DOMAIN asks /\ pending \in verifying \union {0}
  /\ IF queue = <<>> THEN head = 0 ELSE head \in verifying
  /\ queue \in Seq(DOMAIN claims) /\ forwarded \in Seq(DOMAIN claims)
  /\ refused \subseteq DOMAIN claims /\ bound \subseteq Addrs
  /\ behind \in Seq(SUBSET DOMAIN asks) /\ Len(behind) = Len(claims)
  /\ crossed \in BOOLEAN

\* "every frame after a queued one queues too, so a seq-ordered inbox never
\* sees them overtake each other" (relay.ts:576-577): frames are forwarded in
\* the order they came, each once, whatever hellos end between them.
OrderIsKept ==
  \A n \in 1..Len(forwarded) - 1 : forwarded[n] < forwarded[n + 1]

\* Unless two hellos of the socket cross, no frame is refused while a hello
\* that may bind the name it claims, and that it came behind, is being
\* verified, nor once that has bound it.
HelloAwaited ==
  [][\A i \in refused' \ refused : \A h \in behind'[i] :
       ~crossed /\ claims'[i] \in Family(asks[h])
         => h \notin verifying' /\ claims'[i] \notin bound']_gateVars

\* No frame is left in the queue of a hello that has ended, well or ill.
EveryFrameIsJudged ==
  \A i \in 1..MaxFrames :
    (i \in DOMAIN claims)
      ~> (i \in refused \/ \E n \in DOMAIN forwarded : forwarded[n] = i)
=============================================================================
