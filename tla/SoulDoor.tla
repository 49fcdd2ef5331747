------------------------------ MODULE SoulDoor ------------------------------
(***************************************************************************)
(* The door of a soul: which one of its bodies stands at its bare name.    *)
(* The relay arbitrates the hellos (src/src/lib/server/relay.ts,           *)
(* handleHello and heldByAnother); a body yields the door to its own name, *)
(* or reclaims it, by the relay's answer, and redials (src/Ghost/S/Swarm.g,*)
(* the adopt hook, Swarm_station_hello, Swarm_hello_retry, Swarm_rehome).  *)
(*                                                                         *)
(* An address is a number, the bare name Door or suffix _N, or the body    *)
(* whose own name it is.  A body keeps one socket, and a slot is one       *)
(* connection, used again once the relay's end of it is shut.  Every       *)
(* question asked here skips a socket that is shut, so it makes no odds    *)
(* that drop() unbinds it later, and that a verification may yet bind it.  *)
(* The soul's hello wants an address of its family, which is the bare name *)
(* wherever the body stands (Swarm_steal_back, that wants a suffix, is     *)
(* left out).                                                              *)
(***************************************************************************)
EXTENDS Integers, Sequences, FiniteSets, FiniteSetsExt

CONSTANTS Bodies, Slots, None,
          MaxSuffix, \* bound: the last suffix the relay can grant
          MaxCuts,   \* bound: connections that die, pages that close
          MaxRetries \* bound: hellos sent again

ASSUME DoorAssumption ==
  /\ Slots \subseteq Nat /\ None \notin Slots
  /\ {MaxSuffix, MaxCuts, MaxRetries} \subseteq Nat /\ Bodies \cap Nat = {}

Socks == Bodies \X Slots
Door == 0
Family == 0..MaxSuffix
Hellos == {"soul", "body"}

VARIABLES
  open,    \* sockets whose end at the relay is open
  qaddr,   \* the address each was dialled with
  bound,   \* addresses each is in locals under, by its hellos
  seats,   \* addresses each was granted
  hello,   \* hellos of each that are not verified yet
  acks,    \* hello_ok frames on their way to the tab
  page,    \* away, off (will dial), up, or leaving (closing handshake)
  sock,    \* the slot of each body's socket, or None
  addr,    \* Swarm_address: Door or the body's own name
  unacked, \* hellos with no ack on this socket yet
  cuts, retries

relay == <<open, qaddr, bound, seats>>
tab == <<page, sock, addr, unacked>>
vars == <<relay, hello, acks, tab, cuts, retries>>

Cur(b) == <<b, sock[b]>>
\* The tab's end of s still listens.
Listening(s) == page[s[1]] = "up" /\ Cur(s[1]) = s

Init ==
  /\ open = {} /\ qaddr = [s \in Socks |-> Door]
  /\ bound = [s \in Socks |-> {}] /\ seats = [s \in Socks |-> {}]
  /\ hello = [s \in Socks |-> {}] /\ acks = [s \in Socks |-> <<>>]
  /\ page = [b \in Bodies |-> "away"] /\ sock = [b \in Bodies |-> None]
  /\ addr = [b \in Bodies |-> Door] /\ unacked = [b \in Bodies |-> {}]
  /\ cuts = 0 /\ retries = 0

-----------------------------------------------------------------------------
\* The relay.

\* locals.get(a), of which only open sockets count.
Locals(a) == {s \in open : a = qaddr[s] \/ a \in bound[s]}

\* An open socket other than the asker was granted a; one that was granted
\* nothing yet blocks too.
HeldByAnother(a, s) == \E o \in Locals(a) \ {s} : seats[o] = {} \/ a \in seats[o]

GrantFirst(s) == IF HeldByAnother(Door, s) THEN 1 ELSE Door

FreeSuffixes(s) == {n \in Family \ {Door} : ~HeldByAnother(n, s)}

\* The bare name, or the next free suffix.
Grant(s) == IF HeldByAnother(Door, s) THEN Min(FreeSuffixes(s)) ELSE Door

\* The soul's hello is verified and arbitrated in one go.
VerifySoul(s) ==
  /\ "soul" \in hello[s] /\ FreeSuffixes(s) # {}
  /\ hello' = [hello EXCEPT ![s] = @ \ {"soul"}]
  /\ bound' = [bound EXCEPT ![s] = @ \cup {Door, Grant(s)}]
  /\ seats' = [seats EXCEPT ![s] = @ \cup {Grant(s)}]
  /\ acks' = IF Listening(s) THEN [acks EXCEPT ![s] = Append(@, Grant(s))] ELSE acks
  /\ UNCHANGED <<open, qaddr, tab, cuts, retries>>

\* A body's own name is nobody else's: there is nothing to arbitrate.
VerifyBody(s) ==
  /\ "body" \in hello[s] /\ hello' = [hello EXCEPT ![s] = @ \ {"body"}]
  /\ bound' = [bound EXCEPT ![s] = @ \cup {s[1]}]
  /\ seats' = [seats EXCEPT ![s] = @ \cup {s[1]}]
  /\ acks' = IF Listening(s) THEN [acks EXCEPT ![s] = Append(@, s[1])] ELSE acks
  /\ UNCHANGED <<open, qaddr, tab, cuts, retries>>

\* A socket is shut, and its slot blank.
Blank(s) ==
  /\ open' = open \ {s} /\ qaddr' = [qaddr EXCEPT ![s] = Door]
  /\ bound' = [bound EXCEPT ![s] = {}] /\ seats' = [seats EXCEPT ![s] = {}]
  /\ hello' = [hello EXCEPT ![s] = {}] /\ acks' = [acks EXCEPT ![s] = <<>>]

\* The close handshake, or the ping round that finds nobody at the other end.
Shut(s) ==
  /\ s \in open /\ ~Listening(s) /\ Blank(s)
  /\ UNCHANGED <<tab, cuts, retries>>

\* deliverLocal: the sockets dialled at a have it to themselves.
Delivered(a) ==
  LET own == {s \in Locals(a) : qaddr[s] = a} IN IF own # {} THEN own ELSE Locals(a)

-----------------------------------------------------------------------------
\* The body.

\* A dial: connect() reads the address afresh, on_open clears the latches and
\* sends both hellos.
Dial(b) ==
  LET free == {n \in Slots : <<b, n>> \notin open}
      s == <<b, Min(free)>>
  IN
  /\ page[b] = "off" /\ free # {}
  /\ open' = open \cup {s} /\ qaddr' = [qaddr EXCEPT ![s] = addr[b]]
  /\ hello' = [hello EXCEPT ![s] = Hellos]
  /\ page' = [page EXCEPT ![b] = "up"] /\ sock' = [sock EXCEPT ![b] = s[2]]
  /\ unacked' = [unacked EXCEPT ![b] = Hellos]
  /\ UNCHANGED <<bound, seats, acks, addr, cuts, retries>>

\* A page opens; a stale address may have come back with it.
Boot(b) ==
  /\ page[b] = "away" /\ page' = [page EXCEPT ![b] = "off"]
  /\ addr' \in {addr, [addr EXCEPT ![b] = Door]}
  /\ UNCHANGED <<relay, hello, acks, sock, unacked, cuts, retries>>

\* The tab's end is no more; what it has not heard is lost, and what it had
\* latched is for the next on_open to clear.
Ends(b, p) ==
  /\ page' = [page EXCEPT ![b] = p] /\ sock' = [sock EXCEPT ![b] = None]
  /\ acks' = [s \in Socks |-> IF s = Cur(b) THEN <<>> ELSE acks[s]]
  /\ unacked' = [unacked EXCEPT ![b] = {}]

\* The connection dies, or the page closes; the relay's end is open for now.
Cut(b) == \E p \in {"off", "away"} :
  /\ page[b] \in {"up", "leaving"} /\ Ends(b, p)
  /\ cuts < MaxCuts /\ cuts' = cuts + 1
  /\ UNCHANGED <<relay, hello, addr, retries>>

\* onclose after the relay's end has shut: the redial follows.
Left(b) ==
  /\ page[b] = "leaving" /\ Cur(b) \notin open /\ Ends(b, "off")
  /\ UNCHANGED <<relay, hello, addr, cuts, retries>>

\* Swarm_rehome: the socket closes, to be redialled at a, and hears no more.
Rehome(b, a) ==
  /\ addr' = [addr EXCEPT ![b] = a] /\ page' = [page EXCEPT ![b] = "leaving"]
  /\ acks' = [acks EXCEPT ![Cur(b)] = <<>>]

Heard(b, h) ==
  /\ acks' = [acks EXCEPT ![Cur(b)] = Tail(@)]
  /\ unacked' = [unacked EXCEPT ![b] = @ \ {h}] /\ UNCHANGED <<addr, page>>

\* Where the relay's answer has the body stand: a suffix is not adopted.
Home(b, a) == IF a = Door THEN Door ELSE b

HearsEvery(b) ==
  /\ page[b] = "up" /\ acks[Cur(b)] # <<>>
  /\ LET a == Head(acks[Cur(b)]) IN
     CASE addr[b] = Home(b, a) -> Heard(b, IF a = b THEN "body" ELSE "soul")
       [] OTHER -> Rehome(b, Home(b, a)) /\ UNCHANGED unacked
  /\ UNCHANGED <<relay, hello, sock, cuts, retries>>

\* The adopt hook: an ack of the body's own hello moves nothing, and one of the
\* soul's moves a body that stands elsewhere.
Hears(b) ==
  /\ page[b] = "up" /\ acks[Cur(b)] # <<>>
  /\ LET a == Head(acks[Cur(b)]) IN
     CASE a = b -> Heard(b, "body")
       [] a # b /\ addr[b] = Home(b, a) -> Heard(b, "soul")
       [] OTHER -> Rehome(b, Home(b, a)) /\ UNCHANGED unacked
  /\ UNCHANGED <<relay, hello, sock, cuts, retries>>

\* Swarm_hello_retry: what is not acked past the grace is sent again.
Retry(b) ==
  /\ page[b] = "up" /\ unacked[b] # {}
  /\ retries < MaxRetries /\ retries' = retries + 1
  /\ hello' = [hello EXCEPT ![Cur(b)] = @ \cup unacked[b]]
  /\ UNCHANGED <<relay, acks, tab, cuts>>

-----------------------------------------------------------------------------
Next ==
  \/ \E s \in Socks : VerifySoul(s) \/ VerifyBody(s) \/ Shut(s)
  \/ \E b \in Bodies :
       Dial(b) \/ Boot(b) \/ Cut(b) \/ Left(b) \/ Hears(b) \/ Retry(b)

Spec == Init /\ [][Next]_vars

\* A verification comes back, the ping round finds a dead end, a redial is
\* due by its backoff and a frame arrives.  Nobody need open a page.
Fairness ==
  /\ \A s \in Socks : WF_vars(VerifySoul(s)) /\ WF_vars(VerifyBody(s)) /\ WF_vars(Shut(s))
  /\ \A b \in Bodies : WF_vars(Dial(b)) /\ WF_vars(Left(b)) /\ WF_vars(Hears(b))

FairSpec == Spec /\ Fairness

-----------------------------------------------------------------------------
TypeOK ==
  /\ open \subseteq Socks
  /\ qaddr \in [Socks -> {Door} \cup Bodies]
  /\ bound \in [Socks -> SUBSET (Family \cup Bodies)]
  /\ seats \in [Socks -> SUBSET (Family \cup Bodies)]
  /\ hello \in [Socks -> SUBSET Hellos]
  /\ acks \in [Socks -> Seq(Family \cup Bodies)]
  /\ page \in [Bodies -> {"away", "off", "up", "leaving"}]
  /\ sock \in [Bodies -> Slots \cup {None}]
  /\ addr \in [Bodies -> {Door} \cup Bodies] /\ \A b \in Bodies : addr[b] \in {Door, b}
  /\ unacked \in [Bodies -> SUBSET Hellos]
  /\ cuts \in 0..MaxCuts /\ retries \in 0..MaxRetries

\* One seat, one socket: however hellos are verified, repeated and outlived by
\* their connections, no two open sockets were granted the same address of the
\* family.
SeatsExclusive == \A s, o \in open :
  s # o => seats[s] \cap seats[o] \cap Family = {}

\* Left to itself, a body comes to rest as its soul's only ear: however its
\* own past and its siblings' look at the relay, it stops moving, and what is
\* sent to the soul reaches its socket and no other.
AloneSettles == \A b \in Bodies :
  <>[](page[b] # "away" /\ \A o \in Bodies \ {b} : page[o] = "away")
    => <>[](page[b] = "up" /\ Delivered(Door) = {Cur(b)})
=============================================================================
