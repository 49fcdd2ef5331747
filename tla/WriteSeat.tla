----------------------------- MODULE WriteSeat -----------------------------
(***************************************************************************)
(* The write seat: which one tab of a box may save.  The relay holds the   *)
(* seat on a socket (src/src/lib/server/relay.ts, handleSeat); a tab knows *)
(* what it heard (src/src/lib/O/LiesLies.svelte, region seat).             *)
(*                                                                         *)
(* Each connection of a tab is a socket of its own.  The two ends of a     *)
(* socket notice its death apart: the tab may redial while the relay still *)
(* holds the old socket open, and the relay's socket is already closing    *)
(* before its close event runs drop().  A hello and the flock proof that   *)
(* follows it are one round trip here.  Left out: a tab with no key to     *)
(* prove with (the relay refuses it and it reads), and two asks that no    *)
(* client sends, release and who.                                          *)
(***************************************************************************)
EXTENDS Naturals, Sequences, FiniteSets

CONSTANTS Tabs,
          Takers,   \* tabs of the editor role: the first ask of a life wrests
          None,
          MaxCuts,  \* bound: connections that die
          MaxTyped  \* bound: deliberate acts of readers

Socks == Tabs \X (1..(MaxCuts + 1))

ASSUME SeatAssumption ==
  Takers \subseteq Tabs /\ {MaxCuts, MaxTyped} \subseteq Nat /\ None \notin Socks

VARIABLES
  trust,     \* the relay has trusted keys configured
  st,        \* the relay's end of a socket: new, open, closing or gone
  holder,    \* seats.get('editor')?.ws
  waiters,   \* seatWaiters.get('editor')
  verifying, \* sockets whose hello is being verified
  proven,    \* sockets with a trustedPub, or bound where that is enough
  toRelay, toTab, \* what travels on a socket
  dials,     \* connections each tab has made; the last is its socket
  live,      \* the tab's end is open
  view,      \* %Seat: none, held or by (somebody else)
  asked,     \* w.c.seat_asked
  posted,    \* answers heard and posted into the tick
  typed,     \* deliberate acts so far
  cuts       \* connections that died so far

relay == <<st, holder, waiters, verifying, proven>>
tab == <<dials, live, view, asked, posted, typed>>
vars == <<trust, relay, toRelay, toTab, tab, cuts>>

Cur(t) == <<t, dials[t]>>
\* The tab's end of socket s still listens.
Listening(s) == live[s[1]] /\ Cur(s[1]) = s

Init ==
  /\ trust \in BOOLEAN
  /\ st = [s \in Socks |-> "new"] /\ holder = None
  /\ waiters = {} /\ verifying = {} /\ proven = {}
  /\ toRelay = [s \in Socks |-> <<>>] /\ toTab = [s \in Socks |-> <<>>]
  /\ dials = [t \in Tabs |-> 0] /\ live = [t \in Tabs |-> FALSE]
  /\ view = [t \in Tabs |-> "none"] /\ asked = [t \in Tabs |-> FALSE]
  /\ posted = [t \in Tabs |-> <<>>] /\ typed = 0 /\ cuts = 0

-----------------------------------------------------------------------------
\* The relay.

\* seatHeld: a holder that is not open holds nothing.
LiveHolder == IF holder # None /\ st[holder] = "open" THEN holder ELSE None

\* Every socket of S is sent m; one whose tab is gone sends it nowhere.
Sent(S, m) ==
  [s \in Socks |-> IF s \in S /\ Listening(s) THEN Append(toTab[s], m) ELSE toTab[s]]

Heard(s, m) ==
  /\ st[s] = "open" /\ toRelay[s] # <<>> /\ Head(toRelay[s]) = m
  /\ toRelay' = [toRelay EXCEPT ![s] = Tail(@)]

MayAsk(s) == trust => s \in proven

\* An ask that beats the hello where trust is configured.
AskRefused(s) == \E m \in {"ask", "take"} :
  /\ Heard(s, m) /\ ~MayAsk(s)
  /\ toTab' = Sent({s}, "error")
  /\ UNCHANGED <<trust, cuts, relay, tab>>

\* A live holder keeps the seat; the asker waits.
AskTaken(s) ==
  /\ Heard(s, "ask") /\ MayAsk(s) /\ LiveHolder \notin {None, s}
  /\ waiters' = waiters \cup {s}
  /\ toTab' = Sent({s}, "taken")
  /\ UNCHANGED <<trust, cuts, st, holder, verifying, proven, tab>>

WaitingOnly(s) == waiters \ {s}

\* Who waits once s has the seat.
Waiting(s) == (waiters \cup ({LiveHolder} \ {None})) \ {s}

\* The seat is free, its own, or taken by a deliberate act: the holder it is
\* taken from hears so and waits.
AskGranted(s) == \E m \in {"ask", "take"} :
  /\ Heard(s, m) /\ MayAsk(s) /\ (m = "take" \/ LiveHolder \in {None, s})
  /\ holder' = s /\ waiters' = Waiting(s)
  /\ toTab' = [Sent({LiveHolder} \ {s}, "lost") EXCEPT ![s] = Sent({s}, "ok")[s]]
  /\ UNCHANGED <<trust, cuts, st, verifying, proven, tab>>

HelloHeard(s) ==
  /\ Heard(s, "hello")
  /\ verifying' = verifying \cup {s}
  /\ UNCHANGED <<trust, cuts, st, holder, waiters, proven, toTab, tab>>

\* The verification comes back, at any later time.
Prove(s) ==
  /\ s \in verifying
  /\ verifying' = verifying \ {s} /\ proven' = proven \cup {s}
  /\ toTab' = IF st[s] = "open" THEN Sent({s}, "proven") ELSE toTab
  /\ UNCHANGED <<trust, cuts, st, holder, waiters, toRelay, tab>>

\* One end closes.  That it is the first to is what the bound counts.
Cuts(first) == IF first THEN cuts < MaxCuts /\ cuts' = cuts + 1 ELSE UNCHANGED cuts

\* A close frame, an error, or the ping round: a socket that missed its pong.
RelayCloses(s) ==
  /\ st[s] = "open" /\ st' = [st EXCEPT ![s] = "closing"]
  /\ Cuts(Listening(s))
  /\ UNCHANGED <<trust, holder, waiters, verifying, proven, toRelay, toTab, tab>>

FreedQuietly(s) ==
  /\ holder' = None /\ waiters' = {}
  /\ UNCHANGED toTab

\* seatFree tells every waiter that is open, and forgets them all.
Freed(s) ==
  /\ holder' = None /\ waiters' = {}
  /\ toTab' = Sent({w \in waiters : st[w] = "open"}, "free")

\* The close event of a socket runs drop().  What a later verification marks
\* on it is never read.
Drop(s) ==
  /\ st[s] = "closing" /\ st' = [st EXCEPT ![s] = "gone"]
  /\ toRelay' = [toRelay EXCEPT ![s] = <<>>]
  /\ IF holder = s THEN Freed(s)
     ELSE waiters' = waiters \ {s} /\ UNCHANGED <<holder, toTab>>
  /\ verifying' = verifying \ {s} /\ proven' = proven \ {s}
  /\ UNCHANGED <<trust, cuts, tab>>

-----------------------------------------------------------------------------
\* The tab.

\* The first ask of a life is a take where the %Seat wants so.
Ask(t) == IF t \in Takers /\ ~asked[t] THEN "take" ELSE "ask"

\* A connection opens: the seat is asked for at once, and the hello follows
\* when it is signed.
Open(t) ==
  LET s == <<t, dials[t] + 1>> IN
  /\ ~live[t] /\ live' = [live EXCEPT ![t] = TRUE] /\ dials' = [dials EXCEPT ![t] = @ + 1]
  /\ st' = [st EXCEPT ![s] = "open"]
  /\ toRelay' = [toRelay EXCEPT ![s] = <<Ask(t), "hello">>]
  /\ asked' = [asked EXCEPT ![t] = TRUE]
  /\ UNCHANGED <<trust, cuts, holder, waiters, verifying, proven, toTab, view, posted, typed>>

\* The tab's end closes.  What it has not heard is lost, what it has sent may
\* yet arrive, and the %Seat stays as it was.
Loses(t) ==
  /\ live[t] /\ live' = [live EXCEPT ![t] = FALSE] /\ Cuts(st[Cur(t)] = "open")
  /\ toTab' = [toTab EXCEPT ![Cur(t)] = <<>>]
  /\ UNCHANGED <<trust, relay, toRelay, dials, view, asked, posted, typed>>

\* Once proven, a tab asks again unless it holds.
AskAgain(t) ==
  IF view[t] # "held"
  THEN /\ toRelay' = [toRelay EXCEPT ![Cur(t)] = Append(@, Ask(t))]
       /\ asked' = [asked EXCEPT ![t] = TRUE]
  ELSE UNCHANGED <<toRelay, asked>>

\* A frame comes in.  "hello first" changes nothing, the other answers are
\* posted into the tick.
Hears(t) ==
  /\ live[t] /\ toTab[Cur(t)] # <<>>
  /\ toTab' = [toTab EXCEPT ![Cur(t)] = Tail(@)]
  /\ LET m == Head(toTab[Cur(t)]) IN
     CASE m = "proven" -> AskAgain(t) /\ UNCHANGED posted
       [] m = "error" -> UNCHANGED <<toRelay, asked, posted>>
       [] OTHER -> /\ posted' = [posted EXCEPT ![t] = Append(@, m)]
                   /\ UNCHANGED <<toRelay, asked>>
  /\ UNCHANGED <<trust, cuts, relay, dials, live, view, typed>>

\* Lies_seat_ask sends only down an open socket.
Asks(t, m) ==
  IF live[t]
  THEN /\ toRelay' = [toRelay EXCEPT ![Cur(t)] = Append(@, m)]
       /\ asked' = [asked EXCEPT ![t] = TRUE]
  ELSE UNCHANGED <<toRelay, asked>>

Verdict(m) == IF m = "ok" THEN "held" ELSE "by"

\* The posted job: the %Seat takes the answer, and a free seat is asked for.
Acts(t) ==
  /\ posted[t] # <<>> /\ posted' = [posted EXCEPT ![t] = Tail(@)]
  /\ LET m == Head(posted[t]) IN
     IF m = "free" THEN Asks(t, Ask(t)) /\ UNCHANGED view
     ELSE view' = [view EXCEPT ![t] = Verdict(m)] /\ UNCHANGED <<toRelay, asked>>
  /\ UNCHANGED <<trust, cuts, relay, toTab, dials, live, typed>>

\* A reader's typed save, or a click on the badge, wrests the seat.
Types(t) ==
  /\ view[t] = "by" /\ live[t] /\ typed < MaxTyped /\ typed' = typed + 1
  /\ Asks(t, "take")
  /\ UNCHANGED <<trust, cuts, relay, toTab, dials, live, view, posted>>

-----------------------------------------------------------------------------
RelayStep(s) ==
  \/ AskRefused(s) \/ AskTaken(s) \/ AskGranted(s) \/ HelloHeard(s)

Next ==
  \/ \E s \in Socks : RelayStep(s) \/ Prove(s) \/ RelayCloses(s) \/ Drop(s)
  \/ \E t \in Tabs : Open(t) \/ Loses(t) \/ Hears(t) \/ Acts(t) \/ Types(t)

Spec == Init /\ [][Next]_vars

\* The tab's end of a connection whose other end is no more.
Hangs(t) == live[t] /\ st[Cur(t)] # "open"

\* Either end notices, in time, that the other is gone: the relay by its ping
\* round, the tab by its silence watch.
Fairness ==
  /\ \A s \in Socks : /\ WF_vars(RelayStep(s)) /\ WF_vars(Prove(s)) /\ WF_vars(Drop(s))
                      /\ WF_vars(~Listening(s) /\ RelayCloses(s))
  /\ \A t \in Tabs : /\ WF_vars(Hears(t)) /\ WF_vars(Acts(t)) /\ WF_vars(Open(t))
                     /\ WF_vars(Hangs(t) /\ Loses(t))

FairSpec == Spec /\ Fairness

-----------------------------------------------------------------------------
TypeOK ==
  /\ trust \in BOOLEAN
  /\ st \in [Socks -> {"new", "open", "closing", "gone"}]
  /\ holder \in Socks \cup {None} /\ waiters \subseteq Socks \ {holder}
  /\ verifying \subseteq Socks /\ proven \subseteq Socks
  /\ toRelay \in [Socks -> Seq({"ask", "take", "hello"})]
  /\ toTab \in [Socks -> Seq({"ok", "taken", "lost", "free", "error", "proven"})]
  /\ dials \in [Tabs -> 0..(MaxCuts + 1)] /\ live \in [Tabs -> BOOLEAN]
  /\ \A t \in Tabs : live[t] => dials[t] > 0
  /\ view \in [Tabs -> {"none", "held", "by"}] /\ asked \in [Tabs -> BOOLEAN]
  /\ posted \in [Tabs -> Seq({"ok", "taken", "lost", "free"})]
  /\ typed \in 0..MaxTyped /\ cuts \in 0..MaxCuts

\* Nothing is on its way between the tab and the relay.
Quiet(t) ==
  /\ live[t] /\ st[Cur(t)] = "open" /\ Cur(t) \notin verifying
  /\ toRelay[Cur(t)] = <<>> /\ toTab[Cur(t)] = <<>> /\ posted[t] = <<>>

\* Where trust is configured a tab that held the seat before it reconnected
\* does not ask again.
Unasked(t) == trust /\ dials[t] > 1

\* The %Seat of a tab says what the relay granted: whoever reads itself the
\* holder, with nothing on its way that will say otherwise, is the holder.
HeldIsGranted == \A t \in Tabs :
  Quiet(t) /\ view[t] = "held" /\ ~Unasked(t) => holder = Cur(t)

\* No wake-up is lost: a tab that reads, and that nothing is on its way to,
\* waits on a holder whose end will tell it.
ReaderWaits == \A t \in Tabs :
  Quiet(t) /\ view[t] # "held" /\ ~Unasked(t) => holder # None /\ Cur(t) \in waiters

\* The two ends agree on who writes and on who is to be told.
SeatIsAgreed == HeldIsGranted /\ ReaderWaits

\* However tabs come, go, redial and wrest, in the end one tab writes and
\* every other reads.
OneWriter ==
  <>[](trust \/ Cardinality({t \in Tabs : view[t] = "held"}) = 1)

\* "so that it and Wordland never both write"
\* (src/src/lib/O/spec/Editron.md:345).
NeverBothWrite == \A t, u \in Tabs :
  t # u /\ Quiet(t) /\ Quiet(u) => ~(view[t] = "held" /\ view[u] = "held")
=============================================================================
