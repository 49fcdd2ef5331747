------------------------------ MODULE Presence ------------------------------
(***************************************************************************)
(* Who is online, asked of the relay once per round: src/Ghost/N/          *)
(* Presence.g, with the relay's `who' handler and the socket between them. *)
(*                                                                         *)
(* The station asks about a list of friends under a correlation id; the    *)
(* relay looks up at most WhoMax of them and answers with those that have  *)
(* a verified open socket, or refuses a socket that is not hello-bound.     *)
(* The last answer, its coverage and its age make the three-valued verdict *)
(* Live (true, false and null in the code).  An "offline" silences all     *)
(* the station would send that friend (Swarm_deliver's offline gate).      *)
(*                                                                         *)
(* A correlation id is used only for equality, so the code's counter is    *)
(* modelled by an id no frame in flight bears.                             *)
(***************************************************************************)
EXTENDS Naturals, Sequences, FiniteSets

CONSTANTS Friends,    \* prepubs the station may ask about
          Corrs,      \* correlation ids
          NoCorr,     \* no ask was made yet
          WhoMax,     \* WHO_MAX, addresses the relay looks up per ask (512)
          FreshTicks, \* ticks an answer is believed for (30 s)
          MaxFlight   \* bound: asks and answers between the two at once

ASSUME PresenceAssumption ==
  /\ IsFiniteSet(Friends) /\ NoCorr \notin Corrs
  /\ WhoMax \in Nat /\ FreshTicks \in Nat \ {0} /\ MaxFlight \in Nat

VARIABLES
  online,    \* relay: friends with a verified open socket
  linked,    \* the station's socket is open
  proven,    \* relay: that socket has bound an identity
  up,        \* asks on their way, or pending in the port
  down,      \* answers on their way
  askedCorr, \* p.c.asked_corr
  askedList, \* p.c.asked_list
  seen,      \* the %Seen particles
  known,     \* p.c.known, what the last answer covers
  age,       \* ticks since p.c.answered_at, FreshTicks when stale or never
  error,     \* p.c.error is set
  snap       \* history: what the answer last taken had looked up and found

relayVars == <<online, linked, proven>>
stationVars == <<askedCorr, askedList, seen, known, age, error, snap>>
presenceVars == <<relayVars, up, down, stationVars>>

\* looked is history: the addresses the relay looked up for this answer.
Ok(c, found, looked) ==
  [control |-> "who_ok", corr |-> c, online |-> found, looked |-> looked]
Refusal(c) ==
  [control |-> "who_error", corr |-> c, online |-> {}, looked |-> {}]

AskType == [corr : Corrs, addrs : SUBSET Friends]
AnswerType == [control : {"who_ok", "who_error"}, corr : Corrs,
               online : SUBSET Friends, looked : SUBSET Friends]

PresenceInit ==
  /\ online \in SUBSET Friends /\ linked = FALSE /\ proven = FALSE
  /\ up = <<>> /\ down = <<>>
  /\ askedCorr = NoCorr /\ askedList = {}
  /\ seen = {} /\ known = {} /\ age = FreshTicks /\ error = FALSE
  /\ snap = [looked |-> {}, found |-> {}]

-----------------------------------------------------------------------------
\* The station.

InFlight == {up[i].corr : i \in DOMAIN up} \cup {down[i].corr : i \in DOMAIN down}

\* Presence_ask over a list that is not empty; a port that is down keeps it.
Ask(addrs, c) ==
  /\ Len(up) + Len(down) < MaxFlight
  /\ addrs # {}
  /\ c \notin InFlight /\ c # askedCorr
  /\ askedCorr' = c /\ askedList' = addrs
  /\ up' = Append(up, [corr |-> c, addrs |-> addrs])
  /\ UNCHANGED <<relayVars, down, seen, known, age, error, snap>>

\* Mutated form: any answer is taken for the answer to the last ask.
CoverageUnmatched(answer) == askedList \cup answer.online

\* What an answer covers: the list of the last ask if it answers that ask, and
\* whomever it reports.
Coverage(answer) ==
  (IF answer.corr = askedCorr THEN askedList ELSE {}) \cup answer.online

SeenAfter(answer) == answer.online

\* Presence_take: a refusal is noted, an answer replaces the snapshot.
Take ==
  /\ down # <<>>
  /\ down' = Tail(down)
  /\ LET answer == Head(down)
     IN IF answer.control = "who_error"
        THEN error' = TRUE /\ UNCHANGED <<seen, known, age, snap>>
        ELSE /\ error' = FALSE
             /\ seen' = SeenAfter(answer)
             /\ known' = Coverage(answer)
             /\ age' = 0
             /\ snap' = [looked |-> answer.looked, found |-> answer.online]
  /\ UNCHANGED <<relayVars, up, askedCorr, askedList>>

Tick ==
  /\ age < FreshTicks
  /\ age' = age + 1
  /\ UNCHANGED <<relayVars, up, down, askedCorr, askedList, seen, known,
                 error, snap>>

\* Mutated form: an answer once taken is believed for ever.
FreshForEver == snap.looked # {}

\* Presence_fresh, Presence_live.
Fresh == age < FreshTicks

Live(f) ==
  IF ~Fresh \/ f \notin known THEN "unknown"
  ELSE IF f \in seen THEN "online" ELSE "offline"

-----------------------------------------------------------------------------
\* The relay and the socket.

\* The addresses the relay looks up: the first WhoMax of the list.
LookedUp(addrs) ==
  IF Cardinality(addrs) <= WhoMax THEN {addrs}
  ELSE {s \in SUBSET addrs : Cardinality(s) = WhoMax}

RelayAnswers ==
  /\ linked /\ up # <<>>
  /\ up' = Tail(up)
  /\ LET ask == Head(up)
     IN IF proven
        THEN \E looked \in LookedUp(ask.addrs) :
               down' = Append(down, Ok(ask.corr, looked \cap online, looked))
        ELSE down' = Append(down, Refusal(ask.corr))
  /\ UNCHANGED <<relayVars, stationVars>>

FriendMoves(f) ==
  /\ online' = IF f \in online THEN online \ {f} ELSE online \cup {f}
  /\ UNCHANGED <<linked, proven, up, down, stationVars>>

SocketOpens ==
  /\ ~linked
  /\ linked' = TRUE
  /\ UNCHANGED <<online, proven, up, down, stationVars>>

HelloVerified ==
  /\ linked /\ ~proven
  /\ proven' = TRUE
  /\ UNCHANGED <<online, linked, up, down, stationVars>>

\* The socket closes with what it carried; the new one has to prove itself again.
SocketBreaks ==
  /\ linked
  /\ linked' = FALSE /\ proven' = FALSE
  /\ up' = <<>> /\ down' = <<>>
  /\ UNCHANGED <<online, stationVars>>

PresenceNext ==
  \/ \E addrs \in SUBSET Friends, c \in Corrs : Ask(addrs, c)
  \/ Take \/ Tick \/ RelayAnswers
  \/ \E f \in Friends : FriendMoves(f)
  \/ SocketOpens \/ HelloVerified \/ SocketBreaks

PresenceSpec == PresenceInit /\ [][PresenceNext]_presenceVars

\* The clock runs.  Nothing else is promised: not that rounds are asked, nor
\* that the relay answers.
PresenceFairSpec == PresenceSpec /\ WF_presenceVars(Tick)

-----------------------------------------------------------------------------
\* Type correctness, whatever order the frames come in; and every %Seen is
\* covered, so that nobody the relay reported reads as unknown.
PresenceTypeOK ==
  /\ online \in SUBSET Friends /\ linked \in BOOLEAN /\ proven \in BOOLEAN
  /\ up \in Seq(AskType) /\ down \in Seq(AnswerType)
  /\ askedCorr \in Corrs \cup {NoCorr} /\ askedList \in SUBSET Friends
  /\ known \in SUBSET Friends /\ seen \in SUBSET known
  /\ age \in 0..FreshTicks /\ error \in BOOLEAN
  /\ snap \in [looked : SUBSET Friends, found : SUBSET Friends]

\* Presence_live: false requires that the last answer covered this friend, and
\* true that it named it.  A verdict is always one the relay reached by looking
\* that friend up, for the very answer that was last taken, through late
\* answers, superseded asks, lists that change between rounds and broken
\* sockets.
VerdictWasLookedUp ==
  \A f \in Friends :
    /\ Live(f) = "offline" => f \in snap.looked \ snap.found
    /\ Live(f) = "online" => f \in snap.found

\* Presence_worth_sending can never strand a friend: one that stays online is
\* in the end not taken for offline any more, though no further round is asked
\* and the relay answers nothing.
NotStranded ==
  \A f \in Friends : <>[](f \in online) => <>[](Live(f) # "offline")
=============================================================================
