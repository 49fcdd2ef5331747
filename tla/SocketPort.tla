----------------------------- MODULE SocketPort -----------------------------
(***************************************************************************)
(* The reconnecting websocket carrier: Socket_real in                      *)
(* src/Ghost/N/Tribunal.g.  Sockets it has dialled, the backoff timers     *)
(* that dial again, the silence watch that does so on its own account, and *)
(* the two lanes a frame can wait in: `pending' while no socket is open,   *)
(* the bulk lane while the open one is behind.                             *)
(*                                                                         *)
(* Time passes in ticks of the silence watch (5 s); a wait is a number of  *)
(* ticks, and an age a number of ticks since, or Off where the code keeps  *)
(* 0.  Timers and the network are punctual to a tick, except for a socket  *)
(* that hangs: a dial never answered, a half-open path, a close handshake  *)
(* never completed.                                                        *)
(*                                                                         *)
(* A socket is known while it can still call back: one that has closed, or *)
(* whose handlers the watch took off, is out of socks.                     *)
(***************************************************************************)
EXTENDS Integers, Sequences, FiniteSets

CONSTANTS Ids,          \* bound: names for the sockets and timers there are at once
          Grain,        \* the delay after try t is 2^t \div Grain (10) ticks
          BackoffCap,   \* longest delay (15 s)
          TriesCap,     \* tries are not counted past this
          StableTicks,  \* an open socket's proof of stability (10 s)
          StuckLimit,   \* longest dial (20 s)
          ClosedLimit,  \* longest time closed (30 s)
          DownLimit,    \* longest time not open (90 s)
          BlanketGap,   \* least time between blanket re-dials (60 s)
          QuietLimit,   \* quiet before a probe (30 s)
          ProbeLimit,   \* longest wait for its answer (15 s)
          AgeCap,       \* ages are not counted past this
          PendingCap,   \* frames kept while no socket is open (200)
          BulkCap,      \* pages kept while the wire is behind (96)
          MaxFrames,    \* frames sent before the model stops sending
          MaxTroubles   \* failures, hangs and close, reconnect, rehome calls

ASSUME SocketAssumption ==
  /\ Ids \subseteq Nat /\ 0 \in Ids /\ IsFiniteSet(Ids)
  /\ Grain \in Nat \ {0} /\ StableTicks \in Nat
  /\ BackoffCap \in Nat /\ BackoffCap < ClosedLimit
  /\ AgeCap \in Nat
  /\ {StuckLimit, ClosedLimit, DownLimit, BlanketGap, QuietLimit, ProbeLimit}
       \subseteq 0..(AgeCap - 1)
  /\ TriesCap \in Nat /\ PendingCap \in Nat /\ BulkCap \in Nat
  /\ MaxFrames \in Nat /\ MaxTroubles \in Nat
  /\ \A t \in 0..TriesCap : 2^t \in Nat  \* the provers know no powers

VARIABLES
  socks,       \* the sockets that can still call back
  ws,          \* the current one, which send writes to
  timers,      \* backoff timers pending, by the socket whose close armed them
  tries,       \* reconnect attempts
  stable,      \* stable_timer: ticks left, or Off
  intentional, \* close() was called
  age,         \* down_since, closed_at, dial_at, last_rx, alive_probe_at, last_redial
  pending,     \* frames waiting for an open socket
  bulk,        \* bulkQ: pages waiting for the wire
  armed,       \* bulk_pump_armed
  drawn,       \* history: frames sent so far
  handed,      \* history: frames written to an open current socket, in order
  lost,        \* history: frames flushed into a socket that was not open
  blankets,    \* history: re-dials by the blanket rule
  troubles     \* bound: what has gone wrong so far

dialVars == <<socks, ws, timers, tries, stable, intentional, age>>
laneVars == <<pending, bulk, armed, drawn, handed, lost>>
vars == <<dialVars, laneVars, blankets, troubles>>

Off == -1

Socket(state) == [state |-> state, hung |-> FALSE]

\* readyState of the current socket.
ReadyState == IF ws \in DOMAIN socks THEN socks[ws].state ELSE "closed"

IsOpen == ReadyState = "open"

Init ==
  /\ socks = [s \in {0} |-> Socket("dialling")]
  /\ ws = 0
  /\ timers = [s \in {} |-> 0]
  /\ tries = 0
  /\ stable = Off
  /\ intentional = FALSE
  /\ age = [down |-> 0, closed |-> Off, dial |-> 0, rx |-> 0, probe |-> Off,
            blanket |-> AgeCap]
  /\ pending = <<>> /\ bulk = <<>> /\ armed = FALSE
  /\ drawn = 0 /\ handed = <<>> /\ lost = {}
  /\ blankets = 0 /\ troubles = 0

Trouble == troubles < MaxTroubles /\ troubles' = troubles + 1

Drop(f, s) == [t \in DOMAIN f \ {s} |-> f[t]]

With(f, s, v) == [t \in DOMAIN f \cup {s} |-> IF t = s THEN v ELSE f[t]]

\* Names that no socket and no timer bears.
Spare == Ids \ (DOMAIN socks \cup DOMAIN timers \cup {ws})
Fresh == CHOOSE s \in Spare : TRUE

Marked(a) == IF a = Off THEN 0 ELSE a

\* connect(), given the sockets that keep their handlers and the ages so far.
\* Its guard is the bound of Ids: the runs have more names than they can use.
Connect(kept, ages) ==
  /\ Spare # {}
  /\ ws' = Fresh
  /\ socks' = With(kept, Fresh, Socket("dialling"))
  /\ age' = [ages EXCEPT !.dial = 0, !.closed = Off]

-----------------------------------------------------------------------------
\* What the network does to a socket, and its handlers.

\* Every frame of pending goes to the CURRENT socket: a throw if it is still
\* dialling, a discard if it is closing or closed.
Flushed ==
  /\ pending' = <<>>
  /\ handed' = IF ReadyState' = "open" THEN handed \o pending ELSE handed
  /\ lost' = IF ReadyState' = "open" THEN lost
             ELSE lost \cup {pending[i] : i \in DOMAIN pending}

\* Any frame, or the opening itself, answers the silence watch.
Heard == [age EXCEPT !.rx = 0, !.probe = Off]

Up == [Heard EXCEPT !.down = Off]

\* onopen
Opens(s) ==
  /\ s \in DOMAIN socks
  /\ socks[s] = Socket("dialling")
  /\ socks' = [socks EXCEPT ![s].state = "open"]
  /\ stable' = StableTicks
  /\ age' = Up
  /\ UNCHANGED ws
  /\ Flushed
  /\ UNCHANGED <<timers, tries, intentional, bulk, armed, drawn, blankets, troubles>>

Delay(t) == IF 2^t \div Grain < BackoffCap THEN 2^t \div Grain ELSE BackoffCap

\* Mutated form: queued pages survive the close.
ClosedKeepingPages(s) ==
  /\ s \in DOMAIN socks
  /\ socks' = Drop(socks, s)
  /\ stable' = Off
  /\ age' = [age EXCEPT !.down = Marked(@), !.closed = 0]
  /\ IF intentional THEN UNCHANGED <<timers, tries>>
     ELSE /\ timers' = With(timers, s, Delay(tries))
          /\ tries' = IF tries < TriesCap THEN tries + 1 ELSE tries
  /\ UNCHANGED <<ws, intentional, pending, bulk, armed, drawn, handed, lost, blankets>>

\* onclose: any socket's, current or not.
Closed(s) ==
  /\ s \in DOMAIN socks
  /\ socks' = Drop(socks, s)
  /\ stable' = Off
  /\ age' = [age EXCEPT !.down = Marked(@), !.closed = 0]
  /\ bulk' = <<>>
  /\ IF intentional THEN UNCHANGED <<timers, tries>>
     ELSE /\ timers' = With(timers, s, Delay(tries))
          /\ tries' = IF tries < TriesCap THEN tries + 1 ELSE tries
  /\ UNCHANGED <<ws, intentional, pending, armed, drawn, handed, lost, blankets>>

\* A close this side asked for completes.
ClosingEnds(s) ==
  /\ s \in DOMAIN socks
  /\ socks[s] = Socket("closing")
  /\ Closed(s)
  /\ UNCHANGED troubles

\* A dial is refused, or an open connection breaks, or a hung one ends at last.
Breaks(s) == Trouble /\ Closed(s)

\* A dial, an open path or a close handshake goes silent.
Hangs(s) ==
  /\ s \in DOMAIN socks
  /\ ~ socks[s].hung
  /\ Trouble
  /\ socks' = [socks EXCEPT ![s].hung = TRUE]
  /\ UNCHANGED <<ws, timers, tries, stable, intentional, age, laneVars, blankets>>

\* onmessage, the answer to a probe among them.
Receive(s) ==
  /\ s \in DOMAIN socks
  /\ socks[s] = Socket("open")
  /\ age' = Heard
  /\ UNCHANGED <<socks, ws, timers, tries, stable, intentional, laneVars, blankets,
                 troubles>>

-----------------------------------------------------------------------------
\* Timers.

\* The backoff timer that s's onclose set.
Backoff(s) ==
  /\ s \in DOMAIN timers
  /\ timers[s] = 0
  /\ timers' = Drop(timers, s)
  /\ IF intentional THEN UNCHANGED <<socks, ws, age>> ELSE Connect(socks, age)
  /\ UNCHANGED <<tries, stable, intentional, laneVars, blankets, troubles>>

ProvedStable ==
  /\ stable = 0
  /\ stable' = Off
  /\ tries' = 0
  /\ UNCHANGED <<socks, ws, timers, intentional, age, laneVars, blankets, troubles>>

\* The bulk pump: as many pages as the wire takes.
Pump ==
  /\ armed
  /\ \/ /\ ~ IsOpen
        /\ armed' = FALSE
        /\ UNCHANGED <<bulk, handed>>
     \/ /\ IsOpen
        /\ \E n \in 0..Len(bulk) :
             /\ handed' = handed \o SubSeq(bulk, 1, n)
             /\ bulk' = SubSeq(bulk, n + 1, Len(bulk))
        /\ armed' = (bulk' # <<>>)
  /\ UNCHANGED <<dialVars, pending, drawn, lost, blankets, troubles>>

-----------------------------------------------------------------------------
\* The silence watch.

\* Everything due has happened: what a tick waits for.
Settled ==
  /\ \A s \in DOMAIN timers : timers[s] > 0
  /\ stable # 0
  /\ \A s \in DOMAIN socks : socks[s].state = "open" \/ socks[s].hung
  /\ ~ (age.probe # Off /\ ReadyState = "open" /\ ~ socks[ws].hung)

Older ==
  [k \in DOMAIN age |->
     IF age[k] = Off THEN Off ELSE IF age[k] < AgeCap THEN age[k] + 1 ELSE AgeCap]

BlanketRule(a) == ~ IsOpen /\ a.down > DownLimit /\ a.blanket > BlanketGap

StuckDial(a) == ReadyState = "dialling" /\ a.dial > StuckLimit

ClosedTooLong(a) == ReadyState = "closed" /\ a.closed > ClosedLimit

NoAnswer(a) == IsOpen /\ a.probe > ProbeLimit

\* Mutated form: every look asks again, and restarts the wait for the answer.
QuietAskedAgain(a) == IsOpen /\ a.rx > QuietLimit

Quiet(a) == IsOpen /\ a.probe = Off /\ a.rx > QuietLimit

\* Mutated form: the dropped socket keeps its handlers.
RedialAttached(a) ==
  /\ Connect(socks, [a EXCEPT !.probe = Off, !.down = Marked(@)])
  /\ stable' = Off
  /\ bulk' = <<>>

\* redial(): the current socket loses its handlers, and a new one is dialled.
\* Backoff timers already pending stay pending.
Redial(a) ==
  /\ Connect(Drop(socks, ws), [a EXCEPT !.probe = Off, !.down = Marked(@)])
  /\ stable' = Off
  /\ bulk' = <<>>

\* Five seconds pass, and the watch looks.
Tick ==
  /\ Settled
  /\ timers' = [s \in DOMAIN timers |-> timers[s] - 1]
  /\ LET a == Older
         ticked == IF stable = Off THEN Off ELSE stable - 1
     IN  \/ /\ ~ intentional /\ BlanketRule(a)
            /\ Redial([a EXCEPT !.blanket = 0])
            /\ blankets' = blankets + 1
         \/ /\ ~ intentional /\ ~ BlanketRule(a)
            /\ StuckDial(a) \/ ClosedTooLong(a) \/ NoAnswer(a)
            /\ Redial(a)
            /\ UNCHANGED blankets
         \/ /\ ~ intentional /\ Quiet(a)
            /\ age' = [a EXCEPT !.probe = 0]
            /\ stable' = ticked
            /\ UNCHANGED <<socks, ws, bulk, blankets>>
         \/ /\ \/ intentional
               \/ ~ (\/ BlanketRule(a) \/ StuckDial(a) \/ ClosedTooLong(a)
                     \/ NoAnswer(a) \/ Quiet(a))
            /\ age' = a
            /\ stable' = ticked
            /\ UNCHANGED <<socks, ws, bulk, blankets>>
  /\ UNCHANGED <<tries, intentional, pending, armed, drawn, handed, lost, troubles>>

-----------------------------------------------------------------------------
\* The port's methods.

\* ws.close(): nothing on a socket that has closed.
CloseWs == socks' = IF ws \in DOMAIN socks
                    THEN [socks EXCEPT ![ws].state = "closing"] ELSE socks

Reconnect ==
  /\ Trouble
  /\ CloseWs
  /\ UNCHANGED <<ws, timers, tries, stable, intentional, age, laneVars, blankets>>

Rehome ==
  /\ Trouble
  /\ CloseWs
  /\ tries' = 0
  /\ UNCHANGED <<ws, timers, stable, intentional, age, laneVars, blankets>>

CloseForGood ==
  /\ Trouble
  /\ CloseWs
  /\ intentional' = TRUE
  /\ UNCHANGED <<ws, timers, tries, stable, age, laneVars, blankets>>

Letter(n) == [n |-> n, page |-> FALSE]
Page(n) == [n |-> n, page |-> TRUE]

\* Mutated form: the cap is checked before the push, not after.
CappedLate(q, cap) == IF Len(q) > cap + 1 THEN Tail(q) ELSE q

Capped(q, cap) == IF Len(q) > cap THEN Tail(q) ELSE q

\* send() of a frame that is kept while no socket is open.
SendLetter ==
  /\ drawn < MaxFrames
  /\ drawn' = drawn + 1
  /\ IF IsOpen
     THEN handed' = Append(handed, Letter(drawn')) /\ UNCHANGED pending
     ELSE /\ pending' = Capped(Append(pending, Letter(drawn')), PendingCap)
          /\ UNCHANGED handed
  /\ UNCHANGED <<dialVars, bulk, armed, lost, blankets, troubles>>

\* Mutated form: a page goes straight out whenever the wire has room.
QueuesUnordered(behind) == behind

\* A page waits if the wire is behind, or if another page waits already.
Queues(behind) == behind \/ bulk # <<>>

\* send() of a repli_page: dropped while no socket is open, else straight to the
\* wire or to the bulk lane.  behind says that bufferedAmount is at BULK_HIGH.
SendPage(behind) ==
  /\ drawn < MaxFrames
  /\ drawn' = drawn + 1
  /\ IF ~ IsOpen THEN UNCHANGED <<handed, bulk, armed>>
     ELSE IF Queues(behind)
     THEN /\ bulk' = Capped(Append(bulk, Page(drawn')), BulkCap)
          /\ armed' = TRUE
          /\ UNCHANGED handed
     ELSE handed' = Append(handed, Page(drawn')) /\ UNCHANGED <<bulk, armed>>
  /\ UNCHANGED <<dialVars, pending, lost, blankets, troubles>>

Next ==
  \/ \E s \in Ids : \/ Opens(s)
                    \/ ClosingEnds(s)
                    \/ Breaks(s)
                    \/ Hangs(s)
                    \/ Receive(s)
                    \/ Backoff(s)
  \/ ProvedStable
  \/ Pump
  \/ Tick
  \/ Reconnect
  \/ Rehome
  \/ CloseForGood
  \/ SendLetter
  \/ \E behind \in BOOLEAN : SendPage(behind)

Spec == Init /\ [][Next]_vars

\* Timers fire, and a socket that does not hang gets its answer from the network.
FairSpec ==
  /\ Spec
  /\ WF_vars(Tick)
  /\ WF_vars(ProvedStable)
  /\ \A s \in Ids : /\ WF_vars(Opens(s))
                    /\ WF_vars(ClosingEnds(s))
                    /\ WF_vars(Backoff(s))
                    /\ WF_vars(Receive(s))

-----------------------------------------------------------------------------
\* Properties.

FrameType == [n : 1..MaxFrames, page : BOOLEAN]

Age == (0..AgeCap) \cup {Off}

\* Every variable keeps to its shape, and every lane to its cap.
TypeOK ==
  /\ DOMAIN socks \subseteq Ids /\ DOMAIN timers \subseteq Ids /\ ws \in Ids
  /\ socks \in [DOMAIN socks -> [state : {"dialling", "open", "closing"},
                                 hung : BOOLEAN]]
  /\ timers \in [DOMAIN timers -> 0..BackoffCap]
  /\ tries \in 0..TriesCap
  /\ stable \in (0..StableTicks) \cup {Off}
  /\ intentional \in BOOLEAN /\ armed \in BOOLEAN
  /\ age \in [down : Age, closed : Age, dial : Age, rx : Age, probe : Age,
              blanket : Age]
  /\ pending \in Seq(FrameType) /\ Len(pending) <= PendingCap
  /\ bulk \in Seq(FrameType) /\ Len(bulk) <= BulkCap
  /\ handed \in Seq(FrameType) /\ lost \subseteq FrameType
  /\ drawn \in 0..MaxFrames /\ blankets \in Nat /\ troubles \in 0..MaxTroubles

\* What would dial, or has dialled, and can still call back.
Chains == Cardinality(DOMAIN socks) + Cardinality(DOMAIN timers)

\* "onclose re-dials with backoff", the stuck-dial and the no-answer rules: none
\* of them leaves a second socket behind.  Only the blanket rule does, one each
\* time it fires on top of a backoff timer.
ChainsBounded == Chains <= 1 + blankets

\* In a queue, frames of a lane keep the order in which they were sent.
Ascending(q) ==
  \A i, j \in DOMAIN q : i < j /\ q[i].page = q[j].page => q[i].n < q[j].n

\* "Order preserved": through buffering, flushing, queueing and any number of
\* re-dials, letters reach the wire in the order sent and once each, and so do
\* pages.
LanesInOrder == Ascending(handed \o pending) /\ Ascending(handed \o bulk)

\* "send buffers until OPEN": a buffered letter is not thrown away at a flush,
\* unless a blanket re-dial has put a second socket beside the current one.
FlushReachesTheWire == lost # {} => blankets > 0

\* The pump's "onclose already cleared bulkQ": while a socket is open, queued
\* pages have a pump on its way (again, as long as there is one chain).
BulkNeverStrands == IsOpen /\ bulk # <<>> /\ ~ armed => blankets > 0

\* What either lane has taken in is on its way to the wire.
NothingStrands == FlushReachesTheWire /\ BulkNeverStrands

\* down_since, "0 while OPEN", is what the radio falls to its pool on: it is
\* set whenever the port is dialling or closed and never while it is open, as
\* long as no second socket opens or closes on the current one's behalf.
DownMarkHonest ==
  \/ blankets > 0
  \/ /\ ReadyState \in {"dialling", "closed"} => age.down # Off
     /\ IsOpen => age.down = Off

Connected == IsOpen /\ ~ socks[ws].hung

\* The silence watch's purpose: however a dial or a connection dies, the port is
\* connected again, unless it was closed for good, or sits in a close handshake
\* that never completes, or a second socket's traffic keeps the watch quiet.
Recovers ==
  []<>(\/ intentional
       \/ Connected
       \/ ReadyState = "closing"
       \/ DOMAIN socks \ {ws} # {})
=============================================================================
