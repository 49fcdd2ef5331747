------------------------------- MODULE Bridge -------------------------------
(***************************************************************************)
(* The bridge between two relays (src/src/lib/server/relay.ts): the        *)
(* runner's relay dials the editor's, each holds at most one peerLink, and *)
(* frames for a name not bound at one end cross it once.  The runner heals *)
(* it: dialEditor, scheduleRedial, the watchdog of a dial, the ping round. *)
(*                                                                         *)
(* A link is one websocket, with a state at either end, and is used again  *)
(* once both ends are rid of it.  One relay dials; a second one that takes *)
(* the bridge over is left out (the code only warns of it), and so are a   *)
(* relay that dials itself, the roles that clash, the proof a link gives   *)
(* by the flock's key, and the delay of a re-dial, which grows to 15s.     *)
(***************************************************************************)
EXTENDS Integers, FiniteSets

CONSTANTS Links, None,
          MaxCuts,     \* bound: paths that die without a word
          MaxRefusals, \* bound: dials refused, the editor not up
          MaxRestarts  \* bound: restarts of the editor's relay

ASSUME BridgeAssumption ==
  None \notin Links /\ {MaxCuts, MaxRefusals, MaxRestarts} \subseteq Nat

VARIABLES
  runner,   \* the role is set: this relay is the one that dials
  peer,     \* peerLink at the runner, or None
  near,     \* readyState of each link at the runner
  watchdog, \* links whose 5s watchdog is armed
  redial,   \* redialTimer is armed
  heard,    \* isAlive of each link at the runner
  editor,   \* peerLink at the editor, or None
  far,      \* each link at the editor
  answered, \* isAlive of each link at the editor
  cut,      \* links whose path passes nothing, either way, for now
  cuts, refusals, restarts

ends == <<runner, peer, near, watchdog, redial, heard>>
rest == <<editor, far, answered, cut>>
faults == <<cuts, refusals, restarts>>
bridgeVars == <<ends, rest, faults>>

BridgeInit ==
  /\ runner = FALSE /\ redial = FALSE /\ peer = None /\ editor = None
  /\ near = [l \in Links |-> "gone"] /\ far = [l \in Links |-> "gone"]
  /\ watchdog = {} /\ heard = {} /\ answered = {} /\ cut = {}
  /\ cuts = 0 /\ refusals = 0 /\ restarts = 0

Spent(l) == near[l] = "gone" /\ far[l] = "gone"
Alive == {l \in Links : near[l] \in {"connecting", "open"}}

\* dialEditor: a link that is open or on its way is left alone, one that is
\* closing is let go of.
DialEditor ==
  IF peer \in Alive THEN UNCHANGED <<peer, near, watchdog, far, cut>>
  ELSE \E l \in Links :
         /\ Spent(l)
         /\ peer' = l /\ watchdog' = watchdog \union {l}
         /\ near' = [near EXCEPT ![l] = "connecting"]
         /\ far' = [far EXCEPT ![l] = "asked"] /\ cut' = cut \ {l}

\* A browser becomes the runner: setRole.
SetRole ==
  /\ ~runner /\ runner' = TRUE
  /\ DialEditor
  /\ UNCHANGED <<redial, heard, editor, answered, faults>>

\* A browser arrives and the bridge is not open.
BrowserArrives ==
  /\ runner /\ ~(peer # None /\ near[peer] = "open")
  /\ DialEditor
  /\ UNCHANGED <<runner, redial, heard, editor, answered, faults>>

RedialFires ==
  /\ redial /\ redial' = FALSE
  /\ DialEditor
  /\ UNCHANGED <<runner, heard, editor, answered, faults>>

\* scheduleRedial, once peerLink is p: one timer at a time, none while open.
ScheduleRedial(p) ==
  redial' = (redial \/ ~(p # None /\ near[p] = "open"))

\* Five seconds and the dial is not open.
WatchdogFires(l) ==
  /\ l \in watchdog /\ near[l] # "open"
  /\ watchdog' = watchdog \ {l}
  /\ ScheduleRedial(peer)
  /\ UNCHANGED <<runner, peer, near, heard, rest, faults>>

ForgottenAny(l) == None

\* What peerLink is when link l has errored or closed at the runner.
Forgotten(l) == IF peer = l THEN None ELSE peer

\* The close of link l at the runner, after its error if it had one.
CloseNear(l) ==
  /\ near' = [near EXCEPT ![l] = "gone"]
  /\ watchdog' = watchdog \ {l}
  /\ peer' = Forgotten(l) /\ ScheduleRedial(Forgotten(l))
  /\ UNCHANGED <<runner, heard>>

\* A dial that fails: nobody is there yet, the editor hung up before it was
\* answered, or the system gave up on a path that passes nothing.
DialFails(l) ==
  /\ near[l] = "connecting"
  /\ CASE l \in cut        -> UNCHANGED refusals
       [] far[l] = "gone"  -> UNCHANGED refusals
       [] OTHER            -> /\ far[l] = "asked" /\ refusals < MaxRefusals
                              /\ refusals' = refusals + 1
  /\ CloseNear(l)
  /\ far' = [far EXCEPT ![l] = IF @ = "asked" THEN "gone" ELSE @]
  /\ UNCHANGED <<editor, answered, cut, cuts, restarts>>

Opens(l) ==
  /\ near[l] = "connecting" /\ far[l] = "open" /\ l \notin cut
  /\ near' = [near EXCEPT ![l] = "open"]
  /\ watchdog' = watchdog \ {l} /\ heard' = heard \union {l}
  /\ UNCHANGED <<runner, peer, redial, rest, faults>>

\* The editor's end is gone and the runner's learns of it; its close event
\* is still to come.
HangsUp(l) ==
  /\ near[l] = "open" /\ far[l] = "gone" /\ l \notin cut
  /\ near' = [near EXCEPT ![l] = "closing"]
  /\ UNCHANGED <<runner, peer, watchdog, redial, heard, rest, faults>>

Closes(l) ==
  /\ near[l] = "closing"
  /\ CloseNear(l)
  /\ UNCHANGED <<rest, faults>>

Silent(l) == l \in cut \/ far[l] # "open"

PingRoundWaits ==
  /\ peer # None /\ near[peer] = "open"
  /\ \/ /\ peer \in heard /\ heard' = heard \ {peer}
        /\ UNCHANGED <<peer, near>>
     \/ /\ peer \notin heard /\ Silent(peer)
        /\ near' = [near EXCEPT ![peer] = "closing"]
        /\ peer' = None
        /\ UNCHANGED heard
  /\ UNCHANGED <<runner, redial, watchdog, rest, faults>>

PingRoundTrusts ==
  /\ peer # None /\ near[peer] = "open"
  /\ peer \in heard /\ heard' = heard \ {peer}
  /\ UNCHANGED <<runner, peer, near, redial, watchdog, rest, faults>>

\* The runner's ping round: a link whose last ping had no pong is ended.  A
\* pong takes less than the 15s between two rounds, unless its way is dead.
PingRound ==
  /\ peer # None /\ near[peer] = "open"
  /\ \/ /\ peer \in heard /\ heard' = heard \ {peer}
        /\ UNCHANGED <<peer, near, redial>>
     \/ /\ peer \notin heard /\ Silent(peer)
        /\ near' = [near EXCEPT ![peer] = "closing"]
        /\ peer' = None /\ redial' = TRUE
        /\ UNCHANGED heard
  /\ UNCHANGED <<runner, watchdog, rest, faults>>

Pong(l) ==
  /\ near[l] = "open" /\ l \notin heard /\ ~Silent(l)
  /\ heard' = heard \union {l}
  /\ UNCHANGED <<runner, peer, near, watchdog, redial, rest, faults>>

(***************************************************************************)
(* The editor's end.                                                       *)
(***************************************************************************)
\* An inbound link is the bridge from then on, whatever was.
Accepts(l) ==
  /\ near[l] = "connecting" /\ far[l] = "asked" /\ l \notin cut
  /\ far' = [far EXCEPT ![l] = "open"] /\ answered' = answered \union {l}
  /\ editor' = l
  /\ UNCHANGED <<ends, cut, faults>>

\* The links of set gone are closed at the editor.
CloseFar(gone) ==
  /\ far' = [l \in Links |-> IF l \in gone THEN "gone" ELSE far[l]]
  /\ editor' = IF editor \in gone THEN None ELSE editor

RunnerGone(l) ==
  /\ far[l] = "open" /\ near[l] \in {"closing", "gone"} /\ l \notin cut
  /\ CloseFar({l})
  /\ UNCHANGED <<ends, answered, cut, faults>>

\* The editor's round, over all its links.
Inbound == {l \in Links : far[l] = "open"}
Deaf(l) == l \in cut \/ near[l] \in {"closing", "gone"}
EditorRound ==
  /\ Inbound # {}
  /\ \A l \in Inbound \ answered : Deaf(l)
  /\ CloseFar(Inbound \ answered)
  /\ answered' = answered \ Inbound
  /\ UNCHANGED <<ends, cut, faults>>

EditorPong(l) ==
  /\ far[l] = "open" /\ near[l] = "open" /\ l \notin answered \union cut
  /\ answered' = answered \union {l}
  /\ UNCHANGED <<ends, editor, far, cut, faults>>

(***************************************************************************)
(* What may befall it.                                                     *)
(***************************************************************************)
Cut(l) ==
  /\ ~Spent(l) /\ l \notin cut /\ cuts < MaxCuts
  /\ cut' = cut \union {l} /\ cuts' = cuts + 1
  /\ UNCHANGED <<ends, editor, far, answered, refusals, restarts>>

\* What was held up on the way arrives after all.
Heals(l) ==
  /\ l \in cut /\ ~Spent(l)
  /\ cut' = cut \ {l}
  /\ UNCHANGED <<ends, editor, far, answered, faults>>

\* The editor's relay starts anew; a dial it had not answered is lost with it,
\* or finds the new one.
EditorRestarts ==
  /\ restarts < MaxRestarts /\ restarts' = restarts + 1
  /\ \E lost \in SUBSET {l \in Links : far[l] = "asked"} :
       CloseFar(Inbound \union lost)
  /\ UNCHANGED <<ends, answered, cut, cuts, refusals>>

BridgeNext ==
  \/ SetRole \/ BrowserArrives \/ RedialFires \/ PingRound
  \/ EditorRound \/ EditorRestarts
  \/ \E l \in Links :
       \/ WatchdogFires(l) \/ DialFails(l) \/ Opens(l) \/ HangsUp(l)
       \/ Closes(l) \/ Pong(l) \/ Accepts(l) \/ RunnerGone(l)
       \/ EditorPong(l) \/ Cut(l) \/ Heals(l)

BridgeSpec == BridgeInit /\ [][BridgeNext]_bridgeVars

\* Timers fire, rounds come, and what is sent over a path that is not dead
\* arrives.  Nothing promises a browser, or that the system ever gives up on
\* a dial that gets no answer.
BridgeFairness ==
  /\ WF_bridgeVars(RedialFires) /\ WF_bridgeVars(PingRound) /\ WF_bridgeVars(EditorRound)
  /\ \A l \in Links :
       /\ WF_bridgeVars(WatchdogFires(l)) /\ WF_bridgeVars(Opens(l))
       /\ WF_bridgeVars(HangsUp(l)) /\ WF_bridgeVars(Closes(l)) /\ WF_bridgeVars(Pong(l))
       /\ WF_bridgeVars(Accepts(l)) /\ WF_bridgeVars(RunnerGone(l))
       /\ WF_bridgeVars(EditorPong(l))
       /\ WF_bridgeVars(DialFails(l) /\ l \notin cut /\ far[l] = "gone")

BridgeFairSpec == BridgeSpec /\ BridgeFairness

-----------------------------------------------------------------------------
\* What each variable ranges over.
BridgeTypeOK ==
  /\ runner \in BOOLEAN /\ redial \in BOOLEAN
  /\ peer \in Links \union {None} /\ editor \in Links \union {None}
  /\ near \in [Links -> {"connecting", "open", "closing", "gone"}]
  /\ far \in [Links -> {"asked", "open", "gone"}]
  /\ watchdog \subseteq {l \in Links : near[l] = "connecting"}
  /\ heard \subseteq Links /\ answered \subseteq Links /\ cut \subseteq Links
  /\ cuts \in 0..MaxCuts /\ refusals \in 0..MaxRefusals
  /\ restarts \in 0..MaxRestarts

\* The runner never has a second link open or on its way, and the editor's
\* peerLink is its end of that one, whatever closes of earlier links come
\* late: a frame given to the bridge at one end is heard at the other, and no
\* link is left behind that nobody would close.
EndsAgree == \A l \in Alive : peer = l /\ (far[l] = "open" => editor = l)

\* A runner without a link has a re-dial under way: no order of errors,
\* closes, rounds, watchdogs and arrivals leaves the bridge down with nothing
\* that will try again.
Driven == runner => redial \/ peer # None

Met == peer # None /\ editor = peer /\ near[peer] = "open" /\ far[peer] = "open"
       /\ peer \notin cut
HungDial(l) == near[l] = "connecting" /\ l \in cut

\* Through refusals, restarts of the editor and paths that die in silence the
\* bridge comes to stand at both ends and stays, with no browser's help,
\* except where a dial never gets an answer.
Recovers == <>[](runner => Met \/ \E l \in Links : HungDial(l))

\* "A CONNECTING link that never opens is not orphaned either: the 5s watchdog
\* already broadcasts and calls scheduleRedial" (relay.ts:455-457): a dial that
\* gets no answer is given up for another.
HungDialIsRetried ==
  \A l \in Links : HungDial(l) ~> near[l] # "connecting"
=============================================================================
