------------------------- MODULE RelayServerProofs -------------------------
(***************************************************************************)
(* Three parts of the relay server, each for every value of its constants  *)
(* and by an invariant of its own: the bridge between two relays, the      *)
(* presence verdict, and the from-check of one socket.                     *)
(***************************************************************************)
EXTENDS Bridge, Presence, FromGate, TLAPS, FiniteSetTheorems

(***************************************************************************)
(* The bridge.  For every number of links and failures: its ends agree     *)
(* on which link it is, and a runner without one is about to dial.  The    *)
(* three properties are inductive together.  What a step does to a link    *)
(* that is not alive, EndsAgree does not see; a link that comes alive is   *)
(* the one just dialled, and only when no other was (DialStep); a link     *)
(* the editor accepts is alive, so it is that one.                         *)
(***************************************************************************)

BridgeInv == BridgeTypeOK /\ EndsAgree /\ Driven

LEMMA InitBridge == BridgeInit => BridgeInv
<1> SUFFICES ASSUME BridgeInit PROVE BridgeInv
  OBVIOUS
<1>1. {MaxCuts, MaxRefusals, MaxRestarts} \subseteq Nat
  BY BridgeAssumption DEF BridgeAssumption
<1>2. BridgeTypeOK
  <2>1. cuts \in 0..MaxCuts /\ refusals \in 0..MaxRefusals
        /\ restarts \in 0..MaxRestarts
    BY <1>1 DEF BridgeInit
  <2>2. watchdog \subseteq {l \in Links : near[l] = "connecting"}
        /\ heard \subseteq Links /\ answered \subseteq Links
        /\ cut \subseteq Links
    BY Zenon DEF BridgeInit
  <2>3. near \in [Links -> {"connecting", "open", "closing", "gone"}]
        /\ far \in [Links -> {"asked", "open", "gone"}]
    BY DEF BridgeInit
  <2> QED BY <2>1, <2>2, <2>3 DEF BridgeInit, BridgeTypeOK
<1>3. EndsAgree /\ Driven
  BY DEF BridgeInit, EndsAgree, Driven, Alive
<1> QED BY <1>2, <1>3 DEF BridgeInv

\* dialEditor leaves the runner with a link, the only one alive.
LEMMA DialStep ==
  ASSUME BridgeInv, DialEditor, UNCHANGED <<heard, editor, answered, faults>>,
         runner' \in BOOLEAN, redial' \in BOOLEAN
  PROVE  BridgeInv'
<1> USE BridgeAssumption DEF BridgeInv, BridgeTypeOK, Alive
<1>1. CASE peer \in Alive
  <2>1. UNCHANGED <<peer, near, watchdog, far, cut, editor>>
    BY <1>1 DEF DialEditor
  <2>2. BridgeTypeOK'
    BY <2>1 DEF faults
  <2>3. EndsAgree'
    BY <2>1 DEF EndsAgree
  <2>4. Driven'
    BY <1>1, <2>1 DEF Driven
  <2> QED BY <2>2, <2>3, <2>4
<1>2. CASE peer \notin Alive
  <2>1. PICK l \in Links :
          /\ Spent(l)
          /\ peer' = l /\ watchdog' = watchdog \union {l}
          /\ near' = [near EXCEPT ![l] = "connecting"]
          /\ far' = [far EXCEPT ![l] = "asked"] /\ cut' = cut \ {l}
    BY <1>2 DEF DialEditor
  <2>2. BridgeTypeOK'
    BY <2>1 DEF faults
  <2>3. Alive = {}
    BY <1>2 DEF EndsAgree
  <2>4. EndsAgree'
    BY <2>1, <2>3 DEF EndsAgree
  <2>5. Driven'
    BY <2>1 DEF Driven
  <2> QED BY <2>2, <2>4, <2>5
<1> QED BY <1>1, <1>2

\* The close of a link that is not the bridge leaves the bridge alone; that
\* of the bridge leaves a re-dial behind.
LEMMA CloseStep ==
  ASSUME BridgeInv, NEW l \in Links, CloseNear(l), near[l] # "open",
         UNCHANGED <<editor, answered, cut, cuts, restarts>>,
         refusals' \in 0..MaxRefusals,
         far' = [far EXCEPT ![l] = IF @ = "asked" THEN "gone" ELSE @]
         \/ UNCHANGED far
  PROVE  BridgeInv'
<1> USE BridgeAssumption DEF BridgeInv, BridgeTypeOK, CloseNear, Alive
<1>1. redial' \in BOOLEAN /\ (peer' = None => redial')
  BY DEF ScheduleRedial
<1>2. BridgeTypeOK'
  BY <1>1 DEF Forgotten
<1>3. EndsAgree'
  BY DEF EndsAgree, Forgotten
<1>4. Driven'
  BY <1>1 DEF Driven
<1> QED BY <1>2, <1>3, <1>4

\* The editor closing links leaves it with the bridge or with none of them.
LEMMA CloseFarStep ==
  ASSUME BridgeInv, NEW gone \in SUBSET Links, CloseFar(gone),
         UNCHANGED <<ends, cut, cuts, refusals>>,
         answered' \subseteq Links, restarts' \in 0..MaxRestarts
  PROVE  BridgeInv'
<1> USE BridgeAssumption DEF BridgeInv, BridgeTypeOK, CloseFar, ends
<1>1. BridgeTypeOK'
  OBVIOUS
<1>2. EndsAgree'
  BY DEF EndsAgree, Alive
<1>3. Driven'
  BY DEF Driven
<1> QED BY <1>1, <1>2, <1>3

LEMMA NextBridge == BridgeInv /\ [BridgeNext]_bridgeVars => BridgeInv'
<1> SUFFICES ASSUME BridgeInv, [BridgeNext]_bridgeVars PROVE BridgeInv'
  OBVIOUS
<1> USE BridgeAssumption DEF BridgeInv
<1>1. CASE UNCHANGED bridgeVars
  BY <1>1 DEF bridgeVars, ends, rest, faults, BridgeTypeOK, EndsAgree, Alive, Driven
<1>2. CASE SetRole
  BY <1>2, DialStep DEF SetRole, BridgeTypeOK
<1>3. CASE BrowserArrives
  BY <1>3, DialStep DEF BrowserArrives, BridgeTypeOK
<1>4. CASE RedialFires
  BY <1>4, DialStep DEF RedialFires, BridgeTypeOK
<1>5. CASE PingRound
  <2>1. CASE /\ peer \in heard /\ heard' = heard \ {peer}
             /\ UNCHANGED <<peer, near, redial>>
    BY <1>5, <2>1 DEF PingRound, BridgeTypeOK, EndsAgree, Alive, Driven, rest, faults
  <2>2. CASE /\ near' = [near EXCEPT ![peer] = "closing"]
             /\ peer' = None /\ redial' = TRUE /\ UNCHANGED heard
    BY <1>5, <2>2 DEF PingRound, BridgeTypeOK, EndsAgree, Alive, Driven, rest, faults
  <2> QED BY <1>5, <2>1, <2>2 DEF PingRound
<1>6. CASE EditorRound
  <2>1. Inbound \ answered \in SUBSET Links
    BY DEF Inbound
  <2> QED BY <1>6, <2>1, CloseFarStep DEF EditorRound, BridgeTypeOK, faults
<1>7. CASE EditorRestarts
  <2>1. PICK lost \in SUBSET {l \in Links : far[l] = "asked"} :
          CloseFar(Inbound \union lost)
    BY <1>7 DEF EditorRestarts
  <2>2. Inbound \union lost \in SUBSET Links
    BY DEF Inbound
  <2>3. restarts' \in 0..MaxRestarts /\ answered' \subseteq Links
    BY <1>7 DEF EditorRestarts, BridgeTypeOK
  <2> QED BY <1>7, <2>1, <2>2, <2>3, CloseFarStep DEF EditorRestarts
<1>8. ASSUME NEW l \in Links, WatchdogFires(l) PROVE BridgeInv'
  BY <1>8 DEF WatchdogFires, ScheduleRedial, BridgeTypeOK, EndsAgree, Alive, Driven,
     rest, faults
<1>9. ASSUME NEW l \in Links, DialFails(l) PROVE BridgeInv'
  <2>1. refusals' \in 0..MaxRefusals
    BY <1>9 DEF DialFails, BridgeTypeOK
  <2> QED BY <1>9, <2>1, CloseStep DEF DialFails
<1>10. ASSUME NEW l \in Links, Opens(l) PROVE BridgeInv'
  BY <1>10 DEF Opens, BridgeTypeOK, EndsAgree, Alive, Driven, rest, faults
<1>11. ASSUME NEW l \in Links, HangsUp(l) PROVE BridgeInv'
  BY <1>11 DEF HangsUp, BridgeTypeOK, EndsAgree, Alive, Driven, rest, faults
<1>12. ASSUME NEW l \in Links, Closes(l) PROVE BridgeInv'
  <2>1. near[l] # "open" /\ refusals' \in 0..MaxRefusals
    BY <1>12 DEF Closes, faults, BridgeTypeOK
  <2> QED BY <1>12, <2>1, CloseStep DEF Closes, rest, faults
<1>13. ASSUME NEW l \in Links, Pong(l) PROVE BridgeInv'
  BY <1>13 DEF Pong, BridgeTypeOK, EndsAgree, Alive, Driven, rest, faults
<1>14. ASSUME NEW l \in Links, Accepts(l) PROVE BridgeInv'
  BY <1>14 DEF Accepts, BridgeTypeOK, EndsAgree, Alive, Driven, ends, faults
<1>15. ASSUME NEW l \in Links, RunnerGone(l) PROVE BridgeInv'
  <2>1. answered' \subseteq Links /\ restarts' \in 0..MaxRestarts
    BY <1>15 DEF RunnerGone, BridgeTypeOK, faults
  <2> QED BY <1>15, <2>1, CloseFarStep DEF RunnerGone, faults
<1>16. ASSUME NEW l \in Links, EditorPong(l) PROVE BridgeInv'
  BY <1>16 DEF EditorPong, BridgeTypeOK, EndsAgree, Alive, Driven, ends, faults
<1>17. ASSUME NEW l \in Links, Cut(l) PROVE BridgeInv'
  BY <1>17 DEF Cut, BridgeTypeOK, EndsAgree, Alive, Driven, ends
<1>18. ASSUME NEW l \in Links, Heals(l) PROVE BridgeInv'
  BY <1>18 DEF Heals, BridgeTypeOK, EndsAgree, Alive, Driven, ends, faults
<1> QED BY <1>1, <1>2, <1>3, <1>4, <1>5, <1>6, <1>7, <1>8, <1>9, <1>10, <1>11,
        <1>12, <1>13, <1>14, <1>15, <1>16, <1>17, <1>18 DEF BridgeNext

\* The inductive invariant of the bridge.
THEOREM BridgeInvariant == BridgeSpec => []BridgeInv
<1> QED BY InitBridge, NextBridge, PTL DEF BridgeSpec

\* Type correctness of the bridge, for every number of links and failures.
THEOREM BridgeTypeCorrect == BridgeSpec => []BridgeTypeOK
<1>1. BridgeInv => BridgeTypeOK
  BY DEF BridgeInv
<1> QED BY <1>1, BridgeInvariant, PTL

\* dialEditor and the inbound connection: one link, the same at both ends.
THEOREM OneBridge == BridgeSpec => []EndsAgree
<1>1. BridgeInv => EndsAgree
  BY DEF BridgeInv
<1> QED BY <1>1, BridgeInvariant, PTL

\* scheduleRedial: a bridge that is down is about to be dialled.
THEOREM AlwaysRedialled == BridgeSpec => []Driven
<1>1. BridgeInv => Driven
  BY DEF BridgeInv
<1> QED BY <1>1, BridgeInvariant, PTL

(***************************************************************************)
(* Presence.  For every set of friends, of ids and every bound: the        *)
(* verdict is the relay's own, as long as a list the station asks about    *)
(* fits into one `who' (ListsFit; a friend past the cap would read as      *)
(* offline for good, although the relay never looked it up).               *)
(***************************************************************************)

\* An ask under way that bears the last id is for the last list.
UpSound == \A i \in DOMAIN up : up[i].corr = askedCorr => up[i].addrs = askedList

\* An answer found only what it looked up, and if it bears the last id it has
\* looked up all of the last list.
AnswerSound(a) ==
  a.control = "who_ok" => /\ a.online \subseteq a.looked
                          /\ a.corr = askedCorr => askedList \subseteq a.looked

DownSound == \A i \in DOMAIN down : AnswerSound(down[i])

SnapSound == /\ known \subseteq snap.looked
             /\ snap.found \subseteq snap.looked
             /\ seen = snap.found

PresenceInv == PresenceTypeOK /\ UpSound /\ DownSound /\ SnapSound

ListsFit == \A s \in SUBSET Friends : Cardinality(s) <= WhoMax

-----------------------------------------------------------------------------
\* What the relay looks up is part of the list, and the whole list if it fits.
LEMMA LookedUpInList ==
  ASSUME NEW addrs \in SUBSET Friends, NEW looked \in LookedUp(addrs)
  PROVE  looked \in SUBSET addrs /\ (ListsFit => looked = addrs)
BY DEF LookedUp, ListsFit

\* The elements of a queue after one is taken off the front or put at the back.
LEMMA TailElements ==
  ASSUME NEW S, NEW q \in Seq(S), q # <<>>
  PROVE  /\ Tail(q) \in Seq(S) /\ Head(q) \in S /\ 1 \in DOMAIN q
         /\ \A i \in DOMAIN Tail(q) : i + 1 \in DOMAIN q /\ Tail(q)[i] = q[i + 1]
         /\ Head(q) = q[1]
OBVIOUS

LEMMA AppendElements ==
  ASSUME NEW S, NEW q \in Seq(S), NEW e \in S
  PROVE  /\ Append(q, e) \in Seq(S)
         /\ \A i \in DOMAIN Append(q, e) :
              \/ i \in DOMAIN q /\ Append(q, e)[i] = q[i]
              \/ Append(q, e)[i] = e
OBVIOUS

-----------------------------------------------------------------------------
\* Type correctness is inductive by itself.
LEMMA PresenceTypeStep == PresenceTypeOK /\ [PresenceNext]_presenceVars => PresenceTypeOK'
<1> SUFFICES ASSUME PresenceTypeOK, [PresenceNext]_presenceVars PROVE PresenceTypeOK'
  OBVIOUS
<1> USE PresenceAssumption
<1>1. ASSUME NEW addrs \in SUBSET Friends, NEW c \in Corrs, Ask(addrs, c)
      PROVE  PresenceTypeOK'
  <2>1. [corr |-> c, addrs |-> addrs] \in AskType
    BY DEF AskType
  <2>2. up' \in Seq(AskType)
    BY <1>1, <2>1, AppendElements DEF Ask, PresenceTypeOK
  <2> QED BY <1>1, <2>2 DEF Ask, PresenceTypeOK, relayVars
<1>2. CASE Take
  <2>1. down' \in Seq(AnswerType) /\ Head(down) \in AnswerType
    BY <1>2, TailElements DEF Take, PresenceTypeOK
  <2>2. CASE Head(down).control = "who_error"
    BY <1>2, <2>1, <2>2 DEF Take, PresenceTypeOK, relayVars
  <2>3. CASE Head(down).control # "who_error"
    <3>1. Head(down).online \in SUBSET Friends /\ Head(down).looked \in SUBSET Friends
      BY <2>1 DEF AnswerType
    <3>2. Coverage(Head(down)) \in SUBSET Friends
          /\ Head(down).online \subseteq Coverage(Head(down))
      BY <3>1 DEF Coverage, PresenceTypeOK
    <3>3. /\ seen' = Head(down).online /\ known' = Coverage(Head(down))
          /\ age' = 0 /\ error' = FALSE
          /\ snap' = [looked |-> Head(down).looked, found |-> Head(down).online]
      BY <1>2, <2>3 DEF Take, SeenAfter
    <3>4. /\ UNCHANGED <<online, linked, proven, up, askedCorr, askedList>>
          /\ 0 \in 0..FreshTicks
      BY <1>2 DEF Take, relayVars
    <3>5. snap' \in [looked : SUBSET Friends, found : SUBSET Friends]
      BY <3>1, <3>3
    <3> QED BY <2>1, <3>2, <3>3, <3>4, <3>5 DEF PresenceTypeOK
  <2> QED BY <2>2, <2>3
<1>3. CASE Tick
  BY <1>3 DEF Tick, PresenceTypeOK, relayVars
<1>4. CASE RelayAnswers
  <2>1. up' \in Seq(AskType) /\ Head(up) \in AskType
    BY <1>4, TailElements DEF RelayAnswers, PresenceTypeOK
  <2>2. PICK a \in AnswerType : down' = Append(down, a)
    <3>1. CASE proven
      <4>1. PICK looked \in LookedUp(Head(up).addrs) :
              down' = Append(down, Ok(Head(up).corr, looked \cap online, looked))
        BY <1>4, <3>1 DEF RelayAnswers
      <4>2. looked \in SUBSET Friends /\ Head(up).corr \in Corrs
        BY <2>1, LookedUpInList DEF AskType
      <4>3. Ok(Head(up).corr, looked \cap online, looked) \in AnswerType
        BY <4>2 DEF Ok, AnswerType
      <4> QED BY <4>1, <4>3
    <3>2. CASE ~proven
      <4>1. Refusal(Head(up).corr) \in AnswerType
        BY <2>1 DEF AskType, Refusal, AnswerType
      <4> QED BY <1>4, <3>2, <4>1 DEF RelayAnswers
    <3> QED BY <3>1, <3>2
  <2>3. down' \in Seq(AnswerType)
    BY <2>2, AppendElements DEF PresenceTypeOK
  <2> QED BY <1>4, <2>1, <2>3 DEF RelayAnswers, PresenceTypeOK, relayVars, stationVars
<1>5. ASSUME NEW f \in Friends, FriendMoves(f) PROVE PresenceTypeOK'
  BY <1>5 DEF FriendMoves, PresenceTypeOK, stationVars
<1>6. CASE SocketOpens \/ HelloVerified
  BY <1>6 DEF SocketOpens, HelloVerified, PresenceTypeOK, stationVars
<1>7. CASE SocketBreaks
  <2>1. up' \in Seq(AskType) /\ down' \in Seq(AnswerType)
    BY <1>7 DEF SocketBreaks
  <2> QED BY <1>7, <2>1 DEF SocketBreaks, PresenceTypeOK, stationVars
<1>8. CASE UNCHANGED presenceVars
  BY <1>8 DEF presenceVars, relayVars, stationVars, PresenceTypeOK
<1> QED BY <1>1, <1>2, <1>3, <1>4, <1>5, <1>6, <1>7, <1>8 DEF PresenceNext

LEMMA PresenceInitTyped == PresenceInit => PresenceTypeOK
<1> SUFFICES ASSUME PresenceInit PROVE PresenceTypeOK
  OBVIOUS
<1>1. up \in Seq(AskType) /\ down \in Seq(AnswerType)
  BY DEF PresenceInit
<1>2. /\ age \in 0..FreshTicks
      /\ snap \in [looked : SUBSET Friends, found : SUBSET Friends]
  BY PresenceAssumption DEF PresenceInit
<1> QED BY <1>1, <1>2 DEF PresenceInit, PresenceTypeOK

\* Presence keeps its types whatever the relay and the socket do.
THEOREM PresenceTypeCorrect == PresenceSpec => []PresenceTypeOK
<1>1. PresenceInit => PresenceTypeOK
  BY PresenceInitTyped
<1> QED BY <1>1, PresenceTypeStep, PTL DEF PresenceSpec

-----------------------------------------------------------------------------
\* Asks, answers and the snapshot stay sound.
LEMMA PresenceSoundStep ==
  ListsFit /\ PresenceInv /\ [PresenceNext]_presenceVars => UpSound' /\ DownSound' /\ SnapSound'
<1> SUFFICES ASSUME ListsFit, PresenceInv, [PresenceNext]_presenceVars
             PROVE  UpSound' /\ DownSound' /\ SnapSound'
  OBVIOUS
<1> USE DEF PresenceInv
<1>1. ASSUME NEW addrs \in SUBSET Friends, NEW c \in Corrs, Ask(addrs, c)
      PROVE  UpSound' /\ DownSound' /\ SnapSound'
  <2>1. /\ askedCorr' = c /\ askedList' = addrs /\ down' = down
        /\ up' = Append(up, [corr |-> c, addrs |-> addrs])
        /\ \A i \in DOMAIN up : up[i].corr # c
        /\ \A i \in DOMAIN down : down[i].corr # c
    BY <1>1 DEF Ask, InFlight
  <2>2. \A i \in DOMAIN up' : \/ i \in DOMAIN up /\ up'[i] = up[i]
                              \/ up'[i] = [corr |-> c, addrs |-> addrs]
    <3>1. [corr |-> c, addrs |-> addrs] \in AskType
      BY DEF AskType
    <3> QED BY <2>1, <3>1, AppendElements DEF PresenceTypeOK
  <2>3. UpSound'
    BY <2>1, <2>2 DEF UpSound
  <2>4. DownSound'
    BY <2>1 DEF DownSound, AnswerSound
  <2>5. SnapSound'
    BY <1>1 DEF Ask, SnapSound
  <2> QED BY <2>3, <2>4, <2>5
<1>2. CASE Take
  <2>1. /\ up' = up /\ askedCorr' = askedCorr /\ askedList' = askedList
        /\ down' = Tail(down) /\ down # <<>>
    BY <1>2 DEF Take
  <2>2. UpSound'
    BY <2>1 DEF UpSound
  <2>3. DownSound'
    BY <2>1, TailElements DEF PresenceTypeOK, DownSound, AnswerSound
  <2>4. AnswerSound(Head(down)) /\ Head(down) \in AnswerType
    BY <2>1, TailElements DEF PresenceTypeOK, DownSound
  <2>5. SnapSound'
    <3>1. CASE Head(down).control = "who_error"
      BY <1>2, <3>1 DEF Take, SnapSound
    <3>2. CASE Head(down).control # "who_error"
      <4>1. Head(down).control = "who_ok"
        BY <2>4, <3>2 DEF AnswerType
      <4>2. /\ seen' = Head(down).online /\ known' = Coverage(Head(down))
            /\ snap' = [looked |-> Head(down).looked, found |-> Head(down).online]
        BY <1>2, <3>2 DEF Take, SeenAfter
      <4>3. Coverage(Head(down)) \subseteq Head(down).looked
        BY <2>4, <4>1 DEF AnswerSound, Coverage
      <4> QED BY <2>4, <4>1, <4>2, <4>3 DEF SnapSound, AnswerSound
    <3> QED BY <3>1, <3>2
  <2> QED BY <2>2, <2>3, <2>5
<1>3. CASE Tick
  BY <1>3 DEF Tick, UpSound, DownSound, AnswerSound, SnapSound
<1>4. CASE RelayAnswers
  <2>1. /\ up # <<>> /\ up' = Tail(up)
        /\ askedCorr' = askedCorr /\ askedList' = askedList
        /\ known' = known /\ seen' = seen /\ snap' = snap
    BY <1>4 DEF RelayAnswers, stationVars
  <2>2. UpSound'
    BY <2>1, TailElements DEF PresenceTypeOK, UpSound
  <2>3. SnapSound'
    BY <2>1 DEF SnapSound
  <2>4. /\ Head(up) \in AskType
        /\ Head(up).corr = askedCorr => Head(up).addrs = askedList
    BY <2>1, TailElements DEF PresenceTypeOK, UpSound
  <2>5. PICK a \in AnswerType : down' = Append(down, a) /\ AnswerSound(a)
    <3>1. CASE proven
      <4>1. PICK looked \in LookedUp(Head(up).addrs) :
              down' = Append(down, Ok(Head(up).corr, looked \cap online, looked))
        BY <1>4, <3>1 DEF RelayAnswers
      <4>2. looked = Head(up).addrs /\ looked \in SUBSET Friends
        BY <2>4, LookedUpInList DEF AskType
      <4>3. Ok(Head(up).corr, looked \cap online, looked) \in AnswerType
        BY <2>4, <4>2 DEF Ok, AnswerType, AskType
      <4>4. AnswerSound(Ok(Head(up).corr, looked \cap online, looked))
        BY <2>4, <4>2 DEF AnswerSound, Ok
      <4> QED BY <4>1, <4>3, <4>4
    <3>2. CASE ~proven
      <4>1. Refusal(Head(up).corr) \in AnswerType
        BY <2>4 DEF AskType, Refusal, AnswerType
      <4>2. AnswerSound(Refusal(Head(up).corr))
        BY DEF AnswerSound, Refusal
      <4> QED BY <1>4, <3>2, <4>1, <4>2 DEF RelayAnswers
    <3> QED BY <3>1, <3>2
  <2>6. \A i \in DOMAIN down' : \/ i \in DOMAIN down /\ down'[i] = down[i]
                                \/ down'[i] = a
    BY <2>5, AppendElements DEF PresenceTypeOK
  <2>7. DownSound'
    BY <2>1, <2>5, <2>6 DEF DownSound, AnswerSound
  <2> QED BY <2>2, <2>3, <2>7
<1>5. ASSUME NEW f \in Friends, FriendMoves(f)
      PROVE  UpSound' /\ DownSound' /\ SnapSound'
  BY <1>5 DEF FriendMoves, stationVars, UpSound, DownSound, AnswerSound, SnapSound
<1>6. CASE SocketOpens \/ HelloVerified
  BY <1>6 DEF SocketOpens, HelloVerified, stationVars, UpSound, DownSound,
              AnswerSound, SnapSound
<1>7. CASE SocketBreaks
  <2>1. up' = <<>> /\ down' = <<>> /\ UNCHANGED stationVars
    BY <1>7 DEF SocketBreaks
  <2> QED BY <2>1 DEF stationVars, UpSound, DownSound, SnapSound
<1>8. CASE UNCHANGED presenceVars
  BY <1>8 DEF presenceVars, relayVars, stationVars, UpSound, DownSound, AnswerSound,
              SnapSound
<1> QED BY <1>1, <1>2, <1>3, <1>4, <1>5, <1>6, <1>7, <1>8 DEF PresenceNext

\* Presence_live: a verdict is one the relay reached by looking that friend up
\* for the answer last taken, if the lists fit into one ask.
THEOREM VerdictsAreTheRelays == ListsFit => (PresenceSpec => []VerdictWasLookedUp)
<1>1. PresenceInit => PresenceInv
  BY PresenceInitTyped DEF PresenceInit, PresenceInv, UpSound, DownSound, SnapSound
<1>2. ListsFit /\ PresenceInv /\ [PresenceNext]_presenceVars => PresenceInv'
  BY PresenceTypeStep, PresenceSoundStep DEF PresenceInv
<1>3. PresenceInv => VerdictWasLookedUp
  BY DEF PresenceInv, SnapSound, VerdictWasLookedUp, Live
<1> SUFFICES ASSUME ListsFit PROVE PresenceSpec => []VerdictWasLookedUp
  OBVIOUS
<1>4. PresenceInv /\ [PresenceNext]_presenceVars => PresenceInv'
  BY <1>2
<1> QED BY <1>1, <1>3, <1>4, PTL DEF PresenceSpec
(***************************************************************************)
(* The from-check.  For any number of names, frames and hellos: frames are *)
(* forwarded in the order they came, since all that was forwarded came     *)
(* before all that waits, and both before what is still to come; and while *)
(* no two hellos have crossed, the one a socket verifies is the one it     *)
(* remembers, and the only one a waiting frame came behind.                *)
(***************************************************************************)

QueueInOrder ==
  /\ \A m, n \in DOMAIN queue : m < n => queue[m] < queue[n]
  /\ \A m, n \in DOMAIN forwarded : m < n => forwarded[m] < forwarded[n]
  /\ \A m \in DOMAIN forwarded, n \in DOMAIN queue : forwarded[m] < queue[n]

Uncrossed ==
  ~crossed => /\ verifying = {pending} \ {0}
              /\ \A n \in DOMAIN queue : behind[queue[n]] \subseteq {head}

GateInv == GateTypeOK /\ QueueInOrder /\ Uncrossed

LEMMA InitGate == GateInit => GateInv
<1> SUFFICES ASSUME GateInit PROVE GateInv
  OBVIOUS
<1>1. GateTypeOK
  <2>1. MaxFrames \in Nat /\ MaxHellos \in Nat
    BY GateAssumption DEF GateAssumption
  <2>2. /\ claims \in Seq(Addrs \union {Role}) /\ asks \in Seq(Souls)
        /\ behind \in Seq(SUBSET DOMAIN asks)
        /\ queue \in Seq(DOMAIN claims) /\ forwarded \in Seq(DOMAIN claims)
    BY DEF GateInit
  <2>3. /\ Len(claims) =< MaxFrames /\ Len(asks) =< MaxHellos
        /\ Len(behind) = Len(claims)
    BY <2>1 DEF GateInit
  <2>4. /\ verifying \subseteq DOMAIN asks /\ pending \in verifying \union {0}
        /\ IF queue = <<>> THEN head = 0 ELSE head \in verifying
        /\ refused \subseteq DOMAIN claims /\ bound \subseteq Addrs
    BY DEF GateInit
  <2>5. crossed \in BOOLEAN
    BY DEF GateInit
  <2> QED BY <2>2, <2>3, <2>4, <2>5, Zenon DEF GateTypeOK
<1>2. QueueInOrder /\ Uncrossed
  BY DEF GateInit, QueueInOrder, Uncrossed
<1> QED BY <1>1, <1>2 DEF GateInv

\* A queue that took its elements in ascending places is in their order.
LEMMA PickedInOrder ==
  ASSUME NEW S, NEW q \in Seq(S), NEW good, good \subseteq DOMAIN q, NEW passed \in InOrder(good),
         NEW picked, picked = [k \in DOMAIN passed |-> q[passed[k]]]
  PROVE  /\ picked \in Seq(S)
         /\ \A k \in DOMAIN picked : \E n \in good : picked[k] = q[n]
         /\ (\A m, n \in DOMAIN q : m < n => q[m] < q[n])
              => \A k, l \in DOMAIN picked : k < l => picked[k] < picked[l]
<1>1. Len(q) \in Nat /\ DOMAIN q = 1..Len(q) /\ good \subseteq 1..Len(q)
  OBVIOUS
<1>2. Cardinality(good) \in Nat
  <2>1. IsFiniteSet(1..Len(q))
    BY <1>1, FS_Interval
  <2> QED BY <1>1, <2>1, FS_Subset, FS_CardinalityType
<1>3. /\ passed \in [1..Cardinality(good) -> good]
      /\ \A k, l \in DOMAIN passed : k < l => passed[k] < passed[l]
  BY DEF InOrder
<1>4. \A n \in good : q[n] \in S
  BY <1>1
<1>5. picked \in [1..Cardinality(good) -> S]
  BY <1>3, <1>4
<1>6. picked \in Seq(S)
  BY <1>2, <1>5
<1>7. \A k \in DOMAIN picked : passed[k] \in good /\ picked[k] = q[passed[k]]
  BY <1>3
<1>8. ASSUME \A m, n \in DOMAIN q : m < n => q[m] < q[n],
             NEW k \in DOMAIN picked, NEW l \in DOMAIN picked, k < l
      PROVE  picked[k] < picked[l]
  BY <1>3, <1>7, <1>8
<1> QED BY <1>6, <1>7, <1>8

\* Two sequences one after the other, if the first lies below the second.
LEMMA JoinedInOrder ==
  ASSUME NEW m \in Nat, NEW a \in Seq(1..m), NEW b \in Seq(1..m),
         \A k, l \in DOMAIN a : k < l => a[k] < a[l],
         \A k, l \in DOMAIN b : k < l => b[k] < b[l],
         \A k \in DOMAIN a, l \in DOMAIN b : a[k] < b[l]
  PROVE  /\ a \o b \in Seq(1..m)
         /\ \A k \in DOMAIN (a \o b) :
              \/ k \in DOMAIN a /\ (a \o b)[k] = a[k]
              \/ k - Len(a) \in DOMAIN b /\ (a \o b)[k] = b[k - Len(a)]
         /\ \A k, l \in DOMAIN (a \o b) : k < l => (a \o b)[k] < (a \o b)[l]
<1>1. /\ a \o b \in Seq(1..m) /\ Len(a \o b) = Len(a) + Len(b)
      /\ DOMAIN (a \o b) = 1..(Len(a) + Len(b))
      /\ DOMAIN a = 1..Len(a) /\ DOMAIN b = 1..Len(b) /\ Len(a) \in Nat /\ Len(b) \in Nat
  OBVIOUS
<1>2. /\ \A k \in 1..Len(a) : (a \o b)[k] = a[k]
      /\ \A k \in 1..(Len(a) + Len(b)) :
           k > Len(a) => k - Len(a) \in 1..Len(b) /\ (a \o b)[k] = b[k - Len(a)]
  BY <1>1
<1>3. \A k \in DOMAIN (a \o b) :
        \/ k \in DOMAIN a /\ (a \o b)[k] = a[k]
        \/ k - Len(a) \in DOMAIN b /\ (a \o b)[k] = b[k - Len(a)]
  BY <1>1, <1>2
<1>4. ASSUME NEW k \in DOMAIN (a \o b), NEW l \in DOMAIN (a \o b), k < l
      PROVE  (a \o b)[k] < (a \o b)[l]
  <2>1. CASE l <= Len(a)
    BY <1>1, <1>2, <1>4, <2>1
  <2>2. CASE k <= Len(a) /\ l > Len(a)
    BY <1>1, <1>2, <1>4, <2>2
  <2>3. CASE k > Len(a)
    <3>1. k - Len(a) < l - Len(a) /\ l > Len(a)
      BY <1>1, <1>4, <2>3
    <3> QED BY <1>1, <1>2, <2>3, <3>1
  <2> QED BY <1>1, <2>1, <2>2, <2>3
<1> QED BY <1>1, <1>3, <1>4
\* What a message or the end of a verification does to the verdicts.
LEMMA JudgedEffect ==
  ASSUME GateInv, NEW names, Judged(names)
  PROVE  /\ queue' = <<>> /\ head' = 0
         /\ forwarded' \in Seq(DOMAIN claims)
         /\ \A k, l \in DOMAIN forwarded' : k < l => forwarded'[k] < forwarded'[l]
         /\ refused' \subseteq DOMAIN claims
         /\ \A i \in refused' \ refused :
              /\ ~Proven(claims[i], names)
              /\ \E n \in DOMAIN queue : i = queue[n]
<1> DEFINE good == {n \in DOMAIN queue : Proven(claims[queue[n]], names)}
           m == Len(claims)
<1>1. PICK passed \in InOrder(good) :
        forwarded' = forwarded \o [k \in DOMAIN passed |-> queue[passed[k]]]
  BY DEF Judged
<1>2. /\ refused' = refused \union {queue[n] : n \in DOMAIN queue \ good}
      /\ queue' = <<>> /\ head' = 0
  BY DEF Judged
<1>3. /\ m \in Nat /\ DOMAIN claims = 1..m /\ queue \in Seq(1..m) /\ forwarded \in Seq(1..m)
      /\ refused \subseteq 1..m
  BY DEF GateInv, GateTypeOK
<1> DEFINE picked == [k \in DOMAIN passed |-> queue[passed[k]]]
<1> HIDE DEF m
<1>4. /\ picked \in Seq(1..m)
      /\ \A k \in DOMAIN picked : \E n \in good : picked[k] = queue[n]
      /\ \A k, l \in DOMAIN picked : k < l => picked[k] < picked[l]
  <2>1. good \subseteq DOMAIN queue
    OBVIOUS
  <2> HIDE DEF good
  <2>2. \A k, l \in DOMAIN queue : k < l => queue[k] < queue[l]
    BY DEF GateInv, QueueInOrder
  <2> HIDE DEF picked
  <2>3. picked = [k \in DOMAIN passed |-> queue[passed[k]]]
    BY DEF picked
  <2> DEFINE S == 1..m
  <2>4. queue \in Seq(S)
    BY <1>3
  <2> HIDE DEF S
  <2>5. passed \in InOrder(good)
    BY <1>1
  <2>6. /\ picked \in Seq(S)
        /\ \A k \in DOMAIN picked : \E n \in good : picked[k] = queue[n]
        /\ (\A k, l \in DOMAIN queue : k < l => queue[k] < queue[l])
              => \A k, l \in DOMAIN picked : k < l => picked[k] < picked[l]
    BY <2>1, <2>3, <2>4, <2>5, PickedInOrder
  <2> QED BY <2>2, <2>6 DEF S
<1>5. \A k \in DOMAIN forwarded, l \in DOMAIN picked : forwarded[k] < picked[l]
  <2>1. \A l \in DOMAIN picked : \E n \in DOMAIN queue : picked[l] = queue[n]
    BY <1>4
  <2> HIDE DEF picked
  <2> QED BY <2>1 DEF GateInv, QueueInOrder
<1>6. \A k, l \in DOMAIN forwarded : k < l => forwarded[k] < forwarded[l]
  BY DEF GateInv, QueueInOrder
<1> HIDE DEF picked
<1>7. /\ forwarded' \in Seq(1..m)
      /\ \A k, l \in DOMAIN forwarded' : k < l => forwarded'[k] < forwarded'[l]
  <2>1. forwarded' = forwarded \o picked
    BY <1>1 DEF picked
  <2>2. forwarded \o picked \in Seq(1..m)
        /\ \A k, l \in DOMAIN (forwarded \o picked) :
             k < l => (forwarded \o picked)[k] < (forwarded \o picked)[l]
    BY <1>3, <1>4, <1>5, <1>6, JoinedInOrder
  <2> QED BY <2>1, <2>2
<1>8. refused' \subseteq DOMAIN claims
  <2>1. \A n \in DOMAIN queue : queue[n] \in 1..m
    BY <1>3
  <2> QED BY <1>2, <1>3, <2>1
<1>9. \A i \in refused' \ refused :
        ~Proven(claims[i], names) /\ \E n \in DOMAIN queue : i = queue[n]
  BY <1>2
<1> QED BY <1>2, <1>3, <1>7, <1>8, <1>9

\* The verdict on a frame that has just come, number i.
LEMMA GateEffect ==
  ASSUME GateInv, NEW c, NEW i, i = Len(claims) + 1, Gate(i, c)
  PROVE  /\ queue' \in Seq(1..i) /\ forwarded' \in Seq(1..i)
         /\ refused' \subseteq refused \union {i}
         /\ i \in refused' => pending = 0
         /\ QueueInOrder'
         /\ IF queue' = <<>> THEN head' = 0 ELSE head' \in verifying
         /\ \A n \in DOMAIN queue' : \/ n \in DOMAIN queue /\ queue'[n] = queue[n]
                                    \/ queue'[n] = i
         /\ queue # <<>> => head' = head
         /\ queue = <<>> /\ queue' # <<>> => head' = pending
<1>1. /\ Len(claims) \in Nat /\ i \in Nat /\ i \in 1..i
      /\ queue \in Seq(1..Len(claims)) /\ forwarded \in Seq(1..Len(claims))
      /\ refused \subseteq 1..Len(claims)
      /\ pending \in verifying \union {0}
      /\ IF queue = <<>> THEN head = 0 ELSE head \in verifying
  BY DEF GateInv, GateTypeOK
<1>2. /\ queue \in Seq(1..i) /\ forwarded \in Seq(1..i) /\ i \notin refused
      /\ \A n \in DOMAIN queue : queue[n] < i
      /\ \A n \in DOMAIN forwarded : forwarded[n] < i
  BY <1>1
<1>3. ASSUME NEW q \in Seq(1..i)
      PROVE  /\ Append(q, i) \in Seq(1..i) /\ Append(q, i) # <<>>
             /\ DOMAIN Append(q, i) = DOMAIN q \union {Len(q) + 1}
             /\ Append(q, i)[Len(q) + 1] = i
             /\ \A n \in DOMAIN q : Append(q, i)[n] = q[n] /\ n < Len(q) + 1
  <2>1. i \in 1..i /\ Len(q) \in Nat /\ DOMAIN q = 1..Len(q)
    BY <1>1
  <2>2. /\ Append(q, i) \in Seq(1..i) /\ Len(Append(q, i)) = Len(q) + 1
        /\ DOMAIN Append(q, i) = 1..(Len(q) + 1)
        /\ Append(q, i)[Len(q) + 1] = i
        /\ \A n \in 1..Len(q) : Append(q, i)[n] = q[n]
    BY <2>1
  <2>3. Append(q, i) # <<>>
    BY <2>1, <2>2
  <2> QED BY <2>1, <2>2, <2>3
<1>4. CASE Joins(i)
  <2>1. queue' = Append(queue, i) /\ UNCHANGED <<head, forwarded, refused>> /\ queue # <<>>
    BY <1>4 DEF Joins, verdicts
  <2>2. QueueInOrder'
    BY <1>2, <1>3, <2>1 DEF GateInv, QueueInOrder
  <2> QED BY <1>1, <1>2, <1>3, <2>1, <2>2
<1>5. CASE Passes(i, c)
  <2>1. forwarded' = Append(forwarded, i) /\ UNCHANGED <<queue, head, refused>> /\ queue = <<>>
    BY <1>5 DEF Passes
  <2>2. QueueInOrder'
    BY <1>2, <1>3, <2>1 DEF GateInv, QueueInOrder
  <2> QED BY <1>1, <1>2, <1>3, <2>1, <2>2
<1>6. CASE Waits(i, c)
  <2>1. /\ queue' = <<i>> /\ head' = pending /\ UNCHANGED <<forwarded, refused>>
        /\ queue = <<>> /\ pending # 0
    BY <1>6 DEF Waits, verdicts
  <2>2. <<i>> \in Seq(1..i) /\ DOMAIN <<i>> = {1} /\ <<i>>[1] = i /\ <<i>> # <<>>
    BY <1>1
  <2>3. QueueInOrder'
    BY <1>2, <2>1, <2>2 DEF GateInv, QueueInOrder
  <2> QED BY <1>1, <1>2, <2>1, <2>2, <2>3
<1>7. CASE Refused(i, c)
  <2>1. /\ refused' = refused \union {i} /\ pending = 0
        /\ UNCHANGED <<queue, head, forwarded>> /\ queue = <<>>
    BY <1>7 DEF Refused
  <2>2. QueueInOrder'
    BY <2>1 DEF GateInv, QueueInOrder
  <2> QED BY <1>1, <1>2, <2>1, <2>2
<1> QED BY <1>4, <1>5, <1>6, <1>7 DEF Gate
\* A frame: its verdict, and the hellos it came behind.
LEMMA FrameStep ==
  ASSUME GateInv, NEW c \in Addrs \union {Role}, Frame(c)
  PROVE  /\ GateInv'
         /\ \A i \in refused' \ refused : ~crossed => behind'[i] = {}
<1> DEFINE i == Len(claims) + 1
<1>1. /\ Len(claims) \in Nat /\ claims \in Seq(Addrs \union {Role})
      /\ behind \in Seq(SUBSET DOMAIN asks) /\ Len(behind) = Len(claims)
      /\ verifying \in SUBSET DOMAIN asks /\ queue \in Seq(DOMAIN claims)
      /\ MaxFrames \in Nat
  BY GateAssumption DEF GateInv, GateTypeOK, GateAssumption
<1>2. /\ claims' = Append(claims, c) /\ behind' = Append(behind, verifying)
      /\ Len(claims) < MaxFrames
      /\ UNCHANGED <<asks, crossed, verifying, pending, bound>>
  BY DEF Frame
<1>3. /\ claims' \in Seq(Addrs \union {Role}) /\ Len(claims') = i /\ DOMAIN claims' = 1..i
      /\ Len(claims') =< MaxFrames
  BY <1>1, <1>2
<1>4. /\ behind' \in Seq(SUBSET DOMAIN asks') /\ Len(behind') = i
      /\ behind'[i] = verifying /\ \A n \in 1..Len(claims) : behind'[n] = behind[n]
  BY <1>1, <1>2
<1>5. Gate(i, c)
  BY <1>3 DEF Frame
<1> HIDE DEF i
<1>6. /\ queue' \in Seq(1..i) /\ forwarded' \in Seq(1..i)
      /\ refused' \subseteq refused \union {i}
      /\ i \in refused' => pending = 0
      /\ QueueInOrder'
      /\ IF queue' = <<>> THEN head' = 0 ELSE head' \in verifying
      /\ \A n \in DOMAIN queue' : \/ n \in DOMAIN queue /\ queue'[n] = queue[n]
                                 \/ queue'[n] = i
      /\ queue # <<>> => head' = head
      /\ queue = <<>> /\ queue' # <<>> => head' = pending
  BY <1>5, GateEffect DEF i
<1>7. refused' \subseteq 1..i
  BY <1>1, <1>6 DEF GateInv, GateTypeOK, i
<1>8. GateTypeOK'
  BY <1>2, <1>3, <1>4, <1>6, <1>7 DEF GateInv, GateTypeOK
<1>9. Uncrossed'
  <2> SUFFICES ASSUME ~crossed
               PROVE  /\ verifying = {pending} \ {0}
                      /\ \A n \in DOMAIN queue' : behind'[queue'[n]] \subseteq {head'}
    BY <1>2 DEF Uncrossed
  <2>1. verifying = {pending} \ {0}
    BY DEF GateInv, Uncrossed
  <2>2. ASSUME NEW n \in DOMAIN queue' PROVE behind'[queue'[n]] \subseteq {head'}
    <3>1. CASE queue'[n] = i
      <4>1. queue' # <<>>
        BY <1>6, <2>2
      <4>2. head' \in verifying
        BY <1>6, <4>1
      <4> QED BY <1>4, <2>1, <3>1, <4>2
    <3>2. CASE n \in DOMAIN queue /\ queue'[n] = queue[n]
      <4>1. queue # <<>> /\ queue[n] \in 1..Len(claims)
        BY <1>1, <3>2
      <4>2. behind'[queue'[n]] = behind[queue[n]] /\ head' = head
        BY <1>4, <1>6, <3>2, <4>1
      <4> QED BY <3>2, <4>2 DEF GateInv, Uncrossed
    <3> QED BY <1>6, <2>2, <3>1, <3>2
  <2> QED BY <2>1, <2>2
<1>10. \A k \in refused' \ refused : ~crossed => behind'[k] = {}
  BY <1>4, <1>6 DEF GateInv, Uncrossed
<1> QED BY <1>6, <1>8, <1>9, <1>10 DEF GateInv

LEMMA HelloStep ==
  ASSUME GateInv, NEW s \in Souls, Hello(s)
  PROVE  GateInv' /\ refused' = refused
<1> DEFINE h == Len(asks) + 1
<1>1. /\ Len(asks) \in Nat /\ asks \in Seq(Souls) /\ MaxHellos \in Nat
      /\ DOMAIN asks = 1..Len(asks) /\ verifying \subseteq 1..Len(asks)
      /\ behind \in Seq(SUBSET DOMAIN asks)
  BY GateAssumption DEF GateInv, GateTypeOK, GateAssumption
<1>2. /\ asks' = Append(asks, s) /\ Len(asks) < MaxHellos
      /\ crossed' = (crossed \/ verifying # {})
      /\ UNCHANGED <<claims, behind, queue, head, bound, forwarded, refused>>
  BY DEF Hello, verdicts
<1>3. /\ asks' \in Seq(Souls) /\ Len(asks') = h /\ DOMAIN asks' = 1..h
      /\ Len(asks') =< MaxHellos /\ DOMAIN asks \subseteq DOMAIN asks'
  BY <1>1, <1>2
<1>4. verifying' = verifying \union {h} /\ pending' = h /\ h # 0 /\ h \in 1..h
  BY <1>1, <1>3 DEF Hello
<1>5. behind' \in Seq(SUBSET DOMAIN asks')
  <2>1. SUBSET DOMAIN asks \subseteq SUBSET DOMAIN asks'
    BY <1>3
  <2> QED BY <1>1, <1>2, <2>1
<1> HIDE DEF h
<1>6. verifying' \subseteq DOMAIN asks'
  BY <1>1, <1>3, <1>4
<1>7. GateTypeOK'
  BY <1>2, <1>3, <1>4, <1>5, <1>6 DEF GateInv, GateTypeOK
<1>8. QueueInOrder'
  BY <1>2 DEF GateInv, QueueInOrder
<1>9. Uncrossed'
  BY <1>2, <1>4 DEF GateInv, Uncrossed
<1> QED BY <1>2, <1>7, <1>8, <1>9 DEF GateInv

\* The end of a verification: a queue it was awaited for is judged.
LEMMA VerifiedStep ==
  ASSUME GateInv, NEW h \in 1..MaxHellos, NEW good \in BOOLEAN, Verified(h, good)
  PROVE  /\ GateInv'
         /\ \A i \in refused' \ refused :
              /\ ~Proven(claims[i], bound')
              /\ ~crossed => behind[i] \cap verifying' = {}
<1>1. /\ h \in verifying /\ verifying' = verifying \ {h}
      /\ pending' = IF pending = h THEN 0 ELSE pending
      /\ \/ \E n \in 0..MaxSeat : bound' = bound \union {<<asks[h], 0>>, <<asks[h], n>>}
         \/ bound' = bound
      /\ IF head = h THEN Judged(bound') ELSE UNCHANGED <<queue, head, verdicts>>
      /\ UNCHANGED <<claims, asks, behind, crossed>>
  BY DEF Verified, Settled, inputs
<1>2. /\ asks \in Seq(Souls) /\ h \in DOMAIN asks
      /\ \A n \in 0..MaxSeat : <<asks[h], n>> \in Addrs
      /\ 0 \in 0..MaxSeat
  BY <1>1, GateAssumption DEF GateInv, GateTypeOK, GateAssumption, Addrs
<1>3. /\ bound' \subseteq Addrs /\ verifying' \subseteq DOMAIN asks
      /\ pending' \in verifying' \union {0}
  BY <1>1, <1>2 DEF GateInv, GateTypeOK
<1>4. CASE head = h
  <2>1. Judged(bound')
    BY <1>1, <1>4
  <2>2. /\ queue' = <<>> /\ head' = 0
        /\ forwarded' \in Seq(DOMAIN claims)
        /\ \A k, l \in DOMAIN forwarded' : k < l => forwarded'[k] < forwarded'[l]
        /\ refused' \subseteq DOMAIN claims
        /\ \A i \in refused' \ refused :
             /\ ~Proven(claims[i], bound')
             /\ \E n \in DOMAIN queue : i = queue[n]
    BY <2>1, JudgedEffect
  <2>3. queue' \in Seq(DOMAIN claims)
    BY <2>2
  <2>4. GateTypeOK'
    BY <1>1, <1>3, <2>2, <2>3 DEF GateInv, GateTypeOK
  <2>5. QueueInOrder'
    BY <2>2 DEF QueueInOrder
  <2>6. Uncrossed'
    BY <1>1, <2>2 DEF GateInv, Uncrossed
  <2>7. \A i \in refused' \ refused : ~crossed => behind[i] \cap verifying' = {}
    BY <1>1, <1>4, <2>2 DEF GateInv, Uncrossed
  <2> QED BY <2>2, <2>4, <2>5, <2>6, <2>7 DEF GateInv
<1>5. CASE head # h
  <2>1. UNCHANGED <<queue, head, forwarded, refused>>
    BY <1>1, <1>5 DEF verdicts
  <2>2. GateTypeOK'
    BY <1>1, <1>3, <1>5, <2>1 DEF GateInv, GateTypeOK
  <2>3. QueueInOrder'
    BY <2>1 DEF GateInv, QueueInOrder
  <2>4. Uncrossed'
    BY <1>1, <2>1 DEF GateInv, Uncrossed
  <2> QED BY <2>1, <2>2, <2>3, <2>4 DEF GateInv
<1> QED BY <1>4, <1>5

\* Every step keeps the invariant, and refuses a frame only if no hello it came
\* behind is still to tell, and none has told for it.
Unawaited ==
  \A i \in refused' \ refused : \A h \in behind'[i] :
    ~crossed /\ claims'[i] \in Family(asks[h])
      => h \notin verifying' /\ claims'[i] \notin bound'

LEMMA NextGate ==
  ASSUME GateInv, [GateNext]_gateVars
  PROVE  GateInv' /\ Unawaited
<1>1. ASSUME NEW c \in Addrs \union {Role}, Frame(c) PROVE GateInv' /\ Unawaited
  BY <1>1, FrameStep DEF Unawaited
<1>2. ASSUME NEW s \in Souls, Hello(s) PROVE GateInv' /\ Unawaited
  BY <1>2, HelloStep DEF Unawaited
<1>3. ASSUME NEW h \in 1..MaxHellos, NEW good \in BOOLEAN, Verified(h, good)
      PROVE  GateInv' /\ Unawaited
  <2>1. UNCHANGED <<claims, behind, asks>>
    BY <1>3 DEF Verified, inputs
  <2>2. \A k \in DOMAIN asks : Family(asks[k]) \subseteq Addrs
    BY DEF GateInv, GateTypeOK, Family, Addrs
  <2> QED BY <1>3, <2>1, VerifiedStep DEF Unawaited, Proven
<1>4. CASE UNCHANGED gateVars
  <2>1. UNCHANGED <<claims, asks, behind, crossed, verifying, pending, queue, head,
                    bound, forwarded, refused>>
    BY <1>4 DEF gateVars, inputs, verdicts
  <2>2. GateTypeOK'
    BY <2>1 DEF GateInv, GateTypeOK
  <2>3. QueueInOrder' /\ Uncrossed'
    BY <2>1 DEF GateInv, QueueInOrder, Uncrossed
  <2> QED BY <2>1, <2>2, <2>3 DEF GateInv, Unawaited
<1> QED BY <1>1, <1>2, <1>3, <1>4 DEF GateNext

\* The inductive invariant of the from-check.
THEOREM GateInvariant == GateSpec => []GateInv
<1>1. GateInv /\ [GateNext]_gateVars => GateInv'
  BY NextGate
<1> QED BY <1>1, InitGate, PTL DEF GateSpec

\* Type correctness of fromGate; a frame waits only for a hello that is still
\* being verified.
THEOREM GateTypeCorrect == GateSpec => []GateTypeOK
<1>1. GateInv => GateTypeOK
  BY DEF GateInv
<1> QED BY <1>1, GateInvariant, PTL

\* fromGate forwards frames in the order they came, whatever hellos end between.
THEOREM FramesKeepOrder == GateSpec => []OrderIsKept
<1>1. GateInv => OrderIsKept
  <2> SUFFICES ASSUME GateInv, NEW n \in 1..Len(forwarded) - 1
               PROVE  forwarded[n] < forwarded[n + 1]
    BY DEF OrderIsKept
  <2>1. n \in DOMAIN forwarded /\ n + 1 \in DOMAIN forwarded /\ n < n + 1
    BY DEF GateInv, GateTypeOK
  <2> QED BY <2>1 DEF GateInv, QueueInOrder
<1> QED BY <1>1, GateInvariant, PTL

\* handleHello and helloPending: no frame is refused while the hello that would
\* prove it is being verified, nor after it did, unless two hellos cross.
THEOREM HellosAreAwaited == GateSpec => HelloAwaited
<1>1. GateInv /\ [GateNext]_gateVars => [Unawaited]_gateVars
  BY NextGate
<1> QED BY <1>1, GateInvariant, PTL DEF GateSpec, HelloAwaited, Unawaited
=============================================================================
