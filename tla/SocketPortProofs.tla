-------------------------- MODULE SocketPortProofs --------------------------
(***************************************************************************)
(* For every choice of waits, caps and number of troubles: the chains that *)
(* dial never outnumber the blanket re-dials by more than one, both lanes  *)
(* keep their order, and until a blanket re-dial nothing buffered is lost, *)
(* no page strands and the down mark is honest.                            *)
(*                                                                         *)
(* The dials rest on one fact: a port that has marked itself closed has a  *)
(* backoff timer that comes before the closed-too-long rule would, so only *)
(* the blanket rule ever dials beside a timer.                             *)
(***************************************************************************)
EXTENDS SocketPort, FiniteSetTheorems, SequenceTheorems, TLAPS

SocketType == [state : {"dialling", "open", "closing"}, hung : BOOLEAN]

AgeType == [down : Age, closed : Age, dial : Age, rx : Age, probe : Age,
            blanket : Age]

\* The shape of what dials.
DialShape ==
  /\ socks \in [DOMAIN socks -> SocketType] /\ IsFiniteSet(DOMAIN socks)
  /\ timers \in [DOMAIN timers -> 0..BackoffCap] /\ IsFiniteSet(DOMAIN timers)
  /\ tries \in 0..TriesCap /\ blankets \in Nat
  /\ age \in AgeType

\* A port marked closed has a timer that fires before ClosedLimit.
ClosedHasTimer ==
  ~ intentional /\ age.closed # Off =>
    \E s \in DOMAIN timers : timers[s] + age.closed <= BackoffCap

\* Before a blanket re-dial: the current socket, or one timer, or neither.
Alone ==
  blankets = 0 =>
    /\ DOMAIN socks \subseteq {ws}
    /\ \A s \in DOMAIN timers : DOMAIN socks = {} /\ DOMAIN timers = {s}

DialInv == DialShape /\ ClosedHasTimer /\ Alone /\ ChainsBounded /\ DownMarkHonest

-----------------------------------------------------------------------------
\* Lemmas about the helpers.
LEMMA Dropped ==
  ASSUME NEW S, NEW f, f \in [DOMAIN f -> S], NEW s
  PROVE  /\ DOMAIN Drop(f, s) = DOMAIN f \ {s}
         /\ Drop(f, s) \in [DOMAIN Drop(f, s) -> S]
         /\ \A t \in DOMAIN f \ {s} : Drop(f, s)[t] = f[t]
BY DEF Drop

LEMMA DelayBounded == ASSUME NEW t \in 0..TriesCap PROVE Delay(t) \in 0..BackoffCap
<1> DEFINE d == 2^t
<1>1. d \in Nat
  BY SocketAssumption
<1>2. Delay(t) = IF d \div Grain < BackoffCap THEN d \div Grain ELSE BackoffCap
  BY DEF Delay
<1> HIDE DEF d
<1>3. d \div Grain \in Nat
  BY <1>1, SocketAssumption
<1> HIDE <1>1
<1> QED BY <1>2, <1>3, SocketAssumption

LEMMA AgeZeroOff == 0 \in Age /\ Off \in Age
<1>1. AgeCap \in Nat
  BY SocketAssumption
<1> QED BY <1>1 DEF Age

LEMMA MarkedAge == ASSUME NEW a \in Age PROVE Marked(a) \in Age /\ Marked(a) # Off
<1>1. Marked(a) = IF a = Off THEN 0 ELSE a
  BY DEF Marked
<1>2. 0 # Off
  BY DEF Off
<1> QED BY <1>1, <1>2, AgeZeroOff

\* A dial: one socket more, which is the current one.
LEMMA ConnectSound ==
  ASSUME NEW kept, kept \in [DOMAIN kept -> SocketType], IsFiniteSet(DOMAIN kept),
         NEW ages \in AgeType, Connect(kept, ages)
  PROVE  /\ socks' \in [DOMAIN socks' -> SocketType] /\ IsFiniteSet(DOMAIN socks')
         /\ DOMAIN socks' = DOMAIN kept \cup {ws'}
         /\ Cardinality(DOMAIN socks') <= Cardinality(DOMAIN kept) + 1
         /\ ReadyState' = "dialling"
         /\ age' \in AgeType /\ age'.closed = Off /\ age'.down = ages.down
         /\ ws' \in Ids
<1>1. socks' = With(kept, ws', Socket("dialling"))
  BY DEF Connect
<1>2. Socket("dialling") \in SocketType
  BY DEF Socket, SocketType
<1>3. /\ DOMAIN socks' = DOMAIN kept \cup {ws'}
      /\ socks' \in [DOMAIN socks' -> SocketType]
      /\ socks'[ws'] = Socket("dialling")
  <2> DEFINE new == Socket("dialling")
             all == With(kept, ws', new)
  <2> HIDE DEF new
  <2>1. new \in SocketType
    BY <1>2 DEF new
  <2>2. /\ DOMAIN all = DOMAIN kept \cup {ws'}
        /\ all \in [DOMAIN all -> SocketType]
        /\ all[ws'] = new
    BY <2>1 DEF With
  <2>3. socks' = all
    BY <1>1 DEF new
  <2> HIDE DEF all
  <2> QED BY <2>2, <2>3 DEF new
<1>4. /\ IsFiniteSet(DOMAIN socks')
      /\ Cardinality(DOMAIN socks') <= Cardinality(DOMAIN kept) + 1
  <2>1. Cardinality(DOMAIN kept) \in Nat
    BY FS_CardinalityType
  <2>2. /\ IsFiniteSet(DOMAIN kept \cup {ws'})
        /\ Cardinality(DOMAIN kept \cup {ws'}) =
             IF ws' \in DOMAIN kept THEN Cardinality(DOMAIN kept)
             ELSE Cardinality(DOMAIN kept) + 1
    BY FS_AddElement
  <2> QED BY <1>3, <2>1, <2>2
<1>5. ReadyState' = "dialling"
  <2>1. ws' \in DOMAIN socks' /\ socks'[ws'].state = "dialling"
    BY <1>3 DEF Socket
  <2> QED BY <2>1 DEF ReadyState
<1>6. age' = [down |-> ages.down, closed |-> Off, dial |-> 0, rx |-> ages.rx,
              probe |-> ages.probe, blanket |-> ages.blanket]
  BY DEF Connect, AgeType
<1>7. ages.down \in Age /\ ages.rx \in Age /\ ages.probe \in Age /\ ages.blanket \in Age
  BY DEF AgeType
<1>8. age' \in AgeType /\ age'.closed = Off /\ age'.down = ages.down
  BY <1>6, <1>7, AgeZeroOff DEF AgeType
<1>9. ws' \in Ids
  BY DEF Connect, Fresh, Spare
<1> QED BY <1>3, <1>4, <1>5, <1>8, <1>9

-----------------------------------------------------------------------------
\* What the network does to a socket.
LEMMA OpensDial == ASSUME DialInv, NEW s \in Ids, Opens(s) PROVE DialInv'
<1>1. /\ s \in DOMAIN socks /\ socks' = [socks EXCEPT ![s].state = "open"]
      /\ UNCHANGED <<ws, timers, tries, intentional, blankets>>
  BY DEF Opens
<1>2. socks[s] \in SocketType
  BY <1>1 DEF DialInv, DialShape
<1>3. /\ DOMAIN socks' = DOMAIN socks
      /\ socks' \in [DOMAIN socks' -> SocketType]
      /\ socks'[s].state = "open"
  BY <1>1, <1>2 DEF DialInv, DialShape, SocketType
<1>4. age' = [age EXCEPT !.rx = 0, !.probe = Off, !.down = Off]
  BY DEF Opens, Up, Heard
<1>6. age' \in AgeType /\ age'.down = Off /\ age'.closed = age.closed
  BY <1>4, AgeZeroOff DEF DialInv, DialShape, AgeType
<1>7. DialShape'
  BY <1>1, <1>3, <1>6 DEF DialInv, DialShape
<1>8. ClosedHasTimer' /\ Alone' /\ ChainsBounded'
  BY <1>1, <1>3, <1>6 DEF DialInv, ClosedHasTimer, Alone, ChainsBounded, Chains
<1>9. DownMarkHonest'
  <2>1. CASE blankets = 0
    <3>1. s = ws
      BY <1>1, <2>1 DEF DialInv, Alone
    <3>2. ReadyState' = "open"
      BY <1>1, <1>3, <3>1 DEF ReadyState
    <3> QED BY <3>2, <1>6 DEF DownMarkHonest
  <2>2. CASE blankets > 0
    BY <1>1, <2>2 DEF DownMarkHonest
  <2> QED BY <2>1, <2>2 DEF DialInv, DialShape
<1> QED BY <1>7, <1>8, <1>9 DEF DialInv

LEMMA ClosedDial ==
  ASSUME DialInv, NEW s \in Ids, Closed(s)
  PROVE  DialInv'
<1>1. /\ s \in DOMAIN socks /\ socks' = Drop(socks, s)
      /\ UNCHANGED <<ws, intentional, blankets>>
  BY DEF Closed
<1>2. /\ DOMAIN socks' = DOMAIN socks \ {s}
      /\ socks' \in [DOMAIN socks' -> SocketType]
  BY <1>1, Dropped DEF DialInv, DialShape
<1>3. /\ IsFiniteSet(DOMAIN socks')
      /\ Cardinality(DOMAIN socks') = Cardinality(DOMAIN socks) - 1
      /\ Cardinality(DOMAIN socks) \in Nat /\ Cardinality(DOMAIN timers) \in Nat
  BY <1>1, <1>2, FS_RemoveElement, FS_CardinalityType DEF DialInv, DialShape
<1>4. age' = [age EXCEPT !.down = Marked(@), !.closed = 0]
  BY DEF Closed
<1>5. Marked(age.down) \in Age /\ Marked(age.down) # Off /\ 0 \in Age
  BY MarkedAge, AgeZeroOff DEF DialInv, DialShape, AgeType
<1>6. age' \in AgeType /\ age'.down # Off /\ age'.closed = 0
  BY <1>4, <1>5 DEF DialInv, DialShape, AgeType
<1>7. /\ timers' \in [DOMAIN timers' -> 0..BackoffCap] /\ IsFiniteSet(DOMAIN timers')
      /\ Cardinality(DOMAIN timers') <= Cardinality(DOMAIN timers) + 1
      /\ Cardinality(DOMAIN timers') \in Nat
      /\ DOMAIN timers' \subseteq DOMAIN timers \cup {s}
      /\ ~ intentional => s \in DOMAIN timers' /\ timers'[s] <= BackoffCap
      /\ tries' \in 0..TriesCap
  <2>1. CASE intentional
    BY <1>3, <2>1 DEF Closed, DialInv, DialShape
  <2>2. CASE ~ intentional
    <3>1. /\ timers' = With(timers, s, Delay(tries))
          /\ tries' = IF tries < TriesCap THEN tries + 1 ELSE tries
      BY <2>2 DEF Closed
    <3>2. Delay(tries) \in 0..BackoffCap
      BY DelayBounded DEF DialInv, DialShape
    <3>3. /\ DOMAIN timers' = DOMAIN timers \cup {s}
          /\ timers' \in [DOMAIN timers' -> 0..BackoffCap]
          /\ timers'[s] = Delay(tries)
      <4> DEFINE delay == Delay(tries)
                 all == With(timers, s, delay)
      <4> HIDE DEF delay
      <4>1. delay \in 0..BackoffCap /\ timers \in [DOMAIN timers -> 0..BackoffCap]
        BY <3>2 DEF delay, DialInv, DialShape
      <4>2. /\ DOMAIN all = DOMAIN timers \cup {s}
            /\ all \in [DOMAIN all -> 0..BackoffCap]
            /\ all[s] = delay
        BY <4>1 DEF With
      <4>3. timers' = all
        BY <3>1 DEF delay
      <4> HIDE DEF all
      <4> QED BY <4>2, <4>3 DEF delay
    <3>4. /\ IsFiniteSet(DOMAIN timers')
          /\ Cardinality(DOMAIN timers') <= Cardinality(DOMAIN timers) + 1
          /\ Cardinality(DOMAIN timers') \in Nat
      <4>1. IsFiniteSet(DOMAIN timers)
        BY DEF DialInv, DialShape
      <4>2. /\ IsFiniteSet(DOMAIN timers \cup {s})
            /\ Cardinality(DOMAIN timers \cup {s}) =
                 IF s \in DOMAIN timers THEN Cardinality(DOMAIN timers)
                 ELSE Cardinality(DOMAIN timers) + 1
        BY <4>1, FS_AddElement
      <4> QED BY <1>3, <3>3, <4>2
    <3>5. timers'[s] <= BackoffCap
      BY <3>2, <3>3, SocketAssumption
    <3>6. tries' \in 0..TriesCap
      BY <3>1, SocketAssumption DEF DialInv, DialShape
    <3> QED BY <3>3, <3>4, <3>5, <3>6
  <2> QED BY <2>1, <2>2
<1>8. DialShape'
  BY <1>1, <1>2, <1>3, <1>6, <1>7 DEF DialInv, DialShape
<1>9. ClosedHasTimer'
  <2> SUFFICES ASSUME ~ intentional'
               PROVE  \E t \in DOMAIN timers' : timers'[t] + age'.closed <= BackoffCap
    BY DEF ClosedHasTimer
  <2>1. s \in DOMAIN timers' /\ timers'[s] \in 0..BackoffCap
    BY <1>1, <1>7
  <2> QED BY <2>1, <1>6, SocketAssumption
<1>10. Alone'
  BY <1>1, <1>2, <1>7 DEF DialInv, Alone
<1>11. ChainsBounded'
  BY <1>1, <1>3, <1>7 DEF DialInv, DialShape, ChainsBounded, Chains
<1>12. DownMarkHonest'
  <2>1. CASE blankets = 0
    <3>1. DOMAIN socks' = {}
      BY <1>1, <1>2, <2>1 DEF DialInv, Alone
    <3>2. ReadyState' = "closed"
      BY <3>1 DEF ReadyState
    <3> QED BY <3>2, <1>6 DEF DownMarkHonest, IsOpen
  <2>2. CASE blankets > 0
    BY <1>1, <2>2 DEF DownMarkHonest
  <2> QED BY <2>1, <2>2 DEF DialInv, DialShape
<1> QED BY <1>8, <1>9, <1>10, <1>11, <1>12 DEF DialInv

\* Sockets keep their places, and only hang or begin to close.
LEMMA SameSockets ==
  ASSUME DialInv,
         DOMAIN socks' = DOMAIN socks, socks' \in [DOMAIN socks' -> SocketType],
         \A s \in DOMAIN socks : \/ socks'[s].state = socks[s].state
                                 \/ socks'[s].state = "closing",
         UNCHANGED <<ws, timers, blankets>>, tries' \in 0..TriesCap,
         intentional => intentional',
         age' \in AgeType, age'.down = age.down, age'.closed = age.closed
  PROVE  DialInv'
<1>1. DialShape'
  BY DEF DialInv, DialShape
<1>2. ClosedHasTimer'
  BY DEF DialInv, ClosedHasTimer
<1>3. Alone' /\ ChainsBounded'
  BY DEF DialInv, Alone, ChainsBounded, Chains
<1>4. ReadyState' = ReadyState \/ ReadyState' = "closing"
  BY DEF ReadyState
<1>5. DownMarkHonest'
  <2>1. \/ blankets > 0
        \/ /\ ReadyState \in {"dialling", "closed"} => age.down # Off
           /\ ReadyState = "open" => age.down = Off
    BY DEF DialInv, DownMarkHonest, IsOpen
  <2> HIDE DEF DialInv
  <2> QED BY <1>4, <2>1 DEF DownMarkHonest, IsOpen
<1> QED BY <1>1, <1>2, <1>3, <1>5 DEF DialInv

LEMMA HangsDial == ASSUME DialInv, NEW s \in Ids, Hangs(s) PROVE DialInv'
<1>1. /\ s \in DOMAIN socks /\ socks' = [socks EXCEPT ![s].hung = TRUE]
      /\ UNCHANGED <<ws, timers, tries, intentional, age, blankets>>
  BY DEF Hangs
<1>2. /\ DOMAIN socks' = DOMAIN socks /\ socks' \in [DOMAIN socks' -> SocketType]
      /\ \A t \in DOMAIN socks : socks'[t].state = socks[t].state
  <2>1. socks \in [DOMAIN socks -> SocketType]
    BY DEF DialInv, DialShape
  <2>2. socks'[s] = [socks[s] EXCEPT !.hung = TRUE]
    BY <1>1, <2>1
  <2>3. socks'[s] \in SocketType /\ socks'[s].state = socks[s].state
    BY <1>1, <2>1, <2>2 DEF SocketType
  <2> QED BY <1>1, <2>1, <2>3
<1> QED BY <1>1, <1>2, SameSockets DEF DialInv, DialShape

LEMMA ReceiveDial == ASSUME DialInv, NEW s \in Ids, Receive(s) PROVE DialInv'
<1>1. age' = [age EXCEPT !.rx = 0, !.probe = Off]
  BY DEF Receive, Heard
<1>2. age' \in AgeType /\ age'.down = age.down /\ age'.closed = age.closed
  BY <1>1, AgeZeroOff DEF DialInv, DialShape, AgeType
<1>3. UNCHANGED <<socks, ws, timers, tries, intentional, blankets>>
  BY DEF Receive
<1> QED BY <1>2, <1>3, SameSockets DEF DialInv, DialShape

\* close(), reconnect() and rehome().
LEMMA CloseWsDial ==
  ASSUME DialInv, CloseWs, UNCHANGED <<ws, timers, age, blankets>>,
         tries' \in 0..TriesCap, intentional => intentional'
  PROVE  DialInv'
<1>1. socks \in [DOMAIN socks -> SocketType]
  BY DEF DialInv, DialShape
<1>2. CASE ws \in DOMAIN socks
  <2>1. socks' = [socks EXCEPT ![ws].state = "closing"]
    BY <1>2 DEF CloseWs
  <2>2. socks'[ws] = [socks[ws] EXCEPT !.state = "closing"]
    BY <1>1, <1>2, <2>1
  <2>3. socks'[ws] \in SocketType /\ socks'[ws].state = "closing"
    BY <1>1, <1>2, <2>2 DEF SocketType
  <2>4. /\ DOMAIN socks' = DOMAIN socks /\ socks' \in [DOMAIN socks' -> SocketType]
        /\ \A t \in DOMAIN socks : \/ socks'[t].state = socks[t].state
                                   \/ socks'[t].state = "closing"
    BY <1>1, <2>1, <2>3
  <2> QED BY <2>4, SameSockets DEF DialInv, DialShape
<1>3. CASE ws \notin DOMAIN socks
  BY <1>1, <1>3, SameSockets DEF CloseWs, DialInv, DialShape
<1> QED BY <1>2, <1>3

-----------------------------------------------------------------------------
\* The backoff timer: one timer less, one socket more.
LEMMA BackoffDial == ASSUME DialInv, NEW s \in Ids, Backoff(s) PROVE DialInv'
<1>1. /\ s \in DOMAIN timers /\ timers' = Drop(timers, s)
      /\ UNCHANGED <<tries, intentional, blankets>>
  BY DEF Backoff
<1>2. /\ DOMAIN timers' = DOMAIN timers \ {s}
      /\ timers' \in [DOMAIN timers' -> 0..BackoffCap]
  BY <1>1, Dropped DEF DialInv, DialShape
<1>3. /\ IsFiniteSet(DOMAIN timers')
      /\ Cardinality(DOMAIN timers') = Cardinality(DOMAIN timers) - 1
      /\ Cardinality(DOMAIN timers) \in Nat /\ Cardinality(DOMAIN socks) \in Nat
  BY <1>1, <1>2, FS_RemoveElement, FS_CardinalityType DEF DialInv, DialShape
<1>4. CASE intentional
  <2>1. UNCHANGED <<socks, ws, age>>
    BY <1>4 DEF Backoff
  <2>2. DialShape' /\ ClosedHasTimer'
    BY <1>1, <1>2, <1>3, <1>4, <2>1 DEF DialInv, DialShape, ClosedHasTimer
  <2>3. Alone'
    BY <1>1, <1>2, <2>1 DEF DialInv, Alone
  <2>4. ChainsBounded'
    BY <1>1, <1>3, <2>1 DEF DialInv, DialShape, ChainsBounded, Chains
  <2>5. DownMarkHonest'
    BY <1>1, <2>1 DEF DialInv, DownMarkHonest, ReadyState, IsOpen
  <2> QED BY <2>2, <2>3, <2>4, <2>5 DEF DialInv
<1>5. CASE ~ intentional
  <2>1. Connect(socks, age)
    BY <1>5 DEF Backoff
  <2>2. /\ socks' \in [DOMAIN socks' -> SocketType] /\ IsFiniteSet(DOMAIN socks')
        /\ DOMAIN socks' = DOMAIN socks \cup {ws'}
        /\ Cardinality(DOMAIN socks') <= Cardinality(DOMAIN socks) + 1
        /\ ReadyState' = "dialling"
        /\ age' \in AgeType /\ age'.closed = Off /\ age'.down = age.down
    BY <2>1, ConnectSound DEF DialInv, DialShape
  <2>3. DialShape' /\ ClosedHasTimer'
    BY <1>1, <1>2, <1>3, <2>2 DEF DialInv, DialShape, ClosedHasTimer
  <2>4. Cardinality(DOMAIN socks') \in Nat
    BY <2>2, FS_CardinalityType
  <2>5. ChainsBounded'
    BY <1>1, <1>3, <2>2, <2>4 DEF DialInv, DialShape, ChainsBounded, Chains
  <2>6. Alone'
    BY <1>1, <1>2, <2>2 DEF DialInv, Alone
  <2>7. DownMarkHonest'
    <3>1. CASE blankets = 0
      <4>1. DOMAIN socks = {}
        BY <1>1, <3>1 DEF DialInv, Alone
      <4>2. ReadyState = "closed"
        BY <4>1 DEF ReadyState
      <4>3. age.down # Off
        BY <3>1, <4>2 DEF DialInv, DownMarkHonest
      <4> QED BY <2>2, <4>3 DEF DownMarkHonest, IsOpen
    <3>2. CASE blankets > 0
      BY <1>1, <3>2 DEF DownMarkHonest
    <3> QED BY <3>1, <3>2 DEF DialInv, DialShape
  <2> QED BY <2>3, <2>5, <2>6, <2>7 DEF DialInv
<1> QED BY <1>4, <1>5

\* A re-dial in place of the current socket, where no timer is pending; and one
\* that may be beside it, which is counted.
LEMMA RedialDial ==
  ASSUME DialInv, NEW a \in AgeType, Redial(a), ~ intentional,
         UNCHANGED intentional, tries' = tries,
         timers' \in [DOMAIN timers' -> 0..BackoffCap],
         DOMAIN timers' = DOMAIN timers,
         \/ blankets' = blankets + 1
         \/ blankets' = blankets /\ ws \in DOMAIN socks
  PROVE  DialInv'
<1> DEFINE kept == Drop(socks, ws)
           ages == [a EXCEPT !.probe = Off, !.down = Marked(@)]
<1>1. Connect(kept, ages)
  BY DEF Redial
<1>2. Marked(a.down) \in Age /\ Marked(a.down) # Off
  BY MarkedAge DEF AgeType
<1>3. ages \in AgeType /\ ages.down # Off
  BY <1>2, AgeZeroOff DEF AgeType
<1>4. DOMAIN kept = DOMAIN socks \ {ws} /\ kept \in [DOMAIN kept -> SocketType]
  BY Dropped DEF DialInv, DialShape
<1>5. /\ IsFiniteSet(DOMAIN kept)
      /\ Cardinality(DOMAIN kept) = IF ws \in DOMAIN socks
                                    THEN Cardinality(DOMAIN socks) - 1
                                    ELSE Cardinality(DOMAIN socks)
      /\ Cardinality(DOMAIN socks) \in Nat /\ Cardinality(DOMAIN timers) \in Nat
  <2>1. IsFiniteSet(DOMAIN socks) /\ IsFiniteSet(DOMAIN timers)
    BY DEF DialInv, DialShape
  <2>2. /\ IsFiniteSet(DOMAIN socks \ {ws})
        /\ Cardinality(DOMAIN socks \ {ws}) = IF ws \in DOMAIN socks
                                    THEN Cardinality(DOMAIN socks) - 1
                                    ELSE Cardinality(DOMAIN socks)
    BY <2>1, FS_RemoveElement
  <2> HIDE DEF kept
  <2> QED BY <1>4, <2>1, <2>2, FS_CardinalityType
<1> HIDE DEF kept, ages
<1>6. /\ socks' \in [DOMAIN socks' -> SocketType] /\ IsFiniteSet(DOMAIN socks')
      /\ DOMAIN socks' = DOMAIN kept \cup {ws'}
      /\ Cardinality(DOMAIN socks') <= Cardinality(DOMAIN kept) + 1
      /\ ReadyState' = "dialling"
      /\ age' \in AgeType /\ age'.closed = Off /\ age'.down = ages.down
  BY <1>1, <1>3, <1>4, <1>5, ConnectSound
<1>7. Cardinality(DOMAIN socks') \in Nat
  BY <1>6, FS_CardinalityType
<1>8. DialShape' /\ ClosedHasTimer'
  BY <1>6 DEF DialInv, DialShape, ClosedHasTimer
<1>9. Alone'
  <2> SUFFICES ASSUME blankets' = 0
               PROVE  DOMAIN socks' \subseteq {ws'} /\ DOMAIN timers' = {}
    BY DEF Alone
  <2>1. blankets = 0 /\ ws \in DOMAIN socks
    BY DEF DialInv, DialShape
  <2>2. DOMAIN socks \subseteq {ws} /\ DOMAIN timers = {}
    BY <2>1 DEF DialInv, Alone
  <2> QED BY <2>2, <1>4, <1>6
<1>10. ChainsBounded'
  BY <1>5, <1>6, <1>7 DEF DialInv, DialShape, ChainsBounded, Chains
<1>11. DownMarkHonest'
  BY <1>3, <1>6 DEF DownMarkHonest, IsOpen
<1> QED BY <1>8, <1>9, <1>10, <1>11 DEF DialInv

\* A tick ages every mark, and every timer with it.
LEMMA TickDial == ASSUME DialInv, Tick PROVE DialInv'
<1>1. /\ \A s \in DOMAIN timers : timers[s] > 0
      /\ timers' = [s \in DOMAIN timers |-> timers[s] - 1]
      /\ UNCHANGED <<tries, intentional>>
  BY DEF Tick, Settled
<1>2. timers \in [DOMAIN timers -> 0..BackoffCap] /\ BackoffCap \in Nat
  BY SocketAssumption DEF DialInv, DialShape
<1>3. /\ DOMAIN timers' = DOMAIN timers /\ timers' \in [DOMAIN timers' -> 0..BackoffCap]
      /\ \A s \in DOMAIN timers : timers'[s] = timers[s] - 1
  BY <1>1, <1>2
<1>4. /\ Older \in AgeType
      /\ \A k \in {"down", "closed", "dial", "rx", "probe", "blanket"} :
           /\ Older[k] = Off <=> age[k] = Off
           /\ age[k] # Off => Older[k] <= age[k] + 1
  <2>1. age \in AgeType /\ DOMAIN age = {"down", "closed", "dial", "rx", "probe", "blanket"}
    BY DEF DialInv, DialShape, AgeType
  <2>2. \A k \in DOMAIN age : age[k] \in Age
    BY <2>1 DEF AgeType
  <2>3. AgeCap \in Nat
    BY SocketAssumption
  <2>4. \A k \in DOMAIN age :
          /\ Older[k] \in Age /\ (Older[k] = Off <=> age[k] = Off)
          /\ age[k] # Off => Older[k] <= age[k] + 1
    BY <2>2, <2>3 DEF Older, Age, Off
  <2>5. Older = [down |-> Older.down, closed |-> Older.closed, dial |-> Older.dial,
                 rx |-> Older.rx, probe |-> Older.probe, blanket |-> Older.blanket]
    BY <2>1 DEF Older
  <2>6. Older \in AgeType
    BY <2>1, <2>4, <2>5 DEF AgeType
  <2> QED BY <2>1, <2>4, <2>6
<1> DEFINE a == Older
<1> HIDE DEF a
<1>5. /\ a \in AgeType /\ (a.down = Off <=> age.down = Off)
      /\ (a.closed = Off <=> age.closed = Off)
      /\ age.closed # Off => a.closed <= age.closed + 1
  BY <1>4 DEF a
<1>6. CASE ~ intentional /\ Redial([a EXCEPT !.blanket = 0]) /\ blankets' = blankets + 1
  <2>1. [a EXCEPT !.blanket = 0] \in AgeType
    BY <1>5, AgeZeroOff DEF AgeType
  <2> QED BY <1>1, <1>3, <1>6, <2>1, RedialDial
<1>7. CASE /\ ~ intentional /\ Redial(a) /\ UNCHANGED blankets
           /\ StuckDial(a) \/ ClosedTooLong(a) \/ NoAnswer(a)
  <2>1. ~ ClosedTooLong(a)
    <3> SUFFICES ASSUME a.closed > ClosedLimit PROVE FALSE
      BY DEF ClosedTooLong
    <3>1. BackoffCap \in Nat /\ ClosedLimit \in Nat /\ BackoffCap < ClosedLimit
      BY SocketAssumption
    <3>2. age.closed \in Age /\ a.closed \in Age
      BY <1>5 DEF DialInv, DialShape, AgeType
    <3>3. AgeCap \in Nat
      BY SocketAssumption
    <3>4. age.closed # Off
      BY <1>5, <3>1 DEF Off
    <3>5. PICK s \in DOMAIN timers : timers[s] + age.closed <= BackoffCap
      BY <1>7, <3>4 DEF DialInv, ClosedHasTimer
    <3>6. timers[s] \in Nat /\ timers[s] > 0
      BY <1>1, <1>2
    <3>7. age.closed \in Nat /\ a.closed <= age.closed + 1 /\ a.closed \in Int
      BY <1>5, <3>2, <3>3, <3>4 DEF Age, Off
    <3> QED BY <3>1, <3>5, <3>6, <3>7
  <2>2. ws \in DOMAIN socks
    BY <1>7, <2>1 DEF StuckDial, NoAnswer, IsOpen, ReadyState
  <2> QED BY <1>1, <1>3, <1>5, <1>7, <2>2, RedialDial
<1>8. ASSUME age' = [a EXCEPT !.probe = 0] \/ age' = a,
             UNCHANGED <<socks, ws, blankets>>
      PROVE  DialInv'
  <2>1. age' \in AgeType /\ age'.down = a.down /\ age'.closed = a.closed
    BY <1>5, <1>8, AgeZeroOff DEF AgeType
  <2>2. DialShape'
    BY <1>1, <1>3, <1>8, <2>1 DEF DialInv, DialShape
  <2>3. ClosedHasTimer'
    <3> SUFFICES ASSUME ~ intentional', age'.closed # Off
                 PROVE  \E s \in DOMAIN timers' : timers'[s] + age'.closed <= BackoffCap
      BY DEF ClosedHasTimer
    <3>1. PICK s \in DOMAIN timers : timers[s] + age.closed <= BackoffCap
      BY <1>1, <1>5, <2>1 DEF DialInv, ClosedHasTimer
    <3>2. timers[s] \in Int /\ BackoffCap \in Int
      BY <1>2
    <3>3. AgeCap \in Nat /\ age.closed \in Age /\ age'.closed \in Age
      BY <2>1, SocketAssumption DEF DialInv, DialShape, AgeType
    <3>4. age.closed \in Int /\ age'.closed \in Int /\ age'.closed <= age.closed + 1
      BY <1>5, <2>1, <3>3 DEF Age, Off
    <3>5. timers'[s] + age'.closed <= BackoffCap
      BY <1>3, <3>1, <3>2, <3>4
    <3> QED BY <1>3, <3>5
  <2>4. Alone' /\ ChainsBounded'
    BY <1>3, <1>8 DEF DialInv, Alone, ChainsBounded, Chains
  <2>5. DownMarkHonest'
    BY <1>5, <1>8, <2>1 DEF DialInv, DownMarkHonest, ReadyState, IsOpen
  <2> QED BY <2>2, <2>3, <2>4, <2>5 DEF DialInv
<1>9. \/ ~ intentional /\ Redial([a EXCEPT !.blanket = 0]) /\ blankets' = blankets + 1
      \/ /\ ~ intentional /\ Redial(a) /\ UNCHANGED blankets
         /\ StuckDial(a) \/ ClosedTooLong(a) \/ NoAnswer(a)
      \/ /\ age' = [a EXCEPT !.probe = 0] \/ age' = a
         /\ UNCHANGED <<socks, ws, blankets>>
  BY DEF Tick, a
<1> QED BY <1>6, <1>7, <1>8, <1>9

-----------------------------------------------------------------------------
LEMMA InitDial == Init => DialInv
<1> SUFFICES ASSUME Init PROVE DialInv
  OBVIOUS
<1>1. /\ DOMAIN socks = {0} /\ DOMAIN timers = {} /\ ws = 0 /\ tries = 0
      /\ blankets = 0 /\ socks[0].state = "dialling"
  BY DEF Init, Socket
<1>2. socks \in [DOMAIN socks -> SocketType] /\ timers \in [DOMAIN timers -> 0..BackoffCap]
  BY DEF Init, Socket, SocketType
<1>3. age \in AgeType /\ age.closed = Off /\ age.down = 0
  <2>1. AgeCap \in Age
    BY SocketAssumption DEF Age
  <2> QED BY <2>1, AgeZeroOff DEF Init, AgeType
<1>4. /\ IsFiniteSet(DOMAIN socks) /\ Cardinality(DOMAIN socks) = 1
      /\ IsFiniteSet(DOMAIN timers) /\ Cardinality(DOMAIN timers) = 0
  BY <1>1, FS_EmptySet, FS_Singleton
<1>5. DialShape
  BY <1>1, <1>2, <1>3, <1>4, SocketAssumption DEF DialShape
<1>6. ClosedHasTimer /\ Alone
  BY <1>1, <1>3 DEF ClosedHasTimer, Alone
<1>7. ChainsBounded
  BY <1>1, <1>4 DEF ChainsBounded, Chains
<1>8. DownMarkHonest
  BY <1>1, <1>3 DEF DownMarkHonest, ReadyState, IsOpen, Off
<1> QED BY <1>5, <1>6, <1>7, <1>8 DEF DialInv

LEMMA NextDial == DialInv /\ [Next]_vars => DialInv'
<1> SUFFICES ASSUME DialInv, [Next]_vars PROVE DialInv'
  OBVIOUS
<1>1. ASSUME UNCHANGED <<dialVars, blankets>> PROVE DialInv'
  BY <1>1 DEF dialVars, DialInv, DialShape, ClosedHasTimer, Alone, ChainsBounded,
              Chains, DownMarkHonest, ReadyState, IsOpen
<1>2. ASSUME NEW s \in Ids,
             \/ Opens(s) \/ ClosingEnds(s) \/ Breaks(s) \/ Hangs(s) \/ Receive(s)
             \/ Backoff(s)
      PROVE  DialInv'
  BY <1>2, OpensDial, ClosedDial, HangsDial, ReceiveDial, BackoffDial
     DEF ClosingEnds, Breaks
<1>3. CASE ProvedStable
  <2>1. 0 \in 0..TriesCap
    BY SocketAssumption
  <2>2. tries' \in 0..TriesCap /\ UNCHANGED <<socks, ws, timers, intentional, age, blankets>>
    BY <1>3, <2>1 DEF ProvedStable
  <2> QED BY <2>2, SameSockets DEF DialInv, DialShape
<1>4. CASE Pump \/ SendLetter \/ \E behind \in BOOLEAN : SendPage(behind)
  BY <1>1, <1>4 DEF Pump, SendLetter, SendPage, dialVars
<1>5. CASE Tick
  BY <1>5, TickDial
<1>6. CASE Reconnect \/ Rehome \/ CloseForGood
  <2>1. 0 \in 0..TriesCap
    BY SocketAssumption
  <2>2. /\ CloseWs /\ UNCHANGED <<ws, timers, age, blankets>>
        /\ tries' \in 0..TriesCap /\ (intentional => intentional')
    BY <1>6, <2>1 DEF Reconnect, Rehome, CloseForGood, DialInv, DialShape
  <2> QED BY <2>2, CloseWsDial
<1>7. CASE UNCHANGED vars
  BY <1>1, <1>7 DEF vars, dialVars
<1> QED BY <1>2, <1>3, <1>4, <1>5, <1>6, <1>7 DEF Next

\* The dials' invariant.
THEOREM Dials == Spec => []DialInv
BY InitDial, NextDial, PTL DEF Spec

\* Only the blanket rule leaves a second socket behind (Socket_real: onclose,
\* redial).
THEOREM OneChainAndBlankets == Spec => []ChainsBounded
<1>1. DialInv => ChainsBounded
  BY DEF DialInv
<1> QED BY <1>1, Dials, PTL

\* down_since is set exactly while the port is not open, until a blanket
\* re-dial (Socket_real: down_since).
THEOREM DownMark == Spec => []DownMarkHonest
<1>1. DialInv => DownMarkHonest
  BY DEF DialInv
<1> QED BY <1>1, Dials, PTL

-----------------------------------------------------------------------------
\* The lanes.
Framed == [n : Nat, page : BOOLEAN]

\* A queue in order, of frames among the first d sent.
Sound(q, d) ==
  q \in Seq(Framed) /\ Ascending(q) /\ \A i \in DOMAIN q : q[i].n <= d

\* All of q was sent before any of r that is of its lane.
Before(q, r) ==
  \A i \in DOMAIN q, j \in DOMAIN r : q[i].page = r[j].page => q[i].n < r[j].n

AllOf(q, page) == \A i \in DOMAIN q : q[i].page = page

LaneInv ==
  /\ drawn \in Nat
  /\ Sound(handed, drawn) /\ Sound(pending, drawn) /\ Sound(bulk, drawn)
  /\ AllOf(pending, FALSE) /\ AllOf(bulk, TRUE)
  /\ Before(handed, pending) /\ Before(handed, bulk)

LEMMA Joined ==
  ASSUME NEW d \in Nat, NEW q, NEW r, Sound(q, d), Sound(r, d), Before(q, r)
  PROVE  Sound(q \o r, d)
<1>1. q \in Seq(Framed) /\ r \in Seq(Framed)
  BY DEF Sound
<1>2. /\ q \o r \in Seq(Framed) /\ Len(q \o r) = Len(q) + Len(r)
      /\ \A i \in 1..(Len(q) + Len(r)) :
           (q \o r)[i] = IF i <= Len(q) THEN q[i] ELSE r[i - Len(q)]
  BY <1>1
<1> DEFINE all == q \o r
<1>3. all \in Seq(Framed) /\ DOMAIN all = 1..(Len(q) + Len(r))
  BY <1>2
<1> HIDE DEF all
<1>4. \A i \in DOMAIN all : \/ i \in DOMAIN q /\ all[i] = q[i]
                            \/ /\ i > Len(q) /\ i - Len(q) \in DOMAIN r
                               /\ all[i] = r[i - Len(q)]
  BY <1>1, <1>2, <1>3 DEF all
<1>5. \A i \in DOMAIN all : all[i].n <= d
  BY <1>4 DEF Sound
<1>6. ASSUME NEW i \in DOMAIN all, NEW j \in DOMAIN all, i < j,
             all[i].page = all[j].page
      PROVE  all[i].n < all[j].n
  <2>1. CASE j \in DOMAIN q /\ all[j] = q[j]
    <3>1. i \in DOMAIN q /\ all[i] = q[i]
      BY <1>1, <1>3, <1>4, <1>6, <2>1
    <3> QED BY <1>6, <2>1, <3>1 DEF Sound, Ascending
  <2>2. CASE j > Len(q) /\ j - Len(q) \in DOMAIN r /\ all[j] = r[j - Len(q)]
    <3>1. CASE i \in DOMAIN q /\ all[i] = q[i]
      BY <1>6, <2>2, <3>1 DEF Before
    <3>2. CASE i > Len(q) /\ i - Len(q) \in DOMAIN r /\ all[i] = r[i - Len(q)]
      <4>1. i - Len(q) < j - Len(q)
        BY <1>1, <1>3, <1>6
      <4> QED BY <1>6, <2>2, <3>2, <4>1 DEF Sound, Ascending
    <3> QED BY <1>4, <3>1, <3>2
  <2> QED BY <1>4, <2>1, <2>2
<1>7. Ascending(all)
  BY <1>6 DEF Ascending
<1>8. Sound(all, d)
  BY <1>3, <1>5, <1>7 DEF Sound
<1> QED BY <1>8 DEF all

\* A frame just sent goes behind.
LEMMA Behind ==
  ASSUME NEW d \in Nat, NEW q, Sound(q, d), NEW f \in Framed, f.n = d + 1
  PROVE  /\ Sound(Append(q, f), d + 1) /\ DOMAIN Append(q, f) = 1..(Len(q) + 1)
         /\ \A i \in 1..(Len(q) + 1) :
              Append(q, f)[i] = IF i \in DOMAIN q THEN q[i] ELSE f
<1>1. q \in Seq(Framed) /\ Len(q) \in Nat /\ DOMAIN q = 1..Len(q)
  BY DEF Sound
<1> DEFINE all == Append(q, f)
<1>2. all \in Seq(Framed) /\ DOMAIN all = 1..(Len(q) + 1)
  BY <1>1
<1>3. \A i \in 1..(Len(q) + 1) : all[i] = IF i \in DOMAIN q THEN q[i] ELSE f
  BY <1>1
<1> HIDE DEF all
<1>4. \A i \in DOMAIN all : all[i].n <= d + 1
  <2> SUFFICES ASSUME NEW i \in DOMAIN all PROVE all[i].n <= d + 1
    OBVIOUS
  <2>1. CASE i \in DOMAIN q
    <3>1. q[i] \in Framed /\ q[i].n <= d
      BY <1>1, <2>1 DEF Sound
    <3>2. q[i].n \in Nat
      BY <3>1 DEF Framed
    <3> QED BY <1>2, <1>3, <2>1, <3>1, <3>2
  <2>2. CASE i \notin DOMAIN q
    BY <1>2, <1>3, <2>2
  <2> QED BY <2>1, <2>2
<1>5. Ascending(all)
  <2> SUFFICES ASSUME NEW i \in DOMAIN all, NEW j \in DOMAIN all, i < j,
                      all[i].page = all[j].page
               PROVE  all[i].n < all[j].n
    BY DEF Ascending
  <2>1. i \in DOMAIN q /\ all[i] = q[i]
    BY <1>1, <1>2, <1>3
  <2>2. CASE j \in DOMAIN q
    BY <1>2, <1>3, <2>1, <2>2 DEF Sound, Ascending
  <2>3. CASE j \notin DOMAIN q
    <3>1. all[j] = f /\ q[i] \in Framed /\ q[i].n <= d
      BY <1>1, <1>2, <1>3, <2>1, <2>3 DEF Sound
    <3>2. q[i].n \in Nat
      BY <3>1 DEF Framed
    <3> QED BY <2>1, <3>1, <3>2
  <2> QED BY <2>2, <2>3
<1> QED BY <1>2, <1>3, <1>4, <1>5 DEF Sound, all

\* What is left of a queue once some of it has gone from its head.
LEMMA Rest ==
  ASSUME NEW d \in Nat, NEW q, Sound(q, d), NEW n \in 0..Len(q)
  PROVE  LET r == SubSeq(q, n + 1, Len(q))
         IN /\ Sound(r, d)
            /\ \A i \in DOMAIN r : i + n \in DOMAIN q /\ r[i] = q[i + n]
<1>1. q \in Seq(Framed) /\ Len(q) \in Nat /\ DOMAIN q = 1..Len(q)
  BY DEF Sound
<1> DEFINE r == SubSeq(q, n + 1, Len(q))
<1>2. r \in Seq(Framed) /\ \A i \in DOMAIN r : i \in Nat /\ i + n \in DOMAIN q /\ r[i] = q[i + n]
  <2>1. \A i \in (n + 1)..Len(q) : q[i] \in Framed
    BY <1>1
  <2>2. /\ r \in Seq(Framed) /\ Len(r) = IF n + 1 <= Len(q) THEN Len(q) - n ELSE 0
        /\ \A i \in 1..(Len(q) - n) : r[i] = q[i + n]
    <3>1. n + 1 \in Int /\ Len(q) \in Int
      BY <1>1
    <3>2. /\ r \in Seq(Framed)
          /\ Len(r) = IF n + 1 <= Len(q) THEN Len(q) - (n + 1) + 1 ELSE 0
          /\ \A i \in 1..(Len(q) - (n + 1) + 1) : r[i] = q[(n + 1) + i - 1]
      BY <2>1, <3>1, SubSeqProperties
    <3> HIDE DEF r
    <3>3. n \in Int /\ Len(q) - (n + 1) + 1 = Len(q) - n
      BY <1>1
    <3>4. ASSUME NEW i \in 1..(Len(q) - n) PROVE r[i] = q[i + n]
      <4>1. (n + 1) + i - 1 = i + n
        BY <3>3
      <4>2. r[i] = q[(n + 1) + i - 1]
        BY <3>2, <3>3
      <4> QED BY <4>1, <4>2
    <3> QED BY <3>2, <3>3, <3>4
  <2> HIDE DEF r
  <2>3. DOMAIN r = 1..(Len(q) - n) /\ n \in 0..Len(q)
    <3>1. DOMAIN r = 1..Len(r)
      BY <2>2
    <3>2. n \in Nat /\ n <= Len(q)
      BY <1>1
    <3>3. CASE n + 1 <= Len(q)
      BY <1>1, <2>2, <3>1, <3>3
    <3>4. CASE ~ (n + 1 <= Len(q))
      <4>1. Len(r) = 0
        BY <2>2, <3>4
      <4>2. Len(q) = n
        <5> DEFINE m == Len(q)
        <5>1. m \in Nat /\ n \in Nat /\ n <= m /\ ~ (n + 1 <= m)
          BY <1>1, <3>2, <3>4
        <5> HIDE DEF m
        <5>2. m = n
          BY <5>1
        <5> QED BY <5>2 DEF m
      <4>3. n - n = 0
        BY <3>2
      <4> QED BY <3>1, <4>1, <4>2, <4>3
    <3> QED BY <3>3, <3>4
  <2> SUFFICES ASSUME NEW i \in DOMAIN r
               PROVE  i \in Nat /\ i + n \in DOMAIN q /\ r[i] = q[i + n]
    BY <2>2
  <2>4. i \in 1..(Len(q) - n)
    BY <2>3
  <2>5. i \in Nat /\ i + n \in 1..Len(q)
    BY <1>1, <2>4
  <2> QED BY <1>1, <2>2, <2>4, <2>5
<1> HIDE DEF r
<1>3. ASSUME NEW i \in DOMAIN r, NEW j \in DOMAIN r, i < j, r[i].page = r[j].page
      PROVE  r[i].n < r[j].n
  <2>1. n \in Nat
    BY <1>1
  <2>2. i + n < j + n
    BY <1>2, <1>3, <2>1
  <2>3. /\ i + n \in DOMAIN q /\ r[i] = q[i + n]
        /\ j + n \in DOMAIN q /\ r[j] = q[j + n]
    BY <1>2
  <2> QED BY <1>3, <2>2, <2>3 DEF Sound, Ascending
<1>4. Ascending(r) /\ \A i \in DOMAIN r : r[i].n <= d
  BY <1>2, <1>3 DEF Sound, Ascending
<1> QED BY <1>2, <1>4 DEF Sound, r

LEMMA First ==
  ASSUME NEW d \in Nat, NEW q, Sound(q, d), NEW n \in 0..Len(q)
  PROVE  LET r == SubSeq(q, 1, n)
         IN /\ Sound(r, d)
            /\ \A i \in DOMAIN r : i \in 1..n /\ i \in DOMAIN q /\ r[i] = q[i]
<1>1. q \in Seq(Framed) /\ Len(q) \in Nat /\ DOMAIN q = 1..Len(q)
  BY DEF Sound
<1> DEFINE r == SubSeq(q, 1, n)
<1>2. r \in Seq(Framed) /\ \A i \in DOMAIN r : i \in 1..n /\ i \in DOMAIN q /\ r[i] = q[i]
  BY <1>1
<1> HIDE DEF r
<1>3. Ascending(r) /\ \A i \in DOMAIN r : r[i].n <= d
  BY <1>2 DEF Sound, Ascending
<1> QED BY <1>2, <1>3 DEF Sound, r

\* A queue past its cap loses its head.
LEMMA Cut ==
  ASSUME NEW d \in Nat, NEW q, Sound(q, d), NEW cap \in Nat
  PROVE  LET r == Capped(q, cap)
         IN /\ Sound(r, d)
            /\ \A i \in DOMAIN r : \E j \in DOMAIN q : r[i] = q[j]
<1>1. q \in Seq(Framed) /\ Len(q) \in Nat
  BY DEF Sound
<1>2. CASE Len(q) > cap
  <2>1. q # <<>> /\ 1 \in 0..Len(q)
    BY <1>1, <1>2
  <2>2. Tail(q) = SubSeq(q, 2, Len(q))
    BY <1>1, <2>1, TailIsSubSeq
  <2>3. Tail(q) = SubSeq(q, 1 + 1, Len(q))
    BY <2>2
  <2>4. /\ Sound(Tail(q), d)
        /\ \A i \in DOMAIN Tail(q) : i + 1 \in DOMAIN q /\ Tail(q)[i] = q[i + 1]
    <3>1. \A n \in 0..Len(q) :
            /\ Sound(SubSeq(q, n + 1, Len(q)), d)
            /\ \A i \in DOMAIN SubSeq(q, n + 1, Len(q)) :
                 i + n \in DOMAIN q /\ SubSeq(q, n + 1, Len(q))[i] = q[i + n]
      BY Rest
    <3> DEFINE m == 1
    <3>2. m \in 0..Len(q)
      BY <2>1
    <3>3. Tail(q) = SubSeq(q, m + 1, Len(q))
      BY <2>3
    <3> HIDE DEF m
    <3>4. /\ Sound(Tail(q), d)
          /\ \A i \in DOMAIN Tail(q) : i + m \in DOMAIN q /\ Tail(q)[i] = q[i + m]
      BY <3>1, <3>2, <3>3
    <3> QED BY <3>4 DEF m
  <2>5. Capped(q, cap) = Tail(q)
    BY <1>2 DEF Capped
  <2> QED BY <2>4, <2>5
<1>3. CASE ~ (Len(q) > cap)
  BY <1>3 DEF Capped
<1> QED BY <1>2, <1>3

\* What does not touch the lanes, or only empties the one for pages.
LEMMA LanesKept ==
  ASSUME LaneInv, UNCHANGED <<drawn, handed, pending>>,
         bulk' = bulk \/ bulk' = <<>>
  PROVE  LaneInv'
<1>1. CASE bulk' = bulk
  BY <1>1 DEF LaneInv, Sound, AllOf, Before, Ascending
<1>2. CASE bulk' = <<>>
  <2>1. bulk' \in Seq(Framed) /\ DOMAIN bulk' = {}
    BY <1>2
  <2>2. Sound(bulk, drawn)' /\ AllOf(bulk, TRUE)' /\ Before(handed, bulk)'
    BY <2>1 DEF Sound, AllOf, Before, Ascending
  <2>3. Sound(handed, drawn)' /\ Sound(pending, drawn)' /\ AllOf(pending, FALSE)'
        /\ Before(handed, pending)' /\ drawn' \in Nat
    BY DEF LaneInv, Sound, AllOf, Before, Ascending
  <2> QED BY <2>2, <2>3 DEF LaneInv
<1> QED BY <1>1, <1>2

\* onopen: the buffer is written out in order, or thrown away.
LEMMA FlushedLanes ==
  ASSUME LaneInv, Flushed, UNCHANGED <<drawn, bulk>>
  PROVE  LaneInv'
<1>1. /\ pending' = <<>>
      /\ handed' = handed \o pending \/ handed' = handed
  BY DEF Flushed
<1>2. pending' \in Seq(Framed) /\ DOMAIN pending' = {}
  BY <1>1
<1>3. Sound(pending', drawn') /\ AllOf(pending', FALSE) /\ Before(handed', pending')
  BY <1>2 DEF Sound, AllOf, Before, Ascending
<1>4. Sound(bulk', drawn') /\ AllOf(bulk', TRUE) /\ drawn' \in Nat
  BY DEF LaneInv
<1>5. Sound(handed', drawn') /\ Before(handed', bulk')
  <2>1. CASE handed' = handed
    BY <2>1 DEF LaneInv
  <2>2. CASE handed' = handed \o pending
    <3>1. Sound(handed', drawn')
      BY <2>2, Joined DEF LaneInv
    <3>2. \A i \in DOMAIN handed' : \/ i \in DOMAIN handed /\ handed'[i] = handed[i]
                                    \/ handed'[i].page = FALSE
      <4>1. handed \in Seq(Framed) /\ pending \in Seq(Framed)
        BY DEF LaneInv, Sound
      <4>2. \A i \in DOMAIN handed' :
              \/ i \in DOMAIN handed /\ handed'[i] = handed[i]
              \/ /\ i - Len(handed) \in DOMAIN pending
                 /\ handed'[i] = pending[i - Len(handed)]
        BY <4>1, <2>2
      <4> QED BY <4>2 DEF LaneInv, AllOf
    <3>3. Before(handed', bulk')
      BY <3>2 DEF LaneInv, Before, AllOf
    <3> QED BY <3>1, <3>3
  <2> QED BY <1>1, <2>1, <2>2
<1> QED BY <1>3, <1>4, <1>5 DEF LaneInv

\* The pump moves pages from the head of their lane to the wire.
LEMMA PumpLanes == ASSUME LaneInv, Pump PROVE LaneInv'
<1>1. UNCHANGED <<drawn, pending>>
  BY DEF Pump
<1>2. CASE UNCHANGED <<bulk, handed>>
  BY <1>1, <1>2, LanesKept
<1>3. CASE \E n \in 0..Len(bulk) :
             /\ handed' = handed \o SubSeq(bulk, 1, n)
             /\ bulk' = SubSeq(bulk, n + 1, Len(bulk))
  <2>1. PICK n \in 0..Len(bulk) :
             /\ handed' = handed \o SubSeq(bulk, 1, n)
             /\ bulk' = SubSeq(bulk, n + 1, Len(bulk))
    BY <1>3
  <2> DEFINE out == SubSeq(bulk, 1, n)
             left == SubSeq(bulk, n + 1, Len(bulk))
  <2>2. /\ Sound(out, drawn)
        /\ \A i \in DOMAIN out : i \in 1..n /\ i \in DOMAIN bulk /\ out[i] = bulk[i]
    BY First DEF LaneInv
  <2>3. /\ Sound(left, drawn)
        /\ \A i \in DOMAIN left : i + n \in DOMAIN bulk /\ left[i] = bulk[i + n]
    BY Rest DEF LaneInv
  <2>4. handed' = handed \o out /\ bulk' = left
    BY <2>1
  <2> HIDE DEF out, left
  <2>5. n \in Nat
    BY DEF LaneInv, Sound
  <2>6. Before(handed, out) /\ AllOf(out, TRUE) /\ AllOf(left, TRUE)
        /\ Before(handed, left)
    BY <2>2, <2>3 DEF LaneInv, Before, AllOf
  <2>7. Before(out, left)
    <3> SUFFICES ASSUME NEW i \in DOMAIN out, NEW j \in DOMAIN left
                 PROVE  out[i].n < left[j].n
      BY DEF Before
    <3>1. i \in DOMAIN bulk /\ j + n \in DOMAIN bulk /\ i \in 1..n /\ j \in Nat \ {0}
      BY <2>2, <2>3 DEF Sound
    <3>2. i < j + n
      BY <2>5, <3>1
    <3>3. bulk[i].n < bulk[j + n].n
      BY <3>1, <3>2 DEF LaneInv, Sound, Ascending, AllOf
    <3> QED BY <2>2, <2>3, <3>3
  <2>8. Sound(handed', drawn) /\ Sound(bulk', drawn)
    BY <2>2, <2>3, <2>4, <2>6, Joined DEF LaneInv
  <2>9. \A i \in DOMAIN handed' :
          \/ i \in DOMAIN handed /\ handed'[i] = handed[i]
          \/ \E j \in DOMAIN out : handed'[i] = out[j]
    <3>1. handed \in Seq(Framed) /\ out \in Seq(Framed)
      BY <2>2 DEF LaneInv, Sound
    <3> SUFFICES ASSUME NEW i \in DOMAIN handed', i \notin DOMAIN handed
                 PROVE  \E j \in DOMAIN out : handed'[i] = out[j]
      BY <3>1, <2>4
    <3>2. i - Len(handed) \in DOMAIN out /\ handed'[i] = out[i - Len(handed)]
      BY <3>1, <2>4
    <3> QED BY <3>2
  <2>10. Before(handed', bulk')
    <3> SUFFICES ASSUME NEW i \in DOMAIN handed', NEW j \in DOMAIN left,
                        handed'[i].page = left[j].page
                 PROVE  handed'[i].n < left[j].n
      BY <2>4 DEF Before
    <3>1. CASE i \in DOMAIN handed /\ handed'[i] = handed[i]
      BY <3>1, <2>6 DEF Before
    <3>2. CASE \E k \in DOMAIN out : handed'[i] = out[k]
      <4>1. PICK k \in DOMAIN out : handed'[i] = out[k]
        BY <3>2
      <4> QED BY <4>1, <2>7 DEF Before
    <3> QED BY <2>9, <3>1, <3>2
  <2>11. Before(handed', pending)
    BY <2>6, <2>9 DEF LaneInv, Before, AllOf
  <2> QED BY <1>1, <2>4, <2>6, <2>8, <2>10, <2>11 DEF LaneInv
<1> QED BY <1>2, <1>3 DEF Pump

\* Sent frames: a lane that is left alone is sound among one frame more.
LEMMA OneMore ==
  ASSUME NEW d \in Nat, NEW q, Sound(q, d)
  PROVE  Sound(q, d + 1)
<1> SUFFICES ASSUME NEW i \in DOMAIN q PROVE q[i].n <= d + 1
  BY DEF Sound
<1>1. q[i] \in Framed /\ q[i].n <= d
  BY DEF Sound
<1>2. q[i].n \in Nat
  BY <1>1 DEF Framed
<1> QED BY <1>1, <1>2

\* A frame straight to the wire, where none of its lane waits.
LEMMA Straight ==
  ASSUME LaneInv, NEW f \in Framed, f.n = drawn + 1, drawn' = drawn + 1,
         handed' = Append(handed, f), UNCHANGED <<pending, bulk>>,
         \A i \in DOMAIN pending : pending[i].page # f.page,
         \A i \in DOMAIN bulk : bulk[i].page # f.page
  PROVE  LaneInv'
<1>1. /\ Sound(handed', drawn') /\ DOMAIN handed' = 1..(Len(handed) + 1)
      /\ \A i \in 1..(Len(handed) + 1) :
           handed'[i] = IF i \in DOMAIN handed THEN handed[i] ELSE f
  BY Behind DEF LaneInv
<1>2. Before(handed', pending') /\ Before(handed', bulk')
  BY <1>1 DEF LaneInv, Before
<1>3. Sound(pending', drawn') /\ Sound(bulk', drawn') /\ drawn' \in Nat
  BY OneMore DEF LaneInv
<1> QED BY <1>1, <1>2, <1>3 DEF LaneInv

\* A frame behind others that wait, of which the eldest may be dropped.
LEMMA Queued ==
  ASSUME NEW d \in Nat, NEW h, NEW q, Sound(h, d), Sound(q, d), Before(h, q),
         NEW page \in BOOLEAN, AllOf(q, page),
         NEW f \in Framed, f.n = d + 1, f.page = page, NEW cap \in Nat
  PROVE  LET r == Capped(Append(q, f), cap)
         IN Sound(r, d + 1) /\ AllOf(r, page) /\ Before(h, r)
<1> DEFINE all == Append(q, f)
           r == Capped(all, cap)
<1>1. /\ Sound(all, d + 1) /\ DOMAIN all = 1..(Len(q) + 1)
      /\ \A i \in 1..(Len(q) + 1) : all[i] = IF i \in DOMAIN q THEN q[i] ELSE f
  BY Behind
<1> HIDE DEF all
<1>2. /\ Sound(r, d + 1)
      /\ \A i \in DOMAIN r : \E j \in DOMAIN all : r[i] = all[j]
  BY <1>1, Cut
<1> HIDE DEF r
<1>3. \A i \in DOMAIN h : h[i].n < f.n
  <2> SUFFICES ASSUME NEW i \in DOMAIN h PROVE h[i].n < f.n
    OBVIOUS
  <2>1. h[i] \in Framed /\ h[i].n <= d
    BY DEF Sound
  <2>2. h[i].n \in Nat
    BY <2>1 DEF Framed
  <2> QED BY <2>1, <2>2
<1>4. AllOf(all, page) /\ Before(h, all)
  BY <1>1, <1>3 DEF AllOf, Before
<1>5. AllOf(r, page) /\ Before(h, r)
  BY <1>2, <1>4 DEF AllOf, Before
<1> QED BY <1>2, <1>5 DEF r, all

\* Nothing waits for an open socket.
Idle == IsOpen => pending = <<>>

LEMMA SendLetterLanes == ASSUME LaneInv, Idle, SendLetter PROVE LaneInv'
<1> DEFINE f == Letter(drawn')
<1>1. drawn' = drawn + 1 /\ UNCHANGED bulk /\ drawn \in Nat /\ PendingCap \in Nat
  BY SocketAssumption DEF SendLetter, LaneInv
<1>2. f \in Framed /\ f.n = drawn + 1 /\ f.page = FALSE
  BY <1>1 DEF Letter, Framed
<1>3. CASE IsOpen
  <2>1. handed' = Append(handed, f) /\ UNCHANGED pending /\ pending = <<>>
    BY <1>3 DEF SendLetter, Idle
  <2>2. \A i \in DOMAIN pending : pending[i].page # FALSE
    BY <2>1
  <2>3. \A i \in DOMAIN bulk : bulk[i].page # FALSE
    BY DEF LaneInv, AllOf
  <2> HIDE DEF f
  <2> QED BY <1>1, <1>2, <2>1, <2>2, <2>3, Straight
<1>4. CASE ~ IsOpen
  <2>1. pending' = Capped(Append(pending, f), PendingCap) /\ UNCHANGED handed
    BY <1>4 DEF SendLetter
  <2> HIDE DEF f
  <2>2. Sound(pending', drawn + 1) /\ AllOf(pending', FALSE) /\ Before(handed, pending')
    BY <1>1, <1>2, <2>1, Queued DEF LaneInv
  <2>3. Sound(handed', drawn + 1) /\ Sound(bulk', drawn + 1)
    BY <1>1, <2>1, OneMore DEF LaneInv
  <2>4. AllOf(bulk', TRUE) /\ Before(handed', bulk') /\ drawn' \in Nat
    BY <1>1, <2>1 DEF LaneInv, AllOf, Before
  <2> QED BY <1>1, <2>1, <2>2, <2>3, <2>4 DEF LaneInv
<1> QED BY <1>3, <1>4

LEMMA SendPageLanes ==
  ASSUME LaneInv, Idle, NEW behind \in BOOLEAN, SendPage(behind)
  PROVE  LaneInv'
<1> DEFINE f == Page(drawn')
<1>1. drawn' = drawn + 1 /\ UNCHANGED pending /\ drawn \in Nat /\ BulkCap \in Nat
  BY SocketAssumption DEF SendPage, LaneInv
<1>2. f \in Framed /\ f.n = drawn + 1 /\ f.page = TRUE
  BY <1>1 DEF Page, Framed
<1>3. CASE UNCHANGED <<handed, bulk>>
  <2>1. Sound(handed', drawn + 1) /\ Sound(bulk', drawn + 1) /\ Sound(pending', drawn + 1)
    BY <1>1, <1>3, OneMore DEF LaneInv
  <2>2. /\ AllOf(bulk', TRUE) /\ Before(handed', bulk') /\ drawn' \in Nat
        /\ AllOf(pending', FALSE) /\ Before(handed', pending')
    BY <1>1, <1>3 DEF LaneInv, AllOf, Before
  <2> QED BY <1>1, <2>1, <2>2 DEF LaneInv
<1>4. CASE bulk' = Capped(Append(bulk, f), BulkCap) /\ UNCHANGED handed
  <2> HIDE DEF f
  <2>1. Sound(bulk', drawn + 1) /\ AllOf(bulk', TRUE) /\ Before(handed, bulk')
    BY <1>1, <1>2, <1>4, Queued DEF LaneInv
  <2>2. Sound(handed', drawn + 1) /\ Sound(pending', drawn + 1)
    BY <1>1, <1>4, OneMore DEF LaneInv
  <2>3. AllOf(pending', FALSE) /\ Before(handed', pending') /\ drawn' \in Nat
    BY <1>1, <1>4 DEF LaneInv, AllOf, Before
  <2> QED BY <1>1, <1>4, <2>1, <2>2, <2>3 DEF LaneInv
<1>5. CASE IsOpen /\ ~ Queues(behind) /\ handed' = Append(handed, f) /\ UNCHANGED bulk
  <2>1. bulk = <<>>
    BY <1>5 DEF Queues
  <2>2. \A i \in DOMAIN bulk : bulk[i].page # TRUE
    BY <2>1
  <2>3. \A i \in DOMAIN pending : pending[i].page # TRUE
    BY DEF LaneInv, AllOf
  <2> HIDE DEF f
  <2> QED BY <1>1, <1>2, <1>5, <2>2, <2>3, Straight
<1> QED BY <1>3, <1>4, <1>5 DEF SendPage

-----------------------------------------------------------------------------
\* Pages wait only while the socket is open, with a pump on its way, or while
\* it is closing.
Pumped ==
  bulk # <<>> /\ blankets = 0 => (IsOpen /\ armed) \/ ReadyState = "closing"

QueueInv == LaneInv /\ Idle /\ Pumped /\ FlushReachesTheWire

LEMMA OpensQueue == ASSUME DialInv, QueueInv, NEW s \in Ids, Opens(s) PROVE QueueInv'
<1>1. /\ Flushed /\ UNCHANGED <<drawn, bulk, blankets, ws, armed>>
      /\ s \in DOMAIN socks /\ socks[s] = Socket("dialling")
      /\ socks' = [socks EXCEPT ![s].state = "open"]
  BY DEF Opens
<1>2. LaneInv' /\ Idle'
  BY <1>1, FlushedLanes DEF QueueInv, Idle, Flushed
<1>3. CASE blankets = 0
  <2>1. s = ws
    BY <1>1, <1>3 DEF DialInv, Alone
  <2>2. ReadyState = "dialling"
    BY <1>1, <2>1 DEF ReadyState, Socket
  <2>3. bulk = <<>>
    BY <1>3, <2>2 DEF QueueInv, Pumped, IsOpen
  <2>4. socks[s] \in SocketType
    BY <1>1 DEF DialInv, DialShape
  <2>5. socks'[ws].state = "open" /\ ws \in DOMAIN socks'
    BY <1>1, <2>1, <2>4 DEF DialInv, DialShape, SocketType
  <2>6. ReadyState' = "open"
    BY <1>1, <2>5 DEF ReadyState
  <2>7. lost' = lost
    BY <1>1, <2>6 DEF Flushed
  <2> QED BY <1>1, <1>2, <2>3, <2>7 DEF QueueInv, Pumped, FlushReachesTheWire
<1>4. CASE blankets > 0
  BY <1>1, <1>2, <1>4 DEF QueueInv, Pumped, FlushReachesTheWire
<1> QED BY <1>3, <1>4 DEF DialInv, DialShape

\* The lanes keep what they had, and the current socket does not open.
LEMMA QueueKept ==
  ASSUME DialInv, QueueInv, UNCHANGED <<drawn, handed, pending, lost>>,
         blankets' = blankets \/ blankets' = blankets + 1,
         IsOpen' => IsOpen,
         \/ bulk' = <<>>
         \/ UNCHANGED <<bulk, armed, ReadyState>>
         \/ UNCHANGED <<bulk, armed>> /\ (ReadyState' = "closing" \/ bulk = <<>>)
  PROVE  QueueInv'
<1>1. LaneInv'
  BY LanesKept DEF QueueInv
<1>2. Idle'
  BY DEF QueueInv, Idle
<1>3. blankets \in Nat /\ (blankets > 0 => blankets' > 0) /\ (blankets' = 0 => blankets = 0)
  BY DEF DialInv, DialShape
<1>4. FlushReachesTheWire'
  BY <1>3 DEF QueueInv, FlushReachesTheWire
<1>5. Pumped'
  BY <1>3 DEF QueueInv, Pumped, IsOpen
<1> QED BY <1>1, <1>2, <1>4, <1>5 DEF QueueInv

LEMMA NextQueue == DialInv /\ QueueInv /\ [Next]_vars => QueueInv'
<1> SUFFICES ASSUME DialInv, QueueInv, [Next]_vars PROVE QueueInv'
  OBVIOUS
<1>1. ASSUME NEW s \in Ids, Opens(s) PROVE QueueInv'
  BY <1>1, OpensQueue
<1>2. ASSUME NEW s \in Ids, Closed(s) PROVE QueueInv'
  <2>1. DOMAIN socks' = DOMAIN socks \ {s} /\ \A t \in DOMAIN socks' : socks'[t] = socks[t]
    BY <1>2 DEF Closed, Drop
  <2>2. IsOpen' => IsOpen
    BY <1>2, <2>1 DEF Closed, IsOpen, ReadyState
  <2> QED BY <1>2, <2>2, QueueKept DEF Closed
<1>3. ASSUME NEW s \in Ids, Hangs(s) PROVE QueueInv'
  <2>1. socks[s] \in SocketType /\ socks \in [DOMAIN socks -> SocketType]
    BY <1>3 DEF Hangs, DialInv, DialShape
  <2>2. /\ DOMAIN socks' = DOMAIN socks
        /\ \A t \in DOMAIN socks : socks'[t].state = socks[t].state
    BY <1>3, <2>1 DEF Hangs, SocketType
  <2>3. ReadyState' = ReadyState
    BY <1>3, <2>2 DEF Hangs, ReadyState
  <2> QED BY <1>3, <2>3, QueueKept DEF Hangs, laneVars, IsOpen
<1>4. ASSUME NEW s \in Ids, Receive(s) PROVE QueueInv'
  BY <1>4, QueueKept DEF Receive, laneVars, IsOpen, ReadyState
<1>5. ASSUME NEW s \in Ids, Backoff(s) PROVE QueueInv'
  <2>1. CASE intentional
    BY <1>5, <2>1, QueueKept DEF Backoff, laneVars, IsOpen, ReadyState
  <2>2. CASE ~ intentional
    <3>1. ReadyState' = "dialling"
      BY <1>5, <2>2, ConnectSound DEF Backoff, DialInv, DialShape
    <3>2. /\ UNCHANGED <<drawn, handed, pending, lost, bulk, armed, blankets>>
          /\ s \in DOMAIN timers
      BY <1>5 DEF Backoff, laneVars
    <3>3. CASE blankets = 0
      <4>1. ReadyState = "closed"
        BY <3>2, <3>3 DEF DialInv, Alone, ReadyState
      <4>2. bulk = <<>>
        BY <3>3, <4>1 DEF QueueInv, Pumped, IsOpen
      <4> QED BY <3>1, <3>2, <4>2, QueueKept DEF IsOpen
    <3>4. CASE blankets > 0
      <4>1. LaneInv' /\ Idle'
        BY <3>1, <3>2, LanesKept DEF QueueInv, Idle, IsOpen
      <4> QED BY <3>2, <3>4, <4>1 DEF QueueInv, Pumped, FlushReachesTheWire
    <3> QED BY <3>3, <3>4 DEF DialInv, DialShape
  <2> QED BY <2>1, <2>2
<1>6. CASE ProvedStable
  BY <1>6, QueueKept DEF ProvedStable, laneVars, IsOpen, ReadyState
<1>7. CASE Pump
  <2>1. LaneInv'
    BY <1>7, PumpLanes DEF QueueInv
  <2>2. UNCHANGED <<pending, lost, blankets, ReadyState>>
    BY <1>7 DEF Pump, dialVars, ReadyState
  <2>3. Idle' /\ FlushReachesTheWire'
    BY <2>2 DEF QueueInv, Idle, FlushReachesTheWire, IsOpen
  <2>4. Pumped'
    <3>1. CASE ~ IsOpen /\ UNCHANGED bulk
      BY <2>2, <3>1 DEF QueueInv, Pumped, IsOpen
    <3>2. CASE IsOpen /\ armed' = (bulk' # <<>>)
      BY <2>2, <3>2 DEF Pumped, IsOpen
    <3> QED BY <1>7, <3>1, <3>2 DEF Pump
  <2> QED BY <2>1, <2>3, <2>4 DEF QueueInv
<1>8. CASE Tick
  <2>1. UNCHANGED <<drawn, handed, pending, lost, armed>>
    BY <1>8 DEF Tick
  <2>2. ASSUME NEW a \in AgeType, Redial(a),
               blankets' = blankets \/ blankets' = blankets + 1
        PROVE  QueueInv'
    <3> DEFINE kept == Drop(socks, ws)
               ages == [a EXCEPT !.probe = Off, !.down = Marked(@)]
    <3>1. Connect(kept, ages) /\ bulk' = <<>>
      BY <2>2 DEF Redial
    <3>2. ws' \in DOMAIN socks' /\ socks'[ws'].state = "dialling"
      BY <3>1 DEF Connect, With, Socket
    <3>3. ReadyState' = "dialling"
      BY <3>2 DEF ReadyState
    <3> QED BY <2>1, <2>2, <3>1, <3>3, QueueKept DEF IsOpen
  <2>3. ASSUME UNCHANGED <<socks, ws, bulk, blankets>> PROVE QueueInv'
    BY <2>1, <2>3, QueueKept DEF IsOpen, ReadyState
  <2>4. Older \in AgeType /\ [Older EXCEPT !.blanket = 0] \in AgeType
    <3>1. age \in AgeType /\ AgeCap \in Nat
      BY SocketAssumption DEF DialInv, DialShape
    <3>2. DOMAIN age = {"down", "closed", "dial", "rx", "probe", "blanket"}
      BY <3>1 DEF AgeType
    <3>3. \A k \in DOMAIN age : age[k] \in Age
      BY <3>1, <3>2 DEF AgeType
    <3>4. \A k \in DOMAIN age : Older[k] \in Age
      BY <3>1, <3>3 DEF Older, Age, Off
    <3>5. Older = [down |-> Older.down, closed |-> Older.closed, dial |-> Older.dial,
                   rx |-> Older.rx, probe |-> Older.probe, blanket |-> Older.blanket]
      BY <3>2 DEF Older
    <3>6. Older \in AgeType
      BY <3>2, <3>4, <3>5 DEF AgeType
    <3> HIDE DEF Older
    <3> QED BY <3>6, AgeZeroOff DEF AgeType
  <2>5. \/ Redial([Older EXCEPT !.blanket = 0]) /\ blankets' = blankets + 1
        \/ Redial(Older) /\ blankets' = blankets
        \/ UNCHANGED <<socks, ws, bulk, blankets>>
    BY <1>8 DEF Tick
  <2> QED BY <2>2, <2>3, <2>4, <2>5
<1>9. CASE Reconnect \/ Rehome \/ CloseForGood
  <2>1. CloseWs /\ UNCHANGED <<ws, laneVars, blankets>>
    BY <1>9 DEF Reconnect, Rehome, CloseForGood
  <2>2. CASE ws \in DOMAIN socks
    <3>1. socks' = [socks EXCEPT ![ws].state = "closing"] /\ socks[ws] \in SocketType
      BY <2>1, <2>2 DEF CloseWs, DialInv, DialShape
    <3>2. ws' \in DOMAIN socks' /\ socks'[ws'].state = "closing"
      BY <2>1, <2>2, <3>1 DEF SocketType
    <3>3. ReadyState' = "closing"
      BY <3>2 DEF ReadyState
    <3> QED BY <2>1, <3>3, QueueKept DEF laneVars, IsOpen
  <2>3. CASE ws \notin DOMAIN socks
    <3>1. ReadyState' = ReadyState
      BY <2>1, <2>3 DEF CloseWs, ReadyState
    <3> QED BY <2>1, <3>1, QueueKept DEF laneVars, IsOpen
  <2> QED BY <2>2, <2>3
<1>10. CASE SendLetter
  <2>1. LaneInv'
    BY <1>10, SendLetterLanes DEF QueueInv
  <2>2. /\ UNCHANGED <<bulk, armed, lost, blankets, ReadyState>>
        /\ IsOpen => UNCHANGED pending
    BY <1>10 DEF SendLetter, dialVars, ReadyState
  <2> QED BY <2>1, <2>2 DEF QueueInv, Idle, Pumped, FlushReachesTheWire, IsOpen
<1>11. ASSUME NEW behind \in BOOLEAN, SendPage(behind) PROVE QueueInv'
  <2>1. LaneInv'
    BY <1>11, SendPageLanes DEF QueueInv
  <2>2. /\ UNCHANGED <<pending, lost, blankets, ReadyState>>
        /\ UNCHANGED <<bulk, armed>> \/ (IsOpen /\ armed')
    BY <1>11 DEF SendPage, dialVars, ReadyState
  <2> QED BY <2>1, <2>2 DEF QueueInv, Idle, Pumped, FlushReachesTheWire, IsOpen
<1>12. CASE UNCHANGED vars
  BY <1>12, QueueKept DEF vars, dialVars, laneVars, IsOpen, ReadyState
<1> QED BY <1>1, <1>2, <1>3, <1>4, <1>5, <1>6, <1>7, <1>8, <1>9, <1>10, <1>11, <1>12
        DEF Next, ClosingEnds, Breaks

LEMMA InitQueue == Init => QueueInv
<1> SUFFICES ASSUME Init PROVE QueueInv
  OBVIOUS
<1>1. /\ handed \in Seq(Framed) /\ DOMAIN handed = {} /\ pending = <<>>
      /\ pending \in Seq(Framed) /\ DOMAIN pending = {} /\ bulk = <<>>
      /\ bulk \in Seq(Framed) /\ DOMAIN bulk = {} /\ drawn = 0 /\ lost = {}
  BY DEF Init
<1>2. LaneInv
  BY <1>1 DEF LaneInv, Sound, AllOf, Before, Ascending
<1> QED BY <1>1, <1>2 DEF QueueInv, Idle, Pumped, FlushReachesTheWire

\* The lanes' invariant, beside the dials'.
THEOREM Lanes == Spec => [](DialInv /\ QueueInv)
<1>1. Init => DialInv /\ QueueInv
  BY InitDial, InitQueue
<1>2. DialInv /\ QueueInv /\ [Next]_vars => DialInv' /\ QueueInv'
  BY NextDial, NextQueue
<1> QED BY <1>1, <1>2, PTL DEF Spec

\* Letters reach the wire in the order sent and once each, and so do pages
\* (Socket_real: send, onopen, bulk_pump).
THEOREM LanesKeepOrder == Spec => []LanesInOrder
<1>1. LaneInv => LanesInOrder
  <2> SUFFICES ASSUME LaneInv PROVE LanesInOrder
    OBVIOUS
  <2>1. Sound(handed \o pending, drawn) /\ Sound(handed \o bulk, drawn)
    BY Joined DEF LaneInv
  <2> QED BY <2>1 DEF Sound, LanesInOrder
<1>2. DialInv /\ QueueInv => LanesInOrder
  BY <1>1 DEF QueueInv
<1> QED BY <1>2, Lanes, PTL

\* Until a blanket re-dial no buffered letter is thrown away at a flush, and
\* queued pages of an open socket have a pump on its way (Socket_real: onopen,
\* bulk_pump, onclose).
THEOREM LanesMove == Spec => []NothingStrands
<1>1. QueueInv => FlushReachesTheWire
  BY DEF QueueInv
<1>2. DialInv /\ QueueInv => BulkNeverStrands
  BY DEF QueueInv, Pumped, BulkNeverStrands, DialInv, DialShape, IsOpen
<1>3. DialInv /\ QueueInv => NothingStrands
  BY <1>1, <1>2 DEF NothingStrands
<1> QED BY <1>3, Lanes, PTL

-----------------------------------------------------------------------------
\* The shapes that are left: names, flags, and lanes within their caps.
Named == DOMAIN socks \subseteq Ids /\ DOMAIN timers \subseteq Ids /\ ws \in Ids

Flagged ==
  /\ stable \in (0..StableTicks) \cup {Off}
  /\ intentional \in BOOLEAN /\ armed \in BOOLEAN
  /\ troubles \in 0..MaxTroubles

LaneShape ==
  /\ pending \in Seq(FrameType) /\ Len(pending) <= PendingCap
  /\ bulk \in Seq(FrameType) /\ Len(bulk) <= BulkCap
  /\ handed \in Seq(FrameType) /\ lost \subseteq FrameType
  /\ drawn \in 0..MaxFrames

\* A queue with a cap takes one frame more and stays within it.
LEMMA CappedShape ==
  ASSUME NEW S, NEW q \in Seq(S), NEW f \in S, NEW cap \in Nat, Len(q) <= cap
  PROVE  /\ Capped(Append(q, f), cap) \in Seq(S)
         /\ Len(Capped(Append(q, f), cap)) <= cap
<1> DEFINE all == Append(q, f)
<1>1. all \in Seq(S) /\ Len(all) = Len(q) + 1 /\ Len(q) \in Nat
  OBVIOUS
<1> HIDE DEF all
<1>2. CASE Len(all) > cap
  <2>1. all # <<>> /\ Capped(all, cap) = Tail(all)
    BY <1>1, <1>2 DEF Capped
  <2>2. Tail(all) \in Seq(S) /\ Len(Tail(all)) = Len(all) - 1
    BY <1>1, <2>1
  <2> QED BY <1>1, <2>1, <2>2 DEF all
<1>3. CASE ~ (Len(all) > cap)
  BY <1>1, <1>3 DEF Capped, all
<1> QED BY <1>2, <1>3

LEMMA NextNamed == Named /\ [Next]_vars => Named'
<1> SUFFICES ASSUME Named, [Next]_vars PROVE Named'
  OBVIOUS
<1>1. ASSUME NEW kept, NEW ages, Connect(kept, ages), DOMAIN kept \subseteq Ids,
             DOMAIN timers' \subseteq Ids
      PROVE  Named'
  <2>1. ws' \in Ids /\ socks' = With(kept, ws', Socket("dialling"))
    BY <1>1 DEF Connect, Fresh, Spare
  <2>2. DOMAIN socks' = DOMAIN kept \cup {ws'}
    BY <2>1 DEF With
  <2> QED BY <1>1, <2>1, <2>2 DEF Named
<1>2. ASSUME NEW s \in Ids, Opens(s) \/ Hangs(s) \/ Receive(s) PROVE Named'
  BY <1>2 DEF Opens, Hangs, Receive, Named
<1>3. ASSUME NEW s \in Ids, Closed(s) PROVE Named'
  BY <1>3 DEF Closed, Drop, With, Named
<1>4. ASSUME NEW s \in Ids, Backoff(s) PROVE Named'
  <2>1. DOMAIN timers' \subseteq Ids
    BY <1>4 DEF Backoff, Drop, Named
  <2> QED BY <1>1, <1>4, <2>1 DEF Backoff, Named
<1>5. CASE Tick
  <2>1. DOMAIN timers' = DOMAIN timers
    BY <1>5 DEF Tick
  <2>2. \A a : Redial(a) => Named'
    <3> SUFFICES ASSUME NEW a, Redial(a) PROVE Named'
      OBVIOUS
    <3>1. DOMAIN Drop(socks, ws) \subseteq Ids
      BY DEF Drop, Named
    <3> QED BY <1>1, <2>1, <3>1 DEF Redial, Named
  <2>3. UNCHANGED <<socks, ws>> => Named'
    BY <2>1 DEF Named
  <2> QED BY <1>5, <2>2, <2>3 DEF Tick
<1>6. CASE Reconnect \/ Rehome \/ CloseForGood
  BY <1>6 DEF Reconnect, Rehome, CloseForGood, CloseWs, Named
<1>7. CASE \/ ProvedStable \/ Pump \/ SendLetter
           \/ \E behind \in BOOLEAN : SendPage(behind)
           \/ UNCHANGED vars
  BY <1>7 DEF ProvedStable, Pump, SendLetter, SendPage, vars, dialVars, Named
<1> QED BY <1>2, <1>3, <1>4, <1>5, <1>6, <1>7 DEF Next, ClosingEnds, Breaks

LEMMA NextFlagged == Flagged /\ [Next]_vars => Flagged'
<1> SUFFICES ASSUME Flagged, [Next]_vars PROVE Flagged'
  OBVIOUS
<1>1. StableTicks \in Nat /\ MaxTroubles \in Nat
  BY SocketAssumption
<1>2. ASSUME NEW s \in Ids,
             \/ Opens(s) \/ ClosingEnds(s) \/ Breaks(s) \/ Hangs(s) \/ Receive(s)
             \/ Backoff(s)
      PROVE  Flagged'
  BY <1>1, <1>2 DEF Opens, ClosingEnds, Breaks, Closed, Hangs, Receive, Backoff,
                    Trouble, laneVars, Flagged
<1>3. CASE Tick
  <2>1. stable # 0
    BY <1>3 DEF Tick, Settled
  <2>2. \/ stable' = Off
        \/ stable' = IF stable = Off THEN Off ELSE stable - 1
    BY <1>3 DEF Tick, Redial
  <2>3. UNCHANGED <<intentional, armed, troubles>>
    BY <1>3 DEF Tick
  <2> QED BY <1>1, <2>1, <2>2, <2>3 DEF Flagged, Off
<1>4. CASE Pump
  BY <1>4 DEF Pump, dialVars, Flagged
<1>5. CASE Reconnect \/ Rehome \/ CloseForGood
  <2>1. UNCHANGED <<stable, armed>> /\ troubles < MaxTroubles /\ troubles' = troubles + 1
    BY <1>5 DEF Reconnect, Rehome, CloseForGood, Trouble, laneVars
  <2>2. troubles' \in 0..MaxTroubles
    BY <1>1, <2>1 DEF Flagged
  <2>3. intentional' = intentional \/ intentional' = TRUE
    BY <1>5 DEF Reconnect, Rehome, CloseForGood
  <2> QED BY <2>1, <2>2, <2>3 DEF Flagged
<1>6. CASE SendLetter \/ \E behind \in BOOLEAN : SendPage(behind)
  BY <1>6 DEF SendLetter, SendPage, dialVars, Flagged
<1>7. CASE ProvedStable \/ UNCHANGED vars
  BY <1>7 DEF ProvedStable, vars, dialVars, laneVars, Flagged
<1> QED BY <1>2, <1>3, <1>4, <1>5, <1>6, <1>7 DEF Next

LEMMA NextLaneShape == LaneShape /\ [Next]_vars => LaneShape'
<1> SUFFICES ASSUME LaneShape, [Next]_vars PROVE LaneShape'
  OBVIOUS
<1>1. PendingCap \in Nat /\ BulkCap \in Nat /\ MaxFrames \in Nat
  BY SocketAssumption
<1>2. ASSUME UNCHANGED <<pending, drawn, handed, lost>>, bulk' = bulk \/ bulk' = <<>>
      PROVE  LaneShape'
  <2>1. bulk' \in Seq(FrameType) /\ Len(bulk') <= BulkCap
    <3>1. CASE bulk' = bulk
      BY <3>1 DEF LaneShape
    <3>2. CASE bulk' = <<>>
      <4>1. bulk' \in Seq(FrameType) /\ Len(bulk') = 0
        BY <3>2
      <4> QED BY <1>1, <4>1
    <3> QED BY <1>2, <3>1, <3>2
  <2> QED BY <1>2, <2>1 DEF LaneShape
<1>3. ASSUME NEW s \in Ids, Opens(s) PROVE LaneShape'
  <2>1. /\ Flushed /\ UNCHANGED <<bulk, drawn>>
    BY <1>3 DEF Opens
  <2>2. pending' \in Seq(FrameType) /\ Len(pending') <= PendingCap
    BY <1>1, <2>1 DEF Flushed
  <2>3. handed' \in Seq(FrameType) /\ lost' \subseteq FrameType
    BY <2>1 DEF Flushed, LaneShape
  <2> QED BY <2>1, <2>2, <2>3 DEF LaneShape
<1>4. ASSUME NEW s \in Ids,
             \/ ClosingEnds(s) \/ Breaks(s) \/ Hangs(s) \/ Receive(s) \/ Backoff(s)
      PROVE  LaneShape'
  BY <1>2, <1>4 DEF ClosingEnds, Breaks, Closed, Hangs, Receive, Backoff, laneVars
<1>5. CASE Tick
  BY <1>2, <1>5 DEF Tick, Redial
<1>6. CASE Pump
  <2>1. CASE UNCHANGED <<bulk, handed>>
    BY <1>2, <1>6, <2>1 DEF Pump
  <2>2. CASE \E n \in 0..Len(bulk) :
               /\ handed' = handed \o SubSeq(bulk, 1, n)
               /\ bulk' = SubSeq(bulk, n + 1, Len(bulk))
    <3>1. PICK n \in 0..Len(bulk) :
               /\ handed' = handed \o SubSeq(bulk, 1, n)
               /\ bulk' = SubSeq(bulk, n + 1, Len(bulk))
      BY <2>2
    <3>2. bulk \in Seq(FrameType) /\ Len(bulk) \in Nat /\ n \in Nat /\ n <= Len(bulk)
      BY DEF LaneShape
    <3>3. SubSeq(bulk, 1, n) \in Seq(FrameType)
      BY <3>2
    <3>4. handed' \in Seq(FrameType)
      BY <3>1, <3>3 DEF LaneShape
    <3>5. bulk' \in Seq(FrameType) /\ Len(bulk') <= Len(bulk)
      BY <3>1, <3>2
    <3>6. UNCHANGED <<pending, drawn, lost>>
      BY <1>6 DEF Pump
    <3> QED BY <1>1, <3>2, <3>4, <3>5, <3>6 DEF LaneShape
  <2> QED BY <1>6, <2>1, <2>2 DEF Pump
<1>7. CASE SendLetter
  <2> DEFINE f == Letter(drawn')
  <2>1. drawn' \in 1..MaxFrames /\ UNCHANGED <<bulk, lost>>
    BY <1>1, <1>7 DEF SendLetter, LaneShape
  <2>2. f \in FrameType
    BY <2>1 DEF Letter, FrameType
  <2>3. \/ handed' = Append(handed, f) /\ UNCHANGED pending
        \/ pending' = Capped(Append(pending, f), PendingCap) /\ UNCHANGED handed
    BY <1>7 DEF SendLetter
  <2> HIDE DEF f
  <2>4. /\ pending' \in Seq(FrameType) /\ Len(pending') <= PendingCap
        /\ handed' \in Seq(FrameType)
    <3>1. handed' = Append(handed, f) => handed' \in Seq(FrameType)
      BY <2>2 DEF LaneShape
    <3>2. /\ Capped(Append(pending, f), PendingCap) \in Seq(FrameType)
          /\ Len(Capped(Append(pending, f), PendingCap)) <= PendingCap
      BY <1>1, <2>2, CappedShape DEF LaneShape
    <3> QED BY <2>3, <3>1, <3>2 DEF LaneShape
  <2> QED BY <1>1, <2>1, <2>4 DEF LaneShape
<1>8. ASSUME NEW behind \in BOOLEAN, SendPage(behind) PROVE LaneShape'
  <2> DEFINE f == Page(drawn')
  <2>1. drawn' \in 1..MaxFrames /\ UNCHANGED <<pending, lost>>
    BY <1>1, <1>8 DEF SendPage, LaneShape
  <2>2. f \in FrameType
    BY <2>1 DEF Page, FrameType
  <2>3. \/ UNCHANGED <<handed, bulk>>
        \/ handed' = Append(handed, f) /\ UNCHANGED bulk
        \/ bulk' = Capped(Append(bulk, f), BulkCap) /\ UNCHANGED handed
    BY <1>8 DEF SendPage
  <2> HIDE DEF f
  <2>4. /\ bulk' \in Seq(FrameType) /\ Len(bulk') <= BulkCap
        /\ handed' \in Seq(FrameType)
    <3>1. handed' = Append(handed, f) => handed' \in Seq(FrameType)
      BY <2>2 DEF LaneShape
    <3>2. /\ Capped(Append(bulk, f), BulkCap) \in Seq(FrameType)
          /\ Len(Capped(Append(bulk, f), BulkCap)) <= BulkCap
      BY <1>1, <2>2, CappedShape DEF LaneShape
    <3> QED BY <2>3, <3>1, <3>2 DEF LaneShape
  <2> QED BY <1>1, <2>1, <2>4 DEF LaneShape
<1>9. CASE \/ ProvedStable \/ Reconnect \/ Rehome \/ CloseForGood \/ UNCHANGED vars
  BY <1>2, <1>9 DEF ProvedStable, Reconnect, Rehome, CloseForGood, vars, laneVars
<1> QED BY <1>3, <1>4, <1>5, <1>6, <1>7, <1>8, <1>9 DEF Next

LEMMA InitShape == Init => Named /\ Flagged /\ LaneShape
<1> SUFFICES ASSUME Init PROVE Named /\ Flagged /\ LaneShape
  OBVIOUS
<1>1. 0 \in Ids /\ {PendingCap, BulkCap, MaxFrames, MaxTroubles} \subseteq Nat
  BY SocketAssumption
<1>2. Named
  BY <1>1 DEF Init, Named
<1>3. 0 \in 0..MaxTroubles
  BY <1>1
<1>4. Flagged
  BY <1>3 DEF Init, Flagged
<1>5. LaneShape
  BY <1>1 DEF Init, LaneShape
<1> QED BY <1>2, <1>4, <1>5

\* Every variable keeps to its shape and both lanes to their caps, however many
\* frames are sent while the port is down or behind (Socket_real: send).
THEOREM SocketTypeCorrect == Spec => []TypeOK
<1> DEFINE Inv == DialInv /\ Named /\ Flagged /\ LaneShape
<1>1. Init => Inv
  BY InitDial, InitShape
<1>2. Inv /\ [Next]_vars => Inv'
  BY NextDial, NextNamed, NextFlagged, NextLaneShape
<1>3. Inv => TypeOK
  BY DEF DialInv, DialShape, SocketType, AgeType, Named, Flagged, LaneShape, TypeOK
<1> HIDE DEF Inv
<1> QED BY <1>1, <1>2, <1>3, PTL DEF Spec
=============================================================================
