--------------------------- MODULE WriteSeatProofs ---------------------------
(***************************************************************************)
(* For every set of tabs, with any of them takers, and every number of     *)
(* broken connections and deliberate acts: a tab and the relay agree on    *)
(* the write seat, once nothing is on its way between them (SeatIsAgreed). *)
(*                                                                         *)
(* A tab's %Seat lags behind the relay by what is posted and what is still *)
(* on the wire.  The invariant therefore speaks of what the tab will read  *)
(* once it has heard all of that (Reads): if it will hold, the relay's     *)
(* holder is its socket, or its ask is yet to be heard; if it will not,    *)
(* something will still tell it or ask for it (Awaits).  Where trust is    *)
(* configured, a tab that is not proven has heard nothing about the seat,  *)
(* and its hello is under way.                                             *)
(***************************************************************************)
EXTENDS WriteSeat, TLAPS

Asking == {"ask", "take"}
Bad == {"taken", "lost"}
Heardable == {"ok", "taken", "lost", "free"}

In(m, q) == \E i \in DOMAIN q : q[i] = m

\* A %Seat that says v will say held once all of q is heard.
WillHold(v, q) ==
  \/ \E i \in DOMAIN q : q[i] = "ok" /\ \A j \in DOMAIN q : j > i => q[j] \notin Bad
  \/ v = "held" /\ \A j \in DOMAIN q : q[j] \notin Bad

After(v, q) == IF WillHold(v, q) THEN "held" ELSE "by"

Reads(t) == WillHold(After(view[t], posted[t]), toTab[Cur(t)])

HasAsk(s) == \E m \in Asking : In(m, toRelay[s])

\* Nothing about the seat was heard, or is to be.
Unheard(t) ==
  /\ view[t] = "none"
  /\ \A m \in Bad \cup {"ok"} : ~In(m, posted[t]) /\ ~In(m, toTab[Cur(t)])

Stage(s) == In("hello", toRelay[s]) \/ s \in verifying

\* What will still tell a reader, or ask for it.
Awaits(t) ==
  \/ holder # None /\ Cur(t) \in waiters
  \/ HasAsk(Cur(t))
  \/ In("free", posted[t]) \/ In("free", toTab[Cur(t)])
  \/ Unheard(t) /\ (In("proven", toTab[Cur(t)]) \/ Stage(Cur(t)))

Counts(t) == live[t] /\ st[Cur(t)] = "open" /\ ~Unasked(t)

TabInv(t) == Counts(t) =>
  /\ Reads(t) => holder = Cur(t) \/ (~trust /\ HasAsk(Cur(t)))
  /\ ~Reads(t) => Awaits(t)
  /\ trust /\ Cur(t) \notin proven => Unheard(t) /\ Stage(Cur(t))

\* A tab that does not listen is sent nothing; one that never dialled has heard
\* nothing; a redial follows on a counted cut; who holds the seat is proven.
Deaf == \A s \in Socks : ~Listening(s) => toTab[s] = <<>>
Young == \A t \in Tabs : dials[t] = 0 => view[t] = "none" /\ posted[t] = <<>>
Redialled == \A t \in Tabs :
  IF live[t] /\ st[Cur(t)] = "open" THEN dials[t] <= cuts + 1 ELSE dials[t] <= cuts
HolderProven == trust /\ holder # None => holder \in proven

Book == Deaf /\ Young /\ Redialled /\ HolderProven

SeatInv == TypeOK /\ Book /\ \A t \in Tabs : TabInv(t)

-----------------------------------------------------------------------------
\* What is said of a queue, when it gains a message or loses its first.
Words == {"ok", "taken", "lost", "free", "error", "proven", "ask", "take", "hello"}

LEMMA InQueue ==
  ASSUME NEW q \in Seq(Words), NEW m \in Words, NEW x
  PROVE  /\ ~In(x, <<>>)
         /\ In(x, Append(q, m)) <=> In(x, q) \/ x = m
         /\ q # <<>> => (In(x, q) <=> x = Head(q) \/ In(x, Tail(q)))
<1>1. ~In(x, <<>>)
  BY DEF In
<1>2. In(x, Append(q, m)) <=> In(x, q) \/ x = m
  <2>1. /\ DOMAIN Append(q, m) = 1..(Len(q) + 1) /\ DOMAIN q = 1..Len(q)
        /\ Append(q, m)[Len(q) + 1] = m /\ Len(q) \in Nat
        /\ \A i \in 1..Len(q) : Append(q, m)[i] = q[i]
    OBVIOUS
  <2> QED BY <2>1 DEF In
<1>3. ASSUME q # <<>> PROVE In(x, q) <=> x = Head(q) \/ In(x, Tail(q))
  <2>1. /\ DOMAIN Tail(q) = 1..(Len(q) - 1) /\ DOMAIN q = 1..Len(q)
        /\ Head(q) = q[1] /\ Len(q) \in Nat \ {0}
        /\ \A i \in 1..(Len(q) - 1) : Tail(q)[i] = q[i + 1]
    BY <1>3
  <2>2. ASSUME In(x, q) PROVE x = Head(q) \/ In(x, Tail(q))
    <3>1. PICK i \in 1..Len(q) : q[i] = x
      BY <2>1, <2>2 DEF In
    <3>2. CASE i = 1
      BY <2>1, <3>1, <3>2
    <3>3. CASE i # 1
      <4>1. i - 1 \in 1..(Len(q) - 1) /\ (i - 1) + 1 = i
        BY <2>1, <3>3
      <4> QED BY <2>1, <3>1, <4>1 DEF In
    <3> QED BY <3>2, <3>3
  <2>3. ASSUME x = Head(q) \/ In(x, Tail(q)) PROVE In(x, q)
    BY <2>1, <2>3 DEF In
  <2> QED BY <2>2, <2>3
<1> QED BY <1>1, <1>2, <1>3

LEMMA HoldsNothing == ASSUME NEW v PROVE WillHold(v, <<>>) <=> v = "held"
BY DEF WillHold

LEMMA HoldsAppend ==
  ASSUME NEW v, NEW q \in Seq(Words), NEW m \in Words
  PROVE  /\ m = "ok" => WillHold(v, Append(q, m))
         /\ m \in Bad => ~WillHold(v, Append(q, m))
         /\ m \notin Heardable \/ m = "free" => (WillHold(v, Append(q, m)) <=> WillHold(v, q))
<1>1. /\ DOMAIN Append(q, m) = 1..(Len(q) + 1) /\ DOMAIN q = 1..Len(q)
      /\ Append(q, m)[Len(q) + 1] = m /\ Len(q) \in Nat
      /\ \A i \in 1..Len(q) : Append(q, m)[i] = q[i]
  OBVIOUS
<1>2. m = "ok" => WillHold(v, Append(q, m))
  BY <1>1 DEF WillHold
<1>3. m \in Bad => ~WillHold(v, Append(q, m))
  BY <1>1 DEF WillHold, Bad
<1>4. ASSUME m \notin Heardable \/ m = "free"
      PROVE  WillHold(v, Append(q, m)) <=> WillHold(v, q)
  BY <1>1, <1>4 DEF WillHold, Bad, Heardable
<1> QED BY <1>2, <1>3, <1>4

LEMMA HoldsTail ==
  ASSUME NEW v, NEW q \in Seq(Words), q # <<>>
  PROVE  /\ Head(q) = "ok" => (WillHold(v, q) <=> WillHold("held", Tail(q)))
         /\ Head(q) \in Bad => (WillHold(v, q) <=> WillHold("by", Tail(q)))
         /\ Head(q) \notin Heardable \/ Head(q) = "free"
              => (WillHold(v, q) <=> WillHold(v, Tail(q)))
<1>1. /\ DOMAIN Tail(q) = 1..(Len(q) - 1) /\ DOMAIN q = 1..Len(q)
      /\ Head(q) = q[1] /\ Len(q) \in Nat \ {0}
      /\ \A i \in 1..(Len(q) - 1) : Tail(q)[i] = q[i + 1]
  OBVIOUS
<1>2. \A i \in 2..Len(q) : i - 1 \in 1..(Len(q) - 1) /\ Tail(q)[i - 1] = q[i]
  BY <1>1
<1> DEFINE Clean(i) == q[i] = "ok" /\ \A j \in 1..Len(q) : j > i => q[j] \notin Bad
           CleanT(i) == Tail(q)[i] = "ok"
                          /\ \A j \in 1..(Len(q) - 1) : j > i => Tail(q)[j] \notin Bad
           NoBadT == \A j \in 1..(Len(q) - 1) : Tail(q)[j] \notin Bad
<1>3. \A i \in 1..(Len(q) - 1) : CleanT(i) <=> Clean(i + 1)
  <2> SUFFICES ASSUME NEW i \in 1..(Len(q) - 1) PROVE CleanT(i) <=> Clean(i + 1)
    OBVIOUS
  <2>1. ASSUME CleanT(i) PROVE Clean(i + 1)
    <3>1. ASSUME NEW j \in 1..Len(q), j > i + 1 PROVE q[j] \notin Bad
      <4>1. j - 1 \in 1..(Len(q) - 1) /\ j - 1 > i /\ Tail(q)[j - 1] = q[j]
        BY <1>1, <1>2, <3>1
      <4> QED BY <2>1, <4>1
    <3> QED BY <1>1, <2>1, <3>1
  <2>2. ASSUME Clean(i + 1) PROVE CleanT(i)
    BY <1>1, <2>2
  <2> QED BY <2>1, <2>2
<1>4. NoBadT <=> \A j \in 2..Len(q) : q[j] \notin Bad
  <2>1. ASSUME NoBadT, NEW j \in 2..Len(q) PROVE q[j] \notin Bad
    BY <1>2, <2>1
  <2>2. ASSUME \A j \in 2..Len(q) : q[j] \notin Bad, NEW j \in 1..(Len(q) - 1)
        PROVE  Tail(q)[j] \notin Bad
    BY <1>1, <2>2
  <2> QED BY <2>1, <2>2
<1>5. (\E i \in 1..(Len(q) - 1) : CleanT(i)) <=> (\E i \in 2..Len(q) : Clean(i))
  <2>1. ASSUME NEW i \in 1..(Len(q) - 1), CleanT(i) PROVE \E k \in 2..Len(q) : Clean(k)
    <3>1. i + 1 \in 2..Len(q) /\ Clean(i + 1)
      BY <1>1, <1>3, <2>1
    <3> QED BY <3>1
  <2>2. ASSUME NEW i \in 2..Len(q), Clean(i) PROVE \E k \in 1..(Len(q) - 1) : CleanT(k)
    <3>1. i - 1 \in 1..(Len(q) - 1) /\ (i - 1) + 1 = i
      BY <1>1
    <3>2. CleanT(i - 1)
      BY <1>3, <2>2, <3>1
    <3> QED BY <3>1, <3>2
  <2> QED BY <2>1, <2>2
<1>6. \A u : WillHold(u, Tail(q)) <=> (\E i \in 2..Len(q) : Clean(i)) \/ (u = "held" /\ NoBadT)
  <2> SUFFICES ASSUME NEW u
               PROVE  WillHold(u, Tail(q)) <=>
                        (\E i \in 2..Len(q) : Clean(i)) \/ (u = "held" /\ NoBadT)
    OBVIOUS
  <2>1. WillHold(u, Tail(q)) <=> (\E i \in 1..(Len(q) - 1) : CleanT(i)) \/ (u = "held" /\ NoBadT)
    BY <1>1 DEF WillHold
  <2> QED BY <1>5, <2>1
<1>7. Clean(1) <=> q[1] = "ok" /\ NoBadT
  BY <1>1, <1>4
<1>8. WillHold(v, q) <=> Clean(1) \/ (\E i \in 2..Len(q) : Clean(i))
                           \/ (v = "held" /\ q[1] \notin Bad /\ NoBadT)
  <2>1. (\E i \in 1..Len(q) : Clean(i)) <=> Clean(1) \/ (\E i \in 2..Len(q) : Clean(i))
    <3>1. \A i \in 1..Len(q) : i = 1 \/ i \in 2..Len(q)
      BY <1>1
    <3>2. 1 \in 1..Len(q) /\ \A i \in 2..Len(q) : i \in 1..Len(q)
      BY <1>1
    <3> HIDE DEF Clean
    <3> QED BY <3>1, <3>2
  <2>2. (\A j \in 1..Len(q) : q[j] \notin Bad) <=> q[1] \notin Bad /\ NoBadT
    BY <1>1, <1>4
  <2>3. WillHold(v, q) <=> (\E i \in 1..Len(q) : Clean(i))
                             \/ (v = "held" /\ \A j \in 1..Len(q) : q[j] \notin Bad)
    BY <1>1 DEF WillHold
  <2> QED BY <2>1, <2>2, <2>3
<1> HIDE DEF Clean, NoBadT
<1> QED BY <1>1, <1>6, <1>7, <1>8 DEF Bad, Heardable

\* Who has heard nothing of the seat will not read itself its holder.
LEMMA UnheardReads == ASSUME NEW t, Unheard(t) PROVE ~Reads(t)
<1>1. ~WillHold(view[t], posted[t])
  BY DEF Unheard, In, WillHold
<1>2. After(view[t], posted[t]) = "by"
  BY <1>1 DEF After
<1> QED BY <1>2 DEF Unheard, In, WillHold, Reads

-----------------------------------------------------------------------------
\* Queues hold words, and a tab that is up listens to a socket of the relay.
LEMMA QueueTypes ==
  TypeOK => /\ \A s \in Socks : toRelay[s] \in Seq(Words) /\ toTab[s] \in Seq(Words)
            /\ \A t \in Tabs : posted[t] \in Seq(Words)
            /\ \A t \in Tabs : live[t] => Cur(t) \in Socks /\ Listening(Cur(t))
<1> SUFFICES ASSUME TypeOK
             PROVE  /\ \A s \in Socks : toRelay[s] \in Seq(Words) /\ toTab[s] \in Seq(Words)
                    /\ \A t \in Tabs : posted[t] \in Seq(Words)
                    /\ \A t \in Tabs : live[t] => Cur(t) \in Socks /\ Listening(Cur(t))
  OBVIOUS
<1>1. \A S, q : S \subseteq Words /\ q \in Seq(S) => q \in Seq(Words)
  OBVIOUS
<1>2. /\ {"ask", "take", "hello"} \subseteq Words
      /\ {"ok", "taken", "lost", "free", "error", "proven"} \subseteq Words
      /\ {"ok", "taken", "lost", "free"} \subseteq Words
  BY DEF Words
<1>3. \A s \in Socks : toRelay[s] \in Seq(Words) /\ toTab[s] \in Seq(Words)
  BY <1>1, <1>2 DEF TypeOK
<1>4. \A t \in Tabs : posted[t] \in Seq(Words)
  BY <1>1, <1>2 DEF TypeOK
<1>5. ASSUME NEW t \in Tabs, live[t] PROVE Cur(t) \in Socks /\ Listening(Cur(t))
  <2>1. dials[t] \in 1..(MaxCuts + 1)
    BY <1>5, SeatAssumption DEF TypeOK
  <2> QED BY <1>5, <2>1 DEF Cur, Socks, Listening
<1> QED BY <1>3, <1>4, <1>5

\* A tab that an action of others passes by.
LEMMA Bystander ==
  ASSUME NEW t \in Tabs, TabInv(t), trust' = trust,
         live'[t] = live[t], dials'[t] = dials[t], view'[t] = view[t],
         posted'[t] = posted[t],
         live[t] /\ st'[Cur(t)] = "open" =>
           /\ st[Cur(t)] = "open"
           /\ toTab'[Cur(t)] = toTab[Cur(t)] /\ toRelay'[Cur(t)] = toRelay[Cur(t)]
           /\ holder = Cur(t) => holder' = Cur(t)
           /\ holder # None /\ Cur(t) \in waiters => holder' # None /\ Cur(t) \in waiters'
           /\ Cur(t) \in verifying => Cur(t) \in verifying'
           /\ Cur(t) \in proven => Cur(t) \in proven'
  PROVE  TabInv(t)'
<1> SUFFICES ASSUME Counts(t)'
             PROVE  /\ Reads(t)' => holder' = Cur(t)' \/ (~trust' /\ HasAsk(Cur(t))')
                    /\ ~Reads(t)' => Awaits(t)'
                    /\ trust' /\ Cur(t)' \notin proven' => Unheard(t)' /\ Stage(Cur(t))'
  BY DEF TabInv
<1>1. Cur(t)' = Cur(t)
  BY DEF Cur
<1>2. live[t] /\ st'[Cur(t)] = "open" /\ Counts(t)
  BY <1>1 DEF Counts, Unasked
<1>3. Reads(t)' <=> Reads(t)
  BY <1>1, <1>2 DEF Reads
<1>4. HasAsk(Cur(t))' <=> HasAsk(Cur(t))
  BY <1>1, <1>2 DEF HasAsk
<1>5. Unheard(t)' <=> Unheard(t)
  BY <1>1, <1>2 DEF Unheard
<1>6. Stage(Cur(t)) => Stage(Cur(t))'
  BY <1>1, <1>2 DEF Stage
<1>7. Awaits(t) => Awaits(t)'
  BY <1>1, <1>2, <1>4, <1>5, <1>6 DEF Awaits
<1> QED BY <1>1, <1>2, <1>3, <1>4, <1>5, <1>6, <1>7 DEF TabInv

\* What Sent does to the sockets that count.
LEMMA SentTo ==
  ASSUME TypeOK, NEW S, NEW m
  PROVE  /\ \A t \in Tabs : live[t] =>
              Sent(S, m)[Cur(t)] = IF Cur(t) \in S THEN Append(toTab[Cur(t)], m)
                                   ELSE toTab[Cur(t)]
         /\ \A s \in Socks : ~Listening(s) \/ s \notin S => Sent(S, m)[s] = toTab[s]
         /\ m \in {"ok", "taken", "lost", "free", "error", "proven"} =>
              Sent(S, m) \in [Socks -> Seq({"ok", "taken", "lost", "free", "error", "proven"})]
<1>1. \A s \in Socks : toTab[s] \in Seq({"ok", "taken", "lost", "free", "error", "proven"})
  BY DEF TypeOK
<1> QED BY <1>1, QueueTypes DEF Sent

\* The bookkeeping, where no tab acts and no end closes.
LEMMA BookKept ==
  ASSUME TypeOK, Book, UNCHANGED <<trust, st, tab, cuts>>,
         \A s \in Socks : ~Listening(s) => toTab'[s] = toTab[s],
         HolderProven'
  PROVE  Book'
<1>1. Deaf'
  BY DEF Book, Deaf, Listening, Cur, tab
<1>2. Young' /\ Redialled'
  BY DEF Book, Young, Redialled, Cur, tab
<1> QED BY <1>1, <1>2 DEF Book

\* A socket whose message was heard loses it.
LEMMA HeardQueue ==
  ASSUME TypeOK, NEW s \in Socks, NEW m, Heard(s, m)
  PROVE  /\ st[s] = "open" /\ toRelay[s] # <<>> /\ Head(toRelay[s]) = m
         /\ toRelay'[s] = Tail(toRelay[s])
         /\ \A o \in Socks \ {s} : toRelay'[o] = toRelay[o]
         /\ toRelay' \in [Socks -> Seq({"ask", "take", "hello"})]
         /\ m \in {"ask", "take", "hello"}
         /\ m = "hello" => (HasAsk(s)' <=> HasAsk(s))
         /\ m # "hello" => (In("hello", toRelay[s]) => In("hello", toRelay'[s]))
<1>1. /\ st[s] = "open" /\ toRelay[s] # <<>> /\ Head(toRelay[s]) = m
      /\ toRelay' = [toRelay EXCEPT ![s] = Tail(@)]
  BY DEF Heard
<1>2. /\ toRelay'[s] = Tail(toRelay[s]) /\ \A o \in Socks \ {s} : toRelay'[o] = toRelay[o]
      /\ toRelay' \in [Socks -> Seq({"ask", "take", "hello"})]
      /\ m \in {"ask", "take", "hello"}
  BY <1>1 DEF TypeOK
<1>3. \A x : In(x, toRelay[s]) <=> x = m \/ In(x, Tail(toRelay[s]))
  BY <1>1, QueueTypes, InQueue DEF Words
<1> QED BY <1>1, <1>2, <1>3 DEF HasAsk, Asking

-----------------------------------------------------------------------------
\* The relay's answers.

LEMMA RefusedStep == ASSUME SeatInv, NEW s \in Socks, AskRefused(s) PROVE SeatInv'
<1>1. PICK m \in {"ask", "take"} :
        Heard(s, m) /\ ~MayAsk(s) /\ toTab' = Sent({s}, "error")
          /\ UNCHANGED <<trust, cuts, relay, tab>>
  BY DEF AskRefused
<1>2. TypeOK'
  BY <1>1, HeardQueue, SentTo, QueueTypes DEF SeatInv, TypeOK, relay, tab
<1>3. Book'
  BY <1>1, SentTo, BookKept DEF SeatInv, relay, Book, HolderProven
<1>4. ASSUME NEW t \in Tabs PROVE TabInv(t)'
  <2>0. TabInv(t) /\ Cur(t)' = Cur(t)
    BY <1>1 DEF SeatInv, Cur, tab
  <2>1. CASE live[t] /\ Cur(t) = s
    <3> SUFFICES ASSUME Counts(t)' PROVE TabInv(t)'
      BY DEF TabInv
    <3>1. Counts(t) /\ trust /\ s \notin proven
      BY <1>1, <2>0 DEF Counts, Unasked, relay, tab, MayAsk
    <3>2. Unheard(t) /\ Stage(s)
      BY <2>0, <2>1, <3>1 DEF TabInv
    <3>3. toTab'[s] = Append(toTab[s], "error")
      BY <1>1, <2>1, SentTo DEF SeatInv
    <3>4. \A x \in Bad \cup {"ok"} : ~In(x, toTab'[s])
      BY <2>1, <3>2, <3>3, InQueue, QueueTypes DEF SeatInv, Unheard, Bad, Words
    <3>5. Unheard(t)'
      BY <1>1, <2>0, <2>1, <3>2, <3>4 DEF Unheard, tab
    <3>6. Stage(s)'
      BY <1>1, <3>2, HeardQueue DEF SeatInv, Stage, relay
    <3>7. ~Reads(t)'
      <4>1. ~WillHold(view'[t], posted'[t])
        BY <3>5 DEF Unheard, In, WillHold
      <4> QED BY <4>1, <3>5 DEF Reads, After, Unheard, In, WillHold
    <3> QED BY <2>0, <2>1, <3>5, <3>6, <3>7 DEF TabInv, Awaits
  <2>2. CASE ~(live[t] /\ Cur(t) = s)
    BY <1>1, <2>0, <2>2, HeardQueue, SentTo, QueueTypes, Bystander DEF SeatInv, relay, tab
  <2> QED BY <2>1, <2>2
<1> QED BY <1>2, <1>3, <1>4 DEF SeatInv

LEMMA TakenStep == ASSUME SeatInv, NEW s \in Socks, AskTaken(s) PROVE SeatInv'
<1> USE DEF AskTaken
<1>0. st[s] = "open" /\ holder # None /\ holder # s
  BY HeardQueue DEF LiveHolder, SeatInv
<1>1. TypeOK'
  <2>1. toTab' \in [Socks -> Seq({"ok", "taken", "lost", "free", "error", "proven"})]
    BY SentTo DEF SeatInv
  <2>2. toRelay' \in [Socks -> Seq({"ask", "take", "hello"})]
    BY HeardQueue DEF SeatInv
  <2> QED BY <1>0, <2>1, <2>2 DEF SeatInv, TypeOK, tab
<1>2. Book'
  BY SentTo, BookKept DEF SeatInv, Book, HolderProven
<1>3. ASSUME NEW t \in Tabs PROVE TabInv(t)'
  <2>0. TabInv(t) /\ Cur(t)' = Cur(t)
    BY DEF SeatInv, Cur, tab
  <2>1. CASE live[t] /\ Cur(t) = s
    <3>1. toTab'[s] = Append(toTab[s], "taken")
      BY <2>1, SentTo DEF SeatInv
    <3>2. ~Reads(t)'
      <4>1. "taken" \in Bad /\ "taken" \in Words /\ toTab[s] \in Seq(Words)
        BY QueueTypes DEF SeatInv, Bad, Words
      <4>2. \A v : ~WillHold(v, Append(toTab[s], "taken"))
        BY <4>1, HoldsAppend
      <4> QED BY <2>0, <2>1, <3>1, <4>2 DEF Reads
    <3>3. Awaits(t)'
      BY <1>0, <2>0, <2>1 DEF Awaits
    <3> QED BY <2>0, <2>1, <3>2, <3>3 DEF TabInv, MayAsk
  <2>2. CASE ~(live[t] /\ Cur(t) = s)
    <3>1. live[t] => /\ toTab'[Cur(t)] = toTab[Cur(t)]
                     /\ toRelay'[Cur(t)] = toRelay[Cur(t)]
      BY <2>2, HeardQueue, SentTo, QueueTypes DEF SeatInv
    <3>2. waiters \subseteq waiters'
      OBVIOUS
    <3> QED BY <2>0, <3>1, <3>2, Bystander DEF tab
  <2> QED BY <2>1, <2>2
<1> QED BY <1>1, <1>2, <1>3 DEF SeatInv

LEMMA GrantedStep == ASSUME SeatInv, NEW s \in Socks, AskGranted(s) PROVE SeatInv'
<1>1. PICK m \in {"ask", "take"} :
        /\ Heard(s, m) /\ MayAsk(s) /\ (m = "take" \/ LiveHolder \in {None, s})
        /\ holder' = s /\ waiters' = Waiting(s)
        /\ toTab' = [Sent({LiveHolder} \ {s}, "lost") EXCEPT ![s] = Sent({s}, "ok")[s]]
        /\ UNCHANGED <<trust, cuts, st, verifying, proven, tab>>
  BY DEF AskGranted
<1>2. /\ toTab' \in [Socks -> Seq({"ok", "taken", "lost", "free", "error", "proven"})]
      /\ toTab'[s] = Sent({s}, "ok")[s]
      /\ \A o \in Socks \ {s} : toTab'[o] = Sent({LiveHolder} \ {s}, "lost")[o]
  <2>1. /\ Sent({s}, "ok") \in [Socks -> Seq({"ok", "taken", "lost", "free", "error", "proven"})]
        /\ Sent({LiveHolder} \ {s}, "lost")
             \in [Socks -> Seq({"ok", "taken", "lost", "free", "error", "proven"})]
    BY SentTo DEF SeatInv
  <2> QED BY <1>1, <2>1
<1>3. TypeOK'
  <2>1. LiveHolder \in Socks \cup {None}
    BY DEF SeatInv, TypeOK, LiveHolder
  <2>2. toRelay' \in [Socks -> Seq({"ask", "take", "hello"})]
    BY <1>1, HeardQueue DEF SeatInv
  <2> QED BY <1>1, <1>2, <2>1, <2>2 DEF SeatInv, TypeOK, tab, Waiting
<1>4. Book'
  <2>1. \A o \in Socks : ~Listening(o) => toTab'[o] = toTab[o]
    <3> SUFFICES ASSUME NEW o \in Socks, ~Listening(o) PROVE toTab'[o] = toTab[o]
      OBVIOUS
    <3>1. /\ Sent({s}, "ok")[o] = toTab[o]
          /\ Sent({LiveHolder} \ {s}, "lost")[o] = toTab[o]
      BY SentTo DEF SeatInv
    <3> QED BY <1>2, <3>1
  <2>2. HolderProven'
    BY <1>1 DEF HolderProven, MayAsk
  <2> QED BY <1>1, <2>1, <2>2, BookKept DEF SeatInv
<1>5. ASSUME NEW t \in Tabs PROVE TabInv(t)'
  <2>0. TabInv(t) /\ Cur(t)' = Cur(t)
    BY <1>1 DEF SeatInv, Cur, tab
  <2>1. CASE live[t] /\ Cur(t) = s
    <3>1. toTab'[s] = Append(toTab[s], "ok")
      BY <1>2, <2>1, SentTo DEF SeatInv
    <3>2. Reads(t)'
      BY <2>0, <2>1, <3>1, HoldsAppend, QueueTypes DEF SeatInv, Reads, Words
    <3> QED BY <1>1, <2>0, <2>1, <3>2 DEF TabInv, MayAsk
  <2>2. CASE live[t] /\ Cur(t) # s /\ Cur(t) = LiveHolder
    <3>1. toTab'[Cur(t)] = Append(toTab[Cur(t)], "lost")
      <4>1. Cur(t) \in Socks \ {s} /\ Cur(t) \in {LiveHolder} \ {s}
        BY <2>2, QueueTypes DEF SeatInv
      <4>2. Sent({LiveHolder} \ {s}, "lost")[Cur(t)] = Append(toTab[Cur(t)], "lost")
        BY <2>2, <4>1, SentTo DEF SeatInv
      <4> QED BY <1>2, <4>1, <4>2
    <3>2. ~Reads(t)'
      BY <2>0, <2>2, <3>1, HoldsAppend, QueueTypes DEF SeatInv, Reads, Bad, Words
    <3>3. Cur(t) \in Socks /\ holder = Cur(t)
      BY <2>2, QueueTypes, SeatAssumption DEF SeatInv, LiveHolder
    <3>4. holder' # None /\ Cur(t) \in waiters'
      BY <1>1, <2>2, <3>3, SeatAssumption DEF Waiting
    <3>5. trust => Cur(t) \in proven
      BY <3>3, SeatAssumption DEF SeatInv, Book, HolderProven
    <3> QED BY <1>1, <2>0, <3>2, <3>4, <3>5 DEF TabInv, Awaits
  <2>3. CASE live[t] /\ Cur(t) # s /\ Cur(t) # LiveHolder
    <3>1. Cur(t) \in Socks /\ toTab'[Cur(t)] = toTab[Cur(t)]
      BY <1>2, <2>3, SentTo, QueueTypes DEF SeatInv
    <3>2. st[Cur(t)] = "open" => holder # Cur(t)
      BY <2>3, <3>1, SeatAssumption DEF LiveHolder
    <3>3. holder' # None /\ (Cur(t) \in waiters => Cur(t) \in waiters')
      BY <1>1, <2>3, SeatAssumption DEF Waiting
    <3>4. toRelay'[Cur(t)] = toRelay[Cur(t)]
      BY <1>1, <2>3, <3>1, HeardQueue DEF SeatInv
    <3> QED BY <1>1, <2>0, <3>1, <3>2, <3>3, <3>4, Bystander DEF tab
  <2>4. CASE ~live[t]
    BY <1>1, <2>4 DEF TabInv, Counts, tab
  <2> QED BY <2>1, <2>2, <2>3, <2>4
<1> QED BY <1>3, <1>4, <1>5 DEF SeatInv

LEMMA HelloStep == ASSUME SeatInv, NEW s \in Socks, HelloHeard(s) PROVE SeatInv'
<1> USE DEF HelloHeard
<1>1. TypeOK'
  BY HeardQueue DEF SeatInv, TypeOK, tab
<1>2. Book'
  BY BookKept DEF SeatInv, Book, HolderProven
<1>3. ASSUME NEW t \in Tabs PROVE TabInv(t)'
  <2>0. TabInv(t) /\ Cur(t)' = Cur(t)
    BY DEF SeatInv, Cur, tab
  <2>1. CASE live[t] /\ Cur(t) = s
    <3> SUFFICES ASSUME Counts(t)' PROVE TabInv(t)'
      BY DEF TabInv
    <3>1. Counts(t)
      BY <2>0 DEF Counts, Unasked, tab
    <3>2. (Reads(t)' <=> Reads(t)) /\ (Unheard(t)' <=> Unheard(t))
      BY <2>0 DEF Reads, Unheard, tab
    <3>3. HasAsk(s)' <=> HasAsk(s)
      BY HeardQueue DEF SeatInv
    <3>4. Stage(s)'
      BY DEF Stage
    <3>5. Awaits(t) => Awaits(t)'
      BY <2>0, <2>1, <3>2, <3>3, <3>4 DEF Awaits, tab
    <3> QED BY <2>0, <2>1, <3>1, <3>2, <3>3, <3>4, <3>5 DEF TabInv, HasAsk
  <2>2. CASE ~(live[t] /\ Cur(t) = s)
    BY <2>0, <2>2, HeardQueue, QueueTypes, Bystander DEF SeatInv, tab
  <2> QED BY <2>1, <2>2
<1> QED BY <1>1, <1>2, <1>3 DEF SeatInv

-----------------------------------------------------------------------------
\* A verification that comes back is told to a socket that is open.
LEMMA ProveStep == ASSUME SeatInv, NEW s \in Socks, Prove(s) PROVE SeatInv'
<1>0. /\ verifying' = verifying \ {s} /\ proven' = proven \cup {s}
      /\ UNCHANGED <<trust, cuts, st, holder, waiters, toRelay, tab>>
      /\ toTab' = IF st[s] = "open" THEN Sent({s}, "proven") ELSE toTab
  BY DEF Prove
<1>1. toTab' = toTab \/ toTab' = Sent({s}, "proven")
  BY <1>0
<1>2. TypeOK'
  <2>1. toTab' \in [Socks -> Seq({"ok", "taken", "lost", "free", "error", "proven"})]
    BY <1>1, SentTo DEF SeatInv, TypeOK
  <2> QED BY <1>0, <2>1 DEF SeatInv, TypeOK, tab
<1>3. Book'
  <2>1. \A o \in Socks : ~Listening(o) => toTab'[o] = toTab[o]
    BY <1>1, SentTo DEF SeatInv
  <2>2. HolderProven'
    BY <1>0 DEF SeatInv, Book, HolderProven
  <2> QED BY <1>0, <2>1, <2>2, BookKept DEF SeatInv
<1>4. ASSUME NEW t \in Tabs PROVE TabInv(t)'
  <2>0. TabInv(t) /\ Cur(t)' = Cur(t)
    BY <1>0 DEF SeatInv, Cur, tab
  <2>1. CASE live[t] /\ Cur(t) = s
    <3> SUFFICES ASSUME Counts(t)' PROVE TabInv(t)'
      BY DEF TabInv
    <3>1. Counts(t) /\ st[s] = "open"
      BY <1>0, <2>0, <2>1 DEF Counts, Unasked, tab
    <3>2. toTab'[s] = Append(toTab[s], "proven")
      BY <1>0, <2>1, <3>1, SentTo DEF SeatInv
    <3>3. "proven" \in Words /\ "proven" \notin Heardable /\ toTab[s] \in Seq(Words)
      BY QueueTypes DEF SeatInv, Words, Heardable
    <3>4. \A v : WillHold(v, toTab'[s]) <=> WillHold(v, toTab[s])
      BY <3>2, <3>3, HoldsAppend
    <3>5. \A x : In(x, toTab'[s]) <=> In(x, toTab[s]) \/ x = "proven"
      BY <3>2, <3>3, InQueue
    <3>6. Reads(t)' <=> Reads(t)
      BY <1>0, <2>0, <2>1, <3>4 DEF Reads, tab
    <3>7. Unheard(t)' <=> Unheard(t)
      BY <1>0, <2>0, <2>1, <3>5 DEF Unheard, Bad, tab
    <3>8. Awaits(t) => Awaits(t)'
      BY <1>0, <2>0, <2>1, <3>5, <3>7 DEF Awaits, HasAsk, tab
    <3> QED BY <1>0, <2>0, <2>1, <3>1, <3>6, <3>8 DEF TabInv, HasAsk
  <2>2. CASE ~(live[t] /\ Cur(t) = s)
    <3>1. live[t] => toTab'[Cur(t)] = toTab[Cur(t)]
      BY <1>1, <2>2, SentTo, QueueTypes DEF SeatInv
    <3>2. live[t] => /\ Cur(t) \in verifying => Cur(t) \in verifying'
                     /\ Cur(t) \in proven => Cur(t) \in proven'
      BY <1>0, <2>2
    <3> QED BY <1>0, <2>0, <3>1, <3>2, Bystander DEF tab
  <2> QED BY <2>1, <2>2
<1> QED BY <1>2, <1>3, <1>4 DEF SeatInv

LEMMA RelayClosesStep == ASSUME SeatInv, NEW s \in Socks, RelayCloses(s) PROVE SeatInv'
<1> USE DEF RelayCloses
<1>1. st'[s] = "closing" /\ \A o \in Socks \ {s} : st'[o] = st[o]
  BY DEF SeatInv, TypeOK
<1>2. /\ cuts' \in 0..MaxCuts /\ cuts \in Nat /\ cuts' >= cuts
      /\ Listening(s) => cuts' = cuts + 1
  BY SeatAssumption DEF Cuts, SeatInv, TypeOK
<1>3. TypeOK'
  BY <1>2 DEF SeatInv, TypeOK, tab
<1>4. Book'
  <2>1. Deaf' /\ Young' /\ HolderProven'
    BY DEF SeatInv, Book, Deaf, Young, HolderProven, Listening, Cur, tab
  <2>2. ASSUME NEW t \in Tabs
        PROVE  IF live'[t] /\ st'[Cur(t)'] = "open" THEN dials'[t] <= cuts' + 1
               ELSE dials'[t] <= cuts'
    <3>0. /\ Cur(t)' = Cur(t) /\ live' = live /\ dials' = dials /\ dials[t] \in Nat
          /\ IF live[t] /\ st[Cur(t)] = "open" THEN dials[t] <= cuts + 1
             ELSE dials[t] <= cuts
      BY DEF SeatInv, Book, Redialled, TypeOK, Cur, tab
    <3>1. CASE live[t] /\ Cur(t) = s
      <4>1. Listening(s)
        BY <3>1, QueueTypes DEF SeatInv
      <4> QED BY <1>1, <1>2, <3>0, <3>1, <4>1
    <3>2. CASE live[t] /\ Cur(t) # s
      <4>1. st'[Cur(t)] = st[Cur(t)]
        BY <1>1, <3>2, QueueTypes DEF SeatInv
      <4> QED BY <1>2, <3>0, <3>2, <4>1
    <3>3. CASE ~live[t]
      BY <1>2, <3>0, <3>3
    <3> QED BY <3>1, <3>2, <3>3
  <2> QED BY <2>1, <2>2 DEF Book, Redialled
<1>5. ASSUME NEW t \in Tabs PROVE TabInv(t)'
  <2>1. TabInv(t) /\ Cur(t)' = Cur(t)
    BY DEF SeatInv, Cur, tab
  <2>2. live[t] /\ st'[Cur(t)] = "open" => st[Cur(t)] = "open"
    BY <1>1, QueueTypes DEF SeatInv
  <2> QED BY <2>1, <2>2, Bystander DEF tab
<1> QED BY <1>3, <1>4, <1>5 DEF SeatInv

\* drop(): whoever waits on the socket that goes is told.
LEMMA DropStep == ASSUME SeatInv, NEW s \in Socks, Drop(s) PROVE SeatInv'
<1> DEFINE W == {w \in waiters : st[w] = "open"}
<1>1. /\ st[s] = "closing" /\ st'[s] = "gone" /\ \A o \in Socks \ {s} : st'[o] = st[o]
      /\ st' \in [Socks -> {"new", "open", "closing", "gone"}]
      /\ \A o \in Socks \ {s} : toRelay'[o] = toRelay[o]
      /\ toRelay' \in [Socks -> Seq({"ask", "take", "hello"})]
      /\ verifying' = verifying \ {s} /\ proven' = proven \ {s}
      /\ UNCHANGED <<trust, cuts, tab>>
  BY DEF Drop, SeatInv, TypeOK
<1>2. \/ holder = s /\ holder' = None /\ waiters' = {} /\ toTab' = Sent(W, "free")
      \/ holder # s /\ holder' = holder /\ waiters' = waiters \ {s} /\ toTab' = toTab
  BY DEF Drop, Freed
<1>3. TypeOK'
  <2>1. toTab' \in [Socks -> Seq({"ok", "taken", "lost", "free", "error", "proven"})]
    BY <1>2, SentTo DEF SeatInv, TypeOK
  <2>2. holder' \in Socks \cup {None} /\ waiters' \subseteq Socks \ {holder'}
    BY <1>2 DEF SeatInv, TypeOK
  <2>3. verifying' \subseteq Socks /\ proven' \subseteq Socks
    BY <1>1 DEF SeatInv, TypeOK
  <2> QED BY <1>1, <2>1, <2>2, <2>3 DEF SeatInv, TypeOK, tab
<1>4. Book'
  <2>1. Deaf'
    <3>1. \A o \in Socks : ~Listening(o) => toTab'[o] = toTab[o]
      BY <1>2, SentTo DEF SeatInv
    <3> QED BY <1>1, <3>1 DEF SeatInv, Book, Deaf, Listening, Cur, tab
  <2>2. Young'
    BY <1>1 DEF SeatInv, Book, Young, tab
  <2>3. Redialled'
    <3>1. \A t \in Tabs : live[t] => (st'[Cur(t)] = "open" <=> st[Cur(t)] = "open")
      BY <1>1, QueueTypes DEF SeatInv
    <3>2. \A t \in Tabs : Cur(t)' = Cur(t)
      BY <1>1 DEF Cur, tab
    <3> QED BY <1>1, <3>1, <3>2 DEF SeatInv, Book, Redialled, tab
  <2>4. HolderProven'
    BY <1>1, <1>2 DEF SeatInv, Book, HolderProven
  <2> QED BY <2>1, <2>2, <2>3, <2>4 DEF Book
<1>5. ASSUME NEW t \in Tabs PROVE TabInv(t)'
  <2> SUFFICES ASSUME Counts(t)' PROVE TabInv(t)'
    BY DEF TabInv
  <2>0. TabInv(t) /\ Cur(t)' = Cur(t) /\ live[t]
    BY <1>1 DEF SeatInv, Cur, tab, Counts
  <2>1. Cur(t) \in Socks \ {s} /\ st[Cur(t)] = "open" /\ Counts(t)
    BY <1>1, <2>0, QueueTypes DEF SeatInv, Counts, Unasked, tab
  <2>2. CASE holder = s /\ Cur(t) \in waiters
    <3>1. toTab'[Cur(t)] = Append(toTab[Cur(t)], "free")
      <4>1. Cur(t) \in W /\ toTab' = Sent(W, "free")
        BY <1>2, <2>1, <2>2
      <4> HIDE DEF W
      <4> QED BY <2>0, <4>1, SentTo DEF SeatInv
    <3>2. "free" \in Words /\ toTab[Cur(t)] \in Seq(Words)
      BY <2>1, QueueTypes DEF SeatInv, Words
    <3>3. \A v : WillHold(v, toTab'[Cur(t)]) <=> WillHold(v, toTab[Cur(t)])
      BY <3>1, <3>2, HoldsAppend
    <3>4. \A x : In(x, toTab'[Cur(t)]) <=> In(x, toTab[Cur(t)]) \/ x = "free"
      BY <3>1, <3>2, InQueue
    <3>5. Reads(t)' <=> Reads(t)
      BY <1>1, <2>0, <3>3 DEF Reads, tab
    <3>6. Unheard(t)' <=> Unheard(t)
      BY <1>1, <2>0, <3>4 DEF Unheard, Bad, tab
    <3>7. Awaits(t)'
      BY <2>0, <3>4 DEF Awaits
    <3>8. (HasAsk(Cur(t))' <=> HasAsk(Cur(t))) /\ (Stage(Cur(t)) => Stage(Cur(t))')
      BY <1>1, <2>0, <2>1 DEF HasAsk, Stage
    <3>9. holder # Cur(t)
      BY <2>1, <2>2
    <3> QED BY <1>1, <2>0, <2>1, <3>5, <3>6, <3>7, <3>8, <3>9 DEF TabInv
  <2>3. CASE ~(holder = s /\ Cur(t) \in waiters)
    <3>1. toTab'[Cur(t)] = toTab[Cur(t)]
      BY <1>2, <2>1, <2>3, SentTo DEF SeatInv
    <3>2. /\ toRelay'[Cur(t)] = toRelay[Cur(t)]
          /\ Cur(t) \in verifying => Cur(t) \in verifying'
          /\ Cur(t) \in proven => Cur(t) \in proven'
      BY <1>1, <2>1
    <3>3. /\ holder = Cur(t) => holder' = Cur(t)
          /\ holder # None /\ Cur(t) \in waiters => holder' # None /\ Cur(t) \in waiters'
      BY <1>2, <2>1, <2>3
    <3> QED BY <1>1, <2>0, <2>1, <3>1, <3>2, <3>3, Bystander DEF tab
  <2> QED BY <2>2, <2>3
<1> QED BY <1>3, <1>4, <1>5 DEF SeatInv

-----------------------------------------------------------------------------
\* The tab.  What one tab does passes the others by.
LEMMA OtherTabs ==
  ASSUME SeatInv, NEW t \in Tabs, NEW u \in Tabs \ {t},
         UNCHANGED <<trust, holder, waiters, verifying, proven>>,
         \A s \in Socks : s[1] # t => st'[s] = st[s] /\ toRelay'[s] = toRelay[s]
                                      /\ toTab'[s] = toTab[s],
         live'[u] = live[u], dials'[u] = dials[u], view'[u] = view[u],
         posted'[u] = posted[u]
  PROVE  TabInv(u)'
<1>1. TabInv(u)
  BY DEF SeatInv
<1>2. live[u] => Cur(u) \in Socks /\ Cur(u)[1] # t
  BY QueueTypes DEF SeatInv, Cur
<1> QED BY <1>1, <1>2, Bystander

\* The bookkeeping, where a tab hears, acts or asks.
LEMMA BookHeld ==
  ASSUME TypeOK, Book, UNCHANGED <<trust, cuts, st, holder, proven, dials, live>>,
         \A s \in Socks : ~Listening(s) => toTab'[s] = toTab[s],
         \A t \in Tabs : dials[t] = 0 => view'[t] = view[t] /\ posted'[t] = posted[t]
  PROVE  Book'
<1>1. Deaf'
  BY DEF Book, Deaf, Listening, Cur
<1>2. Young' /\ Redialled' /\ HolderProven'
  BY DEF Book, Young, Redialled, HolderProven, Cur
<1> QED BY <1>1, <1>2 DEF Book

LEMMA OpenStep == ASSUME SeatInv, NEW t \in Tabs, Open(t) PROVE SeatInv'
<1> DEFINE s == <<t, dials[t] + 1>>
<1>0. ~live[t] /\ dials[t] <= cuts /\ dials[t] \in Nat /\ cuts \in 0..MaxCuts /\ MaxCuts \in Nat
  BY SeatAssumption DEF Open, SeatInv, Book, Redialled, TypeOK
<1>1. s \in Socks /\ dials[t] + 1 \in 1..(MaxCuts + 1)
  BY <1>0 DEF Socks
<1>2. /\ live' = [live EXCEPT ![t] = TRUE] /\ dials' = [dials EXCEPT ![t] = @ + 1]
      /\ st' = [st EXCEPT ![s] = "open"]
      /\ toRelay' = [toRelay EXCEPT ![s] = <<Ask(t), "hello">>]
      /\ asked' = [asked EXCEPT ![t] = TRUE]
      /\ UNCHANGED <<trust, cuts, holder, waiters, verifying, proven, toTab, view, posted, typed>>
  BY DEF Open
<1> HIDE DEF s
<1>3. Ask(t) \in {"ask", "take"}
  BY DEF Ask
<1>4. toTab[s] = <<>>
  BY <1>0, <1>1 DEF SeatInv, Book, Deaf, Listening, Cur, s
<1>5. Cur(t)' = s /\ \A u \in Tabs \ {t} : Cur(u)' = Cur(u) /\ Cur(u) # s
  BY <1>2 DEF SeatInv, TypeOK, Cur, s
<1>6. TypeOK'
  BY <1>1, <1>2, <1>3 DEF SeatInv, TypeOK
<1>7. Book'
  <2>1. Deaf'
    <3> SUFFICES ASSUME NEW o \in Socks, ~Listening(o)' PROVE toTab'[o] = <<>>
      BY DEF Deaf
    <3>1. ~Listening(o)
      BY <1>0, <1>2 DEF Listening, Cur, SeatInv, TypeOK, Socks
    <3> QED BY <1>2, <3>1 DEF SeatInv, Book, Deaf
  <2>2. Young'
    BY <1>0, <1>2 DEF SeatInv, TypeOK, Book, Young
  <2>3. ASSUME NEW u \in Tabs
        PROVE  IF live'[u] /\ st'[Cur(u)'] = "open" THEN dials'[u] <= cuts' + 1
               ELSE dials'[u] <= cuts'
    <3>1. CASE u = t
      BY <1>0, <1>1, <1>2, <1>5, <3>1 DEF SeatInv, TypeOK
    <3>2. CASE u # t
      <4>1. live[u] => Cur(u) \in Socks
        BY QueueTypes DEF SeatInv
      <4>2. live'[u] = live[u] /\ dials'[u] = dials[u] /\ cuts' = cuts /\ Cur(u)' = Cur(u)
        BY <1>2, <1>5, <3>2 DEF SeatInv, TypeOK
      <4>3. live[u] => st'[Cur(u)] = st[Cur(u)]
        BY <1>2, <1>5, <3>2, <4>1 DEF SeatInv, TypeOK
      <4> QED BY <4>2, <4>3 DEF SeatInv, Book, Redialled
    <3> QED BY <3>1, <3>2
  <2>4. HolderProven'
    BY <1>2 DEF SeatInv, Book, HolderProven
  <2> QED BY <2>1, <2>2, <2>3, <2>4 DEF Book, Redialled
<1>8. TabInv(t)'
  <2>1. toRelay'[s] = <<Ask(t), "hello">>
    BY <1>1, <1>2 DEF SeatInv, TypeOK
  <2>2. In(Ask(t), toRelay'[s]) /\ In("hello", toRelay'[s])
    <3>1. DOMAIN toRelay'[s] = 1..2 /\ toRelay'[s][1] = Ask(t) /\ toRelay'[s][2] = "hello"
      BY <2>1
    <3> QED BY <3>1 DEF In
  <2>3. HasAsk(Cur(t))' /\ Stage(Cur(t))'
    BY <1>3, <1>5, <2>2 DEF HasAsk, Stage, Asking
  <2>4. Awaits(t)'
    BY <2>3 DEF Awaits
  <2>5. ASSUME Counts(t)', trust' PROVE Unheard(t)' /\ ~Reads(t)'
    <3>1. dials[t] = 0
      BY <1>0, <1>2, <2>5 DEF Counts, Unasked, SeatInv, TypeOK
    <3>2. view'[t] = "none" /\ posted'[t] = <<>> /\ toTab'[Cur(t)'] = <<>>
      BY <1>2, <1>4, <1>5, <3>1 DEF SeatInv, Book, Young
    <3>3. Unheard(t)'
      BY <3>2 DEF Unheard, In
    <3>4. ~WillHold(view'[t], posted'[t])
      BY <3>2, HoldsNothing
    <3>5. ~WillHold("by", toTab'[Cur(t)'])
      BY <3>2, HoldsNothing
    <3>6. ~Reads(t)'
      BY <3>4, <3>5 DEF Reads, After
    <3> QED BY <3>3, <3>6
  <2> QED BY <2>3, <2>4, <2>5 DEF TabInv
<1>9. ASSUME NEW u \in Tabs \ {t} PROVE TabInv(u)'
  <2>1. \A o \in Socks : o[1] # t => st'[o] = st[o] /\ toRelay'[o] = toRelay[o]
                                      /\ toTab'[o] = toTab[o]
    BY <1>2 DEF SeatInv, TypeOK, s
  <2>2. live'[u] = live[u] /\ dials'[u] = dials[u] /\ view'[u] = view[u] /\ posted'[u] = posted[u]
    BY <1>2 DEF SeatInv, TypeOK
  <2> QED BY <1>2, <2>1, <2>2, OtherTabs
<1> QED BY <1>6, <1>7, <1>8, <1>9 DEF SeatInv

LEMMA LosesStep == ASSUME SeatInv, NEW t \in Tabs, Loses(t) PROVE SeatInv'
<1> DEFINE s == Cur(t)
<1>1. /\ live[t] /\ live' = [live EXCEPT ![t] = FALSE] /\ Cuts(st[s] = "open")
      /\ toTab' = [toTab EXCEPT ![s] = <<>>]
      /\ UNCHANGED <<trust, st, holder, waiters, verifying, proven, toRelay, dials, view, asked,
                     posted, typed>>
  BY DEF Loses, relay
<1>2. s \in Socks
  BY <1>1, QueueTypes DEF SeatInv
<1>3. /\ cuts' \in 0..MaxCuts /\ cuts \in Nat /\ cuts' >= cuts
      /\ st[s] = "open" => cuts' = cuts + 1
  BY <1>1, SeatAssumption DEF Cuts, SeatInv, TypeOK
<1>4. TypeOK'
  BY <1>1, <1>2, <1>3 DEF SeatInv, TypeOK
<1>5. \A u \in Tabs : Cur(u)' = Cur(u)
  BY <1>1 DEF Cur
<1>6. Book'
  <2>1. Deaf'
    <3> SUFFICES ASSUME NEW o \in Socks, ~Listening(o)' PROVE toTab'[o] = <<>>
      BY DEF Deaf
    <3>1. CASE o = s
      BY <1>1, <1>2, <3>1 DEF SeatInv, TypeOK
    <3>2. CASE o # s
      <4>1. ~Listening(o)
        BY <1>1, <3>2 DEF Listening, Cur, SeatInv, TypeOK, Socks
      <4> QED BY <1>1, <3>2, <4>1 DEF SeatInv, TypeOK, Book, Deaf
    <3> QED BY <3>1, <3>2
  <2>2. Young' /\ HolderProven'
    BY <1>1 DEF SeatInv, Book, Young, HolderProven
  <2>3. ASSUME NEW u \in Tabs
        PROVE  IF live'[u] /\ st'[Cur(u)'] = "open" THEN dials'[u] <= cuts' + 1
               ELSE dials'[u] <= cuts'
    <3>1. /\ dials[u] \in Nat /\ dials' = dials /\ st' = st /\ Cur(u)' = Cur(u)
          /\ IF live[u] /\ st[Cur(u)] = "open" THEN dials[u] <= cuts + 1 ELSE dials[u] <= cuts
      BY <1>1, <1>5 DEF SeatInv, TypeOK, Book, Redialled
    <3>2. live'[u] = IF u = t THEN FALSE ELSE live[u]
      BY <1>1 DEF SeatInv, TypeOK
    <3> QED BY <1>1, <1>3, <3>1, <3>2
  <2> QED BY <2>1, <2>2, <2>3 DEF Book, Redialled
<1>7. TabInv(t)'
  BY <1>1 DEF TabInv, Counts, SeatInv, TypeOK
<1>8. ASSUME NEW u \in Tabs \ {t} PROVE TabInv(u)'
  <2>1. \A o \in Socks : o[1] # t => toTab'[o] = toTab[o]
    BY <1>1 DEF SeatInv, TypeOK, Cur
  <2>2. live'[u] = live[u]
    BY <1>1 DEF SeatInv, TypeOK
  <2> QED BY <1>1, <2>1, <2>2, OtherTabs
<1> QED BY <1>4, <1>6, <1>7, <1>8 DEF SeatInv

\* An ask, or nothing, put behind what a tab has sent.
Longer(s) ==
  \/ toRelay'[s] = toRelay[s]
  \/ \E m \in Asking : toRelay'[s] = Append(toRelay[s], m)

LEMMA LongerQueue ==
  ASSUME TypeOK, NEW s \in Socks, Longer(s), UNCHANGED verifying
  PROVE  /\ HasAsk(s) => HasAsk(s)'
         /\ Stage(s) => Stage(s)'
         /\ toRelay'[s] # toRelay[s] => HasAsk(s)'
<1>1. toRelay[s] \in Seq(Words)
  BY QueueTypes
<1>2. CASE toRelay'[s] = toRelay[s]
  BY <1>2 DEF HasAsk, Stage
<1>3. ASSUME NEW m \in Asking, toRelay'[s] = Append(toRelay[s], m)
      PROVE  /\ HasAsk(s)' /\ (Stage(s) => Stage(s)')
  <2>1. m \in Words
    BY DEF Asking, Words
  <2>2. \A x : In(x, toRelay'[s]) <=> In(x, toRelay[s]) \/ x = m
    BY <1>1, <1>3, <2>1, InQueue
  <2> QED BY <2>2 DEF HasAsk, Stage
<1> QED BY <1>2, <1>3 DEF Longer

\* What a tab does between a message and its answer: it hears, acts or asks.
TabActs(t) ==
  /\ UNCHANGED <<trust, cuts, st, holder, waiters, verifying, proven, dials, live>>
  /\ \A s \in Socks : s # Cur(t) => toRelay'[s] = toRelay[s] /\ toTab'[s] = toTab[s]
  /\ \A u \in Tabs \ {t} : view'[u] = view[u] /\ posted'[u] = posted[u]
  /\ live[t] => Longer(Cur(t))
  /\ dials[t] = 0 => view'[t] = view[t] /\ posted'[t] = posted[t]
  /\ ~live[t] => toTab'[Cur(t)] = toTab[Cur(t)]

LEMMA ActsSound ==
  ASSUME SeatInv, NEW t \in Tabs, TabActs(t), TypeOK',
         Counts(t) => /\ Reads(t)' <=> Reads(t)
                      /\ ~Reads(t) => Awaits(t)'
                      /\ Unheard(t) => Unheard(t)'
  PROVE  SeatInv'
<1> USE DEF TabActs
<1>1. Book'
  <2>1. ASSUME NEW o \in Socks, ~Listening(o) PROVE toTab'[o] = toTab[o]
    BY <2>1 DEF Listening, Cur
  <2>2. \A u \in Tabs : dials[u] = 0 => view'[u] = view[u] /\ posted'[u] = posted[u]
    OBVIOUS
  <2> QED BY <2>1, <2>2, BookHeld DEF SeatInv
<1>2. TabInv(t)'
  <2> SUFFICES ASSUME Counts(t)' PROVE TabInv(t)'
    BY DEF TabInv
  <2>1. Cur(t)' = Cur(t) /\ Counts(t) /\ live[t]
    BY DEF Cur, Counts, Unasked
  <2>2. Cur(t) \in Socks
    BY <2>1, QueueTypes DEF SeatInv
  <2>3. (HasAsk(Cur(t)) => HasAsk(Cur(t))') /\ (Stage(Cur(t)) => Stage(Cur(t))')
    BY <2>1, <2>2, LongerQueue DEF SeatInv
  <2> QED BY <2>1, <2>3 DEF SeatInv, TabInv
<1>3. ASSUME NEW u \in Tabs \ {t} PROVE TabInv(u)'
  <2>1. \A s \in Socks : s[1] # t => s # Cur(t)
    BY DEF Cur
  <2> QED BY <2>1, OtherTabs
<1> QED BY <1>1, <1>2, <1>3 DEF SeatInv

LEMMA HearsStep == ASSUME SeatInv, NEW t \in Tabs, Hears(t) PROVE SeatInv'
<1> DEFINE c == Cur(t)
           w == toTab[c]
           p == posted[t]
           m == Head(w)
<1>1. live[t] /\ w # <<>> /\ c \in Socks /\ dials[t] # 0
  BY QueueTypes DEF Hears, SeatInv, TypeOK
<1>2. /\ w \in Seq(Words) /\ p \in Seq(Words) /\ toRelay[c] \in Seq(Words) /\ m \in Words
      /\ m \in {"ok", "taken", "lost", "free", "error", "proven"}
  BY <1>1, QueueTypes DEF SeatInv, TypeOK
<1>3. /\ toTab' = [toTab EXCEPT ![c] = Tail(w)]
      /\ UNCHANGED <<trust, cuts, relay, dials, live, view, typed>>
      /\ \/ m = "proven" /\ AskAgain(t) /\ UNCHANGED posted
         \/ m = "error" /\ UNCHANGED <<toRelay, asked, posted>>
         \/ /\ m \in Heardable /\ posted' = [posted EXCEPT ![t] = Append(p, m)]
            /\ UNCHANGED <<toRelay, asked>>
  BY <1>2 DEF Hears, Heardable
<1> HIDE DEF m
<1>4. Ask(t) \in Asking
  BY DEF Ask, Asking
<1>5. /\ toRelay' \in [Socks -> Seq({"ask", "take", "hello"})] /\ asked' \in [Tabs -> BOOLEAN]
      /\ Longer(c) /\ \A s \in Socks \ {c} : toRelay'[s] = toRelay[s]
  <2>1. CASE m = "proven" /\ view[t] # "held"
    <3>1. toRelay' = [toRelay EXCEPT ![c] = Append(@, Ask(t))]
            /\ asked' = [asked EXCEPT ![t] = TRUE]
      BY <1>3, <2>1 DEF AskAgain, Heardable
    <3> QED BY <1>1, <1>4, <3>1 DEF SeatInv, TypeOK, Longer, Asking
  <2>2. CASE ~(m = "proven" /\ view[t] # "held")
    <3>1. UNCHANGED <<toRelay, asked>>
      BY <1>3, <2>2 DEF AskAgain
    <3> QED BY <3>1 DEF SeatInv, TypeOK, Longer
  <2> QED BY <2>1, <2>2
<1>6. TypeOK'
  <2>1. toTab' \in [Socks -> Seq({"ok", "taken", "lost", "free", "error", "proven"})]
    BY <1>1, <1>3 DEF SeatInv, TypeOK
  <2>2. posted' \in [Tabs -> Seq(Heardable)]
    <3>1. posted \in [Tabs -> Seq(Heardable)]
      BY DEF SeatInv, TypeOK, Heardable
    <3>2. p \in Seq(Heardable) /\ (m \in Heardable => Append(p, m) \in Seq(Heardable))
      BY <3>1
    <3>3. posted' = posted \/ (m \in Heardable /\ posted' = [posted EXCEPT ![t] = Append(p, m)])
      BY <1>3
    <3> QED BY <3>1, <3>2, <3>3
  <2> QED BY <1>3, <1>5, <2>1, <2>2 DEF SeatInv, TypeOK, relay, Heardable
<1>7. toTab'[c] = Tail(w) /\ Cur(t)' = c /\ view' = view
  BY <1>1, <1>3 DEF SeatInv, TypeOK, Cur
<1>8. TabActs(t)
  <2>1. \A s \in Socks : s # c => toRelay'[s] = toRelay[s] /\ toTab'[s] = toTab[s]
    BY <1>3, <1>5 DEF SeatInv, TypeOK
  <2>2. \A u \in Tabs \ {t} : view'[u] = view[u] /\ posted'[u] = posted[u]
    BY <1>3 DEF SeatInv, TypeOK
  <2> QED BY <1>1, <1>3, <1>5, <2>1, <2>2 DEF TabActs, relay
<1>9. \A x : In(x, w) <=> x = m \/ In(x, Tail(w))
  BY <1>1, <1>2, InQueue DEF m
<1>10. CASE m \notin Heardable
  <2>1. posted' = posted
    BY <1>3, <1>10
  <2>2. \A v : WillHold(v, w) <=> WillHold(v, Tail(w))
    BY <1>1, <1>2, <1>10, HoldsTail DEF m
  <2>3. Reads(t)' <=> Reads(t)
    BY <1>7, <2>1, <2>2 DEF Reads
  <2>4. Unheard(t) => Unheard(t)'
    BY <1>7, <1>9, <2>1 DEF Unheard
  <2>5. ASSUME Counts(t), ~Reads(t) PROVE Awaits(t)'
    <3>1. Awaits(t)
      BY <2>5 DEF SeatInv, TabInv
    <3>2. m # "free" /\ (HasAsk(c) => HasAsk(c)') /\ (Stage(c) => Stage(c)')
      <4>1. m # "free" /\ verifying' = verifying
        BY <1>3, <1>10 DEF relay, Heardable
      <4> QED BY <1>1, <1>5, <1>7, <4>1, LongerQueue DEF SeatInv
    <3>3. CASE m = "proven" /\ view[t] # "held"
      <4>1. toRelay' = [toRelay EXCEPT ![c] = Append(@, Ask(t))]
        BY <1>3, <3>3 DEF AskAgain, Heardable
      <4>2. toRelay'[c] = Append(toRelay[c], Ask(t))
        BY <1>1, <4>1 DEF SeatInv, TypeOK
      <4>3. In(Ask(t), toRelay'[c])
        BY <1>2, <1>4, <4>2, InQueue DEF Asking, Words
      <4> QED BY <1>4, <1>7, <4>3 DEF Awaits, HasAsk
    <3>4. CASE ~(m = "proven" /\ view[t] # "held")
      <4>1. Unheard(t) => m # "proven"
        BY <3>4 DEF Unheard
      <4> QED BY <1>3, <1>7, <1>9, <2>1, <2>4, <3>1, <3>2, <4>1 DEF Awaits, relay
    <3> QED BY <3>3, <3>4
  <2> QED BY <1>6, <1>8, <2>3, <2>4, <2>5, ActsSound
<1>11. CASE m \in Heardable
  <2>1. posted'[t] = Append(p, m) /\ toRelay' = toRelay
    BY <1>1, <1>3, <1>11 DEF SeatInv, TypeOK, Heardable
  <2>2. \A x : In(x, posted'[t]) <=> In(x, p) \/ x = m
    BY <1>2, <2>1, InQueue
  <2>3. Reads(t)' <=> Reads(t)
    <3> DEFINE v == view[t]
    <3>1. Reads(t)' <=> WillHold(After(v, Append(p, m)), Tail(w))
      BY <1>7, <2>1 DEF Reads
    <3>2. CASE m = "ok"
      <4>1. After(v, Append(p, m)) = "held"
        BY <1>2, <3>2, HoldsAppend DEF After
      <4>2. WillHold(After(v, p), w) <=> WillHold("held", Tail(w))
        BY <1>1, <1>2, <3>2, HoldsTail DEF m
      <4> QED BY <3>1, <4>1, <4>2 DEF Reads
    <3>3. CASE m \in Bad
      <4>1. After(v, Append(p, m)) = "by"
        BY <1>2, <3>3, HoldsAppend DEF After
      <4>2. WillHold(After(v, p), w) <=> WillHold("by", Tail(w))
        BY <1>1, <1>2, <3>3, HoldsTail DEF m
      <4> QED BY <3>1, <4>1, <4>2 DEF Reads
    <3>4. CASE m = "free"
      <4>1. WillHold(v, Append(p, m)) <=> WillHold(v, p)
        BY <1>2, <3>4, HoldsAppend
      <4>2. After(v, Append(p, m)) = After(v, p)
        BY <4>1 DEF After
      <4>3. WillHold(After(v, p), w) <=> WillHold(After(v, p), Tail(w))
        BY <1>1, <1>2, <3>4, HoldsTail DEF m
      <4> QED BY <3>1, <4>2, <4>3 DEF Reads
    <3> QED BY <1>11, <3>2, <3>3, <3>4 DEF Heardable, Bad
  <2>4. Unheard(t) => Unheard(t)'
    BY <1>7, <1>9, <2>2 DEF Unheard
  <2>5. ASSUME Counts(t), ~Reads(t) PROVE Awaits(t)'
    <3>1. Awaits(t)
      BY <2>5 DEF SeatInv, TabInv
    <3>2. (HasAsk(c)' <=> HasAsk(c)) /\ (Stage(c)' <=> Stage(c)) /\ m # "proven"
      <4>1. m # "proven" /\ verifying' = verifying
        BY <1>3, <1>11 DEF relay, Heardable
      <4> QED BY <1>7, <2>1, <4>1 DEF HasAsk, Stage
    <3> QED BY <1>3, <1>7, <1>9, <2>2, <2>4, <3>1, <3>2 DEF Awaits, relay
  <2> QED BY <1>6, <1>8, <2>3, <2>4, <2>5, ActsSound
<1> QED BY <1>10, <1>11

LEMMA ActsStep == ASSUME SeatInv, NEW t \in Tabs, Acts(t) PROVE SeatInv'
<1> DEFINE c == Cur(t)
           p == posted[t]
           m == Head(p)
<1>1. /\ p # <<>> /\ p \in Seq(Words) /\ m \in Heardable /\ dials[t] # 0
  BY QueueTypes DEF Acts, SeatInv, TypeOK, Book, Young, Heardable
<1>2. /\ posted' = [posted EXCEPT ![t] = Tail(p)]
      /\ UNCHANGED <<trust, cuts, relay, toTab, dials, live, typed>>
      /\ \/ m = "free" /\ Asks(t, Ask(t)) /\ UNCHANGED view
         \/ m # "free" /\ view' = [view EXCEPT ![t] = Verdict(m)] /\ UNCHANGED <<toRelay, asked>>
  BY DEF Acts
<1> HIDE DEF m
<1>3. Ask(t) \in Asking /\ (live[t] => c \in Socks)
  BY QueueTypes DEF SeatInv, Ask, Asking
<1>4. /\ toRelay' \in [Socks -> Seq({"ask", "take", "hello"})] /\ asked' \in [Tabs -> BOOLEAN]
      /\ Longer(c) /\ \A s \in Socks \ {c} : toRelay'[s] = toRelay[s]
      /\ m = "free" /\ live[t] => toRelay'[c] = Append(toRelay[c], Ask(t))
  <2>1. CASE m = "free" /\ live[t]
    <3>1. toRelay' = [toRelay EXCEPT ![c] = Append(@, Ask(t))]
            /\ asked' = [asked EXCEPT ![t] = TRUE]
      BY <1>2, <2>1 DEF Asks
    <3> QED BY <1>3, <2>1, <3>1 DEF SeatInv, TypeOK, Longer, Asking
  <2>2. CASE ~(m = "free" /\ live[t])
    <3>1. UNCHANGED <<toRelay, asked>>
      BY <1>2, <2>2 DEF Asks
    <3> QED BY <2>2, <3>1 DEF SeatInv, TypeOK, Longer
  <2> QED BY <2>1, <2>2
<1>5. posted'[t] = Tail(p) /\ posted' \in [Tabs -> Seq(Heardable)]
  BY <1>1, <1>2 DEF SeatInv, TypeOK, Heardable
<1>6. view' \in [Tabs -> {"none", "held", "by"}]
  BY <1>2 DEF SeatInv, TypeOK, Verdict
<1>7. TypeOK'
  BY <1>2, <1>4, <1>5, <1>6 DEF SeatInv, TypeOK, relay, Heardable
<1>8. TabActs(t)
  <2>1. \A u \in Tabs \ {t} : view'[u] = view[u] /\ posted'[u] = posted[u]
    BY <1>2 DEF SeatInv, TypeOK
  <2> QED BY <1>1, <1>2, <1>4, <2>1 DEF TabActs, relay
<1>9. \A x : In(x, p) <=> x = m \/ In(x, Tail(p))
  BY <1>1, InQueue DEF m
<1>10. Cur(t)' = c /\ toTab' = toTab /\ UNCHANGED <<holder, waiters, verifying>>
  BY <1>2 DEF Cur, relay
<1>11. CASE m = "free"
  <2>1. view' = view
    BY <1>2, <1>11
  <2>2. WillHold(view[t], p) <=> WillHold(view[t], Tail(p))
    BY <1>1, <1>11, HoldsTail DEF m
  <2>3. After(view'[t], posted'[t]) = After(view[t], p)
    BY <1>5, <2>1, <2>2 DEF After
  <2>4. Reads(t)' <=> Reads(t)
    BY <1>10, <2>3 DEF Reads
  <2>5. Unheard(t) => Unheard(t)'
    BY <1>5, <1>9, <1>10, <2>1 DEF Unheard
  <2>6. ASSUME Counts(t) PROVE Awaits(t)'
    <3>1. live[t] /\ c \in Socks /\ toRelay'[c] = Append(toRelay[c], Ask(t))
      BY <1>3, <1>4, <1>11, <2>6 DEF Counts
    <3>2. In(Ask(t), toRelay'[c])
      BY <1>3, <3>1, InQueue, QueueTypes DEF SeatInv, Asking, Words
    <3> QED BY <1>3, <1>10, <3>2 DEF Awaits, HasAsk
  <2> QED BY <1>7, <1>8, <2>4, <2>5, <2>6, ActsSound
<1>12. CASE m # "free"
  <2>1. view'[t] = Verdict(m) /\ toRelay' = toRelay
    BY <1>2, <1>12 DEF SeatInv, TypeOK
  <2>2. After(view'[t], posted'[t]) = After(view[t], p)
    <3>1. CASE m = "ok"
      <4>1. WillHold(view[t], p) <=> WillHold("held", Tail(p))
        BY <1>1, <3>1, HoldsTail DEF m
      <4> QED BY <1>5, <2>1, <3>1, <4>1 DEF After, Verdict
    <3>2. CASE m \in Bad
      <4>1. WillHold(view[t], p) <=> WillHold("by", Tail(p))
        BY <1>1, <3>2, HoldsTail DEF m
      <4>2. Verdict(m) = "by"
        BY <3>2 DEF Verdict, Bad
      <4> QED BY <1>5, <2>1, <4>1, <4>2 DEF After
    <3> QED BY <1>1, <1>12, <3>1, <3>2 DEF Heardable, Bad
  <2>3. Reads(t)' <=> Reads(t)
    BY <1>10, <2>2 DEF Reads
  <2>4. ~Unheard(t)
    BY <1>1, <1>9, <1>12 DEF Unheard, Heardable, Bad
  <2>5. ASSUME Counts(t), ~Reads(t) PROVE Awaits(t)'
    <3>1. Awaits(t)
      BY <2>5 DEF SeatInv, TabInv
    <3> QED BY <1>5, <1>9, <1>10, <1>12, <2>1, <2>4, <3>1 DEF Awaits, HasAsk
  <2> QED BY <1>7, <1>8, <2>3, <2>4, <2>5, ActsSound
<1> QED BY <1>11, <1>12

LEMMA TypesStep == ASSUME SeatInv, NEW t \in Tabs, Types(t) PROVE SeatInv'
<1> DEFINE c == Cur(t)
<1>1. /\ live[t] /\ typed < MaxTyped /\ typed' = typed + 1
      /\ toRelay' = [toRelay EXCEPT ![c] = Append(@, "take")]
      /\ asked' = [asked EXCEPT ![t] = TRUE]
      /\ UNCHANGED <<trust, cuts, relay, toTab, dials, live, view, posted>>
  BY DEF Types, Asks
<1>2. c \in Socks
  BY <1>1, QueueTypes DEF SeatInv
<1>3. TypeOK'
  BY <1>1, <1>2, SeatAssumption DEF SeatInv, TypeOK, relay
<1>4. toRelay'[c] = Append(toRelay[c], "take") /\ \A s \in Socks \ {c} : toRelay'[s] = toRelay[s]
  BY <1>1, <1>2 DEF SeatInv, TypeOK
<1>5. TabActs(t)
  BY <1>1, <1>4 DEF TabActs, relay, Longer, Asking
<1>6. In("take", toRelay'[c])
  BY <1>2, <1>4, InQueue, QueueTypes DEF SeatInv, Words
<1>7. Awaits(t)'
  BY <1>1, <1>6 DEF Awaits, HasAsk, Asking, Cur
<1>8. (Reads(t)' <=> Reads(t)) /\ (Unheard(t)' <=> Unheard(t))
  BY <1>1 DEF Reads, Unheard, Cur
<1> QED BY <1>3, <1>5, <1>7, <1>8, ActsSound

-----------------------------------------------------------------------------
LEMMA InitSeat == Init => SeatInv
<1> SUFFICES ASSUME Init PROVE SeatInv
  OBVIOUS
<1> USE SeatAssumption DEF Init
<1>1. TypeOK
  BY DEF TypeOK
<1>2. Book
  BY DEF Book, Deaf, Young, Redialled, HolderProven
<1>3. \A t \in Tabs : TabInv(t)
  BY DEF TabInv, Counts
<1> QED BY <1>1, <1>2, <1>3 DEF SeatInv

LEMMA NextSeat == SeatInv /\ [Next]_vars => SeatInv'
<1> SUFFICES ASSUME SeatInv, [Next]_vars PROVE SeatInv'
  OBVIOUS
<1>1. CASE UNCHANGED vars
  <2> USE <1>1 DEF vars, relay, tab
  <2>1. TypeOK'
    BY DEF SeatInv, TypeOK
  <2>2. Book'
    BY BookKept DEF SeatInv, Book, HolderProven
  <2>3. ASSUME NEW t \in Tabs PROVE TabInv(t)'
    BY Bystander DEF SeatInv
  <2> QED BY <2>1, <2>2, <2>3 DEF SeatInv
<1>2. ASSUME NEW s \in Socks, RelayStep(s) \/ Prove(s) \/ RelayCloses(s) \/ Drop(s)
      PROVE  SeatInv'
  BY <1>2, RefusedStep, TakenStep, GrantedStep, HelloStep, ProveStep, RelayClosesStep, DropStep
     DEF RelayStep
<1>3. ASSUME NEW t \in Tabs, Open(t) \/ Loses(t) \/ Hears(t) \/ Acts(t) \/ Types(t)
      PROVE  SeatInv'
  BY <1>3, OpenStep, LosesStep, HearsStep, ActsStep, TypesStep
<1> QED BY <1>1, <1>2, <1>3 DEF Next

\* handleSeat, drop() and the tab's region seat: the inductive invariant.
THEOREM SeatInvariant == Spec => []SeatInv
<1> QED BY InitSeat, NextSeat, PTL DEF Spec

\* Type correctness of the seat, and no tab dials more often than it was cut.
THEOREM SeatTypeCorrect == Spec => []TypeOK
<1>1. SeatInv => TypeOK
  BY DEF SeatInv
<1> QED BY <1>1, SeatInvariant, PTL

\* handleSeat against Lies_seat_heard: once nothing is on its way, the tab that
\* reads itself the holder is the relay's, and one that does not waits where it
\* will be told.
THEOREM EndsAgree == Spec => []SeatIsAgreed
<1>1. SeatInv => SeatIsAgreed
  <2> SUFFICES ASSUME SeatInv PROVE SeatIsAgreed
    OBVIOUS
  <2>1. ASSUME NEW t \in Tabs, Quiet(t), ~Unasked(t)
        PROVE  /\ view[t] = "held" => holder = Cur(t)
               /\ view[t] # "held" => holder # None /\ Cur(t) \in waiters
    <3>1. /\ Counts(t) /\ TabInv(t)
          /\ posted[t] = <<>> /\ toTab[Cur(t)] = <<>> /\ toRelay[Cur(t)] = <<>>
          /\ Cur(t) \notin verifying
      BY <2>1 DEF Quiet, Counts, SeatInv
    <3>2. \A x : ~In(x, <<>>)
      BY DEF In
    <3>3. Reads(t) <=> view[t] = "held"
      <4>1. After(view[t], posted[t]) = IF view[t] = "held" THEN "held" ELSE "by"
        BY <3>1, HoldsNothing DEF After
      <4> QED BY <3>1, <4>1, HoldsNothing DEF Reads
    <3>4. ~HasAsk(Cur(t)) /\ ~Stage(Cur(t))
      BY <3>1, <3>2 DEF HasAsk, Stage
    <3> QED BY <3>1, <3>2, <3>3, <3>4 DEF TabInv, Awaits
  <2> QED BY <2>1 DEF SeatIsAgreed, HeldIsGranted, ReaderWaits
<1> QED BY <1>1, SeatInvariant, PTL

\* "never both write" (Editron.md): it holds wherever no trust is configured,
\* however tabs wrest the seat, die and reconnect; the exception is the
\* reconnect under trust, whose ask is never made.
THEOREM OneWriterWithoutTrust == Spec => [](trust \/ NeverBothWrite)
<1>1. SeatIsAgreed => trust \/ NeverBothWrite
  <2> SUFFICES ASSUME SeatIsAgreed, ~trust, NEW t \in Tabs, NEW u \in Tabs, t # u,
                      Quiet(t), Quiet(u), view[t] = "held", view[u] = "held"
               PROVE  FALSE
    BY DEF NeverBothWrite
  <2>1. holder = Cur(t) /\ holder = Cur(u)
    BY DEF SeatIsAgreed, HeldIsGranted, Unasked
  <2> QED BY <2>1 DEF Cur
<1> QED BY <1>1, EndsAgree, PTL
=============================================================================
