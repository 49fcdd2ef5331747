--------------------------- MODULE BeliefsProofs ---------------------------
(***************************************************************************)
(* For every set of Houses, of transactions and of worlds and every bound: *)
(* the mutex excludes, no wake-up of a drain is lost, and a row leaves its *)
(* queue only to be answered by a run, but for the turn between the end of *)
(* a job and the end of its run.                                           *)
(*                                                                         *)
(* The argument rests on who stands among the microtasks: at most one task *)
(* of a holder of the mutex, and the end of every run whose job has given  *)
(* the mutex back.  A House whose run has begun and is found with the      *)
(* mutex free is therefore one whose end is queued, whatever was pushed    *)
(* between.                                                                *)
(***************************************************************************)
EXTENDS Beliefs, TLAPS, WellFoundedInduction, FiniteSetTheorems

Holding == {"job", "release"}

\* A closed gate has a timer that will open it, an open one room for a timer.
Gated == \A h \in Houses : /\ gate[h].waiting => gate[h].timers > 0
                           /\ ~gate[h].waiting => gate[h].timers < MaxGates

KnockedStarted == \A h \in Houses : knocked[h] => Started(h)

Alone == /\ \A a, b \in active : a = b
         /\ key <=> active # {}

\* A job about to go on or to end is one that has the mutex, and is there once.
HoldersAct(q, act) ==
  \A i \in DOMAIN q : q[i].do \in Holding =>
    /\ q[i].who \in act
    /\ \A j \in DOMAIN q : q[j].do \in Holding => i = j

\* A run that has begun has the mutex, or is about to be finished.
BegunRuns ==
  \A h \in Houses : began[h] => h \in active
                                \/ \E i \in DOMAIN micro : micro[i] = Task("finish", h)

BeliefsInv == TypeOK /\ Gated /\ KnockedStarted /\ Alone
                /\ HoldersAct(micro, active) /\ BegunRuns /\ Driven

-----------------------------------------------------------------------------
\* The elements of a queue after one is taken off the front or put at the back.
LEMMA TailElements ==
  ASSUME NEW S, NEW q \in Seq(S), q # <<>>
  PROVE  /\ Tail(q) \in Seq(S) /\ Head(q) \in S /\ 1 \in DOMAIN q /\ Head(q) = q[1]
         /\ \A i \in DOMAIN Tail(q) : i + 1 \in DOMAIN q /\ Tail(q)[i] = q[i + 1]
         /\ \A i \in DOMAIN q : i = 1 \/ (i - 1 \in DOMAIN Tail(q) /\ Tail(q)[i - 1] = q[i])
OBVIOUS

LEMMA AppendElements ==
  ASSUME NEW S, NEW q \in Seq(S), NEW e \in S
  PROVE  /\ Append(q, e) \in Seq(S) /\ Len(q) + 1 \in DOMAIN Append(q, e)
         /\ Append(q, e)[Len(q) + 1] = e
         /\ \A i \in DOMAIN q : i \in DOMAIN Append(q, e) /\ Append(q, e)[i] = q[i]
         /\ \A i \in DOMAIN Append(q, e) : i \in DOMAIN q \/ i = Len(q) + 1
OBVIOUS

\* A set of naturals that is not empty has a least member.
LEMMA LeastNatural ==
  ASSUME NEW T \in SUBSET Nat, T # {}
  PROVE  \E n \in T : \A k \in T : n <= k
<1> DEFINE Below == OpToRel(<, Nat)
<1>1. Below = {p \in Nat \X Nat : p[1] < p[2]}
  BY Zenon DEF OpToRel
<1>2. IsWellFoundedOn(Below, Nat)
  BY NatLessThanWellFounded, Zenon
<1> HIDE DEF Below
<1>3. PICK n \in T : \A k \in T : ~ (<<k, n>> \in Below)
  BY <1>2, WFMin, Zenon
<1>4. ASSUME NEW k \in T, k < n
      PROVE  <<k, n>> \in Below
  BY <1>1, <1>4
<1>5. \A k \in T : ~ (k < n)
  BY <1>3, <1>4, Zenon
<1>6. \A k \in T : n <= k
  BY <1>5
<1> QED BY <1>6

\* The thinks a run takes with it look nowhere it does not.
LEMMA MergedProperties ==
  ASSUME NEW e \in Rows, NEW rest \in Seq(Rows)
  PROVE  /\ Merged(e, rest) \in 0..Len(rest)
         /\ \A i \in 1..Merged(e, rest) : /\ rest[i].kind = "think"
                                           /\ LooksAt(rest[i]) \subseteq LooksAt(e)
<1> DEFINE Taken(i) == rest[i].kind = "think" /\ Covers(e, rest[i])
           T == {k \in 0..Len(rest) : k < Len(rest) => ~Taken(k + 1)}
<1>1. CASE e.kind # "think"
  BY <1>1 DEF Merged
<1>2. CASE e.kind = "think"
  <2>1. Len(rest) \in T /\ T \in SUBSET Nat
    OBVIOUS
  <2> HIDE DEF Taken
  <2>2. PICK n \in T : \A k \in T : n <= k
    BY <2>1, LeastNatural
  <2>3. \A i \in 1..n : Taken(i)
    <3> SUFFICES ASSUME NEW i \in 1..n PROVE Taken(i)
      OBVIOUS
    <3>1. Len(rest) \in Nat /\ n \in 0..Len(rest)
      OBVIOUS
    <3>2. i - 1 \in 0..Len(rest) /\ i - 1 < Len(rest) /\ ~(n <= i - 1)
      BY <3>1
    <3>3. i - 1 \notin T
      <4> HIDE DEF T
      <4> QED BY <2>2, <3>2, Zenon
    <3>4. Taken((i - 1) + 1)
      BY <3>2, <3>3
    <3>5. (i - 1) + 1 = i
      OBVIOUS
    <3> QED BY <3>4, <3>5
  <2>4. \E k \in 0..Len(rest) : (\A i \in 1..k : Taken(i))
                                 /\ (k < Len(rest) => ~Taken(k + 1))
    BY <2>2, <2>3
  <2>5. /\ Merged(e, rest) \in 0..Len(rest)
        /\ \A i \in 1..Merged(e, rest) : Taken(i)
    <3> DEFINE P(k) == (\A i \in 1..k : Taken(i)) /\ (k < Len(rest) => ~Taken(k + 1))
    <3>1. Merged(e, rest) = CHOOSE k \in 0..Len(rest) : P(k)
      BY <1>2 DEF Merged, Taken
    <3>2. \E k \in 0..Len(rest) : P(k)
      BY <2>4
    <3> HIDE DEF P
    <3>3. Merged(e, rest) \in 0..Len(rest) /\ P(Merged(e, rest))
      BY <3>1, <3>2, Zenon
    <3> QED BY <3>3, Zenon DEF P
  <2>6. ASSUME NEW i \in 1..Merged(e, rest)
        PROVE  rest[i].kind = "think" /\ LooksAt(rest[i]) \subseteq LooksAt(e)
    <3>1. Taken(i) /\ rest[i] \in Rows
      BY <2>5
    <3> QED BY <3>1, <1>2, BeliefsAssumption DEF Taken, Covers, LooksAt, Rows
  <2> QED BY <2>5, <2>6
<1> QED BY <1>1, <1>2

-----------------------------------------------------------------------------
\* What a look at the queue of h does: nothing; or it takes rows and the mutex; or,
\* with a run of h begun, it takes rows and throws.
Looks(h, queue) ==
  \/ micro' = queue /\ UNCHANGED <<todo, began, key, active>>
  \/ /\ ~key /\ todo' \in [Houses -> Seq(Rows)]
     /\ \A k \in Houses : k # h => todo'[k] = todo[k]
     /\ \/ /\ key' = TRUE /\ active' = active \cup {h}
           /\ began' = [began EXCEPT ![h] = TRUE]
           /\ micro' = Append(queue, Task("job", h))
        \/ micro' = queue /\ UNCHANGED <<began, key, active>>

\* The queue a look is given is the one it had, without its first task or not.
LEMMA LookEffect ==
  ASSUME TypeOK, NEW h \in Houses, NEW queue, Really(h, queue)
  PROVE  Looks(h, queue)
<1>1. CASE ~Started(h) \/ key \/ todo[h] = <<>>
  BY <1>1 DEF Really, Looks
<1>2. CASE ~(~Started(h) \/ key \/ todo[h] = <<>>)
  <2> DEFINE e == Head(todo[h])
             rest == Tail(todo[h])
             n == Merged(e, rest)
  <2>1. todo[h] \in Seq(Rows) /\ todo[h] # <<>>
    BY <1>2 DEF TypeOK
  <2>2. e \in Rows /\ rest \in Seq(Rows)
    BY <2>1
  <2>3. n \in 0..Len(rest)
    BY <2>2, MergedProperties
  <2> HIDE DEF e, rest, n
  <2>4. /\ todo' = [todo EXCEPT ![h] = SubSeq(rest, n + 1, Len(rest))]
        /\ began' = [began EXCEPT ![h] = TRUE]
        /\ IF began[h] THEN micro' = queue /\ UNCHANGED <<key, active>>
           ELSE TakeKey(h, queue)
    BY <1>2 DEF Really, e, rest, n
  <2>5. SubSeq(rest, n + 1, Len(rest)) \in Seq(Rows)
    BY <2>2, <2>3
  <2>6. /\ todo' \in [Houses -> Seq(Rows)]
        /\ \A k \in Houses : k # h => todo'[k] = todo[k]
    BY <2>4, <2>5 DEF TypeOK
  <2>7. began[h] => began' = began
    BY <2>4 DEF TypeOK
  <2> QED BY <1>2, <2>4, <2>6, <2>7 DEF Looks, TakeKey
<1> QED BY <1>1, <1>2

GateOk(g) == /\ g \in [waiting : BOOLEAN, pending : BOOLEAN, timers : 0..MaxGates]
             /\ g.waiting => g.timers > 0
             /\ ~g.waiting => g.timers < MaxGates

\* answer_calls leaves a closed gate behind, and so a timer.
LEMMA CallEffect ==
  ASSUME TypeOK, Gated, KnockedStarted, NEW h \in Houses, NEW g, GateOk(g),
         NEW stands \in BOOLEAN, NEW queue, AnswerCalls(h, g, stands, queue)
  PROVE  /\ Looks(h, queue)
         /\ gate' \in [Houses -> [waiting : BOOLEAN, pending : BOOLEAN,
                                   timers : 0..MaxGates]]
         /\ look' \in [Houses -> BOOLEAN] /\ knocked' \in [Houses -> BOOLEAN]
         /\ gate'[h].timers > 0 /\ GateOk(gate'[h])
         /\ knocked'[h] => Started(h)
         /\ \A k \in Houses : k # h => /\ gate'[k] = gate[k] /\ look'[k] = look[k]
                                        /\ knocked'[k] = knocked[k]
<1>1. CASE g.waiting
  <2>1. [g EXCEPT !.pending = TRUE] \in
          [waiting : BOOLEAN, pending : BOOLEAN, timers : 0..MaxGates]
        /\ [g EXCEPT !.pending = TRUE].timers = g.timers
        /\ [g EXCEPT !.pending = TRUE].waiting = g.waiting
    BY DEF GateOk
  <2>2. gate' = [gate EXCEPT ![h] = [g EXCEPT !.pending = TRUE]]
        /\ look' = [look EXCEPT ![h] = stands]
        /\ Looks(h, queue)
    BY <1>1 DEF AnswerCalls, Looks
  <2> QED BY <1>1, <2>1, <2>2 DEF GateOk, AnswerCalls, TypeOK, KnockedStarted
<1>2. CASE ~g.waiting
  <2> DEFINE c == [waiting |-> TRUE, pending |-> g.pending, timers |-> g.timers + 1]
  <2>1. /\ c \in [waiting : BOOLEAN, pending : BOOLEAN, timers : 0..MaxGates]
        /\ c.timers > 0 /\ c.waiting
    <3>1. g.pending \in BOOLEAN /\ g.timers + 1 \in 0..MaxGates
      BY <1>2, BeliefsAssumption DEF GateOk
    <3> QED BY <3>1 DEF GateOk
  <2>2. gate' = [gate EXCEPT ![h] = c]
        /\ look' = [look EXCEPT ![h] = stands \/ (Started(h) /\ key)]
        /\ Looks(h, queue)
    BY <1>2, LookEffect DEF AnswerCalls
  <2> HIDE DEF c
  <2>3. look' \in [Houses -> BOOLEAN] /\ \A k \in Houses : k # h => look'[k] = look[k]
    <3> DEFINE b == stands \/ (Started(h) /\ key)
    <3>1. b \in BOOLEAN
      OBVIOUS
    <3> HIDE DEF b
    <3>2. look' = [look EXCEPT ![h] = b]
      BY <2>2 DEF b
    <3> QED BY <3>1, <3>2 DEF TypeOK
  <2> QED BY <2>1, <2>2, <2>3 DEF GateOk, AnswerCalls, TypeOK, KnockedStarted
<1> QED BY <1>1, <1>2 DEF GateOk

-----------------------------------------------------------------------------
\* The order of the microtasks when one is taken or one is put at the back.

LEMMA TailOrdered ==
  ASSUME NEW q \in Seq(Tasks), q # <<>>, NEW act, HoldersAct(q, act)
  PROVE  /\ HoldersAct(Tail(q), act)
         /\ Head(q).do \in Holding =>
              /\ Head(q).who \in act
              /\ \A i \in DOMAIN Tail(q) : Tail(q)[i].do \notin Holding
<1>1. /\ Head(q) = q[1] /\ 1 \in DOMAIN q
      /\ \A i \in DOMAIN Tail(q) :
           i \in Nat \ {0} /\ i + 1 \in DOMAIN q /\ Tail(q)[i] = q[i + 1]
  BY TailElements
<1>2. HoldersAct(Tail(q), act)
  BY <1>1 DEF HoldersAct
<1>3. Head(q).do \in Holding =>
        /\ Head(q).who \in act
        /\ \A i \in DOMAIN Tail(q) : Tail(q)[i].do \notin Holding
  BY <1>1 DEF HoldersAct
<1> QED BY <1>2, <1>3

\* Who is no holder may be put anywhere.
LEMMA AppendOrdered ==
  ASSUME NEW q \in Seq(Tasks), NEW act, HoldersAct(q, act), NEW t \in Tasks,
         t.do \notin Holding
  PROVE  HoldersAct(Append(q, t), act)
<1>1. \A i \in DOMAIN Append(q, t) : \/ i \in DOMAIN q /\ Append(q, t)[i] = q[i]
                                     \/ Append(q, t)[i] = t
  BY AppendElements
<1> QED BY <1>1 DEF HoldersAct

\* The one holder may be put where none is.
LEMMA AppendHolder ==
  ASSUME NEW q \in Seq(Tasks), NEW act, HoldersAct(q, act), NEW t \in Tasks,
         t.do \in Holding, t.who \in act,
         \A i \in DOMAIN q : q[i].do \notin Holding
  PROVE  HoldersAct(Append(q, t), act)
<1>1. \A i \in DOMAIN Append(q, t) :
        \/ i \in DOMAIN q /\ Append(q, t)[i] = q[i]
        \/ i = Len(q) + 1 /\ Append(q, t)[i] = t
  BY AppendElements
<1> QED BY <1>1 DEF HoldersAct

-----------------------------------------------------------------------------
\* The steps.  "queue" is what is left of the microtasks when an action has taken
\* the one it is for, or has found none.

Has(q, t) == \E i \in DOMAIN q : q[i] = t

LEMMA AppendHas ==
  ASSUME NEW S, NEW q \in Seq(S), NEW t \in S
  PROVE  Has(Append(q, t), t) /\ \A x : Has(q, x) => Has(Append(q, t), x)
BY AppendElements DEF Has

LEMMA TailHas ==
  ASSUME NEW S, NEW q \in Seq(S), q # <<>>
  PROVE  \A x : Has(q, x) /\ x # Head(q) => Has(Tail(q), x)
<1> SUFFICES ASSUME NEW x, NEW i \in DOMAIN q, q[i] = x, x # Head(q)
             PROVE  Has(Tail(q), x)
  BY DEF Has
<1>1. i - 1 \in DOMAIN Tail(q) /\ Tail(q)[i - 1] = x
  BY TailElements
<1> QED BY <1>1 DEF Has

LEMMA TaskTypes ==
  /\ \A h \in Houses : Task("answer", h) \in Tasks /\ Task("finish", h) \in Tasks
  /\ \A u \in Patients : Task("lock", u) \in Waits /\ Task("cleared", u) \in Waits
                         /\ Task("lock", u) \in Tasks
  /\ \A x \in Houses \cup Patients : Task("job", x) \in Tasks /\ Task("release", x) \in Tasks
BY DEF Task, Tasks, Waits

\* What is left when the first task was not the end of a run.
Left(queue) ==
  /\ queue \in Seq(Tasks) /\ HoldersAct(queue, active)
  /\ \A h \in Houses : /\ Has(micro, Task("finish", h)) => Has(queue, Task("finish", h))
                       /\ Has(micro, Task("answer", h)) => Has(queue, Task("answer", h))

\* A look at a queue that h may make.
LEMMA CallStep ==
  ASSUME BeliefsInv, NEW h \in Houses, NEW g, GateOk(g), NEW stands \in BOOLEAN,
         NEW queue \in Seq(Tasks), HoldersAct(queue, active),
         \A k \in Houses : Has(micro, Task("finish", k)) => Has(queue, Task("finish", k)),
         \A k \in Houses : k # h /\ Has(micro, Task("answer", k)) =>
                            Has(queue, Task("answer", k)),
         AnswerCalls(h, g, stands, queue),
         UNCHANGED <<life, waiters, seen>>, calls' \in 0..MaxCalls
  PROVE  BeliefsInv'
<1>1. /\ Looks(h, queue)
      /\ gate' \in [Houses -> [waiting : BOOLEAN, pending : BOOLEAN, timers : 0..MaxGates]]
      /\ look' \in [Houses -> BOOLEAN] /\ knocked' \in [Houses -> BOOLEAN]
      /\ gate'[h].timers > 0 /\ GateOk(gate'[h])
      /\ knocked'[h] => Started(h)
      /\ \A k \in Houses : k # h => /\ gate'[k] = gate[k] /\ look'[k] = look[k]
                                     /\ knocked'[k] = knocked[k]
  BY CallEffect DEF BeliefsInv
<1>2. /\ micro' \in Seq(Tasks) /\ \A x : Has(queue, x) => Has(micro', x)
      /\ todo' \in [Houses -> Seq(Rows)] /\ began' \in [Houses -> BOOLEAN]
      /\ \A k \in Houses : k # h => todo'[k] = todo[k] /\ began'[k] = began[k]
  <2>1. CASE micro' = queue /\ UNCHANGED began
    BY <1>1, <2>1 DEF Looks, BeliefsInv, TypeOK
  <2>2. CASE /\ micro' = Append(queue, Task("job", h))
             /\ began' = [began EXCEPT ![h] = TRUE]
             /\ todo' \in [Houses -> Seq(Rows)]
             /\ \A k \in Houses : k # h => todo'[k] = todo[k]
    <3>1. Task("job", h) \in Tasks
      BY TaskTypes
    <3>2. micro' \in Seq(Tasks) /\ \A x : Has(queue, x) => Has(micro', x)
      BY <2>2, <3>1, AppendElements, AppendHas
    <3> QED BY <2>2, <3>2 DEF BeliefsInv, TypeOK
  <2> QED BY <1>1, <2>1, <2>2 DEF Looks
<1>3. TypeOK'
  <2>1. key' \in BOOLEAN /\ active' \subseteq Houses \cup Patients
    BY <1>1 DEF Looks, BeliefsInv, TypeOK
  <2>2. waiters' = waiters /\ (waiters # <<>> => key')
    BY <1>1 DEF Looks, BeliefsInv, TypeOK
  <2> QED BY <1>1, <1>2, <2>1, <2>2 DEF BeliefsInv, TypeOK
<1>4. Gated' /\ KnockedStarted'
  BY <1>1 DEF BeliefsInv, Gated, KnockedStarted, GateOk, Started
<1>5. Alone'
  <2>1. CASE UNCHANGED <<key, active>>
    BY <2>1 DEF BeliefsInv, Alone
  <2>2. CASE ~key /\ key' = TRUE /\ active' = active \cup {h}
    <3>1. active' = {h}
      BY <2>2 DEF BeliefsInv, Alone
    <3> QED BY <2>2, <3>1 DEF Alone
  <2> QED BY <1>1, <2>1, <2>2 DEF Looks
<1>6. HoldersAct(micro', active')
  <2>1. CASE micro' = queue /\ active' = active
    BY <2>1
  <2>2. CASE ~key /\ active' = active \cup {h} /\ micro' = Append(queue, Task("job", h))
    <3>1. active = {}
      BY <2>2 DEF BeliefsInv, Alone
    <3>2. HoldersAct(queue, active') /\ \A i \in DOMAIN queue : queue[i].do \notin Holding
      BY <3>1 DEF HoldersAct
    <3> QED BY <2>2, <3>2, TaskTypes, AppendHolder DEF Task, Holding
  <2> QED BY <1>1, <2>1, <2>2 DEF Looks
<1>7. BegunRuns'
  <2> SUFFICES ASSUME NEW k \in Houses, began'[k]
               PROVE  k \in active' \/ Has(micro', Task("finish", k))
    BY DEF BegunRuns, Has
  <2>1. CASE k = h /\ ~ UNCHANGED began
    BY <1>1, <2>1 DEF Looks
  <2>2. CASE began[k]
    <3>1. k \in active \/ Has(micro, Task("finish", k))
      BY <2>2 DEF BeliefsInv, BegunRuns, Has
    <3> QED BY <1>1, <1>2, <3>1 DEF Looks
  <2> QED BY <1>2, <2>1, <2>2
<1>8. Driven'
  <2> SUFFICES ASSUME NEW k \in Houses, life'[k] = "on", knocked'[k], todo'[k] # <<>>
               PROVE  gate'[k].timers > 0 \/ look'[k] \/ Has(micro', Task("answer", k))
    BY DEF Driven, Has
  <2>1. CASE k # h
    BY <1>1, <1>2, <2>1 DEF BeliefsInv, Driven, Has
  <2> QED BY <1>1, <2>1
<1> QED BY <1>3, <1>4, <1>5, <1>6, <1>7, <1>8 DEF BeliefsInv

\* A push: what it adds to the microtasks, before what is put after it.
Pushes(h, waiting, queue) ==
  IF ~waiting /\ life[h] = "on" THEN Append(queue, Task("answer", h)) ELSE queue

LEMMA PushEffect ==
  ASSUME BeliefsInv, NEW h \in Houses, NEW row \in Rows, NEW waiting,
         NEW queue, Left(queue),
         NEW after \in Seq(Tasks), Push(h, row, waiting, queue, after)
  PROVE  /\ micro' = Pushes(h, waiting, queue) \o after
         /\ Left(Pushes(h, waiting, queue))
         /\ \A i \in DOMAIN Pushes(h, waiting, queue) :
              \/ i \in DOMAIN queue /\ Pushes(h, waiting, queue)[i] = queue[i]
              \/ Pushes(h, waiting, queue)[i] = Task("answer", h)
         /\ ~waiting /\ life[h] = "on" => Has(Pushes(h, waiting, queue), Task("answer", h))
         /\ todo' \in [Houses -> Seq(Rows)] /\ knocked' \in [Houses -> BOOLEAN]
         /\ calls' \in 0..MaxCalls /\ KnockedStarted
         /\ \A k \in Houses : knocked'[k] => Started(k)
         /\ \A k \in Houses : k # h => todo'[k] = todo[k] /\ knocked'[k] = knocked[k]
<1>1. queue \in Seq(Tasks) /\ HoldersAct(queue, active)
  BY DEF Left
<1>2. CASE ~waiting /\ life[h] = "on"
  <2>1. Task("answer", h) \in Tasks /\ Task("answer", h).do \notin Holding
    BY TaskTypes DEF Task, Holding
  <2>2. Pushes(h, waiting, queue) = Append(queue, Task("answer", h))
    BY <1>2 DEF Pushes
  <2>3. micro' = Pushes(h, waiting, queue) \o after
    <3>1. micro' = queue \o <<Task("answer", h)>> \o after
      BY <1>2 DEF Push
    <3>2. queue \o <<Task("answer", h)>> = Append(queue, Task("answer", h))
      BY <1>1, <2>1
    <3> QED BY <3>1, <3>2, <2>2
  <2>4. /\ Append(queue, Task("answer", h)) \in Seq(Tasks)
        /\ Has(Append(queue, Task("answer", h)), Task("answer", h))
        /\ \A x : Has(queue, x) => Has(Append(queue, Task("answer", h)), x)
        /\ \A i \in DOMAIN Append(queue, Task("answer", h)) :
             \/ i \in DOMAIN queue /\ Append(queue, Task("answer", h))[i] = queue[i]
             \/ Append(queue, Task("answer", h))[i] = Task("answer", h)
    BY <1>1, <2>1, AppendElements, AppendHas
  <2>5. HoldersAct(Append(queue, Task("answer", h)), active)
    BY <1>1, <2>1, AppendOrdered
  <2>6. Left(Append(queue, Task("answer", h)))
    BY <2>4, <2>5 DEF Left
  <2> HIDE DEF Pushes
  <2>7. /\ todo' \in [Houses -> Seq(Rows)] /\ knocked' \in [Houses -> BOOLEAN]
        /\ calls' \in 0..MaxCalls /\ KnockedStarted
        /\ \A k \in Houses : knocked'[k] => Started(k)
        /\ \A k \in Houses : k # h => todo'[k] = todo[k] /\ knocked'[k] = knocked[k]
    BY BeliefsAssumption DEF Push, BeliefsInv, TypeOK, KnockedStarted
  <2> QED BY <2>2, <2>3, <2>4, <2>6, <2>7
<1>3. CASE ~(~waiting /\ life[h] = "on")
  <2>1. Pushes(h, waiting, queue) = queue
    BY <1>3 DEF Pushes
  <2>2. micro' = queue \o <<>> \o after
    BY <1>3 DEF Push
  <2>3. micro' = queue \o after
    BY <1>1, <2>2
  <2>4. /\ todo' \in [Houses -> Seq(Rows)] /\ knocked' \in [Houses -> BOOLEAN]
        /\ calls' \in 0..MaxCalls /\ KnockedStarted
        /\ \A k \in Houses : knocked'[k] => Started(k)
        /\ \A k \in Houses : k # h => todo'[k] = todo[k] /\ knocked'[k] = knocked[k]
    BY BeliefsAssumption DEF Push, BeliefsInv, TypeOK, KnockedStarted
  <2> QED BY <1>3, <2>1, <2>3, <2>4
<1> QED BY <1>2, <1>3

\* The microtasks of a state whose queues and gates are as they were.
LEMMA QuietStep ==
  ASSUME BeliefsInv, micro' \in Seq(Tasks), HoldersAct(micro', active'),
         \A k \in Houses : Has(micro, Task("finish", k)) => Has(micro', Task("finish", k)),
         \A k \in Houses : Has(micro, Task("answer", k)) => Has(micro', Task("answer", k)),
         UNCHANGED <<drainVars, calls>>,
         seen' \subseteq Patients, waiters' \in Seq(Waits), waiters' # <<>> => key',
         key' \in BOOLEAN, active' \subseteq Houses \cup Patients, Alone',
         \A k \in Houses : k \in active => k \in active'
  PROVE  BeliefsInv'
<1>1. TypeOK'
  BY DEF BeliefsInv, TypeOK, drainVars
<1>2. Gated' /\ KnockedStarted'
  BY DEF BeliefsInv, Gated, KnockedStarted, Started, drainVars
<1>3. BegunRuns'
  BY DEF BeliefsInv, BegunRuns, Has, drainVars
<1>4. Driven'
  BY DEF BeliefsInv, Driven, Has, drainVars
<1> QED BY <1>1, <1>2, <1>3, <1>4 DEF BeliefsInv

\* A push to a House that has its way to be driven.
LEMMA PushStep ==
  ASSUME BeliefsInv, NEW h \in Houses, NEW row \in Rows, NEW waiting \in BOOLEAN,
         waiting => gate[h].timers > 0,
         NEW queue, Left(queue),
         NEW after \in Seq(Tasks), Push(h, row, waiting, queue, after),
         micro' \in Seq(Tasks), HoldersAct(micro', active),
         \A x : Has(Pushes(h, waiting, queue), x) => Has(micro', x),
         gate' \in [Houses -> [waiting : BOOLEAN, pending : BOOLEAN, timers : 0..MaxGates]],
         Gated', \A k \in Houses : gate'[k].timers = gate[k].timers,
         UNCHANGED <<life, look, began, key, active, waiters, seen>>
  PROVE  BeliefsInv'
<1>1. /\ Left(Pushes(h, waiting, queue))
      /\ ~waiting /\ life[h] = "on" => Has(Pushes(h, waiting, queue), Task("answer", h))
      /\ todo' \in [Houses -> Seq(Rows)] /\ knocked' \in [Houses -> BOOLEAN]
      /\ calls' \in 0..MaxCalls
      /\ \A k \in Houses : knocked'[k] => Started(k)
      /\ \A k \in Houses : k # h => todo'[k] = todo[k] /\ knocked'[k] = knocked[k]
  BY PushEffect
<1>2. \A k \in Houses :
        /\ Has(micro, Task("finish", k)) => Has(micro', Task("finish", k))
        /\ Has(micro, Task("answer", k)) => Has(micro', Task("answer", k))
  BY <1>1 DEF Left
<1>3. TypeOK'
  BY <1>1 DEF BeliefsInv, TypeOK
<1>4. KnockedStarted' /\ Alone' /\ HoldersAct(micro', active')
  BY <1>1 DEF BeliefsInv, Alone, KnockedStarted, Started
<1>5. BegunRuns'
  BY <1>2 DEF BeliefsInv, BegunRuns, Has
<1>6. Driven'
  <2> SUFFICES ASSUME NEW k \in Houses, life[k] = "on", knocked'[k], todo'[k] # <<>>
               PROVE  gate'[k].timers > 0 \/ look[k] \/ Has(micro', Task("answer", k))
    BY DEF Driven, Has
  <2>1. CASE k = h
    BY <1>1, <2>1
  <2>2. CASE k # h
    BY <1>1, <1>2, <2>2 DEF BeliefsInv, Driven, Has
  <2> QED BY <2>1, <2>2
<1> QED BY <1>3, <1>4, <1>5, <1>6 DEF BeliefsInv

\* The end of a job may be put behind what is left when no holder is.
LEMMA EndAppended ==
  ASSUME NEW q \in Seq(Tasks), NEW who \in active, active \subseteq Houses \cup Patients,
         HoldersAct(q, active), \A i \in DOMAIN q : q[i].do \notin Holding,
         NEW ends \in BOOLEAN, NEW after,
         after = IF ends THEN <<Task("release", who)>> ELSE <<>>
  PROVE  /\ after \in Seq(Tasks) /\ q \o after \in Seq(Tasks)
         /\ HoldersAct(q \o after, active)
         /\ \A x : Has(q, x) => Has(q \o after, x)
<1>1. Task("release", who) \in Tasks /\ Task("release", who).do \in Holding
      /\ Task("release", who).who = who
  BY TaskTypes DEF Task, Holding
<1>2. CASE ends
  <2>1. after = <<Task("release", who)>> /\ after \in Seq(Tasks)
    BY <1>1, <1>2
  <2>2. q \o after = Append(q, Task("release", who))
    BY <1>1, <2>1
  <2>3. HoldersAct(Append(q, Task("release", who)), active)
    BY <1>1, AppendHolder
  <2>4. Append(q, Task("release", who)) \in Seq(Tasks)
    BY <1>1
  <2>5. \A x : Has(q, x) => Has(Append(q, Task("release", who)), x)
    BY <1>1, AppendHas
  <2> QED BY <2>1, <2>2, <2>3, <2>4, <2>5
<1>3. CASE ~ends
  <2>1. after = <<>> /\ q \o after = q
    BY <1>3
  <2>2. <<>> \in Seq(Tasks)
    OBVIOUS
  <2> QED BY <2>1, <2>2
<1> QED BY <1>2, <1>3

LEMMA JobTurn ==
  ASSUME BeliefsInv, NEW who \in active, NEW ends \in BOOLEAN,
         NEW queue, Left(queue), \A i \in DOMAIN queue : queue[i].do \notin Holding,
         JobStep(who, ends, queue)
  PROVE  BeliefsInv'
<1> DEFINE after == IF ends THEN <<Task("release", who)>> ELSE <<>>
<1>1. UNCHANGED <<life, gate, look, began, key, active, waiters, seen>>
  BY DEF JobStep
<1>2. active \subseteq Houses \cup Patients
  BY DEF BeliefsInv, TypeOK
<1>3. \A q \in Seq(Tasks) :
        HoldersAct(q, active) /\ (\A i \in DOMAIN q : q[i].do \notin Holding) =>
          /\ after \in Seq(Tasks) /\ q \o after \in Seq(Tasks)
          /\ HoldersAct(q \o after, active)
          /\ \A x : Has(q, x) => Has(q \o after, x)
  BY <1>2, EndAppended
<1>4. after \in Seq(Tasks)
  BY <1>3 DEF Left
<1> HIDE DEF after
<1>6. CASE micro' = queue \o after /\ UNCHANGED <<todo, knocked, calls>>
  <2>1. /\ micro' \in Seq(Tasks) /\ HoldersAct(micro', active)
        /\ \A x : Has(queue, x) => Has(micro', x)
    BY <1>3, <1>6 DEF Left
  <2>2. \A k \in Houses :
          /\ Has(micro, Task("finish", k)) => Has(micro', Task("finish", k))
          /\ Has(micro, Task("answer", k)) => Has(micro', Task("answer", k))
    BY <2>1 DEF Left
  <2>3. UNCHANGED <<drainVars, calls>>
    BY <1>1, <1>6 DEF drainVars
  <2>4. /\ seen' \subseteq Patients /\ waiters' \in Seq(Waits) /\ (waiters' # <<>> => key')
        /\ key' \in BOOLEAN /\ active' \subseteq Houses \cup Patients
    BY <1>1 DEF BeliefsInv, TypeOK
  <2>5. Alone' /\ HoldersAct(micro', active')
    BY <1>1, <2>1 DEF BeliefsInv, Alone
  <2> QED BY <1>1, <2>1, <2>2, <2>3, <2>4, <2>5, QuietStep
<1>7. ASSUME NEW h \in Houses, NEW row \in Rows,
             Push(h, row, gate[h].waiting, queue, after)
      PROVE  BeliefsInv'
  <2> DEFINE q == Pushes(h, gate[h].waiting, queue)
  <2>1. /\ gate[h].waiting \in BOOLEAN /\ gate[h].waiting => gate[h].timers > 0
    BY DEF BeliefsInv, TypeOK, Gated
  <2>2. /\ micro' = q \o after /\ Left(q)
        /\ \A i \in DOMAIN q :
              (i \in DOMAIN queue /\ q[i] = queue[i]) \/ q[i] = Task("answer", h)
    BY <1>4, <1>7, PushEffect
  <2> HIDE DEF q
  <2>3. \A i \in DOMAIN q : q[i].do \notin Holding
    BY <2>2 DEF Task, Holding
  <2>4. /\ micro' \in Seq(Tasks) /\ HoldersAct(micro', active)
        /\ \A x : Has(q, x) => Has(micro', x)
    BY <1>3, <2>2, <2>3 DEF Left
  <2>5. /\ gate' \in [Houses -> [waiting : BOOLEAN, pending : BOOLEAN, timers : 0..MaxGates]]
        /\ Gated' /\ \A k \in Houses : gate'[k].timers = gate[k].timers
    BY <1>1 DEF BeliefsInv, TypeOK, Gated
  <2> QED BY <1>1, <1>4, <1>7, <2>1, <2>4, <2>5, PushStep DEF q
<1> QED BY <1>6, <1>7 DEF JobStep, after

-----------------------------------------------------------------------------
\* Every step.

\* What the first of the microtasks leaves behind it.
LEMMA FirstTaken ==
  ASSUME BeliefsInv, micro # <<>>
  PROVE  /\ Head(micro) \in Tasks /\ Tail(micro) \in Seq(Tasks)
         /\ HoldersAct(Tail(micro), active)
         /\ Head(micro).do \in Holding =>
              /\ Head(micro).who \in active
              /\ \A i \in DOMAIN Tail(micro) : Tail(micro)[i].do \notin Holding
         /\ \A x : Has(micro, x) /\ x # Head(micro) => Has(Tail(micro), x)
<1>1. micro \in Seq(Tasks) /\ HoldersAct(micro, active)
  BY DEF BeliefsInv, TypeOK
<1>2. Head(micro) \in Tasks /\ Tail(micro) \in Seq(Tasks)
  BY <1>1
<1> QED BY <1>1, <1>2, TailOrdered, TailHas

\* What comes from outside finds the microtasks and the gates as they are.
LEMMA AsTheyAre ==
  ASSUME BeliefsInv
  PROVE  Left(micro) /\ \A h \in Houses : GateOk(gate[h])
<1>1. Left(micro)
  BY DEF Left, BeliefsInv, TypeOK
<1>2. \A h \in Houses : GateOk(gate[h])
  BY DEF BeliefsInv, TypeOK, Gated, GateOk
<1> QED BY <1>1, <1>2

LEMMA AnswerStep ==
  ASSUME BeliefsInv, micro # <<>>, NEW h \in Houses, Head(micro) = Task("answer", h),
         Answer(h)
  PROVE  BeliefsInv'
<1>1. /\ Tail(micro) \in Seq(Tasks) /\ HoldersAct(Tail(micro), active)
      /\ \A x : Has(micro, x) /\ x # Head(micro) => Has(Tail(micro), x)
  BY FirstTaken
<1>2. /\ \A k \in Houses : Has(micro, Task("finish", k)) => Has(Tail(micro), Task("finish", k))
      /\ \A k \in Houses : k # h /\ Has(micro, Task("answer", k)) =>
                           Has(Tail(micro), Task("answer", k))
  BY <1>1 DEF Task
<1>3. GateOk(gate[h]) /\ look[h] \in BOOLEAN
  BY AsTheyAre DEF BeliefsInv, TypeOK
<1>4. UNCHANGED <<life, waiters, seen>> /\ calls' \in 0..MaxCalls
  BY DEF Answer, BeliefsInv, TypeOK
<1> QED BY <1>1, <1>2, <1>3, <1>4, CallStep DEF Answer

LEMMA TimerStep ==
  ASSUME BeliefsInv, NEW h \in Houses, GateTimer(h) \/ LookTimer(h) \/ Poke(h)
  PROVE  BeliefsInv'
<1>1. /\ Left(micro) /\ GateOk(gate[h])
      /\ look[h] \in BOOLEAN /\ UNCHANGED <<life, waiters, seen>> /\ calls' \in 0..MaxCalls
  <2>1. UNCHANGED <<life, waiters, seen>>
    BY DEF GateTimer, LookTimer, Poke
  <2>2. calls' = calls \/ (calls < MaxCalls /\ calls' = calls + 1)
    <3>1. CASE GateTimer(h)
      BY <3>1 DEF GateTimer
    <3>2. CASE LookTimer(h)
      BY <3>2 DEF LookTimer
    <3>3. CASE Poke(h)
      BY <3>3 DEF Poke
    <3> QED BY <3>1, <3>2, <3>3
  <2>3. calls' \in 0..MaxCalls
    BY <2>2, BeliefsAssumption DEF BeliefsInv, TypeOK
  <2> QED BY <2>1, <2>3, AsTheyAre DEF BeliefsInv, TypeOK
<1>2. /\ micro \in Seq(Tasks) /\ HoldersAct(micro, active)
  BY <1>1 DEF Left
<1>3. ASSUME NEW g, GateOk(g), NEW stands \in BOOLEAN, AnswerCalls(h, g, stands, micro)
      PROVE  BeliefsInv'
  BY <1>1, <1>2, <1>3, CallStep
<1>4. CASE LookTimer(h) \/ Poke(h)
  BY <1>1, <1>3, <1>4 DEF LookTimer, Poke
<1>5. CASE GateTimer(h)
  <2> DEFINE g == [waiting |-> FALSE, pending |-> FALSE, timers |-> gate[h].timers - 1]
  <2>1. GateOk(g)
    BY <1>1, <1>5, BeliefsAssumption DEF GateOk, GateTimer
  <2>2. CASE ComesBack(h) /\ life[h] = "on"
    BY <1>1, <1>3, <1>5, <2>1, <2>2 DEF GateTimer
  <2>3. CASE ~(ComesBack(h) /\ life[h] = "on")
    <3> HIDE DEF g
    <3>1. /\ gate' = [gate EXCEPT ![h] = g]
          /\ UNCHANGED <<todo, knocked, look, began, key, active, micro>>
          /\ UNCHANGED <<life, waiters, calls, seen>>
      BY <1>5, <2>3 DEF GateTimer, g
    <3>2. TypeOK' /\ Gated'
      BY <2>1, <3>1 DEF BeliefsInv, TypeOK, Gated, GateOk
    <3>3. KnockedStarted' /\ Alone' /\ HoldersAct(micro', active') /\ BegunRuns'
      BY <3>1 DEF BeliefsInv, KnockedStarted, Started, Alone, BegunRuns
    <3>4. \A k \in Houses : k # h => gate'[k] = gate[k]
      BY <3>1 DEF BeliefsInv, TypeOK
    <3>5. ~(life[h] = "on" /\ todo[h] # <<>>)
      BY <2>3 DEF ComesBack
    <3>6. Driven'
      BY <3>1, <3>4, <3>5 DEF BeliefsInv, Driven
    <3> QED BY <3>2, <3>3, <3>6 DEF BeliefsInv
  <2> QED BY <2>2, <2>3
<1> QED BY <1>4, <1>5

LEMMA PushFromOutsideStep ==
  ASSUME BeliefsInv, NEW h \in Houses, NEW row \in Rows,
         PushFromOutside(h, row) \/ HandOnGuard(h, row)
  PROVE  BeliefsInv'
<1>1. Left(micro) /\ <<>> \in Seq(Tasks)
  BY AsTheyAre
<1>2. ASSUME NEW w \in BOOLEAN, Push(h, row, w, micro, <<>>)
      PROVE  /\ micro' \in Seq(Tasks) /\ HoldersAct(micro', active)
             /\ \A x : Has(Pushes(h, w, micro), x) => Has(micro', x)
  <2> DEFINE after == <<>>
  <2>1. after \in Seq(Tasks) /\ Push(h, row, w, micro, after)
    BY <1>1, <1>2
  <2> HIDE DEF after
  <2>2. micro' = Pushes(h, w, micro) \o after /\ Left(Pushes(h, w, micro))
    BY <1>1, <2>1, PushEffect
  <2>3. micro' = Pushes(h, w, micro)
    BY <2>2 DEF Left, after
  <2> QED BY <2>2, <2>3 DEF Left
<1>3. CASE PushFromOutside(h, row)
  <2>1. /\ Push(h, row, gate[h].waiting, micro, <<>>)
        /\ UNCHANGED <<life, look, began, key, active, waiters, seen>>
        /\ UNCHANGED gate
    BY <1>3 DEF PushFromOutside
  <2>2. /\ gate[h].waiting \in BOOLEAN /\ gate[h].waiting => gate[h].timers > 0
        /\ gate' \in [Houses -> [waiting : BOOLEAN, pending : BOOLEAN, timers : 0..MaxGates]]
        /\ Gated' /\ \A k \in Houses : gate'[k].timers = gate[k].timers
    BY <2>1 DEF BeliefsInv, TypeOK, Gated
  <2> DEFINE w == gate[h].waiting
             after == <<>>
  <2>3. Push(h, row, w, micro, after) /\ w \in BOOLEAN /\ after \in Seq(Tasks)
        /\ (w => gate[h].timers > 0)
    BY <1>1, <2>1, <2>2
  <2>4. /\ micro' \in Seq(Tasks) /\ HoldersAct(micro', active)
        /\ \A x : Has(Pushes(h, w, micro), x) => Has(micro', x)
    BY <1>2, <2>3
  <2> HIDE DEF w, after
  <2> QED BY <1>1, <2>1, <2>2, <2>3, <2>4, PushStep
<1>4. CASE HandOnGuard(h, row)
  <2>1. /\ Push(h, row, FALSE, micro, <<>>) /\ gate[h].timers < MaxGates
        /\ UNCHANGED <<life, look, began, key, active, waiters, seen>>
        /\ gate' = [gate EXCEPT ![h].waiting = FALSE]
    BY <1>4 DEF HandOnGuard
  <2>2. /\ gate' \in [Houses -> [waiting : BOOLEAN, pending : BOOLEAN, timers : 0..MaxGates]]
        /\ Gated' /\ \A k \in Houses : gate'[k].timers = gate[k].timers
    BY <2>1 DEF BeliefsInv, TypeOK, Gated
  <2> DEFINE w == FALSE
             after == <<>>
  <2>3. Push(h, row, w, micro, after) /\ w \in BOOLEAN /\ after \in Seq(Tasks)
        /\ (w => gate[h].timers > 0)
    BY <1>1, <2>1
  <2>4. /\ micro' \in Seq(Tasks) /\ HoldersAct(micro', active)
        /\ \A x : Has(Pushes(h, w, micro), x) => Has(micro', x)
    BY <1>2, <2>3
  <2> HIDE DEF w, after
  <2> QED BY <1>1, <2>1, <2>2, <2>3, <2>4, PushStep
<1> QED BY <1>3, <1>4

LEMMA StartStopStep ==
  ASSUME BeliefsInv, NEW h \in Houses, Start(h) \/ Stop(h)
  PROVE  BeliefsInv'
<1>1. UNCHANGED <<todo, knocked, gate, look, began, key, active, waiters, micro,
                  calls, seen>>
  BY DEF Start, Stop
<1>2. /\ life' \in [Houses -> {"new", "on", "off"}]
      /\ \A k \in Houses : life'[k] = life[k] \/ k = h
      /\ \/ life[h] = "new" /\ life'[h] = "on"
         \/ life[h] = "on" /\ life'[h] = "off"
  <2>1. CASE life[h] = "new" /\ life' = [life EXCEPT ![h] = "on"]
    BY <2>1 DEF BeliefsInv, TypeOK
  <2>2. CASE life[h] = "on" /\ life' = [life EXCEPT ![h] = "off"]
    BY <2>2 DEF BeliefsInv, TypeOK
  <2> QED BY <2>1, <2>2 DEF Start, Stop
<1>3. TypeOK' /\ Gated' /\ Alone' /\ HoldersAct(micro', active') /\ BegunRuns'
  BY <1>1, <1>2 DEF BeliefsInv, TypeOK, Gated, Alone, BegunRuns
<1>4. KnockedStarted'
  BY <1>1, <1>2 DEF BeliefsInv, KnockedStarted, Started
<1>5. Driven'
  BY <1>1, <1>2 DEF BeliefsInv, Driven, KnockedStarted, Started
<1> QED BY <1>3, <1>4, <1>5 DEF BeliefsInv

LEMMA UItimeStep ==
  ASSUME BeliefsInv, NEW u \in Patients, UItime(u)
  PROVE  BeliefsInv'
<1>1. /\ Task("lock", u) \in Tasks /\ Task("lock", u).do \notin Holding
      /\ Task("cleared", u) \in Waits
  BY TaskTypes DEF Task, Holding
<1>2. micro \in Seq(Tasks) /\ HoldersAct(micro, active) /\ waiters \in Seq(Waits)
  BY DEF BeliefsInv, TypeOK
<1>3. UNCHANGED <<drainVars, key, active, calls>> /\ seen' = seen \cup {u}
  BY DEF UItime
<1>4. Alone' /\ key' \in BOOLEAN /\ active' \subseteq Houses \cup Patients
      /\ seen' \subseteq Patients
  BY <1>3 DEF BeliefsInv, Alone, TypeOK
<1>5. CASE key
  <2>1. waiters' \in Seq(Waits) /\ UNCHANGED micro
    BY <1>1, <1>2, <1>5 DEF UItime
  <2> QED BY <1>2, <1>3, <1>4, <1>5, <2>1, QuietStep
<1>6. CASE ~key
  <2>1. micro' = Append(micro, Task("lock", u)) /\ UNCHANGED waiters
    BY <1>6 DEF UItime
  <2>2. micro' \in Seq(Tasks) /\ HoldersAct(micro', active)
        /\ \A x : Has(micro, x) => Has(micro', x)
    BY <1>1, <1>2, <2>1, AppendOrdered, AppendHas
  <2>3. waiters' \in Seq(Waits) /\ (waiters' # <<>> => key')
    BY <1>3, <2>1 DEF BeliefsInv, TypeOK
  <2> QED BY <1>3, <1>4, <2>2, <2>3, QuietStep
<1> QED BY <1>5, <1>6 DEF BeliefsInv, TypeOK

LEMMA ClearedStep ==
  ASSUME BeliefsInv, micro # <<>>, NEW u \in Patients, Head(micro) = Task("cleared", u),
         Cleared(u)
  PROVE  BeliefsInv'
<1>1. Task("lock", u) \in Tasks /\ Task("lock", u).do \notin Holding
  BY TaskTypes DEF Task, Holding
<1>2. /\ Tail(micro) \in Seq(Tasks) /\ HoldersAct(Tail(micro), active)
      /\ \A x : Has(micro, x) /\ x # Head(micro) => Has(Tail(micro), x)
  BY FirstTaken
<1>3. micro' = Append(Tail(micro), Task("lock", u))
      /\ UNCHANGED <<drainVars, key, active, waiters, calls, seen>>
  BY DEF Cleared
<1>4. /\ micro' \in Seq(Tasks) /\ HoldersAct(micro', active')
      /\ \A x : Has(Tail(micro), x) => Has(micro', x)
  <2>1. HoldersAct(Append(Tail(micro), Task("lock", u)), active)
    BY <1>1, <1>2, AppendOrdered
  <2>2. Append(Tail(micro), Task("lock", u)) \in Seq(Tasks)
    BY <1>1, <1>2
  <2>3. \A x : Has(Tail(micro), x) => Has(Append(Tail(micro), Task("lock", u)), x)
    BY <1>1, <1>2, AppendHas
  <2> QED BY <1>3, <2>1, <2>2, <2>3
<1>5. \A k \in Houses : Task("finish", k) # Head(micro) /\ Task("answer", k) # Head(micro)
  BY DEF Task
<1>6. /\ Alone' /\ key' \in BOOLEAN /\ active' \subseteq Houses \cup Patients
      /\ seen' \subseteq Patients /\ waiters' \in Seq(Waits) /\ (waiters' # <<>> => key')
  BY <1>3 DEF BeliefsInv, Alone, TypeOK
<1> QED BY <1>2, <1>3, <1>4, <1>5, <1>6, QuietStep

LEMMA LockStep ==
  ASSUME BeliefsInv, micro # <<>>, NEW u \in Patients, Head(micro) = Task("lock", u),
         Lock(u)
  PROVE  BeliefsInv'
<1>1. /\ Task("lock", u) \in Waits /\ Task("job", u) \in Tasks
      /\ Task("job", u).do \in Holding /\ Task("job", u).who = u
  BY TaskTypes DEF Task, Holding
<1>2. /\ Tail(micro) \in Seq(Tasks) /\ HoldersAct(Tail(micro), active)
      /\ \A x : Has(micro, x) /\ x # Head(micro) => Has(Tail(micro), x)
  BY FirstTaken
<1>3. UNCHANGED <<drainVars, calls, seen>>
  BY DEF Lock
<1>4. \A k \in Houses : Task("finish", k) # Head(micro) /\ Task("answer", k) # Head(micro)
  BY DEF Task
<1>5. seen' \subseteq Patients
  BY <1>3 DEF BeliefsInv, TypeOK
<1>6. CASE ~key
  <2>1. /\ micro' = Append(Tail(micro), Task("job", u)) /\ UNCHANGED waiters
        /\ key' = TRUE /\ active' = active \cup {u}
    BY <1>6 DEF Lock, Free, TakeKey
  <2>2. active = {} /\ active' = {u}
    BY <1>6, <2>1 DEF BeliefsInv, Alone
  <2>3. /\ HoldersAct(Tail(micro), active')
        /\ \A i \in DOMAIN Tail(micro) : Tail(micro)[i].do \notin Holding
    BY <1>2, <2>2 DEF HoldersAct
  <2>4. micro' \in Seq(Tasks) /\ HoldersAct(micro', active')
    <3>1. HoldersAct(Append(Tail(micro), Task("job", u)), active')
      BY <1>1, <1>2, <2>2, <2>3, AppendHolder
    <3>2. Append(Tail(micro), Task("job", u)) \in Seq(Tasks)
      BY <1>1, <1>2
    <3> QED BY <2>1, <3>1, <3>2
  <2>5. \A x : Has(Tail(micro), x) => Has(micro', x)
    BY <1>1, <1>2, <2>1, AppendHas
  <2>6. Alone' /\ key' \in BOOLEAN /\ active' \subseteq Houses \cup Patients
        /\ waiters' \in Seq(Waits) /\ (waiters' # <<>> => key')
    BY <2>1, <2>2 DEF BeliefsInv, Alone, TypeOK
  <2> QED BY <1>2, <1>3, <1>4, <1>5, <2>2, <2>4, <2>5, <2>6, QuietStep
<1>7. CASE key
  <2>1. /\ micro' = Tail(micro) /\ waiters' = Append(waiters, Task("lock", u))
        /\ UNCHANGED <<key, active>>
    BY <1>7 DEF Lock, Free, WaitsAgain
  <2>2. Alone' /\ key' \in BOOLEAN /\ active' \subseteq Houses \cup Patients
        /\ waiters' \in Seq(Waits) /\ (waiters' # <<>> => key')
    BY <1>1, <1>7, <2>1 DEF BeliefsInv, Alone, TypeOK
  <2> QED BY <1>2, <1>3, <1>4, <1>5, <2>1, <2>2, QuietStep
<1> QED BY <1>6, <1>7 DEF BeliefsInv, TypeOK

LEMMA ReleaseStep ==
  ASSUME BeliefsInv, micro # <<>>, NEW who \in Houses \cup Patients,
         Head(micro) = Task("release", who), Release(who)
  PROVE  BeliefsInv'
<1> DEFINE q == Tail(micro) \o waiters
<1>1. /\ Tail(micro) \in Seq(Tasks) /\ who \in active
      /\ \A i \in DOMAIN Tail(micro) : Tail(micro)[i].do \notin Holding
      /\ \A x : Has(micro, x) /\ x # Head(micro) => Has(Tail(micro), x)
  BY FirstTaken DEF Task, Holding
<1>2. /\ key' = FALSE /\ active' = active \ {who}
      /\ waiters' = SubSeq(waiters, Len(waiters) + 1, Len(waiters))
      /\ micro' = q \o (IF who \in Houses THEN <<Task("finish", who)>> ELSE <<>>)
      /\ UNCHANGED <<drainVars, calls, seen>>
  BY DEF Release, Waked
<1>3. waiters \in Seq(Waits)
  BY DEF BeliefsInv, TypeOK
<1>4. active = {who} /\ active' = {}
  BY <1>1, <1>2 DEF BeliefsInv, Alone
<1>5. waiters' = <<>>
  BY <1>2, <1>3
<1>6. /\ q \in Seq(Tasks) /\ \A i \in DOMAIN q : q[i].do \notin Holding
      /\ \A x : Has(Tail(micro), x) => Has(q, x)
  <2>1. waiters \in Seq(Tasks)
    BY <1>3 DEF Tasks
  <2>2. \A i \in DOMAIN waiters : waiters[i].do \notin Holding
    <3>1. \A i \in DOMAIN waiters : waiters[i] \in Waits
      BY <1>3
    <3>2. \A t \in Waits : t.do \notin Holding
      BY DEF Waits, Holding
    <3> QED BY <3>1, <3>2
  <2>3. ASSUME NEW s \in Seq(Tasks), NEW w \in Seq(Tasks)
        PROVE  /\ s \o w \in Seq(Tasks)
               /\ \A i \in DOMAIN s : i \in DOMAIN (s \o w) /\ (s \o w)[i] = s[i]
               /\ \A i \in DOMAIN (s \o w) :
                    \/ i \in DOMAIN s /\ (s \o w)[i] = s[i]
                    \/ i - Len(s) \in DOMAIN w /\ (s \o w)[i] = w[i - Len(s)]
    OBVIOUS
  <2>4. /\ q \in Seq(Tasks)
        /\ \A i \in DOMAIN Tail(micro) : i \in DOMAIN q /\ q[i] = Tail(micro)[i]
        /\ \A i \in DOMAIN q :
             \/ i \in DOMAIN Tail(micro) /\ q[i] = Tail(micro)[i]
             \/ i - Len(Tail(micro)) \in DOMAIN waiters
                /\ q[i] = waiters[i - Len(Tail(micro))]
    BY <1>1, <2>1, <2>3
  <2> HIDE DEF q
  <2> QED BY <1>1, <2>2, <2>4 DEF Has
<1> HIDE DEF q
<1>7. HoldersAct(q, active')
  BY <1>6 DEF HoldersAct
<1>8. /\ micro' \in Seq(Tasks) /\ HoldersAct(micro', active')
      /\ \A x : Has(q, x) => Has(micro', x)
      /\ who \in Houses => Has(micro', Task("finish", who))
  <2>1. CASE who \in Houses
    <3>1. Task("finish", who) \in Tasks /\ Task("finish", who).do \notin Holding
      BY <2>1, TaskTypes DEF Task, Holding
    <3>2. micro' = Append(q, Task("finish", who))
      BY <1>2, <1>6, <2>1, <3>1
    <3>3. HoldersAct(Append(q, Task("finish", who)), active')
      BY <1>6, <1>7, <3>1, AppendOrdered
    <3>4. /\ Has(Append(q, Task("finish", who)), Task("finish", who))
          /\ \A x : Has(q, x) => Has(Append(q, Task("finish", who)), x)
      BY <1>6, <3>1, AppendHas
    <3>5. Append(q, Task("finish", who)) \in Seq(Tasks)
      BY <1>6, <3>1
    <3> QED BY <3>2, <3>3, <3>4, <3>5
  <2>2. CASE who \notin Houses
    <3>1. micro' = q
      BY <1>2, <1>6, <2>2
    <3> QED BY <1>6, <1>7, <2>2, <3>1
  <2> QED BY <2>1, <2>2
<1>9. \A k \in Houses :
        /\ Has(micro, Task("finish", k)) => Has(micro', Task("finish", k))
        /\ Has(micro, Task("answer", k)) => Has(micro', Task("answer", k))
  <2>1. \A k \in Houses : Task("finish", k) # Head(micro) /\ Task("answer", k) # Head(micro)
    BY DEF Task
  <2> QED BY <1>1, <1>6, <1>8, <2>1
<1>10. TypeOK'
  <2>1. waiters' \in Seq(Waits)
    BY <1>5
  <2> QED BY <1>2, <1>4, <1>5, <1>8, <2>1 DEF BeliefsInv, TypeOK, drainVars
<1>11. Gated' /\ KnockedStarted'
  BY <1>2 DEF BeliefsInv, Gated, KnockedStarted, Started, drainVars
<1>12. Alone'
  BY <1>2, <1>4 DEF Alone
<1>13. BegunRuns'
  <2>1. ASSUME NEW k \in Houses, began[k] PROVE k = who \/ Has(micro', Task("finish", k))
    BY <1>4, <1>9, <2>1 DEF BeliefsInv, BegunRuns, Has
  <2> QED BY <1>2, <1>8, <2>1 DEF BegunRuns, Has, drainVars
<1>14. Driven'
  BY <1>2, <1>9 DEF BeliefsInv, Driven, Has, drainVars
<1> QED BY <1>8, <1>10, <1>11, <1>12, <1>13, <1>14 DEF BeliefsInv

LEMMA FinishStep ==
  ASSUME BeliefsInv, micro # <<>>, NEW h \in Houses, Head(micro) = Task("finish", h),
         Finish(h)
  PROVE  BeliefsInv'
<1>1. /\ Tail(micro) \in Seq(Tasks) /\ HoldersAct(Tail(micro), active)
      /\ \A x : Has(micro, x) /\ x # Head(micro) => Has(Tail(micro), x)
  BY FirstTaken
<1>2. /\ micro' = Tail(micro)
      /\ began' = [began EXCEPT ![h] = FALSE]
      /\ UNCHANGED <<todo, life, knocked, gate, key, active, waiters, calls, seen>>
      /\ look' = [look EXCEPT ![h] = @ \/ todo[h] # <<>>]
  BY DEF Finish
<1>3. \A k \in Houses : /\ k # h /\ Has(micro, Task("finish", k)) =>
                            Has(micro', Task("finish", k))
                        /\ Has(micro, Task("answer", k)) => Has(micro', Task("answer", k))
  BY <1>1, <1>2 DEF Task
<1>4. TypeOK'
  BY <1>1, <1>2 DEF BeliefsInv, TypeOK
<1>5. Gated' /\ KnockedStarted' /\ Alone' /\ HoldersAct(micro', active')
  BY <1>1, <1>2 DEF BeliefsInv, Gated, KnockedStarted, Started, Alone
<1>6. BegunRuns'
  BY <1>2, <1>3 DEF BeliefsInv, TypeOK, BegunRuns, Has
<1>7. Driven'
  BY <1>2, <1>3 DEF BeliefsInv, TypeOK, Driven, Has
<1> QED BY <1>4, <1>5, <1>6, <1>7 DEF BeliefsInv

LEMMA JobResumesStep ==
  ASSUME BeliefsInv, NEW who \in Houses \cup Patients, NEW ends \in BOOLEAN,
         JobResumes(who, ends)
  PROVE  BeliefsInv'
<1>1. who \in active /\ JobStep(who, ends, micro)
  BY DEF JobResumes
<1>2. \A i \in DOMAIN micro : micro[i].do \notin Holding
  <2> SUFFICES ASSUME NEW i \in DOMAIN micro, micro[i].do \in Holding PROVE FALSE
    OBVIOUS
  <2>1. micro[i].who = who
    BY <1>1 DEF BeliefsInv, HoldersAct, Alone
  <2>2. micro[i] \in Tasks
    BY DEF BeliefsInv, TypeOK
  <2>3. micro[i] \in {Task("job", who), Task("release", who)}
    BY <2>1, <2>2 DEF Task, Tasks, Waits, Holding
  <2> QED BY <2>3 DEF JobResumes
<1> QED BY <1>1, <1>2, AsTheyAre, JobTurn

LEMMA MicrotaskStep ==
  ASSUME BeliefsInv, Microtask
  PROVE  BeliefsInv'
<1>1. micro # <<>> /\ Head(micro) \in Tasks
  BY FirstTaken DEF Microtask
<1> DEFINE who == Head(micro).who
<1>2. Head(micro) = Task(Head(micro).do, who)
  BY <1>1 DEF Task, Tasks, Waits
<1>3. CASE Head(micro).do = "answer"
  BY <1>1, <1>2, <1>3, AnswerStep DEF Microtask, Tasks, Waits
<1>4. CASE Head(micro).do = "finish"
  BY <1>1, <1>2, <1>4, FinishStep DEF Microtask, Tasks, Waits
<1>5. CASE Head(micro).do = "cleared"
  BY <1>1, <1>2, <1>5, ClearedStep DEF Microtask, Tasks, Waits
<1>6. CASE Head(micro).do = "lock"
  BY <1>1, <1>2, <1>6, LockStep DEF Microtask, Tasks, Waits
<1>7. CASE Head(micro).do = "release"
  BY <1>1, <1>2, <1>7, ReleaseStep DEF Microtask, Tasks, Waits
<1>8. CASE Head(micro).do = "job"
  <2>1. PICK ends \in BOOLEAN : JobStep(who, ends, Tail(micro))
    BY <1>8 DEF Microtask
  <2>2. /\ who \in active /\ Tail(micro) \in Seq(Tasks) /\ HoldersAct(Tail(micro), active)
        /\ \A i \in DOMAIN Tail(micro) : Tail(micro)[i].do \notin Holding
        /\ \A x : Has(micro, x) /\ x # Head(micro) => Has(Tail(micro), x)
    BY <1>1, <1>8, FirstTaken DEF Holding
  <2>3. Left(Tail(micro))
    BY <1>8, <2>2 DEF Left, Task
  <2> QED BY <2>1, <2>2, <2>3, JobTurn
<1> QED BY <1>1, <1>3, <1>4, <1>5, <1>6, <1>7, <1>8 DEF Tasks, Waits

LEMMA InitInv == Init => BeliefsInv
<1> SUFFICES ASSUME Init PROVE BeliefsInv
  OBVIOUS
<1>1. micro = <<>> /\ DOMAIN micro = {}
  BY DEF Init
<1>2. <<>> \in Seq(Rows) /\ <<>> \in Seq(Tasks) /\ <<>> \in Seq(Waits)
  OBVIOUS
<1>3. TypeOK
  <2> DEFINE g == [waiting |-> FALSE, pending |-> FALSE, timers |-> 0]
             G == [waiting : BOOLEAN, pending : BOOLEAN, timers : 0..MaxGates]
  <2>1. g \in G
    BY BeliefsAssumption
  <2>2. gate = [h \in Houses |-> g]
    BY DEF Init
  <2> HIDE DEF g, G
  <2>3. gate \in [Houses -> G]
    BY <2>1, <2>2
  <2>4. todo \in [Houses -> Seq(Rows)] /\ micro \in Seq(Tasks) /\ waiters \in Seq(Waits)
    BY <1>2 DEF Init
  <2>5. calls \in 0..MaxCalls
    BY BeliefsAssumption DEF Init
  <2> QED BY <2>3, <2>4, <2>5 DEF Init, TypeOK, G
<1>4. HoldersAct(micro, active)
  BY <1>1 DEF HoldersAct
<1>5. Gated /\ KnockedStarted /\ Alone /\ BegunRuns /\ Driven
  BY BeliefsAssumption DEF Init, Gated, KnockedStarted, Alone, BegunRuns, Driven
<1> QED BY <1>3, <1>4, <1>5 DEF BeliefsInv

LEMMA BeliefsInductive == BeliefsInv /\ [Next]_vars => BeliefsInv'
<1> SUFFICES ASSUME BeliefsInv, [Next]_vars PROVE BeliefsInv'
  OBVIOUS
<1>1. CASE Microtask
  BY <1>1, MicrotaskStep
<1>2. ASSUME NEW h \in Houses, GateTimer(h) \/ LookTimer(h) \/ Poke(h) \/ Start(h) \/ Stop(h)
      PROVE  BeliefsInv'
  BY <1>2, TimerStep, StartStopStep
<1>3. ASSUME NEW h \in Houses, NEW row \in Rows,
             PushFromOutside(h, row) \/ HandOnGuard(h, row)
      PROVE  BeliefsInv'
  BY <1>3, PushFromOutsideStep
<1>4. ASSUME NEW u \in Patients, UItime(u) PROVE BeliefsInv'
  BY <1>4, UItimeStep
<1>5. ASSUME NEW who \in Houses \cup Patients, NEW ends \in BOOLEAN, JobResumes(who, ends)
      PROVE  BeliefsInv'
  BY <1>5, JobResumesStep
<1>6. CASE UNCHANGED vars
  BY <1>6 DEF vars, drainVars, BeliefsInv, TypeOK, Gated, KnockedStarted, Started, Alone,
              HoldersAct, BegunRuns, Driven
<1> QED BY <1>1, <1>2, <1>3, <1>4, <1>5, <1>6 DEF Next

LEMMA InvHolds == Spec => []BeliefsInv
BY InitInv, BeliefsInductive, PTL DEF Spec

-----------------------------------------------------------------------------
\* Housing: every state has the shape the code gives it, and who waits on the
\* mutex waits on a promise that will be resolved.
THEOREM TypeCorrect == Spec => []TypeOK
<1>1. BeliefsInv => TypeOK
  BY DEF BeliefsInv
<1> QED BY <1>1, InvHolds, PTL

\* mutex: one belief cycle or UItime transaction at a time.
THEOREM Exclusion == Spec => []RunsAlone
<1>1. BeliefsInv => RunsAlone
  <2> SUFFICES ASSUME BeliefsInv PROVE RunsAlone
    OBVIOUS
  <2>1. CASE active = {}
    BY <2>1, FS_EmptySet DEF BeliefsInv, Alone, RunsAlone
  <2>2. CASE active # {}
    <3>1. PICK a \in active : active = {a}
      BY <2>2 DEF BeliefsInv, Alone
    <3>2. Cardinality(active) = 1
      BY <3>1, FS_Singleton
    <3> QED BY <3>2 DEF BeliefsInv, Alone, RunsAlone
  <2> QED BY <2>1, <2>2
<1> QED BY <1>1, InvHolds, PTL

\* _push_todo, answer_calls: no wake-up of a House whose rows wait is lost.
THEOREM NoWakeUpLost == Spec => []Driven
<1>1. BeliefsInv => Driven
  BY DEF BeliefsInv
<1> QED BY <1>1, InvHolds, PTL

-----------------------------------------------------------------------------
\* Lengths before and after, subtracted.
LEMMA Differences ==
  /\ \A x \in Nat : ~(x - x > 0) /\ ~(x - (x + 1) > 0)
  /\ \A x, n \in Nat : x - (x - 1 - n) = n + 1
OBVIOUS

\* What a look takes off a queue.
LEMMA LookTakes ==
  ASSUME BeliefsInv, NEW k \in Houses, NEW queue, Really(k, queue), NEW h \in Houses
  PROVE  Answered(h)
<1> DEFINE e == Head(todo[k])
           rest == Tail(todo[k])
           n == Merged(e, rest)
           gone == Len(todo[h]) - Len(todo'[h])
<1> SUFFICES ASSUME gone > 0
             PROVE  \/ /\ h \in active' \ active
                       /\ \A i \in 2..gone :
                            /\ todo[h][i].kind = "think"
                            /\ LooksAt(todo[h][i]) \subseteq LooksAt(todo[h][1])
                    \/ ~key /\ Has(micro, Task("finish", h))
  BY DEF Answered, Has
<1>1. \A j \in Houses : todo[j] \in Seq(Rows)
  BY DEF BeliefsInv, TypeOK
<1>2. todo' # todo
  <2>1. Len(todo[h]) \in Nat
    BY <1>1
  <2>2. todo' = todo => Len(todo'[h]) = Len(todo[h])
    BY Zenon
  <2> QED BY <2>1, <2>2, Differences, Zenon
<1>3. /\ ~key /\ todo[k] # <<>>
      /\ todo' = [todo EXCEPT ![k] = SubSeq(rest, n + 1, Len(rest))]
      /\ ~began[k] => TakeKey(k, queue)
  BY <1>2 DEF Really
<1>4. h = k
  <2>1. Len(todo[h]) \in Nat
    BY <1>1
  <2> QED BY <1>3, <2>1 DEF BeliefsInv, TypeOK
<1>5. e \in Rows /\ rest \in Seq(Rows) /\ e = todo[k][1]
      /\ Len(rest) = Len(todo[k]) - 1
      /\ \A i \in 1..Len(rest) : rest[i] = todo[k][i + 1]
  BY <1>1, <1>3
<1>6. /\ n \in 0..Len(rest)
      /\ \A i \in 1..n : /\ rest[i].kind = "think"
                        /\ LooksAt(rest[i]) \subseteq LooksAt(e)
  BY <1>5, MergedProperties
<1> HIDE DEF e, rest, n
<1>7. gone = n + 1
  <2>1. Len(SubSeq(rest, n + 1, Len(rest))) = Len(rest) - n
    BY <1>5, <1>6
  <2>2. todo'[h] = SubSeq(rest, n + 1, Len(rest))
    BY <1>3, <1>4 DEF BeliefsInv, TypeOK
  <2>3. Len(todo[k]) \in Nat /\ n \in Nat
    BY <1>1, <1>5, <1>6
  <2>4. Len(todo'[h]) = Len(todo[h]) - 1 - n
    BY <1>4, <1>5, <2>1, <2>2
  <2> QED BY <1>4, <2>3, <2>4, Differences, Zenon
<1>8. CASE began[k]
  BY <1>3, <1>4, <1>8 DEF BeliefsInv, BegunRuns, Alone, Has
<1>9. CASE ~began[k]
  <2>1. h \in active' \ active
    BY <1>3, <1>4, <1>9 DEF TakeKey, BeliefsInv, Alone
  <2> HIDE DEF gone
  <2>2. ASSUME NEW i \in 2..gone
        PROVE  /\ todo[h][i].kind = "think"
               /\ LooksAt(todo[h][i]) \subseteq LooksAt(todo[h][1])
    <3>1. i - 1 \in 1..n /\ i - 1 \in 1..Len(rest) /\ (i - 1) + 1 = i
      BY <1>6, <1>7
    <3>2. rest[i - 1] = todo[h][i]
      BY <1>4, <1>5, <3>1
    <3> QED BY <1>4, <1>5, <1>6, <3>1, <3>2
  <2> QED BY <2>1, <2>2
<1> QED BY <1>8, <1>9

\* A push, and whatever leaves the queues alone, takes nothing.
LEMMA OthersTakeNone ==
  ASSUME BeliefsInv, NEW h \in Houses,
         \/ todo' = todo
         \/ \E k \in Houses : \E row : todo' = [todo EXCEPT ![k] = Append(@, row)]
  PROVE  Answered(h)
<1>1. todo[h] \in Seq(Rows) /\ Len(todo[h]) \in Nat
  BY DEF BeliefsInv, TypeOK
<1>2. Len(todo'[h]) \in {Len(todo[h]), Len(todo[h]) + 1}
  <2>1. CASE todo' = todo
    BY <2>1
  <2>2. ASSUME NEW k \in Houses, NEW row, todo' = [todo EXCEPT ![k] = Append(@, row)]
        PROVE  Len(todo'[h]) \in {Len(todo[h]), Len(todo[h]) + 1}
    <3>1. todo'[h] = IF h = k THEN Append(todo[h], row) ELSE todo[h]
      BY <2>2 DEF BeliefsInv, TypeOK
    <3>2. Len(Append(todo[h], row)) = Len(todo[h]) + 1
      BY <1>1
    <3> QED BY <3>1, <3>2
  <2> QED BY <2>1, <2>2
<1>3. ~(Len(todo[h]) - Len(todo'[h]) > 0)
  BY <1>1, <1>2, Differences, Zenon
<1> QED BY <1>3 DEF Answered

\* Whichever step it is, what it takes off a queue is answered.
LEMMA StepAnswers ==
  ASSUME BeliefsInv, [Next]_vars, NEW h \in Houses
  PROVE  Answered(h)
<1>1. ASSUME NEW k \in Houses, NEW g, NEW stands, NEW queue,
             AnswerCalls(k, g, stands, queue)
      PROVE  Answered(h)
  BY <1>1, LookTakes, OthersTakeNone DEF AnswerCalls
<1>2. ASSUME NEW k \in Houses, NEW row, NEW waiting, NEW queue, NEW after,
             Push(k, row, waiting, queue, after)
      PROVE  Answered(h)
  BY <1>2, OthersTakeNone DEF Push
<1>3. ASSUME NEW who, NEW ends, NEW queue, JobStep(who, ends, queue)
      PROVE  Answered(h)
  BY <1>2, <1>3, OthersTakeNone DEF JobStep
<1>4. CASE Microtask
  <2>1. Head(micro) \in Tasks
    BY <1>4, FirstTaken DEF Microtask
  <2> DEFINE who == Head(micro).who
  <2>2. CASE Head(micro).do = "answer"
    <3>1. who \in Houses /\ Answer(who)
      BY <1>4, <2>1, <2>2 DEF Microtask, Tasks, Waits
    <3> QED BY <1>1, <3>1 DEF Answer
  <2>3. CASE Head(micro).do = "job"
    BY <1>3, <1>4, <2>3 DEF Microtask
  <2>4. CASE Head(micro).do \in {"finish", "cleared", "lock", "release"}
    <3>1. Finish(who) \/ Cleared(who) \/ Lock(who) \/ Release(who)
      BY <1>4, <2>4 DEF Microtask
    <3>2. todo' = todo
      BY <3>1 DEF Finish, Cleared, Lock, Release, drainVars
    <3> QED BY <3>2, OthersTakeNone
  <2> QED BY <2>1, <2>2, <2>3, <2>4 DEF Tasks, Waits
<1>5. ASSUME NEW k \in Houses, GateTimer(k) \/ LookTimer(k) \/ Poke(k)
      PROVE  Answered(h)
  BY <1>1, <1>5, OthersTakeNone DEF GateTimer, LookTimer, Poke
<1>6. ASSUME NEW k \in Houses, NEW row \in Rows,
             PushFromOutside(k, row) \/ HandOnGuard(k, row)
      PROVE  Answered(h)
  BY <1>2, <1>6 DEF PushFromOutside, HandOnGuard
<1>7. ASSUME NEW k \in Houses, Start(k) \/ Stop(k)
      PROVE  Answered(h)
  BY <1>7, OthersTakeNone DEF Start, Stop
<1>8. ASSUME NEW u \in Patients, UItime(u)
      PROVE  Answered(h)
  BY <1>8, OthersTakeNone DEF UItime, drainVars
<1>9. ASSUME NEW who, NEW ends, JobResumes(who, ends)
      PROVE  Answered(h)
  BY <1>3, <1>9 DEF JobResumes
<1>10. CASE UNCHANGED vars
  BY <1>10, OthersTakeNone DEF vars, drainVars
<1> QED BY <1>4, <1>5, <1>6, <1>7, <1>8, <1>9, <1>10 DEF Next

\* _really_answer_calls: what leaves the queue is answered by a run that looks
\* wherever it would have; rows are thrown away only between a job's release of
\* the mutex and the end of its run.
THEOREM NoneMislaid == Spec => NothingMislaid
<1>1. BeliefsInv /\ [Next]_vars => [\A h \in Houses : Answered(h)]_vars
  BY StepAnswers
<1> QED BY <1>1, InvHolds, PTL DEF Spec, NothingMislaid
=============================================================================
