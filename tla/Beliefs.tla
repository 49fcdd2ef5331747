------------------------------ MODULE Beliefs ------------------------------
(***************************************************************************)
(* How a House gets its rows run: the todo queue, the throttled drain and  *)
(* the beliefs mutex every House of a tab shares                           *)
(* (src/src/lib/O/Housing.svelte.ts).                                      *)
(*                                                                         *)
(* There is one thread.  A task (a timer, a socket event) runs to its end  *)
(* and then the microtasks it left run, first in first out, before the     *)
(* next task.  "micro" is that queue; what a wait on the mutex resumes     *)
(* with, and in which order, is decided there.  What comes from outside (a *)
(* push, a poke, a transaction, a job that goes on) may come from a task   *)
(* or from a microtask of its own, so between any two that are queued;     *)
(* the timers are tasks.                                                   *)
(*                                                                         *)
(* A row is a posted function or a think, which looks at every world or is *)
(* aimed at one.  Left out: what a job does besides pushing rows, the      *)
(* gallop (it only shortens the waits) and the door of a Story's Run House *)
(* (thinks pushed while it is shut never reach the queue).                 *)
(***************************************************************************)
EXTENDS Naturals, Sequences, FiniteSets

CONSTANTS Houses,   \* the Houses of one tab
          Patients, \* UItime transactions, each once
          Worlds, Wide,
          MaxCalls, \* bound: rows pushed and pokes
          MaxGates  \* bound: gate timers of one House at once

ASSUME BeliefsAssumption ==
  /\ Houses \cap Patients = {} /\ Wide \notin Worlds
  /\ MaxCalls \in Nat /\ MaxGates \in Nat \ {0}

VARIABLES
  todo,    \* H.todo
  life,    \* started and stopped: new, on or off
  knocked, \* history: since it started, H was pushed to or looked at
  gate,    \* answer_calls_waiting, answer_calls_pending and the timers that
           \* will clear them
  look,    \* a timer to call answer_calls stands
  began,   \* began_run is set and finished_run is not
  key,     \* c._mutex_beliefs exists
  active,  \* who is between taking the key and giving it back
  waiters, \* waits on the promise of the key, in order
  micro,   \* the microtasks
  calls,   \* rows pushed and pokes so far
  seen     \* the transactions that came

drainVars == <<todo, life, knocked, gate, look, began>>
vars == <<drainVars, key, active, waiters, micro, calls, seen>>

Rows == [id : 1..MaxCalls, kind : {"fn"}, aim : {Wide}]
          \cup [id : 1..MaxCalls, kind : {"think"}, aim : Worlds \cup {Wide}]
Task(what, who) == [do |-> what, who |-> who]
Waits == [do : {"cleared", "lock"}, who : Patients]
Tasks == [do : {"answer", "finish"}, who : Houses] \cup Waits
           \cup [do : {"job", "release"}, who : Houses \cup Patients]

Init ==
  /\ todo = [h \in Houses |-> <<>>]
  /\ life = [h \in Houses |-> "new"]
  /\ knocked = [h \in Houses |-> FALSE]
  /\ gate = [h \in Houses |-> [waiting |-> FALSE, pending |-> FALSE, timers |-> 0]]
  /\ look = [h \in Houses |-> FALSE]
  /\ began = [h \in Houses |-> FALSE]
  /\ key = FALSE /\ active = {} /\ waiters = <<>> /\ micro = <<>>
  /\ calls = 0 /\ seen = {}

Started(h) == life[h] # "new"

-----------------------------------------------------------------------------
\* answer_calls.

\* Mutated form: every think at the head is merged into the one that runs.
CoversAny(e, t) == TRUE

\* A row that a run of e answers as well: a think that looks wherever it would.
Covers(e, t) == e.aim = Wide \/ e.aim = t.aim

\* The thinks at the head of the rest that e takes with it.
Merged(e, rest) ==
  IF e.kind # "think" THEN 0
  ELSE CHOOSE k \in 0..Len(rest) :
         /\ \A i \in 1..k : rest[i].kind = "think" /\ Covers(e, rest[i])
         /\ k < Len(rest) => rest[k + 1].kind # "think" \/ ~Covers(e, rest[k + 1])

\* What e looks at, whatever the code takes it to cover.
LooksAt(e) == IF e.kind # "think" THEN {}
              ELSE IF e.aim = Wide THEN Worlds ELSE {e.aim}

TakeKey(who, queue) ==
  /\ key' = TRUE /\ active' = active \cup {who}
  /\ micro' = Append(queue, Task("job", who))

\* _really_answer_calls, up to where the job has the mutex; "queue" is what is
\* left of the microtasks.  The rows are taken before a run that has begun is
\* noticed: then "double answer_calls()" is thrown and they are gone.
Really(h, queue) ==
  IF ~Started(h) \/ key \/ todo[h] = <<>>
  THEN micro' = queue /\ UNCHANGED <<todo, began, key, active>>
  ELSE LET rest == Tail(todo[h])
           n == Merged(Head(todo[h]), rest)
       IN /\ todo' = [todo EXCEPT ![h] = SubSeq(rest, n + 1, Len(rest))]
          /\ began' = [began EXCEPT ![h] = TRUE]
          /\ IF began[h] THEN micro' = queue /\ UNCHANGED <<key, active>>
             ELSE TakeKey(h, queue)

\* answer_calls: at a gate that stands as g, with a timer to look again that
\* already stands or does not.
AnswerCalls(h, g, stands, queue) ==
  /\ knocked' = [knocked EXCEPT ![h] = @ \/ Started(h)]
  /\ IF g.waiting
     THEN /\ gate' = [gate EXCEPT ![h] = [g EXCEPT !.pending = TRUE]]
          /\ look' = [look EXCEPT ![h] = stands]
          /\ micro' = queue
          /\ UNCHANGED <<todo, began, key, active>>
     ELSE /\ gate' = [gate EXCEPT ![h] = [waiting |-> TRUE, pending |-> g.pending,
                                          timers |-> g.timers + 1]]
          /\ look' = [look EXCEPT ![h] = stands \/ (Started(h) /\ key)]
          /\ Really(h, queue)

\* Mutated form: the gate's timer comes back only for a call that bounced.
ComesBackIfCalled(h) == gate[h].pending

ComesBack(h) == gate[h].pending \/ todo[h] # <<>>

GateTimer(h) ==
  LET g == [waiting |-> FALSE, pending |-> FALSE, timers |-> gate[h].timers - 1]
  IN /\ micro = <<>> /\ gate[h].timers > 0
     /\ IF ComesBack(h) /\ life[h] = "on" THEN AnswerCalls(h, g, look[h], micro)
        ELSE /\ gate' = [gate EXCEPT ![h] = g]
             /\ UNCHANGED <<todo, knocked, look, began, key, active, micro>>
     /\ UNCHANGED <<life, waiters, calls, seen>>

LookTimer(h) ==
  /\ micro = <<>> /\ look[h]
  /\ AnswerCalls(h, gate[h], FALSE, micro)
  /\ UNCHANGED <<life, waiters, calls, seen>>

\* todo_version's effect, an urgent post_do, Story's prod: answer_calls from
\* outside, in any task or microtask.
Poke(h) ==
  /\ calls < MaxCalls /\ calls' = calls + 1
  /\ AnswerCalls(h, gate[h], look[h], micro)
  /\ UNCHANGED <<life, waiters, seen>>

-----------------------------------------------------------------------------
\* Pushes.

\* _push_todo: the push drives its own drain through a microtask, unless the
\* gate's timer will look.
Push(h, row, waiting, queue, after) ==
  /\ calls < MaxCalls /\ calls' = calls + 1 /\ row.id = calls'
  /\ todo' = [todo EXCEPT ![h] = Append(@, row)]
  /\ knocked' = [knocked EXCEPT ![h] = @ \/ Started(h)]
  /\ micro' = queue \o (IF ~waiting /\ life[h] = "on" THEN <<Task("answer", h)>>
                       ELSE <<>>) \o after

\* A push from any task or microtask: a socket event, the callback of a promise.
PushFromOutside(h, row) ==
  /\ Push(h, row, gate[h].waiting, micro, <<>>)
  /\ UNCHANGED <<life, gate, look, began, key, active, waiters, seen>>

\* The hand-on guard of a settled disk reply: it clears the flag of a gate whose
\* timer stands, and thinks.
HandOnGuard(h, row) ==
  /\ micro = <<>> /\ life[h] # "off"
  /\ row.kind = "think" /\ row.aim = Wide /\ gate[h].timers < MaxGates
  /\ gate' = [gate EXCEPT ![h].waiting = FALSE]
  /\ Push(h, row, FALSE, micro, <<>>)
  /\ UNCHANGED <<life, look, began, key, active, waiters, seen>>

Start(h) ==
  /\ life[h] = "new"
  /\ life' = [life EXCEPT ![h] = "on"]
  /\ UNCHANGED <<todo, knocked, gate, look, began, key, active, waiters, micro,
                 calls, seen>>

Stop(h) ==
  /\ life[h] = "on"
  /\ life' = [life EXCEPT ![h] = "off"]
  /\ UNCHANGED <<todo, knocked, gate, look, began, key, active, waiters, micro,
                 calls, seen>>
-----------------------------------------------------------------------------
\* The mutex, and the jobs under it.

\* A job goes on: it may push, to its own House or another's, and may end, well
\* or by throwing.
JobStep(who, ends, queue) ==
  LET after == IF ends THEN <<Task("release", who)>> ELSE <<>>
  IN /\ \/ micro' = queue \o after /\ UNCHANGED <<todo, knocked, calls>>
        \/ \E h \in Houses, row \in Rows : Push(h, row, gate[h].waiting, queue, after)
     /\ UNCHANGED <<life, gate, look, began, key, active, waiters, seen>>

\* What who awaits settles, in any task or microtask; a job that has yet to begin,
\* or has ended, awaits nothing.
JobResumes(who, ends) ==
  /\ who \in active
  /\ \A i \in DOMAIN micro : micro[i] \notin {Task("job", who), Task("release", who)}
  /\ JobStep(who, ends, micro)

\* UItime, from any task or microtask: waits for the key that is there, if one is,
\* and then contends for it.
UItime(u) ==
  /\ u \notin seen /\ seen' = seen \cup {u}
  /\ IF key THEN waiters' = Append(waiters, Task("cleared", u)) /\ UNCHANGED micro
     ELSE micro' = Append(micro, Task("lock", u)) /\ UNCHANGED waiters
  /\ UNCHANGED <<drainVars, key, active, calls>>

Cleared(u) ==
  /\ micro' = Append(Tail(micro), Task("lock", u))
  /\ UNCHANGED <<drainVars, key, active, waiters, calls, seen>>

\* Mutated form: who was waked does not look again.
FreeFor(u) == TRUE

\* mutex: a waiter that finds the key taken again waits again.
Free(u) == ~key

\* Mutated form: who finds the key taken again gives up.
GivesUp(u) == waiters

WaitsAgain(u) == Append(waiters, Task("lock", u))

Lock(u) ==
  /\ IF Free(u) THEN TakeKey(u, Tail(micro)) /\ UNCHANGED waiters
     ELSE /\ waiters' = WaitsAgain(u)
          /\ micro' = Tail(micro) /\ UNCHANGED <<key, active>>
  /\ UNCHANGED <<drainVars, calls, seen>>

\* Whom the promise of the key resumes.
Waked == waiters

\* The end of mutex: the key goes, its waiters resume, and then the drain that
\* awaited the job.
Release(who) ==
  /\ key' = FALSE /\ active' = active \ {who}
  /\ waiters' = SubSeq(waiters, Len(Waked) + 1, Len(waiters))
  /\ micro' = Tail(micro) \o Waked
                \o (IF who \in Houses THEN <<Task("finish", who)>> ELSE <<>>)
  /\ UNCHANGED <<drainVars, calls, seen>>

\* The end of _really_answer_calls.
Finish(h) ==
  /\ micro' = Tail(micro)
  /\ began' = [began EXCEPT ![h] = FALSE]
  /\ look' = [look EXCEPT ![h] = @ \/ todo[h] # <<>>]
  /\ UNCHANGED <<todo, life, knocked, gate, key, active, waiters, calls, seen>>

Answer(h) ==
  /\ AnswerCalls(h, gate[h], look[h], Tail(micro))
  /\ UNCHANGED <<life, waiters, calls, seen>>

Microtask ==
  /\ micro # <<>>
  /\ LET who == Head(micro).who
     IN CASE Head(micro).do = "answer" -> Answer(who)
          [] Head(micro).do = "finish" -> Finish(who)
          [] Head(micro).do = "cleared" -> Cleared(who)
          [] Head(micro).do = "lock" -> Lock(who)
          [] Head(micro).do = "release" -> Release(who)
          [] Head(micro).do = "job" ->
               \E ends \in BOOLEAN : JobStep(who, ends, Tail(micro))

Next ==
  \/ Microtask
  \/ \E h \in Houses : GateTimer(h) \/ LookTimer(h) \/ Poke(h) \/ Start(h) \/ Stop(h)
  \/ \E h \in Houses, row \in Rows : PushFromOutside(h, row) \/ HandOnGuard(h, row)
  \/ \E u \in Patients : UItime(u)
  \/ \E who \in Houses \cup Patients, ends \in BOOLEAN : JobResumes(who, ends)

Spec == Init /\ [][Next]_vars

\* Microtasks run, timers go off, and no job awaits for ever.
FairSpec ==
  /\ Spec
  /\ WF_vars(Microtask)
  /\ \A h \in Houses : WF_vars(GateTimer(h)) /\ WF_vars(LookTimer(h))
  /\ \A who \in Houses \cup Patients : WF_vars(JobResumes(who, TRUE))

-----------------------------------------------------------------------------
\* Type correctness; and who waits, waits on a key that is there.
TypeOK ==
  /\ todo \in [Houses -> Seq(Rows)] /\ life \in [Houses -> {"new", "on", "off"}]
  /\ knocked \in [Houses -> BOOLEAN]
  /\ gate \in [Houses -> [waiting : BOOLEAN, pending : BOOLEAN, timers : 0..MaxGates]]
  /\ look \in [Houses -> BOOLEAN] /\ began \in [Houses -> BOOLEAN]
  /\ key \in BOOLEAN /\ active \subseteq Houses \cup Patients
  /\ waiters \in Seq(Waits) /\ micro \in Seq(Tasks)
  /\ calls \in 0..MaxCalls /\ seen \subseteq Patients
  /\ waiters # <<>> => key

\* One belief cycle or UItime transaction at a time, whoever waits, barges in or
\* is waked together with others.
RunsAlone == Cardinality(active) <= 1 /\ (key <=> active # {})

\* No wake-up is lost ("a row waiting is enough now", _push_todo): while rows
\* wait at a running House that was pushed to or looked at since it started,
\* something is on its way that will look at them.
Driven ==
  \A h \in Houses :
    life[h] = "on" /\ knocked[h] /\ todo[h] # <<>> =>
      \/ gate[h].timers > 0 \/ look[h]
      \/ \E i \in DOMAIN micro : micro[i] = Task("answer", h)

\* A row leaves its queue only to be answered: it is the head and its run begins,
\* or a think merged into that run, which looks wherever it would have.  One
\* exception: while the run before has given the key back and is not marked
\* finished (its continuation is queued), a look takes the rows and throws "double
\* answer_calls()".
Answered(h) ==
  LET gone == Len(todo[h]) - Len(todo'[h])
  IN gone > 0 =>
       \/ /\ h \in active' \ active
          /\ \A i \in 2..gone : /\ todo[h][i].kind = "think"
                                /\ LooksAt(todo[h][i]) \subseteq LooksAt(todo[h][1])
       \/ /\ ~key
          /\ \E i \in DOMAIN micro : micro[i] = Task("finish", h)

NothingMislaid == [][\A h \in Houses : Answered(h)]_vars

Waiting(u) ==
  \/ \E i \in DOMAIN waiters : waiters[i].who = u
  \/ \E i \in DOMAIN micro : micro[i] \in {Task("cleared", u), Task("lock", u)}

\* Every row is taken in the end (if only to be thrown away, see above), and
\* every UItime transaction has its turn.
RowsAreTaken ==
  \A h \in Houses : (life[h] = "on" /\ knocked[h] /\ todo[h] # <<>>)
                       ~> (todo[h] = <<>> \/ life[h] = "off")
TransactionsRun == \A u \in Patients : Waiting(u) ~> u \in active
EveryTurnComes == RowsAreTaken /\ TransactionsRun
=============================================================================
