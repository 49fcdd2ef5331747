------------------------------ MODULE ReplPull ------------------------------
(***************************************************************************)
(* Pulling one record from one source, page by page: Ra_pull_beat of       *)
(* src/Ghost/M/Ra.g over Repli's want, lines, page and parked frames       *)
(* (src/Ghost/N/Repli.g).                                                  *)
(*                                                                         *)
(* Every frame is ephemeral: no ack, no retransmit.  The sink asks for the *)
(* pages it misses and asks again when a wait runs out; the source serves  *)
(* a page whose chunks it has made, and parks a want that outran its       *)
(* encoder.  A page crosses as one frame of lines, which names a buffer id *)
(* for every chunk, and one frame of bytes for each id.                    *)
(*                                                                         *)
(* The chunk-particle substrate, the head run, the Float32 staging path,   *)
(* misses and the self-clock (off by default) left out: a source that      *)
(* refuses a want or cannot find the record is one that loses the want.    *)
(* Clocks are abstract: a wait is running or has run out.  Asks are        *)
(* numbered (a history); the number only ever says which ask a frame       *)
(* answers.                                                                *)
(***************************************************************************)
EXTENDS Naturals, FiniteSets, FiniteSetsExt

CONSTANTS Total,       \* chunks of the record
          PageSize,    \* repli_page, chunks to a page (2)
          WantBudget,  \* heist_want_budget, wants to a beat (6)
          Lead,        \* heist_want_lead, holes a beat looks at (32)
          BufCap,      \* repli_buf_cap, pages stashed at the sink (64)
          ServeBudget, \* repli_serve_parked_budget, parks served at once (32)
          Preview,     \* chunks that stand at the source from the start
          Asks, NoAsk, \* numbers of asks
          MaxBuf,      \* bound: buffer ids of one incarnation of the source
          MaxDown,     \* bound: answering frames in flight
          MaxLoss,     \* bound: frames the carrier loses
          MaxEarly,    \* bound: waits that run out while the answer is underway
          MaxCulls,    \* bound: parked wants whose lease lapses
          MaxRestarts  \* bound: restarts of the source

ASSUME PullAssumption ==
  /\ {Total, PageSize, WantBudget, Lead, BufCap, ServeBudget} \subseteq Nat \ {0}
  /\ Preview \in 0..Total
  /\ {MaxBuf, MaxDown, MaxLoss, MaxEarly, MaxCulls, MaxRestarts} \subseteq Nat
  /\ NoAsk \notin Asks

Chunks == 0..(Total - 1)
PageOf(c) == c - (c % PageSize)
Pages == {PageOf(c) : c \in Chunks}
ChunksOf(p) == {c \in Chunks : PageOf(c) = p}
BufIds == 1..MaxBuf
Nobody == [chunk |-> Total, ask |-> NoAsk]

VARIABLES
  filled,   \* sink: chunks whose bytes are there
  asked,    \* sink: w.c.ra_want_ts, the ask that is stamped for each page
  due,      \* sink: pages whose wait has run out
  retx,     \* sink: w.c.ra_retx
  park,     \* sink: w.c.ra_parked, within PARK_CEIL (hot), beyond (cold), no
  lastAsk,  \* sink: rec.c.last_asked_off
  probed,   \* sink: the tail probe has fired since the last landing
  awaiting, \* sink: pier.c.awaiting and the awaitbuf reqs, by buffer id
  stash,    \* sink: pier.c.bufs, the chunk whose bytes are under each id
  heard,    \* sink: route.c.peer_era
  made,     \* source: the encoder's frontier
  parks,    \* source: the %parked_want of each page, with its ask
  bufseq,   \* source: pier.c.bufseq
  era,      \* source: its incarnation
  up,       \* wants in flight
  down,     \* lines, pages and parked replies in flight
  spent,    \* the bounded faults so far
  samples   \* history: whether an RTT sample was of another ask, and whether
            \* a rebirth ever wiped a stamp

sinkVars == <<filled, asked, due, retx, park, lastAsk, probed, awaiting, stash,
              heard>>
sourceVars == <<made, parks, bufseq, era>>
vars == <<sinkVars, sourceVars, up, down, spent, samples>>

Faults == {"loss", "early", "cull", "restart"}
Limit == [loss |-> MaxLoss, early |-> MaxEarly, cull |-> MaxCulls,
          restart |-> MaxRestarts]
CanSpend(fault) == spent[fault] < Limit[fault]
Spend(fault) == spent' = [spent EXCEPT ![fault] = @ + 1]

Init ==
  /\ filled = {} /\ asked = [p \in Pages |-> NoAsk] /\ due = {} /\ retx = {}
  /\ park = [p \in Pages |-> "no"] /\ lastAsk = Total /\ probed = FALSE
  /\ awaiting = [i \in BufIds |-> Nobody]
  /\ stash = [i \in BufIds |-> Total]
  /\ heard = 0 /\ made = Preview
  /\ parks = [p \in Pages |-> NoAsk] /\ bufseq = 0 /\ era = 0
  /\ up = {} /\ down = {}
  /\ spent = [f \in Faults |-> 0]
  /\ samples = [mistaken |-> FALSE, wiped |-> FALSE]

-----------------------------------------------------------------------------
\* The sink asks.

\* Ra_page_hole: a page with any chunk missing.
Hole(p) == ~(ChunksOf(p) \subseteq filled)
Holes == {p \in Pages : Hole(p)}

\* The n smallest members of a set.
Smallest(S, n) == {x \in S : Cardinality({y \in S : y < x}) < n}

Unborne(p) ==
  {n \in Asks : /\ [page |-> p, ask |-> n] \notin up
                /\ n # asked[p] /\ n # parks[p]
                /\ \A f \in down : f.page = p => f.ask # n
                /\ \A i \in BufIds : awaiting[i].ask # n}
FreshAsk(p, but) == CHOOSE n \in Unborne(p) \ but : TRUE

\* Mutated form: a page is asked for once (the set-once latch of old).
AskingOnce(drainbound) ==
  Smallest({p \in Smallest(Holes, Lead) : asked[p] = NoAsk}, WantBudget)

\* The pages a beat asks for: a hole whose first ask is still to come, or
\* whose wait has run out, unless the source said it is parked; of those that
\* were asked before, none while the sink's own inbox is deep.
Asking(drainbound) ==
  Smallest({p \in Smallest(Holes, Lead) :
              /\ park[p] # "hot"
              /\ asked[p] = NoAsk \/ (p \in due /\ ~drainbound)}, WantBudget)

\* The tail loss probe: the page asked for last, once in a quiet spell.
Probing(asking, drainbound, quiet) ==
  LET last == IF asking = {} THEN lastAsk ELSE Max(asking)
  IN {p \in {last} \cap Holes :
        /\ quiet /\ ~drainbound /\ ~probed
        /\ park[p] # "hot"
        /\ asked[p] # NoAsk \/ p \in asking}

\* Mutated form: the probe does not mark the page it asks for again.
MarkRetxByTimer(asking, probing) == retx \cup {p \in asking : asked[p] # NoAsk}

\* Karn's rule: a page asked before its stamp fell is marked.
MarkRetx(asking, probing) ==
  retx \cup {p \in asking : asked[p] # NoAsk} \cup probing

\* A page that is both asked for and probed has two wants sent, and the stamp of
\* the probe.
Beat(drainbound, quiet) ==
  LET asking == Asking(drainbound)
      probing == Probing(asking, drainbound, quiet)
      sent == asking \cup probing
      ask == [p \in asking |-> FreshAsk(p, {})]
      just(p) == {ask[q] : q \in asking \cap {p}}
      probe == [p \in probing |-> FreshAsk(p, just(p))]
  IN /\ sent # {}
     /\ \A p \in asking : Unborne(p) # {}
     /\ \A p \in probing : Unborne(p) \ just(p) # {}
     /\ retx' = MarkRetx(asking, probing)
     /\ asked' = [p \in Pages |-> IF p \in probing THEN probe[p]
                                 ELSE IF p \in asking THEN ask[p] ELSE asked[p]]
     /\ due' = due \ sent
     /\ lastAsk' = IF asking = {} THEN lastAsk ELSE Max(asking)
     /\ probed' = (probed \/ probing # {})
     /\ up' = up \cup {[page |-> p, ask |-> ask[p]] : p \in asking}
                \cup {[page |-> p, ask |-> probe[p]] : p \in probing}
     /\ UNCHANGED <<filled, park, awaiting, stash, heard, sourceVars, down,
                    spent, samples>>

-----------------------------------------------------------------------------
\* The sink hears.

\* Mutated form: the stamp falls with the last chunk of a page, whatever is
\* there of the others.
CompletedByLast(landed, have) ==
  {PageOf(c) : c \in {x \in landed : x + 1 \notin ChunksOf(PageOf(x))}}

\* The pages that the chunks just landed complete.
Completed(landed, have) ==
  {p \in {PageOf(c) : c \in landed} : ChunksOf(p) \subseteq have}

\* Repli_land_rtt: is the elapsed time of this page taken for a round trip?
Sampled(p) == asked[p] # NoAsk /\ p \notin retx /\ park[p] = "no"

\* Mutated form: the stamps fall and the marks beside them stay.
ForgetStamp(pages) ==
  /\ asked' = [p \in Pages |-> IF p \in pages THEN NoAsk ELSE asked[p]]
  /\ UNCHANGED <<due, retx, park>>

\* What is kept of an outstanding page is cleared all together.
Forget(pages) ==
  /\ asked' = [p \in Pages |-> IF p \in pages THEN NoAsk ELSE asked[p]]
  /\ park' = [p \in Pages |-> IF p \in pages THEN "no" ELSE park[p]]
  /\ due' = due \ pages /\ retx' = retx \ pages

\* Repli_attach_page over every id in met: the bytes under it go to the chunk
\* it awaits, if they are that chunk's own; either way the id is done with.
Attach(met, awaited, stashed) ==
  LET landed == {awaited[i].chunk : i \in
                   {j \in met : awaited[j].chunk = stashed[j]}}
      complete == Completed(landed, filled \cup landed)
  IN /\ filled' = filled \cup landed
     /\ Forget(complete)
     /\ probed' = (probed /\ complete = {})
     /\ awaiting' = [i \in BufIds |-> IF i \in met THEN Nobody ELSE awaited[i]]
     /\ stash' = [i \in BufIds |-> IF i \in met THEN Total ELSE stashed[i]]
     /\ samples' = [samples EXCEPT !.mistaken = @ \/
          \E i \in met : LET p == PageOf(awaited[i].chunk)
                         IN /\ awaited[i].chunk \in landed
                            /\ p \in complete /\ Sampled(p)
                            /\ awaited[i].ask # asked[p]]

\* Mutated form: lines open their waits without a look at the stash.
MetByLinesBlind(lines) == {}

MetByLines(lines) == {i \in BufIds : i \in DOMAIN lines.names /\ stash[i] # Total}

\* Repli_recv_lines, Repli_open_awaitbuf.
RecvLines(f) ==
  /\ Attach(MetByLines(f),
            [i \in BufIds |-> IF i \in DOMAIN f.names
                              THEN [chunk |-> f.names[i], ask |-> f.ask]
                              ELSE awaiting[i]],
            stash)
  /\ down' = down \ {f}
  /\ UNCHANGED <<lastAsk, heard, sourceVars, up, spent>>

\* Mutated form: the cap drops what came last.
OverflowNewest(stashed) ==
  LET held == {i \in BufIds : stashed[i] # Total}
  IN IF Cardinality(held) <= BufCap THEN {}
     ELSE held \ Smallest(held, BufCap)

\* What the cap drops: the lowest ids, the order in which an object lists keys
\* that are numbers.
Overflow(stashed) ==
  LET held == {i \in BufIds : stashed[i] # Total}
  IN IF Cardinality(held) <= BufCap THEN {}
     ELSE Smallest(held, Cardinality(held) - BufCap)

\* Repli_recv_page.
RecvPage(f) ==
  LET stashed == [stash EXCEPT ![f.id] = f.chunk]
      gone == Overflow(stashed)
      awaited == [i \in BufIds |-> IF i \in gone THEN Nobody ELSE awaiting[i]]
      kept == [i \in BufIds |-> IF i \in gone THEN Total ELSE stashed[i]]
  IN /\ Attach({i \in BufIds \ gone : i = f.id /\ awaited[i] # Nobody}, awaited, kept)
     /\ down' = down \ {f}
     /\ UNCHANGED <<lastAsk, heard, sourceVars, up, spent>>

\* Repli_recv_parked.
RecvParked(f) ==
  /\ park' = [park EXCEPT ![f.page] = "hot"]
  /\ down' = down \ {f}
  /\ UNCHANGED <<filled, asked, due, retx, lastAsk, probed, awaiting, stash,
                 heard, sourceVars, up, spent, samples>>

\* The relay's lanes: bytes may queue in the bulk lane while later lines pass
\* them by, and nothing else changes places.
FirstId(f) == CASE f.type = "page" -> f.id
                [] f.type = "lines" -> Min(DOMAIN f.names)
                [] f.type = "parked" -> 0
Ahead(g, f) ==
  /\ g.type = "lines" \/ (g.type = "page" /\ f.type = "page")
  /\ g.era < f.era \/ (g.era = f.era /\ FirstId(g) <= FirstId(f))
NextOfLane(f) == \A g \in down \ {f} : ~Ahead(g, f)

Receive(f) ==
  /\ NextOfLane(f)
  /\ \/ f.type = "lines" /\ RecvLines(f)
     \/ f.type = "page" /\ RecvPage(f)
     \/ f.type = "parked" /\ RecvParked(f)

Underway(p) == \E f \in up \cup down : f.page = p

\* Repli_awaitbuf_do: a wait no page came for is retired after AWAIT_MAX pumps.
AgeOut(i) ==
  /\ awaiting[i] # Nobody /\ stash[i] = Total
  /\ IF Underway(PageOf(awaiting[i].chunk)) THEN CanSpend("early") /\ Spend("early")
     ELSE UNCHANGED spent
  /\ awaiting' = [awaiting EXCEPT ![i] = Nobody]
  /\ UNCHANGED <<filled, asked, due, retx, park, lastAsk, probed, stash, heard,
                 sourceVars, up, down, samples>>

WaitLapses(p) ==
  /\ asked[p] # NoAsk /\ p \notin due
  /\ IF Underway(p) THEN CanSpend("early") /\ Spend("early")
     ELSE UNCHANGED spent
  /\ due' = due \cup {p}
  /\ UNCHANGED <<filled, asked, retx, park, lastAsk, probed, awaiting, stash,
                 heard, sourceVars, up, down, samples>>

ParkCools(p) ==
  /\ park[p] = "hot"
  /\ park' = [park EXCEPT ![p] = "cold"]
  /\ UNCHANGED <<filled, asked, due, retx, lastAsk, probed, awaiting, stash,
                 heard, sourceVars, up, down, spent, samples>>

\* Swarm_note_era on a pulse of a new incarnation: every cursor of the pull is
\* forgotten.  The relay keeps the order, so nothing older comes after it.
HearRebirth ==
  /\ heard # era /\ \A f \in down : f.era = era
  /\ heard' = era
  /\ Forget(Pages)
  /\ samples' = [samples EXCEPT !.wiped = @ \/ \E p \in Pages : asked[p] # NoAsk]
  /\ UNCHANGED <<filled, lastAsk, probed, awaiting, stash, sourceVars, up, down,
                 spent>>

-----------------------------------------------------------------------------
\* The source.

\* Repli_page_ready.
Ready(p, frontier) == \A c \in ChunksOf(p) : c < frontier

\* Repli_serve_chunks: lines that name a fresh buffer id for every chunk of the
\* page, and the bytes under each.  Pages served together take ids in turn.
IdsBefore(pages, p) ==
  Cardinality(UNION {ChunksOf(q) : q \in {x \in pages : x < p}})
Served(pages, ask) ==
  LET id(c) == bufseq + 1 + IdsBefore(pages, PageOf(c)) + (c - PageOf(c))
  IN {[type |-> "lines", page |-> p, ask |-> ask[p], era |-> era,
       names |-> [i \in {id(c) : c \in ChunksOf(p)} |->
                    CHOOSE c \in ChunksOf(p) : id(c) = i]] : p \in pages}
     \cup
     UNION {{[type |-> "page", page |-> p, ask |-> ask[p], era |-> era,
              id |-> id(c), chunk |-> c] : c \in ChunksOf(p)} : p \in pages}

Sends(pages, ask, replies) ==
  LET frames == Served(pages, ask) \cup replies
  IN /\ Cardinality(down) + Cardinality(frames) <= MaxDown
     /\ bufseq + IdsBefore(pages, Total) <= MaxBuf
     /\ down' = down \cup frames
     /\ bufseq' = bufseq + IdsBefore(pages, Total)

\* Repli_serve_want.  The parked reply is throttled on a want asked again, the
\* particle is the same one and its lease begins anew.
ServeWant(f) ==
  /\ up' = up \ {f}
  /\ IF Ready(f.page, made)
     THEN /\ Sends({f.page}, [p \in {f.page} |-> f.ask], {})
          /\ UNCHANGED parks
     ELSE \E told \in {TRUE} \cup {parks[f.page] = NoAsk} :
            /\ parks' = [parks EXCEPT ![f.page] = f.ask]
            /\ Sends({}, parks, IF told THEN {[type |-> "parked",
                       page |-> f.page, ask |-> f.ask, era |-> era]} ELSE {})
  /\ UNCHANGED <<sinkVars, made, era, spent, samples>>

\* Ra_transcode_pump: lapsed wants are culled, the encoder goes on, and
\* Repli_serve_parked answers the parks its frontier now covers.
Pump(encoded, culled) ==
  LET standing == {p \in Pages : parks[p] # NoAsk} \ culled
      serving == Smallest({p \in standing : Ready(p, made')}, ServeBudget)
  IN /\ culled \subseteq {p \in Pages : parks[p] # NoAsk}
     /\ made' = IF encoded /\ made < Total THEN made + 1 ELSE made
     /\ Sends(serving, parks, {})
     /\ parks' = [p \in Pages |-> IF p \in culled \cup serving THEN NoAsk
                                  ELSE parks[p]]
     /\ IF culled = {} THEN UNCHANGED spent
        ELSE CanSpend("cull") /\ Spend("cull")
     /\ UNCHANGED <<sinkVars, era, up, samples>>

\* The source's tab restarts: parks and the id counter go, and of the chunks
\* made only some are found again.
Restart ==
  /\ CanSpend("restart") /\ Spend("restart")
  /\ era' = era + 1 /\ bufseq' = 0
  /\ parks' = [p \in Pages |-> NoAsk]
  /\ made' \in 0..made
  /\ UNCHANGED <<sinkVars, up, down, samples>>

Lose(f) ==
  /\ CanSpend("loss") /\ Spend("loss")
  /\ up' = up \ {f} /\ down' = down \ {f}
  /\ UNCHANGED <<sinkVars, sourceVars, samples>>

PumpOn == (\E p \in Pages : parks[p] # NoAsk) /\ Pump(TRUE, {})

Next ==
  \/ \E drainbound, quiet \in BOOLEAN : Beat(drainbound, quiet)
  \/ \E f \in down : Receive(f)
  \/ \E i \in BufIds : AgeOut(i)
  \/ \E p \in Pages : WaitLapses(p) \/ ParkCools(p)
  \/ HearRebirth
  \/ \E f \in up : ServeWant(f)
  \/ \E encoded \in BOOLEAN, culled \in SUBSET Pages : Pump(encoded, culled)
  \/ Restart
  \/ \E f \in up \cup down : Lose(f)

Spec == Init /\ [][Next]_vars

\* Beats, timers and pulses go on, what is not lost is delivered, and while a
\* want stands parked the encoder makes progress.
FairSpec ==
  /\ Spec
  /\ WF_vars(\E quiet \in BOOLEAN : Beat(FALSE, quiet))
  /\ \A p \in Pages :
       /\ \A t \in {"lines", "page", "parked"} :
            WF_vars(\E f \in down : f.page = p /\ f.type = t /\ Receive(f))
       /\ WF_vars(\E f \in up : f.page = p /\ ServeWant(f))
       /\ WF_vars(WaitLapses(p)) /\ WF_vars(ParkCools(p))
  /\ \A i \in BufIds : WF_vars(AgeOut(i))
  /\ WF_vars(HearRebirth)
  /\ SF_vars(PumpOn)

-----------------------------------------------------------------------------
\* Type correctness; and a wait that runs out, a mark of Karn's rule and a
\* landed page each agree with the stamp they belong to.
TypeOK ==
  /\ filled \in SUBSET Chunks /\ made \in 0..Total
  /\ asked \in [Pages -> Asks \cup {NoAsk}]
  /\ park \in [Pages -> {"no", "hot", "cold"}]
  /\ due \cup retx \subseteq {p \in Pages : asked[p] # NoAsk}
  /\ lastAsk \in Pages \cup {Total} /\ probed \in BOOLEAN
  /\ awaiting \in [BufIds -> [chunk : Chunks, ask : Asks] \cup {Nobody}]
  /\ stash \in [BufIds -> Chunks \cup {Total}]
  /\ parks \in [Pages -> Asks \cup {NoAsk}]
  /\ bufseq \in 0..MaxBuf /\ era \in Nat /\ heard \in 0..era
  /\ up \subseteq [page : Pages, ask : Asks]
  /\ \A f \in down : f.type \in {"lines", "page", "parked"} /\ f.era \in 0..era

\* "A stamp exists MEANS outstanding" (Repli_land_rtt's comment): no page that
\* is all there keeps a stamp, through copies, restarts and chunks landing out
\* of order, so the window and the tail probe count only what is to come.
StampMeansOutstanding == \A p \in Pages : asked[p] # NoAsk => Hole(p)

\* Bytes and the particle that awaits them never lie side by side: whichever
\* comes second finds the first, through the cap, age-outs and ids that a
\* restarted source uses again.
BytesMeetTheirWait == \A i \in BufIds : awaiting[i] = Nobody \/ stash[i] = Total

\* Karn's rule: the time taken for a round trip is that of the ask which the
\* landed page answers, unless a rebirth wiped the stamp of an ask in flight.
KarnsRule == samples.mistaken => samples.wiped

\* The whole record arrives, whatever is lost, parked, culled, evicted or
\* restarted, as long as the faults end.
Completes == <>(filled = Chunks)

\* Repli_recv_page's cap drops "stale orphan pages".  Until a source restarts,
\* and begins its ids again, it does: a page whose particle waits for it lands
\* when it arrives, however full of orphans the stash is.
ArrivedPageLands ==
  [][\A f \in down : f.type = "page" /\ Receive(f)
        /\ awaiting[f.id].chunk = f.chunk => f.chunk \in filled' \/ spent["restart"] > 0]_vars
=============================================================================
