--------------------------- MODULE ReplPullProofs ---------------------------
(***************************************************************************)
(* For every record, page size, budget, cap and number of faults: what the *)
(* sink keeps of a page it has asked for stays true to the page, bytes     *)
(* meet the particle that awaits them, and Karn's rule holds.              *)
(*                                                                         *)
(* The rule rests on what bears the number of an ask: a want in flight, a  *)
(* parked want, a frame of the answer, a particle that awaits bytes.  While*)
(* a page is a hole without a mark, all that bears an ask of it bears the  *)
(* one its stamp is of.                                                    *)
(***************************************************************************)
EXTENDS ReplPull, FiniteSetTheorems, TLAPS

\* The maps of the sink are maps over all ids and pages.
Mapped == /\ DOMAIN awaiting = BufIds /\ DOMAIN stash = BufIds
          /\ DOMAIN asked = Pages /\ {"mistaken", "wiped"} \subseteq DOMAIN samples

\* A mark belongs to a stamp.
MarksStamped == \A p \in retx : p \in Pages /\ asked[p] # NoAsk

\* A frame is of an ask, and lines name chunks of the page they are for.
FrameSound(f) ==
  /\ f.ask \in Asks
  /\ f.type = "lines" => \A i \in DOMAIN f.names : f.names[i] \in ChunksOf(f.page)

AsksNumbered ==
  /\ \A f \in up : f.ask \in Asks
  /\ \A f \in down : FrameSound(f)
  /\ \A p \in Pages : parks[p] \in Asks \cup {NoAsk}
  /\ \A i \in BufIds : awaiting[i] # Nobody => awaiting[i].ask \in Asks

\* An ask n of page p is the stamped one, or the page is marked or all there.
Known(p, n) == Hole(p) /\ p \notin retx => n = asked[p]

BearersKnown ==
  /\ \A f \in up : Known(f.page, f.ask)
  /\ \A f \in down : Known(f.page, f.ask)
  /\ \A p \in Pages : parks[p] # NoAsk => Known(p, parks[p])
  /\ \A i \in BufIds : awaiting[i] # Nobody =>
                         Known(PageOf(awaiting[i].chunk), awaiting[i].ask)

PagesReal ==
  /\ \A f \in up \cup down : f.page \in Pages
  /\ \A i \in BufIds : awaiting[i] # Nobody => PageOf(awaiting[i].chunk) \in Pages

\* Before a rebirth wipes a stamp.
Unwiped == ~samples.wiped => BearersKnown /\ ~samples.mistaken

ReplInv == /\ Mapped /\ MarksStamped /\ AsksNumbered /\ PagesReal
           /\ StampMeansOutstanding /\ BytesMeetTheirWait /\ Unwiped

-----------------------------------------------------------------------------
\* The smallest members of a set are members.
LEMMA SmallestIn == ASSUME NEW S, NEW n PROVE Smallest(S, n) \subseteq S
BY DEF Smallest

\* The chunks of a page are of that page.
LEMMA ChunksOfPage ==
  ASSUME NEW p, NEW c \in ChunksOf(p)
  PROVE  PageOf(c) = p /\ p \in Pages
BY DEF ChunksOf, Pages

\* Init.
LEMMA InitSound == Init => ReplInv
<1> SUFFICES ASSUME Init PROVE ReplInv
  OBVIOUS
<1>1. Mapped /\ MarksStamped /\ StampMeansOutstanding
  BY DEF Init, Mapped, MarksStamped, StampMeansOutstanding
<1>2. AsksNumbered /\ PagesReal /\ BytesMeetTheirWait /\ Unwiped
  BY DEF Init, AsksNumbered, PagesReal, BytesMeetTheirWait, Unwiped, BearersKnown
<1> QED BY <1>1, <1>2 DEF ReplInv

-----------------------------------------------------------------------------
\* A fresh ask is an ask.
LEMMA FreshAskIn ==
  ASSUME NEW p, NEW but, Unborne(p) \ but # {}
  PROVE  FreshAsk(p, but) \in Asks
<1>1. FreshAsk(p, but) \in Unborne(p) \ but
  BY DEF FreshAsk
<1> QED BY <1>1 DEF Unborne

\* A beat asks only for holes, and marks what it asks for again.
LEMMA BeatStep ==
  ASSUME ReplInv, NEW drainbound \in BOOLEAN, NEW quiet \in BOOLEAN,
         Beat(drainbound, quiet)
  PROVE  ReplInv'
<1> DEFINE asking == Asking(drainbound)
           probing == Probing(asking, drainbound, quiet)
           sent == asking \cup probing
           ask == [p \in asking |-> FreshAsk(p, {})]
           just(p) == {ask[q] : q \in asking \cap {p}}
           probe == [p \in probing |-> FreshAsk(p, just(p))]
<1>1. /\ \A p \in asking : Unborne(p) # {}
      /\ \A p \in probing : Unborne(p) \ just(p) # {}
      /\ retx' = retx \cup {p \in asking : asked[p] # NoAsk} \cup probing
      /\ asked' = [p \in Pages |-> IF p \in probing THEN probe[p]
                                  ELSE IF p \in asking THEN ask[p] ELSE asked[p]]
      /\ up' = up \cup {[page |-> p, ask |-> ask[p]] : p \in asking}
                 \cup {[page |-> p, ask |-> probe[p]] : p \in probing}
      /\ UNCHANGED <<filled, awaiting, stash, parks, down, samples>>
  BY DEF Beat, MarkRetx, sourceVars
<1>2. asking \subseteq Holes /\ probing \subseteq Holes
  BY SmallestIn DEF Asking, Probing
<1>3. /\ \A p \in asking : ask[p] \in Asks
      /\ \A p \in probing : probe[p] \in Asks
  BY <1>1, FreshAskIn
<1> HIDE DEF asking, probing, ask, just, probe
<1>4. sent \subseteq Pages /\ \A p \in sent : Hole(p)
  BY <1>2 DEF Holes
<1>5. \A p : Hole(p)' = Hole(p)
  BY <1>1 DEF Hole
<1>6. Mapped' /\ BytesMeetTheirWait'
  BY <1>1 DEF ReplInv, Mapped, BytesMeetTheirWait
<1>7. MarksStamped'
  <2> SUFFICES ASSUME NEW p \in retx' PROVE p \in Pages /\ asked'[p] # NoAsk
    BY DEF MarksStamped
  <2>1. p \in Pages
    BY <1>1, <1>4 DEF ReplInv, MarksStamped
  <2>2. CASE p \in sent
    BY <2>1, <2>2, <1>1, <1>3, PullAssumption
  <2>3. CASE p \notin sent
    BY <2>1, <2>3, <1>1 DEF ReplInv, MarksStamped
  <2> QED BY <2>2, <2>3
<1>8. AsksNumbered'
  <2>1. \A f \in up' : f.ask \in Asks
    BY <1>1, <1>3 DEF ReplInv, AsksNumbered
  <2> QED BY <1>1, <2>1 DEF ReplInv, AsksNumbered, FrameSound
<1>9. PagesReal'
  <2>1. \A f \in up' : f.page \in Pages
    BY <1>1, <1>4 DEF ReplInv, PagesReal
  <2> QED BY <1>1, <2>1 DEF ReplInv, PagesReal
<1>10. StampMeansOutstanding'
  BY <1>1, <1>4, <1>5 DEF ReplInv, StampMeansOutstanding
<1>11. ASSUME NEW p \in Pages, NEW n \in Asks, Known(p, n)
       PROVE  Known(p, n)'
  <2>1. CASE p \in sent
    <3> SUFFICES ASSUME p \notin retx' PROVE FALSE
      BY DEF Known
    <3>1. p \notin retx /\ asked[p] = NoAsk
      BY <2>1, <1>1
    <3>2. n = NoAsk
      BY <3>1, <2>1, <1>4, <1>11 DEF Known
    <3> QED BY <3>2, PullAssumption
  <2>2. CASE p \notin sent
    <3>1. asked'[p] = asked[p] /\ (p \in retx => p \in retx')
      BY <2>2, <1>1
    <3> QED BY <3>1, <1>5, <1>11 DEF Known
  <2> QED BY <2>1, <2>2
<1>12. BearersKnown => BearersKnown'
  <2> SUFFICES ASSUME BearersKnown PROVE BearersKnown'
    OBVIOUS
  <2>1. \A f \in up' : Known(f.page, f.ask)'
    <3> SUFFICES ASSUME NEW f \in up' PROVE Known(f.page, f.ask)'
      OBVIOUS
    <3>1. CASE f \in up
      <4>1. f.page \in Pages /\ f.ask \in Asks /\ Known(f.page, f.ask)
        BY <3>1 DEF ReplInv, AsksNumbered, PagesReal, BearersKnown
      <4> QED BY <4>1, <1>11
    <3>2. CASE f \notin up
      <4>1. \/ \E p \in asking \ probing : f = [page |-> p, ask |-> ask[p]]
            \/ \E p \in probing : f.page = p
        BY <3>2, <1>1
      <4>2. CASE \E p \in probing : f.page = p
        BY <4>2, <1>1 DEF Known
      <4>3. ASSUME NEW p \in asking \ probing, f = [page |-> p, ask |-> ask[p]]
            PROVE  f.page = p /\ f.ask = asked'[p]
        BY <4>3, <1>1, <1>4
      <4> QED BY <4>1, <4>2, <4>3 DEF Known
    <3> QED BY <3>1, <3>2
  <2>2. \A f \in down' : Known(f.page, f.ask)'
    BY <1>1, <1>11 DEF ReplInv, AsksNumbered, FrameSound, PagesReal, BearersKnown
  <2>3. \A p \in Pages : parks'[p] # NoAsk => Known(p, parks[p])'
    BY <1>1, <1>11 DEF ReplInv, AsksNumbered, BearersKnown
  <2>4. \A i \in BufIds : awaiting'[i] # Nobody =>
                            Known(PageOf(awaiting[i].chunk), awaiting[i].ask)'
    BY <1>1, <1>11 DEF ReplInv, AsksNumbered, PagesReal, BearersKnown
  <2> QED BY <2>1, <2>2, <2>3, <2>4 DEF BearersKnown
<1>13. Unwiped'
  BY <1>1, <1>12 DEF ReplInv, Unwiped
<1> QED BY <1>6, <1>7, <1>8, <1>9, <1>10, <1>13 DEF ReplInv

-----------------------------------------------------------------------------
\* Whatever meets its wait: a page that is complete loses its stamp and all
\* beside it, and any other keeps its own.
LEMMA AttachSound ==
  ASSUME ReplInv, NEW met \in SUBSET BufIds, NEW awaited, NEW stashed,
         Attach(met, awaited, stashed),
         \A i \in met : awaited[i] # Nobody,
         \A i \in BufIds \ met : awaited[i] = Nobody \/ stashed[i] = Total,
         \A i \in BufIds : awaited[i] # Nobody =>
           /\ awaited[i].ask \in Asks /\ PageOf(awaited[i].chunk) \in Pages
           /\ BearersKnown => Known(PageOf(awaited[i].chunk), awaited[i].ask)
  PROVE  /\ Mapped' /\ MarksStamped' /\ StampMeansOutstanding'
         /\ BytesMeetTheirWait'
         /\ \A i \in BufIds : awaiting'[i] # Nobody => awaiting'[i] = awaited[i]
         /\ \A p \in Pages, n \in Asks : Known(p, n) => Known(p, n)'
         /\ samples'.wiped = samples.wiped
         /\ BearersKnown /\ ~samples.mistaken => ~samples'.mistaken
<1> DEFINE landed == {awaited[i].chunk : i \in
                        {j \in met : awaited[j].chunk = stashed[j]}}
           complete == Completed(landed, filled \cup landed)
           mistaken == \E i \in met :
                         LET p == PageOf(awaited[i].chunk)
                         IN /\ awaited[i].chunk \in landed
                            /\ p \in complete /\ Sampled(p)
                            /\ awaited[i].ask # asked[p]
<1>1. /\ filled' = filled \cup landed
      /\ asked' = [p \in Pages |-> IF p \in complete THEN NoAsk ELSE asked[p]]
      /\ retx' = retx \ complete
      /\ awaiting' = [i \in BufIds |-> IF i \in met THEN Nobody ELSE awaited[i]]
      /\ stash' = [i \in BufIds |-> IF i \in met THEN Total ELSE stashed[i]]
  BY DEF Attach, Forget
<1>2. samples' = [samples EXCEPT !.mistaken = @ \/ mistaken]
  BY DEF Attach
<1>3. complete = {p \in {PageOf(c) : c \in landed} :
                    ChunksOf(p) \subseteq filled \cup landed}
  BY DEF Completed
<1> HIDE DEF landed, complete
<1>4. ASSUME NEW p, p \notin complete, Hole(p)
      PROVE  Hole(p)'
  <2>1. PICK c \in ChunksOf(p) : c \notin filled
    BY <1>4 DEF Hole
  <2>2. PageOf(c) = p
    BY <2>1 DEF ChunksOf
  <2>3. CASE c \in landed
    <3>1. ~(ChunksOf(p) \subseteq filled \cup landed)
      BY <2>2, <2>3, <1>3, <1>4
    <3> QED BY <3>1, <1>1 DEF Hole
  <2>4. CASE c \notin landed
    BY <2>1, <2>4, <1>1 DEF Hole
  <2> QED BY <2>3, <2>4
<1>5. \A p : Hole(p)' => Hole(p) /\ p \notin complete
  BY <1>1, <1>3 DEF Hole
<1>6. Mapped' /\ BytesMeetTheirWait'
  BY <1>1, <1>2 DEF ReplInv, Mapped, BytesMeetTheirWait
<1>7. MarksStamped'
  BY <1>1 DEF ReplInv, MarksStamped
<1>8. StampMeansOutstanding'
  BY <1>1, <1>4 DEF ReplInv, StampMeansOutstanding
<1>9. \A i \in BufIds : awaiting'[i] # Nobody => awaiting'[i] = awaited[i]
  BY <1>1
<1>10. \A p \in Pages, n \in Asks : Known(p, n) => Known(p, n)'
  BY <1>1, <1>5 DEF Known
<1>11. BearersKnown => ~mistaken
  <2> SUFFICES ASSUME BearersKnown, NEW i \in met,
                      PageOf(awaited[i].chunk) \in complete,
                      Sampled(PageOf(awaited[i].chunk)),
                      awaited[i].ask # asked[PageOf(awaited[i].chunk)]
               PROVE  FALSE
    OBVIOUS
  <2> DEFINE p == PageOf(awaited[i].chunk)
  <2>1. p \in Pages /\ Known(p, awaited[i].ask)
    OBVIOUS
  <2>2. asked[p] # NoAsk /\ p \notin retx
    BY DEF Sampled
  <2>3. Hole(p)
    BY <2>1, <2>2 DEF ReplInv, StampMeansOutstanding
  <2> QED BY <2>1, <2>2, <2>3 DEF Known
<1> HIDE DEF mistaken
<1>12. samples'.wiped = samples.wiped
  BY <1>2
<1>13. BearersKnown /\ ~samples.mistaken => ~samples'.mistaken
  BY <1>2, <1>11 DEF ReplInv, Mapped
<1> QED BY <1>6, <1>7, <1>8, <1>9, <1>10, <1>12, <1>13

\* Lines or a page of bytes arrive: what the record comes to be is what
\* AttachSound says of the waits that are open by then.
LEMMA ArrivalSound ==
  ASSUME ReplInv, NEW f \in down, NEW met \in SUBSET BufIds,
         NEW awaited, NEW stashed,
         Attach(met, awaited, stashed),
         \A i \in met : awaited[i] # Nobody,
         \A i \in BufIds \ met : awaited[i] = Nobody \/ stashed[i] = Total,
         \A i \in BufIds : awaited[i] # Nobody =>
           \/ awaited[i] = awaiting[i]
           \/ f.ask = awaited[i].ask /\ f.page = PageOf(awaited[i].chunk),
         down' = down \ {f}, UNCHANGED <<up, parks>>
  PROVE  ReplInv'
<1>1. \A i \in BufIds : awaited[i] # Nobody =>
        /\ awaited[i].ask \in Asks /\ PageOf(awaited[i].chunk) \in Pages
        /\ BearersKnown => Known(PageOf(awaited[i].chunk), awaited[i].ask)
  BY DEF ReplInv, AsksNumbered, FrameSound, PagesReal, BearersKnown
<1>2. /\ Mapped' /\ MarksStamped' /\ StampMeansOutstanding'
      /\ BytesMeetTheirWait'
      /\ \A i \in BufIds : awaiting'[i] # Nobody => awaiting'[i] = awaited[i]
      /\ \A p \in Pages, n \in Asks : Known(p, n) => Known(p, n)'
      /\ samples'.wiped = samples.wiped
      /\ BearersKnown /\ ~samples.mistaken => ~samples'.mistaken
  BY <1>1, AttachSound
<1>3. AsksNumbered' /\ PagesReal'
  BY <1>1, <1>2 DEF ReplInv, AsksNumbered, FrameSound, PagesReal
<1>4. BearersKnown => BearersKnown'
  <2> SUFFICES ASSUME BearersKnown PROVE BearersKnown'
    OBVIOUS
  <2>1. \A g \in up' : Known(g.page, g.ask)'
    BY <1>2 DEF ReplInv, AsksNumbered, PagesReal, BearersKnown
  <2>2. \A g \in down' : Known(g.page, g.ask)'
    BY <1>2 DEF ReplInv, AsksNumbered, FrameSound, PagesReal, BearersKnown
  <2>3. \A p \in Pages : parks'[p] # NoAsk => Known(p, parks[p])'
    BY <1>2 DEF ReplInv, AsksNumbered, BearersKnown
  <2>4. \A i \in BufIds : awaiting'[i] # Nobody =>
                            Known(PageOf(awaiting[i].chunk), awaiting[i].ask)'
    <3> SUFFICES ASSUME NEW i \in BufIds, awaiting'[i] # Nobody
                 PROVE  Known(PageOf(awaiting[i].chunk), awaiting[i].ask)'
      OBVIOUS
    <3>1. awaiting'[i] = awaited[i] /\ awaited[i] # Nobody
      BY <1>2
    <3>2. Known(PageOf(awaited[i].chunk), awaited[i].ask)
      BY <1>1, <3>1
    <3>3. \A p \in Pages, n \in Asks : Known(p, n) /\ awaiting'[i].ask = n
            /\ PageOf(awaiting'[i].chunk) = p =>
              Known(PageOf(awaiting[i].chunk), awaiting[i].ask)'
      BY <1>2 DEF Known
    <3> QED BY <1>1, <3>1, <3>2, <3>3
  <2> QED BY <2>1, <2>2, <2>3, <2>4 DEF BearersKnown
<1> QED BY <1>2, <1>3, <1>4 DEF ReplInv, Unwiped

LEMMA RecvLinesStep ==
  ASSUME ReplInv, NEW f \in down, f.type = "lines", RecvLines(f)
  PROVE  ReplInv'
<1> DEFINE awaited == [i \in BufIds |-> IF i \in DOMAIN f.names
                         THEN [chunk |-> f.names[i], ask |-> f.ask]
                         ELSE awaiting[i]]
           met == MetByLines(f)
<1>1. Attach(met, awaited, stash) /\ down' = down \ {f} /\ UNCHANGED <<up, parks>>
  BY DEF RecvLines, sourceVars
<1>2. /\ met \subseteq BufIds
      /\ \A i \in BufIds : i \in met <=> i \in DOMAIN f.names /\ stash[i] # Total
  BY DEF MetByLines
<1>3. \A i \in BufIds \cap DOMAIN f.names :
        /\ awaited[i] # Nobody /\ awaited[i].ask = f.ask
        /\ PageOf(awaited[i].chunk) = f.page
  <2> SUFFICES ASSUME NEW i \in BufIds, i \in DOMAIN f.names
               PROVE  /\ awaited[i] # Nobody /\ awaited[i].ask = f.ask
                      /\ PageOf(awaited[i].chunk) = f.page
    OBVIOUS
  <2>1. awaited[i] = [chunk |-> f.names[i], ask |-> f.ask]
    OBVIOUS
  <2>2. f.ask \in Asks /\ f.names[i] \in ChunksOf(f.page)
    BY DEF ReplInv, AsksNumbered, FrameSound
  <2>3. awaited[i].ask = f.ask /\ awaited[i].chunk = f.names[i]
    BY <2>1
  <2>4. awaited[i] # Nobody
    BY <2>2, <2>3, PullAssumption DEF Nobody
  <2> QED BY <2>2, <2>3, <2>4, ChunksOfPage
<1>4. \A i \in BufIds : i \notin DOMAIN f.names => awaited[i] = awaiting[i]
  OBVIOUS
<1> HIDE DEF awaited, met
<1>5. \A i \in met : awaited[i] # Nobody
  BY <1>2, <1>3
<1>6. \A i \in BufIds \ met : awaited[i] = Nobody \/ stash[i] = Total
  BY <1>2, <1>4 DEF ReplInv, BytesMeetTheirWait
<1>7. \A i \in BufIds : awaited[i] # Nobody =>
        \/ awaited[i] = awaiting[i]
        \/ f.ask = awaited[i].ask /\ f.page = PageOf(awaited[i].chunk)
  BY <1>3, <1>4
<1> QED BY <1>1, <1>2, <1>5, <1>6, <1>7, ArrivalSound

LEMMA RecvPageStep ==
  ASSUME ReplInv, NEW f \in down, RecvPage(f)
  PROVE  ReplInv'
<1> DEFINE stashed == [stash EXCEPT ![f.id] = f.chunk]
           gone == Overflow(stashed)
           awaited == [i \in BufIds |-> IF i \in gone THEN Nobody ELSE awaiting[i]]
           kept == [i \in BufIds |-> IF i \in gone THEN Total ELSE stashed[i]]
           met == {i \in BufIds \ gone : i = f.id /\ awaited[i] # Nobody}
<1>1. Attach(met, awaited, kept) /\ down' = down \ {f} /\ UNCHANGED <<up, parks>>
  BY DEF RecvPage, sourceVars
<1>2. \A i \in BufIds : i # f.id => stashed[i] = stash[i]
  BY DEF ReplInv, Mapped
<1> HIDE DEF stashed, gone
<1>3. met \subseteq BufIds /\ \A i \in met : awaited[i] # Nobody
  OBVIOUS
<1>4. \A i \in BufIds \ met : awaited[i] = Nobody \/ kept[i] = Total
  BY <1>2 DEF ReplInv, BytesMeetTheirWait
<1>5. \A i \in BufIds : awaited[i] # Nobody => awaited[i] = awaiting[i]
  OBVIOUS
<1> HIDE DEF awaited, kept, met
<1> QED BY <1>1, <1>3, <1>4, <1>5, ArrivalSound

-----------------------------------------------------------------------------
\* Where the sink keeps its stamps, marks and chunks, and whatever is sent or
\* parked bears an ask that something bore before, all stays sound.
LEMMA CarriedSound ==
  ASSUME ReplInv, UNCHANGED <<filled, asked, retx, stash, samples>>,
         DOMAIN awaiting' = BufIds,
         \A i \in BufIds : awaiting'[i] = Nobody \/ awaiting'[i] = awaiting[i],
         up' \subseteq up,
         \A f \in down' : f \in down \/
           /\ f.page \in Pages /\ FrameSound(f)
           /\ BearersKnown => Known(f.page, f.ask),
         \A p \in Pages : parks'[p] = NoAsk \/ parks'[p] = parks[p] \/
           /\ parks'[p] \in Asks
           /\ BearersKnown => Known(p, parks'[p])
  PROVE  ReplInv'
<1>1. Mapped' /\ MarksStamped' /\ StampMeansOutstanding' /\ BytesMeetTheirWait'
  BY DEF ReplInv, Mapped, MarksStamped, StampMeansOutstanding, Hole,
         BytesMeetTheirWait
<1>2. AsksNumbered'
  BY DEF ReplInv, AsksNumbered, FrameSound
<1>3. PagesReal'
  BY DEF ReplInv, PagesReal
<1>4. \A p, n : Known(p, n)' <=> (Hole(p) /\ p \notin retx => n' = asked[p])
  BY DEF Known, Hole
<1>5. BearersKnown => BearersKnown'
  <2> SUFFICES ASSUME BearersKnown PROVE BearersKnown'
    OBVIOUS
  <2>1. \A f \in up' : Known(f.page, f.ask)'
    BY DEF BearersKnown, Known, Hole
  <2>2. \A f \in down' : Known(f.page, f.ask)'
    BY DEF BearersKnown, Known, Hole
  <2>3. \A p \in Pages : parks'[p] # NoAsk => Known(p, parks[p])'
    BY DEF BearersKnown, Known, Hole
  <2>4. \A i \in BufIds : awaiting'[i] # Nobody =>
                            Known(PageOf(awaiting[i].chunk), awaiting[i].ask)'
    BY DEF BearersKnown, Known, Hole, PageOf
  <2> QED BY <2>1, <2>2, <2>3, <2>4 DEF BearersKnown
<1>6. Unwiped'
  BY <1>5 DEF ReplInv, Unwiped
<1> QED BY <1>1, <1>2, <1>3, <1>6 DEF ReplInv

\* The frames a page is served as: lines that name its chunks, and their bytes.
LEMMA ServedFrames ==
  ASSUME NEW pages, NEW ask, NEW f \in Served(pages, ask)
  PROVE  \E p \in pages :
           /\ f.page = p /\ f.ask = ask[p] /\ f.era = era
           /\ \/ /\ f.type = "lines"
                 /\ \A i \in DOMAIN f.names : f.names[i] \in ChunksOf(p)
              \/ /\ f.type = "page" /\ f.chunk \in ChunksOf(p)
                 /\ f.id = bufseq + 1 + IdsBefore(pages, PageOf(f.chunk))
                             + (f.chunk - PageOf(f.chunk))
<1> DEFINE id(c) == bufseq + 1 + IdsBefore(pages, PageOf(c)) + (c - PageOf(c))
           Named(p) == [i \in {id(c) : c \in ChunksOf(p)} |->
                          CHOOSE c \in ChunksOf(p) : id(c) = i]
           Lines(p) == [type |-> "lines", page |-> p, ask |-> ask[p], era |-> era,
                        names |-> Named(p)]
           Bytes(p, c) == [type |-> "page", page |-> p, ask |-> ask[p],
                           era |-> era, id |-> id(c), chunk |-> c]
<1>1. \/ \E p \in pages : f = Lines(p)
      \/ \E p \in pages : \E c \in ChunksOf(p) : f = Bytes(p, c)
  BY DEF Served
<1>2. ASSUME NEW p \in pages, NEW i \in DOMAIN Named(p)
      PROVE  Named(p)[i] \in ChunksOf(p)
  <2>1. \E c \in ChunksOf(p) : id(c) = i
    OBVIOUS
  <2> QED BY <2>1
<1>3. ASSUME NEW p \in pages, NEW c \in ChunksOf(p), f = Bytes(p, c)
      PROVE  /\ f.page = p /\ f.ask = ask[p] /\ f.era = era /\ f.type = "page"
             /\ f.chunk = c /\ f.id = id(f.chunk)
  <2> HIDE DEF id
  <2>1. f.chunk = c /\ f.id = id(c)
    BY <1>3
  <2> QED BY <1>3, <2>1
<1> HIDE DEF Named, id
<1>4. ASSUME NEW p \in pages, f = Lines(p)
      PROVE  /\ f.page = p /\ f.ask = ask[p] /\ f.era = era /\ f.type = "lines"
             /\ \A i \in DOMAIN f.names : f.names[i] \in ChunksOf(p)
  <2>1. f.names = Named(p)
    BY <1>4
  <2> QED BY <1>2, <1>4, <2>1
<1> HIDE DEF Lines, Bytes
<1>5. CASE \E p \in pages : f = Lines(p)
  BY <1>4, <1>5
<1>6. CASE \E p \in pages : \E c \in ChunksOf(p) : f = Bytes(p, c)
  BY <1>3, <1>6 DEF id
<1> QED BY <1>1, <1>5, <1>6

\* What a source sends for an ask it holds bears that ask, and its lines name
\* chunks of the page.
LEMMA ServedSound ==
  ASSUME ReplInv, NEW pages \in SUBSET Pages, NEW ask,
         \A p \in pages : ask[p] \in Asks /\ (BearersKnown => Known(p, ask[p])),
         NEW f \in Served(pages, ask)
  PROVE  /\ f.page \in Pages /\ FrameSound(f)
         /\ BearersKnown => Known(f.page, f.ask)
BY ServedFrames DEF FrameSound

LEMMA ServeWantStep ==
  ASSUME ReplInv, NEW f \in up, ServeWant(f)
  PROVE  ReplInv'
<1>1. /\ f.page \in Pages /\ f.ask \in Asks
      /\ BearersKnown => Known(f.page, f.ask)
  BY DEF ReplInv, AsksNumbered, PagesReal, BearersKnown
<1>2. /\ up' \subseteq up
      /\ UNCHANGED <<filled, asked, retx, awaiting, stash, samples>>
  BY DEF ServeWant, sinkVars
<1>3. DOMAIN awaiting' = BufIds
  BY <1>2 DEF ReplInv, Mapped
<1>4. CASE Ready(f.page, made)
  <2> DEFINE ask == [p \in {f.page} |-> f.ask]
  <2>1. down' = down \cup (Served({f.page}, ask) \cup {}) /\ UNCHANGED parks
    BY <1>4 DEF ServeWant, Sends
  <2>2. \A p \in {f.page} : ask[p] \in Asks /\ (BearersKnown => Known(p, ask[p]))
    BY <1>1
  <2> HIDE DEF ask
  <2>3. \A g \in down' : g \in down \/
          /\ g.page \in Pages /\ FrameSound(g)
          /\ BearersKnown => Known(g.page, g.ask)
    BY <1>1, <2>1, <2>2, ServedSound
  <2> QED BY <1>2, <1>3, <2>1, <2>3, CarriedSound
<1>5. CASE ~Ready(f.page, made)
  <2> DEFINE reply == [type |-> "parked", page |-> f.page, ask |-> f.ask,
                       era |-> era]
  <2>1. /\ parks' = [parks EXCEPT ![f.page] = f.ask]
        /\ \E told \in BOOLEAN :
             down' = down \cup (Served({}, parks) \cup IF told THEN {reply} ELSE {})
    BY <1>5 DEF ServeWant, Sends
  <2>2. Served({}, parks) = {}
    BY DEF Served
  <2>3. \A g \in down' : g \in down \/ g = reply
    BY <2>1, <2>2
  <2>4. reply.page = f.page /\ reply.ask = f.ask /\ FrameSound(reply)
    BY <1>1 DEF FrameSound
  <2> HIDE DEF reply
  <2>5. \A g \in down' : g \in down \/
          /\ g.page \in Pages /\ FrameSound(g)
          /\ BearersKnown => Known(g.page, g.ask)
    BY <1>1, <2>3, <2>4
  <2>6. \A p \in Pages : parks'[p] = NoAsk \/ parks'[p] = parks[p] \/
          /\ parks'[p] \in Asks
          /\ BearersKnown => Known(p, parks'[p])
    BY <1>1, <2>1
  <2> QED BY <1>2, <1>3, <2>5, <2>6, CarriedSound
<1> QED BY <1>4, <1>5

LEMMA PumpStep ==
  ASSUME ReplInv, NEW encoded \in BOOLEAN, NEW culled \in SUBSET Pages,
         Pump(encoded, culled)
  PROVE  ReplInv'
<1> DEFINE standing == {p \in Pages : parks[p] # NoAsk} \ culled
           ready == {p \in standing : Ready(p, made')}
           serving == Smallest(ready, ServeBudget)
<1>1. /\ down' = down \cup (Served(serving, parks) \cup {})
      /\ parks' = [p \in Pages |-> IF p \in culled \cup serving THEN NoAsk
                                   ELSE parks[p]]
      /\ UNCHANGED <<filled, asked, retx, awaiting, stash, samples, up>>
  BY DEF Pump, Sends, sinkVars
<1>2. serving \subseteq ready
  BY SmallestIn
<1>3. serving \subseteq Pages /\ \A p \in serving : parks[p] # NoAsk
  BY <1>2
<1>4. \A p \in serving :
        parks[p] \in Asks /\ (BearersKnown => Known(p, parks[p]))
  BY <1>3 DEF ReplInv, AsksNumbered, BearersKnown
<1> HIDE DEF serving
<1>5. \A g \in down' : g \in down \/
        /\ g.page \in Pages /\ FrameSound(g)
        /\ BearersKnown => Known(g.page, g.ask)
  BY <1>1, <1>3, <1>4, ServedSound
<1>6. \A p \in Pages : parks'[p] = NoAsk \/ parks'[p] = parks[p]
  BY <1>1
<1>7. DOMAIN awaiting' = BufIds
  BY <1>1 DEF ReplInv, Mapped
<1> QED BY <1>1, <1>5, <1>6, <1>7, CarriedSound

\* A rebirth that finds a stamp is the exception; one that finds none finds no
\* mark either.
LEMMA RebirthStep ==
  ASSUME ReplInv, HearRebirth
  PROVE  ReplInv'
<1> DEFINE stamped == \E p \in Pages : asked[p] # NoAsk
<1>1. /\ asked' = [p \in Pages |-> NoAsk] /\ retx' = retx \ Pages
      /\ UNCHANGED <<filled, awaiting, stash, parks, up, down>>
      /\ samples' = [samples EXCEPT !.wiped = @ \/ stamped]
  BY DEF HearRebirth, Forget, sourceVars
<1>2. \A p \in Pages : asked'[p] = NoAsk
  BY <1>1
<1>3. {"mistaken", "wiped"} \subseteq DOMAIN samples
  BY DEF ReplInv, Mapped
<1>4. (stamped \/ samples.wiped) => samples'.wiped
  <2> HIDE DEF stamped
  <2> QED BY <1>1, <1>3
<1>5. samples'.mistaken = samples.mistaken
  <2> HIDE DEF stamped
  <2> QED BY <1>1, <1>3
<1>6. {"mistaken", "wiped"} \subseteq DOMAIN samples'
  <2> HIDE DEF stamped
  <2> QED BY <1>1, <1>3
<1>7. Mapped' /\ MarksStamped'
  BY <1>1, <1>6 DEF ReplInv, Mapped, MarksStamped
<1>8. AsksNumbered' /\ PagesReal' /\ StampMeansOutstanding' /\ BytesMeetTheirWait'
  BY <1>1, <1>2 DEF ReplInv, AsksNumbered, FrameSound, PagesReal,
                    StampMeansOutstanding, BytesMeetTheirWait
<1>9. ASSUME ~stamped, BearersKnown PROVE BearersKnown'
  <2>1. \A p \in Pages : asked[p] = NoAsk
    BY <1>9
  <2>2. \A p \in Pages, n \in Asks : Known(p, n) => Known(p, n)'
    BY <1>1, <1>2, <2>1 DEF ReplInv, MarksStamped, Known, Hole
  <2>3. \A f \in up' : Known(f.page, f.ask)'
    BY <1>1, <1>9, <2>2 DEF ReplInv, AsksNumbered, PagesReal, BearersKnown
  <2>4. \A f \in down' : Known(f.page, f.ask)'
    BY <1>1, <1>9, <2>2 DEF ReplInv, AsksNumbered, FrameSound, PagesReal, BearersKnown
  <2>5. \A p \in Pages : parks'[p] # NoAsk => Known(p, parks[p])'
    BY <1>1, <1>9, <2>2 DEF ReplInv, AsksNumbered, BearersKnown
  <2>6. \A i \in BufIds : awaiting'[i] # Nobody =>
                            Known(PageOf(awaiting[i].chunk), awaiting[i].ask)'
    BY <1>1, <1>9, <2>2 DEF ReplInv, AsksNumbered, PagesReal, BearersKnown
  <2> QED BY <2>3, <2>4, <2>5, <2>6 DEF BearersKnown
<1> HIDE DEF stamped
<1>10. Unwiped'
  BY <1>4, <1>5, <1>9 DEF ReplInv, Unwiped
<1> QED BY <1>7, <1>8, <1>10 DEF ReplInv

-----------------------------------------------------------------------------
LEMMA NextStep == ReplInv /\ [Next]_vars => ReplInv'
<1> SUFFICES ASSUME ReplInv, [Next]_vars PROVE ReplInv'
  OBVIOUS
<1>1. ASSUME NEW drainbound \in BOOLEAN, NEW quiet \in BOOLEAN,
             Beat(drainbound, quiet)
      PROVE  ReplInv'
  BY <1>1, BeatStep
<1>2. ASSUME NEW f \in down, Receive(f) PROVE ReplInv'
  <2>1. CASE f.type = "lines" /\ RecvLines(f)
    BY <2>1, RecvLinesStep
  <2>2. CASE RecvPage(f)
    BY <2>2, RecvPageStep
  <2>3. CASE RecvParked(f)
    BY <2>3, CarriedSound DEF RecvParked, sourceVars, ReplInv, Mapped
  <2> QED BY <1>2, <2>1, <2>2, <2>3 DEF Receive
<1>3. ASSUME NEW i \in BufIds, AgeOut(i) PROVE ReplInv'
  <2>1. /\ awaiting' = [awaiting EXCEPT ![i] = Nobody]
        /\ UNCHANGED <<filled, asked, retx, stash, samples, up, down, parks>>
    BY <1>3 DEF AgeOut, sourceVars
  <2>2. /\ DOMAIN awaiting' = BufIds
        /\ \A j \in BufIds : awaiting'[j] = Nobody \/ awaiting'[j] = awaiting[j]
    BY <2>1 DEF ReplInv, Mapped
  <2> QED BY <2>1, <2>2, CarriedSound
<1>4. ASSUME NEW p \in Pages, WaitLapses(p) \/ ParkCools(p) PROVE ReplInv'
  BY <1>4, CarriedSound DEF WaitLapses, ParkCools, sourceVars, ReplInv, Mapped
<1>5. CASE HearRebirth
  BY <1>5, RebirthStep
<1>6. ASSUME NEW f \in up, ServeWant(f) PROVE ReplInv'
  BY <1>6, ServeWantStep
<1>7. ASSUME NEW encoded \in BOOLEAN, NEW culled \in SUBSET Pages,
             Pump(encoded, culled)
      PROVE  ReplInv'
  BY <1>7, PumpStep
<1>8. CASE Restart
  <2>1. /\ UNCHANGED <<filled, asked, retx, awaiting, stash, samples, up, down>>
        /\ \A p \in Pages : parks'[p] = NoAsk
    BY <1>8 DEF Restart, sinkVars
  <2> QED BY <2>1, CarriedSound DEF ReplInv, Mapped
<1>9. ASSUME NEW f \in up \cup down, Lose(f) PROVE ReplInv'
  BY <1>9, CarriedSound DEF Lose, sinkVars, sourceVars, ReplInv, Mapped
<1>10. CASE UNCHANGED vars
  BY <1>10, CarriedSound DEF vars, sinkVars, sourceVars, ReplInv, Mapped
<1> QED BY <1>1, <1>2, <1>3, <1>4, <1>5, <1>6, <1>7, <1>8, <1>9, <1>10 DEF Next

\* ReplInv holds whatever is lost, parked, culled, evicted, or restarted.
THEOREM Invariance == Spec => []ReplInv
BY InitSound, NextStep, PTL DEF Spec

\* No page that is all there keeps a stamp (Repli_land_rtt).
THEOREM StampsOutstanding == Spec => []StampMeansOutstanding
<1>1. ReplInv => StampMeansOutstanding
  BY DEF ReplInv
<1> QED BY <1>1, Invariance, PTL

\* Bytes and the particle that awaits them never lie side by side
\* (Repli_recv_page, Repli_open_awaitbuf).
THEOREM NoneLieTogether == Spec => []BytesMeetTheirWait
<1>1. ReplInv => BytesMeetTheirWait
  BY DEF ReplInv
<1> QED BY <1>1, Invariance, PTL

\* No time is taken for another ask's round trip, but after a rebirth that
\* wiped the stamp of an ask in flight (Repli_land_rtt, Swarm_note_era).
THEOREM Karn == Spec => []KarnsRule
<1>1. ReplInv => KarnsRule
  BY DEF ReplInv, Unwiped, KarnsRule
<1> QED BY <1>1, Invariance, PTL

-----------------------------------------------------------------------------
\* Sets of pages, and counts of chunks.

\* The numbers below x in S, and the count of them grows with x.
Below(S, x) == {y \in S : y < x}

LEMMA BelowCount ==
  ASSUME NEW S \in SUBSET Int, IsFiniteSet(S), NEW x \in S
  PROVE  /\ Cardinality(Below(S, x)) \in Nat
         /\ Cardinality(Below(S, x)) < Cardinality(S)
         /\ \A y \in S : x < y => Cardinality(Below(S, x)) < Cardinality(Below(S, y))
<1> Cardinality(S) \in Nat
  BY FS_CardinalityType
<1>1. ASSUME NEW T \in SUBSET S, x \in T, \A z \in Below(S, x) : z \in T
      PROVE  /\ Cardinality(Below(S, x)) \in Nat
             /\ Cardinality(Below(S, x)) < Cardinality(T)
  <2>1. IsFiniteSet(T) /\ Cardinality(T) \in Nat
    BY FS_Subset, FS_CardinalityType
  <2>2. IsFiniteSet(T \ {x}) /\ Cardinality(T \ {x}) = Cardinality(T) - 1
    BY <1>1, <2>1, FS_RemoveElement
  <2>3. Below(S, x) \subseteq T \ {x}
    <3> SUFFICES ASSUME NEW z \in Below(S, x) PROVE z \in T /\ z # x
      OBVIOUS
    <3>1. z \in Int /\ x \in Int /\ z < x
      BY DEF Below
    <3> QED BY <1>1, <3>1
  <2>4. /\ IsFiniteSet(Below(S, x))
        /\ Cardinality(Below(S, x)) <= Cardinality(T \ {x})
    BY <2>2, <2>3, FS_Subset
  <2>5. Cardinality(Below(S, x)) \in Nat
    BY <2>4, FS_CardinalityType
  <2> QED BY <2>1, <2>2, <2>4, <2>5
<1>2. Cardinality(Below(S, x)) \in Nat /\ Cardinality(Below(S, x)) < Cardinality(S)
  BY <1>1 DEF Below
<1>3. ASSUME NEW y \in S, x < y
      PROVE  Cardinality(Below(S, x)) < Cardinality(Below(S, y))
  <2>1. Below(S, y) \subseteq S /\ x \in Below(S, y)
    BY <1>3 DEF Below
  <2>2. \A z \in Below(S, x) : z \in Below(S, y)
    BY <1>3 DEF Below
  <2> QED BY <1>1, <2>1, <2>2
<1> QED BY <1>2, <1>3

\* A finite set of numbers that is not empty has a largest member: if it had
\* none, the counts below its members would be too few to be all different.
LEMMA MaxIn ==
  ASSUME NEW S \in SUBSET Int, IsFiniteSet(S), S # {}
  PROVE  Max(S) \in S
<1> SUFFICES ASSUME \A x \in S : ~ \A y \in S : x >= y PROVE FALSE
  BY DEF Max
<1> DEFINE n == Cardinality(S)
           T == 0..(n - 2)
           count == [x \in S |-> Cardinality(Below(S, x))]
<1>1. n \in Nat /\ n # 0
  BY FS_CardinalityType, FS_EmptySet
<1>2. \A x, y \in S : x < y => count[x] < count[y]
  BY BelowCount
<1>3. \A x \in S : count[x] \in Nat /\ count[x] < n
  BY BelowCount
<1> HIDE DEF count, n
<1>4. \A x \in S : count[x] \in T
  <2> SUFFICES ASSUME NEW x \in S PROVE count[x] \in T
    OBVIOUS
  <2>1. PICK y \in S : ~ (x >= y)
    OBVIOUS
  <2>2. count[x] < count[y]
    BY <1>2, <2>1
  <2> QED BY <1>1, <1>3, <2>2
<1>5. count \in [S -> T]
  BY <1>4 DEF count
<1>6. IsFiniteSet(T) /\ Cardinality(T) < n
  <2>1. 0 \in Int /\ n - 2 \in Int
    BY <1>1
  <2>2. /\ IsFiniteSet(T)
        /\ Cardinality(T) = IF 0 > n - 2 THEN 0 ELSE (n - 2) - 0 + 1
    BY <2>1, FS_Interval
  <2> QED BY <1>1, <2>2
<1>7. PICK x, y \in S : x # y /\ count[x] = count[y]
  BY <1>5, <1>6, FS_PigeonHole DEF n
<1>8. x < y \/ y < x
  BY <1>7
<1> QED BY <1>2, <1>3, <1>7, <1>8

\* Pages are named for the first of their chunks.
LEMMA PagesFinite ==
  /\ Chunks \subseteq Nat /\ IsFiniteSet(Chunks) /\ Total \notin Chunks
  /\ Pages \subseteq Chunks /\ IsFiniteSet(Pages)
  /\ \A p : ChunksOf(p) \subseteq Chunks
<1>1. Total \in Nat \ {0} /\ PageSize \in Nat \ {0}
  BY PullAssumption
<1>2. Chunks \subseteq Nat /\ IsFiniteSet(Chunks) /\ Total \notin Chunks
  BY <1>1, FS_Interval DEF Chunks
<1>3. ASSUME NEW c \in Chunks PROVE PageOf(c) \in Chunks
  <2>1. c \in Nat /\ c < Total
    BY <1>1, <1>3 DEF Chunks
  <2>2. c % PageSize \in 0..(PageSize - 1) /\ c % PageSize <= c
    BY <1>1, <2>1
  <2> QED BY <1>1, <2>1, <2>2 DEF PageOf, Chunks
<1>4. Pages \subseteq Chunks
  BY <1>3 DEF Pages
<1>5. IsFiniteSet(Pages)
  BY <1>2, <1>4, FS_Subset
<1>6. \A p : ChunksOf(p) \subseteq Chunks
  BY DEF ChunksOf
<1> QED BY <1>2, <1>4, <1>5, <1>6

\* The ids that pages take are counted.
LEMMA IdsCounted ==
  ASSUME NEW pages, NEW p
  PROVE  /\ IdsBefore(pages, p) \in Nat
         /\ IsFiniteSet(UNION {ChunksOf(q) : q \in {x \in pages : x < p}})
<1> DEFINE all == UNION {ChunksOf(q) : q \in {x \in pages : x < p}}
<1>1. all \subseteq Chunks
  BY PagesFinite
<1> HIDE DEF all
<1>2. IsFiniteSet(all) /\ Cardinality(all) \in Nat
  BY <1>1, PagesFinite, FS_Subset, FS_CardinalityType
<1> QED BY <1>2 DEF IdsBefore, all

-----------------------------------------------------------------------------
\* The type, by what keeps it.

\* A frame of the answer is of an era there has been, and its bytes are a chunk's.
FrameShape(f) ==
  /\ f.type \in {"lines", "page", "parked"} /\ f.era \in 0..era
  /\ f.type = "page" => f.chunk \in Chunks

StampShape ==
  /\ filled \in SUBSET Chunks
  /\ asked \in [Pages -> Asks \cup {NoAsk}]
  /\ park \in [Pages -> {"no", "hot", "cold"}]
  /\ due \cup retx \subseteq {p \in Pages : asked[p] # NoAsk}
  /\ probed \in BOOLEAN

WaitType == [chunk : Chunks, ask : Asks] \cup {Nobody}

BufShape ==
  /\ awaiting \in [BufIds -> WaitType]
  /\ stash \in [BufIds -> Chunks \cup {Total}]

SourceShape ==
  /\ made \in 0..Total /\ parks \in [Pages -> Asks \cup {NoAsk}]
  /\ bufseq \in 0..MaxBuf /\ era \in Nat /\ heard \in 0..era

FlightShape ==
  /\ up \subseteq [page : Pages, ask : Asks]
  /\ \A f \in down : FrameShape(f)

TypeInv == /\ StampShape /\ BufShape /\ SourceShape /\ FlightShape
           /\ lastAsk \in Pages \cup {Total}

LEMMA InitType == Init => TypeInv
<1> SUFFICES ASSUME Init PROVE TypeInv
  OBVIOUS
<1>1. Total \in Nat /\ MaxBuf \in Nat /\ Preview \in 0..Total
  BY PullAssumption
<1>2. StampShape
  BY DEF Init, StampShape
<1>3. BufShape
  BY DEF Init, BufShape, WaitType
<1>4. FlightShape /\ lastAsk \in Pages \cup {Total}
  BY DEF Init, FlightShape
<1>5. SourceShape
  BY <1>1 DEF Init, SourceShape
<1> QED BY <1>2, <1>3, <1>4, <1>5 DEF TypeInv

LEMMA BeatType ==
  ASSUME TypeInv, NEW drainbound \in BOOLEAN, NEW quiet \in BOOLEAN,
         Beat(drainbound, quiet)
  PROVE  TypeInv'
<1> DEFINE asking == Asking(drainbound)
           probing == Probing(asking, drainbound, quiet)
           sent == asking \cup probing
           ask == [p \in asking |-> FreshAsk(p, {})]
           just(p) == {ask[q] : q \in asking \cap {p}}
           probe == [p \in probing |-> FreshAsk(p, just(p))]
<1>1. /\ \A p \in asking : Unborne(p) # {}
      /\ \A p \in probing : Unborne(p) \ just(p) # {}
      /\ retx' = retx \cup {p \in asking : asked[p] # NoAsk} \cup probing
      /\ asked' = [p \in Pages |-> IF p \in probing THEN probe[p]
                                  ELSE IF p \in asking THEN ask[p] ELSE asked[p]]
      /\ due' = due \ sent
      /\ lastAsk' = IF asking = {} THEN lastAsk ELSE Max(asking)
      /\ probed' = (probed \/ probing # {})
      /\ up' = up \cup {[page |-> p, ask |-> ask[p]] : p \in asking}
                 \cup {[page |-> p, ask |-> probe[p]] : p \in probing}
      /\ UNCHANGED <<filled, park, awaiting, stash, heard, sourceVars, down>>
  BY DEF Beat, MarkRetx
<1>2. asking \subseteq Pages /\ probing \subseteq Pages
  BY SmallestIn DEF Asking, Probing, Holes
<1>3. /\ \A p \in asking : ask[p] \in Asks
      /\ \A p \in probing : probe[p] \in Asks
  BY <1>1, FreshAskIn
<1> HIDE DEF asking, probing, ask, just, probe
<1>4. lastAsk' \in Pages \cup {Total}
  <2>1. asking # {} => Max(asking) \in asking
    <3>1. asking \in SUBSET Pages /\ Pages \subseteq Nat /\ IsFiniteSet(Pages)
      BY <1>2, PagesFinite
    <3>2. IsFiniteSet(asking)
      BY <3>1, FS_Subset
    <3>3. asking \in SUBSET Int
      BY <3>1
    <3> QED BY <3>2, <3>3, MaxIn
  <2> QED BY <1>1, <1>2, <2>1 DEF TypeInv
<1>5. asked' \in [Pages -> Asks \cup {NoAsk}]
  BY <1>1, <1>3 DEF TypeInv, StampShape
<1>6. \A p \in Pages : asked[p] # NoAsk \/ p \in sent => asked'[p] # NoAsk
  BY <1>1, <1>3, PullAssumption
<1>7. due' \cup retx' \subseteq {p \in Pages : asked'[p] # NoAsk}
  BY <1>1, <1>2, <1>6 DEF TypeInv, StampShape
<1>8. StampShape'
  BY <1>1, <1>5, <1>7 DEF TypeInv, StampShape
<1>9. /\ \A p \in asking : [page |-> p, ask |-> ask[p]] \in [page : Pages, ask : Asks]
      /\ \A p \in probing : [page |-> p, ask |-> probe[p]] \in [page : Pages, ask : Asks]
  BY <1>2, <1>3
<1>10. FlightShape'
  BY <1>1, <1>9 DEF TypeInv, FlightShape, FrameShape, sourceVars
<1>11. BufShape' /\ SourceShape'
  BY <1>1 DEF TypeInv, BufShape, SourceShape, sourceVars
<1> QED BY <1>4, <1>8, <1>10, <1>11 DEF TypeInv

\* Whatever meets its wait: bytes go to chunks, and a page forgotten is
\* forgotten altogether.
LEMMA AttachType ==
  ASSUME TypeInv, NEW met \in SUBSET BufIds, NEW awaited \in [BufIds -> WaitType],
         NEW stashed \in [BufIds -> Chunks \cup {Total}],
         Attach(met, awaited, stashed), \A i \in met : awaited[i] # Nobody
  PROVE  StampShape' /\ BufShape'
<1> DEFINE landed == {awaited[i].chunk : i \in
                        {j \in met : awaited[j].chunk = stashed[j]}}
           complete == Completed(landed, filled \cup landed)
<1>1. /\ filled' = filled \cup landed
      /\ asked' = [p \in Pages |-> IF p \in complete THEN NoAsk ELSE asked[p]]
      /\ park' = [p \in Pages |-> IF p \in complete THEN "no" ELSE park[p]]
      /\ due' = due \ complete /\ retx' = retx \ complete
      /\ probed' = (probed /\ complete = {})
      /\ awaiting' = [i \in BufIds |-> IF i \in met THEN Nobody ELSE awaited[i]]
      /\ stash' = [i \in BufIds |-> IF i \in met THEN Total ELSE stashed[i]]
  BY DEF Attach, Forget
<1>2. landed \subseteq Chunks
  BY DEF WaitType
<1> HIDE DEF landed, complete
<1>3. BufShape'
  BY <1>1 DEF BufShape, WaitType
<1>4. /\ filled' \in SUBSET Chunks /\ probed' \in BOOLEAN
      /\ park' \in [Pages -> {"no", "hot", "cold"}]
  BY <1>1, <1>2 DEF TypeInv, StampShape
<1>5. /\ asked' \in [Pages -> Asks \cup {NoAsk}]
      /\ due' \cup retx' \subseteq {p \in Pages : asked'[p] # NoAsk}
  BY <1>1 DEF TypeInv, StampShape
<1> QED BY <1>3, <1>4, <1>5 DEF StampShape

LEMMA ReceiveType ==
  ASSUME ReplInv, TypeInv, NEW f \in down, Receive(f)
  PROVE  TypeInv'
<1> FrameSound(f) /\ f.page \in Pages
  BY DEF ReplInv, AsksNumbered, PagesReal
<1>1. /\ down' = down \ {f} /\ UNCHANGED <<lastAsk, heard, sourceVars, up>>
  BY DEF Receive, RecvLines, RecvPage, RecvParked
<1>2. SourceShape' /\ FlightShape' /\ lastAsk' \in Pages \cup {Total}
  BY <1>1 DEF TypeInv, SourceShape, FlightShape, FrameShape, sourceVars
<1>3. CASE f.type = "lines" /\ RecvLines(f)
  <2> DEFINE awaited == [i \in BufIds |-> IF i \in DOMAIN f.names
                           THEN [chunk |-> f.names[i], ask |-> f.ask]
                           ELSE awaiting[i]]
             met == MetByLines(f)
  <2>1. Attach(met, awaited, stash)
    BY <1>3 DEF RecvLines
  <2>2. \A i \in BufIds \cap DOMAIN f.names :
          awaited[i] \in [chunk : Chunks, ask : Asks] /\ awaited[i] # Nobody
    <3> SUFFICES ASSUME NEW i \in BufIds, i \in DOMAIN f.names
                 PROVE  LET w == [chunk |-> f.names[i], ask |-> f.ask]
                        IN w \in [chunk : Chunks, ask : Asks] /\ w # Nobody
      OBVIOUS
    <3>1. f.names[i] \in Chunks /\ f.ask \in Asks
      BY <1>3, PagesFinite DEF FrameSound
    <3> QED BY <3>1, PagesFinite DEF Nobody
  <2>3. awaited \in [BufIds -> WaitType]
    BY <2>2 DEF TypeInv, BufShape, WaitType
  <2>4. met \subseteq BufIds /\ \A i \in met : awaited[i] # Nobody
    BY <2>2 DEF MetByLines
  <2>5. stash \in [BufIds -> Chunks \cup {Total}]
    BY DEF TypeInv, BufShape
  <2> HIDE DEF awaited, met
  <2>6. StampShape' /\ BufShape'
    BY <2>1, <2>3, <2>4, <2>5, AttachType
  <2> QED BY <1>2, <2>6 DEF TypeInv
<1>4. CASE f.type = "page" /\ RecvPage(f)
  <2> DEFINE stashed == [stash EXCEPT ![f.id] = f.chunk]
             gone == Overflow(stashed)
             awaited == [i \in BufIds |-> IF i \in gone THEN Nobody ELSE awaiting[i]]
             kept == [i \in BufIds |-> IF i \in gone THEN Total ELSE stashed[i]]
             met == {i \in BufIds \ gone : i = f.id /\ awaited[i] # Nobody}
  <2>1. Attach(met, awaited, kept)
    BY <1>4 DEF RecvPage
  <2>2. f.chunk \in Chunks
    BY <1>4 DEF TypeInv, FlightShape, FrameShape
  <2>3. stashed \in [BufIds -> Chunks \cup {Total}]
    BY <2>2 DEF TypeInv, BufShape
  <2> HIDE DEF stashed, gone
  <2>4. kept \in [BufIds -> Chunks \cup {Total}]
    BY <2>3
  <2>5. awaited \in [BufIds -> WaitType]
    BY DEF TypeInv, BufShape, WaitType
  <2>6. met \subseteq BufIds /\ \A i \in met : awaited[i] # Nobody
    OBVIOUS
  <2> HIDE DEF awaited, kept, met
  <2>7. StampShape' /\ BufShape'
    BY <2>1, <2>4, <2>5, <2>6, AttachType
  <2> QED BY <1>2, <2>7 DEF TypeInv
<1>5. CASE RecvParked(f)
  <2>1. StampShape' /\ BufShape'
    BY <1>5 DEF RecvParked, TypeInv, StampShape, BufShape
  <2> QED BY <1>2, <2>1 DEF TypeInv
<1> QED BY <1>3, <1>4, <1>5 DEF Receive

\* What a source sends: frames of its own era, within the ids there are.
LEMMA SendsType ==
  ASSUME TypeInv, NEW pages \in SUBSET Pages, NEW ask, NEW replies,
         Sends(pages, ask, replies), era' = era,
         \A f \in replies : f.type = "parked" /\ f.era = era
  PROVE  bufseq' \in 0..MaxBuf /\ \A f \in down' : FrameShape(f)'
<1>1. IdsBefore(pages, Total) \in Nat
  BY IdsCounted
<1>2. bufseq' \in 0..MaxBuf
  <2> DEFINE ids == IdsBefore(pages, Total)
  <2>1. bufseq + ids <= MaxBuf /\ bufseq' = bufseq + ids
    BY DEF Sends
  <2>2. bufseq \in 0..MaxBuf /\ MaxBuf \in Nat
    BY PullAssumption DEF TypeInv, SourceShape
  <2> HIDE DEF ids
  <2>3. ids \in Nat
    BY <1>1 DEF ids
  <2> QED BY <2>1, <2>2, <2>3
<1>3. era \in 0..era
  BY DEF TypeInv, SourceShape
<1>4. ASSUME NEW f \in Served(pages, ask) PROVE FrameShape(f)
  BY <1>3, <1>4, ServedFrames, PagesFinite DEF FrameShape
<1>5. \A f \in down' : f \in down \/ f \in Served(pages, ask) \/ f \in replies
  BY DEF Sends
<1>6. \A f \in down' : FrameShape(f)
  BY <1>3, <1>4, <1>5 DEF TypeInv, FlightShape, FrameShape
<1> QED BY <1>2, <1>6 DEF FrameShape

LEMMA ServeWantType == ASSUME TypeInv, NEW f \in up, ServeWant(f) PROVE TypeInv'
<1>1. f.page \in Pages /\ f.ask \in Asks
  BY DEF TypeInv, FlightShape
<1>2. up' = up \ {f} /\ UNCHANGED <<sinkVars, made, era>>
  BY DEF ServeWant
<1>3. /\ parks' \in [Pages -> Asks \cup {NoAsk}]
      /\ bufseq' \in 0..MaxBuf /\ \A g \in down' : FrameShape(g)'
  <2>1. CASE Ready(f.page, made)
    <3>1. Sends({f.page}, [p \in {f.page} |-> f.ask], {}) /\ UNCHANGED parks
      BY <2>1 DEF ServeWant
    <3> QED BY <1>1, <1>2, <3>1, SendsType DEF TypeInv, SourceShape
  <2>2. CASE ~ Ready(f.page, made)
    <3> DEFINE reply == [type |-> "parked", page |-> f.page, ask |-> f.ask,
                         era |-> era]
    <3>1. PICK told \in BOOLEAN :
            /\ parks' = [parks EXCEPT ![f.page] = f.ask]
            /\ Sends({}, parks, IF told THEN {reply} ELSE {})
      BY <2>2 DEF ServeWant
    <3>2. reply.type = "parked" /\ reply.era = era
      OBVIOUS
    <3> HIDE DEF reply
    <3>3. \A g \in (IF told THEN {reply} ELSE {}) : g.type = "parked" /\ g.era = era
      BY <3>2
    <3>4. bufseq' \in 0..MaxBuf /\ \A g \in down' : FrameShape(g)'
      BY <1>2, <3>1, <3>3, SendsType
    <3> QED BY <1>1, <3>1, <3>4 DEF TypeInv, SourceShape
  <2> QED BY <2>1, <2>2
<1>4. SourceShape' /\ FlightShape'
  BY <1>2, <1>3 DEF TypeInv, SourceShape, FlightShape, sinkVars
<1> QED BY <1>2, <1>4 DEF TypeInv, StampShape, BufShape, sinkVars

LEMMA PumpType ==
  ASSUME TypeInv, NEW encoded \in BOOLEAN, NEW culled \in SUBSET Pages,
         Pump(encoded, culled)
  PROVE  TypeInv'
<1> DEFINE standing == {p \in Pages : parks[p] # NoAsk} \ culled
           serving == Smallest({p \in standing : Ready(p, made')}, ServeBudget)
<1>1. /\ made' = IF encoded /\ made < Total THEN made + 1 ELSE made
      /\ Sends(serving, parks, {})
      /\ parks' = [p \in Pages |-> IF p \in culled \cup serving THEN NoAsk
                                   ELSE parks[p]]
      /\ UNCHANGED <<sinkVars, era, up>>
  BY DEF Pump
<1>2. serving \subseteq Pages
  BY SmallestIn
<1> HIDE DEF serving
<1>3. bufseq' \in 0..MaxBuf /\ \A f \in down' : FrameShape(f)'
  BY <1>1, <1>2, SendsType
<1>4. made' \in 0..Total
  <2>1. Total \in Nat /\ made \in 0..Total
    BY PullAssumption DEF TypeInv, SourceShape
  <2> QED BY <1>1, <2>1
<1>5. SourceShape' /\ FlightShape'
  BY <1>1, <1>3, <1>4 DEF TypeInv, SourceShape, FlightShape, sinkVars
<1> QED BY <1>1, <1>5 DEF TypeInv, StampShape, BufShape, sinkVars

LEMMA NextType == ReplInv /\ TypeInv /\ [Next]_vars => TypeInv'
<1> SUFFICES ASSUME ReplInv, TypeInv, [Next]_vars PROVE TypeInv'
  OBVIOUS
<1>1. ASSUME NEW drainbound \in BOOLEAN, NEW quiet \in BOOLEAN,
             Beat(drainbound, quiet)
      PROVE  TypeInv'
  BY <1>1, BeatType
<1>2. ASSUME NEW f \in down, Receive(f) PROVE TypeInv'
  BY <1>2, ReceiveType
<1>3. ASSUME NEW i \in BufIds, AgeOut(i) PROVE TypeInv'
  BY <1>3 DEF AgeOut, TypeInv, StampShape, BufShape, WaitType, SourceShape,
              FlightShape, FrameShape, sourceVars
<1>4. ASSUME NEW p \in Pages, WaitLapses(p) \/ ParkCools(p) PROVE TypeInv'
  BY <1>4 DEF WaitLapses, ParkCools, TypeInv, StampShape, BufShape, SourceShape,
              FlightShape, FrameShape, sourceVars
<1>5. CASE HearRebirth
  <2>1. StampShape'
    BY <1>5 DEF HearRebirth, Forget, TypeInv, StampShape
  <2>2. SourceShape'
    BY <1>5 DEF HearRebirth, TypeInv, SourceShape, sourceVars
  <2> QED BY <1>5, <2>1, <2>2 DEF HearRebirth, TypeInv, BufShape, FlightShape,
                                  FrameShape, sourceVars
<1>6. ASSUME NEW f \in up, ServeWant(f) PROVE TypeInv'
  BY <1>6, ServeWantType
<1>7. ASSUME NEW encoded \in BOOLEAN, NEW culled \in SUBSET Pages,
             Pump(encoded, culled)
      PROVE  TypeInv'
  BY <1>7, PumpType
<1>8. CASE Restart
  <2>1. /\ era' = era + 1 /\ bufseq' = 0 /\ made' \in 0..made
        /\ parks' = [p \in Pages |-> NoAsk]
        /\ UNCHANGED <<sinkVars, up, down>>
    BY <1>8 DEF Restart
  <2>2. era \in Nat /\ heard \in 0..era /\ made \in 0..Total
        /\ Total \in Nat /\ MaxBuf \in Nat
    BY PullAssumption DEF TypeInv, SourceShape
  <2>3. SourceShape'
    BY <2>1, <2>2 DEF SourceShape, sinkVars
  <2>4. 0..era \subseteq 0..era'
    BY <2>1, <2>2
  <2>5. FlightShape'
    BY <2>1, <2>4 DEF TypeInv, FlightShape, FrameShape
  <2> QED BY <2>1, <2>3, <2>5 DEF TypeInv, StampShape, BufShape, sinkVars
<1>9. ASSUME NEW f \in up \cup down, Lose(f) PROVE TypeInv'
  BY <1>9 DEF Lose, TypeInv, StampShape, BufShape, SourceShape, FlightShape,
              FrameShape, sinkVars, sourceVars
<1>10. CASE UNCHANGED vars
  BY <1>10 DEF vars, TypeInv, StampShape, BufShape, SourceShape, FlightShape,
               FrameShape, sinkVars, sourceVars
<1> QED BY <1>1, <1>2, <1>3, <1>4, <1>5, <1>6, <1>7, <1>8, <1>9, <1>10 DEF Next

\* Every map of the pull keeps to its shape, and a wait or a mark to a stamp
\* (Ra_pull_beat, Repli_land_rtt, Swarm_note_era).
THEOREM PullTypeCorrect == Spec => []TypeOK
<1>1. Init => ReplInv /\ TypeInv
  BY InitSound, InitType
<1>2. ReplInv /\ TypeInv /\ [Next]_vars => ReplInv' /\ TypeInv'
  BY NextStep, NextType
<1>3. TypeInv => TypeOK
  BY DEF TypeInv, StampShape, BufShape, WaitType, SourceShape, FlightShape,
         FrameShape, TypeOK
<1> QED BY <1>1, <1>2, <1>3, PTL DEF Spec

-----------------------------------------------------------------------------
\* Ids are taken in turn.

\* From the first chunk of a page to any other of it, all are of the page.
LEMMA PageRun ==
  ASSUME NEW c \in Nat, NEW k \in PageOf(c)..c
  PROVE  PageOf(k) = PageOf(c) /\ PageOf(c) \in 0..c
<1> DEFINE n == PageSize
           r == c % n
           q == c \div n
           j == k % n
           h == k \div n
<1>1. n \in Nat /\ n > 0
  BY PullAssumption
<1> HIDE DEF n
<1>2. r \in 0..(n - 1) /\ q \in Nat /\ c = n * q + r
  BY <1>1
<1>3. r <= c
  <2> HIDE DEF r, q
  <2>1. n * q \in Nat
    BY <1>1, <1>2
  <2> DEFINE m == n * q
  <2> HIDE DEF m
  <2>2. m \in Nat /\ c = m + r
    BY <1>2, <2>1 DEF m
  <2> QED BY <1>1, <1>2, <2>2
<1>4. PageOf(c) = c - r
  BY DEF PageOf, n
<1>5. k \in Nat /\ k >= c - r /\ k <= c
  <2> HIDE DEF r
  <2> QED BY <1>1, <1>2, <1>3, <1>4
<1>6. j \in 0..(n - 1) /\ h \in Nat /\ k = n * h + j
  BY <1>1, <1>5
<1>7. PageOf(k) = k - j
  BY DEF PageOf, n
<1> HIDE DEF r, q, j, h
<1> DEFINE m == n * q
           l == n * h
<1>8. m \in Nat /\ l \in Nat /\ c = m + r /\ k = l + j
  BY <1>1, <1>2, <1>6
<1>9. h < q => l + n <= m
  <2> SUFFICES ASSUME h < q PROVE n * h + n <= n * q
    OBVIOUS
  <2>1. PICK d \in Nat : q = h + 1 + d
    <3>1. q - h - 1 \in Nat /\ q = h + 1 + (q - h - 1)
      BY <1>2, <1>6
    <3> QED BY <3>1
  <2>2. n * q = n * h + n + n * d /\ n * d \in Nat /\ n * h \in Nat
    BY <1>1, <1>6, <2>1
  <2> QED BY <1>1, <2>2
<1>10. q < h => m + n <= l
  <2> SUFFICES ASSUME q < h PROVE n * q + n <= n * h
    OBVIOUS
  <2>1. PICK d \in Nat : h = q + 1 + d
    <3>1. h - q - 1 \in Nat /\ h = q + 1 + (h - q - 1)
      BY <1>2, <1>6
    <3> QED BY <3>1
  <2>2. n * h = n * q + n + n * d /\ n * d \in Nat /\ n * q \in Nat
    BY <1>1, <1>2, <2>1
  <2> QED BY <1>1, <2>2
<1>11. q = h => m = l
  OBVIOUS
<1> HIDE DEF m, l
<1>12. h = q
  BY <1>1, <1>2, <1>5, <1>6, <1>8, <1>9, <1>10
<1>13. m = l
  BY <1>11, <1>12
<1> QED BY <1>1, <1>2, <1>3, <1>4, <1>6, <1>7, <1>8, <1>13

\* A chunk's id comes after all that were taken, and within those now taken.
LEMMA IdInTurn ==
  ASSUME NEW pages \in SUBSET Pages, NEW p \in pages, NEW c \in ChunksOf(p)
  PROVE  /\ IdsBefore(pages, p) \in Nat /\ IdsBefore(pages, Total) \in Nat
         /\ c \in Nat /\ p \in Nat /\ p <= c
         /\ IdsBefore(pages, p) + (c - p) + 1 <= IdsBefore(pages, Total)
<1> DEFINE A == UNION {ChunksOf(q) : q \in {x \in pages : x < p}}
           B == p..c
           all == UNION {ChunksOf(q) : q \in {x \in pages : x < Total}}
<1>1. c \in Chunks /\ PageOf(c) = p /\ Total \in Nat
  BY PullAssumption DEF ChunksOf
<1>2. c \in Nat /\ c < Total /\ \A q \in Pages : q \in Nat /\ q < Total
  <2>1. \A x \in Chunks : x \in Nat /\ x < Total
    BY <1>1 DEF Chunks
  <2> QED BY <1>1, <2>1, PagesFinite
<1>3. p \in Nat /\ p <= c
  <2>1. p \in Nat
    BY <1>2
  <2>2. PageOf(c) <= c
    <3>1. PageSize \in Nat /\ PageSize > 0
      BY PullAssumption
    <3>2. c % PageSize \in 0..(PageSize - 1)
      BY <1>2, <3>1
    <3> QED BY <1>2, <3>1, <3>2 DEF PageOf
  <2> QED BY <1>1, <2>1, <2>2
<1>4. \A k \in B : k \in ChunksOf(p)
  <2> SUFFICES ASSUME NEW k \in B PROVE k \in ChunksOf(p)
    OBVIOUS
  <2>1. k \in Chunks
    BY <1>1, <1>2, <1>3 DEF Chunks
  <2> QED BY <1>1, <1>2, <2>1, PageRun DEF ChunksOf
<1>5. A \cap B = {}
  <2> SUFFICES ASSUME NEW k \in A, k \in B PROVE FALSE
    OBVIOUS
  <2>1. PICK q \in pages : q < p /\ k \in ChunksOf(q)
    OBVIOUS
  <2>2. q = p
    BY <1>4, <2>1 DEF ChunksOf
  <2> QED BY <1>3, <2>1, <2>2
<1>6. A \cup B \subseteq all
  BY <1>2, <1>4
<1> HIDE DEF A, all
<1>7. IsFiniteSet(A) /\ IsFiniteSet(all)
  BY IdsCounted DEF A, all
<1>8. IsFiniteSet(B) /\ Cardinality(B) = c - p + 1
  <2>1. /\ IsFiniteSet(p..c)
        /\ Cardinality(p..c) = IF p > c THEN 0 ELSE c - p + 1
    BY <1>2, <1>3, FS_Interval
  <2> QED BY <1>2, <1>3, <2>1
<1> HIDE DEF B
<1>9. Cardinality(A) \in Nat /\ Cardinality(all) \in Nat
  BY <1>7, FS_CardinalityType
<1>10. Cardinality(A \cup B) = Cardinality(A) + Cardinality(B)
  <2>1. Cardinality(A \cup B) = Cardinality(A) + Cardinality(B) - Cardinality(A \cap B)
    BY <1>7, <1>8, FS_Union
  <2>2. Cardinality(A \cap B) = 0
    BY <1>5, FS_EmptySet
  <2> QED BY <1>2, <1>3, <1>8, <1>9, <2>1, <2>2
<1>11. Cardinality(A \cup B) <= Cardinality(all)
  BY <1>6, <1>7, FS_Subset
<1>12. IdsBefore(pages, p) = Cardinality(A) /\ IdsBefore(pages, Total) = Cardinality(all)
  BY DEF IdsBefore, A, all
<1> QED BY <1>2, <1>3, <1>8, <1>9, <1>10, <1>11, <1>12

\* Until a restart, the bytes in flight have ids that were taken, and come under
\* later ids than any at the sink.
InTurn ==
  spent["restart"] = 0 =>
    /\ era = 0
    /\ \A f \in down : f.type = "page" => f.id \in 1..bufseq
    /\ \A i \in BufIds : stash[i] # Total =>
         i <= bufseq /\ \A f \in down : f.type = "page" => i < f.id

Counted == spent \in [Faults -> Nat]

TurnInv == InTurn /\ Counted

LEMMA SpentOnce ==
  ASSUME Counted, NEW fault \in Faults, Spend(fault)
  PROVE  /\ Counted'
         /\ fault # "restart" => spent'["restart"] = spent["restart"]
         /\ spent'[fault] > 0
BY DEF Counted, Spend, Faults

\* Frames that are only lost or taken, and bytes that only go.
LEMMA TurnKept ==
  ASSUME TurnInv, Counted', spent'["restart"] = spent["restart"],
         UNCHANGED <<era, bufseq>>, down' \subseteq down,
         \A i \in BufIds : stash'[i] = stash[i] \/ stash'[i] = Total
  PROVE  TurnInv'
BY DEF TurnInv, InTurn

\* New frames come after all that there are.
LEMMA TurnSends ==
  ASSUME TypeInv, TurnInv, NEW pages \in SUBSET Pages, NEW ask, NEW replies,
         Sends(pages, ask, replies), \A f \in replies : f.type = "parked",
         UNCHANGED <<era, stash>>, Counted', spent'["restart"] = spent["restart"]
  PROVE  TurnInv'
<1> SUFFICES ASSUME spent["restart"] = 0 PROVE InTurn'
  BY DEF TurnInv, InTurn
<1>1. bufseq \in Nat
  BY PullAssumption DEF TypeInv, SourceShape
<1>2. /\ bufseq' = bufseq + IdsBefore(pages, Total)
      /\ \A f \in down' : f \in down \/ f \in Served(pages, ask) \/ f \in replies
  BY DEF Sends
<1>3. IdsBefore(pages, Total) \in Nat
  BY IdsCounted
<1>4. ASSUME NEW f \in Served(pages, ask), f.type = "page"
      PROVE  f.id \in (bufseq + 1)..bufseq'
  <2>1. PICK p \in pages :
          /\ f.chunk \in ChunksOf(p)
          /\ f.id = bufseq + 1 + IdsBefore(pages, PageOf(f.chunk))
                      + (f.chunk - PageOf(f.chunk))
    BY <1>4, ServedFrames
  <2> DEFINE before == IdsBefore(pages, p)
             all == IdsBefore(pages, Total)
             c == f.chunk
  <2>2. f.id = bufseq + 1 + before + (c - p)
    BY <2>1 DEF ChunksOf
  <2>3. /\ before \in Nat /\ all \in Nat /\ c \in Nat /\ p \in Nat /\ p <= c
        /\ before + (c - p) + 1 <= all
    BY <2>1, IdInTurn
  <2>4. bufseq' = bufseq + all
    BY <1>2
  <2> HIDE DEF before, all, c
  <2> QED BY <1>1, <2>2, <2>3, <2>4
<1>5. \A f \in down : f.type = "page" => f.id \in 1..bufseq
  BY DEF TurnInv, InTurn
<1>6. bufseq' \in Nat /\ bufseq <= bufseq'
  BY <1>1, <1>2, <1>3
<1>7. \A f \in down' : f.type = "page" =>
        f \in down \/ f.id \in (bufseq + 1)..bufseq'
  BY <1>2, <1>4
<1>8. \A f \in down' : f.type = "page" => f.id \in 1..bufseq'
  <2> SUFFICES ASSUME NEW f \in down', f.type = "page" PROVE f.id \in 1..bufseq'
    OBVIOUS
  <2>1. f.id \in 1..bufseq \/ f.id \in (bufseq + 1)..bufseq'
    BY <1>5, <1>7
  <2> QED BY <1>1, <1>6, <2>1
<1>9. ASSUME NEW i \in BufIds, stash[i] # Total
      PROVE  i <= bufseq' /\ \A f \in down' : f.type = "page" => i < f.id
  <2>1. i \in Nat /\ i <= bufseq /\ \A f \in down : f.type = "page" => i < f.id
    BY <1>9 DEF TurnInv, InTurn, BufIds
  <2> SUFFICES ASSUME NEW f \in down', f.type = "page" PROVE i < f.id
    BY <1>1, <1>6, <2>1
  <2>2. CASE f.id \in (bufseq + 1)..bufseq'
    BY <1>1, <1>6, <2>1, <2>2
  <2> QED BY <1>7, <2>1, <2>2
<1> QED BY <1>8, <1>9 DEF TurnInv, InTurn

\* Bytes that arrive have the last of the ids at the sink, so the cap spares them.
LEMMA TurnSpared ==
  ASSUME TypeInv, TurnInv, spent["restart"] = 0, NEW f \in down, f.type = "page",
         NextOfLane(f)
  PROVE  /\ f.id \in BufIds /\ f.id <= bufseq
         /\ \A g \in down \ {f} : g.type = "page" => f.id < g.id
         /\ f.id \notin Overflow([stash EXCEPT ![f.id] = f.chunk])
<1>1. /\ bufseq \in 0..MaxBuf /\ MaxBuf \in Nat /\ BufCap \in Nat \ {0}
      /\ stash \in [BufIds -> Chunks \cup {Total}] /\ f.chunk \in Chunks
  BY PullAssumption DEF TypeInv, SourceShape, BufShape, FlightShape, FrameShape
<1>2. f.id \in 1..bufseq
  BY DEF TurnInv, InTurn
<1>3. f.id \in BufIds /\ f.id <= bufseq /\ f.id \in Nat
  BY <1>1, <1>2 DEF BufIds
<1>4. ASSUME NEW g \in down \ {f}, g.type = "page" PROVE f.id < g.id
  <2>1. g.era = 0 /\ f.era = 0
    BY DEF TypeInv, FlightShape, FrameShape, TurnInv, InTurn
  <2>2. FirstId(g) = g.id /\ FirstId(f) = f.id
    BY <1>4 DEF FirstId
  <2>3. ~ (g.id <= f.id)
    BY <1>4, <2>1, <2>2 DEF NextOfLane, Ahead
  <2>4. g.id \in 1..bufseq
    BY <1>4 DEF TurnInv, InTurn
  <2> QED BY <1>1, <1>3, <2>3, <2>4
<1> DEFINE stashed == [stash EXCEPT ![f.id] = f.chunk]
           held == {i \in BufIds : stashed[i] # Total}
           n == Cardinality(held)
<1>5. f.id \notin Overflow(stashed)
  <2>1. f.id \in held
    BY <1>1, <1>3, PagesFinite
  <2>2. \A i \in held : i # f.id => i < f.id
    <3> SUFFICES ASSUME NEW i \in BufIds, stash[i] # Total PROVE i < f.id
      BY <1>1, <1>3
    <3> QED BY DEF TurnInv, InTurn
  <2>3. IsFiniteSet(held) /\ n \in Nat
    <3>1. IsFiniteSet(BufIds)
      BY <1>1, FS_Interval DEF BufIds
    <3> HIDE DEF stashed
    <3>2. held \subseteq BufIds
      OBVIOUS
    <3> HIDE DEF held
    <3> QED BY <3>1, <3>2, FS_Subset, FS_CardinalityType DEF n
  <2>4. held \subseteq Nat
    BY <1>1 DEF BufIds
  <2>5. Overflow(stashed) = IF n <= BufCap THEN {} ELSE Smallest(held, n - BufCap)
    BY DEF Overflow
  <2> HIDE DEF held, stashed
  <2>6. {y \in held : y < f.id} = held \ {f.id}
    <3>1. \A y \in held : y < f.id <=> y # f.id
      BY <1>3, <2>2, <2>4
    <3> QED BY <3>1
  <2>7. Cardinality(held \ {f.id}) = n - 1
    BY <2>1, <2>3, FS_RemoveElement DEF n
  <2>8. f.id \notin Smallest(held, n - BufCap)
    <3> HIDE DEF n
    <3>1. ~ (n - 1 < n - BufCap)
      BY <1>1, <2>3
    <3> QED BY <2>6, <2>7, <3>1 DEF Smallest
  <2> QED BY <2>5, <2>8
<1> QED BY <1>3, <1>4, <1>5

LEMMA ReceiveTurn ==
  ASSUME TypeInv, TurnInv, NEW f \in down, Receive(f)
  PROVE  TurnInv'
<1>1. down' = down \ {f} /\ UNCHANGED <<bufseq, era, spent>>
  BY DEF Receive, RecvLines, RecvPage, RecvParked, sourceVars
<1>2. Counted' /\ spent'["restart"] = spent["restart"]
  BY <1>1 DEF TurnInv, Counted
<1>3. CASE RecvLines(f) \/ RecvParked(f)
  <2>1. \A i \in BufIds : stash'[i] = stash[i] \/ stash'[i] = Total
    BY <1>3 DEF RecvLines, RecvParked, Attach
  <2> QED BY <1>1, <1>2, <2>1, TurnKept
<1>4. CASE f.type = "page" /\ RecvPage(f)
  <2> SUFFICES ASSUME spent["restart"] = 0 PROVE InTurn'
    BY <1>1, <1>2 DEF TurnInv, InTurn
  <2>1. /\ f.id <= bufseq
        /\ \A g \in down \ {f} : g.type = "page" => f.id < g.id
    BY <1>4, TurnSpared DEF Receive
  <2>2. ASSUME NEW i \in BufIds, stash'[i] # Total
        PROVE  i = f.id \/ stash[i] # Total
    <3>1. [stash EXCEPT ![f.id] = f.chunk][i] # Total
      BY <1>4, <2>2 DEF RecvPage, Attach
    <3> QED BY <3>1 DEF TypeInv, BufShape
  <2> QED BY <1>1, <2>1, <2>2 DEF TurnInv, InTurn
<1> QED BY <1>3, <1>4 DEF Receive

LEMMA NextTurn == TypeInv /\ TurnInv /\ [Next]_vars => TurnInv'
<1> SUFFICES ASSUME TypeInv, TurnInv, [Next]_vars PROVE TurnInv'
  OBVIOUS
<1> Counted /\ \A fault \in Faults : spent[fault] \in Nat
  BY DEF TurnInv, Counted
<1>1. ASSUME UNCHANGED <<era, bufseq, stash, spent>>, down' \subseteq down
      PROVE  TurnInv'
  BY <1>1, TurnKept DEF Counted
<1>2. ASSUME NEW drainbound \in BOOLEAN, NEW quiet \in BOOLEAN,
             Beat(drainbound, quiet)
      PROVE  TurnInv'
  BY <1>1, <1>2 DEF Beat, sourceVars
<1>3. ASSUME NEW f \in down, Receive(f) PROVE TurnInv'
  BY <1>3, ReceiveTurn
<1>4. ASSUME Spend("early") \/ Spend("loss") \/ UNCHANGED spent,
             UNCHANGED <<era, bufseq, stash>>, down' \subseteq down
      PROVE  TurnInv'
  <2>1. Counted' /\ spent'["restart"] = spent["restart"]
    BY <1>4, SpentOnce DEF Faults, Counted
  <2> QED BY <1>4, <2>1, TurnKept
<1>5. ASSUME NEW i \in BufIds, AgeOut(i) PROVE TurnInv'
  BY <1>4, <1>5 DEF AgeOut, sourceVars
<1>6. ASSUME NEW p \in Pages, WaitLapses(p) \/ ParkCools(p) PROVE TurnInv'
  BY <1>4, <1>6 DEF WaitLapses, ParkCools, sourceVars
<1>7. CASE HearRebirth
  BY <1>1, <1>7 DEF HearRebirth, sourceVars
<1>8. ASSUME NEW f \in up, ServeWant(f) PROVE TurnInv'
  <2>1. UNCHANGED <<era, stash, spent>> /\ f.page \in Pages
    BY <1>8 DEF ServeWant, sinkVars, TypeInv, FlightShape
  <2>2. Counted' /\ spent'["restart"] = spent["restart"]
    BY <2>1 DEF Counted
  <2>3. CASE Ready(f.page, made)
    <3>1. Sends({f.page}, [p \in {f.page} |-> f.ask], {})
      BY <1>8, <2>3 DEF ServeWant
    <3> QED BY <2>1, <2>2, <3>1, TurnSends
  <2>4. CASE ~ Ready(f.page, made)
    <3> DEFINE reply == [type |-> "parked", page |-> f.page, ask |-> f.ask,
                         era |-> era]
    <3>1. PICK told \in BOOLEAN : Sends({}, parks, IF told THEN {reply} ELSE {})
      BY <1>8, <2>4 DEF ServeWant
    <3>2. \A g \in (IF told THEN {reply} ELSE {}) : g.type = "parked"
      OBVIOUS
    <3> HIDE DEF reply
    <3> QED BY <2>1, <2>2, <3>1, <3>2, TurnSends
  <2> QED BY <2>3, <2>4
<1>9. ASSUME NEW encoded \in BOOLEAN, NEW culled \in SUBSET Pages,
             Pump(encoded, culled)
      PROVE  TurnInv'
  <2> DEFINE standing == {p \in Pages : parks[p] # NoAsk} \ culled
             serving == Smallest({p \in standing : Ready(p, made')}, ServeBudget)
  <2>1. /\ Sends(serving, parks, {}) /\ UNCHANGED <<era, stash>>
        /\ Spend("cull") \/ UNCHANGED spent
    BY <1>9 DEF Pump, sinkVars
  <2>2. serving \subseteq Pages
    BY SmallestIn
  <2> HIDE DEF serving
  <2>3. Counted' /\ spent'["restart"] = spent["restart"]
    BY <2>1, SpentOnce DEF Faults, Counted
  <2> QED BY <2>1, <2>2, <2>3, TurnSends
<1>10. CASE Restart
  <2>1. Counted' /\ spent'["restart"] > 0
    BY <1>10, SpentOnce DEF Restart, Faults
  <2> QED BY <2>1 DEF TurnInv, InTurn
<1>11. ASSUME NEW f \in up \cup down, Lose(f) PROVE TurnInv'
  BY <1>4, <1>11 DEF Lose, sinkVars, sourceVars
<1>12. CASE UNCHANGED vars
  BY <1>1, <1>12 DEF vars, sinkVars, sourceVars
<1> QED BY <1>2, <1>3, <1>5, <1>6, <1>7, <1>8, <1>9, <1>10, <1>11, <1>12 DEF Next

LEMMA InitTurn == Init => TurnInv
<1> SUFFICES ASSUME Init PROVE TurnInv
  OBVIOUS
<1>1. Counted
  BY DEF Init, Counted
<1>2. InTurn
  BY DEF Init, InTurn
<1> QED BY <1>1, <1>2 DEF TurnInv

\* Until a restart, bytes that a particle waits for land when they arrive,
\* however full of orphans the stash is (Repli_recv_page).
THEOREM AwaitedPageLands == Spec => ArrivedPageLands
<1> DEFINE Inv == ReplInv /\ TypeInv /\ TurnInv
           Lands == \A f \in down :
             f.type = "page" /\ Receive(f) /\ awaiting[f.id].chunk = f.chunk =>
               f.chunk \in filled' \/ spent["restart"] > 0
<1>1. Init => Inv
  BY InitSound, InitType, InitTurn
<1>2. Inv /\ [Next]_vars => Inv'
  BY NextStep, NextType, NextTurn
<1>3. Inv => [Lands]_vars
  <2> SUFFICES ASSUME ReplInv, TypeInv, TurnInv, NEW f \in down, f.type = "page",
                      Receive(f), awaiting[f.id].chunk = f.chunk,
                      ~ (spent["restart"] > 0)
               PROVE  f.chunk \in filled'
    OBVIOUS
  <2>1. spent["restart"] = 0
    BY DEF TurnInv, Counted, Faults
  <2> DEFINE stashed == [stash EXCEPT ![f.id] = f.chunk]
             gone == Overflow(stashed)
             awaited == [i \in BufIds |-> IF i \in gone THEN Nobody ELSE awaiting[i]]
             kept == [i \in BufIds |-> IF i \in gone THEN Total ELSE stashed[i]]
             met == {i \in BufIds \ gone : i = f.id /\ awaited[i] # Nobody}
             landed == {awaited[i].chunk : i \in
                          {j \in met : awaited[j].chunk = kept[j]}}
  <2>2. Attach(met, awaited, kept)
    BY DEF Receive, RecvPage
  <2>3. f.id \in BufIds /\ f.id \notin gone
    BY <2>1, TurnSpared DEF Receive
  <2>4. f.chunk \in Chunks
    BY DEF TypeInv, FlightShape, FrameShape
  <2>5. stashed[f.id] = f.chunk
    BY <2>3 DEF TypeInv, BufShape
  <2> HIDE DEF stashed, gone
  <2>6. awaited[f.id] = awaiting[f.id] /\ kept[f.id] = f.chunk
    BY <2>3, <2>5
  <2>7. awaiting[f.id] # Nobody
    BY <2>4, PagesFinite DEF Nobody
  <2>8. f.id \in met /\ awaited[f.id].chunk = kept[f.id]
    BY <2>3, <2>6, <2>7
  <2>9. filled' = filled \cup landed
    BY <2>2 DEF Attach
  <2> HIDE DEF awaited, kept, met
  <2> QED BY <2>6, <2>8, <2>9
<1> HIDE DEF Inv
<1>4. Spec => [][Lands]_vars
  BY <1>1, <1>2, <1>3, PTL DEF Spec
<1> QED BY <1>4 DEF ArrivedPageLands
=============================================================================
