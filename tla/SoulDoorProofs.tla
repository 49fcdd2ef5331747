--------------------------- MODULE SoulDoorProofs ---------------------------
(***************************************************************************)
(* For every number of bodies, connections, failures and repeated hellos:  *)
(* the relay never grants one address of a soul to two open sockets.       *)
(*                                                                         *)
(* The arbiter looks at where a socket is bound, the property is about     *)
(* what it was granted: what it was granted it is bound under (Seated),    *)
(* and what is shut, or not yet dialled, holds nothing and asks nothing    *)
(* (BlankWhenShut), so that no grant outlives its socket into the next     *)
(* connection.  A tab that is up has its socket open (UpIsOpen).           *)
(***************************************************************************)
EXTENDS SoulDoor, TLAPS, NaturalsInduction, WellFoundedInduction

Seated == \A s \in Socks : seats[s] \subseteq bound[s]

BlankWhenShut == \A s \in Socks \ open : seats[s] = {} /\ hello[s] = {}

UpIsOpen == \A b \in Bodies : page[b] = "up" => Cur(b) \in open

DoorInv == TypeOK /\ Seated /\ BlankWhenShut /\ UpIsOpen /\ SeatsExclusive

-----------------------------------------------------------------------------
\* A set of naturals that is not empty has a least member, which Min chooses.
LEMMA MinProperties ==
  ASSUME NEW S \in SUBSET Nat, S # {}
  PROVE  Min(S) \in S
<1> DEFINE Below == OpToRel(<, Nat)
<1>1. Below = {p \in Nat \X Nat : p[1] < p[2]}
  BY Zenon DEF OpToRel
<1>2. IsWellFoundedOn(Below, Nat)
  BY NatLessThanWellFounded, Zenon
<1> HIDE DEF Below
<1>3. PICK n \in S : \A k \in S : ~ (<<k, n>> \in Below)
  BY <1>2, WFMin, Zenon
<1>4. ASSUME NEW k \in S, k < n
      PROVE  <<k, n>> \in Below
  BY <1>1, <1>4
<1>5. \A k \in S : ~ (k < n)
  BY <1>3, <1>4, Zenon
<1>6. \A k \in S : n =< k
  BY <1>5
<1>7. \E x \in S : \A y \in S : x =< y
  BY <1>6
<1> QED BY <1>7 DEF Min

\* What the arbiter grants is of the family, and no other open socket that is
\* bound under it was granted it.
LEMMA GrantIsFree ==
  ASSUME NEW s \in Socks, FreeSuffixes(s) # {}
  PROVE  Grant(s) \in Family /\ ~HeldByAnother(Grant(s), s)
<1> USE DoorAssumption
<1>1. Door \in Family
  BY DEF Door, Family
<1>2. CASE HeldByAnother(Door, s)
  <2>1. FreeSuffixes(s) \in SUBSET Nat
    BY DEF FreeSuffixes, Family
  <2>2. Min(FreeSuffixes(s)) \in FreeSuffixes(s)
    BY <2>1, MinProperties
  <2> QED BY <1>2, <2>2 DEF Grant, FreeSuffixes
<1>3. CASE ~HeldByAnother(Door, s)
  BY <1>1, <1>3 DEF Grant
<1> QED BY <1>2, <1>3

LEMMA InitDoor == Init => DoorInv
BY DoorAssumption DEF Init, DoorInv, TypeOK, Seated, BlankWhenShut, UpIsOpen,
  SeatsExclusive, Door, Hellos, Socks

-----------------------------------------------------------------------------
\* A grant joins the seats and the bindings of one socket, which is open; no
\* other has it.
LEMMA VerifySoulStep == ASSUME DoorInv, NEW s \in Socks, VerifySoul(s) PROVE DoorInv'
<1> USE DoorAssumption DEF DoorInv
<1> DEFINE g == Grant(s)
<1>1. g \in Family /\ ~HeldByAnother(g, s)
  BY GrantIsFree DEF VerifySoul
<1> HIDE DEF g
<1>2. /\ hello' = [hello EXCEPT ![s] = @ \ {"soul"}]
      /\ bound' = [bound EXCEPT ![s] = @ \cup {Door, g}]
      /\ seats' = [seats EXCEPT ![s] = @ \cup {g}]
      /\ acks' = IF Listening(s) THEN [acks EXCEPT ![s] = Append(@, g)] ELSE acks
      /\ UNCHANGED <<open, qaddr, tab, cuts, retries>>
  BY DEF VerifySoul, g
<1>3. s \in open
  BY DEF VerifySoul, BlankWhenShut
<1>4. TypeOK'
  <2>1. acks' \in [Socks -> Seq(Family \cup Bodies)]
    BY <1>1, <1>2 DEF TypeOK
  <2>2. Door \in Family
    BY DEF Door, Family
  <2>3. /\ hello' \in [Socks -> SUBSET Hellos]
        /\ bound' \in [Socks -> SUBSET (Family \cup Bodies)]
        /\ seats' \in [Socks -> SUBSET (Family \cup Bodies)]
    BY <1>1, <1>2, <2>2 DEF TypeOK
  <2> QED BY <1>2, <2>1, <2>3 DEF TypeOK, tab
<1>5. Seated'
  BY <1>2 DEF TypeOK, Seated
<1>6. BlankWhenShut'
  BY <1>2, <1>3 DEF TypeOK, BlankWhenShut
<1>7. UpIsOpen'
  BY <1>2 DEF UpIsOpen, Cur, tab
<1>8. SeatsExclusive'
  <2>1. ASSUME NEW o \in open, o # s PROVE g \notin seats[o]
    <3>1. o \in Socks
      BY DEF TypeOK
    <3>2. CASE g \in bound[o]
      BY <1>1, <2>1, <3>2 DEF HeldByAnother, Locals
    <3>3. CASE g \notin bound[o]
      BY <3>1, <3>3 DEF Seated
    <3> QED BY <3>2, <3>3
  <2>2. seats'[s] = seats[s] \cup {g} /\ \A o \in Socks \ {s} : seats'[o] = seats[o]
    BY <1>2 DEF TypeOK
  <2>3. open' = open /\ open \subseteq Socks
    BY <1>2 DEF TypeOK
  <2> QED BY <2>1, <2>2, <2>3 DEF SeatsExclusive
<1> QED BY <1>4, <1>5, <1>6, <1>7, <1>8

LEMMA VerifyBodyStep == ASSUME DoorInv, NEW s \in Socks, VerifyBody(s) PROVE DoorInv'
<1> USE DoorAssumption DEF DoorInv, VerifyBody
<1>1. s[1] \in Bodies /\ s[1] \notin Family
  BY DEF Socks, Family
<1>2. s \in open
  BY DEF BlankWhenShut
<1>3. TypeOK'
  <2>1. acks' \in [Socks -> Seq(Family \cup Bodies)]
    BY <1>1 DEF TypeOK
  <2>2. /\ hello' \in [Socks -> SUBSET Hellos]
        /\ bound' \in [Socks -> SUBSET (Family \cup Bodies)]
        /\ seats' \in [Socks -> SUBSET (Family \cup Bodies)]
    BY <1>1 DEF TypeOK
  <2> QED BY <2>1, <2>2 DEF TypeOK, tab
<1>4. Seated'
  BY DEF TypeOK, Seated
<1>5. BlankWhenShut'
  BY <1>2 DEF TypeOK, BlankWhenShut
<1>6. UpIsOpen'
  BY DEF UpIsOpen, Cur, tab
<1>7. SeatsExclusive'
  <2>1. \A o \in Socks : seats'[o] \cap Family = seats[o] \cap Family
    BY <1>1 DEF TypeOK
  <2>2. open' = open /\ open \subseteq Socks
    BY DEF TypeOK
  <2>3. ASSUME NEW p \in open, NEW o \in open, p # o
        PROVE  seats'[p] \cap seats'[o] \cap Family = {}
    <3>1. seats[p] \cap seats[o] \cap Family = {}
      BY <2>3 DEF SeatsExclusive
    <3>2. seats'[p] \cap Family = seats[p] \cap Family /\ seats'[o] \cap Family = seats[o] \cap Family
      BY <2>1, <2>2
    <3> QED BY <3>1, <3>2
  <2> QED BY <2>2, <2>3 DEF SeatsExclusive
<1> QED BY <1>3, <1>4, <1>5, <1>6, <1>7

\* A socket that is shut leaves nothing behind.
LEMMA ShutStep == ASSUME DoorInv, NEW s \in Socks, Shut(s) PROVE DoorInv'
<1> USE DoorAssumption DEF DoorInv, Shut, Blank
<1>1. TypeOK'
  BY DEF TypeOK, tab
<1>2. Seated'
  BY DEF TypeOK, Seated
<1>3. BlankWhenShut'
  BY DEF TypeOK, BlankWhenShut
<1>4. UpIsOpen'
  <2>1. ASSUME NEW b \in Bodies, page[b] = "up" PROVE Cur(b) # s
    BY <2>1 DEF Listening, Cur
  <2> QED BY <2>1 DEF UpIsOpen, Cur, tab
<1>5. SeatsExclusive'
  BY DEF TypeOK, SeatsExclusive
<1> QED BY <1>1, <1>2, <1>3, <1>4, <1>5

-----------------------------------------------------------------------------
\* A dial takes a slot that is blank.
LEMMA DialStep == ASSUME DoorInv, NEW b \in Bodies, Dial(b) PROVE DoorInv'
<1> USE DoorAssumption DEF DoorInv
<1> DEFINE free == {n \in Slots : <<b, n>> \notin open}
           n == Min(free)
           s == <<b, n>>
<1>1. n \in Slots /\ s \notin open /\ s \in Socks
  <2>1. free \in SUBSET Nat /\ free # {}
    BY DEF Dial
  <2>2. n \in free
    BY <2>1, MinProperties
  <2> QED BY <2>2 DEF Socks
<1>2. /\ open' = open \cup {s} /\ qaddr' = [qaddr EXCEPT ![s] = addr[b]]
      /\ hello' = [hello EXCEPT ![s] = Hellos]
      /\ page' = [page EXCEPT ![b] = "up"] /\ sock' = [sock EXCEPT ![b] = n]
      /\ unacked' = [unacked EXCEPT ![b] = Hellos]
      /\ UNCHANGED <<bound, seats, acks, addr, cuts, retries>>
  BY DEF Dial
<1> HIDE DEF n
<1>3. TypeOK'
  BY <1>1, <1>2 DEF TypeOK
<1>4. Seated'
  BY <1>2 DEF Seated
<1>5. BlankWhenShut'
  BY <1>1, <1>2 DEF TypeOK, BlankWhenShut
<1>6. UpIsOpen'
  BY <1>1, <1>2 DEF TypeOK, UpIsOpen, Cur
<1>7. SeatsExclusive'
  <2>1. seats'[s] = {} /\ seats' = seats
    BY <1>1, <1>2 DEF BlankWhenShut
  <2> QED BY <1>2, <2>1 DEF SeatsExclusive
<1> QED BY <1>3, <1>4, <1>5, <1>6, <1>7

\* The relay is as it was, and who was up is or was not touched.
LEMMA SameRelay ==
  ASSUME DoorInv, TypeOK', UNCHANGED relay,
         \A s \in Socks : hello'[s] # hello[s] => s \in open,
         \A b \in Bodies : page'[b] = "up" => page[b] = "up" /\ sock'[b] = sock[b]
  PROVE  DoorInv'
<1>1. Seated' /\ SeatsExclusive'
  BY DEF DoorInv, Seated, SeatsExclusive, relay
<1>2. BlankWhenShut'
  BY DEF DoorInv, BlankWhenShut, relay
<1>3. UpIsOpen'
  BY DEF DoorInv, UpIsOpen, Cur, relay
<1> QED BY <1>1, <1>2, <1>3 DEF DoorInv

LEMMA BootStep == ASSUME DoorInv, NEW b \in Bodies, Boot(b) PROVE DoorInv'
<1>1. TypeOK'
  BY DEF DoorInv, Boot, TypeOK, relay
<1> QED BY <1>1, SameRelay DEF DoorInv, Boot, TypeOK

LEMMA EndsTyped ==
  ASSUME TypeOK, NEW b \in Bodies, NEW p \in {"off", "away"}, Ends(b, p)
  PROVE  /\ page' \in [Bodies -> {"away", "off", "up", "leaving"}]
         /\ sock' \in [Bodies -> Slots \cup {None}]
         /\ acks' \in [Socks -> Seq(Family \cup Bodies)]
         /\ unacked' \in [Bodies -> SUBSET Hellos]
         /\ \A c \in Bodies : page'[c] = "up" => page[c] = "up" /\ sock'[c] = sock[c]
BY DEF Ends, TypeOK

LEMMA CutStep == ASSUME DoorInv, NEW b \in Bodies, Cut(b) PROVE DoorInv'
<1>1. PICK p \in {"off", "away"} : Ends(b, p)
  BY DEF Cut
<1>2. cuts' \in 0..MaxCuts /\ UNCHANGED <<relay, hello, addr, retries>>
  BY DoorAssumption DEF Cut, DoorInv, TypeOK
<1>3. TypeOK'
  BY <1>1, <1>2, EndsTyped DEF DoorInv, TypeOK, relay
<1> QED BY <1>1, <1>2, <1>3, EndsTyped, SameRelay DEF DoorInv

LEMMA LeftStep == ASSUME DoorInv, NEW b \in Bodies, Left(b) PROVE DoorInv'
<1>1. TypeOK'
  BY EndsTyped DEF Left, DoorInv, TypeOK, relay
<1> QED BY <1>1, EndsTyped, SameRelay DEF DoorInv, Left

LEMMA HearsStep == ASSUME DoorInv, NEW b \in Bodies, Hears(b) PROVE DoorInv'
<1> DEFINE a == Head(acks[Cur(b)])
<1>1. Cur(b) \in Socks /\ UNCHANGED <<relay, hello, sock, cuts, retries>>
  BY DEF Hears, DoorInv, TypeOK, UpIsOpen
<1>2. ASSUME NEW h, Heard(b, h) PROVE DoorInv'
  <2>1. TypeOK'
    BY <1>1, <1>2 DEF DoorInv, TypeOK, Heard, relay, Hears
  <2> QED BY <1>1, <1>2, <2>1, SameRelay DEF DoorInv, TypeOK, Heard
<1>3. ASSUME Rehome(b, Home(b, a)), UNCHANGED unacked PROVE DoorInv'
  <2>1. Home(b, a) \in {Door, b}
    BY DEF Home
  <2>2. TypeOK'
    BY <1>1, <1>3, <2>1 DEF DoorInv, TypeOK, Rehome, relay
  <2> QED BY <1>1, <1>3, <2>2, SameRelay DEF DoorInv, TypeOK, Rehome
<1> QED BY <1>2, <1>3 DEF Hears

\* Only a tab that is up says its hellos again, on a socket that is open.
LEMMA RetryStep == ASSUME DoorInv, NEW b \in Bodies, Retry(b) PROVE DoorInv'
<1>1. Cur(b) \in open /\ Cur(b) \in Socks
  BY DEF Retry, DoorInv, TypeOK, UpIsOpen
<1>2. TypeOK'
  BY <1>1, DoorAssumption DEF DoorInv, TypeOK, Retry, relay, tab
<1> QED BY <1>1, <1>2, SameRelay DEF DoorInv, TypeOK, Retry, tab

LEMMA NextDoor == DoorInv /\ [Next]_vars => DoorInv'
<1> SUFFICES ASSUME DoorInv, [Next]_vars PROVE DoorInv'
  OBVIOUS
<1>1. CASE UNCHANGED vars
  <2>1. TypeOK'
    BY <1>1 DEF DoorInv, TypeOK, vars, relay, tab
  <2> QED BY <1>1, <2>1, SameRelay DEF vars, tab
<1>2. ASSUME NEW s \in Socks, VerifySoul(s) \/ VerifyBody(s) \/ Shut(s)
      PROVE  DoorInv'
  BY <1>2, VerifySoulStep, VerifyBodyStep, ShutStep
<1>3. ASSUME NEW b \in Bodies,
             Dial(b) \/ Boot(b) \/ Cut(b) \/ Left(b) \/ Hears(b) \/ Retry(b)
      PROVE  DoorInv'
  BY <1>3, DialStep, BootStep, CutStep, LeftStep, HearsStep, RetryStep
<1> QED BY <1>1, <1>2, <1>3 DEF Next

\* handleHello and the tabs that come back to it: the inductive invariant of
\* the door.
THEOREM DoorInvariant == Spec => []DoorInv
<1> QED BY InitDoor, NextDoor, PTL DEF Spec

\* Type correctness of the door, whatever order hellos are verified in.
THEOREM DoorTypeCorrect == Spec => []TypeOK
<1>1. DoorInv => TypeOK
  BY DEF DoorInv
<1> QED BY <1>1, DoorInvariant, PTL

\* heldByAnother: one seat, one socket.
THEOREM OneSeatOneSocket == Spec => []SeatsExclusive
<1>1. DoorInv => SeatsExclusive
  BY DEF DoorInv
<1> QED BY <1>1, DoorInvariant, PTL
=============================================================================
