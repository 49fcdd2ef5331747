# TLA+ models of jamsend's peer-to-peer core

jamsend is a music app whose tabs and daemons talk to each other as peers.  Its
own logic lives in the "ghosts" (`src/Ghost/**/*.g`, a stylised TypeScript
compiled onto one object, `src/src/lib/gen/**/*.go`), in the Svelte library
under `src/src/lib`, and in the relay server `src/src/lib/server/relay.ts`.
Everything stands on the transport (a Peering has Piers, a Pier an `%outbox` and
an `%inbox`, a carrier takes frames between them), on the relay that arbitrates
names, seats and presence, and on the mutex that makes a delivery one step.
Above these come replication and the radio.  These modules model the transport, the
relay's arbiters, its gate and its bridge, the mutex and the pull of a record, and
state and prove what they promise.

Source paths are relative to the repository, which sits at `src/`; the
repository's own library is therefore `src/src/lib`.  `PROJECT.json` gives the
lines of a ghost in its compiled form.

## 1. Inventory

| component | state it keeps | operations | modelled in |
|---|---|---|---|
| **Reliable** `Ghost/N/Reliable.g` | none (pure); a cursor `[last, buffered]` and a policy are passed in | `inseq_admit`, `retx_delay`, `retx_due`; test carrier `make_lossy_partner` | `Reliable` |
| **Peeroleum, sending** `Ghost/N/Peeroleum.g` | `pier.c.seq`, `%outbox/emit` (frame, `sent_tick`, attempts, acked), `%outbox/recent`, `%stalled` | `Peeroleum_send`, `take_ack`, `retx_sweep`, `runstepped` | `Outbox` |
| **Peeroleum, receiving, lossy carrier** | `pier.c.inseq`, `pier.c.held`, `%inbox` | `Peeroleum_deliver(_do)` with `conn.reliable === false`, `reset_handshake` | `PierStream` |
| **Peeroleum, receiving, relay** | `pier.c.hiseq`, `%inbox` rows, `%inbox/recent` ledger, `bound_stride` | the reliable branch of `Peeroleum_deliver_do`, `bound_inbox`, `runstepped` | `RelayStream` |
| **Swarm eras** `Ghost/S/Swarm.g` | `station_era`, `route.c.peer_era` | `Swarm_era`, `Swarm_note_era` | `RelayStream`, `ReplPull` |
| **Socket_real** `Ghost/N/Tribunal.g` | sockets and their handlers, `ws`, timers, `down_since`, `closed_at`, `dial_at`, `last_rx`, `alive_probe_at`, `last_redial`, `pending`, `bulkQ` | `send`, `reconnect`, `rehome`, `close`, `onopen`, `onclose`, `onmessage`, `redial`, the silence watch, `pump_bulk` | `SocketPort` |
| **Presence** `Ghost/N/Presence.g` | the last `who_ok` snapshot, its coverage and date, the ask outstanding | `ask`, `take`, `fresh`, `live`; the relay's `who` | `Presence` |
| **Repli, one record** `Ghost/N/Repli.g`, `Ghost/M/Ra.g` | stamps, parks, Karn marks, page stash and waits at the sink; encoder frontier, parked wants, `bufseq` at the source | `Ra_pull_beat`, `want`, `lines`, `page`, `parked`, age-out, rebirth, the pump | `ReplPull` |
| **Housing** `src/lib/O/Housing.svelte.ts` | `H.todo`, the throttle gate, `began_run`/`finished_run`, `_mutex_beliefs` and its waiters | `i_elvisto`/`post_do`, `answer_calls`, `beliefs`, `UItime`, `start`, `stop` | `Beliefs` |
| **Write seat** `relay.ts` `handleSeat`, `src/lib/O/LiesLies.svelte` | `seats`, `seatWaiters`; `%Seat`, `seat_asked` | ask, take, `seatFree`, `drop`; `Lies_seat_ask`, the answers, the typed save | `WriteSeat` |
| **Door of a soul** `relay.ts` `handleHello`, `Ghost/S/Swarm.g` | `locals`, what a socket was granted; `Swarm_address`, ack latches | hello with its clamp, the adopt hook, yield, reclaim, rehome, retry; `deliverLocal` | `SoulDoor` |
| Tribunal carrier choice | `%active_transport`, `%faulty` | `fall_to_websocket`, `activate_websocket`, `redial`, `redial_sweep` | only the reset it performs |
| **Bridge** `relay.ts` `dialEditor` | `role`, `peerLink` at either end, `redialTimer`, watchdogs, `isAlive` | `setRole`, `dialEditor`, `scheduleRedial`, a link's events, the inbound end, the ping round | `Bridge` |
| **From-check** `relay.ts` `fromGate` | `ws.bound`, `ws.helloPending`, `ws.fq` | a frame, a hello, a verification | `FromGate` |
| Relay, the rest | role buckets, channels, gen watches | `become`, `claim`, `subscribe`, forwarding | no |
| Handshake, Stuff, ceremonies, music, UI, tooling | | | no (section 7) |

### How they interact

A caller hands `Peeroleum_send_to` a frame.  It draws a seq from the Pier, books
an `%emit` for it if its type is one that must arrive, and gives the frame to
the active carrier's `port.send`.  The far carrier hands it to `port.recv`, by
`post_do` or the batcher `Lies_deliver_soon`, so that the whole of
`Peeroleum_deliver` runs under the beliefs mutex: that is what `Beliefs` promises
and the link modules take for granted when they make a delivery one step.  An
ack carries only a seq.  A timer runs `retx_sweep`, `liveness_sweep` and
`runstepped` over all Piers.  When a Peering changes carrier, or an identity
restarts, `reset_handshake` clears parts of both queues.  On the relay carrier,
Socket_real is the port; it keeps dialling underneath without the Piers knowing,
and each of its opens makes the tab say hello (`SoulDoor`), ask for the seat
(`WriteSeat`) and, a round later, ask who is online (`Presence`).  What the tab sends
meanwhile passes the relay's from-check (`FromGate`), and what is for a tab of the
other relay crosses the `Bridge`.  Repli's frames
are ephemeral: whatever the link loses, `ReplPull`'s own timers make up for.

### What is hard

* **Delivery**: frames are lost, repeated and reordered by a carrier; acks too.
* **Two duplicate disciplines**: on a lossy carrier a cursor decides, on the relay
  a high-water mark and a bounded memory of served rows; each with its own resets.
* **Forgetting**: outbox cap, inbox bound, ledger whittle, cull, `%stalled`, the
  page stash's cap.  Each is a place where a frame, or the memory of it, goes.
* **Restarts**: a reloaded tab draws seqs from 1 again into the rows of its previous
  incarnation, and buffer ids into the waits of it.
* **One end at a time**: a re-dial, a dead socket, a lapsed wait is known to one
  side first; the relay may hold a socket open whose tab is long redialling.
* **Verification off the handler**: the relay awaits a signature and then acts on
  a socket that may have closed, and on names that may have moved.
* **Timers that do not know each other**: backoff, stability, silence watch; the
  gate and the look-again timers of a House.
* **One thread, many turns**: every handler may await; the mutex makes a delivery
  one step, and nothing else does.

What makes each part correct is in section 3.

## 2. The modules

```
Reliable  <-  Outbox  <-  PierStream  <-  PierStreamProofs
                    \          \ Promise == INSTANCE OrderedDelivery
                     <- RelayStream <- RelayStreamProofs
SocketPort <- SocketPortProofs        Beliefs  <- BeliefsProofs
ReplPull   <- ReplPullProofs          SoulDoor <- SoulDoorProofs
WriteSeat  <- WriteSeatProofs
Bridge, Presence, FromGate <- RelayServerProofs
```

`Bridge`, `Presence` and `FromGate` share a proof module, so their specifications
carry the component's name (`BridgeInit`, `GateSpec`, ...).

An `MC` module beside each run's module instantiates it for TLC.  Operators of a
module that are named after a mistake (`FreshForEver`, `GrantFirst`, `GivesUp`,
...) are the plausible errors each property was tried against; the model
never uses them.

**Reliable** is the algebra of `Reliable.g`.  The code keeps `buffered` in an array
that it only searches by value: here a set.  It stores the tick a frame was sent
at and compares with now: here the difference, `age`.  The drain loop is a
`CHOOSE` of the end of the contiguous run, which the proofs show to exist.

**Outbox** is what the sending functions do to `%outbox/emit`, as operators on a
function from seqs to emits: `BookEmit` with its `Backstop` (oldest emit out at the
cap, acked or not), `TakeAck` (stamp and whittle the acked), `Aged`/`Swept` (the
sweep), `Culled`.  Both link modules use it.

**PierStream** composes a sender and a receiver around a carrier that is a *set*
of frames in flight: taking a copy without removing it is duplication, taking any
member is reordering, `LoseFrame` is loss.

| action | code |
|---|---|
| `Send` | `Peeroleum_send_to` of a booked type |
| `SendBeacon` | the same of an ephemeral type: draws a seq, books nothing |
| `ReceiveAck` | `Peeroleum_take_ack` |
| `Beat` | `retx_sweep` and the cull of `runstepped`, one timer beat |
| `Deliver` | `Peeroleum_deliver_do`, all of it: cursor, hold, release, dispatch, ack |
| `ResetSender`, `ResetReceiver` | `Peeroleum_reset_handshake` at either end |
| `LoseFrame`, `LoseAck` | the carrier (`make_lossy_partner` decides deterministically; here any choice) |

`bad` in `Deliver` is the part of a released run whose handler refuses, throws, or
finds a bad body: those are finished without an ack (`req_unemit`, the error
branch).

**OrderedDelivery** is the abstract specification: frames are sent, delivered in
order in runs, and confirmed to the sender only if delivered.  `PierStream`
implements it under `sent <- nseq, delivered <- log, confirmed <- Acked(outbox)`.

**RelayStream** is the other branch.  The carrier is a FIFO, `Len(wire)` at most
`MaxTransit`; a broken connection takes frames with it (`LoseFrame(i)`), and a resend
then arrives behind newer frames.  `Restart` is a reloaded tab: new era, seqs from
1.  The code's rows and ledger are particles read oldest first; each stands for one
dispatch, so here both are sets of places in `log`, and "all but the newest 200" is
about places.  A frame is `[seq, type, inc]`; the code's duplicate test compares
seq, type, body hash and length, so two frames of equal seq and type here stand
for frames whose bodies agree as well.  `Deliver` is one of `HearPulse` (ephemeral
lane, may find a changed era and drop the inbox), `DeliverNew` (fast path, or slow
path with nothing remembered), `DeliverReused` (re-ack), `DeliverRebornKnock` (a
`pier_hello` on stale rows resets the stream).  The inbox bound runs on each
`Stride`-th dispatch *inside* the delivery, as in the code.

**SocketPort** is Socket_real.  A socket is in `socks` while it can still call back:
`redial()` takes the handlers off the one it drops, `onclose` is the last call of
the others.  `timers` are the backoff timers, by the socket whose `onclose` armed
them: the code keeps no handle to them, so nothing ever cancels one.  Time
is counted in ticks of the watch (5 s).  `Tick` is the passing of 5 s *and* the
watch's look, with the rules in the code's order; it waits until everything due
has happened (`Settled`), so timers are punctual, and the network too, except for a
socket that `Hangs`.  Modelled with `wire_verbose` off.  Frames of the `ambient`
list, dropped while the port is down, change nothing and are no action;
`SendLetter` is a frame that buffers, `SendPage` a `repli_page`.  A dial takes a name
that no socket or timer bears (`Spare`); the runs have more names than they can use.

| action | code |
|---|---|
| `Opens`, `Receive`, `Breaks`, `ClosingEnds` | `onopen`, `onmessage`, `onclose` (of a failure, of our own close) |
| `Backoff`, `ProvedStable`, `Pump` | the three timers |
| `Tick` | `setInterval(..., 5000)`: blanket rule, stuck dial, closed too long, probe, no answer |
| `Reconnect`, `Rehome`, `CloseForGood`, `SendLetter`, `SendPage` | the port's methods |

**Presence** has three parties: the station (`Ask`, `Take`, `Tick`, and the verdict
`Live`), the relay (`RelayAnswers`, the `who` handler with its WHO_MAX and its
refusal of a socket that is not hello-bound), and the socket between
(`SocketOpens`, `HelloVerified`, `SocketBreaks`), which keeps the order of its
frames: a late answer is one to an ask that another has superseded by then.  `snap`
is a history: what the relay really looked up for the answer last taken.

**ReplPull** pulls one record from one source.  `Beat` is `Ra_pull_beat` whole: the
holes of the lead, the gate of stamps and parks, the budget, the tail probe and the
marks of Karn's rule.  A page both asked for and probed in a beat goes out as two wants,
as it does from the two loops of the code.  `Receive` is one of the three answers: lines name a buffer
id for every chunk, a page brings an id's bytes, parked says the encoder is not
there yet.  Lines and parked frames may pass queued pages (the bulk lane) and
nothing else reorders (`NextOfLane`).  `AgeOut` is a waiting particle giving up,
`WaitLapses` and `ParkCools` the timers, `Pump` the encoder's frontier with the
lease cull, `Restart` a source that begins its buffer ids again, `HearRebirth` what
the sink then clears.  Ask numbers are a history (which ask does a frame answer?).

**Beliefs** follows one thread: a task (a timer, an event) runs to its end, then the
microtasks it left run first in first out.  `micro` is that queue, and the order in
which waiters on the mutex resume is decided there.  `Push` merges thinks by the
code's aim rule, `AnswerCalls` is the throttled drain with its gate, `Answer` and
`Finish` the run, `UItime`, `Cleared` and `Lock` a transaction that waits for the
key and may find it taken again, `JobResumes` a job that pushes and ends.  What comes
from outside (a push, a poke, a transaction, `start`, `stop`) may come as a task or from
a microtask, between any two others, since promise callbacks and effects are both; only
timers wait for the queue of microtasks to be empty.  `Really` is the look with its
throw: at a House whose run has begun and is not finished the rows leave and nothing
begins.  `knocked` is a history; the look-again timers are one flag.

**WriteSeat**: each connection of a tab is a socket of its own, and the two ends of
one notice its death apart: the tab may redial while the relay still holds the old
socket, and the relay's socket is already closing before its close event runs
`drop()`.  `trust` is chosen at the start: with trusted keys configured an ask
before the hello is refused.  A hello and the flock proof after it are one round
trip.

**SoulDoor**: a body of a soul says two hellos on each open, its own and the soul's;
`VerifySoul` is the relay's arbitration once the signature is checked, which may be
after the socket closed or after others'.  `Hears` is the adopt hook: a suffix makes
a body yield to its own name, the bare name makes it reclaim, both by `Rehome`, which
closes the socket to redial.  A slot is one connection, used again once the relay's
end of it is shut; `drop()`'s unbinding is invisible, since every question skips a
socket that is not open.  `Boot` may bring a stale address back.

**Bridge** is one relay that dials and one that is dialled.  A link has a state at
either end (`near`, `far`), which learn of each other's end apart, or not while its
path is `cut`; a link is used again once both ends are rid of it.  `DialEditor` is
shared by the three that call it, as in the code.  `DialFails` is an error and the
close that follows it in one turn; `HangsUp` and `Closes` are apart, since a link is
CLOSING between them and `dialEditor` treats it differently.  A relay ends a link
whose ping went unanswered in `PingRound` (the dialler, its one link) and
`EditorRound` (all inbound links at once).

| action | code |
|---|---|
| `SetRole`, `BrowserArrives`, `RedialFires` | what calls `dialEditor` |
| `WatchdogFires`, `DialFails`, `Opens`, `Closes`, `Pong` | the handlers of a dialled link |
| `Accepts`, `RunnerGone`, `EditorPong` | those of an inbound one |
| `PingRound`, `EditorRound` | the heartbeat at either end |
| `Cut`, `Heals`, `EditorRestarts`, `HangsUp` | the world |

**FromGate** is one browser socket.  `Frame` is `fromGate` for one message: it joins a
queue, passes, starts a queue or is refused.  `Verified` is the end of `handleHello`
with the microtasks it leaves, and binds the key's prepub and the seat it was granted
(which of the key's names that is, the arbiter decides: `SoulDoor`; here any).  The chain of promises that is `ws.fq` runs to its end
before another message is read, so a queue is judged whole.  A hello that fails for
want of a key or a fresh stamp, or wants a name of another's family, is one whose
verification ends badly.  `behind` and
`crossed` are histories.

## 3. The runs

| run | question | bounds | states |
|---|---|---|---|
| `pier_stream` | do order, exactly-once, the meaning of an ack and the sender's record of losses survive loss, copies, reordering, refusals, the backstop, and a re-dial at either end? is every emit settled? does the link implement `OrderedDelivery`? | 3 seqs (1 may be a beacon), 1 re-dial, cap 1, 2 attempts | 33 000 |
| `relay_stream` | is the fast path's licence kept, no ack invented, and each duplicate explained? | 2 seqs x 2 incarnations, 2 troubles, stride 2, windows 1 and 2 | 3 000 000 |
| `socket_port` | lanes, chains of dialling, recovery | 3 frames, 4 troubles, waits scaled to 1-2 ticks | 480 000 |
| `presence` | is a verdict one the relay reached by looking, and does a silence end? | 2 friends, 3 correlation ids, 2 frames under way | 290 000 |
| `repl_pull` | stamps, Karn's rule, bytes and waits, completion | a page of 2 chunks, 2 ask numbers, stash of 1, one each of loss, early lapse, cull, restart | 160 000 |
| `beliefs` | one at a time, no lost wake-up, no lost think, every turn comes | 2 Houses, 2 transactions, 2 worlds, 2 calls, 2 gate timers | 520 000 |
| `write_seat` | do both ends agree on the writer? is there one in the end? | 2 tabs (1 wrests on its first ask), 1 cut, 1 typed save | 460 000 |
| `soul_door` | is a name one socket's? does a body left alone come to rest? | 2 bodies, 2 slots, 1 cut, 1 repeated hello | 790 000 |
| `bridge` | do both ends name one link? is a bridge that is down always about to be dialled, and does it come to stand? | 3 links, 2 cuts, 1 refusal, 1 restart | 287 000 |
| `from_gate` | is the order kept, is the hello waited for, is every frame judged? | 2 keys of 2 names, 3 frames, 2 hellos | 320 000 |
| `never_both_write`, `hung_dial` | what a comment or a doc says and the code does not keep | | counterexample |

**Why the bounds suffice.**  The safety of every module is proved for all bounds
(section 5), so the bounds matter for liveness, and for finding a mistake early.

* `pier_stream`: three seqs are what a gap needs: one missing, one held behind it,
  one to release or to overtake.  A cap of 1 makes every second send force the backstop.
* `relay_stream`: two incarnations of two seqs are enough for a
  collision at a seq below and at the high-water, a stride of 2 lets a delivery
  fall on and off the bound, `DoneKeep` 1 and `LedgerKeep` 2 make both windows
  overflow, `InboxCap` 2 makes the shed happen (refused rows are never promoted).
* `socket_port`: the code's waits are scaled down but kept in order (a backoff is
  shorter than `ClosedLimit`, the blanket rule last), so that the blanket rule fires
  within two failures.
* `presence`: three ids are an ask, one that supersedes it, and a late answer.
* `repl_pull`: a page of two chunks is half landed, whole, parked and asked again; the
  restart brings its ids round again, a stash of 1 is full with one orphan, and 8
  ids never stop the source before the record is complete (`Completes` would fail).
* `beliefs`: two Houses compete for the key with two transactions, so that one that
  wakes finds it taken; two calls are a row pushed and one pushed behind it, or the one
  that runs and the one the throw loses.
* `write_seat`: one cut is a reconnect with the relay's end still open, and for the
  tab's end a redial before or after the seat was freed.
* `soul_door`: two slots let a body stand beside its own half-open past.
  `MaxSuffix` 5 is out of reach of four sockets: the arbiter never waits for it.
* `bridge`: three links are one whose close is still to come at either end, one that
  took its place, and a third when that fails too; two cuts are one at each.
* `from_gate`: three frames are one that starts a queue, one that joins it
  and one that may pass; two hellos let one replace another in `helloPending` while the
  queue waits, and two names a key let a hello bind another than the one claimed.

Type correctness is proved for every module; the runs check it where a mistake of the
code could break it (a stride, a queue's cap, an overwritten stamp, a hello kept as
pending).  `CHECK_DEADLOCK FALSE` is said where the system really stops: a link with nothing
to send, a House with no rows, tabs at rest.  `repl_pull` does check deadlock.

### Properties

*Link.*  `ExactlyOnceInOrder` (req_unemit sees 1, 2, 3, ...), `HeldTail` (the cursor's
`buffered` and the kept frames are one set: the code keeps two structures),
`AckedWasAdmitted`, `NothingVanishes` (a booked frame not at the receiver is in the
outbox, under `%stalled`, or among those a re-dial or the backstop dropped),
`UnfillableGapIsForever` (the price: once the seq the cursor waits for has no emit and
no copy on the wire, that is so for ever, across every send, resend and re-dial, and
neither it nor a later seq is ever dispatched), `KeepsPromise` (the refinement), `EveryFrameAccounted` (liveness: no
emit stays un-acked in the outbox).

*Relay link.*  `FreshIsNew` (every remembered row lies at or under `hiseq`, which is all
that entitles the fast path not to look), `AckIsExplained`,
`DuplicateNeedsForgetting` (a frame dispatched twice in one epoch had its row
shed, or `RecentKeep` serves came between).

*Socket.*  `ChainsBounded` (no rule leaves a second socket or timer behind, except the
blanket rule, one each time), `LanesInOrder`, `NothingStrands` (nothing is flushed
into a socket that is not open; no page of an open socket waits without a pump;
both except after a blanket re-dial), `Recovers`.

*Presence.*  `VerdictWasLookedUp`: online and offline are verdicts the relay reached by
looking that friend up for the answer last taken, so neither a superseded ask, nor
a refusal, nor a late answer can make one up.  `NotStranded`: a friend that stays
online does not stay silenced by an old answer.

*Pull.*  `StampMeansOutstanding` (no complete page keeps a stamp),
`KarnsRule` (an elapsed time is sampled only if the landing answers the ask that was
stamped, but after a rebirth), `BytesMeetTheirWait` (stashed bytes and the particle
that awaits them never lie side by side), `ArrivedPageLands` (until a source restarts, the
stash's cap never drops the page that has just come for a particle that waits),
`Completes`.

*Beliefs.*  `RunsAlone`, `Driven` (rows at a running House: something will look),
`NothingMislaid` (each step that takes rows off a queue begins a run that looks wherever
they would have; its one exception is the throw of section 6), `EveryTurnComes` (rows are taken, transactions run).

*Seat.*  `SeatIsAgreed`: a tab that believes it writes is the relay's holder, and one
that reads waits where the end of the holder will tell it.  `OneWriter`: in the end
exactly one tab writes, where no trust is configured.  Both except for a tab that
reconnected under trust, whose ask is never made: see `never_both_write`.

*Door.*  `SeatsExclusive`: no address is granted to two open sockets.
`AloneSettles`: once its siblings are gone for good a body stops moving, and what is
sent to the soul reaches its socket and no other, whatever half-open past of its own
or stale siblings the relay still holds.

*Bridge.*  `EndsAgree`: the runner has at most one link open or on its way, and the
editor's `peerLink` is its other end, whatever closes of older links come late at
either.  `Driven`: a runner without a link has a re-dial armed.  `Recovers`: with no
browser's help the bridge stands at last, except for a dial that gets no answer.

*From-check.*  `OrderIsKept`: frames are forwarded in the order they came, once each.
`HelloAwaited`: unless two hellos cross, no frame is refused while a hello it came
behind that may bind the name it claims is being verified, or once that has bound it.
`EveryFrameIsJudged`: no queue outlives its hello, well or ill.

## 4. Fairness

* `PierStream`: `WF(Beat)`.  `retx_sweep` and `runstepped` are run by the live tab's
  trickle (`Ghost/Story/Sounditron.g:2305-2320`) or, in a Story, at each step boundary.
  Nothing is assumed of the carrier or of the handlers: a frame that never gets
  through is meant to end under `%stalled`.
* `SocketPort`: `Tick`, `ProvedStable` and each `Backoff` are timers of a running
  event loop; `Opens`, `ClosingEnds` and `Receive` of a socket that does not hang
  are the network answering.  Failures are bounded, so `Recovers` says: after the
  last one the port gets back.
* `Presence`: `WF(Tick)`, time passes.  Neither asking nor answering is fair.
* `ReplPull`: the beat, the timers and the delivery of each kind of frame are weakly
  fair.  `Pump` is strongly fair: `MaxDown` disables it whenever answers fill the
  wire, a bound of the model and not of the code.
* `Beliefs`: microtasks run, timers fire, and a job that awaits resumes and ends.
  That a waiter is not overtaken for ever is not assumed: it is `EveryTurnComes`.
* `WriteSeat`: the relay reads its sockets, verifications return, close events run, a
  tab hears, acts on what was posted and reopens; either end finds in time that the
  other is gone (ping round, silence watch).
* `SoulDoor`: verifications return, dead ends are reaped, redials are made, acks are
  heard.  Nobody need open a page, and no hello need be repeated.
* `Bridge`: timers and ping rounds of a running event loop, and the network over a
  path that is not cut.  A dial that finds nobody is bounded, not fair; no browser need
  come; and a dial over a dead path may never fail, since the socket has no handshake
  timeout.  A round is taken to be longer than a pong (15 s), so that no sound link
  is ended for a slow one.
* `FromGate`: each verification ends.  Nobody need send.

## 5. What is proved

Each proof module proves theorems of its module's `Spec`, for every value of
the constants that its named assumption allows (naturals, a positive cap or
stride where the code has one, disjoint name spaces, a step-boundary ledger no larger
than the bound's, a preview no longer than its record).  All 26 invariants and the
four other safety properties of the passing runs are among them, and the refinement.

| module | theorems |
|---|---|
| `PierStreamProofs` | `StreamInvariant`; `StreamTypeCorrect`, `DeliversExactlyOnceInOrder`, `HeldTailMatchesCursor`, `AckedFramesWereAdmitted`, `FramesNeverVanish`; `UnfillableGapLasts` (persistence); `LinkKeepsPromise`: `Spec => Promise!Spec` |
| `RelayStreamProofs` | `RelayInvariant`; `RelayTypeCorrect`, `FreshIsNewHolds`, `AckIsExplainedHolds`, `DuplicateNeedsForgettingHolds` |
| `SocketPortProofs` | `Dials` (the invariant of the dials), `OneChainAndBlankets`, `DownMark`, `LanesKeepOrder`, `LanesMove`; `SocketTypeCorrect` |
| `ReplPullProofs` | `Invariance`, `StampsOutstanding`, `NoneLieTogether`, `Karn`, `PullTypeCorrect`; `AwaitedPageLands` (action property) |
| `BeliefsProofs` | `TypeCorrect`, `Exclusion`, `NoWakeUpLost`, `NoneMislaid` (action property) |
| `WriteSeatProofs` | `SeatInvariant`, `SeatTypeCorrect`, `EndsAgree`, `OneWriterWithoutTrust` |
| `SoulDoorProofs` | `DoorInvariant`, `DoorTypeCorrect`, `OneSeatOneSocket` |
| `RelayServerProofs` | `BridgeInvariant`, `BridgeTypeCorrect`, `OneBridge`, `AlwaysRedialled`; `PresenceTypeCorrect`, `VerdictsAreTheRelays` (where lists fit WHO_MAX); `GateInvariant`, `GateTypeCorrect`, `FramesKeepOrder`, `HellosAreAwaited` (action property) |

The arguments, with what each property needs beside itself to be inductive:

* **Link.**  A released run is `last+1 .. end` and every seq of it but the first was in
  `buffered`.  `inseq_admit` would happily release seqs whose frames are not kept, so
  exactly-once-in-order needs `HeldTail`; `HeldTail` needs the cursor to stop exactly
  before the next hole (`RunEndProperties`, by the well-foundedness of `<`).
  `NothingVanishes` needs to know what a sweep may bury (`BeatFacts`).  `Causality`
  keeps the seqs in flight at or under `nseq`, which the refinement needs.  A gap stays
  one (`GapStays`) because a send books only a new seq, a sweep resends only what is
  booked, and the cursor leaves a seq only by its delivery; that nothing behind it was
  seen is `ExactlyOnceInOrder` again.  Every proof
  about `Deliver` is by three cases: duplicate, hold, release.
* **Relay link.**  What the receiver remembers is of this epoch, and the ledger is older
  than the served rows still in the inbox (`InboxSound`), so the newest rows are always
  those the ledger takes over next.  The high-water stands over all that was dispatched
  in this epoch (`Topped`), which is more than `FreshIsNew` says and what survives a
  cull.  A dispatch of this epoch is remembered, or was shed, or `RecentKeep` serves came
  after it (`Remembers`): to be whittled off a ledger of newest rows is to have that many
  newer ones, by cardinality.  That needs `RecentKeep <= LedgerKeep` (200 and 400 in the
  code): a step-boundary cull longer than the bound's ledger would promise too much.
* **Socket.**  A port marked closed has a backoff timer that fires before
  `ClosedLimit`, so the rule "closed too long" never dials beside one, and only the
  blanket rule does.  The lanes need that what was handed over, what is pending and
  what is in bulk ascend together, that one chain means the flushed socket is the
  opened one, and that a bulk lane of an open socket has its pump armed.  Type
  correctness rests on what names a name: `ws`, a timer or an opened flag is a socket's
  (`Named`, `Flagged`), and a capped queue is the tail of one that was in shape.
* **Presence.**  An answer on its way lists only what was looked up, and one that bears
  the outstanding id was looked up for the list asked last.
* **Pull.**  While a page is an unmarked hole, whatever bears an ask's number for it
  bears the stamped one; that is Karn's rule, and what the marks are for.  The stash drops
  the lowest buffer ids.  The page just come for a waiting particle is not among them
  because ids are given in turn (`InTurn`: until a restart whatever is on the wire bears a
  later id than anything in the stash); a restart begins them again, the exception.
* **Beliefs.**  The key is there exactly while somebody is active; rows at a running
  House leave a gate timer, a look timer, a run or a microtask behind, whichever the
  last look left.  Whatever comes between them, the microtasks hold at most one task of a
  holder of the mutex (`HoldersAct`), and a run that has begun is active or its end is
  among them (`BegunRuns`): so a look that finds the key free and the run begun is in the
  excepted turn, and any other look that takes rows begins a run (`LookTakes`).
* **Seat.**  What counts is not what a tab reads but what it *will* read once posted and
  wire are heard (`Reads`).  If it will hold, the relay's holder is its socket or its
  ask is yet to be heard; if not, something will tell it or ask for it (`Awaits`: it
  waits on a holder, an ask or a free is in flight, or, unheard, a hello is).  Under
  trust an unproven tab has heard nothing that could mislead it.  "Never both write"
  follows for every system without trust (`OneWriterWithoutTrust`); under it, section 6.
* **Door.**  The arbiter looks at where a socket is *bound*; the property is about what it
  was *granted*: granted addresses are bound (`Seated`), and nothing outlives a shut
  socket (`BlankWhenShut`), so a free name is one no open socket was granted.
* **Bridge.**  The three properties are inductive together.  A link comes alive only in
  `DialEditor`, and only when `EndsAgree` says that none is; the editor accepts only a
  link that is alive, hence that one; each handler that clears `peerLink` arms the timer
  in the same turn, which is all `Driven` needs.
* **From-check.**  Forwarded frames and those that wait ascend together
  (`QueueInOrder`); the queue judged, its good ones are picked in their order
  (`PickedInOrder`).  While no hellos cross, the pending hello is the one being verified
  and all that waits came behind it alone (`Uncrossed`), so a refused frame either came
  behind no hello of its family or behind one that did not bind its name.

**Only model-checked.**  Liveness and what fairness it needs (`ENABLED`), out of this
prover's reach: `EveryFrameAccounted`, `Recovers` of the socket and of the bridge,
`NotStranded`, `Completes`, `EveryTurnComes`, `OneWriter`, `AloneSettles`,
`EveryFrameIsJudged`.  The two runs that expect a violation are counterexamples, and
`NeverBothWrite` is proved only where it holds.

## 6. What the models showed

Disagreements between the code and what it says of itself; each is a run, and
`PROJECT.json` quotes the lines.

1. `never_both_write`: under trust a holder that reconnects never asks again, so another
   tab is granted the seat and both read themselves as the writer.  Without trust it is a
   theorem that no two do.
2. `hung_dial`: a dial that gets no answer stays CONNECTING; its watchdog arms a re-dial
   that returns because the link is CONNECTING, and the bridge stays down.

In the models too, where a property excepts them, against what the code says:

* `ArrivedPageLands` excepts a restart of the source.  The stash drops the *lowest* buffer
  ids, not "stale orphan pages" (`Repli.g:1291`): ids begin again at a restart, so the
  first to go is then the page that has just arrived.
* `AloneSettles` speaks of a body whose siblings are gone.  A reclaim closes the very
  socket that was granted the bare name (`Swarm.g:2693`); two bodies whose redials cross
  can take it from each other for ever, against "Converges" at 2638 and 2687.
* `HelloAwaited` excepts hellos that cross.  The relay remembers the last hello of a
  socket (`relay.ts:785`), a station says two; a frame may be refused while the hello
  that would prove it is being verified, against `relay.ts:576` and 782.  (A booked frame
  is sent again; an ephemeral one is lost.)
* `NothingMislaid` excepts the turn between the end of a job and the end of its run.  The
  key is free there and `finished_run` (`Housing.svelte.ts:1554`) is a microtask away; a
  push from a microtask queues a look in between, which shifts its rows (1462, 1510) and
  then throws "double answer_calls()" (1519-1521), a rejection nobody awaits (1370): the
  rows are gone, against "a row waiting is enough now" (1132).  It takes a gate that has
  opened again during the job, so a job longer than the gate's wait.
* Recording the era of a booked frame (`Swarm.g:3151`) makes the pulse that should drop
  the inbox see no change, against 3108: the rows of the previous incarnation stay, and
  a new frame of the same seq and type is acked and not dispatched.

Noted while reading:

* A refused frame is finished without an ack; its retransmit is then acked as a
  duplicate (`Peeroleum.g:1154-1157`, `1199`) and never handed over again.
* A re-dial may drop a held frame whose emit is gone at the sender
  (`Peeroleum.g:1316`, `1371`): "retx resupplies" is then false, the gap permanent.
* `Peeroleum.g` (395, 426, 455) says a live station arms no retransmit sweep;
  Sounditron's trickle does run one.
* A list of friends longer than WHO_MAX: those past it are taken as covered
  (`Presence.g:102`) and read offline for good.  `VerdictsAreTheRelays` assumes lists fit.
* `Tribunal.g:185`: the `ambient` list, dropped while down, includes `suggest` and
  `suggest_got`, which Peeroleum books as reliable.
* A CLOSING that never completes after `reconnect()` or `rehome()` of an open port is
  noticed by no rule (`Tribunal.g:461-463`): `down_since` is 0 there.  The blanket
  rule dials beside a pending backoff timer (465); `ChainsBounded` states the exact
  exception.  An orphaned second socket's traffic resets `last_rx` and so keeps the
  watch from probing a half-open current one; `Recovers` excludes both by name.
* After a rebirth an elapsed time may be sampled against the wrong ask, against the
  comment at `Swarm.g:3138`; `KarnsRule` makes that its one exception.  The tail probe
  may ask again in the beat that has just asked (`Ra.g:3778`).  A lost parked frame lets
  the time a want waited for the encoder be sampled.
* A `connect()` that throws inside `redial()` (`Tribunal.g:455`: a URL the browser will
  not have) is not modelled: it leaves the port closed, for the rule "closed too long".
* `repl_pull` has one page, and in `presence` a list is never longer than WHO_MAX:
  one page starving another, and the cut of a long list, are in no run.
* The wrest of a boot is lost under trust: the first ask carries it, is refused
  "hello first", and spends `seat_asked`.  `release` and `who` of a seat delete a closing
  holder silently, so that its `drop()` tells nobody; no client sends them.
* A lone body yields to its *own* half-open old socket (the comment at `Swarm.g:2651`
  says "another body of ours"), until the relay reaps it; meanwhile frames to the
  soul reach every socket bound there by courtesy.  A hello verified after its
  socket's close leaves it in `locals` for good; every reader of `locals` skips it.

## 7. Not modelled

* **Handshake** (`req_handshake`): only test worlds seed it; a live station routes by
  sealed friendships instead (`Ghost/S/Swarm.g:1782-1786`).
* **Carrier choice** (Tribunal): a comparison of what is up, made anew at each look.  A
  Pier that moves from a lossy carrier to a reliable one would need both streams in
  one state; the redial that moves it resets both.
* **Relay**: `become` and role buckets, channels and claims, gen writes and file watches:
  forwarding and file I/O, each one synchronous handler.  Of the bridge: a second relay
  that takes it over, a relay that dials itself, clashing roles, the flock's proof.
* **Repli**: offers and the roster they refresh, misses, the head run, the Float32 path,
  the self-clock (off by default).
* **Housing**: the gallop (it only shortens waits), the door of a Story's Run House
  (thinks pushed while it is shut never reach the queue), diagnostics.
* **SoulDoor**: `Swarm_steal_back` and `Swarm_reinstate`, which a user calls.
* **WriteSeat**: a tab with no key to prove with (it only reads); held-back saves beyond
  the ask.
* **Stuff** (the particle store: containers of every component), **Swarm ceremonies**
  (signatures and application data), **music, radio, pool, crate** (browser audio and
  storage calls dominate), **Supervisor, Theory, Lagoon, Vyto, Voro** (views and
  inspection), **Lang, Lies, Story** (compiler, editor, test driver), **Daemon and
  scripts** (process supervision and file serving).

## 8. What would come next

Channels and claims of the relay beside `SoulDoor`; two bodies of a soul
composed with `RelayStream`, since each rehome of a door taken back and forth rolls the station's era.
