# Pillowfort: a TLA+ development

Pillowfort is a chat room service. A room is a Cloudflare Durable Object (or a
map entry of a local server) to which browsers, agents and a hosted MCP service
connect over WebSockets. Its v4 protocol ("secure rooms") is end-to-end
encrypted with MLS: the server is a *relay* that cannot read frames and decides
only their order, who receives them, who may join, and when a device that is
gone must be removed from the group. This directory models the relay, the object
that stores it, the devices on the other side, the games they play over it, the
sale of a room's code and the plain-text rooms of the local server; it
model-checks them on small instances and proves, for every instance, most of what
the runs check of the parts that could be proved about.

Paths below are relative to the repository (`src/secureRelayV4.ts` and so on).
Line numbers are those of the modelled commit. `PROJECT.json` holds the exact
correspondence: for each definition the lines it translates, for each run what
it checks, for each property the slip in the code that breaks it.

Contents: [inventory](#inventory) · [modules and code](#modules-and-code) ·
[how the code became actions](#how-the-code-became-actions) ·
[what is abstracted](#what-is-abstracted) · [properties](#properties) ·
[runs](#runs-and-bounds) · [fairness](#fairness) · [findings](#findings) ·
[what the models showed](#what-the-models-showed-without-a-run) ·
[proofs](#proofs) · [only model-checked](#what-is-only-model-checked-and-why) ·
[not modelled](#what-is-not-modelled-and-why) · [plan](#what-is-left)

## Inventory

**Secure relay reducer** — `src/secureRelayV4.ts`. *State* (278-460): lifecycle and
host; one record per device (status, the connection that owns it, the phase of
its admission, the order reserved for its proof, the deadline of its absence, a
durable backlog, "must be admitted anew"); the next logical order; the one grant
of that order; a FIFO of order requests; at most one application and one commit
held for the host's decision; a host transfer; a FIFO of removal markers; replay
records. *Operations*: `reduceSecureRelayV4` (3120, one frame of a device),
`disconnectSecureRelayDeviceV4` (4123), `advanceSecureRelayV4` (4178, the alarm), and
`parseSecureRelayStateV4` (1324), which each of them runs on the state it is given.
*Hard*: the right to the next order is passed on in fourteen places; a delivery
may overflow another member's backlog, evict it, raise the removal barrier and
cancel half of the room's pending work inside one handler; six kinds of deadline
are compared with the clock on each entry and served by an alarm that may be
late; a device reconnects before its old socket's close is reported.
*Correct if* one party holds the next order, frames are accepted in one log that
no device reads out of order or with a gap, nothing interrupts an admission, a
leaf of the MLS tree that lost its member record is removed before anything else,
held frames are answered, the room ends only for a reason, and a silent device
prolongs no held frame, absence, request or admission for ever. → `RelayState`, `RelayImport`, `SecureRelay`,
`CausalLog`, `SecureRelayProperties`, `RelayProofs`, `SecureRelayProofs`.

**Durable Object of a room** — `src/room.ts`, `src/secureRelayPersistenceV4.ts`,
`src/alarms.ts`. *State*: in storage a manifest (revision, generation 0 or 1,
digest, chunk count), the chunks, a schedule of deadlines; in memory the restored
state; sockets with attachments; one alarm. *Operations*: `webSocketMessage`,
`webSocketClose`, `alarm`, each under `withSecureLock`; `persistSecureRelayState`
(591-657), restore (547-589). *Hard*: a failed transaction, an eviction or a crash
between any two steps; one alarm for four deadlines. *Correct if* storage always
has one whole state, memory is never ahead of it, no deadline is without an
alarm. → `RoomObject`, `RoomObjectProofs`.

**Participant: identity of a device** — `src/participant/cryptoStateStore.ts`,
`roomCryptoLock.ts`, the set-up half of `secureRoomController.ts`. *State*: encrypted
records in IndexedDB and a registry of unresolved ones, shared by all tabs; a Web
Lock per room instance; each tab's controller. *Hard*: between an authentication
frame and its answer nobody knows whether the relay took it; tabs are reloaded,
cancelled, overtaken. *Correct if* the registry is exact, nothing unmarked is
sent, no two tabs work on one record, nobody erases what an earlier attempt may
have had accepted. → `CryptoStore`, `DeviceIdentity`, `DeviceIdentityProofs`.

**Participant: traffic of a device** — `src/participant/secureRoomEngine.ts`,
`secureRoomController.ts`. *State*: the MLS session, one unanswered frame with its
rollback, pending controls, barriers. *Hard*: refusals after later state was
derived; results, deliveries and deadlines in different orders around a reconnect;
lost answers. *Correct if* no ratchet key is used twice, no accepted frame is
missed, repeated or taken back, and all devices agree on tree, members and
markers. → `SecureSession`, `SecureSessionProofs`, `SecureMembership`.

**Secure game reducer and room state** — `src/secureGameReducer.ts`,
`src/applicationEventsV4.ts`. Deterministic reducers each device runs over the
ordered events. *Hard*: departures, removals and host changes end games from
outside while others are queued. *Correct if* no queued game is stranded, nobody
is removed without a majority, a game pays once, and an event is thrown away only
for a known reason. → `RoomGames`, `SecureRoomEvents`, `SecureRoomEventsProofs`.

**Fort Pass reservations and checkout** — `src/room.ts` 1119-1517 and 1640-1720,
`src/stripe.ts`, `src/entitlements.ts`, the checkout routes of `src/index.ts`. *State*: a
reservation, entitlement, redemption and revocation in the room's object, a lease
in a ledger object per payment, the session at Stripe. *Hard*: three stores, no
shared transaction, repeated and reordered webhooks. *Correct if* a code is never
sold under a buyer who may still pay, a session is granted once, a refund is
final, and who paid is served. → `FortPass`, `FortPassProofs`.

**Local runtime** — `server.ts`. Secure rooms run the same reducer without parsing
a state before keeping it (`SecureRelay` with `Durable = FALSE`); plain-text forts
have handlers of their own. *Correct if* the fort and its sockets agree on the
host, one game is on at a time, nobody plays with someone who is gone.
→ `LocalFort`.

**Not modelled**: plain-text rooms of `src/room.ts` (same handlers as the local
runtime's, no socket of theirs is accepted), drawing queue
(`src/participant/drawing.ts`), hosted MCP (`hosted-mcp/`), wire schemas and
authentication (`protocolV4.ts`, `secureTransportV4.ts`, `deviceAuthV4.ts`,
`roomInvitation*.ts`, `roomAuth.ts`), MLS itself (`crypto/openmls-wasm`), routing and
telemetry (`src/index.ts`, `routes.ts`, `telemetry.ts`), the browser client (`client/`).
See [below](#what-is-not-modelled-and-why).

*How they interact.* A device's controller sends a frame on its socket; the
room's object authenticates the socket and hands the frame to the reducer with
the state it has in memory; the new state is stored and only then are the
effects (frames to devices, closes) carried out; each receiving controller hands
the frame to its engine, which stores the new MLS state before anything else
leaves. Decrypted application events go through the game reducer on every device
alike. Fort Pass decides whether a room object may be set up under a custom code.

## Modules and code

| module | what it holds | code |
|---|---|---|
| `RelayState` | the room as a record; the helpers that transform it: markers, eviction, delivery, answers, grants, deadlines | `secureRelayV4.ts` 278-460, 2173-2990, 4192-4228 |
| `RelayImport` | when a room can be read back | `secureRelayV4.ts` 1078-1219, 1324-1683 |
| `SecureRelay` | one action per frame, connection event, deadline and alarm; the store; `Spec`, `FairSpec` | `secureRelayV4.ts` 3033-4213, `room.ts` 591-657, 789-1105, `server.ts` 707-734, 1779-1835 |
| `CausalLog` | abstract specification: one log, read in order | what the relay promises a device |
| `SecureRelayProperties` | type invariant, invariants, action and liveness properties, the refinement mapping | |
| `RoomObject` | storage, memory, alarm, sockets and the queue of handlers of one object | `room.ts`, `secureRelayPersistenceV4.ts`, `alarms.ts` |
| `CryptoStore` | the transactions of the browser's store as operators on a store, and those of the in-memory store | `cryptoStateStore.ts` |
| `DeviceIdentity` | tabs, lock, sockets, the room's answer; extends `CryptoStore` | `secureRoomController.ts`, `secureRoomEngine.ts`, `roomCryptoLock.ts` |
| `SecureSession` | outbox, grants, held frames, retries, resume of fixed members over lossy sockets | `secureRoomEngine.ts`, `secureRoomController.ts`, `secureRelayV4.ts` |
| `SecureMembership` | admissions, departures, removals and markers end to end | the same three |
| `Selections` | what a `filter` keeps of a queue | `secureRelayV4.ts` 2434-2443, `secureGameReducer.ts` 186-192 |
| `RoomGames` | the replicated room state, games, queue, the check of a snapshot | `applicationEventsV4.ts`, `secureGameReducer.ts` |
| `SecureRoomEvents` | one action per event and per change of the roster | `secureGameReducer.ts` |
| `FortPass` | one code on sale: Stripe, room object, ledgers, requests | `index.ts`, `room.ts`, `stripe.ts` |
| `LocalFort` | a plain-text fort: members, host, pillow, queue, games | `server.ts` |
| `MC…` | model values, initial rooms, symmetry sets, constraints for TLC | |
| `…Proofs` | inductive invariants, lemmas, theorems | |

`SecureRelay` is composed of `RelayState`, `RelayImport` and the connections;
`DeviceIdentity` of `CryptoStore` and the tabs; `SecureRoomEvents` of `RoomGames` and
the roster. `SecureSession` and `SecureMembership` compose devices with the part of
the relay they talk to; `RoomObject` takes of the relay a revision, who is
connected and whether a deadline runs.

Operators marked `Slip:` are not part of a specification. Each is a definition as
a plausible mistake would have it; replacing the real one by it must violate the
property it is listed with.

## How the code became actions

- **Relay.** Both hosts hold the room's lock from reading the state to storing the
  result, and send only after that, so a transition is one step: `Handled(name, new)`
  with `new` built from the same helpers in the order the code calls them.
  `Commit(name, new)` is the store: with `Durable = TRUE` (`room.ts`) a state that
  cannot be read back is not stored; with `FALSE` (`server.ts`) it is kept and the
  relay is unusable from then on. "Can be read back" is `Importable` (the checks of
  `parseSecureRelayStateV4`) and `Unexpired`. A frame that arrives after a deadline
  other than its own grant's triggers the cleanup and is dropped (3180-3204):
  `DroppedFrame`, `DroppedRequest` (the client waits for the answer),
  `DroppedGrantFrame` (the one that is answered). `socket` and `closing` are the open
  sockets and the close events in flight, `stalled` the devices waiting for an
  answer that will not come, `outcome` the last operation that could not be stored.
- **Object.** A handler in the queue runs alone with respect to the others, while
  sockets are accepted, messages arrive and sockets close; so a handler is one
  step and the queue holds what arrived meanwhile. A transaction may fail; the
  object may be evicted when idle and may crash at any step.
- **Identity.** The steps of a tab between two awaits are one action. Each
  transaction of the store is a step, with the lock checked where the code's
  `assertLease` checks it.
- **Session, membership.** A store operation and the frames its handler sends are
  one step; a crash between them is a socket that loses the frames. In
  `SecureSession` frames travel in two queues per device; a page may reconnect. In
  `SecureMembership` a frame for the relay arrives when it is sent, and of what a
  device sends in one turn the last frames can be lost with the socket; a page
  that loses its socket is loaded again.
- **Events.** Every device reduces the same ordered events, so one copy of the
  state is modelled. A handler's refusal changes nothing; a handler that takes the
  event and computes a state its own check refuses sets `refused`.
- **Fort Pass.** A request is a job that moves from call to call; each call to a
  room, a ledger or Stripe is a step, and a job may die between two.
- **Local fort.** A handler runs to its end in one thread: one step. When timers
  fire and who wins a duel is left open.

## What is abstracted

- **Identifiers.** In the relay a frame is its position in `accepted`, a history of
  the accepted frames. In the session models a request, its grant and its frame go
  by one number; replay records, and so a repeated frame, are modelled there.
- **Deadlines** are flags: off, running, over. They pass in any order after they
  start; the clock never goes back.
- **FIFOs** of devices, in which a device occurs once, are functions to places.
- **The MLS tree** is the set of leaves that accepted adds and removals define; a
  key is the generation of a sender's ratchet.
- **Clients** of `SecureRelay` send a frame the relay would accept at any time, but
  for what the relay cannot check and the repository's client does: a host commits
  only the removal of a leaf its group has (`HostRemove`, `secureRoomEngine.ts`
  1197-1275); its `retire-member` names the commit that removed that very device
  (`RetireMemberFrame`, the same 1247-1253; the relay takes any recorded commit of the host, or
  under a marker the one bound to it); a device that replays sends no delivery-ack
  (`Acknowledge`, `secureRoomController.ts` 2807; the relay would take it, 3738-3751).
  `SecureMembership` and `SecureSession` model those clients.
- **Chunks** are equal iff they belong to the same state; a digest is the state.
- **Games.** A commitment or a reveal is the device that made it; who wins a round is
  open until the last reveal; a board is the number of its marks; a leaderboard
  entry is a sum.
- **Fort Pass.** A token is the request that drew it, a session's number its creation
  time; expired leases equal no record; the claim's hash is left out.
- `acked` and `since` (relay), `granted` (Fort Pass), `sealed` (session)
  are history variables.

## Properties

- *Relay order*: `OrderAuthority` (at most one of a grant, a held application, a held
  commit and an admission's proof has the next order); `HeldFrameAnswered` (what
  stops being held leaves a result with its sender).
- *Relay removal*: `RemovalComesFirst` (under a marker only the removal of the head
  is accepted, once); `MarkersInOrder` (first in, first out; a marker goes only after
  its removal was accepted).
- *Relay admission*: `AdmissionUninterrupted` (Add, bootstrap and proof are adjacent
  in the log); `LeafAccounted` (an accepted Add has a member, an admission or a
  marker).
- *Relay delivery*: `DeliveryComplete` (acknowledged and waiting entries are exactly
  the frames since the admission, in order); `ImplementsLog` (the relay implements
  `CausalLog`: `log` is the history of accepted frames, `seen` what a device
  acknowledged).
- *Relay connections and store*: `StaleCloseHarmless`, `RetiredForCause`,
  `RefusedForCause` (a state that cannot be stored is computed in four situations).
- *Relay progress*: `WaitsEnd` (a held frame is decided, an absent member comes
  back or loses its place, a queued request is granted or cancelled, an admission
  ends). It does not say that the room goes on: a removal marker stays until the
  host commits the removal, which a connected host may never do, and until then
  the relay refuses requests and joins (see also `BarrierSatisfiable`
  [below](#what-the-models-showed-without-a-run)).
- *Object*: `StoredIsWhole`, `MemoryIsStored`, `AlarmIsAwaited`.
- *Identity*: `RegistryExact`, `SentIsMarked`, `EngineIsCurrent`, `EraseOnlyOwn` (it
  exempts a tab that clears up after being told the instance is gone, so it does not
  say that an accepted device is safe: see `AcceptedIsKept` below).
- *Session*: `NoKeyReuse`, `NothingSkipped`, `AcceptedStays`, `CausallyNext` (a frame takes
  the place it was encrypted for).
- *Membership*: `ViewsAgree`, `MarkersAgree`, `BarrierLifted` (of a host at work under a
  marker whose leaf it has, and that has not taken a lost removal for done as in
  `removal_lost`), `ReadersAreMembers`.
- *Events*: `QueueWaitsForCause`, `RefusedForCause`, `RemovedByMajority`, `PaidOnce`.
- *Fort Pass*: `HeldWhilePayable`, `RefundIsFinal`, `FulfilledWasGranted`, `GrantedOnce`,
  `PaidIsServed`.
- *Fort*: `HostKnown` (the fort and its sockets go on agreeing on the host, but for
  the two steps, `DuckedLate` and `WonLate`, that make a second one), `GamesAgree`,
  `PlayersThere`.

Each has a mutant in `PROJECT.json`: a `Slip:` operator that breaks it in its run.

## Runs and bounds

| run | instance | bounds | what it shows |
|---|---|---|---|
| `group` | local runtime; a host and a member, or those and a third that was just admitted (`GroupInit`) | backlog 2, queue 2, connections 2, frames 5, `GroupBound` | order, answers, markers, retirement, stale closes, unstorable states, through commits, removals, transfers, deadlines and overlapping connections (158 k states) |
| `admission` | host alone, a device joins, `FairSpec` | backlog 2, queue 1, frames 4 | nothing interrupts an admission, no accepted Add is forgotten, the causal log, progress |
| `devices` | two tabs, one instance, two identities | 3 attempts, 1 reconnect | the four identity properties |
| `fortpass` | two payments of one code, one disputed, two requests | | the four safety properties (583 k) |
| `fortpass_live` | one payment of one session, two requests, `FairSpec` | | `PaidIsServed` |
| `events` | up to four members, all five games | game queue 2, two games, `FewGames` | the event properties (309 k) |
| `membership` | host, a member who writes, a joiner | 3 requests, 1 lost socket, 1 resume | the four end-to-end properties (710 k) |
| `removal_lost` | the same | 2 requests | the finding below |
| `object` | two devices | 2 sockets, 3 revisions, 2 chunks, 2 faults | the object's properties (147 k) |
| `session` | host and member, events and commits | 2 requests, 1 lost socket, 2 resumes | the four session properties (1.3 M) |
| `fort` | three members | 2 guests, queue 1, strikes 1, 2 moves | the fort's properties (223 k) |
| `two_hosts` | the same | the same | the second finding below |

*Why these bounds are enough.*

- **Relay.** The guards look at no more than the grant's owner, the heads of queue
  and markers, one held frame of each kind, one admission, and whether a backlog is
  empty or full. `GroupBound` joins three kinds of behaviour. `Pair`: a host and a member
  do all there is to do, for two frames, after which the host keeps its connection.
  `OnlyRemovals`: the three drop, lose their places and are removed; two markers at
  once need three. `OneSilent`: two of
  the three hold frames while the third, silent, loses its place, which is the only
  way a barrier raised for one device answers the held frame of another
  (`secureRelayV4.ts` 2260-2360; without the rejection that branch leaves, TLC finds
  `HeldFrameAnswered` violated in seven states). What three devices that all speak and all lose
  connections do is not in these runs. A backlog of two is the least that holds a
  delivery and the answer to a frame of one's own (the code's limit is 24, line 38).
  Two connection names are the least with which an old close meets a new
  connection; `Pair` keeps to one such overlap at a time. Four frames fit Add,
  bootstrap, proof and one more (`admission`); five fit two more after those three.
- **Object.** Two sockets race for one device; chunk counts 1 and 2 make
  generations of different length; two faults are a failed transaction and a crash
  after it.
- **Identity.** Two tabs are what a lock is about, two identities what an erasure can
  confuse. By hand: one tab with two instances and two secrets, 605 k, passes; two
  tabs without a bound on attempts, no violation in 3.5 M.
- **Session.** By hand: two lost sockets and one resume, 5.76 M, passes.
- **Membership.** By hand, all passing: 4 requests, 1.96 M; two resumes, 1.98 M;
  4 requests without losses and everybody writing, 420 k.
- **Events.** `FewGames` keeps four members to one game and two games to three members;
  a queued game and a running one are all a departure can disturb.
- **Fort Pass.** Two sessions are what a code can be sold to twice, and two requests what
  can race for one; in the run of `PaidIsServed` requests race for one session.
- **Fort.** Moves (arrivals, tossed pillows, games asked for) share one bound; one
  strike stands for three. Nothing is cut: the states after a second host was made
  are explored too. By hand with three moves, no violation in the first 940 k states.

The theorems do not have these bounds. Symmetry sets (`TabSymmetry`, `Jobs`, `Others`,
`Symmetry`, `Alike`) permute model values no operator tells apart, in runs without
liveness properties. All runs set `CHECK_DEADLOCK FALSE`: rooms retire, tabs close,
payments end, and the bounds run out.

## Fairness

`SecureRelay!FairSpec` assumes that each running deadline passes, that the alarm is
served when it is due, and that the close of a socket is reported. `room.ts` sets
its alarm to the earliest deadline after every store and the platform retries an
alarm that throws; `server.ts` re-arms a timer (707-734); the platform reports every
close. Nothing is assumed of devices. The alarm's fairness is written with its
enabling condition (`AlarmOwed`), which leaves out the alarm that has just failed and
would fail in the same way.

`FortPass!FairSpec` assumes that requests run (weak fairness of a job's step), that
leases end, and that Stripe repeats a webhook until it is answered, so that the
fulfilment of one session, its claim of the ledger and its grant are not lost for
ever (strong fairness): a request that dies is followed by another.

## Findings

Two runs each check a statement of the repository that the code does not meet.

- `removal_lost` (`RemovalKept`): a host whose Remove of a failed admission, or the
  retire-member after it, is lost with its connection, and that resumes after the
  relay retired the device: the checks of the snapshot (`secureRoomController.ts`
  2226) acknowledge a Remove that was never accepted. The host's tree goes on without
  the leaf, the relay's marker is never satisfied, and the room refuses everything
  as removal-pending. The comment at `secureRoomEngine.ts` 921-926 says the relay's
  marker lets the controller bind a retry; docs/SECURE_ROOM_PROTOCOL_V4.md 284-296
  and 328-330 describe that retry.
- `two_hosts` (`HostIsHost`): a host drops, another takes the fort and tosses the
  pillow, the first comes back in its grace and is host again (`server.ts`
  2229-2284), and the pillow is ducked: `onRejectHost` (2131-2163) makes the one who
  tossed it host without looking at the host there is. One socket is the fort's
  host; the other still says it is (`isHost`), and is in the fort no longer, as
  host or as guest. `src/ARCHITECTURE.md` 194 says of that field "true if this socket is
  the host". The game for the hill leads to the same (`WonLate`, below).

## What the models showed without a run

Statements that do not hold are kept in the modules, marked "Does not hold, see the
README". To see one fail, name it as an INVARIANT (or PROPERTY) in a copy of the
module's cfg.

**Relay** (`SecureRelayProperties`)

- `NoRequestIgnored` (`secureRelayV4.ts` 3180): a request that arrives after an unserved
  deadline is consumed by the cleanup and gets no answer; the protocol document
  (301-305) says a blocked request gets an exact `order-cancelled`, since otherwise
  the client waits for ever.
- `BarrierSatisfiable` (3000): a member whose removal was accepted, and whose grace
  ends before the host's `retire-member`, gets a marker for a leaf that no longer
  exists (document 347-349); no commit can satisfy it.
- `NoGhost` (1417, 4123): a close event after another member's deadline, and before
  the alarm, computes a state whose stamp makes it unreadable; the store throws, the
  event is not repeated, and the device stays marked connected (`room.ts` 1097-1099).
- `ResumeReplacesConnection` (3322): a resume over a connection still believed active
  keeps the device's grant or queue entry while its status is pending; that cannot be
  read back, so the resume is refused until the old close is reported
  (`test/secure-relay-v4.test.ts` 902).
- `AlarmStored` (2892; 1619-1621, 1718-1720): the alarm that ends a host transfer whose
  acceptance is still held computes a state that cannot be read back.
- Host authority offered to the device that holds the grant computes an unstorable
  state. A frame delivered between the snapshot of a resume and its
  `resume-complete` makes the latter stale. A clock that goes back makes a close event
  return without effect. A join does not run the admission deadlines. A delivery-ack
  lost to a cleanup is not sent again before the next connection.

**Object.** `ConnectedHasSocket` (`room.ts` 1966, 994-1008; comment 1096-1098): a socket
that closes while its authentication waits in the queue finds itself not
authenticated, and the member stays connected. A socket accepted before its
attachment exists can be swept (1996-2001); a failed advance in the alarm sets the
same past deadline again; corrupted storage fails closed until the idle alarm
destroys it; a crash loses sockets without close events.

**Identity.** `AcceptedIsKept` (`secureRoomController.ts` 3811): the flag that a refusal
may discard the engine (947, 1020) is not reset on a reconnect, so a device the relay
has accepted can be erased, against docs 382-387. Orphaned provisional or ambiguous
records fill the registry (4 for a room, 16 for an origin) for good. A takeover message
posted while the other tab is still acquiring is lost.

**Session.** `ResumeNotStuck` (`secureRoomEngine.ts` 1840, 2535; test 915; docs 325-326): a
device whose frame was lost with its connection closes at every resume, and any
member's resume closes every device with an unanswered frame. Also: (a) a granted
intent that fails to encrypt keeps its grant, and the next request
("order-already-pending", `secureRelayV4.ts` 3716) closes the device; (b) a frame at or
after its grant's expiry gets two answers, the second ignored without an ack, which
cancels requests as "delivery-pending"; (c) a non-host's frame while the host is away
("recipient-unavailable") and (d) the host's late or repeated decision
("invalid-reference") close their senders; (e) a host with an unsent event of its own
rejects the held frame on preview; (f) a retry swallowed by a cleanup blocks the
outbox until a reconnect; (g) a frame accepted between backlog-end and
resume-complete closes; (h) a reconnect of the same page keeps `pendingGrant` (2513,
3503 are the only resets), and nothing is sent until it is reloaded; (i) a drop between
resume-complete and its answer, followed by a reconnect of the same page, closes
with "duplicate resume backlog terminator".

**Membership.** `MarkerLifted`: the host registers a marker again when the ack of the
Remove's result makes the relay show it (`secureRelayV4.ts` 3750, 4007-4016; controller
2262); no lifecycle lifts it for a device already retired. Other behaviours met:
approval, Add, Welcome, cancel or activation for a joiner that has departed close the
host with "invalid-admission" (controller 3864; docs 203-205); the check of a snapshot
(2123-2131, 2205-2217) closes resumes when an admission is "disconnected", or when a
Remove was processed and retire-member was not; a waiting joiner is closed by any
member's "active" lifecycle (2442-2448); a commit cancelled or rejected erases the
identity, and the host loses the room; with two markers and an offline member a
resume shows the second before the first (relay 3340-3358) and closes; the wake-up of
the key-update timer can be lost (1944-1953, 2837-2847); a joiner that drops after its
proof can, once activated, never resume (relay 1396-1437, engine 1874); a host that
lost the answer to its Add sends the Welcome while it replays and is closed until the
admission lapses; an admission that lapses between the acceptance of Add and Welcome
keeps `hasBlockingOutbox` true (2529-2538), so that no Remove is requested; a member
that processed a marked Remove live, but whose ack was lost, closes at every resume
(1727-1737, against 2402-2404).

**Events.** `RefusedForCause` names the conflicts it exempts: an offered host's
acceptance is refused while a vote against it is queued behind another game
(`secureGameReducer.ts` 974-979), and a host won or forfeited on the hill (559-570,
609-618) is refused while a removal is pending. The branches for `CloseVote` and
"resolve-vote" cannot be reached.

**Fort Pass.** A paid session nobody fulfilled in fourteen days resolves as invalid, so
its lapsed bound reservation is never superseded and the code stays unsellable. The
end of a room reads the redemption and the tombstone of a refund before its
transaction and writes them back in it, outside the payment lock (`room.ts` 2571-2616):
a refund that is processed in between can find the redemption not revoked again
(`DestroyReads`, `Destroy`). `RefundIsFinal` holds all the same, in the run and for any
number of sessions.

**Fort.** Two steps make a second host. A pillow in the air is ducked when there is
already a host again, because the hill made one or because a host came back in its
grace (`DuckedLate`; `server.ts` 2131-2163, 2229); and a game for the hill is won when
a third, neither its host nor its challenger, has become host (`WonLate`; 2858-2888).
`HostKnown` says that there are no others. Any member may accept or reject at any
time; if all reject, the fort is destroyed though a host is there. A name can be
taken by a joiner while its owner is in its grace. After the last strike the active
game stays "saboteur" until the bomb. A join looks the fort up, waits for the
password, and enters what it looked up: the fort may be gone by then (1938-1992, and
2229-2284 for a rejoin), and nothing but the idle timer or its own leave takes the
member out again. The timers of a vote, of an idle fort and of names in a replaced grace outlive a fort
(1383-1402) and can act on a new one with the same code: the model has the idle
timer, `Destroy` drops the others.

## Proofs

Each theorem holds for every value of the constants its assumptions allow; TLC
evaluates the assumptions on every run of the module. An inductive invariant was
checked by TLC before it was proved.

| module | theorem | states | assumptions |
|---|---|---|---|
| `SecureRelayProofs` | `TypeCorrect` | `TypeOK` | `DeviceAssumption`, `SettledAssumption`, `BoundAssumption`, `RunAssumption` |
| | `Authority` | `OrderAuthority` | |
| | `RemovalStopsAdmission` | no admission under a marker | |
| | `BarrierBlocks` | `RemovalComesFirst` | |
| | `AdmissionIsWhole` | `AdmissionUninterrupted` | |
| | `NothingIsMissed` | `DeliveryComplete` | |
| | `LeavesAreKnown` | `LeafAccounted` | |
| | `StaleCloseIgnored` | `StaleCloseHarmless` | |
| | `LogIsImplemented` | `ImplementsLog`: the refinement of `CausalLog` | |
| | `MarkersKeepOrder` | `MarkersInOrder` | |
| | `RoomEndsForCause` | `RetiredForCause` | |
| `DeviceIdentityProofs` | `RegistryIsExact` | `RegistryExact` | `IdentityAssumption` |
| | `SentAfterMark` | `SentIsMarked` | |
| | `EnginesAreCurrent` | `EngineIsCurrent` | |
| | `ErasedByItsOwn` | `EraseOnlyOwn` | |
| | `StoresAgree` | the in-memory store agrees with the browser's (`Agrees`) | |
| `FortPassProofs` | `CodeIsHeld` | `HeldWhilePayable` | `FortPassAssumption` |
| | `Refunded` | `RefundIsFinal` | |
| | `Fulfilled` | `FulfilledWasGranted` | |
| | `Once` | `GrantedOnce` | |
| `RoomObjectProofs` | `WholeStored` | `StoredIsWhole` | `ObjectAssumption` |
| | `StoredRemembered` | `MemoryIsStored` | |
| | `AlarmSet` | `AlarmIsAwaited` | |
| `SecureSessionProofs` | `OneFramePerKey` | `NoKeyReuse` | none |
| | `InItsPlace` | `CausallyNext` | `SessionAssumption` |
| | `SenderKeeps` | `AcceptedStays` | |
| | `OrderReachesAll` | `NothingSkipped` | |
| `SecureRoomEventsProofs` | `RoomSound` | the invariant `RoomInv` | `GamesAssumption`, `KindsAssumption` |
| | `NoRequestForgotten` | `QueueWaitsForCause` | |
| | `NothingElseRefused` | `RefusedForCause` | |
| | `NobodyElseRemoved` | `RemovedByMajority` | |
| | `EachGamePaysOnce` | `PaidOnce` | |

**The relay's order** (the first halves of `RelayProofs` and `SecureRelayProofs`). *Assumptions*: finitely many devices,
null is none of them; at least the founder is settled, no device twice; backlogs
hold two entries, limits are naturals. `OrderAuthority` is not inductive:
`IssueNextGrant` looks at the grant, the held frames and the admissions when there is
no marker, but only at the grant, the held frames and the marker when there is one;
and it recognises a proof by the phase of an admission, not by the order reserved.
`IInv == TypeOK /\ Kept(room)` therefore adds to order authority (`Auth`) that an order
is reserved only in the phase that waits for a proof (`ProofInPhase`), that there is
no admission under a marker (`BarrierAlone`), and that a deadline that has passed
belongs to a held frame (`OverdueHeld`). The handlers are long and share helpers, so
the proof follows the helpers: `Shrinks(r, s)` says that going from `r` to `s` hands
nothing out; it is transitive, every helper but `IssueNextGrant` satisfies it (`Good`,
with its typing), and it preserves the invariant (`GoodKept`). `IssueKept` is the one
lemma about handing the order out. The actions that pass the order to a new holder
(a held application or commit, a bootstrap) are proved directly. The proofs do not
use that an unreadable state is refused, so they hold for both runtimes.

**The relay's log** (the second halves of both). The six theorems share
one inductive invariant, `LInv == IInv /\ Right(room) /\ Linked`. `Right` says of each member
what the log says of it (`Sound`): a device the group knows (`Covered`: established, or
being admitted with its Add accepted) was sent exactly what was accepted since, read
or still in its backlog; any other has an empty backlog; the Add or the bootstrap of
a device being admitted is the *last* frame accepted (`AtTail`), which is why nothing
can come between; and a device not added yet was never in the log, so one Add tells
from which position it reads. To that it adds that every leaf is covered or marked
(`Accounted`), that whoever holds an order holds the next one, which is the number of
ordered frames accepted plus one (`OrderNext`, `LogInv`), and the order invariant `Kept`
from above: the log is only right because two parties never hold one order. `Linked`:
a socket that is open is not one whose close event waits.

`RelayProofs` proves for each helper of `RelayState` what it does to one member
(`Stays`: keeps its place and is fed a frame; `Gone`: loses it and is marked) and to the
log (nothing). `SecureRelayProofs` proves per action `Leads(r, s, D)`: a right room
becomes a right room, and the step publishes one frame, lets one device read a
prefix of its backlog, or does neither (`Advances`), and only devices of `D` may go
offline and keep their place (`Connected`). The theorems read these off: `Publishes` says
which frame a removal marker lets through, and `PublishesLog`, `ReadsLog` map the two
kinds of step to the two actions of `CausalLog` under the refinement mapping `Seen`
(`OwedReadable`: what a device is owed is what `CausalLog` lets it read; `Greatest`: what
it has read is a prefix of that). They hold for any
number of devices and of settled members, any backlog limit of two or more, and any
bound on connections and frames.

**The relay's markers and its end** (the last parts of both). The markers are a row of
numbers, and a device gets the number after as many devices as are in it. That this is
behind everybody needs that the row has no gap (`InLine`: no number beyond how many are
listed), which is an invariant next to `LInv`: dropping a marker closes the row
(`WithoutLined`). Every helper only lengthens the row, leaves the host alone and the
room open (`Mild`), or ends the room (`Calm`); the one frame that drops a marker is the
host's `retire-member`, and it drops the head (`Unmarks`), whose leaf is gone because the
group accepted its removal (`RemovedNoLeaf`, from `Right`). `RetiredForCause` needs what
the reducer checks when it reads a state back: that no operation of the host's own is
held and that the order is granted to a device that has read everything (`Apart`). A
state that cannot be read back is not acted on, so `Readable` (a usable state is
`Apart`) is invariant because whatever is stored was parsed first (`Parsed`,
`ImportableApart`). Then a room ends only by a frame of the host, who has read
everything, or by a deadline; and the deadlines of others, with every answer they put
into backlogs, are `Mild` for the host (`ExpireCalm`). Of the host's frames only
`CloseRoom` can be the cause: a host that has read everything (`Attentive`) has room in
its backlog for what one frame gives it, so no other frame evicts it
(`HostFrameLasts`; `ExpireAttentive` for the cleanup before a frame).

**Identity** (`DeviceIdentityProofs`). *Assumption*: instances are numbers other than
0, one an older client left is 1, `None` is neither a tab nor an answer. `RegistryExact`
needs that what an older client left is resolved (`Sound`). The other three share `LInv`:
for each tab its controller is well formed and holds its lease wherever it has an
engine (`TabOK`), the engine is the stored record (`Current`), frames and answers are
about that engine (`Asked`, `NetOK`), a definitive refusal is final at the room
(`Answered`); and every device the room was told of is in no provisional record
(`Tellable`), each record with a device of its own (`StoreOK`). `EraseOnlyOwn` is an action
property, so each action's lemma concludes `LInv' /\ OwnErased`. Why `Answered` is needed:
the answer "fresh admission required" erases the record, and only says something
about this frame if no earlier frame is still on its way. `StoresAgree` compares the
browser's store with the one of an ephemeral participant (`MemoryCryptoStateStore`),
which has no registry and counts the unresolved records: by `Exact` and `StoreOK` the
registry is that set, so both admit the same identities (the limits are the same) and
each operation leaves the same records. A move is compared for the records of an
older client, the only ones `restore` moves.

**Fort Pass** (`FortPassProofs`). *Assumption*: any number of sessions and jobs, any
subset disputed. `IInv == Typed /\ RoomInv /\ JobInv /\ LedgerInv`. `HeldWhilePayable` rests on
what a job knows between two calls: the reservation a checkout made stands until its
session exists and is then the only open one (`Creating`, `Binding`); a session shown to
a buyer has the reservation (`ShownReserved`); a granted one never has it again
(`GrantedLeft`); a completed refund left nothing a fulfilment could make active
(`CompleteDone`).

**Object** (`RoomObjectProofs`). *Assumption*: `None` is no state, manifest or device.
`IInv == Shape /\ Whole /\ ClosersAreGone /\ DeadlineIsAwaited /\ SweepIsAwaited`: storage and
memory have the same whole state or none, a queued close event is that of a socket
that is gone, and the schedule has the deadlines. It is proved per handler as the
composition of steps on sockets (`Settles`: none is opened) and on storage.

**Session** (`SecureSessionProofs`). *Assumption*: the host is one of
the devices, the number of requests is any, `None` is none of what the model stores. `OneFramePerKey` needs only that
what is sealed is behind the ratchet of its sender (`IInv`): no handler but the one that
seals moves a ratchet.

The other three share `SInv`, which says of one frame in each place it can be what the
engines and the relay agree on. In the relay: the frame accepted at place *n* was
encrypted for *n* (`LogOK`); a queued request has no frame yet and its sender an empty
backlog (`QueueOK`); a frame encrypted under the grant, or held, is for the next place
(`GrantOK`, `HeldOK`). In an engine (`EngineOK`, `Sits`): it reflects a prefix of the log
and at most one frame of its own beyond it, the pending one; a frame that is no longer
pending is reflected, or was refused (`OwnOK`, `DoneBy`). In a backlog (`BackOK`): every
accepted frame beyond that prefix, in order. On a socket to a device (`DownOK`, `EndOK`):
a result is the one decided, an expiry is of a refused request, and the end of a replay
comes after the entry it names. On a socket to the relay (`UpOK`, `OnceOK`): an
acknowledgement, or the completion of a replay, is of a frame the device reflects, and
a request is sent once. Why all of these are needed: `acknowledge` drops an entry of
the backlog on the word of the device, and the next grant goes to a sender whose
backlog is empty; `CausallyNext` is right only because that word was true on a socket
that may since be gone.

A step of the relay keeps `SInv` with the engines as they are (`Leads`): its decisions are
final, and requests reach the queue and a grant only once (`Later`); the frame that is
decided is the one case with a lemma of its own (`Decided`). A step of a device keeps it
with the relay as it is (`Forward`): what it reflects only grows, but for a refused frame
(`Moved`), and what it answers is then true (`Replies`). `OrderReachesAll` must show that the
sequence a device still has to read is *equal* to the rest of the log; `Filter` is a
recursive function, so what it selects is stated by an increasing map (`FilterPicks` of
`SelectionProofs`, which the room's proofs use as well), by induction over the length through `WFMin`, and a strictly increasing map onto an
interval leaves no place out (`NoneLeftOut`).

**Room** (`SecureRoomEventsProofs`). *Assumptions*: finitely many devices, null is none of
them, the founder is one; the bound of the queue is a natural. No property is inductive
alone. `QueueWaitsForCause` depends on what `Drain` does when it starts the first request
that may start, and the request it starts on who is a member; a vote that is resolved,
a departure or a game that ends may each leave the room with nothing under way, so each
must call it. `RoomInv` is `Sound(room, ids)` and `RefusedForCause`. `Sound` is `Good`, `Hosted` and
`Waits`: `Good` says of each part of the state what it may name (`Group`, `QueueFit`, `VoteFit`,
`RpsFit`, `TttFit`, `SabFit`), that at most one game is under way and none while a host is
offered (`One`), and that no request has the number of a game (`Fresh`, so a game that is
paid for does not come back); `Hosted`, that no vote against the host waits; `Waits` is the
property. A vote that is under way has not had every ballot (`VoteFit`), which is why the
host's own close of a complete vote finds none. `Good` and `Hosted` imply the code's own
check of a snapshot (`FineValid`): the events that can be refused are then those that
produce a room that is not `Hosted`, or that offers the room while a removal is pending,
and these are the two causes. Each event is one of a few kinds: a game goes on
(`GoesOn`), a game ends and the next starts (`Over`, `PaidOver`), a game begins, a member
goes (`LeftSound`, `ReconcileOk`). Each kind is shown to lead a sound room to a sound room
and to pay whom it names (`Steps`, `Paid`), and each action's lemma concludes
`StepOk == RoomInv' /\ PaidStep /\ RemovedStep`, from which the theorems follow. The vote is
the hard case: `CastVote` and `Reconcile` both resolve it, the second among the members
that are left, and may start a game, drop it and drain the queue once more in one event.
`QueueWaitsForCause` and the rest hold for any number of devices and of named games.

## What is only model-checked, and why

- Liveness under fairness (`WaitsEnd`, `PaidIsServed`), and whatever needs ENABLED:
  outside what the proof system covers here.
- The relay's `HeldFrameAnswered`, whose proof has to follow every helper once more for
  the answer it puts into one backlog, and `RefusedForCause`, which needs that every
  handler preserves the whole of `Importable`.
- `SecureMembership`, `LocalFort`: both use folds and selections over sequences whose
  values the provers cannot compute without an induction over each of them.

## What is not modelled, and why

- Pruning of retired members at 256 and of replay records; byte limits; rate limits;
  challenges' contents. They need instances far beyond what can be enumerated.
- A clock that goes back.
- The window of processed deliveries an engine keeps (`secureRoomEngine.ts` 2716-2726)
  is without its bound: a frame repeated after it has left the window is not covered
  by `NothingSkipped`.
- The replay ledger of the older chat encryption (`cryptoStateStore.ts` 513-577,
  1038-1106): only the chat of the older protocol uses it.
- The composition of `DeviceIdentity`, `SecureSession` and `SecureMembership` in one
  machine: their states multiply. Each has the part of the relay it needs.
- Chat, drawings, themes, presence, names: no state the other properties depend on.
- Plain-text rooms of `room.ts`: the same handlers as `LocalFort`'s, which no socket
  reaches since protocol 4 is required.
- Parsing, signatures, MLS internals: functions over byte strings, without
  interleavings. Drawing queue and hosted MCP: sequential bookkeeping around an
  engine. HTTP, telemetry, the browser's presentation: no protocol state.

## What is left

1. `HeldFrameAnswered` of the relay, from `LInv` and `Readable`.
2. `GamesAgree` and `PlayersThere` of `LocalFort`, by the argument of `SecureRoomEvents`.
