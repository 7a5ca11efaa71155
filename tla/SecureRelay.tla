---------------------------- MODULE SecureRelay -----------------------------
(* The relay of a secure room: the reducer of src/src/secureRelayV4.ts, run by *)
(* a Durable Object (src/src/room.ts) or by the local runtime (src/server.ts), *)
(* with the connections of its devices and the clock.                         *)
(*                                                                            *)
(* A handler runs alone: both hosts hold the room's lock from reading the     *)
(* state to storing the result, so a transition is one step.  What interleaves *)
(* is everything between transitions: frames of different devices, closed     *)
(* sockets whose close event is still to be delivered, deadlines that pass     *)
(* before the alarm is served, and reconnections.                             *)
EXTENDS RelayImport

CONSTANTS
    Durable,        \* TRUE: a state is parsed before it is stored (room.ts);
                    \* FALSE: it is assigned unchecked (server.ts)
    MaxConn,        \* bound: connection names a device uses in turn
    MaxFrames       \* bound: frames the room accepts

ASSUME RunAssumption == Durable \in BOOLEAN /\ MaxConn \in Nat \ {0} /\ MaxFrames \in Nat

VARIABLES
    room,           \* the relay state
    socket,         \* the open authenticated socket of each device, 0 for none
    closing,        \* closed sockets whose close event is not yet processed
    stalled,        \* devices waiting for an answer the relay will not send
    outcome         \* "ok", or the operation whose result could not be stored

vars == <<room, socket, closing, stalled, outcome>>

Conn == 1..MaxConn

Init ==
    /\ room = NewRoom
    /\ socket = [d \in Device |-> room.members[d].conn]
    /\ closing = {}
    /\ stalled = {}
    /\ outcome = "ok"

(****************************************************************************)
(* Storing the result of a transition.                                      *)
(****************************************************************************)
(* The local runtime keeps a state it cannot read back; every later entry     *)
(* then returns invalid-state.                                                *)
Usable == Durable \/ outcome = "ok"
Stored(new) == Importable(new) /\ Unexpired(new)

Commit(name, new) ==
    IF Stored(new) THEN room' = new /\ outcome' = "ok"
    ELSE room' = (IF Durable THEN room ELSE new) /\ outcome' = name

(* A step that does not run the reducer.                                      *)
Untouched == outcome' = IF Durable THEN "ok" ELSE outcome

(****************************************************************************)
(* Frames.                                                                  *)
(****************************************************************************)
(* The frame of d arrives on the connection that owns the device.             *)
Receives(d) ==
    /\ Usable /\ room.lifecycle = "open"
    /\ socket[d] # 0 /\ socket[d] = room.members[d].conn

(* ... and no deadline has passed that the relay must settle first.           *)
Handles(d) == Receives(d) /\ ~Overdue(room)

Handled(name, new) == Commit(name, new) /\ UNCHANGED <<socket, closing, stalled>>

HostReady(d) == d = room.host /\ Ready(room.members[d])
ReachableHost == room.host # NoDevice /\ Ready(room.members[room.host])
NoBarrierOfRemoval == ~RemovalBarrier(room)    \* Slip: an admission does not count.
NoBarrier == ~RemovalBarrier(room) /\ AdmissionBarrier(room) = {}
Holds(d) == room.grant.device = d /\ ~room.grant.overdue
RoomForFrame == Len(room.accepted) < MaxFrames

Spent(r) == [r EXCEPT !.grant = NoGrant]
Numbered(r) == [r EXCEPT !.nextOrder = @ + 1]

(* An order request.  One that a barrier or an unacknowledged backlog cancels *)
(* is answered at once and leaves no trace here.                              *)
OrderRequest(d) ==
    /\ Handles(d) /\ d \notin stalled
    /\ Ready(room.members[d])
    /\ RemovalBarrier(room) => d = room.host /\ room.removal = 0
    /\ \A a \in AdmissionBarrier(room) :
          room.members[a].phase = "awaiting-bootstrap" /\ d = room.host
    /\ room.grant.device # d /\ room.queue[d] = 0
    /\ Cardinality(Listed(room.queue)) < MaxQueue
    /\ Handled("order-request",
               IssueNextGrant([ExpireGrant(room) EXCEPT !.queue = Enqueue(@, d)]))

(* The leaves of the MLS tree, as the accepted commits define them.           *)
Roster(r) ==
    {d \in Device :
        LET changes == {i \in 1..Len(r.accepted) :
                            r.accepted[i].kind \in {"add", "remove"} /\ r.accepted[i].subject = d}
        IN  IF changes = {} THEN d \in SettledSet
            ELSE \E i \in changes : r.accepted[i].kind = "add" /\ \A j \in changes : j <= i}

(* A commit of the host.  Under a removal barrier it must be the removal of   *)
(* the device at the head; otherwise it updates keys, removes a member the    *)
(* host chose, or adds the device that waits for admission.  The host's       *)
(* client commits a removal only for a leaf of its tree.                      *)
HostMayCommit(h) == Handles(h) /\ HostReady(h) /\ Holds(h) /\ RoomForFrame

HostUpdate(h) ==
    /\ HostMayCommit(h) /\ NoBarrier
    /\ Handled("commit", IssueNextGrant(Accept(Spent(room), "commit", h, NoDevice, 0)))

\* Slip: the barrier is not looked at.
HostRemoveAny(h) ==
    /\ HostMayCommit(h)
    /\ \E d \in Roster(room) \ {h} :
          Handled("commit", IssueNextGrant(Accept(Spent(room), "remove", h, d, 0)))

HostRemove(h) ==
    /\ HostMayCommit(h) /\ NoBarrier
    /\ \E d \in Roster(room) \ {h} :
          Handled("commit", IssueNextGrant(Accept(Spent(room), "remove", h, d, 0)))

HostRemoveMarked(h) ==
    /\ HostMayCommit(h) /\ RemovalBarrier(room) /\ room.removal = 0
    /\ \E d \in Roster(room) :
          /\ IsHead(room.zombies, d)
          /\ Handled("commit",
                 LET marked == [Spent(room) EXCEPT !.removal = Len(room.accepted) + 1]
                 IN  IssueNextGrant(Accept(marked, "remove", h, d, 0)))

(* The Add raises the admission barrier: every queued request is cancelled.   *)
HostAdd(h) ==
    /\ HostMayCommit(h) /\ NoBarrier
    /\ \E a \in InAdmission(room) :
          /\ room.members[a].status = "pending" /\ room.members[a].phase = "awaiting-welcome"
          /\ Handled("commit",
                 LET added == [Spent(room) EXCEPT
                                  !.members[a] = [@ EXCEPT !.added = TRUE,
                                                           !.since = Len(room.accepted) + 1],
                                  !.queue = EmptyFifo]
                 IN  IssueNextGrant(Accept(added, "add", h, a, 0)))

MemberCommit(d) ==
    /\ Handles(d) /\ d # room.host /\ Ready(room.members[d]) /\ Holds(d) /\ NoBarrier
    /\ ReachableHost
    /\ Handled("commit",
           [Spent(room) EXCEPT
               !.commit = [from |-> d, order |-> room.grant.order, overdue |-> FALSE]])

(****************************************************************************)
(* Admission.                                                               *)
(****************************************************************************)
Welcome(h) ==
    /\ Handles(h) /\ HostReady(h)
    /\ \E a \in AdmissionBarrier(room) :
          /\ room.members[a].status = "pending" /\ room.members[a].phase = "awaiting-welcome"
          /\ Handled("welcome",
                 [room EXCEPT !.members[a] =
                     [Given(@, WelcomeEntry) EXCEPT !.phase = "awaiting-bootstrap"]])

\* Slip: the bootstrap goes to the group, which the new device is not yet part of.
BootstrapWithoutTarget(h) ==
    /\ Handles(h) /\ HostReady(h) /\ Holds(h) /\ RoomForFrame
    /\ \E a \in AdmissionBarrier(room) :
          /\ room.members[a].status = "pending" /\ room.members[a].phase = "awaiting-bootstrap"
          /\ Handled("bootstrap",
                 LET order == room.grant.order
                     ordered == [Numbered(Spent(room)) EXCEPT !.members[a] =
                                    [@ EXCEPT !.phase = "awaiting-proof",
                                              !.proofOrder = order + 1]]
                 IN  Route(Record(ordered, "bootstrap", h, a, order), h,
                           RelayEntry(Len(room.accepted) + 1, order)))

(* The bootstrap is routed to the group first; if that costs a member its     *)
(* place, the barrier this raises retires the admission and no proof grant is *)
(* issued.  The host gets its acceptance live only, and no grant is passed on.*)
Bootstrap(h) ==
    /\ Handles(h) /\ HostReady(h) /\ Holds(h) /\ RoomForFrame
    /\ \E a \in AdmissionBarrier(room) :
          /\ room.members[a].status = "pending" /\ room.members[a].phase = "awaiting-bootstrap"
          /\ Handled("bootstrap",
                 LET order == room.grant.order
                     entry == RelayEntry(Len(room.accepted) + 1, order)
                     ordered == [Numbered(Spent(room)) EXCEPT !.members[a].phase = "awaiting-proof"]
                     routed == Route(Record(ordered, "bootstrap", h, a, order), h, entry)
                 IN  IF routed.members[a].status # "pending" THEN routed
                     ELSE [routed EXCEPT !.members[a] =
                              [Given(@, entry) EXCEPT !.proofOrder = routed.nextOrder]])

JoinProof(a) ==
    /\ Handles(a) /\ ~RemovalBarrier(room)
    /\ room.members[a].status = "pending" /\ room.members[a].backlog = <<>>
    /\ room.members[a].phase = "awaiting-proof" /\ ~room.members[a].proof
    /\ room.members[a].proofOrder = room.nextOrder
    /\ ReachableHost
    /\ Handled("join-proof", [room EXCEPT !.members[a].proof = TRUE])

Activate(h) ==
    /\ Handles(h) /\ HostReady(h) /\ ~RemovalBarrier(room) /\ RoomForFrame
    /\ \E a \in InAdmission(room) :
          /\ room.members[a].status = "pending"
          /\ room.members[a].proof /\ room.members[a].proofOrder = room.nextOrder
          /\ Handled("activate",
                 LET admitted == [Numbered(room) EXCEPT
                         !.members[a] = [ClearAdmission(@) EXCEPT !.status = "active"]]
                 IN  IssueNextGrant(Accept(admitted, "join-proof", a, a, room.nextOrder)))

CancelAdmission(h) ==
    /\ Handles(h) /\ HostReady(h)
    /\ \E a \in InAdmission(room) :
          Handled("cancel-admission", IssueNextGrant(RetireAdmission(room, a)))

(****************************************************************************)
(* Application frames and the host's decisions.                             *)
(****************************************************************************)
HostApplication(h) ==
    /\ Handles(h) /\ HostReady(h) /\ Holds(h) /\ NoBarrier /\ RoomForFrame
    /\ Handled("application",
           IssueNextGrant(Accept(Numbered(Spent(room)), "application", h, NoDevice,
                                 room.grant.order)))

(* A member's frame is held for the host's decision.  An acceptance of the    *)
(* host's role must answer the transfer that is authorized.                   *)
MemberApplication(d) ==
    /\ Handles(d) /\ d # room.host /\ Ready(room.members[d]) /\ Holds(d) /\ NoBarrier
    /\ ReachableHost
    /\ \E accepts \in BOOLEAN :
          /\ accepts => room.transfer.host = room.host /\ room.transfer.target = d
          /\ Handled("application",
                 [Spent(room) EXCEPT
                     !.application = [from |-> d, accepts |-> accepts,
                                      order |-> room.grant.order, overdue |-> FALSE]])

HostDecides(h) == Handles(h) /\ HostReady(h) /\ NoBarrier

ApproveApplication(h) ==
    /\ HostDecides(h) /\ room.application.from # NoDevice /\ RoomForFrame
    /\ LET p == room.application
           kind == IF p.accepts THEN "accept" ELSE "application"
           cleared == [Numbered(room) EXCEPT !.application = NoApplication]
           routed == Accept(cleared, kind, p.from, NoDevice, p.order)
           handed == IF p.accepts
                     THEN [routed EXCEPT !.transfer = NoTransfer, !.host = p.from]
                     ELSE routed
       IN  Handled("application-decision", IssueNextGrant(handed))

RejectApplication(h) ==
    /\ HostDecides(h) /\ room.application.from # NoDevice
    /\ LET p == room.application
           cleared == [room EXCEPT !.application = NoApplication]
           answered == Answer(cleared, p.from, RejectedEntry(p.order))
       IN  Handled("application-decision",
               IssueNextGrant([answered EXCEPT
                   !.transfer = IF p.accepts THEN NoTransfer ELSE @]))

ApproveCommit(h) ==
    /\ HostDecides(h) /\ room.commit.from # NoDevice /\ RoomForFrame
    /\ Handled("commit-decision",
           IssueNextGrant(Accept([room EXCEPT !.commit = NoCommit],
                                 "commit", room.commit.from, NoDevice, 0)))

RejectCommit(h) ==
    /\ HostDecides(h) /\ room.commit.from # NoDevice
    /\ Handled("commit-decision",
           IssueNextGrant(Answer([room EXCEPT !.commit = NoCommit],
                                 room.commit.from, RejectedEntry(0))))

(* A frame whose grant has run out is answered with a rejection of its own.   *)
LateFrame(d) ==
    /\ Handles(d) /\ Ready(room.members[d])
    /\ room.grant.device = d /\ room.grant.overdue
    /\ \E order \in {0, room.grant.order} :
          /\ RemovalBarrier(room) => order = 0
          /\ AdmissionBarrier(room) # {} => order = room.grant.order
          /\ Handled("late-frame",
                 IssueNextGrant(Answer(Spent(room), d, RejectedEntry(order))))

(****************************************************************************)
(* Delivery.                                                                *)
(****************************************************************************)
Acked(m, k) ==
    [m EXCEPT !.acked = @ \cup ({m.backlog[i].frame : i \in 1..k} \ {0}),
              !.backlog = SubSeq(@, k + 1, Len(@))]

(* A client acknowledges a prefix of its backlog, but not while it replays.   *)
(* The latter is an assumption on the client (secureRoomController.ts 2807,   *)
(* where it sends no delivery-ack while it replays): the relay would take one. *)
Acknowledge(d) ==
    /\ Handles(d) /\ ~Replaying(room.members[d])
    /\ \E k \in 1..Len(room.members[d].backlog) :
          Handled("delivery-ack",
              [room EXCEPT !.members[d] = Acked(@, k)])

(* The replay ends if it covered the whole backlog: the client names the last *)
(* entry of its snapshot, and a frame delivered since then makes that stale.  *)
ResumeComplete(d) ==
    /\ Handles(d) /\ d \notin stalled
    /\ Replaying(room.members[d])
    /\ room.members[d].replay = Len(room.members[d].backlog)
    /\ Handled("resume-complete",
           [room EXCEPT !.members[d] =
               [Acked(@, Len(@.backlog)) EXCEPT !.status = "active", !.replay = 0]])

(****************************************************************************)
(* Host authority and membership.                                           *)
(****************************************************************************)
(* The offer the authorization refers to is an accepted frame of the host.    *)
AuthorizeTransfer(h) ==
    /\ Handles(h) /\ HostReady(h)
    /\ room.transfer = NoTransfer /\ ~RemovalBarrier(room) /\ InAdmission(room) = {}
    /\ \E i \in 1..Len(room.accepted) :
          room.accepted[i].kind \in {"application", "accept"} /\ room.accepted[i].from = h
    /\ \E d \in Device \ {h} :
          /\ room.members[d].status = "active"
          /\ Handled("authorize-host-transfer",
                 Deliver([room EXCEPT
                             !.transfer = [host |-> h, target |-> d, overdue |-> FALSE]],
                         {d}, AuthorizationEntry))

(* The host retires a device after its removal was accepted.  With a marker,  *)
(* the removal must be the one the marker waits for.  A retired device keeps  *)
(* no grant, no request, no held operation and no part in a transfer.         *)
(* The relay cannot read whose removal a commit is.  It asks for a recorded    *)
(* commit of the host (with a marker, the one bound to the marker); that it    *)
(* is the removal of this device is an assumption on the host's client         *)
(* (secureRoomEngine.ts 1247-1253).                                           *)
Departed(r, d) ==
    [r EXCEPT !.members[d] = RetireMember(@),
              !.queue = Without(@, {d}),
              !.grant = IF @.device = d THEN NoGrant ELSE @,
              !.application = IF @.from = d THEN NoApplication ELSE @,
              !.commit = IF @.from = d THEN NoCommit ELSE @,
              !.transfer = IF d \in {@.host, @.target} THEN NoTransfer ELSE @]

Unmarked(r, d) ==
    IF d \in Listed(r.zombies)
    THEN [r EXCEPT !.zombies = Without(@, {d}), !.removal = 0] ELSE r

RetireMemberFrame(h) ==
    /\ Handles(h) /\ HostReady(h) /\ AdmissionBarrier(room) = {}
    /\ \E d \in Device \ {h}, i \in 1..Len(room.accepted) :
          /\ room.accepted[i].kind = "remove"
          /\ room.accepted[i].subject = d /\ room.accepted[i].from = h
          /\ RemovalBarrier(room) => IsHead(room.zombies, d) /\ room.removal = i
          /\ room.members[d].status = "retired" => RemovalBarrier(room)
          /\ Handled("retire-member",
                 IF room.members[d].status = "retired" THEN Unmarked(room, d)
                 ELSE IssueNextGrant(Unmarked(Departed(room, d), d)))

CloseRoom(h) ==
    /\ Handles(h) /\ HostReady(h)
    /\ \E i \in 1..Len(room.accepted) : room.accepted[i].kind \in {"application", "accept"}
    /\ Handled("close-room", RetireRoom(room))

(****************************************************************************)
(* Cleanup instead of handling.  A frame that arrives after a deadline other  *)
(* than a grant's makes the relay settle that deadline, and is itself dropped *)
(* without an answer.                                                         *)
(****************************************************************************)
Settle(r) == IssueNextGrant(Expire(r))

(* A frame its client sends again, or whose loss it survives.                 *)
DroppedFrame(d) ==
    Receives(d) /\ Overdue(room) /\ Handled("cleanup", Settle(room))

(* A request its client sends once and then waits on.                         *)
DroppedRequest(d) ==
    /\ Receives(d) /\ Overdue(room) /\ d \notin stalled
    /\ \/ Ready(room.members[d]) /\ room.grant.device # d /\ room.queue[d] = 0
       \/ Replaying(room.members[d])
    /\ Commit("cleanup", Settle(room))
    /\ stalled' = stalled \cup {d}
    /\ UNCHANGED <<socket, closing>>

(* A frame of the grant's owner is answered if the cleanup raised a barrier   *)
(* that cancelled its grant.                                                  *)
DroppedGrantFrame(d) ==
    /\ Receives(d) /\ Overdue(room) /\ room.grant.device = d
    /\ LET settled == Expire(room) IN
          /\ ~RemovalBarrier(room) /\ RemovalBarrier(settled)
          /\ \E order \in {0, room.grant.order} :
                Handled("cleanup", IssueNextGrant(Answer(settled, d, RejectedEntry(order))))

(****************************************************************************)
(* Connections.                                                             *)
(****************************************************************************)
InUse(d) == {c \in Conn : c \in {socket[d], room.members[d].conn} \/ <<d, c>> \in closing}
FreshConn(d, c) == c \notin InUse(d) /\ \A b \in Conn \ InUse(d) : c <= b

(* A device connects anew once it has lost its socket.                        *)
Connects(d, c) == Usable /\ room.lifecycle = "open" /\ socket[d] = 0 /\ FreshConn(d, c)

(* The room is retired on the way in, or the new socket is attached.          *)
Attached(name, d, c, new) ==
    /\ Commit(name, new)
    /\ socket' = IF room' = new /\ new.lifecycle = "open" THEN [socket EXCEPT ![d] = c] ELSE socket
    /\ UNCHANGED <<closing, stalled>>

(* A join runs the disconnect deadlines first: if they cost the host its      *)
(* place the room retires, if they cost a member its place the barrier they   *)
(* raise refuses the join and the cleanup is not stored.                      *)
Arrival(r, d, c) ==
    [r EXCEPT !.nextMember = @ + 1,
              !.members[d] = [NewMember EXCEPT !.status = "pending", !.joined = r.nextMember,
                                               !.conn = c, !.phase = "awaiting-welcome",
                                               !.admission = "running"]]

Join(d) == \E c \in Conn :
    /\ Connects(d, c)
    /\ LET r == ExpireAway(room) IN
          IF r.lifecycle = "retired" THEN Attached("join", d, c, r)
          ELSE /\ ~RemovalBarrier(r)
               /\ r.members[d].status = "absent"
               /\ r.transfer = NoTransfer /\ InAdmission(r) = {}
               /\ Attached("join", d, c, Arrival(r, d, c))

(* The same join again, on another connection.                                *)
RetryJoin(d) == \E c \in Conn :
    /\ Connects(d, c)
    /\ LET r == ExpireAway(room) IN
          /\ r.lifecycle = "open" /\ ~RemovalBarrier(r)
          /\ d \in InAdmission(r) /\ r.members[d].admission # "over"
          /\ Attached("join", d, c, [r EXCEPT !.members[d] = [@ EXCEPT !.status = "pending", !.conn = c]])

(* A resume takes the device over from whatever connection held it, and lists *)
(* its backlog for replay.  A device whose grace has run out is told so.      *)
Resume(d) == \E c \in Conn :
    /\ Connects(d, c)
    /\ LET r == ExpireAway(room)
           m == r.members[d]
           lost == m.fresh /\ ~room.members[d].fresh
       IN  IF r.lifecycle = "retired" \/ lost
           THEN Commit("resume", r) /\ UNCHANGED <<socket, closing, stalled>>
           ELSE /\ Established(m) /\ ~m.fresh
                /\ Attached("resume", d, c,
                       [r EXCEPT !.members[d] =
                           [@ EXCEPT !.status = "pending", !.conn = c, !.grace = "off",
                                     !.replay = Len(m.backlog)]])

(* The client loses its socket, and forgets what it waited for.               *)
ConnectionLost(d) ==
    /\ socket[d] # 0
    /\ socket' = [socket EXCEPT ![d] = 0]
    /\ closing' = closing \cup {<<d, socket[d]>>}
    /\ stalled' = stalled \ {d}
    /\ Untouched /\ UNCHANGED room

(* The close event of a socket reaches the relay.  Only the connection that   *)
(* owns the device takes it offline: an admission waits for its join to be    *)
(* retried, a member keeps its place for the grace period.                    *)
\* Slip: the device keeps its grant and its place in the queue.
DisconnectOnly(r, d) ==
    [r EXCEPT !.members[d] =
        [@ EXCEPT !.status = "disconnected", !.conn = 0, !.replay = 0,
                  !.grace = IF r.members[d].phase = "none" THEN "running" ELSE "off"]]

Disconnect(r, d) ==
    IF r.members[d].phase # "none"
    THEN [r EXCEPT !.members[d] = [@ EXCEPT !.status = "disconnected", !.conn = 0]]
    ELSE IssueNextGrant(
             [r EXCEPT !.members[d] = [@ EXCEPT !.status = "disconnected", !.conn = 0,
                                                !.grace = "running", !.replay = 0],
                       !.queue = Without(@, {d}),
                       !.grant = IF @.device = d THEN NoGrant ELSE @])

\* Slip: whichever connection closes takes the device offline.
CloseAnyEvent(d) ==
    \E c \in Conn :
        /\ <<d, c>> \in closing
        /\ closing' = closing \ {<<d, c>>}
        /\ IF Usable /\ room.lifecycle = "open" /\ room.members[d].status \in {"active", "pending"}
           THEN Commit("close", Disconnect(room, d))
           ELSE Untouched /\ UNCHANGED room
        /\ UNCHANGED <<socket, stalled>>

CloseEvent(d) ==
    \E c \in Conn :
        /\ <<d, c>> \in closing
        /\ closing' = closing \ {<<d, c>>}
        /\ IF /\ Usable /\ room.lifecycle = "open" /\ room.members[d].conn = c
              /\ room.members[d].status \in {"active", "pending"}
           THEN Commit("close", Disconnect(room, d))
           ELSE Untouched /\ UNCHANGED room
        /\ UNCHANGED <<socket, stalled>>

(****************************************************************************)
(* Time.                                                                    *)
(****************************************************************************)
AlarmDue ==
    Usable /\ room.lifecycle = "open" /\ (Overdue(room) \/ room.grant.overdue)

\* Slip: the grant that ran out is not passed on.
AlarmWithoutGrant == AlarmDue /\ Handled("alarm", ExpireGrant(Expire(room)))

Alarm == AlarmDue /\ Handled("alarm", IssueNextGrant(ExpireGrant(Expire(room))))

Passes(new) == room' = new /\ Untouched /\ UNCHANGED <<socket, closing, stalled>>

GraceEnds(d) ==
    /\ room.members[d].grace = "running"
    /\ Passes([room EXCEPT !.members[d].grace = "over"])

AdmissionEnds(d) ==
    /\ room.members[d].admission = "running"
    /\ Passes([room EXCEPT !.members[d].admission = "over"])

GrantEnds ==
    /\ room.grant.device # NoDevice /\ ~room.grant.overdue
    /\ Passes([room EXCEPT !.grant.overdue = TRUE])

ApplicationEnds ==
    /\ room.application.from # NoDevice /\ ~room.application.overdue
    /\ Passes([room EXCEPT !.application.overdue = TRUE])

CommitEnds ==
    /\ room.commit.from # NoDevice /\ ~room.commit.overdue
    /\ Passes([room EXCEPT !.commit.overdue = TRUE])

TransferEnds ==
    /\ room.transfer.host # NoDevice /\ ~room.transfer.overdue
    /\ Passes([room EXCEPT !.transfer.overdue = TRUE])

(****************************************************************************)
(* The specification.                                                       *)
(****************************************************************************)
HostFrame(h) ==
    \/ HostUpdate(h) \/ HostRemove(h) \/ HostRemoveMarked(h) \/ HostAdd(h)
    \/ Welcome(h) \/ Bootstrap(h) \/ Activate(h) \/ CancelAdmission(h)
    \/ HostApplication(h) \/ ApproveApplication(h) \/ RejectApplication(h)
    \/ ApproveCommit(h) \/ RejectCommit(h)
    \/ AuthorizeTransfer(h) \/ RetireMemberFrame(h) \/ CloseRoom(h)

MemberFrame(d) ==
    \/ OrderRequest(d) \/ MemberCommit(d) \/ MemberApplication(d) \/ JoinProof(d)
    \/ LateFrame(d) \/ Acknowledge(d) \/ ResumeComplete(d)
    \/ DroppedFrame(d) \/ DroppedRequest(d) \/ DroppedGrantFrame(d)

Connection(d) ==
    Join(d) \/ RetryJoin(d) \/ Resume(d) \/ ConnectionLost(d) \/ CloseEvent(d)

Next ==
    \/ \E d \in Device : HostFrame(d) \/ MemberFrame(d) \/ Connection(d)
    \/ \E d \in Device : GraceEnds(d) \/ AdmissionEnds(d)
    \/ GrantEnds \/ ApplicationEnds \/ CommitEnds \/ TransferEnds
    \/ Alarm

Spec == Init /\ [][Next]_vars

(* Every deadline passes in the end, the alarm is served, and the close of a  *)
(* socket is reported.  Nothing is assumed of the devices.  The last two are  *)
(* weak fairness with the enabling condition written out (TLC would evaluate  *)
(* the whole transition to find it).                                          *)
CloseDue(d) == \E c \in Conn : <<d, c>> \in closing
AlarmOwed ==
    /\ AlarmDue /\ outcome # "alarm"              \* else it would fail as it just did
    /\ ExpireGrant(Expire(room)) # room

Fairness ==
    /\ \A d \in Device :
          /\ WF_vars(GraceEnds(d)) /\ WF_vars(AdmissionEnds(d))
          /\ []<>~CloseDue(d) \/ []<><<CloseEvent(d)>>_vars
    /\ WF_vars(GrantEnds) /\ WF_vars(ApplicationEnds)
    /\ WF_vars(CommitEnds) /\ WF_vars(TransferEnds)
    /\ []<>~AlarmOwed \/ []<><<Alarm>>_vars

FairSpec == Spec /\ Fairness
=============================================================================
