------------------------------ MODULE RelayState ------------------------------
(* The durable state of one secure room as the relay keeps it                 *)
(* (SecureRelayStateV4 of src/src/secureRelayV4.ts), and the operators that   *)
(* transform it.  The reducer of the code mutates a private copy of the state *)
(* and returns it; here a helper is an operator from a room to a room, and    *)
(* SecureRelay builds its actions from them.                                  *)
(*                                                                            *)
(* What is abstracted.  Identifiers (requests, tokens, messages, key          *)
(* packages) are left out: a frame is named by its position in `accepted`.    *)
(* A deadline is a flag the clock sets when it passes (`overdue`, "over"),    *)
(* which is the comparison now >= expiresAt the code evaluates on each entry. *)
(* A FIFO over devices, in which a device occurs at most once, is the         *)
(* function that gives each device its place, 0 meaning none.                 *)
EXTENDS Integers, Sequences, FiniteSets

CONSTANTS
    Device,         \* the devices that may ever hold a member record
    NoDevice,       \* null
    Settled,        \* devices admitted before the model starts, in join order;
                    \* the first one founded the room
    MaxBacklog,     \* MAX_SECURE_DEVICE_BACKLOG_ENTRIES_V4
    MaxQueue        \* MAX_SECURE_ORDER_QUEUE_V4

ASSUME DeviceAssumption == IsFiniteSet(Device) /\ NoDevice \notin Device
ASSUME SettledAssumption ==
    /\ Settled \in Seq(Device) /\ Len(Settled) > 0
    /\ \A i, j \in 1..Len(Settled) : Settled[i] = Settled[j] => i = j
ASSUME BoundAssumption == MaxBacklog \in Nat /\ MaxBacklog >= 2 /\ MaxQueue \in Nat

Founder == Settled[1]
SettledSet == {Settled[i] : i \in 1..Len(Settled)}

(****************************************************************************)
(* A FIFO of devices as the function from a device to its place.            *)
(****************************************************************************)
Listed(f) == {d \in Device : f[d] # 0}
IsHead(f, d) == f[d] = 1
EmptyFifo == [d \in Device |-> 0]
Enqueue(f, d) == [f EXCEPT ![d] = Cardinality(Listed(f)) + 1]
Without(f, S) ==
    [d \in Device |->
        IF d \in Listed(f) \ S
        THEN Cardinality({e \in Listed(f) \ S : f[e] <= f[d]})
        ELSE 0]

(****************************************************************************)
(* Members.                                                                 *)
(****************************************************************************)
Status == {"absent", "pending", "active", "disconnected", "retired"}
Phase == {"none", "awaiting-welcome", "awaiting-bootstrap", "awaiting-proof"}
Timer == {"off", "running", "over"}

NewMember ==
    [status |-> "absent", joined |-> 0, conn |-> 0,
     phase |-> "none", added |-> FALSE, admission |-> "off",
     proof |-> FALSE, proofOrder |-> 0,
     grace |-> "off", fresh |-> FALSE, replay |-> 0, backlog |-> <<>>,
     since |-> 0, acked |-> {}]

(* `replay` is the number of backlog entries the last resume listed, which is  *)
(* what the last message of its backlog-end tells; `proofOrder` is the order   *)
(* the proof grant reserves; `since` and `acked` are history: the position of  *)
(* the frame that admitted the device, and the positions it acknowledged.     *)

(* A member MLS has admitted: connected, replaying its backlog after a resume *)
(* (pending with no admission), or disconnected with its place kept.          *)
Established(m) ==
    \/ m.status = "active"
    \/ m.status \in {"pending", "disconnected"} /\ m.phase = "none"

Replaying(m) == m.status = "pending" /\ m.phase = "none"
Away(m) == m.status = "disconnected" /\ m.phase = "none"
Ready(m) == m.status = "active" /\ m.backlog = <<>>
Full(m) == Len(m.backlog) >= MaxBacklog

ClearAdmission(m) ==
    [m EXCEPT !.phase = "none", !.added = FALSE, !.admission = "off",
              !.proof = FALSE, !.proofOrder = 0]

RetireMember(m) ==
    [ClearAdmission(m) EXCEPT !.status = "retired", !.conn = 0, !.grace = "off",
                              !.fresh = FALSE, !.replay = 0, !.backlog = <<>>]

\* Slip: the deadline gets the null of another field.
EvictedWithNullTimer(m) ==
    [m EXCEPT !.status = "disconnected", !.conn = 0, !.grace = "none",
              !.fresh = TRUE, !.replay = 0, !.backlog = <<>>]

(* A member that outlived its grace, or missed a frame, must be admitted anew.*)
Evicted(m) ==
    [m EXCEPT !.status = "disconnected", !.conn = 0, !.grace = "off",
              !.fresh = TRUE, !.replay = 0, !.backlog = <<>>]

Given(m, entry) == [m EXCEPT !.backlog = Append(@, entry)]

(****************************************************************************)
(* The room.                                                                *)
(****************************************************************************)
NoGrant == [device |-> NoDevice, order |-> 0, overdue |-> FALSE]
NoApplication == [from |-> NoDevice, accepts |-> FALSE, order |-> 0, overdue |-> FALSE]
NoCommit == [from |-> NoDevice, order |-> 0, overdue |-> FALSE]
NoTransfer == [host |-> NoDevice, target |-> NoDevice, overdue |-> FALSE]

NewRoom ==
    [lifecycle |-> "open", host |-> Founder,
     members |-> [d \in Device |->
        IF d \in SettledSet
        THEN [NewMember EXCEPT !.status = "active", !.conn = 1,
                               !.joined = CHOOSE i \in 1..Len(Settled) : Settled[i] = d]
        ELSE NewMember],
     nextMember |-> Len(Settled) + 1, nextOrder |-> 1,
     grant |-> NoGrant, application |-> NoApplication, commit |-> NoCommit,
     transfer |-> NoTransfer, queue |-> EmptyFifo,
     zombies |-> EmptyFifo, removal |-> 0, accepted |-> <<>>]

InAdmission(r) == {d \in Device : r.members[d].phase # "none"}
AdmissionBarrier(r) == {d \in InAdmission(r) : r.members[d].added}
RemovalBarrier(r) == Listed(r.zombies) # {}

RelayEntry(i, order) == [kind |-> "relay", frame |-> i, order |-> order]
AcceptedEntry(i, order) == [kind |-> "accepted", frame |-> i, order |-> order]
RejectedEntry(order) == [kind |-> "rejected", frame |-> 0, order |-> order]
AuthorizationEntry == [kind |-> "authorization", frame |-> 0, order |-> 0]
WelcomeEntry == [kind |-> "welcome", frame |-> 0, order |-> 0]

(****************************************************************************)
(* Leaving: the room, an admission, a membership.                           *)
(****************************************************************************)
RetireRoom(r) ==
    [r EXCEPT !.lifecycle = "retired", !.host = NoDevice,
              !.members = [d \in Device |->
                  IF r.members[d].status = "absent" THEN r.members[d]
                                                    ELSE RetireMember(r.members[d])],
              !.grant = NoGrant, !.application = NoApplication, !.commit = NoCommit,
              !.transfer = NoTransfer, !.queue = EmptyFifo,
              !.zombies = EmptyFifo, !.removal = 0]

(* Removal markers for the devices of S that have none, in join order.        *)
Behind(r, S) == [d \in Device |->
    IF d \in S
    THEN Cardinality(Listed(r.zombies))
         + Cardinality({e \in S : r.members[e].joined <= r.members[d].joined})
    ELSE r.zombies[d]]

\* Slip: the whole list is sorted by join order again.
MarkSorted(r, S) == [r EXCEPT !.zombies = Behind([r EXCEPT !.zombies = EmptyFifo],
                                                 S \cup Listed(r.zombies))]

Mark(r, S) == [r EXCEPT !.zombies = Behind(r, S \ Listed(r.zombies))]

(* The first marker cancels every grant and queued request, retires the       *)
(* pending admissions (leaving a marker for each accepted Add), answers the   *)
(* held operation with a rejection and ends the host transfer.                *)
RaiseRemovalBarrier(r) ==
    LET stale == InAdmission(r)
        held == {d \in ({r.application.from, r.commit.from} \cap Device) \ stale :
                    Established(r.members[d]) /\ ~r.members[d].fresh}
        lost == {d \in held : Full(r.members[d])}
        cleared ==
            [r EXCEPT !.grant = NoGrant, !.queue = EmptyFifo, !.transfer = NoTransfer,
                      !.application = NoApplication, !.commit = NoCommit,
                      !.members = [d \in Device |->
                          CASE d \in stale -> RetireMember(r.members[d])
                            [] d \in lost -> Evicted(r.members[d])
                            [] d \in held \ lost ->
                                 Given(r.members[d], RejectedEntry(r.application.order))
                            [] OTHER -> r.members[d]]]
    IN  Mark(Mark(cleared, {d \in stale : r.members[d].added}), lost)

RequireRemoval(r, d) ==
    IF RemovalBarrier(r) THEN Mark(r, {d}) ELSE RaiseRemovalBarrier(Mark(r, {d}))

(* The members of S, none of them the host, lose their place together: the    *)
(* earliest raises the barrier, the others queue behind it.                   *)
Expel(r, S) ==
    LET first == CHOOSE d \in S : \A e \in S : r.members[d].joined <= r.members[e].joined
        gone ==
            [r EXCEPT !.members = [d \in Device |->
                          IF d \in S THEN Evicted(r.members[d]) ELSE r.members[d]],
                      !.queue = Without(r.queue, S),
                      !.grant = IF @.device \in S THEN NoGrant ELSE @,
                      !.application = IF @.from \in S THEN NoApplication ELSE @,
                      !.commit = IF @.from \in S THEN NoCommit ELSE @,
                      !.transfer = IF @.host \in S \/ @.target \in S THEN NoTransfer ELSE @]
    IN  Mark(RequireRemoval(gone, first), S)

Lose(r, S) ==
    IF S = {} THEN r ELSE IF r.host \in S THEN RetireRoom(r) ELSE Expel(r, S)

\* Slip: the Add it had already made is forgotten.
RetireAdmissionOnly(r, d) == [r EXCEPT !.members[d] = RetireMember(@)]

RetireAdmission(r, d) ==
    LET retired == [r EXCEPT !.members[d] = RetireMember(@)]
    IN  IF r.members[d].added THEN RequireRemoval(retired, d) ELSE retired

(****************************************************************************)
(* Delivery.                                                                *)
(****************************************************************************)
(* Append an entry to the durable backlog of each device of S.  A pending     *)
(* order request of a recipient is cancelled; a full backlog costs the member *)
(* its place (and the host the room).                                         *)
Deliver(r, S, entry) ==
    LET open == {d \in S : ~r.members[d].fresh}
        full == {d \in open : Full(r.members[d])}
        given ==
            [r EXCEPT !.queue = Without(@, open),
                      !.members = [d \in Device |->
                          IF d \in open \ full THEN Given(r.members[d], entry)
                                               ELSE r.members[d]]]
    IN  Lose(given, full)

\* Slip: members that are away are left out.
RouteConnected(r, from, entry) ==
    Deliver(r, {d \in Device \ {from} : r.members[d].status = "active"}, entry)

Route(r, from, entry) ==
    Deliver(r, {d \in Device \ {from} : Established(r.members[d])}, entry)

Answer(r, to, entry) ==
    IF Established(r.members[to]) THEN Deliver(r, {to}, entry) ELSE r

(* The history of the accepted frames, in the order the relay accepted them.   *)
(* It is not the relay's replay records, which answer a frame that is repeated. *)
Record(r, kind, from, subject, order) ==
    [r EXCEPT !.accepted =
        Append(@, [kind |-> kind, from |-> from, subject |-> subject, order |-> order])]

(* An accepted frame is recorded, routed to the group and, as an acceptance,  *)
(* to its sender.                                                             *)
Accept(r, kind, from, subject, order) ==
    LET i == Len(r.accepted) + 1
    IN  Answer(Route(Record(r, kind, from, subject, order), from, RelayEntry(i, order)),
               from, AcceptedEntry(i, order))

(****************************************************************************)
(* Order grants.                                                            *)
(****************************************************************************)
\* Slip: a held frame does not count.
MayGrantWhileHeld(r, d) ==
    /\ r.grant = NoGrant /\ IsHead(r.queue, d)
    /\ InAdmission(r) = {} /\ (RemovalBarrier(r) => r.removal = 0 /\ d = r.host)

MayGrant(r, d) ==
    /\ r.grant = NoGrant /\ r.application = NoApplication /\ r.commit = NoCommit
    /\ IsHead(r.queue, d)
    /\ IF RemovalBarrier(r) THEN r.removal = 0 /\ d = r.host
       ELSE \A a \in InAdmission(r) :
              /\ r.members[a].phase # "awaiting-proof"
              /\ r.members[a].added =>
                    r.members[a].phase = "awaiting-bootstrap" /\ d = r.host

IssueNextGrant(r) ==
    IF \E d \in Device : MayGrant(r, d)
    THEN LET d == CHOOSE e \in Device : MayGrant(r, e)
         IN  [r EXCEPT !.queue = Without(@, {d}),
                       !.grant = [device |-> d, order |-> r.nextOrder, overdue |-> FALSE]]
    ELSE r

(****************************************************************************)
(* Deadlines.                                                               *)
(****************************************************************************)
\* Slip: being away is enough, whatever the deadline.
ExpireAwayEarly(r) == Lose(r, {d \in Device : r.members[d].grace # "off"})

ExpireAway(r) == Lose(r, {d \in Device : r.members[d].grace = "over"})

ExpireAdmission(r) ==
    IF \E d \in InAdmission(r) : r.members[d].admission = "over"
    THEN RetireAdmission(r, CHOOSE d \in InAdmission(r) : r.members[d].admission = "over")
    ELSE r

ExpireGrant(r) == [r EXCEPT !.grant = IF @.overdue THEN NoGrant ELSE @]

ExpireTransfer(r) == [r EXCEPT !.transfer = IF @.overdue THEN NoTransfer ELSE @]

ExpireApplication(r) ==
    IF ~r.application.overdue THEN r
    ELSE Answer([r EXCEPT !.application = NoApplication,
                          !.transfer = IF r.application.accepts THEN NoTransfer ELSE @],
                r.application.from, RejectedEntry(r.application.order))

\* Slip: the sender is not told.
ExpireCommitSilently(r) == [r EXCEPT !.commit = IF @.overdue THEN NoCommit ELSE @]

ExpireCommit(r) ==
    IF ~r.commit.overdue THEN r
    ELSE Answer([r EXCEPT !.commit = NoCommit], r.commit.from, RejectedEntry(0))

(* Something other than a grant is past its deadline.                         *)
Overdue(r) ==
    \/ \E d \in Device : r.members[d].grace = "over" \/ r.members[d].admission = "over"
    \/ r.application.overdue \/ r.commit.overdue \/ r.transfer.overdue

Expire(r) ==
    ExpireCommit(ExpireTransfer(ExpireApplication(ExpireAdmission(ExpireAway(r)))))
=============================================================================
