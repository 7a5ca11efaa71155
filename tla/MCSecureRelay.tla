---------------------------- MODULE MCSecureRelay ----------------------------
(* SecureRelay on small rooms.                                                *)
EXTENDS SecureRelayProperties

CONSTANTS h, a, b

HostAlone == <<h>>
HostAndMember == <<h, a>>

(* A settled group is followed from two states: with its member, and with a   *)
(* third device, the admission of which it has just completed.                *)
Step(kind, from, order) == [kind |-> kind, from |-> from, subject |-> b, order |-> order]
Grown ==
    [NewRoom EXCEPT
        !.accepted = <<Step("add", h, 0), Step("bootstrap", h, 1), Step("join-proof", b, 2)>>,
        !.nextMember = 4, !.nextOrder = 3,
        !.members[h].acked = {1, 3}, !.members[a].acked = {1, 2, 3},
        !.members[b] = [NewMember EXCEPT !.status = "active", !.conn = 1, !.joined = 3,
                                         !.since = 1, !.acked = {2, 3}]]
GroupInit ==
    /\ room \in {NewRoom, Grown}
    /\ socket = [d \in Device |-> room.members[d].conn]
    /\ closing = {} /\ stalled = {} /\ outcome = "ok"
GroupSpec == GroupInit /\ [][Next]_vars

(* What the run leaves out to reach further.  Two members do all there is to  *)
(* do in two frames, one old connection at a time, the member's, overlapping  *)
(* its successor until a frame is accepted; after the second frame the host   *)
(* keeps its connection.                                                      *)
Pair ==
    /\ room.members[b].status = "absent" /\ Len(room.accepted) < 3
    /\ Len(room.accepted) = 2 => socket[h] # 0
    /\ \A e, f \in closing : e = f
    /\ \A e \in closing :
         room.accepted # <<>> \/ e[1] = h =>
           socket[e[1]] = 0 /\ e[2] = room.members[e[1]].conn

(* Three lose their connections and their places, one after another or at     *)
(* once, while the group accepts the removals of two.                         *)
Since(n) == SubSeq(room.accepted, n + 1, Len(room.accepted))
Three ==
    /\ Cardinality(Listed(room.queue)) < 2 /\ \A d \in Device : socket[d] < 2
    /\ Len(room.accepted) > 2 /\ room.members[b].status \notin {"absent"}
OnlyRemovals ==
    /\ Three /\ socket[h] # 0 /\ Cardinality(closing) < 2
    /\ \A d \in Device : room.members[d].status # "pending"
    /\ room.transfer = NoTransfer
    /\ \A i \in DOMAIN Since(3) : Since(3)[i].kind = "remove"
    /\ room.application.from = NoDevice /\ room.commit.from = NoDevice

(* Or two of them, who keep their connections, hold a frame while the third,  *)
(* who is silent, loses its place.                                            *)
OneSilent ==
    /\ Three /\ Len(room.accepted) < 5
    /\ \A d \in {h, a} : socket[d] # 0 /\ room.members[d].conn # 0
    /\ b \notin {room.grant.device, room.transfer.target, room.application.from, room.commit.from}
    /\ room.queue[b] = 0 /\ room.members[b].acked = {2, 3} /\ room.members[b].status # "pending"

GroupBound == Pair \/ OnlyRemovals \/ OneSilent
=============================================================================
