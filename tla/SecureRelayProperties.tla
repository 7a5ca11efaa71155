------------------------ MODULE SecureRelayProperties ------------------------
(* What the relay of SecureRelay must never do, and what it must get done.    *)
EXTENDS SecureRelay

(****************************************************************************)
(* Type correctness.                                                        *)
(****************************************************************************)
AcceptedKind ==
    {"application", "accept", "commit", "add", "remove", "bootstrap", "join-proof"}
EntryKind == {"relay", "accepted", "rejected", "authorization", "welcome"}

Frame ==
    [kind : AcceptedKind, from : Device, subject : Device \cup {NoDevice}, order : Nat]
Entry == [kind : EntryKind, frame : Nat, order : Nat]

Member ==
    [status : Status, joined : Nat, conn : 0..MaxConn,
     phase : Phase, added : BOOLEAN, admission : Timer,
     proof : BOOLEAN, proofOrder : Nat,
     grace : Timer, fresh : BOOLEAN, replay : Nat, backlog : Seq(Entry),
     since : Nat, acked : SUBSET Nat]

OptDevice == Device \cup {NoDevice}
Grant == [device : OptDevice, order : Nat, overdue : BOOLEAN]
HeldApplication == [from : OptDevice, accepts : BOOLEAN, order : Nat, overdue : BOOLEAN]
HeldCommit == [from : OptDevice, order : Nat, overdue : BOOLEAN]
Transfer == [host : OptDevice, target : OptDevice, overdue : BOOLEAN]

Room ==
    [lifecycle : {"open", "retired"}, host : OptDevice, members : [Device -> Member],
     nextMember : Nat, nextOrder : Nat,
     grant : Grant, application : HeldApplication, commit : HeldCommit,
     transfer : Transfer, queue : [Device -> Nat],
     zombies : [Device -> Nat], removal : Nat, accepted : Seq(Frame)]

Operation ==
    {"order-request", "commit", "commit-decision", "application", "application-decision",
     "late-frame", "welcome", "bootstrap", "join-proof", "activate", "cancel-admission",
     "delivery-ack", "resume-complete", "authorize-host-transfer", "retire-member",
     "close-room", "cleanup", "join", "resume", "close", "alarm"}

(* Every part of the state has the shape secureRelayV4.ts declares for it     *)
(* (lines 278-460).                                                           *)
TypeOK ==
    /\ room \in Room
    /\ socket \in [Device -> 0..MaxConn]
    /\ closing \subseteq Device \X Conn
    /\ stalled \subseteq Device
    /\ outcome \in Operation \cup {"ok"}

(****************************************************************************)
(* Order authority.                                                         *)
(****************************************************************************)
(* The next logical order is given to one party at a time: a grant, a held    *)
(* application, a held commit, or the proof of an admission.  Every handler   *)
(* that hands an order on must have taken it back from its last holder.       *)
GrantHolds == room.grant.device # NoDevice
ApplicationHolds == room.application.from # NoDevice
CommitHolds == room.commit.from # NoDevice
ProofHolds == \E a \in Device : room.members[a].proofOrder # 0

OrderAuthority ==
    /\ ~(GrantHolds /\ ApplicationHolds)
    /\ ~(GrantHolds /\ CommitHolds)
    /\ ~(GrantHolds /\ ProofHolds)
    /\ ~(ApplicationHolds /\ CommitHolds)
    /\ ~(ApplicationHolds /\ ProofHolds)
    /\ ~(CommitHolds /\ ProofHolds)

(****************************************************************************)
(* The removal barrier.                                                     *)
(****************************************************************************)
(* While a device waits to be removed, the group accepts nothing but the      *)
(* host's removal of the device at the head, and accepts that once.           *)
RemovalComesFirst ==
    [][RemovalBarrier(room) /\ Len(room'.accepted) > Len(room.accepted) =>
          /\ room.removal = 0
          /\ LET f == room'.accepted[Len(room'.accepted)] IN
                f.kind = "remove" /\ f.from = room.host /\ IsHead(room.zombies, f.subject)
      ]_vars

(* A marker is dropped only for a device whose removal the group accepted     *)
(* (or with the room), and the markers behind it keep their order: no device  *)
(* overtakes one that lost its place earlier.                                 *)
MarkersInOrder ==
    [][room'.lifecycle = "open" =>
          \A d \in Listed(room.zombies) :
             /\ d \notin Listed(room'.zombies) =>
                   /\ IsHead(room.zombies, d) /\ d \notin Roster(room)
                   /\ room.removal # 0
             /\ \A e \in Listed(room'.zombies) \ {d} :
                   (room'.zombies[e] < room'.zombies[d] /\ d \in Listed(room'.zombies)) =>
                      e \in Listed(room.zombies) /\ room.zombies[e] < room.zombies[d]
      ]_vars

(* A device that must be removed is still a leaf of the MLS tree, so that the *)
(* host can commit its removal.  Does not hold, see the README.               *)
BarrierSatisfiable ==
    room.removal = 0 => \A d \in Listed(room.zombies) : d \in Roster(room)

(****************************************************************************)
(* Admission.                                                               *)
(****************************************************************************)
(* Between the Add of a device and its proof the group accepts only its       *)
(* bootstrap: the new member starts from the state the host described.        *)
AdmissionUninterrupted ==
    \A i \in 1..Len(room.accepted) :
        LET f == room.accepted[i] IN
        /\ f.kind = "join-proof" =>
              i > 2 /\ room.accepted[i - 1].kind = "bootstrap"
                    /\ room.accepted[i - 1].subject = f.subject
        /\ f.kind = "bootstrap" =>
              i > 1 /\ room.accepted[i - 1].kind = "add"
                    /\ room.accepted[i - 1].subject = f.subject

(* A device the Add of which was accepted stays accounted for: it is a member,*)
(* it is being admitted, its removal was accepted, or its removal is due.     *)
LeafAccounted ==
    room.lifecycle = "open" =>
        \A d \in Roster(room) :
            \/ Established(room.members[d]) /\ ~room.members[d].fresh
            \/ d \in AdmissionBarrier(room)
            \/ d \in Listed(room.zombies)

(****************************************************************************)
(* Delivery.                                                                *)
(****************************************************************************)
Frames(log) == {log[i].frame : i \in 1..Len(log)} \ {0}

(* A member that keeps its place misses nothing and gets nothing twice: what  *)
(* it acknowledged and what waits in its backlog are the frames accepted      *)
(* since its admission (a host's own bootstrap aside), in order.              *)
DeliveryComplete ==
    \A d \in Device :
        LET m == room.members[d] IN
        (Established(m) /\ ~m.fresh) \/ (d \in AdmissionBarrier(room)) =>
            /\ m.acked \cup Frames(m.backlog) =
                  {i \in (m.since + 1)..Len(room.accepted) :
                      room.accepted[i].from = d => room.accepted[i].kind # "bootstrap"}
            /\ \A i, j \in 1..Len(m.backlog) :
                  i < j /\ m.backlog[i].frame # 0 /\ m.backlog[j].frame # 0
                     => m.backlog[i].frame < m.backlog[j].frame
            /\ \A x \in m.acked, y \in Frames(m.backlog) : x < y

(* A held application ends in a result in its sender's backlog, unless the    *)
(* sender lost its place or the room ended.                                   *)
Answered(d, order) ==
    LET m == room'.members[d] IN
    \/ m.status = "retired" \/ m.fresh
    \/ /\ Len(m.backlog) = Len(room.members[d].backlog) + 1
       /\ LET last == m.backlog[Len(m.backlog)] IN
             last.kind \in {"accepted", "rejected"} /\ last.order = order

HeldFrameAnswered ==
    [][/\ ApplicationHolds /\ room'.application.from = NoDevice =>
             Answered(room.application.from, room.application.order)
       /\ CommitHolds /\ room'.commit.from = NoDevice =>
             Answered(room.commit.from, 0)
      ]_vars

(****************************************************************************)
(* Membership and connections.                                              *)
(****************************************************************************)
(* An open room ends only when its host's grace has run out, or when its host *)
(* closes it: the host's own backlog never fills, and nobody else's deadline, *)
(* frame or connection costs the host the room.                               *)
RetiredForCause ==
    [][room.lifecycle = "open" /\ room'.lifecycle = "retired" =>
          room.members[room.host].grace = "over" \/ CloseRoom(room.host)]_vars

(* A member connected through an open socket is not put offline: the delayed  *)
(* close of an older socket of the device does not count.                     *)
StaleCloseHarmless ==
    [][\A d \in Device :
          socket[d] # 0 /\ room.members[d].conn = socket[d] /\ socket'[d] = socket[d] =>
             \/ room'.members[d].conn = socket[d]
             \/ room'.members[d].fresh \/ room'.members[d].status = "retired"]_vars

(* A member marked connected has its socket open, or the event that will take *)
(* it offline is still to come.  Does not hold, see the README.               *)
NoGhost ==
    \A d \in Device :
        room.members[d].conn # 0 =>
            room.members[d].conn = socket[d] \/ <<d, room.members[d].conn>> \in closing

(****************************************************************************)
(* Storing and answering.                                                   *)
(****************************************************************************)
(* The relay computes a state it cannot store only in four situations: a      *)
(* connection closes after the deadline of another member's grace; a device   *)
(* that holds or waits for an order resumes before its old connection is      *)
(* closed; host authority is offered to the device that holds the grant; and  *)
(* a transfer runs out while its acceptance is still being decided.           *)
OfferedToOwner == room.grant.device # NoDevice /\ room.grant.device # room.host
TransferOutlived ==
    room.transfer.overdue /\ room.application.accepts /\ ~room.application.overdue

RefusedForCause ==
    [][outcome' # "ok" /\ Usable =>
          \/ /\ outcome' = "close"
             /\ \E d \in Device : /\ CloseEvent(d)
                                  /\ \E e \in Device \ {d} : room.members[e].grace = "over"
          \/ /\ outcome' = "resume"
             /\ \E d \in Device : /\ Resume(d)
                                  /\ d = room.grant.device \/ room.queue[d] # 0
          \/ outcome' = "authorize-host-transfer" /\ OfferedToOwner
          \/ outcome' \in {"alarm", "cleanup"} /\ TransferOutlived
      ]_vars

(* A device can resume while its former connection is still active.  Does     *)
(* not hold, see the README.                                                  *)
ResumeReplacesConnection == outcome # "resume"

(* What the alarm computes can be stored.  Does not hold, see the README.     *)
AlarmStored == outcome # "alarm"

(* Every request is answered.  Does not hold, see the README.                 *)
NoRequestIgnored == stalled = {}

(****************************************************************************)
(* Progress.                                                                *)
(****************************************************************************)
(* A held frame is decided, whatever the host does.                           *)
HeldDecided == (ApplicationHolds \/ CommitHolds) ~> ~(ApplicationHolds \/ CommitHolds)

(* A disconnected member comes back or loses its place.                       *)
AwayResolved ==
    \A d \in Device :
        (Away(room.members[d]) /\ ~room.members[d].fresh)
            ~> ~(Away(room.members[d]) /\ ~room.members[d].fresh)

(* A queued order request is granted or cancelled, whatever its predecessors  *)
(* do with their grants.                                                      *)
RequestServed == \A d \in Device : room.queue[d] # 0 ~> room.queue[d] = 0

(* An admission is completed or cancelled, and frees the room for the next.   *)
AdmissionResolved == InAdmission(room) # {} ~> InAdmission(room) = {}

(* Four waits that other devices cannot prolong for ever, whatever they fail  *)
(* to do: a held frame is decided, an absence ends, a queued request is       *)
(* granted or cancelled, an admission ends (advanceSecureRelayV4 and the      *)
(* cleanup before every frame).  It does not say that the room accepts frames *)
(* again: a marker stays until the host commits the removal, and until then   *)
(* the relay refuses requests and joins.                                      *)
WaitsEnd == HeldDecided /\ AwayResolved /\ RequestServed /\ AdmissionResolved

(****************************************************************************)
(* The abstract log.                                                        *)
(****************************************************************************)
Log == INSTANCE CausalLog WITH
           Members <- SettledSet,
           log <- room.accepted,
           seen <- [d \in Device |-> room.members[d].acked]

(* The relay implements the log CausalLog describes.                          *)
ImplementsLog == Log!Spec
=============================================================================
