-------------------------- MODULE SecureRelayProofs --------------------------
(* The relay (SecureRelay), for any devices, admitted members and limits.     *)
(*                                                                            *)
(* First, it is type correct and keeps the order with one holder.  The        *)
(* inductive invariant IInv adds to TypeOK and OrderAuthority what the code   *)
(* relies on without saying it (ProofInPhase, BarrierAlone, OverdueHeld).     *)
(* One lemma for each action of Next shows that it keeps IInv.                *)
(*                                                                            *)
(* Then, it keeps one log and delivers it: what the log of accepted frames    *)
(* says of each member is invariant (Sound), and so every device that keeps   *)
(* its place reads the whole log in order, an admission is not interrupted,   *)
(* and the relay implements CausalLog.  Each action of SecureRelay leads a    *)
(* right room to a right room, and publishes one frame, lets one device read, *)
(* or does neither (Leads).                                                   *)
(*                                                                            *)
(* Last, the removal markers keep their order, and the room ends for a cause: *)
(* the row of markers has no gap (InLine), and a room that will be read again *)
(* has a host that holds no operation and a grant whose owner has read        *)
(* everything (Readable).                                                     *)
EXTENDS RelayProofs

(* The inductive invariant.                                                   *)
IInv == TypeOK /\ Kept(room)

(* A transition that runs the reducer keeps the invariant, stored or not.     *)
LEMMA HandledKept ==
    ASSUME IInv, NEW new, Kept(new), NEW name \in Operation,
           room' \in {room, new}, outcome' \in {"ok", name},
           UNCHANGED <<socket, closing, stalled>>
    PROVE  IInv'
<1>1. outcome' \in Operation \cup {"ok"} OBVIOUS
<1>2. Kept(room') BY DEF IInv
<1>3. room' \in Room BY <1>2 DEF Kept
<1>4. QED BY <1>1, <1>2, <1>3 DEF IInv, TypeOK

(* Accept a frame and pass the order on.                                      *)
LEMMA AcceptKept ==
    ASSUME NEW r, Kept(r), NEW kind \in AcceptedKind, NEW from \in Device,
           NEW subject \in OptDevice, NEW order \in Nat
    PROVE  Kept(IssueNextGrant(Accept(r, kind, from, subject, order)))
<1> DEFINE s == Accept(r, kind, from, subject, order)
<1>1. Good(r, s) BY AcceptGood DEF Kept
<1> HIDE DEF s
<1>2. Kept(s) BY <1>1, GoodKept
<1>3. QED BY <1>2, IssueKept DEF s

(* Answer a frame with a rejection.                                           *)
LEMMA AnswerKept ==
    ASSUME NEW r, Kept(r), NEW d \in Device, NEW order \in Nat
    PROVE  Kept(Answer(r, d, RejectedEntry(order)))
BY AnswerGood, EntryTypes, GoodKept DEF Kept

(* The next position of the log is a number.                                  *)
LEMMA LenAccepted ==
    ASSUME NEW r \in Room PROVE Len(r.accepted) + 1 \in Nat
<1>1. r.accepted \in Seq(Frame) BY DEF Room
<1>2. QED BY <1>1

(* A request is queued, and granted if nobody holds the order.                *)
LEMMA OrderRequestStep ==
    ASSUME IInv, NEW d \in Device, OrderRequest(d) PROVE IInv'
<1> DEFINE q == ExpireGrant(room)
           f == Enqueue(q.queue, d)
           s == [q EXCEPT !.queue = f]
<1>1. Good(room, q) BY ExpireGrantGood DEF IInv, Kept
<1>2. Handled("order-request", IssueNextGrant(s)) BY DEF OrderRequest
<1> HIDE DEF q
<1>3. f \in [Device -> Nat] BY <1>1, FifoTypes DEF Good, Room
<1> HIDE DEF f
<1>4. Kept(q) BY <1>1, GoodKept DEF IInv
<1>5. /\ s \in Room /\ s.members = q.members /\ s.zombies = q.zombies
      /\ s.grant = q.grant /\ s.application = q.application /\ s.commit = q.commit
    BY <1>1, <1>3 DEF Good, Room
<1> HIDE DEF s
<1>6. Kept(s) BY <1>4, <1>5, HoldersChange, GoodKept DEF Kept
<1>7. QED BY <1>2, <1>6, IssueKept, HandledKept DEF Handled, Commit, Operation

(* The room once the grant of the frame's sender is spent.                    *)
LEMMA SpentKept == ASSUME IInv PROVE Kept(Spent(room))
BY SpentGood, GoodKept DEF IInv, Kept

(* Commits of the host: each spends the grant before the order is passed on.  *)
LEMMA HostUpdateStep ==
    ASSUME IInv, NEW h \in Device, HostUpdate(h) PROVE IInv'
<1>1. Handled("commit", IssueNextGrant(Accept(Spent(room), "commit", h, NoDevice, 0)))
    BY DEF HostUpdate
<1>2. Kept(IssueNextGrant(Accept(Spent(room), "commit", h, NoDevice, 0)))
    BY SpentKept, AcceptKept DEF AcceptedKind, OptDevice
<1>3. QED BY <1>1, <1>2, HandledKept DEF Handled, Commit, Operation

(* The host removes a member it chose.                                        *)
LEMMA HostRemoveStep ==
    ASSUME IInv, NEW h \in Device, HostRemove(h) PROVE IInv'
<1>1. PICK d \in Roster(room) \ {h} :
          Handled("commit", IssueNextGrant(Accept(Spent(room), "remove", h, d, 0)))
    BY DEF HostRemove
<1>2. d \in OptDevice BY DEF Roster, OptDevice
<1>3. Kept(IssueNextGrant(Accept(Spent(room), "remove", h, d, 0)))
    BY <1>2, SpentKept, AcceptKept DEF AcceptedKind
<1>4. QED BY <1>1, <1>3, HandledKept DEF Handled, Commit, Operation

(* The host removes the device at the head of the barrier.                    *)
LEMMA HostRemoveMarkedStep ==
    ASSUME IInv, NEW h \in Device, HostRemoveMarked(h) PROVE IInv'
<1> DEFINE q == Spent(room)
           s == [q EXCEPT !.removal = Len(room.accepted) + 1]
<1>1. PICK d \in Roster(room) :
          Handled("commit", IssueNextGrant(Accept(s, "remove", h, d, 0)))
    BY DEF HostRemoveMarked
<1>2. d \in OptDevice BY DEF Roster, OptDevice
<1>3. Kept(q) BY SpentKept
<1> HIDE DEF q
<1>4. Len(room.accepted) + 1 \in Nat BY LenAccepted DEF IInv, Kept
<1>5. /\ s \in Room /\ s.members = q.members /\ s.zombies = q.zombies
      /\ s.grant = q.grant /\ s.application = q.application /\ s.commit = q.commit
    BY <1>3, <1>4 DEF Kept, Room
<1> HIDE DEF s
<1>6. Kept(s) BY <1>3, <1>5, HoldersChange, GoodKept DEF Kept
<1>7. Kept(IssueNextGrant(Accept(s, "remove", h, d, 0)))
    BY <1>2, <1>6, AcceptKept DEF AcceptedKind
<1>8. QED BY <1>1, <1>7, HandledKept DEF Handled, Commit, Operation

(* The host adds the device that waits: its phase does not change.            *)
LEMMA HostAddStep ==
    ASSUME IInv, NEW h \in Device, HostAdd(h) PROVE IInv'
<1> DEFINE q == Spent(room)
           n == Len(room.accepted) + 1
           new(a) == [q EXCEPT !.members[a] = [@ EXCEPT !.added = TRUE, !.since = n],
                               !.queue = EmptyFifo]
<1>1. PICK a \in InAdmission(room) :
          Handled("commit", IssueNextGrant(Accept(new(a), "add", h, a, 0)))
    BY DEF HostAdd
<1>2. a \in Device /\ a \in OptDevice BY DEF InAdmission, OptDevice
<1> DEFINE m == [q.members[a] EXCEPT !.added = TRUE, !.since = n]
           s == new(a)
<1>3. Kept(q) BY SpentKept
<1>4. n \in Nat BY LenAccepted DEF IInv, Kept
<1> HIDE DEF q, n
<1>5. m \in Member /\ Reduced(q.members[a], m)
  <2>1. q.members[a] \in Member BY <1>2, <1>3 DEF Kept, Room
  <2>2. QED BY <2>1, <1>4 DEF Member, Reduced
<1>6. s = [q EXCEPT !.members[a] = m, !.queue = EmptyFifo]
    OBVIOUS
<1> HIDE DEF m, new, s
<1>7. /\ s \in Room /\ s.zombies = q.zombies /\ s.grant = q.grant
      /\ s.application = q.application /\ s.commit = q.commit
      /\ s.members = [q.members EXCEPT ![a] = m]
  <2>1. EmptyFifo \in [Device -> Nat] BY DEF EmptyFifo
  <2>2. QED BY <1>2, <1>3, <1>5, <1>6, <2>1 DEF Kept, Room
<1>8. \A d \in Device : Reduced(q.members[d], s.members[d])
    BY <1>2, <1>3, <1>5, <1>7, ReducedRefl DEF Kept, Room
<1>9. Kept(s)
  <2>1. q \in Room BY <1>3 DEF Kept
  <2>2. Good(q, s) BY <1>7, <1>8, <2>1, MembersGood
  <2>3. QED BY <1>3, <2>2, GoodKept
<1>10. Kept(IssueNextGrant(Accept(s, "add", h, a, 0)))
    BY <1>2, <1>9, AcceptKept DEF AcceptedKind
<1>11. QED BY <1>1, <1>10, HandledKept DEF Handled, Commit, Operation, s

(* A grant becomes a held operation: one holder replaces another.             *)
LEMMA HoldKept ==
    ASSUME NEW r, Kept(r), r.grant.device # NoDevice, NEW s \in Room,
           s.members = r.members, s.zombies = r.zombies, s.grant = NoGrant,
           \/ s.application = r.application /\ ~s.commit.overdue
           \/ s.commit = r.commit /\ ~s.application.overdue
    PROVE  Kept(s)
<1>1. InAdmission(s) = InAdmission(r) BY DEF InAdmission
<1>2. QED BY <1>1, SameBarrier
      DEF Kept, Auth, ProofInPhase, BarrierAlone, OverdueHeld, NoGrant

(* A member's commit is held in place of its grant.                           *)
LEMMA MemberCommitStep ==
    ASSUME IInv, NEW d \in Device, MemberCommit(d) PROVE IInv'
<1> DEFINE c == [from |-> d, order |-> room.grant.order, overdue |-> FALSE]
           s == [Spent(room) EXCEPT !.commit = c]
<1>1. Handled("commit", s) /\ room.grant.device = d BY DEF MemberCommit, Holds
<1>2. room \in Room /\ Kept(room) BY DEF IInv, Kept
<1>3. c \in HeldCommit BY <1>2 DEF Room, Grant, HeldCommit, OptDevice
<1>4. /\ s \in Room /\ s.members = room.members /\ s.zombies = room.zombies
      /\ s.grant = NoGrant /\ s.application = room.application /\ s.commit = c
  <2> HIDE DEF c
  <2> QED BY <1>2, <1>3, NoneTypes DEF Spent, Room
<1>5. ~c.overdue OBVIOUS
<1> HIDE DEF s, c
<1>6. room.grant.device # NoDevice BY <1>1, DeviceAssumption
<1>7. Kept(s) BY <1>2, <1>4, <1>5, <1>6, HoldKept
<1>8. QED BY <1>1, <1>7, HandledKept DEF Handled, Commit, Operation

(* A member's application is held in place of its grant.                      *)
LEMMA MemberApplicationStep ==
    ASSUME IInv, NEW d \in Device, MemberApplication(d) PROVE IInv'
<1> DEFINE held(x) == [from |-> d, accepts |-> x, order |-> room.grant.order,
                       overdue |-> FALSE]
           new(x) == [Spent(room) EXCEPT !.application = held(x)]
<1>1. /\ room.grant.device = d
      /\ \E x \in BOOLEAN : Handled("application", new(x))
    BY DEF MemberApplication, Holds
<1>2. PICK x \in BOOLEAN : Handled("application", new(x)) BY <1>1
<1> DEFINE c == held(x)
           s == new(x)
<1>3. room \in Room /\ Kept(room) BY DEF IInv, Kept
<1>4. c \in HeldApplication BY <1>3 DEF Room, Grant, HeldApplication, OptDevice
<1>5. /\ s \in Room /\ s.members = room.members /\ s.zombies = room.zombies
      /\ s.grant = NoGrant /\ s.application = c /\ s.commit = room.commit
  <2> HIDE DEF held
  <2> QED BY <1>3, <1>4, NoneTypes DEF Spent, Room
<1>6. ~c.overdue OBVIOUS
<1> HIDE DEF s, c, held, new
<1>7. room.grant.device # NoDevice BY <1>1, DeviceAssumption
<1>8. Kept(s) BY <1>3, <1>5, <1>6, <1>7, HoldKept
<1>9. QED BY <1>2, <1>8, HandledKept DEF Handled, Commit, Operation, s

(* The Welcome moves an admission on; it reserved no order before.            *)
LEMMA WelcomeStep ==
    ASSUME IInv, NEW h \in Device, Welcome(h) PROVE IInv'
<1> DEFINE new(a) == [room EXCEPT !.members[a] =
                        [Given(@, WelcomeEntry) EXCEPT !.phase = "awaiting-bootstrap"]]
<1>1. PICK a \in AdmissionBarrier(room) :
          /\ room.members[a].phase = "awaiting-welcome"
          /\ Handled("welcome", new(a))
    BY DEF Welcome
<1> DEFINE m == [Given(room.members[a], WelcomeEntry) EXCEPT !.phase = "awaiting-bootstrap"]
           s == new(a)
<1>2. a \in Device /\ a \in InAdmission(room) BY DEF AdmissionBarrier, InAdmission
<1>3. Kept(room) /\ room.members[a] \in Member BY <1>2 DEF IInv, Kept, Room
<1>4. room.members[a].proofOrder = 0
    BY <1>1, <1>2, <1>3 DEF Kept, ProofInPhase
<1>5. m \in Member /\ m.proofOrder = 0
  <2> DEFINE g == Given(room.members[a], WelcomeEntry)
  <2>1. g \in Member BY <1>3, GivenType, EntryTypes
  <2>2. g.proofOrder = 0 BY <1>3, <1>4 DEF Given, Member
  <2> HIDE DEF g
  <2>3. [g EXCEPT !.phase = "awaiting-bootstrap"] \in Member
      BY <2>1 DEF Member, Phase
  <2>4. QED BY <2>1, <2>2, <2>3 DEF g, Member
<1>6. ~RemovalBarrier(room) BY <1>2, <1>3 DEF Kept, BarrierAlone
<1>7. s = [room EXCEPT !.members[a] = m] OBVIOUS
<1> HIDE DEF m, new
<1>8. Kept(s) BY <1>2, <1>3, <1>5, <1>6, <1>7, MemberKept
<1>9. QED BY <1>1, <1>8, HandledKept DEF Handled, Commit, Operation, s

(* The bootstrap reserves the next order for the proof.  The grant it was sent *)
(* under excluded every other holder, and none appears while the frame is routed; *)
(* if routing raised the barrier the device is no longer pending.             *)
LEMMA BootstrapStep ==
    ASSUME IInv, NEW h \in Device, Bootstrap(h) PROVE IInv'
<1> DEFINE order == room.grant.order
           entry == RelayEntry(Len(room.accepted) + 1, order)
           base == Numbered(Spent(room))
           ordered(a) == [base EXCEPT !.members[a].phase = "awaiting-proof"]
           routed(a) == Route(Record(ordered(a), "bootstrap", h, a, order), h, entry)
           proven(a) == [routed(a) EXCEPT !.members[a] =
                            [Given(@, entry) EXCEPT !.proofOrder = routed(a).nextOrder]]
           new(a) == IF routed(a).members[a].status # "pending" THEN routed(a)
                                                                ELSE proven(a)
<1>1. PICK a \in AdmissionBarrier(room) :
          /\ room.grant.device = h
          /\ room.members[a].phase = "awaiting-bootstrap"
          /\ Handled("bootstrap", new(a))
    BY DEF Bootstrap, Holds
<1>2. a \in Device /\ a \in InAdmission(room) BY DEF AdmissionBarrier, InAdmission
<1>3. Kept(room) /\ order \in Nat BY DEF IInv, Kept, Room, Grant
<1>4. entry \in Entry BY <1>3, LenAccepted, EntryTypes DEF Kept
<1>5. Good(Spent(room), base) /\ Good(room, Spent(room))
    BY <1>3, SpentGood, NumberedGood DEF Kept, Good
<1>6. Kept(base) /\ base.grant = NoGrant /\ base.members = room.members
      /\ base.zombies = room.zombies /\ base.application = room.application
      /\ base.commit = room.commit
  <2>1. Kept(base) BY <1>3, <1>5, GoodKept
  <2>2. QED BY <2>1, <1>3 DEF Numbered, Spent, Kept, Room
<1> HIDE DEF base
<1>7. \A d \in Device : room.members[d].proofOrder = 0
    BY <1>1, <1>3, DeviceAssumption DEF Kept, Auth
<1>8. room.application.from = NoDevice /\ room.commit.from = NoDevice
    BY <1>1, <1>3, DeviceAssumption DEF Kept, Auth
<1>9. ~RemovalBarrier(room) /\ ~RemovalBarrier(base)
    BY <1>2, <1>3, <1>6, SameBarrier DEF Kept, BarrierAlone
<1> DEFINE m == [base.members[a] EXCEPT !.phase = "awaiting-proof"]
           o == ordered(a)
<1>10. m \in Member /\ m.proofOrder = 0
  <2>1. base.members[a] \in Member BY <1>2, <1>6 DEF Kept, Room
  <2>2. QED BY <1>2, <1>6, <1>7, <2>1 DEF Member, Phase
<1>11. o = [base EXCEPT !.members[a] = m] OBVIOUS
<1> HIDE DEF m
<1>12. Kept(o) /\ o.grant = NoGrant /\ o.members[a] = m
       /\ o.application = room.application /\ o.commit = room.commit
  <2> HIDE DEF o, ordered
  <2>1. Kept(o) BY <1>2, <1>6, <1>9, <1>10, <1>11, MemberKept
  <2>2. QED BY <2>1, <1>2, <1>6, <1>11 DEF Kept, Room
<1> HIDE DEF o, order, entry, ordered
<1> DEFINE t == routed(a)
           rec == Record(ordered(a), "bootstrap", h, a, order)
<1>13. Good(o, t)
  <2>1. a \in OptDevice BY <1>2 DEF OptDevice
  <2>2. Good(o, rec)
      BY <1>3, <1>12, <2>1, RecordGood DEF Kept, AcceptedKind, o
  <2> HIDE DEF rec
  <2>3. Good(rec, Route(rec, h, entry)) BY <1>4, <2>2, RouteGood DEF Good
  <2>4. QED BY <2>2, <2>3, GoodTrans DEF rec
<1> DEFINE p == proven(a)
<1> HIDE DEF routed
<1>14. Kept(t) BY <1>12, <1>13, GoodKept
<1>15. t.members[a].status = "pending" => Kept(p)
  <2> SUFFICES ASSUME t.members[a].status = "pending" PROVE Kept(p)
      OBVIOUS
  <2> DEFINE g == Given(t.members[a], entry)
             n == t.nextOrder
             mm == [g EXCEPT !.proofOrder = n]
  <2>1. t.members[a] \in Member /\ n \in Nat BY <1>2, <1>14 DEF Kept, Room
  <2>2. g \in Member /\ g.phase = t.members[a].phase BY <1>4, <2>1, GivenType
  <2>4. o.members[a].phase = "awaiting-proof"
    <3>1. base.members[a] \in Member BY <1>2, <1>6 DEF Kept, Room
    <3>2. QED BY <1>12, <3>1 DEF m, Member
  <2>5. Reduced(o.members[a], t.members[a])
      BY <1>2, <1>13 DEF Good, Shrinks
  <2>6. t.members[a].phase = "awaiting-proof"
      BY <2>4, <2>5 DEF Reduced, NoProofGrant
  <2>7. p = [t EXCEPT !.members[a] = mm] OBVIOUS
  <2> HIDE DEF g, n
  <2>8. mm \in Member /\ mm.phase = "awaiting-proof"
      BY <2>1, <2>2, <2>6 DEF Member
  <2> HIDE DEF mm, t, p, proven
  <2>9. /\ p \in Room /\ p.zombies = t.zombies /\ p.grant = t.grant
        /\ p.application = t.application /\ p.commit = t.commit
        /\ \A e \in Device : p.members[e] = IF e = a THEN mm ELSE t.members[e]
      BY <1>2, <1>14, <2>7, <2>8 DEF Kept, Room
  <2>10. t.grant = NoGrant /\ t.application.from = NoDevice /\ t.commit.from = NoDevice
      BY <1>8, <1>12, <1>13 DEF Good, Shrinks, NoApplication, NoCommit
  <2>11. Auth(p) /\ ProofInPhase(p) /\ OverdueHeld(p)
      BY <1>14, <2>8, <2>9, <2>10 DEF Auth, ProofInPhase, OverdueHeld, Kept, NoGrant
  <2>12. a \in InAdmission(t) BY <1>2, <2>6 DEF InAdmission
  <2>13. BarrierAlone(p)
      BY <1>14, <2>9, <2>12, SameBarrier DEF Kept, BarrierAlone
  <2>14. QED BY <2>9, <2>11, <2>13 DEF Kept
<1> HIDE DEF proven
<1>16. Kept(new(a)) BY <1>14, <1>15
<1> HIDE DEF new
<1>17. QED BY <1>1, <1>16, HandledKept DEF Handled, Commit, Operation

(* The proof is held; the order stays with its admission.                     *)
LEMMA JoinProofStep ==
    ASSUME IInv, NEW a \in Device, JoinProof(a) PROVE IInv'
<1> DEFINE m == [room.members[a] EXCEPT !.proof = TRUE]
           s == [room EXCEPT !.members[a].proof = TRUE]
<1>1. Handled("join-proof", s) BY DEF JoinProof
<1>2. Kept(room) /\ room.members[a] \in Member BY DEF IInv, Kept, Room
<1>3. /\ m \in Member /\ m.phase = room.members[a].phase
      /\ m.proofOrder = room.members[a].proofOrder
    BY <1>2 DEF Member
<1>4. s = [room EXCEPT !.members[a] = m] OBVIOUS
<1> HIDE DEF m, s
<1>5. Kept(s) BY <1>2, <1>3, <1>4, MemberKept
<1>6. QED BY <1>1, <1>5, HandledKept DEF Handled, Commit, Operation

(* Activation ends the admission and uses its order.                          *)
LEMMA ActivateStep ==
    ASSUME IInv, NEW h \in Device, Activate(h) PROVE IInv'
<1> DEFINE q == Numbered(room)
           new(a) == [q EXCEPT !.members[a] = [ClearAdmission(@) EXCEPT !.status = "active"]]
<1>1. PICK a \in InAdmission(room) :
          Handled("activate",
              IssueNextGrant(Accept(new(a), "join-proof", a, a, room.nextOrder)))
    BY DEF Activate
<1> DEFINE m == [ClearAdmission(q.members[a]) EXCEPT !.status = "active"]
           s == new(a)
<1>2. a \in Device /\ a \in OptDevice BY DEF InAdmission, OptDevice
<1>3. Kept(q) /\ room.nextOrder \in Nat
    BY NumberedGood, GoodKept DEF IInv, Kept, Room
<1> HIDE DEF q
<1>4. m \in Member /\ m.phase = "none" /\ m.proofOrder = 0
  <2>1. q.members[a] \in Member BY <1>2, <1>3 DEF Kept, Room
  <2>2. QED BY <2>1, MemberTypes DEF ClearAdmission, Member, Status
<1>5. s = [q EXCEPT !.members[a] = m] OBVIOUS
<1> HIDE DEF m, new
<1>6. Kept(s) BY <1>2, <1>3, <1>4, <1>5, MemberKept
<1>7. Kept(IssueNextGrant(Accept(s, "join-proof", a, a, room.nextOrder)))
    BY <1>2, <1>3, <1>6, AcceptKept DEF AcceptedKind
<1>8. QED BY <1>1, <1>7, HandledKept DEF Handled, Commit, Operation, s

(* The host gives an admission up.                                            *)
LEMMA CancelAdmissionStep ==
    ASSUME IInv, NEW h \in Device, CancelAdmission(h) PROVE IInv'
<1>1. PICK a \in InAdmission(room) :
          Handled("cancel-admission", IssueNextGrant(RetireAdmission(room, a)))
    BY DEF CancelAdmission
<1>2. a \in Device BY DEF InAdmission
<1>3. Kept(RetireAdmission(room, a))
    BY <1>2, RetireAdmissionGood, GoodKept DEF IInv, Kept
<1>4. QED BY <1>1, <1>3, IssueKept, HandledKept DEF Handled, Commit, Operation

(* An application of the host spends its grant.                               *)
LEMMA HostApplicationStep ==
    ASSUME IInv, NEW h \in Device, HostApplication(h) PROVE IInv'
<1> DEFINE s == Numbered(Spent(room))
           order == room.grant.order
<1>1. Handled("application",
          IssueNextGrant(Accept(s, "application", h, NoDevice, order)))
    BY DEF HostApplication
<1>2. order \in Nat BY DEF IInv, Kept, Room, Grant
<1>3. Kept(s) BY SpentKept, NumberedGood, GoodKept DEF Kept
<1> HIDE DEF s, order
<1>4. Kept(IssueNextGrant(Accept(s, "application", h, NoDevice, order)))
    BY <1>2, <1>3, AcceptKept DEF AcceptedKind, OptDevice
<1>5. QED BY <1>1, <1>4, HandledKept DEF Handled, Commit, Operation

(* Withdrawing the held application.                                          *)
LEMMA ApplicationReleasedGood ==
    ASSUME NEW r \in Room
    PROVE  Good(r, [r EXCEPT !.application = NoApplication])
<1> DEFINE s == [r EXCEPT !.application = NoApplication]
<1>1. /\ s \in Room /\ s.members = r.members /\ s.zombies = r.zombies
      /\ s.grant = r.grant /\ s.application = NoApplication /\ s.commit = r.commit
    BY NoneTypes DEF Room
<1>2. QED BY <1>1, HoldersChange

(* An approved application gives its order back before the frame is accepted. *)
LEMMA ApproveApplicationStep ==
    ASSUME IInv, NEW h \in Device, ApproveApplication(h) PROVE IInv'
<1> DEFINE p == room.application
           kind == IF p.accepts THEN "accept" ELSE "application"
           cleared == [Numbered(room) EXCEPT !.application = NoApplication]
           routed == Accept(cleared, kind, p.from, NoDevice, p.order)
           handed == IF p.accepts
                     THEN [routed EXCEPT !.transfer = NoTransfer, !.host = p.from]
                     ELSE routed
<1>1. Handled("application-decision", IssueNextGrant(handed)) /\ p.from # NoDevice
    BY DEF ApproveApplication
<1>2. p.from \in Device /\ p.order \in Nat
    BY <1>1 DEF IInv, Kept, Room, HeldApplication, OptDevice
<1>3. kind \in AcceptedKind BY DEF AcceptedKind
<1>4. Kept(cleared)
  <2> DEFINE q == Numbered(room)
  <2>1. Kept(q) BY NumberedGood, GoodKept DEF IInv, Kept
  <2> HIDE DEF q
  <2>2. Good(q, [q EXCEPT !.application = NoApplication])
      BY <2>1, ApplicationReleasedGood DEF Kept
  <2>3. QED BY <2>1, <2>2, GoodKept DEF q
<1> HIDE DEF cleared, kind, p
<1>5. Kept(routed)
  <2>1. NoDevice \in OptDevice BY DEF OptDevice
  <2>2. Good(cleared, routed) BY <1>2, <1>3, <1>4, <2>1, AcceptGood DEF Kept
  <2>3. QED BY <1>4, <2>2, GoodKept
<1> HIDE DEF routed
<1>6. CASE ~p.accepts
  <2>1. Kept(handed) BY <1>5, <1>6
  <2> HIDE DEF handed
  <2>2. QED BY <1>1, <2>1, IssueKept, HandledKept DEF Handled, Commit, Operation
<1>7. CASE p.accepts
  <2> DEFINE s == [routed EXCEPT !.transfer = NoTransfer, !.host = p.from]
  <2>1. handed = s BY <1>7
  <2>2. /\ s \in Room /\ s.members = routed.members /\ s.zombies = routed.zombies
        /\ s.grant = routed.grant /\ s.application = routed.application
        /\ s.commit = routed.commit
      BY <1>2, <1>5, NoneTypes DEF Kept, Room, OptDevice
  <2> HIDE DEF s, handed
  <2>3. Kept(s) BY <1>5, <2>2, HoldersChange, GoodKept DEF Kept
  <2>4. QED BY <1>1, <2>1, <2>3, IssueKept, HandledKept DEF Handled, Commit, Operation
<1>8. QED BY <1>6, <1>7

(* A rejected application gives its order back.                               *)
LEMMA RejectApplicationStep ==
    ASSUME IInv, NEW h \in Device, RejectApplication(h) PROVE IInv'
<1> DEFINE p == room.application
           cleared == [room EXCEPT !.application = NoApplication]
           answered == Answer(cleared, p.from, RejectedEntry(p.order))
           s == [answered EXCEPT !.transfer = IF p.accepts THEN NoTransfer ELSE @]
<1>1. Handled("application-decision", IssueNextGrant(s)) /\ p.from # NoDevice
    BY DEF RejectApplication
<1>2. p.from \in Device /\ p.order \in Nat
    BY <1>1 DEF IInv, Kept, Room, HeldApplication, OptDevice
<1>3. Kept(cleared)
    BY ApplicationReleasedGood, GoodKept DEF IInv, Kept
<1> HIDE DEF cleared, p
<1>4. Kept(answered) BY <1>2, <1>3, AnswerKept
<1> HIDE DEF answered
<1>5. /\ s \in Room /\ s.members = answered.members /\ s.zombies = answered.zombies
      /\ s.grant = answered.grant /\ s.application = answered.application
      /\ s.commit = answered.commit
    BY <1>4, NoneTypes DEF Kept, Room
<1> HIDE DEF s
<1>6. Kept(s) BY <1>4, <1>5, HoldersChange, GoodKept DEF Kept
<1>7. QED BY <1>1, <1>6, IssueKept, HandledKept DEF Handled, Commit, Operation

(* An approved commit gives its order back.                                   *)
LEMMA ApproveCommitStep ==
    ASSUME IInv, NEW h \in Device, ApproveCommit(h) PROVE IInv'
<1> DEFINE from == room.commit.from
           s == [room EXCEPT !.commit = NoCommit]
<1>1. /\ Handled("commit-decision", IssueNextGrant(Accept(s, "commit", from, NoDevice, 0)))
      /\ from # NoDevice
    BY DEF ApproveCommit
<1>2. from \in Device BY <1>1 DEF IInv, Kept, Room, HeldCommit, OptDevice
<1>3. Kept(s) BY CommitReleasedGood, GoodKept DEF IInv, Kept
<1> HIDE DEF s, from
<1>4. Kept(IssueNextGrant(Accept(s, "commit", from, NoDevice, 0)))
    BY <1>2, <1>3, AcceptKept DEF AcceptedKind, OptDevice
<1>5. QED BY <1>1, <1>4, HandledKept DEF Handled, Commit, Operation

(* A rejected commit gives its order back.                                    *)
LEMMA RejectCommitStep ==
    ASSUME IInv, NEW h \in Device, RejectCommit(h) PROVE IInv'
<1> DEFINE from == room.commit.from
           s == [room EXCEPT !.commit = NoCommit]
<1>1. /\ Handled("commit-decision", IssueNextGrant(Answer(s, from, RejectedEntry(0))))
      /\ from # NoDevice
    BY DEF RejectCommit
<1>2. from \in Device BY <1>1 DEF IInv, Kept, Room, HeldCommit, OptDevice
<1>3. Kept(s) BY CommitReleasedGood, GoodKept DEF IInv, Kept
<1> HIDE DEF s, from
<1>4. Kept(IssueNextGrant(Answer(s, from, RejectedEntry(0))))
    BY <1>2, <1>3, AnswerKept, IssueKept
<1>5. QED BY <1>1, <1>4, HandledKept DEF Handled, Commit, Operation

(* A frame whose grant ran out gives its order back.                          *)
LEMMA LateFrameStep ==
    ASSUME IInv, NEW d \in Device, LateFrame(d) PROVE IInv'
<1> DEFINE s == Spent(room)
<1>1. PICK order \in {0, room.grant.order} :
          Handled("late-frame", IssueNextGrant(Answer(s, d, RejectedEntry(order))))
    BY DEF LateFrame
<1>2. order \in Nat BY DEF IInv, Kept, Room, Grant
<1>3. Kept(s) BY SpentKept
<1> HIDE DEF s
<1>4. Kept(IssueNextGrant(Answer(s, d, RejectedEntry(order))))
    BY <1>2, <1>3, AnswerKept, IssueKept
<1>5. QED BY <1>1, <1>4, HandledKept DEF Handled, Commit, Operation

(* Acknowledging a prefix of the backlog leaves the admission alone.          *)
LEMMA AckedType ==
    ASSUME NEW m \in Member, NEW k \in 0..Len(m.backlog)
    PROVE  /\ Acked(m, k) \in Member
           /\ Acked(m, k).phase = m.phase /\ Acked(m, k).proofOrder = m.proofOrder
<1> DEFINE seen == m.acked \cup ({m.backlog[i].frame : i \in 1..k} \ {0})
           log == SubSeq(m.backlog, k + 1, Len(m.backlog))
<1>1. m.backlog \in Seq(Entry) BY DEF Member
<1>2. log \in Seq(Entry) BY <1>1
<1>3. \A i \in 1..k : m.backlog[i] \in Entry BY <1>1
<1>4. seen \in SUBSET Nat BY <1>3 DEF Member, Entry
<1>5. Acked(m, k) = [m EXCEPT !.acked = seen, !.backlog = log] BY DEF Acked
<1> HIDE DEF seen, log
<1>6. QED BY <1>2, <1>4, <1>5 DEF Member

(* A delivery is acknowledged.                                                *)
LEMMA AcknowledgeStep ==
    ASSUME IInv, NEW d \in Device, Acknowledge(d) PROVE IInv'
<1>1. PICK k \in 1..Len(room.members[d].backlog) :
          Handled("delivery-ack", [room EXCEPT !.members[d] = Acked(@, k)])
    BY DEF Acknowledge
<1> DEFINE m == Acked(room.members[d], k)
           s == [room EXCEPT !.members[d] = m]
<1>2. Kept(room) /\ room.members[d] \in Member BY DEF IInv, Kept, Room
<1>3. /\ m \in Member /\ m.phase = room.members[d].phase
      /\ m.proofOrder = room.members[d].proofOrder
  <2>1. room.members[d].backlog \in Seq(Entry) BY <1>2 DEF Member
  <2>2. k \in 0..Len(room.members[d].backlog) BY <2>1
  <2>3. QED BY <1>2, <2>2, AckedType
<1> HIDE DEF m
<1>4. Kept(s) BY <1>2, <1>3, MemberKept
<1>5. QED BY <1>1, <1>4, HandledKept DEF Handled, Commit, Operation, m

(* A replay ends.                                                             *)
LEMMA ResumeCompleteStep ==
    ASSUME IInv, NEW d \in Device, ResumeComplete(d) PROVE IInv'
<1> DEFINE k == Len(room.members[d].backlog)
           n == Acked(room.members[d], k)
           m == [n EXCEPT !.status = "active", !.replay = 0]
           s == [room EXCEPT !.members[d] = m]
<1>1. Handled("resume-complete", s) BY DEF ResumeComplete
<1>2. Kept(room) /\ room.members[d] \in Member BY DEF IInv, Kept, Room
<1>3. /\ n \in Member /\ n.phase = room.members[d].phase
      /\ n.proofOrder = room.members[d].proofOrder
  <2>1. room.members[d].backlog \in Seq(Entry) BY <1>2 DEF Member
  <2>2. k \in 0..Len(room.members[d].backlog) BY <2>1
  <2>3. QED BY <1>2, <2>2, AckedType
<1> HIDE DEF n
<1>4. /\ m \in Member /\ m.phase = room.members[d].phase
      /\ m.proofOrder = room.members[d].proofOrder
    BY <1>3 DEF Member, Status
<1> HIDE DEF m
<1>5. Kept(s) BY <1>2, <1>4, MemberKept
<1>6. QED BY <1>1, <1>5, HandledKept DEF Handled, Commit, Operation

(* The authorization is delivered like a frame.                               *)
LEMMA AuthorizeTransferStep ==
    ASSUME IInv, NEW h \in Device, AuthorizeTransfer(h) PROVE IInv'
<1> DEFINE transfer(d) == [host |-> h, target |-> d, overdue |-> FALSE]
           offered(d) == [room EXCEPT !.transfer = transfer(d)]
<1>1. PICK d \in Device \ {h} :
          Handled("authorize-host-transfer", Deliver(offered(d), {d}, AuthorizationEntry))
    BY DEF AuthorizeTransfer
<1> DEFINE s == offered(d)
<1>2. transfer(d) \in Transfer BY DEF Transfer, OptDevice
<1> HIDE DEF transfer
<1>3. /\ s \in Room /\ s.members = room.members /\ s.zombies = room.zombies
      /\ s.grant = room.grant /\ s.application = room.application
      /\ s.commit = room.commit
    BY <1>2 DEF IInv, Kept, Room
<1> HIDE DEF offered
<1>4. Kept(s) BY <1>3, HoldersChange, GoodKept DEF IInv, Kept
<1>5. AuthorizationEntry \in Entry BY EntryTypes
<1>6. Kept(Deliver(s, {d}, AuthorizationEntry))
    BY <1>4, <1>5, DeliverGood, GoodKept DEF Kept
<1>7. QED BY <1>1, <1>6, HandledKept DEF Handled, Commit, Operation

(* A device that is retired gives back what it holds.                         *)
LEMMA DepartedGood ==
    ASSUME NEW r \in Room, NEW d \in Device PROVE Good(r, Departed(r, d))
<1> DEFINE s == Departed(r, d)
           q == Without(r.queue, {d})
           m == RetireMember(r.members[d])
<1>1. r.members[d] \in Member BY DEF Room
<1>2. m \in Member /\ Reduced(r.members[d], m) BY <1>1, MemberTypes
<1>3. q \in [Device -> Nat] BY WithoutType DEF Room
<1>4. /\ s \in Room /\ s.zombies = r.zombies
      /\ s.grant \in {r.grant, NoGrant}
      /\ s.application \in {r.application, NoApplication}
      /\ s.commit \in {r.commit, NoCommit}
      /\ s.members = [r.members EXCEPT ![d] = m]
  <2> HIDE DEF m, q
  <2>1. s = [r EXCEPT !.members[d] = m, !.queue = q,
              !.grant = IF r.grant.device = d THEN NoGrant ELSE r.grant,
              !.application = IF r.application.from = d THEN NoApplication
                                                        ELSE r.application,
              !.commit = IF r.commit.from = d THEN NoCommit ELSE r.commit,
              !.transfer = IF d \in {r.transfer.host, r.transfer.target}
                           THEN NoTransfer ELSE r.transfer]
      BY DEF Departed, m, q, Room
  <2> HIDE DEF s
  <2>2. QED BY <1>2, <1>3, <2>1, NoneTypes, ZenonT(40) DEF Room
<1> HIDE DEF s, m
<1>5. \A e \in Device : Reduced(r.members[e], s.members[e])
    BY <1>2, <1>4, ReducedRefl DEF Room
<1>6. QED BY <1>4, <1>5, MembersGood DEF s

(* Dropping the marker at the head: nobody was being admitted behind it.      *)
LEMMA UnmarkedKept ==
    ASSUME NEW r, Kept(r), NEW d \in Device PROVE Kept(Unmarked(r, d))
<1> DEFINE z == Without(r.zombies, {d})
           s == [r EXCEPT !.zombies = z, !.removal = 0]
<1>1. CASE d \notin Listed(r.zombies) BY <1>1 DEF Unmarked
<1>2. CASE d \in Listed(r.zombies)
  <2>1. Unmarked(r, d) = s BY <1>2 DEF Unmarked
  <2>2. z \in [Device -> Nat] BY WithoutType DEF Kept, Room
  <2>3. RemovalBarrier(r) BY <1>2 DEF RemovalBarrier
  <2> HIDE DEF z
  <2>4. /\ s \in Room /\ s.members = r.members /\ s.grant = r.grant
        /\ s.application = r.application /\ s.commit = r.commit
      BY <2>2 DEF Kept, Room
  <2> HIDE DEF s
  <2>5. InAdmission(s) = {} BY <2>3, <2>4 DEF Kept, BarrierAlone, InAdmission
  <2>6. Kept(s)
      BY <2>4, <2>5 DEF Kept, Auth, ProofInPhase, BarrierAlone, OverdueHeld
  <2>7. QED BY <2>1, <2>6
<1>3. QED BY <1>1, <1>2

(* The host retires a removed device.                                         *)
LEMMA RetireMemberFrameStep ==
    ASSUME IInv, NEW h \in Device, RetireMemberFrame(h) PROVE IInv'
<1>1. PICK d \in Device \ {h} :
          Handled("retire-member",
              IF room.members[d].status = "retired" THEN Unmarked(room, d)
              ELSE IssueNextGrant(Unmarked(Departed(room, d), d)))
    BY DEF RetireMemberFrame
<1>2. Kept(Unmarked(room, d)) BY UnmarkedKept DEF IInv
<1>3. Kept(Departed(room, d)) BY DepartedGood, GoodKept DEF IInv, Kept
<1>4. Kept(IssueNextGrant(Unmarked(Departed(room, d), d)))
    BY <1>3, UnmarkedKept, IssueKept
<1>5. QED BY <1>1, <1>2, <1>4, HandledKept DEF Handled, Commit, Operation

(* The host closes the room.                                                  *)
LEMMA CloseRoomStep ==
    ASSUME IInv, NEW h \in Device, CloseRoom(h) PROVE IInv'
<1>1. Handled("close-room", RetireRoom(room)) BY DEF CloseRoom
<1>2. Kept(RetireRoom(room)) BY RetireRoomGood, GoodKept DEF IInv, Kept
<1>3. QED BY <1>1, <1>2, HandledKept DEF Handled, Commit, Operation

(* Settling the deadlines.                                                    *)
LEMMA SettleKept ==
    ASSUME IInv PROVE Kept(Settle(room)) /\ Kept(Expire(room))
BY ExpireGood, GoodKept, IssueKept DEF IInv, Settle

(* A frame dropped for a cleanup.                                             *)
LEMMA DroppedFrameStep ==
    ASSUME IInv, NEW d \in Device, DroppedFrame(d) PROVE IInv'
BY SettleKept, HandledKept DEF DroppedFrame, Handled, Commit, Operation

(* A request dropped for a cleanup.                                           *)
LEMMA DroppedRequestStep ==
    ASSUME IInv, NEW d \in Device, DroppedRequest(d) PROVE IInv'
<1> DEFINE s == Settle(room)
<1>1. Kept(s) BY SettleKept
<1>2. /\ room' \in {room, s} /\ outcome' \in {"ok", "cleanup"}
      /\ stalled' = stalled \cup {d} /\ UNCHANGED <<socket, closing>>
    BY DEF DroppedRequest, Commit
<1> HIDE DEF s
<1>3. Kept(room') BY <1>1, <1>2 DEF IInv
<1>4. room' \in Room BY <1>3 DEF Kept
<1>5. outcome' \in Operation \cup {"ok"} BY <1>2 DEF Operation
<1>6. QED BY <1>2, <1>3, <1>4, <1>5 DEF IInv, TypeOK

(* A frame of the grant's owner that meets a cleanup.                         *)
LEMMA DroppedGrantFrameStep ==
    ASSUME IInv, NEW d \in Device, DroppedGrantFrame(d) PROVE IInv'
<1> DEFINE s == Expire(room)
<1>1. PICK order \in {0, room.grant.order} :
          Handled("cleanup", IssueNextGrant(Answer(s, d, RejectedEntry(order))))
    BY DEF DroppedGrantFrame
<1>2. order \in Nat BY DEF IInv, Kept, Room, Grant
<1>3. Kept(s) BY SettleKept
<1> HIDE DEF s
<1>4. Kept(IssueNextGrant(Answer(s, d, RejectedEntry(order))))
    BY <1>2, <1>3, AnswerKept, IssueKept
<1>5. QED BY <1>1, <1>4, HandledKept DEF Handled, Commit, Operation

(* A transition that attaches a socket, stored or not.                        *)
LEMMA AttachedKept ==
    ASSUME IInv, NEW name \in Operation, NEW d \in Device, NEW c \in Conn,
           NEW new, Kept(new),
           room' \in {room, new}, outcome' \in {"ok", name},
           socket' \in {socket, [socket EXCEPT ![d] = c]},
           UNCHANGED <<closing, stalled>>
    PROVE  IInv'
<1>1. outcome' \in Operation \cup {"ok"} OBVIOUS
<1>2. Kept(room') BY DEF IInv
<1>3. room' \in Room BY <1>2 DEF Kept
<1>4. socket' \in [Device -> 0..MaxConn]
    BY RunAssumption DEF IInv, TypeOK, Conn
<1>5. QED BY <1>1, <1>2, <1>3, <1>4 DEF IInv, TypeOK

(* Connections are typed.                                                     *)
LEMMA ConnType == ASSUME NEW c \in Conn PROVE c \in 0..MaxConn
BY RunAssumption DEF Conn

(* The deadlines a join or a resume runs first.                               *)
LEMMA AwayKept == ASSUME IInv PROVE Kept(ExpireAway(room))
BY ExpireAwayGood, GoodKept DEF IInv, Kept

(* The member before its first join.                                          *)
LEMMA NewMemberType == NewMember \in Member
<1>1. <<>> \in Seq(Entry) /\ 0 \in 0..MaxConn BY RunAssumption
<1>2. QED BY <1>1 DEF NewMember, Member, Status, Phase, Timer

(* A join begins an admission, and no removal is due.                         *)
LEMMA ArrivalKept ==
    ASSUME NEW r, Kept(r), NEW d \in Device, NEW c \in Conn, ~RemovalBarrier(r)
    PROVE  Kept(Arrival(r, d, c))
<1> DEFINE m == [NewMember EXCEPT !.status = "pending", !.joined = r.nextMember,
                                  !.conn = c, !.phase = "awaiting-welcome",
                                  !.admission = "running"]
           n == r.nextMember + 1
           q == [r EXCEPT !.nextMember = n]
           s == [q EXCEPT !.members[d] = m]
<1>1. r.nextMember \in Nat /\ n \in Nat BY DEF Kept, Room
<1>2. m \in Member /\ m.proofOrder = 0
  <2>1. NewMember.proofOrder = 0 BY DEF NewMember
  <2>2. QED BY <1>1, <2>1, NewMemberType, ConnType DEF Member, Status, Phase, Timer
<1> HIDE DEF m, n
<1>3. /\ q \in Room /\ q.members = r.members /\ q.zombies = r.zombies
      /\ q.grant = r.grant /\ q.application = r.application /\ q.commit = r.commit
    BY <1>1 DEF Kept, Room
<1>4. Arrival(r, d, c) = s
    BY <1>1 DEF Arrival, Kept, Room, m, n
<1> HIDE DEF q
<1>5. Kept(q) BY <1>3, HoldersChange, GoodKept DEF Kept
<1>6. ~RemovalBarrier(q) BY <1>3, SameBarrier
<1>7. Kept(s) BY <1>2, <1>5, <1>6, MemberKept
<1>8. QED BY <1>4, <1>7

(* A device joins, or finds the room retired.                                 *)
LEMMA JoinStep ==
    ASSUME IInv, NEW d \in Device, Join(d) PROVE IInv'
<1> DEFINE r == ExpireAway(room)
<1>1. PICK c \in Conn :
          IF r.lifecycle = "retired" THEN Attached("join", d, c, r)
          ELSE ~RemovalBarrier(r) /\ Attached("join", d, c, Arrival(r, d, c))
    BY DEF Join
<1>2. Kept(r) BY AwayKept
<1> HIDE DEF r
<1>3. CASE Attached("join", d, c, r)
    BY <1>2, <1>3, AttachedKept DEF Attached, Commit, Operation
<1>4. CASE ~RemovalBarrier(r) /\ Attached("join", d, c, Arrival(r, d, c))
  <2> DEFINE s == Arrival(r, d, c)
  <2>1. Kept(s) BY <1>2, <1>4, ArrivalKept
  <2> HIDE DEF s
  <2>2. Attached("join", d, c, s) BY <1>4 DEF s
  <2>3. QED BY <2>1, <2>2, AttachedKept DEF Attached, Commit, Operation
<1>5. QED BY <1>1, <1>3, <1>4

(* A device joins again on another connection.                                *)
LEMMA RetryJoinStep ==
    ASSUME IInv, NEW d \in Device, RetryJoin(d) PROVE IInv'
<1> DEFINE r == ExpireAway(room)
           m(c) == [r.members[d] EXCEPT !.status = "pending", !.conn = c]
           new(c) == [r EXCEPT !.members[d] = m(c)]
<1>1. PICK c \in Conn : Attached("join", d, c, new(c)) BY DEF RetryJoin
<1>2. Kept(r) BY AwayKept
<1> HIDE DEF r
<1>3. r.members[d] \in Member BY <1>2 DEF Kept, Room
<1>4. /\ m(c) \in Member /\ m(c).phase = r.members[d].phase
      /\ m(c).proofOrder = r.members[d].proofOrder
    BY <1>3, ConnType DEF Member, Status
<1> DEFINE s == new(c)
<1> HIDE DEF m
<1>5. Kept(s) BY <1>2, <1>4, MemberKept
<1> HIDE DEF new
<1>6. QED BY <1>1, <1>5, AttachedKept DEF Attached, Commit, Operation

(* A device takes its membership over, or learns that it lost it.             *)
LEMMA ResumeStep ==
    ASSUME IInv, NEW d \in Device, Resume(d) PROVE IInv'
<1> DEFINE r == ExpireAway(room)
           k == Len(r.members[d].backlog)
           m(c) == [r.members[d] EXCEPT !.status = "pending", !.conn = c, !.grace = "off",
                                        !.replay = k]
           new(c) == [r EXCEPT !.members[d] = m(c)]
<1>1. PICK c \in Conn :
          \/ Commit("resume", r) /\ UNCHANGED <<socket, closing, stalled>>
          \/ Attached("resume", d, c, new(c))
    BY DEF Resume
<1>2. Kept(r) BY AwayKept
<1> HIDE DEF r
<1>3. r.members[d] \in Member BY <1>2 DEF Kept, Room
<1>4. k \in Nat
  <2>1. r.members[d].backlog \in Seq(Entry) BY <1>3 DEF Member
  <2>2. QED BY <2>1
<1> HIDE DEF k
<1>5. /\ m(c) \in Member /\ m(c).phase = r.members[d].phase
      /\ m(c).proofOrder = r.members[d].proofOrder
    BY <1>3, <1>4, ConnType DEF Member, Status, Timer
<1> DEFINE s == new(c)
<1> HIDE DEF m
<1>6. Kept(s) BY <1>2, <1>5, MemberKept
<1> HIDE DEF new
<1>7. CASE Commit("resume", r) /\ UNCHANGED <<socket, closing, stalled>>
    BY <1>2, <1>7, HandledKept DEF Commit, Operation
<1>8. CASE Attached("resume", d, c, new(c))
    BY <1>6, <1>8, AttachedKept DEF Attached, Commit, Operation
<1>9. QED BY <1>1, <1>7, <1>8

(* A step that does not run the reducer records no failure.                   *)
LEMMA UntouchedType ==
    ASSUME IInv, Untouched PROVE outcome' \in Operation \cup {"ok"}
BY DEF IInv, TypeOK, Untouched

(* A socket closes.                                                           *)
LEMMA ConnectionLostStep ==
    ASSUME IInv, NEW d \in Device, ConnectionLost(d) PROVE IInv'
<1>1. socket[d] \in Conn BY RunAssumption DEF IInv, TypeOK, Conn, ConnectionLost
<1>2. closing' \subseteq Device \X Conn BY <1>1 DEF IInv, TypeOK, ConnectionLost
<1>3. socket' \in [Device -> 0..MaxConn] BY RunAssumption DEF IInv, TypeOK, ConnectionLost
<1>4. stalled' \subseteq Device /\ UNCHANGED room BY DEF IInv, TypeOK, ConnectionLost
<1>5. outcome' \in Operation \cup {"ok"} BY UntouchedType DEF ConnectionLost
<1>6. QED BY <1>2, <1>3, <1>4, <1>5 DEF IInv, TypeOK

(* A device taken offline gives back its grant and its request.               *)
LEMMA DisconnectKept ==
    ASSUME NEW r, Kept(r), NEW d \in Device PROVE Kept(Disconnect(r, d))
<1> DEFINE m1 == [r.members[d] EXCEPT !.status = "disconnected", !.conn = 0]
           m2 == [r.members[d] EXCEPT !.status = "disconnected", !.conn = 0,
                                      !.grace = "running", !.replay = 0]
           q == Without(r.queue, {d})
           g == IF r.grant.device = d THEN NoGrant ELSE r.grant
           s1 == [r EXCEPT !.members[d] = m1]
           s2 == [r EXCEPT !.members[d] = m2, !.queue = q, !.grant = g]
<1>1. r.members[d] \in Member BY DEF Kept, Room
<1>2. 0 \in 0..MaxConn BY RunAssumption
<1>3. m1 \in Member /\ Reduced(r.members[d], m1)
    BY <1>1, <1>2 DEF Member, Status, Reduced
<1>4. m2 \in Member /\ Reduced(r.members[d], m2)
    BY <1>1, <1>2 DEF Member, Status, Timer, Reduced
<1>5. q \in [Device -> Nat] BY WithoutType DEF Kept, Room
<1>6. g \in {r.grant, NoGrant} /\ g \in Grant BY NoneTypes DEF Kept, Room
<1>7. Disconnect(r, d) = IF r.members[d].phase # "none" THEN s1 ELSE IssueNextGrant(s2)
    BY DEF Disconnect, Kept, Room
<1> HIDE DEF m1, m2, q, g
<1>8. Kept(s1) BY <1>3, MemberChange, GoodKept DEF Kept
<1>9. /\ s2 \in Room /\ s2.zombies = r.zombies /\ s2.grant = g
      /\ s2.application = r.application /\ s2.commit = r.commit
      /\ \A e \in Device : s2.members[e] = IF e = d THEN m2 ELSE r.members[e]
    BY <1>4, <1>5, <1>6 DEF Kept, Room
<1> HIDE DEF s1, s2
<1>10. \A e \in Device : Reduced(r.members[e], s2.members[e])
    BY <1>4, <1>9, ReducedRefl
<1>11. Good(r, s2) BY <1>6, <1>9, <1>10, MembersGood DEF Kept
<1>12. Kept(s2) BY <1>11, GoodKept
<1>13. QED BY <1>7, <1>8, <1>12, IssueKept

(* The close is reported, and counts if the connection owned the device.      *)
LEMMA CloseEventStep ==
    ASSUME IInv, NEW d \in Device, CloseEvent(d) PROVE IInv'
<1> DEFINE s == Disconnect(room, d)
<1>1. PICK c \in Conn :
          /\ closing' = closing \ {<<d, c>>}
          /\ Commit("close", s) \/ (Untouched /\ UNCHANGED room)
          /\ UNCHANGED <<socket, stalled>>
    BY DEF CloseEvent
<1>2. Kept(s) BY DisconnectKept DEF IInv
<1> HIDE DEF s
<1>3. closing' \subseteq Device \X Conn BY <1>1 DEF IInv, TypeOK
<1>4. Kept(room') /\ outcome' \in Operation \cup {"ok"}
  <2>1. CASE Commit("close", s)
    <3>1. room' \in {room, s} /\ outcome' \in {"ok", "close"} BY <2>1 DEF Commit
    <3>2. Kept(room') BY <1>2, <3>1 DEF IInv
    <3>3. QED BY <3>1, <3>2 DEF Operation
  <2>2. CASE Untouched /\ UNCHANGED room
    <3>1. Kept(room') BY <2>2 DEF IInv
    <3>2. QED BY <2>2, <3>1, UntouchedType
  <2>3. QED BY <1>1, <2>1, <2>2
<1>5. room' \in Room BY <1>4 DEF Kept
<1>6. QED BY <1>1, <1>3, <1>4, <1>5 DEF IInv, TypeOK

(* The alarm settles every deadline and passes the order on.                  *)
LEMMA AlarmStep == ASSUME IInv, Alarm PROVE IInv'
<1> DEFINE s == ExpireGrant(Expire(room))
<1>1. Handled("alarm", IssueNextGrant(s)) BY DEF Alarm
<1>2. Kept(s) BY SettleKept, ExpireGrantGood, GoodKept DEF Kept
<1> HIDE DEF s
<1>3. QED BY <1>1, <1>2, IssueKept, HandledKept DEF Handled, Commit, Operation

(* Time passes: the room changes by a deadline alone.                         *)
LEMMA PassesKept ==
    ASSUME IInv, NEW new, Kept(new), room' = new, Untouched,
           UNCHANGED <<socket, closing, stalled>>
    PROVE  IInv'
<1>1. Kept(room') OBVIOUS
<1>2. room' \in Room BY <1>1 DEF Kept
<1>3. outcome' \in Operation \cup {"ok"} BY UntouchedType
<1>4. QED BY <1>1, <1>2, <1>3 DEF IInv, TypeOK

(* The grace of a disconnected member ends.                                   *)
LEMMA GraceEndsStep ==
    ASSUME IInv, NEW d \in Device, GraceEnds(d) PROVE IInv'
<1> DEFINE m == [room.members[d] EXCEPT !.grace = "over"]
           s == [room EXCEPT !.members[d] = m]
<1>1. Kept(room) /\ room.members[d] \in Member BY DEF IInv, Kept, Room
<1>2. /\ m \in Member /\ m.phase = room.members[d].phase
      /\ m.proofOrder = room.members[d].proofOrder
    BY <1>1 DEF Member, Timer
<1>3. [room EXCEPT !.members[d].grace = "over"] = s OBVIOUS
<1> HIDE DEF m
<1>4. Kept(s) BY <1>1, <1>2, MemberKept
<1> HIDE DEF s
<1>5. QED BY <1>3, <1>4, PassesKept DEF GraceEnds, Passes

(* The time of an admission ends.                                             *)
LEMMA AdmissionEndsStep ==
    ASSUME IInv, NEW d \in Device, AdmissionEnds(d) PROVE IInv'
<1> DEFINE m == [room.members[d] EXCEPT !.admission = "over"]
           s == [room EXCEPT !.members[d] = m]
<1>1. Kept(room) /\ room.members[d] \in Member BY DEF IInv, Kept, Room
<1>2. /\ m \in Member /\ m.phase = room.members[d].phase
      /\ m.proofOrder = room.members[d].proofOrder
    BY <1>1 DEF Member, Timer
<1>3. [room EXCEPT !.members[d].admission = "over"] = s OBVIOUS
<1> HIDE DEF m
<1>4. Kept(s) BY <1>1, <1>2, MemberKept
<1> HIDE DEF s
<1>5. QED BY <1>3, <1>4, PassesKept DEF AdmissionEnds, Passes

(* The time of a grant ends; its owner still holds it.                        *)
LEMMA GrantEndsStep == ASSUME IInv, GrantEnds PROVE IInv'
<1> DEFINE s == [room EXCEPT !.grant.overdue = TRUE]
<1>1. /\ s \in Room /\ s.members = room.members /\ s.zombies = room.zombies
      /\ s.grant.device = room.grant.device
      /\ s.application = room.application /\ s.commit = room.commit
    BY DEF IInv, Kept, Room, Grant
<1>2. OverdueHeld(s) BY <1>1 DEF IInv, Kept, OverdueHeld
<1> HIDE DEF s
<1>3. Kept(s) BY <1>1, <1>2, HoldersKept DEF IInv
<1>4. QED BY <1>3, PassesKept DEF GrantEnds, Passes, s

(* The time of the held application ends.                                     *)
LEMMA ApplicationEndsStep == ASSUME IInv, ApplicationEnds PROVE IInv'
<1> DEFINE s == [room EXCEPT !.application.overdue = TRUE]
<1>1. /\ s \in Room /\ s.members = room.members /\ s.zombies = room.zombies
      /\ s.grant = room.grant /\ s.commit = room.commit
      /\ s.application.from = room.application.from
    BY DEF IInv, Kept, Room, HeldApplication
<1>2. OverdueHeld(s) BY <1>1 DEF IInv, Kept, OverdueHeld, ApplicationEnds
<1> HIDE DEF s
<1>3. Kept(s) BY <1>1, <1>2, HoldersKept DEF IInv
<1>4. QED BY <1>3, PassesKept DEF ApplicationEnds, Passes, s

(* The time of the held commit ends.                                          *)
LEMMA CommitEndsStep == ASSUME IInv, CommitEnds PROVE IInv'
<1> DEFINE s == [room EXCEPT !.commit.overdue = TRUE]
<1>1. /\ s \in Room /\ s.members = room.members /\ s.zombies = room.zombies
      /\ s.grant = room.grant /\ s.application = room.application
      /\ s.commit.from = room.commit.from
    BY DEF IInv, Kept, Room, HeldCommit
<1>2. OverdueHeld(s) BY <1>1 DEF IInv, Kept, OverdueHeld, CommitEnds
<1> HIDE DEF s
<1>3. Kept(s) BY <1>1, <1>2, HoldersKept DEF IInv
<1>4. QED BY <1>3, PassesKept DEF CommitEnds, Passes, s

(* The time of the host transfer ends.                                        *)
LEMMA TransferEndsStep == ASSUME IInv, TransferEnds PROVE IInv'
<1> DEFINE s == [room EXCEPT !.transfer.overdue = TRUE]
<1>1. /\ s \in Room /\ s.members = room.members /\ s.zombies = room.zombies
      /\ s.grant = room.grant /\ s.application = room.application
      /\ s.commit = room.commit
    BY DEF IInv, Kept, Room, Transfer
<1> HIDE DEF s
<1>2. Kept(s) BY <1>1, HoldersChange, GoodKept DEF IInv, Kept
<1>3. QED BY <1>2, PassesKept DEF TransferEnds, Passes, s

(* The founded room: nobody holds the order, nobody is being admitted.        *)
LEMMA InitKept == ASSUME Init PROVE IInv
<1>1. Founder \in Device /\ Len(Settled) \in Nat
    BY SettledAssumption DEF Founder
<1>2. \A d \in SettledSet : (CHOOSE i \in 1..Len(Settled) : Settled[i] = d) \in Nat
  <2> TAKE d \in SettledSet
  <2>1. \E i \in 1..Len(Settled) : Settled[i] = d BY DEF SettledSet
  <2>2. QED BY <1>1, <2>1
<1> DEFINE joined(d) == CHOOSE i \in 1..Len(Settled) : Settled[i] = d
           m(d) == [NewMember EXCEPT !.status = "active", !.conn = 1, !.joined = joined(d)]
           ms == [d \in Device |-> IF d \in SettledSet THEN m(d) ELSE NewMember]
<1>3. \A d \in SettledSet : joined(d) \in Nat BY <1>2
<1> HIDE DEF joined
<1>4. NewMember.proofOrder = 0 /\ NewMember.phase = "none" BY DEF NewMember
<1>5. \A d \in SettledSet : m(d) \in Member /\ m(d).proofOrder = 0 /\ m(d).phase = "none"
  <2> TAKE d \in SettledSet
  <2> DEFINE j == joined(d)
  <2>1. j \in Nat /\ 1 \in 0..MaxConn BY <1>3, RunAssumption
  <2> HIDE DEF j
  <2>2. LET n == [NewMember EXCEPT !.status = "active", !.conn = 1, !.joined = j]
        IN  n \in Member /\ n.proofOrder = NewMember.proofOrder /\ n.phase = NewMember.phase
      BY <2>1, NewMemberType DEF Member, Status
  <2>3. QED BY <1>4, <2>2 DEF j
<1> HIDE DEF m
<1>6. /\ ms \in [Device -> Member]
      /\ \A d \in Device : ms[d].proofOrder = 0 /\ ms[d].phase = "none"
    BY <1>4, <1>5, NewMemberType
<1>7. NewRoom.members = ms BY DEF NewRoom, m, joined
<1> HIDE DEF ms
<1>8. EmptyFifo \in [Device -> Nat] BY DEF EmptyFifo
<1>9. /\ NewRoom \in Room /\ NewRoom.grant = NoGrant
      /\ NewRoom.application = NoApplication /\ NewRoom.commit = NoCommit
      /\ NewRoom.zombies = EmptyFifo
  <2> DEFINE mm == NewRoom.members
             k == Len(Settled) + 1
  <2>1. mm \in [Device -> Member] BY <1>6, <1>7
  <2>2. <<>> \in Seq(Frame) OBVIOUS
  <2>3. k \in Nat BY <1>1
  <2>4. NewRoom =
          [lifecycle |-> "open", host |-> Founder, members |-> mm,
           nextMember |-> k, nextOrder |-> 1,
           grant |-> NoGrant, application |-> NoApplication, commit |-> NoCommit,
           transfer |-> NoTransfer, queue |-> EmptyFifo,
           zombies |-> EmptyFifo, removal |-> 0, accepted |-> <<>>]
      BY DEF NewRoom
  <2> HIDE DEF mm, k
  <2>5. QED BY <1>1, <1>8, <2>1, <2>2, <2>3, <2>4, NoneTypes DEF Room, OptDevice
<1>10. Kept(NewRoom)
  <2>1. InAdmission(NewRoom) = {} BY <1>6, <1>7 DEF InAdmission
  <2>2. QED BY <1>6, <1>7, <1>9, <2>1
        DEF Kept, Auth, ProofInPhase, BarrierAlone, OverdueHeld, NoGrant, NoApplication,
            NoCommit
<1>11. room = NewRoom /\ closing = {} /\ stalled = {} /\ outcome = "ok"
       /\ socket = [d \in Device |-> room.members[d].conn]
    BY DEF Init
<1>12. socket \in [Device -> 0..MaxConn]
  <2>1. \A d \in Device : room.members[d].conn \in 0..MaxConn
      BY <1>9, <1>11 DEF Room, Member
  <2>2. QED BY <1>11, <2>1
<1>13. QED BY <1>9, <1>10, <1>11, <1>12 DEF IInv, TypeOK

(* Every step keeps the invariant, one action at a time.                      *)
LEMMA StepKept == ASSUME IInv, [Next]_vars PROVE IInv'
<1>1. CASE \E d \in Device : HostFrame(d)
  <2>1. PICK h \in Device : HostFrame(h) BY <1>1
  <2>2. QED
      BY <2>1, HostUpdateStep, HostRemoveStep, HostRemoveMarkedStep, HostAddStep,
         WelcomeStep, BootstrapStep, ActivateStep, CancelAdmissionStep,
         HostApplicationStep, ApproveApplicationStep, RejectApplicationStep,
         ApproveCommitStep, RejectCommitStep, AuthorizeTransferStep,
         RetireMemberFrameStep, CloseRoomStep
      DEF HostFrame
<1>2. CASE \E d \in Device : MemberFrame(d)
  <2>1. PICK d \in Device : MemberFrame(d) BY <1>2
  <2>2. QED
      BY <2>1, OrderRequestStep, MemberCommitStep, MemberApplicationStep, JoinProofStep,
         LateFrameStep, AcknowledgeStep, ResumeCompleteStep, DroppedFrameStep,
         DroppedRequestStep, DroppedGrantFrameStep
      DEF MemberFrame
<1>3. CASE \E d \in Device : Connection(d)
  <2>1. PICK d \in Device : Connection(d) BY <1>3
  <2>2. QED
      BY <2>1, JoinStep, RetryJoinStep, ResumeStep, ConnectionLostStep, CloseEventStep
      DEF Connection
<1>4. CASE \E d \in Device : GraceEnds(d) \/ AdmissionEnds(d)
    BY <1>4, GraceEndsStep, AdmissionEndsStep
<1>5. CASE GrantEnds \/ ApplicationEnds \/ CommitEnds \/ TransferEnds
    BY <1>5, GrantEndsStep, ApplicationEndsStep, CommitEndsStep, TransferEndsStep
<1>6. CASE Alarm BY <1>6, AlarmStep
<1>7. CASE UNCHANGED vars BY <1>7 DEF vars, IInv, TypeOK
<1>8. QED BY <1>1, <1>2, <1>3, <1>4, <1>5, <1>6, <1>7 DEF Next

(* Every reachable state has the shape secureRelayV4.ts declares for it, for any *)
(* set of devices and any limits (TypeOK).                                    *)
THEOREM TypeCorrect == Spec => []TypeOK
<1>1. Init => IInv BY InitKept
<1>2. IInv /\ [Next]_vars => IInv' BY StepKept
<1>3. IInv => TypeOK BY DEF IInv
<1>4. QED BY <1>1, <1>2, <1>3, PTL DEF Spec

(* Every handler that hands the next order on took it back from its last holder: *)
(* grant, held application, held commit and proof never coexist (OrderAuthority; *)
(* issueNextGrant, the held operations and finish-bootstrap of secureRelayV4.ts). *)
THEOREM Authority == Spec => []OrderAuthority
<1>1. Init => IInv BY InitKept
<1>2. IInv /\ [Next]_vars => IInv' BY StepKept
<1>3. IInv => OrderAuthority
    BY DEF IInv, Kept, Auth, OrderAuthority, GrantHolds, ApplicationHolds, CommitHolds,
           ProofHolds
<1>4. QED BY <1>1, <1>2, <1>3, PTL DEF Spec

(* While the removal of a device is due, no device is being admitted: the     *)
(* first marker ends the admissions, and a join is refused until the last is  *)
(* gone (activateZombieRemovalBarrier and join-request, secureRelayV4.ts).    *)
THEOREM RemovalStopsAdmission == Spec => [](RemovalBarrier(room) => InAdmission(room) = {})
<1>1. Init => IInv BY InitKept
<1>2. IInv /\ [Next]_vars => IInv' BY StepKept
<1>3. IInv => (RemovalBarrier(room) => InAdmission(room) = {})
    BY DEF IInv, Kept, BarrierAlone
<1>4. QED BY <1>1, <1>2, <1>3, PTL DEF Spec

(****************************************************************************)
(* The log.                                                                 *)
(****************************************************************************)
Last(log) == log[Len(log)]
(* The frames that change the place of d in the tree, and those that add it.  *)
Changes(log, d) ==
    {i \in 1..Len(log) : log[i].kind \in {"add", "remove"} /\ log[i].subject = d}
Adds(log, d) == {i \in Changes(log, d) : log[i].kind = "add"}
(* The frames that use a logical order.                                       *)
IsOrdered(f) == f.kind \in {"application", "accept", "bootstrap", "join-proof"}
OrderedIn(log) == {i \in 1..Len(log) : IsOrdered(log[i])}

(* The frames accepted after the position n that d is to be sent.             *)
Owed(log, d, n) ==
    {i \in (n + 1)..Len(log) : log[i].from = d => log[i].kind # "bootstrap"}

(* A frame that continues the admission of the frame before it.               *)
Continues(log, f) ==
    /\ f.kind = "join-proof" =>
          Len(log) > 1 /\ Last(log).kind = "bootstrap" /\ Last(log).subject = f.subject
    /\ f.kind = "bootstrap" =>
          Len(log) > 0 /\ Last(log).kind = "add" /\ Last(log).subject = f.subject

(* AdmissionUninterrupted, of a log.                                          *)
Uninterrupted(log) ==
    \A i \in 1..Len(log) :
        /\ log[i].kind = "join-proof" =>
              i > 2 /\ log[i - 1].kind = "bootstrap" /\ log[i - 1].subject = log[i].subject
        /\ log[i].kind = "bootstrap" =>
              i > 1 /\ log[i - 1].kind = "add" /\ log[i - 1].subject = log[i].subject

(* A device is added once, before it is removed, and not if it was there.     *)
AddedFirst(log) ==
    \A d \in Device : \A i \in Adds(log, d) :
        d \notin SettledSet /\ \A j \in Changes(log, d) : i <= j

(****************************************************************************)
(* What the log says of a member.                                           *)
(****************************************************************************)
(* DeliveryComplete, of one member.                                           *)
Complete(log, d, m) ==
    /\ m.acked \cup Frames(m.backlog) = Owed(log, d, m.since)
    /\ Increasing(m.backlog)
    /\ \A x \in m.acked, y \in Frames(m.backlog) : x < y

(* The Add of a device that is being admitted, or its bootstrap, is the last  *)
(* frame accepted.                                                            *)
AtTail(log, d, m) ==
    m.phase # "none" /\ m.added =>
        /\ Len(log) > 0 /\ Last(log).subject = d
        /\ Last(log).kind = IF m.phase = "awaiting-proof" THEN "bootstrap" ELSE "add"

(* A member the group has never heard of.                                     *)
Unborn(m) == m.status = "absent" \/ (m.phase # "none" /\ ~m.added)

(* The invariant of one member: it is owed frames while it is covered, holds  *)
(* none otherwise, and is at the end of the log while it is being admitted.   *)
Sound(log, d, m) ==
    /\ FitMember(m)
    /\ d \in SettledSet => m.status # "absent" /\ m.phase = "none" /\ m.since = 0
    /\ m.phase # "none" /\ (m.proof \/ m.phase = "awaiting-proof") =>
          m.added /\ m.phase = "awaiting-proof"
    /\ AtTail(log, d, m)
    /\ Covered(m) =>
          /\ Complete(log, d, m)
          /\ d \notin SettledSet => m.since \in Adds(log, d)
    /\ ~Covered(m) => Frames(m.backlog) = {}
    /\ Unborn(m) => m.acked = {} /\ Changes(log, d) = {}

(* A log is a sequence of frames.                                             *)
LEMMA LogShape ==
    ASSUME NEW log \in Seq(Frame)
    PROVE  /\ Len(log) \in Nat
           /\ \A i \in 1..Len(log) : log[i] \in Frame
OBVIOUS

(* Appending a frame changes nothing before it.                               *)
LEMMA AppendShape ==
    ASSUME NEW log \in Seq(Frame), NEW f \in Frame
    PROVE  LET g == Append(log, f) IN
           /\ g \in Seq(Frame) /\ Len(g) = Len(log) + 1 /\ Last(g) = f
           /\ \A i \in 1..Len(log) : g[i] = log[i]
           /\ \A i \in 1..Len(g) : i \in 1..Len(log) \/ (i = Len(log) + 1 /\ g[i] = f)
           /\ \A i \in 1..Len(log) : i \in 1..Len(g)
           /\ Len(log) + 1 \in 1..Len(g)
<1> DEFINE g == Append(log, f)
           n == Len(log)
<1>1. n \in Nat /\ g \in Seq(Frame) /\ Len(g) = n + 1 OBVIOUS
<1>2. g[n + 1] = f OBVIOUS
<1>3. \A i \in 1..n : g[i] = log[i] OBVIOUS
<1> HIDE DEF g, n
<1>4. Last(g) = f BY <1>1, <1>2 DEF Last
<1>5. QED BY <1>1, <1>2, <1>3, <1>4 DEF g, n

(* What the changes of a device become.                                       *)
LEMMA AppendChanges ==
    ASSUME NEW log \in Seq(Frame), NEW f \in Frame, NEW d \in Device
    PROVE  /\ Changes(Append(log, f), d) = Changes(log, d) \cup
                 (IF f.kind \in {"add", "remove"} /\ f.subject = d THEN {Len(log) + 1} ELSE {})
           /\ Adds(Append(log, f), d) = Adds(log, d) \cup
                 (IF f.kind = "add" /\ f.subject = d THEN {Len(log) + 1} ELSE {})
<1> DEFINE g == Append(log, f)
           i == Len(log) + 1
<1>0. /\ Len(log) \in Nat /\ Len(g) = i
      /\ \A j \in 1..Len(log) : g[j] = log[j]
      /\ \A j \in 1..Len(g) : j \in 1..Len(log) \/ (j = i /\ g[j] = f)
      /\ \A j \in 1..Len(log) : j \in 1..Len(g)
      /\ i \in 1..Len(g)
    BY AppendShape, LogShape
<1>00. g[i] = f
    BY <1>0
<1> HIDE DEF g
<1>1. Changes(g, d) = Changes(log, d) \cup
                 (IF f.kind \in {"add", "remove"} /\ f.subject = d THEN {i} ELSE {})
    BY <1>0, <1>00 DEF Changes
<1>2. Adds(g, d) = Adds(log, d) \cup
                 (IF f.kind = "add" /\ f.subject = d THEN {i} ELSE {})
  <2>1. \A j \in Changes(log, d) : g[j] = log[j] BY <1>0 DEF Changes
  <2>2. QED BY <1>1, <1>00, <2>1 DEF Adds
<1>3. QED BY <1>1, <1>2 DEF g

(* What the frames a device is owed become.                                   *)
LEMMA AppendOwed ==
    ASSUME NEW log \in Seq(Frame), NEW f \in Frame, NEW d \in Device, NEW n \in Nat
    PROVE  Owed(Append(log, f), d, n) = Owed(log, d, n) \cup
               (IF n < Len(log) + 1 /\ (f.from = d => f.kind # "bootstrap")
                THEN {Len(log) + 1} ELSE {})
<1> DEFINE g == Append(log, f)
           i == Len(log) + 1
<1>0. /\ Len(log) \in Nat /\ Len(g) = i
      /\ \A j \in 1..Len(log) : g[j] = log[j]
    BY AppendShape, LogShape
<1>00. g[i] = f
    BY <1>0
<1> HIDE DEF g
<1>1. \A j : j \in (n + 1)..Len(g) <=> j \in (n + 1)..Len(log) \/ (n < i /\ j = i)
    BY <1>0
<1>2. \A j \in (n + 1)..Len(log) : g[j] = log[j] BY <1>0
<1> HIDE DEF i
<1>3. ASSUME NEW j PROVE j \in Owed(g, d, n) <=> j \in Owed(log, d, n) \/
              (n < i /\ j = i /\ (f.from = d => f.kind # "bootstrap"))
    BY <1>1, <1>2, <1>00 DEF Owed
<1>4. Owed(g, d, n) = Owed(log, d, n) \cup
          (IF n < i /\ (f.from = d => f.kind # "bootstrap") THEN {i} ELSE {})
    BY <1>3
<1>5. QED BY <1>4 DEF g, i

(* A frame that is not about a device changes nothing for it, and its own     *)
(* bootstrap is not owed to it.                                               *)
LEMMA AppendOther ==
    ASSUME NEW log \in Seq(Frame), NEW f \in Frame, NEW d \in Device, NEW n \in Nat
    PROVE  /\ ~(f.kind \in {"add", "remove"} /\ f.subject = d) =>
                 Changes(Append(log, f), d) = Changes(log, d)
           /\ ~(f.kind = "add" /\ f.subject = d) => Adds(Append(log, f), d) = Adds(log, d)
           /\ f.from = d /\ f.kind = "bootstrap" =>
                 Owed(Append(log, f), d, n) = Owed(log, d, n)
<1>1. ASSUME ~(f.kind \in {"add", "remove"} /\ f.subject = d)
      PROVE  Changes(Append(log, f), d) = Changes(log, d)
  <2>1. (IF f.kind \in {"add", "remove"} /\ f.subject = d THEN {Len(log) + 1} ELSE {}) = {}
      BY <1>1
  <2>2. Changes(Append(log, f), d) = Changes(log, d) \cup {} BY <2>1, AppendChanges
  <2>3. QED BY <2>2
<1>2. ASSUME ~(f.kind = "add" /\ f.subject = d)
      PROVE  Adds(Append(log, f), d) = Adds(log, d)
  <2>1. (IF f.kind = "add" /\ f.subject = d THEN {Len(log) + 1} ELSE {}) = {}
      BY <1>2
  <2>2. Adds(Append(log, f), d) = Adds(log, d) \cup {} BY <2>1, AppendChanges, ZenonT(40)
  <2>3. QED BY <2>2
<1>3. ASSUME f.from = d, f.kind = "bootstrap"
      PROVE  Owed(Append(log, f), d, n) = Owed(log, d, n)
  <2> DEFINE X == IF n < Len(log) + 1 /\ (f.from = d => f.kind # "bootstrap")
                  THEN {Len(log) + 1} ELSE {}
  <2>1. X = {} BY <1>3
  <2>2. Owed(Append(log, f), d, n) = Owed(log, d, n) \cup X BY AppendOwed
  <2> HIDE DEF X
  <2>3. QED BY <2>1, <2>2
<1>4. QED BY <1>1, <1>2, <1>3

(* A member that keeps its place, or loses it, is sound for the same log.     *)
LEMMA SoundStays ==
    ASSUME NEW log, NEW d \in Device, NEW m, NEW n, Sound(log, d, m), Stays(m, n, 0)
    PROVE  Sound(log, d, n)
<1>1. Covered(n) <=> Covered(m) BY StaysCovered
<1>2. /\ n.phase = m.phase /\ n.since = m.since /\ n.acked = m.acked
      /\ (n.status = "absent" <=> m.status = "absent")
      /\ Frames(n.backlog) = Frames(m.backlog)
      /\ Increasing(m.backlog) => Increasing(n.backlog)
    BY DEF Stays, Fed
<1>3. n.added = m.added /\ (n.proof => m.proof \/ m.phase = "awaiting-proof")
    BY DEF Stays
<1>4. FitMember(n) BY DEF Stays, Sound
<1>5. d \in SettledSet => n.status # "absent" /\ n.phase = "none" /\ n.since = 0
    BY <1>2 DEF Sound
<1>6. n.phase # "none" /\ (n.proof \/ n.phase = "awaiting-proof") =>
          n.added /\ n.phase = "awaiting-proof"
  <2>1. m.phase # "none" /\ (m.proof \/ m.phase = "awaiting-proof") =>
          m.added /\ m.phase = "awaiting-proof"
      BY DEF Sound
  <2>2. QED BY <1>2, <1>3, <2>1, Zenon
<1>7. AtTail(log, d, n)
  <2>1. AtTail(log, d, m) BY DEF Sound
  <2>2. QED BY <1>2, <1>3, <2>1 DEF AtTail
<1>8. Covered(n) => Complete(log, d, n) /\ (d \notin SettledSet => n.since \in Adds(log, d))
    BY <1>1, <1>2 DEF Sound, Complete
<1>9. ~Covered(n) => Frames(n.backlog) = {} BY <1>1, <1>2 DEF Sound
<1>10. Unborn(n) => n.acked = {} /\ Changes(log, d) = {}
  <2>1. Unborn(n) => Unborn(m)
    <3>1. ~n.added => ~m.added BY <1>3, Zenon
    <3>2. QED BY <1>2, <3>1 DEF Unborn
  <2>2. QED BY <1>2, <2>1 DEF Sound
<1>11. QED BY <1>4, <1>5, <1>6, <1>7, <1>8, <1>9, <1>10 DEF Sound

(* A member that loses its place is sound whatever the log has become, but it *)
(* remembers that it was there.                                               *)
LEMMA SoundGone ==
    ASSUME NEW log, NEW d \in Device, NEW m, NEW n, Gone(m, n),
           d \in SettledSet => m.since = 0
    PROVE  Sound(log, d, n)
<1>1. FitMember(n) BY DEF Gone, FitMember
<1>2. AtTail(log, d, n) /\ ~Unborn(n) BY DEF Gone, AtTail, Unborn
<1>3. QED BY <1>1, <1>2 DEF Gone, Sound

(* A helper that feeds nothing keeps a member sound.                          *)
LEMMA SoundHelped ==
    ASSUME NEW log, NEW d \in Device, NEW m, NEW n, Sound(log, d, m), Helped(m, n, 0)
    PROVE  Sound(log, d, n)
BY SoundStays, SoundGone DEF Helped, Sound

(* Every position of the log is owed or not; a complete member's frames are   *)
(* positions of the log.                                                      *)
LEMMA OwedShape ==
    ASSUME NEW log \in Seq(Frame), NEW d \in Device, NEW n \in Nat
    PROVE  Owed(log, d, n) \subseteq 1..Len(log)
BY LogShape DEF Owed

(* A member of the group that is fed the frame just accepted is sound for the *)
(* log it ends; one that is not of the group is sound without it.             *)
LEMMA SoundAppend ==
    ASSUME NEW log \in Seq(Frame), NEW f \in Frame, NEW d \in Device,
           NEW m \in Member, NEW n \in Member, Sound(log, d, m),
           m.phase = "none" \/ ~m.added,
           f.from = d => f.kind # "bootstrap",
           f.kind \in {"add", "remove"} /\ f.subject = d => f.kind # "add" /\ ~Unborn(m),
           Helped(m, n, IF Established(m) /\ ~m.fresh THEN Len(log) + 1 ELSE 0)
    PROVE  Sound(Append(log, f), d, n)
<1> DEFINE g == Append(log, f)
           i == Len(log) + 1
           c == Established(m) /\ ~m.fresh
<1>0. /\ Len(log) \in Nat /\ m.since \in Nat
      /\ Owed(log, d, m.since) \subseteq 1..Len(log)
      /\ m.acked \in SUBSET Nat
    BY LogShape, MemberShape, OwedShape
<1>1. CASE Gone(m, n)
    BY <1>1, SoundGone DEF Sound
<1>2. CASE Stays(m, n, IF c THEN i ELSE 0)
  <2>1. Covered(m) <=> c BY DEF Covered
  <2>2. Covered(n) <=> Covered(m) BY <1>2, StaysCovered
  <2>3. /\ n.phase = m.phase /\ n.since = m.since /\ n.acked = m.acked
        /\ (n.status = "absent" <=> m.status = "absent")
        /\ Fed(m.backlog, n.backlog, IF c THEN i ELSE 0)
      BY <1>2 DEF Stays
  <2>4. n.added = m.added /\ (n.proof => m.proof \/ m.phase = "awaiting-proof")
      BY <1>2 DEF Stays
  <2>5. FitMember(n) BY <1>2 DEF Stays, Sound
  <2>6. d \in SettledSet => n.status # "absent" /\ n.phase = "none" /\ n.since = 0
      BY <2>3 DEF Sound
  <2>7. n.phase # "none" /\ (n.proof \/ n.phase = "awaiting-proof") =>
            n.added /\ n.phase = "awaiting-proof"
    <3>1. m.phase # "none" /\ (m.proof \/ m.phase = "awaiting-proof") =>
            m.added /\ m.phase = "awaiting-proof"
        BY DEF Sound
    <3>2. QED BY <2>3, <2>4, <3>1, Zenon
  <2>8. n.phase = "none" \/ ~n.added BY <2>3, <2>4, Zenon
  <2>9. AtTail(g, d, n) BY <2>8, Zenon DEF AtTail
  <2>10. ASSUME Covered(n)
          PROVE  Complete(g, d, n) /\ (d \notin SettledSet => n.since \in Adds(g, d))
    <3>1. c /\ Complete(log, d, m) /\ (d \notin SettledSet => m.since \in Adds(log, d))
        BY <2>1, <2>2, <2>10 DEF Sound
    <3>2. m.since < i
      <4>1. CASE d \in SettledSet BY <4>1, <1>0 DEF Sound
      <4>2. CASE d \notin SettledSet BY <4>2, <3>1, <1>0 DEF Adds, Changes
      <4>3. QED BY <4>1, <4>2
    <3>3. Fed(m.backlog, n.backlog, i) BY <2>3, <3>1
    <3>4. Owed(g, d, m.since) = Owed(log, d, m.since) \cup {i}
        BY <1>0, <3>2, AppendOwed
    <3>5. \A x \in Frames(m.backlog) : x < i /\ x \in Nat
        BY <1>0, <3>1 DEF Complete
    <3>6. \A x \in m.acked : x < i
        BY <1>0, <3>1 DEF Complete
    <3>7. Frames(n.backlog) = Frames(m.backlog) \cup {i} /\ Increasing(n.backlog)
        BY <1>0, <3>1, <3>3, <3>5 DEF Fed, Complete
    <3>8. Complete(g, d, n)
        BY <2>3, <3>1, <3>4, <3>6, <3>7 DEF Complete
    <3>9. Adds(log, d) \subseteq Adds(g, d) BY AppendChanges
    <3>10. QED BY <2>3, <3>1, <3>8, <3>9
  <2>11. ASSUME ~Covered(n) PROVE Frames(n.backlog) = {}
    <3>1. ~c /\ Frames(m.backlog) = {} BY <2>1, <2>2, <2>11 DEF Sound
    <3>2. QED BY <2>3, <3>1 DEF Fed
  <2>12. ASSUME Unborn(n) PROVE n.acked = {} /\ Changes(g, d) = {}
    <3>1. Unborn(m)
      <4>1. ~n.added => ~m.added BY <2>4, Zenon
      <4>2. QED BY <2>3, <2>12, <4>1 DEF Unborn
    <3>2. m.acked = {} /\ Changes(log, d) = {} BY <3>1 DEF Sound
    <3>3. ~(f.kind \in {"add", "remove"} /\ f.subject = d) BY <3>1
    <3>4. Changes(g, d) = Changes(log, d)
        BY <1>0, <3>3, AppendOther
    <3>5. QED BY <2>3, <3>2, <3>4
  <2> HIDE DEF g
  <2>13. Sound(g, d, n)
      BY <2>5, <2>6, <2>7, <2>9, <2>10, <2>11, <2>12, Zenon DEF Sound
  <2>14. QED BY <2>13 DEF g
<1>3. QED BY <1>1, <1>2 DEF Helped

(* A device that is being admitted was not there before, and has read nothing *)
(* until the group accepts its Add.                                           *)
LEMMA UnaddedShape ==
    ASSUME NEW log, NEW d \in Device, NEW m, Sound(log, d, m), m.phase # "none", ~m.added
    PROVE  /\ ~Covered(m) /\ Frames(m.backlog) = {} /\ m.acked = {}
           /\ Changes(log, d) = {} /\ d \notin SettledSet
           /\ ~m.proof /\ m.phase # "awaiting-proof"
<1>1. ~Established(m) BY DEF Sound, FitMember, Established
<1>2. ~Covered(m) BY <1>1 DEF Covered
<1>3. Unborn(m) BY DEF Unborn
<1>4. ~m.proof /\ m.phase # "awaiting-proof"
  <2>1. m.phase # "none" /\ (m.proof \/ m.phase = "awaiting-proof") => m.added
      BY DEF Sound
  <2>2. QED BY <2>1, Zenon
<1>5. QED BY <1>2, <1>3, <1>4 DEF Sound

(* The Add of a device begins what it is owed.                                *)
LEMMA SoundAdded ==
    ASSUME NEW log \in Seq(Frame), NEW f \in Frame, NEW d \in Device,
           NEW m \in Member, NEW n, Sound(log, d, m), m.phase = "awaiting-welcome", ~m.added,
           m.status = "pending", f.kind = "add", f.subject = d,
           NEW k, k = [m EXCEPT !.added = TRUE, !.since = Len(log) + 1],
           Helped(k, n, 0)
    PROVE  Sound(Append(log, f), d, n)
<1> DEFINE g == Append(log, f)
           i == Len(log) + 1
<1>0. i \in Nat /\ Len(log) \in Nat BY LogShape
<1>1. /\ k.status = m.status /\ k.phase = "awaiting-welcome" /\ k.added = TRUE /\ k.since = i
      /\ k.acked = m.acked /\ k.backlog = m.backlog /\ k.grace = m.grace
      /\ k.fresh = m.fresh
    BY DEF Member
<1>2. k.proof = m.proof BY DEF Member
<1>3. /\ Frames(m.backlog) = {} /\ m.acked = {} /\ d \notin SettledSet /\ ~m.proof
    BY UnaddedShape
<1>4. ~k.proof BY <1>2, <1>3, Zenon
<1>5. FitMember(k) BY <1>1 DEF Sound, FitMember
<1>6. Len(g) = i /\ Last(g) = f BY AppendShape
<1>7. AtTail(g, d, k) BY <1>0, <1>1, <1>6 DEF AtTail
<1>8. Covered(k) /\ ~Unborn(k)
    BY <1>1 DEF Covered, Unborn
<1>9. Owed(g, d, i) = {} BY <1>0, <1>6 DEF Owed
<1>10. Increasing(k.backlog)
    BY <1>1, <1>3 DEF Increasing, Frames
<1>11. Complete(g, d, k) BY <1>1, <1>3, <1>9, <1>10 DEF Complete
<1>12. i \in Adds(g, d)
    BY AppendChanges
<1> HIDE DEF g, i
<1>13. Sound(g, d, k)
    BY <1>1, <1>3, <1>4, <1>5, <1>7, <1>8, <1>11, <1>12 DEF Sound
<1>14. QED BY <1>13, SoundHelped DEF g

(* The Welcome moves the admission on.                                        *)
LEMMA SoundWelcomed ==
    ASSUME NEW log \in Seq(Frame), NEW d \in Device, NEW m \in Member, Sound(log, d, m),
           m.phase = "awaiting-welcome", m.added, m.status = "pending",
           NEW k, k = Given(m, WelcomeEntry)
    PROVE  Sound(log, d, [k EXCEPT !.phase = "awaiting-bootstrap"])
<1> DEFINE n == [k EXCEPT !.phase = "awaiting-bootstrap"]
           e == WelcomeEntry
<1>1. e \in Entry /\ e.frame = 0 BY EntryTypes DEF WelcomeEntry
<1> HIDE DEF e
<1>2. k \in Member /\ Helped(m, k, 0) BY <1>1, GivenType, GivenStays DEF e
<1>3. k.phase = "awaiting-welcome" /\ k.status = "pending" /\ k.added = m.added
    BY DEF Given, Member
<1>4. Sound(log, d, k) BY <1>2, SoundHelped
<1>5. /\ n.status = k.status /\ n.phase = "awaiting-bootstrap" /\ n.since = k.since
      /\ n.acked = k.acked /\ n.backlog = k.backlog /\ n.grace = k.grace
      /\ n.fresh = k.fresh
    BY <1>2 DEF Member
<1>6. n.proof = k.proof /\ n.added = k.added BY <1>2 DEF Member
<1> HIDE DEF n
<1>7. k.added BY <1>3, Zenon
<1>8. n.added /\ ~n.proof
  <2>1. k.phase # "none" /\ (k.proof \/ k.phase = "awaiting-proof") =>
          k.added /\ k.phase = "awaiting-proof"
      BY <1>4 DEF Sound
  <2>2. ~k.proof BY <1>3, <2>1, Zenon
  <2>3. QED BY <1>6, <1>7, <2>2, Zenon
<1>9. FitMember(n) BY <1>3, <1>4, <1>5 DEF Sound, FitMember
<1>10. AtTail(log, d, n)
  <2>1. AtTail(log, d, k) BY <1>4 DEF Sound
  <2>2. QED BY <1>3, <1>5, <1>7, <2>1 DEF AtTail
<1>11. Covered(n) /\ Covered(k) BY <1>3, <1>5, <1>7, <1>8 DEF Covered
<1>12. Complete(log, d, n) /\ (d \notin SettledSet => n.since \in Adds(log, d))
    BY <1>4, <1>5, <1>11 DEF Sound, Complete
<1>13. d \notin SettledSet BY <1>3, <1>4 DEF Sound
<1>14. ~Unborn(n) BY <1>3, <1>5, <1>8 DEF Unborn
<1>15. Sound(log, d, n) BY <1>5, <1>8, <1>9, <1>10, <1>11, <1>12, <1>13, <1>14 DEF Sound
<1>16. QED BY <1>15 DEF n

(* A device that is not owed the bootstrap it sent is sound without it.       *)
LEMMA SoundSender ==
    ASSUME NEW log \in Seq(Frame), NEW f \in Frame, NEW d \in Device,
           NEW m \in Member, NEW n, Sound(log, d, m), m.phase = "none",
           f.from = d, f.kind = "bootstrap", Helped(m, n, 0)
    PROVE  Sound(Append(log, f), d, n)
<1> DEFINE g == Append(log, f)
           i == Len(log) + 1
<1>1. m.since \in Nat BY MemberShape
<1>2. Changes(g, d) = Changes(log, d) /\ Adds(g, d) = Adds(log, d)
    BY <1>1, AppendOther
<1>3. Owed(g, d, m.since) = Owed(log, d, m.since)
    BY <1>1, AppendOther
<1> HIDE DEF g
<1>4. AtTail(g, d, m) BY DEF AtTail
<1>5. Complete(log, d, m) => Complete(g, d, m) BY <1>3 DEF Complete
<1>6. Sound(g, d, m) BY <1>2, <1>4, <1>5 DEF Sound
<1>7. QED BY <1>6, SoundHelped DEF g

(* The bootstrap reaches the device it is for, which waits for its proof.     *)
LEMMA SoundBootstrapped ==
    ASSUME NEW log \in Seq(Frame), NEW f \in Frame, NEW d \in Device,
           NEW m \in Member, NEW n, Sound(log, d, m), m.phase = "awaiting-bootstrap", m.added,
           f.from # d, f.kind = "bootstrap", f.subject = d,
           NEW k, k = [m EXCEPT !.phase = "awaiting-proof"],
           Stays(k, n, Len(log) + 1)
    PROVE  Sound(Append(log, f), d, n)
<1> DEFINE g == Append(log, f)
           i == Len(log) + 1
<1>0. i \in Nat /\ Len(log) \in Nat /\ m.since \in Nat /\ m.acked \in SUBSET Nat
      /\ Owed(log, d, m.since) \subseteq 1..Len(log)
    BY LogShape, MemberShape, OwedShape
<1>1. /\ k.status = m.status /\ k.phase = "awaiting-proof" /\ k.since = m.since
      /\ k.acked = m.acked /\ k.backlog = m.backlog /\ k.grace = m.grace
      /\ k.fresh = m.fresh
    BY DEF Member
<1>2. k.added BY DEF Member
<1>3. n.added
  <2>1. n.added = k.added BY DEF Stays
  <2>2. QED BY <1>2, <2>1, Zenon
<1>4. /\ n.phase = "awaiting-proof" /\ n.since = m.since /\ n.acked = m.acked
      /\ Fed(m.backlog, n.backlog, i)
    BY <1>1 DEF Stays
<1>5. Covered(m) /\ Covered(n) /\ Covered(k) BY <1>1, <1>2, <1>3, <1>4 DEF Covered
<1>6. FitMember(k) BY <1>1 DEF Sound, FitMember
<1>7. FitMember(n) BY <1>6 DEF Stays
<1>8. d \notin SettledSet BY DEF Sound
<1>9. Len(g) = i /\ Last(g) = f BY AppendShape
<1>10. AtTail(g, d, n) BY <1>0, <1>4, <1>9 DEF AtTail
<1>11. Complete(log, d, m) /\ m.since \in Adds(log, d) BY <1>5, <1>8 DEF Sound
<1>12. m.since < i BY <1>0, <1>11 DEF Adds, Changes
<1>13. Adds(log, d) \subseteq Adds(g, d) BY AppendChanges
<1>14. Owed(g, d, m.since) = Owed(log, d, m.since) \cup {i} /\ m.since \in Adds(g, d)
  <2>1. Owed(g, d, m.since) = Owed(log, d, m.since) \cup {i}
      BY <1>0, <1>12, AppendOwed
  <2>2. QED BY <1>11, <1>13, <2>1
<1>15. \A x \in Frames(m.backlog) \cup m.acked : x < i /\ x \in Nat
    BY <1>0, <1>11 DEF Complete
<1>16. Frames(n.backlog) = Frames(m.backlog) \cup {i} /\ Increasing(n.backlog)
    BY <1>0, <1>4, <1>11, <1>15 DEF Fed, Complete
<1>17. Complete(g, d, n)
    BY <1>4, <1>11, <1>14, <1>15, <1>16 DEF Complete
<1>18. ~Unborn(n)
  <2>1. m.status # "absent"
    <3>1. Unborn(m) => Changes(log, d) = {} BY DEF Sound
    <3>2. m.since \in Changes(log, d) BY <1>11 DEF Adds
    <3>3. QED BY <3>1, <3>2 DEF Unborn
  <2>2. n.status # "absent" BY <1>1, <2>1 DEF Stays
  <2>3. QED BY <1>3, <2>2 DEF Unborn
<1> HIDE DEF g
<1>19. Sound(g, d, n)
    BY <1>3, <1>4, <1>5, <1>7, <1>8, <1>10, <1>14, <1>17, <1>18 DEF Sound
<1>20. QED BY <1>19 DEF g

(* The proof makes the device a member of the group.                          *)
LEMMA SoundActivated ==
    ASSUME NEW log \in Seq(Frame), NEW d \in Device, NEW m \in Member, Sound(log, d, m),
           m.phase # "none", m.added
    PROVE  LET n == [ClearAdmission(m) EXCEPT !.status = "active"]
           IN  Sound(log, d, n) /\ Covered(n)
<1> DEFINE n == [ClearAdmission(m) EXCEPT !.status = "active"]
<1>1. /\ n.status = "active" /\ n.phase = "none" /\ n.since = m.since
      /\ n.acked = m.acked /\ n.backlog = m.backlog /\ n.fresh = m.fresh
    BY DEF ClearAdmission, Member
<1> HIDE DEF n
<1>2. ~m.fresh BY DEF Sound, FitMember
<1>3. ~n.fresh BY <1>1, <1>2, Zenon
<1>4. Covered(n) /\ Covered(m) BY <1>1, <1>3 DEF Covered, Established
<1>5. d \notin SettledSet BY DEF Sound
<1>6. FitMember(n) /\ AtTail(log, d, n) /\ ~Unborn(n)
    BY <1>1 DEF FitMember, AtTail, Unborn
<1>7. Complete(log, d, n) /\ n.since \in Adds(log, d)
    BY <1>1, <1>4, <1>5 DEF Sound, Complete
<1>8. Sound(log, d, n) BY <1>1, <1>4, <1>5, <1>6, <1>7 DEF Sound
<1>9. QED BY <1>4, <1>8 DEF n

(* A device that has no place was never told of a frame.                      *)
LEMMA UnbornIdle ==
    ASSUME NEW log, NEW d \in Device, NEW m, Sound(log, d, m), Unborn(m)
    PROVE  ~Covered(m) /\ Frames(m.backlog) = {} /\ m.acked = {} /\ d \notin SettledSet
<1>1. m.acked = {} /\ Changes(log, d) = {} BY DEF Sound
<1>2. d \notin SettledSet BY DEF Sound, Unborn
<1>3. ~Covered(m) BY <1>1, <1>2 DEF Sound, Adds
<1>4. QED BY <1>1, <1>2, <1>3 DEF Sound

(* The frames of a backlog are those of a prefix and those of the rest.       *)
PrefixFrames(b, k) == {b[i].frame : i \in 1..k} \ {0}
Rest(b, k) == SubSeq(b, k + 1, Len(b))

(* What is left of a backlog is its tail.                                     *)
LEMMA RestShape ==
    ASSUME NEW b \in Seq(Entry), NEW k \in 0..Len(b)
    PROVE  /\ Rest(b, k) \in Seq(Entry) /\ Len(Rest(b, k)) = Len(b) - k
           /\ \A i \in 1..(Len(b) - k) : Rest(b, k)[i] = b[i + k] /\ i + k \in 1..Len(b)
           /\ \A i \in 1..Len(b) : i \in 1..k \/ i - k \in 1..(Len(b) - k)
           /\ 1..k \subseteq 1..Len(b)
<1>1. Rest(b, k) \in Seq(Entry) /\ Len(Rest(b, k)) = Len(b) - k BY DEF Rest
<1>2. \A i \in 1..(Len(b) - k) : Rest(b, k)[i] = b[i + k] /\ i + k \in 1..Len(b)
    BY DEF Rest
<1>3. QED BY <1>1, <1>2

(* A backlog is its prefix and its rest, and the prefix comes first.          *)
LEMMA PrefixSplit ==
    ASSUME NEW b \in Seq(Entry), NEW k \in 0..Len(b)
    PROVE  /\ Frames(b) = PrefixFrames(b, k) \cup Frames(Rest(b, k))
           /\ Increasing(b) => Increasing(Rest(b, k))
           /\ Increasing(b) => \A x \in PrefixFrames(b, k), y \in Frames(Rest(b, k)) : x < y
<1> DEFINE c == Rest(b, k)
           n == Len(b) - k
<1>1. /\ Len(b) \in Nat /\ n \in Nat /\ Len(c) = n
      /\ \A i \in 1..n : c[i] = b[i + k] /\ i + k \in 1..Len(b)
      /\ \A i \in 1..Len(b) : i \in 1..k \/ i - k \in 1..n
      /\ 1..k \subseteq 1..Len(b)
    BY RestShape
<1>2. \A i \in 1..Len(b) : i \in 1..k \/ (i - k \in 1..n /\ c[i - k] = b[i])
    BY <1>1
<1> HIDE DEF c
<1>3. Frames(b) = PrefixFrames(b, k) \cup Frames(c)
  <2>1. ASSUME NEW x \in Frames(b) PROVE x \in PrefixFrames(b, k) \cup Frames(c)
    <3>1. PICK i \in 1..Len(b) : x = b[i].frame BY DEF Frames
    <3>2. x # 0 BY DEF Frames
    <3>3. CASE i \in 1..k BY <3>1, <3>2, <3>3 DEF PrefixFrames
    <3>4. CASE i - k \in 1..n /\ c[i - k] = b[i] BY <1>1, <3>1, <3>2, <3>4 DEF Frames
    <3>5. QED BY <1>2, <3>3, <3>4
  <2>2. PrefixFrames(b, k) \subseteq Frames(b) BY <1>1 DEF PrefixFrames, Frames
  <2>3. ASSUME NEW x \in Frames(c) PROVE x \in Frames(b)
    <3>1. PICK i \in 1..n : x = c[i].frame BY <1>1 DEF Frames
    <3>2. x # 0 BY DEF Frames
    <3> DEFINE j == i + k
    <3>3. j \in 1..Len(b) /\ x = b[j].frame BY <1>1, <3>1
    <3> HIDE DEF j
    <3>4. QED BY <3>2, <3>3 DEF Frames
  <2>4. QED BY <2>1, <2>2, <2>3
<1>4. ASSUME Increasing(b) PROVE Increasing(c)
  <2> SUFFICES ASSUME NEW i \in 1..n, NEW j \in 1..n, i < j, c[i].frame # 0, c[j].frame # 0
               PROVE  c[i].frame < c[j].frame
      BY <1>1 DEF Increasing
  <2>1. /\ c[i] = b[i + k] /\ i + k \in 1..Len(b) /\ c[j] = b[j + k] /\ j + k \in 1..Len(b)
        /\ i + k < j + k
      BY <1>1
  <2>2. QED BY <1>4, <2>1 DEF Increasing
<1>5. ASSUME Increasing(b), NEW x \in PrefixFrames(b, k), NEW y \in Frames(c)
      PROVE  x < y
  <2>1. PICK i \in 1..k : x = b[i].frame BY DEF PrefixFrames
  <2>2. PICK j \in 1..n : y = c[j].frame BY <1>1 DEF Frames
  <2>3. x # 0 /\ y # 0 BY DEF PrefixFrames, Frames
  <2>4. /\ i \in 1..Len(b) /\ j + k \in 1..Len(b) /\ c[j] = b[j + k] /\ i < j + k
      BY <1>1
  <2>5. QED BY <1>5, <2>1, <2>2, <2>3, <2>4 DEF Increasing
<1>6. QED BY <1>3, <1>4, <1>5 DEF c

(* A member that acknowledges the first k entries of its backlog.             *)
Reads(m, n, k) ==
    /\ n.phase = m.phase /\ n.added = m.added /\ n.since = m.since
    /\ n.fresh = m.fresh /\ n.proof = m.proof /\ n.conn = m.conn
    /\ Established(n) <=> Established(m)
    /\ (n.status = "absent") <=> (m.status = "absent")
    /\ FitMember(m) => FitMember(n)
    /\ n.acked = m.acked \cup PrefixFrames(m.backlog, k)
    /\ n.backlog = Rest(m.backlog, k)

(* It has read them, and still waits for the rest.                            *)
LEMMA SoundRead ==
    ASSUME NEW log, NEW d \in Device, NEW m \in Member, NEW n, Sound(log, d, m),
           NEW k \in 0..Len(m.backlog), Reads(m, n, k)
    PROVE  Sound(log, d, n) /\ (Covered(n) <=> Covered(m))
<1>0. m.backlog \in Seq(Entry) BY MemberShape
<1> DEFINE F == PrefixFrames(m.backlog, k)
           G == Frames(n.backlog)
<1>1. /\ Frames(m.backlog) = F \cup G
      /\ Increasing(m.backlog) => Increasing(n.backlog)
      /\ Increasing(m.backlog) => \A x \in F, y \in G : x < y
    BY <1>0, PrefixSplit DEF Reads
<1> HIDE DEF F, G
<1>2. /\ n.phase = m.phase /\ n.since = m.since /\ n.acked = m.acked \cup F
      /\ (n.status = "absent" <=> m.status = "absent")
      /\ (Established(n) <=> Established(m)) /\ FitMember(n)
    BY DEF Reads, Sound, F
<1>3. n.added = m.added /\ n.proof = m.proof /\ n.fresh = m.fresh BY DEF Reads
<1>4. Covered(n) <=> Covered(m)
  <2> HIDE DEF Established
  <2>1. (~n.fresh <=> ~m.fresh) /\ (n.added <=> m.added) BY <1>3, Zenon
  <2>2. QED BY <1>2, <2>1 DEF Covered
<1>5. d \in SettledSet => n.status # "absent" /\ n.phase = "none" /\ n.since = 0
    BY <1>2 DEF Sound
<1>6. n.phase # "none" /\ (n.proof \/ n.phase = "awaiting-proof") =>
          n.added /\ n.phase = "awaiting-proof"
  <2>1. m.phase # "none" /\ (m.proof \/ m.phase = "awaiting-proof") =>
          m.added /\ m.phase = "awaiting-proof"
      BY DEF Sound
  <2>2. QED BY <1>2, <1>3, <2>1, Zenon
<1>7. AtTail(log, d, n)
  <2>1. AtTail(log, d, m) BY DEF Sound
  <2>2. QED BY <1>2, <1>3, <2>1 DEF AtTail
<1>8. ASSUME Covered(n)
      PROVE  Complete(log, d, n) /\ (d \notin SettledSet => n.since \in Adds(log, d))
  <2>1. Complete(log, d, m) /\ (d \notin SettledSet => m.since \in Adds(log, d))
      BY <1>4, <1>8 DEF Sound
  <2>2. n.acked \cup G = Owed(log, d, n.since) BY <1>1, <1>2, <2>1 DEF Complete
  <2>3. \A x \in n.acked, y \in G : x < y BY <1>1, <1>2, <2>1 DEF Complete
  <2>4. QED BY <1>1, <1>2, <2>1, <2>2, <2>3 DEF Complete, G
<1>9. ~Covered(n) => Frames(n.backlog) = {} BY <1>1, <1>4 DEF Sound, G
<1>10. ASSUME Unborn(n) PROVE n.acked = {} /\ Changes(log, d) = {}
  <2>1. Unborn(m)
    <3>1. ~n.added => ~m.added BY <1>3, Zenon
    <3>2. QED BY <1>2, <1>10, <3>1 DEF Unborn
  <2>2. Frames(m.backlog) = {} /\ m.acked = {} BY <2>1, UnbornIdle
  <2>3. QED BY <1>1, <1>2, <2>1, <2>2 DEF Sound
<1>11. QED BY <1>2, <1>4, <1>5, <1>6, <1>7, <1>8, <1>9, <1>10, Zenon DEF Sound

(* Acknowledging reads a prefix; so does the end of a replay.                 *)
LEMMA AckedReads ==
    ASSUME NEW m \in Member, NEW k \in 0..Len(m.backlog)
    PROVE  /\ Reads(m, Acked(m, k), k)
           /\ Replaying(m) => Reads(m, [Acked(m, k) EXCEPT !.status = "active", !.replay = 0], k)
<1> DEFINE seen == m.acked \cup PrefixFrames(m.backlog, k)
           b == Rest(m.backlog, k)
           n == [m EXCEPT !.acked = seen, !.backlog = b]
           o == [n EXCEPT !.status = "active", !.replay = 0]
<1>1. Acked(m, k) = n BY DEF Acked, PrefixFrames, Rest
<1> HIDE DEF seen, b
<1>2. /\ n.phase = m.phase /\ n.added = m.added /\ n.since = m.since
      /\ n.fresh = m.fresh /\ n.proof = m.proof /\ n.conn = m.conn
      /\ n.status = m.status /\ n.grace = m.grace /\ n.acked = seen /\ n.backlog = b
    BY DEF Member
<1>3. /\ o.phase = m.phase /\ o.added = m.added /\ o.since = m.since
      /\ o.fresh = m.fresh /\ o.proof = m.proof /\ o.conn = m.conn
      /\ o.status = "active" /\ o.grace = m.grace /\ o.acked = seen /\ o.backlog = b
    BY DEF Member
<1> HIDE DEF n, o
<1>4. Reads(m, n, k) BY <1>2 DEF Reads, Established, FitMember, seen, b
<1>5. Replaying(m) => Reads(m, o, k)
    BY <1>3 DEF Reads, Established, FitMember, Replaying, seen, b
<1>6. QED BY <1>1, <1>4, <1>5 DEF o

(* A device that arrives for the first time has read nothing.                 *)
LEMMA SoundArrival ==
    ASSUME NEW log, NEW d \in Device, NEW m, Sound(log, d, m), m.status = "absent",
           NEW n, n.status = "pending", n.phase = "awaiting-welcome", n.added = FALSE,
           n.proof = FALSE, n.grace = "off", n.fresh = FALSE, n.backlog = <<>>, n.acked = {}
    PROVE  Sound(log, d, n) /\ n.acked = m.acked
<1>1. Unborn(m) BY DEF Unborn
<1>2. m.acked = {} /\ Changes(log, d) = {} /\ d \notin SettledSet
    BY <1>1, UnbornIdle DEF Sound
<1>3. ~Covered(n) BY DEF Covered, Established
<1>4. Frames(n.backlog) = {} BY DEF Frames
<1>5. FitMember(n) /\ AtTail(log, d, n) BY DEF FitMember, AtTail
<1>6. Sound(log, d, n) BY <1>2, <1>3, <1>4, <1>5 DEF Sound
<1>7. QED BY <1>2, <1>6

(****************************************************************************)
(* What the log says of itself.                                             *)
(****************************************************************************)
(* A frame that continues an admission follows the frame it continues.        *)
LEMMA UninterruptedAppend ==
    ASSUME NEW log \in Seq(Frame), NEW f \in Frame, Uninterrupted(log), Continues(log, f)
    PROVE  Uninterrupted(Append(log, f))
<1> DEFINE g == Append(log, f)
           n == Len(log)
<1>1. /\ n \in Nat /\ Len(g) = n + 1 /\ g[n + 1] = f
      /\ \A i \in 1..n : g[i] = log[i]
      /\ \A i \in 1..(n + 1) : i \in 1..n \/ i = n + 1
    BY AppendShape, LogShape
<1> HIDE DEF g
<1>2. SUFFICES ASSUME NEW i \in 1..(n + 1)
      PROVE /\ g[i].kind = "join-proof" =>
                  i > 2 /\ g[i - 1].kind = "bootstrap" /\ g[i - 1].subject = g[i].subject
            /\ g[i].kind = "bootstrap" =>
                  i > 1 /\ g[i - 1].kind = "add" /\ g[i - 1].subject = g[i].subject
    BY <1>1 DEF Uninterrupted, g
<1>3. CASE i \in 1..n
  <2>1. g[i] = log[i] BY <1>1, <1>3
  <2>2. i > 1 => g[i - 1] = log[i - 1] BY <1>1, <1>3
  <2>3. /\ log[i].kind = "join-proof" =>
              i > 2 /\ log[i - 1].kind = "bootstrap" /\ log[i - 1].subject = log[i].subject
        /\ log[i].kind = "bootstrap" =>
              i > 1 /\ log[i - 1].kind = "add" /\ log[i - 1].subject = log[i].subject
      BY <1>3 DEF Uninterrupted, n
  <2>4. QED BY <1>3, <2>1, <2>2, <2>3
<1>4. CASE i = n + 1
  <2>1. g[i] = f BY <1>1, <1>4
  <2>2. n > 0 => g[i - 1] = Last(log) BY <1>1, <1>4 DEF Last, n
  <2>3. /\ f.kind = "join-proof" =>
            n > 1 /\ Last(log).kind = "bootstrap" /\ Last(log).subject = f.subject
        /\ f.kind = "bootstrap" =>
            n > 0 /\ Last(log).kind = "add" /\ Last(log).subject = f.subject
      BY DEF Continues, n
  <2>4. QED BY <1>1, <1>4, <2>1, <2>2, <2>3
<1>5. QED BY <1>1, <1>3, <1>4

(* A device is added once, before anything else is accepted about it.         *)
LEMMA AddedFirstAppend ==
    ASSUME NEW log \in Seq(Frame), NEW f \in Frame, AddedFirst(log),
           \A d \in Device : f.kind = "add" /\ f.subject = d =>
               d \notin SettledSet /\ Changes(log, d) = {}
    PROVE  AddedFirst(Append(log, f))
<1> DEFINE g == Append(log, f)
           k == Len(log) + 1
<1>0. Len(log) \in Nat /\ k \in Nat BY LogShape
<1> SUFFICES ASSUME NEW d \in Device, NEW i \in Adds(g, d)
             PROVE  d \notin SettledSet /\ \A j \in Changes(g, d) : i <= j
    BY DEF AddedFirst
<1>1. /\ \A j \in Changes(g, d) : j \in Changes(log, d) \/ j = k
      /\ i \in Adds(log, d) \/ (i = k /\ f.kind = "add" /\ f.subject = d)
    BY AppendChanges
<1>2. \A j \in Changes(log, d) : j \in 1..Len(log) BY DEF Changes
<1> HIDE DEF g
<1>3. CASE i \in Adds(log, d)
  <2>1. d \notin SettledSet /\ \A j \in Changes(log, d) : i <= j BY <1>3 DEF AddedFirst
  <2>2. i \in 1..Len(log) BY <1>2, <1>3 DEF Adds
  <2>3. i <= k BY <1>0, <2>2
  <2>4. QED BY <1>1, <2>1, <2>3
<1>4. CASE i = k /\ f.kind = "add" /\ f.subject = d
  <2>1. Changes(log, d) = {} /\ d \notin SettledSet BY <1>4
  <2>2. i <= k BY <1>0, <1>4
  <2>3. QED BY <1>1, <2>1, <2>2
<1>5. QED BY <1>1, <1>3, <1>4

(* The ordered frames are counted.                                            *)
LEMMA CountAppend ==
    ASSUME NEW log \in Seq(Frame), NEW f \in Frame
    PROVE  /\ Cardinality(OrderedIn(log)) \in Nat
           /\ Cardinality(OrderedIn(Append(log, f))) =
                 Cardinality(OrderedIn(log)) + (IF IsOrdered(f) THEN 1 ELSE 0)
<1> DEFINE g == Append(log, f)
           k == Len(log) + 1
           S == OrderedIn(log)
<1>1. /\ Len(log) \in Nat /\ Len(g) = k /\ g[k] = f
      /\ \A j \in 1..Len(log) : g[j] = log[j]
      /\ \A j \in 1..k : j \in 1..Len(log) \/ j = k
      /\ \A j \in 1..Len(log) : j \in 1..k
      /\ k \in 1..k /\ k \notin 1..Len(log)
    BY AppendShape, LogShape
<1>2. IsFiniteSet(S)
  <2>1. IsFiniteSet(1..Len(log)) BY <1>1, FS_Interval
  <2>2. S \subseteq 1..Len(log) BY DEF OrderedIn
  <2>3. QED BY <2>1, <2>2, FS_Subset
<1>3. Cardinality(S) \in Nat BY <1>2, FS_CardinalityType
<1>4. k \notin S BY <1>1 DEF OrderedIn
<1> HIDE DEF g
<1>5. OrderedIn(g) = IF IsOrdered(f) THEN S \cup {k} ELSE S
    BY <1>1 DEF OrderedIn
<1> HIDE DEF S, k
<1>6. CASE IsOrdered(f)
  <2>1. Cardinality(S \cup {k}) = Cardinality(S) + 1 BY <1>2, <1>4, FS_AddElement
  <2>2. QED BY <1>3, <1>5, <1>6, <2>1 DEF S, g
<1>7. CASE ~IsOrdered(f) BY <1>3, <1>5, <1>7 DEF S, g
<1>8. QED BY <1>6, <1>7

(* The leaves of the tree once a frame is accepted.                           *)
LEMMA RosterAppend ==
    ASSUME NEW r, NEW s, NEW f \in Frame, r.accepted \in Seq(Frame),
           s.accepted = Append(r.accepted, f)
    PROVE  \A d \in Roster(s) : d \in Roster(r) \/ (f.kind = "add" /\ f.subject = d)
<1> SUFFICES ASSUME NEW d \in Roster(s), ~(f.kind = "add" /\ f.subject = d)
             PROVE  d \in Roster(r)
    OBVIOUS
<1> DEFINE log == r.accepted
           g == s.accepted
           k == Len(log) + 1
<1>0. d \in Device BY DEF Roster
<1>1. /\ Len(log) \in Nat /\ Len(g) = k /\ g[k] = f
      /\ \A j \in 1..Len(log) : g[j] = log[j]
    BY AppendShape, LogShape
<1>2. Changes(g, d) = Changes(log, d) \cup
          (IF f.kind \in {"add", "remove"} /\ f.subject = d THEN {k} ELSE {})
    BY <1>0, AppendChanges
<1>3. IF Changes(g, d) = {} THEN d \in SettledSet
      ELSE \E i \in Changes(g, d) : g[i].kind = "add" /\ \A j \in Changes(g, d) : j <= i
    BY DEF Roster, Changes
<1>4. SUFFICES IF Changes(log, d) = {} THEN d \in SettledSet
      ELSE \E i \in Changes(log, d) : log[i].kind = "add" /\ \A j \in Changes(log, d) : j <= i
    BY <1>0 DEF Roster, Changes
<1> HIDE DEF g, log
<1>5. \A i \in Changes(log, d) : i \in 1..Len(log) BY DEF Changes
<1>6. CASE f.kind = "remove" /\ f.subject = d
  <2>1. k \in Changes(g, d) BY <1>2, <1>6
  <2>2. PICK i \in Changes(g, d) : g[i].kind = "add" /\ \A j \in Changes(g, d) : j <= i
      BY <1>3, <2>1
  <2>3. i \in 1..Len(log) \/ i = k BY <1>2, <1>5
  <2>4. i = k BY <1>1, <2>1, <2>2, <2>3
  <2>5. QED BY <1>1, <1>6, <2>2, <2>4
<1>7. CASE ~(f.kind \in {"add", "remove"} /\ f.subject = d)
  <2>1. Changes(g, d) = Changes(log, d) BY <1>2, <1>7
  <2>2. QED BY <1>1, <1>3, <1>5, <2>1
<1>8. QED BY <1>6, <1>7

(****************************************************************************)
(* Rooms.                                                                   *)
(****************************************************************************)
LogInv(r) ==
    /\ \A d \in Device : Sound(r.accepted, d, r.members[d])
    /\ Uninterrupted(r.accepted)
    /\ AddedFirst(r.accepted)
    /\ r.nextOrder = Cardinality(OrderedIn(r.accepted)) + 1

(* LeafAccounted.                                                             *)
Accounted(r) ==
    r.lifecycle = "open" =>
        \A d \in Roster(r) : Covered(r.members[d]) \/ d \in Listed(r.zombies)

(* Whoever is given an order is given the next one.                           *)
OrderNext(r) ==
    /\ r.grant.device # NoDevice => r.grant.order = r.nextOrder
    /\ r.application.from # NoDevice => r.application.order = r.nextOrder

(* The inductive invariant of the log, beside the one of the order.           *)
Right(r) == Kept(r) /\ LogInv(r) /\ Accounted(r) /\ OrderNext(r)

(* What a transition may do to what the group has accepted and the devices    *)
(* have read.                                                                 *)
Rests(r, s) ==
    /\ s.accepted = r.accepted
    /\ \A d \in Device : s.members[d].acked = r.members[d].acked

(* One device acknowledges a prefix of its backlog.                           *)
ReadsSome(r, s) ==
    /\ s.accepted = r.accepted
    /\ \E d \in Device, k \in Nat :
          /\ k <= Len(r.members[d].backlog)
          /\ Reads(r.members[d], s.members[d], k)
          /\ \A e \in Device \ {d} : s.members[e].acked = r.members[e].acked

(* One frame is accepted; under the barrier, only the removal that is due.    *)
Publishes(r, s) ==
    /\ \A d \in Device : s.members[d].acked = r.members[d].acked
    /\ \E f \in Frame :
          /\ s.accepted = Append(r.accepted, f)
          /\ f.order = IF IsOrdered(f) THEN r.nextOrder ELSE 0
          /\ RemovalBarrier(r) =>
                r.removal = 0 /\ f.kind = "remove" /\ f.from = r.host
                /\ IsHead(r.zombies, f.subject)

(* Nothing else happens to the log and to what is read of it.                 *)
Advances(r, s) == Rests(r, s) \/ ReadsSome(r, s) \/ Publishes(r, s)

(* Only the devices of D may lose their connection and keep their place.      *)
Connected(r, s, D) ==
    \A d \in Device \ D : s.members[d].conn = r.members[d].conn \/ Lost(s.members[d])

(* What an action does to a right room.                                       *)
Leads(r, s, D) == Right(s) /\ Advances(r, s) /\ Connected(r, s, D)

(* Nothing happens.                                                           *)
LEMMA LeadsRefl == ASSUME NEW r, Right(r), NEW D PROVE Leads(r, r, D)
BY DEF Leads, Advances, Rests, Connected

(* The parts of the invariant, by name.                                       *)
LEMMA RightShape ==
    ASSUME NEW r, Right(r)
    PROVE  /\ r \in Room /\ Kept(r) /\ Fit(r) /\ LogInv(r) /\ Accounted(r) /\ OrderNext(r)
           /\ r.accepted \in Seq(Frame) /\ Len(r.accepted) \in Nat
           /\ \A d \in Device : r.members[d] \in Member /\ Sound(r.accepted, d, r.members[d])
<1>1. r \in Room /\ LogInv(r) BY DEF Right, Kept
<1>2. r.accepted \in Seq(Frame) /\ \A d \in Device : r.members[d] \in Member
    BY <1>1 DEF Room
<1>3. \A d \in Device : Sound(r.accepted, d, r.members[d]) BY <1>1 DEF LogInv
<1>4. Fit(r) BY <1>3 DEF Fit, Sound
<1>5. QED BY <1>1, <1>2, <1>3, <1>4, LogShape DEF Right

(* What was handed out before is given back or kept, never changed.           *)
LEMMA ShrinksOrder ==
    ASSUME NEW r, NEW s, OrderNext(r), Shrinks(r, s), s.nextOrder = r.nextOrder
    PROVE  OrderNext(s)
BY DEF OrderNext, Shrinks, NoGrant, NoApplication

(* A helper that feeds no frame leaves the log as true as it was.             *)
LEMMA EasesRight ==
    ASSUME NEW r, NEW s, Right(r), Good(r, s), Eases(r, s)
    PROVE  Right(s)
<1>1. Kept(s) BY GoodKept DEF Right
<1>2. /\ s.accepted = r.accepted /\ s.nextOrder = r.nextOrder
      /\ \A d \in Device : Helped(r.members[d], s.members[d], 0)
    BY DEF Eases, Keeps
<1>3. \A d \in Device : Sound(s.accepted, d, s.members[d])
    BY <1>2, SoundHelped DEF Right, LogInv
<1>4. LogInv(s) BY <1>2, <1>3 DEF Right, LogInv
<1>5. Roster(s) = Roster(r) BY <1>2 DEF Roster
<1>6. Accounted(s)
  <2> SUFFICES ASSUME s.lifecycle = "open", NEW d \in Roster(s)
               PROVE  Covered(s.members[d]) \/ d \in Listed(s.zombies)
      BY DEF Accounted
  <2>1. r.lifecycle = "open" /\ d \in Roster(r) /\ d \in Device
      BY <1>5 DEF Eases, Keeps, Roster
  <2>2. Covered(r.members[d]) \/ d \in Listed(r.zombies)
      BY <2>1 DEF Right, Accounted
  <2>3. QED BY <2>1, <2>2 DEF Eases, Keeps
<1>7. OrderNext(s) BY <1>2, ShrinksOrder DEF Right, Good
<1>8. QED BY <1>1, <1>4, <1>6, <1>7 DEF Right

(* ... and takes no connection but with the place.                            *)
LEMMA EasesLeads ==
    ASSUME NEW r, NEW s, Right(s), Eases(r, s)
    PROVE  Leads(r, s, {})
<1>1. /\ s.accepted = r.accepted
      /\ \A d \in Device : Helped(r.members[d], s.members[d], 0)
    BY DEF Eases, Keeps
<1>2. Rests(r, s) BY <1>1 DEF Rests, Helped, Gone, Stays
<1>3. Connected(r, s, {}) BY <1>1 DEF Connected, Helped
<1>4. QED BY <1>2, <1>3 DEF Leads, Advances

(* The order is passed on.                                                    *)
LEMMA IssueRight ==
    ASSUME NEW r, Right(r) PROVE Right(IssueNextGrant(r)) /\ Eases(r, IssueNextGrant(r))
<1> DEFINE s == IssueNextGrant(r)
<1>1. r \in Room BY DEF Right, Kept
<1>2. Eases(r, s) /\ Kept(s) BY <1>1, IssueEases, IssueKept DEF Right
<1>3. /\ s.members = r.members /\ s.zombies = r.zombies /\ s.lifecycle = r.lifecycle
      /\ s.accepted = r.accepted /\ s.nextOrder = r.nextOrder
      /\ s.application = r.application
      /\ s.grant = r.grant \/ s.grant.order = r.nextOrder
    BY <1>1 DEF IssueNextGrant, Room
<1> HIDE DEF s
<1>4. LogInv(s) BY <1>3 DEF Right, LogInv
<1>5. Roster(s) = Roster(r) BY <1>3 DEF Roster
<1>6. Accounted(s) BY <1>3, <1>5 DEF Right, Accounted
<1>7. OrderNext(s) BY <1>3 DEF Right, OrderNext
<1>8. QED BY <1>2, <1>4, <1>6, <1>7 DEF Right, s

(* A change of what is neither a member nor the log.                          *)
LEMMA SameLeads ==
    ASSUME NEW r, NEW s, NEW t, NEW D, Leads(r, s, D), Right(t),
           t.members = s.members, t.accepted = s.accepted
    PROVE  Leads(r, t, D)
<1>1. Connected(r, t, D) BY DEF Leads, Connected
<1>2. Advances(r, t) BY DEF Leads, Advances, Rests, ReadsSome, Publishes
<1>3. QED BY <1>1, <1>2 DEF Leads

(* The order may be passed on at the end of any transition.                   *)
LEMMA IssueLeads ==
    ASSUME NEW r, NEW s, NEW D, Leads(r, s, D)
    PROVE  Leads(r, IssueNextGrant(s), D)
<1> DEFINE t == IssueNextGrant(s)
<1>1. Right(s) /\ s \in Room BY DEF Leads, Right, Kept
<1>2. Right(t) BY <1>1, IssueRight
<1>3. t.members = s.members /\ t.accepted = s.accepted
    BY <1>1 DEF IssueNextGrant, Room
<1> HIDE DEF t
<1>4. Leads(r, t, D) BY <1>2, <1>3, SameLeads
<1>5. QED BY <1>4 DEF t

(* A helper, and what follows from it.                                        *)
LEMMA EasesIssueLeads ==
    ASSUME NEW r, NEW s, Right(s), Eases(r, s)
    PROVE  Leads(r, s, {}) /\ Leads(r, IssueNextGrant(s), {})
BY EasesLeads, IssueLeads

(* A frame is accepted.                                                       *)
LEMMA PublishLeads ==
    ASSUME NEW r, Right(r), NEW s, Kept(s), NEW f \in Frame,
           s.accepted = Append(r.accepted, f), Continues(r.accepted, f),
           \A d \in Device : f.kind = "add" /\ f.subject = d =>
               d \notin SettledSet /\ Changes(r.accepted, d) = {},
           s.nextOrder = r.nextOrder + (IF IsOrdered(f) THEN 1 ELSE 0),
           f.order = IF IsOrdered(f) THEN r.nextOrder ELSE 0,
           RemovalBarrier(r) =>
               r.removal = 0 /\ f.kind = "remove" /\ f.from = r.host
               /\ IsHead(r.zombies, f.subject),
           \A d \in Device : Sound(s.accepted, d, s.members[d]),
           \A d \in Device : s.members[d].acked = r.members[d].acked,
           s.lifecycle = "open" =>
               /\ r.lifecycle = "open" /\ Listed(r.zombies) \subseteq Listed(s.zombies)
               /\ \A d \in Device : Covered(r.members[d]) \/ (f.kind = "add" /\ f.subject = d) =>
                      Covered(s.members[d]) \/ d \in Listed(s.zombies),
           OrderNext(s), Connected(r, s, {})
    PROVE  Leads(r, s, {})
<1>1. r.accepted \in Seq(Frame) /\ LogInv(r) /\ Accounted(r) BY RightShape
<1>2. Uninterrupted(s.accepted) BY <1>1, UninterruptedAppend DEF LogInv
<1>3. AddedFirst(s.accepted) BY <1>1, AddedFirstAppend DEF LogInv
<1>4. s.nextOrder = Cardinality(OrderedIn(s.accepted)) + 1
  <2> DEFINE c == Cardinality(OrderedIn(r.accepted))
             k == Cardinality(OrderedIn(s.accepted))
             x == IF IsOrdered(f) THEN 1 ELSE 0
  <2>1. c \in Nat /\ k = c + x BY <1>1, CountAppend
  <2>2. r.nextOrder = c + 1 BY <1>1 DEF LogInv
  <2>3. x \in Nat OBVIOUS
  <2> HIDE DEF c, k
  <2>4. s.nextOrder = k + 1 BY <2>1, <2>2, <2>3
  <2>5. QED BY <2>4 DEF k
<1>5. LogInv(s) BY <1>2, <1>3, <1>4 DEF LogInv
<1>6. Accounted(s)
  <2> SUFFICES ASSUME s.lifecycle = "open", NEW d \in Roster(s)
               PROVE  Covered(s.members[d]) \/ d \in Listed(s.zombies)
      BY DEF Accounted
  <2>1. d \in Device BY DEF Roster
  <2>2. d \in Roster(r) \/ (f.kind = "add" /\ f.subject = d) BY <1>1, RosterAppend
  <2>3. d \in Roster(r) => Covered(r.members[d]) \/ d \in Listed(r.zombies)
      BY <1>1 DEF Accounted
  <2>4. QED BY <2>1, <2>2, <2>3
<1>7. Publishes(r, s)
  <2>1. \A d \in Device : s.members[d].acked = r.members[d].acked OBVIOUS
  <2>2. QED BY <2>1 DEF Publishes
<1>8. QED BY <1>5, <1>6, <1>7 DEF Leads, Right, Advances

(* A frame is recorded, delivered to the group and answered, and the order is *)
(* passed on.  q is the room in which its sender's grant is already spent.    *)
LEMMA AcceptLeads ==
    ASSUME NEW r, Right(r), NEW q, Kept(q),
           q.accepted = r.accepted, q.zombies = r.zombies, q.lifecycle = r.lifecycle,
           q.grant.device = NoDevice, q.application.from = NoDevice,
           NEW kind \in AcceptedKind, NEW from \in Device, NEW subject \in OptDevice,
           NEW order \in Nat,
           NEW f, f = [kind |-> kind, from |-> from, subject |-> subject, order |-> order],
           Continues(r.accepted, f),
           \A d \in Device : kind = "add" /\ subject = d =>
               d \notin SettledSet /\ Changes(r.accepted, d) = {},
           q.nextOrder = r.nextOrder + (IF IsOrdered(f) THEN 1 ELSE 0),
           order = IF IsOrdered(f) THEN r.nextOrder ELSE 0,
           RemovalBarrier(r) =>
               r.removal = 0 /\ kind = "remove" /\ from = r.host /\ IsHead(r.zombies, subject),
           \A d \in Device :
               /\ q.members[d].conn = r.members[d].conn
               /\ q.members[d].acked = r.members[d].acked
               /\ Covered(r.members[d]) \/ (kind = "add" /\ subject = d) =>
                      Covered(q.members[d]),
           \A d \in Device, n \in Member :
               Helped(q.members[d], n,
                      IF d \in Reached(q, Device) THEN Len(r.accepted) + 1 ELSE 0) =>
                   Sound(Append(r.accepted, f), d, n),
           Fit(q)
    PROVE  LET s == Accept(q, kind, from, subject, order) IN
           Leads(r, s, {}) /\ Leads(r, IssueNextGrant(s), {})
<1> DEFINE s == Accept(q, kind, from, subject, order)
           rec == Record(q, kind, from, subject, order)
           i == Len(r.accepted) + 1
<1>1. q \in Room /\ Good(q, s) /\ Kept(s)
  <2>1. q \in Room BY DEF Kept
  <2>2. QED BY <2>1, AcceptGood, GoodKept
<1>2. Keeps(rec, s, Reached(q, Device), i, {}) BY <1>1, AcceptKeeps
<1>3. /\ rec.members = q.members /\ rec.zombies = q.zombies
      /\ rec.lifecycle = q.lifecycle /\ rec.nextOrder = q.nextOrder
      /\ rec.accepted = Append(q.accepted, f)
    BY <1>1 DEF Record, Room
<1> HIDE DEF s, rec
<1>4. s.accepted = Append(r.accepted, f) /\ s.nextOrder = q.nextOrder
    BY <1>2, <1>3 DEF Keeps
<1>5. \A d \in Device : s.members[d] \in Member BY <1>1 DEF Kept, Room
<1>6. \A d \in Device :
          Helped(q.members[d], s.members[d], IF d \in Reached(q, Device) THEN i ELSE 0)
    BY <1>2, <1>3 DEF Keeps
<1>7. \A d \in Device : Sound(s.accepted, d, s.members[d])
    BY <1>4, <1>5, <1>6
<1>8. \A d \in Device : s.members[d].acked = r.members[d].acked
    BY <1>6 DEF Helped, Gone, Stays
<1>9. Connected(r, s, {}) BY <1>6 DEF Connected, Helped
<1>10. OrderNext(s)
    BY <1>1 DEF Good, Shrinks, OrderNext, NoGrant, NoApplication
<1>11. f \in Frame /\ f.kind = kind /\ f.from = from /\ f.subject = subject /\ f.order = order
    BY DEF Frame, OptDevice
<1>12. s.lifecycle = "open" =>
           /\ r.lifecycle = "open" /\ Listed(r.zombies) \subseteq Listed(s.zombies)
           /\ \A d \in Device : Covered(r.members[d]) \/ (f.kind = "add" /\ f.subject = d) =>
                  Covered(s.members[d]) \/ d \in Listed(s.zombies)
    BY <1>2, <1>3, <1>11 DEF Keeps
<1>13. Leads(r, s, {})
  <2> HIDE DEF i
  <2>1. /\ \A d \in Device : f.kind = "add" /\ f.subject = d =>
               d \notin SettledSet /\ Changes(r.accepted, d) = {}
        /\ s.nextOrder = r.nextOrder + (IF IsOrdered(f) THEN 1 ELSE 0)
        /\ f.order = IF IsOrdered(f) THEN r.nextOrder ELSE 0
        /\ RemovalBarrier(r) =>
               r.removal = 0 /\ f.kind = "remove" /\ f.from = r.host
               /\ IsHead(r.zombies, f.subject)
      BY <1>4, <1>11
  <2>2. QED BY <1>1, <1>4, <1>7, <1>8, <1>9, <1>10, <1>11, <1>12, <2>1, PublishLeads
<1>14. QED BY <1>13, IssueLeads DEF s

(* A leaf of the tree is a device that was there.                             *)
LEMMA RosterBorn ==
    ASSUME NEW r, Right(r), NEW d \in Roster(r)
    PROVE  ~Unborn(r.members[d])
<1>1. d \in Device BY DEF Roster
<1>2. Sound(r.accepted, d, r.members[d]) BY <1>1, RightShape
<1>3. ASSUME Unborn(r.members[d]) PROVE FALSE
  <2>1. Changes(r.accepted, d) = {} BY <1>2, <1>3 DEF Sound
  <2>2. d \notin SettledSet BY <1>1, <1>2, <1>3, UnbornIdle
  <2>3. QED BY <2>1, <2>2 DEF Roster, Changes
<1>4. QED BY <1>3

(* While nobody's Add waits to be completed, the group accepts a frame that   *)
(* changes no admission.                                                      *)
LEMMA PlainLeads ==
    ASSUME NEW r, Right(r), NEW q, Kept(q),
           q.accepted = r.accepted, q.zombies = r.zombies, q.lifecycle = r.lifecycle,
           q.members = r.members,
           q.grant.device = NoDevice, q.application.from = NoDevice,
           AdmissionBarrier(r) = {},
           NEW kind \in {"application", "accept", "commit", "remove"}, NEW from \in Device,
           NEW subject \in OptDevice, kind = "remove" => subject \in Roster(r),
           NEW order \in Nat,
           LET one == IF kind \in {"application", "accept"} THEN 1 ELSE 0 IN
               /\ q.nextOrder = r.nextOrder + one
               /\ order = IF one = 1 THEN r.nextOrder ELSE 0,
           RemovalBarrier(r) =>
               r.removal = 0 /\ kind = "remove" /\ from = r.host /\ IsHead(r.zombies, subject)
    PROVE  LET s == Accept(q, kind, from, subject, order) IN
           Leads(r, s, {}) /\ Leads(r, IssueNextGrant(s), {})
<1> DEFINE f == [kind |-> kind, from |-> from, subject |-> subject, order |-> order]
           log == r.accepted
<1>1. /\ log \in Seq(Frame) /\ Fit(q)
      /\ \A d \in Device : r.members[d] \in Member /\ Sound(log, d, r.members[d])
    BY RightShape DEF Fit
<1>2. kind \in AcceptedKind /\ kind \notin {"add", "bootstrap", "join-proof"}
    BY DEF AcceptedKind
<1>3. f \in Frame /\ f.kind = kind /\ f.from = from /\ f.subject = subject
    BY <1>2 DEF Frame, OptDevice
<1>4. IsOrdered(f) <=> kind \in {"application", "accept"} BY <1>2, <1>3 DEF IsOrdered
<1> HIDE DEF f
<1>5. Continues(log, f) BY <1>2, <1>3 DEF Continues
<1>6. \A d \in Device : r.members[d].phase = "none" \/ ~r.members[d].added
    BY Zenon DEF AdmissionBarrier, InAdmission
<1>7. ASSUME NEW d \in Device, NEW n \in Member,
             Helped(q.members[d], n, IF d \in Reached(q, Device) THEN Len(log) + 1 ELSE 0)
      PROVE  Sound(Append(log, f), d, n)
  <2> DEFINE m == r.members[d]
  <2>1. m \in Member /\ Sound(log, d, m) /\ (m.phase = "none" \/ ~m.added) BY <1>1, <1>6
  <2>2. Helped(m, n, IF Established(m) /\ ~m.fresh THEN Len(log) + 1 ELSE 0)
      BY <1>7 DEF Reached
  <2>3. f.from = d => f.kind # "bootstrap" BY <1>2, <1>3
  <2>4. f.kind \in {"add", "remove"} /\ f.subject = d => f.kind # "add" /\ ~Unborn(m)
      BY <1>2, <1>3, RosterBorn
  <2> HIDE DEF m
  <2>5. QED BY <1>1, <1>3, <2>1, <2>2, <2>3, <2>4, SoundAppend
<1>8. /\ q.nextOrder = r.nextOrder + (IF IsOrdered(f) THEN 1 ELSE 0)
      /\ order = IF IsOrdered(f) THEN r.nextOrder ELSE 0
    BY <1>4
<1>9. QED
    BY <1>1, <1>2, <1>5, <1>7, <1>8, AcceptLeads DEF f

(****************************************************************************)
(* The actions.                                                             *)
(****************************************************************************)
(* A transition that runs the reducer, stored or not.                         *)
LEMMA HandledLeads ==
    ASSUME NEW r, Right(r), NEW new, NEW D, Leads(r, new, D), NEW s \in {r, new}
    PROVE  Leads(r, s, D)
BY LeadsRefl

(* What follows from a helper that feeds no frame.                            *)
LEMMA HelperLeads ==
    ASSUME NEW r, Right(r), NEW s, Good(r, s), Eases(r, s)
    PROVE  Leads(r, s, {}) /\ Leads(r, IssueNextGrant(s), {})
BY EasesRight, EasesIssueLeads

(* Orders are counted from one.                                               *)
LEMMA NextPositive ==
    ASSUME NEW r, Right(r), NEW h \in Device PROVE r.nextOrder \in Nat /\ r.nextOrder # 0
<1> DEFINE f == [kind |-> "commit", from |-> h, subject |-> NoDevice, order |-> 0]
<1>1. f \in Frame BY DEF Frame, AcceptedKind, OptDevice
<1> HIDE DEF f
<1>2. Cardinality(OrderedIn(r.accepted)) \in Nat BY <1>1, RightShape, CountAppend
<1>3. r.nextOrder = Cardinality(OrderedIn(r.accepted)) + 1 BY DEF Right, LogInv
<1> HIDE DEF OrderedIn
<1>4. QED BY <1>2, <1>3

(* The room once the grant of the frame's sender is spent: nobody holds the   *)
(* order.                                                                     *)
LEMMA SpentShape ==
    ASSUME NEW r, Right(r), NEW h \in Device, r.grant.device = h
    PROVE  LET q == Spent(r) IN
           /\ Right(q) /\ Good(r, q) /\ Eases(r, q)
           /\ q.accepted = r.accepted /\ q.zombies = r.zombies /\ q.lifecycle = r.lifecycle
           /\ q.members = r.members /\ q.nextOrder = r.nextOrder /\ q.removal = r.removal
           /\ q.grant.device = NoDevice /\ q.grant = NoGrant
           /\ q.application = r.application /\ q.application.from = NoDevice
           /\ r.grant.order = r.nextOrder /\ r.nextOrder \in Nat /\ r.nextOrder # 0
<1> DEFINE q == Spent(r)
<1>1. r \in Room /\ Kept(r) /\ OrderNext(r) /\ LogInv(r) /\ r.accepted \in Seq(Frame)
    BY RightShape
<1>2. Good(r, q) /\ Eases(r, q) BY <1>1, SpentGood, WithdrawnEases
<1>3. /\ q.accepted = r.accepted /\ q.zombies = r.zombies /\ q.lifecycle = r.lifecycle
      /\ q.members = r.members /\ q.nextOrder = r.nextOrder /\ q.removal = r.removal
      /\ q.grant = NoGrant /\ q.application = r.application
    BY <1>1 DEF Spent, Room
<1> HIDE DEF q
<1>4. Right(q) BY <1>2, EasesRight
<1>5. r.grant.device # NoDevice BY DeviceAssumption
<1>6. r.application.from = NoDevice BY <1>1, <1>5 DEF Kept, Auth
<1>7. r.grant.order = r.nextOrder BY <1>1, <1>5 DEF OrderNext
<1>8. r.nextOrder \in Nat /\ r.nextOrder # 0 BY NextPositive
<1>9. q.grant.device = NoDevice BY <1>3 DEF NoGrant
<1>10. QED BY <1>2, <1>3, <1>4, <1>6, <1>7, <1>8, <1>9 DEF q

(* A device asks for the order.                                               *)
LEMMA OrderRequestLeads ==
    ASSUME Right(room), NEW d \in Device, OrderRequest(d) PROVE Leads(room, room', {})
<1> DEFINE q == ExpireGrant(room)
           f == Enqueue(q.queue, d)
           s == [q EXCEPT !.queue = f]
<1>1. room \in Room BY RightShape
<1>2. Good(room, q) /\ Eases(room, q) BY <1>1, ExpireGrantGood, WithdrawnEases
<1>3. room' \in {room, IssueNextGrant(s)} BY DEF OrderRequest, Handled, Commit
<1> HIDE DEF q
<1>4. q \in Room BY <1>2 DEF Good
<1>5. f \in [Device -> Nat] BY <1>4, FifoTypes DEF Room
<1> HIDE DEF f
<1>6. /\ s \in Room /\ s.members = q.members /\ s.zombies = q.zombies
      /\ s.accepted = q.accepted /\ s.nextOrder = q.nextOrder
      /\ s.lifecycle = q.lifecycle
      /\ s.grant = q.grant /\ s.application = q.application /\ s.commit = q.commit
    BY <1>4, <1>5 DEF Room
<1> HIDE DEF s
<1>7. Good(q, s) /\ Eases(q, s) BY <1>4, <1>6, HoldersChange, SameKeeps
<1>8. Good(room, s) /\ Eases(room, s) BY <1>2, <1>7, GoodTrans, EasesTrans
<1>9. Leads(room, IssueNextGrant(s), {}) BY <1>8, HelperLeads
<1>10. QED BY <1>3, <1>9, HandledLeads

(* The host updates its keys.                                                 *)
LEMMA HostUpdateLeads ==
    ASSUME Right(room), NEW h \in Device, HostUpdate(h) PROVE Leads(room, room', {})
<1> DEFINE q == Spent(room)
           s == IssueNextGrant(Accept(q, "commit", h, NoDevice, 0))
<1>1. room' \in {room, s} /\ room.grant.device = h /\ AdmissionBarrier(room) = {}
      /\ ~RemovalBarrier(room)
    BY DEF HostUpdate, Handled, Commit, HostMayCommit, Holds, NoBarrier
<1>2. /\ Right(q) /\ Kept(q)
      /\ q.accepted = room.accepted /\ q.zombies = room.zombies
      /\ q.lifecycle = room.lifecycle /\ q.members = room.members
      /\ q.nextOrder = room.nextOrder /\ room.nextOrder \in Nat
      /\ q.grant.device = NoDevice /\ q.application.from = NoDevice
    BY <1>1, SpentShape DEF Right
<1> HIDE DEF q
<1>3. NoDevice \in OptDevice BY DEF OptDevice
<1>4. Leads(room, s, {}) BY <1>1, <1>2, <1>3, PlainLeads
<1>5. QED BY <1>1, <1>4, HandledLeads

(* The host removes a device of its choice: the device loses its place in the *)
(* tree, not yet in the relay.                                                *)
LEMMA HostRemoveLeads ==
    ASSUME Right(room), NEW h \in Device, HostRemove(h) PROVE Leads(room, room', {})
<1> DEFINE q == Spent(room)
<1>1. PICK d \in Roster(room) \ {h} :
          Handled("commit", IssueNextGrant(Accept(q, "remove", h, d, 0)))
    BY DEF HostRemove
<1> DEFINE s == IssueNextGrant(Accept(q, "remove", h, d, 0))
<1>2. room' \in {room, s} /\ room.grant.device = h /\ AdmissionBarrier(room) = {}
      /\ ~RemovalBarrier(room)
    BY <1>1 DEF HostRemove, Handled, Commit, HostMayCommit, Holds, NoBarrier
<1>3. /\ Right(q) /\ Kept(q)
      /\ q.accepted = room.accepted /\ q.zombies = room.zombies
      /\ q.lifecycle = room.lifecycle /\ q.members = room.members
      /\ q.nextOrder = room.nextOrder /\ room.nextOrder \in Nat
      /\ q.grant.device = NoDevice /\ q.application.from = NoDevice
    BY <1>2, SpentShape DEF Right
<1> HIDE DEF q
<1>4. d \in OptDevice BY DEF OptDevice, Roster
<1>5. Leads(room, s, {}) BY <1>2, <1>3, <1>4, PlainLeads
<1>6. QED BY <1>2, <1>5, HandledLeads

(* Under the barrier the host removes the device at the head of the markers.  *)
LEMMA HostRemoveMarkedLeads ==
    ASSUME Right(room), NEW h \in Device, HostRemoveMarked(h) PROVE Leads(room, room', {})
<1> DEFINE p == Spent(room)
           q == [p EXCEPT !.removal = Len(room.accepted) + 1]
<1>1. PICK d \in Roster(room) :
          /\ IsHead(room.zombies, d)
          /\ Handled("commit", IssueNextGrant(Accept(q, "remove", h, d, 0)))
    BY DEF HostRemoveMarked
<1> DEFINE s == IssueNextGrant(Accept(q, "remove", h, d, 0))
<1>2. room' \in {room, s} /\ room.grant.device = h /\ h = room.host
      /\ RemovalBarrier(room) /\ room.removal = 0
    BY <1>1 DEF HostRemoveMarked, Handled, Commit, HostMayCommit, Holds, HostReady
<1>3. /\ Right(p) /\ Kept(p) /\ p \in Room
      /\ p.accepted = room.accepted /\ p.zombies = room.zombies
      /\ p.lifecycle = room.lifecycle /\ p.members = room.members
      /\ p.nextOrder = room.nextOrder /\ room.nextOrder \in Nat
      /\ p.grant.device = NoDevice /\ p.application.from = NoDevice
    BY <1>2, SpentShape DEF Right, Kept
<1>4. Len(room.accepted) + 1 \in Nat BY RightShape
<1> HIDE DEF p
<1>5. /\ q \in Room /\ q.members = p.members /\ q.zombies = p.zombies
      /\ q.accepted = p.accepted /\ q.lifecycle = p.lifecycle /\ q.nextOrder = p.nextOrder
      /\ q.grant = p.grant /\ q.application = p.application /\ q.commit = p.commit
    BY <1>3, <1>4 DEF Room
<1> HIDE DEF q
<1>6. Kept(q) BY <1>3, <1>5, HoldersChange, GoodKept
<1>7. AdmissionBarrier(room) = {}
  <2>1. InAdmission(room) = {} BY <1>2 DEF Right, Kept, BarrierAlone
  <2>2. QED BY <2>1 DEF AdmissionBarrier
<1>8. d \in OptDevice BY DEF OptDevice, Roster
<1>9. Leads(room, s, {}) BY <1>1, <1>2, <1>3, <1>5, <1>6, <1>7, <1>8, PlainLeads
<1>10. QED BY <1>2, <1>9, HandledLeads

(* The host adds the device that joins: from here on it is owed every frame.  *)
LEMMA HostAddLeads ==
    ASSUME Right(room), NEW h \in Device, HostAdd(h) PROVE Leads(room, room', {})
<1> DEFINE p == Spent(room)
           k == Len(room.accepted) + 1
           new(a) == [p EXCEPT !.members[a] = [@ EXCEPT !.added = TRUE, !.since = k],
                               !.queue = EmptyFifo]
<1>1. PICK a \in InAdmission(room) :
          /\ room.members[a].status = "pending" /\ room.members[a].phase = "awaiting-welcome"
          /\ Handled("commit", IssueNextGrant(Accept(new(a), "add", h, a, 0)))
    BY DEF HostAdd
<1> DEFINE q == new(a)
           s == IssueNextGrant(Accept(q, "add", h, a, 0))
           m == [room.members[a] EXCEPT !.added = TRUE, !.since = k]
           log == room.accepted
           f == [kind |-> "add", from |-> h, subject |-> a, order |-> 0]
<1>2. room' \in {room, s} /\ room.grant.device = h /\ a \in Device /\ a \in OptDevice
      /\ AdmissionBarrier(room) = {} /\ ~RemovalBarrier(room)
    BY <1>1 DEF HostAdd, Handled, Commit, HostMayCommit, Holds,
           NoBarrier, InAdmission, OptDevice
<1>3. /\ Right(p) /\ Kept(p) /\ p \in Room
      /\ p.accepted = room.accepted /\ p.zombies = room.zombies
      /\ p.lifecycle = room.lifecycle /\ p.members = room.members
      /\ p.nextOrder = room.nextOrder /\ room.nextOrder \in Nat
      /\ p.grant.device = NoDevice /\ p.application.from = NoDevice
    BY <1>2, SpentShape DEF Right, Kept
<1>4. /\ k \in Nat /\ log \in Seq(Frame)
      /\ \A d \in Device : room.members[d] \in Member /\ Sound(log, d, room.members[d])
    BY RightShape
<1>5. ~room.members[a].added
    BY <1>2, Zenon DEF AdmissionBarrier
<1>6. a \notin SettledSet /\ Changes(log, a) = {}
    BY <1>1, <1>2, <1>4, <1>5, UnaddedShape
<1>7. /\ m \in Member /\ m.conn = room.members[a].conn /\ m.acked = room.members[a].acked
      /\ m.phase = "awaiting-welcome" /\ m.status = "pending" /\ m.added = TRUE
      /\ m.proofOrder = room.members[a].proofOrder
      /\ m.grace = room.members[a].grace /\ m.fresh = room.members[a].fresh
  <2> DEFINE l == room.members[a]
  <2>1. l \in Member /\ l.status = "pending" /\ l.phase = "awaiting-welcome" BY <1>1, <1>2, <1>4
  <2> HIDE DEF l, k
  <2>2. [l EXCEPT !.added = TRUE, !.since = k] \in Member BY <1>4, <2>1 DEF Member
  <2>3. LET o == [l EXCEPT !.added = TRUE, !.since = k]
        IN  /\ o.conn = l.conn /\ o.acked = l.acked /\ o.phase = l.phase
            /\ o.status = l.status /\ o.added = TRUE /\ o.proofOrder = l.proofOrder
            /\ o.grace = l.grace /\ o.fresh = l.fresh
      BY <2>1 DEF Member
  <2>4. QED BY <2>1, <2>2, <2>3 DEF l
<1>8. q = [p EXCEPT !.members[a] = m, !.queue = EmptyFifo] BY <1>3
<1> HIDE DEF p, new, q, m
<1>9. /\ q \in Room /\ q.zombies = room.zombies /\ q.accepted = log
      /\ q.lifecycle = room.lifecycle /\ q.nextOrder = room.nextOrder
      /\ q.grant = p.grant /\ q.application = p.application /\ q.commit = p.commit
      /\ \A d \in Device : q.members[d] = IF d = a THEN m ELSE room.members[d]
  <2>1. EmptyFifo \in [Device -> Nat] BY DEF EmptyFifo
  <2>2. QED BY <1>2, <1>3, <1>7, <1>8, <2>1 DEF Room
<1>10. Kept(q)
  <2>1. \A d \in Device : Reduced(p.members[d], q.members[d])
      BY <1>1, <1>2, <1>3, <1>7, <1>9 DEF Reduced
  <2>2. Good(p, q) BY <1>3, <1>9, <2>1, MembersGood
  <2>3. QED BY <1>3, <2>2, GoodKept
<1>11. /\ \A d \in Device : FitMember(room.members[d])
       /\ FitMember(m) /\ Covered(m) /\ ~Established(m)
  <2>1. \A d \in Device : FitMember(room.members[d]) BY <1>4 DEF Sound
  <2>2. FitMember(m) BY <1>1, <1>2, <1>7, <2>1 DEF FitMember
  <2>3. QED BY <1>7, <2>1, <2>2 DEF Covered, Established
<1>12. Fit(q) BY <1>9, <1>11 DEF Fit
<1>13. f \in Frame BY <1>2 DEF Frame, AcceptedKind
<1>14. ASSUME NEW d \in Device, NEW n \in Member,
              Helped(q.members[d], n, IF d \in Reached(q, Device) THEN Len(log) + 1 ELSE 0)
       PROVE  Sound(Append(log, f), d, n)
  <2>1. CASE d = a
    <3>1. d \notin Reached(q, Device) BY <1>9, <1>11, <2>1 DEF Reached
    <3>2. Helped(m, n, 0) BY <1>2, <1>9, <1>14, <2>1, <3>1
    <3>3. f.kind = "add" /\ f.subject = a OBVIOUS
    <3> HIDE DEF f
    <3>4. Sound(Append(log, f), a, n)
        BY <1>1, <1>2, <1>4, <1>5, <1>13, <3>2, <3>3, SoundAdded DEF m, k
    <3>5. QED BY <2>1, <3>4
  <2>2. CASE d # a
    <3> DEFINE l == room.members[d]
    <3>1. l \in Member /\ Sound(log, d, l) BY <1>4
    <3>2. l.phase = "none" \/ ~l.added BY <1>2, Zenon DEF AdmissionBarrier, InAdmission
    <3>3. Helped(l, n, IF Established(l) /\ ~l.fresh THEN Len(log) + 1 ELSE 0)
        BY <1>9, <1>14, <2>2 DEF Reached
    <3>4. f.kind = "add" /\ f.subject = a OBVIOUS
    <3> HIDE DEF f, l
    <3>5. QED BY <1>4, <1>13, <2>2, <3>1, <3>2, <3>3, <3>4, SoundAppend
  <2>3. QED BY <2>1, <2>2
<1>15. \A d \in Device :
           /\ q.members[d].conn = room.members[d].conn
           /\ q.members[d].acked = room.members[d].acked
           /\ Covered(room.members[d]) \/ ("add" = "add" /\ a = d) => Covered(q.members[d])
    BY <1>2, <1>7, <1>9, <1>11
<1>16. Continues(log, f) /\ ~IsOrdered(f) BY DEF Continues, IsOrdered
<1>17. Leads(room, s, {})
  <2> HIDE DEF s, k
  <2>1. "add" \in AcceptedKind /\ 0 \in Nat BY DEF AcceptedKind
  <2>2. q.nextOrder = room.nextOrder + (IF IsOrdered(f) THEN 1 ELSE 0)
        /\ 0 = (IF IsOrdered(f) THEN room.nextOrder ELSE 0)
      BY <1>3, <1>9, <1>16
  <2>3. q.grant.device = NoDevice /\ q.application.from = NoDevice BY <1>3, <1>9
  <2>4. QED
      BY <1>2, <1>6, <1>9, <1>10, <1>12, <1>14, <1>15, <1>16, <2>1, <2>2, <2>3, AcceptLeads
      DEF s, f
<1>18. QED BY <1>2, <1>17, HandledLeads

(* The host gives an admission up.                                            *)
LEMMA CancelAdmissionLeads ==
    ASSUME Right(room), NEW h \in Device, CancelAdmission(h) PROVE Leads(room, room', {})
<1>1. PICK a \in InAdmission(room) :
          Handled("cancel-admission", IssueNextGrant(RetireAdmission(room, a)))
    BY DEF CancelAdmission
<1> DEFINE s == RetireAdmission(room, a)
<1>2. room \in Room /\ Fit(room) /\ a \in Device BY RightShape DEF InAdmission
<1>3. Good(room, s) /\ Eases(room, s) BY <1>2, RetireAdmissionGood, RetireAdmissionKeeps
<1>4. room' \in {room, IssueNextGrant(s)} BY <1>1 DEF Handled, Commit
<1> HIDE DEF s
<1>5. Leads(room, IssueNextGrant(s), {}) BY <1>3, HelperLeads
<1>6. QED BY <1>4, <1>5, HandledLeads

(* A rejection follows a helper.                                              *)
LEMMA RejectionLeads ==
    ASSUME NEW r, Right(r), NEW q, Good(r, q), Eases(r, q), NEW d \in Device, NEW o \in Nat
    PROVE  LET s == Answer(q, d, RejectedEntry(o)) IN
           Good(r, s) /\ Eases(r, s) /\ Right(s)
<1> DEFINE s == Answer(q, d, RejectedEntry(o))
<1>1. Right(q) /\ q \in Room /\ Fit(q)
  <2>1. Right(q) BY EasesRight
  <2>2. QED BY <2>1, RightShape
<1>2. Good(q, s) /\ Eases(q, s) BY <1>1, RejectionEases, AnswerGood, EntryTypes
<1> HIDE DEF s
<1>3. Good(r, s) /\ Eases(r, s) BY <1>2, GoodTrans, EasesTrans
<1>4. Right(s) BY <1>3, EasesRight
<1>5. QED BY <1>3, <1>4 DEF s

(* The host rejects an application: its sender is told, nobody else.          *)
LEMMA RejectApplicationLeads ==
    ASSUME Right(room), NEW h \in Device, RejectApplication(h) PROVE Leads(room, room', {})
<1> DEFINE p == room.application
           q == [room EXCEPT !.application = NoApplication]
           t == Answer(q, p.from, RejectedEntry(p.order))
           s == [t EXCEPT !.transfer = IF p.accepts THEN NoTransfer ELSE @]
<1>1. room' \in {room, IssueNextGrant(s)} /\ p.from # NoDevice
    BY DEF RejectApplication, Handled, Commit
<1>2. room \in Room BY RightShape
<1>3. p.from \in Device /\ p.order \in Nat
    BY <1>1, <1>2 DEF Room, HeldApplication, OptDevice
<1>4. Good(room, q) /\ Eases(room, q)
  <2>1. Good(room, q) BY <1>2, ApplicationReleasedGood
  <2>2. /\ q.members = room.members /\ q.zombies = room.zombies
        /\ q.accepted = room.accepted /\ q.nextOrder = room.nextOrder
        /\ q.lifecycle = room.lifecycle
      BY <1>2 DEF Room
  <2> HIDE DEF q
  <2>3. QED BY <2>1, <2>2, SameKeeps
<1> HIDE DEF p, q
<1>5. Good(room, t) /\ Eases(room, t) BY <1>3, <1>4, RejectionLeads
<1>6. t \in Room BY <1>5 DEF Good
<1> HIDE DEF t
<1>7. /\ s \in Room /\ s.members = t.members /\ s.zombies = t.zombies
      /\ s.accepted = t.accepted /\ s.nextOrder = t.nextOrder /\ s.lifecycle = t.lifecycle
      /\ s.grant = t.grant /\ s.application = t.application /\ s.commit = t.commit
    BY <1>6, NoneTypes DEF Room
<1> HIDE DEF s
<1>8. Good(t, s) /\ Eases(t, s) BY <1>6, <1>7, HoldersChange, SameKeeps
<1>9. Good(room, s) /\ Eases(room, s) BY <1>5, <1>8, GoodTrans, EasesTrans
<1>10. QED BY <1>1, <1>9, HelperLeads, HandledLeads

(* The host rejects a commit.                                                 *)
LEMMA RejectCommitLeads ==
    ASSUME Right(room), NEW h \in Device, RejectCommit(h) PROVE Leads(room, room', {})
<1> DEFINE from == room.commit.from
           q == [room EXCEPT !.commit = NoCommit]
           s == Answer(q, from, RejectedEntry(0))
<1>1. room' \in {room, IssueNextGrant(s)} /\ from # NoDevice
    BY DEF RejectCommit, Handled, Commit
<1>2. room \in Room BY RightShape
<1>3. from \in Device BY <1>1, <1>2 DEF Room, HeldCommit, OptDevice
<1>4. Good(room, q) /\ Eases(room, q) BY <1>2, CommitReleasedGood, WithdrawnEases
<1> HIDE DEF q, from
<1>5. Good(room, s) /\ Eases(room, s) BY <1>3, <1>4, RejectionLeads
<1> HIDE DEF s
<1>6. QED BY <1>1, <1>5, HelperLeads, HandledLeads

(* A frame comes after its grant has run out.                                 *)
LEMMA LateFrameLeads ==
    ASSUME Right(room), NEW d \in Device, LateFrame(d) PROVE Leads(room, room', {})
<1> DEFINE q == Spent(room)
<1>1. PICK order \in {0, room.grant.order} :
          Handled("late-frame", IssueNextGrant(Answer(q, d, RejectedEntry(order))))
    BY DEF LateFrame
<1> DEFINE s == Answer(q, d, RejectedEntry(order))
<1>2. room' \in {room, IssueNextGrant(s)} BY <1>1 DEF Handled, Commit
<1>3. room \in Room BY RightShape
<1>4. order \in Nat BY <1>3 DEF Room, Grant
<1>5. Good(room, q) /\ Eases(room, q) BY <1>3, SpentGood, WithdrawnEases
<1> HIDE DEF q
<1>6. Good(room, s) /\ Eases(room, s) BY <1>4, <1>5, RejectionLeads
<1> HIDE DEF s
<1>7. QED BY <1>2, <1>6, HelperLeads, HandledLeads

(* The host offers its role: the authorization is an entry without a frame.   *)
LEMMA AuthorizeTransferLeads ==
    ASSUME Right(room), NEW h \in Device, AuthorizeTransfer(h) PROVE Leads(room, room', {})
<1> DEFINE offered(d) == [room EXCEPT
               !.transfer = [host |-> h, target |-> d, overdue |-> FALSE]]
<1>1. PICK d \in Device \ {h} :
          /\ room.members[d].status = "active"
          /\ Handled("authorize-host-transfer", Deliver(offered(d), {d}, AuthorizationEntry))
    BY DEF AuthorizeTransfer
<1> DEFINE x == [host |-> h, target |-> d, overdue |-> FALSE]
           q == offered(d)
           s == Deliver(q, {d}, AuthorizationEntry)
<1>2. room' \in {room, s} BY <1>1 DEF Handled, Commit
<1>3. room \in Room /\ Fit(room) BY RightShape
<1>4. x \in Transfer BY DEF Transfer, OptDevice
<1>5. q = [room EXCEPT !.transfer = x] OBVIOUS
<1> HIDE DEF x, offered, q
<1>6. /\ q \in Room /\ q.members = room.members /\ q.zombies = room.zombies
      /\ q.accepted = room.accepted /\ q.nextOrder = room.nextOrder
      /\ q.lifecycle = room.lifecycle
      /\ q.grant = room.grant /\ q.application = room.application /\ q.commit = room.commit
    BY <1>3, <1>4, <1>5 DEF Room
<1>7. Good(room, q) /\ Eases(room, q) BY <1>3, <1>6, HoldersChange, SameKeeps
<1>8. Fit(q) /\ Established(q.members[d]) BY <1>1, <1>3, <1>6 DEF Fit, Established
<1>9. Good(q, s) /\ Eases(q, s)
    BY <1>6, <1>8, AuthorizationEases, DeliverGood, EntryTypes
<1> HIDE DEF s
<1>10. Good(room, s) /\ Eases(room, s) BY <1>7, <1>9, GoodTrans, EasesTrans
<1>11. QED BY <1>2, <1>10, HelperLeads, HandledLeads

(* The host closes the room.                                                  *)
LEMMA CloseRoomLeads ==
    ASSUME Right(room), NEW h \in Device, CloseRoom(h) PROVE Leads(room, room', {})
<1> DEFINE s == RetireRoom(room)
<1>1. room' \in {room, s} BY DEF CloseRoom, Handled, Commit
<1>2. Good(room, s) /\ Eases(room, s) BY RightShape, RetireRoomGood, RetireRoomKeeps
<1> HIDE DEF s
<1>3. QED BY <1>1, <1>2, HelperLeads, HandledLeads

(* Settling the deadlines.                                                    *)
LEMMA ExpireHelps ==
    ASSUME NEW r, Right(r)
    PROVE  /\ Good(r, Expire(r)) /\ Eases(r, Expire(r)) /\ Right(Expire(r))
           /\ Leads(r, Settle(r), {})
<1> DEFINE s == Expire(r)
<1>1. Good(r, s) /\ Eases(r, s) BY RightShape, ExpireGood, ExpireEases
<1>2. Settle(r) = IssueNextGrant(s) BY DEF Settle
<1> HIDE DEF s
<1>3. Right(s) /\ Leads(r, IssueNextGrant(s), {}) BY <1>1, HelperLeads, EasesRight
<1>4. QED BY <1>1, <1>2, <1>3 DEF s

(* A frame that arrives after a deadline is dropped for the cleanup.          *)
LEMMA DroppedFrameLeads ==
    ASSUME Right(room), NEW d \in Device, DroppedFrame(d) PROVE Leads(room, room', {})
<1>1. room' \in {room, Settle(room)} BY DEF DroppedFrame, Handled, Commit
<1>2. QED BY <1>1, ExpireHelps, HandledLeads

(* So is a request.                                                           *)
LEMMA DroppedRequestLeads ==
    ASSUME Right(room), NEW d \in Device, DroppedRequest(d) PROVE Leads(room, room', {})
<1>1. room' \in {room, Settle(room)} BY DEF DroppedRequest, Commit
<1>2. QED BY <1>1, ExpireHelps, HandledLeads

(* The frame of a grant the cleanup cancels is answered.                      *)
LEMMA DroppedGrantFrameLeads ==
    ASSUME Right(room), NEW d \in Device, DroppedGrantFrame(d) PROVE Leads(room, room', {})
<1> DEFINE q == Expire(room)
<1>1. PICK order \in {0, room.grant.order} :
          Handled("cleanup", IssueNextGrant(Answer(q, d, RejectedEntry(order))))
    BY DEF DroppedGrantFrame
<1> DEFINE s == Answer(q, d, RejectedEntry(order))
<1>2. room' \in {room, IssueNextGrant(s)} BY <1>1 DEF Handled, Commit
<1>3. order \in Nat BY RightShape DEF Room, Grant
<1>4. Good(room, q) /\ Eases(room, q) BY ExpireHelps
<1> HIDE DEF q
<1>5. Good(room, s) /\ Eases(room, s) BY <1>3, <1>4, RejectionLeads
<1> HIDE DEF s
<1>6. QED BY <1>2, <1>5, HelperLeads, HandledLeads

(* The alarm settles every deadline.                                          *)
LEMMA AlarmLeads == ASSUME Right(room), Alarm PROVE Leads(room, room', {})
<1> DEFINE q == Expire(room)
           s == ExpireGrant(q)
<1>1. room' \in {room, IssueNextGrant(s)} BY DEF Alarm, Handled, Commit
<1>2. Good(room, q) /\ Eases(room, q) /\ q \in Room BY ExpireHelps DEF Good
<1> HIDE DEF q
<1>3. Good(q, s) /\ Eases(q, s) BY <1>2, ExpireGrantGood, WithdrawnEases
<1> HIDE DEF s
<1>4. Good(room, s) /\ Eases(room, s) BY <1>2, <1>3, GoodTrans, EasesTrans
<1>5. QED BY <1>1, <1>4, HelperLeads, HandledLeads

(* A change of what is held or offered only.                                  *)
LEMMA HeldLeads ==
    ASSUME NEW r, Right(r), NEW s, Kept(s), OrderNext(s),
           s.members = r.members, s.zombies = r.zombies,
           s.accepted = r.accepted, s.nextOrder = r.nextOrder, s.lifecycle = r.lifecycle
    PROVE  Right(s) /\ Leads(r, s, {})
<1>1. Eases(r, s) BY SameKeeps
<1>2. LogInv(s) BY DEF Right, LogInv
<1>3. Roster(s) = Roster(r) BY DEF Roster
<1>4. Accounted(s) BY <1>3 DEF Right, Accounted
<1>5. Right(s) BY <1>2, <1>4 DEF Right
<1>6. QED BY <1>1, <1>5, EasesLeads

(* A member's commit is held for the host.                                    *)
LEMMA MemberCommitLeads ==
    ASSUME Right(room), NEW d \in Device, MemberCommit(d) PROVE Leads(room, room', {})
<1> DEFINE c == [from |-> d, order |-> room.grant.order, overdue |-> FALSE]
           q == Spent(room)
           s == [q EXCEPT !.commit = c]
<1>1. room' \in {room, s} /\ room.grant.device = d
    BY DEF MemberCommit, Holds, Handled, Commit
<1>2. room \in Room /\ Kept(room) BY RightShape
<1>3. c \in HeldCommit BY <1>2 DEF Room, Grant, HeldCommit, OptDevice
<1>4. ~c.overdue OBVIOUS
<1>5. /\ Right(q) /\ q \in Room
      /\ q.accepted = room.accepted /\ q.zombies = room.zombies
      /\ q.lifecycle = room.lifecycle /\ q.members = room.members
      /\ q.nextOrder = room.nextOrder
      /\ q.grant = NoGrant /\ q.application = room.application
      /\ q.grant.device = NoDevice /\ q.application.from = NoDevice
    BY <1>1, SpentShape DEF Right, Kept
<1> HIDE DEF c, q
<1>6. /\ s \in Room /\ s.members = room.members /\ s.zombies = room.zombies
      /\ s.accepted = room.accepted /\ s.nextOrder = room.nextOrder
      /\ s.lifecycle = room.lifecycle
      /\ s.grant = NoGrant /\ s.application = room.application /\ s.commit = c
      /\ s.grant.device = NoDevice /\ s.application.from = NoDevice
    BY <1>3, <1>5 DEF Room
<1> HIDE DEF s
<1>7. room.grant.device # NoDevice BY <1>1, DeviceAssumption
<1>8. Kept(s) BY <1>2, <1>4, <1>6, <1>7, HoldKept
<1>9. OrderNext(s) BY <1>6 DEF OrderNext
<1>10. QED BY <1>1, <1>6, <1>8, <1>9, HeldLeads, HandledLeads

(* A member's application is held for the host.                               *)
LEMMA MemberApplicationLeads ==
    ASSUME Right(room), NEW d \in Device, MemberApplication(d) PROVE Leads(room, room', {})
<1> DEFINE held(x) == [from |-> d, accepts |-> x, order |-> room.grant.order,
                       overdue |-> FALSE]
           q == Spent(room)
           new(x) == [q EXCEPT !.application = held(x)]
<1>1. /\ room.grant.device = d
      /\ \E x \in BOOLEAN : Handled("application", new(x))
    BY DEF MemberApplication, Holds
<1>2. PICK x \in BOOLEAN : Handled("application", new(x)) BY <1>1
<1> DEFINE c == held(x)
           s == new(x)
<1>3. room \in Room /\ Kept(room) BY RightShape
<1>4. room' \in {room, s} BY <1>2 DEF Handled, Commit
<1>5. c \in HeldApplication BY <1>3 DEF Room, Grant, HeldApplication, OptDevice
<1>6. ~c.overdue /\ c.order = room.grant.order OBVIOUS
<1>7. /\ Right(q) /\ q \in Room
      /\ q.accepted = room.accepted /\ q.zombies = room.zombies
      /\ q.lifecycle = room.lifecycle /\ q.members = room.members
      /\ q.nextOrder = room.nextOrder
      /\ q.grant = NoGrant /\ q.grant.device = NoDevice
      /\ room.grant.order = room.nextOrder
    BY <1>1, SpentShape DEF Right, Kept
<1> HIDE DEF held
<1>8. q.commit = room.commit BY <1>3 DEF Spent, Room
<1> HIDE DEF q
<1>9. /\ s \in Room /\ s.members = room.members /\ s.zombies = room.zombies
      /\ s.accepted = room.accepted /\ s.nextOrder = room.nextOrder
      /\ s.lifecycle = room.lifecycle
      /\ s.grant = NoGrant /\ s.application = c /\ s.commit = room.commit
      /\ s.grant.device = NoDevice
    BY <1>5, <1>7, <1>8 DEF Room
<1> HIDE DEF s, c, new
<1>10. room.grant.device # NoDevice BY <1>1, DeviceAssumption
<1>11. Kept(s) BY <1>3, <1>6, <1>9, <1>10, HoldKept
<1>12. OrderNext(s) BY <1>6, <1>7, <1>9 DEF OrderNext
<1>13. QED BY <1>4, <1>9, <1>11, <1>12, HeldLeads, HandledLeads

(* The host's own application is accepted.                                    *)
LEMMA HostApplicationLeads ==
    ASSUME Right(room), NEW h \in Device, HostApplication(h) PROVE Leads(room, room', {})
<1> DEFINE p == Spent(room)
           q == Numbered(p)
           order == room.grant.order
           s == IssueNextGrant(Accept(q, "application", h, NoDevice, order))
<1>1. room' \in {room, s} /\ room.grant.device = h /\ AdmissionBarrier(room) = {}
      /\ ~RemovalBarrier(room)
    BY DEF HostApplication, Handled, Commit, Holds, NoBarrier
<1>2. /\ Right(p) /\ Kept(p) /\ p \in Room
      /\ p.accepted = room.accepted /\ p.zombies = room.zombies
      /\ p.lifecycle = room.lifecycle /\ p.members = room.members
      /\ p.nextOrder = room.nextOrder /\ room.nextOrder \in Nat
      /\ p.grant.device = NoDevice /\ p.application.from = NoDevice
      /\ order = room.nextOrder
    BY <1>1, SpentShape DEF Right, Kept
<1> HIDE DEF p
<1>3. Kept(q) BY <1>2, NumberedGood, GoodKept
<1>4. /\ q.accepted = room.accepted /\ q.zombies = room.zombies
      /\ q.lifecycle = room.lifecycle /\ q.members = room.members
      /\ q.nextOrder = room.nextOrder + 1
      /\ q.grant.device = NoDevice /\ q.application.from = NoDevice
    BY <1>2 DEF Numbered, Room
<1> HIDE DEF q, order
<1>5. NoDevice \in OptDevice BY DEF OptDevice
<1>6. Leads(room, s, {}) BY <1>1, <1>2, <1>3, <1>4, <1>5, PlainLeads
<1>7. QED BY <1>1, <1>6, HandledLeads

(* The host approves an application: it is accepted with the order its sender *)
(* held.                                                                      *)
LEMMA ApproveApplicationLeads ==
    ASSUME Right(room), NEW h \in Device, ApproveApplication(h) PROVE Leads(room, room', {})
<1> DEFINE p == room.application
           kind == IF p.accepts THEN "accept" ELSE "application"
           n == Numbered(room)
           q == [n EXCEPT !.application = NoApplication]
           t == Accept(q, kind, p.from, NoDevice, p.order)
           s == IF p.accepts THEN [t EXCEPT !.transfer = NoTransfer, !.host = p.from] ELSE t
<1>1. /\ room' \in {room, IssueNextGrant(s)} /\ p.from # NoDevice
      /\ AdmissionBarrier(room) = {} /\ ~RemovalBarrier(room)
    BY DEF ApproveApplication, Handled, Commit, HostDecides, NoBarrier
<1>2. room \in Room /\ Kept(room) /\ OrderNext(room) BY RightShape
<1>3. p.from \in Device /\ p.order \in Nat /\ p.order = room.nextOrder
    BY <1>1, <1>2 DEF Room, HeldApplication, OptDevice, OrderNext
<1>4. room.grant.device = NoDevice BY <1>1, <1>2 DEF Kept, Auth
<1>5. kind \in {"application", "accept"} OBVIOUS
<1>6. n \in Room /\ Good(room, n) BY <1>2, NumberedGood DEF Good
<1>7. /\ n.accepted = room.accepted /\ n.zombies = room.zombies
      /\ n.lifecycle = room.lifecycle /\ n.members = room.members
      /\ n.nextOrder = room.nextOrder + 1 /\ n.grant = room.grant
    BY <1>2 DEF Numbered, Room
<1> HIDE DEF n
<1>8. Kept(q) BY <1>2, <1>6, ApplicationReleasedGood, GoodKept
<1>9. /\ q.accepted = room.accepted /\ q.zombies = room.zombies
      /\ q.lifecycle = room.lifecycle /\ q.members = room.members
      /\ q.nextOrder = room.nextOrder + 1
      /\ q.grant.device = NoDevice /\ q.application = NoApplication
    BY <1>4, <1>6, <1>7 DEF Room
<1>10. q.application.from = NoDevice BY <1>9 DEF NoApplication
<1>11. NoDevice \in OptDevice /\ kind \in AcceptedKind BY DEF OptDevice, AcceptedKind
<1> HIDE DEF q, kind, p
<1>12. t \in Room
  <2>1. q \in Room BY <1>8 DEF Kept
  <2>2. QED BY <1>3, <1>11, <2>1, AcceptGood DEF Good
<1>13. Leads(room, t, {})
    BY <1>1, <1>3, <1>5, <1>8, <1>9, <1>10, <1>11, PlainLeads
<1>14. s.members = t.members /\ s.accepted = t.accepted /\ s.zombies = t.zombies
       /\ s.grant = t.grant /\ s.application = t.application /\ s.commit = t.commit
       /\ s.nextOrder = t.nextOrder /\ s.lifecycle = t.lifecycle /\ s \in Room
    BY <1>3, <1>12, NoneTypes DEF Room, OptDevice
<1> HIDE DEF t, s
<1>15. Right(t) BY <1>13 DEF Leads
<1>16. Kept(s) /\ OrderNext(s)
  <2>1. Good(t, s) BY <1>12, <1>14, HoldersChange
  <2>2. Kept(t) /\ OrderNext(t) BY <1>15 DEF Right
  <2>3. QED BY <1>14, <2>1, <2>2, GoodKept DEF OrderNext
<1>17. Right(s) BY <1>14, <1>15, <1>16, HeldLeads
<1>18. Leads(room, s, {}) BY <1>13, <1>14, <1>17, SameLeads
<1>19. Leads(room, IssueNextGrant(s), {}) BY <1>18, IssueLeads
<1>20. QED BY <1>1, <1>19, HandledLeads

(* An approved commit is accepted.                                            *)
LEMMA ApproveCommitLeads ==
    ASSUME Right(room), NEW h \in Device, ApproveCommit(h) PROVE Leads(room, room', {})
<1> DEFINE from == room.commit.from
           q == [room EXCEPT !.commit = NoCommit]
           s == IssueNextGrant(Accept(q, "commit", from, NoDevice, 0))
<1>1. /\ room' \in {room, s} /\ from # NoDevice
      /\ AdmissionBarrier(room) = {} /\ ~RemovalBarrier(room)
    BY DEF ApproveCommit, Handled, Commit, HostDecides, NoBarrier
<1>2. room \in Room /\ Kept(room) BY RightShape
<1>3. from \in Device BY <1>1, <1>2 DEF Room, HeldCommit, OptDevice
<1>4. room.grant.device = NoDevice /\ room.application.from = NoDevice
    BY <1>1, <1>2 DEF Kept, Auth
<1>5. Kept(q) BY <1>2, CommitReleasedGood, GoodKept
<1>6. /\ q.accepted = room.accepted /\ q.zombies = room.zombies
      /\ q.lifecycle = room.lifecycle /\ q.members = room.members
      /\ q.nextOrder = room.nextOrder /\ room.nextOrder \in Nat
      /\ q.grant.device = NoDevice /\ q.application.from = NoDevice
    BY <1>2, <1>4 DEF Room
<1> HIDE DEF q, from
<1>7. NoDevice \in OptDevice BY DEF OptDevice
<1>8. Leads(room, s, {}) BY <1>1, <1>3, <1>5, <1>6, <1>7, PlainLeads
<1>9. QED BY <1>1, <1>8, HandledLeads

(* A change of one member that is none of the log's business: it is sound,    *)
(* covered as before, and has read what it had.                               *)
LEMMA OneLeads ==
    ASSUME NEW r, Right(r), NEW s, Kept(s), NEW a \in Device, NEW D,
           s.accepted = r.accepted, s.zombies = r.zombies, s.nextOrder = r.nextOrder,
           s.lifecycle = r.lifecycle, OrderNext(s),
           \A d \in Device \ {a} : s.members[d] = r.members[d],
           Sound(r.accepted, a, s.members[a]),
           Covered(r.members[a]) => Covered(s.members[a]),
           a \in D \/ s.members[a].conn = r.members[a].conn
    PROVE  /\ Right(s) /\ Connected(r, s, D)
           /\ s.members[a].acked = r.members[a].acked => Leads(r, s, D)
<1>1. /\ \A d \in Device : Sound(r.accepted, d, r.members[d])
      /\ Accounted(r) /\ LogInv(r)
    BY RightShape
<1>2. \A d \in Device : Sound(s.accepted, d, s.members[d]) BY <1>1
<1>3. LogInv(s) BY <1>1, <1>2 DEF LogInv
<1>4. Roster(s) = Roster(r) BY DEF Roster
<1>5. \A d \in Device : Covered(r.members[d]) => Covered(s.members[d])
    OBVIOUS
<1>6. Accounted(s)
  <2> SUFFICES ASSUME s.lifecycle = "open", NEW d \in Roster(s)
               PROVE  Covered(s.members[d]) \/ d \in Listed(s.zombies)
      BY DEF Accounted
  <2>1. d \in Device /\ d \in Roster(r) BY <1>4 DEF Roster
  <2>2. Covered(r.members[d]) \/ d \in Listed(r.zombies) BY <1>1, <2>1 DEF Accounted
  <2>3. QED BY <1>5, <2>1, <2>2
<1>7. Right(s) BY <1>3, <1>6 DEF Right
<1>8. Connected(r, s, D) BY DEF Connected
<1>9. s.members[a].acked = r.members[a].acked => Rests(r, s) BY DEF Rests
<1>10. QED BY <1>7, <1>8, <1>9 DEF Leads, Advances

(* ... when it is the member alone that is rewritten.                         *)
LEMMA MemberLeads ==
    ASSUME NEW r, Right(r), NEW a \in Device, NEW n \in Member, NEW D,
           \/ n.proofOrder = 0
           \/ n.proofOrder = r.members[a].proofOrder /\ n.phase = r.members[a].phase,
           n.phase \in {"none", r.members[a].phase} \/ ~RemovalBarrier(r),
           Sound(r.accepted, a, n), Covered(r.members[a]) => Covered(n),
           a \in D \/ n.conn = r.members[a].conn
    PROVE  LET s == [r EXCEPT !.members[a] = n] IN
           /\ Right(s) /\ Connected(r, s, D) /\ s.accepted = r.accepted
           /\ \A d \in Device : s.members[d] = IF d = a THEN n ELSE r.members[d]
           /\ n.acked = r.members[a].acked => Leads(r, s, D)
<1> DEFINE s == [r EXCEPT !.members[a] = n]
<1>1. r \in Room /\ Kept(r) /\ OrderNext(r) BY RightShape
<1>2. Kept(s) BY <1>1, MemberKept
<1>3. /\ s.accepted = r.accepted /\ s.zombies = r.zombies /\ s.nextOrder = r.nextOrder
      /\ s.lifecycle = r.lifecycle /\ s.grant = r.grant /\ s.application = r.application
      /\ \A d \in Device : s.members[d] = IF d = a THEN n ELSE r.members[d]
    BY <1>1 DEF Room
<1> HIDE DEF s
<1>4. OrderNext(s) BY <1>1, <1>3 DEF OrderNext
<1>5. /\ \A d \in Device \ {a} : s.members[d] = r.members[d]
      /\ s.members[a] = n
    BY <1>3
<1>6. /\ Right(s) /\ Connected(r, s, D)
      /\ s.members[a].acked = r.members[a].acked => Leads(r, s, D)
    BY <1>2, <1>3, <1>4, <1>5, OneLeads
<1>7. QED BY <1>3, <1>5, <1>6 DEF s

(* The Welcome moves the admission on.                                        *)
LEMMA WelcomeLeads ==
    ASSUME Right(room), NEW h \in Device, Welcome(h) PROVE Leads(room, room', {})
<1> DEFINE new(a) == [room EXCEPT !.members[a] =
                        [Given(@, WelcomeEntry) EXCEPT !.phase = "awaiting-bootstrap"]]
<1>1. PICK a \in AdmissionBarrier(room) :
          /\ room.members[a].status = "pending"
          /\ room.members[a].phase = "awaiting-welcome"
          /\ Handled("welcome", new(a))
    BY DEF Welcome
<1> DEFINE m == room.members[a]
           k == Given(m, WelcomeEntry)
           n == [k EXCEPT !.phase = "awaiting-bootstrap"]
           s == [room EXCEPT !.members[a] = n]
<1>2. a \in Device /\ a \in InAdmission(room) /\ m.added
    BY DEF AdmissionBarrier, InAdmission
<1>3. m \in Member /\ Sound(room.accepted, a, m) /\ room.accepted \in Seq(Frame)
    BY <1>2, RightShape
<1>4. Kept(room) BY DEF Right
<1>5. m.proofOrder = 0 BY <1>1, <1>2, <1>4 DEF Kept, ProofInPhase
<1>6. ~RemovalBarrier(room) BY <1>2, <1>4 DEF Kept, BarrierAlone
<1>7. room' \in {room, s} BY <1>1 DEF Handled, Commit
<1>8. m.phase = "awaiting-welcome" /\ m.status = "pending" BY <1>1
<1> HIDE DEF m
<1>9. k \in Member /\ k.proofOrder = 0 /\ k.acked = m.acked /\ k.conn = m.conn
      /\ k.added = m.added
  <2>1. k \in Member BY <1>3, GivenType, EntryTypes
  <2>2. QED BY <1>3, <1>5, <2>1 DEF Given, Member
<1> HIDE DEF k
<1>10. n \in Member /\ n.proofOrder = 0 /\ n.acked = m.acked /\ n.conn = m.conn
       /\ n.phase = "awaiting-bootstrap" /\ n.added = m.added
    BY <1>9 DEF Member, Phase
<1>11. Sound(room.accepted, a, n)
    BY <1>2, <1>3, <1>8, SoundWelcomed DEF k
<1> HIDE DEF n
<1>12. n.added BY <1>2, <1>10, Zenon
<1>13. Covered(n) BY <1>10, <1>12 DEF Covered
<1>14. Leads(room, s, {})
    BY <1>2, <1>6, <1>10, <1>11, <1>13, MemberLeads DEF m
<1> HIDE DEF s
<1>15. QED BY <1>7, <1>14, HandledLeads

(* The proof is held.                                                         *)
LEMMA JoinProofLeads ==
    ASSUME Right(room), NEW a \in Device, JoinProof(a) PROVE Leads(room, room', {})
<1> DEFINE m == room.members[a]
           n == [m EXCEPT !.proof = TRUE]
           s == [room EXCEPT !.members[a] = n]
<1>1. room' \in {room, s} /\ m.phase = "awaiting-proof"
    BY DEF JoinProof, Handled, Commit
<1>2. m \in Member /\ Sound(room.accepted, a, m) BY RightShape
<1> HIDE DEF m
<1>3. /\ n \in Member /\ n.proofOrder = m.proofOrder /\ n.phase = m.phase
      /\ n.acked = m.acked /\ n.conn = m.conn /\ n.added = m.added /\ n.since = m.since
      /\ n.fresh = m.fresh /\ n.status = m.status /\ n.grace = m.grace
      /\ n.backlog = m.backlog
    BY <1>2 DEF Member
<1> HIDE DEF n
<1>4. Stays(m, n, 0)
  <2>1. Established(n) <=> Established(m) BY <1>3 DEF Established
  <2>2. FitMember(m) => FitMember(n) BY <1>3 DEF FitMember
  <2>3. Fed(m.backlog, n.backlog, 0) BY <1>3, FedRefl
  <2>4. QED BY <1>1, <1>3, <2>1, <2>2, <2>3 DEF Stays
<1>5. Sound(room.accepted, a, n) /\ (Covered(m) => Covered(n))
    BY <1>2, <1>4, SoundStays, StaysCovered
<1>6. Leads(room, s, {}) BY <1>3, <1>5, MemberLeads DEF m
<1> HIDE DEF s
<1>7. QED BY <1>1, <1>6, HandledLeads

(* A delivery is acknowledged: the device has read a prefix of its backlog.   *)
LEMMA ReadLeads ==
    ASSUME NEW r, Right(r), NEW d \in Device, NEW k \in Nat, k <= Len(r.members[d].backlog),
           NEW n \in Member, n.proofOrder = r.members[d].proofOrder, Reads(r.members[d], n, k)
    PROVE  Leads(r, [r EXCEPT !.members[d] = n], {})
<1> DEFINE m == r.members[d]
           s == [r EXCEPT !.members[d] = n]
<1>1. m \in Member /\ Sound(r.accepted, d, m) BY RightShape
<1>2. k \in 0..Len(m.backlog) BY <1>1, MemberShape
<1>3. Sound(r.accepted, d, n) /\ (Covered(n) <=> Covered(m)) BY <1>1, <1>2, SoundRead
<1>4. n.phase = m.phase /\ n.conn = m.conn BY DEF Reads
<1>5. /\ Right(s) /\ Connected(r, s, {}) /\ s.accepted = r.accepted
      /\ \A e \in Device : s.members[e] = IF e = d THEN n ELSE r.members[e]
    BY <1>3, <1>4, MemberLeads
<1> HIDE DEF s
<1>6. ReadsSome(r, s)
  <2>1. \A e \in Device \ {d} : s.members[e].acked = r.members[e].acked BY <1>5
  <2>2. Reads(r.members[d], s.members[d], k) BY <1>5
  <2>3. QED BY <1>5, <2>1, <2>2 DEF ReadsSome
<1>7. QED BY <1>5, <1>6 DEF Leads, Advances, s

(* A device acknowledges what it was sent.                                    *)
LEMMA AcknowledgeLeads ==
    ASSUME Right(room), NEW d \in Device, Acknowledge(d) PROVE Leads(room, room', {})
<1>1. PICK k \in 1..Len(room.members[d].backlog) :
          Handled("delivery-ack", [room EXCEPT !.members[d] = Acked(@, k)])
    BY DEF Acknowledge
<1> DEFINE m == room.members[d]
           n == Acked(m, k)
           s == [room EXCEPT !.members[d] = n]
<1>2. room' \in {room, s} BY <1>1 DEF Handled, Commit
<1>3. m \in Member BY RightShape
<1>4. k \in Nat /\ k <= Len(m.backlog) /\ k \in 0..Len(m.backlog) BY <1>3, MemberShape
<1>5. n \in Member /\ n.proofOrder = m.proofOrder /\ Reads(m, n, k)
    BY <1>3, <1>4, AckedType, AckedReads
<1> HIDE DEF n
<1>6. Leads(room, s, {}) BY <1>4, <1>5, ReadLeads
<1> HIDE DEF s
<1>7. QED BY <1>2, <1>6, HandledLeads

(* A device has replayed its backlog, and acknowledges the whole of it.       *)
LEMMA ResumeCompleteLeads ==
    ASSUME Right(room), NEW d \in Device, ResumeComplete(d) PROVE Leads(room, room', {})
<1> DEFINE m == room.members[d]
           k == Len(m.backlog)
           o == Acked(m, k)
           n == [o EXCEPT !.status = "active", !.replay = 0]
           s == [room EXCEPT !.members[d] = n]
<1>2. room' \in {room, s} /\ Replaying(m) BY DEF ResumeComplete, Handled, Commit
<1>3. m \in Member BY RightShape
<1>4. k \in Nat /\ k <= k /\ k \in 0..k BY <1>3, MemberShape
<1>5. o \in Member /\ o.proofOrder = m.proofOrder BY <1>3, <1>4, AckedType
<1>6. Reads(m, n, k) BY <1>2, <1>3, <1>4, AckedReads
<1> HIDE DEF o
<1>7. n \in Member /\ n.proofOrder = m.proofOrder BY <1>5 DEF Member, Status
<1> HIDE DEF n
<1>8. Leads(room, s, {}) BY <1>4, <1>6, <1>7, ReadLeads
<1> HIDE DEF s
<1>9. QED BY <1>2, <1>8, HandledLeads

(* A place in a queue is not lost when another device leaves it.              *)
LEMMA WithoutListed ==
    ASSUME NEW f \in [Device -> Nat], NEW d
    PROVE  Listed(f) \ {d} \subseteq Listed(Without(f, {d}))
<1> SUFFICES ASSUME NEW e \in Listed(f) \ {d} PROVE e \in Listed(Without(f, {d}))
    OBVIOUS
<1> DEFINE S == {x \in Listed(f) \ {d} : f[x] <= f[e]}
<1>1. e \in Device /\ f[e] \in Nat BY DEF Listed
<1>2. IsFiniteSet(S) /\ e \in S
  <2>1. S \subseteq Listed(f) OBVIOUS
  <2>2. f[e] <= f[e] BY <1>1
  <2>3. QED BY <2>1, <2>2, ListedFinite, FS_Subset
<1>3. Without(f, {d})[e] = Cardinality(S) BY <1>1 DEF Without
<1> HIDE DEF S
<1>4. Cardinality(S) # 0 BY <1>2, FS_EmptySet
<1>5. QED BY <1>1, <1>3, <1>4 DEF Listed

(* A device whose removal was accepted is not a leaf of the tree.             *)
LEMMA RemovedNoLeaf ==
    ASSUME NEW r, Right(r), NEW d \in Device, NEW i \in 1..Len(r.accepted),
           r.accepted[i].kind = "remove", r.accepted[i].subject = d
    PROVE  d \notin Roster(r)
<1> DEFINE log == r.accepted
<1>1. AddedFirst(log) /\ Len(log) \in Nat BY RightShape DEF LogInv
<1> HIDE DEF log
<1>2. i \in Changes(log, d) /\ Changes(log, d) \subseteq 1..Len(log) BY DEF Changes, log
<1>3. ASSUME d \in Roster(r) PROVE FALSE
  <2>1. PICK j \in Changes(log, d) : log[j].kind = "add" /\ \A k \in Changes(log, d) : k <= j
      BY <1>2, <1>3 DEF Roster, Changes, log
  <2>2. j \in Adds(log, d) BY <2>1 DEF Adds
  <2>3. j <= i /\ i <= j BY <1>1, <1>2, <2>1, <2>2 DEF AddedFirst
  <2>4. i = j BY <1>1, <1>2, <2>1, <2>3
  <2>5. QED BY <2>1, <2>4 DEF log
<1>4. QED BY <1>3

(* The host retires a device that is not a leaf any more.                     *)
LEMMA RetiredLeads ==
    ASSUME NEW r, Right(r), NEW s, Kept(s), NEW d \in Device, d \notin Roster(r),
           s.accepted = r.accepted, s.nextOrder = r.nextOrder, s.lifecycle = r.lifecycle,
           OrderNext(s), Listed(r.zombies) \ {d} \subseteq Listed(s.zombies),
           \A e \in Device \ {d} : s.members[e] = r.members[e],
           \/ s.members[d] = r.members[d]
           \/ Gone(r.members[d], s.members[d]) /\ Lost(s.members[d])
    PROVE  Leads(r, s, {})
<1>1. /\ \A e \in Device : Sound(r.accepted, e, r.members[e])
      /\ Accounted(r) /\ LogInv(r)
    BY RightShape
<1>2. Sound(s.accepted, d, s.members[d]) BY <1>1, SoundGone DEF Sound
<1>3. \A e \in Device : Sound(s.accepted, e, s.members[e]) BY <1>1, <1>2
<1>4. LogInv(s) BY <1>1, <1>3 DEF LogInv
<1>5. Roster(s) = Roster(r) BY DEF Roster
<1>6. Accounted(s)
  <2> SUFFICES ASSUME s.lifecycle = "open", NEW e \in Roster(s)
               PROVE  Covered(s.members[e]) \/ e \in Listed(s.zombies)
      BY DEF Accounted
  <2>1. e \in Device /\ e \in Roster(r) /\ e # d BY <1>5 DEF Roster
  <2>2. Covered(r.members[e]) \/ e \in Listed(r.zombies) BY <1>1, <2>1 DEF Accounted
  <2>3. QED BY <2>1, <2>2
<1>7. Right(s) BY <1>4, <1>6 DEF Right
<1>8. s.members[d].acked = r.members[d].acked
    BY DEF Gone
<1>9. Rests(r, s) BY <1>8 DEF Rests
<1>10. Connected(r, s, {}) BY DEF Connected
<1>11. QED BY <1>7, <1>9, <1>10 DEF Leads, Advances

(* A marker is dropped; nothing else changes.                                 *)
LEMMA UnmarkedShape ==
    ASSUME NEW r \in Room, NEW d \in Device
    PROVE  LET s == Unmarked(r, d) IN
           /\ s.accepted = r.accepted /\ s.nextOrder = r.nextOrder
           /\ s.lifecycle = r.lifecycle /\ s.members = r.members
           /\ s.grant = r.grant /\ s.application = r.application
           /\ Listed(r.zombies) \ {d} \subseteq Listed(s.zombies)
<1> DEFINE z == Without(r.zombies, {d})
           s == [r EXCEPT !.zombies = z, !.removal = 0]
<1>1. CASE d \notin Listed(r.zombies) BY <1>1 DEF Unmarked
<1>2. CASE d \in Listed(r.zombies)
  <2>1. Unmarked(r, d) = s BY <1>2 DEF Unmarked
  <2>2. Listed(r.zombies) \ {d} \subseteq Listed(z) BY WithoutListed DEF Room
  <2> HIDE DEF z
  <2>3. /\ s.accepted = r.accepted /\ s.nextOrder = r.nextOrder
        /\ s.lifecycle = r.lifecycle /\ s.members = r.members
        /\ s.grant = r.grant /\ s.application = r.application /\ s.zombies = z
      BY DEF Room
  <2> HIDE DEF s
  <2>4. QED BY <2>1, <2>2, <2>3
<1>3. QED BY <1>1, <1>2

(* The host retires a device whose removal the group accepted.                *)
LEMMA RetireMemberFrameLeads ==
    ASSUME Right(room), NEW h \in Device, RetireMemberFrame(h) PROVE Leads(room, room', {})
<1>1. PICK d \in Device \ {h}, i \in 1..Len(room.accepted) :
          /\ room.accepted[i].kind = "remove" /\ room.accepted[i].subject = d
          /\ Handled("retire-member",
                 IF room.members[d].status = "retired" THEN Unmarked(room, d)
                 ELSE IssueNextGrant(Unmarked(Departed(room, d), d)))
    BY DEF RetireMemberFrame
<1> DEFINE q == Departed(room, d)
           s == Unmarked(q, d)
           t == Unmarked(room, d)
<1>2. room' \in {room, t, IssueNextGrant(s)} BY <1>1 DEF Handled, Commit
<1>3. /\ room \in Room /\ Kept(room) /\ OrderNext(room)
      /\ \A e \in Device : room.members[e] \in Member
    BY RightShape
<1>4. d \notin Roster(room) BY <1>1, RemovedNoLeaf
<1>5. Leads(room, t, {})
  <2>1. Kept(t) BY <1>3, UnmarkedKept
  <2>2. /\ t.accepted = room.accepted /\ t.nextOrder = room.nextOrder
        /\ t.lifecycle = room.lifecycle /\ t.members = room.members
        /\ t.grant = room.grant /\ t.application = room.application
        /\ Listed(room.zombies) \ {d} \subseteq Listed(t.zombies)
      BY <1>3, UnmarkedShape
  <2> HIDE DEF t
  <2>3. OrderNext(t) BY <1>3, <2>2 DEF OrderNext
  <2>4. QED BY <1>4, <2>1, <2>2, <2>3, RetiredLeads
<1>6. Good(room, q) /\ q \in Room /\ Kept(q) BY <1>3, DepartedGood, GoodKept DEF Good
<1>7. /\ q.accepted = room.accepted /\ q.nextOrder = room.nextOrder
      /\ q.lifecycle = room.lifecycle /\ q.zombies = room.zombies
      /\ \A e \in Device : q.members[e] =
             IF e = d THEN RetireMember(room.members[d]) ELSE room.members[e]
    BY <1>3 DEF Departed, Room
<1>8. OrderNext(q) BY <1>3, <1>6, <1>7, ShrinksOrder DEF Good
<1>9. Leads(room, s, {})
  <2>1. Kept(s) BY <1>6, UnmarkedKept
  <2>2. /\ s.accepted = q.accepted /\ s.nextOrder = q.nextOrder
        /\ s.lifecycle = q.lifecycle /\ s.members = q.members
        /\ s.grant = q.grant /\ s.application = q.application
        /\ Listed(q.zombies) \ {d} \subseteq Listed(s.zombies)
      BY <1>6, UnmarkedShape
  <2> HIDE DEF s, q
  <2>3. OrderNext(s) BY <1>8, <2>2 DEF OrderNext
  <2>4. Gone(room.members[d], s.members[d]) /\ Lost(s.members[d])
      BY <1>3, <1>7, <2>2, RetireGone
  <2>5. QED BY <1>4, <1>7, <2>1, <2>2, <2>3, <2>4, RetiredLeads
<1>10. Leads(room, IssueNextGrant(s), {}) BY <1>9, IssueLeads
<1> HIDE DEF s, t
<1>11. CASE room' = IssueNextGrant(s) BY <1>10, <1>11
<1>12. CASE room' \in {room, t} BY <1>5, <1>12, HandledLeads
<1>13. QED BY <1>2, <1>11, <1>12

(* A member that is rewritten and keeps its place.                            *)
LEMMA StaysLeads ==
    ASSUME NEW r, Right(r), NEW a \in Device, NEW n \in Member, NEW D,
           n.proofOrder = r.members[a].proofOrder, Stays(r.members[a], n, 0),
           a \in D \/ n.conn = r.members[a].conn
    PROVE  Leads(r, [r EXCEPT !.members[a] = n], D)
<1>1. Sound(r.accepted, a, r.members[a]) BY RightShape
<1>2. Sound(r.accepted, a, n) /\ (Covered(r.members[a]) => Covered(n))
    BY <1>1, SoundStays, StaysCovered
<1>3. n.phase = r.members[a].phase /\ n.acked = r.members[a].acked BY DEF Stays
<1>4. QED BY <1>2, <1>3, MemberLeads

(* The grace of a disconnected member ends.                                   *)
LEMMA GraceEndsLeads ==
    ASSUME Right(room), NEW d \in Device, GraceEnds(d) PROVE Leads(room, room', {})
<1> DEFINE m == room.members[d]
           n == [m EXCEPT !.grace = "over"]
           s == [room EXCEPT !.members[d] = n]
<1>1. room' = s /\ m.grace = "running" BY DEF GraceEnds, Passes
<1>2. m \in Member BY RightShape
<1> HIDE DEF m
<1>3. /\ n \in Member /\ n.proofOrder = m.proofOrder /\ n.phase = m.phase
      /\ n.acked = m.acked /\ n.conn = m.conn /\ n.added = m.added /\ n.since = m.since
      /\ n.fresh = m.fresh /\ n.status = m.status /\ n.grace = "over"
      /\ n.backlog = m.backlog
    BY <1>2 DEF Member, Timer
<1>4. n.proof = m.proof BY <1>2 DEF Member
<1> HIDE DEF n
<1>5. Stays(m, n, 0)
  <2>1. Established(n) <=> Established(m) BY <1>3 DEF Established
  <2>2. FitMember(m) => FitMember(n) BY <1>1, <1>3 DEF FitMember
  <2>3. Fed(m.backlog, n.backlog, 0) BY <1>3, FedRefl
  <2>4. n.proof => m.proof \/ m.phase = "awaiting-proof" BY <1>4, Zenon
  <2>5. QED BY <1>3, <2>1, <2>2, <2>3, <2>4 DEF Stays
<1>6. Leads(room, s, {}) BY <1>3, <1>5, StaysLeads DEF m
<1> HIDE DEF s
<1>7. QED BY <1>1, <1>6

(* The time of an admission ends.                                             *)
LEMMA AdmissionEndsLeads ==
    ASSUME Right(room), NEW d \in Device, AdmissionEnds(d) PROVE Leads(room, room', {})
<1> DEFINE m == room.members[d]
           n == [m EXCEPT !.admission = "over"]
           s == [room EXCEPT !.members[d] = n]
<1>1. room' = s BY DEF AdmissionEnds, Passes
<1>2. m \in Member BY RightShape
<1> HIDE DEF m
<1>3. /\ n \in Member /\ n.proofOrder = m.proofOrder /\ n.phase = m.phase
      /\ n.acked = m.acked /\ n.conn = m.conn /\ n.added = m.added /\ n.since = m.since
      /\ n.fresh = m.fresh /\ n.status = m.status /\ n.grace = m.grace
      /\ n.backlog = m.backlog
    BY <1>2 DEF Member, Timer
<1>4. n.proof = m.proof BY <1>2 DEF Member
<1> HIDE DEF n
<1>5. Stays(m, n, 0)
  <2>1. Established(n) <=> Established(m) BY <1>3 DEF Established
  <2>2. FitMember(m) => FitMember(n) BY <1>1, <1>3 DEF FitMember
  <2>3. Fed(m.backlog, n.backlog, 0) BY <1>3, FedRefl
  <2>4. n.proof => m.proof \/ m.phase = "awaiting-proof" BY <1>4, Zenon
  <2>5. QED BY <1>3, <2>1, <2>2, <2>3, <2>4 DEF Stays
<1>6. Leads(room, s, {}) BY <1>3, <1>5, StaysLeads DEF m
<1> HIDE DEF s
<1>7. QED BY <1>1, <1>6

(* The time of a grant, a held frame or a transfer ends.                      *)
LEMMA HoldersEndLeads ==
    ASSUME Right(room), GrantEnds \/ ApplicationEnds \/ CommitEnds \/ TransferEnds
    PROVE  Leads(room, room', {})
<1>0. room \in Room /\ Kept(room) /\ OrderNext(room) BY RightShape
<1>1. CASE GrantEnds
  <2> DEFINE s == [room EXCEPT !.grant.overdue = TRUE]
  <2>1. /\ s \in Room /\ s.members = room.members /\ s.zombies = room.zombies
        /\ s.grant.device = room.grant.device /\ s.grant.order = room.grant.order
        /\ s.application = room.application /\ s.commit = room.commit
        /\ s.accepted = room.accepted /\ s.nextOrder = room.nextOrder
        /\ s.lifecycle = room.lifecycle
      BY <1>0 DEF Room, Grant
  <2>2. room' = s BY <1>1 DEF GrantEnds, Passes
  <2>3. OverdueHeld(s) BY <1>0, <2>1 DEF Kept, OverdueHeld
  <2> HIDE DEF s
  <2>4. Kept(s) BY <1>0, <2>1, <2>3, HoldersKept
  <2>5. OrderNext(s) BY <1>0, <2>1 DEF OrderNext
  <2>6. QED BY <2>1, <2>2, <2>4, <2>5, HeldLeads
<1>2. CASE ApplicationEnds
  <2> DEFINE s == [room EXCEPT !.application.overdue = TRUE]
  <2>1. /\ s \in Room /\ s.members = room.members /\ s.zombies = room.zombies
        /\ s.grant = room.grant /\ s.application.from = room.application.from
        /\ s.application.order = room.application.order /\ s.commit = room.commit
        /\ s.accepted = room.accepted /\ s.nextOrder = room.nextOrder
        /\ s.lifecycle = room.lifecycle
      BY <1>0 DEF Room, HeldApplication
  <2>2. room' = s BY <1>2 DEF ApplicationEnds, Passes
  <2>3. OverdueHeld(s) BY <1>0, <1>2, <2>1 DEF Kept, OverdueHeld, ApplicationEnds
  <2> HIDE DEF s
  <2>4. Kept(s) BY <1>0, <2>1, <2>3, HoldersKept
  <2>5. OrderNext(s) BY <1>0, <2>1 DEF OrderNext
  <2>6. QED BY <2>1, <2>2, <2>4, <2>5, HeldLeads
<1>3. CASE CommitEnds
  <2> DEFINE s == [room EXCEPT !.commit.overdue = TRUE]
  <2>1. /\ s \in Room /\ s.members = room.members /\ s.zombies = room.zombies
        /\ s.grant = room.grant /\ s.application = room.application
        /\ s.commit.from = room.commit.from
        /\ s.accepted = room.accepted /\ s.nextOrder = room.nextOrder
        /\ s.lifecycle = room.lifecycle
      BY <1>0 DEF Room, HeldCommit
  <2>2. room' = s BY <1>3 DEF CommitEnds, Passes
  <2>3. OverdueHeld(s) BY <1>0, <1>3, <2>1 DEF Kept, OverdueHeld, CommitEnds
  <2> HIDE DEF s
  <2>4. Kept(s) BY <1>0, <2>1, <2>3, HoldersKept
  <2>5. OrderNext(s) BY <1>0, <2>1 DEF OrderNext
  <2>6. QED BY <2>1, <2>2, <2>4, <2>5, HeldLeads
<1>4. CASE TransferEnds
  <2> DEFINE s == [room EXCEPT !.transfer.overdue = TRUE]
  <2>1. /\ s \in Room /\ s.members = room.members /\ s.zombies = room.zombies
        /\ s.grant = room.grant /\ s.application = room.application
        /\ s.commit = room.commit
        /\ s.accepted = room.accepted /\ s.nextOrder = room.nextOrder
        /\ s.lifecycle = room.lifecycle
      BY <1>0 DEF Room, Transfer
  <2>2. room' = s BY <1>4 DEF TransferEnds, Passes
  <2> HIDE DEF s
  <2>4. Kept(s) BY <1>0, <2>1, HoldersChange, GoodKept
  <2>5. OrderNext(s) BY <1>0, <2>1 DEF OrderNext
  <2>6. QED BY <2>1, <2>2, <2>4, <2>5, HeldLeads
<1>5. QED BY <1>1, <1>2, <1>3, <1>4

(* A device that is taken offline keeps its place.                            *)
LEMMA DisconnectLeads ==
    ASSUME NEW r, Right(r), NEW d \in Device, r.members[d].status \in {"active", "pending"}
    PROVE  Leads(r, Disconnect(r, d), {d})
<1> DEFINE m == r.members[d]
           n1 == [m EXCEPT !.status = "disconnected", !.conn = 0]
           n2 == [m EXCEPT !.status = "disconnected", !.conn = 0,
                           !.grace = "running", !.replay = 0]
           q == Without(r.queue, {d})
           g == IF r.grant.device = d THEN NoGrant ELSE r.grant
           s1 == [r EXCEPT !.members[d] = n1]
           s2 == [r EXCEPT !.members[d] = n2, !.queue = q, !.grant = g]
<1>1. r \in Room /\ Kept(r) /\ OrderNext(r) /\ m \in Member /\ Sound(r.accepted, d, m)
    BY RightShape
<1>2. 0 \in 0..MaxConn BY RunAssumption
<1>3. Disconnect(r, d) = IF m.phase # "none" THEN s1 ELSE IssueNextGrant(s2)
    BY <1>1 DEF Disconnect, Room
<1>4. m.status \in {"active", "pending"} OBVIOUS
<1>5. q \in [Device -> Nat] BY <1>1, WithoutType DEF Room
<1>6. g \in {r.grant, NoGrant} /\ g \in Grant BY <1>1, NoneTypes DEF Room
<1> HIDE DEF m, q, g
<1>7. FitMember(m) BY <1>1 DEF Sound
<1>8. /\ n1 \in Member /\ n1.status = "disconnected" /\ n1.phase = m.phase
      /\ n1.acked = m.acked /\ n1.added = m.added /\ n1.since = m.since
      /\ n1.fresh = m.fresh /\ n1.grace = m.grace /\ n1.backlog = m.backlog
      /\ n1.proof = m.proof /\ n1.proofOrder = m.proofOrder
    BY <1>1, <1>2 DEF Member, Status
<1>9. /\ n2 \in Member /\ n2.status = "disconnected" /\ n2.phase = m.phase
      /\ n2.acked = m.acked /\ n2.added = m.added /\ n2.since = m.since
      /\ n2.fresh = m.fresh /\ n2.grace = "running" /\ n2.backlog = m.backlog
      /\ n2.proof = m.proof /\ n2.proofOrder = m.proofOrder
    BY <1>1, <1>2 DEF Member, Status, Timer
<1> HIDE DEF n1, n2
<1>10. CASE m.phase # "none"
  <2>1. Stays(m, n1, 0)
    <3>1. Established(n1) <=> Established(m)
        BY <1>4, <1>7, <1>8, <1>10 DEF Established, FitMember
    <3>2. FitMember(m) => FitMember(n1) BY <1>8 DEF FitMember
    <3>3. Fed(m.backlog, n1.backlog, 0) BY <1>8, FedRefl
    <3>4. n1.proof => m.proof \/ m.phase = "awaiting-proof" BY <1>8, Zenon
    <3>5. QED BY <1>4, <1>8, <3>1, <3>2, <3>3, <3>4 DEF Stays
  <2>2. Leads(r, s1, {d}) BY <1>8, <2>1, StaysLeads DEF m
  <2> HIDE DEF s1
  <2>3. QED BY <1>3, <1>10, <2>2
<1>11. CASE m.phase = "none"
  <2>1. Stays(m, n2, 0)
    <3>1. Established(n2) <=> Established(m)
        BY <1>4, <1>9, <1>11 DEF Established
    <3>2. FitMember(m) => FitMember(n2) BY <1>9, <1>11 DEF FitMember
    <3>3. Fed(m.backlog, n2.backlog, 0) BY <1>9, FedRefl
    <3>4. n2.proof => m.proof \/ m.phase = "awaiting-proof" BY <1>9, Zenon
    <3>5. QED BY <1>4, <1>9, <3>1, <3>2, <3>3, <3>4 DEF Stays
  <2>2. Sound(r.accepted, d, n2) /\ (Covered(m) => Covered(n2))
      BY <1>1, <2>1, SoundStays, StaysCovered
  <2>3. /\ s2 \in Room /\ s2.zombies = r.zombies /\ s2.grant = g
        /\ s2.application = r.application /\ s2.commit = r.commit
        /\ s2.accepted = r.accepted /\ s2.nextOrder = r.nextOrder
        /\ s2.lifecycle = r.lifecycle
        /\ \A e \in Device : s2.members[e] = IF e = d THEN n2 ELSE r.members[e]
      BY <1>1, <1>5, <1>6, <1>9 DEF Room
  <2> HIDE DEF s2
  <2>4. \A e \in Device : Reduced(r.members[e], s2.members[e])
    <3>1. Reduced(m, n2) BY <1>9 DEF Reduced
    <3>2. QED BY <2>3, <3>1, ReducedRefl DEF m
  <2>5. Good(r, s2) BY <1>1, <1>6, <2>3, <2>4, MembersGood
  <2>6. Kept(s2) /\ OrderNext(s2) BY <1>1, <2>3, <2>5, GoodKept, ShrinksOrder DEF Good
  <2>7. Leads(r, s2, {d})
    <3>1. /\ \A e \in Device \ {d} : s2.members[e] = r.members[e]
          /\ s2.members[d] = n2
        BY <2>3
    <3>2. Sound(r.accepted, d, s2.members[d])
          /\ (Covered(r.members[d]) => Covered(s2.members[d]))
          /\ s2.members[d].acked = r.members[d].acked
        BY <1>9, <2>2, <3>1 DEF m
    <3>3. QED BY <2>3, <2>6, <3>1, <3>2, OneLeads
  <2>8. Leads(r, IssueNextGrant(s2), {d}) BY <2>7, IssueLeads
  <2>9. QED BY <1>3, <1>11, <2>8 DEF s2
<1>12. QED BY <1>10, <1>11

(* The close of a socket is reported.                                         *)
LEMMA CloseEventLeads ==
    ASSUME Right(room), NEW d \in Device, CloseEvent(d)
    PROVE  \E c \in Conn :
               /\ <<d, c>> \in closing /\ closing' = closing \ {<<d, c>>}
               /\ UNCHANGED socket
               /\ \/ room' = room
                  \/ room.members[d].conn = c /\ Leads(room, room', {d})
<1> DEFINE s == Disconnect(room, d)
<1>1. PICK c \in Conn :
          /\ <<d, c>> \in closing
          /\ closing' = closing \ {<<d, c>>}
          /\ \/ Untouched /\ UNCHANGED room
             \/ /\ room.members[d].conn = c
                /\ room.members[d].status \in {"active", "pending"}
                /\ Commit("close", s)
          /\ UNCHANGED <<socket, stalled>>
    BY DEF CloseEvent
<1>2. CASE Untouched /\ UNCHANGED room BY <1>1, <1>2
<1>3. CASE /\ room.members[d].conn = c
           /\ room.members[d].status \in {"active", "pending"}
           /\ Commit("close", s)
  <2>1. room' \in {room, s} BY <1>3 DEF Commit
  <2>2. Leads(room, s, {d}) BY <1>3, DisconnectLeads
  <2> HIDE DEF s
  <2>3. Leads(room, room', {d}) BY <2>1, <2>2, HandledLeads
  <2>4. QED BY <1>1, <1>3, <2>3
<1>4. QED BY <1>1, <1>2, <1>3

(* A device connects once the deadlines of the others are settled.            *)
LEMMA AwayHelps ==
    ASSUME NEW r, Right(r)
    PROVE  /\ Right(ExpireAway(r)) /\ Eases(r, ExpireAway(r))
           /\ Leads(r, ExpireAway(r), {})
<1> DEFINE s == ExpireAway(r)
<1>1. Good(r, s) /\ Eases(r, s) BY RightShape, ExpireAwayGood, ExpireAwayEases
<1> HIDE DEF s
<1>2. Right(s) BY <1>1, EasesRight
<1>3. QED BY <1>1, <1>2, EasesLeads DEF s

(* A member is changed after the deadlines are settled.                       *)
LEMMA ThenLeads ==
    ASSUME NEW r, NEW s, NEW t, NEW d \in Device, Eases(r, s), Right(t),
           t.accepted = s.accepted, t.members[d].acked = s.members[d].acked,
           \A e \in Device \ {d} : t.members[e] = s.members[e]
    PROVE  Leads(r, t, {d})
<1>1. /\ s.accepted = r.accepted
      /\ \A e \in Device : Helped(r.members[e], s.members[e], 0)
    BY DEF Eases, Keeps
<1>2. \A e \in Device : s.members[e].acked = r.members[e].acked
    BY <1>1 DEF Helped, Gone, Stays
<1>3. \A e \in Device \ {d} :
          s.members[e].conn = r.members[e].conn \/ Lost(s.members[e])
    BY <1>1 DEF Helped
<1>4. Rests(r, t) BY <1>1, <1>2 DEF Rests
<1>5. Connected(r, t, {d}) BY <1>3 DEF Connected
<1>6. QED BY <1>4, <1>5 DEF Leads, Advances

(* What a new connection of d may do: the device has none, and c is new.      *)
Connecting(d) ==
    \E c \in Conn :
        /\ socket[d] = 0 /\ FreshConn(d, c) /\ Leads(room, room', {d})
        /\ socket' \in {socket, [socket EXCEPT ![d] = c]} /\ UNCHANGED closing

(* A device joins for the first time.                                         *)
LEMMA JoinLeads ==
    ASSUME Right(room), NEW d \in Device, Join(d) PROVE Connecting(d)
<1> DEFINE r == ExpireAway(room)
<1>1. PICK c \in Conn :
          /\ Connects(d, c)
          /\ IF r.lifecycle = "retired" THEN Attached("join", d, c, r)
             ELSE /\ ~RemovalBarrier(r) /\ r.members[d].status = "absent"
                  /\ Attached("join", d, c, Arrival(r, d, c))
    BY DEF Join
<1>2. Right(r) /\ Eases(room, r) /\ Leads(room, r, {}) BY AwayHelps
<1>3. Leads(room, r, {d}) BY <1>2 DEF Leads, Connected
<1> HIDE DEF r
<1>4. CASE Attached("join", d, c, r)
  <2>1. room' \in {room, r} /\ socket' \in {socket, [socket EXCEPT ![d] = c]}
        /\ UNCHANGED closing
      BY <1>4 DEF Attached, Commit
  <2>2. Leads(room, room', {d}) BY <1>3, <2>1, HandledLeads
  <2>3. QED BY <1>1, <2>1, <2>2 DEF Connecting, Connects
<1>5. CASE /\ ~RemovalBarrier(r) /\ r.members[d].status = "absent"
           /\ Attached("join", d, c, Arrival(r, d, c))
  <2> DEFINE j == r.nextMember
             n == [NewMember EXCEPT !.status = "pending", !.joined = j, !.conn = c,
                                    !.phase = "awaiting-welcome", !.admission = "running"]
             k == j + 1
             s == [r EXCEPT !.nextMember = k, !.members[d] = n]
  <2>1. r \in Room /\ Kept(r) /\ OrderNext(r) /\ Sound(r.accepted, d, r.members[d])
      BY <1>2, RightShape
  <2>2. j \in Nat /\ k \in Nat BY <2>1 DEF Room
  <2>3. Arrival(r, d, c) = s BY DEF Arrival
  <2>4. Kept(s) BY <1>5, <2>1, <2>3, ArrivalKept
  <2> HIDE DEF j
  <2>5. Sound(r.accepted, d, n) /\ n.acked = r.members[d].acked
    <3> DEFINE log == r.accepted
               m == r.members[d]
    <3>1. Sound(log, d, m) /\ m.status = "absent" BY <1>5, <2>1
    <3> HIDE DEF log, m
    <3>2. /\ n.status = "pending" /\ n.phase = "awaiting-welcome" /\ n.added = FALSE
          /\ n.proof = FALSE /\ n.grace = "off" /\ n.fresh = FALSE /\ n.backlog = <<>>
          /\ n.acked = {}
        BY DEF NewMember
    <3> HIDE DEF n
    <3>3. Sound(log, d, n) /\ n.acked = m.acked BY <3>1, <3>2, SoundArrival
    <3>4. QED BY <3>3 DEF log, m
  <2>6. ~Covered(r.members[d]) BY <1>5, <2>1, UnbornIdle DEF Unborn
  <2> HIDE DEF n, k
  <2>7. /\ s.accepted = r.accepted /\ s.zombies = r.zombies /\ s.nextOrder = r.nextOrder
        /\ s.lifecycle = r.lifecycle /\ s.grant = r.grant /\ s.application = r.application
        /\ s.members[d] = n
        /\ \A e \in Device \ {d} : s.members[e] = r.members[e]
      BY <2>1 DEF Room
  <2> HIDE DEF s
  <2>8. OrderNext(s) BY <2>1, <2>7 DEF OrderNext
  <2>9. Right(s)
    <3>1. Sound(r.accepted, d, s.members[d]) BY <2>5, <2>7
    <3>2. Covered(r.members[d]) => Covered(s.members[d]) BY <2>6
    <3>3. d \in {d} OBVIOUS
    <3>4. QED BY <1>2, <2>4, <2>7, <2>8, <3>1, <3>2, <3>3, OneLeads
  <2>10. Leads(room, s, {d}) BY <1>2, <2>5, <2>7, <2>9, ThenLeads
  <2>11. room' \in {room, s} /\ socket' \in {socket, [socket EXCEPT ![d] = c]}
         /\ UNCHANGED closing
      BY <1>5, <2>3 DEF Attached, Commit
  <2>12. Leads(room, room', {d}) BY <2>10, <2>11, HandledLeads
  <2>13. QED BY <1>1, <2>11, <2>12 DEF Connecting, Connects
<1>6. QED BY <1>1, <1>4, <1>5

(* The member of a device that connects again keeps its place.                *)
LEMMA RetryLeads ==
    ASSUME NEW r, Right(r), NEW s, Eases(r, s), Right(s), NEW d \in Device,
           NEW n \in Member, n.proofOrder = s.members[d].proofOrder,
           Stays(s.members[d], n, 0)
    PROVE  Leads(r, [s EXCEPT !.members[d] = n], {d})
<1> DEFINE t == [s EXCEPT !.members[d] = n]
<1>1. Leads(s, t, {d}) BY StaysLeads
<1>2. s \in Room BY RightShape
<1>3. /\ t.accepted = s.accepted /\ t.members[d] = n
      /\ \A e \in Device \ {d} : t.members[e] = s.members[e]
    BY <1>2 DEF Room
<1> HIDE DEF t
<1>4. Right(t) BY <1>1 DEF Leads
<1>5. t.members[d].acked = s.members[d].acked BY <1>3 DEF Stays
<1>6. Leads(r, t, {d}) BY <1>3, <1>4, <1>5, ThenLeads
<1>7. QED BY <1>6 DEF t

(* A device that is being admitted joins again.                               *)
LEMMA RetryJoinLeads ==
    ASSUME Right(room), NEW d \in Device, RetryJoin(d) PROVE Connecting(d)
<1> DEFINE r == ExpireAway(room)
           m == r.members[d]
           new(c) == [m EXCEPT !.status = "pending", !.conn = c]
<1>1. PICK c \in Conn :
          /\ Connects(d, c) /\ d \in InAdmission(r)
          /\ Attached("join", d, c, [r EXCEPT !.members[d] = new(c)])
    BY DEF RetryJoin
<1>2. Right(r) /\ Eases(room, r) BY AwayHelps
<1> HIDE DEF r
<1> DEFINE n == new(c)
           s == [r EXCEPT !.members[d] = n]
<1>3. m \in Member /\ Sound(r.accepted, d, m) BY <1>2, RightShape
<1>4. m.phase # "none" BY <1>1 DEF InAdmission
<1> HIDE DEF m
<1>5. /\ n \in Member /\ n.status = "pending" /\ n.phase = m.phase
      /\ n.acked = m.acked /\ n.added = m.added /\ n.since = m.since
      /\ n.fresh = m.fresh /\ n.grace = m.grace /\ n.backlog = m.backlog
      /\ n.proof = m.proof /\ n.proofOrder = m.proofOrder
    BY <1>3, ConnType DEF Member, Status
<1> HIDE DEF new
<1>6. FitMember(m) BY <1>3 DEF Sound
<1>7. Stays(m, n, 0)
  <2>1. Established(n) <=> Established(m)
      BY <1>4, <1>5, <1>6 DEF Established, FitMember
  <2>2. FitMember(m) => FitMember(n) BY <1>4, <1>5 DEF FitMember
  <2>3. Fed(m.backlog, n.backlog, 0) BY <1>5, FedRefl
  <2>4. n.proof => m.proof \/ m.phase = "awaiting-proof" BY <1>5, Zenon
  <2>5. m.status # "absent" BY <1>4, <1>6 DEF FitMember
  <2>6. QED BY <1>5, <2>1, <2>2, <2>3, <2>4, <2>5 DEF Stays
<1>8. Leads(room, s, {d}) BY <1>2, <1>5, <1>7, RetryLeads DEF m
<1> HIDE DEF s
<1>9. room' \in {room, s} /\ socket' \in {socket, [socket EXCEPT ![d] = c]}
      /\ UNCHANGED closing
    BY <1>1 DEF Attached, Commit, s
<1>10. Leads(room, room', {d}) BY <1>8, <1>9, HandledLeads
<1>11. QED BY <1>1, <1>9, <1>10 DEF Connecting, Connects

(* A device takes its membership over, or learns that it lost it.             *)
LEMMA ResumeLeads ==
    ASSUME Right(room), NEW d \in Device, Resume(d) PROVE Connecting(d)
<1> DEFINE r == ExpireAway(room)
           m == r.members[d]
           k == Len(m.backlog)
           new(c) == [m EXCEPT !.status = "pending", !.conn = c, !.grace = "off",
                               !.replay = k]
<1>1. PICK c \in Conn :
          /\ Connects(d, c)
          /\ \/ Commit("resume", r) /\ UNCHANGED <<socket, closing, stalled>>
             \/ /\ Established(m) /\ ~m.fresh
                /\ Attached("resume", d, c, [r EXCEPT !.members[d] = new(c)])
    BY DEF Resume
<1>2. Right(r) /\ Eases(room, r) /\ Leads(room, r, {}) BY AwayHelps
<1>3. Leads(room, r, {d}) BY <1>2 DEF Leads, Connected
<1> HIDE DEF r
<1>4. CASE Commit("resume", r) /\ UNCHANGED <<socket, closing, stalled>>
  <2>1. room' \in {room, r} BY <1>4 DEF Commit
  <2>2. Leads(room, room', {d}) BY <1>3, <2>1, HandledLeads
  <2>3. QED BY <1>1, <1>4, <2>2 DEF Connecting, Connects
<1>5. CASE /\ Established(m) /\ ~m.fresh
           /\ Attached("resume", d, c, [r EXCEPT !.members[d] = new(c)])
  <2> DEFINE n == new(c)
             s == [r EXCEPT !.members[d] = n]
  <2>1. m \in Member /\ Sound(r.accepted, d, m) BY <1>2, RightShape
  <2>2. k \in Nat BY <2>1, MemberShape
  <2>3. Established(m) BY <1>5
  <2>4. FitMember(m) BY <2>1 DEF Sound
  <2> HIDE DEF m, k
  <2>5. /\ n \in Member /\ n.status = "pending" /\ n.phase = m.phase
        /\ n.acked = m.acked /\ n.added = m.added /\ n.since = m.since
        /\ n.fresh = m.fresh /\ n.grace = "off" /\ n.backlog = m.backlog
        /\ n.proof = m.proof /\ n.proofOrder = m.proofOrder
      BY <2>1, <2>2, ConnType DEF Member, Status, Timer
  <2> HIDE DEF new
  <2>6. m.phase = "none" /\ m.status # "absent"
      BY <2>3, <2>4 DEF Established, FitMember
  <2>7. Stays(m, n, 0)
    <3>1. Established(n) <=> Established(m) BY <2>3, <2>5, <2>6 DEF Established
    <3>2. FitMember(m) => FitMember(n) BY <2>5, <2>6 DEF FitMember
    <3>3. Fed(m.backlog, n.backlog, 0) BY <2>5, FedRefl
    <3>4. n.proof => m.proof \/ m.phase = "awaiting-proof" BY <2>5, Zenon
    <3>5. QED BY <2>5, <2>6, <3>1, <3>2, <3>3, <3>4 DEF Stays
  <2>8. Leads(room, s, {d}) BY <1>2, <2>5, <2>7, RetryLeads DEF m
  <2> HIDE DEF s
  <2>9. room' \in {room, s} /\ socket' \in {socket, [socket EXCEPT ![d] = c]}
        /\ UNCHANGED closing
      BY <1>5 DEF Attached, Commit, s
  <2>10. Leads(room, room', {d}) BY <2>8, <2>9, HandledLeads
  <2>11. QED BY <1>1, <2>9, <2>10 DEF Connecting, Connects
<1>6. QED BY <1>1, <1>4, <1>5

(* Whose Add or bootstrap is the last frame is the only one whose admission   *)
(* has begun.                                                                 *)
LEMMA OthersPlain ==
    ASSUME NEW r, Right(r), NEW a \in Device, r.members[a].phase # "none", r.members[a].added
    PROVE  \A d \in Device \ {a} : r.members[d].phase = "none" \/ ~r.members[d].added
<1>1. ASSUME NEW d \in Device \ {a}, r.members[d].phase # "none", r.members[d].added
      PROVE  FALSE
  <2>1. AtTail(r.accepted, d, r.members[d]) /\ AtTail(r.accepted, a, r.members[a])
      BY RightShape DEF Sound
  <2>2. Last(r.accepted).subject = d /\ Last(r.accepted).subject = a
      BY <1>1, <2>1 DEF AtTail
  <2>3. QED BY <2>2
<1>2. QED BY <1>1, Zenon

(* The host activates the device whose proof it checked.                      *)
LEMMA ActivateLeads ==
    ASSUME Right(room), NEW h \in Device, Activate(h) PROVE Leads(room, room', {})
<1> DEFINE order == room.nextOrder
           log == room.accepted
           base == Numbered(room)
           new(a) == [base EXCEPT !.members[a] = [ClearAdmission(@) EXCEPT !.status = "active"]]
           res(a) == IssueNextGrant(Accept(new(a), "join-proof", a, a, order))
<1>1. PICK a \in InAdmission(room) :
          /\ room.members[a].proof /\ room.members[a].proofOrder = order
          /\ ~RemovalBarrier(room)
          /\ Handled("activate", res(a))
    BY DEF Activate
<1>2. room' \in {room, res(a)} BY <1>1 DEF Handled, Commit
<1>3. a \in Device /\ a \in OptDevice /\ room.members[a].phase # "none"
    BY <1>1 DEF InAdmission, OptDevice
<1>4. /\ room \in Room /\ Kept(room) /\ log \in Seq(Frame) /\ Len(log) \in Nat
      /\ \A d \in Device : room.members[d] \in Member /\ Sound(log, d, room.members[d])
      /\ order \in Nat /\ order # 0
    BY <1>3, RightShape, NextPositive
<1>5. /\ room.members[a].added /\ room.members[a].phase = "awaiting-proof"
  <2> DEFINE m == room.members[a]
  <2>1. m.phase # "none" /\ (m.proof \/ m.phase = "awaiting-proof") =>
          m.added /\ m.phase = "awaiting-proof"
      BY <1>3, <1>4 DEF Sound
  <2>2. m.proof BY <1>1
  <2> HIDE DEF m
  <2>3. QED BY <1>3, <2>1, <2>2, Zenon DEF m
<1>6. Len(log) > 1 /\ Last(log).kind = "bootstrap" /\ Last(log).subject = a
  <2>1. Len(log) > 0 /\ Last(log).kind = "bootstrap" /\ Last(log).subject = a
      BY <1>3, <1>4, <1>5 DEF Sound, AtTail
  <2>2. Uninterrupted(log) BY DEF Right, LogInv
  <2>3. Len(log) \in 1..Len(log) BY <1>4, <2>1
  <2>4. Len(log) > 1 BY <2>1, <2>2, <2>3 DEF Uninterrupted, Last
  <2>5. QED BY <2>1, <2>4
<1>7. room.grant.device = NoDevice /\ room.application.from = NoDevice
    BY <1>1, <1>3, <1>4 DEF Kept, Auth
<1>8. /\ Kept(base) /\ base \in Room /\ base.members = room.members
      /\ base.accepted = log /\ base.zombies = room.zombies
      /\ base.lifecycle = room.lifecycle /\ base.nextOrder = order + 1
      /\ base.grant = room.grant /\ base.application = room.application
  <2>1. Kept(base) BY <1>4, NumberedGood, GoodKept
  <2>2. QED BY <1>4, <2>1 DEF Numbered, Kept, Room
<1> DEFINE m == room.members[a]
           n == [ClearAdmission(m) EXCEPT !.status = "active"]
           q == [base EXCEPT !.members[a] = n]
<1>9. new(a) = q BY <1>8
<1>10. /\ n \in Member /\ n.phase = "none" /\ n.proofOrder = 0
       /\ n.conn = m.conn /\ n.acked = m.acked
  <2>1. m \in Member BY <1>3, <1>4
  <2> HIDE DEF m
  <2>2. QED BY <2>1, MemberTypes DEF ClearAdmission, Member, Status
<1>11. Sound(log, a, n) /\ Covered(n) BY <1>3, <1>4, <1>5, SoundActivated
<1> HIDE DEF n, base, new
<1>12. Kept(q) BY <1>3, <1>8, <1>10, MemberKept
<1>13. /\ q.accepted = log /\ q.zombies = room.zombies /\ q.lifecycle = room.lifecycle
       /\ q.nextOrder = order + 1
       /\ q.grant.device = NoDevice /\ q.application.from = NoDevice
       /\ \A d \in Device : q.members[d] = IF d = a THEN n ELSE room.members[d]
    BY <1>3, <1>7, <1>8 DEF Room
<1> HIDE DEF q
<1> DEFINE f == [kind |-> "join-proof", from |-> a, subject |-> a, order |-> order]
<1>14. /\ f \in Frame /\ f.kind = "join-proof" /\ f.from = a /\ f.subject = a
       /\ IsOrdered(f) /\ Continues(log, f)
  <2>1. f \in Frame /\ f.kind = "join-proof" /\ f.from = a /\ f.subject = a
      BY <1>3, <1>4 DEF Frame, AcceptedKind
  <2> HIDE DEF f
  <2>2. QED BY <1>6, <2>1 DEF IsOrdered, Continues
<1>15. \A d \in Device : q.members[d] \in Member /\ Sound(log, d, q.members[d])
                         /\ (q.members[d].phase = "none" \/ ~q.members[d].added)
    BY <1>3, <1>4, <1>5, <1>10, <1>11, <1>13, OthersPlain
<1>16. Fit(q) BY <1>15 DEF Fit, Sound
<1> HIDE DEF f
<1>17. ASSUME NEW d \in Device, NEW k \in Member,
              Helped(q.members[d], k, IF d \in Reached(q, Device) THEN Len(log) + 1 ELSE 0)
       PROVE  Sound(Append(log, f), d, k)
  <2> DEFINE o == q.members[d]
  <2>1. o \in Member /\ Sound(log, d, o) /\ (o.phase = "none" \/ ~o.added) BY <1>15
  <2>2. Helped(o, k, IF Established(o) /\ ~o.fresh THEN Len(log) + 1 ELSE 0)
      BY <1>17 DEF Reached
  <2>3. f.from = d => f.kind # "bootstrap" BY <1>14
  <2>4. f.kind \in {"add", "remove"} /\ f.subject = d => f.kind # "add" /\ ~Unborn(o)
      BY <1>14
  <2> HIDE DEF o
  <2>5. QED BY <1>4, <1>14, <2>1, <2>2, <2>3, <2>4, SoundAppend
<1>18. \A d \in Device :
           /\ q.members[d].conn = room.members[d].conn
           /\ q.members[d].acked = room.members[d].acked
           /\ Covered(room.members[d]) => Covered(q.members[d])
    BY <1>10, <1>11, <1>13
<1>19. Leads(room, res(a), {})
  <2> DEFINE kind == "join-proof"
             s == Accept(q, kind, a, a, order)
  <2>1. kind \in AcceptedKind /\ kind # "add" BY DEF AcceptedKind
  <2>2. f = [kind |-> kind, from |-> a, subject |-> a, order |-> order] BY DEF f
  <2> HIDE DEF kind, order, log
  <2>3. /\ q.nextOrder = room.nextOrder + (IF IsOrdered(f) THEN 1 ELSE 0)
        /\ order = IF IsOrdered(f) THEN room.nextOrder ELSE 0
      BY <1>13, <1>14 DEF order
  <2>4. Leads(room, s, {}) /\ Leads(room, IssueNextGrant(s), {})
      BY <1>1, <1>3, <1>4, <1>12, <1>13, <1>14, <1>16, <1>17, <1>18, <2>1, <2>2, <2>3,
         AcceptLeads DEF log
  <2>5. QED BY <1>9, <2>4 DEF kind
<1>20. QED BY <1>2, <1>19, HandledLeads

(* The device that is still there is fed its bootstrap, with its order.       *)
LEMMA BootstrapFeeds ==
    ASSUME NEW k \in Member, NEW m \in Member, NEW e \in Entry,
           Helped(k, m, 0), m.status = "pending", NEW g, g = Given(m, e),
           NEW n, n.status = g.status, n.phase = g.phase, n.added = g.added,
           n.since = g.since, n.acked = g.acked, n.fresh = g.fresh, n.grace = g.grace,
           n.proof = g.proof, n.backlog = g.backlog, n.conn = g.conn
    PROVE  Stays(k, n, e.frame) /\ n.conn = k.conn /\ n.acked = k.acked
<1>1. ~Lost(m) BY DEF Lost
<1>2. Stays(k, m, 0) /\ m.conn = k.conn BY <1>1 DEF Helped
<1>3. g \in Member /\ g.status = "pending" BY GivenType DEF Given, Member
<1>4. Helped(m, g, e.frame) BY GivenStays
<1>5. ~Lost(g) BY <1>3 DEF Lost
<1>6. Stays(m, g, e.frame) /\ g.conn = m.conn BY <1>4, <1>5 DEF Helped
<1>7. Stays(k, g, e.frame)
  <2>1. Stays(k, g, Either(0, e.frame)) BY <1>2, <1>6, StaysTrans
  <2>2. QED BY <2>1 DEF Either
<1>8. /\ Established(n) <=> Established(g)
      /\ FitMember(g) => FitMember(n)
    BY DEF Established, FitMember
<1>9. Stays(k, n, e.frame)
  <2>1. n.proof => k.proof \/ k.phase = "awaiting-proof"
      BY <1>7, Zenon DEF Stays
  <2>2. QED BY <1>7, <1>8, <2>1 DEF Stays
<1>10. n.acked = k.acked BY <1>9 DEF Stays
<1>11. QED BY <1>2, <1>6, <1>9, <1>10

(* The host introduces the new device to the group.                           *)
LEMMA BootstrapLeads ==
    ASSUME IInv, Right(room), NEW h \in Device, Bootstrap(h) PROVE Leads(room, room', {})
<1> DEFINE order == room.grant.order
           log == room.accepted
           i == Len(log) + 1
           entry == RelayEntry(i, order)
           base == Numbered(Spent(room))
           new(a) == [base EXCEPT !.members[a].phase = "awaiting-proof"]
           routed(a) == Route(Record(new(a), "bootstrap", h, a, order), h, entry)
           proven(a) == [routed(a) EXCEPT !.members[a] =
                            [Given(@, entry) EXCEPT !.proofOrder = routed(a).nextOrder]]
           res(a) == IF routed(a).members[a].status # "pending" THEN routed(a) ELSE proven(a)
<1>1. PICK a \in AdmissionBarrier(room) :
          /\ room.grant.device = h /\ room.members[h].status = "active"
          /\ room.members[a].status = "pending"
          /\ room.members[a].phase = "awaiting-bootstrap"
          /\ Handled("bootstrap", res(a))
    BY DEF Bootstrap, Holds, HostReady, Ready
<1>2. room' \in {room, res(a)} BY <1>1 DEF Handled, Commit
<1>3. Kept(room')
  <2>1. IInv' BY BootstrapStep
  <2>2. QED BY <2>1 DEF IInv
<1>4. a \in Device /\ a \in OptDevice /\ a \in InAdmission(room) /\ room.members[a].added
    BY <1>1, Zenon DEF AdmissionBarrier, InAdmission, OptDevice
<1>5. /\ room \in Room /\ Kept(room) /\ log \in Seq(Frame) /\ Len(log) \in Nat /\ i \in Nat
      /\ \A d \in Device : room.members[d] \in Member /\ Sound(log, d, room.members[d])
    BY RightShape
<1>6. LET p == Spent(room) IN
      /\ Right(p) /\ p.accepted = log /\ p.zombies = room.zombies
      /\ p.lifecycle = room.lifecycle /\ p.members = room.members
      /\ p.nextOrder = room.nextOrder /\ p.grant = NoGrant
      /\ p.application.from = NoDevice
      /\ order = room.nextOrder /\ order \in Nat /\ order # 0
    BY <1>1, SpentShape
<1>7. /\ Kept(base) /\ base \in Room /\ base.members = room.members
      /\ base.accepted = log /\ base.zombies = room.zombies
      /\ base.lifecycle = room.lifecycle /\ base.nextOrder = order + 1
      /\ base.grant = NoGrant /\ base.application.from = NoDevice
  <2> DEFINE p == Spent(room)
  <2>1. p \in Room /\ Kept(p) BY <1>6, RightShape
  <2> HIDE DEF p
  <2>2. Kept(Numbered(p)) BY <2>1, NumberedGood, GoodKept
  <2>3. QED BY <1>6, <2>1, <2>2 DEF Numbered, Kept, Room, p
<1> DEFINE m == room.members[a]
           k == [m EXCEPT !.phase = "awaiting-proof"]
           q == [base EXCEPT !.members[a] = k]
<1>8. new(a) = q BY <1>7
<1>9. /\ k \in Member /\ k.status = "pending" /\ k.phase = "awaiting-proof" /\ k.added = m.added
      /\ k.since = m.since /\ k.acked = m.acked /\ k.conn = m.conn
      /\ k.grace = m.grace /\ k.fresh = m.fresh
  <2>1. m \in Member /\ m.status = "pending" BY <1>1, <1>4, <1>5
  <2> HIDE DEF m
  <2>2. QED BY <2>1 DEF Member, Phase
<1>10. FitMember(k) /\ ~Established(k) /\ Covered(k) /\ Covered(m)
  <2>1. FitMember(m) /\ m.phase # "none" /\ m.added BY <1>1, <1>4, <1>5 DEF Sound
  <2>2. m.grace = "off" /\ ~m.fresh BY <2>1 DEF FitMember
  <2> HIDE DEF m, k
  <2>3. k.grace = "off" /\ ~k.fresh /\ k.added BY <1>9, <2>1, <2>2, Zenon
  <2>4. FitMember(k) BY <1>9, <2>3 DEF FitMember
  <2>5. ~Established(k) BY <1>9 DEF Established
  <2>6. Covered(k) /\ Covered(m) BY <1>9, <2>1, <2>3 DEF Covered
  <2>7. QED BY <2>4, <2>5, <2>6
<1>11. \A d \in Device \ {a} : room.members[d].phase = "none" \/ ~room.members[d].added
    BY <1>1, <1>4, OthersPlain
<1>12. h # a /\ room.members[h].phase = "none" BY <1>1, <1>5 DEF Sound, FitMember
<1>13. Continues(log, [kind |-> "bootstrap", from |-> h, subject |-> a, order |-> order])
  <2>1. Len(log) > 0 /\ Last(log).subject = a /\ Last(log).kind = "add"
      BY <1>1, <1>4, <1>5 DEF Sound, AtTail
  <2>2. QED BY <2>1 DEF Continues
<1>14. ~RemovalBarrier(room) BY <1>4, <1>5 DEF Kept, BarrierAlone
<1> HIDE DEF k, base, new
<1>15. /\ q.accepted = log /\ q.zombies = room.zombies /\ q.lifecycle = room.lifecycle
       /\ q.nextOrder = order + 1 /\ q \in Room
       /\ q.grant = NoGrant /\ q.application.from = NoDevice
       /\ \A d \in Device : q.members[d] = IF d = a THEN k ELSE room.members[d]
    BY <1>4, <1>7, <1>9 DEF Room
<1> HIDE DEF q
<1> DEFINE f == [kind |-> "bootstrap", from |-> h, subject |-> a, order |-> order]
           rec == Record(q, "bootstrap", h, a, order)
           t == Route(rec, h, entry)
<1>16. routed(a) = t BY <1>8
<1>17. /\ f \in Frame /\ f.kind = "bootstrap" /\ f.from = h /\ f.subject = a
       /\ f.order = order /\ IsOrdered(f)
    BY <1>4, <1>6 DEF Frame, AcceptedKind, IsOrdered
<1>18. Good(q, rec)
    BY <1>4, <1>6, <1>15, RecordGood DEF AcceptedKind
<1>19. /\ rec.members = q.members /\ rec.zombies = q.zombies /\ rec.grant = q.grant
       /\ rec.application = q.application
       /\ rec.lifecycle = q.lifecycle /\ rec.nextOrder = q.nextOrder
       /\ rec.accepted = Append(log, f)
    BY <1>15 DEF Record, Room
<1>20. entry \in Entry /\ entry.frame = i BY <1>5, <1>6, EntryTypes DEF RelayEntry
<1> HIDE DEF f, rec, entry
<1>21. Fit(rec)
  <2>1. \A d \in Device : FitMember(rec.members[d]) BY <1>5, <1>10, <1>15, <1>19 DEF Sound
  <2>2. QED BY <2>1 DEF Fit
<1>22. Keeps(rec, t, Reached(rec, Device \ {h}), i, {}) /\ Good(rec, t)
    BY <1>18, <1>20, <1>21, RouteKeeps, RouteGood DEF Good
<1> HIDE DEF t, routed
<1>23. \A d \in Device :
           Helped(q.members[d], t.members[d],
                  IF d \in Reached(q, Device \ {h}) THEN i ELSE 0)
    BY <1>19, <1>22 DEF Keeps, Reached
<1>24. t \in Room /\ t.grant = NoGrant /\ t.application.from = NoDevice
       /\ t.accepted = Append(log, f) /\ t.nextOrder = order + 1
    BY <1>15, <1>19, <1>22 DEF Keeps, Good, Shrinks, NoApplication
<1> DEFINE ta == t.members[a]
           n == [Given(ta, entry) EXCEPT !.proofOrder = t.nextOrder]
           na == IF ta.status # "pending" THEN ta ELSE n
           s == IF ta.status # "pending" THEN t ELSE [t EXCEPT !.members[a] = n]
<1>25. Helped(k, ta, 0)
  <2>1. a \notin Reached(q, Device \ {h}) BY <1>4, <1>10, <1>15 DEF Reached
  <2>2. QED BY <1>4, <1>15, <1>23, <2>1
<1>26. ta \in Member /\ t.nextOrder \in Nat BY <1>4, <1>24 DEF Room
<1>27. res(a) = s BY <1>16
<1>28. ta.status = "pending" => Stays(k, n, i) /\ n.conn = k.conn /\ n.acked = k.acked
  <2> DEFINE g == Given(ta, entry)
             x == t.nextOrder
  <2>1. g \in Member BY <1>20, <1>26, GivenType
  <2> HIDE DEF ta, g, x, i
  <2>2. /\ n.status = g.status /\ n.phase = g.phase /\ n.added = g.added
        /\ n.since = g.since /\ n.acked = g.acked /\ n.fresh = g.fresh /\ n.grace = g.grace
        /\ n.proof = g.proof /\ n.backlog = g.backlog /\ n.conn = g.conn
      BY <2>1 DEF Member, g
  <2> HIDE DEF n
  <2>3. SUFFICES ASSUME ta.status = "pending"
                 PROVE  Stays(k, n, i) /\ n.conn = k.conn /\ n.acked = k.acked
      OBVIOUS
  <2>4. g = Given(ta, entry) BY DEF g
  <2>5. Stays(k, n, entry.frame) /\ n.conn = k.conn /\ n.acked = k.acked
      BY <1>9, <1>20, <1>25, <1>26, <2>2, <2>3, <2>4, BootstrapFeeds
  <2>6. QED BY <1>20, <2>5
<1> HIDE DEF n, ta
<1>29. ta.status # "pending" => Gone(k, ta) /\ Lost(ta) BY <1>9, <1>25 DEF Helped
<1>30. Sound(Append(log, f), a, na) /\ na.acked = m.acked
       /\ (na.conn = m.conn \/ Lost(na))
  <2>1. CASE ta.status = "pending"
    <3>1. na = n BY <2>1
    <3>2. m \in Member /\ Sound(log, a, m) /\ m.phase = "awaiting-bootstrap" /\ m.added
        BY <1>1, <1>4, <1>5
    <3> HIDE DEF m, i, log
    <3>3. Sound(Append(log, f), a, n)
        BY <1>4, <1>5, <1>12, <1>17, <1>28, <2>1, <3>2, SoundBootstrapped DEF k, i
    <3>4. QED BY <1>9, <1>28, <2>1, <3>1, <3>3
  <2>2. CASE ta.status # "pending"
    <3>1. na = ta /\ Gone(k, ta) /\ Lost(ta) BY <1>29, <2>2
    <3>2. a \in SettledSet => k.since = 0 BY <1>4, <1>5, <1>9 DEF Sound
    <3>3. Sound(Append(log, f), a, ta) BY <1>4, <3>1, <3>2, SoundGone
    <3>4. ta.acked = k.acked BY <3>1 DEF Gone
    <3>5. QED BY <1>9, <3>1, <3>3, <3>4
  <2>3. QED BY <2>1, <2>2
<1>31. ta.status = "pending" => Covered(n) BY <1>10, <1>28, StaysCovered
<1>32. /\ s.accepted = t.accepted /\ s.nextOrder = t.nextOrder /\ s.zombies = t.zombies
       /\ s.lifecycle = t.lifecycle /\ s.grant = t.grant /\ s.application = t.application
       /\ \A d \in Device : s.members[d] = IF d = a THEN na ELSE t.members[d]
    BY <1>4, <1>24 DEF Room, ta
<1> HIDE DEF na, s
<1>33. ASSUME NEW d \in Device \ {a}
       PROVE  /\ Sound(Append(log, f), d, t.members[d])
              /\ t.members[d].acked = room.members[d].acked
              /\ t.members[d].conn = room.members[d].conn \/ Lost(t.members[d])
  <2> DEFINE o == room.members[d]
             u == t.members[d]
             c == IF d \in Reached(q, Device \ {h}) THEN i ELSE 0
  <2>1. o \in Member /\ Sound(log, d, o) /\ u \in Member /\ (o.phase = "none" \/ ~o.added)
      BY <1>5, <1>11, <1>24 DEF Room
  <2>2. Helped(o, u, c) /\ q.members[d] = o BY <1>15, <1>23
  <2>3. u.acked = o.acked /\ (u.conn = o.conn \/ Lost(u))
      BY <2>2 DEF Helped, Gone, Stays
  <2>4. Sound(Append(log, f), d, u)
    <3>1. CASE d = h
      <4>1. c = 0 /\ o.phase = "none" BY <1>12, <3>1 DEF Reached
      <4> HIDE DEF o, u, c
      <4>2. Helped(o, u, 0) BY <2>2, <4>1
      <4>3. QED BY <1>5, <1>17, <2>1, <3>1, <4>1, <4>2, SoundSender
    <3>2. CASE d # h
      <4>1. c = IF Established(o) /\ ~o.fresh THEN i ELSE 0 BY <2>2, <3>2 DEF Reached
      <4>2. f.from = d => f.kind # "bootstrap" BY <1>17, <3>2
      <4>3. f.kind \in {"add", "remove"} /\ f.subject = d => f.kind # "add" /\ ~Unborn(o)
          BY <1>17
      <4> HIDE DEF o, u, c
      <4>4. Helped(o, u, IF Established(o) /\ ~o.fresh THEN i ELSE 0) BY <2>2, <4>1
      <4>5. QED BY <1>5, <1>17, <2>1, <4>2, <4>3, <4>4, SoundAppend
    <3>3. QED BY <3>1, <3>2
  <2>5. QED BY <2>3, <2>4
<1>34. CASE room' = s
  <2>1. Kept(s) BY <1>3, <1>34
  <2>2. \A d \in Device : Sound(s.accepted, d, s.members[d])
      BY <1>24, <1>30, <1>32, <1>33
  <2>3. \A d \in Device : s.members[d].acked = room.members[d].acked
      BY <1>30, <1>32, <1>33
  <2>4. Connected(room, s, {})
      BY <1>30, <1>32, <1>33 DEF Connected
  <2>5. OrderNext(s) BY <1>24, <1>32 DEF OrderNext, NoGrant
  <2>6. s.lifecycle = "open" =>
            /\ room.lifecycle = "open" /\ Listed(room.zombies) \subseteq Listed(s.zombies)
            /\ \A d \in Device : Covered(room.members[d]) \/ (f.kind = "add" /\ f.subject = d) =>
                   Covered(s.members[d]) \/ d \in Listed(s.zombies)
    <3> SUFFICES ASSUME s.lifecycle = "open"
        PROVE /\ room.lifecycle = "open" /\ Listed(room.zombies) \subseteq Listed(s.zombies)
              /\ \A d \in Device : Covered(room.members[d]) =>
                     Covered(s.members[d]) \/ d \in Listed(s.zombies)
        BY <1>17
    <3>1. /\ t.lifecycle = "open" /\ room.lifecycle = "open"
          /\ Listed(room.zombies) \subseteq Listed(t.zombies)
          /\ \A d \in Device : Covered(q.members[d]) =>
                 Covered(t.members[d]) \/ d \in Listed(t.zombies)
        BY <1>15, <1>19, <1>22, <1>32 DEF Keeps
    <3>2. Covered(na) \/ a \in Listed(t.zombies)
        BY <1>4, <1>10, <1>15, <1>31, <3>1 DEF na, ta
    <3>3. QED BY <1>15, <1>32, <3>1, <3>2
  <2>7. s.nextOrder = room.nextOrder + (IF IsOrdered(f) THEN 1 ELSE 0)
        /\ f.order = IF IsOrdered(f) THEN room.nextOrder ELSE 0
      BY <1>6, <1>17, <1>24, <1>32
  <2>8. \A d \in Device : f.kind = "add" /\ f.subject = d =>
            d \notin SettledSet /\ Changes(log, d) = {}
      BY <1>17
  <2>9. Leads(room, s, {})
      BY <1>13, <1>14, <1>17, <1>24, <1>32, <2>1, <2>2, <2>3, <2>4, <2>5, <2>6, <2>7, <2>8,
         PublishLeads DEF f
  <2>10. QED BY <1>34, <2>9
<1>35. CASE room' = room BY <1>35, LeadsRefl
<1>36. QED BY <1>2, <1>27, <1>34, <1>35

(****************************************************************************)
(* The invariant.                                                           *)
(****************************************************************************)
(* A socket that is open is not also about to be reported closed.             *)
Linked == \A d \in Device : socket[d] # 0 => <<d, socket[d]>> \notin closing

(* The inductive invariant.                                                   *)
LInv == IInv /\ Right(room) /\ Linked

(* The founded room has accepted nothing.                                     *)
LEMMA InitRight == ASSUME Init PROVE LInv
<1> DEFINE r == NewRoom
           joined(d) == CHOOSE i \in 1..Len(Settled) : Settled[i] = d
           fresh(d) == [NewMember EXCEPT !.status = "active", !.conn = 1, !.joined = joined(d)]
<1>1. IInv /\ room = r /\ closing = {} BY InitKept DEF Init
<1>2. Kept(r) BY <1>1 DEF IInv
<1>3. /\ r.accepted = <<>> /\ r.nextOrder = 1 /\ r.lifecycle = "open"
      /\ r.grant = NoGrant /\ r.application = NoApplication
      /\ \A d \in Device : r.members[d] = IF d \in SettledSet THEN fresh(d) ELSE NewMember
    BY DEF NewRoom
<1>4. \A d \in Device :
          LET m == r.members[d] IN
          /\ m.status = IF d \in SettledSet THEN "active" ELSE "absent"
          /\ m.phase = "none" /\ m.fresh = FALSE /\ m.since = 0 /\ m.acked = {}
          /\ m.backlog = <<>>
  <2> HIDE DEF r, joined
  <2>1. \A d \in Device :
            /\ fresh(d).status = "active" /\ fresh(d).phase = "none"
            /\ fresh(d).fresh = FALSE /\ fresh(d).since = 0 /\ fresh(d).acked = {}
            /\ fresh(d).backlog = <<>>
      BY DEF NewMember
  <2>2. /\ NewMember.status = "absent" /\ NewMember.phase = "none"
        /\ NewMember.fresh = FALSE /\ NewMember.since = 0 /\ NewMember.acked = {}
        /\ NewMember.backlog = <<>>
      BY DEF NewMember
  <2> HIDE DEF fresh
  <2>3. QED BY <1>3, <2>1, <2>2
<1> HIDE DEF r, fresh
<1>5. \A d \in Device : Changes(<<>>, d) = {} /\ Owed(<<>>, d, 0) = {}
    BY DEF Changes, Owed
<1>6. ASSUME NEW d \in Device
      PROVE  Sound(<<>>, d, r.members[d]) /\ (Covered(r.members[d]) <=> d \in SettledSet)
  <2> DEFINE m == r.members[d]
  <2>1. /\ m.status = IF d \in SettledSet THEN "active" ELSE "absent"
        /\ m.phase = "none" /\ m.fresh = FALSE /\ m.since = 0 /\ m.acked = {}
        /\ m.backlog = <<>>
      BY <1>4
  <2> HIDE DEF m
  <2>2. Covered(m) <=> d \in SettledSet BY <2>1 DEF Covered, Established
  <2>3. Frames(m.backlog) = {} BY <2>1 DEF Frames
  <2>4. Increasing(m.backlog) BY <2>1 DEF Increasing
  <2>5. Complete(<<>>, d, m) BY <1>5, <2>1, <2>3, <2>4 DEF Complete
  <2>6. FitMember(m) /\ AtTail(<<>>, d, m) BY <2>1 DEF FitMember, AtTail
  <2>7. Sound(<<>>, d, m) BY <1>5, <2>1, <2>2, <2>3, <2>5, <2>6 DEF Sound
  <2>8. QED BY <2>2, <2>7 DEF m
<1>7. LogInv(r)
  <2>1. Uninterrupted(<<>>) /\ AddedFirst(<<>>)
      BY <1>5 DEF Uninterrupted, AddedFirst, Adds
  <2>2. OrderedIn(<<>>) = {} BY DEF OrderedIn
  <2>3. Cardinality(OrderedIn(<<>>)) = 0 BY <2>2, FS_EmptySet
  <2>4. QED BY <1>3, <1>6, <2>1, <2>3 DEF LogInv
<1>8. Accounted(r)
  <2>1. \A d \in Roster(r) : d \in Device /\ d \in SettledSet
      BY <1>3 DEF Roster
  <2>2. QED BY <1>6, <2>1 DEF Accounted
<1>9. OrderNext(r) BY <1>3 DEF OrderNext, NoGrant, NoApplication
<1>10. QED BY <1>1, <1>2, <1>7, <1>8, <1>9 DEF LInv, Right, Linked

(* A step of the host, of a member or of the clock that touches no connection.*)
QuietStep == Leads(room, room', {}) /\ UNCHANGED <<socket, closing>>

(* A handler leaves the connections alone.                                    *)
LEMMA HostFrameQuiet ==
    ASSUME IInv, Right(room), NEW h \in Device, HostFrame(h) PROVE QuietStep
<1>1. Leads(room, room', {})
    BY HostUpdateLeads, HostRemoveLeads, HostRemoveMarkedLeads, HostAddLeads,
       WelcomeLeads, BootstrapLeads, ActivateLeads, CancelAdmissionLeads,
       HostApplicationLeads, ApproveApplicationLeads, RejectApplicationLeads,
       ApproveCommitLeads, RejectCommitLeads, AuthorizeTransferLeads,
       RetireMemberFrameLeads, CloseRoomLeads
    DEF HostFrame
<1>2. HostUpdate(h) \/ HostRemove(h) \/ HostRemoveMarked(h) \/ HostAdd(h) =>
          UNCHANGED <<socket, closing>>
    BY Zenon DEF HostUpdate, HostRemove, HostRemoveMarked, HostAdd, Handled
<1>3. Welcome(h) \/ Bootstrap(h) \/ Activate(h) \/ CancelAdmission(h) =>
          UNCHANGED <<socket, closing>>
    BY Zenon DEF Welcome, Bootstrap, Activate, CancelAdmission, Handled
<1>4. HostApplication(h) \/ ApproveApplication(h) \/ RejectApplication(h) =>
          UNCHANGED <<socket, closing>>
    BY Zenon DEF HostApplication, ApproveApplication, RejectApplication, Handled
<1>5. ApproveCommit(h) \/ RejectCommit(h) \/ AuthorizeTransfer(h)
          \/ RetireMemberFrame(h) \/ CloseRoom(h) => UNCHANGED <<socket, closing>>
    BY Zenon DEF ApproveCommit, RejectCommit, AuthorizeTransfer, RetireMemberFrame,
                 CloseRoom, Handled
<1>6. QED BY <1>1, <1>2, <1>3, <1>4, <1>5 DEF HostFrame, QuietStep

(* So do a member's frames, and those that are dropped for a deadline.        *)
LEMMA MemberFrameQuiet ==
    ASSUME Right(room), NEW d \in Device, MemberFrame(d) PROVE QuietStep
<1>1. Leads(room, room', {})
    BY OrderRequestLeads, MemberCommitLeads, MemberApplicationLeads, JoinProofLeads,
       LateFrameLeads, AcknowledgeLeads, ResumeCompleteLeads, DroppedFrameLeads,
       DroppedRequestLeads, DroppedGrantFrameLeads
    DEF MemberFrame
<1>2. OrderRequest(d) \/ MemberCommit(d) \/ MemberApplication(d) \/ JoinProof(d) =>
          UNCHANGED <<socket, closing>>
    BY Zenon DEF OrderRequest, MemberCommit, MemberApplication, JoinProof, Handled
<1>3. LateFrame(d) \/ Acknowledge(d) \/ ResumeComplete(d) => UNCHANGED <<socket, closing>>
    BY Zenon DEF LateFrame, Acknowledge, ResumeComplete, Handled
<1>4. DroppedFrame(d) \/ DroppedRequest(d) \/ DroppedGrantFrame(d) =>
          UNCHANGED <<socket, closing>>
    BY Zenon DEF DroppedFrame, DroppedRequest, DroppedGrantFrame, Handled
<1>5. QED BY <1>1, <1>2, <1>3, <1>4 DEF MemberFrame, QuietStep

(* So do the clock and the alarm.                                             *)
LEMMA TimeQuiet ==
    ASSUME Right(room),
           \/ \E d \in Device : GraceEnds(d) \/ AdmissionEnds(d)
           \/ GrantEnds \/ ApplicationEnds \/ CommitEnds \/ TransferEnds
           \/ Alarm
    PROVE  QuietStep
<1>1. Leads(room, room', {})
    BY GraceEndsLeads, AdmissionEndsLeads, HoldersEndLeads, AlarmLeads
<1>2. UNCHANGED <<socket, closing>>
    BY Zenon DEF GraceEnds, AdmissionEnds, GrantEnds, ApplicationEnds, CommitEnds,
                 TransferEnds, Alarm, Passes, Handled
<1>3. QED BY <1>1, <1>2 DEF QuietStep

(* The body of StaleCloseHarmless.                                            *)
Harmless ==
    \A d \in Device :
        socket[d] # 0 /\ room.members[d].conn = socket[d] /\ socket'[d] = socket[d] =>
            \/ room'.members[d].conn = socket[d]
            \/ room'.members[d].fresh \/ room'.members[d].status = "retired"

(* A device whose connection changes has no socket, or not that one.          *)
LEMMA ConnectedHarmless ==
    ASSUME NEW D, Connected(room, room', D),
           \A d \in D \cap Device : socket[d] = 0 \/ room.members[d].conn # socket[d]
    PROVE  Harmless
BY DEF Connected, Harmless, Lost

(* Every step.                                                                *)
LEMMA StepRight ==
    ASSUME LInv, [Next]_vars PROVE LInv' /\ Advances(room, room') /\ Harmless
<1>1. IInv' BY StepKept DEF LInv
<1>2. socket \in [Device -> 0..MaxConn] /\ closing \subseteq Device \X Conn
    BY DEF LInv, IInv, TypeOK
<1>3. CASE QuietStep
  <2>1. Right(room') /\ Advances(room, room') /\ Connected(room, room', {})
        /\ UNCHANGED <<socket, closing>>
      BY <1>3 DEF QuietStep, Leads
  <2>2. Harmless BY <2>1, ConnectedHarmless
  <2>3. Linked' BY <2>1 DEF LInv, Linked
  <2>4. QED BY <1>1, <2>1, <2>2, <2>3 DEF LInv
<1>4. ASSUME NEW d \in Device, Connecting(d)
      PROVE  LInv' /\ Advances(room, room') /\ Harmless
  <2>1. PICK c \in Conn :
            /\ socket[d] = 0 /\ FreshConn(d, c) /\ Leads(room, room', {d})
            /\ socket' \in {socket, [socket EXCEPT ![d] = c]} /\ UNCHANGED closing
      BY <1>4 DEF Connecting
  <2>2. Right(room') /\ Advances(room, room') /\ Connected(room, room', {d})
      BY <2>1 DEF Leads
  <2>3. Harmless BY <2>1, <2>2, ConnectedHarmless
  <2>4. <<d, c>> \notin closing BY <2>1 DEF FreshConn, InUse
  <2>5. \A e \in Device : socket'[e] = socket[e] \/ (e = d /\ socket'[e] = c)
      BY <1>2, <2>1
  <2>6. Linked' BY <2>1, <2>4, <2>5 DEF LInv, Linked
  <2>7. QED BY <1>1, <2>2, <2>3, <2>6 DEF LInv
<1>5. ASSUME NEW d \in Device, ConnectionLost(d)
      PROVE  LInv' /\ Advances(room, room') /\ Harmless
  <2>1. room' = room /\ closing' = closing \cup {<<d, socket[d]>>}
        /\ socket' = [socket EXCEPT ![d] = 0]
      BY <1>5 DEF ConnectionLost
  <2>2. Leads(room, room, {}) BY LeadsRefl DEF LInv
  <2>3. Right(room') /\ Advances(room, room') /\ Connected(room, room', {})
      BY <2>1, <2>2 DEF Leads
  <2>4. Harmless BY <2>3, ConnectedHarmless
  <2>5. \A e \in Device : socket'[e] = IF e = d THEN 0 ELSE socket[e] BY <1>2, <2>1
  <2>6. Linked' BY <2>1, <2>5 DEF LInv, Linked
  <2>7. QED BY <1>1, <2>3, <2>4, <2>6 DEF LInv
<1>6. ASSUME NEW d \in Device, CloseEvent(d)
      PROVE  LInv' /\ Advances(room, room') /\ Harmless
  <2>1. PICK c \in Conn :
            /\ <<d, c>> \in closing /\ closing' = closing \ {<<d, c>>}
            /\ UNCHANGED socket
            /\ \/ room' = room
               \/ room.members[d].conn = c /\ Leads(room, room', {d})
      BY <1>6, CloseEventLeads DEF LInv
  <2>2. Linked' BY <2>1 DEF LInv, Linked
  <2>3. CASE room' = room
    <3>1. Leads(room, room', {}) BY <2>3, LeadsRefl DEF LInv
    <3>2. Right(room') /\ Advances(room, room') /\ Connected(room, room', {})
        BY <3>1 DEF Leads
    <3>3. Harmless BY <3>2, ConnectedHarmless
    <3>4. QED BY <1>1, <2>2, <3>2, <3>3 DEF LInv
  <2>4. CASE room.members[d].conn = c /\ Leads(room, room', {d})
    <3>1. Right(room') /\ Advances(room, room') /\ Connected(room, room', {d})
        BY <2>4 DEF Leads
    <3>2. socket[d] = 0 \/ socket[d] # c BY <2>1 DEF LInv, Linked
    <3>3. Harmless BY <2>4, <3>1, <3>2, ConnectedHarmless
    <3>4. QED BY <1>1, <2>2, <3>1, <3>3 DEF LInv
  <2>5. QED BY <2>1, <2>3, <2>4
<1>7. CASE \E d \in Device : HostFrame(d) BY <1>3, <1>7, HostFrameQuiet DEF LInv
<1>8. CASE \E d \in Device : MemberFrame(d) BY <1>3, <1>8, MemberFrameQuiet DEF LInv
<1>9. CASE \E d \in Device : Connection(d)
  <2>1. PICK d \in Device : Connection(d) BY <1>9
  <2>2. QED
      BY <1>4, <1>5, <1>6, <2>1, JoinLeads, RetryJoinLeads, ResumeLeads
      DEF Connection, LInv
<1>10. CASE \/ \E d \in Device : GraceEnds(d) \/ AdmissionEnds(d)
            \/ GrantEnds \/ ApplicationEnds \/ CommitEnds \/ TransferEnds
            \/ Alarm
    BY <1>3, <1>10, TimeQuiet DEF LInv
<1>11. CASE UNCHANGED vars
  <2>1. QuietStep BY <1>11, LeadsRefl DEF vars, QuietStep, LInv
  <2>2. QED BY <1>3, <2>1
<1>12. QED BY <1>7, <1>8, <1>9, <1>10, <1>11 DEF Next

(****************************************************************************)
(* The abstract log.                                                        *)
(****************************************************************************)
(* A finite set of positions that is not empty has a greatest.                *)
LEMMA Greatest ==
    ASSUME NEW S \in SUBSET Nat, IsFiniteSet(S), S # {}
    PROVE  \E n \in S : \A x \in S : x <= n
<1> DEFINE above(n) == {x \in S : x > n}
           T == {above(n) : n \in S}
<1>1. IsWellFoundedOn(StrictSubsetOrdering(S), SUBSET S)
    BY FS_StrictSubsetOrderingWellFounded, FS_FiniteSubsetsOfFinite
<1>2. T \subseteq SUBSET S /\ T # {} OBVIOUS
<1> HIDE DEF T
<1>3. PICK A \in T : \A B \in T : <<B, A>> \notin StrictSubsetOrdering(S)
    BY <1>1, <1>2, WFMin
<1>4. PICK n \in S : A = above(n) BY <1>3 DEF T
<1>5. ASSUME NEW x \in S, x > n PROVE FALSE
  <2>1. above(x) \in T BY DEF T
  <2>2. above(x) \subseteq above(n)
    <3>1. \A y \in S : y > x => y > n
      <4>1. n \in Nat /\ x \in Nat /\ \A y \in S : y \in Nat BY <1>4
      <4>2. QED BY <1>5, <4>1
    <3>2. QED BY <3>1
  <2>3. x \in above(n) /\ x \notin above(x) BY <1>4, <1>5
  <2> HIDE DEF above
  <2>4. above(x) \in SUBSET S /\ above(n) \in SUBSET S BY <1>2, <1>3, <1>4, <2>1
  <2>5. <<above(x), above(n)>> \in StrictSubsetOrdering(S)
      BY <2>2, <2>3, <2>4 DEF StrictSubsetOrdering
  <2>6. QED BY <1>3, <1>4, <2>1, <2>5
<1>6. \A x \in S : x <= n BY <1>5
<1>7. QED BY <1>6

(* What a covered member is owed is what the log has for its device to read.  *)
LEMMA OwedReadable ==
    ASSUME Right(room), NEW d \in Device, Covered(room.members[d])
    PROVE  Log!Readable(d) = Owed(room.accepted, d, room.members[d].since)
<1> DEFINE log == room.accepted
           k == room.members[d].since
<1>1. /\ log \in Seq(Frame) /\ Len(log) \in Nat /\ DOMAIN log = 1..Len(log) /\ k \in Nat
      /\ Sound(log, d, room.members[d]) /\ AddedFirst(log)
    BY RightShape, MemberShape DEF LogInv
<1> DEFINE told(i) == log[i].from = d => log[i].kind # "bootstrap"
           known(i) == d \in SettledSet
                       \/ \E j \in 1..(i - 1) : log[j].kind = "add" /\ log[j].subject = d
<1>2. Log!Readable(d) = {i \in 1..Len(log) : told(i) /\ known(i)}
    BY <1>1 DEF Log!Readable
<1>3. Owed(log, d, k) = {i \in (k + 1)..Len(log) : told(i)} BY DEF Owed
<1>4. CASE d \in SettledSet
  <2>1. k = 0 BY <1>1, <1>4 DEF Sound
  <2>2. \A i : known(i) BY <1>4
  <2> HIDE DEF told, known
  <2>3. QED BY <1>1, <1>2, <1>3, <2>1, <2>2
<1>5. CASE d \notin SettledSet
  <2>1. k \in Adds(log, d) BY <1>1, <1>5 DEF Sound
  <2>2. k \in 1..Len(log) /\ log[k].kind = "add" /\ log[k].subject = d
      BY <2>1 DEF Adds, Changes
  <2>3. \A j \in 1..Len(log) : log[j].kind = "add" /\ log[j].subject = d => k <= j
      BY <1>1, <2>1 DEF AddedFirst, Adds, Changes
  <2>4. ASSUME NEW i \in 1..Len(log) PROVE known(i) <=> i \in (k + 1)..Len(log)
    <3>1. ASSUME known(i) PROVE i \in (k + 1)..Len(log)
      <4>1. PICK j \in 1..(i - 1) : log[j].kind = "add" /\ log[j].subject = d
          BY <1>5, <3>1
      <4>2. k <= j BY <1>1, <2>3, <4>1
      <4>3. QED BY <1>1, <2>2, <4>2
    <3>2. ASSUME i \in (k + 1)..Len(log) PROVE known(i)
      <4>1. k \in 1..(i - 1) BY <1>1, <2>2, <3>2
      <4>2. QED BY <2>2, <4>1
    <3>3. QED BY <3>1, <3>2
  <2>5. \A i \in (k + 1)..Len(log) : i \in 1..Len(log) BY <1>1
  <2> HIDE DEF told, known
  <2>6. QED BY <1>2, <1>3, <2>4, <2>5
<1>6. QED BY <1>4, <1>5

(* What the devices have read, as the refinement maps it.                     *)
Seen == [d \in Device |-> room.members[d].acked]

(* What the members acknowledge does not change.                              *)
LEMMA SeenSame ==
    ASSUME \A d \in Device : room'.members[d].acked = room.members[d].acked
    PROVE  Seen' = Seen
BY DEF Seen

(* A frame that is accepted is published.                                     *)
LEMMA PublishesLog ==
    ASSUME Right(room), Publishes(room, room') PROVE Log!Publish
<1> DEFINE log == room.accepted
<1>1. /\ log \in Seq(Frame) /\ Len(log) \in Nat /\ DOMAIN log = 1..Len(log)
      /\ room.nextOrder = Cardinality(OrderedIn(log)) + 1
    BY RightShape DEF LogInv
<1>2. PICK f \in Frame :
          /\ room'.accepted = Append(log, f)
          /\ f.order = IF IsOrdered(f) THEN room.nextOrder ELSE 0
    BY DEF Publishes
<1>3. room.nextOrder \in Nat /\ room.nextOrder # 0
  <2>1. f.from \in Device BY DEF Frame
  <2>2. QED BY <2>1, NextPositive
<1>4. Log!NextOrder = room.nextOrder
  <2> DEFINE T == {i \in DOMAIN log : log[i].kind \in
                      {"application", "accept", "bootstrap", "join-proof"}}
   \* an instance has its own copy of Cardinality: both are expanded
  <2>1. Log!NextOrder = Cardinality(T) + 1
          BY Zenon DEF Log!NextOrder, Log!Ordered, Log!Cardinality, Cardinality
  <2>2. T = OrderedIn(log) BY <1>1 DEF OrderedIn, IsOrdered
  <2>3. QED BY <1>1, <2>1, <2>2
<1>5. f \in [kind : Log!Kind, from : Device, subject : Device \cup {NoDevice},
             order : {0, Log!NextOrder}]
  <2>1. f.order \in {0, Log!NextOrder} BY <1>2, <1>4
  <2>2. AcceptedKind = Log!Kind BY DEF AcceptedKind, Log!Kind
  <2>3. QED BY <2>1, <2>2 DEF Frame
<1>6. Log!Ordered(f) <=> f.order # 0 BY <1>2, <1>3 DEF Log!Ordered, IsOrdered
<1>7. Len(room'.accepted) = Len(log) + 1 BY <1>1, <1>2, AppendShape
<1>8. Seen' = Seen BY SeenSame DEF Publishes
<1>9. QED BY <1>2, <1>5, <1>6, <1>7, <1>8 DEF Log!Publish, Seen

(* A member that acknowledges reads.                                          *)
LEMMA ReadsLog ==
    ASSUME Right(room), ReadsSome(room, room')
    PROVE  (\E d \in Device : Log!Read(d)) \/ (room'.accepted = room.accepted /\ Seen' = Seen)
<1> DEFINE log == room.accepted
<1>1. PICK d \in Device, k \in Nat :
          /\ k <= Len(room.members[d].backlog)
          /\ Reads(room.members[d], room'.members[d], k)
          /\ \A e \in Device \ {d} : room'.members[e].acked = room.members[e].acked
    BY DEF ReadsSome
<1> DEFINE m == room.members[d]
           F == PrefixFrames(m.backlog, k)
           G == Frames(Rest(m.backlog, k))
           S == m.acked \cup F
<1>2. /\ log \in Seq(Frame) /\ Len(log) \in Nat /\ m \in Member /\ Sound(log, d, m)
      /\ m.backlog \in Seq(Entry) /\ k \in 0..Len(m.backlog) /\ m.since \in Nat
    BY <1>1, RightShape, MemberShape
<1>3. room'.accepted = log BY DEF ReadsSome
<1>4. room'.members[d].acked = S BY <1>1 DEF Reads
<1>5. Frames(m.backlog) = F \cup G
      /\ (Increasing(m.backlog) => \A x \in F, y \in G : x < y)
    BY <1>2, PrefixSplit
<1> HIDE DEF F, G
<1>6. CASE F = {}
  <2>1. \A e \in Device : room'.members[e].acked = room.members[e].acked
      BY <1>1, <1>4, <1>6
  <2>2. QED BY <1>3, <2>1, SeenSame
<1>7. CASE F # {}
  <2>1. Frames(m.backlog) # {} BY <1>5, <1>7
  <2>2. Covered(m) BY <1>2, <2>1 DEF Sound
  <2> DEFINE O == Owed(log, d, m.since)
  <2>3. Complete(log, d, m) BY <1>2, <2>2 DEF Sound
  <2>4. /\ m.acked \cup Frames(m.backlog) = O /\ Increasing(m.backlog)
        /\ \A x \in m.acked, y \in Frames(m.backlog) : x < y
      BY <2>3 DEF Complete
  <2>5. Log!Readable(d) = O BY <2>2, OwedReadable
  <2>6. O \subseteq 1..Len(log) BY <1>2, OwedShape
  <2> HIDE DEF O, log, m
  <2>7. F \in SUBSET Nat /\ IsFiniteSet(F)
    <3>1. F \subseteq 1..Len(log) BY <1>5, <2>4, <2>6
    <3>2. IsFiniteSet(1..Len(log)) BY <1>2, FS_Interval
    <3>3. IsFiniteSet(F) BY <3>1, <3>2, FS_Subset
    <3>4. F \subseteq Nat BY <1>2, <3>1
    <3>5. QED BY <3>3, <3>4
  <2>8. PICK n \in F : \A x \in F : x <= n BY <1>7, <2>7, Greatest
  <2>9. S = {i \in O : i <= n}
    <3>1. n \in Nat /\ O \subseteq Nat BY <1>2, <2>6, <2>7, <2>8
    <3>2. \A i \in S : i \in O /\ i <= n
      <4>1. \A i \in m.acked : i < n BY <1>5, <2>4, <2>8
      <4>2. S \subseteq O BY <1>5, <2>4
      <4>3. \A i \in m.acked : i \in Nat BY <3>1, <4>2
      <4>4. \A i \in m.acked : i <= n BY <3>1, <4>1, <4>3
      <4>5. QED BY <2>8, <4>2, <4>4
    <3>3. \A i \in O : i <= n => i \in S
      <4>1. \A i \in G : n < i BY <1>5, <2>4, <2>8
      <4>2. O = S \cup G BY <1>5, <2>4
      <4>3. QED BY <3>1, <4>1, <4>2
    <3>4. QED BY <3>2, <3>3
  <2>10. n \in DOMAIN log
    <3>1. n \in 1..Len(log) BY <1>5, <2>4, <2>6, <2>8
    <3>2. QED BY <1>2, <3>1
  <2>11. Seen' = [Seen EXCEPT ![d] = S] BY <1>1, <1>4 DEF Seen
  <2>12. Seen[d] = m.acked BY DEF Seen, m
  <2>13. Seen[d] \subseteq Seen'[d] BY <2>11, <2>12 DEF Seen
  <2>14. Seen' = [Seen EXCEPT ![d] = {i \in Log!Readable(d) : i <= n}]
      BY <2>5, <2>9, <2>11
  <2>15. Log!Read(d) BY <1>3, <2>10, <2>13, <2>14 DEF Log!Read, Seen, log
  <2>16. QED BY <2>15
<1>8. QED BY <1>6, <1>7

(* Every step of the relay is a step of the abstract log, or none.            *)
LEMMA AdvancesLog ==
    ASSUME Right(room), Advances(room, room')
    PROVE  [Log!Next]_<<room.accepted, Seen>>
<1>1. CASE Rests(room, room')
  <2>1. room'.accepted = room.accepted /\ Seen' = Seen BY <1>1, SeenSame DEF Rests
  <2>2. QED BY <2>1
<1>2. CASE ReadsSome(room, room') BY <1>2, ReadsLog DEF Log!Next
<1>3. CASE Publishes(room, room') BY <1>3, PublishesLog DEF Log!Next
<1>4. QED BY <1>1, <1>2, <1>3 DEF Advances

(****************************************************************************)
(* The theorems.                                                            *)
(****************************************************************************)
(* While a device waits to be removed, the group accepts nothing but the      *)
(* host's removal of the device at the head of the markers, and accepts that  *)
(* once (RemovalComesFirst; the barriers reduceSecureRelayV4 checks before it *)
(* handles a commit, an application, a bootstrap or a decision).              *)
THEOREM BarrierBlocks == Spec => RemovalComesFirst
<1>1. LInv /\ [Next]_vars =>
          [RemovalBarrier(room) /\ Len(room'.accepted) > Len(room.accepted) =>
              /\ room.removal = 0
              /\ LET f == room'.accepted[Len(room'.accepted)] IN
                    f.kind = "remove" /\ f.from = room.host /\ IsHead(room.zombies, f.subject)
          ]_vars
  <2> SUFFICES ASSUME LInv, [Next]_vars, RemovalBarrier(room),
                      Len(room'.accepted) > Len(room.accepted)
               PROVE  /\ room.removal = 0
                      /\ LET f == room'.accepted[Len(room'.accepted)] IN
                            f.kind = "remove" /\ f.from = room.host
                            /\ IsHead(room.zombies, f.subject)
      OBVIOUS
  <2>1. Right(room) /\ Advances(room, room') BY StepRight DEF LInv
  <2>2. room.accepted \in Seq(Frame) /\ Len(room.accepted) \in Nat BY <2>1, RightShape
  <2>3. Publishes(room, room') BY <2>1, <2>2 DEF Advances, Rests, ReadsSome
  <2>4. PICK f \in Frame :
            /\ room'.accepted = Append(room.accepted, f)
            /\ room.removal = 0 /\ f.kind = "remove" /\ f.from = room.host
            /\ IsHead(room.zombies, f.subject)
      BY <2>3 DEF Publishes
  <2>5. room'.accepted[Len(room'.accepted)] = f BY <2>2, <2>4, AppendShape
  <2>6. QED BY <2>4, <2>5
<1>2. LInv /\ [Next]_vars => LInv' BY StepRight
<1>3. QED BY <1>1, <1>2, InitRight, PTL DEF Spec, RemovalComesFirst

(* Between the Add of a device and its proof the group accepts nothing but    *)
(* its bootstrap (AdmissionUninterrupted; activeAdmissionBarrier in           *)
(* secureRelayV4.ts, and what retirePendingAdmission leaves behind).          *)
THEOREM AdmissionIsWhole == Spec => []AdmissionUninterrupted
<1>1. LInv => AdmissionUninterrupted
    BY DEF LInv, Right, LogInv, Uninterrupted, AdmissionUninterrupted
<1>2. LInv /\ [Next]_vars => LInv' BY StepRight
<1>3. QED BY <1>1, <1>2, InitRight, PTL DEF Spec

(* A member that keeps its place misses no frame and gets none twice, whatever *)
(* is lost, replayed or acknowledged in between (DeliveryComplete;            *)
(* appendBacklog, routeGroupFrame, delivery-ack and resume-complete in        *)
(* secureRelayV4.ts).                                                         *)
THEOREM NothingIsMissed == Spec => []DeliveryComplete
<1>1. LInv => DeliveryComplete
  <2> SUFFICES ASSUME LInv, NEW d \in Device,
                      LET m == room.members[d] IN
                      (Established(m) /\ ~m.fresh) \/ d \in AdmissionBarrier(room)
               PROVE  Complete(room.accepted, d, room.members[d])
      BY DEF DeliveryComplete, Complete, Owed, Increasing
  <2>1. Covered(room.members[d]) BY Zenon DEF Covered, AdmissionBarrier, InAdmission
  <2>2. Sound(room.accepted, d, room.members[d]) BY RightShape DEF LInv
  <2>3. QED BY <2>1, <2>2 DEF Sound
<1>2. LInv /\ [Next]_vars => LInv' BY StepRight
<1>3. QED BY <1>1, <1>2, InitRight, PTL DEF Spec

(* A leaf of the tree is a member of the relay, is being admitted, or waits   *)
(* to be removed: no device keeps the group's keys without the relay's notice *)
(* (LeafAccounted; retirePendingAdmission, persistZombieRemoval and           *)
(* expireActiveDisconnects in secureRelayV4.ts).                              *)
THEOREM LeavesAreKnown == Spec => []LeafAccounted
<1>1. LInv => LeafAccounted
  <2> SUFFICES ASSUME LInv, room.lifecycle = "open", NEW d \in Roster(room)
               PROVE  \/ Established(room.members[d]) /\ ~room.members[d].fresh
                      \/ d \in AdmissionBarrier(room)
                      \/ d \in Listed(room.zombies)
      BY DEF LeafAccounted
  <2>1. d \in Device BY DEF Roster
  <2>2. Covered(room.members[d]) \/ d \in Listed(room.zombies)
      BY RightShape DEF LInv, Accounted
  <2>3. QED BY <2>1, <2>2, Zenon DEF Covered, AdmissionBarrier, InAdmission
<1>2. LInv /\ [Next]_vars => LInv' BY StepRight
<1>3. QED BY <1>1, <1>2, InitRight, PTL DEF Spec

(* The close event of an older socket does not put offline a member that is   *)
(* connected through an open one (StaleCloseHarmless; the comparison of       *)
(* connections in disconnectSecureRelayDeviceV4).                             *)
THEOREM StaleCloseIgnored == Spec => StaleCloseHarmless
<1>1. LInv /\ [Next]_vars =>
          [\A d \in Device :
              socket[d] # 0 /\ room.members[d].conn = socket[d] /\ socket'[d] = socket[d] =>
                 \/ room'.members[d].conn = socket[d]
                 \/ room'.members[d].fresh \/ room'.members[d].status = "retired"]_vars
    BY StepRight DEF Harmless
<1>2. LInv /\ [Next]_vars => LInv' BY StepRight
<1>3. QED BY <1>1, <1>2, InitRight, PTL DEF Spec, StaleCloseHarmless

(* The relay implements the log of CausalLog: it grows by one frame at its    *)
(* end, with the next order, and a device reads it in order from the frame    *)
(* that admitted it (ImplementsLog; recordReplay, appendBacklog and the       *)
(* acknowledgements in secureRelayV4.ts).                                     *)
THEOREM LogIsImplemented == Spec => ImplementsLog
<1>1. Init => Log!Init
  <2> SUFFICES ASSUME Init PROVE Log!Init
      OBVIOUS
  <2>1. room = NewRoom BY DEF Init
  <2>2. room.accepted = <<>> BY <2>1 DEF NewRoom
  <2>3. \A d \in Device : room.members[d].acked = {}
      BY <2>1 DEF NewRoom, NewMember
  <2>4. QED BY <2>2, <2>3 DEF Log!Init
<1>2. LInv /\ [Next]_vars => [Log!Next]_<<room.accepted, Seen>>
    BY StepRight, AdvancesLog DEF LInv
<1>3. LInv /\ [Next]_vars => LInv' BY StepRight
<1>4. QED BY <1>1, <1>2, <1>3, InitRight, PTL DEF Spec, ImplementsLog, Log!Spec, Seen

(****************************************************************************)
(* The markers, and the end of the room.                                    *)
(****************************************************************************)
(* A room changed elsewhere.                                                  *)
Like(r, s) == s \in Room /\ s.lifecycle = r.lifecycle /\ s.zombies = r.zombies

(* Such a change is calm.                                                     *)
LEMMA LikeCalm ==
    ASSUME NEW r, NEW s, Like(r, s)
    PROVE  Calm(r, s) /\ (s.host = r.host => Mild(r, s))
BY SameMild DEF Like

(* A member is rewritten.                                                     *)
LEMMA LikeMember ==
    ASSUME NEW r \in Room, NEW a \in Device, NEW n \in Member
    PROVE  Like(r, [r EXCEPT !.members[a] = n]) /\ [r EXCEPT !.members[a] = n].host = r.host
BY DEF Like, Room

(* The grant is used.                                                         *)
LEMMA SpentLike ==
    ASSUME NEW r \in Room PROVE Like(r, Spent(r)) /\ Spent(r).host = r.host
<1>1. Spent(r) \in Room BY SpentGood DEF Good
<1>2. QED BY <1>1 DEF Like, Spent, Room

(* The next order is used.                                                    *)
LEMMA NumberedLike ==
    ASSUME NEW r \in Room PROVE Like(r, Numbered(r)) /\ Numbered(r).host = r.host
<1>1. Numbered(r) \in Room BY NumberedGood DEF Good
<1>2. QED BY <1>1 DEF Like, Numbered, Room

(* Such changes compose.                                                      *)
LEMMA LikeTrans ==
    ASSUME NEW r, NEW s, NEW t, Like(r, s), Like(s, t) PROVE Like(r, t)
BY DEF Like

(* A frame accepted in such a room, and the order passed on.                  *)
LEMMA AcceptedCalm ==
    ASSUME NEW r, NEW s, Like(r, s), NEW kind \in AcceptedKind, NEW from \in Device,
           NEW subject \in OptDevice, NEW order \in Nat
    PROVE  Calm(r, IssueNextGrant(Accept(s, kind, from, subject, order)))
<1> DEFINE t == Accept(s, kind, from, subject, order)
<1>1. s \in Room /\ Calm(r, s) BY LikeCalm DEF Like
<1>2. Calm(s, t) BY <1>1, AcceptCalm
<1>3. t \in Room BY <1>1, AcceptGood DEF Good
<1> HIDE DEF t
<1>4. Calm(r, t) BY <1>1, <1>2, MildTrans
<1>5. QED BY <1>3, <1>4, ThenIssueMild DEF t

(* A rejection sent in such a room, and the order passed on.                  *)
LEMMA AnsweredCalm ==
    ASSUME NEW r, NEW s, Like(r, s), s.host = r.host, NEW d \in Device, NEW o \in Nat
    PROVE  LET t == Answer(s, d, RejectedEntry(o)) IN
           /\ t \in Room
           /\ Calm(r, t) /\ (d # r.host => Mild(r, t))
           /\ Calm(r, IssueNextGrant(t)) /\ (d # r.host => Mild(r, IssueNextGrant(t)))
<1> DEFINE e == RejectedEntry(o)
           t == Answer(s, d, e)
<1>1. s \in Room /\ Calm(r, s) /\ Mild(r, s) BY LikeCalm DEF Like
<1>2. e \in Entry BY EntryTypes
<1> HIDE DEF e
<1>3. Calm(s, t) /\ (d # s.host => Mild(s, t)) /\ t \in Room
    BY <1>1, <1>2, AnswerCalm, AnswerGood DEF Good
<1> HIDE DEF t
<1>4. Calm(r, t) /\ (d # r.host => Mild(r, t)) BY <1>1, <1>3, MildTrans
<1>5. QED BY <1>3, <1>4, ThenIssueMild DEF t, e

(* A transition is stored, or nothing happened.                               *)
LEMMA HandledCalm ==
    ASSUME NEW new, Calm(room, new), room' \in {room, new}
    PROVE  Calm(room, room')
BY SameMild

(* One lemma for each action.  A device asks for the order.                   *)
LEMMA OrderRequestCalm ==
    ASSUME Kept(room), NEW d \in Device, OrderRequest(d) PROVE Mild(room, room')
<1> DEFINE q == ExpireGrant(room)
           f == Enqueue(q.queue, d)
           s == [q EXCEPT !.queue = f]
<1>1. room \in Room /\ q \in Room BY ExpireGrantGood DEF Kept, Good
<1>2. room' \in {room, IssueNextGrant(s)} BY DEF OrderRequest, Handled, Commit
<1>3. q.lifecycle = room.lifecycle /\ q.zombies = room.zombies /\ q.host = room.host
    BY <1>1 DEF ExpireGrant, Room
<1> HIDE DEF q
<1>4. f \in [Device -> Nat] BY <1>1, FifoTypes DEF Room
<1> HIDE DEF f
<1>5. Like(room, s) /\ s.host = room.host BY <1>1, <1>3, <1>4 DEF Like, Room
<1> HIDE DEF s
<1>6. Mild(room, IssueNextGrant(s)) BY <1>5, LikeCalm, ThenIssueMild DEF Like
<1>7. QED BY <1>2, <1>6, SameMild

(* The host updates its keys.                                                 *)
LEMMA HostUpdateCalm ==
    ASSUME Kept(room), NEW h \in Device, HostUpdate(h) PROVE Calm(room, room')
<1> DEFINE s == Spent(room)
<1>1. room' \in {room, IssueNextGrant(Accept(s, "commit", h, NoDevice, 0))}
    BY DEF HostUpdate, Handled, Commit
<1>2. Like(room, s) BY SpentLike DEF Kept
<1> HIDE DEF s
<1>3. Calm(room, IssueNextGrant(Accept(s, "commit", h, NoDevice, 0)))
    BY <1>2, AcceptedCalm DEF AcceptedKind, OptDevice
<1>4. QED BY <1>1, <1>3, HandledCalm

(* The host removes a member of its choice.                                   *)
LEMMA HostRemoveCalm ==
    ASSUME Kept(room), NEW h \in Device, HostRemove(h) PROVE Calm(room, room')
<1> DEFINE s == Spent(room)
<1>1. PICK d \in Roster(room) : room' \in {room, IssueNextGrant(Accept(s, "remove", h, d, 0))}
    BY DEF HostRemove, Handled, Commit
<1>2. d \in OptDevice BY DEF Roster, OptDevice
<1>3. Like(room, s) BY SpentLike DEF Kept
<1> HIDE DEF s
<1>4. Calm(room, IssueNextGrant(Accept(s, "remove", h, d, 0)))
    BY <1>2, <1>3, AcceptedCalm DEF AcceptedKind
<1>5. QED BY <1>1, <1>4, HandledCalm

(* The host removes the device at the head.                                   *)
LEMMA HostRemoveMarkedCalm ==
    ASSUME Kept(room), NEW h \in Device, HostRemoveMarked(h) PROVE Calm(room, room')
<1> DEFINE q == Spent(room)
           n == Len(room.accepted) + 1
           s == [q EXCEPT !.removal = n]
<1>1. PICK d \in Roster(room) : room' \in {room, IssueNextGrant(Accept(s, "remove", h, d, 0))}
    BY DEF HostRemoveMarked, Handled, Commit
<1>2. d \in OptDevice BY DEF Roster, OptDevice
<1>3. Like(room, q) BY SpentLike DEF Kept
<1>4. n \in Nat BY LenAccepted DEF Kept
<1> HIDE DEF q, n
<1>5. Like(q, s) BY <1>3, <1>4 DEF Like, Room
<1> HIDE DEF s
<1>6. Calm(room, IssueNextGrant(Accept(s, "remove", h, d, 0)))
    BY <1>2, <1>3, <1>5, LikeTrans, AcceptedCalm DEF AcceptedKind
<1>7. QED BY <1>1, <1>6, HandledCalm

(* The host adds the device that waits for admission.                         *)
LEMMA HostAddCalm ==
    ASSUME Kept(room), NEW h \in Device, HostAdd(h) PROVE Calm(room, room')
<1> DEFINE q == Spent(room)
           n == Len(room.accepted) + 1
           new(a) == [q EXCEPT !.members[a] = [@ EXCEPT !.added = TRUE, !.since = n],
                               !.queue = EmptyFifo]
<1>1. PICK a \in InAdmission(room) : room' \in {room, IssueNextGrant(Accept(new(a), "add", h, a, 0))}
    BY DEF HostAdd, Handled, Commit
<1>2. a \in Device /\ a \in OptDevice BY DEF InAdmission, OptDevice
<1> DEFINE m == [q.members[a] EXCEPT !.added = TRUE, !.since = n]
           s == new(a)
<1>3. Like(room, q) BY SpentLike DEF Kept
<1>4. n \in Nat BY LenAccepted DEF Kept
<1> HIDE DEF q, n
<1>5. m \in Member
  <2>1. q.members[a] \in Member BY <1>2, <1>3 DEF Like, Room
  <2>2. QED BY <2>1, <1>4 DEF Member
<1>6. s = [q EXCEPT !.members[a] = m, !.queue = EmptyFifo]
    OBVIOUS
<1> HIDE DEF m, new, s
<1>7. Like(q, s)
  <2>1. EmptyFifo \in [Device -> Nat] BY DEF EmptyFifo
  <2>2. QED BY <1>2, <1>3, <1>5, <1>6, <2>1 DEF Like, Room
<1>8. Calm(room, IssueNextGrant(Accept(s, "add", h, a, 0)))
    BY <1>2, <1>3, <1>7, LikeTrans, AcceptedCalm DEF AcceptedKind
<1>9. QED BY <1>1, <1>8, HandledCalm DEF s

(* A member's commit is held.                                                 *)
LEMMA MemberCommitCalm ==
    ASSUME Kept(room), NEW d \in Device, MemberCommit(d) PROVE Calm(room, room')
<1> DEFINE c == [from |-> d, order |-> room.grant.order, overdue |-> FALSE]
           s == [Spent(room) EXCEPT !.commit = c]
<1>1. room' \in {room, s} BY DEF MemberCommit, Handled, Commit
<1>2. Spent(room) \in Room /\ Like(room, Spent(room)) BY SpentLike DEF Kept, Like
<1>3. s.lifecycle = Spent(room).lifecycle /\ s.zombies = Spent(room).zombies
    BY <1>2 DEF Room
<1> HIDE DEF s
<1>4. Calm(room, s) BY <1>2, <1>3, SameMild DEF Like
<1>5. QED BY <1>1, <1>4, HandledCalm

(* A member's application frame is held.                                      *)
LEMMA MemberApplicationCalm ==
    ASSUME Kept(room), NEW d \in Device, MemberApplication(d) PROVE Calm(room, room')
<1> DEFINE s(x) == [Spent(room) EXCEPT !.application =
                      [from |-> d, accepts |-> x, order |-> room.grant.order,
                       overdue |-> FALSE]]
<1>1. PICK x \in BOOLEAN : room' \in {room, s(x)} BY DEF MemberApplication, Handled, Commit
<1>2. Spent(room) \in Room /\ Like(room, Spent(room)) BY SpentLike DEF Kept, Like
<1>3. s(x).lifecycle = Spent(room).lifecycle /\ s(x).zombies = Spent(room).zombies
    BY <1>2 DEF Room
<1> HIDE DEF s
<1>4. Calm(room, s(x)) BY <1>2, <1>3, SameMild DEF Like
<1>5. QED BY <1>1, <1>4, HandledCalm

(* The host welcomes the new device.                                          *)
LEMMA WelcomeCalm ==
    ASSUME Kept(room), NEW h \in Device, Welcome(h) PROVE Calm(room, room')
<1> DEFINE s(a) == [room EXCEPT !.members[a] =
                      [Given(@, WelcomeEntry) EXCEPT !.phase = "awaiting-bootstrap"]]
<1>1. PICK a \in AdmissionBarrier(room) : room' \in {room, s(a)}
    BY DEF Welcome, Handled, Commit
<1>2. s(a).lifecycle = room.lifecycle /\ s(a).zombies = room.zombies BY DEF Kept, Room
<1> HIDE DEF s
<1>3. QED BY <1>1, <1>2, SameMild, HandledCalm

(* The bootstrap is routed to the group.                                      *)
LEMMA BootstrapCalm ==
    ASSUME Kept(room), NEW h \in Device, Bootstrap(h) PROVE Calm(room, room')
<1> DEFINE order == room.grant.order
           entry == RelayEntry(Len(room.accepted) + 1, order)
           base == Numbered(Spent(room))
           ordered(a) == [base EXCEPT !.members[a].phase = "awaiting-proof"]
           routed(a) == Route(Record(ordered(a), "bootstrap", h, a, order), h, entry)
           proven(a) == [routed(a) EXCEPT !.members[a] =
                            [Given(@, entry) EXCEPT !.proofOrder = routed(a).nextOrder]]
<1>1. PICK a \in AdmissionBarrier(room) : room' \in {room, routed(a), proven(a)}
    BY DEF Bootstrap, Handled, Commit
<1>2. a \in Device /\ a \in OptDevice BY DEF AdmissionBarrier, InAdmission, OptDevice
<1>3. order \in Nat BY DEF Kept, Room, Grant
<1>4. entry \in Entry BY <1>3, LenAccepted, EntryTypes DEF Kept
<1>5. Like(room, base)
  <2>1. Like(room, Spent(room)) BY SpentLike DEF Kept
  <2>2. Like(Spent(room), base) BY <2>1, NumberedLike DEF Like
  <2>3. QED BY <2>1, <2>2, LikeTrans
<1> HIDE DEF base
<1> DEFINE m == [base.members[a] EXCEPT !.phase = "awaiting-proof"]
           o == ordered(a)
           rec == Record(o, "bootstrap", h, a, order)
           t == routed(a)
<1>6. m \in Member
  <2>1. base.members[a] \in Member BY <1>2, <1>5 DEF Like, Room
  <2>2. QED BY <2>1 DEF Member, Phase
<1>7. o = [base EXCEPT !.members[a] = m] OBVIOUS
<1> HIDE DEF m, ordered, o, order, entry
<1>8. Like(base, o) BY <1>2, <1>5, <1>6, <1>7, LikeMember DEF Like
<1>9. Like(o, rec)
  <2>1. rec \in Room BY <1>2, <1>3, <1>8, RecordGood DEF Good, Like, AcceptedKind
  <2>2. QED BY <1>8, <2>1 DEF Record, Like, Room
<1>10. t = Route(rec, h, entry) BY DEF o
<1> HIDE DEF rec, routed
<1>11. Calm(rec, t) /\ t \in Room BY <1>4, <1>9, <1>10, RouteCalm, RouteGood DEF Good, Like
<1>12. Calm(room, t)
  <2>1. Like(room, rec) BY <1>5, <1>8, <1>9, LikeTrans
  <2>2. QED BY <1>11, <2>1, LikeCalm, MildTrans
<1>13. Calm(room, proven(a))
  <2>1. proven(a).lifecycle = t.lifecycle /\ proven(a).zombies = t.zombies
      BY <1>11 DEF Room
  <2> HIDE DEF proven
  <2>2. QED BY <1>12, <2>1, SameMild, MildTrans
<1> HIDE DEF proven
<1>14. QED BY <1>1, <1>12, <1>13, HandledCalm

(* The new device proves that it read it.                                     *)
LEMMA JoinProofCalm ==
    ASSUME Kept(room), NEW a \in Device, JoinProof(a) PROVE Calm(room, room')
<1> DEFINE s == [room EXCEPT !.members[a].proof = TRUE]
<1>1. room' \in {room, s} BY DEF JoinProof, Handled, Commit
<1>2. s.lifecycle = room.lifecycle /\ s.zombies = room.zombies BY DEF Kept, Room
<1> HIDE DEF s
<1>3. QED BY <1>1, <1>2, SameMild, HandledCalm

(* The host activates the device.                                             *)
LEMMA ActivateCalm ==
    ASSUME Kept(room), NEW h \in Device, Activate(h) PROVE Calm(room, room')
<1> DEFINE q == Numbered(room)
           new(a) == [q EXCEPT !.members[a] = [ClearAdmission(@) EXCEPT !.status = "active"]]
<1>1. PICK a \in InAdmission(room) :
          room' \in {room, IssueNextGrant(Accept(new(a), "join-proof", a, a, room.nextOrder))}
    BY DEF Activate, Handled, Commit
<1> DEFINE m == [ClearAdmission(q.members[a]) EXCEPT !.status = "active"]
           s == new(a)
<1>2. a \in Device /\ a \in OptDevice BY DEF InAdmission, OptDevice
<1>3. Like(room, q) /\ room.nextOrder \in Nat BY NumberedLike DEF Kept, Room
<1> HIDE DEF q
<1>4. m \in Member
  <2>1. q.members[a] \in Member BY <1>2, <1>3 DEF Like, Room
  <2>2. QED BY <2>1, MemberTypes DEF ClearAdmission, Member, Status
<1>5. s = [q EXCEPT !.members[a] = m] OBVIOUS
<1> HIDE DEF m, new, s
<1>6. Like(q, s) BY <1>2, <1>3, <1>4, <1>5, LikeMember DEF Like
<1>7. Calm(room, IssueNextGrant(Accept(s, "join-proof", a, a, room.nextOrder)))
    BY <1>2, <1>3, <1>6, LikeTrans, AcceptedCalm DEF AcceptedKind
<1>8. QED BY <1>1, <1>7, HandledCalm DEF s

(* The host cancels an admission.                                             *)
LEMMA CancelAdmissionCalm ==
    ASSUME Kept(room), NEW h \in Device, CancelAdmission(h) PROVE Calm(room, room')
<1>1. PICK a \in InAdmission(room) : room' \in {room, IssueNextGrant(RetireAdmission(room, a))}
    BY DEF CancelAdmission, Handled, Commit
<1>2. a \in Device BY DEF InAdmission
<1>3. Mild(room, RetireAdmission(room, a)) /\ RetireAdmission(room, a) \in Room
    BY <1>2, RetireAdmissionMild, RetireAdmissionGood DEF Kept, Good
<1>4. Calm(room, IssueNextGrant(RetireAdmission(room, a))) BY <1>3, ThenIssueMild, MildTrans
<1>5. QED BY <1>1, <1>4, HandledCalm

(* A frame of the host.                                                       *)
LEMMA HostApplicationCalm ==
    ASSUME Kept(room), NEW h \in Device, HostApplication(h) PROVE Calm(room, room')
<1> DEFINE q == Spent(room)
           s == Numbered(q)
           order == room.grant.order
<1>1. room' \in {room, IssueNextGrant(Accept(s, "application", h, NoDevice, order))}
    BY DEF HostApplication, Handled, Commit
<1>2. order \in Nat BY DEF Kept, Room, Grant
<1>3. Like(room, q) BY SpentLike DEF Kept
<1> HIDE DEF q, order
<1>4. Like(q, s) BY <1>3, NumberedLike DEF Like
<1> HIDE DEF s
<1>5. Calm(room, IssueNextGrant(Accept(s, "application", h, NoDevice, order)))
    BY <1>2, <1>3, <1>4, LikeTrans, AcceptedCalm DEF AcceptedKind, OptDevice
<1>6. QED BY <1>1, <1>5, HandledCalm

(* Withdrawing a held operation.                                              *)
LEMMA WithdrawnLike ==
    ASSUME NEW r \in Room
    PROVE  /\ Like(r, [r EXCEPT !.application = NoApplication])
           /\ [r EXCEPT !.application = NoApplication].host = r.host
           /\ Like(r, [r EXCEPT !.commit = NoCommit])
           /\ [r EXCEPT !.commit = NoCommit].host = r.host
BY NoneTypes DEF Like, Room

(* The host approves a held application.                                      *)
LEMMA ApproveApplicationCalm ==
    ASSUME Kept(room), NEW h \in Device, ApproveApplication(h) PROVE Calm(room, room')
<1> DEFINE p == room.application
           kind == IF p.accepts THEN "accept" ELSE "application"
           q == Numbered(room)
           cleared == [q EXCEPT !.application = NoApplication]
           routed == Accept(cleared, kind, p.from, NoDevice, p.order)
           handed == IF p.accepts
                     THEN [routed EXCEPT !.transfer = NoTransfer, !.host = p.from]
                     ELSE routed
<1>1. room' \in {room, IssueNextGrant(handed)} /\ p.from # NoDevice
    BY DEF ApproveApplication, Handled, Commit
<1>2. p.from \in Device /\ p.order \in Nat /\ NoDevice \in OptDevice
    BY <1>1 DEF Kept, Room, HeldApplication, OptDevice
<1>3. kind \in AcceptedKind BY DEF AcceptedKind
<1>4. Like(room, q) BY NumberedLike DEF Kept
<1> HIDE DEF q
<1>5. Like(q, cleared) BY <1>4, WithdrawnLike DEF Like
<1> HIDE DEF cleared, kind, p
<1>6. Calm(room, routed) /\ routed \in Room
  <2>1. Like(room, cleared) BY <1>4, <1>5, LikeTrans
  <2>2. Calm(cleared, routed) /\ routed \in Room
      BY <1>2, <1>3, <2>1, AcceptCalm, AcceptGood DEF Like, Good
  <2>3. QED BY <2>1, <2>2, LikeCalm, MildTrans
<1> HIDE DEF routed
<1>7. Like(routed, handed) BY <1>2, <1>6, NoneTypes DEF Like, Room, OptDevice
<1> HIDE DEF handed
<1>8. Calm(room, handed) BY <1>6, <1>7, LikeCalm, MildTrans
<1>9. Calm(room, IssueNextGrant(handed)) BY <1>7, <1>8, ThenIssueMild DEF Like
<1>10. QED BY <1>1, <1>9, HandledCalm

(* The host rejects it.                                                       *)
LEMMA RejectApplicationCalm ==
    ASSUME Kept(room), NEW h \in Device, RejectApplication(h) PROVE Calm(room, room')
<1> DEFINE p == room.application
           cleared == [room EXCEPT !.application = NoApplication]
           answered == Answer(cleared, p.from, RejectedEntry(p.order))
           s == [answered EXCEPT !.transfer = IF p.accepts THEN NoTransfer ELSE @]
<1>1. room' \in {room, IssueNextGrant(s)} /\ p.from # NoDevice
    BY DEF RejectApplication, Handled, Commit
<1>2. p.from \in Device /\ p.order \in Nat
    BY <1>1 DEF Kept, Room, HeldApplication, OptDevice
<1>3. Like(room, cleared) /\ cleared.host = room.host BY WithdrawnLike DEF Kept
<1> HIDE DEF cleared, p
<1>4. Calm(room, answered) /\ answered \in Room BY <1>2, <1>3, AnsweredCalm
<1> HIDE DEF answered
<1>5. Like(answered, s) BY <1>4, NoneTypes DEF Like, Room
<1> HIDE DEF s
<1>6. Calm(room, s) BY <1>4, <1>5, LikeCalm, MildTrans
<1>7. Calm(room, IssueNextGrant(s)) BY <1>5, <1>6, ThenIssueMild DEF Like
<1>8. QED BY <1>1, <1>7, HandledCalm

(* The host approves a held commit.                                           *)
LEMMA ApproveCommitCalm ==
    ASSUME Kept(room), NEW h \in Device, ApproveCommit(h) PROVE Calm(room, room')
<1> DEFINE from == room.commit.from
           s == [room EXCEPT !.commit = NoCommit]
<1>1. room' \in {room, IssueNextGrant(Accept(s, "commit", from, NoDevice, 0))}
      /\ from # NoDevice
    BY DEF ApproveCommit, Handled, Commit
<1>2. from \in Device BY <1>1 DEF Kept, Room, HeldCommit, OptDevice
<1>3. Like(room, s) BY WithdrawnLike DEF Kept
<1> HIDE DEF s, from
<1>4. Calm(room, IssueNextGrant(Accept(s, "commit", from, NoDevice, 0)))
    BY <1>2, <1>3, AcceptedCalm DEF AcceptedKind, OptDevice
<1>5. QED BY <1>1, <1>4, HandledCalm

(* The host rejects it.                                                       *)
LEMMA RejectCommitCalm ==
    ASSUME Kept(room), NEW h \in Device, RejectCommit(h) PROVE Calm(room, room')
<1> DEFINE from == room.commit.from
           s == [room EXCEPT !.commit = NoCommit]
<1>1. room' \in {room, IssueNextGrant(Answer(s, from, RejectedEntry(0)))}
      /\ from # NoDevice
    BY DEF RejectCommit, Handled, Commit
<1>2. from \in Device BY <1>1 DEF Kept, Room, HeldCommit, OptDevice
<1>3. Like(room, s) /\ s.host = room.host BY WithdrawnLike DEF Kept
<1> HIDE DEF s, from
<1>4. Calm(room, IssueNextGrant(Answer(s, from, RejectedEntry(0)))) BY <1>2, <1>3, AnsweredCalm
<1>5. QED BY <1>1, <1>4, HandledCalm

(* The host came back too late.                                               *)
Cause(r) == r.members[r.host].grace = "over"

(* An open room does not end without that cause.                              *)
Lasts(r, s) == r.lifecycle = "open" /\ s.lifecycle = "retired" => Cause(r)

(* An open room has a host, that holds no operation back, and the order is    *)
(* granted to a device that has read everything.                              *)
Apart(r) ==
    r.lifecycle = "open" =>
        /\ r.host \in Device /\ HeldApart(r)
        /\ r.grant.device # NoDevice => Ready(r.members[r.grant.device])

(* A mild change does not end it.                                             *)
LEMMA MildLasts ==
    ASSUME NEW r, NEW s, Cause(r) \/ Mild(r, s) PROVE Lasts(r, s)
BY DEF Lasts, Mild

(* A frame comes after its grant has run out.                                 *)
LEMMA LateFrameCalm ==
    ASSUME Kept(room), NEW d \in Device, LateFrame(d)
    PROVE  Calm(room, room') /\ (Apart(room) => Lasts(room, room'))
<1> DEFINE q == Spent(room)
<1>1. PICK order \in {0, room.grant.order} :
          room' \in {room, IssueNextGrant(Answer(q, d, RejectedEntry(order)))}
    BY DEF LateFrame, Handled, Commit
<1>2. Ready(room.members[d]) /\ room.lifecycle = "open" BY DEF LateFrame, Handles, Receives
<1>3. order \in Nat BY DEF Kept, Room, Grant
<1>4. Like(room, q) /\ q.host = room.host BY SpentLike DEF Kept
<1>5. /\ q.members = room.members /\ q.application = room.application
      /\ q.commit = room.commit
    BY DEF Spent, Kept, Room
<1> HIDE DEF q
<1> DEFINE e == RejectedEntry(order)
           t == Answer(q, d, e)
           s == IssueNextGrant(t)
<1>6. Calm(room, s) /\ (d # room.host => Mild(room, s)) /\ t \in Room
    BY <1>3, <1>4, AnsweredCalm
<1>7. e \in Entry BY <1>3, EntryTypes
<1> HIDE DEF e
<1>8. ASSUME Apart(room), d = room.host PROVE Mild(room, s)
  <2>1. Attentive(q) BY <1>2, <1>4, <1>5, <1>8 DEF Apart, HeldApart, Attentive, Ready
  <2>2. Mild(q, t) BY <1>4, <1>7, <2>1, AnswerAttentive DEF Like
  <2>3. Mild(room, q) BY <1>4, LikeCalm
  <2> HIDE DEF t
  <2>4. QED BY <1>6, <2>2, <2>3, MildTrans, ThenIssueMild
<1>9. room' \in {room, s} BY <1>1 DEF e
<1> HIDE DEF s
<1>10. Calm(room, room') BY <1>6, <1>9, HandledCalm
<1>11. Apart(room) => Mild(room, room') BY <1>6, <1>8, <1>9, SameMild
<1>12. QED BY <1>10, <1>11, MildLasts

(* A device reads part of its backlog.                                        *)
LEMMA AcknowledgeCalm ==
    ASSUME Kept(room), NEW d \in Device, Acknowledge(d) PROVE Mild(room, room')
<1> DEFINE s(k) == [room EXCEPT !.members[d] = Acked(@, k)]
<1>1. PICK k \in 1..Len(room.members[d].backlog) : room' \in {room, s(k)}
    BY DEF Acknowledge, Handled, Commit
<1>2. s(k).lifecycle = room.lifecycle /\ s(k).zombies = room.zombies /\ s(k).host = room.host
    BY DEF Kept, Room
<1> HIDE DEF s
<1>3. QED BY <1>1, <1>2, SameMild

(* A device has read all of it.                                               *)
LEMMA ResumeCompleteCalm ==
    ASSUME Kept(room), NEW d \in Device, ResumeComplete(d) PROVE Mild(room, room')
<1> DEFINE s == [room EXCEPT !.members[d] =
                   [Acked(@, Len(@.backlog)) EXCEPT !.status = "active", !.replay = 0]]
<1>1. room' \in {room, s} BY DEF ResumeComplete, Handled, Commit
<1>2. s.lifecycle = room.lifecycle /\ s.zombies = room.zombies /\ s.host = room.host
    BY DEF Kept, Room
<1> HIDE DEF s
<1>3. QED BY <1>1, <1>2, SameMild

(* The host offers its role.                                                  *)
LEMMA AuthorizeTransferCalm ==
    ASSUME Kept(room), NEW h \in Device, AuthorizeTransfer(h) PROVE Calm(room, room')
<1> DEFINE x(d) == [host |-> h, target |-> d, overdue |-> FALSE]
           q(d) == [room EXCEPT !.transfer = x(d)]
           s(d) == Deliver(q(d), {d}, AuthorizationEntry)
<1>1. PICK d \in Device \ {h} : room' \in {room, s(d)}
    BY DEF AuthorizeTransfer, Handled, Commit
<1>2. x(d) \in Transfer BY DEF Transfer, OptDevice
<1> HIDE DEF x
<1>3. Like(room, q(d)) BY <1>2 DEF Like, Kept, Room
<1> HIDE DEF q
<1>4. PICK t : t = q(d) OBVIOUS
<1>5. Calm(t, Deliver(t, {d}, AuthorizationEntry))
    BY <1>3, <1>4, DeliverCalm, EntryTypes DEF Like
<1>6. Calm(room, s(d)) BY <1>3, <1>4, <1>5, LikeCalm, MildTrans
<1> HIDE DEF s
<1>7. QED BY <1>1, <1>6, HandledCalm

(* The host closes the room.                                                  *)
LEMMA CloseRoomCalm ==
    ASSUME Kept(room), NEW h \in Device, CloseRoom(h) PROVE Calm(room, room')
<1>1. room' \in {room, RetireRoom(room)} BY DEF CloseRoom, Handled, Commit
<1>2. Calm(room, RetireRoom(room)) BY RetireRoomKeeps DEF Calm, Kept
<1>3. QED BY <1>1, <1>2, HandledCalm

(* The deadlines are settled, and the order handed on.                        *)
LEMMA SettleCalm ==
    ASSUME Kept(room)
    PROVE  LET s == Settle(room) IN
           /\ Calm(room, s)
           /\ Apart(room) => room.lifecycle # "open" \/ Cause(room) \/ Mild(room, s)
<1> DEFINE q == Expire(room)
<1>1. Calm(room, q) /\ q \in Room BY ExpireCalm, ExpireGood DEF Good
<1>2. Apart(room) => room.lifecycle # "open" \/ Cause(room) \/ Mild(room, q)
    BY ExpireCalm DEF Apart, Cause
<1> HIDE DEF q
<1>3. QED BY <1>1, <1>2, ThenIssueMild DEF Settle, q

(* A frame that arrives after a deadline.                                     *)
LEMMA DroppedFrameCalm ==
    ASSUME Kept(room), NEW d \in Device, DroppedFrame(d) \/ DroppedRequest(d)
    PROVE  Calm(room, room') /\ (Apart(room) => Lasts(room, room'))
<1> DEFINE s == Settle(room)
<1>1. room' \in {room, s} BY DEF DroppedFrame, DroppedRequest, Handled, Commit
<1>2. /\ Calm(room, s)
      /\ Apart(room) => room.lifecycle # "open" \/ Cause(room) \/ Mild(room, s)
    BY SettleCalm
<1> HIDE DEF s
<1>3. Mild(room, room) BY SameMild
<1>4. QED BY <1>1, <1>2, <1>3, HandledCalm DEF Lasts, Mild

(* The frame of a grant that the cleanup cancels.                             *)
LEMMA DroppedGrantFrameCalm ==
    ASSUME Kept(room), NEW d \in Device, DroppedGrantFrame(d)
    PROVE  Calm(room, room') /\ (Apart(room) => Lasts(room, room'))
<1> DEFINE q == Expire(room)
<1>1. PICK order \in {0, room.grant.order} :
          room' \in {room, IssueNextGrant(Answer(q, d, RejectedEntry(order)))}
    BY DEF DroppedGrantFrame, Handled, Commit
<1> DEFINE t == Answer(q, d, RejectedEntry(order))
           s == IssueNextGrant(t)
<1>2. room.grant.device = d BY DEF DroppedGrantFrame
<1>3. order \in Nat BY DEF Kept, Room, Grant
<1>4. RejectedEntry(order) \in Entry BY <1>3, EntryTypes
<1>5. Calm(room, q) /\ q \in Room BY ExpireCalm, ExpireGood DEF Good
<1>6. ASSUME Apart(room), room.lifecycle = "open", ~Cause(room)
      PROVE  Mild(room, q) /\ (d = room.host => Attentive(q))
  <2>1. Mild(room, q) BY <1>6, ExpireCalm DEF Apart, Cause
  <2>2. Ready(room.members[d]) BY <1>2, <1>6, DeviceAssumption DEF Apart
  <2>3. d = room.host => Attentive(room) BY <1>6, <2>2 DEF Apart, Attentive, Ready
  <2>4. QED BY <1>6, <2>1, <2>3, ExpireAttentive DEF Cause
<1> HIDE DEF q
<1>7. Calm(q, t) /\ t \in Room /\ (d # q.host \/ Attentive(q) => Mild(q, t))
    BY <1>4, <1>5, AnswerCalm, AnswerAttentive, AnswerGood DEF Good
<1> HIDE DEF t
<1>8. Calm(room, s) BY <1>5, <1>7, MildTrans, ThenIssueMild
<1>9. ASSUME Apart(room), room.lifecycle = "open", ~Cause(room) PROVE Mild(room, s)
  <2>1. Mild(q, t) /\ Mild(room, q) BY <1>6, <1>7, <1>9 DEF Mild
  <2>2. QED BY <1>7, <2>1, MildTrans, ThenIssueMild
<1>10. room' \in {room, s} BY <1>1 DEF s, t
<1> HIDE DEF s
<1>11. Mild(room, room) BY SameMild
<1>12. QED BY <1>8, <1>9, <1>10, <1>11, HandledCalm DEF Lasts, Mild

(* The alarm.                                                                 *)
LEMMA AlarmCalm ==
    ASSUME Kept(room), Alarm
    PROVE  Calm(room, room') /\ (Apart(room) => Lasts(room, room'))
<1> DEFINE q == Expire(room)
           t == ExpireGrant(q)
           s == IssueNextGrant(t)
<1>1. room' \in {room, s} BY DEF Alarm, Handled, Commit
<1>2. Calm(room, q) /\ q \in Room BY ExpireCalm, ExpireGood DEF Good
<1>3. Apart(room) => room.lifecycle # "open" \/ Cause(room) \/ Mild(room, q)
    BY ExpireCalm DEF Apart, Cause
<1> HIDE DEF q
<1>4. t \in Room BY <1>2, ExpireGrantGood DEF Good
<1>5. t.lifecycle = q.lifecycle /\ t.zombies = q.zombies /\ t.host = q.host
    BY <1>2 DEF ExpireGrant, Room
<1> HIDE DEF t
<1>6. Mild(q, t) BY <1>5, SameMild
<1>7. Calm(room, s) BY <1>2, <1>4, <1>6, MildTrans, ThenIssueMild
<1>8. Mild(room, q) => Mild(room, s) BY <1>4, <1>6, MildTrans, ThenIssueMild
<1> HIDE DEF s
<1>9. Mild(room, room) BY SameMild
<1>10. QED BY <1>1, <1>3, <1>7, <1>8, <1>9, HandledCalm DEF Lasts, Mild

(* A device connects once the deadlines of the others are settled.            *)
LEMMA AwayCalm ==
    ASSUME Kept(room), NEW s,
           LET r == ExpireAway(room) IN s.lifecycle = r.lifecycle /\ s.zombies = r.zombies,
           room' \in {room, ExpireAway(room), s}
    PROVE  Calm(room, room') /\ (Apart(room) => Lasts(room, room'))
<1> DEFINE r == ExpireAway(room)
<1>1. Calm(room, r) BY ExpireAwayCalm DEF Kept
<1>2. Apart(room) => room.lifecycle # "open" \/ Cause(room) \/ Mild(room, r)
    BY ExpireAwayCalm DEF Kept, Apart, Cause
<1>3. s.lifecycle = r.lifecycle /\ s.zombies = r.zombies /\ room' \in {room, r, s} OBVIOUS
<1> HIDE DEF r
<1>4. Calm(r, s) BY <1>3, SameMild
<1>5. Calm(room, s) /\ Calm(room, room) BY <1>1, <1>4, MildTrans, SameMild
<1>6. QED BY <1>1, <1>2, <1>3, <1>5 DEF Lasts, Mild

(* A device joins, joins again, or resumes.                                   *)
LEMMA ConnectingCalm ==
    ASSUME Kept(room), NEW d \in Device, Join(d) \/ RetryJoin(d) \/ Resume(d)
    PROVE  Calm(room, room') /\ (Apart(room) => Lasts(room, room'))
<1> DEFINE r == ExpireAway(room)
           retried(c) == [r EXCEPT !.members[d] = [@ EXCEPT !.status = "pending", !.conn = c]]
           resumed(c) == [r EXCEPT !.members[d] =
                            [@ EXCEPT !.status = "pending", !.conn = c, !.grace = "off",
                                      !.replay = Len(r.members[d].backlog)]]
<1>1. r \in Room BY ExpireAwayGood DEF Kept, Good
<1>2. PICK c \in Conn : room' \in {room, r, Arrival(r, d, c), retried(c), resumed(c)}
  <2> HIDE DEF r
  <2>1. CASE Join(d) BY <2>1 DEF Join, Attached, Commit, r
  <2>2. CASE RetryJoin(d) BY <2>2 DEF RetryJoin, Attached, Commit, r
  <2>3. CASE Resume(d) BY <2>3 DEF Resume, Attached, Commit, r
  <2>4. QED BY <2>1, <2>2, <2>3
<1> HIDE DEF r
<1>3. Arrival(r, d, c).lifecycle = r.lifecycle /\ Arrival(r, d, c).zombies = r.zombies
    BY <1>1 DEF Arrival, Room
<1>4. retried(c).lifecycle = r.lifecycle /\ retried(c).zombies = r.zombies BY <1>1 DEF Room
<1>5. resumed(c).lifecycle = r.lifecycle /\ resumed(c).zombies = r.zombies BY <1>1 DEF Room
<1> HIDE DEF retried, resumed
<1>6. PICK s : s.lifecycle = r.lifecycle /\ s.zombies = r.zombies /\ room' \in {room, r, s}
    BY <1>2, <1>3, <1>4, <1>5
<1>7. QED BY <1>6, AwayCalm DEF r

(* A socket closes, and its close is reported.                                *)
LEMMA CloseCalm ==
    ASSUME Kept(room), NEW d \in Device, ConnectionLost(d) \/ CloseEvent(d)
    PROVE  Mild(room, room')
<1> DEFINE s == Disconnect(room, d)
<1>1. room' \in {room, s} BY DEF ConnectionLost, CloseEvent, Commit
<1>2. s.lifecycle = room.lifecycle /\ s.zombies = room.zombies /\ s.host = room.host
    BY DEF Disconnect, IssueNextGrant, Kept, Room
<1> HIDE DEF s
<1>3. QED BY <1>1, <1>2, SameMild

(* The marker at the head is dropped, for a device that is no leaf any more.  *)
Unmarks(r, s) ==
    \E d \in Listed(r.zombies) :
        /\ IsHead(r.zombies, d) /\ d \notin Roster(r) /\ r.removal # 0
        /\ s.lifecycle = r.lifecycle /\ s.zombies = Without(r.zombies, {d})

(* The host retires a removed device.                                         *)
LEMMA RetireMemberFrameCalm ==
    ASSUME Right(room), NEW h \in Device, RetireMemberFrame(h)
    PROVE  Calm(room, room') \/ Unmarks(room, room')
<1>1. PICK d \in Device \ {h}, i \in 1..Len(room.accepted) :
          /\ room.accepted[i].kind = "remove" /\ room.accepted[i].subject = d
          /\ RemovalBarrier(room) => IsHead(room.zombies, d) /\ room.removal = i
          /\ room' \in {room, Unmarked(room, d), IssueNextGrant(Unmarked(Departed(room, d), d))}
    BY DEF RetireMemberFrame, Handled, Commit
<1> DEFINE q == Departed(room, d)
           t == Unmarked(room, d)
           s == Unmarked(q, d)
           w == Without(room.zombies, {d})
<1>2. room \in Room /\ Kept(room) BY RightShape
<1>3. d \notin Roster(room) BY <1>1, RemovedNoLeaf
<1>4. q.zombies = room.zombies /\ q.lifecycle = room.lifecycle /\ q \in Room
  <2>1. q \in Room BY <1>2, DepartedGood DEF Good
  <2>2. QED BY <1>2, <2>1 DEF Departed, Room
<1> HIDE DEF q
<1>5. CASE d \in Listed(room.zombies)
  <2>1. IsHead(room.zombies, d) /\ room.removal # 0 BY <1>1, <1>5 DEF RemovalBarrier
  <2>2. t.zombies = w /\ t.lifecycle = room.lifecycle BY <1>2, <1>5 DEF Unmarked, Room
  <2>3. s.zombies = w /\ s.lifecycle = room.lifecycle
      BY <1>4, <1>5 DEF Unmarked, Room
  <2> HIDE DEF s, t, w
  <2>4. IssueNextGrant(s).zombies = w /\ IssueNextGrant(s).lifecycle = room.lifecycle
    <3>1. Kept(q) BY <1>2, DepartedGood, GoodKept DEF q
    <3>2. s \in Room BY <3>1, UnmarkedKept DEF Kept, s
    <3>3. QED BY <2>3, <3>2 DEF IssueNextGrant, Room
  <2>5. room' = room \/ (room'.zombies = w /\ room'.lifecycle = room.lifecycle)
      BY <1>1, <2>2, <2>4 DEF s, t, q
  <2>6. CASE room' = room BY <2>6, SameMild
  <2>7. CASE room'.zombies = w /\ room'.lifecycle = room.lifecycle
      BY <1>3, <1>5, <2>1, <2>7 DEF Unmarks, w
  <2>8. QED BY <2>5, <2>6, <2>7
<1>6. CASE d \notin Listed(room.zombies)
  <2>1. t = room /\ s = q BY <1>4, <1>6 DEF Unmarked
  <2>2. Calm(room, q) BY <1>4, SameMild
  <2>3. Calm(room, IssueNextGrant(q)) BY <1>4, <2>2, ThenIssueMild
  <2>4. room' \in {room, IssueNextGrant(q)} BY <1>1, <2>1 DEF q
  <2>5. QED BY <2>3, <2>4, HandledCalm
<1>7. QED BY <1>5, <1>6

(* Time passes.                                                               *)
LEMMA TimeCalm ==
    ASSUME Kept(room),
           \/ \E d \in Device : GraceEnds(d) \/ AdmissionEnds(d)
           \/ GrantEnds \/ ApplicationEnds \/ CommitEnds \/ TransferEnds
    PROVE  Mild(room, room')
<1>1. room \in Room BY DEF Kept
<1>2. room'.lifecycle = room.lifecycle /\ room'.zombies = room.zombies
      /\ room'.host = room.host
  <2>1. CASE \E d \in Device : GraceEnds(d) BY <1>1, <2>1 DEF GraceEnds, Passes, Room
  <2>2. CASE \E d \in Device : AdmissionEnds(d) BY <1>1, <2>2 DEF AdmissionEnds, Passes, Room
  <2>3. CASE GrantEnds BY <1>1, <2>3 DEF GrantEnds, Passes, Room
  <2>4. CASE ApplicationEnds BY <1>1, <2>4 DEF ApplicationEnds, Passes, Room
  <2>5. CASE CommitEnds BY <1>1, <2>5 DEF CommitEnds, Passes, Room
  <2>6. CASE TransferEnds BY <1>1, <2>6 DEF TransferEnds, Passes, Room
  <2>7. QED BY <2>1, <2>2, <2>3, <2>4, <2>5, <2>6
<1>3. QED BY <1>2, SameMild

(* Every step keeps the markers in line, or drops the one at the head.        *)
LEMMA StepCalm ==
    ASSUME LInv, [Next]_vars PROVE Calm(room, room') \/ Unmarks(room, room')
<1>1. Kept(room) /\ Right(room) BY DEF LInv, IInv
<1>2. CASE \E d \in Device : HostFrame(d)
  <2>1. PICK h \in Device : HostFrame(h) BY <1>2
  <2>2. QED
      BY <1>1, <2>1, HostUpdateCalm, HostRemoveCalm, HostRemoveMarkedCalm, HostAddCalm,
         WelcomeCalm, BootstrapCalm, ActivateCalm, CancelAdmissionCalm,
         HostApplicationCalm, ApproveApplicationCalm, RejectApplicationCalm,
         ApproveCommitCalm, RejectCommitCalm, AuthorizeTransferCalm,
         RetireMemberFrameCalm, CloseRoomCalm
      DEF HostFrame
<1>3. CASE \E d \in Device : MemberFrame(d)
  <2>1. PICK d \in Device : MemberFrame(d) BY <1>3
  <2>2. OrderRequest(d) => Calm(room, room') BY <1>1, OrderRequestCalm, MildTrans
  <2>3. Acknowledge(d) \/ ResumeComplete(d) => Calm(room, room')
      BY <1>1, AcknowledgeCalm, ResumeCompleteCalm, MildTrans
  <2>4. QED
      BY <1>1, <2>1, <2>2, <2>3, MemberCommitCalm, MemberApplicationCalm, JoinProofCalm,
         LateFrameCalm, DroppedFrameCalm, DroppedGrantFrameCalm
      DEF MemberFrame
<1>4. CASE \E d \in Device : Connection(d)
  <2>1. PICK d \in Device : Connection(d) BY <1>4
  <2>2. ConnectionLost(d) \/ CloseEvent(d) => Calm(room, room')
      BY <1>1, CloseCalm, MildTrans
  <2>3. QED BY <1>1, <2>1, <2>2, ConnectingCalm DEF Connection
<1>5. CASE \/ \E d \in Device : GraceEnds(d) \/ AdmissionEnds(d)
           \/ GrantEnds \/ ApplicationEnds \/ CommitEnds \/ TransferEnds
    BY <1>1, <1>5, TimeCalm, MildTrans
<1>6. CASE Alarm BY <1>1, <1>6, AlarmCalm
<1>7. CASE UNCHANGED vars BY <1>7, SameMild DEF vars
<1>8. QED BY <1>2, <1>3, <1>4, <1>5, <1>6, <1>7 DEF Next

(* What each step does to the markers of an open room.                        *)
InLine == room.lifecycle = "open" => Compact(room.zombies)

(* At first there is no marker.                                               *)
LEMMA InitInLine == ASSUME Init PROVE InLine
<1>1. room.zombies = EmptyFifo BY DEF Init, NewRoom
<1>2. Listed(EmptyFifo) = {} BY DEF Listed, EmptyFifo
<1>3. Cardinality(Listed(EmptyFifo)) = 0 BY <1>2, FS_EmptySet
<1>4. QED BY <1>1, <1>3 DEF InLine, Compact, EmptyFifo

(* The row stays compact; a device leaves it at its head only.                *)
LEMMA StepInLine ==
    ASSUME LInv, InLine, [Next]_vars, room'.lifecycle = "open"
    PROVE  /\ Compact(room'.zombies)
           /\ Lined(room.zombies, room'.zombies)
              \/ /\ Unmarks(room, room')
                 /\ \A x, y \in Listed(room'.zombies) :
                       room'.zombies[y] < room'.zombies[x] => room.zombies[y] < room.zombies[x]
                 /\ Listed(room'.zombies) \subseteq Listed(room.zombies)
                 /\ \A d \in Listed(room.zombies) \ Listed(room'.zombies) :
                       IsHead(room.zombies, d) /\ d \notin Roster(room) /\ room.removal # 0
<1>1. CASE Calm(room, room') BY <1>1 DEF Calm, Aligned, InLine
<1>2. CASE Unmarks(room, room')
  <2> DEFINE f == room.zombies
  <2>1. PICK d \in Listed(f) :
            /\ IsHead(f, d) /\ d \notin Roster(room) /\ room.removal # 0
            /\ room'.lifecycle = room.lifecycle /\ room'.zombies = Without(f, {d})
      BY <1>2 DEF Unmarks
  <2>2. f \in [Device -> Nat] /\ Compact(f) /\ d \in Device
      BY <2>1 DEF InLine, LInv, IInv, Kept, Room, Listed
  <2> HIDE DEF f
  <2> DEFINE g == Without(f, {d})
  <2>3. /\ Compact(g) /\ Listed(g) = Listed(f) \ {d}
        /\ \A x, y \in Listed(g) : g[y] < g[x] => f[y] < f[x]
      BY <2>2, WithoutLined
  <2>4. room'.zombies = g BY <2>1
  <2> HIDE DEF g
  <2>5. \A x \in Listed(f) \ Listed(g) : x = d BY <2>3
  <2>6. QED BY <1>2, <2>1, <2>3, <2>4, <2>5 DEF f
<1>3. QED BY <1>1, <1>2, StepCalm

(* The markers are dropped in the order they were raised, each once the group *)
(* accepted the removal it waits for (MarkersInOrder; persistZombieRemoval,   *)
(* activateZombieRemovalBarrier and retire-member in secureRelayV4.ts).       *)
THEOREM MarkersKeepOrder == Spec => MarkersInOrder
<1>1. LInv /\ InLine /\ [Next]_vars =>
          [room'.lifecycle = "open" =>
              \A d \in Listed(room.zombies) :
                 /\ d \notin Listed(room'.zombies) =>
                       /\ IsHead(room.zombies, d) /\ d \notin Roster(room)
                       /\ room.removal # 0
                 /\ \A e \in Listed(room'.zombies) \ {d} :
                       (room'.zombies[e] < room'.zombies[d] /\ d \in Listed(room'.zombies)) =>
                          e \in Listed(room.zombies) /\ room.zombies[e] < room.zombies[d]
          ]_vars
  <2> SUFFICES ASSUME LInv, InLine, [Next]_vars, room'.lifecycle = "open",
                      NEW d \in Listed(room.zombies)
               PROVE  /\ d \notin Listed(room'.zombies) =>
                            /\ IsHead(room.zombies, d) /\ d \notin Roster(room)
                            /\ room.removal # 0
                      /\ \A e \in Listed(room'.zombies) \ {d} :
                            (room'.zombies[e] < room'.zombies[d]
                             /\ d \in Listed(room'.zombies)) =>
                               e \in Listed(room.zombies)
                               /\ room.zombies[e] < room.zombies[d]
      OBVIOUS
  <2>1. CASE Lined(room.zombies, room'.zombies) BY <2>1 DEF Lined
  <2>2. CASE ~Lined(room.zombies, room'.zombies)
    <3>1. /\ \A x, y \in Listed(room'.zombies) :
                room'.zombies[y] < room'.zombies[x] => room.zombies[y] < room.zombies[x]
          /\ Listed(room'.zombies) \subseteq Listed(room.zombies)
          /\ \A x \in Listed(room.zombies) \ Listed(room'.zombies) :
                IsHead(room.zombies, x) /\ x \notin Roster(room) /\ room.removal # 0
        BY <2>2, StepInLine
    <3>2. QED BY <3>1
  <2>3. QED BY <2>1, <2>2
<1>2. LInv /\ InLine /\ [Next]_vars => LInv' /\ InLine'
  <2>1. LInv /\ [Next]_vars => LInv' BY StepRight
  <2>2. LInv /\ InLine /\ [Next]_vars => InLine' BY StepInLine DEF InLine
  <2>3. QED BY <2>1, <2>2
<1>3. Init => LInv /\ InLine BY InitRight, InitInLine
<1>4. QED BY <1>1, <1>2, <1>3, PTL DEF Spec, MarkersInOrder

(****************************************************************************)
(* What can be read back.                                                   *)
(****************************************************************************)
(* A state that can be read back has its held operations apart.               *)
LEMMA ImportableApart ==
    ASSUME NEW r \in Room, Importable(r) PROVE Apart(r)
<1> SUFFICES ASSUME r.lifecycle = "open"
             PROVE  /\ r.host \in Device /\ HeldApart(r)
                    /\ r.grant.device # NoDevice => Ready(r.members[r.grant.device])
    BY DEF Apart
<1>1. r.host # NoDevice BY DEF Importable, LifecycleImportable
<1>2. r.host \in Device BY <1>1 DEF Room, OptDevice
<1>3. HeldApart(r) BY <1>1 DEF Importable, PendingImportable, HeldImportable, HeldApart
<1>4. r.grant.device # NoDevice => Ready(r.members[r.grant.device])
    BY DEF Importable, GrantImportable
<1>5. QED BY <1>2, <1>3, <1>4

(* What a step that runs the reducer leaves was parsed, or is not read again. *)
Parsed ==
    \/ Importable(room')
    \/ ~Usable'
    \/ room' = room /\ (Usable' => Usable)

(* Storing leaves such a state.                                               *)
LEMMA CommitParsed ==
    ASSUME NEW name \in Operation, NEW new, Commit(name, new) PROVE Parsed
<1>1. name # "ok" BY DEF Operation
<1>2. CASE Stored(new) BY <1>2 DEF Commit, Parsed, Stored
<1>3. CASE ~Stored(new) BY <1>1, <1>3 DEF Commit, Parsed, Usable
<1>4. QED BY <1>2, <1>3

(* So does leaving the room alone.                                            *)
LEMMA UntouchedParsed ==
    ASSUME Untouched, UNCHANGED room PROVE Parsed
BY DEF Untouched, Parsed, Usable

(* Frames of the host.                                                        *)
LEMMA HostFrameParsed ==
    ASSUME NEW h \in Device, HostFrame(h) PROVE Parsed
<1>1. HostUpdate(h) \/ HostRemove(h) \/ HostRemoveMarked(h) \/ HostAdd(h)
          => \E new : Commit("commit", new)
    BY Zenon DEF HostUpdate, HostRemove, HostRemoveMarked, HostAdd, Handled
<1>2. /\ Welcome(h) => \E new : Commit("welcome", new)
      /\ Bootstrap(h) => \E new : Commit("bootstrap", new)
      /\ Activate(h) => \E new : Commit("activate", new)
      /\ CancelAdmission(h) => \E new : Commit("cancel-admission", new)
    BY Zenon DEF Welcome, Bootstrap, Activate, CancelAdmission, Handled
<1>3. /\ HostApplication(h) => \E new : Commit("application", new)
      /\ ApproveApplication(h) => \E new : Commit("application-decision", new)
      /\ RejectApplication(h) => \E new : Commit("application-decision", new)
    BY Zenon DEF HostApplication, ApproveApplication, RejectApplication, Handled
<1>4. /\ ApproveCommit(h) \/ RejectCommit(h) => \E new : Commit("commit-decision", new)
      /\ AuthorizeTransfer(h) => \E new : Commit("authorize-host-transfer", new)
      /\ RetireMemberFrame(h) => \E new : Commit("retire-member", new)
      /\ CloseRoom(h) => \E new : Commit("close-room", new)
    BY Zenon DEF ApproveCommit, RejectCommit, AuthorizeTransfer, RetireMemberFrame,
                 CloseRoom, Handled
<1>5. \E name \in Operation : \E new : Commit(name, new)
  <2>1. {"commit", "welcome", "bootstrap", "activate", "cancel-admission", "application",
         "application-decision", "commit-decision", "authorize-host-transfer",
         "retire-member", "close-room"} \subseteq Operation
      BY DEF Operation
  <2>2. QED BY <1>1, <1>2, <1>3, <1>4, <2>1 DEF HostFrame
<1>6. QED BY <1>5, CommitParsed

(* Frames of a member.                                                        *)
LEMMA MemberFrameParsed ==
    ASSUME NEW d \in Device, MemberFrame(d) PROVE Parsed
<1>1. /\ OrderRequest(d) => \E new : Commit("order-request", new)
      /\ MemberCommit(d) => \E new : Commit("commit", new)
      /\ MemberApplication(d) => \E new : Commit("application", new)
      /\ JoinProof(d) => \E new : Commit("join-proof", new)
    BY Zenon DEF OrderRequest, MemberCommit, MemberApplication, JoinProof, Handled
<1>2. /\ LateFrame(d) => \E new : Commit("late-frame", new)
      /\ Acknowledge(d) => \E new : Commit("delivery-ack", new)
      /\ ResumeComplete(d) => \E new : Commit("resume-complete", new)
    BY Zenon DEF LateFrame, Acknowledge, ResumeComplete, Handled
<1>3. DroppedFrame(d) \/ DroppedRequest(d) \/ DroppedGrantFrame(d)
          => \E new : Commit("cleanup", new)
    BY Zenon DEF DroppedFrame, DroppedRequest, DroppedGrantFrame, Handled
<1>4. \E name \in Operation : \E new : Commit(name, new)
  <2>1. {"order-request", "commit", "application", "join-proof", "late-frame",
         "delivery-ack", "resume-complete", "cleanup"} \subseteq Operation
      BY DEF Operation
  <2>2. QED BY <1>1, <1>2, <1>3, <2>1 DEF MemberFrame
<1>5. QED BY <1>4, CommitParsed

(* Connections.                                                               *)
LEMMA ConnectionParsed ==
    ASSUME NEW d \in Device, Connection(d) PROVE Parsed
<1>1. {"join", "resume", "close"} \subseteq Operation BY DEF Operation
<1>2. CASE Join(d) \/ RetryJoin(d)
  <2>1. \E new : Commit("join", new) BY <1>2, Zenon DEF Join, RetryJoin, Attached
  <2>2. QED BY <1>1, <2>1, CommitParsed
<1>3. CASE Resume(d)
  <2>1. \E new : Commit("resume", new) BY <1>3, Zenon DEF Resume, Attached
  <2>2. QED BY <1>1, <2>1, CommitParsed
<1>4. CASE ConnectionLost(d) BY <1>4, UntouchedParsed DEF ConnectionLost
<1>5. CASE CloseEvent(d)
  <2>1. (\E new : Commit("close", new)) \/ (Untouched /\ UNCHANGED room)
      BY <1>5, Zenon DEF CloseEvent
  <2>2. QED BY <1>1, <2>1, CommitParsed, UntouchedParsed
<1>6. QED BY <1>2, <1>3, <1>4, <1>5 DEF Connection

(* Time changes nothing of it.                                                *)
LEMMA TimeApart ==
    ASSUME Kept(room), Apart(room),
           \/ \E d \in Device : GraceEnds(d) \/ AdmissionEnds(d)
           \/ GrantEnds \/ ApplicationEnds \/ CommitEnds \/ TransferEnds
    PROVE  Apart(room')
<1>1. room \in Room BY DEF Kept
<1>2. /\ room'.lifecycle = room.lifecycle /\ room'.host = room.host
      /\ room'.application.from = room.application.from
      /\ room'.commit.from = room.commit.from
      /\ room'.grant.device = room.grant.device
      /\ \A e \in Device : /\ room'.members[e].status = room.members[e].status
                           /\ room'.members[e].backlog = room.members[e].backlog
  <2>1. CASE \E d \in Device : GraceEnds(d)
    <3>1. PICK d \in Device : GraceEnds(d) BY <2>1
    <3>2. QED BY <1>1, <3>1 DEF GraceEnds, Passes, Room, Member
  <2>2. CASE \E d \in Device : AdmissionEnds(d)
    <3>1. PICK d \in Device : AdmissionEnds(d) BY <2>2
    <3>2. QED BY <1>1, <3>1 DEF AdmissionEnds, Passes, Room, Member
  <2>3. CASE GrantEnds BY <1>1, <2>3 DEF GrantEnds, Passes, Room, Grant
  <2>4. CASE ApplicationEnds
      BY <1>1, <2>4 DEF ApplicationEnds, Passes, Room, HeldApplication
  <2>5. CASE CommitEnds BY <1>1, <2>5 DEF CommitEnds, Passes, Room, HeldCommit
  <2>6. CASE TransferEnds BY <1>1, <2>6 DEF TransferEnds, Passes, Room
  <2>7. QED BY <2>1, <2>2, <2>3, <2>4, <2>5, <2>6
<1>3. room.grant.device # NoDevice => room.grant.device \in Device
    BY <1>1 DEF Room, Grant, OptDevice
<1>4. QED BY <1>2, <1>3 DEF Apart, HeldApart, Ready

(* A room that will be read again.                                            *)
Readable == Usable => Apart(room)

(* The founded room can be read.                                              *)
LEMMA InitReadable == ASSUME Init PROVE Readable
<1>1. room = NewRoom BY DEF Init
<1>2. Founder \in Device BY SettledAssumption DEF Founder
<1>3. /\ room.host \in Device /\ room.grant.device = NoDevice
      /\ room.application.from = NoDevice /\ room.commit.from = NoDevice
    BY <1>1, <1>2 DEF NewRoom, NoGrant, NoApplication, NoCommit
<1>4. QED BY <1>3, DeviceAssumption DEF Readable, Apart, HeldApart

(* Every step leaves a room that can be read, or is not read again.           *)
LEMMA StepReadable ==
    ASSUME LInv, Readable, [Next]_vars PROVE Readable'
<1>1. Kept(room) /\ room' \in Room BY StepRight DEF LInv, IInv, Kept
<1>2. ASSUME Parsed PROVE Readable'
    BY <1>1, <1>2, ImportableApart DEF Parsed, Readable
<1>3. CASE \E d \in Device : HostFrame(d) \/ MemberFrame(d) \/ Connection(d)
    BY <1>2, <1>3, HostFrameParsed, MemberFrameParsed, ConnectionParsed
<1>4. CASE \/ \E d \in Device : GraceEnds(d) \/ AdmissionEnds(d)
           \/ GrantEnds \/ ApplicationEnds \/ CommitEnds \/ TransferEnds
  <2>1. Untouched
      BY <1>4 DEF GraceEnds, AdmissionEnds, GrantEnds, ApplicationEnds, CommitEnds,
                  TransferEnds, Passes
  <2>2. Usable' => Usable BY <2>1 DEF Untouched, Usable
  <2>3. Apart(room) => Apart(room') BY <1>1, <1>4, TimeApart
  <2>4. QED BY <2>2, <2>3 DEF Readable
<1>5. CASE Alarm
  <2>1. \E new : Commit("alarm", new) BY <1>5, Zenon DEF Alarm, Handled
  <2>2. "alarm" \in Operation BY DEF Operation
  <2>3. QED BY <1>2, <2>1, <2>2, CommitParsed
<1>6. CASE UNCHANGED vars BY <1>2, <1>6 DEF vars, Parsed, Usable
<1>7. QED BY <1>3, <1>4, <1>5, <1>6 DEF Next

(****************************************************************************)
(* The end of the room.                                                     *)
(****************************************************************************)
(* A frame is accepted while the host is attentive: the room goes on.         *)
LEMMA AcceptedMild ==
    ASSUME NEW r, NEW s, Like(r, s), s.host = r.host, Attentive(s),
           NEW kind \in AcceptedKind, NEW from \in Device,
           NEW subject \in OptDevice, NEW order \in Nat
    PROVE  LET t == Accept(s, kind, from, subject, order) IN
           t \in Room /\ Mild(r, t) /\ Mild(r, IssueNextGrant(t))
<1> DEFINE t == Accept(s, kind, from, subject, order)
<1>1. s \in Room /\ Mild(r, s) BY LikeCalm DEF Like
<1>2. Mild(s, t) /\ t \in Room BY <1>1, AcceptAttentive, AcceptGood DEF Good
<1> HIDE DEF t
<1>3. Mild(r, t) BY <1>1, <1>2, MildTrans
<1>4. QED BY <1>2, <1>3, ThenIssueMild DEF t

(* A transition is stored, or nothing happened.                               *)
LEMMA HandledLasts ==
    ASSUME NEW new, Mild(room, new), room' \in {room, new} PROVE Lasts(room, room')
<1>1. Mild(room, room') BY SameMild
<1>2. QED BY <1>1, MildLasts

(* A lifecycle that is left alone.                                            *)
LEMMA SameLasts ==
    ASSUME NEW new, new.lifecycle = room.lifecycle, room' \in {room, new}
    PROVE  Lasts(room, room')
BY DEF Lasts

(* The grant is used while the host is attentive.                             *)
LEMMA SpentAttentive ==
    ASSUME NEW r \in Room, Attentive(r)
    PROVE  /\ Like(r, Spent(r)) /\ Spent(r).host = r.host /\ Attentive(Spent(r))
           /\ Spent(r).members = r.members
<1>1. /\ Spent(r).host = r.host /\ Spent(r).members = r.members
      /\ Spent(r).application = r.application /\ Spent(r).commit = r.commit
    BY DEF Spent, Room
<1>2. QED BY <1>1, SpentLike, AttentiveSame DEF Attentive

(* And the next order.                                                        *)
LEMMA NumberedAttentive ==
    ASSUME NEW r \in Room, Attentive(r)
    PROVE  /\ Like(r, Numbered(r)) /\ Numbered(r).host = r.host /\ Attentive(Numbered(r))
           /\ Numbered(r).members = r.members
<1>1. /\ Numbered(r).host = r.host /\ Numbered(r).members = r.members
      /\ Numbered(r).application = r.application /\ Numbered(r).commit = r.commit
    BY DEF Numbered, Room
<1>2. QED BY <1>1, NumberedLike, AttentiveSame DEF Attentive

(* A member is rewritten, but for its backlog.                                *)
LEMMA RewrittenAttentive ==
    ASSUME NEW r \in Room, Attentive(r), NEW a \in Device, NEW m \in Member,
           m.backlog = r.members[a].backlog
    PROVE  LET s == [r EXCEPT !.members[a] = m] IN
           Like(r, s) /\ s.host = r.host /\ Attentive(s)
<1> DEFINE s == [r EXCEPT !.members[a] = m]
<1>1. /\ s.host = r.host /\ s.application = r.application /\ s.commit = r.commit
      /\ s.members[r.host].backlog = r.members[r.host].backlog
    BY DEF Room, Attentive
<1>2. Like(r, s) BY LikeMember
<1> HIDE DEF s
<1>3. Attentive(s) BY <1>1, AttentiveSame DEF Attentive
<1>4. QED BY <1>1, <1>2, <1>3 DEF s

(* A commit of the host.                                                      *)
LEMMA HostCommitLasts ==
    ASSUME Kept(room), NEW h \in Device, Attentive(room),
           HostUpdate(h) \/ HostRemove(h) \/ HostRemoveMarked(h) \/ HostAdd(h)
    PROVE  Lasts(room, room')
<1> DEFINE q == Spent(room)
           n == Len(room.accepted) + 1
           w == [q EXCEPT !.removal = n]
           v(a) == [q EXCEPT !.members[a] = [@ EXCEPT !.added = TRUE, !.since = n],
                             !.queue = EmptyFifo]
<1>1. room \in Room /\ n \in Nat BY LenAccepted DEF Kept
<1>2. Like(room, q) /\ q.host = room.host /\ Attentive(q) BY <1>1, SpentAttentive
<1> HIDE DEF n
<1>3. CASE HostUpdate(h)
  <2>1. room' \in {room, IssueNextGrant(Accept(q, "commit", h, NoDevice, 0))}
      BY <1>3 DEF HostUpdate, Handled, Commit
  <2> HIDE DEF q
  <2>2. Mild(room, IssueNextGrant(Accept(q, "commit", h, NoDevice, 0)))
      BY <1>2, AcceptedMild DEF AcceptedKind, OptDevice
  <2>3. QED BY <2>1, <2>2, HandledLasts
<1>4. CASE HostRemove(h)
  <2>1. PICK d \in Roster(room) :
            room' \in {room, IssueNextGrant(Accept(q, "remove", h, d, 0))}
      BY <1>4 DEF HostRemove, Handled, Commit
  <2>2. d \in OptDevice BY DEF Roster, OptDevice
  <2> HIDE DEF q
  <2>3. Mild(room, IssueNextGrant(Accept(q, "remove", h, d, 0)))
      BY <1>2, <2>2, AcceptedMild DEF AcceptedKind
  <2>4. QED BY <2>1, <2>3, HandledLasts
<1>5. CASE HostRemoveMarked(h)
  <2>1. PICK d \in Roster(room) :
            room' \in {room, IssueNextGrant(Accept(w, "remove", h, d, 0))}
      BY <1>5 DEF HostRemoveMarked, Handled, Commit, n
  <2>2. d \in OptDevice BY DEF Roster, OptDevice
  <2> HIDE DEF q
  <2>3. /\ w \in Room /\ w.host = q.host /\ w.members = q.members /\ w.zombies = q.zombies
        /\ w.application = q.application /\ w.commit = q.commit /\ w.lifecycle = q.lifecycle
      BY <1>1, <1>2 DEF Like, Room
  <2> HIDE DEF w
  <2>4. Like(room, w) /\ Attentive(w) /\ w.host = room.host
      BY <1>2, <2>3, AttentiveSame DEF Like, Attentive
  <2>5. Mild(room, IssueNextGrant(Accept(w, "remove", h, d, 0)))
      BY <2>2, <2>4, AcceptedMild DEF AcceptedKind
  <2>6. QED BY <2>1, <2>5, HandledLasts
<1>6. CASE HostAdd(h)
  <2>1. PICK a \in InAdmission(room) :
            room' \in {room, IssueNextGrant(Accept(v(a), "add", h, a, 0))}
      BY <1>6 DEF HostAdd, Handled, Commit, n
  <2> DEFINE m == [q.members[a] EXCEPT !.added = TRUE, !.since = n]
             u == [q EXCEPT !.members[a] = m]
             s == [u EXCEPT !.queue = EmptyFifo]
  <2>2. a \in Device /\ a \in OptDevice BY DEF InAdmission, OptDevice
  <2> HIDE DEF q
  <2>3. q.members[a] \in Member /\ q \in Room BY <1>2, <2>2 DEF Like, Room
  <2>4. m \in Member /\ m.backlog = q.members[a].backlog BY <1>1, <2>3 DEF Member
  <2> HIDE DEF m
  <2>5. Like(q, u) /\ u.host = q.host /\ Attentive(u)
      BY <1>2, <2>2, <2>3, <2>4, RewrittenAttentive
  <2>6. v(a) = s BY <2>2, <2>3 DEF m, Room
  <2> HIDE DEF u, v
  <2>7. EmptyFifo \in [Device -> Nat] BY DEF EmptyFifo
  <2>8. /\ s \in Room /\ s.host = u.host /\ s.members = u.members /\ s.zombies = u.zombies
        /\ s.application = u.application /\ s.commit = u.commit /\ s.lifecycle = u.lifecycle
      BY <2>5, <2>7 DEF Like, Room
  <2> HIDE DEF s
  <2>9. Like(room, s) /\ Attentive(s) /\ s.host = room.host
      BY <1>2, <2>5, <2>8, AttentiveSame DEF Like, Attentive
  <2>10. Mild(room, IssueNextGrant(Accept(s, "add", h, a, 0)))
      BY <2>2, <2>9, AcceptedMild DEF AcceptedKind
  <2>11. QED BY <2>1, <2>6, <2>10, HandledLasts
<1>7. QED BY <1>3, <1>4, <1>5, <1>6

(* The steps of an admission.                                                 *)
LEMMA AdmissionLasts ==
    ASSUME Kept(room), NEW h \in Device, Attentive(room),
           Welcome(h) \/ Bootstrap(h) \/ Activate(h) \/ CancelAdmission(h)
    PROVE  Lasts(room, room')
<1>1. room \in Room BY DEF Kept
<1>2. CASE Welcome(h)
  <2> DEFINE s(a) == [room EXCEPT !.members[a] =
                        [Given(@, WelcomeEntry) EXCEPT !.phase = "awaiting-bootstrap"]]
  <2>1. PICK a \in AdmissionBarrier(room) : room' \in {room, s(a)}
      BY <1>2 DEF Welcome, Handled, Commit
  <2>2. s(a).lifecycle = room.lifecycle BY <1>1 DEF Room
  <2> HIDE DEF s
  <2>3. QED BY <2>1, <2>2, SameLasts
<1>3. CASE Bootstrap(h)
  <2> DEFINE order == room.grant.order
             entry == RelayEntry(Len(room.accepted) + 1, order)
             p == Spent(room)
             base == Numbered(p)
             ordered(a) == [base EXCEPT !.members[a].phase = "awaiting-proof"]
             rec(a) == Record(ordered(a), "bootstrap", h, a, order)
             routed(a) == Route(rec(a), h, entry)
             proven(a) == [routed(a) EXCEPT !.members[a] =
                              [Given(@, entry) EXCEPT !.proofOrder = routed(a).nextOrder]]
  <2>1. PICK a \in AdmissionBarrier(room) : room' \in {room, routed(a), proven(a)}
      BY <1>3 DEF Bootstrap, Handled, Commit
  <2>2. a \in Device /\ a \in OptDevice BY DEF AdmissionBarrier, InAdmission, OptDevice
  <2>3. order \in Nat BY <1>1 DEF Room, Grant
  <2>4. entry \in Entry BY <2>3, LenAccepted, EntryTypes DEF Kept
  <2>5. Like(room, p) /\ p.host = room.host /\ Attentive(p) BY <1>1, SpentAttentive
  <2> HIDE DEF p
  <2>6. Like(p, base) /\ base.host = p.host /\ Attentive(base)
      BY <2>5, NumberedAttentive DEF Like
  <2> HIDE DEF base
  <2> DEFINE m == [base.members[a] EXCEPT !.phase = "awaiting-proof"]
             o == ordered(a)
             c == rec(a)
             t == routed(a)
  <2>7. m \in Member /\ m.backlog = base.members[a].backlog
    <3>1. base.members[a] \in Member BY <2>2, <2>6 DEF Like, Room
    <3>2. QED BY <3>1 DEF Member, Phase
  <2>8. o = [base EXCEPT !.members[a] = m] OBVIOUS
  <2> HIDE DEF m, ordered, o, order, entry
  <2>9. Like(base, o) /\ o.host = base.host /\ Attentive(o)
      BY <2>2, <2>6, <2>7, <2>8, RewrittenAttentive DEF Like
  <2>10. c = Record(o, "bootstrap", h, a, order) BY DEF o
  <2>11. c \in Room BY <2>2, <2>3, <2>9, <2>10, RecordGood DEF Good, Like, AcceptedKind
  <2>12. /\ c.host = o.host /\ c.members = o.members /\ c.application = o.application
         /\ c.commit = o.commit /\ c.lifecycle = o.lifecycle
      BY <2>9, <2>10 DEF Record, Like, Room
  <2>13. t = Route(c, h, entry) OBVIOUS
  <2> HIDE DEF c, rec, routed, t
  <2>14. Attentive(c) BY <2>9, <2>12, AttentiveSame DEF Attentive
  <2>15. PICK S \in SUBSET Device : t = Deliver(c, S, entry) BY <2>13 DEF Route
  <2>16. Mild(c, t) /\ t \in Room
      BY <2>4, <2>11, <2>14, <2>15, DeliverAttentive, DeliverGood DEF Good
  <2>17. t.lifecycle = room.lifecycle BY <2>5, <2>6, <2>9, <2>12, <2>16 DEF Like, Mild
  <2>18. proven(a).lifecycle = t.lifecycle BY <2>16 DEF Room, t
  <2> HIDE DEF proven
  <2>19. QED BY <2>1, <2>17, <2>18, SameLasts DEF t
<1>4. CASE Activate(h)
  <2> DEFINE q == Numbered(room)
             new(a) == [q EXCEPT !.members[a] = [ClearAdmission(@) EXCEPT !.status = "active"]]
  <2>1. PICK a \in InAdmission(room) :
            room' \in {room, IssueNextGrant(Accept(new(a), "join-proof", a, a, room.nextOrder))}
      BY <1>4 DEF Activate, Handled, Commit
  <2> DEFINE m == [ClearAdmission(q.members[a]) EXCEPT !.status = "active"]
             s == new(a)
  <2>2. a \in Device /\ a \in OptDevice BY DEF InAdmission, OptDevice
  <2>3. Like(room, q) /\ q.host = room.host /\ Attentive(q) /\ room.nextOrder \in Nat
      BY <1>1, NumberedAttentive DEF Room
  <2> HIDE DEF q
  <2>4. m \in Member /\ m.backlog = q.members[a].backlog
    <3>1. q.members[a] \in Member BY <2>2, <2>3 DEF Like, Room
    <3>2. m \in Member BY <3>1, MemberTypes DEF ClearAdmission, Member, Status
    <3>3. m.backlog = q.members[a].backlog BY <3>1 DEF ClearAdmission, Member
    <3>4. QED BY <3>2, <3>3
  <2>5. s = [q EXCEPT !.members[a] = m] OBVIOUS
  <2> HIDE DEF m, new, s
  <2>6. Like(room, s) /\ s.host = room.host /\ Attentive(s)
      BY <2>2, <2>3, <2>4, <2>5, LikeTrans, RewrittenAttentive DEF Like
  <2>7. Mild(room, IssueNextGrant(Accept(s, "join-proof", a, a, room.nextOrder)))
      BY <2>2, <2>3, <2>6, AcceptedMild DEF AcceptedKind
  <2>8. QED BY <2>1, <2>7, HandledLasts DEF s
<1>5. CASE CancelAdmission(h)
  <2>1. PICK a \in InAdmission(room) :
            room' \in {room, IssueNextGrant(RetireAdmission(room, a))}
      BY <1>5 DEF CancelAdmission, Handled, Commit
  <2>2. a \in Device BY DEF InAdmission
  <2>3. Mild(room, RetireAdmission(room, a)) /\ RetireAdmission(room, a) \in Room
      BY <1>1, <2>2, RetireAdmissionMild, RetireAdmissionGood DEF Good
  <2>4. Mild(room, IssueNextGrant(RetireAdmission(room, a))) BY <2>3, ThenIssueMild
  <2>5. QED BY <2>1, <2>4, HandledLasts
<1>6. QED BY <1>2, <1>3, <1>4, <1>5

(* A held operation taken back while the host is attentive.                   *)
LEMMA WithdrawnAttentive ==
    ASSUME NEW r \in Room, Attentive(r)
    PROVE  /\ Attentive([r EXCEPT !.application = NoApplication])
           /\ Attentive([r EXCEPT !.commit = NoCommit])
<1>1. PICK s : s = [r EXCEPT !.application = NoApplication] OBVIOUS
<1>2. PICK t : t = [r EXCEPT !.commit = NoCommit] OBVIOUS
<1>3. /\ s.host = r.host /\ s.members = r.members /\ s.commit = r.commit
      /\ s.application = NoApplication
    BY <1>1 DEF Room
<1>4. /\ t.host = r.host /\ t.members = r.members /\ t.application = r.application
      /\ t.commit = NoCommit
    BY <1>2 DEF Room
<1>5. Attentive(s) BY <1>3, AttentiveSame DEF Attentive, NoApplication
<1>6. Attentive(t) BY <1>4, AttentiveSame DEF Attentive, NoCommit
<1>7. QED BY <1>1, <1>2, <1>5, <1>6

(* The host's own frame, and its decisions.                                   *)
LEMMA DecisionLasts ==
    ASSUME Kept(room), NEW h \in Device, Attentive(room),
           \/ HostApplication(h) \/ ApproveApplication(h) \/ RejectApplication(h)
           \/ ApproveCommit(h) \/ RejectCommit(h)
    PROVE  Lasts(room, room')
<1>1. room \in Room BY DEF Kept
<1>2. CASE HostApplication(h)
  <2> DEFINE q == Spent(room)
             s == Numbered(q)
             order == room.grant.order
  <2>1. room' \in {room, IssueNextGrant(Accept(s, "application", h, NoDevice, order))}
      BY <1>2 DEF HostApplication, Handled, Commit
  <2>2. order \in Nat BY <1>1 DEF Room, Grant
  <2>3. Like(room, q) /\ q.host = room.host /\ Attentive(q) BY <1>1, SpentAttentive
  <2> HIDE DEF q, order
  <2>4. Like(room, s) /\ s.host = room.host /\ Attentive(s)
      BY <2>3, LikeTrans, NumberedAttentive DEF Like
  <2> HIDE DEF s
  <2>5. Mild(room, IssueNextGrant(Accept(s, "application", h, NoDevice, order)))
      BY <2>2, <2>4, AcceptedMild DEF AcceptedKind, OptDevice
  <2>6. QED BY <2>1, <2>5, HandledLasts
<1>3. CASE ApproveApplication(h)
  <2> DEFINE p == room.application
             kind == IF p.accepts THEN "accept" ELSE "application"
             q == Numbered(room)
             cleared == [q EXCEPT !.application = NoApplication]
             routed == Accept(cleared, kind, p.from, NoDevice, p.order)
             handed == IF p.accepts
                       THEN [routed EXCEPT !.transfer = NoTransfer, !.host = p.from]
                       ELSE routed
  <2>1. room' \in {room, IssueNextGrant(handed)} /\ p.from # NoDevice
      BY <1>3 DEF ApproveApplication, Handled, Commit
  <2>2. p.from \in Device /\ p.order \in Nat /\ NoDevice \in OptDevice
      BY <1>1, <2>1 DEF Room, HeldApplication, OptDevice
  <2>3. kind \in AcceptedKind BY DEF AcceptedKind
  <2>4. Like(room, q) /\ q.host = room.host /\ Attentive(q) BY <1>1, NumberedAttentive
  <2> HIDE DEF q
  <2>5. Like(q, cleared) /\ cleared.host = q.host /\ Attentive(cleared)
      BY <2>4, WithdrawnLike, WithdrawnAttentive DEF Like
  <2> HIDE DEF cleared, kind, p
  <2>6. Like(room, cleared) /\ cleared.host = room.host BY <2>4, <2>5, LikeTrans
  <2>7. Mild(room, routed) /\ routed \in Room
      BY <2>2, <2>3, <2>5, <2>6, AcceptedMild
  <2> HIDE DEF routed
  <2>8. handed \in Room /\ handed.lifecycle = routed.lifecycle
      BY <2>2, <2>7, NoneTypes DEF Room, OptDevice
  <2> HIDE DEF handed
  <2>9. IssueNextGrant(handed).lifecycle = room.lifecycle
      BY <2>7, <2>8, IssueMild DEF Mild
  <2>10. QED BY <2>1, <2>9, SameLasts
<1>4. CASE RejectApplication(h)
  <2> DEFINE p == room.application
             cleared == [room EXCEPT !.application = NoApplication]
             answered == Answer(cleared, p.from, RejectedEntry(p.order))
             s == [answered EXCEPT !.transfer = IF p.accepts THEN NoTransfer ELSE @]
  <2>1. room' \in {room, IssueNextGrant(s)} /\ p.from # NoDevice
      BY <1>4 DEF RejectApplication, Handled, Commit
  <2>2. p.from \in Device /\ p.order \in Nat /\ p.from # room.host
      BY <1>1, <2>1 DEF Room, HeldApplication, OptDevice, Attentive, HeldApart
  <2>3. Like(room, cleared) /\ cleared.host = room.host BY <1>1, WithdrawnLike
  <2> HIDE DEF cleared, p
  <2>4. Mild(room, answered) /\ answered \in Room BY <2>2, <2>3, AnsweredCalm
  <2> HIDE DEF answered
  <2>5. s \in Room /\ s.lifecycle = answered.lifecycle BY <2>4, NoneTypes DEF Room
  <2> HIDE DEF s
  <2>6. IssueNextGrant(s).lifecycle = room.lifecycle BY <2>4, <2>5, IssueMild DEF Mild
  <2>7. QED BY <2>1, <2>6, SameLasts
<1>5. CASE ApproveCommit(h)
  <2> DEFINE from == room.commit.from
             s == [room EXCEPT !.commit = NoCommit]
  <2>1. /\ room' \in {room, IssueNextGrant(Accept(s, "commit", from, NoDevice, 0))}
        /\ from # NoDevice
      BY <1>5 DEF ApproveCommit, Handled, Commit
  <2>2. from \in Device BY <1>1, <2>1 DEF Room, HeldCommit, OptDevice
  <2>3. Like(room, s) /\ s.host = room.host /\ Attentive(s)
      BY <1>1, WithdrawnLike, WithdrawnAttentive
  <2> HIDE DEF s, from
  <2>4. Mild(room, IssueNextGrant(Accept(s, "commit", from, NoDevice, 0)))
      BY <2>2, <2>3, AcceptedMild DEF AcceptedKind, OptDevice
  <2>5. QED BY <2>1, <2>4, HandledLasts
<1>6. CASE RejectCommit(h)
  <2> DEFINE from == room.commit.from
             s == [room EXCEPT !.commit = NoCommit]
  <2>1. /\ room' \in {room, IssueNextGrant(Answer(s, from, RejectedEntry(0)))}
        /\ from # NoDevice
      BY <1>6 DEF RejectCommit, Handled, Commit
  <2>2. from \in Device /\ from # room.host
      BY <1>1, <2>1 DEF Room, HeldCommit, OptDevice, Attentive, HeldApart
  <2>3. Like(room, s) /\ s.host = room.host BY <1>1, WithdrawnLike
  <2> HIDE DEF s, from
  <2>4. Mild(room, IssueNextGrant(Answer(s, from, RejectedEntry(0)))) BY <2>2, <2>3, AnsweredCalm
  <2>5. QED BY <2>1, <2>4, HandledLasts
<1>7. QED BY <1>2, <1>3, <1>4, <1>5, <1>6

(* An offer of the role, and the end of a membership.                         *)
LEMMA AuthorityLasts ==
    ASSUME Right(room), NEW h \in Device, Attentive(room),
           AuthorizeTransfer(h) \/ RetireMemberFrame(h)
    PROVE  Lasts(room, room')
<1>1. room \in Room /\ Kept(room) BY RightShape
<1>2. CASE AuthorizeTransfer(h)
  <2> DEFINE x(d) == [host |-> h, target |-> d, overdue |-> FALSE]
             q(d) == [room EXCEPT !.transfer = x(d)]
             s(d) == Deliver(q(d), {d}, AuthorizationEntry)
  <2>1. PICK d \in Device \ {h} : room' \in {room, s(d)}
      BY <1>2 DEF AuthorizeTransfer, Handled, Commit
  <2>2. x(d) \in Transfer BY DEF Transfer, OptDevice
  <2> HIDE DEF x
  <2>3. /\ q(d) \in Room /\ q(d).lifecycle = room.lifecycle /\ q(d).host = room.host
        /\ q(d).members = room.members /\ q(d).application = room.application
        /\ q(d).commit = room.commit
      BY <1>1, <2>2 DEF Room
  <2> HIDE DEF q
  <2>4. PICK t : t = q(d) OBVIOUS
  <2>5. PICK S \in SUBSET Device : S = {d} OBVIOUS
  <2>6. Attentive(t) BY <2>3, <2>4, AttentiveSame DEF Attentive
  <2>7. Mild(t, Deliver(t, S, AuthorizationEntry))
      BY <2>3, <2>4, <2>6, DeliverAttentive, EntryTypes
  <2>8. s(d).lifecycle = room.lifecycle BY <2>3, <2>4, <2>5, <2>7 DEF Mild
  <2> HIDE DEF s
  <2>9. QED BY <2>1, <2>8, SameLasts
<1>3. CASE RetireMemberFrame(h)
  <2>1. PICK d \in Device :
            room' \in {room, Unmarked(room, d), IssueNextGrant(Unmarked(Departed(room, d), d))}
      BY <1>3 DEF RetireMemberFrame, Handled, Commit
  <2> DEFINE q == Departed(room, d)
             t == Unmarked(room, d)
             s == Unmarked(q, d)
  <2>2. Kept(q) /\ q.lifecycle = room.lifecycle
    <3>1. Kept(q) BY <1>1, DepartedGood, GoodKept
    <3>2. QED BY <1>1, <3>1 DEF Departed, Room
  <2> HIDE DEF q
  <2>3. t.lifecycle = room.lifecycle BY <1>1 DEF Unmarked, Room
  <2>4. s \in Room /\ s.lifecycle = q.lifecycle
    <3>1. s \in Room BY <2>2, UnmarkedKept DEF Kept
    <3>2. s.lifecycle = q.lifecycle BY <2>2 DEF Unmarked, Kept, Room
    <3>3. QED BY <3>1, <3>2
  <2> HIDE DEF s, t
  <2>5. IssueNextGrant(s).lifecycle = room.lifecycle BY <2>2, <2>4, IssueMild DEF Mild
  <2>6. QED BY <2>1, <2>3, <2>5 DEF Lasts, s, t, q
<1>4. QED BY <1>2, <1>3

(* The host's frame is handled once the host has read everything.             *)
LEMMA HostFrameReady ==
    ASSUME NEW h \in Device, HostFrame(h)
    PROVE  HostReady(h) /\ Usable /\ room.lifecycle = "open"
<1>1. Handles(h) /\ HostReady(h)
  <2>1. HostUpdate(h) \/ HostRemove(h) \/ HostRemoveMarked(h) \/ HostAdd(h) =>
            Handles(h) /\ HostReady(h)
      BY Zenon DEF HostUpdate, HostRemove, HostRemoveMarked, HostAdd, HostMayCommit
  <2>2. Welcome(h) \/ Bootstrap(h) \/ Activate(h) \/ CancelAdmission(h) =>
            Handles(h) /\ HostReady(h)
      BY Zenon DEF Welcome, Bootstrap, Activate, CancelAdmission
  <2>3. HostApplication(h) \/ ApproveApplication(h) \/ RejectApplication(h)
            \/ ApproveCommit(h) \/ RejectCommit(h) => Handles(h) /\ HostReady(h)
      BY Zenon DEF HostApplication, ApproveApplication, RejectApplication, ApproveCommit,
                   RejectCommit, HostDecides
  <2>4. AuthorizeTransfer(h) \/ RetireMemberFrame(h) \/ CloseRoom(h) =>
            Handles(h) /\ HostReady(h)
      BY Zenon DEF AuthorizeTransfer, RetireMemberFrame, CloseRoom
  <2>5. QED BY <2>1, <2>2, <2>3, <2>4 DEF HostFrame
<1>2. QED BY <1>1 DEF Handles, Receives

(* Of the host's frames, only the one that closes the room ends it.           *)
LEMMA HostFrameLasts ==
    ASSUME LInv, Readable, NEW h \in Device, HostFrame(h)
    PROVE  Lasts(room, room') \/ CloseRoom(room.host)
<1>1. Kept(room) /\ Right(room) BY DEF LInv, IInv
<1>2. HostReady(h) /\ Usable /\ room.lifecycle = "open" BY HostFrameReady
<1>3. Attentive(room)
    BY <1>2 DEF Readable, Apart, Attentive, HostReady, Ready
<1>4. HostUpdate(h) \/ HostRemove(h) \/ HostRemoveMarked(h) \/ HostAdd(h) => Lasts(room, room')
    BY <1>1, <1>3, HostCommitLasts
<1>5. Welcome(h) \/ Bootstrap(h) \/ Activate(h) \/ CancelAdmission(h) => Lasts(room, room')
    BY <1>1, <1>3, AdmissionLasts
<1>6. HostApplication(h) \/ ApproveApplication(h) \/ RejectApplication(h)
          \/ ApproveCommit(h) \/ RejectCommit(h) => Lasts(room, room')
    BY <1>1, <1>3, DecisionLasts
<1>7. AuthorizeTransfer(h) \/ RetireMemberFrame(h) => Lasts(room, room')
    BY <1>1, <1>3, AuthorityLasts
<1>8. CloseRoom(h) => CloseRoom(room.host) BY <1>2 DEF HostReady
<1>9. QED BY <1>4, <1>5, <1>6, <1>7, <1>8 DEF HostFrame

(* A member's frame is held, or kept: the room goes on.                       *)
LEMMA HeldLasts ==
    ASSUME Kept(room), NEW d \in Device,
           MemberCommit(d) \/ MemberApplication(d) \/ JoinProof(d)
    PROVE  Lasts(room, room')
<1>1. room \in Room /\ Spent(room) \in Room /\ Spent(room).lifecycle = room.lifecycle
    BY SpentLike DEF Kept, Like
<1>2. CASE MemberCommit(d)
  <2> DEFINE c == [from |-> d, order |-> room.grant.order, overdue |-> FALSE]
             s == [Spent(room) EXCEPT !.commit = c]
  <2>1. room' \in {room, s} BY <1>2 DEF MemberCommit, Handled, Commit
  <2>2. s.lifecycle = room.lifecycle BY <1>1 DEF Room
  <2> HIDE DEF s
  <2>3. QED BY <2>1, <2>2, SameLasts
<1>3. CASE MemberApplication(d)
  <2> DEFINE s(x) == [Spent(room) EXCEPT !.application =
                        [from |-> d, accepts |-> x, order |-> room.grant.order,
                         overdue |-> FALSE]]
  <2>1. PICK x \in BOOLEAN : room' \in {room, s(x)} BY <1>3 DEF MemberApplication, Handled, Commit
  <2>2. s(x).lifecycle = room.lifecycle BY <1>1 DEF Room
  <2> HIDE DEF s
  <2>3. QED BY <2>1, <2>2, SameLasts
<1>4. CASE JoinProof(d)
  <2> DEFINE s == [room EXCEPT !.members[d].proof = TRUE]
  <2>1. room' \in {room, s} BY <1>4 DEF JoinProof, Handled, Commit
  <2>2. s.lifecycle = room.lifecycle BY <1>1 DEF Room
  <2> HIDE DEF s
  <2>3. QED BY <2>1, <2>2, SameLasts
<1>5. QED BY <1>2, <1>3, <1>4

(* No step ends an open room without its cause.                               *)
LEMMA StepLasts ==
    ASSUME LInv, Readable, [Next]_vars
    PROVE  Lasts(room, room') \/ CloseRoom(room.host)
<1>1. Kept(room) BY DEF LInv, IInv
<1>2. CASE \E d \in Device : HostFrame(d) BY <1>2, HostFrameLasts
<1>3. CASE \E d \in Device : MemberFrame(d)
  <2>1. PICK d \in Device : MemberFrame(d) BY <1>3
  <2>2. OrderRequest(d) \/ Acknowledge(d) \/ ResumeComplete(d) => Lasts(room, room')
      BY <1>1, OrderRequestCalm, AcknowledgeCalm, ResumeCompleteCalm, MildLasts
  <2>3. MemberCommit(d) \/ MemberApplication(d) \/ JoinProof(d) => Lasts(room, room')
      BY <1>1, HeldLasts
  <2>4. LateFrame(d) => Lasts(room, room')
    <3>1. LateFrame(d) => Usable BY Zenon DEF LateFrame, Handles, Receives
    <3>2. QED BY <1>1, <3>1, LateFrameCalm DEF Readable
  <2>5. DroppedFrame(d) \/ DroppedRequest(d) \/ DroppedGrantFrame(d) => Lasts(room, room')
    <3>1. DroppedFrame(d) \/ DroppedRequest(d) \/ DroppedGrantFrame(d) => Usable
        BY Zenon DEF DroppedFrame, DroppedRequest, DroppedGrantFrame, Receives
    <3>2. QED BY <1>1, <3>1, DroppedFrameCalm, DroppedGrantFrameCalm DEF Readable
  <2>6. QED BY <2>1, <2>2, <2>3, <2>4, <2>5 DEF MemberFrame
<1>4. CASE \E d \in Device : Connection(d)
  <2>1. PICK d \in Device : Connection(d) BY <1>4
  <2>2. Join(d) \/ RetryJoin(d) \/ Resume(d) => Lasts(room, room')
    <3>1. Join(d) \/ RetryJoin(d) \/ Resume(d) => Usable
        BY Zenon DEF Join, RetryJoin, Resume, Connects
    <3>2. QED BY <1>1, <3>1, ConnectingCalm DEF Readable
  <2>3. ConnectionLost(d) \/ CloseEvent(d) => Lasts(room, room')
      BY <1>1, CloseCalm, MildLasts
  <2>4. QED BY <2>1, <2>2, <2>3 DEF Connection
<1>5. CASE \/ \E d \in Device : GraceEnds(d) \/ AdmissionEnds(d)
           \/ GrantEnds \/ ApplicationEnds \/ CommitEnds \/ TransferEnds
    BY <1>1, <1>5, TimeCalm, MildLasts
<1>6. CASE Alarm
  <2>1. Usable BY <1>6, Zenon DEF Alarm, AlarmDue
  <2>2. QED BY <1>1, <1>6, <2>1, AlarmCalm DEF Readable
<1>7. CASE UNCHANGED vars BY <1>7 DEF vars, Lasts
<1>8. QED BY <1>2, <1>3, <1>4, <1>5, <1>6, <1>7 DEF Next

(* An open room ends only when its host's grace is over, or when its host     *)
(* closes it: no backlog that fills, no frame of a member and no deadline of  *)
(* another device costs the host the room (RetiredForCause; retireRoom,       *)
(* expireActiveDisconnects and appendBacklog in secureRelayV4.ts).            *)
THEOREM RoomEndsForCause == Spec => RetiredForCause
<1>1. LInv /\ Readable /\ [Next]_vars =>
          [room.lifecycle = "open" /\ room'.lifecycle = "retired" =>
              room.members[room.host].grace = "over" \/ CloseRoom(room.host)]_vars
    BY StepLasts DEF Lasts, Cause
<1>2. LInv /\ Readable /\ [Next]_vars => LInv' /\ Readable'
    BY StepRight, StepReadable
<1>3. Init => LInv /\ Readable BY InitRight, InitReadable
<1>4. QED BY <1>1, <1>2, <1>3, PTL DEF Spec, RetiredForCause
=============================================================================
