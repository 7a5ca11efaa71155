----------------------------- MODULE RelayProofs -----------------------------
(* What the helpers of RelayState do to a room, for every room: the part of   *)
(* the proofs that does not mention actions.                                  *)
(*                                                                            *)
(* First the order of the room: a helper takes a room to a room and `Shrinks` *)
(* it; a room that has shrunk still satisfies the invariant `Kept`; and       *)
(* IssueNextGrant, the only operator that hands the order out, preserves      *)
(* `Kept` on its own.  Then the members and the log: the helpers leave the    *)
(* log alone, and leave each member with its place, fed with the frame that   *)
(* is delivered, or take the place from it and mark it.  Last the markers:    *)
(* a helper adds to the row behind its end, and ends the room only through    *)
(* its host (Mild, Calm).                                                     *)
EXTENDS SecureRelayProperties, FiniteSetTheorems, WellFoundedInduction, TLAPS

(* A member that has no part in an admission.                                 *)
NoProofGrant(m) == m.phase = "none" /\ m.proofOrder = 0 /\ m.status # "pending"

(* What a helper may do to a member: leave its admission as it is, or end it. *)
Reduced(m, n) ==
    \/ /\ n.phase = m.phase /\ n.proofOrder = m.proofOrder
       /\ n.status = "pending" => m.status = "pending"
    \/ NoProofGrant(n)

(* What a helper may do to a room: give back the order, never hand it out; end *)
(* admissions, never begin one; and leave none behind when it raises the barrier. *)
Shrinks(r, s) ==
    /\ s.grant \in {r.grant, NoGrant}
    /\ s.application \in {r.application, NoApplication}
    /\ s.commit \in {r.commit, NoCommit}
    /\ \A d \in Device : Reduced(r.members[d], s.members[d])
    /\ RemovalBarrier(s) => RemovalBarrier(r) \/ InAdmission(s) = {}

(* A helper of RelayState takes a room to a room, and shrinks it.             *)
Good(r, s) == s \in Room /\ Shrinks(r, s)

(* Helpers compose.                                                           *)
LEMMA ShrinksTrans ==
    ASSUME NEW r, NEW s, NEW t, Shrinks(r, s), Shrinks(s, t)
    PROVE  Shrinks(r, t)
<1>1. InAdmission(s) = {} => InAdmission(t) = {}
    BY DEF Shrinks, Reduced, NoProofGrant, InAdmission
<1>2. \A d \in Device : Reduced(r.members[d], t.members[d])
    BY DEF Shrinks, Reduced, NoProofGrant
<1>3. QED
    BY <1>1, <1>2 DEF Shrinks

(* A part of a finite set has a natural number of elements.                   *)
LEMMA CardinalityNat ==
    ASSUME NEW S, IsFiniteSet(S), NEW P \in SUBSET S
    PROVE  Cardinality(P) \in Nat
BY FS_Subset, FS_CardinalityType

(* A queue holds finitely many devices.                                       *)
LEMMA ListedFinite ==
    ASSUME NEW f PROVE Listed(f) \in SUBSET Device /\ IsFiniteSet(Listed(f))
BY DeviceAssumption, FS_Subset DEF Listed

(* The operations on a FIFO yield a FIFO.                                     *)
LEMMA FifoTypes ==
    ASSUME NEW f \in [Device -> Nat], NEW S, NEW d \in Device
    PROVE  /\ Without(f, S) \in [Device -> Nat]
           /\ Enqueue(f, d) \in [Device -> Nat]
           /\ EmptyFifo \in [Device -> Nat]
<1>1. \A e \in Device : Cardinality({x \in Listed(f) \ S : f[x] <= f[e]}) \in Nat
    BY ListedFinite, CardinalityNat
<1>2. Cardinality(Listed(f)) \in Nat
    BY ListedFinite, CardinalityNat
<1>3. QED
    BY <1>1, <1>2 DEF Without, Enqueue, EmptyFifo

(* The null values of the room's fields are typed.                            *)
LEMMA NoneTypes ==
    /\ NoGrant \in Grant /\ NoApplication \in HeldApplication
    /\ NoCommit \in HeldCommit /\ NoTransfer \in Transfer
BY DEF NoGrant, NoApplication, NoCommit, NoTransfer, Grant, HeldApplication,
       HeldCommit, Transfer, OptDevice

(* Retiring or evicting a member yields a member, and never begins an admission. *)
LEMMA MemberTypes ==
    ASSUME NEW m \in Member
    PROVE  /\ ClearAdmission(m) \in Member
           /\ RetireMember(m) \in Member /\ Reduced(m, RetireMember(m))
           /\ RetireMember(m).phase = "none"
           /\ Evicted(m) \in Member /\ Reduced(m, Evicted(m))
           /\ Evicted(m).phase = m.phase
<1>0. <<>> \in Seq(Entry) /\ 0 \in 0..MaxConn
    BY RunAssumption
<1>1. ClearAdmission(m) \in Member /\ ClearAdmission(m).phase = "none"
        /\ ClearAdmission(m).proofOrder = 0
    BY DEF ClearAdmission, Member, Phase, Timer
<1>2. RetireMember(m) \in Member /\ NoProofGrant(RetireMember(m))
    BY <1>0, <1>1 DEF RetireMember, Member, NoProofGrant, Status, Timer
<1>3. /\ Evicted(m) \in Member /\ Evicted(m).status = "disconnected"
      /\ Evicted(m).phase = m.phase /\ Evicted(m).proofOrder = m.proofOrder
    BY <1>0 DEF Evicted, Member, Status, Timer
<1>4. QED BY <1>1, <1>2, <1>3 DEF Reduced, NoProofGrant

(* A delivery leaves the member's admission alone.                            *)
LEMMA GivenType ==
    ASSUME NEW m \in Member, NEW e \in Entry
    PROVE  Given(m, e) \in Member /\ Given(m, e).phase = m.phase /\ Reduced(m, Given(m, e))
<1>1. m.backlog \in Seq(Entry) BY DEF Member
<1>2. Append(m.backlog, e) \in Seq(Entry) BY <1>1
<1>3. /\ Given(m, e) \in Member /\ Given(m, e).phase = m.phase
      /\ Given(m, e).proofOrder = m.proofOrder /\ Given(m, e).status = m.status
    BY <1>2 DEF Given, Member
<1>4. QED BY <1>3 DEF Reduced

(* A member that is left alone is not enlarged.                               *)
LEMMA ReducedRefl == ASSUME NEW m PROVE Reduced(m, m)
BY DEF Reduced

(* The entries the relay delivers are backlog entries.                        *)
LEMMA EntryTypes ==
    /\ \A i, o \in Nat : RelayEntry(i, o) \in Entry /\ AcceptedEntry(i, o) \in Entry
    /\ \A o \in Nat : RejectedEntry(o) \in Entry
    /\ AuthorizationEntry \in Entry /\ WelcomeEntry \in Entry
BY DEF Entry, EntryKind, RelayEntry, AcceptedEntry, RejectedEntry, AuthorizationEntry,
       WelcomeEntry

(* The barrier depends on the markers alone.                                  *)
LEMMA SameBarrier ==
    ASSUME NEW r, NEW s, s.zombies = r.zombies
    PROVE  RemovalBarrier(s) <=> RemovalBarrier(r)
BY DEF RemovalBarrier, Listed

(* A room that is left alone shrinks.                                         *)
LEMMA ShrinksRefl == ASSUME NEW r PROVE Shrinks(r, r)
BY ReducedRefl DEF Shrinks

(* Retiring the room ends everything.                                         *)
LEMMA RetireRoomGood ==
    ASSUME NEW r \in Room
    PROVE  Good(r, RetireRoom(r))
<1> DEFINE s == RetireRoom(r)
<1>1. \A d \in Device : r.members[d] \in Member BY DEF Room
<1>2. \A d \in Device : Reduced(r.members[d], s.members[d])
    BY <1>1, MemberTypes, ReducedRefl DEF RetireRoom, Room
<1>3. s \in Room
  <2>1. s.members \in [Device -> Member] BY <1>1, MemberTypes DEF RetireRoom, Room
  <2>2. QED BY <2>1, NoneTypes, FifoTypes DEF RetireRoom, Room, OptDevice, EmptyFifo
<1>4. ~RemovalBarrier(s) BY DEF RetireRoom, Room, RemovalBarrier, Listed, EmptyFifo
<1>5. s.grant = NoGrant /\ s.application = NoApplication /\ s.commit = NoCommit
    BY DEF RetireRoom, Room
<1>6. QED BY <1>2, <1>3, <1>4, <1>5 DEF Good, Shrinks

(* Mark adds markers and changes nothing else.                                *)
LEMMA MarkType ==
    ASSUME NEW r \in Room, NEW S, IsFiniteSet(S)
    PROVE  /\ Mark(r, S) \in Room
           /\ Mark(r, S) = [r EXCEPT !.zombies = Mark(r, S).zombies]
<1> DEFINE new == S \ Listed(r.zombies)
<1>1. IsFiniteSet(new) BY FS_Subset
<1>2. \A d \in Device : Cardinality({e \in new : r.members[e].joined <= r.members[d].joined}) \in Nat
    BY <1>1, CardinalityNat
<1>3. Cardinality(Listed(r.zombies)) \in Nat
    BY ListedFinite, CardinalityNat
<1>4. \A d \in Device : r.zombies[d] \in Nat BY DEF Room
<1>5. Behind(r, new) \in [Device -> Nat]
    BY <1>2, <1>3, <1>4 DEF Behind
<1>6. QED BY <1>5 DEF Mark, Room

(* Raising the barrier leaves no admission: each member is treated by one case. *)
LEMMA RaiseGood ==
    ASSUME NEW r \in Room
    PROVE  /\ Good(r, RaiseRemovalBarrier(r))
           /\ InAdmission(RaiseRemovalBarrier(r)) = {}
<1> DEFINE stale == InAdmission(r)
           held == {d \in ({r.application.from, r.commit.from} \cap Device) \ stale :
                      Established(r.members[d]) /\ ~r.members[d].fresh}
           lost == {d \in held : Full(r.members[d])}
           ms == [d \in Device |->
                          CASE d \in stale -> RetireMember(r.members[d])
                            [] d \in lost -> Evicted(r.members[d])
                            [] d \in held \ lost ->
                                 Given(r.members[d], RejectedEntry(r.application.order))
                            [] OTHER -> r.members[d]]
           cleared ==
            [r EXCEPT !.grant = NoGrant, !.queue = EmptyFifo, !.transfer = NoTransfer,
                      !.application = NoApplication, !.commit = NoCommit,
                      !.members = ms]
           one == Mark(cleared, {d \in stale : r.members[d].added})
           s == Mark(one, lost)
<1>0. s = RaiseRemovalBarrier(r) BY DEF RaiseRemovalBarrier
<1>1. \A d \in Device : r.members[d] \in Member BY DEF Room
<1>2. RejectedEntry(r.application.order) \in Entry
    BY EntryTypes DEF Room, HeldApplication
<1>3. \A d \in Device : /\ ms[d] \in Member
                        /\ ms[d].phase = "none"
                        /\ Reduced(r.members[d], ms[d])
  <2> TAKE d \in Device
  <2>0. /\ d \notin stale => r.members[d].phase = "none"
        /\ d \in lost => d \in held
        /\ d \in held => d \notin stale
    BY DEF InAdmission
  <2> HIDE DEF stale, held, lost
  <2>1. CASE d \in stale
    <3>1. ms[d] = RetireMember(r.members[d]) BY <2>0, <2>1
    <3>2. QED BY <3>1, <1>1, MemberTypes
  <2>2. CASE d \notin stale /\ d \in lost
    <3>1. ms[d] = Evicted(r.members[d]) BY <2>2
    <3>2. QED BY <3>1, <2>0, <2>2, <1>1, MemberTypes
  <2>3. CASE d \notin stale /\ d \notin lost /\ d \in held
    <3>1. ms[d] = Given(r.members[d], RejectedEntry(r.application.order)) BY <2>3
    <3>2. QED BY <3>1, <2>0, <2>3, <1>1, <1>2, GivenType
  <2>4. CASE d \notin stale /\ d \notin lost /\ d \notin held
    <3>1. ms[d] = r.members[d] BY <2>4
    <3>2. QED BY <3>1, <2>0, <2>4, <1>1, ReducedRefl
  <2>5. QED BY <2>1, <2>2, <2>3, <2>4
<1>4. ms \in [Device -> Member] BY <1>3
<1>5. cleared \in Room /\ cleared.members = ms /\ cleared.grant = NoGrant
        /\ cleared.application = NoApplication /\ cleared.commit = NoCommit
  <2> HIDE DEF ms
  <2> QED BY <1>4, NoneTypes, FifoTypes DEF Room, EmptyFifo
<1>6. IsFiniteSet(lost) /\ IsFiniteSet({d \in stale : r.members[d].added})
    BY DeviceAssumption, FS_Subset DEF InAdmission
<1>7. one \in Room /\ one = [cleared EXCEPT !.zombies = one.zombies]
  <2> HIDE DEF cleared
  <2> QED BY <1>5, <1>6, MarkType
<1>8. s \in Room /\ s = [one EXCEPT !.zombies = s.zombies]
  <2> HIDE DEF one
  <2> QED BY <1>7, <1>6, MarkType
<1>9. /\ s.members = ms /\ s.grant = NoGrant
      /\ s.application = NoApplication /\ s.commit = NoCommit
  <2> HIDE DEF cleared, one, s, ms
  <2> QED BY <1>5, <1>7, <1>8 DEF Room
<1>10. InAdmission(s) = {}
  <2> HIDE DEF ms, s
  <2> QED BY <1>3, <1>9 DEF InAdmission
<1>11. Shrinks(r, s)
  <2> HIDE DEF ms, s
  <2> QED BY <1>3, <1>9, <1>10 DEF Shrinks
<1>12. QED
  <2> HIDE DEF s
  <2> QED BY <1>0, <1>8, <1>10, <1>11 DEF Good

(* Markers may be added when the barrier is up or nobody is being admitted.   *)
LEMMA MarkGood ==
    ASSUME NEW r \in Room, NEW S, IsFiniteSet(S), RemovalBarrier(r) \/ InAdmission(r) = {}
    PROVE  Good(r, Mark(r, S))
<1> DEFINE s == Mark(r, S)
<1>1. s \in Room /\ s = [r EXCEPT !.zombies = s.zombies] BY MarkType
<1>2. /\ s.members = r.members /\ s.grant = r.grant
      /\ s.application = r.application /\ s.commit = r.commit
  <2> HIDE DEF s
  <2> QED BY <1>1 DEF Room
<1> HIDE DEF s
<1>3. InAdmission(s) = InAdmission(r) BY <1>2 DEF InAdmission
<1>4. Shrinks(r, s) BY <1>2, <1>3, ReducedRefl DEF Shrinks
<1>5. QED BY <1>1, <1>4 DEF Good, s

(* A required removal queues behind the barrier, or raises it.                *)
LEMMA RequireRemovalGood ==
    ASSUME NEW r \in Room, NEW d
    PROVE  /\ Good(r, RequireRemoval(r, d))
           /\ RemovalBarrier(r) \/ InAdmission(RequireRemoval(r, d)) = {}
<1>1. IsFiniteSet({d}) BY FS_Singleton
<1>2. CASE RemovalBarrier(r)
    BY <1>1, <1>2, MarkGood DEF RequireRemoval
<1>3. CASE ~RemovalBarrier(r)
  <2> DEFINE q == Mark(r, {d})
             s == RaiseRemovalBarrier(q)
  <2>1. q \in Room /\ q = [r EXCEPT !.zombies = q.zombies] BY <1>1, MarkType
  <2>2. Good(q, s) /\ InAdmission(s) = {} BY <2>1, RaiseGood
  <2> HIDE DEF q
  <2>3. /\ q.members = r.members /\ q.grant = r.grant
        /\ q.application = r.application /\ q.commit = r.commit
      BY <2>1 DEF Room
  <2> HIDE DEF s
  <2>4. Shrinks(r, s) BY <2>2, <2>3 DEF Good, Shrinks
  <2>5. s = RequireRemoval(r, d) BY <1>3 DEF s, q, RequireRemoval
  <2>6. QED BY <2>2, <2>4, <2>5 DEF Good
<1>4. QED BY <1>2, <1>3

(* Good helpers compose.                                                      *)
LEMMA GoodTrans ==
    ASSUME NEW r, NEW s, NEW t, Good(r, s), Good(s, t)
    PROVE  Good(r, t)
BY ShrinksTrans DEF Good

(* Members that lose their place give back what they hold; once the first of them *)
(* has raised the barrier, the others may be marked.                          *)
LEMMA ExpelGood ==
    ASSUME NEW r \in Room, NEW S \in SUBSET Device
    PROVE  Good(r, Expel(r, S))
<1> DEFINE first == CHOOSE d \in S : \A e \in S : r.members[d].joined <= r.members[e].joined
           ms == [d \in Device |-> IF d \in S THEN Evicted(r.members[d]) ELSE r.members[d]]
           gone ==
            [r EXCEPT !.members = ms,
                      !.queue = Without(r.queue, S),
                      !.grant = IF @.device \in S THEN NoGrant ELSE @,
                      !.application = IF @.from \in S THEN NoApplication ELSE @,
                      !.commit = IF @.from \in S THEN NoCommit ELSE @,
                      !.transfer = IF @.host \in S \/ @.target \in S THEN NoTransfer ELSE @]
           q == RequireRemoval(gone, first)
<1>1. \A d \in Device : r.members[d] \in Member BY DEF Room
<1>2. /\ ms \in [Device -> Member]
      /\ \A d \in Device : Reduced(r.members[d], ms[d])
    BY <1>1, MemberTypes, ReducedRefl
<1>3. Without(r.queue, S) \in [Device -> Nat]
  <2>1. \A d \in Device : Cardinality({x \in Listed(r.queue) \ S : r.queue[x] <= r.queue[d]}) \in Nat
      BY ListedFinite, CardinalityNat
  <2>2. QED BY <2>1 DEF Without
<1>4. /\ gone \in Room /\ gone.members = ms /\ gone.zombies = r.zombies
      /\ gone.grant \in {r.grant, NoGrant}
      /\ gone.application \in {r.application, NoApplication}
      /\ gone.commit \in {r.commit, NoCommit}
  <2> HIDE DEF ms
  <2> QED BY <1>2, <1>3, NoneTypes DEF Room
<1>5. Good(r, gone)
  <2> HIDE DEF ms, gone
  <2> QED BY <1>2, <1>4, SameBarrier DEF Good, Shrinks
<1>6. Good(gone, q) /\ (RemovalBarrier(gone) \/ InAdmission(q) = {})
  <2> HIDE DEF gone, first
  <2> QED BY <1>4, RequireRemovalGood
<1>7. IsFiniteSet(S) BY DeviceAssumption, FS_Subset
<1>8. IsFiniteSet({first}) BY FS_Singleton
<1>9. Good(q, Mark(q, S))
  <2>1. CASE RemovalBarrier(gone)
    <3>1. RemovalBarrier(q) \/ InAdmission(q) = {}
      <4> HIDE DEF gone, first
      <4>1. q = Mark(gone, {first}) BY <2>1 DEF RequireRemoval
      <4>2. \A d \in Device : gone.zombies[d] \in Nat BY <1>4 DEF Room
      <4>3. \E d \in Device : gone.zombies[d] # 0 BY <2>1 DEF RemovalBarrier, Listed
      <4>4. PICK d \in Device : gone.zombies[d] # 0 BY <4>3
      <4>5. d \in Listed(gone.zombies) BY <4>4 DEF Listed
      <4>6. d \notin {first} \ Listed(gone.zombies) BY <4>5
      <4>7. q.zombies[d] = gone.zombies[d]
          BY <4>1, <4>6, <1>4 DEF Mark, Behind, Room
      <4>8. QED BY <4>4, <4>7 DEF RemovalBarrier, Listed
    <3>2. QED
      <4> HIDE DEF q
      <4> QED BY <3>1, <1>6, <1>7, MarkGood DEF Good
  <2>2. CASE InAdmission(q) = {}
    <3> HIDE DEF q
    <3> QED BY <2>2, <1>6, <1>7, MarkGood DEF Good
  <2>3. QED BY <1>6, <2>1, <2>2
<1>10. Expel(r, S) = Mark(q, S) BY DEF Expel
<1>11. QED
  <2> HIDE DEF q, gone
  <2> QED BY <1>5, <1>6, <1>9, <1>10, GoodTrans

(* Losing members costs the room itself, or is an expulsion.                  *)
LEMMA LoseGood ==
    ASSUME NEW r \in Room, NEW S \in SUBSET Device
    PROVE  Good(r, Lose(r, S))
BY ShrinksRefl, RetireRoomGood, ExpelGood DEF Lose, Good

(* Rewriting one member without beginning an admission.                       *)
LEMMA MemberChange ==
    ASSUME NEW r \in Room, NEW d \in Device, NEW m \in Member,
           NEW s, s = [r EXCEPT !.members[d] = m],
           Reduced(r.members[d], m)
    PROVE  Good(r, s)
<1>1. s \in Room /\ s.members = [r.members EXCEPT ![d] = m] /\ s.zombies = r.zombies
        /\ s.grant = r.grant /\ s.application = r.application /\ s.commit = r.commit
    BY DEF Room
<1>2. \A e \in Device : s.members[e] = IF e = d THEN m ELSE r.members[e]
    BY <1>1 DEF Room
<1>3. QED BY <1>1, <1>2, SameBarrier, ReducedRefl DEF Good, Shrinks

(* Ending an admission, with a marker if its Add was accepted.                *)
LEMMA RetireAdmissionGood ==
    ASSUME NEW r \in Room, NEW d \in Device
    PROVE  Good(r, RetireAdmission(r, d))
<1> DEFINE q == [r EXCEPT !.members[d] = RetireMember(@)]
<1>1. r.members[d] \in Member BY DEF Room
<1>2. Good(r, q) BY <1>1, MemberTypes, MemberChange
<1>3. Good(q, RequireRemoval(q, d))
  <2> HIDE DEF q
  <2> QED BY <1>2, RequireRemovalGood DEF Good
<1>4. RetireAdmission(r, d) = IF r.members[d].added THEN RequireRemoval(q, d) ELSE q
    BY DEF RetireAdmission
<1>5. QED
  <2> HIDE DEF q
  <2> QED BY <1>2, <1>3, <1>4, GoodTrans

(* Leaving a queue keeps it a queue.                                          *)
LEMMA WithoutType ==
    ASSUME NEW f \in [Device -> Nat], NEW S
    PROVE  Without(f, S) \in [Device -> Nat]
<1>1. \A d \in Device : Cardinality({x \in Listed(f) \ S : f[x] <= f[d]}) \in Nat
    BY ListedFinite, CardinalityNat
<1>2. QED BY <1>1 DEF Without

(* A delivery extends backlogs, and expels those whose backlog is full.       *)
LEMMA DeliverGood ==
    ASSUME NEW r \in Room, NEW S \in SUBSET Device, NEW entry \in Entry
    PROVE  Good(r, Deliver(r, S, entry))
<1> DEFINE open == {d \in S : ~r.members[d].fresh}
           full == {d \in open : Full(r.members[d])}
           ms == [d \in Device |-> IF d \in open \ full THEN Given(r.members[d], entry)
                                                        ELSE r.members[d]]
           given == [r EXCEPT !.queue = Without(@, open), !.members = ms]
<1>1. \A d \in Device : r.members[d] \in Member BY DEF Room
<1>2. /\ ms \in [Device -> Member]
      /\ \A d \in Device : Reduced(r.members[d], ms[d])
  <2> HIDE DEF open, full
  <2> QED BY <1>1, GivenType, ReducedRefl
<1>3. Without(r.queue, open) \in [Device -> Nat] BY WithoutType DEF Room
<1>4. /\ given \in Room /\ given.members = ms /\ given.zombies = r.zombies
      /\ given.grant = r.grant /\ given.application = r.application
      /\ given.commit = r.commit
  <2> HIDE DEF ms, open
  <2> QED BY <1>2, <1>3 DEF Room
<1>5. Good(r, given)
  <2> HIDE DEF ms, given
  <2> QED BY <1>2, <1>4, SameBarrier DEF Good, Shrinks
<1>6. full \in SUBSET Device OBVIOUS
<1>7. Good(given, Lose(given, full))
  <2> HIDE DEF given, full
  <2> QED BY <1>4, <1>6, LoseGood
<1>8. Deliver(r, S, entry) = Lose(given, full) BY DEF Deliver
<1>9. QED
  <2> HIDE DEF given, full
  <2> QED BY <1>5, <1>7, <1>8, GoodTrans

(* Routing is a delivery.                                                     *)
LEMMA RouteGood ==
    ASSUME NEW r \in Room, NEW d, NEW entry \in Entry
    PROVE  Good(r, Route(r, d, entry))
BY DeliverGood DEF Route

(* So is an answer.                                                           *)
LEMMA AnswerGood ==
    ASSUME NEW r \in Room, NEW d \in Device, NEW entry \in Entry
    PROVE  Good(r, Answer(r, d, entry))
BY DeliverGood, ShrinksRefl DEF Answer, Good

(* Recording a frame touches the log alone.                                   *)
LEMMA RecordGood ==
    ASSUME NEW r \in Room, NEW kind \in AcceptedKind, NEW from \in Device,
           NEW subject \in OptDevice, NEW order \in Nat
    PROVE  Good(r, Record(r, kind, from, subject, order))
<1> DEFINE f == [kind |-> kind, from |-> from, subject |-> subject, order |-> order]
           s == Record(r, kind, from, subject, order)
<1>1. f \in Frame BY DEF Frame, OptDevice
<1>2. Append(r.accepted, f) \in Seq(Frame)
  <2>1. r.accepted \in Seq(Frame) BY DEF Room
  <2> HIDE DEF f
  <2>2. QED BY <1>1, <2>1
<1>3. s = [r EXCEPT !.accepted = Append(r.accepted, f)] BY DEF Record
<1> HIDE DEF f
<1>4. /\ s \in Room /\ s.members = r.members /\ s.zombies = r.zombies
      /\ s.grant = r.grant /\ s.application = r.application /\ s.commit = r.commit
    BY <1>2, <1>3 DEF Room
<1> HIDE DEF s
<1>5. QED BY <1>4, SameBarrier, ReducedRefl DEF Good, Shrinks, s

(* Accepting a frame: record it, route it, answer its sender.                 *)
LEMMA AcceptGood ==
    ASSUME NEW r \in Room, NEW kind \in AcceptedKind, NEW from \in Device,
           NEW subject \in OptDevice, NEW order \in Nat
    PROVE  Good(r, Accept(r, kind, from, subject, order))
<1> DEFINE i == Len(r.accepted) + 1
           q == Record(r, kind, from, subject, order)
           t == Route(q, from, RelayEntry(i, order))
<1>1. i \in Nat
  <2>1. r.accepted \in Seq(Frame) BY DEF Room
  <2>2. QED BY <2>1
<1> HIDE DEF i
<1>2. RelayEntry(i, order) \in Entry /\ AcceptedEntry(i, order) \in Entry
    BY <1>1, EntryTypes
<1>3. Good(r, q) BY RecordGood
<1> HIDE DEF q
<1>4. Good(q, t) BY <1>2, <1>3, RouteGood DEF Good
<1> HIDE DEF t
<1>5. Good(t, Answer(t, from, AcceptedEntry(i, order))) BY <1>2, <1>4, AnswerGood DEF Good
<1>6. Accept(r, kind, from, subject, order) = Answer(t, from, AcceptedEntry(i, order))
    BY DEF Accept, t, q, i
<1>7. QED BY <1>3, <1>4, <1>5, <1>6, GoodTrans

(* Grace deadlines expel.                                                     *)
LEMMA ExpireAwayGood == ASSUME NEW r \in Room PROVE Good(r, ExpireAway(r))
BY LoseGood DEF ExpireAway

(* An admission deadline ends the admission it belongs to.                    *)
LEMMA ExpireAdmissionGood == ASSUME NEW r \in Room PROVE Good(r, ExpireAdmission(r))
<1>1. CASE \E d \in InAdmission(r) : r.members[d].admission = "over"
  <2> DEFINE a == CHOOSE d \in InAdmission(r) : r.members[d].admission = "over"
  <2>1. a \in Device BY <1>1 DEF InAdmission
  <2>2. ExpireAdmission(r) = RetireAdmission(r, a) BY <1>1 DEF ExpireAdmission
  <2> HIDE DEF a
  <2>3. QED BY <2>1, <2>2, RetireAdmissionGood
<1>2. CASE ~\E d \in InAdmission(r) : r.members[d].admission = "over"
    BY <1>2, ShrinksRefl DEF ExpireAdmission, Good
<1>3. QED BY <1>1, <1>2

(* A change of fields other than members and markers that hands nothing out.  *)
LEMMA HoldersChange ==
    ASSUME NEW r \in Room, NEW s \in Room,
           s.members = r.members, s.zombies = r.zombies,
           s.grant \in {r.grant, NoGrant},
           s.application \in {r.application, NoApplication},
           s.commit \in {r.commit, NoCommit}
    PROVE  Good(r, s)
BY SameBarrier, ReducedRefl DEF Good, Shrinks

(* A grant that ran out is withdrawn.                                         *)
LEMMA ExpireGrantGood == ASSUME NEW r \in Room PROVE Good(r, ExpireGrant(r))
<1> DEFINE s == ExpireGrant(r)
<1>1. /\ s \in Room /\ s.members = r.members /\ s.zombies = r.zombies
      /\ s.grant \in {r.grant, NoGrant}
      /\ s.application = r.application /\ s.commit = r.commit
    BY NoneTypes DEF ExpireGrant, Room
<1>2. QED BY <1>1, HoldersChange

(* A transfer that ran out is withdrawn.                                      *)
LEMMA ExpireTransferGood == ASSUME NEW r \in Room PROVE Good(r, ExpireTransfer(r))
<1> DEFINE s == ExpireTransfer(r)
<1>1. /\ s \in Room /\ s.members = r.members /\ s.zombies = r.zombies
      /\ s.grant = r.grant /\ s.application = r.application /\ s.commit = r.commit
    BY NoneTypes DEF ExpireTransfer, Room
<1>2. QED BY <1>1, HoldersChange

(* The room once its held application has run out.                            *)
Released(r) ==
    [r EXCEPT !.application = NoApplication,
              !.transfer = IF r.application.accepts THEN NoTransfer ELSE @]

(* The held application gives the order back before its sender is told.       *)
LEMMA ReleasedGood == ASSUME NEW r \in Room PROVE Good(r, Released(r))
<1> DEFINE s == Released(r)
<1>1. /\ s \in Room /\ s.members = r.members /\ s.zombies = r.zombies
      /\ s.grant = r.grant /\ s.application = NoApplication /\ s.commit = r.commit
    BY NoneTypes DEF Released, Room
<1>2. QED BY <1>1, HoldersChange

(* The next order has one holder at most (OrderAuthority, of a room).         *)
Auth(r) ==
    /\ r.grant.device # NoDevice =>
          r.application.from = NoDevice /\ r.commit.from = NoDevice
    /\ r.application.from # NoDevice => r.commit.from = NoDevice
    /\ (\E d \in Device : r.members[d].proofOrder # 0) =>
          /\ r.grant.device = NoDevice
          /\ r.application.from = NoDevice /\ r.commit.from = NoDevice

(* Only an admission that waits for its proof reserves an order: without this a *)
(* Welcome could revive a reservation, and IssueNextGrant overlook one.       *)
ProofInPhase(r) ==
    \A d \in Device : r.members[d].proofOrder # 0 => r.members[d].phase = "awaiting-proof"

(* Nobody is being admitted while a removal is due: under the barrier         *)
(* IssueNextGrant looks at the markers and not at the admissions.             *)
BarrierAlone(r) == RemovalBarrier(r) => InAdmission(r) = {}

(* A deadline belongs to something: what ran out has a sender to be told.     *)
OverdueHeld(r) ==
    /\ r.application.overdue => r.application.from # NoDevice
    /\ r.commit.overdue => r.commit.from # NoDevice

(* The inductive invariant, of a room.                                        *)
Kept(r) == r \in Room /\ Auth(r) /\ ProofInPhase(r) /\ BarrierAlone(r) /\ OverdueHeld(r)

(* Helpers preserve the invariant: they hand nothing out.                     *)
LEMMA GoodKept ==
    ASSUME NEW r, NEW s, Kept(r), Good(r, s)
    PROVE  Kept(s)
<1>1. \A d \in Device : s.members[d].proofOrder # 0 =>
          /\ r.members[d].proofOrder # 0
          /\ s.members[d].phase = "awaiting-proof"
    BY DEF Kept, Good, Shrinks, Reduced, NoProofGrant, ProofInPhase
<1>2. s.grant.device # NoDevice => s.grant.device = r.grant.device
    BY DEF Good, Shrinks, NoGrant
<1>3. s.application.from # NoDevice => s.application = r.application
    BY DEF Good, Shrinks, NoApplication
<1>4. s.commit.from # NoDevice => s.commit = r.commit
    BY DEF Good, Shrinks, NoCommit
<1>5. Auth(s)
    BY <1>1, <1>2, <1>3, <1>4 DEF Kept, Auth
<1>6. ProofInPhase(s) BY <1>1 DEF ProofInPhase
<1>7. InAdmission(r) = {} => InAdmission(s) = {}
    BY DEF Good, Shrinks, Reduced, NoProofGrant, InAdmission
<1>8. BarrierAlone(s)
    BY <1>7 DEF Kept, BarrierAlone, Good, Shrinks
<1>9. OverdueHeld(s)
    BY DEF Kept, Good, Shrinks, OverdueHeld, NoApplication, NoCommit
<1>10. QED
    BY <1>5, <1>6, <1>8, <1>9 DEF Kept, Good

(* An overdue application has a sender, and is answered.                      *)
LEMMA ExpireApplicationGood ==
    ASSUME NEW r \in Room, OverdueHeld(r)
    PROVE  Good(r, ExpireApplication(r))
<1>1. CASE ~r.application.overdue
    BY <1>1, ShrinksRefl DEF ExpireApplication, Good
<1>2. CASE r.application.overdue
  <2> DEFINE q == Released(r)
             e == RejectedEntry(r.application.order)
  <2>1. r.application.from \in Device
      BY <1>2 DEF OverdueHeld, Room, HeldApplication, OptDevice
  <2>2. e \in Entry BY EntryTypes DEF Room, HeldApplication
  <2>3. Good(r, q) BY ReleasedGood
  <2>4. ExpireApplication(r) = Answer(q, r.application.from, e)
      BY <1>2 DEF ExpireApplication, Released
  <2> HIDE DEF q, e
  <2>5. Good(q, Answer(q, r.application.from, e))
      BY <2>1, <2>2, <2>3, AnswerGood DEF Good
  <2>6. QED BY <2>3, <2>4, <2>5, GoodTrans
<1>3. QED BY <1>1, <1>2

(* Withdrawing the held commit.                                               *)
LEMMA CommitReleasedGood ==
    ASSUME NEW r \in Room
    PROVE  Good(r, [r EXCEPT !.commit = NoCommit])
<1> DEFINE s == [r EXCEPT !.commit = NoCommit]
<1>1. /\ s \in Room /\ s.members = r.members /\ s.zombies = r.zombies
      /\ s.grant = r.grant /\ s.application = r.application /\ s.commit = NoCommit
    BY NoneTypes DEF Room
<1>2. QED BY <1>1, HoldersChange

(* An overdue commit has a sender, and is answered.                           *)
LEMMA ExpireCommitGood ==
    ASSUME NEW r \in Room, OverdueHeld(r)
    PROVE  Good(r, ExpireCommit(r))
<1>1. CASE ~r.commit.overdue
    BY <1>1, ShrinksRefl DEF ExpireCommit, Good
<1>2. CASE r.commit.overdue
  <2> DEFINE q == [r EXCEPT !.commit = NoCommit]
  <2>1. r.commit.from \in Device
      BY <1>2 DEF OverdueHeld, Room, HeldCommit, OptDevice
  <2>2. RejectedEntry(0) \in Entry BY EntryTypes
  <2>3. Good(r, q) BY CommitReleasedGood
  <2>4. ExpireCommit(r) = Answer(q, r.commit.from, RejectedEntry(0))
      BY <1>2 DEF ExpireCommit
  <2> HIDE DEF q
  <2>5. Good(q, Answer(q, r.commit.from, RejectedEntry(0)))
      BY <2>1, <2>2, <2>3, AnswerGood DEF Good
  <2>6. QED BY <2>3, <2>4, <2>5, GoodTrans
<1>3. QED BY <1>1, <1>2

(* The deadlines are settled one after the other.                             *)
LEMMA ExpireGood ==
    ASSUME NEW r, Kept(r)
    PROVE  Good(r, Expire(r))
<1> DEFINE r1 == ExpireAway(r)
           r2 == ExpireAdmission(r1)
           r3 == ExpireApplication(r2)
           r4 == ExpireTransfer(r3)
           r5 == ExpireCommit(r4)
<1>0. Expire(r) = r5 BY DEF Expire
<1>1. Good(r, r1) BY ExpireAwayGood DEF Kept
<1> HIDE DEF r1
<1>2. Good(r1, r2) BY <1>1, ExpireAdmissionGood DEF Good
<1> HIDE DEF r2
<1>3. Kept(r2) BY <1>1, <1>2, GoodKept
<1>4. Good(r2, r3) BY <1>3, ExpireApplicationGood DEF Kept
<1> HIDE DEF r3
<1>5. Good(r3, r4) BY <1>4, ExpireTransferGood DEF Good
<1> HIDE DEF r4
<1>6. Kept(r4) BY <1>3, <1>4, <1>5, GoodKept
<1>7. Good(r4, r5) BY <1>6, ExpireCommitGood DEF Kept
<1> HIDE DEF r5
<1>8. QED BY <1>0, <1>1, <1>2, <1>4, <1>5, <1>7, GoodTrans

(* The one operator that hands the order out.  MayGrant excludes a grant and the *)
(* two held operations by its guard; the proof of an admission it excludes by *)
(* its phase, or under a barrier because there is no admission.               *)
LEMMA IssueKept ==
    ASSUME NEW r, Kept(r)
    PROVE  Kept(IssueNextGrant(r))
<1> DEFINE d == CHOOSE e \in Device : MayGrant(r, e)
           g == [device |-> d, order |-> r.nextOrder, overdue |-> FALSE]
           q == Without(r.queue, {d})
           s == [r EXCEPT !.queue = q, !.grant = g]
<1>1. CASE ~\E e \in Device : MayGrant(r, e)
    BY <1>1 DEF IssueNextGrant
<1>2. CASE \E e \in Device : MayGrant(r, e)
  <2>1. d \in Device /\ MayGrant(r, d) BY <1>2
  <2>2. IssueNextGrant(r) = s BY <1>2 DEF IssueNextGrant
  <2> HIDE DEF d
  <2>3. q \in [Device -> Nat] BY WithoutType DEF Kept, Room
  <2>4. g \in Grant BY <2>1 DEF Kept, Room, Grant, OptDevice
  <2> HIDE DEF g, q
  <2>5. /\ s \in Room /\ s.members = r.members /\ s.zombies = r.zombies
        /\ s.application = r.application /\ s.commit = r.commit
      BY <2>3, <2>4 DEF Kept, Room
  <2>6. r.application.from = NoDevice /\ r.commit.from = NoDevice
      BY <2>1 DEF MayGrant, NoApplication, NoCommit
  <2>7. \A e \in Device : r.members[e].proofOrder = 0
    <3> SUFFICES ASSUME NEW e \in Device, r.members[e].proofOrder # 0 PROVE FALSE
        OBVIOUS
    <3>1. r.members[e].phase = "awaiting-proof" BY DEF Kept, ProofInPhase
    <3>2. e \in InAdmission(r) BY <3>1 DEF InAdmission
    <3>3. QED BY <2>1, <3>1, <3>2 DEF MayGrant, Kept, BarrierAlone
  <2>8. InAdmission(s) = InAdmission(r) BY <2>5 DEF InAdmission
  <2> HIDE DEF s
  <2>9. Kept(s)
      BY <2>5, <2>6, <2>7, <2>8, SameBarrier
      DEF Kept, Auth, ProofInPhase, BarrierAlone, OverdueHeld
  <2>10. QED BY <2>2, <2>9
<1>3. QED BY <1>1, <1>2

(* A room with its members reduced and nothing handed out.                    *)
LEMMA MembersGood ==
    ASSUME NEW r \in Room, NEW s \in Room,
           s.zombies = r.zombies,
           s.grant \in {r.grant, NoGrant},
           s.application \in {r.application, NoApplication},
           s.commit \in {r.commit, NoCommit},
           \A d \in Device : Reduced(r.members[d], s.members[d])
    PROVE  Good(r, s)
BY SameBarrier DEF Good, Shrinks

(* One member may begin an admission if no removal is due, and keeps its      *)
(* reserved order only with its phase.                                        *)
LEMMA MemberKept ==
    ASSUME NEW r, Kept(r), NEW d \in Device, NEW m \in Member,
           \/ m.proofOrder = 0
           \/ m.proofOrder = r.members[d].proofOrder /\ m.phase = r.members[d].phase,
           m.phase \in {"none", r.members[d].phase} \/ ~RemovalBarrier(r)
    PROVE  Kept([r EXCEPT !.members[d] = m])
<1> DEFINE s == [r EXCEPT !.members[d] = m]
<1>1. /\ s \in Room /\ s.zombies = r.zombies /\ s.grant = r.grant
      /\ s.application = r.application /\ s.commit = r.commit
      /\ \A e \in Device : s.members[e] = IF e = d THEN m ELSE r.members[e]
    BY DEF Kept, Room
<1> HIDE DEF s
<1>2. Auth(s) /\ ProofInPhase(s) /\ OverdueHeld(s)
    BY <1>1 DEF Kept, Auth, ProofInPhase, OverdueHeld
<1>3. RemovalBarrier(r) /\ InAdmission(r) = {} => InAdmission(s) = {}
    BY <1>1 DEF InAdmission
<1>4. BarrierAlone(s) BY <1>1, <1>3, SameBarrier DEF Kept, BarrierAlone
<1>5. QED BY <1>1, <1>2, <1>4 DEF Kept, s

(* Changes that move no order, such as a deadline that passes.                *)
LEMMA HoldersKept ==
    ASSUME NEW r, Kept(r), NEW s \in Room,
           s.members = r.members, s.zombies = r.zombies,
           s.grant.device = r.grant.device,
           s.application.from = r.application.from,
           s.commit.from = r.commit.from,
           OverdueHeld(s)
    PROVE  Kept(s)
<1>1. InAdmission(s) = InAdmission(r) BY DEF InAdmission
<1>2. QED BY <1>1, SameBarrier DEF Kept, Auth, ProofInPhase, BarrierAlone

(* The grant is spent before its frame is handled.                            *)
LEMMA SpentGood ==
    ASSUME NEW r \in Room
    PROVE  Good(r, Spent(r)) /\ Spent(r) = [r EXCEPT !.grant = NoGrant]
<1> DEFINE s == Spent(r)
<1>1. /\ s \in Room /\ s.members = r.members /\ s.zombies = r.zombies
      /\ s.grant = NoGrant /\ s.application = r.application /\ s.commit = r.commit
    BY NoneTypes DEF Spent, Room
<1>2. QED BY <1>1, HoldersChange DEF Spent

(* Advancing the order hands nothing out.                                     *)
LEMMA NumberedGood ==
    ASSUME NEW r \in Room PROVE Good(r, Numbered(r))
<1> DEFINE n == r.nextOrder + 1
           s == [r EXCEPT !.nextOrder = n]
<1>1. n \in Nat BY DEF Room
<1>2. Numbered(r) = s BY DEF Numbered
<1> HIDE DEF n
<1>3. /\ s \in Room /\ s.members = r.members /\ s.zombies = r.zombies
      /\ s.grant = r.grant /\ s.application = r.application /\ s.commit = r.commit
    BY <1>1 DEF Room
<1> HIDE DEF s
<1>4. QED BY <1>2, <1>3, HoldersChange

USE DeviceAssumption, SettledAssumption, BoundAssumption, RunAssumption

(****************************************************************************)
(* Members.                                                                 *)
(****************************************************************************)
(* A member that is unknown or online, whose grace runs, or that must be      *)
(* admitted anew, is not being admitted.                                      *)
FitMember(m) ==
    m.status \in {"absent", "active"} \/ m.grace # "off" \/ m.fresh => m.phase = "none"

(* A member that is owed every frame: it is in the group, or the group has    *)
(* accepted its Add.                                                          *)
Covered(m) == (Established(m) /\ ~m.fresh) \/ (m.phase # "none" /\ m.added)

(* The frames of a backlog come in the order they were accepted.              *)
Increasing(log) ==
    \A i, j \in 1..Len(log) :
        i < j /\ log[i].frame # 0 /\ log[j].frame # 0 => log[i].frame < log[j].frame

(* The backlog c is the backlog b with the frame f, 0 for none, at its end.   *)
Fed(b, c, f) ==
    /\ Frames(c) = Frames(b) \cup ({f} \ {0})
    /\ Increasing(b) /\ (f = 0 \/ \A x \in Frames(b) : x < f) => Increasing(c)

(* A member that keeps its place, and is fed the frame f.                     *)
Stays(m, n, f) ==
    /\ n.phase = m.phase /\ n.added = m.added /\ n.since = m.since
    /\ n.acked = m.acked /\ n.fresh = m.fresh
    /\ Established(n) <=> Established(m)
    /\ (n.status = "absent") <=> (m.status = "absent")
    /\ FitMember(m) => FitMember(n)
    /\ n.proof => m.proof \/ m.phase = "awaiting-proof"
    /\ Fed(m.backlog, n.backlog, f)

(* A member that loses it.                                                    *)
Gone(m, n) ==
    /\ n.phase = "none" /\ n.since = m.since /\ n.acked = m.acked
    /\ n.status # "absent" /\ ~Covered(n) /\ Frames(n.backlog) = {}

Lost(n) == n.status = "retired" \/ (n.status = "disconnected" /\ n.fresh)

(* What a helper does to a member: nothing takes its connection but a loss.   *)
Helped(m, n, f) ==
    \/ Gone(m, n) /\ Lost(n)
    \/ Stays(m, n, f) /\ n.status = m.status /\ n.conn = m.conn

(* The shape of a member's fields that the proofs use.                        *)
LEMMA MemberShape ==
    ASSUME NEW m \in Member
    PROVE  /\ m.backlog \in Seq(Entry) /\ Len(m.backlog) \in Nat
           /\ \A i \in 1..Len(m.backlog) : m.backlog[i] \in Entry /\ m.backlog[i].frame \in Nat
           /\ m.added \in BOOLEAN /\ m.fresh \in BOOLEAN /\ m.proof \in BOOLEAN
           /\ m.since \in Nat /\ m.acked \in SUBSET Nat
<1>1. m.backlog \in Seq(Entry) BY DEF Member
<1>2. \A i \in 1..Len(m.backlog) : m.backlog[i] \in Entry BY <1>1
<1>3. QED BY <1>1, <1>2 DEF Member, Entry

(* An entry at the end of a backlog adds its frame.                           *)
LEMMA FedAppend ==
    ASSUME NEW b \in Seq(Entry), NEW e \in Entry
    PROVE  Fed(b, Append(b, e), e.frame)
<1> DEFINE c == Append(b, e)
           n == Len(b)
<1>1. n \in Nat /\ c \in Seq(Entry) /\ Len(c) = n + 1
    OBVIOUS
<1>2. \A i \in 1..n : c[i] = b[i] /\ b[i] \in Entry OBVIOUS
<1>3. c[n + 1] = e OBVIOUS
<1>4. \A i \in 1..(n + 1) : i \in 1..n \/ i = n + 1 BY <1>1
<1>5. \A i \in 1..n : i \in 1..(n + 1) BY <1>1
<1>6. n + 1 \in 1..(n + 1) BY <1>1
<1> HIDE DEF c, n
<1>7. {c[i].frame : i \in 1..(n + 1)} = {b[i].frame : i \in 1..n} \cup {e.frame}
    BY <1>2, <1>3, <1>4, <1>5, <1>6
<1>8. Frames(c) = Frames(b) \cup ({e.frame} \ {0})
    BY <1>1, <1>7 DEF Frames, n
<1>9. ASSUME Increasing(b), e.frame = 0 \/ \A x \in Frames(b) : x < e.frame
      PROVE  Increasing(c)
  <2> SUFFICES ASSUME NEW i \in 1..(n + 1), NEW j \in 1..(n + 1), i < j,
                      c[i].frame # 0, c[j].frame # 0
               PROVE  c[i].frame < c[j].frame
      BY <1>1 DEF Increasing
  <2>1. i \in 1..n BY <1>1
  <2>2. CASE j \in 1..n
    <3>1. b[i].frame # 0 /\ b[j].frame # 0 BY <1>2, <2>1, <2>2
    <3>2. b[i].frame < b[j].frame BY <1>9, <2>1, <2>2, <3>1 DEF Increasing, n
    <3>3. QED BY <1>2, <2>1, <2>2, <3>2
  <2>3. CASE j = n + 1
    <3>1. b[i].frame \in Frames(b) BY <1>2, <2>1 DEF Frames, n
    <3>2. QED BY <1>2, <1>3, <1>9, <2>1, <2>3, <3>1
  <2>4. QED BY <1>4, <2>2, <2>3
<1>10. QED BY <1>8, <1>9 DEF Fed, c

(* A backlog that is left alone is fed nothing.                               *)
LEMMA FedRefl == ASSUME NEW b PROVE Fed(b, b, 0)
BY DEF Fed

(* A member that is left alone stays.                                         *)
LEMMA StaysRefl == ASSUME NEW m PROVE Stays(m, m, 0) /\ Helped(m, m, 0)
<1>1. Stays(m, m, 0)
  <2>1. m.proof => m.proof \/ m.phase = "awaiting-proof" BY Zenon
  <2>2. QED BY <2>1, FedRefl DEF Stays
<1>2. QED BY <1>1 DEF Helped

(* A retired member is lost.                                                  *)
LEMMA RetireGone ==
    ASSUME NEW m \in Member
    PROVE  Gone(m, RetireMember(m)) /\ Lost(RetireMember(m))
<1> DEFINE n == RetireMember(m)
<1>1. /\ n.status = "retired" /\ n.phase = "none" /\ n.since = m.since
      /\ n.acked = m.acked /\ n.backlog = <<>>
    BY DEF RetireMember, ClearAdmission, Member
<1> HIDE DEF n
<1>2. ~Covered(n) BY <1>1 DEF Covered, Established
<1>3. Frames(n.backlog) = {} BY <1>1 DEF Frames
<1>4. QED BY <1>1, <1>2, <1>3 DEF Gone, Lost, n

(* So is a member that is evicted from the group.                             *)
LEMMA EvictGone ==
    ASSUME NEW m \in Member, m.phase = "none"
    PROVE  Gone(m, Evicted(m)) /\ Lost(Evicted(m))
<1> DEFINE n == Evicted(m)
<1>1. /\ n.status = "disconnected" /\ n.phase = "none" /\ n.since = m.since
      /\ n.acked = m.acked /\ n.backlog = <<>> /\ n.fresh = TRUE
    BY DEF Evicted, Member
<1> HIDE DEF n
<1>2. ~Covered(n) BY <1>1 DEF Covered
<1>3. Frames(n.backlog) = {} BY <1>1 DEF Frames
<1>4. QED BY <1>1, <1>2, <1>3 DEF Gone, Lost, n

(* A member that is given an entry stays.                                     *)
LEMMA GivenStays ==
    ASSUME NEW m \in Member, NEW e \in Entry
    PROVE  Helped(m, Given(m, e), e.frame)
<1> DEFINE n == Given(m, e)
<1>1. /\ n.status = m.status /\ n.phase = m.phase /\ n.since = m.since
      /\ n.acked = m.acked /\ n.added = m.added /\ n.fresh = m.fresh
      /\ n.grace = m.grace /\ n.conn = m.conn /\ n.backlog = Append(m.backlog, e)
    BY DEF Given, Member
<1>2. n.proof = m.proof BY DEF Given, Member
<1> HIDE DEF n
<1>3. Fed(m.backlog, n.backlog, e.frame) BY <1>1, FedAppend, MemberShape
<1>4. Established(n) <=> Established(m) BY <1>1 DEF Established
<1>5. FitMember(m) => FitMember(n) BY <1>1 DEF FitMember
<1>6. n.proof => m.proof \/ m.phase = "awaiting-proof" BY <1>2, Zenon
<1>7. QED BY <1>1, <1>3, <1>4, <1>5, <1>6 DEF Helped, Stays, n

(* A member that stays is covered as before, and one that is lost is not.     *)
LEMMA StaysCovered ==
    ASSUME NEW m, NEW n, NEW f
    PROVE  /\ Stays(m, n, f) => (Covered(n) <=> Covered(m))
           /\ Gone(m, n) => ~Covered(n)
<1>1. ASSUME Stays(m, n, f) PROVE Covered(n) <=> Covered(m)
  <2>1. n.added = m.added /\ n.fresh = m.fresh /\ n.phase = m.phase
        /\ (Established(n) <=> Established(m))
      BY <1>1 DEF Stays
  <2> HIDE DEF Established
  <2>2. (~n.fresh <=> ~m.fresh) /\ (n.added <=> m.added) BY <2>1, Zenon
  <2>3. QED BY <2>1, <2>2 DEF Covered
<1>2. QED BY <1>1 DEF Gone

(* The frame delivered by two deliveries of which one carries none.           *)
Either(f, g) == IF f = 0 THEN g ELSE f

(* Backlogs fed one after the other.                                          *)
LEMMA FedTrans ==
    ASSUME NEW b, NEW c, NEW e, NEW f, NEW g, Fed(b, c, f), Fed(c, e, g), f = 0 \/ g = 0
    PROVE  Fed(b, e, Either(f, g))
<1>1. CASE f = 0
  <2>1. Frames(c) = Frames(b) /\ (Increasing(b) => Increasing(c)) BY <1>1 DEF Fed
  <2>2. QED BY <1>1, <2>1 DEF Fed, Either
<1>2. CASE g = 0 /\ f # 0
  <2>1. Frames(e) = Frames(c) /\ (Increasing(c) => Increasing(e)) BY <1>2 DEF Fed
  <2>2. QED BY <1>2, <2>1 DEF Fed, Either
<1>3. QED BY <1>1, <1>2

(* Two changes to a member that keep it its place.                            *)
LEMMA StaysTrans ==
    ASSUME NEW m, NEW n, NEW o, NEW f, NEW g, Stays(m, n, f), Stays(n, o, g), f = 0 \/ g = 0
    PROVE  Stays(m, o, Either(f, g))
<1>1. Fed(m.backlog, o.backlog, Either(f, g)) BY FedTrans DEF Stays
<1>2. o.proof => m.proof \/ m.phase = "awaiting-proof"
    BY Zenon DEF Stays
<1>3. QED BY <1>1, <1>2 DEF Stays

(* What is lost stays lost, and a place may be lost later.                    *)
LEMMA GoneTrans ==
    ASSUME NEW m, NEW n, NEW o, NEW f, NEW g
    PROVE  /\ Gone(m, n) /\ Stays(n, o, 0) => Gone(m, o)
           /\ Gone(m, n) /\ Gone(n, o) => Gone(m, o)
           /\ Stays(m, n, f) /\ Gone(n, o) => Gone(m, o)
<1>1. Gone(m, n) /\ Stays(n, o, 0) => Gone(m, o)
    BY StaysCovered DEF Gone, Stays, Fed
<1>2. QED BY <1>1 DEF Gone, Stays

(* Helpers compose, member by member; a lost member is given no frame.        *)
LEMMA HelpedTrans ==
    ASSUME NEW m, NEW n, NEW o, NEW f, NEW g, Helped(m, n, f), Helped(n, o, g),
           f = 0 \/ g = 0,
           g = 0 \/ Covered(n)
    PROVE  /\ Helped(m, o, Either(f, g))
           /\ Gone(m, n) /\ Lost(n) => Gone(m, o) /\ Lost(o)
<1>1. ASSUME Gone(m, n), Lost(n) PROVE Gone(m, o) /\ Lost(o)
  <2>1. CASE Gone(n, o) /\ Lost(o) BY <1>1, <2>1, GoneTrans
  <2>2. CASE Stays(n, o, g) /\ o.status = n.status /\ o.conn = n.conn
    <3>1. g = 0 BY <1>1 DEF Gone
    <3>2. Gone(m, o) BY <1>1, <2>2, <3>1, GoneTrans
    <3>3. o.fresh = n.fresh BY <2>2 DEF Stays
    <3>4. QED BY <1>1, <2>2, <3>2, <3>3 DEF Lost
  <2>3. QED BY <2>1, <2>2 DEF Helped
<1>2. ASSUME Stays(m, n, f), n.status = m.status, n.conn = m.conn PROVE Helped(m, o, Either(f, g))
  <2>1. CASE Gone(n, o) /\ Lost(o) BY <1>2, <2>1, GoneTrans DEF Helped
  <2>2. CASE Stays(n, o, g) /\ o.status = n.status /\ o.conn = n.conn
      BY <1>2, <2>2, StaysTrans DEF Helped
  <2>3. QED BY <2>1, <2>2 DEF Helped
<1>3. QED BY <1>1, <1>2 DEF Helped

(****************************************************************************)
(* Rooms.                                                                   *)
(****************************************************************************)
Fit(r) == \A d \in Device : FitMember(r.members[d])

(* The devices of S that a delivery reaches.                                  *)
Reached(r, S) == {d \in S : Established(r.members[d]) /\ ~r.members[d].fresh}

(* A helper leaves the log alone and feeds the devices of S with the frame f; *)
(* those that lose their place are marked, the devices of X perhaps not yet.  *)
Keeps(r, s, S, f, X) ==
    /\ s.accepted = r.accepted /\ s.nextOrder = r.nextOrder
    /\ s.lifecycle \in {r.lifecycle, "retired"}
    /\ \A d \in Device : Helped(r.members[d], s.members[d], IF d \in S THEN f ELSE 0)
    /\ s.lifecycle = "retired" \/
          /\ Listed(r.zombies) \subseteq Listed(s.zombies)
          /\ \A d \in Device \ X :
                Covered(r.members[d]) => Covered(s.members[d]) \/ d \in Listed(s.zombies)

(* A helper that feeds no frame.                                              *)
Eases(r, s) == Keeps(r, s, {}, 0, {})

(* The devices a helper feeds nothing do not matter.                          *)
LEMMA FeedsNothing ==
    ASSUME NEW r, NEW s, NEW S, NEW X
    PROVE  Keeps(r, s, S, 0, X) <=> Keeps(r, s, {}, 0, X)
<1>1. \A d \in Device : (IF d \in S THEN 0 ELSE 0) = (IF d \in {} THEN 0 ELSE 0)
    OBVIOUS
<1>2. QED BY <1>1 DEF Keeps

(* A helper keeps members fit.                                                *)
LEMMA KeepsFit ==
    ASSUME NEW r, NEW s, NEW S, NEW f, NEW X, Keeps(r, s, S, f, X), Fit(r)
    PROVE  Fit(s)
<1> SUFFICES ASSUME NEW d \in Device PROVE FitMember(s.members[d])
    BY DEF Fit
<1>1. \E g \in {f, 0} : Helped(r.members[d], s.members[d], g)
    BY DEF Keeps
<1>2. QED BY <1>1 DEF Helped, Stays, Gone, FitMember, Fit

(* Changes of other fields keep everything.                                   *)
LEMMA SameKeeps ==
    ASSUME NEW r, NEW s, s.members = r.members, s.zombies = r.zombies,
           s.accepted = r.accepted, s.nextOrder = r.nextOrder,
           s.lifecycle = r.lifecycle
    PROVE  Eases(r, s)
BY StaysRefl DEF Eases, Keeps

(* Helpers compose; a device is fed once, and while it is covered.            *)
LEMMA KeepsTrans ==
    ASSUME NEW r, NEW s, NEW t, NEW S, NEW T, NEW f, NEW X, NEW Y,
           Keeps(r, s, S, f, X), Keeps(s, t, T, f, Y), S \cap T = {},
           \A d \in T : Covered(s.members[d])
    PROVE  Keeps(r, t, S \cup T, f, X \cup Y)
<1>1. ASSUME NEW d \in Device
      PROVE  Helped(r.members[d], t.members[d], IF d \in S \cup T THEN f ELSE 0)
  <2> DEFINE g == IF d \in S THEN f ELSE 0
             h == IF d \in T THEN f ELSE 0
             k == IF d \in S \cup T THEN f ELSE 0
  <2>1. Helped(r.members[d], s.members[d], g) /\ Helped(s.members[d], t.members[d], h)
      BY DEF Keeps
  <2>2. g = 0 \/ h = 0 OBVIOUS
  <2>3. h = 0 \/ Covered(s.members[d]) OBVIOUS
  <2>4. Either(g, h) = k BY DEF Either
  <2> HIDE DEF g, h, k
  <2>5. Helped(r.members[d], t.members[d], Either(g, h)) BY <2>1, <2>2, <2>3, HelpedTrans
  <2>6. QED BY <2>4, <2>5 DEF k
<1>2. QED BY <1>1 DEF Keeps

(* Once they are marked, nothing is left to mark.                             *)
LEMMA KeepsMarked ==
    ASSUME NEW r, NEW s, NEW S, NEW f, NEW X, Keeps(r, s, S, f, X),
           s.lifecycle = "retired" \/ X \cap Device \subseteq Listed(s.zombies)
    PROVE  Keeps(r, s, S, f, {})
BY DEF Keeps

(* The common case: a helper that feeds nothing follows another.              *)
LEMMA ThenEases ==
    ASSUME NEW r, NEW s, NEW t, NEW S, NEW f, NEW X, Keeps(r, s, S, f, X), Eases(s, t)
    PROVE  Keeps(r, t, S, f, X)
<1>1. Keeps(s, t, {}, f, {})
    BY DEF Keeps, Eases
<1>2. Keeps(r, t, S \cup {}, f, X \cup {}) BY <1>1, KeepsTrans
<1>3. S \cup {} = S /\ X \cup {} = X OBVIOUS
<1>4. QED BY <1>2, <1>3

(****************************************************************************)
(* The helpers, from the bottom up.                                         *)
(****************************************************************************)
(* Retiring the room takes every member its place.                            *)
LEMMA RetireRoomKeeps ==
    ASSUME NEW r \in Room
    PROVE  /\ Eases(r, RetireRoom(r)) /\ RetireRoom(r).lifecycle = "retired"
           /\ \A d \in Device : r.members[d].status # "absent" =>
                 LET n == RetireRoom(r).members[d] IN Gone(r.members[d], n) /\ Lost(n)
<1> DEFINE s == RetireRoom(r)
<1>1. \A d \in Device : r.members[d] \in Member BY DEF Room
<1>2. /\ s.lifecycle = "retired" /\ s.accepted = r.accepted /\ s.nextOrder = r.nextOrder
      /\ \A d \in Device : s.members[d] = IF r.members[d].status = "absent" THEN r.members[d]
                                          ELSE RetireMember(r.members[d])
    BY DEF RetireRoom, Room
<1> HIDE DEF s
<1>3. \A d \in Device : r.members[d].status # "absent" =>
          Gone(r.members[d], s.members[d]) /\ Lost(s.members[d])
    BY <1>1, <1>2, RetireGone
<1>4. \A d \in Device : Helped(r.members[d], s.members[d], 0)
    BY <1>2, <1>3, StaysRefl DEF Helped
<1>5. Eases(r, s) BY <1>2, <1>4 DEF Eases, Keeps
<1>6. QED BY <1>2, <1>3, <1>5 DEF s

(* Mark marks exactly what it is given.                                       *)
LEMMA MarkListed ==
    ASSUME NEW r \in Room, NEW S, IsFiniteSet(S)
    PROVE  Listed(Mark(r, S).zombies) = Listed(r.zombies) \cup (S \cap Device)
<1> DEFINE new == S \ Listed(r.zombies)
           early(d) == {e \in new : r.members[e].joined <= r.members[d].joined}
<1>1. Mark(r, S).zombies = Behind(r, new) BY DEF Mark, Room
<1>2. \A d \in Device : d \in new => Behind(r, new)[d] # 0
  <2> SUFFICES ASSUME NEW d \in Device, d \in new PROVE Behind(r, new)[d] # 0
      OBVIOUS
  <2>1. Behind(r, new)[d] = Cardinality(Listed(r.zombies)) + Cardinality(early(d))
      BY DEF Behind
  <2>2. Cardinality(Listed(r.zombies)) \in Nat BY ListedFinite, CardinalityNat
  <2>3. IsFiniteSet(early(d)) BY FS_Subset
  <2>4. r.members[d].joined <= r.members[d].joined
    <3>1. r.members[d].joined \in Nat BY DEF Room, Member
    <3>2. QED BY <3>1
  <2>5. d \in early(d) BY <2>4
  <2> HIDE DEF early
  <2>6. Cardinality(early(d)) # 0 /\ Cardinality(early(d)) \in Nat
      BY <2>3, <2>5, FS_EmptySet, FS_CardinalityType
  <2>7. QED BY <2>1, <2>2, <2>6
<1>3. \A d \in Device : d \notin new => Behind(r, new)[d] = r.zombies[d]
    BY DEF Behind
<1>4. Listed(Behind(r, new)) = Listed(r.zombies) \cup (S \cap Device)
    BY <1>2, <1>3 DEF Listed
<1>5. QED BY <1>1, <1>4

(* Marks are added, nothing else changes.                                     *)
LEMMA MarkKeeps ==
    ASSUME NEW r \in Room, NEW S, IsFiniteSet(S)
    PROVE  Eases(r, Mark(r, S))
<1> DEFINE s == Mark(r, S)
<1>1. s = [r EXCEPT !.zombies = s.zombies] /\ Listed(r.zombies) \subseteq Listed(s.zombies)
    BY MarkType, MarkListed
<1> HIDE DEF s
<1>2. /\ s.members = r.members /\ s.accepted = r.accepted /\ s.nextOrder = r.nextOrder
      /\ s.lifecycle = r.lifecycle
    BY <1>1 DEF Room
<1>3. QED BY <1>1, <1>2, StaysRefl DEF Eases, Keeps, s

(* Raising the barrier ends the admissions, and marks those that were added.  *)
LEMMA RaiseKeeps ==
    ASSUME NEW r \in Room, Fit(r)
    PROVE  Eases(r, RaiseRemovalBarrier(r))
<1> DEFINE stale == InAdmission(r)
           held == {d \in ({r.application.from, r.commit.from} \cap Device) \ stale :
                      Established(r.members[d]) /\ ~r.members[d].fresh}
           lost == {d \in held : Full(r.members[d])}
           ms == [d \in Device |->
                          CASE d \in stale -> RetireMember(r.members[d])
                            [] d \in lost -> Evicted(r.members[d])
                            [] d \in held \ lost ->
                                 Given(r.members[d], RejectedEntry(r.application.order))
                            [] OTHER -> r.members[d]]
           cleared ==
            [r EXCEPT !.grant = NoGrant, !.queue = EmptyFifo, !.transfer = NoTransfer,
                      !.application = NoApplication, !.commit = NoCommit,
                      !.members = ms]
           added == {d \in stale : r.members[d].added}
           one == Mark(cleared, added)
           s == Mark(one, lost)
<1>0. s = RaiseRemovalBarrier(r) BY DEF RaiseRemovalBarrier
<1>1. \A d \in Device : r.members[d] \in Member BY DEF Room
<1>2. RejectedEntry(r.application.order) \in Entry /\ RejectedEntry(r.application.order).frame = 0
    BY EntryTypes DEF Room, HeldApplication, RejectedEntry
<1>3. \A d \in Device : /\ ms[d] \in Member
                        /\ Helped(r.members[d], ms[d], 0)
                        /\ d \notin added \cup lost =>
                              (Covered(r.members[d]) => Covered(ms[d]))
  <2> TAKE d \in Device
  <2>0. /\ d \notin stale => r.members[d].phase = "none"
        /\ d \in stale => r.members[d].phase # "none"
        /\ d \in lost => d \in held
        /\ d \in held => d \notin stale
        /\ d \in added <=> d \in stale /\ r.members[d].added
    BY DEF InAdmission
  <2> HIDE DEF stale, held, lost, added
  <2>1. CASE d \in stale
    <3>1. ms[d] = RetireMember(r.members[d]) BY <2>0, <2>1
    <3>2. ~Established(r.members[d])
        BY <2>0, <2>1 DEF Fit, FitMember, Established
    <3>3. d \notin added => ~Covered(r.members[d]) BY <2>0, <2>1, <3>2 DEF Covered
    <3>4. ms[d] \in Member BY <3>1, <1>1, MemberTypes
    <3>5. Helped(r.members[d], ms[d], 0) BY <3>1, <1>1, RetireGone DEF Helped
    <3>6. QED BY <3>3, <3>4, <3>5
  <2>2. CASE d \notin stale /\ d \in lost
    <3>1. ms[d] = Evicted(r.members[d]) BY <2>2
    <3>2. ms[d] \in Member BY <3>1, <1>1, MemberTypes
    <3>3. Helped(r.members[d], ms[d], 0) BY <3>1, <2>0, <2>2, <1>1, EvictGone DEF Helped
    <3>4. QED BY <2>2, <3>2, <3>3
  <2>3. CASE d \notin stale /\ d \notin lost /\ d \in held
    <3> DEFINE e == RejectedEntry(r.application.order)
    <3>1. ms[d] = Given(r.members[d], e) BY <2>3
    <3> HIDE DEF e, ms
    <3>2. ms[d] \in Member BY <3>1, <1>1, <1>2, GivenType DEF e
    <3>3. Helped(r.members[d], ms[d], 0) BY <3>1, <1>1, <1>2, GivenStays DEF e
    <3>4. Stays(r.members[d], ms[d], 0) \/ Gone(r.members[d], ms[d]) BY <3>3 DEF Helped
    <3>5. Covered(ms[d])
      <4>1. Established(r.members[d]) /\ ~r.members[d].fresh BY <2>3 DEF held
      <4>2. ms[d].status = r.members[d].status /\ ms[d].phase = r.members[d].phase
            /\ ms[d].fresh = r.members[d].fresh
          BY <3>1, <1>1 DEF Given, Member
      <4>3. QED BY <4>1, <4>2 DEF Covered, Established
    <3>6. QED BY <3>2, <3>3, <3>5
  <2>4. CASE d \notin stale /\ d \notin lost /\ d \notin held
    <3>1. ms[d] = r.members[d] BY <2>4
    <3>2. QED BY <3>1, <1>1, StaysRefl
  <2>5. QED BY <2>1, <2>2, <2>3, <2>4
<1>4. ms \in [Device -> Member] BY <1>3
<1>5. /\ cleared \in Room /\ cleared.members = ms /\ cleared.zombies = r.zombies
      /\ cleared.accepted = r.accepted /\ cleared.nextOrder = r.nextOrder
      /\ cleared.lifecycle = r.lifecycle
  <2> HIDE DEF ms
  <2> QED BY <1>4, NoneTypes, FifoTypes DEF Room, EmptyFifo
<1>6. IsFiniteSet(lost) /\ IsFiniteSet(added) /\ added \cup lost \subseteq Device
    BY DeviceAssumption, FS_Subset DEF InAdmission
<1> HIDE DEF stale, held, lost, added, ms, cleared
<1>7. Keeps(r, cleared, {}, 0, added \cup lost)
    BY <1>3, <1>5 DEF Keeps
<1>8. Eases(cleared, one) /\ one \in Room /\ Listed(one.zombies) = Listed(cleared.zombies) \cup added
  <2>1. Listed(one.zombies) = Listed(cleared.zombies) \cup (added \cap Device)
      BY <1>5, <1>6, MarkListed
  <2>2. Eases(cleared, one) /\ one \in Room BY <1>5, <1>6, MarkKeeps, MarkType
  <2>3. added \cap Device = added BY <1>6
  <2>4. QED BY <2>1, <2>2, <2>3
<1> HIDE DEF one
<1>9. Eases(one, s) /\ Listed(s.zombies) = Listed(one.zombies) \cup lost
    BY <1>8, <1>6, MarkKeeps, MarkListed
<1> HIDE DEF s
<1>10. Keeps(r, one, {}, 0, added \cup lost) BY <1>7, <1>8, ThenEases
<1>11. Keeps(r, s, {}, 0, added \cup lost) BY <1>9, <1>10, ThenEases
<1>12. Keeps(r, s, {}, 0, {}) BY <1>8, <1>9, <1>11, KeepsMarked
<1>13. QED BY <1>0, <1>12 DEF Eases

(* A required removal is marked.                                              *)
LEMMA RequireRemovalKeeps ==
    ASSUME NEW r \in Room, Fit(r), NEW d
    PROVE  LET s == RequireRemoval(r, d) IN
           /\ Eases(r, s)
           /\ s.lifecycle = "retired" \/ {d} \cap Device \subseteq Listed(s.zombies)
<1> DEFINE q == Mark(r, {d})
           s == RequireRemoval(r, d)
<1>1. IsFiniteSet({d}) BY FS_Singleton
<1>2. /\ q \in Room /\ Eases(r, q)
      /\ Listed(q.zombies) = Listed(r.zombies) \cup ({d} \cap Device)
    BY <1>1, MarkType, MarkKeeps, MarkListed
<1>3. s = q \/ s = RaiseRemovalBarrier(q) BY DEF RequireRemoval
<1> HIDE DEF q, s
<1>4. Fit(q) BY <1>2, KeepsFit DEF Eases
<1>5. Eases(q, RaiseRemovalBarrier(q)) BY <1>2, <1>4, RaiseKeeps
<1>6. Eases(q, s)
    BY <1>3, <1>5, SameKeeps
<1>7. Eases(r, s) BY <1>2, <1>6, ThenEases DEF Eases
<1>8. s.lifecycle = "retired" \/ Listed(q.zombies) \subseteq Listed(s.zombies)
    BY <1>6 DEF Eases, Keeps
<1>9. QED BY <1>2, <1>7, <1>8 DEF s

(* Members that are expelled lose their place and are marked.                 *)
LEMMA ExpelKeeps ==
    ASSUME NEW r \in Room, Fit(r), NEW S \in SUBSET Device,
           \A d \in S : r.members[d].phase = "none"
    PROVE  LET s == Expel(r, S) IN
           /\ Eases(r, s)
           /\ \A d \in S : Gone(r.members[d], s.members[d]) /\ Lost(s.members[d])
<1> DEFINE first == CHOOSE d \in S : \A e \in S : r.members[d].joined <= r.members[e].joined
           ms == [d \in Device |-> IF d \in S THEN Evicted(r.members[d]) ELSE r.members[d]]
           gone ==
            [r EXCEPT !.members = ms,
                      !.queue = Without(r.queue, S),
                      !.grant = IF @.device \in S THEN NoGrant ELSE @,
                      !.application = IF @.from \in S THEN NoApplication ELSE @,
                      !.commit = IF @.from \in S THEN NoCommit ELSE @,
                      !.transfer = IF @.host \in S \/ @.target \in S THEN NoTransfer ELSE @]
           q == RequireRemoval(gone, first)
           s == Mark(q, S)
<1>0. Expel(r, S) = s BY DEF Expel
<1>1. \A d \in Device : r.members[d] \in Member BY DEF Room
<1>2. /\ ms \in [Device -> Member]
      /\ \A d \in Device : Helped(r.members[d], ms[d], 0)
      /\ \A d \in S : Gone(r.members[d], ms[d]) /\ Lost(ms[d])
      /\ \A d \in Device \ S : ms[d] = r.members[d]
  <2>1. \A d \in Device : ms[d] \in Member BY <1>1, MemberTypes
  <2>2. \A d \in S : Gone(r.members[d], ms[d]) /\ Lost(ms[d]) BY <1>1, EvictGone
  <2>3. \A d \in Device \ S : ms[d] = r.members[d] OBVIOUS
  <2>4. \A d \in Device : Helped(r.members[d], ms[d], 0)
    <3> HIDE DEF ms
    <3> QED BY <2>2, <2>3, StaysRefl DEF Helped
  <2>5. ms \in [Device -> Member] BY <2>1
  <2> HIDE DEF ms
  <2>6. QED BY <2>2, <2>3, <2>4, <2>5
<1>3. Without(r.queue, S) \in [Device -> Nat] BY WithoutType DEF Room
<1>4. /\ gone \in Room /\ gone.members = ms /\ gone.zombies = r.zombies
      /\ gone.accepted = r.accepted /\ gone.nextOrder = r.nextOrder
      /\ gone.lifecycle = r.lifecycle
  <2> HIDE DEF ms
  <2> QED BY <1>2, <1>3, NoneTypes DEF Room
<1> HIDE DEF ms, gone
<1>5. Keeps(r, gone, {}, 0, S) BY <1>2, <1>4 DEF Keeps
<1>6. Fit(gone) BY <1>5, KeepsFit
<1> HIDE DEF first
<1>7. Eases(gone, q) /\ q \in Room BY <1>4, <1>6, RequireRemovalKeeps, RequireRemovalGood DEF Good
<1>8. IsFiniteSet(S) BY DeviceAssumption, FS_Subset
<1> HIDE DEF q
<1>9. Eases(q, s) BY <1>7, <1>8, MarkKeeps
<1>10. S \cap Device \subseteq Listed(s.zombies) BY <1>7, <1>8, MarkListed
<1> HIDE DEF s
<1>11. Keeps(r, q, {}, 0, S) BY <1>5, <1>7, ThenEases
<1>12. Keeps(r, s, {}, 0, S) BY <1>9, <1>11, ThenEases
<1>13. Eases(r, s) BY <1>10, <1>12, KeepsMarked DEF Eases
<1>14. Eases(gone, s) BY <1>7, <1>9, ThenEases DEF Eases
<1>15. \A d \in S : Gone(r.members[d], s.members[d]) /\ Lost(s.members[d])
  <2> SUFFICES ASSUME NEW d \in S PROVE Gone(r.members[d], s.members[d]) /\ Lost(s.members[d])
      OBVIOUS
  <2>1. Helped(gone.members[d], s.members[d], 0) BY <1>14 DEF Eases, Keeps
  <2>2. Gone(r.members[d], gone.members[d]) /\ Lost(gone.members[d]) BY <1>2, <1>4
  <2>3. Helped(r.members[d], gone.members[d], 0) BY <2>2 DEF Helped
  <2>4. QED BY <2>1, <2>2, <2>3, HelpedTrans
<1>16. QED BY <1>0, <1>13, <1>15

(* So do those that cost the room its life.                                   *)
LEMMA LoseKeeps ==
    ASSUME NEW r \in Room, Fit(r), NEW S \in SUBSET Device,
           \A d \in S : r.members[d].phase = "none"
    PROVE  LET s == Lose(r, S) IN
           /\ Eases(r, s)
           /\ \A d \in S : r.members[d].status # "absent" =>
                 Gone(r.members[d], s.members[d]) /\ Lost(s.members[d])
<1>1. CASE S = {} BY <1>1, SameKeeps DEF Lose
<1>2. CASE S # {} /\ r.host \in S BY <1>2, RetireRoomKeeps DEF Lose
<1>3. CASE S # {} /\ r.host \notin S
  <2>1. Lose(r, S) = Expel(r, S) BY <1>3 DEF Lose
  <2>2. QED BY <2>1, ExpelKeeps
<1>4. QED BY <1>1, <1>2, <1>3

(* An admission ends, with a marker if it was added.                          *)
LEMMA RetireAdmissionKeeps ==
    ASSUME NEW r \in Room, Fit(r), NEW d \in InAdmission(r)
    PROVE  Eases(r, RetireAdmission(r, d))
<1> DEFINE m == r.members[d]
           n == RetireMember(m)
           q == [r EXCEPT !.members[d] = n]
           s == RequireRemoval(q, d)
<1>1. d \in Device /\ m \in Member /\ m.phase # "none" BY DEF InAdmission, Room
<1>2. n \in Member /\ Helped(m, n, 0) BY <1>1, MemberTypes, RetireGone DEF Helped
<1>3. RetireAdmission(r, d) = IF m.added THEN s ELSE q BY DEF RetireAdmission
<1>4. Covered(m) => m.added
    BY <1>1 DEF Covered, Established, Fit, FitMember
<1> HIDE DEF n
<1>5. /\ q \in Room /\ q.zombies = r.zombies /\ q.accepted = r.accepted
      /\ q.nextOrder = r.nextOrder /\ q.lifecycle = r.lifecycle
      /\ \A e \in Device : q.members[e] = IF e = d THEN n ELSE r.members[e]
    BY <1>1, <1>2 DEF Room
<1> HIDE DEF q, s
<1>6. Keeps(r, q, {}, 0, {d}) BY <1>2, <1>5, StaysRefl DEF Keeps
<1>7. CASE ~m.added
  <2>1. Eases(r, q) BY <1>4, <1>5, <1>6, <1>7 DEF Keeps, Eases
  <2>2. QED BY <1>3, <1>7, <2>1
<1>8. CASE m.added
  <2>1. Fit(q) BY <1>6, KeepsFit
  <2>2. Eases(q, s) /\ (s.lifecycle = "retired" \/ {d} \cap Device \subseteq Listed(s.zombies))
      BY <1>5, <2>1, RequireRemovalKeeps DEF s
  <2>3. Keeps(r, s, {}, 0, {d}) BY <1>6, <2>2, ThenEases
  <2>4. Eases(r, s) BY <2>2, <2>3, KeepsMarked DEF Eases
  <2>5. QED BY <1>3, <1>8, <2>4
<1>9. QED BY <1>7, <1>8

(* A delivery feeds the open members of the group it is for; a member whose   *)
(* backlog is full loses its place instead.                                   *)
LEMMA DeliverKeeps ==
    ASSUME NEW r \in Room, Fit(r), NEW S \in SUBSET Device, NEW e \in Entry,
           \A d \in S : Established(r.members[d])
    PROVE  Keeps(r, Deliver(r, S, e), Reached(r, S), e.frame, {})
<1> DEFINE open == {d \in S : ~r.members[d].fresh}
           full == {d \in open : Full(r.members[d])}
           ms == [d \in Device |-> IF d \in open \ full THEN Given(r.members[d], e)
                                                        ELSE r.members[d]]
           given == [r EXCEPT !.queue = Without(@, open), !.members = ms]
           s == Lose(given, full)
           f == e.frame
<1>0. Deliver(r, S, e) = s /\ Reached(r, S) = open BY DEF Deliver, Reached
<1>1. \A d \in Device : r.members[d] \in Member BY DEF Room
<1>2. \A d \in Device : /\ ms[d] \in Member
                        /\ d \in open \ full => Helped(r.members[d], ms[d], f)
                        /\ d \notin open \ full => ms[d] = r.members[d]
  <2> HIDE DEF open, full
  <2> QED BY <1>1, GivenType, GivenStays
<1>3. Without(r.queue, open) \in [Device -> Nat] BY WithoutType DEF Room
<1>4. ms \in [Device -> Member] BY <1>2
<1>5. /\ given \in Room /\ given.members = ms /\ given.zombies = r.zombies
      /\ given.accepted = r.accepted /\ given.nextOrder = r.nextOrder
      /\ given.lifecycle = r.lifecycle
  <2> HIDE DEF ms, open
  <2> QED BY <1>3, <1>4 DEF Room
<1>6. \A d \in open : r.members[d].phase = "none" /\ r.members[d].status # "absent"
    BY DEF Established, Fit, FitMember
<1>7. full \subseteq open /\ open \subseteq Device OBVIOUS
<1>8. \A d \in open \ full : Covered(r.members[d]) /\ Covered(ms[d])
  <2> SUFFICES ASSUME NEW d \in open \ full PROVE Covered(r.members[d]) /\ Covered(ms[d])
      OBVIOUS
  <2>1. Covered(r.members[d]) BY DEF Covered
  <2>2. ms[d] = Given(r.members[d], e) OBVIOUS
  <2>3. ms[d].status = r.members[d].status /\ ms[d].phase = r.members[d].phase
        /\ ms[d].fresh = r.members[d].fresh
      BY <1>1, <2>2, ZenonT(40) DEF Given, Member
  <2>4. QED BY <2>3 DEF Covered, Established
<1> HIDE DEF open, full, ms, given
<1>9. \A d \in Device : given.members[d].phase = "none" \/ d \notin full
    BY <1>2, <1>5, <1>6, <1>7
<1>10. Fit(given)
  <2> SUFFICES ASSUME NEW d \in Device PROVE FitMember(ms[d])
      BY <1>5 DEF Fit
  <2>1. CASE d \in open \ full
      BY <1>2, <2>1 DEF Fit, FitMember, Helped, Stays, Gone
  <2>2. CASE d \notin open \ full BY <1>2, <2>2 DEF Fit
  <2>3. QED BY <2>1, <2>2
<1>11. /\ Eases(given, s)
       /\ \A d \in full : given.members[d].status # "absent" =>
             Gone(given.members[d], s.members[d]) /\ Lost(s.members[d])
  <2>1. full \in SUBSET Device BY <1>7
  <2>2. \A d \in full : given.members[d].phase = "none" BY <1>7, <1>9
  <2>3. QED BY <1>5, <1>10, <2>1, <2>2, LoseKeeps
<1> HIDE DEF s, f
<1>12. ASSUME NEW d \in Device
       PROVE  Helped(r.members[d], s.members[d], IF d \in open THEN f ELSE 0)
  <2>1. Helped(given.members[d], s.members[d], 0) BY <1>11 DEF Eases, Keeps
  <2>2. CASE d \in full
      BY <1>2, <1>5, <1>6, <1>7, <1>11, <2>2 DEF Helped
  <2>3. CASE d \in open \ full
    <3>1. Helped(r.members[d], ms[d], f) BY <1>2, <2>3
    <3>2. Helped(r.members[d], s.members[d], Either(f, 0))
        BY <1>5, <2>1, <3>1, HelpedTrans
    <3>3. Either(f, 0) = f BY DEF Either
    <3>4. QED BY <2>3, <3>2, <3>3
  <2>4. CASE d \notin open BY <1>2, <1>5, <2>1, <2>4
  <2>5. QED BY <2>2, <2>3, <2>4
<1>13. \A d \in Device : Covered(r.members[d]) => Covered(given.members[d])
    BY <1>2, <1>5, <1>8
<1>14. s.lifecycle = "retired" \/
          /\ Listed(r.zombies) \subseteq Listed(s.zombies)
          /\ \A d \in Device :
                Covered(r.members[d]) => Covered(s.members[d]) \/ d \in Listed(s.zombies)
    BY <1>5, <1>11, <1>13 DEF Eases, Keeps
<1>15. Keeps(r, s, open, f, {})
    BY <1>5, <1>11, <1>12, <1>14 DEF Eases, Keeps
<1>16. QED BY <1>0, <1>15 DEF f

(* Routing feeds the group, the sender aside.                                 *)
LEMMA RouteKeeps ==
    ASSUME NEW r \in Room, Fit(r), NEW d, NEW e \in Entry
    PROVE  Keeps(r, Route(r, d, e), Reached(r, Device \ {d}), e.frame, {})
<1> DEFINE S == {x \in Device \ {d} : Established(r.members[x])}
<1>1. Route(r, d, e) = Deliver(r, S, e) BY DEF Route
<1>2. Reached(r, S) = Reached(r, Device \ {d}) BY DEF Reached
<1>3. S \in SUBSET Device /\ \A x \in S : Established(r.members[x]) OBVIOUS
<1> HIDE DEF S
<1>4. Keeps(r, Deliver(r, S, e), Reached(r, S), e.frame, {}) BY <1>3, DeliverKeeps
<1>5. QED BY <1>1, <1>2, <1>4

(* An answer feeds the device it is for.                                      *)
LEMMA AnswerKeeps ==
    ASSUME NEW r \in Room, Fit(r), NEW d \in Device, NEW e \in Entry
    PROVE  Keeps(r, Answer(r, d, e), Reached(r, {d}), e.frame, {})
<1>1. CASE Established(r.members[d])
    BY <1>1, DeliverKeeps DEF Answer
<1>2. CASE ~Established(r.members[d])
  <2>1. Answer(r, d, e) = r /\ Reached(r, {d}) = {} BY <1>2 DEF Answer, Reached
  <2>2. Eases(r, r) BY SameKeeps
  <2>3. QED BY <2>1, <2>2 DEF Eases, Keeps
<1>3. QED BY <1>1, <1>2

(* A rejection is not a frame.                                                *)
LEMMA RejectionEases ==
    ASSUME NEW r \in Room, Fit(r), NEW d \in Device, NEW o \in Nat
    PROVE  Eases(r, Answer(r, d, RejectedEntry(o)))
<1> DEFINE e == RejectedEntry(o)
<1>1. e \in Entry /\ e.frame = 0 BY EntryTypes DEF RejectedEntry
<1> HIDE DEF e
<1>2. Keeps(r, Answer(r, d, e), Reached(r, {d}), 0, {}) BY <1>1, AnswerKeeps
<1>3. QED BY <1>2, FeedsNothing DEF Eases, e

(* An accepted frame feeds the whole group, its sender included.              *)
LEMMA AcceptKeeps ==
    ASSUME NEW r \in Room, Fit(r), NEW kind \in AcceptedKind, NEW from \in Device,
           NEW subject \in OptDevice, NEW order \in Nat
    PROVE  LET q == Record(r, kind, from, subject, order)
               s == Accept(r, kind, from, subject, order)
           IN  Keeps(q, s, Reached(r, Device), Len(r.accepted) + 1, {})
<1> DEFINE i == Len(r.accepted) + 1
           q == Record(r, kind, from, subject, order)
           e == RelayEntry(i, order)
           a == AcceptedEntry(i, order)
           t == Route(q, from, e)
           s == Answer(t, from, a)
<1>0. s = Accept(r, kind, from, subject, order) BY DEF Accept
<1>1. i \in Nat
  <2>1. r.accepted \in Seq(Frame) BY DEF Room
  <2>2. QED BY <2>1
<1>2. e \in Entry /\ a \in Entry /\ e.frame = i /\ a.frame = i
    BY <1>1, EntryTypes DEF RelayEntry, AcceptedEntry
<1>3. q \in Room /\ q.members = r.members
  <2>1. q \in Room BY RecordGood DEF Good
  <2>2. QED BY <2>1 DEF Record, Room
<1> HIDE DEF q, e, a, i
<1>4. Fit(q) BY <1>3 DEF Fit
<1>5. Keeps(q, t, Reached(q, Device \ {from}), i, {}) BY <1>2, <1>3, <1>4, RouteKeeps
<1>6. t \in Room BY <1>2, <1>3, RouteGood DEF Good
<1>7. Fit(t) BY <1>4, <1>5, KeepsFit
<1> HIDE DEF t
<1>8. Keeps(t, s, Reached(t, {from}), i, {}) BY <1>2, <1>6, <1>7, AnswerKeeps
<1> HIDE DEF s
<1> DEFINE S == Reached(q, Device \ {from})
           T == Reached(t, {from})
<1>9. S \cap T = {} /\ \A d \in T : Covered(t.members[d])
    BY DEF Reached, Covered
<1>10. Reached(r, Device) = Reached(q, Device) BY <1>3 DEF Reached
<1> HIDE DEF S
<1>11. Keeps(q, s, S \cup T, i, {})
  <2> HIDE DEF T
  <2>1. Keeps(q, s, S \cup T, i, {} \cup {}) BY <1>5, <1>8, <1>9, KeepsTrans DEF S, T
  <2>2. QED BY <2>1
<1>12. ASSUME NEW d \in Device
       PROVE  Helped(q.members[d], s.members[d], IF d \in Reached(q, Device) THEN i ELSE 0)
  <2>1. CASE d # from \/ (Established(t.members[from]) /\ ~t.members[from].fresh)
             \/ d \notin Reached(q, Device)
    <3>1. d \in S \cup T <=> d \in Reached(q, Device)
      <4>1. CASE d # from BY <4>1 DEF S, T, Reached
      <4>2. CASE d = from
        <5>1. Helped(q.members[d], t.members[d], 0) BY <1>5, <4>2 DEF Keeps, Reached
        <5>2. d \in T => d \in Reached(q, Device)
            BY <4>2, <5>1 DEF T, Reached, Helped, Stays, Gone, Covered
        <5>3. QED BY <2>1, <4>2, <5>2 DEF S, T, Reached
      <4>3. QED BY <4>1, <4>2
    <3>2. QED BY <1>11, <3>1 DEF Keeps
  <2>2. CASE d = from /\ ~(Established(t.members[from]) /\ ~t.members[from].fresh)
             /\ d \in Reached(q, Device)
    <3>1. Helped(q.members[d], t.members[d], 0) BY <1>5, <2>2 DEF Keeps, Reached
    <3>2. ~Stays(q.members[d], t.members[d], 0)
        BY <2>2 DEF Stays, Reached
    <3>3. Gone(q.members[d], t.members[d]) /\ Lost(t.members[d]) BY <3>1, <3>2 DEF Helped
    <3>4. Helped(t.members[d], s.members[d], 0) BY <1>8, <2>2 DEF Keeps, Reached
    <3>5. Gone(q.members[d], s.members[d]) /\ Lost(s.members[d])
        BY <3>1, <3>3, <3>4, HelpedTrans
    <3>6. QED BY <3>5 DEF Helped
  <2>3. QED BY <2>1, <2>2
<1>13. Keeps(q, s, Reached(q, Device), i, {}) BY <1>11, <1>12 DEF Keeps
<1>14. QED BY <1>0, <1>10, <1>13 DEF q, i

(* Handing the order out touches neither members nor log.                     *)
LEMMA IssueEases == ASSUME NEW r \in Room PROVE Eases(r, IssueNextGrant(r))
<1> DEFINE s == IssueNextGrant(r)
<1>1. /\ s.members = r.members /\ s.zombies = r.zombies
      /\ s.accepted = r.accepted /\ s.nextOrder = r.nextOrder
      /\ s.lifecycle = r.lifecycle
    BY DEF IssueNextGrant, Room
<1>2. QED BY <1>1, SameKeeps

(* Deadlines take members their place, or withdraw what was given.            *)
LEMMA ExpireAwayEases == ASSUME NEW r \in Room, Fit(r) PROVE Eases(r, ExpireAway(r))
<1> DEFINE S == {d \in Device : r.members[d].grace = "over"}
<1>1. S \in SUBSET Device /\ \A d \in S : r.members[d].phase = "none" BY DEF Fit, FitMember
<1>2. QED BY <1>1, LoseKeeps DEF ExpireAway

(* An admission that is over ends.                                            *)
LEMMA ExpireAdmissionEases == ASSUME NEW r \in Room, Fit(r) PROVE Eases(r, ExpireAdmission(r))
<1>1. CASE \E d \in InAdmission(r) : r.members[d].admission = "over"
  <2> DEFINE a == CHOOSE d \in InAdmission(r) : r.members[d].admission = "over"
  <2>1. a \in InAdmission(r) BY <1>1
  <2>2. ExpireAdmission(r) = RetireAdmission(r, a) BY <1>1 DEF ExpireAdmission
  <2> HIDE DEF a
  <2>3. QED BY <2>1, <2>2, RetireAdmissionKeeps
<1>2. CASE ~\E d \in InAdmission(r) : r.members[d].admission = "over"
    BY <1>2, SameKeeps DEF ExpireAdmission
<1>3. QED BY <1>1, <1>2

(* Withdrawing a grant, a transfer or a held operation touches no member.     *)
LEMMA WithdrawnEases ==
    ASSUME NEW r \in Room
    PROVE  /\ Eases(r, ExpireGrant(r)) /\ Eases(r, ExpireTransfer(r)) /\ Eases(r, Spent(r))
           /\ Eases(r, Released(r)) /\ Eases(r, [r EXCEPT !.commit = NoCommit])
<1>1. Eases(r, ExpireGrant(r))
  <2> DEFINE s == ExpireGrant(r)
  <2>1. /\ s.members = r.members /\ s.zombies = r.zombies
        /\ s.accepted = r.accepted /\ s.nextOrder = r.nextOrder
        /\ s.lifecycle = r.lifecycle
      BY DEF ExpireGrant, Room
  <2> HIDE DEF s
  <2>2. Eases(r, s) BY <2>1, SameKeeps
  <2>3. QED BY <2>2 DEF s
<1>2. Eases(r, ExpireTransfer(r))
  <2> DEFINE s == ExpireTransfer(r)
  <2>1. /\ s.members = r.members /\ s.zombies = r.zombies
        /\ s.accepted = r.accepted /\ s.nextOrder = r.nextOrder
        /\ s.lifecycle = r.lifecycle
      BY DEF ExpireTransfer, Room
  <2> HIDE DEF s
  <2>2. Eases(r, s) BY <2>1, SameKeeps
  <2>3. QED BY <2>2 DEF s
<1>3. Eases(r, Spent(r))
  <2> DEFINE s == Spent(r)
  <2>1. /\ s.members = r.members /\ s.zombies = r.zombies
        /\ s.accepted = r.accepted /\ s.nextOrder = r.nextOrder
        /\ s.lifecycle = r.lifecycle
      BY DEF Spent, Room
  <2> HIDE DEF s
  <2>2. Eases(r, s) BY <2>1, SameKeeps
  <2>3. QED BY <2>2 DEF s
<1>4. Eases(r, Released(r))
  <2> DEFINE s == Released(r)
  <2>1. /\ s.members = r.members /\ s.zombies = r.zombies
        /\ s.accepted = r.accepted /\ s.nextOrder = r.nextOrder
        /\ s.lifecycle = r.lifecycle
      BY DEF Released, Room
  <2> HIDE DEF s
  <2>2. Eases(r, s) BY <2>1, SameKeeps
  <2>3. QED BY <2>2 DEF s
<1>5. Eases(r, [r EXCEPT !.commit = NoCommit])
  <2> DEFINE s == [r EXCEPT !.commit = NoCommit]
  <2>1. /\ s.members = r.members /\ s.zombies = r.zombies
        /\ s.accepted = r.accepted /\ s.nextOrder = r.nextOrder
        /\ s.lifecycle = r.lifecycle
      BY DEF Room
  <2> HIDE DEF s
  <2>2. Eases(r, s) BY <2>1, SameKeeps
  <2>3. QED BY <2>2 DEF s
<1>6. QED BY <1>1, <1>2, <1>3, <1>4, <1>5

(* The answer of what ran out is a rejection.                                 *)
LEMMA ExpireApplicationEases ==
    ASSUME NEW r \in Room, OverdueHeld(r), Fit(r)
    PROVE  Eases(r, ExpireApplication(r))
<1>1. CASE ~r.application.overdue BY <1>1, SameKeeps DEF ExpireApplication
<1>2. CASE r.application.overdue
  <2> DEFINE q == Released(r)
             o == r.application.order
             d == r.application.from
  <2>1. d \in Device /\ o \in Nat
      BY <1>2 DEF OverdueHeld, Room, HeldApplication, OptDevice
  <2>2. ExpireApplication(r) = Answer(q, d, RejectedEntry(o))
      BY <1>2 DEF ExpireApplication, Released
  <2>3. q \in Room /\ Eases(r, q) BY ReleasedGood, WithdrawnEases DEF Good
  <2> HIDE DEF q, o, d
  <2>4. Fit(q) BY <2>3, KeepsFit DEF Eases
  <2>5. Eases(q, Answer(q, d, RejectedEntry(o))) BY <2>1, <2>3, <2>4, RejectionEases
  <2>6. QED BY <2>2, <2>3, <2>5, ThenEases DEF Eases
<1>3. QED BY <1>1, <1>2

(* So is that of a commit.                                                    *)
LEMMA ExpireCommitEases ==
    ASSUME NEW r \in Room, OverdueHeld(r), Fit(r)
    PROVE  Eases(r, ExpireCommit(r))
<1>1. CASE ~r.commit.overdue BY <1>1, SameKeeps DEF ExpireCommit
<1>2. CASE r.commit.overdue
  <2> DEFINE q == [r EXCEPT !.commit = NoCommit]
             d == r.commit.from
  <2>1. d \in Device /\ 0 \in Nat BY <1>2 DEF OverdueHeld, Room, HeldCommit, OptDevice
  <2>2. ExpireCommit(r) = Answer(q, d, RejectedEntry(0)) BY <1>2 DEF ExpireCommit
  <2>3. q \in Room /\ Eases(r, q) BY CommitReleasedGood, WithdrawnEases DEF Good
  <2> HIDE DEF q, d
  <2>4. Fit(q) BY <2>3, KeepsFit DEF Eases
  <2>5. Eases(q, Answer(q, d, RejectedEntry(0))) BY <2>1, <2>3, <2>4, RejectionEases
  <2>6. QED BY <2>2, <2>3, <2>5, ThenEases DEF Eases
<1>3. QED BY <1>1, <1>2

(* Two helpers in a row.                                                      *)
LEMMA EasesTrans ==
    ASSUME NEW r, NEW s, NEW t, Eases(r, s), Eases(s, t)
    PROVE  Eases(r, t)
BY ThenEases DEF Eases

(* The deadlines are settled one after the other.                             *)
LEMMA ExpireEases == ASSUME NEW r, Kept(r), Fit(r) PROVE Eases(r, Expire(r))
<1> DEFINE r1 == ExpireAway(r)
           r2 == ExpireAdmission(r1)
           r3 == ExpireApplication(r2)
           r4 == ExpireTransfer(r3)
           r5 == ExpireCommit(r4)
<1>0. Expire(r) = r5 BY DEF Expire
<1>1. Kept(r1) /\ Eases(r, r1) BY ExpireAwayGood, ExpireAwayEases, GoodKept DEF Kept
<1> HIDE DEF r1
<1>2. Fit(r1) BY <1>1, KeepsFit DEF Eases
<1>3. Kept(r2) /\ Eases(r1, r2)
    BY <1>1, <1>2, ExpireAdmissionGood, ExpireAdmissionEases, GoodKept DEF Kept
<1> HIDE DEF r2
<1>4. Fit(r2) BY <1>2, <1>3, KeepsFit DEF Eases
<1>5. Kept(r3) /\ Eases(r2, r3)
    BY <1>3, <1>4, ExpireApplicationGood, ExpireApplicationEases, GoodKept DEF Kept
<1> HIDE DEF r3
<1>6. Fit(r3) BY <1>4, <1>5, KeepsFit DEF Eases
<1>7. Kept(r4) /\ Eases(r3, r4) BY <1>5, ExpireTransferGood, WithdrawnEases, GoodKept DEF Kept
<1> HIDE DEF r4
<1>8. Fit(r4) BY <1>6, <1>7, KeepsFit DEF Eases
<1>9. Eases(r4, r5) BY <1>7, <1>8, ExpireCommitEases DEF Kept
<1> HIDE DEF r5
<1>10. Eases(r, r2) BY <1>1, <1>3, EasesTrans
<1>11. Eases(r, r3) BY <1>5, <1>10, EasesTrans
<1>12. Eases(r, r4) BY <1>7, <1>11, EasesTrans
<1>13. QED BY <1>0, <1>9, <1>12, EasesTrans

(* ... and the order is passed on.                                            *)
LEMMA SettleEases == ASSUME NEW r, Kept(r), Fit(r) PROVE Eases(r, Settle(r))
<1> DEFINE s == Expire(r)
<1>1. Eases(r, s) /\ s \in Room BY ExpireEases, ExpireGood DEF Good
<1> HIDE DEF s
<1>2. Eases(s, IssueNextGrant(s)) BY <1>1, IssueEases
<1>3. QED BY <1>1, <1>2, EasesTrans DEF Settle, s

(* A delivery that carries no frame.                                          *)
LEMMA AuthorizationEases ==
    ASSUME NEW r \in Room, Fit(r), NEW d \in Device, Established(r.members[d])
    PROVE  Eases(r, Deliver(r, {d}, AuthorizationEntry))
<1> DEFINE e == AuthorizationEntry
<1>1. e \in Entry /\ e.frame = 0 BY EntryTypes DEF AuthorizationEntry
<1> HIDE DEF e
<1>2. Keeps(r, Deliver(r, {d}, e), Reached(r, {d}), 0, {}) BY <1>1, DeliverKeeps
<1>3. QED BY <1>2, FeedsNothing DEF Eases, e

(****************************************************************************)
(* The markers.                                                             *)
(****************************************************************************)
(* The devices of f keep their place in g, and nobody gets before them.       *)
Lined(f, g) ==
    \A d \in Listed(f) :
        /\ d \in Listed(g)
        /\ \A e \in Listed(g) : g[e] < g[d] => e \in Listed(f) /\ f[e] < f[d]

(* No place lies beyond the number of devices listed.                         *)
Compact(f) == \A d \in Device : f[d] <= Cardinality(Listed(f))

(* A compact row stays compact, and keeps its order.                          *)
Aligned(f, g) == Compact(f) => Compact(g) /\ Lined(f, g)

(* What a helper does to the markers, and to the host, unless the room ends.  *)
Mild(r, s) ==
    /\ s.lifecycle = r.lifecycle /\ s.host = r.host
    /\ Aligned(r.zombies, s.zombies)

(* What an action does to the markers.                                        *)
Calm(r, s) ==
    \/ s.lifecycle = "retired"
    \/ s.lifecycle = r.lifecycle /\ Aligned(r.zombies, s.zombies)

(* A place is kept twice.                                                     *)
LEMMA AlignedTrans ==
    ASSUME NEW f, NEW g, NEW h, Aligned(f, g), Aligned(g, h)
    PROVE  Aligned(f, h)
<1>1. Lined(f, g) /\ Lined(g, h) => Lined(f, h) BY DEF Lined
<1>2. QED BY <1>1 DEF Aligned

(* Helpers compose.                                                           *)
LEMMA MildTrans ==
    ASSUME NEW r, NEW s, NEW t
    PROVE  /\ Mild(r, s) /\ Mild(s, t) => Mild(r, t)
           /\ Calm(r, s) /\ Calm(s, t) => Calm(r, t)
           /\ Mild(r, s) => Calm(r, s)
<1>1. Aligned(r.zombies, s.zombies) /\ Aligned(s.zombies, t.zombies) =>
          Aligned(r.zombies, t.zombies)
    BY AlignedTrans
<1>2. QED BY <1>1 DEF Mild, Calm

(* Markers that are left alone.                                               *)
LEMMA SameMild ==
    ASSUME NEW r, NEW s, s.lifecycle = r.lifecycle, s.zombies = r.zombies
    PROVE  Calm(r, s) /\ (s.host = r.host => Mild(r, s))
<1>1. Aligned(r.zombies, r.zombies) BY DEF Aligned, Lined
<1>2. QED BY <1>1 DEF Mild, Calm

(* New markers come behind the old ones.                                      *)
LEMMA MarkMild ==
    ASSUME NEW r \in Room, NEW S \in SUBSET Device
    PROVE  Mild(r, Mark(r, S))
<1> DEFINE f == r.zombies
           new == S \ Listed(f)
           g == Behind(r, new)
           early(d) == {e \in new : r.members[e].joined <= r.members[d].joined}
           n == Cardinality(Listed(f))
           k == Cardinality(new)
<1>1. f \in [Device -> Nat] BY DEF Room
<1>2. IsFiniteSet(S) /\ IsFiniteSet(new) /\ IsFiniteSet(Listed(f)) /\ new \subseteq Device
    BY DeviceAssumption, ListedFinite, FS_Subset
<1>3. /\ n \in Nat /\ k \in Nat
      /\ \A d \in Device : Cardinality(early(d)) \in Nat /\ Cardinality(early(d)) <= k
  <2>1. \A d \in Device : early(d) \subseteq new OBVIOUS
  <2> HIDE DEF early, new
  <2>2. QED BY <1>2, <2>1, FS_CardinalityType, FS_Subset
<1>4. \A d \in Device : g[d] = IF d \in new THEN n + Cardinality(early(d)) ELSE f[d]
    BY DEF Behind
<1>5. Mark(r, S).zombies = g BY DEF Mark, Room
<1>6. Listed(g) = Listed(f) \cup new
  <2>1. Listed(g) = Listed(f) \cup (S \cap Device) BY <1>2, <1>5, MarkListed
  <2>2. S \cap Device = S BY <1>2
  <2>3. QED BY <2>1, <2>2
<1>7. Cardinality(Listed(g)) = n + k
  <2>1. Listed(f) \cap new = {} OBVIOUS
  <2> HIDE DEF new, g
  <2>2. Cardinality(Listed(f) \cup new) = n + k - Cardinality(Listed(f) \cap new)
      BY <1>2, FS_Union
  <2>3. Cardinality(Listed(f) \cap new) = 0 BY <2>1, FS_EmptySet
  <2>4. n \in Nat /\ k \in Nat BY <1>3
  <2> HIDE DEF n, k
  <2>5. QED BY <1>6, <2>2, <2>3, <2>4
<1>8. Mark(r, S).lifecycle = r.lifecycle /\ Mark(r, S).host = r.host
  <2> DEFINE s == Mark(r, S)
  <2>1. s = [r EXCEPT !.zombies = s.zombies] BY <1>2, MarkType
  <2> HIDE DEF s
  <2>2. QED BY <2>1 DEF Room, s
<1>9. \A d \in Listed(f) : d \in Device /\ d \notin new BY DEF Listed
<1> HIDE DEF new, early, g, k, n, f
<1>10. ASSUME Compact(f) PROVE Compact(g) /\ Lined(f, g)
  <2>1. \A d \in Device : f[d] \in Nat /\ f[d] <= n BY <1>1, <1>10 DEF Compact, n
  <2>2. \A d \in Device : g[d] <= n + k
    <3> TAKE d \in Device
    <3>1. CASE d \in new BY <1>3, <1>4, <3>1
    <3>2. CASE d \notin new BY <1>3, <1>4, <2>1, <3>2
    <3>3. QED BY <3>1, <3>2
  <2>3. ASSUME NEW d \in Listed(f), NEW e \in Listed(g), g[e] < g[d]
        PROVE  e \in Listed(f) /\ f[e] < f[d]
    <3>1. d \in Device /\ g[d] = f[d] /\ f[d] <= n /\ f[d] \in Nat BY <1>4, <1>9, <2>1
    <3>2. e \in Device BY DEF Listed
    <3>3. CASE e \in new
      <4>1. g[e] = n + Cardinality(early(e)) BY <1>4, <3>2, <3>3
      <4>2. QED BY <1>3, <2>3, <3>1, <3>2, <4>1
    <3>4. CASE e \notin new
      <4>1. g[e] = f[e] BY <1>4, <3>2, <3>4
      <4>2. e \in Listed(f) BY <1>6, <3>4
      <4>3. QED BY <2>3, <3>1, <4>1, <4>2
    <3>5. QED BY <3>3, <3>4
  <2>4. Compact(g) BY <1>7, <2>2 DEF Compact
  <2>5. Lined(f, g) BY <1>6, <2>3 DEF Lined
  <2>6. QED BY <2>4, <2>5
<1>11. QED BY <1>5, <1>8, <1>10 DEF Mild, Aligned, f

(* A marker that is dropped closes the row behind it.                         *)
LEMMA WithoutLined ==
    ASSUME NEW f \in [Device -> Nat], NEW d \in Device, Compact(f)
    PROVE  LET g == Without(f, {d}) IN
           /\ Compact(g) /\ Listed(g) = Listed(f) \ {d}
           /\ \A x, y \in Listed(g) : g[y] < g[x] => f[y] < f[x]
<1> DEFINE g == Without(f, {d})
           T == Listed(f) \ {d}
           below(x) == {e \in T : f[e] <= f[x]}
<1>1. IsFiniteSet(T) /\ T \subseteq Device BY ListedFinite, FS_Subset
<1>2. \A x \in T : x \in below(x) BY DEF Listed
<1>3. \A x \in Device : /\ below(x) \subseteq T /\ IsFiniteSet(below(x))
                        /\ Cardinality(below(x)) \in Nat
                        /\ Cardinality(below(x)) <= Cardinality(T)
  <2>1. \A x \in Device : below(x) \subseteq T OBVIOUS
  <2> HIDE DEF below, T
  <2>2. QED BY <1>1, <2>1, FS_Subset, FS_CardinalityType
<1>4. \A x \in Device : g[x] = IF x \in T THEN Cardinality(below(x)) ELSE 0
    BY DEF Without
<1>5. Cardinality(T) \in Nat BY <1>1, FS_CardinalityType
<1> HIDE DEF g
<1>6. Listed(g) = T
  <2>1. \A x \in T : Cardinality(below(x)) # 0
    <3> TAKE x \in T
    <3>1. IsFiniteSet(below(x)) /\ x \in below(x) BY <1>1, <1>2, <1>3
    <3> HIDE DEF below
    <3>2. QED BY <3>1, FS_EmptySet
  <2> HIDE DEF T, below
  <2>2. QED BY <1>1, <1>4, <2>1 DEF Listed
<1>7. Compact(g)
  <2> HIDE DEF T, below
  <2>1. ASSUME NEW x \in Device PROVE g[x] <= Cardinality(T)
    <3>1. CASE x \in T BY <1>3, <1>4, <3>1
    <3>2. CASE x \notin T BY <1>4, <1>5, <3>2
    <3>3. QED BY <3>1, <3>2
  <2>2. QED BY <1>6, <2>1 DEF Compact
<1>8. ASSUME NEW x \in T, NEW y \in T, ~(f[y] < f[x]) PROVE ~(g[y] < g[x])
  <2>1. f[x] \in Nat /\ f[y] \in Nat /\ x \in Device /\ y \in Device BY <1>1
  <2>2. f[x] <= f[y] BY <1>8, <2>1
  <2>3. below(x) \subseteq below(y)
    <3>1. \A e \in T : f[e] \in Nat BY <1>1
    <3>2. QED BY <2>1, <2>2, <3>1
  <2> HIDE DEF below, T
  <2>4. Cardinality(below(x)) <= Cardinality(below(y)) BY <1>3, <2>1, <2>3, FS_Subset
  <2>5. QED BY <1>3, <1>4, <1>8, <2>1, <2>4
<1> HIDE DEF T, below
<1>9. QED BY <1>6, <1>7, <1>8 DEF g, T

(* Raising the barrier marks the admissions it ends.                          *)
LEMMA RaiseMild ==
    ASSUME NEW r \in Room
    PROVE  Mild(r, RaiseRemovalBarrier(r))
<1> DEFINE stale == InAdmission(r)
           held == {d \in ({r.application.from, r.commit.from} \cap Device) \ stale :
                      Established(r.members[d]) /\ ~r.members[d].fresh}
           lost == {d \in held : Full(r.members[d])}
           ms == [d \in Device |->
                          CASE d \in stale -> RetireMember(r.members[d])
                            [] d \in lost -> Evicted(r.members[d])
                            [] d \in held \ lost ->
                                 Given(r.members[d], RejectedEntry(r.application.order))
                            [] OTHER -> r.members[d]]
           cleared ==
            [r EXCEPT !.grant = NoGrant, !.queue = EmptyFifo, !.transfer = NoTransfer,
                      !.application = NoApplication, !.commit = NoCommit,
                      !.members = ms]
           added == {d \in stale : r.members[d].added}
           one == Mark(cleared, added)
           s == Mark(one, lost)
<1>0. s = RaiseRemovalBarrier(r) BY DEF RaiseRemovalBarrier
<1>1. \A d \in Device : r.members[d] \in Member BY DEF Room
<1>2. RejectedEntry(r.application.order) \in Entry
    BY EntryTypes DEF Room, HeldApplication
<1>3. \A d \in Device : ms[d] \in Member
  <2> TAKE d \in Device
  <2> HIDE DEF stale, held, lost
  <2>1. ms[d] \in {RetireMember(r.members[d]), Evicted(r.members[d]), r.members[d],
                   Given(r.members[d], RejectedEntry(r.application.order))}
      OBVIOUS
  <2>2. Given(r.members[d], RejectedEntry(r.application.order)) \in Member
      BY <1>1, <1>2, GivenType
  <2>3. QED BY <1>1, <2>1, <2>2, MemberTypes
<1>4. ms \in [Device -> Member] BY <1>3
<1>5. /\ cleared \in Room /\ cleared.zombies = r.zombies
      /\ cleared.lifecycle = r.lifecycle /\ cleared.host = r.host
  <2> HIDE DEF ms
  <2> QED BY <1>4, NoneTypes, FifoTypes DEF Room, EmptyFifo
<1>6. added \in SUBSET Device /\ lost \in SUBSET Device BY DEF InAdmission
<1>7. IsFiniteSet(added) BY <1>6, DeviceAssumption, FS_Subset
<1> HIDE DEF stale, held, lost, added, ms, cleared
<1>8. Mild(r, cleared) BY <1>5, SameMild
<1>9. Mild(cleared, one) /\ one \in Room BY <1>5, <1>6, <1>7, MarkMild, MarkType
<1> HIDE DEF one
<1>10. Mild(one, s) BY <1>6, <1>9, MarkMild
<1> HIDE DEF s
<1>11. QED BY <1>0, <1>8, <1>9, <1>10, MildTrans

(* A required removal.                                                        *)
LEMMA RequireRemovalMild ==
    ASSUME NEW r \in Room, NEW d \in Device
    PROVE  Mild(r, RequireRemoval(r, d))
<1> DEFINE q == Mark(r, {d})
<1>1. IsFiniteSet({d}) BY FS_Singleton
<1>2. q \in Room /\ Mild(r, q) BY <1>1, MarkType, MarkMild
<1>3. RequireRemoval(r, d) \in {q, RaiseRemovalBarrier(q)} BY DEF RequireRemoval
<1> HIDE DEF q
<1>4. Mild(q, RaiseRemovalBarrier(q)) BY <1>2, RaiseMild
<1>5. Mild(r, RaiseRemovalBarrier(q)) BY <1>2, <1>4, MildTrans
<1>6. QED BY <1>2, <1>3, <1>5

(* One of the members that are lost together joined first.                    *)
LEMMA Earliest ==
    ASSUME NEW r \in Room, NEW S \in SUBSET Device, S # {}
    PROVE  \E d \in S : \A e \in S : r.members[d].joined <= r.members[e].joined
<1> DEFINE j(d) == r.members[d].joined
           before(d) == {e \in S : j(e) < j(d)}
           T == {before(d) : d \in S}
<1>1. \A d \in S : j(d) \in Nat BY DEF Room, Member
<1>2. IsFiniteSet(S) BY DeviceAssumption, FS_Subset
<1>3. IsWellFoundedOn(StrictSubsetOrdering(S), SUBSET S)
    BY <1>2, FS_StrictSubsetOrderingWellFounded, FS_FiniteSubsetsOfFinite
<1> HIDE DEF j
<1>4. T \subseteq SUBSET S /\ T # {}
  <2>1. \A d \in S : before(d) \in SUBSET S OBVIOUS
  <2>2. \A d \in S : before(d) \in T OBVIOUS
  <2>3. \A A \in T : \E d \in S : A = before(d) OBVIOUS
  <2> HIDE DEF before, T
  <2>4. QED BY <2>1, <2>2, <2>3
<1> HIDE DEF T
<1>5. PICK A \in T : \A B \in T : <<B, A>> \notin StrictSubsetOrdering(S)
    BY <1>3, <1>4, WFMin
<1>6. PICK d \in S : A = before(d) BY <1>5 DEF T
<1>7. ASSUME NEW e \in S, j(e) < j(d) PROVE FALSE
  <2>1. before(e) \in T BY DEF T
  <2>2. before(e) \subseteq before(d) BY <1>1, <1>7
  <2>3. e \in before(d) /\ e \notin before(e) BY <1>1, <1>7
  <2> HIDE DEF before
  <2>4. before(e) \in SUBSET S /\ before(d) \in SUBSET S BY <1>4, <1>5, <1>6, <2>1
  <2>5. <<before(e), before(d)>> \in StrictSubsetOrdering(S)
      BY <2>2, <2>3, <2>4 DEF StrictSubsetOrdering
  <2>6. QED BY <1>5, <1>6, <2>1, <2>5
<1>8. \A e \in S : j(d) <= j(e) BY <1>1, <1>7
<1>9. QED BY <1>8 DEF j

(* An expulsion.                                                              *)
LEMMA ExpelMild ==
    ASSUME NEW r \in Room, NEW S \in SUBSET Device, S # {}
    PROVE  Mild(r, Expel(r, S))
<1> DEFINE first == CHOOSE d \in S : \A e \in S : r.members[d].joined <= r.members[e].joined
           ms == [d \in Device |-> IF d \in S THEN Evicted(r.members[d]) ELSE r.members[d]]
           gone ==
            [r EXCEPT !.members = ms,
                      !.queue = Without(r.queue, S),
                      !.grant = IF @.device \in S THEN NoGrant ELSE @,
                      !.application = IF @.from \in S THEN NoApplication ELSE @,
                      !.commit = IF @.from \in S THEN NoCommit ELSE @,
                      !.transfer = IF @.host \in S \/ @.target \in S THEN NoTransfer ELSE @]
           q == RequireRemoval(gone, first)
           s == Mark(q, S)
<1>0. Expel(r, S) = s BY DEF Expel
<1>1. \A d \in Device : r.members[d] \in Member BY DEF Room
<1>2. ms \in [Device -> Member] BY <1>1, MemberTypes
<1>3. Without(r.queue, S) \in [Device -> Nat] BY WithoutType DEF Room
<1>4. /\ gone \in Room /\ gone.zombies = r.zombies
      /\ gone.lifecycle = r.lifecycle /\ gone.host = r.host
  <2> HIDE DEF ms
  <2> QED BY <1>2, <1>3, NoneTypes DEF Room
<1> HIDE DEF ms, gone
<1>5. Mild(r, gone) BY <1>4, SameMild
<1>6. first \in Device BY Earliest
<1> HIDE DEF first
<1>7. Mild(gone, q) /\ q \in Room BY <1>4, <1>6, RequireRemovalMild, RequireRemovalGood DEF Good
<1> HIDE DEF q
<1>8. Mild(q, s) BY <1>7, MarkMild
<1> HIDE DEF s
<1>9. QED BY <1>0, <1>5, <1>7, <1>8, MildTrans

(* Members lost cost the room its life if one of them is the host.            *)
LEMMA LoseCalm ==
    ASSUME NEW r \in Room, NEW S \in SUBSET Device
    PROVE  Calm(r, Lose(r, S)) /\ (r.host \notin S => Mild(r, Lose(r, S)))
<1>1. CASE S = {} BY <1>1, SameMild DEF Lose
<1>2. CASE S # {} /\ r.host \in S
  <2>1. Lose(r, S) = RetireRoom(r) BY <1>2 DEF Lose
  <2>2. QED BY <1>2, <2>1, RetireRoomKeeps DEF Calm
<1>3. CASE S # {} /\ r.host \notin S
  <2>1. Lose(r, S) = Expel(r, S) BY <1>3 DEF Lose
  <2>2. QED BY <1>3, <2>1, ExpelMild, MildTrans
<1>4. QED BY <1>1, <1>2, <1>3

(* An admission that ends.                                                    *)
LEMMA RetireAdmissionMild ==
    ASSUME NEW r \in Room, NEW d \in Device
    PROVE  Mild(r, RetireAdmission(r, d))
<1> DEFINE n == RetireMember(r.members[d])
           q == [r EXCEPT !.members[d] = n]
<1>1. n \in Member BY MemberTypes DEF Room
<1>2. RetireAdmission(r, d) \in {q, RequireRemoval(q, d)} BY DEF RetireAdmission
<1> HIDE DEF n
<1>3. q \in Room /\ q.lifecycle = r.lifecycle /\ q.zombies = r.zombies /\ q.host = r.host
    BY <1>1 DEF Room
<1> HIDE DEF q
<1>4. Mild(r, q) /\ Mild(q, RequireRemoval(q, d)) BY <1>3, SameMild, RequireRemovalMild
<1>5. QED BY <1>2, <1>4, MildTrans

(* A delivery costs the room its life only if the host is to get it.          *)
LEMMA DeliverCalm ==
    ASSUME NEW r \in Room, NEW S \in SUBSET Device, NEW e \in Entry
    PROVE  Calm(r, Deliver(r, S, e)) /\ (r.host \notin S => Mild(r, Deliver(r, S, e)))
<1> DEFINE open == {d \in S : ~r.members[d].fresh}
           full == {d \in open : Full(r.members[d])}
           ms == [d \in Device |-> IF d \in open \ full THEN Given(r.members[d], e)
                                                        ELSE r.members[d]]
           given == [r EXCEPT !.queue = Without(@, open), !.members = ms]
           s == Lose(given, full)
<1>0. Deliver(r, S, e) = s BY DEF Deliver
<1>1. \A d \in Device : r.members[d] \in Member BY DEF Room
<1>2. ms \in [Device -> Member]
  <2> HIDE DEF open, full
  <2> QED BY <1>1, GivenType
<1>3. Without(r.queue, open) \in [Device -> Nat] BY WithoutType DEF Room
<1>4. /\ given \in Room /\ given.zombies = r.zombies
      /\ given.lifecycle = r.lifecycle /\ given.host = r.host
  <2> HIDE DEF ms, open
  <2> QED BY <1>2, <1>3 DEF Room
<1>5. full \in SUBSET Device /\ full \subseteq S OBVIOUS
<1> HIDE DEF open, full, ms, given
<1>6. Mild(r, given) /\ Calm(r, given) BY <1>4, SameMild
<1>7. Calm(given, s) /\ (r.host \notin S => Mild(given, s)) BY <1>4, <1>5, LoseCalm
<1> HIDE DEF s
<1>8. QED BY <1>0, <1>6, <1>7, MildTrans

(* So does a route, and an answer to another device does not.                 *)
LEMMA RouteCalm ==
    ASSUME NEW r \in Room, NEW d, NEW e \in Entry
    PROVE  Calm(r, Route(r, d, e))
BY DeliverCalm DEF Route

(* An answer to another device than the host does not cost the room its life. *)
LEMMA AnswerCalm ==
    ASSUME NEW r \in Room, NEW d \in Device, NEW e \in Entry
    PROVE  Calm(r, Answer(r, d, e)) /\ (d # r.host => Mild(r, Answer(r, d, e)))
<1>1. CASE Established(r.members[d])
  <2>1. Answer(r, d, e) = Deliver(r, {d}, e) BY <1>1 DEF Answer
  <2>2. {d} \in SUBSET Device /\ (d # r.host => r.host \notin {d}) OBVIOUS
  <2>3. PICK D \in SUBSET Device : D = {d} BY <2>2
  <2>4. Calm(r, Deliver(r, D, e)) /\ (r.host \notin D => Mild(r, Deliver(r, D, e)))
      BY DeliverCalm
  <2>5. QED BY <2>1, <2>3, <2>4
<1>2. CASE ~Established(r.members[d])
  <2>1. Answer(r, d, e) = r BY <1>2 DEF Answer
  <2>2. QED BY <2>1, SameMild
<1>3. QED BY <1>1, <1>2

(* An accepted frame.                                                         *)
LEMMA AcceptCalm ==
    ASSUME NEW r \in Room, NEW kind \in AcceptedKind, NEW from \in Device,
           NEW subject \in OptDevice, NEW order \in Nat
    PROVE  Calm(r, Accept(r, kind, from, subject, order))
<1> DEFINE i == Len(r.accepted) + 1
           q == Record(r, kind, from, subject, order)
           e == RelayEntry(i, order)
           a == AcceptedEntry(i, order)
           t == Route(q, from, e)
           s == Answer(t, from, a)
<1>0. s = Accept(r, kind, from, subject, order) BY DEF Accept
<1>1. i \in Nat
  <2>1. r.accepted \in Seq(Frame) BY DEF Room
  <2>2. QED BY <2>1
<1>2. e \in Entry /\ a \in Entry BY <1>1, EntryTypes
<1>3. q \in Room BY RecordGood DEF Good
<1>4. q.lifecycle = r.lifecycle /\ q.zombies = r.zombies BY DEF Record, Room
<1> HIDE DEF q, e, a, i
<1>5. Calm(r, q) BY <1>4, SameMild
<1>6. Calm(q, t) /\ t \in Room BY <1>2, <1>3, RouteCalm, RouteGood DEF Good
<1> HIDE DEF t
<1>7. Calm(t, s) BY <1>2, <1>6, AnswerCalm
<1> HIDE DEF s
<1>8. QED BY <1>0, <1>5, <1>6, <1>7, MildTrans

(* Handing the order out.                                                     *)
LEMMA IssueMild == ASSUME NEW r \in Room PROVE Mild(r, IssueNextGrant(r))
<1> DEFINE s == IssueNextGrant(r)
<1>1. s.lifecycle = r.lifecycle /\ s.zombies = r.zombies /\ s.host = r.host
    BY DEF IssueNextGrant, Room
<1>2. QED BY <1>1, SameMild

(* The helpers of an action, then the order.                                  *)
LEMMA ThenIssueMild ==
    ASSUME NEW r, NEW s \in Room
    PROVE  /\ Calm(r, s) => Calm(r, IssueNextGrant(s))
           /\ Mild(r, s) => Mild(r, IssueNextGrant(s))
BY IssueMild, MildTrans

(* Deadlines of others cost the room nothing.                                 *)
LEMMA ExpireAwayCalm ==
    ASSUME NEW r \in Room
    PROVE  /\ Calm(r, ExpireAway(r))
           /\ r.host \in Device => r.members[r.host].grace = "over" \/ Mild(r, ExpireAway(r))
           /\ r.host \notin Device => Mild(r, ExpireAway(r))
<1> DEFINE S == {d \in Device : r.members[d].grace = "over"}
<1>1. S \in SUBSET Device /\ (r.host \in S => r.host \in Device /\ r.members[r.host].grace = "over")
    OBVIOUS
<1>2. ExpireAway(r) = Lose(r, S) BY DEF ExpireAway
<1> HIDE DEF S
<1>3. QED BY <1>1, <1>2, LoseCalm

(* An admission that ran out costs nobody else a place.                       *)
LEMMA ExpireAdmissionMild == ASSUME NEW r \in Room PROVE Mild(r, ExpireAdmission(r))
<1>1. CASE \E d \in InAdmission(r) : r.members[d].admission = "over"
  <2> DEFINE a == CHOOSE d \in InAdmission(r) : r.members[d].admission = "over"
  <2>1. a \in InAdmission(r) BY <1>1
  <2>2. ExpireAdmission(r) = RetireAdmission(r, a) BY <1>1 DEF ExpireAdmission
  <2> HIDE DEF a
  <2>3. a \in Device BY <2>1 DEF InAdmission
  <2>4. QED BY <2>2, <2>3, RetireAdmissionMild
<1>2. CASE ~\E d \in InAdmission(r) : r.members[d].admission = "over"
    BY <1>2, SameMild DEF ExpireAdmission
<1>3. QED BY <1>1, <1>2

(* Nor does a transfer that ran out.                                          *)
LEMMA ExpireTransferMild == ASSUME NEW r \in Room PROVE Mild(r, ExpireTransfer(r))
<1> DEFINE s == ExpireTransfer(r)
<1>1. s.lifecycle = r.lifecycle /\ s.zombies = r.zombies /\ s.host = r.host
    BY DEF ExpireTransfer, Room
<1>2. QED BY <1>1, SameMild

(* A held operation is that of another device than the host.                  *)
HeldApart(r) == r.application.from # r.host /\ r.commit.from # r.host

(* A held application that ran out is answered.                               *)
LEMMA ExpireApplicationCalm ==
    ASSUME NEW r \in Room, OverdueHeld(r)
    PROVE  /\ Calm(r, ExpireApplication(r))
           /\ r.application.from # r.host => Mild(r, ExpireApplication(r))
<1>1. CASE ~r.application.overdue
    BY <1>1, SameMild DEF ExpireApplication
<1>2. CASE r.application.overdue
  <2> DEFINE q == Released(r)
             e == RejectedEntry(r.application.order)
  <2>1. r.application.from \in Device
      BY <1>2 DEF OverdueHeld, Room, HeldApplication, OptDevice
  <2>2. e \in Entry BY EntryTypes DEF Room, HeldApplication
  <2>3. q \in Room BY ReleasedGood DEF Good
  <2>4. ExpireApplication(r) = Answer(q, r.application.from, e)
      BY <1>2 DEF ExpireApplication, Released
  <2>5. q.lifecycle = r.lifecycle /\ q.zombies = r.zombies /\ q.host = r.host
      BY DEF Released, Room
  <2> HIDE DEF q, e
  <2>6. Mild(r, q) /\ Calm(r, q) BY <2>5, SameMild
  <2>7. PICK d \in Device : d = r.application.from BY <2>1
  <2>8. Calm(q, Answer(q, d, e)) /\ (d # r.host => Mild(q, Answer(q, d, e)))
      BY <2>2, <2>3, <2>5, AnswerCalm
  <2>9. QED BY <2>4, <2>6, <2>7, <2>8, MildTrans
<1>3. QED BY <1>1, <1>2

(* So is a held commit.                                                       *)
LEMMA ExpireCommitCalm ==
    ASSUME NEW r \in Room, OverdueHeld(r)
    PROVE  /\ Calm(r, ExpireCommit(r))
           /\ r.commit.from # r.host => Mild(r, ExpireCommit(r))
<1>1. CASE ~r.commit.overdue
    BY <1>1, SameMild DEF ExpireCommit
<1>2. CASE r.commit.overdue
  <2> DEFINE q == [r EXCEPT !.commit = NoCommit]
             e == RejectedEntry(0)
  <2>1. r.commit.from \in Device
      BY <1>2 DEF OverdueHeld, Room, HeldCommit, OptDevice
  <2>2. e \in Entry BY EntryTypes
  <2>3. q \in Room BY CommitReleasedGood DEF Good
  <2>4. ExpireCommit(r) = Answer(q, r.commit.from, e) BY <1>2 DEF ExpireCommit
  <2>5. q.lifecycle = r.lifecycle /\ q.zombies = r.zombies /\ q.host = r.host
      BY DEF Room
  <2> HIDE DEF q, e
  <2>6. Mild(r, q) /\ Calm(r, q) BY <2>5, SameMild
  <2>7. PICK d \in Device : d = r.commit.from BY <2>1
  <2>8. Calm(q, Answer(q, d, e)) /\ (d # r.host => Mild(q, Answer(q, d, e)))
      BY <2>2, <2>3, <2>5, AnswerCalm
  <2>9. QED BY <2>4, <2>6, <2>7, <2>8, MildTrans
<1>3. QED BY <1>1, <1>2

(* A helper gives the held operations back, and leaves the host alone.        *)
LEMMA HeldApartKept ==
    ASSUME NEW r, NEW s, Good(r, s), Mild(r, s), HeldApart(r), r.host # NoDevice
    PROVE  HeldApart(s) /\ s.host # NoDevice
BY DEF Good, Shrinks, Mild, HeldApart, NoApplication, NoCommit

(* The deadlines are settled one after the other.                             *)
LEMMA ExpireCalm ==
    ASSUME NEW r, Kept(r)
    PROVE  /\ Calm(r, Expire(r))
           /\ HeldApart(r) /\ r.host \in Device =>
                 r.members[r.host].grace = "over" \/ Mild(r, Expire(r))
<1> DEFINE r1 == ExpireAway(r)
           r2 == ExpireAdmission(r1)
           r3 == ExpireApplication(r2)
           r4 == ExpireTransfer(r3)
           r5 == ExpireCommit(r4)
<1>0. Expire(r) = r5 BY DEF Expire
<1>1. Good(r, r1) /\ Calm(r, r1)
      /\ (r.host \in Device => r.members[r.host].grace = "over" \/ Mild(r, r1))
    BY ExpireAwayGood, ExpireAwayCalm DEF Kept
<1> HIDE DEF r1
<1>2. Good(r1, r2) /\ Mild(r1, r2) BY <1>1, ExpireAdmissionGood, ExpireAdmissionMild DEF Good
<1> HIDE DEF r2
<1>3. Kept(r2) BY <1>1, <1>2, GoodKept
<1>4. Good(r2, r3) /\ Calm(r2, r3) /\ (r2.application.from # r2.host => Mild(r2, r3))
    BY <1>3, ExpireApplicationGood, ExpireApplicationCalm DEF Kept
<1> HIDE DEF r3
<1>5. Good(r3, r4) /\ Mild(r3, r4) BY <1>4, ExpireTransferGood, ExpireTransferMild DEF Good
<1> HIDE DEF r4
<1>6. Kept(r4) BY <1>3, <1>4, <1>5, GoodKept
<1>7. Calm(r4, r5) /\ (r4.commit.from # r4.host => Mild(r4, r5))
    BY <1>6, ExpireCommitCalm DEF Kept
<1> HIDE DEF r5
<1>8. Calm(r, r5)
  <2>1. Calm(r1, r2) /\ Calm(r3, r4) BY <1>2, <1>5, MildTrans
  <2>2. Calm(r, r3) BY <1>1, <1>4, <2>1, MildTrans
  <2>3. QED BY <1>7, <2>1, <2>2, MildTrans
<1>9. ASSUME HeldApart(r), r.host \in Device, r.members[r.host].grace # "over"
      PROVE  Mild(r, r5)
  <2>1. Mild(r, r1) /\ r.host # NoDevice BY <1>1, <1>9, DeviceAssumption
  <2>2. HeldApart(r1) /\ r1.host # NoDevice BY <1>1, <1>9, <2>1, HeldApartKept
  <2>3. HeldApart(r2) /\ r2.host # NoDevice BY <1>2, <2>2, HeldApartKept
  <2>4. Mild(r2, r3) BY <1>4, <2>3 DEF HeldApart
  <2>5. HeldApart(r3) /\ r3.host # NoDevice BY <1>4, <2>3, <2>4, HeldApartKept
  <2>6. HeldApart(r4) BY <1>5, <2>5, HeldApartKept
  <2>7. Mild(r4, r5) BY <1>7, <2>6 DEF HeldApart
  <2>8. Mild(r, r2) BY <1>2, <2>1, MildTrans
  <2>9. Mild(r, r4) BY <1>5, <2>4, <2>8, MildTrans
  <2>10. QED BY <2>7, <2>9, MildTrans
<1>10. QED BY <1>0, <1>8, <1>9
(****************************************************************************)
(* A host that has read everything.                                         *)
(****************************************************************************)
(* The host of the room, that has read everything and holds nothing back.     *)
Attentive(r) ==
    r.host \in Device /\ r.members[r.host].backlog = <<>> /\ HeldApart(r)

(* Raising the barrier tells such a host nothing.                             *)
LEMMA RaiseAttentive ==
    ASSUME NEW r \in Room, Attentive(r) PROVE Attentive(RaiseRemovalBarrier(r))
<1> DEFINE h == r.host
           stale == InAdmission(r)
           held == {d \in ({r.application.from, r.commit.from} \cap Device) \ stale :
                      Established(r.members[d]) /\ ~r.members[d].fresh}
           lost == {d \in held : Full(r.members[d])}
           ms == [d \in Device |->
                          CASE d \in stale -> RetireMember(r.members[d])
                            [] d \in lost -> Evicted(r.members[d])
                            [] d \in held \ lost ->
                                 Given(r.members[d], RejectedEntry(r.application.order))
                            [] OTHER -> r.members[d]]
           cleared ==
            [r EXCEPT !.grant = NoGrant, !.queue = EmptyFifo, !.transfer = NoTransfer,
                      !.application = NoApplication, !.commit = NoCommit,
                      !.members = ms]
           s == Mark(Mark(cleared, {d \in stale : r.members[d].added}), lost)
<1>1. s = RaiseRemovalBarrier(r) BY DEF RaiseRemovalBarrier
<1>2. s.members = ms
  <2> HIDE DEF ms, stale, lost
  <2> QED BY DEF Mark, Room
<1>3. h \in Device /\ h \notin held /\ h \notin lost BY DEF Attentive, HeldApart
<1>4. ms[h] \in {RetireMember(r.members[h]), r.members[h]}
  <2> HIDE DEF stale, held, lost
  <2> QED BY <1>3
<1>5. RetireMember(r.members[h]).backlog = <<>>
  <2>1. r.members[h] \in Member BY <1>3 DEF Room
  <2>2. QED BY <2>1 DEF RetireMember, ClearAdmission, Member
<1>6. ms[h].backlog = <<>> BY <1>4, <1>5 DEF Attentive
<1> HIDE DEF ms, s
<1>7. Good(r, s) /\ Mild(r, s) BY <1>1, RaiseGood, RaiseMild
<1>8. h # NoDevice BY <1>3, DeviceAssumption
<1>9. HeldApart(s) /\ s.host = h BY <1>7, <1>8, HeldApartKept DEF Attentive, Mild
<1>10. QED BY <1>1, <1>2, <1>3, <1>6, <1>9 DEF Attentive

(* A room with the same members and host, that holds no more operations.      *)
LEMMA AttentiveSame ==
    ASSUME NEW r, NEW s, Attentive(r), s.host = r.host,
           s.members[r.host].backlog = <<>>,
           s.application.from \in {r.application.from, NoDevice},
           s.commit.from \in {r.commit.from, NoDevice}
    PROVE  Attentive(s)
BY DeviceAssumption DEF Attentive, HeldApart

(* A marker leaves it attentive.                                              *)
LEMMA MarkAttentive ==
    ASSUME NEW r \in Room, NEW S, IsFiniteSet(S), Attentive(r) PROVE Attentive(Mark(r, S))
<1> DEFINE s == Mark(r, S)
<1>1. s = [r EXCEPT !.zombies = s.zombies] BY MarkType
<1> HIDE DEF s
<1>2. /\ s.host = r.host /\ s.members = r.members
      /\ s.application = r.application /\ s.commit = r.commit
    BY <1>1 DEF Room
<1>3. QED BY <1>2, AttentiveSame DEF s, Attentive

(* So does a required removal.                                                *)
LEMMA RequireRemovalAttentive ==
    ASSUME NEW r \in Room, NEW d \in Device, Attentive(r)
    PROVE  Attentive(RequireRemoval(r, d))
<1> DEFINE q == Mark(r, {d})
<1>1. IsFiniteSet({d}) BY FS_Singleton
<1>2. q \in Room /\ Attentive(q) BY <1>1, MarkType, MarkAttentive
<1>3. RequireRemoval(r, d) \in {q, RaiseRemovalBarrier(q)} BY DEF RequireRemoval
<1> HIDE DEF q
<1>4. QED BY <1>2, <1>3, RaiseAttentive

(* So do others that lose their place.                                        *)
LEMMA LoseAttentive ==
    ASSUME NEW r \in Room, NEW S \in SUBSET Device, Attentive(r), r.host \notin S
    PROVE  Attentive(Lose(r, S))
<1>1. CASE S = {} BY <1>1 DEF Lose
<1>2. CASE S # {}
  <2> DEFINE first == CHOOSE d \in S : \A e \in S : r.members[d].joined <= r.members[e].joined
             ms == [d \in Device |-> IF d \in S THEN Evicted(r.members[d]) ELSE r.members[d]]
             gone ==
               [r EXCEPT !.members = ms,
                         !.queue = Without(r.queue, S),
                         !.grant = IF @.device \in S THEN NoGrant ELSE @,
                         !.application = IF @.from \in S THEN NoApplication ELSE @,
                         !.commit = IF @.from \in S THEN NoCommit ELSE @,
                         !.transfer = IF @.host \in S \/ @.target \in S THEN NoTransfer ELSE @]
             q == RequireRemoval(gone, first)
             s == Mark(q, S)
  <2>1. Lose(r, S) = s BY <1>2 DEF Lose, Expel
  <2>2. \A d \in Device : r.members[d] \in Member BY DEF Room
  <2>3. ms \in [Device -> Member] /\ ms[r.host] = r.members[r.host]
      BY <2>2, MemberTypes DEF Attentive
  <2>4. Without(r.queue, S) \in [Device -> Nat] BY WithoutType DEF Room
  <2>5. /\ gone \in Room /\ gone.members = ms /\ gone.host = r.host
        /\ gone.application \in {r.application, NoApplication}
        /\ gone.commit \in {r.commit, NoCommit}
    <3> HIDE DEF ms
    <3> QED BY <2>3, <2>4, NoneTypes DEF Room
  <2> HIDE DEF ms, gone
  <2>6. Attentive(gone)
      BY <2>3, <2>5, AttentiveSame DEF Attentive, NoApplication, NoCommit
  <2>7. first \in Device BY <1>2, Earliest
  <2> HIDE DEF first
  <2>8. q \in Room /\ Attentive(q)
      BY <2>5, <2>6, <2>7, RequireRemovalAttentive, RequireRemovalGood DEF Good
  <2> HIDE DEF q
  <2>9. IsFiniteSet(S) BY DeviceAssumption, FS_Subset
  <2>10. QED BY <2>1, <2>8, <2>9, MarkAttentive
<1>3. QED BY <1>1, <1>2

(* And an admission that ends.                                                *)
LEMMA RetireAdmissionAttentive ==
    ASSUME NEW r \in Room, NEW d \in Device, Attentive(r)
    PROVE  Attentive(RetireAdmission(r, d))
<1> DEFINE n == RetireMember(r.members[d])
           q == [r EXCEPT !.members[d] = n]
<1>1. n \in Member /\ n.backlog = <<>>
  <2>1. r.members[d] \in Member BY DEF Room
  <2>2. n.backlog = <<>> BY <2>1 DEF RetireMember, ClearAdmission, Member
  <2>3. QED BY <2>1, <2>2, MemberTypes
<1>2. RetireAdmission(r, d) \in {q, RequireRemoval(q, d)} BY DEF RetireAdmission
<1> HIDE DEF n
<1>3. /\ q \in Room /\ q.host = r.host /\ q.application = r.application
      /\ q.commit = r.commit /\ q.members[r.host].backlog = <<>>
    BY <1>1 DEF Room, Attentive
<1> HIDE DEF q
<1>4. Attentive(q) BY <1>3, AttentiveSame
<1>5. QED BY <1>2, <1>3, <1>4, RequireRemovalAttentive

(* It has room for what the group is sent, so that the room goes on; and what *)
(* others are sent leaves it attentive.                                       *)
LEMMA DeliverAttentive ==
    ASSUME NEW r \in Room, NEW S \in SUBSET Device, NEW e \in Entry, Attentive(r)
    PROVE  /\ Mild(r, Deliver(r, S, e))
           /\ r.host \notin S => Attentive(Deliver(r, S, e))
<1> DEFINE h == r.host
           open == {d \in S : ~r.members[d].fresh}
           full == {d \in open : Full(r.members[d])}
           ms == [d \in Device |-> IF d \in open \ full THEN Given(r.members[d], e)
                                                        ELSE r.members[d]]
           given == [r EXCEPT !.queue = Without(@, open), !.members = ms]
<1>1. Deliver(r, S, e) = Lose(given, full) BY DEF Deliver
<1>2. \A d \in Device : r.members[d] \in Member BY DEF Room
<1>3. ms \in [Device -> Member]
  <2> HIDE DEF open, full
  <2> QED BY <1>2, GivenType
<1>4. Without(r.queue, open) \in [Device -> Nat] BY WithoutType DEF Room
<1>5. h \in Device /\ ~Full(r.members[h])
    BY BoundAssumption DEF Attentive, Full
<1>6. full \in SUBSET Device /\ h \notin full BY <1>5
<1>7. h \notin S => ms[h] = r.members[h] BY <1>5
<1>8. /\ given \in Room /\ given.zombies = r.zombies
      /\ given.lifecycle = r.lifecycle /\ given.host = r.host
      /\ given.application = r.application /\ given.commit = r.commit
      /\ given.members = ms
  <2> HIDE DEF ms, open
  <2> QED BY <1>3, <1>4 DEF Room
<1> HIDE DEF open, full, ms, given
<1>9. Mild(r, given) BY <1>8, SameMild
<1>10. Mild(given, Lose(given, full)) BY <1>6, <1>8, LoseCalm
<1>11. h \notin S => Attentive(given) BY <1>7, <1>8, AttentiveSame DEF Attentive
<1>12. h \notin S => Attentive(Lose(given, full)) BY <1>6, <1>8, <1>11, LoseAttentive
<1>13. QED BY <1>1, <1>9, <1>10, <1>12, MildTrans

(* An answer to it, and one to another device.                                *)
LEMMA AnswerAttentive ==
    ASSUME NEW r \in Room, NEW d \in Device, NEW e \in Entry, Attentive(r)
    PROVE  Mild(r, Answer(r, d, e)) /\ (d # r.host => Attentive(Answer(r, d, e)))
<1>1. CASE Established(r.members[d])
  <2>1. PICK D \in SUBSET Device : D = {d} OBVIOUS
  <2>2. Answer(r, d, e) = Deliver(r, D, e) BY <1>1, <2>1 DEF Answer
  <2>3. d # r.host => r.host \notin D BY <2>1
  <2>4. QED BY <2>2, <2>3, DeliverAttentive
<1>2. CASE ~Established(r.members[d])
  <2>1. Answer(r, d, e) = r BY <1>2 DEF Answer
  <2>2. QED BY <2>1, SameMild
<1>3. QED BY <1>1, <1>2

(* An accepted frame reaches it once: routed, or as the answer.               *)
LEMMA AcceptAttentive ==
    ASSUME NEW r \in Room, NEW kind \in AcceptedKind, NEW from \in Device,
           NEW subject \in OptDevice, NEW order \in Nat, Attentive(r)
    PROVE  Mild(r, Accept(r, kind, from, subject, order))
<1> DEFINE i == Len(r.accepted) + 1
           q == Record(r, kind, from, subject, order)
           e == RelayEntry(i, order)
           a == AcceptedEntry(i, order)
           S == {d \in Device \ {from} : Established(q.members[d])}
           t == Deliver(q, S, e)
           s == Answer(t, from, a)
<1>0. s = Accept(r, kind, from, subject, order) BY DEF Accept, Route
<1>1. i \in Nat
  <2>1. r.accepted \in Seq(Frame) BY DEF Room
  <2>2. QED BY <2>1
<1>2. e \in Entry /\ a \in Entry BY <1>1, EntryTypes
<1>3. q \in Room BY RecordGood DEF Good
<1>4. /\ q.lifecycle = r.lifecycle /\ q.zombies = r.zombies /\ q.host = r.host
      /\ q.members = r.members /\ q.application = r.application /\ q.commit = r.commit
    BY DEF Record, Room
<1> HIDE DEF q, e, a, i
<1>5. Mild(r, q) BY <1>4, SameMild
<1>6. Attentive(q) BY <1>4, AttentiveSame DEF Attentive
<1>7. S \in SUBSET Device /\ from \notin S OBVIOUS
<1> HIDE DEF S
<1>8. /\ Mild(q, t) /\ (q.host \notin S => Attentive(t)) /\ t \in Room
    BY <1>2, <1>3, <1>6, <1>7, DeliverAttentive, DeliverGood DEF Good
<1> HIDE DEF t
<1>9. CASE from = r.host
  <2>1. Attentive(t) BY <1>4, <1>7, <1>8, <1>9
  <2>2. Mild(t, s) BY <1>2, <1>8, <2>1, AnswerAttentive
  <2>3. QED BY <1>0, <1>5, <1>8, <2>2, MildTrans
<1>10. CASE from # r.host
  <2>1. from # t.host BY <1>4, <1>8, <1>10 DEF Mild
  <2>2. Mild(t, s) BY <1>2, <1>8, <2>1, AnswerCalm
  <2>3. QED BY <1>0, <1>5, <1>8, <2>2, MildTrans
<1>11. QED BY <1>9, <1>10

(* The deadlines of others leave it attentive.                                *)
LEMMA ExpireAttentive ==
    ASSUME NEW r, Kept(r), Attentive(r), r.members[r.host].grace # "over"
    PROVE  Attentive(Expire(r))
<1> DEFINE S == {d \in Device : r.members[d].grace = "over"}
           r1 == ExpireAway(r)
           r2 == ExpireAdmission(r1)
           r3 == ExpireApplication(r2)
           r4 == ExpireTransfer(r3)
           r5 == ExpireCommit(r4)
<1>0. Expire(r) = r5 BY DEF Expire
<1>1. Good(r, r1) /\ Attentive(r1)
  <2>1. S \in SUBSET Device /\ r.host \notin S /\ r \in Room BY DEF Kept
  <2>2. r1 = Lose(r, S) BY DEF ExpireAway
  <2> HIDE DEF S, r1
  <2>3. Attentive(r1) BY <2>1, <2>2, LoseAttentive
  <2>4. QED BY <2>1, <2>3, ExpireAwayGood DEF r1
<1> HIDE DEF r1
<1>2. Good(r1, r2) BY <1>1, ExpireAdmissionGood DEF Good
<1>3. Attentive(r2)
  <2>1. CASE \E d \in InAdmission(r1) : r1.members[d].admission = "over"
    <3> DEFINE a == CHOOSE d \in InAdmission(r1) : r1.members[d].admission = "over"
    <3>1. a \in InAdmission(r1) BY <2>1
    <3>2. r2 = RetireAdmission(r1, a) BY <2>1 DEF ExpireAdmission
    <3> HIDE DEF a, r2
    <3>3. a \in Device /\ r1 \in Room BY <1>1, <3>1 DEF InAdmission, Good
    <3>4. QED BY <1>1, <3>2, <3>3, RetireAdmissionAttentive
  <2>2. CASE ~\E d \in InAdmission(r1) : r1.members[d].admission = "over"
      BY <1>1, <2>2 DEF ExpireAdmission
  <2>3. QED BY <2>1, <2>2
<1> HIDE DEF r2
<1>4. Kept(r2) BY <1>1, <1>2, GoodKept
<1>5. Good(r2, r3) BY <1>4, ExpireApplicationGood DEF Kept
<1>6. Attentive(r3)
  <2>1. CASE ~r2.application.overdue BY <1>3, <2>1 DEF ExpireApplication
  <2>2. CASE r2.application.overdue
    <3> DEFINE q == Released(r2)
               e == RejectedEntry(r2.application.order)
    <3>1. r2.application.from \in Device /\ r2 \in Room
        BY <1>4, <2>2 DEF Kept, OverdueHeld, Room, HeldApplication, OptDevice
    <3>2. e \in Entry BY <3>1, EntryTypes DEF Room, HeldApplication
    <3>3. q \in Room BY <3>1, ReleasedGood DEF Good
    <3>4. r3 = Answer(q, r2.application.from, e)
        BY <2>2 DEF ExpireApplication, Released
    <3>5. /\ q.host = r2.host /\ q.members = r2.members /\ q.commit = r2.commit
          /\ q.application = NoApplication
        BY <3>1 DEF Released, Room
    <3> HIDE DEF q, e, r3
    <3>6. Attentive(q) BY <1>3, <3>5, AttentiveSame DEF Attentive, NoApplication
    <3>7. r2.application.from # q.host BY <1>3, <3>5 DEF Attentive, HeldApart
    <3>8. PICK d \in Device : d = r2.application.from BY <3>1
    <3>9. QED BY <3>2, <3>3, <3>4, <3>6, <3>7, <3>8, AnswerAttentive
  <2>3. QED BY <2>1, <2>2
<1> HIDE DEF r3
<1>7. Good(r3, r4) BY <1>5, ExpireTransferGood DEF Good
<1>8. Attentive(r4)
  <2>1. r3 \in Room BY <1>5 DEF Good
  <2>2. /\ r4.host = r3.host /\ r4.members = r3.members /\ r4.commit = r3.commit
        /\ r4.application = r3.application
      BY <2>1 DEF ExpireTransfer, Room
  <2> HIDE DEF r4
  <2>3. QED BY <1>6, <2>2, AttentiveSame DEF Attentive
<1> HIDE DEF r4
<1>9. Kept(r4) BY <1>4, <1>5, <1>7, GoodKept
<1>10. CASE ~r4.commit.overdue BY <1>0, <1>8, <1>10 DEF ExpireCommit
<1>11. CASE r4.commit.overdue
  <2> DEFINE q == [r4 EXCEPT !.commit = NoCommit]
             e == RejectedEntry(0)
  <2>1. r4.commit.from \in Device /\ r4 \in Room
      BY <1>9, <1>11 DEF Kept, OverdueHeld, Room, HeldCommit, OptDevice
  <2>2. e \in Entry BY EntryTypes
  <2>3. q \in Room BY <2>1, CommitReleasedGood DEF Good
  <2>4. r5 = Answer(q, r4.commit.from, e) BY <1>11 DEF ExpireCommit
  <2>5. /\ q.host = r4.host /\ q.members = r4.members
        /\ q.application = r4.application /\ q.commit = NoCommit
      BY <2>1 DEF Room
  <2> HIDE DEF q, e, r5
  <2>6. Attentive(q) BY <1>8, <2>5, AttentiveSame DEF Attentive, NoCommit
  <2>7. r4.commit.from # q.host BY <1>8, <2>5 DEF Attentive, HeldApart
  <2>8. PICK d \in Device : d = r4.commit.from BY <2>1
  <2>9. QED BY <1>0, <2>2, <2>3, <2>4, <2>6, <2>7, <2>8, AnswerAttentive
<1>12. QED BY <1>10, <1>11

=============================================================================
