---------------------------- MODULE FortPassProofs ----------------------------
(* What FortPass promises of a sale, for any number of sessions and requests: *)
(* HeldWhilePayable, RefundIsFinal, FulfilledWasGranted and GrantedOnce.      *)
EXTENDS FortPass, TLAPS

USE FortPassAssumption DEF Session, NoSession, IsLive

Place == {"idle", "claim", "create", "prior", "supersede", "bind",
          "ledger", "grant", "complete", "release",
          "event", "revoke", "eventComplete", "eventRelease"}
Number == 0..MaxSessions
Reservation == [token : Job, session : Number, lapsed : BOOLEAN]
Pass == [session : Session, active : BOOLEAN]
Redemption == [session : Session, revoked : BOOLEAN]
Endings == [at : {"ending"}, redemption : {None} \cup Redemption, revocation : Number]
Lease == [status : {"none", "complete"}] \cup [status : {"pending"}, token : Job]
Book == [Session -> Lease]
Jobs == [Job -> [at : Place, session : Number]]

(****************************************************************************)
(* The inductive invariant.  What a request knows of its session only grows  *)
(* (Knows); the reservation a checkout made stands until its session exists   *)
(* and is the only one open (Creating, Binding); a session that may be paid   *)
(* has the reservation (ShownReserved, HeldWhilePayable) and one that was     *)
(* granted never has it again (GrantedLeft), as nobody binds it twice.        *)
(****************************************************************************)
Paid == {s \in Session : sessions[s] = "paid"}

Typed ==
    /\ sessions \in [Session -> {"none", "open", "paid", "expired"}]
    /\ reservation \in {None} \cup Reservation
    /\ entitlement \in {None} \cup Pass
    /\ redemption \in {None} \cup Redemption
    /\ revocation \in Number
    /\ live \in {Down, Up} \cup Endings
    /\ ledger \in Book /\ events \in Book
    /\ job \in Jobs

Growing ==
    /\ shown \subseteq Created
    /\ Paid \subseteq shown
    /\ refunded \subseteq Paid /\ over \subseteq Paid /\ granted \subseteq Paid

(* Nothing is left for s that a fulfilment could make an active pass.         *)
Done(s) == ~ReservedFor(s) /\ ~(PassActive /\ entitlement.session = s)

Knows(p, s) ==
    /\ p \in {"ledger", "grant", "complete", "release"} => s \in Paid
    /\ p = "complete" => s \in granted
    /\ p \in {"event", "revoke", "eventComplete", "eventRelease"} => s \in refunded
    /\ p = "eventComplete" => Done(s)
    /\ p = "prior" => s \in Session
    /\ p = "supersede" => s \in Session /\ sessions[s] = "expired"
JobsKnow == \A j \in Job : Knows(job[j].at, job[j].session)

Holds(j) == Reserved /\ reservation.token = j
NoneOpen == \A s \in Session : sessions[s] # "open"
Creating ==
    \A j \in Job : At(j, "create") =>
      Holds(j) /\ reservation.session = NoSession /\ OnSale /\ NoneOpen

OnlyOpen(s) == \A t \in Session : sessions[t] = "open" => t = s
Binding ==
    \A j \in Job : At(j, "bind") =>
      /\ job[j].session \in Created \ shown
      /\ \A k \in Job : At(k, "bind") /\ job[k].session = job[j].session => k = j
      /\ Holds(j) => OnlyOpen(job[j].session)

ShownReserved == \A s \in shown : sessions[s] = "open" => ReservedFor(s)
GrantedLeft ==
    /\ \A s \in granted : ~ReservedFor(s)
    /\ entitlement # None => redemption # None /\ redemption.session = entitlement.session
    /\ redemption # None => redemption.session \in granted
    /\ live.at = "ending" /\ live.redemption # None => live.redemption.session \in granted
CompleteDone == \A s \in Session : events[s] = Complete => s \in refunded /\ Done(s)

RoomInv == Growing /\ ShownReserved /\ GrantedLeft /\ HeldWhilePayable
JobInv == JobsKnow /\ Creating /\ Binding
LedgerInv == CompleteDone /\ FulfilledWasGranted
IInv == Typed /\ RoomInv /\ JobInv /\ LedgerInv

(****************************************************************************)
(* Records and leases.                                                      *)
(****************************************************************************)
LEMMA ReservationShape ==
  ASSUME NEW r \in Reservation
  PROVE  /\ r # None /\ r.token \in Job /\ r.session \in Number
         /\ \A s \in Number : LET q == [r EXCEPT !.session = s] IN
              q \in Reservation /\ q.token = r.token /\ q.session = s /\ q.lapsed = r.lapsed
         /\ LET q == [r EXCEPT !.lapsed = TRUE] IN
              q \in Reservation /\ q.token = r.token /\ q.session = r.session /\ q.lapsed
<1>1. r # None /\ r.token \in Job /\ r.session \in Number /\ r.lapsed \in BOOLEAN
  BY DEF Reservation, None
<1>2. \A s \in Number :
        [r EXCEPT !.session = s] = [token |-> r.token, session |-> s, lapsed |-> r.lapsed]
  BY DEF Reservation
<1>3. \A b \in BOOLEAN :
        [r EXCEPT !.lapsed = b] = [token |-> r.token, session |-> r.session, lapsed |-> b]
  BY DEF Reservation
<1> QED BY <1>1, <1>2, <1>3 DEF Reservation

LEMMA NewReservationShape ==
  ASSUME NEW j \in Job
  PROVE  LET r == NewReservation(j) IN
         r \in Reservation /\ r # None /\ r.token = j /\ r.session = NoSession /\ ~r.lapsed
BY DEF NewReservation, Reservation, Number, None

LEMMA PassShape ==
  /\ \A e \in Pass : /\ e # None /\ e.session \in Session
                     /\ LET q == [e EXCEPT !.active = FALSE] IN
                          q \in Pass /\ q.session = e.session /\ ~q.active
  /\ \A s \in Session : LET q == [session |-> s, active |-> TRUE] IN
                          q \in Pass /\ q # None /\ q.session = s /\ q.active
<1>1. \A e \in Pass : e # None /\ e.session \in Session
  BY DEF Pass, None
<1>2. \A e \in Pass, b \in BOOLEAN :
        [e EXCEPT !.active = b] = [session |-> e.session, active |-> b]
  BY DEF Pass
<1>3. \A s \in Session, b \in BOOLEAN : [session |-> s, active |-> b] \in Pass
  BY DEF Pass
<1> QED BY <1>1, <1>2, <1>3

LEMMA RedemptionShape ==
  /\ \A e \in Redemption : /\ e # None /\ e.session \in Session
                           /\ LET q == [e EXCEPT !.revoked = TRUE] IN
                                q \in Redemption /\ q.session = e.session
  /\ \A s \in Session : LET q == [session |-> s, revoked |-> FALSE] IN
                          q \in Redemption /\ q # None /\ q.session = s
<1>1. \A e \in Redemption : e # None /\ e.session \in Session
  BY DEF Redemption, None
<1>2. \A e \in Redemption, b \in BOOLEAN :
        [e EXCEPT !.revoked = b] = [session |-> e.session, revoked |-> b]
  BY DEF Redemption
<1>3. \A s \in Session, b \in BOOLEAN : [session |-> s, revoked |-> b] \in Redemption
  BY DEF Redemption
<1> QED BY <1>1, <1>2, <1>3

LEMMA LiveShape ==
  /\ Down.at = "down" /\ Up.at = "up"
  /\ \A r \in {None} \cup Redemption, v \in Number :
       LET e == Ending(r, v) IN
         e \in Endings /\ e.at = "ending" /\ e.redemption = r /\ e.revocation = v
  /\ \A e \in Endings : /\ e.at = "ending" /\ e.redemption \in {None} \cup Redemption
                         /\ e.revocation \in Number
BY DEF Down, Up, Ending, Endings

LEMMA LeaseShape ==
  /\ Complete \in Lease /\ Unclaimed \in Lease /\ Unclaimed # Complete
  /\ \A j \in Job : Pending(j) \in Lease /\ Pending(j) # Complete
BY DEF Complete, Unclaimed, Pending, Lease

(* What the three steps on a ledger do to it and to the request.              *)
Moves(j, p, s) ==
    /\ job' \in Jobs /\ job'[j].at = p /\ job'[j].session = s
    /\ \A k \in Job : k # j => job'[k] = job[k]

LEMMA JobMoves ==
  ASSUME job \in Jobs, NEW j \in Job
  PROVE  /\ \A p \in Place, s \in Number : Goes(j, p, s) => Moves(j, p, s)
         /\ \A p \in Place : Continues(j, p) => Moves(j, p, job[j].session)
         /\ Ends(j) => Moves(j, "idle", NoSession)
<1>1. ASSUME NEW p \in Place, NEW s \in Number, Goes(j, p, s)
      PROVE  Moves(j, p, s)
  BY <1>1 DEF Goes, Moves, Jobs
<1>2. ASSUME NEW p \in Place, Continues(j, p)
      PROVE  Moves(j, p, job[j].session)
  BY <1>2 DEF Continues, Moves, Jobs
<1>3. ASSUME Ends(j)
      PROVE  Moves(j, "idle", NoSession)
  BY <1>3 DEF Ends, Idle, Moves, Jobs, Place, Number
<1> QED BY <1>1, <1>2, <1>3

(* A book changes at the request's session only, and is complete there only   *)
(* by the request that completes it.                                          *)
LEMMA LedgerMoves ==
  ASSUME Typed, NEW j \in Job, NEW s \in Session, NEW p \in Place, job[j].session = s
  PROVE  /\ Claimed(j, ledger, s, p) =>
              /\ ledger' \in Book /\ \A t \in Session : ledger'[t] = Complete => ledger[t] = Complete
              /\ Moves(j, p, s) \/ Moves(j, "idle", NoSession)
         /\ Completed(j, ledger, s) =>
              /\ ledger' \in Book
              /\ \A t \in Session \ {s} : ledger'[t] = Complete => ledger[t] = Complete
              /\ Moves(j, "idle", NoSession)
         /\ Released(j, ledger, s) =>
              /\ ledger' \in Book /\ \A t \in Session : ledger'[t] = Complete => ledger[t] = Complete
              /\ Moves(j, "idle", NoSession)
<1>1. ledger \in [Session -> Lease] /\ job \in Jobs
  BY DEF Typed, Book
<1>2. ASSUME Claimed(j, ledger, s, p)
      PROVE  /\ ledger' \in Book
             /\ \A t \in Session : ledger'[t] = Complete => ledger[t] = Complete
             /\ Moves(j, p, s) \/ Moves(j, "idle", NoSession)
  BY <1>1, <1>2, LeaseShape, JobMoves DEF Claimed, Book
<1>3. ASSUME Completed(j, ledger, s)
      PROVE  /\ ledger' \in Book
             /\ \A t \in Session \ {s} : ledger'[t] = Complete => ledger[t] = Complete
             /\ Moves(j, "idle", NoSession)
  BY <1>1, <1>3, LeaseShape, JobMoves DEF Completed, Book
<1>4. ASSUME Released(j, ledger, s)
      PROVE  /\ ledger' \in Book
             /\ \A t \in Session : ledger'[t] = Complete => ledger[t] = Complete
             /\ Moves(j, "idle", NoSession)
  BY <1>1, <1>4, LeaseShape, JobMoves DEF Released, Book
<1> QED BY <1>2, <1>3, <1>4

LEMMA EventMoves ==
  ASSUME Typed, NEW j \in Job, NEW s \in Session, NEW p \in Place, job[j].session = s
  PROVE  /\ Claimed(j, events, s, p) =>
              /\ events' \in Book /\ \A t \in Session : events'[t] = Complete => events[t] = Complete
              /\ Moves(j, p, s) \/ Moves(j, "idle", NoSession)
         /\ Completed(j, events, s) =>
              /\ events' \in Book
              /\ \A t \in Session \ {s} : events'[t] = Complete => events[t] = Complete
              /\ Moves(j, "idle", NoSession)
         /\ Released(j, events, s) =>
              /\ events' \in Book /\ \A t \in Session : events'[t] = Complete => events[t] = Complete
              /\ Moves(j, "idle", NoSession)
<1>1. events \in [Session -> Lease] /\ job \in Jobs
  BY DEF Typed, Book
<1>2. ASSUME Claimed(j, events, s, p)
      PROVE  /\ events' \in Book
             /\ \A t \in Session : events'[t] = Complete => events[t] = Complete
             /\ Moves(j, p, s) \/ Moves(j, "idle", NoSession)
  BY <1>1, <1>2, LeaseShape, JobMoves DEF Claimed, Book
<1>3. ASSUME Completed(j, events, s)
      PROVE  /\ events' \in Book
             /\ \A t \in Session \ {s} : events'[t] = Complete => events[t] = Complete
             /\ Moves(j, "idle", NoSession)
  BY <1>1, <1>3, LeaseShape, JobMoves DEF Completed, Book
<1>4. ASSUME Released(j, events, s)
      PROVE  /\ events' \in Book
             /\ \A t \in Session : events'[t] = Complete => events[t] = Complete
             /\ Moves(j, "idle", NoSession)
  BY <1>1, <1>4, LeaseShape, JobMoves DEF Released, Book
<1> QED BY <1>2, <1>3, <1>4

(****************************************************************************)
(* What a request knows lasts: for the steps of one request that is neither   *)
(* about to create a session nor to bind one.                                 *)
(****************************************************************************)
LEMMA KnowledgeLasts ==
  ASSUME JobsKnow, job \in Jobs, NEW j \in Job, NEW p \in Place, NEW s \in Number,
         Moves(j, p, s), Knows(p, s)',
         \A q \in Place, t \in Number : Knows(q, t) => Knows(q, t)'
  PROVE  JobsKnow'
<1> SUFFICES ASSUME NEW k \in Job PROVE Knows(job[k].at, job[k].session)'
  BY DEF JobsKnow
<1>1. CASE k = j
  BY <1>1 DEF Moves, Knows
<1>2. CASE k # j
  <2>1. job'[k] = job[k] /\ job[k].at \in Place /\ job[k].session \in Number
    BY <1>2 DEF Moves, Jobs
  <2>2. Knows(job[k].at, job[k].session)
    BY DEF JobsKnow
  <2> QED BY <2>1, <2>2 DEF Knows
<1> QED BY <1>1, <1>2

LEMMA Quiet ==
  ASSUME IInv, NEW j \in Job, NEW p \in Place \ {"create", "bind"}, NEW s \in Number,
         Moves(j, p, s), Knows(p, s), UNCHANGED <<stripe, roomObject>>,
         ledger' \in Book, events' \in Book
  PROVE  Typed' /\ RoomInv' /\ JobInv'
<1> USE DEF IInv, stripe, roomObject
<1>1. Typed'
  BY DEF Typed, Moves
<1>2. RoomInv'
  BY DEF RoomInv, Growing, Paid, Created, ShownReserved, ReservedFor, GrantedLeft,
         HeldWhilePayable, Payable, Verified, PassActive, Reserved
<1>3. \A q \in Place, t \in Number : Knows(q, t)' <=> Knows(q, t)
  BY DEF Knows, Paid, Done, ReservedFor, PassActive
<1>4. JobsKnow'
  BY <1>3, KnowledgeLasts DEF JobInv, Typed
<1>5. \A k \in Job : At(k, "create")' => At(k, "create")
  BY DEF At, Moves
<1>6. Creating'
  BY <1>5 DEF JobInv, Creating, Holds, Reserved, OnSale, PassActive, NoneOpen
<1>7. \A k \in Job : At(k, "bind")' => At(k, "bind") /\ job'[k] = job[k]
  BY DEF At, Moves
<1>8. Binding'
  BY <1>7 DEF JobInv, Binding, Created, Holds, Reserved, OnlyOpen
<1> QED BY <1>1, <1>2, <1>4, <1>6, <1>8 DEF JobInv

LEMMA LedgersQuiet ==
  ASSUME IInv, UNCHANGED <<stripe, roomObject, ledgers>>
  PROVE  LedgerInv' /\ ledger' \in Book /\ events' \in Book
BY DEF IInv, Typed, LedgerInv, CompleteDone, FulfilledWasGranted, Done, ReservedFor, PassActive,
       stripe, roomObject, ledgers

(****************************************************************************)
(* One lemma per action: first those that change neither Stripe nor the room. *)
(****************************************************************************)
LEMMA ResolvePriorKeeps ==
  ASSUME IInv, NEW j \in Job, ResolvePrior(j)
  PROVE  IInv'
<1> DEFINE s == job[j].session
<1>1. job \in Jobs /\ s \in Session /\ s \in Number /\ NoSession \in Number
  <2>1. Knows("prior", s) /\ job \in Jobs
    BY DEF IInv, Typed, JobInv, JobsKnow, ResolvePrior, At
  <2> QED BY <2>1 DEF Knows, Number
<1>2. \E p \in {"ledger", "supersede", "idle"}, t \in Number : Moves(j, p, t) /\ Knows(p, t)
  <2>1. CASE Resolution(s) = "verified"
    <3>1. Moves(j, "ledger", s)
      BY <1>1, <2>1, JobMoves DEF ResolvePrior, Place
    <3>2. Knows("ledger", s)
      BY <1>1, <2>1 DEF Resolution, Verified, Knows, Paid
    <3> QED BY <1>1, <3>1, <3>2
  <2>2. CASE Resolution(s) = "expired unpaid"
    <3>1. Moves(j, "supersede", s)
      BY <1>1, <2>2, JobMoves DEF ResolvePrior, Place
    <3>2. Knows("supersede", s)
      BY <1>1, <2>2 DEF Resolution, Knows
    <3> QED BY <1>1, <3>1, <3>2
  <2>3. CASE Resolution(s) \notin {"verified", "expired unpaid"}
    <3>1. Moves(j, "idle", NoSession)
      BY <1>1, <2>3, JobMoves DEF ResolvePrior
    <3> QED BY <1>1, <3>1 DEF Knows
  <2> QED BY <2>1, <2>2, <2>3
<1> QED BY <1>2, LedgersQuiet, Quiet DEF IInv, ResolvePrior, Place

LEMMA LoseKeeps ==
  ASSUME IInv, NEW j \in Job, Lose(j)
  PROVE  IInv'
<1>1. Moves(j, "idle", NoSession) /\ NoSession \in Number
  BY JobMoves DEF IInv, Typed, Lose, Number
<1>2. Knows("idle", NoSession)
  BY DEF Knows
<1> QED BY <1>1, <1>2, LedgersQuiet, Quiet DEF IInv, Lose, Place

LEMMA FulfilKeeps ==
  ASSUME IInv, NEW j \in Job, NEW s \in Session, Fulfil(j, s)
  PROVE  IInv'
<1>1. Moves(j, "ledger", s) /\ s \in Number
  BY JobMoves DEF IInv, Typed, Fulfil, Number, Place
<1>2. Knows("ledger", s)
  BY DEF Knows, Fulfil, Verified, Paid
<1> QED BY <1>1, <1>2, LedgersQuiet, Quiet DEF IInv, Fulfil, Place

LEMMA DisputeKeeps ==
  ASSUME IInv, NEW j \in Job, NEW s \in Session, Dispute(j, s)
  PROVE  IInv'
<1>1. Moves(j, "event", s) /\ s \in Number
  BY JobMoves DEF IInv, Typed, Dispute, Number, Place
<1>2. Knows("event", s)
  BY DEF Knows, Dispute
<1> QED BY <1>1, <1>2, LedgersQuiet, Quiet DEF IInv, Dispute, Place

(* The steps of a fulfilment at its ledger.                                   *)
LEMMA LedgerStepKeeps ==
  ASSUME IInv, NEW j \in Job, ClaimLedger(j) \/ CompleteLedger(j) \/ ReleaseLedger(j)
  PROVE  IInv'
<1> DEFINE s == job[j].session
<1>1. s \in Paid /\ s \in Session /\ s \in Number /\ NoSession \in Number
  BY DEF IInv, JobInv, JobsKnow, Knows, ClaimLedger, CompleteLedger, ReleaseLedger, At, Number, Paid
<1>2. Typed /\ "grant" \in Place
  BY DEF IInv, Place
<1>3. UNCHANGED <<stripe, roomObject, events>>
  BY DEF ClaimLedger, CompleteLedger, ReleaseLedger
<1>4. /\ ledger' \in Book
      /\ \A t \in Session : ledger'[t] = Complete => ledger[t] = Complete \/ t \in granted
      /\ Moves(j, "grant", s) \/ Moves(j, "idle", NoSession)
  <2>1. CASE ClaimLedger(j)
    BY <1>1, <1>2, <2>1, LedgerMoves DEF ClaimLedger
  <2>2. CASE CompleteLedger(j)
    <3>1. s \in granted
      BY <2>2 DEF IInv, JobInv, JobsKnow, Knows, CompleteLedger, At
    <3> QED BY <1>1, <1>2, <2>2, <3>1, LedgerMoves DEF CompleteLedger
  <2>3. CASE ReleaseLedger(j)
    BY <1>1, <1>2, <2>3, LedgerMoves DEF ReleaseLedger
  <2> QED BY <2>1, <2>2, <2>3
<1>5. Knows("grant", s) /\ Knows("idle", NoSession)
  BY <1>1 DEF Knows
<1>6. Typed' /\ RoomInv' /\ JobInv'
  BY <1>1, <1>2, <1>3, <1>4, <1>5, Quiet DEF Typed, Place
<1>7. LedgerInv'
  BY <1>3, <1>4 DEF IInv, LedgerInv, CompleteDone, FulfilledWasGranted, Done, ReservedFor,
                    PassActive, stripe, roomObject
<1> QED BY <1>6, <1>7 DEF IInv

(* The steps of a revocation at its ledger.                                   *)
LEMMA EventStepKeeps ==
  ASSUME IInv, NEW j \in Job, ClaimEvent(j) \/ CompleteEvent(j) \/ ReleaseEvent(j)
  PROVE  IInv'
<1> DEFINE s == job[j].session
<1>1. s \in refunded /\ s \in Session /\ s \in Number /\ NoSession \in Number
  <2>1. Knows(job[j].at, s) /\ job[j].at \in {"event", "eventComplete", "eventRelease"}
    BY DEF IInv, JobInv, JobsKnow, ClaimEvent, CompleteEvent, ReleaseEvent, At
  <2>2. s \in refunded
    BY <2>1 DEF Knows
  <2>3. refunded \subseteq Session
    BY DEF IInv, RoomInv, Growing, Paid
  <2>4. s \in Session
    BY <2>2, <2>3
  <2> QED BY <2>2, <2>4 DEF Number
<1>2. Typed /\ "revoke" \in Place
  BY DEF IInv, Place
<1>3. UNCHANGED <<stripe, roomObject, ledger>>
  BY DEF ClaimEvent, CompleteEvent, ReleaseEvent
<1>4. /\ events' \in Book
      /\ \A t \in Session :
           events'[t] = Complete => events[t] = Complete \/ (t \in refunded /\ Done(t))
      /\ Moves(j, "revoke", s) \/ Moves(j, "idle", NoSession)
  <2>1. CASE ClaimEvent(j)
    BY <1>1, <1>2, <2>1, EventMoves DEF ClaimEvent
  <2>2. CASE CompleteEvent(j)
    <3>1. Done(s)
      BY <2>2 DEF IInv, JobInv, JobsKnow, Knows, CompleteEvent, At
    <3> QED BY <1>1, <1>2, <2>2, <3>1, EventMoves DEF CompleteEvent
  <2>3. CASE ReleaseEvent(j)
    BY <1>1, <1>2, <2>3, EventMoves DEF ReleaseEvent
  <2> QED BY <2>1, <2>2, <2>3
<1>5. Knows("revoke", s) /\ Knows("idle", NoSession)
  BY <1>1 DEF Knows
<1>6. Typed' /\ RoomInv' /\ JobInv'
  BY <1>1, <1>2, <1>3, <1>4, <1>5, Quiet DEF Typed, Place
<1>7. LedgerInv'
  BY <1>3, <1>4 DEF IInv, LedgerInv, CompleteDone, FulfilledWasGranted, Done, ReservedFor,
                    PassActive, stripe, roomObject
<1> QED BY <1>6, <1>7 DEF IInv

(****************************************************************************)
(* Leases and the states of the sessions.                                   *)
(****************************************************************************)
LEMMA LeaseLapsesKeeps ==
  ASSUME IInv, NEW s \in Session, LeaseLapses(s) \/ EventLeaseLapses(s)
  PROVE  IInv'
<1>1. UNCHANGED <<stripe, roomObject, job>>
  BY DEF LeaseLapses, EventLeaseLapses
<1>2. /\ ledger' \in Book /\ events' \in Book
      /\ \A t \in Session : /\ ledger'[t] = Complete => ledger[t] = Complete
                            /\ events'[t] = Complete => events[t] = Complete
  BY LeaseShape DEF IInv, Typed, Book, LeaseLapses, EventLeaseLapses
<1>3. Typed'
  BY <1>1, <1>2 DEF IInv, Typed, stripe, roomObject
<1>4. RoomInv'
  BY <1>1 DEF IInv, RoomInv, Growing, Paid, Created, ShownReserved, ReservedFor, GrantedLeft,
              HeldWhilePayable, Payable, Verified, PassActive, Reserved, stripe, roomObject
<1>5. JobInv'
  BY <1>1 DEF IInv, JobInv, JobsKnow, Knows, Paid, Done, ReservedFor, PassActive, Creating, At,
              Holds, Reserved, OnSale, NoneOpen, Binding, Created, OnlyOpen, stripe, roomObject
<1>6. LedgerInv'
  BY <1>1, <1>2 DEF IInv, LedgerInv, CompleteDone, FulfilledWasGranted, Done, ReservedFor,
                    PassActive, stripe, roomObject
<1> QED BY <1>3, <1>4, <1>5, <1>6 DEF IInv

(* A session that was open is paid or expires, or a payment is refunded.      *)
LEMMA StripeKeeps ==
  ASSUME IInv, NEW s \in Session, Pay(s) \/ ExpireSession(s) \/ Refund(s)
  PROVE  IInv'
<1> USE DEF IInv, Stays, roomObject, ledgers, Pay, ExpireSession, Refund
<1>1. /\ UNCHANGED <<roomObject, ledgers, job, over, shown>>
      /\ \A t \in Session \ {s} : sessions'[t] = sessions[t]
      /\ \/ /\ sessions[s] = "open" /\ sessions'[s] \in {"paid", "expired"} /\ refunded' = refunded
            /\ sessions'[s] = "paid" => s \in shown
         \/ /\ sessions[s] = "paid" /\ sessions' = sessions /\ refunded' = refunded \cup {s}
  BY DEF Typed
<1>2. Typed'
  BY DEF Typed
<1>3. RoomInv'
  <2>1. Growing'
    BY <1>1 DEF RoomInv, Growing, Paid, Created
  <2>2. ShownReserved' /\ GrantedLeft'
    BY <1>1 DEF RoomInv, Growing, Created, ShownReserved, GrantedLeft, ReservedFor
  <2>3. ASSUME NEW t \in Session, Payable(t)' PROVE Payable(t)
    BY <1>1, <2>3 DEF Payable, Verified
  <2>4. HeldWhilePayable'
    BY <1>1, <2>3 DEF RoomInv, HeldWhilePayable, Payable, Verified, PassActive, Reserved, ReservedFor,
                      ShownReserved
  <2> QED BY <2>1, <2>2, <2>4 DEF RoomInv
<1>4. JobInv'
  <2>1. JobsKnow'
    BY <1>1 DEF JobInv, JobsKnow, Knows, Paid, Done, ReservedFor, PassActive, Typed, Jobs
  <2>2. Creating'
    BY <1>1 DEF JobInv, Creating, At, Holds, Reserved, OnSale, PassActive, NoneOpen
  <2>3. Binding'
    BY <1>1 DEF JobInv, Binding, At, Created, Holds, Reserved, OnlyOpen
  <2> QED BY <2>1, <2>2, <2>3 DEF JobInv
<1>5. LedgerInv'
  BY <1>1 DEF LedgerInv, CompleteDone, FulfilledWasGranted, Done, ReservedFor, PassActive
<1> QED BY <1>2, <1>3, <1>4, <1>5

LEMMA FourteenDaysKeeps ==
  ASSUME IInv, NEW s \in Session, FourteenDays(s)
  PROVE  IInv'
<1> USE DEF IInv, roomObject, ledgers, FourteenDays
<1>1. Typed'
  BY DEF Typed
<1>2. RoomInv'
  BY DEF RoomInv, Growing, Paid, Created, ShownReserved, ReservedFor, GrantedLeft,
         HeldWhilePayable, Payable, Verified, PassActive, Reserved
<1>3. JobInv'
  BY DEF JobInv, JobsKnow, Knows, Paid, Done, ReservedFor, PassActive, Creating, At,
         Holds, Reserved, OnSale, NoneOpen, Binding, Created, OnlyOpen
<1>4. LedgerInv'
  BY DEF LedgerInv, CompleteDone, FulfilledWasGranted, Done, ReservedFor, PassActive
<1> QED BY <1>1, <1>2, <1>3, <1>4

(****************************************************************************)
(* The room object.                                                         *)
(****************************************************************************)
LEMMA SetUpKeeps ==
  ASSUME IInv, SetUp
  PROVE  IInv'
<1> USE DEF IInv, stripe, ledgers, SetUp
<1>0. live'.at = "up"
  BY LiveShape
<1>1. Typed'
  BY DEF Typed
<1>2. RoomInv'
  BY <1>0 DEF RoomInv, Growing, Paid, Created, ShownReserved, ReservedFor, GrantedLeft, Forgettable,
         HeldWhilePayable, Payable, Verified, PassActive, Reserved
<1>3. JobInv'
  BY <1>0 DEF JobInv, JobsKnow, Knows, Paid, Done, ReservedFor, PassActive, Creating, At, Forgettable,
         Holds, Reserved, OnSale, NoneOpen, Binding, Created, OnlyOpen
<1>4. LedgerInv'
  BY DEF LedgerInv, CompleteDone, FulfilledWasGranted, Done, ReservedFor, PassActive, Forgettable
<1> QED BY <1>1, <1>2, <1>3, <1>4

(* A room that ends, or does not after all, sells nothing meanwhile.          *)
LEMMA EndingKeeps ==
  ASSUME IInv, DestroyReads \/ DestroyFails
  PROVE  IInv'
<1> USE DEF IInv, stripe, ledgers, DestroyReads, DestroyFails
<1>1. /\ live' \in {Down, Up} \cup Endings /\ live.at # "down" /\ live'.at # "down"
      /\ live'.at = "ending" => live'.redemption = redemption
  BY LiveShape DEF Typed
<1>2. Typed'
  BY <1>1 DEF Typed
<1>3. RoomInv'
  BY <1>1 DEF RoomInv, Growing, Paid, Created, ShownReserved, ReservedFor, GrantedLeft,
              HeldWhilePayable, Payable, Verified, PassActive, Reserved
<1>4. JobInv'
  BY <1>1 DEF JobInv, JobsKnow, Knows, Paid, Done, ReservedFor, PassActive, Creating, At,
              Holds, Reserved, OnSale, NoneOpen, Binding, Created, OnlyOpen
<1>5. LedgerInv'
  BY DEF LedgerInv, CompleteDone, FulfilledWasGranted, Done, ReservedFor, PassActive
<1> QED BY <1>2, <1>3, <1>4, <1>5

LEMMA DestroyKeeps ==
  ASSUME IInv, Destroy
  PROVE  IInv'
<1> USE DEF IInv, stripe, ledgers, Destroy
<1>1. /\ live.redemption \in {None} \cup Redemption /\ live.revocation \in Number
      /\ live' = Down /\ live'.at = "down" /\ live.at = "ending"
  BY LiveShape DEF Typed
<1>2. Typed'
  BY <1>1 DEF Typed
<1>3. NoneOpen /\ \A s \in Session : ~Payable(s)
  BY <1>1 DEF RoomInv, HeldWhilePayable, NoneOpen, Payable
<1>4. RoomInv'
  BY <1>1, <1>3 DEF RoomInv, Growing, Paid, Created, ShownReserved, ReservedFor, GrantedLeft,
         NoneOpen, HeldWhilePayable, Payable, Verified, PassActive, Reserved
<1>5. JobInv'
  BY <1>1 DEF JobInv, JobsKnow, Knows, Paid, Done, ReservedFor, PassActive, Creating, At,
         Holds, Reserved, OnSale, NoneOpen, Binding, Created, OnlyOpen
<1>6. LedgerInv'
  BY DEF LedgerInv, CompleteDone, FulfilledWasGranted, Done, ReservedFor, PassActive
<1> QED BY <1>2, <1>4, <1>5, <1>6

LEMMA LapseKeeps ==
  ASSUME IInv, Lapse
  PROVE  IInv'
<1> USE DEF IInv, stripe, ledgers, Lapse
<1>1. /\ reservation \in Reservation /\ reservation' \in Reservation
      /\ reservation # None /\ reservation' # None
      /\ reservation'.token = reservation.token /\ reservation'.session = reservation.session
      /\ reservation'.lapsed
  BY ReservationShape DEF Typed, Reserved
<1>2. Typed'
  BY <1>1 DEF Typed
<1>3. RoomInv'
  BY <1>1 DEF RoomInv, Growing, Paid, Created, ShownReserved, ReservedFor, GrantedLeft,
              HeldWhilePayable, Payable, Verified, PassActive, Reserved
<1>4. JobInv'
  BY <1>1 DEF JobInv, JobsKnow, Knows, Paid, Done, ReservedFor, PassActive, Creating, At,
              Holds, Reserved, OnSale, NoneOpen, Binding, Created, OnlyOpen
<1>5. LedgerInv'
  BY <1>1 DEF LedgerInv, CompleteDone, FulfilledWasGranted, Done, ReservedFor, PassActive
<1> QED BY <1>2, <1>3, <1>4, <1>5

(****************************************************************************)
(* The steps of a checkout at the room and at Stripe.  Whoever finds the code *)
(* on sale and not reserved finds that nobody may pay for it.                 *)
(****************************************************************************)
LEMMA NobodyPays ==
  ASSUME IInv, ~Reserved,
         reservation = None \/ reservation.session = NoSession
           \/ (reservation.session \in Session /\ sessions[reservation.session] = "expired")
  PROVE  NoneOpen /\ \A s \in Session : ~Payable(s)
BY DEF IInv, RoomInv, HeldWhilePayable, NoneOpen, Payable, Verified, ReservedFor, Reserved

(* A code that is reserved anew, when nobody may pay for what it was reserved *)
(* for before.                                                                *)
LEMMA NewReservationKeeps ==
  ASSUME IInv, NEW j \in Job, NEW n \in Number, job[j].at \in {"claim", "supersede"}, OnSale, ~Reserved,
         NoneOpen, \A s \in Session : ~Payable(s),
         ReservationIs(NewReservation(j)), Moves(j, "create", n),
         UNCHANGED <<stripe, ledgers>>
  PROVE  IInv'
<1> USE DEF IInv, stripe, ledgers, ReservationIs
<1>1. /\ reservation' \in Reservation /\ reservation' # None /\ reservation'.token = j
      /\ reservation'.session = NoSession /\ ~reservation'.lapsed
  BY NewReservationShape
<1>2. Typed'
  BY <1>1 DEF Typed, Moves
<1>3. RoomInv'
  BY <1>1 DEF RoomInv, Growing, Paid, Created, ShownReserved, ReservedFor, GrantedLeft, NoneOpen,
              HeldWhilePayable, Payable, Verified, PassActive, Reserved
<1>4. JobInv'
  <2>1. \A k \in Job : ~At(k, "create")
    BY DEF JobInv, Creating, Holds
  <2>2. \A q \in Place, t \in Number : Knows(q, t) => Knows(q, t)'
    BY <1>1 DEF Knows, Paid, Done, ReservedFor, PassActive, RoomInv, Growing
  <2>3. JobsKnow'
    BY <2>2, KnowledgeLasts DEF Knows, Typed, JobInv, Place, Number
  <2>4. Creating'
    BY <1>1, <2>1 DEF Creating, At, Moves, Holds, Reserved, OnSale, PassActive, NoneOpen
  <2>5. Binding'
    BY <1>1 DEF JobInv, Binding, At, Moves, Created, Holds, Reserved, OnlyOpen, NoneOpen
  <2> QED BY <2>3, <2>4, <2>5 DEF JobInv
<1>5. LedgerInv'
  BY <1>1 DEF LedgerInv, CompleteDone, FulfilledWasGranted, Done, ReservedFor, PassActive,
              RoomInv, Growing, Paid
<1> QED BY <1>2, <1>3, <1>4, <1>5

LEMMA ClaimReservationKeeps ==
  ASSUME IInv, NEW j \in Job, ClaimReservation(j)
  PROVE  IInv'
<1>1. CASE /\ OnSale /\ (reservation = None \/ Forgettable)
           /\ ReservationIs(NewReservation(j)) /\ Continues(j, "create")
  <2>1. ~Reserved /\ NoneOpen /\ \A s \in Session : ~Payable(s)
    BY <1>1, NobodyPays DEF Reserved, Forgettable
  <2>2. Moves(j, "create", job[j].session) /\ job[j].session \in Number
    BY <1>1, JobMoves DEF IInv, Typed, Place, Jobs
  <2> QED BY <1>1, <2>1, <2>2, NewReservationKeeps DEF ClaimReservation, At
<1>2. CASE /\ OnSale /\ reservation # None /\ ~Reserved /\ ~Forgettable
           /\ UNCHANGED roomObject /\ Goes(j, "prior", reservation.session)
  <2>1. reservation.session \in Number /\ reservation.session # NoSession
    <3>1. reservation \in Reservation
      BY <1>2 DEF IInv, Typed
    <3> QED BY <1>2, <3>1, ReservationShape DEF Reserved, Forgettable
  <2>2. Moves(j, "prior", reservation.session)
    BY <1>2, <2>1, JobMoves DEF IInv, Typed, Place
  <2>3. Knows("prior", reservation.session)
    BY <2>1 DEF Knows, Number
  <2> QED BY <1>2, <2>1, <2>2, <2>3, LedgersQuiet, Quiet DEF IInv, ClaimReservation, Place
<1>3. CASE (~OnSale \/ Reserved) /\ UNCHANGED roomObject /\ Ends(j)
  <2>1. Moves(j, "idle", NoSession) /\ Knows("idle", NoSession)
    BY <1>3, JobMoves DEF IInv, Typed, Knows
  <2> QED BY <1>3, <2>1, LedgersQuiet, Quiet DEF IInv, ClaimReservation, Place, Number
<1> QED BY <1>1, <1>2, <1>3 DEF ClaimReservation

LEMMA SupersedeKeeps ==
  ASSUME IInv, NEW j \in Job, Supersede(j)
  PROVE  IInv'
<1> DEFINE s == job[j].session
<1>1. CASE /\ OnSale /\ reservation # None /\ reservation.lapsed /\ ReservedFor(s)
  <2>1. s \in Session /\ sessions[s] = "expired"
    BY DEF IInv, JobInv, JobsKnow, Knows, Supersede, At
  <2>2. ~Reserved /\ NoneOpen /\ \A t \in Session : ~Payable(t)
    BY <1>1, <2>1, NobodyPays DEF Reserved, ReservedFor
  <2>3. Moves(j, "create", NoSession)
    BY <1>1, JobMoves DEF Supersede, IInv, Typed, Place, Number
  <2> QED BY <1>1, <2>2, <2>3, NewReservationKeeps DEF Supersede, At, Number
<1>2. CASE ~(OnSale /\ reservation # None /\ reservation.lapsed /\ ReservedFor(s))
  <2>1. Moves(j, "idle", NoSession) /\ Knows("idle", NoSession)
    BY <1>2, JobMoves DEF IInv, Typed, Knows, Supersede
  <2>2. UNCHANGED <<stripe, roomObject, ledgers>>
    BY <1>2 DEF Supersede
  <2> QED BY <2>1, <2>2, LedgersQuiet, Quiet DEF IInv, Place, Number
<1> QED BY <1>1, <1>2

LEMMA CheckoutKeeps ==
  ASSUME IInv, NEW j \in Job, Checkout(j)
  PROVE  IInv'
<1> USE DEF IInv, stripe, ledgers, Checkout
<1>1. Moves(j, "claim", job[j].session) /\ job[j].session \in Number
  BY JobMoves DEF Typed, Jobs, Place
<1>2. Typed'
  BY <1>1 DEF Typed, Moves
<1>3. RoomInv'
  BY DEF RoomInv, Growing, Paid, Created, ShownReserved, ReservedFor, GrantedLeft, Forgettable,
         HeldWhilePayable, Payable, Verified, PassActive, Reserved
<1>4. JobInv'
  <2>1. \A q \in Place, t \in Number : Knows(q, t) => Knows(q, t)'
    BY DEF Knows, Paid, Done, ReservedFor, PassActive, Forgettable, RoomInv, Growing
  <2>2. JobsKnow'
    BY <1>1, <2>1, KnowledgeLasts DEF Knows, Typed, JobInv, Place
  <2>3. Creating'
    BY <1>1 DEF JobInv, Creating, At, Moves, Holds, Reserved, Forgettable, OnSale, PassActive, NoneOpen
  <2>4. Binding'
    BY <1>1 DEF JobInv, Binding, At, Moves, Created, Holds, Reserved, Forgettable, OnlyOpen
  <2> QED BY <2>2, <2>3, <2>4 DEF JobInv
<1>5. LedgerInv'
  BY DEF LedgerInv, CompleteDone, FulfilledWasGranted, Done, ReservedFor, PassActive, Forgettable
<1> QED BY <1>2, <1>3, <1>4, <1>5

(* Stripe creates the one session that is open.                               *)
LEMMA CreateSessionKeeps ==
  ASSUME IInv, NEW j \in Job, CreateSession(j)
  PROVE  IInv'
<1>1. ASSUME NEW s \in Session \ Created, sessions' = [sessions EXCEPT ![s] = "open"],
             Goes(j, "bind", s) \/ Ends(j)
      PROVE  IInv'
  <2> USE DEF IInv, roomObject, ledgers, CreateSession
  <2>1. UNCHANGED <<refunded, over, shown, roomObject, ledgers>> /\ At(j, "create")
    OBVIOUS
  <2>2. /\ \A t \in Session : sessions'[t] = IF t = s THEN "open" ELSE sessions[t]
        /\ sessions[s] = "none"
    BY <1>1 DEF Typed, Created
  <2>3. \/ Moves(j, "bind", s)
        \/ Moves(j, "idle", NoSession)
    BY <1>1, JobMoves DEF Typed, Place, Number
  <2>4. /\ Holds(j) /\ reservation.session = NoSession /\ OnSale /\ NoneOpen
        /\ \A k \in Job : At(k, "create") => k = j
    BY DEF JobInv, Creating, Holds
  <2>5. Typed'
    BY <1>1, <2>1, <2>3 DEF Typed, Moves
  <2>6. Growing' /\ ShownReserved' /\ GrantedLeft'
    BY <2>1, <2>2, <2>4 DEF RoomInv, Growing, Paid, Created, ShownReserved, ReservedFor, GrantedLeft
  <2>7. HeldWhilePayable'
    BY <2>1, <2>2, <2>4 DEF RoomInv, HeldWhilePayable, Payable, Verified, OnSale, PassActive, Holds,
                            Reserved, ReservedFor
  <2>8. \A q \in Place, t \in Number : Knows(q, t) => Knows(q, t)'
    BY <2>1, <2>2 DEF Knows, Paid, Done, ReservedFor, PassActive
  <2>9. JobsKnow'
    BY <2>3, <2>8, KnowledgeLasts DEF Knows, Typed, JobInv, Place, Number
  <2>10. Creating'
    BY <2>3, <2>4 DEF Creating, At, Moves
  <2>11. \A k \in Job : At(k, "bind") => job[k].session # s
    BY <2>2 DEF JobInv, Binding, Created
  <2>12. Binding'
    BY <2>1, <2>2, <2>3, <2>4, <2>11 DEF JobInv, Binding, At, Moves, Created, Holds, Reserved,
       OnlyOpen, NoneOpen, RoomInv, Growing
  <2>13. LedgerInv'
    BY <2>1 DEF LedgerInv, CompleteDone, FulfilledWasGranted, Done, ReservedFor, PassActive
  <2> QED BY <2>5, <2>6, <2>7, <2>9, <2>10, <2>12, <2>13 DEF RoomInv, JobInv
<1>2. CASE UNCHANGED sessions /\ Ends(j)
  <2>1. Moves(j, "idle", NoSession) /\ Knows("idle", NoSession)
    BY <1>2, JobMoves DEF IInv, Typed, Knows
  <2>2. UNCHANGED <<stripe, roomObject, ledgers>>
    BY <1>2 DEF CreateSession, stripe
  <2> QED BY <2>1, <2>2, LedgersQuiet, Quiet DEF IInv, Place, Number
<1> QED BY <1>1, <1>2 DEF CreateSession

(* The reservation is bound to the one session that is open, and shown.       *)
LEMMA BindKeeps ==
  ASSUME IInv, NEW j \in Job, Bind(j)
  PROVE  IInv'
<1> DEFINE s == job[j].session
<1>1. Moves(j, "idle", NoSession) /\ At(j, "bind")
  BY JobMoves DEF IInv, Typed, Bind
<1>2. CASE Bindable(j, s)
  <2> USE DEF IInv, ledgers, Bind, ReservationIs
  <2>1. /\ s \in Session /\ s \in Number /\ sessions[s] # "none" /\ s \notin shown
        /\ \A k \in Job : At(k, "bind") /\ job[k].session = s => k = j
        /\ OnlyOpen(s)
    BY <1>1, <1>2 DEF JobInv, Binding, Created, Bindable, Holds, Number
  <2>2. /\ UNCHANGED <<sessions, refunded, over, ledgers>>
        /\ UNCHANGED <<entitlement, redemption, revocation, live, granted>>
        /\ shown' \in {shown, shown \cup {s}}
    BY <1>2
  <2>3. /\ reservation' \in Reservation /\ reservation' # None /\ reservation'.token = j
        /\ reservation'.session = s /\ ~reservation'.lapsed
        /\ Reserved /\ reservation.token = j /\ reservation.session \in {NoSession, s}
    <3>1. reservation \in Reservation /\ reservation' = [reservation EXCEPT !.session = s]
      BY <1>2 DEF Bindable, Reserved, Typed
    <3> QED BY <1>2, <2>1, <3>1, ReservationShape DEF Bindable, Reserved
  <2>4. Typed'
    BY <1>1, <2>2, <2>3 DEF Typed, Moves
  <2>5. s \notin Paid
    BY <2>1 DEF RoomInv, Growing
  <2>6. Growing' /\ GrantedLeft'
    BY <2>1, <2>2, <2>3, <2>5 DEF RoomInv, Growing, Paid, Created, ReservedFor, GrantedLeft
  <2>7. ShownReserved'
    BY <2>1, <2>2, <2>3 DEF RoomInv, Growing, Created, ShownReserved, ReservedFor, OnlyOpen
  <2>8. HeldWhilePayable'
    BY <2>1, <2>2, <2>3 DEF RoomInv, HeldWhilePayable, Payable, Verified, PassActive, Reserved,
                            ReservedFor, OnlyOpen
  <2>9. \A q \in Place, t \in Number : Knows(q, t) => Knows(q, t)'
    BY <2>2, <2>3, <2>5 DEF Knows, Paid, Done, ReservedFor, PassActive, RoomInv, Growing
  <2>10. JobsKnow'
    BY <1>1, <2>9, KnowledgeLasts DEF Knows, Typed, JobInv, Place, Number
  <2>11. \A k \in Job : ~At(k, "create")
    BY <1>1, <2>3 DEF JobInv, Creating, Holds, At
  <2>12. Creating'
    BY <1>1, <2>11 DEF Creating, At, Moves
  <2>13. Binding'
    BY <1>1, <2>1, <2>2, <2>3 DEF JobInv, Binding, At, Moves, Created, Holds, Reserved, OnlyOpen
  <2>14. LedgerInv'
    BY <2>2, <2>3, <2>5 DEF LedgerInv, CompleteDone, FulfilledWasGranted, Done, ReservedFor,
                            PassActive, RoomInv, Growing
  <2> QED BY <2>4, <2>6, <2>7, <2>8, <2>10, <2>12, <2>13, <2>14 DEF RoomInv, JobInv
<1>3. CASE ~Bindable(j, s)
  <2>1. UNCHANGED <<stripe, roomObject, ledgers>>
    BY <1>3 DEF Bind, stripe
  <2> QED BY <1>1, <2>1, LedgersQuiet, Quiet DEF IInv, Place, Number, Knows
<1> QED BY <1>2, <1>3

(****************************************************************************)
(* The grant and the revocation.                                            *)
(****************************************************************************)
LEMMA GrantKeeps ==
  ASSUME IInv, NEW j \in Job, Grant(j)
  PROVE  IInv'
<1>0. PICK s : s = job[j].session
  OBVIOUS
<1>1. s \in Paid /\ s \in Session /\ s \in Number
  <2>1. Knows("grant", s)
    BY <1>0 DEF IInv, JobInv, JobsKnow, Grant, At
  <2> QED BY <2>1 DEF Knows, Paid, Number
<1>2. CASE Replays(s) /\ Continues(j, "complete") /\ UNCHANGED roomObject
  <2>1. Moves(j, "complete", s)
    BY <1>0, <1>2, JobMoves DEF IInv, Typed, Place
  <2>2. Knows("complete", s)
    BY <1>1, <1>2 DEF Knows, Replays, IInv, RoomInv, GrantedLeft
  <2> QED BY <1>1, <1>2, <2>1, <2>2, LedgersQuiet, Quiet DEF IInv, Grant, Place
<1>3. CASE Continues(j, "release") /\ UNCHANGED roomObject
  <2>1. Moves(j, "release", s)
    BY <1>0, <1>3, JobMoves DEF IInv, Typed, Place
  <2>2. Knows("release", s)
    BY <1>1 DEF Knows
  <2> QED BY <1>1, <1>3, <2>1, <2>2, LedgersQuiet, Quiet DEF IInv, Grant, Place
<1>4. CASE /\ Grantable(s)
           /\ entitlement' = [session |-> s, active |-> TRUE]
           /\ redemption' = [session |-> s, revoked |-> FALSE]
           /\ reservation' = None /\ granted' = granted \cup {s}
           /\ Continues(j, "complete") /\ UNCHANGED <<revocation, live>>
  <2> USE DEF IInv, stripe, ledgers, Grant
  <2>1. /\ entitlement' \in Pass /\ entitlement' # None /\ entitlement'.session = s
        /\ redemption' \in Redemption /\ redemption' # None /\ redemption'.session = s
        /\ ReservedFor(s) /\ ~IsLive
    BY <1>1, <1>4, PassShape, RedemptionShape DEF Grantable
  <2>2. Moves(j, "complete", s)
    BY <1>0, <1>4, JobMoves DEF Typed, Place
  <2>3. Typed'
    BY <1>4, <2>1, <2>2 DEF Typed, Moves
  <2>4. Growing'
    BY <1>1, <1>4 DEF RoomInv, Growing, Paid, Created
  <2>5. ASSUME NEW t \in Session, Payable(t)'
        PROVE  FALSE
    <3>1. Payable(t) /\ t # s
      BY <1>1, <1>4, <2>5 DEF Payable, Verified, Paid
    <3> QED BY <1>1, <2>1, <3>1 DEF RoomInv, HeldWhilePayable, ReservedFor
  <2>6. ShownReserved' /\ HeldWhilePayable'
    BY <2>4, <2>5 DEF ShownReserved, HeldWhilePayable, Payable, Growing, Created
  <2>7. GrantedLeft'
    BY <1>4, <2>1 DEF RoomInv, GrantedLeft, ReservedFor
  <2>8. \A t \in Session : t # s /\ Done(t) => Done(t)'
    BY <1>4, <2>1 DEF Done, ReservedFor, PassActive
  <2>9. s \in refunded => ~Done(s)
    BY <2>1 DEF Done
  <2>10. \A q \in Place, t \in Number : Knows(q, t) => Knows(q, t)'
    BY <1>4, <2>8, <2>9 DEF Knows, Paid, RoomInv, Growing
  <2>11. Knows("complete", s)'
    BY <1>1, <1>4 DEF Knows, Paid
  <2>12. JobsKnow'
    BY <1>1, <2>2, <2>10, <2>11, KnowledgeLasts DEF Typed, JobInv, Place
  <2>13. \A k \in Job : ~At(k, "create")
    BY <1>1, <2>1 DEF JobInv, Creating, ReservedFor
  <2>14. Creating'
    BY <2>2, <2>13 DEF Creating, At, Moves
  <2>15. Binding'
    BY <1>4, <2>2 DEF JobInv, Binding, At, Moves, Created, Holds, Reserved
  <2>16. LedgerInv'
    BY <1>4, <2>8, <2>9 DEF LedgerInv, CompleteDone, FulfilledWasGranted
  <2> QED BY <2>3, <2>4, <2>6, <2>7, <2>12, <2>14, <2>15, <2>16 DEF RoomInv, JobInv
<1> QED BY <1>0, <1>2, <1>3, <1>4 DEF Grant

(* After a revocation at the room nothing is left for its session; what others *)
(* hold stays.                                                                *)
LEMMA RevokedAtRoom ==
  ASSUME IInv, NEW s \in refunded, RevokeAtRoom(s), UNCHANGED over
  PROVE  /\ reservation' \in {None, reservation} /\ (reservation' # reservation => ReservedFor(s))
         /\ entitlement' \in {None} \cup Pass
         /\ entitlement' # None => entitlement # None /\ entitlement'.session = entitlement.session
         /\ PassActive' => PassActive
         /\ redemption' \in {None} \cup Redemption
         /\ redemption' # None <=> redemption # None
         /\ redemption # None => redemption'.session = redemption.session
         /\ revocation' \in Number /\ UNCHANGED <<live, granted>>
         /\ Done(s)'
<1>1. s \in Session /\ s \in Number /\ s \in Paid
  <2>1. s \in Paid
    BY DEF IInv, RoomInv, Growing
  <2>2. s \in Session
    BY <2>1 DEF Paid
  <2> QED BY <2>1, <2>2 DEF Number
<1>2. /\ reservation \in {None} \cup Reservation /\ entitlement \in {None} \cup Pass
      /\ redemption \in {None} \cup Redemption /\ revocation \in Number
  BY DEF IInv, Typed
<1>3. /\ UNCHANGED <<live, granted>>
      /\ reservation' \in {reservation, Unreserved(s)}
      /\ reservation' \in {None, reservation} /\ (reservation' # reservation => ReservedFor(s))
  BY DEF RevokeAtRoom, Unreserved
<1>4. CASE /\ Holding(s) /\ (PassActive \/ ~entitlement.active)
           /\ entitlement' = [entitlement EXCEPT !.active = FALSE]
           /\ redemption' = [redemption EXCEPT !.revoked = TRUE]
           /\ revocation' = s /\ reservation' = Unreserved(s)
  <2>1. /\ entitlement' \in Pass /\ entitlement'.session = entitlement.session /\ ~entitlement'.active
        /\ redemption' \in Redemption /\ redemption'.session = redemption.session
        /\ entitlement # None /\ redemption # None
    BY <1>2, <1>4, PassShape, RedemptionShape DEF Holding
  <2>2. Done(s)'
    BY <1>4, <2>1 DEF Done, PassActive, ReservedFor, Unreserved
  <2>3. ~PassActive'
    BY <2>1 DEF PassActive
  <2>4. revocation' \in Number /\ (redemption' # None <=> redemption # None)
    BY <1>1, <1>4, <2>1, RedemptionShape
  <2>5. entitlement' # None => entitlement # None /\ entitlement'.session = entitlement.session
    BY <2>1
  <2> QED BY <1>3, <2>1, <2>2, <2>3, <2>4, <2>5
<1>5. CASE /\ Holding(s) /\ entitlement.active /\ ~PassActive
           /\ UNCHANGED <<entitlement, redemption, revocation, reservation>>
  <2>1. ~ReservedFor(s)
    BY <1>5 DEF Holding, IInv, RoomInv, GrantedLeft
  <2> QED BY <1>2, <1>3, <1>5, <2>1 DEF Done, PassActive, ReservedFor
<1>6. CASE /\ ~Holding(s)
           /\ revocation' = IF ReservedFor(s) THEN s ELSE revocation
           /\ reservation' = Unreserved(s)
           /\ UNCHANGED <<entitlement, redemption>>
  <2>1. ~ReservedFor(s)'
    BY <1>6 DEF ReservedFor, Unreserved
  <2>2. ~(PassActive /\ entitlement.session = s)
    BY <1>6 DEF Holding, PassActive, IInv, RoomInv, GrantedLeft
  <2> QED BY <1>1, <1>2, <1>3, <1>6, <2>1, <2>2 DEF Done, PassActive
<1> QED BY <1>4, <1>5, <1>6 DEF RevokeAtRoom

LEMMA RevokePassKeeps ==
  ASSUME IInv, NEW j \in Job, RevokePass(j)
  PROVE  IInv'
<1>0. PICK s : s = job[j].session
  OBVIOUS
<1>1. s \in refunded /\ s \in Paid /\ s \in Session /\ s \in Number
  <2>1. Knows("revoke", s)
    BY <1>0 DEF IInv, JobInv, JobsKnow, RevokePass, At
  <2>2. s \in refunded /\ refunded \subseteq Paid
    BY <2>1 DEF Knows, IInv, RoomInv, Growing
  <2>3. s \in Session
    BY <2>2 DEF Paid
  <2> QED BY <2>2, <2>3 DEF Number
<1>2. CASE UNCHANGED roomObject /\ Continues(j, "eventRelease")
  <2>1. Moves(j, "eventRelease", s)
    BY <1>0, <1>2, JobMoves DEF IInv, Typed, Place
  <2>2. Knows("eventRelease", s)
    BY <1>1 DEF Knows
  <2> QED BY <1>1, <1>2, <2>1, <2>2, LedgersQuiet, Quiet DEF IInv, RevokePass, Place
<1>3. CASE /\ RevokeAtRoom(s)
           /\ (Continues(j, "eventComplete") \/ Continues(j, "eventRelease"))
  <2>1. PICK p \in {"eventComplete", "eventRelease"} : Moves(j, p, s)
    BY <1>0, <1>3, JobMoves DEF IInv, Typed, Place
  <2>2. UNCHANGED <<stripe, ledgers>> /\ At(j, "revoke")
    BY DEF RevokePass
  <2>3. /\ reservation' \in {None, reservation} /\ (reservation' # reservation => ReservedFor(s))
        /\ entitlement' \in {None} \cup Pass
        /\ entitlement' # None => entitlement # None /\ entitlement'.session = entitlement.session
        /\ PassActive' => PassActive
        /\ redemption' \in {None} \cup Redemption
        /\ redemption' # None <=> redemption # None
        /\ redemption # None => redemption'.session = redemption.session
        /\ revocation' \in Number /\ UNCHANGED <<live, granted>>
        /\ Done(s)'
    BY <1>1, <1>3, <2>2, RevokedAtRoom DEF stripe
  <2> USE DEF IInv, stripe, ledgers
  <2>4. Typed'
    BY <2>1, <2>2, <2>3 DEF Typed, Moves
  <2>5. Growing'
    BY <2>2, <2>3 DEF RoomInv, Growing, Paid, Created
  <2>6. GrantedLeft'
    BY <2>3 DEF RoomInv, GrantedLeft, ReservedFor
  <2>7. ~Payable(s) /\ sessions[s] # "open" /\ \A t \in Session : Payable(t)' => Payable(t)
    BY <1>1, <2>2, <2>3 DEF Payable, Verified, Paid
  <2>8. reservation' = reservation \/ (NoneOpen /\ \A t \in Session : ~Payable(t))
    BY <1>1, <2>3, <2>7 DEF RoomInv, HeldWhilePayable, NoneOpen, Payable, ReservedFor
  <2>9. ShownReserved' /\ HeldWhilePayable'
    BY <2>2, <2>3, <2>7, <2>8 DEF RoomInv, ShownReserved, HeldWhilePayable, ReservedFor, Reserved,
       NoneOpen, Growing, Created
  <2>10. \A t \in Session : Done(t) => Done(t)'
    BY <2>3 DEF Done, ReservedFor, PassActive
  <2>11. \A q \in Place, t \in Number : Knows(q, t) => Knows(q, t)'
    BY <2>2, <2>3, <2>10 DEF Knows, Paid, RoomInv, Growing
  <2>12. Knows(p, s)'
    BY <1>1, <2>2, <2>3 DEF Knows, Paid
  <2>13. JobsKnow'
    BY <1>1, <2>1, <2>11, <2>12, KnowledgeLasts DEF Typed, JobInv, Place
  <2>14. Creating'
    BY <1>1, <2>1, <2>2, <2>3 DEF JobInv, Creating, At, Moves, Holds, Reserved, ReservedFor, OnSale, NoneOpen
  <2>15. Binding'
    BY <2>1, <2>2, <2>3 DEF JobInv, Binding, At, Moves, Created, Holds, Reserved, OnlyOpen
  <2>16. LedgerInv'
    BY <2>2, <2>3, <2>10 DEF LedgerInv, CompleteDone, FulfilledWasGranted
  <2> QED BY <2>4, <2>5, <2>6, <2>9, <2>13, <2>14, <2>15, <2>16 DEF RoomInv, JobInv
<1> QED BY <1>0, <1>2, <1>3 DEF RevokePass

(****************************************************************************)
(* The theorems.                                                            *)
(****************************************************************************)
LEMMA InitGood == Init => IInv
<1> SUFFICES ASSUME Init PROVE IInv
  OBVIOUS
<1> USE DEF Init
<1>1. Typed
  <2>1. ledger \in Book /\ events \in Book /\ NoSession \in Number
    BY LeaseShape DEF Book, Number
  <2>2. job \in Jobs
    BY <2>1 DEF Jobs, Place, Idle
  <2> QED BY <2>1, <2>2 DEF Typed
<1>2. RoomInv
  BY LiveShape DEF RoomInv, Growing, Paid, Created, ShownReserved, GrantedLeft, HeldWhilePayable, Payable, Verified
<1>3. JobInv
  BY DEF JobInv, JobsKnow, Knows, Creating, Binding, At, Idle
<1>4. LedgerInv
  BY LeaseShape DEF LedgerInv, CompleteDone, FulfilledWasGranted
<1> QED BY <1>1, <1>2, <1>3, <1>4 DEF IInv

LEMMA StepGood == IInv /\ [Next]_vars => IInv'
<1> SUFFICES ASSUME IInv, [Next]_vars PROVE IInv'
  OBVIOUS
<1>1. ASSUME NEW j \in Job, Checkout(j) \/ JobStep(j) \/ Lose(j)
      PROVE  IInv'
  BY <1>1, CheckoutKeeps, ClaimReservationKeeps, ResolvePriorKeeps, SupersedeKeeps,
     CreateSessionKeeps, BindKeeps, LedgerStepKeeps, EventStepKeeps, GrantKeeps, RevokePassKeeps,
     LoseKeeps DEF JobStep
<1>2. ASSUME NEW j \in Job, NEW s \in Session, Fulfil(j, s) \/ Dispute(j, s)
      PROVE  IInv'
  BY <1>2, FulfilKeeps, DisputeKeeps
<1>3. ASSUME NEW s \in Session, SessionStep(s)
      PROVE  IInv'
  BY <1>3, StripeKeeps, LeaseLapsesKeeps, FourteenDaysKeeps DEF SessionStep
<1>4. CASE SetUp \/ DestroyReads \/ DestroyFails \/ Destroy \/ Lapse
  BY <1>4, SetUpKeeps, EndingKeeps, DestroyKeeps, LapseKeeps
<1>5. CASE UNCHANGED vars
  BY <1>5 DEF vars, IInv, Typed, RoomInv, JobInv, LedgerInv, Growing, Paid, Created, ShownReserved,
     GrantedLeft, HeldWhilePayable, Payable, Verified, JobsKnow, Knows, Creating, Binding, At, Holds,
     Reserved, ReservedFor, OnSale, PassActive, NoneOpen, OnlyOpen, Done, CompleteDone, FulfilledWasGranted
<1> QED BY <1>1, <1>2, <1>3, <1>4, <1>5 DEF Next

LEMMA Invariance == Spec => []IInv
BY InitGood, StepGood, PTL DEF Spec

(* The code is not sold under a buyer who can still pay for it or who paid    *)
(* and was not served (HeldWhilePayable of FortPass), for any number of       *)
(* sessions and of requests under way.                                        *)
THEOREM CodeIsHeld == Spec => []HeldWhilePayable
<1>1. IInv => HeldWhilePayable
  BY DEF IInv, RoomInv
<1> QED BY <1>1, Invariance, PTL

(* A refund that was processed is final, whatever was under way.              *)
THEOREM Refunded == Spec => []RefundIsFinal
<1>1. IInv => RefundIsFinal
  BY DEF IInv, LedgerInv, CompleteDone, RefundIsFinal, Done
<1> QED BY <1>1, Invariance, PTL

(* A payment the ledger counts as fulfilled was granted.                      *)
THEOREM Fulfilled == Spec => []FulfilledWasGranted
<1>1. IInv => FulfilledWasGranted
  BY DEF IInv, LedgerInv
<1> QED BY <1>1, Invariance, PTL

(* A payment is granted once: a session that was granted has no reservation,  *)
(* and none is ever bound to it again.                                        *)
THEOREM Once == Spec => GrantedOnce
<1>1. ASSUME IInv, [Next]_vars, NEW s \in Session,
             entitlement' = [session |-> s, active |-> TRUE], entitlement' # entitlement
      PROVE  s \notin granted
  <2>1. entitlement' # None /\ entitlement'.active /\ entitlement'.session = s
    BY <1>1, PassShape
  <2>2. PICK j \in Job : Grant(j) \/ RevokePass(j)
    BY <1>1, <2>1 DEF Next, JobStep, SessionStep, vars, roomObject, Checkout, ClaimReservation, ReservationIs,
       ResolvePrior, Supersede, CreateSession, Bind, ClaimLedger, CompleteLedger, ReleaseLedger,
       ClaimEvent, CompleteEvent, ReleaseEvent, Lose, Fulfil, Dispute, Pay, ExpireSession, Refund, Stays,
       LeaseLapses, EventLeaseLapses, FourteenDays, SetUp, DestroyReads, DestroyFails, Destroy, Lapse
  <2>3. ASSUME NEW t, RevokeAtRoom(t)
        PROVE  FALSE
    <3>1. entitlement' = [entitlement EXCEPT !.active = FALSE] /\ entitlement # None
      BY <1>1, <2>3 DEF RevokeAtRoom, Holding
    <3>2. entitlement \in Pass
      BY <1>1, <3>1 DEF IInv, Typed
    <3> QED BY <2>1, <3>1, <3>2, PassShape
  <2>4. Grant(j) /\ Grantable(job[j].session) /\ job[j].session = s
    <3>1. Grant(j)
      BY <1>1, <2>2, <2>3 DEF RevokePass, roomObject
    <3>2. Grantable(job[j].session) /\ entitlement' = [session |-> job[j].session, active |-> TRUE]
      BY <1>1, <3>1 DEF Grant, roomObject
    <3> QED BY <2>1, <3>1, <3>2
  <2> QED BY <1>1, <2>4 DEF Grantable, IInv, RoomInv, GrantedLeft
<1>2. IInv /\ [Next]_vars =>
        [\A s \in Session :
           (entitlement' = [session |-> s, active |-> TRUE] /\ entitlement' # entitlement)
             => s \notin granted]_vars
  BY <1>1
<1> QED BY <1>2, Invariance, PTL DEF Spec, GrantedOnce
===============================================================================
