------------------------------- MODULE FortPass -------------------------------
(* One custom room code on sale (src/src/index.ts, room.ts, stripe.ts).  A    *)
(* purchase crosses three kinds of objects that share no transaction: Stripe, *)
(* the room object of the code and one ledger object per payment.  Requests   *)
(* - checkouts, redemptions, webhooks - call them one after the other, may    *)
(* die between two calls, and run beside each other.  Tokens are drawn at     *)
(* random: a request is its token.  A session's number is its creation time.  *)
EXTENDS Naturals

CONSTANTS
    MaxSessions,    \* the checkout sessions Stripe creates in a behaviour
    Disputed,       \* the sessions whose charge may be refunded
    Job             \* the requests that may be under way at a time

VARIABLES
    sessions,       \* Stripe: the state of each checkout session
    refunded,       \* Stripe: the paid sessions whose charge was refunded
    over,           \* the sessions created more than fourteen days ago
    shown,          \* the sessions whose payment page a buyer was sent to
    reservation,    \* room object: who may buy the code
    entitlement,    \* room object: the Fort Pass
    redemption,     \* room object: the last session granted, kept for ever
    revocation,     \* room object: the last session revoked, kept for ever
    live,           \* room object: whether the room is set up, and what its end has read
    ledger,         \* per session: the fulfilment under way
    events,         \* per refund event: the revocation under way
    job,            \* the requests under way
    granted         \* history: the sessions that have been granted

vars == <<sessions, refunded, over, shown, reservation, entitlement, redemption,
          revocation, live, ledger, events, job, granted>>
stripe == <<sessions, refunded, over, shown>>
roomObject == <<reservation, entitlement, redemption, revocation, live, granted>>
ledgers == <<ledger, events>>

Session == 1..MaxSessions
NoSession == 0
None == [session |-> NoSession]
Idle == [at |-> "idle", session |-> NoSession]
Unclaimed == [status |-> "none"]

Down == [at |-> "down"]
Up == [at |-> "up"]
Ending(r, v) == [at |-> "ending", redemption |-> r, revocation |-> v]
IsLive == live.at # "down"

ASSUME FortPassAssumption == MaxSessions \in Nat /\ Disputed \subseteq Session

Init ==
    /\ sessions = [s \in Session |-> "none"]
    /\ refunded = {} /\ over = {} /\ shown = {} /\ granted = {}
    /\ reservation = None /\ entitlement = None /\ redemption = None
    /\ revocation = NoSession /\ live = Down
    /\ ledger = [s \in Session |-> Unclaimed]
    /\ events = [s \in Session |-> Unclaimed]
    /\ job = [j \in Job |-> Idle]

(****************************************************************************)
(* The room object.                                                         *)
(****************************************************************************)
Reserved == reservation # None /\ ~reservation.lapsed
Forgettable == reservation # None /\ reservation.lapsed /\ reservation.session = NoSession
PassActive == entitlement # None /\ entitlement.active /\ entitlement.session \notin over
OnSale == ~IsLive /\ ~PassActive
ReservedFor(s) == reservation # None /\ reservation.session = s

At(j, place) == job[j].at = place
Goes(j, place, s) == job' = [job EXCEPT ![j] = [at |-> place, session |-> s]]
Continues(j, place) == job' = [job EXCEPT ![j].at = place]
Ends(j) == job' = [job EXCEPT ![j] = Idle]

(****************************************************************************)
(* A checkout: ask whether the code exists, reserve it, create the session    *)
(* and bind it to the reservation.                                            *)
(****************************************************************************)
Checkout(j) ==
    /\ At(j, "idle") /\ OnSale /\ ~Reserved
    /\ reservation' = IF Forgettable THEN None ELSE reservation
    /\ Continues(j, "claim")
    /\ UNCHANGED <<stripe, ledgers, entitlement, redemption, revocation, live, granted>>

NewReservation(j) == [token |-> j, session |-> NoSession, lapsed |-> FALSE]
ReservationIs(r) ==
    reservation' = r /\ UNCHANGED <<entitlement, redemption, revocation, live, granted>>

ClaimReservation(j) ==
    /\ At(j, "claim")
    /\ \/ /\ OnSale /\ (reservation = None \/ Forgettable)
          /\ ReservationIs(NewReservation(j)) /\ Continues(j, "create")
       \/ /\ OnSale /\ reservation # None /\ ~Reserved /\ ~Forgettable
          /\ UNCHANGED roomObject /\ Goes(j, "prior", reservation.session)
       \/ /\ ~OnSale \/ Reserved
          /\ UNCHANGED roomObject /\ Ends(j)
    /\ UNCHANGED <<stripe, ledgers>>

(* The reservation belongs to an earlier session: Stripe says what it became. *)
Verified(s) == sessions[s] = "paid" /\ s \notin over

Resolution(s) ==
    IF Verified(s) THEN "verified"
    ELSE IF sessions[s] = "expired" THEN "expired unpaid" ELSE "pending or invalid"

ResolvePrior(j) ==
    /\ At(j, "prior")
    /\ CASE Resolution(job[j].session) = "verified" -> Continues(j, "ledger")
         [] Resolution(job[j].session) = "expired unpaid" -> Continues(j, "supersede")
         [] OTHER -> Ends(j)
    /\ UNCHANGED <<stripe, roomObject, ledgers>>

Supersede(j) ==
    /\ At(j, "supersede")
    /\ IF OnSale /\ reservation # None /\ reservation.lapsed
          /\ ReservedFor(job[j].session)
       THEN ReservationIs(NewReservation(j)) /\ Goes(j, "create", NoSession)
       ELSE UNCHANGED roomObject /\ Ends(j)
    /\ UNCHANGED <<stripe, ledgers>>

(* Stripe creates the session; its answer may be lost.                        *)
Created == {s \in Session : sessions[s] # "none"}

(* Slip: the reservation is released when Stripe's answer is lost.            *)
CreateOrRelease(j) ==
    /\ At(j, "create")
    /\ \E s \in Session \ Created :
         /\ \A t \in Session \ Created : s <= t
         /\ sessions' = [sessions EXCEPT ![s] = "open"]
         /\ \/ /\ Goes(j, "bind", s) /\ UNCHANGED roomObject
            \/ /\ Ends(j) /\ ReservationIs(None)
    /\ UNCHANGED <<refunded, over, shown, ledgers>>

CreateSession(j) ==
    /\ At(j, "create")
    /\ \/ \E s \in Session \ Created :
            /\ \A t \in Session \ Created : s <= t
            /\ sessions' = [sessions EXCEPT ![s] = "open"]
            /\ (Goes(j, "bind", s) \/ Ends(j))
       \/ /\ UNCHANGED sessions /\ Ends(j)
    /\ UNCHANGED <<refunded, over, shown, roomObject, ledgers>>

Bindable(j, s) ==
    /\ revocation # s /\ Reserved
    /\ reservation.token = j /\ reservation.session \in {NoSession, s}

Bind(j) ==
    /\ At(j, "bind")
    /\ LET s == job[j].session IN
       IF Bindable(j, s)
       THEN /\ ReservationIs([reservation EXCEPT !.session = s])
            /\ shown' = shown \cup {s} \/ UNCHANGED shown
       ELSE UNCHANGED <<roomObject, shown>>
    /\ Ends(j)
    /\ UNCHANGED <<sessions, refunded, over, ledgers>>

(****************************************************************************)
(* The buyer and Stripe.                                                    *)
(****************************************************************************)
Stays == UNCHANGED <<roomObject, ledgers, job>>

Pay(s) ==
    /\ sessions[s] = "open" /\ s \in shown
    /\ sessions' = [sessions EXCEPT ![s] = "paid"]
    /\ Stays /\ UNCHANGED <<refunded, over, shown>>

ExpireSession(s) ==
    /\ sessions[s] = "open"
    /\ sessions' = [sessions EXCEPT ![s] = "expired"]
    /\ Stays /\ UNCHANGED <<refunded, over, shown>>

Refund(s) ==
    /\ s \in Disputed /\ sessions[s] = "paid"
    /\ refunded' = refunded \cup {s}
    /\ Stays /\ UNCHANGED <<sessions, over, shown>>

(****************************************************************************)
(* Fulfilment, by a webhook, a buyer that comes back, or a later checkout:    *)
(* lease the session's ledger, grant at the room, complete the ledger.        *)
(****************************************************************************)
Fulfil(j, s) ==
    /\ At(j, "idle") /\ Verified(s)
    /\ Goes(j, "ledger", s)
    /\ UNCHANGED <<stripe, roomObject, ledgers>>

Pending(j) == [status |-> "pending", token |-> j]
Busy(record) == record.status = "pending"
Complete == [status |-> "complete"]

Claimed(j, book, s, next) ==
    IF book[s] = Complete \/ Busy(book[s])
    THEN UNCHANGED book /\ Ends(j)
    ELSE book' = [book EXCEPT ![s] = Pending(j)] /\ Continues(j, next)
Completed(j, book, s) ==
    /\ book' = [book EXCEPT ![s] = IF @ = Pending(j) THEN Complete ELSE @]
    /\ Ends(j)
Released(j, book, s) ==
    /\ book' = [book EXCEPT ![s] = IF @ = Pending(j) THEN Unclaimed ELSE @]
    /\ Ends(j)

(* Slip: the ledger is completed before the room has granted.                 *)
ClaimAndComplete(j) ==
    /\ At(j, "ledger") /\ Claimed(j, ledger, job[j].session, "complete")
    /\ UNCHANGED <<stripe, roomObject, events>>

ClaimLedger(j) ==
    /\ At(j, "ledger") /\ Claimed(j, ledger, job[j].session, "grant")
    /\ UNCHANGED <<stripe, roomObject, events>>

Replays(s) ==
    /\ redemption # None /\ redemption.session = s /\ ~redemption.revoked
    /\ entitlement # None => entitlement.session = s /\ PassActive
(* Slip: the redemption is not looked at, as nothing of it is left.           *)
GrantableAnew(s) == ~IsLive /\ entitlement = None
Grantable(s) ==
    /\ redemption # None => redemption.session < s
    /\ ~IsLive /\ ReservedFor(s)

Grant(j) ==
    /\ At(j, "grant")
    /\ LET s == job[j].session IN
       \/ /\ revocation # s /\ Replays(s)
          /\ Continues(j, "complete") /\ UNCHANGED roomObject
       \/ /\ revocation # s /\ Grantable(s)
          /\ entitlement' = [session |-> s, active |-> TRUE]
          /\ redemption' = [session |-> s, revoked |-> FALSE]
          /\ reservation' = None /\ granted' = granted \cup {s}
          /\ Continues(j, "complete") /\ UNCHANGED <<revocation, live>>
       \/ /\ revocation = s \/ ~(Replays(s) \/ Grantable(s))
          /\ Continues(j, "release") /\ UNCHANGED roomObject
    /\ UNCHANGED <<stripe, ledgers>>

CompleteLedger(j) ==
    /\ At(j, "complete") /\ Completed(j, ledger, job[j].session)
    /\ UNCHANGED <<stripe, roomObject, events>>

ReleaseLedger(j) ==
    /\ At(j, "release") /\ Released(j, ledger, job[j].session)
    /\ UNCHANGED <<stripe, roomObject, events>>

(****************************************************************************)
(* Revocation, by the webhook of a refund.                                  *)
(****************************************************************************)
Dispute(j, s) ==
    /\ At(j, "idle") /\ s \in refunded
    /\ Goes(j, "event", s)
    /\ UNCHANGED <<stripe, roomObject, ledgers>>

ClaimEvent(j) ==
    /\ At(j, "event") /\ Claimed(j, events, job[j].session, "revoke")
    /\ UNCHANGED <<stripe, roomObject, ledger>>

Holding(s) ==
    /\ entitlement # None /\ entitlement.session = s
    /\ redemption # None /\ redemption.session = s

(* The room after the refund of s; a room it does not concern stays the same. *)
Unreserved(s) == IF ReservedFor(s) THEN None ELSE reservation

(* Slip: a refund that arrives before the grant leaves nothing behind.        *)
RevokeHeld(s) ==
    /\ entitlement' = IF Holding(s) THEN [entitlement EXCEPT !.active = FALSE] ELSE entitlement
    /\ redemption' = IF Holding(s) THEN [redemption EXCEPT !.revoked = TRUE] ELSE redemption
    /\ revocation' = IF Holding(s) THEN s ELSE revocation
    /\ UNCHANGED <<reservation, live, granted>>

RevokeAtRoom(s) ==
    /\ \/ /\ Holding(s) /\ (PassActive \/ ~entitlement.active)
          /\ entitlement' = [entitlement EXCEPT !.active = FALSE]
          /\ redemption' = [redemption EXCEPT !.revoked = TRUE]
          /\ revocation' = s /\ reservation' = Unreserved(s)
       \/ /\ Holding(s) /\ entitlement.active /\ ~PassActive
          /\ UNCHANGED <<entitlement, redemption, revocation, reservation>>
       \/ /\ ~Holding(s)
          /\ revocation' = IF ReservedFor(s) THEN s ELSE revocation
          /\ reservation' = Unreserved(s)
          /\ UNCHANGED <<entitlement, redemption>>
    /\ UNCHANGED <<live, granted>>

(* An answer that is lost counts as a failure.                                *)
RevokePass(j) ==
    /\ At(j, "revoke")
    /\ \/ /\ RevokeAtRoom(job[j].session)
          /\ (Continues(j, "eventComplete") \/ Continues(j, "eventRelease"))
       \/ /\ UNCHANGED roomObject /\ Continues(j, "eventRelease")
    /\ UNCHANGED <<stripe, ledgers>>

CompleteEvent(j) ==
    /\ At(j, "eventComplete") /\ Completed(j, events, job[j].session)
    /\ UNCHANGED <<stripe, roomObject, ledger>>

ReleaseEvent(j) ==
    /\ At(j, "eventRelease") /\ Released(j, events, job[j].session)
    /\ UNCHANGED <<stripe, roomObject, ledger>>

(* A request dies, or an answer is lost and it gives up.                      *)
Lose(j) ==
    /\ ~At(j, "idle") /\ Ends(j)
    /\ UNCHANGED <<stripe, roomObject, ledgers>>

(****************************************************************************)
(* The room.                                                                *)
(****************************************************************************)
ClaimMatches ==
    /\ redemption # None /\ ~redemption.revoked
    /\ redemption.session = entitlement.session /\ revocation # redemption.session

SetUp ==
    /\ ~IsLive /\ PassActive /\ ClaimMatches
    /\ live' = Up
    /\ reservation' = IF Forgettable THEN None ELSE reservation
    /\ UNCHANGED <<stripe, ledgers, entitlement, redemption, revocation, job, granted>>

(* The end of a room reads what is kept for ever, and writes it back when it  *)
(* deletes the rest: a refund processed in between may be overwritten.        *)
DestroyReads ==
    /\ live = Up /\ live' = Ending(redemption, revocation)
    /\ UNCHANGED <<stripe, ledgers, reservation, entitlement, redemption, revocation, job, granted>>

DestroyFails ==
    /\ live.at = "ending" /\ live' = Up
    /\ UNCHANGED <<stripe, ledgers, reservation, entitlement, redemption, revocation, job, granted>>

Destroy ==
    /\ live.at = "ending" /\ live' = Down
    /\ entitlement' = None /\ reservation' = None
    /\ redemption' = IF live.redemption = None THEN redemption ELSE live.redemption
    /\ revocation' = IF live.revocation = NoSession THEN revocation ELSE live.revocation
    /\ UNCHANGED <<stripe, ledgers, job, granted>>

(****************************************************************************)
(* Time: a session lives 31 minutes, a reservation 40, a lease five, a pass   *)
(* fourteen days.  A checkout's calls take less than the nine minutes between *)
(* the first two, a request less than a day.                                  *)
(****************************************************************************)
Lapse ==
    /\ Reserved /\ \A s \in Session : sessions[s] # "open"
    /\ ~(At(reservation.token, "create"))
    /\ reservation' = [reservation EXCEPT !.lapsed = TRUE]
    /\ UNCHANGED <<stripe, ledgers, entitlement, redemption, revocation, live, job, granted>>

(* Slip: the ledger is never given to another request.                        *)
LeaseForEver(s) == Busy(ledger[s]) /\ UNCHANGED vars

(* A lease that has run out counts for nothing in any of the three actions.   *)
LeaseLapses(s) ==
    /\ Busy(ledger[s]) /\ ledger' = [ledger EXCEPT ![s] = Unclaimed]
    /\ UNCHANGED <<stripe, roomObject, events, job>>

EventLeaseLapses(s) ==
    /\ Busy(events[s]) /\ events' = [events EXCEPT ![s] = Unclaimed]
    /\ UNCHANGED <<stripe, roomObject, ledger, job>>

FourteenDays(s) ==
    /\ sessions[s] = "paid" /\ s \notin over
    /\ ~(ReservedFor(s) /\ Reserved)
    /\ \A j \in Job : job[j].session # s
    /\ over' = over \cup {s}
    /\ UNCHANGED <<sessions, refunded, shown, roomObject, ledgers, job>>

JobStep(j) ==
    \/ ClaimReservation(j) \/ ResolvePrior(j) \/ Supersede(j) \/ CreateSession(j) \/ Bind(j)
    \/ ClaimLedger(j) \/ Grant(j) \/ CompleteLedger(j) \/ ReleaseLedger(j)
    \/ ClaimEvent(j) \/ RevokePass(j) \/ CompleteEvent(j) \/ ReleaseEvent(j)

SessionStep(s) ==
    \/ Pay(s) \/ ExpireSession(s) \/ Refund(s)
    \/ LeaseLapses(s) \/ EventLeaseLapses(s) \/ FourteenDays(s)

Next ==
    \/ \E j \in Job : Checkout(j) \/ JobStep(j) \/ Lose(j)
    \/ \E j \in Job, s \in Session : Fulfil(j, s) \/ Dispute(j, s)
    \/ \E s \in Session : SessionStep(s)
    \/ SetUp \/ DestroyReads \/ DestroyFails \/ Destroy \/ Lapse

Spec == Init /\ [][Next]_vars

(* Requests run and leases end.  Stripe repeats a webhook until it is         *)
(* answered, so what its request does for one session is not lost for ever.   *)
Of(s, j) == job[j].session = s

FairSpec ==
    /\ Spec
    /\ \A j \in Job : WF_vars(JobStep(j))
    /\ \A s \in Session :
         /\ WF_vars(LeaseLapses(s))
         /\ SF_vars(\E j \in Job : Fulfil(j, s))
         /\ SF_vars(\E j \in Job : Of(s, j) /\ ClaimLedger(j))
         /\ SF_vars(\E j \in Job : Of(s, j) /\ Grant(j))

(****************************************************************************)
(* A code is never reallocated under a buyer who can still pay for it, or who *)
(* has paid and was not served: "a late payment must never charge someone for *)
(* a code that was reallocated" (stripe.ts), whatever answer was lost and     *)
(* whichever requests race.                                                   *)
Payable(s) == sessions[s] = "open" \/ (Verified(s) /\ s \notin granted \cup refunded)

HeldWhilePayable ==
    \A s \in Session : Payable(s) =>
        /\ ~IsLive /\ ~PassActive
        /\ ReservedFor(s) \/ (sessions[s] = "open" /\ Reserved /\ reservation.session = NoSession)

(* A refund that has been processed is final: the session is not active, and  *)
(* no fulfilment that was already on its way makes it so (the room's          *)
(* tombstones, handleFortPassRevocation).                                     *)
RefundIsFinal ==
    \A s \in Session : events[s] = Complete => ~(PassActive /\ entitlement.session = s)

(* A payment the ledger counts as fulfilled was granted, although the grant   *)
(* and the ledger are two objects and either answer may be lost.              *)
FulfilledWasGranted == \A s \in Session : ledger[s] = Complete => s \in granted

(* A payment is granted once, however many webhooks and redemptions run, die  *)
(* or outlive their lease, and whatever became of the room in between.        *)
GrantedOnce ==
    [][\A s \in Session : (entitlement' = [session |-> s, active |-> TRUE] /\ entitlement' # entitlement)
         => s \notin granted]_vars
(* A buyer who has paid is served, unless the charge is refunded or nobody    *)
(* got through in fourteen days.                                              *)
PaidIsServed == \A s \in Session : Verified(s) ~> s \in granted \cup refunded \cup over
=============================================================================
