--------------------------- MODULE SecureSession ---------------------------
(***************************************************************************)
(* The causal work of a room, end to end: the engines of its members       *)
(* (participant/secureRoomEngine.ts) with what they keep on disk, their    *)
(* controllers (participant/secureRoomController.ts), the sockets, and the *)
(* relay as far as it orders, holds, answers and replays frames            *)
(* (secureRelayV4.ts; SecureRelay has its membership).                     *)
(*                                                                         *)
(* To send, a controller asks for the next place in the room's order.  The *)
(* engine applies and encrypts under that grant and stores the outcome     *)
(* with a rollback before anything leaves; until the relay's answer is     *)
(* stored, no other frame can be sent or received.  Sockets are lost with  *)
(* what is under way, browsers crash, and a resume replays the backlog.    *)
(*                                                                         *)
(* The members are fixed.  A store operation and the frames its handler    *)
(* sends are one step: a crash between them is a socket that loses them.   *)
(***************************************************************************)
EXTENDS Selections, SequencesExt, FiniteSets

CONSTANTS
  Devices, Host, None,
  Kinds,       \* "event": an application message; "update": a commit
  MaxIds,      \* bound: order requests made
  MaxDrops,    \* bound: sockets lost
  MaxResumes   \* bound: resumes

Ids == 1..MaxIds

\* "None" stands for no grant, no request and no frame.
ASSUME SessionAssumption ==
  /\ Host \in Devices
  /\ MaxIds \in Nat
  /\ None \notin [by : Devices, id : Ids]
  /\ None \notin [id : Ids, kind : Kinds]
  /\ None \notin [by : Devices, kind : Kinds, gen : Nat, base : Nat]

VARIABLES
  dev,     \* device -> its durable state
  ses,     \* device -> its controller
  relay,   \* the relay's state
  up,      \* device -> frames on their way to the relay
  down,    \* device -> frames on their way to the device
  sealed,  \* id -> what was encrypted under it (the bytes of its frame)
  count    \* requests made, sockets lost, resumes

vars == <<dev, ses, relay, up, down, sealed, count>>

\* A request, the grant it obtains and the one frame the grant allows go by
\* one id.
\* "sure": a resume-complete is unanswered.
Offline ==
  [pc |-> "off", open |-> FALSE, pend |-> None, todo |-> <<>>, sure |-> FALSE]

-----------------------------------------------------------------------------
(* The engine.  "applied" is every frame the state reflects, in order, and *)
(* "gen" the next generation of the sender's ratchet.                      *)

Idle(D) == D.out = 0

\* encryptEventInternal, selfUpdate: the ratchet moves on with the state.
Encrypted(D, id) ==
  [D EXCEPT !.gen = D.gen + 1, !.applied = Append(D.applied, id), !.out = id]
\* The grant has to be for the next event of the state (validateOutboundGrant).
Events(ids) == Cardinality({n \in DOMAIN ids : sealed[ids[n]].kind = "event"})
Fits(D, order) == Idle(D) /\ order = Events(D.applied) + 1

\* acknowledgeOutbound
Acknowledged(D) == [D EXCEPT !.out = 0]

\* Slip: the rollback brings the old ratchet back as well.
RewoundAll(D) ==
  IF sealed[D.out].kind = "update" THEN [D EXCEPT !.gone = TRUE]
  ELSE [D EXCEPT !.applied = Front(D.applied), !.out = 0, !.gen = D.gen - 1]
\* rejectOutbound: an event is taken back, all but the ratchet; a commit
\* has consumed its epoch, so its rejection ends the identity.
Rewound(D) ==
  IF sealed[D.out].kind = "update" THEN [D EXCEPT !.gone = TRUE]
  ELSE [D EXCEPT !.applied = Front(D.applied), !.out = 0]

\* receive: a frame that was processed is recognised before anything else;
\* any other must be the next one, of a state with nothing unanswered.
Knows(D, id) == id \in ToSet(D.applied)
IsNext(D, id) == Idle(D) /\ sealed[id].base = Len(D.applied)
\* Slip: a commit is acknowledged but not stored.
ReceivedEvents(D, id) ==
  IF Knows(D, id) \/ sealed[id].kind = "update" THEN D
  ELSE [D EXCEPT !.applied = Append(D.applied, id)]
Received(D, id) ==
  IF Knows(D, id) THEN D ELSE [D EXCEPT !.applied = Append(D.applied, id)]

\* Slip: what is unanswered is taken back when the state is restored.
TakenBack(D) == IF Idle(D) THEN D ELSE Rewound(D)
\* restore
Restored(D) == D

-----------------------------------------------------------------------------
(* The controller *)

\* pumpGrantQueue ends most handlers: one request at a time, and none while
\* a frame is unanswered.
Pumps(D, S) ==
  /\ S.pc = "ready" /\ S.open /\ S.pend = None /\ S.todo # <<>>
  /\ Idle(D) /\ ~D.gone
  /\ count.ids < MaxIds

\* The end of a handler of d: its new state, and the frames it sends.
Finish(d, D, S, fs) ==
  LET id   == count.ids + 1
      pump == Pumps(D, S)
      sent == CASE D.gone -> Append(fs, [t |-> "close"])
                [] pump   -> Append(fs, [t |-> "request", id |-> id])
                [] OTHER  -> fs
  IN /\ dev' = [dev EXCEPT ![d] = D]
     /\ ses' = [ses EXCEPT ![d] =
          CASE D.gone -> Offline
            [] pump   -> [S EXCEPT !.pend = [id |-> id, kind |-> Head(S.todo)],
                                   !.todo = Tail(S.todo)]
            [] OTHER  -> S]
     /\ up' = [up EXCEPT ![d] = IF S.open THEN up[d] \o sent ELSE up[d]]
     /\ count' = [count EXCEPT !.ids = IF pump THEN id ELSE count.ids]

\* protocolClose: the session ends, the identity stays on disk.
Close(d) ==
  /\ ses' = [ses EXCEPT ![d] = Offline]
  /\ up' = [up EXCEPT ![d] =
       IF ses[d].open THEN Append(up[d], [t |-> "close"]) ELSE up[d]]
  /\ UNCHANGED <<dev, count>>

\* sendPendingEntry
Frame(id) == <<[t |-> "frame", id |-> id]>>
\* ackDurableDelivery: nothing while the backlog is replayed.
Ack(S, id) == IF S.pc = "ready" THEN <<[t |-> "ack", id |-> id]>> ELSE <<>>

\* The user or an automation wants something sent (enqueueGrantIntent).
Want(d, k) ==
  /\ ses[d].pc = "ready" /\ ses[d].todo = <<>>
  /\ Finish(d, dev[d], [ses[d] EXCEPT !.todo = <<k>>], <<>>)
  /\ UNCHANGED <<relay, down, sealed>>

\* handleGrant: the intent is carried out under the grant, or turns out to
\* be impossible by now.
OnGranted(d, f) ==
  LET S == ses[d]
      D == dev[d]
      R == [S EXCEPT !.pend = None]
  IN IF S.pend = None \/ S.pend.id # f.id THEN Close(d) /\ UNCHANGED sealed
     ELSE \/ /\ Fits(D, f.order)
             /\ Finish(d, Encrypted(D, f.id), R, Frame(f.id))
             /\ sealed' = [sealed EXCEPT ![f.id] =
                  [by |-> d, kind |-> S.pend.kind, gen |-> D.gen,
                   base |-> Len(D.applied)]]
          \/ /\ Finish(d, D, R, <<>>)
             /\ UNCHANGED sealed

\* handleOrderExpired
OnExpired(d, f) ==
  IF dev[d].out = f.id THEN Finish(d, Rewound(dev[d]), ses[d], <<>>)
  ELSE UNCHANGED <<dev, ses, up, count>>
\* handleOrderCancelled: an intent that was only waiting goes back.
OnCancelled(d, f) ==
  LET S == ses[d]
  IN IF S.pend # None /\ S.pend.id = f.id
     THEN Finish(d, dev[d],
            [S EXCEPT !.pend = None, !.todo = <<S.pend.kind>> \o S.todo], <<>>)
     ELSE OnExpired(d, f)

\* handleFrameAccepted, handleApplicationResult, handleCommitRejected: an
\* answer to nothing is ignored, and not acknowledged either.
OnResult(d, f) ==
  IF dev[d].out # f.id THEN UNCHANGED <<dev, ses, up, count>>
  ELSE Finish(d, IF f.ok THEN Acknowledged(dev[d]) ELSE Rewound(dev[d]),
              ses[d], Ack(ses[d], f.id))

\* handleRelay
OnRelay(d, f) ==
  IF Knows(dev[d], f.id) \/ IsNext(dev[d], f.id)
  THEN Finish(d, Received(dev[d], f.id), ses[d], Ack(ses[d], f.id))
  ELSE Close(d)

\* handleApplicationPreview, handleCommitPreview
OnPreview(d, f) ==
  Finish(d, dev[d], ses[d],
    <<[t |-> "decide", id |-> f.id, ok |-> IsNext(dev[d], f.id)]>>)

\* handleBacklogEnd, and its answer: what is on disk is sent again
\* (retryDurableWork).  The answer of an earlier connection is still waited
\* for if that was lost.
OnEnd(d, f) ==
  IF ses[d].sure THEN Close(d)
  ELSE Finish(d, dev[d], [ses[d] EXCEPT !.pc = "confirming", !.sure = TRUE],
              <<[t |-> "complete", id |-> f.id]>>)
OnCompleted(d) ==
  Finish(d, dev[d], [ses[d] EXCEPT !.pc = "ready", !.sure = FALSE],
         IF Idle(dev[d]) THEN <<>> ELSE Frame(dev[d].out))

\* handleMemberLifecycle: a member is back, d itself perhaps, and
\* completeAdmissionLifecycle wants nothing unanswered.
OnActive(d) ==
  IF Idle(dev[d]) THEN Finish(d, dev[d], ses[d], <<>>) ELSE Close(d)

\* handleServerError: only a refusal that will pass is survived.
OnError(d, f) ==
  IF f.code = "delivery-pending" THEN Finish(d, dev[d], ses[d], <<>>)
  ELSE Close(d)

\* One frame at a time (enqueue, handleServerFrame).
Handle(d) ==
  /\ ses[d].pc # "off" /\ down[d] # <<>>
  /\ LET f == Head(down[d])
     IN \/ f.t = "granted" /\ OnGranted(d, f)
        \/ /\ \/ f.t = "expired"   /\ OnExpired(d, f)
              \/ f.t = "cancelled" /\ OnCancelled(d, f)
              \/ f.t = "result"    /\ OnResult(d, f)
              \/ f.t = "relay"     /\ OnRelay(d, f)
              \/ f.t = "preview"   /\ OnPreview(d, f)
              \/ f.t = "end"       /\ OnEnd(d, f)
              \/ f.t = "active"    /\ OnActive(d)
              \/ f.t = "completed" /\ OnCompleted(d)
              \/ f.t = "error"     /\ OnError(d, f)
           /\ UNCHANGED sealed
  /\ down' = [down EXCEPT ![d] = IF ses'[d].pc = "off" THEN <<>> ELSE Tail(down[d])]
  /\ UNCHANGED relay

-----------------------------------------------------------------------------
(* The relay.  A step works on the relay's state and what it sends; what   *)
(* is sent into a socket that is lost is lost.                             *)

Now == [r |-> relay, w |-> down]
\* What each device of the domain of fs is sent.
TellEach(X, fs) ==
  [X EXCEPT !.w = [d \in Devices |->
     IF d \in DOMAIN fs /\ X.r.st[d] \in {"active", "replaying"} /\ ses[d].open
     THEN X.w[d] \o fs[d] ELSE X.w[d]]]
Tell(X, d, fs) == TellEach(X, [e \in {d} |-> fs])
Error(X, d, code) == Tell(X, d, <<[t |-> "error", code |-> code]>>)
Mark(X, id, how) == [X EXCEPT !.r.rec[id] = how]

\* Requests lose their place in the queue.
Queued(R, ds) == {q \in ToSet(R.queue) : q.by \in ds}
Cancel(R, lost) ==
  [R EXCEPT
    !.queue = Filter(R.queue, ToSet(R.queue) \ lost),
    !.rec = [id \in Ids |-> IF \E q \in lost : q.id = id THEN "cancelled"
                           ELSE R.rec[id]]]

\* appendBacklog, for every device that gets an entry: a device with
\* something to process cannot wait for its turn.
Deliver(X, es) ==
  LET lost == Queued(X.r, DOMAIN es)
      R == [Cancel(X.r, lost) EXCEPT !.back = [d \in Devices |->
              IF d \in DOMAIN es THEN Append(X.r.back[d], es[d]) ELSE X.r.back[d]]]
      mine(d) == {q \in lost : q.by = d}
      frames == [d \in DOMAIN es |->
        IF mine(d) = {} THEN <<es[d]>>
        ELSE <<es[d], [t |-> "cancelled", id |-> (CHOOSE q \in mine(d) : TRUE).id]>>]
  IN TellEach([X EXCEPT !.r = R], frames)

\* issueNextGrant: the next place goes to one device at a time.
Issue(X) ==
  IF X.r.grant # None \/ X.r.held # 0 \/ X.r.queue = <<>> THEN X
  ELSE LET q == Head(X.r.queue)
       IN Tell([X EXCEPT !.r.grant = q, !.r.queue = Tail(X.r.queue)], q.by,
            <<[t |-> "granted", id |-> q.id, order |-> Events(X.r.log) + 1]>>)

Result(id, ok) == [t |-> "result", id |-> id, ok |-> ok]
\* routeGroupFrame and the sender's own answer
Accept(X, id) ==
  LET by == sealed[id].by
      es == [d \in Devices |->
               IF d = by THEN Result(id, TRUE) ELSE [t |-> "relay", id |-> id]]
  IN Issue(Deliver([Mark(X, id, "accepted") EXCEPT !.r.log = Append(X.r.log, id)], es))
Reject(X, id) ==
  Issue(Deliver(Mark(X, id, "rejected"),
                [d \in {sealed[id].by} |-> Result(id, FALSE)]))

\* emitHostPendingWork
HostFree(X) == X.r.st[Host] = "active" /\ X.r.back[Host] = <<>>
Preview(X) ==
  IF X.r.held # 0 /\ HostFree(X)
  THEN Tell(X, Host, <<[t |-> "preview", id |-> X.r.held]>>) ELSE X

\* recoverRelayRetry: a frame or a grant that has its answer gets it again.
Retried(X, d, id) ==
  CASE X.r.rec[id] \in {"accepted", "rejected"} ->
         Tell(X, d, <<Result(id, X.r.rec[id] = "accepted")>>)
    [] X.r.rec[id] = "held" -> Preview(X)
    [] X.r.rec[id] \in {"cancelled", "expired"} ->
         Tell(X, d, <<[t |-> X.r.rec[id], id |-> id]>>)

\* A grant runs out, before its frame is there or with it.
GrantLapsed(X) ==
  LET g == X.r.grant
  IN Tell([Mark(X, g.id, "expired") EXCEPT !.r.grant = None], g.by,
          <<[t |-> "expired", id |-> g.id]>>)

\* A relay frame: the host's is accepted, another's waits for the host.
OnFrame(X, d, id) ==
  IF X.r.rec[id] # "asked" THEN {Retried(X, d, id)}
  ELSE IF X.r.st[d] # "active" THEN {Error(X, d, "pending-cannot-send")}
  ELSE IF X.r.back[d] # <<>> THEN {Error(X, d, "delivery-pending")}
  ELSE IF X.r.grant = None \/ X.r.grant.id # id THEN {Error(X, d, "invalid-grant")}
  ELSE {Reject(GrantLapsed(X), id)} \cup
       (IF d = Host THEN {Accept([X EXCEPT !.r.grant = None], id)}
        ELSE IF ~HostFree(X) THEN {Error(X, d, "recipient-unavailable")}
        ELSE {Preview([Mark(X, id, "held") EXCEPT !.r.grant = None, !.r.held = id])})

\* application-decision, commit-decision
OnDecision(X, f) ==
  LET Y == [X EXCEPT !.r.held = 0]
  IN IF X.r.back[Host] # <<>> THEN Error(X, Host, "delivery-pending")
     ELSE IF X.r.held # f.id THEN Error(X, Host, "invalid-reference")
     ELSE IF f.ok THEN Accept(Y, f.id) ELSE Reject(Y, f.id)

OnRequest(X, d, id) ==
  LET Y == Mark(X, id, "asked")
      mine == X.r.grant # None /\ X.r.grant.by = d
  IN IF X.r.st[d] # "active" THEN Error(X, d, "active-member-required")
     ELSE IF X.r.back[d] # <<>>
     THEN Tell(Mark(X, id, "cancelled"), d, <<[t |-> "cancelled", id |-> id]>>)
     ELSE IF mine \/ Queued(X.r, {d}) # {} THEN Error(X, d, "order-already-pending")
     ELSE Issue([Y EXCEPT !.r.queue = Append(X.r.queue, [by |-> d, id |-> id])])

\* delivery-ack: the backlog up to the named entry.
OnAck(X, d, id) ==
  LET at == {n \in DOMAIN X.r.back[d] : X.r.back[d][n].id = id}
      Y  == [X EXCEPT !.r.back[d] =
               SubSeq(X.r.back[d], (CHOOSE n \in at : TRUE) + 1, Len(X.r.back[d]))]
  IN IF at = {} THEN Error(X, d, "invalid-reference")
     ELSE IF d = Host THEN Preview(Y) ELSE Y

\* resume-complete names the last entry of the backlog.
LastOf(back) == IF back = <<>> THEN 0 ELSE Last(back).id
\* Slip: whatever entry it names.
ExactAny(X, d, id) == X.r.st[d] = "replaying"
Exact(X, d, id) == X.r.st[d] = "replaying" /\ id = LastOf(X.r.back[d])
OnComplete(X, d, id) ==
  LET R == [X EXCEPT !.r.st[d] = "active", !.r.back[d] = <<>>]
      Y == Tell(TellEach(R, [e \in Devices |-> <<[t |-> "active"]>>]),
                d, <<[t |-> "completed"]>>)
  IN IF ~Exact(X, d, id) THEN Error(X, d, "invalid-reference")
     ELSE IF d = Host THEN Preview(Y) ELSE Y

\* disconnectSecureRelayDeviceV4
OnClose(X, d) ==
  LET lost == Queued(X.r, {d}) \cup
              {g \in {X.r.grant} : g # None /\ g.by = d}
  IN Issue([X EXCEPT !.r = [Cancel(X.r, lost) EXCEPT
       !.st[d] = "away",
       !.grant = IF X.r.grant \in lost THEN None ELSE X.r.grant]])

Outcomes(X, d, f) ==
  CASE f.t = "frame"    -> OnFrame(X, d, f.id)
    [] f.t = "decide"   -> {OnDecision(X, f)}
    [] f.t = "request"  -> {OnRequest(X, d, f.id)}
    [] f.t = "ack"      -> {OnAck(X, d, f.id)}
    [] f.t = "complete" -> {OnComplete(X, d, f.id)}
    [] f.t = "close"    -> {OnClose(X, d)}

Becomes(X) == relay' = X.r /\ down' = X.w
Relay(d) ==
  /\ up[d] # <<>>
  /\ up' = [up EXCEPT ![d] = Tail(up[d])]
  /\ \E X \in Outcomes(Now, d, Head(up[d])) : Becomes(X)
  /\ UNCHANGED <<dev, ses, sealed, count>>

\* The alarm; a held frame can lapse with the arrival of another frame too,
\* which is then lost to the cleanup (reduceSecureRelayV4, 3180).
ExpireGrant ==
  /\ relay.grant # None
  /\ Becomes(Issue(GrantLapsed(Now)))
  /\ UNCHANGED <<dev, ses, up, sealed, count>>
HeldLapsed == Reject([Now EXCEPT !.r.held = 0], relay.held)
ExpireHeld ==
  /\ relay.held # 0
  /\ Becomes(HeldLapsed)
  /\ UNCHANGED <<dev, ses, up, sealed, count>>
Swallow(d) ==
  /\ relay.held # 0
  /\ up[d] # <<>> /\ Head(up[d]).t # "close"
  /\ up' = [up EXCEPT ![d] = Tail(up[d])]
  /\ Becomes(HeldLapsed)
  /\ UNCHANGED <<dev, ses, sealed, count>>

-----------------------------------------------------------------------------
(* Sockets *)

\* A socket is lost with some of what is under way; the browser still
\* handles what it has received, until it notices or crashes.
Drop(d) ==
  /\ ses[d].open /\ count.drops < MaxDrops
  /\ ses' = [ses EXCEPT ![d].open = FALSE]
  /\ \E n \in 0..Len(up[d]) :
       up' = [up EXCEPT ![d] = Append(SubSeq(up[d], 1, n), [t |-> "close"])]
  /\ count' = [count EXCEPT !.drops = count.drops + 1]
  /\ UNCHANGED <<dev, relay, down, sealed>>
\* The page is loaded again, or its controller reconnects with what it is
\* waiting for.
Notice(d) ==
  /\ ses[d].pc # "off" /\ ~ses[d].open
  /\ \E S \in {Offline, [ses[d] EXCEPT !.pc = "off"]} : ses' = [ses EXCEPT ![d] = S]
  /\ down' = [down EXCEPT ![d] = <<>>]
  /\ UNCHANGED <<dev, relay, up, sealed, count>>

\* A resume: the backlog, then its end (reduceSecureRelayV4, handleAuthenticated).
Resume(d) ==
  /\ ses[d].pc = "off" /\ ~dev[d].gone
  /\ up[d] = <<>> /\ relay.st[d] = "away"
  /\ count.resumes < MaxResumes
  /\ dev' = [dev EXCEPT ![d] = Restored(dev[d])]
  /\ ses' = [ses EXCEPT ![d].pc = "replaying", ![d].open = TRUE]
  /\ relay' = [relay EXCEPT !.st[d] = "replaying"]
  /\ down' = [down EXCEPT ![d] = Append(relay.back[d],
       [t |-> "end", id |-> LastOf(relay.back[d])])]
  /\ count' = [count EXCEPT !.resumes = count.resumes + 1]
  /\ UNCHANGED <<up, sealed>>

-----------------------------------------------------------------------------
Init ==
  /\ dev = [d \in Devices |-> [gen |-> 0, applied |-> <<>>, out |-> 0, gone |-> FALSE]]
  /\ ses = [d \in Devices |-> [Offline EXCEPT !.pc = "ready", !.open = TRUE]]
  /\ relay = [st    |-> [d \in Devices |-> "active"],
              back  |-> [d \in Devices |-> <<>>],
              queue |-> <<>>, grant |-> None, held |-> 0,
              rec   |-> [id \in Ids |-> "none"],
              log   |-> <<>>]
  /\ up = [d \in Devices |-> <<>>]
  /\ down = [d \in Devices |-> <<>>]
  /\ sealed = [id \in Ids |-> None]
  /\ count = [ids |-> 0, drops |-> 0, resumes |-> 0]

Next ==
  \/ \E d \in Devices :
       \/ \E k \in Kinds : Want(d, k)
       \/ Handle(d) \/ Relay(d) \/ Swallow(d) \/ Drop(d) \/ Notice(d) \/ Resume(d)
  \/ ExpireGrant \/ ExpireHeld
Spec == Init /\ [][Next]_vars

-----------------------------------------------------------------------------
(* Properties *)

\* A generation of a sender's ratchet encrypts one frame only, whatever is
\* rolled back, refused, sent again or restored after a crash: two frames
\* under one generation share their key.
NoKeyReuse ==
  \A i, j \in Ids : i # j /\ sealed[i] # None /\ sealed[j] # None
                      /\ sealed[i].by = sealed[j].by
    => sealed[i].gen # sealed[j].gen

\* No device misses, repeats or reorders an accepted frame: what it has
\* settled, followed by what its backlog still holds for it, is the order
\* of the room.
SettledOf(D) == IF Idle(D) THEN D.applied ELSE Front(D.applied)
StillIn(d) ==
  LET news == Filter(relay.back[d], {e \in ToSet(relay.back[d]) :
        /\ e.t = "relay" \/ e.ok
        /\ e.id \notin ToSet(SettledOf(dev[d]))})
  IN [n \in DOMAIN news |-> news[n].id]
NothingSkipped ==
  \A d \in Devices : ~dev[d].gone => SettledOf(dev[d]) \o StillIn(d) = relay.log

\* What the room has accepted its sender neither takes back nor pays for
\* with its identity, and what a sender has taken back is never accepted.
AcceptedStays ==
  \A id \in ToSet(relay.log) :
    LET D == dev[sealed[id].by]
    IN Knows(D, id) /\ (D.gone => D.out # id)

\* A frame takes exactly the place in the order it was encrypted for; in
\* any other the receivers could neither decrypt nor apply it.
CausallyNext ==
  \A n \in DOMAIN relay.log : sealed[relay.log[n]].base = n - 1

\* test/secure-relay-v4.test.ts: a resumed outbox cannot deadlock.  So
\* nothing a resume brings is refused for the sake of an unanswered frame,
\* which is only sent again when the resume is complete.
ResumeNotStuck ==
  \A d \in Devices :
    /\ ses[d].pc \in {"replaying", "confirming"} /\ down[d] # <<>>
    /\ \/ Head(down[d]).t = "active"
       \/ Head(down[d]).t = "relay" /\ ~Knows(dev[d], Head(down[d]).id)
    => Idle(dev[d])
=============================================================================
