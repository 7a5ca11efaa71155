-------------------------- MODULE SecureMembership --------------------------
(***************************************************************************)
(* Who may read the room: admissions, departures and removals, end to end, *)
(* from the MLS tree and the signed state of every device                  *)
(* (participant/secureRoomEngine.ts) over its controller                   *)
(* (participant/secureRoomController.ts) to the relay's list of members    *)
(* (secureRelayV4.ts).                                                     *)
(*                                                                         *)
(* The three are changed by different frames at different times, so a      *)
(* change goes under a barrier: the admission of a device from its Add to  *)
(* its activation, a departure from the signed event to the Remove, and    *)
(* the removal of a device the relay has given up from the relay's marker  *)
(* to the Remove.  Under a barrier nobody may send anything else.          *)
(*                                                                         *)
(* A frame for the relay arrives when it is sent: what its sender does      *)
(* meanwhile it could as well do later.  What comes from the relay waits in *)
(* a queue for each device; of what a device sends in one turn, the last    *)
(* frames can be lost with the socket.  A page that loses its socket is     *)
(* loaded again (SecureSession has the page that reconnects, and the grants *)
(* that run out).  One device asks to join, once; the host stays host, and  *)
(* no game is played (SecureRoomEvents).                                    *)
(***************************************************************************)
EXTENDS Integers, SequencesExt, FiniteSetsExt, TLC

CONSTANTS
  Host, Members,   \* in the room at first
  Joiner,          \* wants to join
  Writers,         \* who has something to say
  None,
  MaxIds,      \* bound: order requests made
  MaxDrops,    \* bound: sockets lost
  MaxResumes   \* bound: resumes

VARIABLES
  dev,     \* device -> its durable state
  ses,     \* device -> its controller
  relay,   \* the relay's state
  inbox,   \* device -> frames on their way to the device
  count    \* requests made, sockets lost, resumes

vars == <<dev, ses, relay, inbox, count>>

Devices == {Host, Joiner} \cup Members
\* A request, its grant and the frame the grant is for go by one id; the
\* grant of a join proof goes by the device that joins.
Ids == (1..MaxIds) \cup {Joiner}

-----------------------------------------------------------------------------
(* The engine.  "leaves" is the MLS tree, "members" the signed profiles,   *)
(* "leaving" the signed departure, "adding" the admission barrier, "out"   *)
(* the unanswered frame, "entry" how far the host is with an admission,    *)
(* "due" the retire-member controls (the device and the id of its Remove), *)
(* and "seen" the frames processed.                                        *)

NewDevice(room) ==
  [leaves |-> room, members |-> room, leaving |-> None, adding |-> None,
   out |-> None, entry |-> "none", due |-> <<>>, seen |-> {}, gone |-> FALSE]

Erased == [NewDevice({}) EXCEPT !.gone = TRUE]
Idle(D) == D.out = None
IsOut(D, id) == ~Idle(D) /\ D.out.id = id
Barred(D, S) == S.marks # <<>> \/ D.leaving # None \/ D.adding # None

\* The leaf and the profile of a device go together, and with them what was
\* under way for it.
Without(D, x) ==
  [D EXCEPT !.leaves = D.leaves \ {x}, !.members = D.members \ {x},
            !.leaving = IF D.leaving = x THEN None ELSE D.leaving,
            !.adding = IF D.adding = x THEN None ELSE D.adding,
            !.entry = IF D.adding = x THEN "none" ELSE D.entry]

\* The state after a frame, for its sender and for its readers.
After(D, f) ==
  CASE f.k = "chat"   -> D
    [] f.k = "leave"  -> [D EXCEPT !.leaving = f.x]
    [] f.k = "add"    -> [D EXCEPT !.leaves = D.leaves \cup {f.x}, !.adding = f.x]
    [] f.k = "remove" -> Without(D, f.x)
    [] f.k = "boot"   -> IF D.members = {} THEN [D EXCEPT !.members = f.members] ELSE D
    [] f.k = "proof"  -> [D EXCEPT !.members = D.members \cup {f.x}]

\* The guards of encryptEventInternal, addMember, removeMember,
\* encryptStateSnapshot and encryptJoinProof.
MaySeal(D, S, q) ==
  /\ Idle(D)
  /\ CASE q.k \in {"chat", "leave"} -> ~Barred(D, S)
       [] q.k = "add"    -> ~Barred(D, S) /\ S.key = "approving" /\ S.who = q.x
       [] q.k = "boot"   -> /\ S.marks = <<>> /\ D.leaving = None
                            /\ D.adding = q.x /\ D.entry = "welcomed"
       [] q.k = "remove" -> /\ q.x \in D.leaves
                            /\ IF S.marks # <<>> THEN q.marked /\ q.x = Head(S.marks)
                               ELSE ~q.marked /\ D.adding = None /\ D.leaving = q.x
       [] q.k = "proof"  -> S.marks = <<>> /\ D.leaving = None /\ D.members # {}

\* The frame, with the tree that can read what follows it, and the state
\* that waits for its answer.
NewFrame(d, D, q, id) ==
  LET f == [k |-> q.k, x |-> q.x, marked |-> q.marked, by |-> d, id |-> id,
            members |-> D.members, tree |-> D.leaves]
  IN [f EXCEPT !.tree = After(D, f).leaves]
\* appendPendingOutbox, appendPendingRelayControl: what is kept to be sent
\* again, the control only once its Remove is in.
Kept(D, f) ==
  [D EXCEPT !.out = f,
     !.entry = CASE f.k = "add" -> "sent" [] f.k = "boot" -> "booting" [] OTHER -> D.entry]
Owing(D, f) ==
  IF f.k # "remove" THEN D
  ELSE [D EXCEPT !.due = Append(@, [x |-> f.x, id |-> f.id, marked |-> f.marked])]
Sealed(D, f) == Owing(Kept(After(D, f), f), f)
\* acknowledgeOutboxId: an admission is kept until its bootstrap is in.
Acknowledged(D) ==
  [D EXCEPT !.out = None, !.entry = IF D.out.k = "add" THEN "added" ELSE @]
\* appendProcessedDelivery
Processed(D, id) == [D EXCEPT !.seen = @ \cup {id}]

\* Slip: what an event did to the state stays when it is taken back.
UndoneOnly(D) ==
  CASE D.out.k \in {"add", "remove"} -> Erased
    [] D.out.k = "boot"  -> [D EXCEPT !.out = None, !.entry = "welcomed"]
    [] OTHER             -> [D EXCEPT !.out = None]
\* rejectOutbound: an event goes back to what was before, a commit takes
\* the identity with it.
Undone(D) ==
  CASE D.out.k \in {"add", "remove"} -> Erased
    [] D.out.k = "leave" -> [D EXCEPT !.out = None, !.leaving = None]
    [] D.out.k = "boot"  -> [D EXCEPT !.out = None, !.entry = "welcomed"]
    [] D.out.k = "proof" -> [D EXCEPT !.out = None, !.members = D.members \ {D.out.x}]
    [] OTHER             -> [D EXCEPT !.out = None]

\* assertInboundAllowedDuringMembershipBarrier, and the checks of the plans
\* for what is received.
FromLeaf(D, f) == f.by \in D.leaves   \* authenticatedCommitSender
Acceptable(D, S, f) ==
  /\ Idle(D) /\ FromLeaf(D, f)
  /\ IF S.marks # <<>> THEN f.k = "remove" /\ f.marked /\ f.x = Head(S.marks)
     ELSE IF D.leaving # None THEN f.k = "remove" /\ ~f.marked /\ f.x = D.leaving
     ELSE IF D.adding # None THEN f.k \in {"boot", "proof"} /\ f.x = D.adding
     ELSE f.k = "add" \/ (f.k \in {"chat", "leave"} /\ f.by \in D.members)

-----------------------------------------------------------------------------
(* The controller.  "marks" are the relay's markers, first come first,     *)
(* "key" and "who" the device that waits for the host, "todo" what waits   *)
(* for a grant, "pend" the request under way, "busy" the intent of the     *)
(* unanswered frame, "told" the controls already sent.                     *)

Offline == [on |-> "off", marks |-> <<>>, key |-> "none", who |-> None,
            pend |-> None, busy |-> None, todo |-> <<>>, told |-> {}]

\* A handler works on a turn: the device, its state, its controller, the
\* frames it sends and the requests it has made.
Turn(d) == [d |-> d, D |-> dev[d], S |-> ses[d], fs |-> <<>>, ids |-> count.ids]
Send(T, f) == [T EXCEPT !.fs = Append(T.fs, f)]
\* protocolClose: the session ends; finishTerminal: the device with it.
Close(T) == [T EXCEPT !.S = Offline, !.fs = Append(T.fs, [t |-> "close"])]
End(T) == Close([T EXCEPT !.D = Erased])

Want(k, x) == [k |-> k, x |-> x, marked |-> FALSE]
Removal(x) == [k |-> "remove", x |-> x, marked |-> TRUE]

\* isIntentAllowedDuringMembershipBarrier
Allowed(T, q) ==
  IF T.S.marks # <<>> THEN q = Removal(Head(T.S.marks))
  ELSE IF T.D.leaving # None THEN q.k = "remove" /\ q.x = T.D.leaving
  ELSE T.D.adding # None => q = Want("boot", T.D.adding)

\* hasBlockingOutbox
Blocking(D) == ~Idle(D) \/ D.entry \in {"sent", "added"}

\* pumpGrantQueue: one request at a time, and none while a frame or an
\* admission is unanswered.
Free(T) == {n \in DOMAIN T.S.todo : Allowed(T, T.S.todo[n])}
Pump(T) ==
  IF T.S.on # "on" \/ T.S.pend # None \/ Blocking(T.D) \/ Free(T) = {} \/ T.ids >= MaxIds
  THEN T
  ELSE LET n  == Min(Free(T))
           id == T.ids + 1
       IN Send([T EXCEPT !.ids = id,
                         !.S.pend = [id |-> id, q |-> T.S.todo[n]],
                         !.S.todo = RemoveAt(T.S.todo, n)],
               [t |-> "request", id |-> id])

\* enqueueGrantIntent: an intent is known until its frame is answered.
Known(S, q) == q \in ToSet(S.todo) \/ q = S.busy \/ (S.pend # None /\ S.pend.q = q)
Queue(T, q) ==
  IF Known(T.S, q) \/ ~Allowed(T, q) THEN T
  ELSE Pump([T EXCEPT !.S.todo = <<q>> \o T.S.todo])
\* queueMemberRemoval
QueueRemoval(T, q) == IF q.x \in T.D.leaves THEN Queue(T, q) ELSE T
\* queueCurrentRetirementBarrier
QueueMarked(T) ==
  IF T.d = Host /\ T.S.marks # <<>> THEN QueueRemoval(T, Removal(Head(T.S.marks))) ELSE T

\* sendAdmissionCancellation, removePendingHostAdmission
NoKey(T) == [T EXCEPT !.S.key = "none", !.S.who = None]
Refuse(T) ==
  IF T.S.key = "none" THEN T ELSE NoKey(Send(T, [t |-> "cancel", x |-> T.S.who]))

Purged(T) == [T EXCEPT !.S.todo = SelectSeq(T.S.todo, LAMBDA q : Allowed(T, q))]
\* Slip: a departure that was signed is left to whoever signed it.
RaiseMarked(T) ==
  IF ~Barred(T.D, T.S) THEN T ELSE QueueMarked(Purged(Refuse(T)))
\* activateMembershipBarrier: nothing else goes on, and the host starts
\* what lifts the barrier.
Raise(T) ==
  LET Y == Purged(Refuse(T))
  IN IF ~Barred(T.D, T.S) THEN T
     ELSE IF T.d # Host THEN Y
     ELSE IF Y.S.marks # <<>> THEN QueueMarked(Y)
     ELSE IF Y.D.leaving # None THEN QueueRemoval(Y, Want("remove", Y.D.leaving))
     ELSE Y
\* runAutomations
Automate(T) == IF T.S.on = "on" THEN Raise(T) ELSE T

\* retryRelayControls: what the relay has to retire, once the Remove is in.
Controls(T) ==
  LET new == SelectSeq(T.D.due, LAMBDA c : ~IsOut(T.D, c.id) /\ c.id \notin T.S.told)
  IN IF T.S.on # "on" THEN T
     ELSE [T EXCEPT !.S.told = T.S.told \cup {new[n].id : n \in DOMAIN new},
                    !.fs = T.fs \o [n \in DOMAIN new |->
                              [t |-> "retire", x |-> new[n].x, id |-> new[n].id]]]

\* afterAppliedState
Applied(T) == Automate(Controls(Raise(T)))

\* ackDurableDelivery: nothing while the backlog is replayed.
Ack(T, id) == IF T.S.on = "on" THEN Send(T, [t |-> "ack", id |-> id]) ELSE T

\* resolveRetirementBarrier, consumeRetirementBarrier
Lifted(S) == [S EXCEPT !.marks = Tail(@)]
Consume(T) == QueueMarked([T EXCEPT !.S = Lifted(T.S)])

\* sendPendingEntry, if isPendingEntryAllowedDuringMembershipBarrier.
Marked(T) == T.S.marks # <<>>
IsMarkedRemove(T, id) ==
  /\ Marked(T)
  /\ \E n \in DOMAIN T.D.due :
       T.D.due[n].x = Head(T.S.marks) /\ T.D.due[n].id = id /\ T.D.due[n].marked
\* pendingRemovalAuthorizationMessageId: the departure itself may still go.
Authorizes(D) == D.leaving # None /\ D.out.k = "leave"
MaySend(T) ==
  IF Marked(T) THEN IsMarkedRemove(T, T.D.out.id)
  ELSE IF T.D.leaving # None THEN Authorizes(T.D)
  ELSE T.D.adding # None => T.D.out.k \in {"add", "boot", "proof"}
SendOut(T) ==
  IF Idle(T.D) \/ ~MaySend(T) THEN T
  ELSE Send(T, [t |-> "frame", f |-> [T.D.out EXCEPT !.marked = Marked(T)]])
SendWelcome(T) ==
  IF T.D.entry # "added" \/ Marked(T) \/ T.D.leaving # None THEN T
  ELSE Send(T, [t |-> "welcome", x |-> T.D.adding, tree |-> T.D.leaves])

\* retryDurableWork
Retry(T) ==
  LET Y == SendWelcome(SendOut(T))
      Z == IF Y.D.entry = "welcomed" THEN Queue(Y, Want("boot", Y.D.adding)) ELSE Y
  IN Pump(Controls(Z))

-----------------------------------------------------------------------------
(* What a controller does with a frame *)

\* The intent is carried out under its grant, if it still can be.
Run(T, q, id) ==
  LET f == NewFrame(T.d, T.D, q, id)
      Y == [T EXCEPT !.D = Sealed(T.D, f), !.S.busy = q]
  IN IF MaySeal(T.D, T.S, q)
     THEN SendOut(IF q.k = "add" THEN Raise(NoKey(Y)) ELSE Y)
     ELSE IF q.k = "proof" THEN Close(T)
     ELSE Pump([T EXCEPT !.S.key = IF @ = "approving" THEN "pending" ELSE @])
\* sendJoinProof, unless a proof is kept already
RunProof(T) == Run(T, Want("proof", T.d), T.d)

\* handleGrant: under a barrier, what may go on takes the grant instead.
Granted(T, id) ==
  LET p == T.S.pend
      R == [T EXCEPT !.S.pend = None]
      n == Min(Free(T))
  IN IF p # None /\ p.id = id
     THEN IF Allowed(T, p.q) THEN Run(R, p.q, id)
          ELSE IF Free(T) = {} THEN Pump(R)
          ELSE Run([R EXCEPT !.S.todo = RemoveAt(@, n)], T.S.todo[n], id)
     ELSE IF IsOut(T.D, id) THEN SendOut(T)
     ELSE IF id = T.d THEN RunProof(T)
     ELSE Close(T)

\* handleOrderCancelled
Cancelled(T, id, why) ==
  LET p == T.S.pend
      back == IF why \in {"removal", "admission"} /\ ~Allowed(T, p.q) THEN <<>> ELSE <<p.q>>
      Y == [T EXCEPT !.D = Undone(T.D), !.S.busy = None]
  IN IF p # None /\ p.id = id
     THEN Pump([T EXCEPT !.S.pend = None, !.S.todo = back \o @])
     ELSE IF ~IsOut(T.D, id) THEN T
     ELSE IF Undone(T.D).gone THEN End(T)
     ELSE Pump(IF why \in {"removal", "admission"} THEN Raise(Y) ELSE Y)

\* handleFrameAccepted, handleApplicationResult, handleCommitRejected
Taken(T) ==
  LET f == T.D.out
      R == [T EXCEPT !.D = Acknowledged(T.D), !.S.busy = None]
      A == Ack(R, f.id)
  IN CASE f.k = "leave"           -> End(A)
       [] f.k = "boot"            -> Pump(Applied(R))
       [] f.k = "add"             -> SendWelcome(Applied(A))
       [] f.k = "remove"          ->
            Pump(Applied(IF IsMarkedRemove(T, f.id) THEN Consume(A) ELSE A))
       [] f.k \in {"chat", "proof"} -> Pump(Applied(A))
Refused(T) ==
  LET A == Ack([T EXCEPT !.D = Undone(T.D), !.S.busy = None], T.D.out.id)
  IN IF A.D.gone THEN End(A) ELSE Pump(A)
OnResult(T, id, ok) == IF ~IsOut(T.D, id) THEN T ELSE IF ok THEN Taken(T) ELSE Refused(T)
OnWelcomed(T, x) ==
  LET R == [T EXCEPT !.D.entry = "welcomed"]
  IN IF T.D.entry # "added" \/ T.D.adding # x THEN T
     ELSE Pump(Automate(Controls(Queue(R, Want("boot", x)))))

\* handleRelay.  A removal the relay asked for must be the one of the first
\* marker, and nothing else may pass a marker; only a frame that was
\* processed before needs none.
InTurn(T, f) ==
  LET marked == f.k = "remove" /\ f.marked
  IN IF Marked(T) THEN marked /\ f.x = Head(T.S.marks)
     ELSE marked => f.id \in T.D.seen
Received(T, f) ==
  LET R == [T EXCEPT !.D = Processed(After(T.D, f), f.id)]
      C == Ack(IF f.marked THEN Consume(R) ELSE R, f.id)
  IN IF ~Acceptable(T.D, T.S, f) THEN Close(T)
     ELSE IF f.k = "remove" /\ f.x = T.d THEN End(C)
     ELSE Applied(C)
\* A frame that comes again still lifts its marker, and insists on one.
Again(T, f) ==
  IF ~f.marked \/ f.x \in T.D.leaves THEN Ack(T, f.id)
  ELSE IF Marked(T) THEN Ack(Consume(T), f.id) ELSE Close(T)
OnRelay(T, f) ==
  IF ~InTurn(T, f) THEN Close(T)
  ELSE IF f.id \in T.D.seen THEN Again(T, f) ELSE Received(T, f)
\* The Welcome; its id is that of the host.
OnWelcome(T, tree) ==
  IF T.D.leaves # {} THEN Ack(T, Host)
  ELSE Ack(Raise([T EXCEPT !.D.leaves = tree, !.D.adding = T.d]), Host)

\* registerRetirementBarrier: a marker without a leaf is worth nothing,
\* except to a host whose Remove is under way.
Registers(T, x) ==
  \/ x \in ToSet(T.S.marks) \cup T.D.leaves
  \/ \E n \in DOMAIN T.D.due : T.D.due[n].x = x /\ T.D.due[n].marked
\* handleZombieRemovalRequired
OnMarker(T, x) ==
  LET Y == [T EXCEPT !.S.marks = IF x \in ToSet(@) THEN @ ELSE Append(@, x)]
  IN IF Registers(T, x) THEN Pump(QueueMarked(Purged(Refuse(Y)))) ELSE T

\* completeAdmissionLifecycle wants nothing unanswered, and so does
\* completeRelayControl.
Admitted(T) == [T EXCEPT !.D.adding = None, !.D.entry = "none"]
Resumed(T) == Pump(Automate(Retry(T)))

Retired(T, x) ==
  LET n == SelectInSeq(T.D.due, LAMBDA c : c.x = x)
      Y == IF Marked(T) /\ Head(T.S.marks) = x THEN Consume(T) ELSE T
  IN IF n = 0 THEN Y ELSE [Y EXCEPT !.D.due = RemoveAt(T.D.due, n)]

\* handleMemberLifecycle
OnLife(T, x, active) ==
  LET here == T.D.adding = x
      R == IF here THEN Admitted(T) ELSE T
      Y == Retired(IF here /\ x \notin T.D.leaves THEN R ELSE T, x)
  IN IF active
     THEN IF ~Idle(T.D) \/ x \notin T.D.leaves \cap T.D.members THEN Close(T)
          ELSE IF here THEN Resumed(R) ELSE T
     ELSE IF x = T.d THEN End(T)
     ELSE IF ~Idle(T.D) \/ (Marked(T) /\ Head(T.S.marks) = x /\ x \in T.D.leaves) THEN Close(T)
     ELSE IF here /\ x \notin T.D.leaves THEN Resumed(Y) ELSE Y

\* handleRoomStateSnapshot: the relay's list of members against the tree.
OnSnapshot(T, list) ==
  LET x == T.D.adding
      listed(y) == y \in DOMAIN list
      known == T.D.leaves \cap T.D.members
      settles == x # None /\ (listed(x) => list[x] # "pending")
      Y == IF settles /\ (listed(x) \/ x \notin T.D.leaves) THEN Admitted(T) ELSE T
      lifted(y) == ~listed(y) /\ y \notin T.D.leaves
      first == SelectInSeq(T.S.marks, LAMBDA y : ~lifted(y))
      marks == IF first = 0 THEN <<>>
               ELSE SubSeq(T.S.marks, first, Len(T.S.marks))
      over == SelectSeq(T.D.due, LAMBDA c : lifted(c.x))
      answered == ~Idle(T.D) /\ \E n \in DOMAIN over : over[n].id = T.D.out.id
      Z == [Y EXCEPT !.S.marks = marks,
                     !.D.due = SelectSeq(@, LAMBDA c : ~lifted(c.x)),
                     !.D.out = IF answered THEN None ELSE @,
                     !.S.busy = IF answered THEN None ELSE @]
  IN IF \/ \E y \in DOMAIN list : list[y] # "pending" /\ y \notin known
        \/ settles /\ ~Idle(T.D)
        \/ \E y \in T.D.leaves : ~listed(y) /\ y \notin ToSet(T.S.marks)
        \/ over # <<>> /\ ~Idle(T.D) /\ ~answered
     THEN Close(T) ELSE QueueMarked(Z)

\* handleBacklogEnd, and its answer: what is on disk is sent again, but the
\* automations are not run.
OnEnd(T, id) ==
  IF T.S.on # "replay" THEN T
  ELSE Send([T EXCEPT !.S.on = "sure"], [t |-> "complete", id |-> id])
OnDone(T) == Retry([T EXCEPT !.S.on = "on"])

\* handleKeyPackage
OnKey(T, x) ==
  IF T.S.key # "none" THEN T
  ELSE IF Barred(T.D, T.S) \/ x \in T.D.members THEN Send(T, [t |-> "cancel", x |-> x])
  ELSE [T EXCEPT !.S.key = "pending", !.S.who = x]
\* handleApplicationPreview, handleAdmissionProofPreview
OnPreview(T, f) ==
  Send(T, [t |-> "decide", id |-> f.id, ok |-> Acceptable(T.D, T.S, f)])
OnProof(T, f) ==
  IF Acceptable(T.D, T.S, f) THEN Send(T, [t |-> "activate", x |-> f.x]) ELSE T
\* handleServerError: only a refusal that will pass is survived.
OnError(T, passing) == IF passing THEN Pump(T) ELSE Close(T)

Handled(T, f) ==
  CASE f.t = "granted"   -> Granted(T, f.id)
    [] f.t = "cancelled" -> Cancelled(T, f.id, f.why)
    [] f.t = "result"    -> OnResult(T, f.id, f.ok)
    [] f.t = "welcomed"  -> OnWelcomed(T, f.x)
    [] f.t = "relay"     -> OnRelay(T, f.f)
    [] f.t = "welcome"   -> OnWelcome(T, f.tree)
    [] f.t = "marker"    -> OnMarker(T, f.x)
    [] f.t = "life"      -> OnLife(T, f.x, f.active)
    [] f.t = "snapshot"  -> OnSnapshot(T, f.list)
    [] f.t = "end"       -> OnEnd(T, f.id)
    [] f.t = "done"      -> OnDone(T)
    [] f.t = "key"       -> OnKey(T, f.x)
    [] f.t = "preview"   -> OnPreview(T, f.f)
    [] f.t = "proof"     -> OnProof(T, f.f)
    [] f.t = "error"     -> OnError(T, f.passing)

-----------------------------------------------------------------------------
(* The relay.  A step works on the relay's state and what it sends.        *)
(* "stage" is how far the admission of the joiner is, "marks" the markers, *)
(* and "cut" the accepted Remove of the first.                             *)

Connected == {"active", "replaying", "pending"}
Placed == {"active", "replaying", "away"}   \* with a place in the room
Tell(X, d, f) == IF X.r.st[d] \in Connected THEN [X EXCEPT !.w[d] = Append(@, f)] ELSE X
TellAll(X, f) == FoldSet(LAMBDA d, Y : Tell(Y, d, f), X, Devices)
Wait(X, d) == Tell(X, d, [t |-> "error", passing |-> TRUE])
Bad(X, d) == Tell(X, d, [t |-> "error", passing |-> FALSE])

Admitting(R) == R.stage \in {"added", "welcomed", "booted", "proven"}
Ready(R, d) == R.st[d] = "active" /\ R.back[d] = <<>>

\* persistOrderCancellation, for some of the requests that are waiting.
Owed(R) == ToSet(R.queue) \cup ({R.grant} \ {None})
Cancel(X, S, why) ==
  FoldSet(LAMBDA q, Y : Tell([Y EXCEPT !.r.rec[q.id] = why], q.by,
                             [t |-> "cancelled", id |-> q.id, why |-> why]),
          [X EXCEPT !.r.queue = SelectSeq(@, LAMBDA q : q \notin S),
                    !.r.grant = IF @ \in S THEN None ELSE @],
          S)

\* appendBacklog; an entry remembers the markers it came after.
Give(X, d, e) ==
  LET Y == Tell([X EXCEPT !.r.back[d] = Append(@, [e |-> e, past |-> ToSet(relay.marks)])],
                d, e)
  IN Cancel(Y, {q \in ToSet(X.r.queue) : q.by = d}, "delivery")
\* routeGroupFrame
Route(X, f) ==
  FoldSet(LAMBDA d, Y : Give(Y, d, [t |-> "relay", f |-> f, id |-> f.id]),
          X, {d \in Devices \ {f.by} : X.r.st[d] \in Placed})
\* deliverApplicationResult, deliverCommitResult
Answer(X, d, id, ok) ==
  IF X.r.st[d] \in Placed THEN Give(X, d, [t |-> "result", id |-> id, ok |-> ok]) ELSE X

Logged(X, f) == [X EXCEPT !.r.rec[f.id] = "accepted", !.r.log = Append(@, f)]
Accept(X, f) == Answer(Route(Logged(X, f), f), f.by, f.id, TRUE)
Reject(X, f) == Answer([X EXCEPT !.r.rec[f.id] = "rejected"], f.by, f.id, FALSE)

\* issueNextGrant
MayIssue(R) ==
  /\ R.grant = None /\ R.held = None /\ R.queue # <<>>
  /\ R.marks # <<>> => R.cut = None
  /\ Admitting(R) => R.stage = "welcomed" /\ Head(R.queue).by = Host
Issue(X) ==
  LET q == Head(X.r.queue)
  IN IF ~MayIssue(X.r) THEN X
     ELSE Tell([X EXCEPT !.r.grant = q, !.r.queue = Tail(@)], q.by,
               [t |-> "granted", id |-> q.id])

\* retirePendingAdmission, but for the marker it may leave
Ended(X) ==
  LET Y == IF X.r.stage = "proven"
           THEN Tell([X EXCEPT !.r.rec[Joiner] = "rejected"], Joiner,
                     [t |-> "result", id |-> Joiner, ok |-> FALSE])
           ELSE X
  IN [TellAll(Y, [t |-> "life", x |-> Joiner, active |-> FALSE]) EXCEPT
        !.r.st[Joiner] = "retired", !.r.stage = "none", !.r.back[Joiner] = <<>>]

\* emitZombieRemovalBarrier
Announce(X) ==
  IF X.r.marks = <<>> THEN X
  ELSE LET x == Head(X.r.marks)
       IN FoldSet(LAMBDA d, Y : Tell(Y, d, [t |-> "marker", x |-> x]), X, Devices \ {x})

\* persistZombieRemoval, activateZombieRemovalBarrier: the first marker ends
\* everything else that is going on.
RequireRemoval(X, x) ==
  LET first == Cancel([X EXCEPT !.r.marks = <<x>>], Owed(X.r), "removal")
      quiet == IF X.r.stage = "none" THEN first
               ELSE IF ~Admitting(X.r) THEN Ended(first)
               ELSE [Ended(first) EXCEPT !.r.marks = Append(@, Joiner)]
      clear == IF X.r.held = None THEN quiet
               ELSE Reject([quiet EXCEPT !.r.held = None], X.r.held)
        later == [X EXCEPT !.r.marks = IF x \in ToSet(@) THEN @ ELSE Append(@, x)]
  IN Announce(IF X.r.marks = <<>> THEN clear ELSE later)
RetireAdmission(X) ==
  IF Admitting(X.r) THEN RequireRemoval(Ended(X), Joiner) ELSE Ended(X)

\* emitHostPendingWork
KeyPackage(X) ==
  IF X.r.marks = <<>> /\ X.r.stage = "key" /\ X.r.st[Joiner] = "pending" /\ X.r.st[Host] = "active"
  THEN Tell(X, Host, [t |-> "key", x |-> Joiner]) ELSE X
Preview(X) ==
  IF X.r.held = None THEN X ELSE Tell(X, Host, [t |-> "preview", f |-> X.r.held])
PreviewProof(X) ==
  IF X.r.stage = "proven" /\ X.r.st[Joiner] = "pending"
  THEN Tell(X, Host, [t |-> "proof", f |-> X.r.proof]) ELSE X
HostWork(X) ==
  IF ~Ready(X.r, Host) THEN X
  ELSE IF X.r.marks # <<>> THEN Tell(X, Host, [t |-> "marker", x |-> Head(X.r.marks)])
  ELSE KeyPackage(PreviewProof(Preview(X)))

\* recoverRelayRetry
Retried(X, d, f) ==
  LET how == X.r.rec[f.id]
  IN CASE how \in {"accepted", "rejected"} ->
            Tell(X, d, [t |-> "result", id |-> f.id, ok |-> how = "accepted"])
       [] how = "held" ->
            IF ~Ready(X.r, Host) THEN X
            ELSE Tell(X, Host, IF f.k = "proof" THEN [t |-> "proof", f |-> f]
                               ELSE [t |-> "preview", f |-> f])
       [] OTHER -> Tell(X, d, [t |-> "cancelled", id |-> f.id, why |-> how])

\* What a frame that passed every barrier does.
OnCommit(X, f) ==
  LET Y == [X EXCEPT !.r.grant = None, !.r.cut = IF f.marked THEN f.id ELSE @,
                     !.r.stage = IF f.k = "add" THEN "added" ELSE @]
      Z == IF f.k = "add" THEN Cancel(Y, Owed(Y.r), "admission") ELSE Y
  IN IF f.k = "add" /\ ~(X.r.stage = "key" /\ X.r.st[Joiner] = "pending") THEN Bad(X, f.by)
     ELSE Issue(Accept(Z, f))
\* issueAdmissionProofGrant
GrantProof(X) ==
  Tell([X EXCEPT !.r.rec[Joiner] = "asked"], Joiner, [t |-> "granted", id |-> Joiner])
OnBoot(X, f) ==
  LET Y == Route(Logged([X EXCEPT !.r.grant = None, !.r.stage = "booted"], f), f)
      Z == Give(Y, Joiner, [t |-> "relay", f |-> f, id |-> f.id])
  IN IF X.r.st[Joiner] # "pending" THEN Bad(X, f.by)
     ELSE GrantProof(Tell(Z, f.by, [t |-> "result", id |-> f.id, ok |-> TRUE]))
OnJoinProof(X, f) ==
  IF X.r.st[Joiner] # "pending" THEN Bad(X, f.by)
  ELSE IF X.r.back[Joiner] # <<>> THEN Wait(X, f.by)
  ELSE IF X.r.stage # "booted" \/ ~Ready(X.r, Host) THEN Bad(X, f.by)
  ELSE PreviewProof([X EXCEPT !.r.stage = "proven", !.r.proof = f, !.r.rec[f.id] = "held"])
OnApplication(X, f) ==
  LET Y == [X EXCEPT !.r.grant = None]
  IN IF f.by = Host THEN Issue(Accept(Y, f))
     ELSE IF ~Ready(X.r, Host) THEN Bad(X, f.by)
     ELSE Preview([Y EXCEPT !.r.held = f, !.r.rec[f.id] = "held"])

\* A relay frame (reduceSecureRelayV4, 3379-3660)
PassesAdmission(R, f) ==
  \/ ~Admitting(R)
  \/ f.k = "boot" /\ R.stage = "welcomed"
  \/ f.k = "proof" /\ R.stage \in {"booted", "proven"}
OnFrame(X, d, f) ==
  IF X.r.rec[f.id] # "asked" THEN Retried(X, d, f)
  ELSE IF X.r.marks # <<>> /\ f.k \notin {"add", "remove"} THEN Wait(X, d)
  ELSE IF X.r.marks = <<>> /\ f.marked THEN Bad(X, d)
  ELSE IF ~PassesAdmission(X.r, f) THEN Wait(X, d)
  ELSE IF f.k = "proof" THEN OnJoinProof(X, f)
  ELSE IF X.r.st[d] # "active" THEN Bad(X, d)
  ELSE IF X.r.back[d] # <<>> THEN Wait(X, d)
  ELSE IF X.r.grant # [by |-> d, id |-> f.id] THEN Bad(X, d)
  ELSE IF X.r.marks # <<>> /\ X.r.cut # None THEN Wait(X, d)
  ELSE IF X.r.marks # <<>> /\ ~(f.marked /\ f.x = Head(X.r.marks)) THEN Bad(X, d)
  ELSE CASE f.k \in {"add", "remove"} -> OnCommit(X, f)
         [] f.k = "boot"              -> OnBoot(X, f)
         [] f.k \in {"chat", "leave"} -> OnApplication(X, f)

\* The Welcome needs no grant.
OnWelcomeFrame(X, d, f) ==
  LET Y == [X EXCEPT !.r.stage = "welcomed", !.r.wel = TRUE]
      Z == Give(Y, Joiner, [t |-> "welcome", tree |-> f.tree, id |-> Host])
      done == [t |-> "welcomed", x |-> f.x]
  IN IF X.r.wel THEN Tell(X, d, done)
     ELSE IF X.r.marks # <<>> THEN Wait(X, d)
     ELSE IF Admitting(X.r) /\ X.r.stage # "added" THEN Wait(X, d)
     ELSE IF X.r.st[d] # "active" THEN Bad(X, d)
     ELSE IF X.r.back[d] # <<>> THEN Wait(X, d)
     ELSE IF X.r.stage # "added" \/ X.r.st[f.x] # "pending" THEN Bad(X, d)
     ELSE Tell(Z, d, done)

\* order-request
OnRequest(X, d, id) ==
  LET R == X.r
      Stop(why) == Tell([X EXCEPT !.r.rec[id] = why], d,
                        [t |-> "cancelled", id |-> id, why |-> why])
  IN IF R.st[d] # "active" THEN Bad(X, d)
     ELSE IF R.marks # <<>> /\ (d # Host \/ R.cut # None) THEN Stop("removal")
     ELSE IF Admitting(R) /\ ~(d = Host /\ R.stage = "welcomed") THEN Stop("admission")
     ELSE IF R.back[d] # <<>> THEN Stop("delivery")
     ELSE IF \E q \in Owed(R) : q.by = d THEN Bad(X, d)
     ELSE Issue([X EXCEPT !.r.rec[id] = "asked",
                          !.r.queue = Append(@, [by |-> d, id |-> id])])

\* delivery-ack, resume-complete
OnAck(X, d, id) ==
  LET n == SelectInSeq(X.r.back[d], LAMBDA b : b.e.id = id)
      Y == [X EXCEPT !.r.back[d] = SubSeq(@, n + 1, Len(@))]
  IN IF n = 0 THEN Bad(X, d) ELSE IF d = Host THEN HostWork(Y) ELSE Y
LastOf(back) == IF back = <<>> THEN None ELSE Last(back).e.id
OnComplete(X, d, id) ==
  LET R == TellAll([X EXCEPT !.r.st[d] = "active", !.r.back[d] = <<>>],
                   [t |-> "life", x |-> d, active |-> TRUE])
      Y == Tell(R, d, [t |-> "done"])
  IN IF X.r.st[d] # "replaying" \/ id # LastOf(X.r.back[d]) THEN Bad(X, d)
     ELSE IF d = Host THEN HostWork(Y) ELSE Y

\* application-decision
OnDecision(X, d, f) ==
  LET Y == [X EXCEPT !.r.held = None]
  IN IF X.r.st[d] # "active" THEN Bad(X, d)
     ELSE IF X.r.marks # <<>> \/ Admitting(X.r) \/ X.r.back[d] # <<>> THEN Wait(X, d)
     ELSE IF X.r.held = None \/ X.r.held.id # f.id THEN Bad(X, d)
     ELSE Issue(IF f.ok THEN Accept(Y, X.r.held) ELSE Reject(Y, X.r.held))

\* activate, cancel-admission
OnActivate(X, d) ==
  LET Y == [X EXCEPT !.r.st[Joiner] = "active", !.r.stage = "none"]
      Z == TellAll(Accept(Y, X.r.proof), [t |-> "life", x |-> Joiner, active |-> TRUE])
  IN IF X.r.st[d] # "active" THEN Bad(X, d)
     ELSE IF X.r.marks # <<>> \/ X.r.back[d] # <<>> THEN Wait(X, d)
     ELSE IF X.r.stage # "proven" \/ X.r.st[Joiner] # "pending" THEN Bad(X, d)
     ELSE Issue(Z)
OnCancel(X, d) ==
  IF X.r.st[d] # "active" THEN Bad(X, d)
  ELSE IF X.r.back[d] # <<>> THEN Wait(X, d)
  ELSE IF X.r.stage = "none" THEN Bad(X, d)
  ELSE Issue(RetireAdmission(X))

\* recoverControlRetry, of a retirement: it only says how the device stands.
Recovered(X, x) == TellAll(X, [t |-> "life", x |-> x, active |-> X.r.st[x] = "active"])
\* retire-member: the Remove was accepted, so the device can go.
OnRetire(X, d, x, id) ==
  LET marked == X.r.marks # <<>>
      theirs(q) == q # None /\ q.by = x
      Y == [X EXCEPT !.r.marks = IF marked THEN Tail(@) ELSE @,
                     !.r.cut = None, !.r.over = @ \cup {id}]
      Z == [TellAll(Y, [t |-> "life", x |-> x, active |-> FALSE]) EXCEPT
              !.r.st[x] = "retired", !.r.back[x] = <<>>,
              !.r.queue = SelectSeq(@, LAMBDA q : ~theirs(q)),
              !.r.grant = IF theirs(@) THEN None ELSE @,
              !.r.held = IF theirs(@) THEN None ELSE @]
  IN IF id \in X.r.over THEN Recovered(X, x)
     ELSE IF X.r.st[d] # "active" THEN Bad(X, d)
     ELSE IF (~marked /\ Admitting(X.r)) \/ X.r.back[d] # <<>> THEN Wait(X, d)
     ELSE IF marked /\ ~(X.r.cut = id /\ Head(X.r.marks) = x) THEN Bad(X, d)
     ELSE IF X.r.st[x] # "retired" THEN Issue(Announce(Z))
     ELSE IF marked THEN Announce(Y) ELSE Bad(X, d)

\* disconnectSecureRelayDeviceV4: a request that is lost with its connection
\* is cancelled, and nobody is told.
OnClose(X, d) ==
  LET mine == {q \in Owed(X.r) : q.by = d}
      Y == [X EXCEPT !.r.st[d] = IF @ = "pending" THEN "gone" ELSE "away"]
  IN IF X.r.st[d] \in Connected THEN Issue(Cancel(Y, mine, "lost")) ELSE X

Arrived(X, d, f) ==
  IF X.r.st[d] \notin Connected THEN X ELSE
  CASE f.t = "request"  -> OnRequest(X, d, f.id)
    [] f.t = "frame"    -> OnFrame(X, d, f.f)
    [] f.t = "welcome"  -> OnWelcomeFrame(X, d, f)
    [] f.t = "ack"      -> OnAck(X, d, f.id)
    [] f.t = "complete" -> OnComplete(X, d, f.id)
    [] f.t = "decide"   -> OnDecision(X, d, f)
    [] f.t = "activate" -> OnActivate(X, d)
    [] f.t = "cancel"   -> OnCancel(X, d)
    [] f.t = "retire"   -> OnRetire(X, d, f.x, f.id)
    [] f.t = "close"    -> OnClose(X, d)

-----------------------------------------------------------------------------
(* Steps *)

\* The end of a turn: what it sent arrives.
Finish(X, T) ==
  LET Y == FoldLeft(LAMBDA Z, f : Arrived(Z, T.d, f), X, T.fs)
  IN /\ dev' = [dev EXCEPT ![T.d] = T.D]
     /\ ses' = [ses EXCEPT ![T.d] = T.S]
     /\ relay' = Y.r
     /\ inbox' = IF T.S.on = "off" THEN [Y.w EXCEPT ![T.d] = <<>>] ELSE Y.w

Handle(d) ==
  /\ ses[d].on # "off" /\ inbox[d] # <<>>
  /\ LET T == Handled(Turn(d), Head(inbox[d]))
         X == [r |-> relay, w |-> [inbox EXCEPT ![d] = Tail(@)]]
     IN \/ /\ Finish(X, T)
           /\ count' = [count EXCEPT !.ids = T.ids]
        \/ \* the socket is lost before everything is sent
           /\ count.drops < MaxDrops
           /\ \E n \in 0..(Len(T.fs) - 1) :
                Finish(X, [T EXCEPT !.S = Offline,
                                    !.fs = Append(SubSeq(@, 1, n), [t |-> "close"])])
           /\ count' = [count EXCEPT !.ids = T.ids, !.drops = @ + 1]

\* The socket is lost.
Drop(d) ==
  /\ ses[d].on # "off" /\ count.drops < MaxDrops
  /\ Finish([r |-> relay, w |-> inbox],
            [Turn(d) EXCEPT !.S = Offline, !.fs = <<[t |-> "close"]>>])
  /\ count' = [count EXCEPT !.drops = @ + 1]

\* The replay of a backlog: a marker stands before the first entry that came
\* after it, and before the Remove it asks for.
ToMark(x) == [t |-> "marker", x |-> x]
WithMarkers(R, d) ==
  LET head == IF R.marks = <<>> THEN None ELSE Head(R.marks)
      cuts(b) == IF b.e.t = "relay" /\ b.e.f.k = "remove" /\ b.e.f.marked THEN {b.e.f.x} ELSE {}
      late(b) == head # None /\ (head \in b.past \/ (R.cut # None /\ b.e.id = R.cut))
      add(A, b) ==
        LET now == IF late(b) /\ ~A.raised THEN {head} ELSE {}
        IN [s |-> A.s \o [n \in 1..Cardinality(now) |-> ToMark(head)]
                      \o SetToSeq({ToMark(x) : x \in cuts(b)}) \o <<b.e>>,
            raised |-> A.raised \/ head \in now \cup cuts(b)]
  IN FoldLeft(add, [s |-> <<>>, raised |-> head = None], R.back[d])
\* Slip: a marker that came after the last entry is not shown.
ReplayedEntries(R, d) == WithMarkers(R, d).s
Replayed(R, d) ==
  LET A == WithMarkers(R, d)
  IN IF A.raised THEN A.s ELSE Append(A.s, ToMark(Head(R.marks)))
\* emitRoomStateSnapshot
Listed(R, d) ==
  [x \in {y \in Devices : R.st[y] \notin {"retired", "absent"}} |->
     IF x = d \/ R.st[x] = "active" THEN "active"
     ELSE IF R.st[x] \in {"pending", "replaying"} THEN "pending" ELSE "disconnected"]

\* The page is loaded again and resumes; one whose own proof is unanswered
\* closes as soon as it is let in.
Resume(d) ==
  LET R == [relay EXCEPT !.st[d] = "replaying"]
      T == [Turn(d) EXCEPT !.S = [Offline EXCEPT !.on = "replay"]]
  IN /\ ses[d].on = "off" /\ ~dev[d].gone /\ count.resumes < MaxResumes
     /\ count' = [count EXCEPT !.resumes = @ + 1]
     /\ \/ /\ relay.st[d] = "away"
           /\ Finish([r |-> R,
                      w |-> [inbox EXCEPT ![d] =
                        Append(Append(Replayed(relay, d),
                                      [t |-> "snapshot", list |-> Listed(relay, d)]),
                               [t |-> "end", id |-> LastOf(relay.back[d])])]],
                     IF dev[d].adding = d /\ ~Idle(dev[d]) THEN Close(T) ELSE T)
        \/ \* fresh-admission-required
           /\ relay.st[d] = "fresh"
           /\ dev' = [dev EXCEPT ![d] = Erased]
           /\ UNCHANGED <<ses, relay, inbox>>

\* The joiner asks to be admitted, and asks again when its socket was lost.
Join ==
  /\ relay.st[Joiner] = "absent" /\ relay.marks = <<>>
  /\ LET X == [r |-> [relay EXCEPT !.st[Joiner] = "pending", !.stage = "key"], w |-> inbox]
         Y == KeyPackage(X)
     IN /\ relay' = Y.r /\ inbox' = Y.w
  /\ ses' = [ses EXCEPT ![Joiner] = [Offline EXCEPT !.on = "on"]]
  /\ UNCHANGED <<dev, count>>
Rejoin ==
  LET X == [r |-> [relay EXCEPT !.st[Joiner] = "pending"], w |-> inbox]
      Y == FoldLeft(LAMBDA Z, b : Tell(Z, Joiner, b.e), KeyPackage(X), relay.back[Joiner])
      Z == IF relay.stage \in {"booted", "proven"}
           THEN Tell(Y, Joiner, [t |-> "granted", id |-> Joiner]) ELSE Y
      T == [Turn(Joiner) EXCEPT !.S = [Offline EXCEPT !.on = "on"]]
  IN /\ ses[Joiner].on = "off" /\ ~dev[Joiner].gone /\ count.resumes < MaxResumes
     /\ relay.st[Joiner] = "gone" /\ relay.marks = <<>>
     /\ Finish(Z, Automate(Retry(T)))
     /\ count' = [count EXCEPT !.resumes = @ + 1]

\* What passes with time: an admission that lasts too long, and a device
\* that stays away.  (The room of a host that stays away is retired.)
Timed(X) == relay' = X.r /\ inbox' = X.w /\ UNCHANGED <<dev, ses, count>>
AdmissionLapse ==
  /\ relay.stage # "none"
  /\ Timed(Issue(RetireAdmission([r |-> relay, w |-> inbox])))
GivenUp(d) ==
  LET lost(q) == q # None /\ q.by = d
      R == [relay EXCEPT !.st[d] = "fresh", !.back[d] = <<>>,
              !.rec = IF lost(relay.held) THEN [@ EXCEPT ![relay.held.id] = "rejected"] ELSE @,
              !.held = IF lost(@) THEN None ELSE @]
  IN [r |-> R, w |-> inbox]
\* Slip: nobody is asked to remove its leaf.
GraceOverUnmarked(d) == d # Host /\ relay.st[d] = "away" /\ Timed(Issue(GivenUp(d)))
GraceOver(d) ==
  d # Host /\ relay.st[d] = "away" /\ Timed(Issue(RequireRemoval(GivenUp(d), d)))

\* The timer of the periodic key update runs the automations.
Wake(d) ==
  /\ Automate(Turn(d)) # Turn(d)
  /\ Finish([r |-> relay, w |-> inbox], Automate(Turn(d)))
  /\ count' = [count EXCEPT !.ids = Automate(Turn(d)).ids]

\* What people do, while the host has its device: without it the room only
\* lasts until the relay retires it.
Act(d, T) ==
  /\ ses[d].on = "on" /\ ses[d].todo = <<>> /\ ~Barred(dev[d], ses[d])
  /\ Finish([r |-> relay, w |-> inbox], T)
  /\ count' = [count EXCEPT !.ids = T.ids]
Wish(d, q) ==
  /\ d \in dev[d].members /\ ~dev[Host].gone /\ ~Known(ses[d], q) /\ count.ids < MaxIds
  /\ Act(d, Queue(Turn(d), q))
Chat(d) == d \in Writers /\ Wish(d, Want("chat", None))
Leave(d) == d # Host /\ Wish(d, Want("leave", d))
Approve ==
  /\ ses[Host].key = "pending" /\ ses[Host].pend = None /\ ~Blocking(dev[Host])
  /\ Act(Host, Queue([Turn(Host) EXCEPT !.S.key = "approving"], Want("add", ses[Host].who)))
\* rejectPendingHostAdmission, and the time an approval may take
RefuseKey == ses[Host].key # "none" /\ Act(Host, Refuse(Turn(Host)))

Init ==
  LET room == {Host} \cup Members
  IN /\ dev = [d \in Devices |-> NewDevice(IF d = Joiner THEN {} ELSE room)]
     /\ ses = [d \in Devices |-> IF d = Joiner THEN Offline
                                 ELSE [Offline EXCEPT !.on = "on"]]
     /\ relay = [st    |-> [d \in Devices |-> IF d = Joiner THEN "absent" ELSE "active"],
                 back  |-> [d \in Devices |-> <<>>],
                 queue |-> <<>>, grant |-> None, held |-> None, marks |-> <<>>, cut |-> None,
                 stage |-> "none", proof |-> None, wel |-> FALSE,
                 rec   |-> [id \in Ids |-> "none"], log |-> <<>>, over |-> {}]
     /\ inbox = [d \in Devices |-> <<>>]
     /\ count = [ids |-> 0, drops |-> 0, resumes |-> 0]

Next ==
  \/ \E d \in Devices : Handle(d) \/ Drop(d) \/ Resume(d)
                        \/ GraceOver(d) \/ Wake(d) \/ Chat(d) \/ Leave(d)
  \/ Join \/ Rejoin \/ AdmissionLapse \/ Approve \/ RefuseKey

Spec == Init /\ [][Next]_vars

-----------------------------------------------------------------------------
(* Properties *)

\* The room as the frames the relay accepted make it.
Room == FoldLeft(After, NewDevice({Host} \cup Members), relay.log)
\* What a device will know once it has what waits for it.
Read(D, d, b) ==
  CASE b.e.t = "welcome" -> IF D.leaves = {} THEN [D EXCEPT !.leaves = b.e.tree] ELSE D
    [] b.e.t = "relay"   -> IF b.e.id \in D.seen THEN D ELSE After(D, b.e.f)
    [] OTHER             -> D
View(d) == FoldLeft(LAMBDA D, b : Read(D, d, b), dev[d], relay.back[d])
InRoom(d) == relay.st[d] \in Placed \/ (d = Joiner /\ relay.stage \in {"booted", "proven"})

\* A host that waits for no answer has not lost sight of a removal the relay
\* waits for.  Does not hold: the snapshot of a resume settles the Remove and
\* the retire-member of a device that is retired already, whether the relay
\* has had them or not (run removal_lost).
Abandoned ==
  /\ Idle(dev[Host]) /\ ~dev[Host].gone
  /\ \E x \in ToSet(relay.marks) \ dev[Host].leaves :
       \A n \in DOMAIN dev[Host].due : dev[Host].due[n].x # x
RemovalKept == ~Abandoned

\* Every device with a place in the room will know the same tree, the same
\* members and the same departure as the others once it has read what waits
\* for it, whatever was refused, cancelled or sent again on the way
\* (unless the host lost sight of a removal, see RemovalKept).
ViewsAgree ==
  ~Abandoned => \A d \in Devices : InRoom(d) /\ ~dev[d].gone /\ Idle(dev[d]) =>
    /\ View(d).leaves = Room.leaves
    /\ View(d).members = Room.members
    /\ View(d).leaving = Room.leaving

\* What is accepted from a member can be read by those in the room at that
\* point and by nobody the relay has given up.
New(f) == f \in ToSet(relay'.log) \ ToSet(relay.log)
ReadersAreMembers ==
  [][\A f \in ToSet(relay'.log) :
       (New(f) /\ f.k \in {"chat", "leave"}) =>
         /\ f.tree = Room.leaves
         /\ \A x \in f.tree : relay.st[x] \notin {"fresh", "retired"}]_vars

\* A device that has handled what was sent to it and still has the leaf the
\* relay wants out is barred by that marker; and no member is barred by a
\* marker the relay has lifted.
Settled(d) ==
  /\ ses[d].on = "on" /\ relay.st[d] = "active"
  /\ inbox[d] = <<>> /\ relay.back[d] = <<>>
Wanted == IF relay.marks = <<>> THEN {} ELSE {Head(relay.marks)}
MarkersAgree ==
  \A d \in Devices : Settled(d) =>
    /\ Wanted \subseteq dev[d].leaves => Wanted \subseteq ToSet(ses[d].marks)
    /\ d # Host => ToSet(ses[d].marks) \subseteq Wanted

\* When nothing is on its way and its timer would start nothing, a host at
\* work has lifted every barrier: no device waits to be removed.  (A host
\* under a marker without a leaf never asks for anything, see MarkerLifted.)
Quiet == \A d \in Devices : inbox[d] = <<>>
AtWork ==
  /\ Settled(Host) /\ Idle(dev[Host]) /\ dev[Host].entry \notin {"sent", "added"}
  /\ count.ids < MaxIds /\ Automate(Turn(Host)) = Turn(Host)
BarrierLifted ==
  (~Abandoned /\ Quiet /\ AtWork /\ ToSet(ses[Host].marks) \subseteq dev[Host].leaves)
    => (relay.marks = <<>> /\ dev[Host].leaving = None)

\* When nothing is on its way, the host stands under no marker the relay has
\* lifted.  Does not hold: the acknowledgement of the Remove's result makes
\* the relay show the marker again, and for a device that is retired already
\* no lifecycle follows that would lift it (see the README).
MarkerLifted == Quiet /\ Settled(Host) => ToSet(ses[Host].marks) \subseteq ToSet(relay.marks)
=============================================================================
