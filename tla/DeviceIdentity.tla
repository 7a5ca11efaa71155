--------------------------- MODULE DeviceIdentity ---------------------------
(***************************************************************************)
(* The life of a device identity: the tabs of one browser, each with its   *)
(* controller and engine, the store and the room lock they share, and the  *)
(* authentication of the room.                                             *)
(*                                                                         *)
(* An identity is created provisional, marked ambiguous before the first   *)
(* authentication frame leaves, and established when the relay has it for  *)
(* good.  Between the frame and its answer the device cannot know whether  *)
(* the relay accepted it: tabs are reloaded or closed, sockets are lost,   *)
(* another tab takes the lock over, the user cancels and the room goes, at *)
(* any of these steps.                                                     *)
(*                                                                         *)
(* One flag is modelled, so a setup or a join names only a secret.  The    *)
(* steps of a tab between two awaits are one action; a step that writes    *)
(* the store holds the lock when its transaction is created, and the       *)
(* transaction is that step.                                               *)
(***************************************************************************)
EXTENDS CryptoStore

CONSTANTS Tabs, None, MaxReconnects,
  MaxStarts   \* bound: attempts of all the tabs together

\* No instance is numbered 0, one that an older client may have left is 1,
\* and None is neither a tab nor an answer.
ASSUME IdentityAssumption ==
  /\ Instances \subseteq Nat \ {0} /\ 1 \in Instances
  /\ Devices \subseteq Nat /\ 1 \in Devices
  /\ None \notin Tabs \cup {"ok"}

VARIABLES
  store,   \* the records and the registry (IndexedDB)
  holder,  \* instance -> the tab that holds its Web Lock, or None
  asked,   \* tab -> instances other tabs have asked it to yield
  room,    \* the room behind the flag: instance, secret, members
  spare,   \* instances and devices not used yet, attempts made
  tab,     \* tab -> its controller
  net      \* tab -> its frame under way, the answer, and a frame of a
           \* socket since closed that the room may still handle

vars == <<store, holder, asked, room, spare, tab, net>>

-----------------------------------------------------------------------------
\* A controller that is not connecting: what survives is the recovery hint
\* of sessionStorage and the flag that the last attempt is unresolved.
Idle(recovery, unresolved) ==
  [pc |-> "idle", conf |-> None, recovery |-> recovery,
   unresolved |-> unresolved, may |-> FALSE, discard |-> FALSE,
   forced |-> None, tries |-> 0, hs |-> FALSE, eng |-> None, lease |-> 0,
   chal |-> 0, ask |-> None]

Quiet == [wire |-> None, reply |-> None, late |-> None]
HungUp(t) == [net EXCEPT ![t] = [Quiet EXCEPT
  !.late = IF net[t].wire # None THEN net[t].wire ELSE net[t].late]]

NoRoom == [inst |-> 0, secret |-> None, members |-> [d \in Devices |-> "none"]]

Mem(t) == tab[t].eng
MemKey(t) == KeyOf(Mem(t).inst, Mem(t).secret)

\* An engine holds what it has read or written: SecureRoomEngine's private
\* fields.  A founder's MLS session is active from the start.
EngineOf(i, r) == [inst |-> i, secret |-> r.secret, dev |-> r.dev,
                   rev |-> r.rev, life |-> r.life, stage |-> r.stage,
                   founder |-> r.founder]
ActiveMember(e) == e.founder \/ e.stage \in {"joined", "settled"}
Retained(e) == e.stage \in {"keyed", "acked", "joined"}
Ambiguous(t) == Mem(t) # None /\ Mem(t).life = "ambiguous"
IsProvisional(t) == Mem(t) # None /\ Mem(t).life = "provisional"
Authed(t) == tab[t].pc \in {"acking", "completing", "member"}
Holds(t) == tab[t].lease # 0 /\ holder[tab[t].lease] = t

\* The room the tab is configured for, and its record in the store.
Target(t) == KeyOf(tab[t].conf.inst, tab[t].conf.secret)

\* What the compare-and-set of an engine wrote is what it now remembers.
Reread(t, st) == [tab[t] EXCEPT !.eng = EngineOf(Mem(t).inst, st.recs[MemKey(t)])]
Fits(t) == Holds(t) /\ AtRevision(store, MemKey(t), Mem(t).rev)

FreeLock(t) == IF tab[t].lease = 0 THEN holder
               ELSE [holder EXCEPT ![tab[t].lease] = None]

-----------------------------------------------------------------------------
(* Ending an attempt *)

Hint(conf) == [mode |-> conf.mode, inst |-> conf.inst]
Remembered(t, conf) ==
  IF conf = None \/ conf.inst = 0 THEN tab[t].recovery ELSE Hint(conf)
Forgotten(t, conf) ==
  IF conf # None /\ tab[t].recovery # None /\ tab[t].recovery.mode = conf.mode
  THEN None ELSE tab[t].recovery

\* The tab gives everything up, keeps or drops its recovery hint, and
\* erases the identity or leaves it in the store.
End(t, preserve, erase) ==
  /\ tab' = [tab EXCEPT ![t] =
       Idle(IF preserve THEN Remembered(t, tab[t].conf)
                        ELSE Forgotten(t, tab[t].conf), preserve)]
  /\ store' = IF erase /\ Fits(t) THEN Erase(store, MemKey(t)) ELSE store
  /\ holder' = FreeLock(t)
  /\ net' = HungUp(t)
  /\ UNCHANGED <<asked, room, spare>>

\* stopPendingConnection: an identity that was never sent is erased, unless
\* the attempt may be recovered.
StopPending(t, preserve) == End(t, preserve, IsProvisional(t) /\ ~preserve)

\* protocolClose
ProtocolClose(t) ==
  IF tab[t].unresolved \/ tab[t].may \/ Ambiguous(t)
  THEN StopPending(t, TRUE)
  ELSE IF tab[t].hs \/ (~Authed(t) /\ IsProvisional(t))
       THEN StopPending(t, FALSE)
       ELSE End(t, FALSE, FALSE)

\* cancelPendingConnection.  Nothing that was sent is erased.
NeedsRecovery(t) ==
  \/ tab[t].unresolved
  \/ tab[t].recovery # None
  \/ Ambiguous(t)
  \/ IsProvisional(t) /\ (tab[t].may \/ Authed(t))
Cancel(t) ==
  /\ tab[t].pc # "idle"
  /\ End(t, NeedsRecovery(t), IsProvisional(t) /\ ~NeedsRecovery(t))

\* disconnect drops the hint of a settled session and erases nothing.
Disconnect(t) ==
  /\ tab[t].pc # "idle"
  /\ ~(tab[t].unresolved \/ tab[t].may \/ tab[t].recovery # None \/ Ambiguous(t))
  /\ tab' = [tab EXCEPT ![t] = Idle(None, FALSE)]
  /\ holder' = FreeLock(t)
  /\ net' = HungUp(t)
  /\ UNCHANGED <<store, asked, room, spare>>

\* A page that is reloaded keeps its sessionStorage, one that is closed and
\* opened again does not; the browser frees the locks of both.
Restart(t, recovery) ==
  /\ tab' = [tab EXCEPT ![t] = Idle(recovery, FALSE)]
  /\ holder' = FreeLock(t)
  /\ asked' = [asked EXCEPT ![t] = {}]
  /\ net' = HungUp(t)
  /\ UNCHANGED <<store, room, spare>>
Reload(t) == tab[t].pc # "idle" /\ Restart(t, tab[t].recovery)
Reopen(t) == Restart(t, None)

-----------------------------------------------------------------------------
(* Starting one *)

\* start: a hint of an unresolved attempt must be followed up exactly, and
\* then nothing new may be created; a new setup draws a fresh instance.
Configure(t, mode, s) ==
  LET exact == tab[t].recovery # None
      inst  == IF exact THEN tab[t].recovery.inst
               ELSE IF mode = "setup" THEN spare.inst ELSE 0
  IN [mode |-> mode, secret |-> s, only |-> exact, inst |-> inst,
      setup |-> IF mode = "setup" THEN inst ELSE 0, resolved |-> 0]
Start(t, mode, s) ==
  /\ tab[t].pc = "idle"
  /\ tab[t].recovery # None => tab[t].recovery.mode = mode
  /\ tab[t].recovery = None => ~tab[t].unresolved
  /\ tab[t].recovery = None /\ mode = "setup" => spare.inst \in Instances
  /\ tab' = [tab EXCEPT ![t] =
       [Idle(tab[t].recovery, tab[t].recovery # None) EXCEPT
          !.pc = "dialing", !.conf = Configure(t, mode, s), !.hs = TRUE]]
  /\ spare.starts < MaxStarts
  /\ spare' = [spare EXCEPT
       !.starts = spare.starts + 1,
       !.inst = IF tab[t].recovery = None /\ mode = "setup"
                THEN spare.inst + 1 ELSE spare.inst]
  /\ UNCHANGED <<store, holder, asked, room, net>>

\* openSocket; the room answers with a challenge that names its instance.
OpenSocket(t) ==
  /\ tab[t].pc = "dialing"
  /\ tab' = [tab EXCEPT ![t] = [tab[t] EXCEPT
       !.pc = "challenged", !.chal = room.inst, !.ask = None]]
  /\ UNCHANGED <<store, holder, asked, room, spare, net>>

\* handleChallenge up to the lock.  The goal of an attempt is to
\* authenticate, or to clear up after an instance that no longer exists.
MayHaveCommitted(t) ==
  tab[t].conf.only \/ tab[t].recovery # None \/ tab[t].unresolved
    \/ tab[t].may \/ Ambiguous(t)
Unavailable(t) ==
  /\ tab[t].conf.inst # 0
  /\ MayHaveCommitted(t)
  /\ \/ tab[t].conf.mode = "join" /\ tab[t].chal = 0
     \/ tab[t].chal # 0 /\ tab[t].chal # tab[t].conf.inst
Offered(t) == IF tab[t].chal = 0 THEN tab[t].conf.setup ELSE tab[t].chal
Mismatched(t) ==
  \/ Offered(t) = 0
  \/ tab[t].chal = 0 /\ tab[t].conf.mode # "setup"
  \/ Mem(t) # None /\ Mem(t).inst # Offered(t)
  \/ tab[t].conf.resolved \notin {0, Offered(t)}
Proceed(t, inst, goal) ==
  /\ tab' = [tab EXCEPT ![t] = [tab[t] EXCEPT
       !.pc = IF Holds(t) THEN goal ELSE "locking",
       !.ask = goal,
       !.conf = [tab[t].conf EXCEPT !.inst = inst, !.resolved = inst]]]
  /\ UNCHANGED <<store, holder, asked, room, spare, net>>
OnChallenge(t) ==
  /\ tab[t].pc = "challenged"
  /\ IF Unavailable(t)
     THEN IF tab[t].conf.resolved \in {0, tab[t].conf.inst}
          THEN Proceed(t, tab[t].conf.inst, "clearing")
          ELSE StopPending(t, TRUE)
     ELSE IF Mismatched(t) THEN ProtocolClose(t)
     ELSE Proceed(t, Offered(t), "identifying")

-----------------------------------------------------------------------------
(* The room lock (participant/roomCryptoLock.ts) *)

Grant(t) ==
  /\ holder' = [holder EXCEPT ![tab[t].conf.inst] = t]
  /\ tab' = [tab EXCEPT ![t] = [tab[t] EXCEPT
       !.pc = tab[t].ask, !.ask = None, !.lease = tab[t].conf.inst]]
  /\ UNCHANGED <<store, room, spare, net>>

\* A tab that does not get the lock stops where it is; one that was to
\* clear up keeps its hint.
Unlocked(t) ==
  IF tab[t].ask = "clearing" THEN StopPending(t, TRUE)
  ELSE /\ tab' = [tab EXCEPT ![t] = [tab[t] EXCEPT
            !.pc = "stopped", !.ask = None, !.hs = FALSE]]
       /\ net' = HungUp(t)
       /\ UNCHANGED <<store, holder, asked, room, spare>>

Free(t) == holder[tab[t].conf.inst] = None

\* acquire without takeover is answered at once (ifAvailable).
Acquire(t) ==
  /\ tab[t].pc = "locking"
  /\ IF Free(t) THEN Grant(t) /\ UNCHANGED asked ELSE Unlocked(t)

\* With takeover the other tabs are told first, then the request queues.
Takeover(t) ==
  /\ tab[t].pc = "locking"
  /\ asked' = [u \in Tabs |-> IF u = t THEN asked[u]
                              ELSE asked[u] \cup {tab[t].conf.inst}]
  /\ tab' = [tab EXCEPT ![t].pc = "queued"]
  /\ UNCHANGED <<store, holder, room, spare, net>>
Granted(t) == tab[t].pc = "queued" /\ Free(t) /\ Grant(t) /\ UNCHANGED asked
TakeoverTimeout(t) == tab[t].pc = "queued" /\ Unlocked(t)

\* onmessage: the holder releases its lease at once, whatever it is doing.
\* The abort listener of the controller closes the socket and disposes of
\* the engine behind the operation in flight, which finds itself stale.
Lost(t) == Idle(tab[t].recovery, tab[t].unresolved)
\* Slip: the tab goes on with the engine it has.
YieldTo(t, i) ==
  /\ tab' = [tab EXCEPT ![t].lease = 0]
  /\ holder' = [holder EXCEPT ![i] = None]
  /\ UNCHANGED net
LeaseAbort(t, i) ==
  /\ tab' = [tab EXCEPT ![t] = Lost(t)]
  /\ holder' = [holder EXCEPT ![i] = None]
  /\ net' = HungUp(t)
Yield(t) ==
  \E i \in asked[t] :
    /\ asked' = [asked EXCEPT ![t] = asked[t] \ {i}]
    /\ IF tab[t].lease = i THEN LeaseAbort(t, i) ELSE UNCHANGED <<tab, holder, net>>
    /\ UNCHANGED <<store, room, spare>>

-----------------------------------------------------------------------------
(* Finding or making the identity (handleChallenge, under the lock) *)

\* What restore finds: the record of the credential, or the record of an
\* older client if the secret decrypts it, which it then moves.
Stored(i, s) == store.recs[KeyOf(i, s)] # NoRecord
OldRecord(i, s) ==
  /\ ~Stored(i, s)
  /\ store.recs[OldKey(i)] # NoRecord
  /\ store.recs[OldKey(i)].secret = s
Findable(i, s) == Stored(i, s) \/ OldRecord(i, s)
Restored(i, s) ==
  IF OldRecord(i, s) THEN Move(store, OldKey(i), KeyOf(i, s)) ELSE store
Found(i, s) == EngineOf(i, Restored(i, s).recs[KeyOf(i, s)])

\* The mode of an engine that is at hand, unless the last answer forces one.
Forced(t, e, mode) ==
  CASE tab[t].forced = None -> mode
    [] tab[t].forced = "join" /\ tab[t].conf.mode = "join" /\ Retained(e) -> "join"
    [] tab[t].forced = "resume" /\ ActiveMember(e) -> "resume"
    [] OTHER -> "refused"
Identified(t, e, mode, st, discard) ==
  IF Forced(t, e, mode) = "refused"
  THEN ProtocolClose(t)
  ELSE /\ store' = st
       /\ tab' = [tab EXCEPT ![t] = [tab[t] EXCEPT
            !.pc = "framing", !.eng = e, !.ask = Forced(t, e, mode),
            !.forced = None, !.discard = discard]]
       /\ UNCHANGED <<holder, asked, room, spare, net>>

\* createFounder, createJoiner
CreateEngine(t, isFounder) ==
  LET i == tab[t].conf.inst
      k == Target(t)
  IN IF spare.dev \notin Devices THEN FALSE
     ELSE IF ~MayCreate(store, k) THEN ProtocolClose(t)
     ELSE /\ store' = Create(store, k, spare.dev, isFounder)
          /\ spare' = [spare EXCEPT !.dev = spare.dev + 1]
          /\ tab' = [tab EXCEPT ![t] = [tab[t] EXCEPT
               !.pc = "framing", !.discard = TRUE,
               !.ask = IF isFounder THEN "setup" ELSE "join",
               !.eng = EngineOf(i, Fresh(k, spare.dev, isFounder))]]
          /\ UNCHANGED <<holder, asked, room, net>>

\* An engine that outlived its socket.
IdentifyAgain(t) ==
  IF tab[t].chal = 0
  THEN IF Retained(Mem(t)) /\ Mem(t).founder
       THEN Identified(t, Mem(t), "setup", store, tab[t].discard)
       ELSE ProtocolClose(t)
  ELSE Identified(t, Mem(t), IF ActiveMember(Mem(t)) THEN "resume" ELSE "join",
                  store, tab[t].discard)

\* No room is behind the flag.
IdentifyFounder(t) ==
  LET i == tab[t].conf.inst
      s == tab[t].conf.secret
      e == Found(i, s)
  IN IF ~tab[t].conf.only THEN CreateEngine(t, TRUE)
     ELSE IF ~Findable(i, s) THEN StopPending(t, TRUE)
     ELSE IF e.life \notin {"provisional", "ambiguous"}
     THEN /\ store' = Restored(i, s)
          /\ tab' = [tab EXCEPT ![t] = [tab[t] EXCEPT !.pc = "clearing", !.eng = e]]
          /\ UNCHANGED <<holder, asked, room, spare, net>>
     ELSE IF e.life = "provisional" \/ ~e.founder \/ ~Retained(e)
     THEN StopPending(t, TRUE)
     ELSE Identified(t, e, "setup", store, FALSE)

\* A room is there.
Recoverable(t, e) ==
  tab[t].conf.only =>
    /\ e.life # "provisional"
    /\ tab[t].conf.mode = "setup" => e.founder
    /\ ActiveMember(e) \/ Retained(e)
IdentifyMember(t) ==
  LET i == tab[t].conf.inst
      s == tab[t].conf.secret
      e == Found(i, s)
  IN IF Findable(i, s)
     THEN IF Recoverable(t, e)
          THEN Identified(t, e,
                 IF ~ActiveMember(e) /\ Retained(e) THEN "join" ELSE "resume",
                 Restored(i, s), e.life = "provisional")
          ELSE StopPending(t, TRUE)
     ELSE IF tab[t].conf.only THEN StopPending(t, TRUE)
     ELSE IF tab[t].conf.mode = "setup" THEN ProtocolClose(t)
     ELSE CreateEngine(t, FALSE)

Identify(t) ==
  /\ tab[t].pc = "identifying"
  /\ IF Mem(t) # None THEN IdentifyAgain(t)
     ELSE IF tab[t].chal = 0 THEN IdentifyFounder(t) ELSE IdentifyMember(t)

\* resolveUnavailableRecoveryRoom under the lock: the pinned instance is
\* gone, so exactly its identity is erased.
Clear(t) ==
  /\ tab[t].pc = "clearing"
  /\ LET i == tab[t].conf.inst
         s == tab[t].conf.secret
         e == IF Mem(t) # None THEN Mem(t) ELSE Found(i, s)
     IN IF (Mem(t) = None /\ ~Findable(i, s)) \/ e.inst # i \/ e.life = "provisional"
        THEN StopPending(t, TRUE)
        ELSE /\ store' = Erase(Restored(i, s), KeyOf(i, s))
             /\ tab' = [tab EXCEPT ![t] = Idle(Forgotten(t, tab[t].conf), FALSE)]
             /\ holder' = FreeLock(t)
             /\ net' = HungUp(t)
             /\ UNCHANGED <<asked, room, spare>>

-----------------------------------------------------------------------------
(* Authenticating *)

\* An operation that loses its revision race rereads the store and throws.
Write(t, st, pc) ==
  IF Fits(t)
  THEN /\ store' = st
       /\ tab' = [tab EXCEPT ![t] = [Reread(t, st) EXCEPT !.pc = pc]]
       /\ UNCHANGED <<holder, asked, room, spare, net>>
  ELSE ProtocolClose(t)

\* createAuthenticateFrame: a setup and a join keep their KeyPackage.
Frame(t) ==
  /\ tab[t].pc = "framing"
  /\ Write(t, IF tab[t].ask = "resume" \/ Retained(Mem(t)) THEN store
              ELSE Replace(store, MemKey(t), "keyed"), "marking")

\* Slip: the frame leaves before its identity is marked.
MarkLater(t) ==
  /\ tab[t].pc = "marking"
  /\ Write(t, store, "sending")
\* markAuthenticationAttempted, before anything leaves the browser.
Mark(t) ==
  /\ tab[t].pc = "marking"
  /\ Write(t, MarkAmbiguous(store, MemKey(t)), "sending")

SendAuthentication(t) ==
  /\ tab[t].pc = "sending"
  /\ tab' = [tab EXCEPT ![t] = [tab[t] EXCEPT
       !.pc = "sent", !.chal = 0, !.may = TRUE, !.unresolved = TRUE,
       !.recovery = Hint(tab[t].conf)]]
  /\ net' = [net EXCEPT ![t].wire =
       [mode |-> tab[t].ask, dev |-> Mem(t).dev, inst |-> Mem(t).inst,
        secret |-> tab[t].conf.secret]]
  /\ UNCHANGED <<store, holder, asked, room, spare>>

-----------------------------------------------------------------------------
(* The room (handleSecureAuthenticate, reduceSecureRelayV4) *)

Before(f) ==
  IF f.mode = "setup" THEN (IF room.inst # 0 THEN "room-exists" ELSE "ok")
  ELSE IF room.inst = 0 THEN "room-not-found"
  ELSE IF f.inst # room.inst THEN "wrong-room" ELSE "ok"
Proof(f) ==
  CASE f.mode = "resume" /\ room.members[f.dev] = "none" -> "authentication-failed"
    [] f.mode = "join" /\ f.secret # room.secret -> "authentication-failed"
    [] OTHER -> "ok"
\* A join that is repeated finds its admission again.
Rejoined(f) ==
  IF room.members[f.dev] = "pending" THEN "ok"
  ELSE IF room.members[f.dev] # "none" THEN "duplicate-id"
  ELSE IF \E d \in Devices : room.members[d] = "pending" THEN "pending-limit" ELSE "ok"
Resumed(f) ==
  IF room.members[f.dev] = "pending" THEN "invalid-lifecycle"
  ELSE IF room.members[f.dev] = "retired" THEN "fresh-admission-required" ELSE "ok"
Reduced(f) ==
  IF f.mode = "setup" THEN "ok"
  ELSE IF f.mode = "join" THEN Rejoined(f) ELSE Resumed(f)
\* A proof may also be late or one too many, and a write may fail.
Verdicts(f) ==
  IF Before(f) # "ok" THEN {Before(f)}
  ELSE {"rate-limited", "authentication-expired"} \cup
       (IF Proof(f) # "ok" THEN {Proof(f)}
        ELSE IF Reduced(f) # "ok" THEN {Reduced(f)} ELSE {"ok", "persistence-failed"})
Admit(f) ==
  CASE f.mode = "setup" ->
         [inst |-> f.inst, secret |-> f.secret,
          members |-> [NoRoom.members EXCEPT ![f.dev] = "active"]]
    [] f.mode = "join" -> [room EXCEPT !.members[f.dev] = "pending"]
    [] OTHER -> room
Handle(t) ==
  /\ net[t].wire # None
  /\ \E v \in Verdicts(net[t].wire) :
       /\ room' = IF v = "ok" THEN Admit(net[t].wire) ELSE room
       /\ net' = [net EXCEPT ![t].wire = None, ![t].reply = v]
  /\ UNCHANGED <<store, holder, asked, spare, tab>>
\* A frame of a socket that is closed is handled all the same.
HandleLate(t) ==
  /\ net[t].late # None
  /\ \E v \in Verdicts(net[t].late) :
       room' = IF v = "ok" THEN Admit(net[t].late) ELSE room
  /\ net' = [net EXCEPT ![t].late = None]
  /\ UNCHANGED <<store, holder, asked, spare, tab>>

\* Members leave, are removed or let their admission lapse; the room ends,
\* long after the challenges of the frames still on their way have expired.
Dismiss ==
  /\ \E d \in Devices :
       /\ room.members[d] \in {"pending", "active"}
       /\ room' = [room EXCEPT !.members[d] = "retired"]
  /\ UNCHANGED <<store, holder, asked, spare, tab, net>>
Close ==
  /\ room.inst # 0
  /\ room' = NoRoom
  /\ net' = [t \in Tabs |-> [net[t] EXCEPT !.late = None]]
  /\ UNCHANGED <<store, holder, asked, spare, tab>>

-----------------------------------------------------------------------------
(* The answer *)

\* handleAuthenticated.  A join stays unresolved until it is admitted.
Settled(t) ==
  IF tab[t].conf.mode = "setup" \/ tab[t].ask = "resume"
  THEN Forgotten(t, tab[t].conf) ELSE tab[t].recovery
OnAuthenticated(t) ==
  /\ tab[t].pc = "sent" /\ net[t].reply = "ok"
  /\ IF ~Fits(t) THEN ProtocolClose(t)
     ELSE LET st == IF tab[t].ask = "join" THEN store
                    ELSE MarkEstablished(store, MemKey(t))
          IN /\ store' = st
             /\ tab' = [tab EXCEPT ![t] = [Reread(t, st) EXCEPT
                  !.pc = "acking", !.discard = FALSE, !.may = FALSE,
                  !.unresolved = tab[t].ask = "join"
                    /\ ~(tab[t].conf.mode = "setup"),
                  !.recovery = Settled(t), !.tries = 0, !.hs = FALSE]]
             /\ net' = [net EXCEPT ![t].reply = None]
             /\ UNCHANGED <<holder, asked, room, spare>>

\* The KeyPackage is acknowledged, and dropped when nothing waits for it.
Acknowledge(t) ==
  /\ tab[t].pc = "acking"
  /\ Write(t, IF Mem(t).stage = "keyed"
              THEN Replace(store, MemKey(t), "acked") ELSE store, "completing")
CompleteJoin(t) ==
  /\ tab[t].pc = "completing"
  /\ Write(t, IF Retained(Mem(t)) /\ ActiveMember(Mem(t)) /\ tab[t].ask # "join"
              THEN Replace(store, MemKey(t), "settled") ELSE store, "member")

\* The Welcome is processed and the signed profile goes out, on which the
\* room makes the device a member (join, sendJoinProof).
Welcomed(t) ==
  /\ tab[t].pc = "member" /\ Mem(t).stage = "acked" /\ ~Mem(t).founder
  /\ Write(t, Replace(store, MemKey(t), "joined"), "member")
Activate(t) ==
  /\ tab[t].pc = "member" /\ Mem(t).stage = "joined"
  /\ room.inst = Mem(t).inst /\ room.members[Mem(t).dev] = "pending"
  /\ room' = [room EXCEPT !.members[Mem(t).dev] = "active"]
  /\ UNCHANGED <<store, holder, asked, spare, tab, net>>
\* handleMemberLifecycle: the admission is completed, then the identity is
\* established and the attempt resolved.
OnActive(t) ==
  /\ tab[t].pc = "member" /\ Mem(t).stage = "joined"
  /\ room.inst = Mem(t).inst /\ room.members[Mem(t).dev] = "active"
  /\ Write(t, Replace(store, MemKey(t), "settled"), "member")
OnEstablished(t) ==
  /\ tab[t].pc = "member" /\ Mem(t).stage = "settled" /\ Ambiguous(t)
  /\ IF ~Fits(t) THEN ProtocolClose(t)
     ELSE LET st == MarkEstablished(store, MemKey(t))
          IN /\ store' = st
             /\ tab' = [tab EXCEPT ![t] = [Reread(t, st) EXCEPT
                  !.unresolved = FALSE, !.recovery = Forgotten(t, tab[t].conf)]]
             /\ UNCHANGED <<holder, asked, room, spare, net>>

\* finishTerminal: the room has retired the device, or itself.
Gone(t) ==
  room.inst # Mem(t).inst \/ room.members[Mem(t).dev] = "retired"
OnRetired(t) ==
  /\ Authed(t) /\ Gone(t)
  /\ End(t, FALSE, TRUE)

-----------------------------------------------------------------------------
(* A refusal (handleServerError) *)

Retries == {"persistence-failed", "internal-error", "room-state-invalid"}
Ends == {"room-retired", "fresh-admission-required"}
OtherMode(t) ==
  IF ~(Ambiguous(t) /\ Retained(Mem(t)) /\ ActiveMember(Mem(t))) THEN None
  ELSE IF tab[t].ask = "resume" /\ net[t].reply = "invalid-lifecycle" THEN "join"
  ELSE IF tab[t].ask = "join" /\ net[t].reply = "duplicate-id" THEN "resume"
  ELSE None
\* retryPendingAuthentication
Again(t, mode) ==
  IF tab[t].tries >= MaxReconnects THEN StopPending(t, TRUE)
  ELSE /\ tab' = [tab EXCEPT ![t] = [tab[t] EXCEPT
            !.pc = "dialing", !.forced = mode, !.tries = tab[t].tries + 1]]
       /\ net' = HungUp(t)
       /\ UNCHANGED <<store, holder, asked, room, spare>>
\* Slip: what was restored is discarded like what was just created.
DiscardAny(t) == TRUE
Discards(t) == tab[t].discard
OnRefused(t) ==
  /\ tab[t].pc = "sent" /\ net[t].reply \notin {None, "ok"}
  /\ IF OtherMode(t) # None THEN Again(t, OtherMode(t))
     ELSE IF net[t].reply \in Retries THEN Again(t, None)
     ELSE IF net[t].reply \in Ends THEN End(t, FALSE, TRUE)
     ELSE IF Discards(t) THEN End(t, FALSE, TRUE)
     ELSE End(t, Ambiguous(t), FALSE)

\* socket.onclose
OnClose(t) ==
  /\ tab[t].pc \in {"challenged", "sent", "acking", "completing", "member"}
  /\ IF ~Holds(t)
     THEN /\ tab' = [tab EXCEPT ![t] = [tab[t] EXCEPT !.pc = "stopped", !.hs = FALSE]]
          /\ net' = HungUp(t)
          /\ UNCHANGED <<store, holder, asked, room, spare>>
     ELSE IF ~Authed(t) /\ tab[t].tries >= MaxReconnects
     THEN IF tab[t].hs THEN StopPending(t, tab[t].may \/ Ambiguous(t))
          ELSE ProtocolClose(t)
     ELSE Again(t, tab[t].forced)

-----------------------------------------------------------------------------
Init ==
  /\ asked = [t \in Tabs |-> {}]
  /\ holder = [i \in Instances |-> None]
  /\ tab = [t \in Tabs |-> Idle(None, FALSE)]
  /\ net = [t \in Tabs |-> Quiet]
  \* either nothing is there yet, or a member left by an older client
  /\ \/ store = EmptyStore /\ room = NoRoom /\ spare = [inst |-> 1, dev |-> 1, starts |-> 0]
     \/ \E s \in Secrets :
          /\ store = Inherited(1, s, 1)
          /\ room = [inst |-> 1, secret |-> s,
                     members |-> [NoRoom.members EXCEPT ![1] = "active"]]
          /\ spare = [inst |-> 2, dev |-> 2, starts |-> 0]

User(t) ==
  \/ \E mode \in {"setup", "join"}, s \in Secrets : Start(t, mode, s)
  \/ Cancel(t) \/ Disconnect(t) \/ Reload(t) \/ Reopen(t) \/ Takeover(t)
Proceeds(t) ==
  \/ OpenSocket(t) \/ OnChallenge(t) \/ Acquire(t) \/ Granted(t)
  \/ TakeoverTimeout(t) \/ Yield(t) \/ Identify(t) \/ Clear(t) \/ Frame(t)
  \/ Mark(t) \/ SendAuthentication(t) \/ OnAuthenticated(t) \/ Acknowledge(t)
  \/ CompleteJoin(t) \/ Welcomed(t) \/ OnActive(t) \/ OnEstablished(t)
  \/ OnRetired(t) \/ OnRefused(t)
Room == (\E t \in Tabs : Handle(t) \/ HandleLate(t) \/ Activate(t)) \/ Dismiss \/ Close

Next == (\E t \in Tabs : User(t) \/ Proceeds(t) \/ OnClose(t)) \/ Room
Spec == Init /\ [][Next]_vars
-----------------------------------------------------------------------------
(* Properties *)

Engines == [inst : Instances, secret : Secrets, dev : Devices, rev : Nat,
            life : Lifecycles, stage : Stages, founder : BOOLEAN]

\* The store keeps its shape, and every engine is one the store could hold.
TypeOK ==
  /\ store \in Stores
  /\ holder \in [Instances -> Tabs \cup {None}]
  /\ asked \in [Tabs -> SUBSET Instances]
  /\ \A t \in Tabs : Mem(t) \in Engines \cup {None}

\* The registry that bounds the unresolved identities lists exactly them,
\* whatever tabs create, mark, resolve, erase or move at the same time: a
\* lost entry lifts the bound, one too many closes the flag to the browser.
RegistryExact == Exact(store)

\* Nothing reaches the room before its identity is marked: what the store
\* still calls provisional, and cancelPendingConnection erases, is unknown
\* to the room.
SentIsMarked ==
  \A k \in Scoped : store.recs[k].life = "provisional" /\ room.inst = k[1] =>
    room.members[store.recs[k].dev] = "none"

\* Two tabs never work on one record: the engine of a tab is what the store
\* holds, so its next compare-and-set cannot overwrite another tab's work.
EngineIsCurrent ==
  \A t \in Tabs : Mem(t) # None =>
    /\ Holds(t)
    /\ store.recs[MemKey(t)] # NoRecord
    /\ Mem(t) = EngineOf(Mem(t).inst, store.recs[MemKey(t)])

\* An identity the room has as a member is erased by nobody but the tab
\* that was the first to send it, on the answer of the attempt that did: any
\* other may have been accepted before, and a refusal now says nothing about
\* that.  (A tab that clears up has been told that the instance is gone; a
\* frame of a socket it closed before may still bring it about.)
Kept(k) ==
  /\ store.recs[k] # NoRecord
  /\ room.inst = k[1]
  /\ room.members[store.recs[k].dev] \in {"pending", "active"}
ErasedBy(t, k) ==
  \/ tab[t].pc = "sent" /\ MemKey(t) = k /\ tab[t].discard
  \/ tab[t].pc = "clearing" /\ tab[t].conf.inst = k[1] /\ tab[t].chal # k[1]
EraseOnlyOwn ==
  [][\A k \in Scoped : Kept(k) /\ store'.recs[k] = NoRecord
       => \E t \in Tabs : ErasedBy(t, k)]_vars

\* SECURE_ROOM_PROTOCOL_V4.md: a definitive rejection erases only an
\* artifact that was never sent or that the rejected attempt created, and
\* never one the relay may have accepted.  So what the room has as a member
\* the browser has too.
AcceptedIsKept ==
  [][\A k \in Scoped : Kept(k) => store'.recs[k] # NoRecord]_vars
=============================================================================
