------------------------ MODULE SecureSessionProofs ------------------------
(***************************************************************************)
(* The causal work of a room (SecureSession), for any devices and any      *)
(* number of requests, lost sockets and resumes.                           *)
(*                                                                         *)
(* First the ratchet of a sender, which never goes back (IInv).  Then the  *)
(* order of the room: what is encrypted, granted, held, on its way, kept   *)
(* in a backlog and settled by an engine fits together (SInv).  A step of  *)
(* the relay is shown to keep it from one state of the relay to the next   *)
(* (Leads), with the engines as they are; a step of a device from one      *)
(* state of its engine to the next (Forward), with the relay as it is.     *)
(***************************************************************************)
EXTENDS SecureSession, SelectionProofs, FiniteSetTheorems

-----------------------------------------------------------------------------
(* What is sealed is behind the ratchet of its sender: the ratchet never    *)
(* goes back, and moves on with each frame.                                 *)

EngineShape(D) ==
  /\ D = [gen |-> D.gen, applied |-> D.applied, out |-> D.out, gone |-> D.gone]
  /\ D.gen \in Nat
Engines ==
  /\ dev = [d \in Devices |-> dev[d]]
  /\ \A d \in Devices : EngineShape(dev[d])
Behind(s, by) ==
  s # None => s.by \in Devices /\ s.gen \in Nat /\ s.gen < by[s.by].gen
AllBehind == \A i \in Ids : Behind(sealed[i], dev)
IInv ==
  /\ sealed = [i \in Ids |-> sealed[i]]
  /\ Engines /\ AllBehind /\ NoKeyReuse

(* No handler turns the ratchet back.                                        *)
LEMMA SameRatchet ==
  ASSUME NEW D, EngineShape(D), NEW id
  PROVE  /\ EngineShape(Acknowledged(D)) /\ Acknowledged(D).gen = D.gen
         /\ EngineShape(Rewound(D)) /\ Rewound(D).gen = D.gen
         /\ EngineShape(Received(D, id)) /\ Received(D, id).gen = D.gen
         /\ Restored(D) = D
<1>1. EngineShape(Acknowledged(D)) /\ Acknowledged(D).gen = D.gen
  BY DEF EngineShape, Acknowledged
<1>2. EngineShape(Rewound(D)) /\ Rewound(D).gen = D.gen
  BY DEF EngineShape, Rewound
<1>3. EngineShape(Received(D, id)) /\ Received(D, id).gen = D.gen
  BY DEF EngineShape, Received
<1> QED BY <1>1, <1>2, <1>3 DEF Restored

LEMMA RatchetMoves ==
  ASSUME NEW D, EngineShape(D), NEW id
  PROVE  EngineShape(Encrypted(D, id)) /\ Encrypted(D, id).gen = D.gen + 1
<1> DEFINE more == Append(D.applied, id)
           D1 == [D EXCEPT !.gen = D.gen + 1]
           D2 == [D1 EXCEPT !.applied = more]
           D3 == [D2 EXCEPT !.out = id]
<1>1. Encrypted(D, id) = D3
  BY DEF Encrypted
<1>2. EngineShape(D1) /\ D1.gen = D.gen + 1
  BY DEF EngineShape
<1> HIDE DEF D1, more
<1>3. EngineShape(D2) /\ D2.gen = D.gen + 1
  BY <1>2 DEF EngineShape
<1> HIDE DEF D2
<1>4. EngineShape(D3) /\ D3.gen = D.gen + 1
  BY <1>3 DEF EngineShape
<1> QED BY <1>1, <1>4

(* A step that seals nothing.                                                *)
LEMMA NothingSealed ==
  ASSUME IInv, sealed' = sealed, NEW d \in Devices, NEW D, EngineShape(D),
         D.gen = dev[d].gen, dev' = [dev EXCEPT ![d] = D]
  PROVE  IInv'
<1>1. \A e \in Devices : dev'[e] = IF e = d THEN D ELSE dev[e]
  BY DEF IInv, Engines
<1>2. dev' = [e \in Devices |-> dev'[e]]
  BY DEF IInv, Engines
<1>3. Engines'
  BY <1>1, <1>2 DEF IInv, Engines
<1>4. AllBehind'
  BY <1>1 DEF IInv, AllBehind, Behind
<1> QED BY <1>3, <1>4 DEF IInv, NoKeyReuse

LEMMA NothingHappens ==
  ASSUME IInv, sealed' = sealed, dev' = dev
  PROVE  IInv'
  BY DEF IInv, Engines, AllBehind, NoKeyReuse

(* A handler that ends with the ratchet where it was.                        *)
LEMMA HandlerEnds ==
  ASSUME IInv, sealed' = sealed, NEW d \in Devices, NEW D, EngineShape(D),
         D.gen = dev[d].gen, NEW S, NEW fs, Finish(d, D, S, fs)
  PROVE  IInv'
<1>1. dev' = [dev EXCEPT ![d] = D]
  BY DEF Finish
<1> QED BY <1>1, NothingSealed

LEMMA Shaped ==
  ASSUME IInv, NEW d \in Devices
  PROVE  EngineShape(dev[d])
  BY DEF IInv, Engines

LEMMA GrantedGood ==
  ASSUME IInv, NEW d \in Devices, NEW f, OnGranted(d, f)
  PROVE  IInv'
<1> DEFINE S == ses[d]
           R == [S EXCEPT !.pend = None]
<1>1. CASE Close(d) /\ UNCHANGED sealed
  BY <1>1, NothingHappens DEF Close
<1>2. CASE Finish(d, dev[d], R, <<>>) /\ UNCHANGED sealed
  BY <1>2, Shaped, HandlerEnds
<1>3. CASE /\ Finish(d, Encrypted(dev[d], f.id), R, Frame(f.id))
           /\ sealed' = [sealed EXCEPT ![f.id] =
                [by |-> d, kind |-> S.pend.kind, gen |-> dev[d].gen,
                 base |-> Len(dev[d].applied)]]
  <2> DEFINE D == Encrypted(dev[d], f.id)
             s == [by |-> d, kind |-> S.pend.kind, gen |-> dev[d].gen,
                   base |-> Len(dev[d].applied)]
  <2>1. EngineShape(D) /\ D.gen = dev[d].gen + 1 /\ dev[d].gen \in Nat
    BY Shaped, RatchetMoves DEF EngineShape
  <2>2. dev' = [dev EXCEPT ![d] = D]
    BY <1>3 DEF Finish
  <2>3. s.by = d /\ s.gen = dev[d].gen
    OBVIOUS
  <2>4. sealed' = [sealed EXCEPT ![f.id] = s]
    BY <1>3
  <2> HIDE DEF D, s
  <2>5. \A e \in Devices : dev'[e] = IF e = d THEN D ELSE dev[e]
    BY <2>2 DEF IInv, Engines
  <2>6. \A i \in Ids : sealed'[i] = IF i = f.id THEN s ELSE sealed[i]
    BY <2>4 DEF IInv
  <2>7. dev' = [e \in Devices |-> dev'[e]] /\ sealed' = [i \in Ids |-> sealed'[i]]
    BY <2>2, <2>4 DEF IInv, Engines
  <2>8. Engines'
    BY <2>1, <2>5, <2>7 DEF IInv, Engines
  <2>9. AllBehind'
    BY <2>1, <2>3, <2>5, <2>6, Shaped DEF IInv, AllBehind, Behind, EngineShape
  <2>10. NoKeyReuse'
    BY <2>3, <2>6 DEF IInv, AllBehind, Behind, NoKeyReuse
  <2> QED BY <2>7, <2>8, <2>9, <2>10 DEF IInv
<1> QED BY <1>1, <1>2, <1>3 DEF OnGranted

LEMMA HandleGood ==
  ASSUME IInv, NEW d \in Devices, Handle(d)
  PROVE  IInv'
<1> DEFINE f == Head(down[d])
           D == dev[d]
<1>1. CASE OnGranted(d, f)
  BY <1>1, GrantedGood
<1>2. ASSUME sealed' = sealed, OnExpired(d, f)
      PROVE  IInv'
  BY <1>2, Shaped, SameRatchet, HandlerEnds, NothingHappens DEF OnExpired
<1>3. ASSUME sealed' = sealed, OnCancelled(d, f)
      PROVE  IInv'
  BY <1>2, <1>3, Shaped, HandlerEnds DEF OnCancelled
<1>4. ASSUME sealed' = sealed, OnResult(d, f)
      PROVE  IInv'
  <2>1. CASE D.out # f.id
    BY <1>4, <2>1, NothingHappens DEF OnResult
  <2>2. CASE D.out = f.id
    <3>1. \E E \in {Acknowledged(D), Rewound(D)} : Finish(d, E, ses[d], Ack(ses[d], f.id))
      BY <1>4, <2>2 DEF OnResult
    <3> QED BY <1>4, <3>1, Shaped, SameRatchet, HandlerEnds
  <2> QED BY <2>1, <2>2
<1>5. ASSUME sealed' = sealed, OnRelay(d, f)
      PROVE  IInv'
  BY <1>5, Shaped, SameRatchet, HandlerEnds, NothingHappens DEF OnRelay, Close
<1>6. ASSUME sealed' = sealed, OnPreview(d, f)
      PROVE  IInv'
  BY <1>6, Shaped, HandlerEnds DEF OnPreview
<1>7. ASSUME sealed' = sealed, OnEnd(d, f)
      PROVE  IInv'
  BY <1>7, Shaped, HandlerEnds, NothingHappens DEF OnEnd, Close
<1>8. ASSUME sealed' = sealed, OnActive(d)
      PROVE  IInv'
  BY <1>8, Shaped, HandlerEnds, NothingHappens DEF OnActive, Close
<1>9. ASSUME sealed' = sealed, OnCompleted(d)
      PROVE  IInv'
  BY <1>9, Shaped, HandlerEnds DEF OnCompleted
<1>10. ASSUME sealed' = sealed, OnError(d, f)
       PROVE  IInv'
  BY <1>10, Shaped, HandlerEnds, NothingHappens DEF OnError, Close
<1>11. \/ OnGranted(d, f)
       \/ /\ sealed' = sealed
          /\ \/ OnExpired(d, f) \/ OnCancelled(d, f) \/ OnResult(d, f) \/ OnRelay(d, f)
             \/ OnPreview(d, f) \/ OnEnd(d, f) \/ OnActive(d) \/ OnCompleted(d) \/ OnError(d, f)
  BY DEF Handle
<1> QED BY <1>1, <1>2, <1>3, <1>4, <1>5, <1>6, <1>7, <1>8, <1>9, <1>10, <1>11

LEMMA InitGood == Init => IInv
<1> SUFFICES ASSUME Init PROVE IInv
  OBVIOUS
<1>1. \A d \in Devices : EngineShape(dev[d])
  BY DEF Init, EngineShape
<1> QED BY <1>1 DEF Init, IInv, Engines, AllBehind, Behind, NoKeyReuse

LEMMA StepGood == IInv /\ [Next]_vars => IInv'
<1> SUFFICES ASSUME IInv, [Next]_vars PROVE IInv'
  OBVIOUS
<1>1. CASE UNCHANGED <<dev, sealed>>
  BY <1>1, NothingHappens
<1>2. ASSUME NEW d \in Devices, NEW k \in Kinds, Want(d, k)
      PROVE  IInv'
  BY <1>2, Shaped, HandlerEnds DEF Want
<1>3. ASSUME NEW d \in Devices, Resume(d)
      PROVE  IInv'
  <2>1. dev' = [dev EXCEPT ![d] = dev[d]] /\ sealed' = sealed
    BY <1>3 DEF Resume, Restored
  <2> QED BY <2>1, Shaped, NothingSealed
<1> QED BY <1>1, <1>2, <1>3, HandleGood
     DEF Next, vars, Relay, Swallow, Drop, Notice, ExpireGrant, ExpireHeld

(* A generation of a sender's ratchet encrypts one frame only, whatever is   *)
(* rolled back, refused, sent again or restored (secureRoomEngine.ts).       *)
THEOREM OneFramePerKey == Spec => []NoKeyReuse
<1>1. Spec => []IInv
  BY InitGood, StepGood, PTL DEF Spec
<1>2. IInv => NoKeyReuse
  BY DEF IInv
<1> QED BY <1>1, <1>2, PTL

-----------------------------------------------------------------------------
(* The order of the room.  What the engines, the relay and the frames under  *)
(* way say of each frame fits together (SInv).                               *)

(* What has a place in the order, or never will have one.                    *)
Refused == {"rejected", "expired", "cancelled"}
Answers == {"none", "asked", "held", "accepted"} \cup Refused

Asks == [by : Devices, id : Ids]
Entries == [t : {"relay"}, id : Ids] \cup [t : {"result"}, id : Ids, ok : BOOLEAN]
UpMsgs ==
  [t : {"frame", "ack", "request"}, id : Ids] \cup [t : {"complete"}, id : Ids \cup {0}]
    \cup [t : {"decide"}, id : Ids, ok : BOOLEAN] \cup [t : {"close"}]
Codes == {"pending-cannot-send", "delivery-pending", "invalid-grant", "recipient-unavailable",
          "invalid-reference", "active-member-required", "order-already-pending"}
DownMsgs ==
  Entries \cup [t : {"granted"}, id : Ids, order : Nat]
    \cup [t : {"expired", "cancelled", "preview"}, id : Ids]
    \cup [t : {"end"}, id : Ids \cup {0}]
    \cup [t : {"active", "completed"}] \cup [t : {"error"}, code : Codes]

EngineStates == [gen : Nat, applied : Seq(Ids), out : Ids \cup {0}, gone : BOOLEAN]
Pends == [id : Ids, kind : Kinds] \cup {None}
SessionStates ==
  [pc : {"off", "ready", "replaying", "confirming"}, open : BOOLEAN, pend : Pends,
   todo : Seq(Kinds), sure : BOOLEAN]
Frames == [by : Devices, kind : Kinds, gen : Nat, base : Nat]
RelayStates == [st : [Devices -> {"active", "replaying", "away"}], back : [Devices -> Seq(Entries)],
                queue : Seq(Asks), grant : Asks \cup {None}, held : Ids \cup {0},
                rec : [Ids -> Answers], log : Seq(Ids)]

TypeInv ==
  /\ dev \in [Devices -> EngineStates]
  /\ ses \in [Devices -> SessionStates]
  /\ sealed \in [Ids -> Frames \cup {None}]
  /\ count \in [ids : 0..MaxIds, drops : Nat, resumes : Nat]

(* How much of the room's order a state has settled.                         *)
Place(D) == IF D.out = 0 THEN Len(D.applied) ELSE Len(D.applied) - 1

LogOK(r) ==
  /\ \A n \in 1..Len(r.log) : /\ sealed[r.log[n]] # None
                              /\ sealed[r.log[n]].base = n - 1
                              /\ r.rec[r.log[n]] = "accepted"
  /\ \A id \in Ids : r.rec[id] = "accepted" =>
       /\ sealed[id] # None /\ sealed[id].base + 1 \in 1..Len(r.log)
       /\ r.log[sealed[id].base + 1] = id

(* What is unanswered is the last frame applied, and the device's own.       *)
Sits(d, D) ==
  D.out # 0 =>
    /\ Len(D.applied) > 0 /\ D.applied[Len(D.applied)] = D.out
    /\ sealed[D.out] # None /\ sealed[D.out].by = d
    /\ sealed[D.out].base = Len(D.applied) - 1
EngineOK(r, d, D) ==
  /\ Sits(d, D)
  /\ Place(D) <= Len(r.log)
  /\ \A n \in 1..Place(D) : D.applied[n] = r.log[n]
  /\ D.gone => /\ D.out # 0 /\ sealed[D.out].kind = "update"
               /\ r.rec[D.out] \in Refused
(* D reflects what the room has decided of the frame.                        *)
DoneBy(r, D, id) ==
  /\ sealed[id] # None
  /\ sealed[id].base <= Place(D)
  /\ r.rec[id] \notin Refused => sealed[id].base < Place(D)
OwnOK(r) ==
  \A id \in Ids : sealed[id] # None =>
    /\ id <= count.ids /\ r.rec[id] # "none"
    /\ sealed[id].base <= Place(dev[sealed[id].by])
    /\ dev[sealed[id].by].out = id \/ DoneBy(r, dev[sealed[id].by], id)
PendOK ==
  /\ \A d \in Devices : ses[d].pend # None =>
       sealed[ses[d].pend.id] = None /\ ses[d].pend.id <= count.ids
  /\ \A d, e \in Devices : d # e /\ ses[d].pend # None /\ ses[e].pend # None =>
       ses[d].pend.id # ses[e].pend.id

EntryOK(r, d, e) ==
  /\ sealed[e.id] # None
  /\ e.t = "relay" => sealed[e.id].by # d /\ r.rec[e.id] = "accepted"
  /\ e.t = "result" => /\ sealed[e.id].by = d
                       /\ r.rec[e.id] = IF e.ok THEN "accepted" ELSE "rejected"
(* The backlog has every accepted frame that D does not reflect, in order.   *)
BackOK(r, d, D) ==
  LET b == r.back[d]
  IN /\ \A n \in 1..Len(b) : EntryOK(r, d, b[n])
     /\ \A m, n \in 1..Len(b) : m < n =>
          /\ b[m].id # b[n].id
          /\ r.rec[b[m].id] = "accepted" => sealed[b[m].id].base < sealed[b[n].id].base
     /\ \A k \in 1..Len(r.log) : k > Place(D) => \E n \in 1..Len(b) : b[n].id = r.log[k]
QueueOK(r) ==
  /\ \A n \in 1..Len(r.queue) : /\ r.rec[r.queue[n].id] = "asked"
                                /\ sealed[r.queue[n].id] = None
                                /\ r.back[r.queue[n].by] = <<>>
  /\ \A m, n \in 1..Len(r.queue) : m # n => r.queue[m].id # r.queue[n].id
(* What is encrypted under the grant, or held, is for the next place.        *)
GrantOK(r) ==
  r.grant # None =>
    /\ r.held = 0
    /\ r.rec[r.grant.id] = "asked" /\ r.back[r.grant.by] = <<>>
    /\ sealed[r.grant.id] # None => sealed[r.grant.id].base = Len(r.log)
    /\ \A n \in 1..Len(r.queue) : r.queue[n].id # r.grant.id
HeldOK(r) ==
  r.held # 0 => /\ r.rec[r.held] = "held" /\ sealed[r.held] # None
                /\ sealed[r.held].base = Len(r.log)
RelayOK(r) ==
  /\ r \in RelayStates
  /\ LogOK(r) /\ QueueOK(r) /\ GrantOK(r) /\ HeldOK(r) /\ OwnOK(r)
  /\ \A d \in Devices : EngineOK(r, d, dev[d]) /\ BackOK(r, d, dev[d])
  /\ \A id \in Ids : r.rec[id] # "none" => id <= count.ids

DownOK(r, d, f) ==
  /\ f \in Entries => EntryOK(r, d, f)
  /\ f.t \in {"expired", "cancelled"} => r.rec[f.id] \in Refused
  /\ f.t = "granted" =>
       /\ r.rec[f.id] # "none"
       /\ \A n \in 1..Len(r.queue) : r.queue[n].id # f.id
       /\ r.grant # None /\ r.grant.id = f.id => r.grant.by = d
(* Before the end of a replay comes the entry it names.                      *)
EndOK(r, D, s) ==
  \A n \in 1..Len(s) : s[n].t = "end" /\ s[n].id # 0 =>
    \/ DoneBy(r, D, s[n].id)
    \/ \E m \in 1..(n - 1) : s[m] \in Entries /\ s[m].id = s[n].id
SocketOK(r, d, D, s) ==
  /\ s \in Seq(DownMsgs)
  /\ \A n \in 1..Len(s) : DownOK(r, d, s[n])
  /\ EndOK(r, D, s)
SocketsOK(r, w) ==
  /\ w = [d \in Devices |-> w[d]]
  /\ \A d \in Devices : SocketOK(r, d, dev[d], w[d])

UpOK(r, d, D, f) ==
  /\ f.t = "frame" => sealed[f.id] # None /\ sealed[f.id].by = d
  /\ f.t = "ack" => DoneBy(r, D, f.id)
  /\ f.t = "complete" /\ f.id # 0 => DoneBy(r, D, f.id)
  /\ f.t = "request" => r.rec[f.id] = "none" /\ f.id <= count.ids
OnceOK(u) ==
  \A d, e \in Devices : \A m \in 1..Len(u[d]), n \in 1..Len(u[e]) :
    u[d][m].t = "request" /\ u[e][n].t = "request" /\ u[e][n].id = u[d][m].id
      => d = e /\ m = n
WireOK(r, d, D, s) ==
  /\ s \in Seq(UpMsgs)
  /\ \A n \in 1..Len(s) : UpOK(r, d, D, s[n])
WiresOK(r, u) ==
  /\ u = [d \in Devices |-> u[d]]
  /\ \A d \in Devices : WireOK(r, d, dev[d], u[d])
  /\ OnceOK(u)

SInv ==
  /\ TypeInv /\ PendOK
  /\ RelayOK(relay) /\ SocketsOK(relay, down) /\ WiresOK(relay, up)

-----------------------------------------------------------------------------
(* What a step of the relay leaves as it was: decisions are final, and       *)
(* requests come to the queue and to a grant only once.                      *)
Later(r, q, new) ==
  /\ \A id \in Ids :
       /\ r.rec[id] \in Refused => q.rec[id] \in Refused
       /\ r.rec[id] \in {"accepted", "rejected"} => q.rec[id] = r.rec[id]
       /\ r.rec[id] # "none" => q.rec[id] # "none"
       /\ r.rec[id] = "none" /\ id # new => q.rec[id] = "none"
  /\ \A n \in 1..Len(q.queue) :
       \/ r.rec[q.queue[n].id] = "none"
       \/ \E k \in 1..Len(r.queue) : q.queue[n] = r.queue[k]
  /\ \/ q.grant = None
     \/ r.rec[q.grant.id] = "none"
     \/ q.grant = r.grant
     \/ \E k \in 1..Len(r.queue) : q.grant = r.queue[k]
XOK(X) ==
  /\ X = [r |-> X.r, w |-> X.w]
  /\ RelayOK(X.r) /\ SocketsOK(X.r, X.w)
Leads(X, Y, new) == XOK(Y) /\ Later(X.r, Y.r, new)

(* One step of the relay, and another.                                      *)
LEMMA LaterLater ==
  ASSUME NEW a \in RelayStates, NEW b \in RelayStates, NEW c \in RelayStates, NEW new,
         Later(a, b, new), Later(b, c, 0)
  PROVE  Later(a, c, new)
<1>1. \A id \in Ids : id # 0
  BY DEF Ids
<1>2. \A n \in 1..Len(b.queue) : b.queue[n] \in Asks
  BY DEF RelayStates
<1>3. \A n \in 1..Len(c.queue) : c.queue[n] \in Asks
  BY DEF RelayStates
<1>4. c.grant \in Asks \cup {None}
  BY DEF RelayStates
<1>5. \A q \in Asks : q.id \in Ids
  BY DEF Asks
<1>6. \A id \in Ids :
       /\ a.rec[id] \in Refused => c.rec[id] \in Refused
       /\ a.rec[id] \in {"accepted", "rejected"} => c.rec[id] = a.rec[id]
       /\ a.rec[id] # "none" => c.rec[id] # "none"
       /\ a.rec[id] = "none" /\ id # new => c.rec[id] = "none"
  BY <1>1 DEF Later
<1>7. \A id \in Ids : b.rec[id] = "none" => a.rec[id] = "none"
  BY DEF Later
<1>8. \A n \in 1..Len(c.queue) :
       \/ a.rec[c.queue[n].id] = "none"
       \/ \E k \in 1..Len(a.queue) : c.queue[n] = a.queue[k]
  <2> TAKE n \in 1..Len(c.queue)
  <2>1. CASE b.rec[c.queue[n].id] = "none"
    BY <2>1, <1>3, <1>5, <1>7
  <2>2. CASE \E k \in 1..Len(b.queue) : c.queue[n] = b.queue[k]
    BY <2>2 DEF Later
  <2> QED BY <2>1, <2>2 DEF Later
<1>9. \/ c.grant = None
      \/ a.rec[c.grant.id] = "none"
      \/ c.grant = a.grant
      \/ \E k \in 1..Len(a.queue) : c.grant = a.queue[k]
  <2>1. CASE c.grant # None /\ b.rec[c.grant.id] = "none"
    BY <2>1, <1>4, <1>5, <1>7
  <2>2. CASE c.grant = b.grant
    BY <2>2 DEF Later
  <2>3. CASE \E k \in 1..Len(b.queue) : c.grant = b.queue[k]
    BY <2>3 DEF Later
  <2> QED BY <2>1, <2>2, <2>3 DEF Later
<1> QED BY <1>6, <1>8, <1>9 DEF Later

LEMMA LeadsLeads ==
  ASSUME NEW X, NEW Y, NEW Z, NEW new, XOK(X), Leads(X, Y, new), Leads(Y, Z, 0)
  PROVE  Leads(X, Z, new)
<1>1. X.r \in RelayStates /\ Y.r \in RelayStates /\ Z.r \in RelayStates
  BY DEF XOK, Leads, RelayOK
<1> QED BY <1>1, LaterLater DEF Leads

(* What is sent.                                                             *)
LEMMA MsgIs ==
  /\ \A e \in Entries : /\ e.id \in Ids /\ e \in DownMsgs /\ e.t # "end"
                        /\ \/ e.t = "relay"
                           \/ e.t = "result" /\ e.ok \in BOOLEAN
  /\ \A f \in DownMsgs : /\ f.t \in {"relay", "result"} <=> f \in Entries
                         /\ f.t \in {"granted", "expired", "cancelled"} => f.id \in Ids
                         /\ f.t = "end" => f.id \in Ids \cup {0}
                         /\ f.t = "preview" => f.id \in Ids
  /\ \A f \in UpMsgs : /\ f.t \in {"frame", "ack", "request", "decide"} => f.id \in Ids
                       /\ f.t = "complete" => f.id \in Ids \cup {0}
<1>1. \A e \in Entries : /\ e.id \in Ids /\ e \in DownMsgs /\ e.t # "end"
                         /\ \/ e.t = "relay"
                            \/ e.t = "result" /\ e.ok \in BOOLEAN
  BY DEF Entries, DownMsgs
<1>2. \A f \in DownMsgs : /\ f.t \in {"granted", "expired", "cancelled"} => f.id \in Ids
                          /\ f.t = "end" => f.id \in Ids \cup {0}
                          /\ f.t = "preview" => f.id \in Ids
                          /\ f.t \in {"relay", "result"} => f \in Entries
  BY DEF Entries, DownMsgs
<1>3. \A f \in UpMsgs : /\ f.t \in {"frame", "ack", "request", "decide"} => f.id \in Ids
                        /\ f.t = "complete" => f.id \in Ids \cup {0}
  BY DEF UpMsgs
<1> QED BY <1>1, <1>2, <1>3

(* What the relay sends, by its shape.                                      *)
LEMMA DownNew ==
  /\ \A id \in Ids : /\ [t |-> "relay", id |-> id] \in Entries
                     /\ [t |-> "preview", id |-> id] \in DownMsgs
                     /\ [t |-> "expired", id |-> id] \in DownMsgs
                     /\ [t |-> "cancelled", id |-> id] \in DownMsgs
                     /\ [t |-> "preview", id |-> id] \notin Entries
                     /\ [t |-> "expired", id |-> id] \notin Entries
                     /\ [t |-> "cancelled", id |-> id] \notin Entries
                     /\ \A ok \in BOOLEAN : Result(id, ok) \in Entries
  /\ \A id \in Ids : \A n \in Nat :
        /\ [t |-> "granted", id |-> id, order |-> n] \in DownMsgs
        /\ [t |-> "granted", id |-> id, order |-> n] \notin Entries
  /\ \A id \in Ids \cup {0} : [t |-> "end", id |-> id] \in DownMsgs \ Entries
  /\ [t |-> "active"] \in DownMsgs \ Entries /\ [t |-> "completed"] \in DownMsgs \ Entries
  /\ \A code \in Codes : [t |-> "error", code |-> code] \in DownMsgs \ Entries
<1>1. \A id \in Ids : /\ [t |-> "relay", id |-> id] \in Entries
                      /\ \A ok \in BOOLEAN : Result(id, ok) \in Entries
  BY DEF Entries, Result
<1>2. \A id \in Ids : /\ [t |-> "preview", id |-> id] \in DownMsgs
                      /\ [t |-> "expired", id |-> id] \in DownMsgs
                      /\ [t |-> "cancelled", id |-> id] \in DownMsgs
  BY DEF DownMsgs
<1>3. \A id \in Ids : \A n \in Nat : [t |-> "granted", id |-> id, order |-> n] \in DownMsgs
  BY DEF DownMsgs
<1>4. \A id \in Ids \cup {0} : [t |-> "end", id |-> id] \in DownMsgs
  BY DEF DownMsgs
<1>5. [t |-> "active"] \in DownMsgs /\ [t |-> "completed"] \in DownMsgs
  BY DEF DownMsgs
<1>6. \A code \in Codes : [t |-> "error", code |-> code] \in DownMsgs
  BY DEF DownMsgs
<1>7. \A f : f.t \notin {"relay", "result"} => f \notin Entries
  BY DEF Entries
<1> QED BY <1>1, <1>2, <1>3, <1>4, <1>5, <1>6, <1>7

(* What is true of a frame on its way stays so while the relay moves on.    *)
LEMMA DoneStays ==
  ASSUME NEW r, NEW q, NEW new, Later(r, q, new), NEW D, NEW id \in Ids, DoneBy(r, D, id)
  PROVE  DoneBy(q, D, id)
  BY DEF DoneBy, Later

LEMMA EntryStays ==
  ASSUME NEW r, NEW q, NEW new, Later(r, q, new), NEW d, NEW e \in Entries, EntryOK(r, d, e)
  PROVE  EntryOK(q, d, e)
<1>1. e.id \in Ids /\ (e.t = "result" => e.ok \in BOOLEAN)
  BY MsgIs
<1> QED BY <1>1 DEF EntryOK, Later

LEMMA DownStays ==
  ASSUME NEW r \in RelayStates, NEW q \in RelayStates, NEW new, Later(r, q, new),
         NEW d, NEW f \in DownMsgs, DownOK(r, d, f)
  PROVE  DownOK(q, d, f)
<1>1. f \in Entries => EntryOK(q, d, f)
  BY EntryStays DEF DownOK
<1>2. f.t \in {"expired", "cancelled"} => q.rec[f.id] \in Refused
  BY MsgIs DEF DownOK, Later
<1>3. ASSUME f.t = "granted"
      PROVE  /\ q.rec[f.id] # "none"
             /\ \A n \in 1..Len(q.queue) : q.queue[n].id # f.id
             /\ q.grant # None /\ q.grant.id = f.id => q.grant.by = d
  <2>1. f.id \in Ids /\ r.rec[f.id] # "none"
    BY <1>3, MsgIs DEF DownOK
  <2>2. \A k \in 1..Len(r.queue) : r.queue[k].id # f.id
    BY <1>3 DEF DownOK
  <2>3. r.grant # None /\ r.grant.id = f.id => r.grant.by = d
    BY <1>3 DEF DownOK
  <2>4. q.rec[f.id] # "none"
    BY <2>1 DEF Later
  <2>5. \A n \in 1..Len(q.queue) : q.queue[n].id # f.id
    BY <2>1, <2>2 DEF Later
  <2>6. q.grant # None /\ q.grant.id = f.id => q.grant.by = d
    BY <2>1, <2>2, <2>3 DEF Later
  <2> QED BY <2>4, <2>5, <2>6
<1> QED BY <1>1, <1>2, <1>3 DEF DownOK

LEMMA EndStays ==
  ASSUME NEW r, NEW q, NEW new, Later(r, q, new), NEW D, NEW s \in Seq(DownMsgs),
         EndOK(r, D, s)
  PROVE  EndOK(q, D, s)
<1> SUFFICES ASSUME NEW n \in 1..Len(s), s[n].t = "end", s[n].id # 0, DoneBy(r, D, s[n].id)
             PROVE  DoneBy(q, D, s[n].id)
  BY DEF EndOK
<1>1. s[n].id \in Ids
  BY MsgIs
<1> QED BY <1>1, DoneStays

LEMMA SocketsStay ==
  ASSUME NEW r \in RelayStates, NEW q \in RelayStates, NEW new, Later(r, q, new),
         NEW w, SocketsOK(r, w)
  PROVE  SocketsOK(q, w)
<1> SUFFICES ASSUME NEW d \in Devices PROVE SocketOK(q, d, dev[d], w[d])
  BY DEF SocketsOK
<1>1. SocketOK(r, d, dev[d], w[d])
  BY DEF SocketsOK
<1>2. w[d] \in Seq(DownMsgs)
  BY <1>1 DEF SocketOK
<1>3. \A n \in 1..Len(w[d]) : DownOK(q, d, w[d][n])
  BY <1>1, <1>2, DownStays DEF SocketOK
<1>4. EndOK(q, dev[d], w[d])
  BY <1>1, <1>2, EndStays DEF SocketOK
<1> QED BY <1>2, <1>3, <1>4 DEF SocketOK

LEMMA SentGood ==
  ASSUME NEW r, NEW d, NEW D, NEW s, SocketOK(r, d, D, s), NEW fs \in Seq(DownMsgs),
         \A n \in 1..Len(fs) : DownOK(r, d, fs[n]) /\ fs[n].t # "end"
  PROVE  SocketOK(r, d, D, s \o fs)
<1>1. s \in Seq(DownMsgs)
  BY DEF SocketOK
<1> DEFINE c == s \o fs
<1>2. /\ c \in Seq(DownMsgs) /\ Len(c) = Len(s) + Len(fs) /\ Len(s) \in Nat /\ Len(fs) \in Nat
      /\ \A n \in 1..Len(s) : c[n] = s[n]
      /\ \A n \in 1..Len(c) : n \notin 1..Len(s) => n - Len(s) \in 1..Len(fs) /\ c[n] = fs[n - Len(s)]
  BY <1>1
<1> HIDE DEF c
<1>3. \A n \in 1..Len(c) : DownOK(r, d, c[n])
  BY <1>2 DEF SocketOK
<1>4. EndOK(r, D, c)
  <2> SUFFICES ASSUME NEW n \in 1..Len(c), c[n].t = "end", c[n].id # 0
               PROVE  \/ DoneBy(r, D, c[n].id)
                      \/ \E m \in 1..(n - 1) : c[m] \in Entries /\ c[m].id = c[n].id
    BY DEF EndOK
  <2>1. n \in 1..Len(s) /\ c[n] = s[n]
    BY <1>2
  <2>2. \A m \in 1..(n - 1) : c[m] = s[m]
    BY <1>2, <2>1
  <2> QED BY <2>1, <2>2 DEF SocketOK, EndOK
<1> QED BY <1>2, <1>3, <1>4 DEF SocketOK, c

(* What is sent is true when it is sent.                                    *)
LEMMA TellGood ==
  ASSUME NEW X, XOK(X), NEW fs,
         \A d \in DOMAIN fs : d \in Devices =>
           /\ fs[d] \in Seq(DownMsgs)
           /\ \A n \in 1..Len(fs[d]) : DownOK(X.r, d, fs[d][n]) /\ fs[d][n].t # "end"
  PROVE  XOK(TellEach(X, fs)) /\ TellEach(X, fs).r = X.r
<1> DEFINE w == [d \in Devices |->
     IF d \in DOMAIN fs /\ X.r.st[d] \in {"active", "replaying"} /\ ses[d].open
     THEN X.w[d] \o fs[d] ELSE X.w[d]]
<1>0. X = [r |-> X.r, w |-> X.w] /\ TellEach(X, fs) = [X EXCEPT !.w = w]
  BY DEF TellEach, XOK
<1>1. TellEach(X, fs) = [r |-> X.r, w |-> w]
  <2> HIDE DEF w
  <2> QED BY <1>0
<1>2. \A d \in Devices : SocketOK(X.r, d, dev[d], X.w[d])
  BY DEF XOK, SocketsOK
<1>3. \A d \in Devices : SocketOK(X.r, d, dev[d], w[d])
  BY <1>2, SentGood
<1>4. SocketsOK(X.r, w)
  BY <1>3 DEF SocketsOK
<1> HIDE DEF w
<1> QED BY <1>1, <1>4 DEF XOK

LEMMA LaterSame ==
  ASSUME NEW r
  PROVE  Later(r, r, 0)
  BY DEF Later

LEMMA Tells ==
  ASSUME NEW X, XOK(X), NEW d \in Devices, NEW f \in DownMsgs, DownOK(X.r, d, f), f.t # "end"
  PROVE  XOK(Tell(X, d, <<f>>)) /\ Tell(X, d, <<f>>).r = X.r
<1> DEFINE fs == [e \in {d} |-> <<f>>]
<1>1. \A e \in DOMAIN fs : e = d /\ fs[e] = <<f>>
  OBVIOUS
<1>2. <<f>> \in Seq(DownMsgs) /\ Len(<<f>>) = 1 /\ <<f>>[1] = f
  OBVIOUS
<1> HIDE DEF fs
<1>3. XOK(TellEach(X, fs)) /\ TellEach(X, fs).r = X.r
  BY <1>1, <1>2, TellGood
<1> QED BY <1>3 DEF Tell, fs

(* A refusal tells the device of it, and nothing else.                      *)
LEMMA Errs ==
  ASSUME NEW X, XOK(X), NEW d \in Devices, NEW code \in Codes
  PROVE  Leads(X, Error(X, d, code), 0)
<1> DEFINE f == [t |-> "error", code |-> code]
<1>1. f \in DownMsgs /\ f \notin Entries /\ f.t = "error"
  BY DownNew
<1> HIDE DEF f
<1>2. DownOK(X.r, d, f)
  BY <1>1 DEF DownOK
<1>3. XOK(Tell(X, d, <<f>>)) /\ Tell(X, d, <<f>>).r = X.r
  BY <1>1, <1>2, Tells
<1> QED BY <1>3, LaterSame DEF Error, Leads, f
-----------------------------------------------------------------------------
(* The relay decides: what a decision leaves of each part.                    *)
Lost(r, ds) == {k \in 1..Len(r.queue) : r.queue[k].by \in ds}
Decided(r, q, id, v, ds, es) ==
  /\ q \in RelayStates /\ q.grant = None /\ q.held = 0
  /\ \A x \in Ids : q.rec[x] = IF \E k \in Lost(r, ds) : r.queue[k].id = x THEN "cancelled"
                               ELSE IF x = id THEN v ELSE r.rec[x]
  /\ \A d \in Devices : q.back[d] = IF d \in ds THEN Append(r.back[d], es[d]) ELSE r.back[d]
  /\ \A n \in 1..Len(q.queue) : \E k \in 1..Len(r.queue) :
       k \notin Lost(r, ds) /\ q.queue[n] = r.queue[k]
  /\ \A m, n \in 1..Len(q.queue) : m # n =>
       \E j, k \in 1..Len(r.queue) : j # k /\ q.queue[m] = r.queue[j] /\ q.queue[n] = r.queue[k]
  /\ \/ /\ v = "accepted" /\ ds = Devices /\ q.log = Append(r.log, id)
        /\ r.rec[id] \in {"asked", "held"}
        /\ \A d \in Devices : es[d] = IF d = sealed[id].by THEN Result(id, TRUE)
                                      ELSE [t |-> "relay", id |-> id]
     \/ /\ v = "rejected" /\ ds = {sealed[id].by} /\ q.log = r.log
        /\ r.rec[id] \in {"asked", "held", "expired"}
        /\ es[sealed[id].by] = Result(id, FALSE)

(* A decision, whatever its queue and grant were: the entries it adds come  *)
(* last in their backlogs.                                                  *)
LEMMA DecidedGood ==
  ASSUME TypeInv, NEW r, RelayOK(r), NEW id \in Ids, sealed[id] # None,
         sealed[id].base = Len(r.log), r.grant = None, r.held = 0,
         NEW q, NEW v, NEW ds, NEW es, Decided(r, q, id, v, ds, es)
  PROVE  /\ RelayOK(q) /\ Later(r, q, 0)
         /\ \A d \in Devices : d \in ds => /\ es[d] \in Entries /\ EntryOK(q, d, es[d])
         /\ \A k \in Lost(r, ds) : q.rec[r.queue[k].id] = "cancelled"
<1> DEFINE by == sealed[id].by
<1>1. /\ r.log \in Seq(Ids) /\ q.log \in Seq(Ids) /\ q \in RelayStates /\ r \in RelayStates
      /\ \A n \in 1..Len(r.queue) : r.queue[n] \in Asks /\ r.queue[n].id \in Ids
      /\ \A n \in 1..Len(q.queue) : q.queue[n] \in Asks /\ q.queue[n].id \in Ids
      /\ \A d \in Devices : r.back[d] \in Seq(Entries)
      /\ \A x \in Ids : r.rec[x] \in Answers
  <2>1. r \in RelayStates /\ q \in RelayStates
    BY DEF RelayOK, Decided
  <2>2. r.log \in Seq(Ids) /\ r.queue \in Seq(Asks) /\ r.back \in [Devices -> Seq(Entries)]
        /\ r.rec \in [Ids -> Answers]
    BY <2>1 DEF RelayStates
  <2>3. q.log \in Seq(Ids) /\ q.queue \in Seq(Asks)
    BY <2>1 DEF RelayStates
  <2>4. \A a \in Asks : a.id \in Ids
    BY DEF Asks
  <2> QED BY <2>1, <2>2, <2>3, <2>4
<1>2. by \in Devices /\ sealed[id] \in Frames /\ id # 0
  BY DEF TypeInv, Frames, Ids
<1>3. \A k \in 1..Len(r.queue) : /\ r.rec[r.queue[k].id] = "asked" /\ sealed[r.queue[k].id] = None
                                 /\ r.back[r.queue[k].by] = <<>>
  BY DEF RelayOK, QueueOK
<1>4. r.rec[id] \in {"asked", "held", "expired"}
  BY DEF Decided
<1>5. q.rec[id] = v
  BY <1>1, <1>3 DEF Decided, Lost
<1>6. \A x \in Ids : x # id =>
        \/ q.rec[x] = r.rec[x]
        \/ q.rec[x] = "cancelled" /\ r.rec[x] = "asked" /\ sealed[x] = None
  BY <1>3 DEF Decided, Lost
<1>7. v \in {"accepted", "rejected"} /\ (v = "accepted" => r.rec[id] \in {"asked", "held"})
  BY DEF Decided
<1>8. /\ q.grant = None /\ q.held = 0
      /\ v = "accepted" => ds = Devices /\ q.log = Append(r.log, id)
      /\ v = "rejected" => ds = {by} /\ q.log = r.log
  BY DEF Decided
<1>9. \A d \in Devices : q.back[d] = IF d \in ds THEN Append(r.back[d], es[d]) ELSE r.back[d]
  BY DEF Decided
<1>10. \A d \in Devices : d \in ds => /\ es[d] \in Entries /\ es[d].id = id
                                      /\ EntryOK(q, d, es[d])
  <2> SUFFICES ASSUME NEW d \in Devices, d \in ds
               PROVE  es[d] \in Entries /\ es[d].id = id /\ EntryOK(q, d, es[d])
    OBVIOUS
  <2>1. CASE es[d] = Result(id, TRUE) /\ v = "accepted" /\ d = by
    <3>1. es[d] \in Entries
      BY <2>1, DownNew
    <3> QED BY <1>5, <2>1, <3>1 DEF EntryOK, Result
  <2>2. CASE es[d] = Result(id, FALSE) /\ v = "rejected" /\ d = by
    <3>1. es[d] \in Entries
      BY <2>2, DownNew
    <3> QED BY <1>5, <2>2, <3>1 DEF EntryOK, Result
  <2>3. CASE es[d] = [t |-> "relay", id |-> id] /\ v = "accepted" /\ d # by
    <3>1. es[d] \in Entries
      BY <2>3, DownNew
    <3> QED BY <1>5, <2>3, <3>1 DEF EntryOK
  <2>4. \/ es[d] = Result(id, TRUE) /\ v = "accepted" /\ d = by
        \/ es[d] = Result(id, FALSE) /\ v = "rejected" /\ d = by
        \/ es[d] = [t |-> "relay", id |-> id] /\ v = "accepted" /\ d # by
    <3>1. v = "accepted" => es[d] = IF d = by THEN Result(id, TRUE) ELSE [t |-> "relay", id |-> id]
      BY ZenonT(60) DEF Decided
    <3>2. v = "rejected" => d = by /\ es[d] = Result(id, FALSE)
      BY <1>8, ZenonT(60) DEF Decided
    <3> HIDE DEF by
    <3> QED BY <1>7, <3>1, <3>2
  <2> QED BY <2>1, <2>2, <2>3, <2>4
<1>11. \A k \in Lost(r, ds) : q.rec[r.queue[k].id] = "cancelled"
  BY <1>1 DEF Decided, Lost
<1>12. Later(r, q, 0)
  <2>1. \A x \in Ids :
         /\ r.rec[x] \in Refused => q.rec[x] \in Refused
         /\ r.rec[x] \in {"accepted", "rejected"} => q.rec[x] = r.rec[x]
         /\ r.rec[x] # "none" => q.rec[x] # "none"
         /\ r.rec[x] = "none" /\ x # 0 => q.rec[x] = "none"
    <3> TAKE x \in Ids
    <3>1. CASE x = id
      BY <1>4, <1>5, <1>7, <3>1 DEF Refused
    <3>2. CASE x # id
      BY <1>6, <3>2 DEF Refused
    <3> QED BY <3>1, <3>2
  <2>2. \A n \in 1..Len(q.queue) : \E k \in 1..Len(r.queue) : q.queue[n] = r.queue[k]
    BY DEF Decided
  <2> QED BY <1>8, <2>1, <2>2 DEF Later
<1>13. LogOK(q)
  <2>1. ASSUME NEW n \in 1..Len(q.log)
        PROVE  /\ sealed[q.log[n]] # None /\ sealed[q.log[n]].base = n - 1
               /\ q.rec[q.log[n]] = "accepted"
    <3>1. CASE n \in 1..Len(r.log) /\ q.log[n] = r.log[n]
      <4>1. r.log[n] \in Ids /\ r.rec[r.log[n]] = "accepted"
        BY <1>1, <3>1 DEF RelayOK, LogOK
      <4>2. r.log[n] # id
        BY <1>4, <4>1
      <4> QED BY <1>6, <3>1, <4>1, <4>2 DEF RelayOK, LogOK
    <3>2. CASE v = "accepted" /\ n = Len(r.log) + 1 /\ q.log[n] = id
      BY <1>1, <1>5, <3>2
    <3> QED BY <1>1, <1>7, <1>8, <3>1, <3>2
  <2>2. ASSUME NEW x \in Ids, q.rec[x] = "accepted"
        PROVE  /\ sealed[x] # None /\ sealed[x].base + 1 \in 1..Len(q.log)
               /\ q.log[sealed[x].base + 1] = x
    <3>1. CASE x # id
      <4>1. /\ sealed[x] # None /\ sealed[x].base + 1 \in 1..Len(r.log)
            /\ r.log[sealed[x].base + 1] = x
        BY <1>6, <2>2, <3>1 DEF RelayOK, LogOK
      <4> QED BY <1>1, <1>7, <1>8, <4>1
    <3>2. CASE x = id
      BY <1>1, <1>5, <1>7, <1>8, <2>2, <3>2
    <3> QED BY <3>1, <3>2
  <2> QED BY <2>1, <2>2 DEF LogOK
<1>14. QueueOK(q)
  <2>1. ASSUME NEW n \in 1..Len(q.queue)
        PROVE  /\ q.rec[q.queue[n].id] = "asked" /\ sealed[q.queue[n].id] = None
               /\ q.back[q.queue[n].by] = <<>>
    <3>1. PICK k \in 1..Len(r.queue) : k \notin Lost(r, ds) /\ q.queue[n] = r.queue[k]
      BY DEF Decided
    <3>2. r.queue[k].by \in Devices /\ r.queue[k].by \notin ds
      BY <1>1, <3>1 DEF Lost, Asks
    <3>3. ~ \E j \in Lost(r, ds) : r.queue[j].id = r.queue[k].id
      BY <3>1 DEF Lost, RelayOK, QueueOK
    <3>4. r.queue[k].id # id /\ r.queue[k].id \in Ids
      BY <1>1, <1>3
    <3>5. q.rec[r.queue[k].id] = r.rec[r.queue[k].id]
      BY <3>3, <3>4 DEF Decided
    <3> QED BY <1>3, <1>9, <3>1, <3>2, <3>5
  <2>2. ASSUME NEW m \in 1..Len(q.queue), NEW n \in 1..Len(q.queue), m # n
        PROVE  q.queue[m].id # q.queue[n].id
    <3>1. PICK j \in 1..Len(r.queue), k \in 1..Len(r.queue) :
              j # k /\ q.queue[m] = r.queue[j] /\ q.queue[n] = r.queue[k]
      BY <2>2 DEF Decided
    <3> QED BY <3>1 DEF RelayOK, QueueOK
  <2> QED BY <2>1, <2>2 DEF QueueOK
<1>15. OwnOK(q)
  <2> SUFFICES ASSUME NEW x \in Ids, sealed[x] # None
               PROVE  /\ x <= count.ids /\ q.rec[x] # "none"
                      /\ sealed[x].base <= Place(dev[sealed[x].by])
                      /\ dev[sealed[x].by].out = x \/ DoneBy(q, dev[sealed[x].by], x)
    BY DEF OwnOK
  <2>1. /\ x <= count.ids /\ r.rec[x] # "none"
        /\ sealed[x].base <= Place(dev[sealed[x].by])
        /\ dev[sealed[x].by].out = x \/ DoneBy(r, dev[sealed[x].by], x)
    BY DEF RelayOK, OwnOK
  <2>2. DoneBy(r, dev[sealed[x].by], x) => DoneBy(q, dev[sealed[x].by], x)
    BY <1>12, DoneStays
  <2>3. q.rec[x] # "none"
    BY <1>12, <2>1 DEF Later
  <2> QED BY <2>1, <2>2, <2>3
<1>16. ASSUME NEW d \in Devices PROVE EngineOK(q, d, dev[d])
  <2>1. EngineOK(r, d, dev[d])
    BY DEF RelayOK
  <2>2. dev[d].out \in Ids \cup {0} /\ dev[d].applied \in Seq(Ids)
    BY DEF TypeInv, EngineStates
  <2>3. Place(dev[d]) \in Int /\ Place(dev[d]) <= Len(r.log)
    BY <2>1, <2>2 DEF EngineOK, Place
  <2>4. Len(r.log) <= Len(q.log) /\ \A n \in 1..Len(r.log) : q.log[n] = r.log[n]
    BY <1>1, <1>7, <1>8, SMTT(20)
  <2>5. Len(q.log) \in Nat /\ Len(r.log) \in Nat
    BY <1>1
  <2>6. Place(dev[d]) <= Len(q.log) /\ \A n \in 1..Place(dev[d]) : dev[d].applied[n] = q.log[n]
    BY <2>1, <2>3, <2>4, <2>5 DEF EngineOK
  <2>7. dev[d].gone => /\ dev[d].out # 0 /\ sealed[dev[d].out].kind = "update"
                       /\ q.rec[dev[d].out] \in Refused
    BY <1>12, <2>1, <2>2 DEF EngineOK, Later
  <2> QED BY <2>1, <2>6, <2>7 DEF EngineOK
<1>17. ASSUME NEW d \in Devices PROVE BackOK(q, d, dev[d])
  <2> DEFINE a == r.back[d]
             b == q.back[d]
  <2>1. BackOK(r, d, dev[d]) /\ a \in Seq(Entries)
    BY <1>1 DEF RelayOK
  <2>2. \A n \in 1..Len(a) : /\ a[n] \in Entries /\ EntryOK(q, d, a[n]) /\ a[n].id \in Ids
                             /\ r.rec[a[n].id] \in {"accepted", "rejected"}
                             /\ q.rec[a[n].id] = r.rec[a[n].id]
    <3> TAKE n \in 1..Len(a)
    <3>1. a[n] \in Entries /\ EntryOK(r, d, a[n])
      BY <2>1 DEF BackOK
    <3>2. r.rec[a[n].id] \in {"accepted", "rejected"} /\ a[n].id \in Ids
      BY <3>1, MsgIs DEF EntryOK
    <3>3. EntryOK(q, d, a[n])
      BY <1>12, <3>1, EntryStays
    <3>4. q.rec[a[n].id] = r.rec[a[n].id]
      BY <1>12, <3>2 DEF Later
    <3> QED BY <3>1, <3>2, <3>3, <3>4
  <2>3. \A m, n \in 1..Len(a) : m < n =>
          /\ a[m].id # a[n].id
          /\ r.rec[a[m].id] = "accepted" => sealed[a[m].id].base < sealed[a[n].id].base
    BY <2>1 DEF BackOK
  <2>4. \A k \in 1..Len(r.log) : k > Place(dev[d]) => \E n \in 1..Len(a) : a[n].id = r.log[k]
    BY <2>1 DEF BackOK
  <2>5. CASE d \notin ds
    <3>1. b = a /\ q.log = r.log
      BY <1>7, <1>8, <1>9, <2>5
    <3> HIDE DEF a, b
    <3>2. \A n \in 1..Len(b) : EntryOK(q, d, b[n])
      BY <2>2, <3>1
    <3>3. \A m, n \in 1..Len(b) : m < n =>
            /\ b[m].id # b[n].id
            /\ q.rec[b[m].id] = "accepted" => sealed[b[m].id].base < sealed[b[n].id].base
      BY <2>2, <2>3, <3>1
    <3>4. \A k \in 1..Len(q.log) : k > Place(dev[d]) => \E n \in 1..Len(b) : b[n].id = q.log[k]
      BY <2>4, <3>1
    <3> QED BY <3>2, <3>3, <3>4 DEF BackOK, b
  <2>6. CASE d \in ds
    <3> DEFINE e == es[d]
    <3>1. b = Append(a, e) /\ e \in Entries /\ e.id = id /\ EntryOK(q, d, e)
      BY <1>9, <1>10, <2>6
    <3> HIDE DEF a, b, e
    <3>2. /\ Len(b) = Len(a) + 1 /\ Len(a) \in Nat /\ b[Len(b)] = e
          /\ \A n \in 1..Len(a) : n < Len(b) /\ b[n] = a[n]
          /\ \A n \in 1..Len(b) : n \in 1..Len(a) \/ n = Len(b)
      BY <2>1, <3>1
    <3>3. \A n \in 1..Len(b) : EntryOK(q, d, b[n])
      BY <2>2, <3>1, <3>2
    <3>4. \A n \in 1..Len(a) : a[n].id # id
      BY <1>4, <2>2
    <3>5. \A n \in 1..Len(a) : r.rec[a[n].id] = "accepted" => sealed[a[n].id].base < sealed[id].base
      <4> TAKE n \in 1..Len(a)
      <4> HAVE r.rec[a[n].id] = "accepted"
      <4>1. a[n].id \in Ids
        BY <2>2
      <4>2. sealed[a[n].id].base + 1 \in 1..Len(r.log) /\ sealed[a[n].id] # None
        BY <4>1 DEF RelayOK, LogOK
      <4>3. sealed[a[n].id].base \in Nat
        BY <4>1, <4>2 DEF TypeInv, Frames
      <4> QED BY <4>2, <4>3, <1>1
    <3>6. \A m, n \in 1..Len(b) : m < n =>
            /\ b[m].id # b[n].id
            /\ q.rec[b[m].id] = "accepted" => sealed[b[m].id].base < sealed[b[n].id].base
      <4> TAKE m, n \in 1..Len(b)
      <4> HAVE m < n
      <4>1. m \in 1..Len(a) /\ b[m] = a[m]
        BY <3>2
      <4>2. CASE n \in 1..Len(a)
        BY <2>2, <2>3, <3>2, <4>1, <4>2
      <4>3. CASE n = Len(b)
        BY <2>2, <3>1, <3>2, <3>4, <3>5, <4>1, <4>3
      <4> QED BY <3>2, <4>2, <4>3
    <3>7. \A k \in 1..Len(q.log) : k > Place(dev[d]) => \E n \in 1..Len(b) : b[n].id = q.log[k]
      <4> TAKE k \in 1..Len(q.log)
      <4> HAVE k > Place(dev[d])
      <4>1. CASE k \in 1..Len(r.log) /\ q.log[k] = r.log[k]
        <5>1. PICK n \in 1..Len(a) : a[n].id = r.log[k]
          BY <2>4, <4>1
        <5>2. n \in 1..Len(b) /\ b[n] = a[n]
          BY <3>2
        <5> QED BY <4>1, <5>1, <5>2
      <4>2. CASE q.log[k] = id
        <5>1. Len(b) \in 1..Len(b)
          BY <3>2
        <5> QED BY <3>1, <3>2, <4>2, <5>1
      <4>3. CASE v = "rejected"
        BY <1>8, <4>1, <4>3
      <4>4. CASE v = "accepted"
        <5>1. q.log = Append(r.log, id) /\ r.log \in Seq(Ids)
          BY <1>1, <1>8, <4>4
        <5>2. (k \in 1..Len(r.log) /\ q.log[k] = r.log[k]) \/ q.log[k] = id
          BY <5>1
        <5> QED BY <4>1, <4>2, <5>2
      <4> QED BY <1>7, <4>3, <4>4
    <3> QED BY <3>3, <3>6, <3>7 DEF BackOK, b
  <2> QED BY <2>5, <2>6
<1>18. \A x \in Ids : q.rec[x] # "none" => x <= count.ids
  <2>1. \A x \in Ids : q.rec[x] # "none" => r.rec[x] # "none"
    BY <1>12 DEF Later, Ids
  <2> QED BY <2>1 DEF RelayOK
<1>19. GrantOK(q) /\ HeldOK(q)
  BY <1>8 DEF GrantOK, HeldOK
<1> QED BY <1>1, <1>10, <1>11, <1>12, <1>13, <1>14, <1>15, <1>16, <1>17, <1>18, <1>19 DEF RelayOK

(* Every element of a is one of s, in a place of its own, and is in T.       *)
From(a, s, T) ==
  /\ \A n \in 1..Len(a) : \E k \in 1..Len(s) : a[n] = s[k] /\ s[k] \in T
  /\ \A m, n \in 1..Len(a) : m # n =>
       \E j, k \in 1..Len(s) : j # k /\ a[m] = s[j] /\ a[n] = s[k]
LEMMA FilterQueue ==
  ASSUME NEW s \in Seq(Asks), NEW T, NEW a, a = Filter(s, T)
  PROVE  a \in Seq(Asks) /\ From(a, s, T)
<1>1. a \in Seq(Asks)
  BY FilterPicks
<1>2. PICK f : Picks(f, a, s, T, Len(s))
  BY FilterPicks
<1>3. \A n \in 1..Len(a) : f[n] \in 1..Len(s) /\ a[n] = s[f[n]] /\ s[f[n]] \in T
  BY <1>2 DEF Picks
<1>4. ASSUME NEW m \in 1..Len(a), NEW n \in 1..Len(a), m # n PROVE f[m] # f[n]
  <2>1. m < n \/ n < m
    BY <1>4, <1>1
  <2> QED BY <1>2, <1>3, <2>1 DEF Picks
<1>5. \A m, n \in 1..Len(a) : m # n =>
        \E j, k \in 1..Len(s) : j # k /\ a[m] = s[j] /\ a[n] = s[k]
  BY <1>3, <1>4
<1> QED BY <1>1, <1>3, <1>5 DEF From

(* r without the requests of lost.                                           *)
Cancelled(c, r, lost) ==
  /\ c \in RelayStates
  /\ c.queue = Filter(r.queue, ToSet(r.queue) \ lost)
  /\ \A x \in Ids : c.rec[x] = IF \E q \in lost : q.id = x THEN "cancelled" ELSE r.rec[x]
  /\ c.st = r.st /\ c.back = r.back /\ c.log = r.log /\ c.held = r.held /\ c.grant = r.grant

(* Cancel in terms of the places of the queue.                              *)
LEMMA CancelIs ==
  ASSUME NEW r \in RelayStates, NEW lost
  PROVE  Cancelled(Cancel(r, lost), r, lost)
<1> DEFINE Q == Filter(r.queue, ToSet(r.queue) \ lost)
           M == [x \in Ids |-> IF \E q \in lost : q.id = x THEN "cancelled" ELSE r.rec[x]]
           a == [r EXCEPT !.queue = Q]
           b == [a EXCEPT !.rec = M]
<1>1. Q \in Seq(Asks)
  BY FilterQueue DEF RelayStates
<1>2. M \in [Ids -> Answers]
  BY DEF RelayStates, Answers, Refused
<1>3. \A x \in Ids : M[x] = IF \E q \in lost : q.id = x THEN "cancelled" ELSE r.rec[x]
  OBVIOUS
<1>4. Cancel(r, lost) = b
  BY DEF Cancel
<1> HIDE DEF Q, M
<1>5. /\ a \in RelayStates /\ a.queue = Q /\ a.rec = r.rec /\ a.st = r.st /\ a.back = r.back
      /\ a.log = r.log /\ a.held = r.held /\ a.grant = r.grant
  BY <1>1 DEF RelayStates
<1> HIDE DEF a
<1>6. /\ b \in RelayStates /\ b.queue = Q /\ b.rec = M /\ b.st = r.st /\ b.back = r.back
      /\ b.log = r.log /\ b.held = r.held /\ b.grant = r.grant
  BY <1>2, <1>5 DEF RelayStates
<1> HIDE DEF b
<1> QED BY <1>3, <1>4, <1>6 DEF Q, Cancelled

LEMMA QueuedIs ==
  ASSUME NEW r \in RelayStates, NEW ds, NEW lost, lost = Queued(r, ds)
  PROVE  /\ \A q : q \in lost <=> \E k \in Lost(r, ds) : q = r.queue[k]
         /\ \A k \in 1..Len(r.queue) : r.queue[k] \in ToSet(r.queue) \ lost => k \notin Lost(r, ds)
<1>1. r.queue \in Seq(Asks)
  BY DEF RelayStates
<1>2. ToSet(r.queue) = {r.queue[k] : k \in 1..Len(r.queue)}
  BY <1>1 DEF ToSet
<1> QED BY <1>2 DEF Queued, Lost

(* Delivering the verdict v on a frame, once the relay has marked it.        *)
Verdict(r, m, id, v, es) ==
  /\ m \in RelayStates
  /\ m.rec = [r.rec EXCEPT ![id] = v]
  /\ m.back = r.back /\ m.queue = r.queue /\ m.grant = None /\ m.held = 0
  /\ es = [d \in DOMAIN es |-> es[d]]
  /\ \/ /\ v = "accepted" /\ DOMAIN es = Devices /\ m.log = Append(r.log, id)
        /\ r.rec[id] \in {"asked", "held"}
        /\ \A d \in Devices : es[d] = IF d = sealed[id].by THEN Result(id, TRUE)
                                      ELSE [t |-> "relay", id |-> id]
     \/ /\ v = "rejected" /\ DOMAIN es = {sealed[id].by} /\ m.log = r.log
        /\ r.rec[id] \in {"asked", "held", "expired"}
        /\ es[sealed[id].by] = Result(id, FALSE)

(* What a decision sends is what it has decided.                            *)
LEMMA VerdictEntries ==
  ASSUME NEW r, NEW m, NEW id \in Ids, NEW v, NEW es, Verdict(r, m, id, v, es)
  PROVE  \A d \in DOMAIN es : es[d] \in Entries
<1>1. \A ok \in BOOLEAN : Result(id, ok) \in Entries
  BY DownNew
<1>2. [t |-> "relay", id |-> id] \in Entries
  BY DownNew
<1> QED BY <1>1, <1>2 DEF Verdict

LEMMA VerdictDecided ==
  ASSUME NEW r \in RelayStates, NEW m, NEW id \in Ids, NEW v, NEW es, Verdict(r, m, id, v, es),
         NEW lost, lost = Queued(m, DOMAIN es),
         NEW c, Cancelled(c, m, lost), NEW B \in [Devices -> Seq(Entries)],
         \A d \in Devices : B[d] = IF d \in DOMAIN es THEN Append(m.back[d], es[d]) ELSE m.back[d]
  PROVE  Decided(r, [c EXCEPT !.back = B], id, v, DOMAIN es, es)
<1> DEFINE q == [c EXCEPT !.back = B]
           ds == DOMAIN es
           T == ToSet(r.queue) \ lost
<1>1. /\ q \in RelayStates /\ q.queue = c.queue /\ q.rec = c.rec /\ q.log = c.log
      /\ q.held = c.held /\ q.grant = c.grant /\ q.back = B
  BY DEF RelayStates, Cancelled
<1> HIDE DEF q
<1>2. r.queue \in Seq(Asks) /\ r.rec \in [Ids -> Answers] /\ m.queue = r.queue /\ m \in RelayStates
      /\ m.back = r.back
  BY DEF RelayStates, Verdict
<1>3. Lost(m, ds) = Lost(r, ds)
  BY <1>2 DEF Lost
<1>4. /\ \A p : p \in lost <=> \E k \in Lost(r, ds) : p = r.queue[k]
      /\ \A k \in 1..Len(r.queue) : r.queue[k] \in T => k \notin Lost(r, ds)
  BY <1>2, <1>3, QueuedIs
<1>5. q.queue = Filter(r.queue, T)
  BY <1>1, <1>2 DEF Cancelled
<1> HIDE DEF T
<1>6. /\ \A n \in 1..Len(q.queue) : \E k \in 1..Len(r.queue) :
           q.queue[n] = r.queue[k] /\ r.queue[k] \in T
      /\ \A i, n \in 1..Len(q.queue) : i # n =>
           \E j, k \in 1..Len(r.queue) : j # k /\ q.queue[i] = r.queue[j] /\ q.queue[n] = r.queue[k]
  <2>1. From(q.queue, r.queue, T)
    BY <1>2, <1>5, FilterQueue
  <2> QED BY <2>1 DEF From
<1>7. \A x \in Ids : m.rec[x] = IF x = id THEN v ELSE r.rec[x]
  BY <1>2 DEF Verdict
<1>8. \A x \in Ids : q.rec[x] = IF \E k \in Lost(r, ds) : r.queue[k].id = x THEN "cancelled"
                                ELSE IF x = id THEN v ELSE r.rec[x]
  <2>1. \A x \in Ids : q.rec[x] = IF \E p \in lost : p.id = x THEN "cancelled" ELSE m.rec[x]
    BY <1>1 DEF Cancelled
  <2> QED BY <1>4, <1>7, <2>1
<1>9. q.grant = None /\ q.held = 0 /\ q.log = m.log
  BY <1>1 DEF Cancelled, Verdict
<1>10. \A n \in 1..Len(q.queue) : \E k \in 1..Len(r.queue) :
         k \notin Lost(r, ds) /\ q.queue[n] = r.queue[k]
  BY <1>4, <1>6
<1>11. \A d \in Devices : q.back[d] = IF d \in ds THEN Append(r.back[d], es[d]) ELSE r.back[d]
  BY <1>1, <1>2
<1>12. \/ /\ v = "accepted" /\ ds = Devices /\ q.log = Append(r.log, id)
          /\ r.rec[id] \in {"asked", "held"}
          /\ \A d \in Devices : es[d] = IF d = sealed[id].by THEN Result(id, TRUE)
                                        ELSE [t |-> "relay", id |-> id]
       \/ /\ v = "rejected" /\ ds = {sealed[id].by} /\ q.log = r.log
          /\ r.rec[id] \in {"asked", "held", "expired"}
          /\ es[sealed[id].by] = Result(id, FALSE)
  BY <1>9 DEF Verdict
<1> HIDE DEF ds
<1> QED BY <1>1, <1>6, <1>8, <1>9, <1>10, <1>11, <1>12 DEF Decided, q, ds

(* A delivery is a decision of this kind.                                   *)
LEMMA Delivers ==
  ASSUME TypeInv, NEW Z, XOK(Z), Z.r.grant = None, Z.r.held = 0,
         NEW id \in Ids, sealed[id] # None, sealed[id].base = Len(Z.r.log),
         NEW X, X = [r |-> X.r, w |-> Z.w],
         NEW v, NEW es, Verdict(Z.r, X.r, id, v, es)
  PROVE  /\ Leads(Z, Deliver(X, es), 0)
         /\ Deliver(X, es).r.grant = None /\ Deliver(X, es).r.held = 0
<1> DEFINE ds == DOMAIN es
           r == Z.r
           w == Z.w
           m == X.r
           lost == Queued(m, ds)
           c == Cancel(m, lost)
           B == [d \in Devices |-> IF d \in ds THEN Append(m.back[d], es[d]) ELSE m.back[d]]
           q == [c EXCEPT !.back = B]
           mine(d) == {p \in lost : p.by = d}
           frames == [d \in ds |->
             IF mine(d) = {} THEN <<es[d]>>
             ELSE <<es[d], [t |-> "cancelled", id |-> (CHOOSE p \in mine(d) : TRUE).id]>>]
           Y == [r |-> q, w |-> w]
<1>1. Deliver(X, es) = TellEach(Y, frames)
  <2>1. Deliver(X, es) = TellEach([X EXCEPT !.r = q], frames)
    BY DEF Deliver
  <2> HIDE DEF frames, q
  <2>2. [X EXCEPT !.r = q] = Y
    OBVIOUS
  <2> HIDE DEF Y
  <2> QED BY <2>1, <2>2
<1> HIDE DEF frames, q, c, lost, B, m
<1>2. r \in RelayStates /\ RelayOK(r) /\ m \in RelayStates /\ m.queue = r.queue
  BY DEF XOK, RelayOK, Verdict, m
<1>3. Cancelled(c, m, lost)
  BY <1>2, CancelIs DEF c
<1>4. B \in [Devices -> Seq(Entries)]
  <2>1. \A d \in Devices : m.back[d] \in Seq(Entries)
    BY <1>2 DEF RelayStates
  <2>2. \A d \in ds : es[d] \in Entries
    BY VerdictEntries DEF m
  <2> QED BY <2>1, <2>2 DEF B
<1>5. \A d \in Devices : B[d] = IF d \in ds THEN Append(m.back[d], es[d]) ELSE m.back[d]
  BY DEF B
<1>6. Decided(r, q, id, v, ds, es)
  BY <1>2, <1>3, <1>4, <1>5, VerdictDecided DEF lost, q, m
<1>7. Lost(m, ds) = Lost(r, ds)
  BY <1>2 DEF Lost
<1>8. \A p : p \in lost <=> \E k \in Lost(r, ds) : p = r.queue[k]
  BY <1>2, <1>7, QueuedIs DEF lost
<1> HIDE DEF r
<1>9. /\ RelayOK(q) /\ Later(r, q, 0)
      /\ \A d \in Devices : d \in ds => /\ es[d] \in Entries /\ EntryOK(q, d, es[d])
      /\ \A k \in Lost(r, ds) : q.rec[r.queue[k].id] = "cancelled"
  BY <1>2, <1>6, DecidedGood DEF r
<1>10. Y.r = q /\ XOK(Y)
  <2>1. SocketsOK(q, w)
    BY <1>2, <1>9, SocketsStay DEF XOK, RelayOK, r
  <2> HIDE DEF w
  <2> QED BY <1>9, <2>1 DEF XOK
<1> HIDE DEF Y
<1>11. ASSUME NEW d \in DOMAIN frames, d \in Devices
       PROVE  /\ frames[d] \in Seq(DownMsgs)
              /\ \A n \in 1..Len(frames[d]) : DownOK(q, d, frames[d][n]) /\ frames[d][n].t # "end"
  <2> DEFINE e == es[d]
  <2>1. e \in DownMsgs /\ e.t # "end" /\ DownOK(q, d, e)
    <3>1. e \in Entries /\ EntryOK(q, d, e)
      BY <1>9, <1>11 DEF frames
    <3> QED BY <3>1, MsgIs DEF DownOK
  <2> HIDE DEF e
  <2>2. CASE mine(d) = {}
    <3>1. frames[d] = <<e>>
      BY <1>11, <2>2 DEF e, frames
    <3> QED BY <2>1, <3>1
  <2>3. CASE mine(d) # {}
    <3> DEFINE p == CHOOSE p \in mine(d) : TRUE
               f == [t |-> "cancelled", id |-> p.id]
    <3>1. p \in mine(d)
      BY <2>3
    <3>2. frames[d] = <<e, f>>
      BY <1>11, <2>3 DEF e, frames
    <3>3. p \in lost
      BY <3>1
    <3> HIDE DEF p, mine
    <3>4. p.id \in Ids /\ q.rec[p.id] = "cancelled"
      <4>1. PICK k \in Lost(r, ds) : p = r.queue[k]
        BY <1>8, <3>3
      <4>2. r.queue[k] \in Asks
        BY <1>2, <4>1 DEF Lost, RelayStates
      <4> QED BY <1>9, <4>1, <4>2 DEF Asks
    <3>5. f \in DownMsgs /\ f \notin Entries /\ f.t = "cancelled" /\ f.id = p.id
      BY <3>4, DownNew
    <3> HIDE DEF f
    <3>6. DownOK(q, d, f) /\ f.t # "end"
      BY <3>4, <3>5 DEF DownOK, Refused
    <3>7. /\ <<e, f>> \in Seq(DownMsgs) /\ <<e, f>>[1] = e /\ <<e, f>>[2] = f
          /\ \A n \in 1..Len(<<e, f>>) : n = 1 \/ n = 2
      BY <2>1, <3>5
    <3> QED BY <2>1, <3>2, <3>6, <3>7
  <2> QED BY <2>2, <2>3
<1> HIDE DEF ds
<1>12. XOK(TellEach(Y, frames)) /\ TellEach(Y, frames).r = q
  BY <1>10, <1>11, TellGood
<1>13. q.grant = None /\ q.held = 0
  BY <1>6 DEF Decided
<1> QED BY <1>1, <1>9, <1>12, <1>13 DEF Leads, w, r

-----------------------------------------------------------------------------
(* The relay's handlers.                                                      *)
LEMMA CountNat ==
  ASSUME NEW s \in Seq(Ids)
  PROVE  Events(s) \in Nat
<1> DEFINE T == {n \in DOMAIN s : sealed[s[n]].kind = "event"}
<1>1. T \subseteq 1..Len(s) /\ Len(s) \in Nat
  OBVIOUS
<1>2. IsFiniteSet(T)
  BY <1>1, FS_Interval, FS_Subset
<1>3. Cardinality(T) \in Nat
  BY <1>2, FS_CardinalityType
<1> QED BY <1>3 DEF Events

(* Only requests that are waiting change.                                     *)
Small(r, q) ==
  /\ q \in RelayStates /\ q.log = r.log /\ q.back = r.back
  /\ \A x \in Ids : \/ q.rec[x] = r.rec[x]
                    \/ /\ r.rec[x] \in {"none", "asked"} /\ x <= count.ids
                       /\ q.rec[x] \in {"asked", "held", "cancelled", "expired"}
(* A step that decides nothing.                                             *)
LEMMA SmallGood ==
  ASSUME TypeInv, NEW r, RelayOK(r), NEW q, Small(r, q), QueueOK(q), GrantOK(q), HeldOK(q)
  PROVE  RelayOK(q)
<1>1. \A x \in Ids : /\ q.rec[x] = "accepted" <=> r.rec[x] = "accepted"
                     /\ q.rec[x] = "rejected" <=> r.rec[x] = "rejected"
                     /\ r.rec[x] \in Refused => q.rec[x] \in Refused
                     /\ r.rec[x] # "none" => q.rec[x] # "none"
  BY DEF Small, Refused
<1>2. q \in RelayStates /\ r \in RelayStates /\ r.log \in Seq(Ids) /\ q.log = r.log /\ q.back = r.back
  BY DEF Small, RelayOK, RelayStates
<1>3. LogOK(q)
  <2>1. \A n \in 1..Len(r.log) : r.log[n] \in Ids
    BY <1>2
  <2> QED BY <1>1, <1>2, <2>1 DEF RelayOK, LogOK
<1>4. OwnOK(q)
  BY <1>1 DEF RelayOK, OwnOK, DoneBy
<1>5. ASSUME NEW d \in Devices PROVE EngineOK(q, d, dev[d])
  <2>1. dev[d].out \in Ids \cup {0}
    BY DEF TypeInv, EngineStates
  <2> QED BY <1>1, <1>2, <2>1 DEF RelayOK, EngineOK
<1>6. ASSUME NEW d \in Devices PROVE BackOK(q, d, dev[d])
  <2>1. r.back[d] \in Seq(Entries) /\ BackOK(r, d, dev[d])
    BY <1>2 DEF RelayOK, RelayStates
  <2>2. \A n \in 1..Len(r.back[d]) : r.back[d][n] \in Entries /\ r.back[d][n].id \in Ids
    BY <2>1, MsgIs
  <2>3. \A n \in 1..Len(r.back[d]) : EntryOK(q, d, r.back[d][n])
    BY <1>1, <2>1, <2>2 DEF BackOK, EntryOK
  <2>4. \A m, n \in 1..Len(r.back[d]) : m < n =>
          /\ r.back[d][m].id # r.back[d][n].id
          /\ q.rec[r.back[d][m].id] = "accepted" =>
               sealed[r.back[d][m].id].base < sealed[r.back[d][n].id].base
    BY <1>1, <2>1, <2>2 DEF BackOK
  <2>5. \A k \in 1..Len(q.log) : k > Place(dev[d]) =>
          \E n \in 1..Len(r.back[d]) : r.back[d][n].id = q.log[k]
    BY <1>2, <2>1 DEF BackOK
  <2> QED BY <1>2, <2>3, <2>4, <2>5 DEF BackOK
<1>7. \A x \in Ids : q.rec[x] # "none" => x <= count.ids
  BY DEF Small, RelayOK
<1> QED BY <1>2, <1>3, <1>4, <1>5, <1>6, <1>7 DEF RelayOK

(* The parts of the relay's state, and their types.                         *)
LEMMA XIs ==
  ASSUME NEW X, XOK(X)
  PROVE  /\ X = [r |-> X.r, w |-> X.w] /\ X.r \in RelayStates /\ RelayOK(X.r)
         /\ SocketsOK(X.r, X.w)
         /\ X.r.rec \in [Ids -> Answers] /\ X.r.queue \in Seq(Asks) /\ X.r.log \in Seq(Ids)
         /\ X.r.grant \in Asks \cup {None} /\ X.r.held \in Ids \cup {0}
         /\ X.r.back \in [Devices -> Seq(Entries)] /\ X.r.st \in [Devices -> {"active", "replaying", "away"}]
<1>1. X.r \in RelayStates
  BY DEF XOK, RelayOK
<1> QED BY <1>1 DEF XOK, RelayStates

(* A new state of the relay, with nothing said about it yet.                  *)
LEMMA Becoming ==
  ASSUME NEW X, XOK(X), NEW q, RelayOK(q), NEW new, Later(X.r, q, new),
         NEW Y, Y = [r |-> q, w |-> X.w]
  PROVE  Leads(X, Y, new) /\ Y.r = q
<1>1. Y.r = q /\ Y.w = X.w
  OBVIOUS
<1>2. SocketsOK(q, X.w)
  <2>1. q \in RelayStates
    BY DEF RelayOK
  <2> QED BY <2>1, XIs, SocketsStay
<1> QED BY <1>1, <1>2 DEF Leads, XOK

(* The next place of the order is granted to the first of the queue.        *)
LEMMA IssueGood ==
  ASSUME TypeInv, NEW X, XOK(X)
  PROVE  Leads(X, Issue(X), 0)
<1>1. CASE X.r.grant # None \/ X.r.held # 0 \/ X.r.queue = <<>>
  BY <1>1, LaterSame DEF Issue, Leads
<1>2. CASE ~ (X.r.grant # None \/ X.r.held # 0 \/ X.r.queue = <<>>)
  <2> DEFINE r == X.r
             g == Head(r.queue)
             t == Tail(r.queue)
             a == [r EXCEPT !.grant = g]
             q == [a EXCEPT !.queue = t]
             Y == [r |-> q, w |-> X.w]
             f == [t |-> "granted", id |-> g.id, order |-> Events(r.log) + 1]
  <2>1. Issue(X) = Tell([X EXCEPT !.r.grant = g, !.r.queue = t], g.by, <<f>>)
    BY <1>2 DEF Issue
  <2>2. [X EXCEPT !.r.grant = g, !.r.queue = t] = Y
    <3> HIDE DEF g, t
    <3>1. X = [r |-> X.r, w |-> X.w]
      BY DEF XOK
    <3> DEFINE b == [X EXCEPT !.r.grant = g]
    <3>2. b = [r |-> a, w |-> X.w]
      BY <3>1
    <3>3. [X EXCEPT !.r.grant = g, !.r.queue = t] = [b EXCEPT !.r.queue = t]
      OBVIOUS
    <3> HIDE DEF a, b
    <3>4. [b EXCEPT !.r.queue = t] = Y
      BY <3>2
    <3> QED BY <3>3, <3>4
  <2>3. r.queue # <<>> /\ r.queue \in Seq(Asks) /\ r \in RelayStates /\ RelayOK(r) /\ r.log \in Seq(Ids)
    BY <1>2, XIs
  <2>4. /\ g \in Asks /\ t \in Seq(Asks) /\ Len(t) = Len(r.queue) - 1 /\ g = r.queue[1]
        /\ 1 \in 1..Len(r.queue) /\ Len(r.queue) \in Nat
        /\ \A n \in 1..Len(t) : n + 1 \in 1..Len(r.queue) /\ t[n] = r.queue[n + 1]
    BY <2>3
  <2> HIDE DEF g, t
  <2>5. /\ q \in RelayStates /\ q.log = r.log /\ q.back = r.back /\ q.rec = r.rec /\ q.queue = t
        /\ q.grant = g /\ q.held = 0
    <3>1. /\ a \in RelayStates /\ a.log = r.log /\ a.back = r.back /\ a.rec = r.rec
          /\ a.grant = g /\ a.held = 0
      BY <1>2, <2>3, <2>4 DEF RelayStates
    <3> HIDE DEF a
    <3> QED BY <3>1, <2>4, ZenonT(40) DEF RelayStates
  <2> HIDE DEF q
  <2>6. QueueOK(r)
    BY <2>3 DEF RelayOK
  <2>7. QueueOK(q)
    <3>1. \A n \in 1..Len(t) : /\ r.rec[t[n].id] = "asked" /\ sealed[t[n].id] = None
                               /\ r.back[t[n].by] = <<>>
      BY <2>4, <2>6, SMTT(30) DEF QueueOK
    <3>2. ASSUME NEW m \in 1..Len(t), NEW n \in 1..Len(t), m # n PROVE t[m].id # t[n].id
      <4>1. m + 1 \in 1..Len(r.queue) /\ n + 1 \in 1..Len(r.queue) /\ m + 1 # n + 1
        BY <2>4, <3>2
      <4>2. r.queue[m + 1].id # r.queue[n + 1].id
        BY <2>6, <4>1 DEF QueueOK
      <4>3. t[m] = r.queue[m + 1] /\ t[n] = r.queue[n + 1]
        BY <2>4
      <4> QED BY <4>2, <4>3
    <3> QED BY <2>5, <3>1, <3>2 DEF QueueOK
  <2>8. GrantOK(q)
    <3>1. r.rec[g.id] = "asked" /\ sealed[g.id] = None /\ r.back[g.by] = <<>>
      BY <2>4, <2>6 DEF QueueOK
    <3>2. \A n \in 1..Len(t) : t[n].id # g.id
      BY <2>4, <2>6 DEF QueueOK
    <3> QED BY <2>5, <3>1, <3>2 DEF GrantOK
  <2>9. HeldOK(q) /\ Small(r, q)
    BY <2>5 DEF HeldOK, Small
  <2>10. RelayOK(q)
    BY <2>3, <2>7, <2>8, <2>9, SmallGood
  <2>11. Later(r, q, 0)
    BY <2>4, <2>5 DEF Later
  <2>12. Leads(X, Y, 0) /\ Y.r = q
    BY <2>10, <2>11, Becoming
  <2> HIDE DEF Y
  <2>13. f \in DownMsgs /\ f \notin Entries /\ f.t = "granted" /\ f.id = g.id
    <3>1. Events(r.log) + 1 \in Nat
      BY <2>3, CountNat
    <3>2. g.id \in Ids
      BY <2>4 DEF Asks
    <3> QED BY <3>1, <3>2, DownNew
  <2> HIDE DEF f
  <2>14. g.by \in Devices
    BY <2>4 DEF Asks
  <2>15. DownOK(q, g.by, f)
    <3>1. q.rec[g.id] # "none" /\ \A n \in 1..Len(q.queue) : q.queue[n].id # g.id
      <4>1. g # None
        BY <2>4, SessionAssumption DEF Asks
      <4> QED BY <2>5, <2>8, <4>1 DEF GrantOK
    <3> QED BY <2>5, <2>13, <3>1 DEF DownOK
  <2>16. XOK(Tell(Y, g.by, <<f>>)) /\ Tell(Y, g.by, <<f>>).r = q
    BY <2>12, <2>13, <2>14, <2>15, Tells DEF Leads
  <2> QED BY <2>1, <2>2, <2>11, <2>16 DEF Leads
<1> QED BY <1>1, <1>2

LEMMA MarkIs ==
  ASSUME NEW X, X = [r |-> X.r, w |-> X.w], X.r \in RelayStates,
         NEW id \in Ids, NEW how \in Answers
  PROVE  /\ Mark(X, id, how) = [r |-> Mark(X, id, how).r, w |-> X.w]
         /\ Mark(X, id, how).r \in RelayStates
         /\ Mark(X, id, how).r.rec = [X.r.rec EXCEPT ![id] = how]
         /\ Mark(X, id, how).r.log = X.r.log /\ Mark(X, id, how).r.back = X.r.back
         /\ Mark(X, id, how).r.queue = X.r.queue /\ Mark(X, id, how).r.grant = X.r.grant
         /\ Mark(X, id, how).r.held = X.r.held /\ Mark(X, id, how).r.st = X.r.st
<1> DEFINE c == [X.r.rec EXCEPT ![id] = how]
           q == [X.r EXCEPT !.rec = c]
<1>1. Mark(X, id, how) = [X EXCEPT !.r = q]
  BY DEF Mark
<1>2. c \in [Ids -> Answers]
  BY DEF RelayStates
<1> HIDE DEF c
<1>3. /\ q \in RelayStates /\ q.rec = c /\ q.log = X.r.log /\ q.back = X.r.back
      /\ q.queue = X.r.queue /\ q.grant = X.r.grant /\ q.held = X.r.held /\ q.st = X.r.st
  BY <1>2 DEF RelayStates
<1> HIDE DEF q
<1>4. [X EXCEPT !.r = q] = [r |-> q, w |-> X.w]
  OBVIOUS
<1> QED BY <1>1, <1>3, <1>4 DEF c

(* The next place is that of the frame.                                       *)
Granting(X, id) ==
  /\ id \in Ids /\ sealed[id] # None /\ sealed[id].base = Len(X.r.log)
  /\ X.r.grant = None /\ X.r.held = 0

(* An accepted frame is the next of the order.                              *)
LEMMA AcceptGood ==
  ASSUME TypeInv, NEW X, XOK(X), NEW id, Granting(X, id), X.r.rec[id] \in {"asked", "held"}
  PROVE  Leads(X, Accept(X, id), 0)
<1> DEFINE by == sealed[id].by
           es == [d \in Devices |->
                    IF d = by THEN Result(id, TRUE) ELSE [t |-> "relay", id |-> id]]
           M == Mark(X, id, "accepted")
           l == Append(X.r.log, id)
           q == [M.r EXCEPT !.log = l]
           Y == [r |-> q, w |-> X.w]
<1>1. /\ M = [r |-> M.r, w |-> X.w] /\ M.r \in RelayStates
      /\ M.r.rec = [X.r.rec EXCEPT ![id] = "accepted"]
      /\ M.r.back = X.r.back /\ M.r.queue = X.r.queue /\ M.r.grant = None /\ M.r.held = 0
  <2>1. "accepted" \in Answers
    BY DEF Answers
  <2> HIDE DEF M
  <2> QED BY <2>1, XIs, MarkIs DEF Granting, M
<1>2. Accept(X, id) = Issue(Deliver([M EXCEPT !.r.log = l], es))
  BY DEF Accept
<1>3. l \in Seq(Ids)
  BY XIs DEF Granting
<1> HIDE DEF M, l
<1>4. [M EXCEPT !.r.log = l] = Y
  BY <1>1
<1>5. /\ q \in RelayStates /\ q.rec = M.r.rec /\ q.back = M.r.back /\ q.queue = M.r.queue
      /\ q.grant = M.r.grant /\ q.held = M.r.held /\ q.log = l
  BY <1>1, <1>3 DEF RelayStates
<1>6. Y.r = q
  OBVIOUS
<1> HIDE DEF q
<1>7. es = [d \in DOMAIN es |-> es[d]] /\ DOMAIN es = Devices
      /\ \A d \in Devices : es[d] = IF d = sealed[id].by THEN Result(id, TRUE)
                                      ELSE [t |-> "relay", id |-> id]
  OBVIOUS
<1> HIDE DEF es
<1>8. Verdict(X.r, q, id, "accepted", es)
  BY <1>1, <1>5, <1>7 DEF Verdict, l
<1>9. Leads(X, Deliver(Y, es), 0)
  BY <1>6, <1>8, Delivers DEF Granting
<1>10. Leads(Deliver(Y, es), Issue(Deliver(Y, es)), 0)
  BY <1>9, IssueGood DEF Leads
<1> QED BY <1>2, <1>4, <1>9, <1>10, LeadsLeads

LEMMA RejectGood ==
  ASSUME TypeInv, NEW X, XOK(X), NEW id, Granting(X, id),
         X.r.rec[id] \in {"asked", "held", "expired"}
  PROVE  Leads(X, Reject(X, id), 0)
<1> DEFINE by == sealed[id].by
           es == [d \in {by} |-> Result(id, FALSE)]
           Y == Mark(X, id, "rejected")
<1>1. /\ Y = [r |-> Y.r, w |-> X.w] /\ Y.r \in RelayStates
      /\ Y.r.rec = [X.r.rec EXCEPT ![id] = "rejected"] /\ Y.r.log = X.r.log
      /\ Y.r.back = X.r.back /\ Y.r.queue = X.r.queue /\ Y.r.grant = None /\ Y.r.held = 0
  <2>1. "rejected" \in Answers
    BY DEF Answers, Refused
  <2> HIDE DEF Y
  <2> QED BY <2>1, XIs, MarkIs DEF Granting, Y
<1>2. Reject(X, id) = Issue(Deliver(Y, es))
  BY DEF Reject
<1> HIDE DEF Y
<1>3. es = [d \in DOMAIN es |-> es[d]] /\ DOMAIN es = {sealed[id].by}
      /\ es[sealed[id].by] = Result(id, FALSE)
  OBVIOUS
<1> HIDE DEF es
<1>4. Verdict(X.r, Y.r, id, "rejected", es)
  BY <1>1, <1>3 DEF Verdict
<1>5. Leads(X, Deliver(Y, es), 0)
  BY <1>1, <1>4, Delivers DEF Granting
<1>6. Leads(Deliver(Y, es), Issue(Deliver(Y, es)), 0)
  BY <1>5, IssueGood DEF Leads
<1> QED BY <1>2, <1>5, <1>6, LeadsLeads

(* Requests of the queue are requests of devices.                           *)
LEMMA QueueIds ==
  ASSUME NEW X, XOK(X)
  PROVE  \A n \in 1..Len(X.r.queue) : X.r.queue[n].id \in Ids /\ X.r.queue[n].by \in Devices
<1>1. X.r.queue \in Seq(Asks)
  BY XIs
<1>2. \A n \in 1..Len(X.r.queue) : X.r.queue[n] \in Asks
  BY <1>1
<1> QED BY <1>2 DEF Asks

LEMMA PreviewGood ==
  ASSUME NEW X, XOK(X)
  PROVE  Leads(X, Preview(X), 0)
<1>1. CASE ~ (X.r.held # 0 /\ HostFree(X))
  BY <1>1, LaterSame DEF Preview, Leads
<1>2. CASE X.r.held # 0 /\ HostFree(X)
  <2> DEFINE f == [t |-> "preview", id |-> X.r.held]
  <2>1. X.r.held \in Ids
    BY <1>2, XIs
  <2>2. f \in DownMsgs /\ f \notin Entries /\ f.t = "preview"
    BY <2>1, DownNew
  <2>3. Preview(X) = Tell(X, Host, <<f>>)
    BY <1>2 DEF Preview
  <2> HIDE DEF f
  <2>4. DownOK(X.r, Host, f)
    BY <2>2 DEF DownOK
  <2> QED BY <2>2, <2>3, <2>4, Tells, LaterSame, SessionAssumption DEF Leads
<1> QED BY <1>1, <1>2

(* A frame or a grant that has its answer gets it again.                    *)
LEMMA RetriedGood ==
  ASSUME TypeInv, NEW X, XOK(X), NEW d \in Devices, NEW id \in Ids,
         sealed[id] # None, sealed[id].by = d, X.r.rec[id] # "asked"
  PROVE  Leads(X, Retried(X, d, id), 0)
<1>1. X.r.rec[id] \in Answers /\ X.r.rec[id] # "none"
  BY XIs DEF RelayOK, OwnOK
<1>2. CASE X.r.rec[id] \in {"accepted", "rejected"}
  <2> DEFINE ok == X.r.rec[id] = "accepted"
             f == Result(id, ok)
  <2>1. Retried(X, d, id) = Tell(X, d, <<f>>)
    BY <1>2 DEF Retried
  <2>2. f \in Entries
    BY DownNew
  <2>3. EntryOK(X.r, d, f)
    BY <1>2 DEF EntryOK, Result
  <2>4. f.t = "result"
    BY DEF Result
  <2> HIDE DEF f
  <2>5. f \in DownMsgs /\ f.t # "end" /\ DownOK(X.r, d, f)
    BY <2>2, <2>3, <2>4, MsgIs DEF DownOK
  <2> QED BY <2>1, <2>5, Tells, LaterSame DEF Leads
<1>3. CASE X.r.rec[id] = "held"
  BY <1>3, PreviewGood DEF Retried
<1>4. CASE X.r.rec[id] \in {"cancelled", "expired"}
  <2> DEFINE f == [t |-> X.r.rec[id], id |-> id]
  <2>1. Retried(X, d, id) = Tell(X, d, <<f>>)
    BY <1>4 DEF Retried
  <2>2. f \in DownMsgs /\ f \notin Entries /\ f.id = id /\ f.t \in {"cancelled", "expired"}
    BY <1>4, DownNew
  <2> HIDE DEF f
  <2>3. DownOK(X.r, d, f)
    BY <1>4, <2>2 DEF DownOK, Refused
  <2> QED BY <2>1, <2>2, <2>3, Tells, LaterSame DEF Leads
<1> QED BY <1>1, <1>2, <1>3, <1>4 DEF Answers, Refused

(* The grant runs out: its frame may come all the same.                       *)
LEMMA LapsedGood ==
  ASSUME TypeInv, NEW X, XOK(X), X.r.grant # None
  PROVE  /\ Leads(X, GrantLapsed(X), 0)
         /\ GrantLapsed(X).r.grant = None /\ GrantLapsed(X).r.held = 0
         /\ GrantLapsed(X).r.log = X.r.log
         /\ GrantLapsed(X).r.rec[X.r.grant.id] = "expired"
<1> DEFINE g == X.r.grant
           f == [t |-> "expired", id |-> g.id]
           M == Mark(X, g.id, "expired")
           q == [M.r EXCEPT !.grant = None]
           Y == [r |-> q, w |-> X.w]
<1>1. g \in Asks /\ g.id \in Ids /\ g.by \in Devices /\ RelayOK(X.r) /\ X.r \in RelayStates
  BY XIs DEF Asks
<1>2. X.r.held = 0 /\ X.r.rec[g.id] = "asked"
  BY <1>1 DEF RelayOK, GrantOK
<1>3. /\ M = [r |-> M.r, w |-> X.w] /\ M.r \in RelayStates
      /\ M.r.rec = [X.r.rec EXCEPT ![g.id] = "expired"] /\ M.r.log = X.r.log
      /\ M.r.back = X.r.back /\ M.r.queue = X.r.queue /\ M.r.held = 0
  <2>1. "expired" \in Answers
    BY DEF Answers, Refused
  <2> HIDE DEF M, g
  <2> QED BY <1>1, <1>2, <2>1, XIs, MarkIs DEF M
<1>4. GrantLapsed(X) = Tell([M EXCEPT !.r.grant = None], g.by, <<f>>)
  BY DEF GrantLapsed
<1>5. f \in DownMsgs /\ f \notin Entries /\ f.t = "expired" /\ f.id = g.id
  BY <1>1, DownNew
<1> HIDE DEF M, f
<1>6. [M EXCEPT !.r.grant = None] = Y
  BY <1>3
<1>7. /\ q \in RelayStates /\ q.rec = M.r.rec /\ q.back = M.r.back /\ q.queue = M.r.queue
      /\ q.grant = None /\ q.held = M.r.held /\ q.log = M.r.log
  BY <1>3 DEF RelayStates
<1> HIDE DEF q
<1>8. \A x \in Ids : q.rec[x] = IF x = g.id THEN "expired" ELSE X.r.rec[x]
  BY <1>3, <1>7, XIs
<1>9. Small(X.r, q)
  <2>1. g.id <= count.ids
    BY <1>1, <1>2 DEF RelayOK
  <2> QED BY <1>2, <1>3, <1>7, <1>8, <2>1 DEF Small
<1>10. \A n \in 1..Len(q.queue) : q.queue[n] = X.r.queue[n] /\ n \in 1..Len(X.r.queue)
         /\ q.queue[n].id \in Ids /\ q.queue[n].id # g.id
  <2>1. \A n \in 1..Len(X.r.queue) : X.r.queue[n].id \in Ids /\ X.r.queue[n].id # g.id
    BY <1>1, QueueIds DEF RelayOK, GrantOK
  <2> QED BY <1>3, <1>7, <2>1
<1>11. QueueOK(q)
  BY <1>1, <1>3, <1>7, <1>8, <1>10 DEF RelayOK, QueueOK
<1>12. RelayOK(q)
  BY <1>1, <1>3, <1>7, <1>9, <1>11, SmallGood DEF GrantOK, HeldOK
<1>13. Later(X.r, q, 0)
  BY <1>2, <1>7, <1>8, <1>10 DEF Later, Refused
<1>14. Leads(X, Y, 0) /\ Y.r = q
  BY <1>12, <1>13, Becoming
<1> HIDE DEF Y
<1>15. DownOK(q, g.by, f)
  BY <1>1, <1>5, <1>8 DEF DownOK, Refused
<1>16. XOK(Tell(Y, g.by, <<f>>)) /\ Tell(Y, g.by, <<f>>).r = q
  BY <1>1, <1>5, <1>14, <1>15, Tells DEF Leads
<1>17. GrantLapsed(X) = Tell(Y, g.by, <<f>>)
  BY <1>4, <1>6
<1>18. q.grant = None /\ q.held = 0 /\ q.log = X.r.log /\ q.rec[g.id] = "expired"
  BY <1>1, <1>3, <1>7, <1>8
<1> HIDE DEF g
<1> QED BY <1>13, <1>16, <1>17, <1>18 DEF Leads, g

(* The grant is used, or the held frame decided.                              *)
LEMMA ClearGood ==
  ASSUME TypeInv, NEW X, XOK(X), NEW Y, Y = [r |-> Y.r, w |-> X.w],
         Y.r \in RelayStates, Y.r.log = X.r.log, Y.r.back = X.r.back, Y.r.rec = X.r.rec,
         Y.r.queue = X.r.queue,
         \/ Y.r.grant = None /\ Y.r.held = X.r.held
         \/ Y.r.grant = X.r.grant /\ Y.r.held = 0
  PROVE  Leads(X, Y, 0)
<1>1. QueueOK(Y.r) /\ GrantOK(Y.r) /\ HeldOK(Y.r)
  BY XIs DEF RelayOK, QueueOK, GrantOK, HeldOK
<1>2. Small(X.r, Y.r)
  BY DEF Small
<1>3. RelayOK(Y.r)
  BY <1>1, <1>2, XIs, SmallGood
<1>4. Later(X.r, Y.r, 0)
  BY DEF Later
<1> QED BY <1>3, <1>4, Becoming

(* A grant that is used up, and what is held or not held any more.          *)
LEMMA UsedIs ==
  ASSUME NEW X, XOK(X), NEW Y, Y = [X EXCEPT !.r.grant = None]
  PROVE  /\ Y = [r |-> Y.r, w |-> X.w] /\ Y.r \in RelayStates /\ Y.r.log = X.r.log
         /\ Y.r.back = X.r.back /\ Y.r.rec = X.r.rec /\ Y.r.queue = X.r.queue
         /\ Y.r.grant = None /\ Y.r.held = X.r.held
<1> DEFINE q == [X.r EXCEPT !.grant = None]
<1>1. Y = [r |-> q, w |-> X.w]
  BY XIs
<1>2. /\ q \in RelayStates /\ q.log = X.r.log /\ q.back = X.r.back /\ q.rec = X.r.rec
      /\ q.queue = X.r.queue /\ q.grant = None /\ q.held = X.r.held
  BY XIs DEF RelayStates
<1> HIDE DEF q
<1>3. Y.r = q
  BY <1>1
<1> QED BY <1>1, <1>2, <1>3

LEMMA FreedIs ==
  ASSUME NEW X, XOK(X), NEW Y, Y = [X EXCEPT !.r.held = 0]
  PROVE  /\ Y = [r |-> Y.r, w |-> X.w] /\ Y.r \in RelayStates /\ Y.r.log = X.r.log
         /\ Y.r.back = X.r.back /\ Y.r.rec = X.r.rec /\ Y.r.queue = X.r.queue
         /\ Y.r.grant = X.r.grant /\ Y.r.held = 0
<1> DEFINE q == [X.r EXCEPT !.held = 0]
<1>1. Y = [r |-> q, w |-> X.w]
  BY XIs
<1>2. /\ q \in RelayStates /\ q.log = X.r.log /\ q.back = X.r.back /\ q.rec = X.r.rec
      /\ q.queue = X.r.queue /\ q.grant = X.r.grant /\ q.held = 0
  BY XIs DEF RelayStates
<1> HIDE DEF q
<1>3. Y.r = q
  BY <1>1
<1> QED BY <1>1, <1>2, <1>3

(* The held frame runs out or is decided.                                     *)
LEMMA HeldIs ==
  ASSUME TypeInv, NEW X, XOK(X), X.r.held # 0, NEW Y, Y = [X EXCEPT !.r.held = 0]
  PROVE  /\ Leads(X, Y, 0) /\ Granting(Y, X.r.held) /\ Y.r.rec[X.r.held] = "held"
<1>1. /\ X.r.grant = None /\ X.r.rec[X.r.held] = "held" /\ sealed[X.r.held] # None
      /\ sealed[X.r.held].base = Len(X.r.log) /\ X.r.held \in Ids
  BY XIs DEF RelayOK, GrantOK, HeldOK
<1>2. /\ Y = [r |-> Y.r, w |-> X.w] /\ Y.r \in RelayStates /\ Y.r.log = X.r.log
      /\ Y.r.back = X.r.back /\ Y.r.rec = X.r.rec /\ Y.r.queue = X.r.queue
      /\ Y.r.grant = X.r.grant /\ Y.r.held = 0
  BY FreedIs
<1>3. Leads(X, Y, 0)
  BY <1>2, ClearGood
<1> QED BY <1>1, <1>2, <1>3 DEF Granting

(* application-decision, commit-decision                                    *)
LEMMA DecisionGood ==
  ASSUME TypeInv, NEW X, XOK(X), NEW f, f.id \in Ids
  PROVE  Leads(X, OnDecision(X, f), 0)
<1> DEFINE Y == [X EXCEPT !.r.held = 0]
<1>1. CASE X.r.back[Host] # <<>> \/ X.r.held # f.id
  <2>1. \/ OnDecision(X, f) = Error(X, Host, "delivery-pending")
        \/ OnDecision(X, f) = Error(X, Host, "invalid-reference")
    BY <1>1 DEF OnDecision
  <2>2. Host \in Devices
    BY SessionAssumption
  <2>3. \A code \in Codes : Leads(X, Error(X, Host, code), 0)
    BY <2>2, Errs
  <2> QED BY <2>1, <2>3 DEF Codes
<1>2. CASE ~ (X.r.back[Host] # <<>> \/ X.r.held # f.id)
  <2>1. X.r.held # 0 /\ X.r.held = f.id
    BY <1>2 DEF Ids
  <2>2. OnDecision(X, f) = IF f.ok THEN Accept(Y, f.id) ELSE Reject(Y, f.id)
    BY <1>2 DEF OnDecision
  <2> HIDE DEF Y
  <2>3. Leads(X, Y, 0) /\ Granting(Y, f.id) /\ Y.r.rec[f.id] = "held"
    BY <2>1, HeldIs DEF Y
  <2>4. Leads(Y, OnDecision(X, f), 0)
    BY <2>2, <2>3, AcceptGood, RejectGood DEF Leads
  <2> QED BY <2>3, <2>4, LeadsLeads
<1> QED BY <1>1, <1>2

(* A relay frame, with all its outcomes.                                    *)
LEMMA FrameGood ==
  ASSUME TypeInv, NEW X, XOK(X), NEW d \in Devices, NEW id \in Ids,
         sealed[id] # None, sealed[id].by = d, NEW Y \in OnFrame(X, d, id)
  PROVE  Leads(X, Y, 0)
<1>1. CASE X.r.rec[id] # "asked"
  BY <1>1, RetriedGood DEF OnFrame
<1>2. CASE \E code \in Codes : Y = Error(X, d, code)
  BY <1>2, Errs
<1>3. CASE /\ X.r.rec[id] = "asked" /\ X.r.grant # None /\ X.r.grant.id = id
           /\ \/ Y = Reject(GrantLapsed(X), id)
              \/ d = Host /\ Y = Accept([X EXCEPT !.r.grant = None], id)
              \/ Y = Preview([Mark(X, id, "held") EXCEPT !.r.grant = None, !.r.held = id])
  <2>1. /\ X.r.held = 0 /\ sealed[id].base = Len(X.r.log) /\ RelayOK(X.r)
        /\ \A n \in 1..Len(X.r.queue) : X.r.queue[n].id # id
    BY <1>3, XIs DEF RelayOK, GrantOK
  <2>2. CASE Y = Reject(GrantLapsed(X), id)
    <3> DEFINE Z == GrantLapsed(X)
    <3>1. Leads(X, Z, 0) /\ Granting(Z, id) /\ Z.r.rec[id] = "expired"
      BY <1>3, <2>1, LapsedGood DEF Granting
    <3> HIDE DEF Z
    <3>2. Leads(Z, Reject(Z, id), 0)
      BY <3>1, RejectGood DEF Leads
    <3> QED BY <2>2, <3>1, <3>2, LeadsLeads DEF Z
  <2>3. CASE d = Host /\ Y = Accept([X EXCEPT !.r.grant = None], id)
    <3> DEFINE Z == [X EXCEPT !.r.grant = None]
    <3> HIDE DEF Z
    <3>1. /\ Z = [r |-> Z.r, w |-> X.w] /\ Z.r \in RelayStates /\ Z.r.log = X.r.log
          /\ Z.r.back = X.r.back /\ Z.r.rec = X.r.rec /\ Z.r.queue = X.r.queue
          /\ Z.r.grant = None /\ Z.r.held = X.r.held
      BY UsedIs DEF Z
    <3>2. Leads(X, Z, 0)
      BY <3>1, ClearGood
    <3>3. Granting(Z, id) /\ Z.r.rec[id] = "asked"
      BY <1>3, <2>1, <3>1 DEF Granting
    <3>4. Leads(Z, Accept(Z, id), 0)
      BY <3>2, <3>3, AcceptGood DEF Leads
    <3> QED BY <2>3, <3>2, <3>4, LeadsLeads DEF Z
  <2>4. CASE Y = Preview([Mark(X, id, "held") EXCEPT !.r.grant = None, !.r.held = id])
    <3> DEFINE M == Mark(X, id, "held")
               a == [M.r EXCEPT !.grant = None]
               q == [a EXCEPT !.held = id]
               A == [M EXCEPT !.r.grant = None]
               Z == [r |-> q, w |-> X.w]
    <3>1. /\ M = [r |-> M.r, w |-> X.w] /\ M.r \in RelayStates
          /\ M.r.rec = [X.r.rec EXCEPT ![id] = "held"] /\ M.r.log = X.r.log
          /\ M.r.back = X.r.back /\ M.r.queue = X.r.queue
      <4>1. "held" \in Answers
        BY DEF Answers
      <4> HIDE DEF M
      <4> QED BY <4>1, XIs, MarkIs DEF M
    <3>2. [M EXCEPT !.r.grant = None, !.r.held = id] = [A EXCEPT !.r.held = id]
      OBVIOUS
    <3> HIDE DEF M
    <3>3. A = [r |-> a, w |-> X.w]
      BY <3>1
    <3>4. /\ a \in RelayStates /\ a.rec = M.r.rec /\ a.log = X.r.log /\ a.back = X.r.back
          /\ a.queue = X.r.queue /\ a.grant = None
      BY <3>1 DEF RelayStates
    <3> HIDE DEF a, A
    <3>5. [A EXCEPT !.r.held = id] = Z
      BY <3>3
    <3>6. /\ q \in RelayStates /\ q.rec = M.r.rec /\ q.log = X.r.log /\ q.back = X.r.back
          /\ q.queue = X.r.queue /\ q.grant = None /\ q.held = id
      BY <3>4 DEF RelayStates
    <3> HIDE DEF q
    <3>7. \A x \in Ids : q.rec[x] = IF x = id THEN "held" ELSE X.r.rec[x]
      BY <3>1, <3>6, XIs
    <3>8. Small(X.r, q)
      <4>1. id <= count.ids
        BY <2>1 DEF RelayOK, OwnOK
      <4> QED BY <1>3, <3>6, <3>7, <4>1 DEF Small
    <3>9. QueueOK(q) /\ GrantOK(q)
      <4>1. \A n \in 1..Len(X.r.queue) : X.r.queue[n].id \in Ids
        BY QueueIds
      <4>2. QueueOK(X.r) /\ GrantOK(X.r)
        BY <2>1 DEF RelayOK
      <4>3. GrantOK(q)
        BY <3>6 DEF GrantOK
      <4>4. \A n \in 1..Len(X.r.queue) : X.r.queue[n].id # id
        BY <2>1, <4>2 DEF GrantOK
      <4>5. QueueOK(q)
        BY <3>6, <3>7, <4>1, <4>2, <4>4 DEF QueueOK
      <4> QED BY <4>3, <4>5
    <3>10. HeldOK(q)
      BY <2>1, <3>6, <3>7 DEF HeldOK
    <3>11. RelayOK(q)
      BY <2>1, <3>8, <3>9, <3>10, SmallGood
    <3>12. Later(X.r, q, 0)
      BY <1>3, <3>6, <3>7 DEF Later, Refused
    <3>13. Leads(X, Z, 0)
      BY <3>11, <3>12, Becoming
    <3> HIDE DEF Z
    <3>14. Leads(Z, Preview(Z), 0)
      BY <3>13, PreviewGood DEF Leads
    <3> QED BY <2>4, <3>2, <3>5, <3>13, <3>14, LeadsLeads DEF M
  <2> QED BY <1>3, <2>2, <2>3, <2>4
<1>4. \/ X.r.rec[id] # "asked"
      \/ Y \in {Error(X, d, "pending-cannot-send"), Error(X, d, "delivery-pending"),
               Error(X, d, "invalid-grant"), Error(X, d, "recipient-unavailable")}
      \/ /\ X.r.rec[id] = "asked" /\ X.r.grant # None /\ X.r.grant.id = id
         /\ \/ Y = Reject(GrantLapsed(X), id)
            \/ d = Host /\ Y = Accept([X EXCEPT !.r.grant = None], id)
            \/ Y = Preview([Mark(X, id, "held") EXCEPT !.r.grant = None, !.r.held = id])
  <2> SUFFICES ASSUME X.r.rec[id] = "asked", X.r.st[d] = "active", X.r.back[d] = <<>>,
                      X.r.grant # None, X.r.grant.id = id
               PROVE  \/ Y = Error(X, d, "recipient-unavailable")
                      \/ Y = Reject(GrantLapsed(X), id)
                      \/ d = Host /\ Y = Accept([X EXCEPT !.r.grant = None], id)
                      \/ Y = Preview([Mark(X, id, "held") EXCEPT !.r.grant = None, !.r.held = id])
    BY DEF OnFrame
  <2> QED BY DEF OnFrame
<1> QED BY <1>1, <1>2, <1>3, <1>4 DEF Codes

LEMMA LaterMore ==
  ASSUME NEW r, NEW q, NEW new, Later(r, q, 0)
  PROVE  Later(r, q, new)
  BY DEF Later, Ids

(* A request for the next place.                                            *)
LEMMA RequestGood ==
  ASSUME TypeInv, NEW X, XOK(X), NEW d \in Devices, NEW id \in Ids,
         X.r.rec[id] = "none", id <= count.ids
  PROVE  Leads(X, OnRequest(X, d, id), id)
<1>1. CASE \E code \in Codes : OnRequest(X, d, id) = Error(X, d, code)
  BY <1>1, Errs, LaterMore DEF Leads
<1>2. /\ RelayOK(X.r) /\ sealed[id] = None
      /\ \A n \in 1..Len(X.r.queue) : X.r.queue[n].id \in Ids /\ X.r.queue[n].id # id
      /\ X.r.grant # None => X.r.grant.id # id
  <2>1. RelayOK(X.r)
    BY XIs
  <2> QED BY <2>1, QueueIds DEF RelayOK, OwnOK, QueueOK, GrantOK
<1>3. CASE OnRequest(X, d, id) = Tell(Mark(X, id, "cancelled"), d, <<[t |-> "cancelled", id |-> id]>>)
  <2> DEFINE f == [t |-> "cancelled", id |-> id]
             Y == Mark(X, id, "cancelled")
  <2>1. /\ Y = [r |-> Y.r, w |-> X.w] /\ Y.r \in RelayStates
        /\ Y.r.rec = [X.r.rec EXCEPT ![id] = "cancelled"] /\ Y.r.log = X.r.log
        /\ Y.r.back = X.r.back /\ Y.r.queue = X.r.queue /\ Y.r.grant = X.r.grant
        /\ Y.r.held = X.r.held
    <3>1. "cancelled" \in Answers
      BY DEF Answers, Refused
    <3> HIDE DEF Y
    <3> QED BY <3>1, XIs, MarkIs DEF Y
  <2> HIDE DEF Y
  <2>2. \A x \in Ids : Y.r.rec[x] = IF x = id THEN "cancelled" ELSE X.r.rec[x]
    BY <2>1, XIs
  <2>3. Small(X.r, Y.r)
    BY <2>1, <2>2 DEF Small
  <2>4. QueueOK(Y.r)
    BY <1>2, <2>1, <2>2 DEF RelayOK, QueueOK
  <2>5. GrantOK(Y.r) /\ HeldOK(Y.r)
    <3>1. X.r.grant # None => X.r.grant.id \in Ids
      BY XIs DEF Asks
    <3>2. X.r.held # 0 => X.r.held \in Ids /\ X.r.held # id
      BY XIs, <1>2 DEF RelayOK, HeldOK
    <3> QED BY <1>2, <2>1, <2>2, <3>1, <3>2 DEF RelayOK, GrantOK, HeldOK
  <2>6. RelayOK(Y.r)
    BY <1>2, <2>3, <2>4, <2>5, SmallGood
  <2>7. Later(X.r, Y.r, id)
    BY <2>1, <2>2 DEF Later, Refused
  <2>8. Leads(X, Y, id)
    BY <2>1, <2>6, <2>7, Becoming
  <2>9. f \in DownMsgs /\ f \notin Entries /\ f.t = "cancelled" /\ f.id = id
    BY DownNew
  <2> HIDE DEF f
  <2>10. DownOK(Y.r, d, f)
    BY <2>2, <2>9 DEF DownOK, Refused
  <2>11. XOK(Tell(Y, d, <<f>>)) /\ Tell(Y, d, <<f>>).r = Y.r
    BY <2>8, <2>9, <2>10, Tells DEF Leads
  <2> QED BY <1>3, <2>8, <2>11 DEF Leads, Y, f
<1>4. CASE /\ X.r.back[d] = <<>>
           /\ OnRequest(X, d, id) = Issue([Mark(X, id, "asked") EXCEPT
                !.r.queue = Append(X.r.queue, [by |-> d, id |-> id])])
  <2> DEFINE M == Mark(X, id, "asked")
             a == [by |-> d, id |-> id]
             l == Append(X.r.queue, a)
             q == [M.r EXCEPT !.queue = l]
             Y == [r |-> q, w |-> X.w]
  <2>1. /\ M = [r |-> M.r, w |-> X.w] /\ M.r \in RelayStates
        /\ M.r.rec = [X.r.rec EXCEPT ![id] = "asked"] /\ M.r.log = X.r.log
        /\ M.r.back = X.r.back /\ M.r.grant = X.r.grant /\ M.r.held = X.r.held
    <3>1. "asked" \in Answers
      BY DEF Answers
    <3> HIDE DEF M
    <3> QED BY <3>1, XIs, MarkIs DEF M
  <2>2. a \in Asks /\ a.by = d /\ a.id = id
    BY DEF Asks
  <2> HIDE DEF M, a
  <2>3. /\ l \in Seq(Asks) /\ l[Len(X.r.queue) + 1] = a
        /\ \A n \in 1..Len(X.r.queue) : l[n] = X.r.queue[n]
        /\ \A n \in 1..Len(l) : n \in 1..Len(X.r.queue) \/ n = Len(X.r.queue) + 1
    BY <2>2, XIs
  <2> HIDE DEF l
  <2>4. [M EXCEPT !.r.queue = l] = Y
    BY <2>1
  <2>5. /\ q \in RelayStates /\ q.rec = M.r.rec /\ q.log = X.r.log /\ q.back = X.r.back
        /\ q.queue = l /\ q.grant = X.r.grant /\ q.held = X.r.held
    BY <2>1, <2>3 DEF RelayStates
  <2> HIDE DEF q
  <2>6. \A x \in Ids : q.rec[x] = IF x = id THEN "asked" ELSE X.r.rec[x]
    BY <2>1, <2>5, XIs
  <2>7. Small(X.r, q)
    BY <2>5, <2>6 DEF Small
  <2>8. QueueOK(q)
    <3>1. ASSUME NEW n \in 1..Len(l)
          PROVE  /\ q.rec[l[n].id] = "asked" /\ sealed[l[n].id] = None
                 /\ q.back[l[n].by] = <<>>
      <4>1. CASE n \in 1..Len(X.r.queue)
        BY <1>2, <2>3, <2>5, <2>6, <4>1 DEF RelayOK, QueueOK
      <4>2. CASE n = Len(X.r.queue) + 1
        BY <1>2, <1>4, <2>2, <2>3, <2>5, <2>6, <4>2
      <4> QED BY <2>3, <4>1, <4>2
    <3>2. ASSUME NEW m \in 1..Len(l), NEW n \in 1..Len(l), m # n
          PROVE  l[m].id # l[n].id
      <4>1. CASE m \in 1..Len(X.r.queue) /\ n \in 1..Len(X.r.queue)
        BY <1>2, <2>3, <3>2, <4>1 DEF RelayOK, QueueOK
      <4>2. CASE m = Len(X.r.queue) + 1 /\ n \in 1..Len(X.r.queue)
        BY <1>2, <2>2, <2>3, <4>2
      <4>3. CASE n = Len(X.r.queue) + 1 /\ m \in 1..Len(X.r.queue)
        BY <1>2, <2>2, <2>3, <4>3
      <4> QED BY <2>3, <3>2, <4>1, <4>2, <4>3
    <3> QED BY <2>5, <3>1, <3>2 DEF QueueOK
  <2>9. GrantOK(q)
    <3>1. X.r.grant # None => X.r.grant.id \in Ids
      BY XIs DEF Asks
    <3>2. \A n \in 1..Len(l) : X.r.grant # None => l[n].id # X.r.grant.id
      BY <1>2, <2>2, <2>3 DEF RelayOK, GrantOK
    <3> QED BY <1>2, <2>5, <2>6, <3>1, <3>2 DEF RelayOK, GrantOK
  <2>10. HeldOK(q)
    <3>1. X.r.held # 0 => X.r.held \in Ids /\ X.r.held # id
      BY XIs, <1>2 DEF RelayOK, HeldOK
    <3> QED BY <1>2, <2>5, <2>6, <3>1 DEF RelayOK, HeldOK
  <2>11. RelayOK(q)
    BY <1>2, <2>7, <2>8, <2>9, <2>10, SmallGood
  <2>12. Later(X.r, q, id)
    <3>1. \A n \in 1..Len(q.queue) :
            \/ X.r.rec[q.queue[n].id] = "none"
            \/ \E k \in 1..Len(X.r.queue) : q.queue[n] = X.r.queue[k]
      BY <2>2, <2>3, <2>5
    <3> QED BY <2>5, <2>6, <3>1 DEF Later, Refused
  <2>13. Leads(X, Y, id)
    BY <2>11, <2>12, Becoming
  <2> HIDE DEF Y
  <2>14. Leads(Y, Issue(Y), 0)
    BY <2>13, IssueGood DEF Leads
  <2> QED BY <1>4, <2>4, <2>13, <2>14, LeadsLeads DEF M, l, a
<1>5. \/ OnRequest(X, d, id) \in {Error(X, d, "active-member-required"), Error(X, d, "order-already-pending")}
      \/ OnRequest(X, d, id) = Tell(Mark(X, id, "cancelled"), d, <<[t |-> "cancelled", id |-> id]>>)
      \/ /\ X.r.back[d] = <<>>
         /\ OnRequest(X, d, id) = Issue([Mark(X, id, "asked") EXCEPT
              !.r.queue = Append(X.r.queue, [by |-> d, id |-> id])])
  BY DEF OnRequest
<1> QED BY <1>1, <1>3, <1>4, <1>5 DEF Codes

(* A backlog of which the first k entries have been processed.                *)
LEMMA ShrinkGood ==
  ASSUME TypeInv, NEW r, RelayOK(r), NEW q \in RelayStates, NEW d \in Devices,
         q.log = r.log, q.rec = r.rec, q.queue = r.queue, q.grant = r.grant, q.held = r.held,
         NEW k \in 0..Len(r.back[d]),
         \A e \in Devices : q.back[e] = IF e = d THEN SubSeq(r.back[d], k + 1, Len(r.back[d]))
                                        ELSE r.back[e],
         \A n \in 1..k : r.rec[r.back[d][n].id] = "accepted" =>
                            sealed[r.back[d][n].id].base < Place(dev[d])
  PROVE  RelayOK(q) /\ Later(r, q, 0)
<1> DEFINE a == r.back[d]
           b == q.back[d]
<1>1. a \in Seq(Entries) /\ r.log \in Seq(Ids) /\ r.queue \in Seq(Asks) /\ r.grant \in Asks \cup {None}
  BY DEF RelayOK, RelayStates
<1>2. /\ Len(b) = Len(a) - k /\ Len(a) \in Nat
      /\ \A n \in 1..Len(b) : n + k \in 1..Len(a) /\ b[n] = a[n + k]
      /\ \A n \in 1..Len(a) : n > k => n - k \in 1..Len(b) /\ b[n - k] = a[n]
      /\ a = <<>> => b = <<>>
  <2>1. b = SubSeq(a, k + 1, Len(a)) /\ k \in 0..Len(a)
    OBVIOUS
  <2> HIDE DEF a, b
  <2>2. Len(a) \in Nat /\ k \in Nat /\ k <= Len(a)
    BY <1>1, <2>1
  <2>3. Len(b) = Len(a) - k /\ \A n \in 1..Len(b) : b[n] = a[n + k]
    BY <1>1, <2>1, <2>2
  <2>4. a = <<>> => b = <<>>
    BY <2>1, <2>2
  <2>5. \A n \in 1..Len(b) : n + k \in 1..Len(a)
    BY <2>2, <2>3
  <2>6. \A n \in 1..Len(a) : n > k => n - k \in 1..Len(b) /\ (n - k) + k = n
    BY <2>2, <2>3
  <2>7. \A n \in 1..Len(a) : n > k => b[n - k] = a[n]
    BY <2>3, <2>6
  <2> QED BY <2>2, <2>3, <2>4, <2>5, <2>6, <2>7
<1>3. BackOK(r, d, dev[d])
  BY DEF RelayOK
<1>4. Place(dev[d]) \in Int
  BY DEF TypeInv, EngineStates, Place
<1>5. BackOK(q, d, dev[d])
  <2> HIDE DEF a, b
  <2>1. ASSUME NEW n \in 1..Len(b) PROVE EntryOK(q, d, b[n])
    <3>1. EntryOK(r, d, a[n + k])
      BY <1>2, <1>3 DEF BackOK, a
    <3> QED BY <1>2, <3>1 DEF EntryOK
  <2>2. ASSUME NEW m \in 1..Len(b), NEW n \in 1..Len(b), m < n
        PROVE  /\ b[m].id # b[n].id
               /\ q.rec[b[m].id] = "accepted" => sealed[b[m].id].base < sealed[b[n].id].base
    <3>1. m + k \in 1..Len(a) /\ n + k \in 1..Len(a) /\ m + k < n + k
      BY <1>2, <2>2
    <3>2. /\ a[m + k].id # a[n + k].id
          /\ r.rec[a[m + k].id] = "accepted" => sealed[a[m + k].id].base < sealed[a[n + k].id].base
      BY <1>3, <3>1 DEF BackOK, a
    <3>3. b[m] = a[m + k] /\ b[n] = a[n + k]
      BY <1>2
    <3> QED BY <3>2, <3>3
  <2>3. ASSUME NEW j \in 1..Len(q.log), j > Place(dev[d])
        PROVE  \E n \in 1..Len(b) : b[n].id = q.log[j]
    <3>1. PICK n \in 1..Len(a) : a[n].id = r.log[j]
      BY <1>3, <2>3 DEF BackOK, a
    <3>2. r.rec[a[n].id] = "accepted" /\ sealed[a[n].id].base = j - 1
      BY <3>1 DEF RelayOK, LogOK
    <3>3. ~ (n \in 1..k)
      BY <1>1, <1>4, <2>3, <3>2 DEF a
    <3>4. n > k
      BY <3>3, <1>2
    <3> QED BY <1>2, <3>1, <3>4
  <2> QED BY <2>1, <2>2, <2>3 DEF BackOK, b
<1>6. ASSUME NEW e \in Devices, e # d PROVE BackOK(q, e, dev[e])
  <2>1. q.back[e] = r.back[e] /\ BackOK(r, e, dev[e])
    BY <1>6 DEF RelayOK
  <2>2. \A n \in 1..Len(r.back[e]) : EntryOK(q, e, r.back[e][n])
    BY <2>1 DEF BackOK, EntryOK
  <2> QED BY <2>1, <2>2 DEF BackOK
<1>7. QueueOK(q)
  <2>1. QueueOK(r)
    BY DEF RelayOK
  <2>2. \A n \in 1..Len(r.queue) : r.queue[n].by \in Devices
    <3>1. \A n \in 1..Len(r.queue) : r.queue[n] \in Asks
      BY <1>1
    <3> QED BY <3>1 DEF Asks
  <2>3. ASSUME NEW n \in 1..Len(r.queue) PROVE q.back[r.queue[n].by] = <<>>
    <3>1. r.back[r.queue[n].by] = <<>> /\ r.queue[n].by \in Devices
      BY <2>1, <2>2 DEF QueueOK
    <3>2. CASE r.queue[n].by = d
      BY <1>2, <3>1, <3>2
    <3>3. CASE r.queue[n].by # d
      BY <3>1, <3>3
    <3> QED BY <3>2, <3>3
  <2> QED BY <2>1, <2>3 DEF QueueOK
<1>8. GrantOK(q)
  <2>1. GrantOK(r)
    BY DEF RelayOK
  <2>2. r.grant # None => r.grant.by \in Devices
    BY <1>1 DEF Asks
  <2>3. ASSUME r.grant # None PROVE q.back[r.grant.by] = <<>>
    <3>1. r.back[r.grant.by] = <<>>
      BY <2>1, <2>3 DEF GrantOK
    <3>2. CASE r.grant.by = d
      BY <1>2, <3>1, <3>2
    <3>3. CASE r.grant.by # d
      BY <2>2, <2>3, <3>1, <3>3
    <3> QED BY <3>2, <3>3
  <2> QED BY <2>1, <2>3 DEF GrantOK
<1>9. LogOK(q) /\ HeldOK(q) /\ OwnOK(q)
  BY DEF RelayOK, LogOK, HeldOK, OwnOK, DoneBy
<1>10. \A e \in Devices : EngineOK(q, e, dev[e])
  BY DEF RelayOK, EngineOK
<1>11. \A x \in Ids : q.rec[x] # "none" => x <= count.ids
  BY DEF RelayOK
<1>12. Later(r, q, 0)
  BY DEF Later
<1> QED BY <1>5, <1>6, <1>7, <1>8, <1>9, <1>10, <1>11, <1>12 DEF RelayOK

(* What comes before an entry that is done is done.                           *)
LEMMA DoneBefore ==
  ASSUME TypeInv, NEW r, RelayOK(r), NEW d \in Devices, NEW k \in 1..Len(r.back[d]),
         DoneBy(r, dev[d], r.back[d][k].id)
  PROVE  \A n \in 1..k : r.rec[r.back[d][n].id] = "accepted" =>
                            sealed[r.back[d][n].id].base < Place(dev[d])
<1> DEFINE a == r.back[d]
<1>1. a \in Seq(Entries) /\ \A n \in 1..Len(a) : a[n].id \in Ids
  <2>1. a \in Seq(Entries)
    BY DEF RelayOK, RelayStates
  <2> QED BY <2>1, MsgIs
<1>2. BackOK(r, d, dev[d]) /\ Place(dev[d]) \in Int
  BY DEF RelayOK, TypeInv, EngineStates, Place
<1>3. \A n \in 1..Len(a) : sealed[a[n].id] # None /\ sealed[a[n].id].base \in Nat
  <2>1. \A n \in 1..Len(a) : sealed[a[n].id] # None
    BY <1>2 DEF BackOK, EntryOK
  <2>2. \A x \in Ids : sealed[x] # None => sealed[x].base \in Nat
    BY DEF TypeInv, Frames
  <2> QED BY <1>1, <2>1, <2>2
<1> SUFFICES ASSUME NEW n \in 1..k, r.rec[a[n].id] = "accepted"
             PROVE  sealed[a[n].id].base < Place(dev[d])
  OBVIOUS
<1>4. n \in 1..Len(a) /\ (n = k \/ n < k)
  BY <1>1
<1>5. CASE n = k
  BY <1>5 DEF DoneBy, Refused
<1>6. CASE n < k
  <2>1. sealed[a[n].id].base < sealed[a[k].id].base
    BY <1>2, <1>4, <1>6 DEF BackOK
  <2>2. sealed[a[k].id].base <= Place(dev[d])
    BY DEF DoneBy
  <2>3. /\ sealed[a[n].id].base \in Int /\ sealed[a[k].id].base \in Int
        /\ Place(dev[d]) \in Int
    BY <1>2, <1>3, <1>4
  <2> QED BY <2>1, <2>2, <2>3
<1> QED BY <1>4, <1>5, <1>6

(* delivery-ack: what leaves the backlog, its device has settled.           *)
LEMMA AckGood ==
  ASSUME TypeInv, NEW X, XOK(X), NEW d \in Devices, NEW id \in Ids, DoneBy(X.r, dev[d], id)
  PROVE  Leads(X, OnAck(X, d, id), 0)
<1> DEFINE b == X.r.back[d]
           at == {n \in DOMAIN b : b[n].id = id}
           k == CHOOSE n \in at : TRUE
           s == SubSeq(b, k + 1, Len(b))
           B == [X.r.back EXCEPT ![d] = s]
           q == [X.r EXCEPT !.back = B]
           Y == [r |-> q, w |-> X.w]
<1>1. CASE at = {}
  <2>1. OnAck(X, d, id) = Error(X, d, "invalid-reference")
    BY <1>1 DEF OnAck
  <2>2. "invalid-reference" \in Codes
    BY DEF Codes
  <2> QED BY <2>1, <2>2, Errs
<1>2. CASE at # {}
  <2>1. OnAck(X, d, id) = IF d = Host THEN Preview([X EXCEPT !.r.back[d] = s])
                          ELSE [X EXCEPT !.r.back[d] = s]
    BY <1>2 DEF OnAck
  <2>2. b \in Seq(Entries) /\ X.r.back \in [Devices -> Seq(Entries)]
    BY XIs
  <2>3. k \in 1..Len(b) /\ b[k].id = id /\ k \in 0..Len(b)
    <3>1. k \in at
      BY <1>2
    <3> HIDE DEF k
    <3> QED BY <2>2, <3>1
  <2> HIDE DEF k
  <2>4. s \in Seq(Entries)
    BY <2>2, <2>3
  <2> HIDE DEF s
  <2>5. [X EXCEPT !.r.back[d] = s] = Y
    <3>1. X = [r |-> X.r, w |-> X.w]
      BY XIs
    <3>2. [X EXCEPT !.r.back[d] = s] = [X EXCEPT !.r = q]
      OBVIOUS
    <3> HIDE DEF q
    <3> QED BY <3>1, <3>2
  <2>6. B \in [Devices -> Seq(Entries)] /\ \A e \in Devices : B[e] = IF e = d THEN s ELSE X.r.back[e]
    BY <2>2, <2>4
  <2> HIDE DEF B
  <2>7. /\ q \in RelayStates /\ q.log = X.r.log /\ q.rec = X.r.rec /\ q.queue = X.r.queue
        /\ q.grant = X.r.grant /\ q.held = X.r.held /\ q.back = B
    BY <2>6, XIs DEF RelayStates
  <2> HIDE DEF q
  <2>8. \A n \in 1..k : X.r.rec[b[n].id] = "accepted" => sealed[b[n].id].base < Place(dev[d])
    BY <2>3, XIs, DoneBefore
  <2>9. \A e \in Devices : q.back[e] = IF e = d THEN SubSeq(b, k + 1, Len(b)) ELSE X.r.back[e]
    BY <2>6, <2>7 DEF s
  <2>10. RelayOK(q) /\ Later(X.r, q, 0)
    BY <2>3, <2>7, <2>8, <2>9, XIs, ShrinkGood
  <2>11. Leads(X, Y, 0)
    BY <2>10, Becoming
  <2> HIDE DEF Y
  <2>12. Leads(Y, Preview(Y), 0)
    BY <2>11, PreviewGood DEF Leads
  <2> QED BY <2>1, <2>5, <2>11, <2>12, LeadsLeads
<1> QED BY <1>1, <1>2

(* resume-complete: the whole backlog is settled.                           *)
LEMMA CompleteGood ==
  ASSUME TypeInv, NEW X, XOK(X), NEW d \in Devices, NEW id \in Ids \cup {0},
         id # 0 => DoneBy(X.r, dev[d], id)
  PROVE  Leads(X, OnComplete(X, d, id), 0)
<1> DEFINE b == X.r.back[d]
           S == [X.r.st EXCEPT ![d] = "active"]
           B == [X.r.back EXCEPT ![d] = <<>>]
           p == [X.r EXCEPT !.st = S]
           q == [p EXCEPT !.back = B]
           P == [X EXCEPT !.r.st[d] = "active"]
           Z == [r |-> q, w |-> X.w]
           all == [e \in Devices |-> <<[t |-> "active"]>>]
           U == TellEach(Z, all)
           Y == Tell(U, d, <<[t |-> "completed"]>>)
<1>1. CASE ~ Exact(X, d, id)
  <2>1. OnComplete(X, d, id) = Error(X, d, "invalid-reference")
    BY <1>1 DEF OnComplete
  <2>2. "invalid-reference" \in Codes
    BY DEF Codes
  <2> QED BY <2>1, <2>2, Errs
<1>2. CASE Exact(X, d, id)
  <2>1. LET R == [X EXCEPT !.r.st[d] = "active", !.r.back[d] = <<>>]
            V == Tell(TellEach(R, all), d, <<[t |-> "completed"]>>)
        IN  OnComplete(X, d, id) = IF d = Host THEN Preview(V) ELSE V
    BY <1>2 DEF OnComplete
  <2>2. b \in Seq(Entries) /\ X.r.back \in [Devices -> Seq(Entries)] /\ Len(b) \in Nat
    BY XIs
  <2>3. [X EXCEPT !.r.st[d] = "active", !.r.back[d] = <<>>] = Z
    <3>1. P = [r |-> p, w |-> X.w]
      <4>1. X = [r |-> X.r, w |-> X.w]
        BY XIs
      <4>2. P = [X EXCEPT !.r = p]
        OBVIOUS
      <4> HIDE DEF p, P
      <4> QED BY <4>1, <4>2
    <3>2. [X EXCEPT !.r.st[d] = "active", !.r.back[d] = <<>>] = [P EXCEPT !.r.back[d] = <<>>]
      OBVIOUS
    <3>3. p.back = X.r.back
      BY XIs DEF RelayStates
    <3> HIDE DEF p, P
    <3>4. [P EXCEPT !.r.back[d] = <<>>] = Z
      BY <3>1, <3>3
    <3> QED BY <3>2, <3>4
  <2>4. OnComplete(X, d, id) = IF d = Host THEN Preview(Y) ELSE Y
    <3> HIDE DEF Z, all
    <3> QED BY <2>1, <2>3
  <2>5. B \in [Devices -> Seq(Entries)] /\ \A e \in Devices : B[e] = IF e = d THEN <<>> ELSE X.r.back[e]
    BY <2>2
  <2>6. S \in [Devices -> {"active", "replaying", "away"}]
    BY XIs
  <2> HIDE DEF B, S
  <2>7. p \in RelayStates /\ p.log = X.r.log /\ p.rec = X.r.rec /\ p.queue = X.r.queue
        /\ p.grant = X.r.grant /\ p.held = X.r.held /\ p.back = X.r.back
    BY <2>6, XIs DEF RelayStates
  <2> HIDE DEF p
  <2>8. /\ q \in RelayStates /\ q.log = X.r.log /\ q.rec = X.r.rec /\ q.queue = X.r.queue
        /\ q.grant = X.r.grant /\ q.held = X.r.held /\ q.back = B
    BY <2>5, <2>7 DEF RelayStates
  <2> HIDE DEF q
  <2>9. SubSeq(b, Len(b) + 1, Len(b)) = <<>>
    BY <2>2
  <2>10. \A n \in 1..Len(b) : X.r.rec[b[n].id] = "accepted" => sealed[b[n].id].base < Place(dev[d])
    <3>1. CASE b = <<>>
      BY <2>2, <3>1
    <3>2. CASE b # <<>>
      <4>1. id = b[Len(b)].id /\ Len(b) \in 1..Len(b)
        BY <1>2, <2>2, <3>2 DEF Exact, LastOf, Last
      <4>2. b[Len(b)] \in Entries
        BY <2>2, <4>1
      <4>3. id # 0
        BY <4>1, <4>2, MsgIs DEF Ids
      <4> QED BY <4>1, <4>3, XIs, DoneBefore
    <3> QED BY <3>1, <3>2
  <2>11. Len(b) \in 0..Len(b)
         /\ \A e \in Devices : q.back[e] = IF e = d THEN SubSeq(b, Len(b) + 1, Len(b)) ELSE X.r.back[e]
    <3>1. ASSUME NEW e \in Devices
          PROVE  q.back[e] = IF e = d THEN SubSeq(b, Len(b) + 1, Len(b)) ELSE X.r.back[e]
      <4> HIDE DEF b
      <4> QED BY <2>5, <2>8, <2>9
    <3> QED BY <2>2, <3>1
  <2>12. RelayOK(q) /\ Later(X.r, q, 0)
    BY <2>8, <2>10, <2>11, XIs, ShrinkGood
  <2>13. Leads(X, Z, 0) /\ Z.r = q
    BY <2>12, Becoming
  <2> HIDE DEF Z
  <2>14. XOK(U) /\ U.r = Z.r
    <3>1. \A f \in {[t |-> "active"]} : f \in DownMsgs /\ f.t # "end" /\ \A e : DownOK(Z.r, e, f)
      BY DownNew DEF DownOK
    <3>2. \A e \in DOMAIN all : e \in Devices =>
            /\ all[e] \in Seq(DownMsgs)
            /\ \A n \in 1..Len(all[e]) : DownOK(Z.r, e, all[e][n]) /\ all[e][n].t # "end"
      BY <3>1
    <3> HIDE DEF all
    <3> QED BY <2>13, <3>2, TellGood DEF Leads
  <2> HIDE DEF U
  <2>15. XOK(Y) /\ Y.r = U.r
    <3> DEFINE f == [t |-> "completed"]
    <3>1. f \in DownMsgs /\ f.t # "end" /\ DownOK(U.r, d, f)
      BY DownNew DEF DownOK
    <3> HIDE DEF f
    <3> QED BY <2>14, <3>1, Tells DEF f
  <2>16. Leads(X, Y, 0)
    BY <2>13, <2>14, <2>15 DEF Leads
  <2> HIDE DEF Y
  <2>17. Leads(Y, Preview(Y), 0)
    BY <2>16, PreviewGood DEF Leads
  <2> QED BY <2>4, <2>16, <2>17, LeadsLeads
<1> QED BY <1>1, <1>2

(* A close: its device loses its place in the queue and its grant.          *)
LEMMA CloseGood ==
  ASSUME TypeInv, NEW X, XOK(X), NEW d \in Devices
  PROVE  Leads(X, OnClose(X, d), 0)
<1> DEFINE r == X.r
           G == {g \in {r.grant} : g # None /\ g.by = d}
           lost == Queued(r, {d}) \cup G
           c == Cancel(r, lost)
           S == [c.st EXCEPT ![d] = "away"]
           g == IF r.grant \in lost THEN None ELSE r.grant
           a == [c EXCEPT !.st = S]
           q == [a EXCEPT !.grant = g]
           Y == [X EXCEPT !.r = q]
<1>1. OnClose(X, d) = Issue(Y)
  <2>1. [c EXCEPT !.st[d] = "away", !.grant = g] = q
    <3> HIDE DEF c, g
    <3> QED OBVIOUS
  <2> QED BY <2>1 DEF OnClose
<1>2. r \in RelayStates /\ RelayOK(r) /\ r.queue \in Seq(Asks) /\ r.grant \in Asks \cup {None}
  BY XIs
<1>3. Cancelled(c, r, lost)
  <2> HIDE DEF lost
  <2> QED BY <1>2, CancelIs
<1>4. Y = [r |-> q, w |-> X.w]
  <2> HIDE DEF q
  <2> QED BY XIs
<1>5. \A p \in Queued(r, {d}) : \E k \in 1..Len(r.queue) : p = r.queue[k]
  BY <1>2 DEF Queued, ToSet
<1>6. \A p \in lost : \/ p = r.grant /\ r.grant # None
                      \/ \E k \in 1..Len(r.queue) : p = r.queue[k]
  BY <1>5
<1>7. g = None \/ (g = r.grant /\ g \notin lost)
  OBVIOUS
<1> HIDE DEF lost, c, g
<1>8. S \in [Devices -> {"active", "replaying", "away"}]
  BY <1>3 DEF Cancelled, RelayStates
<1> HIDE DEF S
<1>9. /\ q \in RelayStates /\ q.queue = c.queue /\ q.rec = c.rec /\ q.log = c.log
      /\ q.back = c.back /\ q.held = c.held /\ q.grant = g
  <2>1. /\ a \in RelayStates /\ a.queue = c.queue /\ a.rec = c.rec /\ a.log = c.log
        /\ a.back = c.back /\ a.held = c.held
    BY <1>3, <1>8 DEF RelayStates, Cancelled
  <2> HIDE DEF a
  <2>2. g \in Asks \cup {None}
    BY <1>2, <1>7
  <2> QED BY <2>1, <2>2 DEF RelayStates
<1> HIDE DEF q, Y
<1>10. /\ q.log = r.log /\ q.back = r.back /\ q.held = r.held
       /\ \A x \in Ids : q.rec[x] = IF \E p \in lost : p.id = x THEN "cancelled" ELSE r.rec[x]
  BY <1>3, <1>9 DEF Cancelled
<1>11. \A p \in lost : p.id \in Ids /\ r.rec[p.id] = "asked" /\ p.id <= count.ids
  <2>1. \A p \in lost : p \in Asks /\ r.rec[p.id] = "asked"
    BY <1>2, <1>6 DEF RelayOK, QueueOK, GrantOK
  <2> QED BY <1>2, <2>1 DEF RelayOK, Asks
<1>12. Small(r, q)
  BY <1>9, <1>10, <1>11 DEF Small
<1>13. /\ \A n \in 1..Len(q.queue) : \E k \in 1..Len(r.queue) :
            q.queue[n] = r.queue[k] /\ r.queue[k] \notin lost
       /\ \A m, n \in 1..Len(q.queue) : m # n =>
            \E j, k \in 1..Len(r.queue) : j # k /\ q.queue[m] = r.queue[j] /\ q.queue[n] = r.queue[k]
  <2> DEFINE T == ToSet(r.queue) \ lost
  <2>1. q.queue = Filter(r.queue, T)
    BY <1>3, <1>9 DEF Cancelled
  <2>2. \A x \in T : x \notin lost
    OBVIOUS
  <2> HIDE DEF T
  <2>3. From(q.queue, r.queue, T)
    BY <1>2, <2>1, FilterQueue
  <2> QED BY <2>2, <2>3 DEF From
<1>14. \A k \in 1..Len(r.queue) : r.queue[k] \notin lost =>
         r.queue[k].id \in Ids /\ ~ \E p \in lost : p.id = r.queue[k].id
  <2> SUFFICES ASSUME NEW k \in 1..Len(r.queue), r.queue[k] \notin lost,
                      NEW p \in lost, p.id = r.queue[k].id
               PROVE  FALSE
    BY QueueIds
  <2>1. CASE p = r.grant /\ r.grant # None
    BY <1>2, <2>1 DEF RelayOK, GrantOK
  <2>2. CASE \E j \in 1..Len(r.queue) : p = r.queue[j]
    BY <1>2, <2>2 DEF RelayOK, QueueOK
  <2> QED BY <1>6, <2>1, <2>2
<1>15. QueueOK(q)
  <2>1. \A n \in 1..Len(q.queue) : /\ q.rec[q.queue[n].id] = "asked"
                                   /\ sealed[q.queue[n].id] = None
                                   /\ q.back[q.queue[n].by] = <<>>
    <3> TAKE n \in 1..Len(q.queue)
    <3>1. PICK k \in 1..Len(r.queue) : q.queue[n] = r.queue[k] /\ r.queue[k] \notin lost
      BY <1>13
    <3>2. /\ r.rec[r.queue[k].id] = "asked" /\ sealed[r.queue[k].id] = None
          /\ r.back[r.queue[k].by] = <<>>
      BY <1>2 DEF RelayOK, QueueOK
    <3>3. q.rec[r.queue[k].id] = "asked"
      BY <1>10, <1>14, <3>1, <3>2
    <3> QED BY <1>10, <3>1, <3>2, <3>3
  <2>2. ASSUME NEW m \in 1..Len(q.queue), NEW n \in 1..Len(q.queue), m # n
        PROVE  q.queue[m].id # q.queue[n].id
    <3>1. PICK j \in 1..Len(r.queue), k \in 1..Len(r.queue) :
              j # k /\ q.queue[m] = r.queue[j] /\ q.queue[n] = r.queue[k]
      BY <1>13, <2>2
    <3> QED BY <1>2, <3>1 DEF RelayOK, QueueOK
  <2> QED BY <2>1, <2>2 DEF QueueOK
<1>16. GrantOK(q)
  <2> SUFFICES ASSUME q.grant # None PROVE GrantOK(q)
    BY DEF GrantOK
  <2>1. q.grant = r.grant /\ r.grant # None /\ r.grant \notin lost
    BY <1>7, <1>9
  <2>2. GrantOK(r) /\ r.grant.id \in Ids
    BY <1>2, <2>1 DEF RelayOK, Asks
  <2>3. ~ \E p \in lost : p.id = r.grant.id
    <3> SUFFICES ASSUME NEW p \in lost, p.id = r.grant.id PROVE FALSE
      OBVIOUS
    <3>1. \E k \in 1..Len(r.queue) : p = r.queue[k]
      BY <1>6, <2>1
    <3> QED BY <2>1, <2>2, <3>1 DEF GrantOK
  <2>4. q.rec[r.grant.id] = "asked"
    BY <1>10, <2>1, <2>2, <2>3 DEF GrantOK
  <2>5. \A n \in 1..Len(q.queue) : q.queue[n].id # r.grant.id
    <3>1. \A k \in 1..Len(r.queue) : r.queue[k].id # r.grant.id
      BY <2>1, <2>2 DEF GrantOK
    <3> QED BY <1>13, <3>1
  <2> QED BY <1>10, <2>1, <2>2, <2>4, <2>5 DEF GrantOK
<1>17. HeldOK(q)
  <2>1. r.held # 0 => r.held \in Ids /\ r.rec[r.held] = "held" /\ HeldOK(r)
    BY <1>2, XIs DEF RelayOK, HeldOK
  <2> QED BY <1>10, <1>11, <2>1 DEF HeldOK
<1>18. RelayOK(q)
  BY <1>2, <1>12, <1>15, <1>16, <1>17, SmallGood
<1>19. Later(r, q, 0)
  <2>1. \A x \in Ids :
         /\ r.rec[x] \in Refused => q.rec[x] \in Refused
         /\ r.rec[x] \in {"accepted", "rejected"} => q.rec[x] = r.rec[x]
         /\ r.rec[x] # "none" => q.rec[x] # "none"
         /\ r.rec[x] = "none" => q.rec[x] = "none"
    BY <1>10, <1>11 DEF Refused
  <2> QED BY <1>7, <1>9, <1>13, <2>1 DEF Later
<1>20. Leads(X, Y, 0)
  BY <1>4, <1>18, <1>19, Becoming
<1>21. Leads(Y, Issue(Y), 0)
  BY <1>20, IssueGood DEF Leads
<1> QED BY <1>1, <1>20, <1>21, LeadsLeads

-----------------------------------------------------------------------------
(* The steps of the relay.                                                   *)

(* The frames on their way to the relay, when the relay moves on.           *)
LEMMA WiresStay ==
  ASSUME NEW r, NEW q, NEW new, Later(r, q, new), NEW u, WiresOK(r, u),
         \A d \in Devices : \A n \in 1..Len(u[d]) : u[d][n].t = "request" => u[d][n].id # new
  PROVE  WiresOK(q, u)
<1>1. ASSUME NEW d \in Devices, NEW n \in 1..Len(u[d]) PROVE UpOK(q, d, dev[d], u[d][n])
  <2> DEFINE f == u[d][n]
  <2>1. f \in UpMsgs /\ UpOK(r, d, dev[d], f)
    BY DEF WiresOK, WireOK
  <2>2. f.t = "request" => f.id # new
    OBVIOUS
  <2> HIDE DEF f
  <2>3. f.t \in {"ack", "request"} => f.id \in Ids
    BY <2>1, MsgIs
  <2>4. f.t = "complete" /\ f.id # 0 => f.id \in Ids
    BY <2>1, MsgIs
  <2>5. f.t = "request" => q.rec[f.id] = "none"
    BY <2>1, <2>2, <2>3 DEF UpOK, Later
  <2>6. f.t = "ack" => DoneBy(q, dev[d], f.id)
    BY <2>1, <2>3, DoneStays DEF UpOK
  <2>7. f.t = "complete" /\ f.id # 0 => DoneBy(q, dev[d], f.id)
    BY <2>1, <2>4, DoneStays DEF UpOK
  <2> QED BY <2>1, <2>5, <2>6, <2>7 DEF UpOK, f
<1> QED BY <1>1 DEF WiresOK, WireOK

NotIn(v, f) ==
  f.t = "request" => \A e \in Devices : \A n \in 1..Len(v[e]) :
    v[e][n].t = "request" => v[e][n].id # f.id
(* The relay takes the first of them.                                       *)
LEMMA Popped ==
  ASSUME NEW r, NEW u, WiresOK(r, u), NEW d \in Devices, u[d] # <<>>,
         NEW v, v = [u EXCEPT ![d] = Tail(u[d])], NEW f, f = Head(u[d])
  PROVE  WiresOK(r, v) /\ f \in UpMsgs /\ UpOK(r, d, dev[d], f) /\ NotIn(v, f)
<1>1. /\ u = [e \in Devices |-> u[e]] /\ \A e \in Devices : WireOK(r, e, dev[e], u[e])
      /\ OnceOK(u)
  BY DEF WiresOK
<1>2. v = [e \in Devices |-> v[e]] /\ \A e \in Devices : v[e] = IF e = d THEN Tail(u[d]) ELSE u[e]
  BY <1>1
<1>3. \A e \in Devices : u[e] \in Seq(UpMsgs)
  BY <1>1 DEF WireOK
<1>4. /\ 1 \in 1..Len(u[d]) /\ u[d][1] = Head(u[d])
      /\ Tail(u[d]) \in Seq(UpMsgs) /\ Len(Tail(u[d])) = Len(u[d]) - 1
      /\ \A n \in 1..Len(Tail(u[d])) : n + 1 \in 1..Len(u[d]) /\ Tail(u[d])[n] = u[d][n + 1]
  BY <1>3
<1>5. v[d] = Tail(u[d])
  BY <1>2
<1>6. \A e \in Devices : v[e] \in Seq(UpMsgs)
  BY <1>2, <1>3, <1>4
<1>7. ASSUME NEW e \in Devices, NEW n \in 1..Len(v[e])
      PROVE  /\ (IF e = d THEN n + 1 ELSE n) \in 1..Len(u[e])
             /\ v[e][n] = u[e][IF e = d THEN n + 1 ELSE n]
  <2>1. CASE e = d
    BY <1>4, <1>5, <2>1
  <2>2. CASE e # d
    BY <1>2, <2>2
  <2> QED BY <2>1, <2>2
<1>8. ASSUME NEW e \in Devices PROVE WireOK(r, e, dev[e], v[e])
  <2>1. \A n \in 1..Len(u[e]) : UpOK(r, e, dev[e], u[e][n])
    BY <1>1 DEF WireOK
  <2> QED BY <1>6, <1>7, <2>1 DEF WireOK
<1>9. OnceOK(v)
  <2> SUFFICES ASSUME NEW a \in Devices, NEW e \in Devices, NEW m \in 1..Len(v[a]), NEW n \in 1..Len(v[e]),
                      v[a][m].t = "request", v[e][n].t = "request", v[e][n].id = v[a][m].id
               PROVE  a = e /\ m = n
    BY DEF OnceOK
  <2> DEFINE i == IF a = d THEN m + 1 ELSE m
             j == IF e = d THEN n + 1 ELSE n
  <2>1. i \in 1..Len(u[a]) /\ j \in 1..Len(u[e]) /\ v[a][m] = u[a][i] /\ v[e][n] = u[e][j]
    BY <1>7
  <2>2. a = e /\ i = j
    <3> HIDE DEF i, j
    <3>1. u[a][i].t = "request" /\ u[e][j].t = "request" /\ u[e][j].id = u[a][i].id
      BY <2>1
    <3>2. OnceOK(u) /\ i \in 1..Len(u[a]) /\ j \in 1..Len(u[e])
      BY <1>1, <2>1
    <3> QED BY <3>1, <3>2 DEF OnceOK
  <2> QED BY <2>2, <1>6
<1>10. ASSUME Head(u[d]).t = "request", NEW e \in Devices, NEW n \in 1..Len(v[e]),
              v[e][n].t = "request", v[e][n].id = Head(u[d]).id
       PROVE  FALSE
  <2> DEFINE j == IF e = d THEN n + 1 ELSE n
  <2>1. j \in 1..Len(u[e]) /\ v[e][n] = u[e][j]
    BY <1>7
  <2>2. e = d /\ j = 1
    <3> HIDE DEF j
    <3>1. u[d][1].t = "request" /\ u[e][j].t = "request" /\ u[e][j].id = u[d][1].id
      BY <1>4, <1>10, <2>1
    <3>2. OnceOK(u) /\ 1 \in 1..Len(u[d]) /\ j \in 1..Len(u[e])
      BY <1>1, <1>4, <2>1
    <3>3. d = e /\ 1 = j
      BY <3>1, <3>2 DEF OnceOK
    <3> QED BY <3>3
  <2> QED BY <2>2, <1>6
<1>11. WiresOK(r, v)
  BY <1>2, <1>8, <1>9 DEF WiresOK
<1>12. Head(u[d]) \in UpMsgs /\ UpOK(r, d, dev[d], Head(u[d]))
  BY <1>1, <1>3, <1>4 DEF WireOK
<1> QED BY <1>10, <1>11, <1>12 DEF NotIn

LEMMA NowIs ==
  ASSUME SInv
  PROVE  XOK(Now) /\ Now.r = relay /\ Now.w = down
<1>1. Now = [r |-> relay, w |-> down]
  BY DEF Now
<1> QED BY <1>1 DEF XOK, SInv

(* Every frame the relay handles.                                           *)
LEMMA OutcomeGood ==
  ASSUME TypeInv, NEW X, XOK(X), NEW d \in Devices, NEW f \in UpMsgs, UpOK(X.r, d, dev[d], f),
         NEW Y \in Outcomes(X, d, f)
  PROVE  Leads(X, Y, IF f.t = "request" THEN f.id ELSE 0)
<1>1. CASE f.t = "frame"
  <2>1. Y \in OnFrame(X, d, f.id) /\ f.id \in Ids /\ sealed[f.id] # None /\ sealed[f.id].by = d
    BY <1>1, MsgIs DEF Outcomes, UpOK
  <2>2. Leads(X, Y, 0)
    BY <2>1, FrameGood
  <2> QED BY <1>1, <2>2
<1>2. CASE f.t = "decide"
  <2>1. Y = OnDecision(X, f) /\ f.id \in Ids
    BY <1>2, MsgIs DEF Outcomes
  <2>2. Leads(X, Y, 0)
    BY <2>1, DecisionGood
  <2> QED BY <1>2, <2>2
<1>3. CASE f.t = "request"
  <2>1. Y = OnRequest(X, d, f.id) /\ f.id \in Ids /\ X.r.rec[f.id] = "none" /\ f.id <= count.ids
    BY <1>3, MsgIs DEF Outcomes, UpOK
  <2>2. Leads(X, Y, f.id)
    BY <2>1, RequestGood
  <2> QED BY <1>3, <2>2
<1>4. CASE f.t = "ack"
  <2>1. Y = OnAck(X, d, f.id) /\ f.id \in Ids /\ DoneBy(X.r, dev[d], f.id)
    BY <1>4, MsgIs DEF Outcomes, UpOK
  <2>2. Leads(X, Y, 0)
    BY <2>1, AckGood
  <2> QED BY <1>4, <2>2
<1>5. CASE f.t = "complete"
  <2>1. /\ Y = OnComplete(X, d, f.id) /\ f.id \in Ids \cup {0}
        /\ f.id # 0 => DoneBy(X.r, dev[d], f.id)
    BY <1>5, MsgIs DEF Outcomes, UpOK
  <2>2. Leads(X, Y, 0)
    BY <2>1, CompleteGood
  <2> QED BY <1>5, <2>2
<1>6. CASE f.t = "close"
  <2>1. Y = OnClose(X, d)
    BY <1>6 DEF Outcomes
  <2>2. Leads(X, Y, 0)
    BY <2>1, CloseGood
  <2> QED BY <1>6, <2>2
<1>7. f.t \in {"frame", "decide", "request", "ack", "complete", "close"}
  BY DEF UpMsgs
<1> QED BY <1>1, <1>2, <1>3, <1>4, <1>5, <1>6, <1>7

(* What the relay and the sockets become, with the engines as they were.     *)
LEMMA AfterGood ==
  ASSUME NEW q, RelayOK(q), NEW w, SocketsOK(q, w), NEW u, WiresOK(q, u),
         relay' = q, down' = w, up' = u, TypeInv', PendOK',
         UNCHANGED <<dev, sealed>>, count'.ids = count.ids
  PROVE  SInv'
<1>1. RelayOK(relay)'
  <2>1. LogOK(relay)' /\ QueueOK(relay)'
    BY DEF RelayOK, LogOK, QueueOK
  <2>2. GrantOK(relay)' /\ HeldOK(relay)'
    BY DEF RelayOK, GrantOK, HeldOK
  <2>3. OwnOK(relay)'
    BY DEF RelayOK, OwnOK, DoneBy
  <2>4. ASSUME NEW d \in Devices PROVE EngineOK(relay, d, dev[d])'
    BY DEF RelayOK, EngineOK, Sits
  <2>5. ASSUME NEW d \in Devices PROVE BackOK(relay, d, dev[d])'
    <3>1. BackOK(q, d, dev[d])
      BY DEF RelayOK
    <3>2. \A e : EntryOK(q, d, e) => EntryOK(relay, d, e)'
      BY DEF EntryOK
    <3> QED BY <3>1, <3>2 DEF BackOK
  <2> QED BY <2>1, <2>2, <2>3, <2>4, <2>5 DEF RelayOK
<1>2. SocketsOK(relay, down)'
  <2> SUFFICES ASSUME NEW d \in Devices PROVE SocketOK(relay, d, dev[d], down[d])'
    BY DEF SocketsOK
  <2>1. SocketOK(q, d, dev[d], w[d])
    BY DEF SocketsOK
  <2>2. \A n \in 1..Len(down'[d]) : DownOK(relay, d, down[d][n])'
    BY <2>1 DEF SocketOK, DownOK, EntryOK
  <2>3. EndOK(relay, dev[d], down[d])'
    BY <2>1 DEF SocketOK, EndOK, DoneBy
  <2> QED BY <2>1, <2>2, <2>3 DEF SocketOK
<1>3. WiresOK(relay, up)'
  BY DEF WiresOK, WireOK, OnceOK, UpOK, DoneBy
<1> QED BY <1>1, <1>2, <1>3 DEF SInv

(* The relay's new state takes the place of the old one.                    *)
LEMMA BecomesGood ==
  ASSUME SInv, NEW X, NEW new, Leads(Now, X, new), Becomes(X),
         NEW u, up' = u, WiresOK(relay, u),
         \A d \in Devices : \A n \in 1..Len(u[d]) : u[d][n].t = "request" => u[d][n].id # new,
         UNCHANGED <<dev, ses, sealed, count>>
  PROVE  SInv'
<1>1. RelayOK(X.r) /\ SocketsOK(X.r, X.w) /\ Later(relay, X.r, new)
  BY NowIs DEF Leads, XOK
<1>2. WiresOK(X.r, u)
  BY <1>1, WiresStay
<1>3. relay' = X.r /\ down' = X.w
  BY DEF Becomes
<1>4. TypeInv' /\ PendOK'
  BY DEF SInv, TypeInv, PendOK
<1>5. PICK q, w : q = X.r /\ w = X.w
  OBVIOUS
<1> QED BY <1>1, <1>2, <1>3, <1>4, <1>5, AfterGood

LEMMA RelayStepGood ==
  ASSUME SInv, NEW d \in Devices, Relay(d)
  PROVE  SInv'
<1>1. PICK X \in Outcomes(Now, d, Head(up[d])) : Becomes(X)
  BY DEF Relay
<1>2. PICK u : u = [up EXCEPT ![d] = Tail(up[d])]
  OBVIOUS
<1>3. /\ up' = u /\ UNCHANGED <<dev, ses, sealed, count>> /\ up[d] # <<>>
      /\ TypeInv /\ WiresOK(relay, up)
  BY <1>2 DEF Relay, SInv
<1> DEFINE f == Head(up[d])
<1>4. WiresOK(relay, u) /\ f \in UpMsgs /\ UpOK(relay, d, dev[d], f) /\ NotIn(u, f)
  <2> HIDE DEF f
  <2> QED BY <1>2, <1>3, Popped DEF f
<1> DEFINE new == IF f.t = "request" THEN f.id ELSE 0
<1>5. Leads(Now, X, new)
  <2> HIDE DEF f
  <2> QED BY <1>1, <1>3, <1>4, NowIs, OutcomeGood DEF f
<1>6. \A e \in Devices : \A n \in 1..Len(u[e]) : u[e][n].t = "request" => u[e][n].id # new
  <2> SUFFICES ASSUME NEW e \in Devices, NEW n \in 1..Len(u[e]), u[e][n].t = "request"
               PROVE  u[e][n].id # new
    OBVIOUS
  <2>1. u[e][n].id # 0
    <3>1. u[e][n] \in UpMsgs
      BY <1>4 DEF WiresOK, WireOK
    <3> QED BY <3>1, MsgIs DEF Ids
  <2> QED BY <1>4, <2>1 DEF NotIn
<1> HIDE DEF new
<1> QED BY <1>1, <1>3, <1>4, <1>5, <1>6, BecomesGood

LEMMA NoZero ==
  ASSUME SInv, NEW u, WiresOK(relay, u)
  PROVE  \A d \in Devices : \A n \in 1..Len(u[d]) : u[d][n].t = "request" => u[d][n].id # 0
<1>1. \A d \in Devices : \A n \in 1..Len(u[d]) : u[d][n] \in UpMsgs
  BY DEF WiresOK, WireOK
<1> QED BY <1>1, MsgIs DEF Ids

(* The alarm: a grant runs out, or a held frame.                            *)
LEMMA ExpireGood ==
  ASSUME SInv, ExpireGrant
  PROVE  SInv'
<1>1. TypeInv /\ WiresOK(relay, up) /\ relay.grant # None /\ Becomes(Issue(GrantLapsed(Now)))
      /\ UNCHANGED <<dev, ses, up, sealed, count>>
  BY DEF SInv, ExpireGrant
<1>2. Leads(Now, GrantLapsed(Now), 0)
  BY <1>1, NowIs, LapsedGood
<1>3. Leads(GrantLapsed(Now), Issue(GrantLapsed(Now)), 0)
  BY <1>1, <1>2, IssueGood DEF Leads
<1>4. Leads(Now, Issue(GrantLapsed(Now)), 0)
  BY <1>2, <1>3, NowIs, LeadsLeads
<1> QED BY <1>1, <1>4, NoZero, BecomesGood

LEMMA HeldGood ==
  ASSUME SInv, relay.held # 0
  PROVE  Leads(Now, HeldLapsed, 0)
<1>1. PICK Y : Y = [Now EXCEPT !.r.held = 0]
  OBVIOUS
<1>2. XOK(Now) /\ Now.r = relay /\ TypeInv
  BY NowIs DEF SInv
<1>3. Leads(Now, Y, 0) /\ Granting(Y, relay.held) /\ Y.r.rec[relay.held] = "held"
  BY <1>1, <1>2, HeldIs
<1>4. Leads(Y, Reject(Y, relay.held), 0)
  BY <1>2, <1>3, RejectGood DEF Leads
<1>5. Leads(Now, Reject(Y, relay.held), 0)
  BY <1>2, <1>3, <1>4, LeadsLeads
<1> QED BY <1>1, <1>5 DEF HeldLapsed

LEMMA ExpireHeldGood ==
  ASSUME SInv, ExpireHeld
  PROVE  SInv'
<1>1. WiresOK(relay, up) /\ relay.held # 0 /\ Becomes(HeldLapsed)
      /\ UNCHANGED <<dev, ses, up, sealed, count>>
  BY DEF SInv, ExpireHeld
<1> QED BY <1>1, HeldGood, NoZero, BecomesGood

LEMMA SwallowGood ==
  ASSUME SInv, NEW d \in Devices, Swallow(d)
  PROVE  SInv'
<1>1. PICK u : u = [up EXCEPT ![d] = Tail(up[d])]
  OBVIOUS
<1>2. WiresOK(relay, up) /\ relay.held # 0 /\ Becomes(HeldLapsed) /\ up[d] # <<>> /\ up' = u
      /\ UNCHANGED <<dev, ses, sealed, count>>
  BY <1>1 DEF SInv, Swallow
<1>3. WiresOK(relay, u)
  BY <1>1, <1>2, Popped
<1> QED BY <1>2, <1>3, HeldGood, NoZero, BecomesGood
-----------------------------------------------------------------------------
(* The steps of the devices.                                                 *)

(* The engine of d goes on to D: it keeps its place in the order or settles  *)
(* more of it, what it no longer waits for is done, and what it encrypts is  *)
(* for its grant.                                                            *)
Sealing(d, D) ==
  /\ \A x \in Ids : sealed[x] # None => sealed'[x] = sealed[x]
  /\ \A x \in Ids : sealed[x] = None /\ sealed'[x] # None =>
       /\ x = D.out /\ sealed'[x].by = d /\ sealed'[x].base <= Place(D)
       /\ x <= count.ids /\ relay.rec[x] # "none"
       /\ \A n \in 1..Len(relay.queue) : relay.queue[n].id # x
       /\ relay.grant # None /\ relay.grant.id = x => sealed'[x].base = Len(relay.log)
Forward(d, D) ==
  /\ D \in EngineStates
  /\ Place(dev[d]) <= Place(D)
  /\ dev[d].out \in {0, D.out} \/ DoneBy(relay, D, dev[d].out)
  /\ Sealing(d, D)

LEMMA PlaceInt ==
  \A D \in EngineStates : Place(D) \in Int /\ D.out \in Ids \cup {0} /\ D.applied \in Seq(Ids)
                          /\ Len(D.applied) \in Nat /\ D.gen \in Nat /\ D.gone \in BOOLEAN
  BY DEF Place, EngineStates

LEMMA SealedInt ==
  ASSUME TypeInv
  PROVE  \A x \in Ids : sealed[x] # None =>
           sealed[x] \in Frames /\ sealed[x].base \in Nat /\ sealed[x].by \in Devices
                                /\ sealed[x].kind \in Kinds /\ sealed[x].gen \in Nat
  BY DEF TypeInv, Frames

(* What was true of the relay's state and of the frames stays true when an  *)
(* engine goes forward.                                                     *)
LEMMA DoneKept ==
  ASSUME TypeInv, relay' = relay, NEW d \in Devices, NEW D, dev' = [dev EXCEPT ![d] = D],
         Forward(d, D), NEW e \in Devices, NEW x \in Ids, DoneBy(relay, dev[e], x)
  PROVE  DoneBy(relay, dev[e], x)'
<1>1. dev'[e] = IF e = d THEN D ELSE dev[e]
  BY DEF TypeInv
<1>2. sealed'[x] = sealed[x] /\ sealed[x] # None
  BY DEF Forward, Sealing, DoneBy
<1>3. Place(dev[e]) \in Int /\ Place(dev'[e]) \in Int /\ sealed[x].base \in Int
      /\ Place(dev[e]) <= Place(dev'[e])
  BY <1>1, <1>2, PlaceInt, SealedInt DEF TypeInv, Forward
<1>4. Place(dev[e])' = Place(dev'[e])
  BY DEF Place
<1> QED BY <1>2, <1>3, <1>4 DEF DoneBy

LEMMA EntryKept ==
  ASSUME relay' = relay, NEW d, NEW D, Forward(d, D), NEW e, NEW f \in Entries, EntryOK(relay, e, f)
  PROVE  EntryOK(relay, e, f)'
<1>1. f.id \in Ids
  BY MsgIs
<1>2. sealed'[f.id] = sealed[f.id]
  BY <1>1 DEF EntryOK, Forward, Sealing
<1> QED BY <1>2 DEF EntryOK

LEMMA LogsKept ==
  ASSUME TypeInv, RelayOK(relay), relay' = relay, NEW d, NEW D, Forward(d, D)
  PROVE  LogOK(relay)' /\ QueueOK(relay)' /\ GrantOK(relay)' /\ HeldOK(relay)'
<1>1. Sealing(d, D) /\ relay \in RelayStates
  BY DEF Forward, RelayOK
<1>2. relay.log \in Seq(Ids) /\ relay.queue \in Seq(Asks) /\ relay.grant \in Asks \cup {None}
      /\ relay.held \in Ids \cup {0}
  BY <1>1 DEF RelayStates
<1>3. LogOK(relay)'
  <2>1. \A n \in 1..Len(relay.log) : relay.log[n] \in Ids
    BY <1>2
  <2>2. LogOK(relay)
    BY DEF RelayOK
  <2>3. \A x \in Ids : sealed[x] # None => sealed'[x] = sealed[x]
    BY <1>1 DEF Sealing
  <2>4. \A n \in 1..Len(relay.log) : /\ sealed'[relay.log[n]] # None
                                     /\ sealed'[relay.log[n]].base = n - 1
                                     /\ relay.rec[relay.log[n]] = "accepted"
    BY <2>1, <2>2, <2>3 DEF LogOK
  <2>5. \A x \in Ids : relay.rec[x] = "accepted" =>
          /\ sealed'[x] # None /\ sealed'[x].base + 1 \in 1..Len(relay.log)
          /\ relay.log[sealed'[x].base + 1] = x
    BY <2>2, <2>3 DEF LogOK
  <2> QED BY <2>4, <2>5 DEF LogOK
<1>4. QueueOK(relay)'
  <2>1. \A n \in 1..Len(relay.queue) : relay.queue[n].id \in Ids
    <3>1. \A n \in 1..Len(relay.queue) : relay.queue[n] \in Asks
      BY <1>2
    <3> QED BY <3>1 DEF Asks
  <2>2. \A n \in 1..Len(relay.queue) : sealed'[relay.queue[n].id] = None
    BY <1>1, <2>1 DEF RelayOK, QueueOK, Sealing
  <2> QED BY <2>2 DEF RelayOK, QueueOK
<1>5. GrantOK(relay)'
  <2> SUFFICES ASSUME relay.grant # None PROVE GrantOK(relay)'
    BY DEF GrantOK
  <2>1. relay.grant.id \in Ids
    BY <1>2 DEF Asks
  <2>2. sealed'[relay.grant.id] # None => sealed'[relay.grant.id].base = Len(relay.log)
    BY <1>1, <2>1 DEF RelayOK, GrantOK, Sealing
  <2> QED BY <2>2 DEF RelayOK, GrantOK
<1>6. HeldOK(relay)'
  BY <1>1, <1>2 DEF RelayOK, HeldOK, Sealing
<1> QED BY <1>3, <1>4, <1>5, <1>6

(* What the senders know of their frames.                                   *)
LEMMA OwnKept ==
  ASSUME TypeInv, RelayOK(relay), relay' = relay, NEW d \in Devices, NEW D,
         dev' = [dev EXCEPT ![d] = D], Forward(d, D),
         count.ids \in Int, count'.ids \in Int, count.ids <= count'.ids
  PROVE  OwnOK(relay)'
<1> SUFFICES ASSUME NEW x \in Ids, sealed'[x] # None
             PROVE  /\ x <= count'.ids /\ relay.rec[x] # "none"
                    /\ sealed'[x].base <= Place(dev'[sealed'[x].by])
                    /\ dev'[sealed'[x].by].out = x \/ DoneBy(relay, dev[sealed[x].by], x)'
  <2>1. \A D1 : Place(D1)' = Place(D1')
    BY DEF Place
  <2> QED BY <2>1 DEF OwnOK, Place
<1>1. x \in Int
  BY SessionAssumption DEF Ids
<1>2. \A e \in Devices : dev'[e] = IF e = d THEN D ELSE dev[e]
  BY DEF TypeInv
<1>3. CASE sealed[x] = None
  <2>1. /\ x = D.out /\ sealed'[x].by = d /\ sealed'[x].base <= Place(D)
        /\ x <= count.ids /\ relay.rec[x] # "none"
    BY <1>3 DEF Forward, Sealing
  <2> QED BY <1>1, <1>2, <2>1
<1>4. CASE sealed[x] # None
  <2>1. sealed'[x] = sealed[x]
    BY <1>4 DEF Forward, Sealing
  <2> DEFINE by == sealed[x].by
  <2>2. /\ x <= count.ids /\ relay.rec[x] # "none" /\ sealed[x].base <= Place(dev[by])
        /\ dev[by].out = x \/ DoneBy(relay, dev[by], x)
    BY <1>4 DEF RelayOK, OwnOK
  <2>3. by \in Devices /\ sealed[x].base \in Int
    BY <1>4, SealedInt
  <2>4. Place(dev[by]) \in Int /\ Place(dev'[by]) \in Int /\ Place(dev[by]) <= Place(dev'[by])
    BY <1>2, <2>3, PlaceInt DEF TypeInv, Forward
  <2>5. ASSUME dev'[by].out # x PROVE DoneBy(relay, dev[sealed[x].by], x)'
    <3>1. CASE DoneBy(relay, dev[by], x)
      <4>1. PICK e \in Devices : e = by
        BY <2>3
      <4>2. DoneBy(relay, dev[e], x)'
        BY <3>1, <4>1, DoneKept
      <4>3. sealed'[x].by = e
        BY <2>1, <4>1
      <4> QED BY <4>2, <4>3 DEF DoneBy, Place
    <3>2. CASE dev[by].out = x
      <4>1. by = d
        BY <1>2, <2>3, <2>5, <3>2
      <4>2. x # 0 /\ dev'[by] = D
        BY <1>2, <2>3, <4>1 DEF Ids
      <4>3. DoneBy(relay, D, x)
        BY <2>5, <3>2, <4>1, <4>2 DEF Forward
      <4> QED BY <2>1, <4>2, <4>3 DEF DoneBy, Place
    <3> QED BY <2>2, <3>1, <3>2
  <2> QED BY <1>1, <2>1, <2>2, <2>3, <2>4, <2>5
<1> QED BY <1>3, <1>4

LEMMA EnginesKept ==
  ASSUME TypeInv, RelayOK(relay), relay' = relay, NEW d \in Devices, NEW D,
         dev' = [dev EXCEPT ![d] = D], Forward(d, D), EngineOK(relay, d, D)',
         NEW e \in Devices
  PROVE  EngineOK(relay, e, dev[e])' /\ BackOK(relay, e, dev[e])'
<1>1. dev'[e] = IF e = d THEN D ELSE dev[e]
  BY DEF TypeInv
<1>2. relay.back[e] \in Seq(Entries)
  BY DEF RelayOK, RelayStates
<1>3. Place(dev[e]) \in Int /\ Place(dev'[e]) \in Int /\ Place(dev[e]) <= Place(dev'[e])
  BY <1>1, PlaceInt DEF TypeInv, Forward
<1>4. EngineOK(relay, e, dev[e])'
  <2>1. CASE e = d
    BY <1>1, <2>1 DEF EngineOK, Sits, Place
  <2>2. CASE e # d
    <3>1. EngineOK(relay, e, dev[e]) /\ dev'[e] = dev[e]
      BY <1>1, <2>2 DEF RelayOK
    <3>2. dev[e].out # 0 => sealed'[dev[e].out] = sealed[dev[e].out]
      <4>1. dev[e].out \in Ids \cup {0}
        BY PlaceInt DEF TypeInv
      <4> QED BY <3>1, <4>1 DEF EngineOK, Sits, Forward, Sealing
    <3> QED BY <3>1, <3>2 DEF EngineOK, Sits, Place
  <2> QED BY <2>1, <2>2
<1>5. BackOK(relay, e, dev[e])'
  <2> DEFINE b == relay.back[e]
  <2>1. BackOK(relay, e, dev[e])
    BY DEF RelayOK
  <2>2. \A n \in 1..Len(b) : EntryOK(relay, e, b[n])' /\ sealed'[b[n].id] = sealed[b[n].id]
    <3> TAKE n \in 1..Len(b)
    <3>1. b[n] \in Entries /\ EntryOK(relay, e, b[n])
      BY <1>2, <2>1 DEF BackOK
    <3>2. b[n].id \in Ids /\ sealed[b[n].id] # None
      BY <3>1, MsgIs DEF EntryOK
    <3>3. sealed'[b[n].id] = sealed[b[n].id]
      BY <3>2 DEF Forward, Sealing
    <3> QED BY <3>1, <3>3 DEF EntryOK
  <2>3. \A k \in 1..Len(relay.log) : k > Place(dev'[e]) => \E n \in 1..Len(b) : b[n].id = relay.log[k]
    <3>1. \A k \in 1..Len(relay.log) : k > Place(dev'[e]) => k > Place(dev[e])
      BY <1>3
    <3> QED BY <2>1, <3>1 DEF BackOK
  <2>4. \A m, n \in 1..Len(b) : m < n =>
          /\ b[m].id # b[n].id
          /\ relay.rec[b[m].id] = "accepted" => sealed'[b[m].id].base < sealed'[b[n].id].base
    BY <2>1, <2>2 DEF BackOK
  <2>5. \A n \in 1..Len(b) : EntryOK(relay, e, b[n])'
    BY <2>2
  <2> QED BY <2>3, <2>4, <2>5, SMTT(20) DEF BackOK, EntryOK, Place
<1> QED BY <1>4, <1>5

LEMMA RelayKept ==
  ASSUME TypeInv, RelayOK(relay), relay' = relay, NEW d \in Devices, NEW D,
         dev' = [dev EXCEPT ![d] = D], Forward(d, D), EngineOK(relay, d, D)',
         count.ids \in Int, count'.ids \in Int, count.ids <= count'.ids
  PROVE  RelayOK(relay)'
<1>1. LogOK(relay)' /\ QueueOK(relay)' /\ GrantOK(relay)' /\ HeldOK(relay)' /\ OwnOK(relay)'
  BY LogsKept, OwnKept
<1>2. \A e \in Devices : EngineOK(relay, e, dev[e])' /\ BackOK(relay, e, dev[e])'
  BY EnginesKept
<1>3. relay' \in RelayStates
  BY DEF RelayOK
<1>4. \A x \in Ids : relay'.rec[x] # "none" => x <= count'.ids
  <2>1. \A x \in Ids : x \in Int
    BY SessionAssumption DEF Ids
  <2> QED BY <2>1 DEF RelayOK
<1> QED BY <1>1, <1>2, <1>3, <1>4 DEF RelayOK
(* The frames on their way to the devices.                                  *)
LEMMA SocketKept ==
  ASSUME TypeInv, relay' = relay, NEW d \in Devices, NEW D, dev' = [dev EXCEPT ![d] = D],
         Forward(d, D), NEW e \in Devices, NEW s, SocketOK(relay, e, dev[e], s)
  PROVE  SocketOK(relay, e, dev[e], s)'
<1>1. s \in Seq(DownMsgs)
  BY DEF SocketOK
<1>2. ASSUME NEW n \in 1..Len(s) PROVE DownOK(relay, e, s[n])'
  <2> DEFINE f == s[n]
  <2>1. f \in DownMsgs /\ DownOK(relay, e, f)
    BY <1>1 DEF SocketOK
  <2>2. f \in Entries => EntryOK(relay, e, f)'
    <3> HIDE DEF f
    <3> QED BY <2>1, EntryKept DEF DownOK
  <2> QED BY <2>1, <2>2 DEF DownOK
<1>3. ASSUME NEW n \in 1..Len(s), s[n].t = "end", s[n].id # 0
      PROVE  \/ DoneBy(relay, dev[e], s[n].id)'
             \/ \E m \in 1..(n - 1) : s[m] \in Entries /\ s[m].id = s[n].id
  <2>1. s[n].id \in Ids
    BY <1>1, <1>3, MsgIs
  <2>2. CASE DoneBy(relay, dev[e], s[n].id)
    BY <2>1, <2>2, DoneKept
  <2>3. CASE \E m \in 1..(n - 1) : s[m] \in Entries /\ s[m].id = s[n].id
    BY <2>3
  <2> QED BY <1>3, <2>2, <2>3 DEF SocketOK, EndOK
<1>4. EndOK(relay, dev[e], s)'
  BY <1>3 DEF EndOK
<1> QED BY <1>1, <1>2, <1>4 DEF SocketOK

LEMMA SocketsKept ==
  ASSUME TypeInv, relay' = relay, NEW d \in Devices, NEW D, dev' = [dev EXCEPT ![d] = D],
         Forward(d, D), SocketsOK(relay, down), NEW s, down' = [down EXCEPT ![d] = s],
         SocketOK(relay, d, dev[d], s)'
  PROVE  SocketsOK(relay, down)'
<1>1. down = [e \in Devices |-> down[e]]
  BY DEF SocketsOK
<1>2. down' = [e \in Devices |-> down'[e]] /\ \A e \in Devices : down'[e] = IF e = d THEN s ELSE down[e]
  BY <1>1
<1>3. ASSUME NEW e \in Devices PROVE SocketOK(relay, e, dev[e], down[e])'
  <2>1. CASE e = d
    <3>1. down'[e] = s
      BY <1>2, <2>1
    <3> QED BY <2>1, <3>1 DEF SocketOK, DownOK, EndOK
  <2>2. CASE e # d
    <3>1. PICK w : w = down[e]
      OBVIOUS
    <3>2. SocketOK(relay, e, dev[e], w)
      BY <3>1 DEF SocketsOK
    <3>3. SocketOK(relay, e, dev[e], w)'
      BY <3>2, SocketKept
    <3>4. down'[e] = w
      BY <1>2, <2>2, <3>1
    <3>5. \A n \in 1..Len(w) : DownOK(relay, e, w[n])'
      BY <3>3 DEF SocketOK
    <3>6. \A n \in 1..Len(down'[e]) : DownOK(relay, e, down[e][n])'
      BY <3>4, <3>5 DEF DownOK
    <3>7. EndOK(relay, dev[e], down[e])'
      <4>1. EndOK(relay, dev[e], w)'
        BY <3>3 DEF SocketOK
      <4> QED BY <3>4, <4>1, SMTT(20) DEF EndOK
    <3>8. down'[e] \in Seq(DownMsgs)
      BY <3>3, <3>4 DEF SocketOK
    <3> QED BY <3>6, <3>7, <3>8 DEF SocketOK
  <2> QED BY <2>1, <2>2
<1> QED BY <1>2, <1>3 DEF SocketsOK

(* The first frame is handled: an entry is done.                             *)
LEMMA TailGood ==
  ASSUME TypeInv, relay' = relay, NEW d \in Devices, NEW D, dev' = [dev EXCEPT ![d] = D],
         Forward(d, D), NEW w, w # <<>>, SocketOK(relay, d, dev[d], w),
         NEW f, f = Head(w), f \in Entries => DoneBy(relay, dev[d], f.id)'
  PROVE  SocketOK(relay, d, dev[d], Tail(w))'
<1> DEFINE s == Tail(w)
<1>1. SocketOK(relay, d, dev[d], w)'
  BY SocketKept
<1>2. w \in Seq(DownMsgs)
  BY DEF SocketOK
<1>3. /\ s \in Seq(DownMsgs) /\ Len(s) = Len(w) - 1 /\ Len(w) \in Nat /\ w[1] = f
      /\ \A n \in 1..Len(s) : n + 1 \in 1..Len(w) /\ s[n] = w[n + 1]
  BY <1>2
<1> HIDE DEF s
<1>4. \A n \in 1..Len(s) : DownOK(relay, d, s[n])'
  BY <1>1, <1>3 DEF SocketOK
<1>5. ASSUME NEW n \in 1..Len(s), s[n].t = "end", s[n].id # 0
      PROVE  \/ DoneBy(relay, dev[d], s[n].id)'
             \/ \E m \in 1..(n - 1) : s[m] \in Entries /\ s[m].id = s[n].id
  <2>1. n + 1 \in 1..Len(w) /\ s[n] = w[n + 1]
    BY <1>3
  <2>2. \/ DoneBy(relay, dev[d], w[n + 1].id)'
        \/ \E m \in 1..((n + 1) - 1) : w[m] \in Entries /\ w[m].id = w[n + 1].id
    BY <1>1, <1>5, <2>1 DEF SocketOK, EndOK
  <2>3. CASE \E m \in 1..((n + 1) - 1) : w[m] \in Entries /\ w[m].id = w[n + 1].id
    <3>1. PICK m \in 1..((n + 1) - 1) : w[m] \in Entries /\ w[m].id = w[n + 1].id
      BY <2>3
    <3>2. CASE m = 1
      BY <1>3, <2>1, <3>1, <3>2
    <3>3. CASE m # 1
      <4>1. m - 1 \in 1..(n - 1) /\ m - 1 \in 1..Len(s) /\ (m - 1) + 1 = m
        BY <3>1, <3>3, <1>3
      <4>2. s[m - 1] = w[m]
        BY <1>3, <4>1
      <4> QED BY <2>1, <3>1, <4>1, <4>2
    <3> QED BY <3>2, <3>3
  <2> QED BY <2>1, <2>2, <2>3
<1>6. EndOK(relay, dev[d], s)'
  BY <1>5 DEF EndOK
<1> QED BY <1>3, <1>4, <1>6 DEF SocketOK, s

LEMMA EmptyGood ==
  ASSUME NEW r, NEW d, NEW D
  PROVE  SocketOK(r, d, D, <<>>)
  BY DEF SocketOK, EndOK

(* What d sends at the end of a handler.                                     *)
SentOK(d, sent) ==
  /\ sent \in Seq(UpMsgs)
  /\ \A n \in 1..Len(sent) : UpOK(relay, d, dev[d], sent[n])'
  /\ \A n \in 1..Len(sent) : sent[n].t = "request" => sent[n].id > count.ids
  /\ \A m, n \in 1..Len(sent) : sent[m].t = "request" /\ sent[n].t = "request" => m = n

(* The frames on their way to the relay.                                    *)
LEMMA UpKept ==
  ASSUME TypeInv, relay' = relay, NEW d \in Devices, NEW D, dev' = [dev EXCEPT ![d] = D],
         Forward(d, D), count.ids \in Int, count'.ids \in Int, count.ids <= count'.ids,
         NEW e \in Devices, NEW f \in UpMsgs, UpOK(relay, e, dev[e], f)
  PROVE  UpOK(relay, e, dev[e], f)'
<1>1. /\ f.t \in {"frame", "ack", "request", "decide"} => f.id \in Ids
      /\ f.t = "complete" => f.id \in Ids \cup {0}
  BY MsgIs
<1>2. f.t = "frame" => sealed'[f.id] # None /\ sealed'[f.id].by = e
  BY <1>1 DEF UpOK, Forward, Sealing
<1>3. f.t = "ack" => DoneBy(relay, dev[e], f.id)'
  BY <1>1, DoneKept DEF UpOK
<1>4. f.t = "complete" /\ f.id # 0 => DoneBy(relay, dev[e], f.id)'
  BY <1>1, DoneKept DEF UpOK
<1>5. f.t = "request" => relay.rec[f.id] = "none" /\ f.id <= count'.ids
  <2>1. \A x \in Ids : x \in Int
    BY SessionAssumption DEF Ids
  <2> QED BY <1>1, <2>1 DEF UpOK
<1> QED BY <1>2, <1>3, <1>4, <1>5 DEF UpOK

LEMMA WiresKept ==
  ASSUME TypeInv, relay' = relay, NEW d \in Devices, NEW D, dev' = [dev EXCEPT ![d] = D],
         Forward(d, D), count.ids \in Int, count'.ids \in Int, count.ids <= count'.ids,
         WiresOK(relay, up), NEW sent, SentOK(d, sent), up' = [up EXCEPT ![d] = up[d] \o sent]
  PROVE  WiresOK(relay, up)'
<1>1. up = [e \in Devices |-> up[e]] /\ OnceOK(up) /\ \A e \in Devices : WireOK(relay, e, dev[e], up[e])
  BY DEF WiresOK
<1>2. PICK u : u = up'
  OBVIOUS
<1>3. u = [e \in Devices |-> u[e]] /\ \A e \in Devices : u[e] = IF e = d THEN up[d] \o sent ELSE up[e]
  BY <1>1, <1>2
<1>4. sent \in Seq(UpMsgs) /\ \A e \in Devices : up[e] \in Seq(UpMsgs)
  BY <1>1 DEF WireOK, SentOK
<1>5. /\ u[d] \in Seq(UpMsgs) /\ Len(u[d]) = Len(up[d]) + Len(sent)
      /\ Len(up[d]) \in Nat /\ Len(sent) \in Nat
      /\ \A n \in 1..Len(u[d]) :
           \/ n \in 1..Len(up[d]) /\ u[d][n] = up[d][n]
           \/ n - Len(up[d]) \in 1..Len(sent) /\ u[d][n] = sent[n - Len(up[d])]
  <2>1. u[d] = up[d] \o sent
    BY <1>3
  <2> QED BY <1>4, <2>1
<1>6. \A e \in Devices : \A n \in 1..Len(u[e]) :
         \/ n \in 1..Len(up[e]) /\ u[e][n] = up[e][n]
         \/ e = d /\ n - Len(up[d]) \in 1..Len(sent) /\ u[e][n] = sent[n - Len(up[d])]
  BY <1>3, <1>5
<1>7. \A e \in Devices : u[e] \in Seq(UpMsgs)
  BY <1>3, <1>4, <1>5
<1>8. ASSUME NEW e \in Devices, NEW n \in 1..Len(u[e]) PROVE UpOK(relay, e, dev[e], u[e][n])'
  <2>1. CASE n \in 1..Len(up[e]) /\ u[e][n] = up[e][n]
    <3>1. up[e][n] \in UpMsgs /\ UpOK(relay, e, dev[e], up[e][n])
      BY <1>1, <1>4, <2>1 DEF WireOK
    <3>2. PICK f \in UpMsgs : f = up[e][n]
      BY <3>1
    <3>3. UpOK(relay, e, dev[e], f)'
      BY <3>1, <3>2, UpKept
    <3> QED BY <2>1, <3>2, <3>3 DEF UpOK
  <2>2. CASE e = d /\ n - Len(up[d]) \in 1..Len(sent) /\ u[e][n] = sent[n - Len(up[d])]
    <3>1. PICK f : f = sent[n - Len(up[d])]
      OBVIOUS
    <3>2. UpOK(relay, d, dev[d], f)'
      BY <2>2, <3>1 DEF SentOK, UpOK
    <3> QED BY <2>2, <3>1, <3>2 DEF UpOK
  <2> QED BY <1>6, <2>1, <2>2
<1>9. ASSUME NEW e \in Devices, NEW n \in 1..Len(up[e]), up[e][n].t = "request"
      PROVE  up[e][n].id <= count.ids /\ up[e][n].id \in Int
  <2>1. up[e][n] \in UpMsgs /\ UpOK(relay, e, dev[e], up[e][n])
    BY <1>1, <1>4 DEF WireOK
  <2>2. up[e][n].id \in Ids
    BY <1>9, <2>1, MsgIs
  <2> QED BY <1>9, <2>1, <2>2, SessionAssumption DEF UpOK, Ids
<1>10. ASSUME NEW n \in 1..Len(sent), sent[n].t = "request"
       PROVE  sent[n].id > count.ids /\ sent[n].id \in Int
  <2>1. sent[n].id \in Ids
    BY <1>4, <1>10, MsgIs
  <2> QED BY <1>10, <2>1, SessionAssumption DEF SentOK, Ids
<1>11. OnceOK(u)
  <2> SUFFICES ASSUME NEW a \in Devices, NEW e \in Devices, NEW m \in 1..Len(u[a]), NEW n \in 1..Len(u[e]),
                      u[a][m].t = "request", u[e][n].t = "request", u[e][n].id = u[a][m].id
               PROVE  a = e /\ m = n
    BY DEF OnceOK
  <2>0. m \in Int /\ n \in Int /\ Len(up[d]) \in Int
    BY <1>5, <1>7
  <2>1. CASE m \in 1..Len(up[a]) /\ u[a][m] = up[a][m] /\ n \in 1..Len(up[e]) /\ u[e][n] = up[e][n]
    BY <1>1, <2>1 DEF OnceOK
  <2>2. CASE /\ m \in 1..Len(up[a]) /\ u[a][m] = up[a][m]
             /\ e = d /\ n - Len(up[d]) \in 1..Len(sent) /\ u[e][n] = sent[n - Len(up[d])]
    <3>1. up[a][m].t = "request" /\ sent[n - Len(up[d])].t = "request"
          /\ sent[n - Len(up[d])].id = up[a][m].id
      BY <2>2
    <3>2. up[a][m].id <= count.ids /\ up[a][m].id \in Int
      BY <1>9, <2>2, <3>1
    <3>3. sent[n - Len(up[d])].id > count.ids
      BY <1>10, <2>2, <3>1
    <3> QED BY <3>1, <3>2, <3>3
  <2>3. CASE /\ n \in 1..Len(up[e]) /\ u[e][n] = up[e][n]
             /\ a = d /\ m - Len(up[d]) \in 1..Len(sent) /\ u[a][m] = sent[m - Len(up[d])]
    <3>1. up[e][n].t = "request" /\ sent[m - Len(up[d])].t = "request"
          /\ up[e][n].id = sent[m - Len(up[d])].id
      BY <2>3
    <3>2. up[e][n].id <= count.ids /\ up[e][n].id \in Int
      BY <1>9, <2>3, <3>1
    <3>3. sent[m - Len(up[d])].id > count.ids
      BY <1>10, <2>3, <3>1
    <3> QED BY <3>1, <3>2, <3>3
  <2>4. CASE /\ e = d /\ n - Len(up[d]) \in 1..Len(sent) /\ u[e][n] = sent[n - Len(up[d])]
             /\ a = d /\ m - Len(up[d]) \in 1..Len(sent) /\ u[a][m] = sent[m - Len(up[d])]
    <3>1. m - Len(up[d]) = n - Len(up[d])
      BY <2>4 DEF SentOK
    <3> QED BY <2>0, <2>4, <3>1
  <2> QED BY <1>6, <2>1, <2>2, <2>3, <2>4
<1>12. ASSUME NEW e \in Devices PROVE WireOK(relay, e, dev[e], up[e])'
  <2>1. \A n \in 1..Len(u[e]) : UpOK(relay, e, dev[e], u[e][n])'
    BY <1>8
  <2>2. up'[e] = u[e] /\ u[e] \in Seq(UpMsgs)
    BY <1>2, <1>7
  <2> QED BY <2>1, <2>2 DEF WireOK, UpOK
<1>13. OnceOK(up)'
  BY <1>2, <1>11 DEF OnceOK
<1>14. up' = [e \in Devices |-> up'[e]]
  BY <1>2, <1>3
<1> QED BY <1>12, <1>13, <1>14 DEF WiresOK
(* A step of a device keeps the invariant, part by part.                    *)
LEMMA DeviceGood ==
  ASSUME SInv, TypeInv', PendOK', relay' = relay, NEW d \in Devices, NEW D,
         dev' = [dev EXCEPT ![d] = D], Forward(d, D), EngineOK(relay, d, D)',
         NEW s, down' = [down EXCEPT ![d] = s], SocketOK(relay, d, dev[d], s)',
         NEW sent, SentOK(d, sent), up' = [up EXCEPT ![d] = up[d] \o sent],
         count.ids <= count'.ids
  PROVE  SInv'
<1>1. /\ TypeInv /\ RelayOK(relay) /\ SocketsOK(relay, down) /\ WiresOK(relay, up)
      /\ count.ids \in Int /\ count'.ids \in Int
  BY SessionAssumption DEF SInv, TypeInv
<1>2. RelayOK(relay)'
  BY <1>1, RelayKept
<1>3. SocketsOK(relay, down)'
  BY <1>1, SocketsKept
<1>4. WiresOK(relay, up)'
  BY <1>1, WiresKept
<1> QED BY <1>2, <1>3, <1>4 DEF SInv

(* The grant a controller asks for, or has used.                             *)
Asked(d, S) ==
  /\ \A x \in Ids : sealed[x] = None /\ sealed'[x] # None =>
       ses[d].pend # None /\ x = ses[d].pend.id
  /\ \/ S.pend = None
     \/ S.pend = ses[d].pend /\ sealed' = sealed
     \/ S.pend.id = count.ids + 1 /\ count'.ids = count.ids + 1
(* Requests are new, and each of its own device.                            *)
LEMMA PendKept ==
  ASSUME SInv, NEW d \in Devices, NEW D, Forward(d, D), NEW S \in SessionStates,
         ses' = [ses EXCEPT ![d] = S], Asked(d, S),
         count'.ids \in Int, count.ids <= count'.ids
  PROVE  PendOK'
<1>1. /\ TypeInv /\ PendOK /\ RelayOK(relay) /\ MaxIds \in Nat /\ count.ids \in Int
  BY SessionAssumption DEF SInv, TypeInv
<1>2. \A e \in Devices : ses'[e] = IF e = d THEN S ELSE ses[e]
  BY <1>1 DEF TypeInv
<1>3. \A e \in Devices : ses[e].pend # None =>
        /\ ses[e].pend.id \in Ids /\ sealed[ses[e].pend.id] = None
        /\ ses[e].pend.id <= count.ids /\ ses[e].pend.id \in Int
  <2>1. \A e \in Devices : ses[e].pend # None => ses[e].pend.id \in Ids
    BY <1>1 DEF TypeInv, SessionStates, Pends
  <2> QED BY <1>1, <2>1 DEF PendOK, Ids
<1>4. S.pend # None => S.pend.id \in Ids /\ S.pend.id \in Int
  BY <1>1 DEF SessionStates, Pends, Ids
<1>5. \A x \in Ids : x > count.ids => sealed'[x] = None
  <2>1. \A x \in Ids : x > count.ids => sealed[x] = None
    BY <1>1 DEF RelayOK, OwnOK, Ids
  <2> QED BY <1>1, <2>1 DEF Forward, Sealing, Ids
<1>6. ASSUME S.pend # None
      PROVE  /\ sealed'[S.pend.id] = None /\ S.pend.id <= count'.ids
             /\ \A e \in Devices : e # d /\ ses[e].pend # None => ses[e].pend.id # S.pend.id
  <2>1. CASE S.pend = ses[d].pend /\ sealed' = sealed
    BY <1>1, <1>3, <1>6, <2>1 DEF PendOK
  <2>2. CASE S.pend.id = count.ids + 1 /\ count'.ids = count.ids + 1
    BY <1>1, <1>3, <1>4, <1>5, <1>6, <2>2
  <2> QED BY <1>6, <2>1, <2>2 DEF Asked
<1>7. \A e \in Devices : e # d /\ ses[e].pend # None =>
        sealed'[ses[e].pend.id] = None /\ ses[e].pend.id <= count'.ids
  BY <1>1, <1>3 DEF PendOK, Asked
<1>8. \A e \in Devices : ses'[e].pend # None =>
        sealed'[ses'[e].pend.id] = None /\ ses'[e].pend.id <= count'.ids
  BY <1>2, <1>6, <1>7
<1>9. \A a, e \in Devices : a # e /\ ses'[a].pend # None /\ ses'[e].pend # None =>
        ses'[a].pend.id # ses'[e].pend.id
  BY <1>1, <1>2, <1>6 DEF PendOK
<1> QED BY <1>8, <1>9 DEF PendOK

(* What a handler may send before it asks for a grant.                       *)
AnswersOK(d, fs) ==
  /\ fs \in Seq(UpMsgs)
  /\ \A n \in 1..Len(fs) : fs[n].t # "request" /\ UpOK(relay, d, dev[d], fs[n])'

(* What a device sends, by its shape.                                       *)
LEMMA UpNew ==
  /\ [t |-> "close"] \in UpMsgs
  /\ \A id \in Ids : /\ [t |-> "request", id |-> id] \in UpMsgs
                     /\ [t |-> "frame", id |-> id] \in UpMsgs
                     /\ [t |-> "ack", id |-> id] \in UpMsgs
                     /\ \A ok \in BOOLEAN : [t |-> "decide", id |-> id, ok |-> ok] \in UpMsgs
  /\ \A id \in Ids \cup {0} : [t |-> "complete", id |-> id] \in UpMsgs
  BY DEF UpMsgs

LEMMA OneMore ==
  ASSUME NEW d \in Devices, NEW fs, AnswersOK(d, fs), NEW f \in UpMsgs, UpOK(relay, d, dev[d], f)',
         f.t = "request" => f.id > count.ids
  PROVE  SentOK(d, Append(fs, f))
<1> DEFINE s == Append(fs, f)
<1>1. fs \in Seq(UpMsgs)
  BY DEF AnswersOK
<1>2. /\ s \in Seq(UpMsgs) /\ Len(s) = Len(fs) + 1 /\ Len(fs) \in Nat
      /\ \A n \in 1..Len(s) : (n = Len(fs) + 1 /\ s[n] = f) \/ (n \in 1..Len(fs) /\ s[n] = fs[n])
  <2>1. s \in Seq(UpMsgs) /\ Len(s) = Len(fs) + 1 /\ Len(fs) \in Nat
    BY <1>1
  <2>2. s[Len(fs) + 1] = f /\ \A n \in 1..Len(fs) : s[n] = fs[n]
    BY <1>1
  <2> HIDE DEF s
  <2>3. \A n \in 1..Len(s) : n = Len(fs) + 1 \/ n \in 1..Len(fs)
    BY <2>1
  <2> QED BY <2>1, <2>2, <2>3
<1> HIDE DEF s
<1>3. \A n \in 1..Len(s) : UpOK(relay, d, dev[d], s[n])'
  <2> TAKE n \in 1..Len(s)
  <2>1. CASE s[n] = f
    BY <2>1 DEF UpOK
  <2>2. CASE n \in 1..Len(fs) /\ s[n] = fs[n]
    <3>1. UpOK(relay, d, dev[d], fs[n])'
      BY <2>2 DEF AnswersOK
    <3> QED BY <2>2, <3>1 DEF UpOK
  <2> QED BY <1>2, <2>1, <2>2
<1>4. \A n \in 1..Len(s) : s[n].t = "request" => n = Len(fs) + 1 /\ s[n] = f
  BY <1>2 DEF AnswersOK
<1> QED BY <1>2, <1>3, <1>4 DEF SentOK, s

LEMMA NoMore ==
  ASSUME NEW d \in Devices, NEW fs, AnswersOK(d, fs)
  PROVE  SentOK(d, fs)
  BY DEF AnswersOK, SentOK

LEMMA NothingSent ==
  ASSUME NEW d \in Devices
  PROVE  SentOK(d, <<>>) /\ AnswersOK(d, <<>>)
  BY DEF SentOK, AnswersOK

(* The end of a handler: its engine, its frames and the request that        *)
(* follows.                                                                 *)
LEMMA FinishGood ==
  ASSUME SInv, NEW d \in Devices, NEW D, NEW S \in SessionStates, NEW fs, Finish(d, D, S, fs),
         relay' = relay, Forward(d, D), EngineOK(relay, d, D)', sealed' \in [Ids -> Frames \cup {None}],
         \/ S.pend = None
         \/ S.pend = ses[d].pend /\ sealed' = sealed,
         \A x \in Ids : sealed[x] = None /\ sealed'[x] # None =>
           ses[d].pend # None /\ x = ses[d].pend.id,
         AnswersOK(d, fs),
         NEW s, down' = [down EXCEPT ![d] = s], SocketOK(relay, d, dev[d], s)'
  PROVE  SInv'
<1>1. /\ TypeInv /\ PendOK /\ RelayOK(relay) /\ MaxIds \in Nat /\ count.ids \in 0..MaxIds
      /\ count \in [ids : 0..MaxIds, drops : Nat, resumes : Nat]
      /\ dev \in [Devices -> EngineStates] /\ ses \in [Devices -> SessionStates]
      /\ up = [e \in Devices |-> up[e]] /\ up[d] \in Seq(UpMsgs)
  BY SessionAssumption DEF SInv, TypeInv, WiresOK, WireOK
<1>2. D \in EngineStates
  BY DEF Forward
<1>a. PICK id : id = count.ids + 1
  OBVIOUS
<1>b. PICK pump \in BOOLEAN : pump <=> Pumps(D, S)
  OBVIOUS
<1> DEFINE P == [S EXCEPT !.pend = [id |-> id, kind |-> Head(S.todo)], !.todo = Tail(S.todo)]
           T == CASE D.gone -> Offline [] pump -> P [] OTHER -> S
           m == CASE D.gone -> Append(fs, [t |-> "close"])
                  [] pump   -> Append(fs, [t |-> "request", id |-> id])
                  [] OTHER  -> fs
           sent == IF S.open THEN m ELSE <<>>
<1>3. pump => id \in Ids /\ id \in 0..MaxIds /\ S.todo # <<>> /\ ~ D.gone
  BY <1>1, <1>a, <1>b DEF Pumps, Ids
<1>4. /\ dev' = [dev EXCEPT ![d] = D] /\ ses' = [ses EXCEPT ![d] = T]
      /\ up' = [up EXCEPT ![d] = IF S.open THEN up[d] \o m ELSE up[d]]
      /\ count' = [count EXCEPT !.ids = IF pump THEN id ELSE count.ids]
  <2>1. /\ dev' = [dev EXCEPT ![d] = D]
        /\ ses' = [ses EXCEPT ![d] = CASE D.gone -> Offline [] Pumps(D, S) -> P [] OTHER -> S]
        /\ up' = [up EXCEPT ![d] =
             IF S.open
             THEN up[d] \o (CASE D.gone -> Append(fs, [t |-> "close"])
                              [] Pumps(D, S) -> Append(fs, [t |-> "request", id |-> id])
                              [] OTHER -> fs)
             ELSE up[d]]
        /\ count' = [count EXCEPT !.ids = IF Pumps(D, S) THEN id ELSE count.ids]
    BY <1>a DEF Finish
  <2> QED BY <1>b, <2>1
<1>5. /\ count' \in [ids : 0..MaxIds, drops : Nat, resumes : Nat]
      /\ count'.ids = IF pump THEN count.ids + 1 ELSE count.ids
      /\ count.ids <= count'.ids /\ count'.ids \in Int
  BY <1>1, <1>3, <1>4, <1>a
<1>6. /\ P \in SessionStates \/ ~ pump
      /\ P.pend.id = id
  <2>1. S.todo \in Seq(Kinds) /\ S.pend \in Pends
    BY DEF SessionStates
  <2>2. pump => Head(S.todo) \in Kinds /\ Tail(S.todo) \in Seq(Kinds)
    BY <1>3, <2>1
  <2>3. pump => [id |-> id, kind |-> Head(S.todo)] \in Pends
    BY <1>3, <2>2 DEF Pends
  <2> DEFINE x == [id |-> id, kind |-> Head(S.todo)]
             y == Tail(S.todo)
  <2>4. x.id = id
    OBVIOUS
  <2> HIDE DEF x, y
  <2>5. x \in Pends /\ y \in Seq(Kinds) =>
          [S EXCEPT !.pend = x, !.todo = y] \in SessionStates
    BY DEF SessionStates
  <2>6. [S EXCEPT !.pend = x, !.todo = y].pend = x
    BY DEF SessionStates
  <2> QED BY <2>2, <2>3, <2>4, <2>5, <2>6 DEF x, y
<1>7. Offline \in SessionStates /\ Offline.pend = None
  <2>1. None \in Pends /\ <<>> \in Seq(Kinds)
    BY DEF Pends
  <2> QED BY <2>1 DEF Offline, SessionStates
<1> HIDE DEF P
<1>8. T \in SessionStates
  BY <1>6, <1>7
<1>9. Asked(d, T)
  <2>1. T.pend = None \/ T.pend = S.pend \/ (pump /\ T.pend.id = id)
    <3>1. D.gone \in BOOLEAN
      BY <1>2 DEF EngineStates
    <3>2. CASE D.gone
      BY <1>3, <1>7, <3>2
    <3>3. CASE ~ D.gone /\ pump
      BY <1>6, <3>3
    <3>4. CASE ~ D.gone /\ ~ pump
      BY <3>4
    <3> QED BY <3>1, <3>2, <3>3, <3>4
  <2> HIDE DEF T
  <2> QED BY <1>5, <1>a, <2>1 DEF Asked
<1> HIDE DEF T
<1>10. PendOK'
  BY <1>4, <1>5, <1>8, <1>9, PendKept
<1>11. TypeInv'
  BY <1>1, <1>2, <1>4, <1>5, <1>8 DEF TypeInv
<1>12. SentOK(d, sent)
  <2>1. CASE ~ S.open
    BY <2>1, NothingSent
  <2>2. CASE D.gone
    <3> DEFINE f == [t |-> "close"]
    <3>1. f \in UpMsgs /\ f.t = "close" /\ UpOK(relay, d, dev[d], f)'
      BY UpNew DEF UpOK
    <3> HIDE DEF f
    <3>2. SentOK(d, Append(fs, f))
      BY <3>1, OneMore
    <3>3. m = Append(fs, f)
      BY <1>3, <2>2 DEF f
    <3> HIDE DEF m
    <3> QED BY <2>1, <3>2, <3>3
  <2>3. CASE pump
    <3> DEFINE f == [t |-> "request", id |-> id]
    <3>1. f \in UpMsgs /\ f.t = "request" /\ f.id = id
      BY <1>3, <2>3, UpNew
    <3>2. relay.rec[id] = "none"
      BY <1>1, <1>3, <1>a, <2>3 DEF RelayOK
    <3> HIDE DEF f
    <3>3. f.id > count.ids /\ f.id = count'.ids
      BY <1>1, <1>5, <1>a, <2>3, <3>1
    <3>4. relay'.rec[f.id] = "none" /\ f.id <= count'.ids
      BY <1>5, <3>1, <3>2, <3>3
    <3>5. UpOK(relay, d, dev[d], f)'
      BY <3>1, <3>4 DEF UpOK
    <3>6. SentOK(d, Append(fs, f))
      BY <3>1, <3>3, <3>5, OneMore
    <3>7. m = Append(fs, f)
      BY <1>3, <2>3 DEF f
    <3> HIDE DEF m
    <3> QED BY <2>1, <3>6, <3>7
  <2>4. CASE ~ D.gone /\ ~ pump
    BY <2>1, <2>4, NoMore
  <2> QED BY <2>1, <2>2, <2>3, <2>4
<1>13. up' = [up EXCEPT ![d] = up[d] \o sent]
  <2> HIDE DEF m
  <2>1. up[d] \o <<>> = up[d]
    BY <1>1
  <2> QED BY <1>4, <2>1
<1> HIDE DEF sent
<1> QED BY <1>4, <1>5, <1>10, <1>11, <1>12, <1>13, DeviceGood
-----------------------------------------------------------------------------
(* The engines: what an answer or another's frame makes of a state.          *)
Moved(d, D) ==
  /\ D \in EngineStates
  /\ Place(dev[d]) <= Place(D)
  /\ dev[d].out \in {0, D.out} \/ DoneBy(relay, D, dev[d].out)
  /\ EngineOK(relay, d, D)

(* The engine of a device, and its type.                                    *)
LEMMA DevIs ==
  ASSUME SInv, NEW d \in Devices
  PROVE  /\ dev[d] \in EngineStates /\ EngineOK(relay, d, dev[d]) /\ BackOK(relay, d, dev[d])
         /\ dev[d].applied \in Seq(Ids) /\ dev[d].out \in Ids \cup {0} /\ dev[d].gen \in Nat
         /\ dev[d].gone \in BOOLEAN /\ Place(dev[d]) \in Int /\ Len(dev[d].applied) \in Nat
         /\ relay \in RelayStates /\ relay.log \in Seq(Ids) /\ LogOK(relay) /\ RelayOK(relay)
         /\ dev = [e \in Devices |-> dev[e]] /\ TypeInv
  BY PlaceInt DEF SInv, TypeInv, RelayOK, RelayStates

LEMMA StaysGood ==
  ASSUME SInv, NEW d \in Devices, NEW D, D = dev[d]
  PROVE  Moved(d, D)
  BY DevIs DEF Moved

(* acknowledgeOutbound: what was accepted is settled.                       *)
LEMMA AckedGood ==
  ASSUME SInv, NEW d \in Devices, NEW id \in Ids, dev[d].out = id, relay.rec[id] = "accepted",
         NEW D, D = Acknowledged(dev[d])
  PROVE  Moved(d, D) /\ DoneBy(relay, D, id)
<1>1. id # 0
  BY DEF Ids
<1>2. /\ D \in EngineStates /\ D.out = 0 /\ D.applied = dev[d].applied /\ D.gone = dev[d].gone
  BY DevIs DEF Acknowledged, EngineStates
<1> DEFINE n == Len(dev[d].applied)
<1>3. Place(D) = n /\ Place(dev[d]) = n - 1 /\ n \in Nat
  BY <1>1, <1>2, DevIs DEF Place
<1>4. /\ n > 0 /\ dev[d].applied[n] = id /\ sealed[id] # None /\ sealed[id].by = d
      /\ sealed[id].base = n - 1
  BY <1>1, DevIs DEF EngineOK, Sits
<1>5. n \in 1..Len(relay.log) /\ relay.log[n] = id
  <2>1. sealed[id].base + 1 = n
    BY <1>3, <1>4
  <2> HIDE DEF n
  <2> QED BY <1>4, <2>1, DevIs DEF LogOK
<1>6. ~ D.gone
  BY <1>2, DevIs DEF EngineOK, Refused
<1>7. EngineOK(relay, d, D)
  <2>1. ASSUME NEW k \in 1..n PROVE D.applied[k] = relay.log[k]
    <3>1. CASE k = n
      BY <1>2, <1>4, <1>5, <3>1
    <3>2. CASE k \in 1..(n - 1)
      BY <1>2, <1>3, <3>2, DevIs DEF EngineOK
    <3> QED BY <1>3, <3>1, <3>2
  <2>2. n <= Len(relay.log)
    BY <1>5
  <2> HIDE DEF n
  <2> QED BY <1>2, <1>3, <1>6, <2>1, <2>2 DEF EngineOK, Sits
<1>8. DoneBy(relay, D, id)
  <2> HIDE DEF n
  <2> QED BY <1>3, <1>4 DEF DoneBy
<1> QED BY <1>2, <1>3, <1>7, <1>8 DEF Moved

(* rejectOutbound: what was refused is taken back.                          *)
LEMMA RewoundGood ==
  ASSUME SInv, NEW d \in Devices, NEW id \in Ids, dev[d].out = id, relay.rec[id] \in Refused,
         NEW D, D = Rewound(dev[d])
  PROVE  Moved(d, D) /\ DoneBy(relay, D, id)
<1> DEFINE n == Len(dev[d].applied)
<1>1. /\ id # 0 /\ n > 0 /\ dev[d].applied[n] = id /\ sealed[id] # None /\ sealed[id].by = d
      /\ sealed[id].base = n - 1 /\ Place(dev[d]) = n - 1 /\ n \in Nat
      /\ Place(dev[d]) <= Len(relay.log)
      /\ \A k \in 1..Place(dev[d]) : dev[d].applied[k] = relay.log[k]
      /\ dev[d].gone => sealed[id].kind = "update"
  BY DevIs DEF EngineOK, Sits, Ids, Place
<1>2. CASE sealed[id].kind = "update"
  <2>1. D = [dev[d] EXCEPT !.gone = TRUE]
    BY <1>2 DEF Rewound
  <2>2. /\ D \in EngineStates /\ D.out = id /\ D.applied = dev[d].applied /\ D.gone = TRUE
    BY <2>1, DevIs DEF EngineStates
  <2>3. Place(D) = n - 1
    BY <1>1, <2>2 DEF Place
  <2> HIDE DEF n
  <2>4. EngineOK(relay, d, D)
    <3>1. Sits(d, D)
      BY <1>1, <2>2 DEF Sits, n
    <3> QED BY <1>1, <1>2, <2>2, <2>3, <3>1 DEF EngineOK
  <2>5. DoneBy(relay, D, id)
    BY <1>1, <2>3 DEF DoneBy
  <2> QED BY <1>1, <2>2, <2>3, <2>4, <2>5 DEF Moved
<1>3. CASE sealed[id].kind # "update"
  <2>1. D = [dev[d] EXCEPT !.applied = Front(dev[d].applied), !.out = 0]
    BY <1>3 DEF Rewound
  <2> DEFINE a == Front(dev[d].applied)
  <2>2. /\ a \in Seq(Ids) /\ Len(a) = n - 1 /\ \A k \in 1..(n - 1) : a[k] = dev[d].applied[k]
    BY <1>1, DevIs DEF Front
  <2> HIDE DEF a, n
  <2>3. /\ D \in EngineStates /\ D.out = 0 /\ D.applied = a /\ D.gone = dev[d].gone
    BY <2>1, <2>2, DevIs DEF EngineStates, a
  <2>4. Place(D) = n - 1 /\ ~ D.gone
    BY <1>1, <1>3, <2>2, <2>3 DEF Place
  <2>5. EngineOK(relay, d, D)
    BY <1>1, <2>2, <2>3, <2>4 DEF EngineOK, Sits
  <2>6. DoneBy(relay, D, id)
    BY <1>1, <2>4 DEF DoneBy
  <2> QED BY <1>1, <2>3, <2>4, <2>5, <2>6 DEF Moved
<1> QED BY <1>2, <1>3

(* receive: the next frame of the order is settled.                         *)
LEMMA ReceivedGood ==
  ASSUME SInv, NEW d \in Devices, NEW id \in Ids, relay.rec[id] = "accepted", sealed[id].by # d,
         Knows(dev[d], id) \/ IsNext(dev[d], id), NEW D, D = Received(dev[d], id)
  PROVE  Moved(d, D) /\ DoneBy(relay, D, id)
<1> DEFINE n == Len(dev[d].applied)
<1>1. /\ sealed[id] # None /\ sealed[id].base \in Nat /\ sealed[id].base + 1 \in 1..Len(relay.log)
      /\ relay.log[sealed[id].base + 1] = id /\ n \in Nat
  BY DevIs, SealedInt DEF LogOK
<1>2. CASE Knows(dev[d], id)
  <2>1. D = dev[d]
    BY <1>2 DEF Received
  <2>2. PICK k \in 1..n : dev[d].applied[k] = id
    BY <1>2, DevIs DEF Knows, ToSet
  <2>3. k <= Place(dev[d])
    <3> SUFFICES ASSUME k > Place(dev[d]) PROVE FALSE
      BY DevIs
    <3>1. dev[d].out # 0 /\ k = n
      BY <1>1, <2>2 DEF Place
    <3> QED BY <2>2, <3>1, DevIs DEF EngineOK, Sits
  <2>4. k \in 1..Len(relay.log) /\ relay.log[k] = id
    <3>1. k \in 1..Place(dev[d])
      BY <2>2, <2>3, DevIs
    <3>2. Place(dev[d]) <= Len(relay.log) /\ dev[d].applied[k] = relay.log[k]
      BY <3>1, DevIs DEF EngineOK
    <3> QED BY <2>2, <3>1, <3>2, DevIs
  <2>5. sealed[id].base = k - 1
    BY <2>4, DevIs DEF LogOK
  <2>6. sealed[id].base < Place(D)
    BY <2>1, <2>2, <2>3, <2>5, DevIs
  <2>7. DoneBy(relay, D, id)
    BY <1>1, <2>1, <2>6, DevIs DEF DoneBy
  <2> QED BY <2>1, <2>7, StaysGood
<1>3. CASE ~ Knows(dev[d], id)
  <2>1. /\ dev[d].out = 0 /\ sealed[id].base = n
        /\ D = [dev[d] EXCEPT !.applied = Append(dev[d].applied, id)]
    BY <1>3 DEF Received, IsNext, Idle
  <2> DEFINE a == Append(dev[d].applied, id)
  <2>2. /\ a \in Seq(Ids) /\ Len(a) = n + 1 /\ a[n + 1] = id
        /\ \A k \in 1..n : a[k] = dev[d].applied[k]
    BY DevIs
  <2>3. Place(dev[d]) = n
    BY <2>1 DEF Place
  <2> HIDE DEF a, n
  <2>4. /\ D \in EngineStates /\ D.out = 0 /\ D.applied = a /\ D.gone = dev[d].gone
    BY <2>1, <2>2, DevIs DEF EngineStates, a
  <2>5. Place(D) = n + 1 /\ ~ D.gone
    BY <2>1, <2>2, <2>4, DevIs DEF Place, EngineOK
  <2>6. n + 1 \in 1..Len(relay.log) /\ relay.log[n + 1] = id
    BY <1>1, <2>1
  <2>7. EngineOK(relay, d, D)
    <3>1. \A k \in 1..n : dev[d].applied[k] = relay.log[k]
      BY <2>3, DevIs DEF EngineOK
    <3>2. \A k \in 1..(n + 1) : D.applied[k] = relay.log[k]
      BY <1>1, <2>2, <2>4, <2>6, <3>1
    <3> QED BY <2>4, <2>5, <2>6, <3>2 DEF EngineOK, Sits
  <2>8. DoneBy(relay, D, id)
    BY <1>1, <2>1, <2>5 DEF DoneBy
  <2> QED BY <1>1, <2>1, <2>3, <2>4, <2>5, <2>7, <2>8 DEF Moved
<1> QED BY <1>2, <1>3

LEMMA MovedForward ==
  ASSUME NEW d, NEW D, Moved(d, D), UNCHANGED <<relay, sealed>>
  PROVE  Forward(d, D) /\ EngineOK(relay, d, D)'
<1>1. Forward(d, D)
  BY DEF Moved, Forward, Sealing
<1>2. EngineOK(relay, d, D)'
  BY DEF Moved, EngineOK, Sits, Place
<1> QED BY <1>1, <1>2

(* The end of a handler of the frame that came first.                        *)
Handled(d) ==
  /\ down[d] # <<>>
  /\ down' = [down EXCEPT ![d] = IF ses'[d].pc = "off" THEN <<>> ELSE Tail(down[d])]
Replies(d, D, fs) ==
  /\ fs \in Seq(UpMsgs)
  /\ \A n \in 1..Len(fs) : fs[n].t # "request" /\ UpOK(relay, d, D, fs[n])

LEMMA RepliesAnswer ==
  ASSUME SInv, NEW d \in Devices, NEW D, NEW fs, Replies(d, D, fs),
         dev' = [dev EXCEPT ![d] = D], UNCHANGED <<relay, sealed>>
  PROVE  AnswersOK(d, fs)
<1>1. dev'[d] = D
  BY DevIs
<1>2. ASSUME NEW n \in 1..Len(fs) PROVE fs[n].t # "request" /\ UpOK(relay, d, dev[d], fs[n])'
  <2>1. fs[n].t # "request" /\ UpOK(relay, d, D, fs[n])
    BY DEF Replies
  <2> QED BY <1>1, <2>1 DEF UpOK, DoneBy, Place
<1> QED BY <1>2 DEF Replies, AnswersOK

LEMMA LeftGood ==
  ASSUME SInv, NEW d \in Devices, NEW D, dev' = [dev EXCEPT ![d] = D], relay' = relay,
         Forward(d, D), Handled(d), NEW f, f = Head(down[d]),
         f \in Entries /\ ses'[d].pc # "off" => DoneBy(relay, dev[d], f.id)'
  PROVE  \E s : down' = [down EXCEPT ![d] = s] /\ SocketOK(relay, d, dev[d], s)'
<1>1. CASE ses'[d].pc = "off"
  <2>1. down' = [down EXCEPT ![d] = <<>>]
    BY <1>1 DEF Handled
  <2>2. SocketOK(relay, d, dev[d], <<>>)'
    BY DEF SocketOK, EndOK
  <2> QED BY <2>1, <2>2
<1>2. CASE ses'[d].pc # "off"
  <2>1. PICK w : w = down[d]
    OBVIOUS
  <2>2. PICK s : s = Tail(w)
    OBVIOUS
  <2>3. SocketOK(relay, d, dev[d], w) /\ TypeInv /\ w # <<>>
    BY <2>1 DEF SInv, SocketsOK, Handled
  <2>4. SocketOK(relay, d, dev[d], Tail(w))'
    BY <1>2, <2>1, <2>3, TailGood
  <2>5. SocketOK(relay, d, dev[d], s)'
    BY <2>2, <2>4
  <2>6. down' = [down EXCEPT ![d] = s]
    BY <1>2, <2>1, <2>2 DEF Handled
  <2> QED BY <2>5, <2>6
<1> QED BY <1>1, <1>2

(* A handler that seals nothing.                                            *)
LEMMA HandledGood ==
  ASSUME SInv, NEW d \in Devices, NEW D, NEW S \in SessionStates, NEW fs, Finish(d, D, S, fs),
         UNCHANGED <<relay, sealed>>, Moved(d, D), S.pend = None \/ S.pend = ses[d].pend,
         Replies(d, D, fs), Handled(d),
         NEW f, f = Head(down[d]), f \in Entries => DoneBy(relay, D, f.id)
  PROVE  SInv'
<1>1. dev' = [dev EXCEPT ![d] = D] /\ relay' = relay /\ sealed' = sealed
  BY DEF Finish
<1>2. Forward(d, D) /\ EngineOK(relay, d, D)'
  BY MovedForward
<1>3. AnswersOK(d, fs)
  BY <1>1, RepliesAnswer
<1>4. f \in Entries => DoneBy(relay, dev[d], f.id)'
  <2>1. dev'[d] = D
    BY <1>1, DevIs
  <2> QED BY <1>1, <2>1 DEF DoneBy, Place
<1>5. PICK s : down' = [down EXCEPT ![d] = s] /\ SocketOK(relay, d, dev[d], s)'
  BY <1>1, <1>2, <1>4, LeftGood
<1>6. sealed' \in [Ids -> Frames \cup {None}]
  BY DevIs DEF TypeInv
<1> QED BY <1>1, <1>2, <1>3, <1>5, <1>6, FinishGood

LEMMA SessionIs ==
  ASSUME SInv, NEW d \in Devices
  PROVE  /\ ses[d] \in SessionStates /\ ses = [e \in Devices |-> ses[e]]
         /\ Offline \in SessionStates /\ Offline.pend = None /\ Offline.pc = "off"
<1>1. ses[d] \in SessionStates /\ ses = [e \in Devices |-> ses[e]]
  BY DEF SInv, TypeInv
<1>2. None \in Pends /\ <<>> \in Seq(Kinds)
  BY DEF Pends
<1> QED BY <1>1, <1>2 DEF Offline, SessionStates

(* A frame that is ignored.                                                 *)
LEMMA IgnoredGood ==
  ASSUME SInv, NEW d \in Devices, UNCHANGED <<dev, ses, up, count, relay, sealed>>, Handled(d),
         NEW f, f = Head(down[d]), f \in Entries => DoneBy(relay, dev[d], f.id)
  PROVE  SInv'
<1>1. PICK D : D = dev[d]
  OBVIOUS
<1>2. Moved(d, D) /\ dev' = [dev EXCEPT ![d] = D]
  BY <1>1, DevIs, StaysGood
<1>3. Forward(d, D) /\ EngineOK(relay, d, D)'
  BY <1>2, MovedForward
<1>4. f \in Entries => DoneBy(relay, dev[d], f.id)'
  BY DEF DoneBy, Place
<1>5. PICK s : down' = [down EXCEPT ![d] = s] /\ SocketOK(relay, d, dev[d], s)'
  BY <1>2, <1>3, <1>4, LeftGood
<1>6. TypeInv' /\ PendOK'
  BY DEF SInv, TypeInv, PendOK
<1>7. up' = [up EXCEPT ![d] = up[d] \o <<>>]
  <2>1. up = [e \in Devices |-> up[e]] /\ up[d] \in Seq(UpMsgs)
    BY DEF SInv, WiresOK, WireOK
  <2>2. up[d] \o <<>> = up[d]
    BY <2>1
  <2> QED BY <2>1, <2>2
<1>8. count.ids <= count'.ids
  BY SessionAssumption DEF SInv, TypeInv
<1> QED BY <1>2, <1>3, <1>5, <1>6, <1>7, <1>8, NothingSent, DeviceGood

(* A handler that closes the session.                                       *)
LEMMA ClosedGood ==
  ASSUME SInv, NEW d \in Devices, Close(d), UNCHANGED <<relay, sealed>>, Handled(d)
  PROVE  SInv'
<1>1. PICK D : D = dev[d]
  OBVIOUS
<1>2. /\ ses' = [ses EXCEPT ![d] = Offline] /\ dev' = dev /\ count' = count
      /\ up' = [up EXCEPT ![d] = IF ses[d].open THEN Append(up[d], [t |-> "close"]) ELSE up[d]]
  BY DEF Close
<1>3. Moved(d, D) /\ dev' = [dev EXCEPT ![d] = D]
  BY <1>1, <1>2, DevIs, StaysGood
<1>4. Forward(d, D) /\ EngineOK(relay, d, D)'
  BY <1>3, MovedForward
<1>5. ses'[d].pc = "off"
  BY <1>2, SessionIs
<1>6. PICK f : f = Head(down[d])
  OBVIOUS
<1>7. PICK s : down' = [down EXCEPT ![d] = s] /\ SocketOK(relay, d, dev[d], s)'
  BY <1>3, <1>4, <1>5, <1>6, LeftGood
<1>8. count.ids <= count'.ids /\ count'.ids \in Int
  BY <1>2, SessionAssumption DEF SInv, TypeInv
<1>9. TypeInv'
  <2>1. ses' \in [Devices -> SessionStates]
    BY <1>2, SessionIs DEF SInv, TypeInv
  <2> QED BY <1>2, <2>1 DEF SInv, TypeInv
<1>10. PendOK'
  <2>1. Offline \in SessionStates /\ Asked(d, Offline)
    BY SessionIs DEF Asked
  <2> QED BY <1>2, <1>4, <1>8, <2>1, PendKept
<1>11. \E sent : SentOK(d, sent) /\ up' = [up EXCEPT ![d] = up[d] \o sent]
  <2>1. up = [e \in Devices |-> up[e]] /\ up[d] \in Seq(UpMsgs)
    BY DEF SInv, WiresOK, WireOK
  <2>2. CASE ~ ses[d].open
    <3>1. up[d] \o <<>> = up[d]
      BY <2>1
    <3> QED BY <1>2, <2>2, <3>1, NothingSent
  <2>3. CASE ses[d].open
    <3> DEFINE f1 == [t |-> "close"]
    <3>1. f1 \in UpMsgs /\ f1.t = "close" /\ UpOK(relay, d, dev[d], f1)'
      BY UpNew DEF UpOK
    <3> HIDE DEF f1
    <3>2. SentOK(d, Append(<<>>, f1))
      BY <3>1, NothingSent, OneMore
    <3>3. up[d] \o Append(<<>>, f1) = Append(up[d], f1)
      BY <2>1, <3>1
    <3> QED BY <1>2, <2>3, <3>2, <3>3 DEF f1
  <2> QED BY <2>2, <2>3
<1> QED BY <1>3, <1>4, <1>7, <1>8, <1>9, <1>10, <1>11, DeviceGood
-----------------------------------------------------------------------------
(* The handlers.                                                             *)

LEMMA NoReply ==
  ASSUME NEW d, NEW D
  PROVE  Replies(d, D, <<>>)
  BY DEF Replies

LEMMA OneReply ==
  ASSUME NEW d, NEW D, NEW f \in UpMsgs, f.t # "request", UpOK(relay, d, D, f)
  PROVE  Replies(d, D, <<f>>)
<1>1. <<f>> \in Seq(UpMsgs) /\ Len(<<f>>) = 1 /\ <<f>>[1] = f
  OBVIOUS
<1>2. \A n \in 1..Len(<<f>>) : <<f>>[n] = f
  BY <1>1
<1> QED BY <1>1, <1>2 DEF Replies

LEMMA AckReply ==
  ASSUME NEW d, NEW D, NEW S, NEW id \in Ids, DoneBy(relay, D, id)
  PROVE  Replies(d, D, Ack(S, id))
<1> DEFINE f == [t |-> "ack", id |-> id]
<1>1. f \in UpMsgs /\ f.t = "ack" /\ f.id = id
  BY UpNew
<1> HIDE DEF f
<1>2. UpOK(relay, d, D, f)
  BY <1>1 DEF UpOK
<1>3. Replies(d, D, <<f>>)
  BY <1>1, <1>2, OneReply
<1> QED BY <1>3, NoReply DEF Ack, f

(* Before it encrypts, a device with the grant has settled the whole order.  *)
LEMMA GrantedPlace ==
  ASSUME SInv, NEW d \in Devices, NEW id, relay.grant # None, relay.grant.id = id,
         relay.grant.by = d, dev[d].out = 0
  PROVE  Len(dev[d].applied) = Len(relay.log)
<1>1. relay.back[d] = <<>> /\ BackOK(relay, d, dev[d]) /\ relay.log \in Seq(Ids)
  BY DevIs DEF RelayOK, GrantOK
<1>2. Place(dev[d]) = Len(dev[d].applied) /\ Place(dev[d]) \in Int /\ Len(relay.log) \in Nat
  BY DevIs, <1>1 DEF Place
<1>3. \A k \in 1..Len(relay.log) : ~ (k > Place(dev[d]))
  BY <1>1 DEF BackOK
<1>4. Place(dev[d]) <= Len(relay.log) /\ Place(dev[d]) \in Nat
  BY <1>2, DevIs DEF EngineOK
<1>5. CASE Place(dev[d]) < Len(relay.log)
  <2>1. Len(relay.log) \in 1..Len(relay.log)
    BY <1>2, <1>4, <1>5
  <2> QED BY <1>2, <1>3, <1>5, <2>1
<1> QED BY <1>2, <1>4, <1>5

(* What is encrypted under a grant is for its place in the order.           *)
LEMMA EncryptGood ==
  ASSUME SInv, NEW d \in Devices, NEW f, f \in DownMsgs, f.t = "granted", DownOK(relay, d, f),
         ses[d].pend # None, ses[d].pend.id = f.id, Idle(dev[d]),
         NEW D, D = Encrypted(dev[d], f.id),
         NEW F \in Frames, F.by = d, F.base = Len(dev[d].applied),
         sealed' = [sealed EXCEPT ![f.id] = F], relay' = relay, dev' = [dev EXCEPT ![d] = D]
  PROVE  /\ Forward(d, D) /\ EngineOK(relay, d, D)'
         /\ sealed' \in [Ids -> Frames \cup {None}]
         /\ sealed[f.id] = None
<1> DEFINE id == f.id
           n == Len(dev[d].applied)
           a == Append(dev[d].applied, id)
<1>1. /\ id \in Ids /\ relay.rec[id] # "none" /\ id # 0
      /\ \A k \in 1..Len(relay.queue) : relay.queue[k].id # id
      /\ relay.grant # None /\ relay.grant.id = id => relay.grant.by = d
  BY MsgIs DEF DownOK, Ids
<1>2. sealed[id] = None /\ id <= count.ids /\ sealed \in [Ids -> Frames \cup {None}]
  BY DEF SInv, PendOK, TypeInv
<1>3. F \in Frames /\ F # None /\ F.by = d /\ F.base = n
  BY SessionAssumption DEF Frames
<1>4. /\ sealed'[id] = F /\ \A x \in Ids : x # id => sealed'[x] = sealed[x]
      /\ sealed' \in [Ids -> Frames \cup {None}]
  BY <1>1, <1>2, <1>3
<1>5. dev[d].out = 0 /\ Place(dev[d]) = n /\ n \in Nat
  BY DevIs DEF Idle, Place
<1>6. a \in Seq(Ids) /\ Len(a) = n + 1 /\ a[n + 1] = id /\ \A k \in 1..n : a[k] = dev[d].applied[k]
  BY <1>1, DevIs
<1> HIDE DEF a, n
<1>7. /\ D \in EngineStates /\ D.out = id /\ D.applied = a /\ D.gone = dev[d].gone
  <2>1. D = [dev[d] EXCEPT !.gen = dev[d].gen + 1, !.applied = a, !.out = id]
    BY DEF Encrypted, a
  <2>2. dev[d].gen + 1 \in Nat
    BY DevIs
  <2> HIDE DEF id
  <2> QED BY <1>1, <1>6, <2>1, <2>2, DevIs DEF EngineStates
<1>8. Place(D) = n
  BY <1>1, <1>5, <1>6, <1>7 DEF Place
<1>9. ASSUME relay.grant # None, relay.grant.id = id PROVE n = Len(relay.log)
  <2>1. relay.grant.by = d
    BY <1>1, <1>9
  <2> HIDE DEF id
  <2> QED BY <1>5, <1>9, <2>1, GrantedPlace DEF n
<1> HIDE DEF id
<1>10. Sealing(d, D)
  <2>1. \A x \in Ids : sealed[x] # None => sealed'[x] = sealed[x]
    BY <1>2, <1>4
  <2>2. \A x \in Ids : sealed[x] = None /\ sealed'[x] # None => x = id
    BY <1>4
  <2>3. /\ id = D.out /\ sealed'[id].by = d /\ sealed'[id].base <= Place(D)
        /\ id <= count.ids /\ relay.rec[id] # "none"
        /\ \A k \in 1..Len(relay.queue) : relay.queue[k].id # id
    BY <1>1, <1>2, <1>3, <1>4, <1>5, <1>7, <1>8
  <2>4. relay.grant # None /\ relay.grant.id = id => sealed'[id].base = Len(relay.log)
    BY <1>3, <1>4, <1>9
  <2> QED BY <2>1, <2>2, <2>3, <2>4 DEF Sealing
<1>11. Forward(d, D)
  BY <1>5, <1>7, <1>8, <1>10 DEF Forward
<1>12. EngineOK(relay, d, D)'
  <2>1. ~ D.gone
    BY <1>5, <1>7, DevIs DEF EngineOK
  <2>2. /\ n <= Len(relay.log)
        /\ \A k \in 1..n : dev[d].applied[k] = relay.log[k]
    BY <1>5, DevIs DEF EngineOK
  <2>3. Sits(d, D)'
    BY <1>1, <1>3, <1>4, <1>5, <1>6, <1>7 DEF Sits
  <2>4. Place(D)' = n
    BY <1>8 DEF Place
  <2>5. \A k \in 1..n : D.applied[k] = relay.log[k]
    BY <1>6, <1>7, <2>2
  <2> QED BY <2>1, <2>2, <2>3, <2>4, <2>5, <1>8 DEF EngineOK, Place
<1> QED BY <1>2, <1>3, <1>4, <1>11, <1>12 DEF id

(* handleGrant                                                              *)
LEMMA GrantHandled ==
  ASSUME SInv, NEW d \in Devices, NEW f, f = Head(down[d]), f \in DownMsgs, f.t = "granted",
         DownOK(relay, d, f), OnGranted(d, f), relay' = relay, Handled(d)
  PROVE  SInv'
<1>1. PICK R : R = [ses[d] EXCEPT !.pend = None]
  OBVIOUS
<1>2. R \in SessionStates /\ R.pend = None
  <2>1. None \in Pends
    BY DEF Pends
  <2> QED BY <1>1, <2>1, SessionIs DEF SessionStates
<1>3. f \notin Entries /\ f.id \in Ids
  BY MsgIs
<1>4. CASE Close(d) /\ UNCHANGED sealed
  BY <1>4, ClosedGood
<1>5. CASE Finish(d, dev[d], R, <<>>) /\ UNCHANGED sealed
  <2>1. PICK D : D = dev[d]
    OBVIOUS
  <2>2. Finish(d, D, R, <<>>) /\ Moved(d, D)
    BY <1>5, <2>1, StaysGood DEF Finish
  <2> QED BY <1>2, <1>3, <1>5, <2>2, NoReply, HandledGood
<1>6. CASE /\ ses[d].pend # None /\ ses[d].pend.id = f.id /\ Fits(dev[d], f.order)
           /\ Finish(d, Encrypted(dev[d], f.id), R, Frame(f.id))
           /\ sealed' = [sealed EXCEPT ![f.id] =
                [by |-> d, kind |-> ses[d].pend.kind, gen |-> dev[d].gen,
                 base |-> Len(dev[d].applied)]]
  <2>1. PICK D : D = Encrypted(dev[d], f.id)
    OBVIOUS
  <2>2. PICK F : F = [by |-> d, kind |-> ses[d].pend.kind, gen |-> dev[d].gen,
                      base |-> Len(dev[d].applied)]
    OBVIOUS
  <2>a. F \in Frames /\ F.by = d /\ F.base = Len(dev[d].applied)
    <3>1. ses[d].pend.kind \in Kinds
      BY <1>6, SessionIs DEF SessionStates, Pends
    <3>2. Len(dev[d].applied) \in Nat /\ dev[d].gen \in Nat
      BY DevIs
    <3> QED BY <2>2, <3>1, <3>2 DEF Frames
  <2>3. Finish(d, D, R, Frame(f.id)) /\ dev' = [dev EXCEPT ![d] = D]
    BY <1>6, <2>1 DEF Finish
  <2>4. /\ Forward(d, D) /\ EngineOK(relay, d, D)'
        /\ sealed' \in [Ids -> Frames \cup {None}]
        /\ sealed[f.id] = None /\ sealed'[f.id] = F /\ F # None
    <3>1. sealed' = [sealed EXCEPT ![f.id] = F]
      BY <1>6, <2>2
    <3>2. Idle(dev[d]) /\ dev' = [dev EXCEPT ![d] = D]
      BY <1>6, <2>3 DEF Fits
    <3>3. ses[d].pend # None /\ ses[d].pend.id = f.id
      BY <1>6
    <3>4. Forward(d, D) /\ EngineOK(relay, d, D)'
      BY <2>1, <2>a, <3>1, <3>2, <3>3, EncryptGood
    <3>5. sealed' \in [Ids -> Frames \cup {None}]
      BY <2>1, <2>a, <3>1, <3>2, <3>3, EncryptGood
    <3>6. sealed[f.id] = None
      BY <2>1, <2>a, <3>1, <3>2, <3>3, EncryptGood
    <3>7. sealed'[f.id] = F /\ F # None
      BY <1>3, <2>a, <3>1, SessionAssumption, DevIs DEF TypeInv, Frames
    <3> QED BY <3>4, <3>5, <3>6, <3>7
  <2>5. AnswersOK(d, Frame(f.id))
    <3> DEFINE m == [t |-> "frame", id |-> f.id]
    <3>1. m \in UpMsgs /\ m.t = "frame" /\ m.id = f.id
      BY <1>3, UpNew
    <3> HIDE DEF m
    <3>2. sealed'[m.id] # None /\ sealed'[m.id].by = d
      BY <2>2, <2>4, <3>1
    <3>3. UpOK(relay, d, dev[d], m)'
      BY <3>1, <3>2 DEF UpOK
    <3>4. <<m>> \in Seq(UpMsgs) /\ \A k \in 1..Len(<<m>>) : <<m>>[k] = m
      BY <3>1
    <3>5. AnswersOK(d, <<m>>)
      BY <3>1, <3>3, <3>4 DEF AnswersOK, UpOK
    <3> QED BY <3>5 DEF Frame, m
  <2>6. \A x \in Ids : sealed[x] = None /\ sealed'[x] # None => ses[d].pend # None /\ x = ses[d].pend.id
    BY <1>6, DevIs DEF TypeInv
  <2>7. PICK s : down' = [down EXCEPT ![d] = s] /\ SocketOK(relay, d, dev[d], s)'
    BY <1>3, <2>3, <2>4, LeftGood
  <2> QED BY <1>2, <2>3, <2>4, <2>5, <2>6, <2>7, FinishGood
<1> QED BY <1>1, <1>4, <1>5, <1>6 DEF OnGranted

(* handleOrderExpired                                                       *)
LEMMA ExpiredGood ==
  ASSUME SInv, NEW d \in Devices, NEW f, f = Head(down[d]), f \in DownMsgs,
         f.t \in {"expired", "cancelled"}, DownOK(relay, d, f), OnExpired(d, f),
         UNCHANGED <<relay, sealed>>, Handled(d)
  PROVE  SInv'
<1>1. f \notin Entries /\ f.id \in Ids /\ relay.rec[f.id] \in Refused
  BY MsgIs DEF DownOK
<1>2. CASE dev[d].out = f.id
  <2>1. PICK D : D = Rewound(dev[d])
    OBVIOUS
  <2>2. Moved(d, D)
    BY <1>1, <1>2, <2>1, RewoundGood
  <2>3. PICK S : S = ses[d]
    OBVIOUS
  <2>4. Finish(d, D, S, <<>>) /\ S \in SessionStates
    BY <1>2, <2>1, <2>3, SessionIs DEF OnExpired
  <2> QED BY <1>1, <2>2, <2>3, <2>4, NoReply, HandledGood
<1>3. CASE dev[d].out # f.id
  BY <1>1, <1>3, IgnoredGood DEF OnExpired
<1> QED BY <1>2, <1>3

(* handleOrderCancelled                                                     *)
LEMMA CancelledGood ==
  ASSUME SInv, NEW d \in Devices, NEW f, f = Head(down[d]), f \in DownMsgs,
         f.t = "cancelled", DownOK(relay, d, f), OnCancelled(d, f),
         UNCHANGED <<relay, sealed>>, Handled(d)
  PROVE  SInv'
<1>1. CASE ses[d].pend # None /\ ses[d].pend.id = f.id
  <2>1. PICK D : D = dev[d]
    OBVIOUS
  <2> DEFINE a == <<ses[d].pend.kind>> \o ses[d].todo
  <2>2. PICK S : S = [ses[d] EXCEPT !.pend = None, !.todo = a]
    OBVIOUS
  <2>3. Finish(d, D, S, <<>>)
    BY <1>1, <2>1, <2>2 DEF OnCancelled
  <2>4. S \in SessionStates /\ S.pend = None
    <3>1. None \in Pends /\ a \in Seq(Kinds)
      <4>1. ses[d].pend.kind \in Kinds /\ ses[d].todo \in Seq(Kinds)
        BY <1>1, SessionIs DEF SessionStates, Pends
      <4> QED BY <4>1 DEF Pends
    <3> HIDE DEF a
    <3> QED BY <2>2, <3>1, SessionIs DEF SessionStates
  <2>5. Moved(d, D)
    BY <2>1, StaysGood
  <2>6. f \notin Entries
    BY MsgIs
  <2> QED BY <2>3, <2>4, <2>5, <2>6, NoReply, HandledGood
<1>2. CASE ~ (ses[d].pend # None /\ ses[d].pend.id = f.id)
  <2>1. OnExpired(d, f)
    BY <1>2 DEF OnCancelled
  <2> QED BY <2>1, ExpiredGood
<1> QED BY <1>1, <1>2

(* handleFrameAccepted, handleApplicationResult, handleCommitRejected       *)
LEMMA ResultGood ==
  ASSUME SInv, NEW d \in Devices, NEW f, f = Head(down[d]), f \in DownMsgs,
         f.t = "result", DownOK(relay, d, f), OnResult(d, f),
         UNCHANGED <<relay, sealed>>, Handled(d)
  PROVE  SInv'
<1>1. /\ f \in Entries /\ f.id \in Ids /\ f.ok \in BOOLEAN /\ sealed[f.id] # None /\ sealed[f.id].by = d
      /\ relay.rec[f.id] = IF f.ok THEN "accepted" ELSE "rejected"
  BY MsgIs DEF DownOK, EntryOK
<1>2. CASE dev[d].out # f.id
  <2>1. DoneBy(relay, dev[d], f.id)
    BY <1>1, <1>2 DEF SInv, RelayOK, OwnOK
  <2> QED BY <1>2, <2>1, IgnoredGood DEF OnResult
<1>3. CASE dev[d].out = f.id
  <2>1. PICK D : D = IF f.ok THEN Acknowledged(dev[d]) ELSE Rewound(dev[d])
    OBVIOUS
  <2>2. Moved(d, D) /\ DoneBy(relay, D, f.id)
    <3>1. CASE f.ok
      BY <1>1, <1>3, <2>1, <3>1, AckedGood
    <3>2. CASE ~ f.ok
      BY <1>1, <1>3, <2>1, <3>2, RewoundGood DEF Refused
    <3> QED BY <3>1, <3>2
  <2>3. PICK S : S = ses[d]
    OBVIOUS
  <2>4. Finish(d, D, S, Ack(S, f.id)) /\ S \in SessionStates
    BY <1>3, <2>1, <2>3, SessionIs DEF OnResult
  <2>5. Replies(d, D, Ack(S, f.id))
    BY <1>1, <2>2, AckReply
  <2> QED BY <2>2, <2>3, <2>4, <2>5, HandledGood
<1> QED BY <1>2, <1>3

(* handleRelay: a frame that is new is the next of the order.               *)
LEMMA RelayedGood ==
  ASSUME SInv, NEW d \in Devices, NEW f, f = Head(down[d]), f \in DownMsgs,
         f.t = "relay", DownOK(relay, d, f), OnRelay(d, f),
         UNCHANGED <<relay, sealed>>, Handled(d)
  PROVE  SInv'
<1>1. /\ f \in Entries /\ f.id \in Ids /\ sealed[f.id].by # d /\ relay.rec[f.id] = "accepted"
  BY MsgIs DEF DownOK, EntryOK
<1>2. CASE Knows(dev[d], f.id) \/ IsNext(dev[d], f.id)
  <2>1. PICK D : D = Received(dev[d], f.id)
    OBVIOUS
  <2>2. Moved(d, D) /\ DoneBy(relay, D, f.id)
    BY <1>1, <1>2, <2>1, ReceivedGood
  <2>3. PICK S : S = ses[d]
    OBVIOUS
  <2>4. Finish(d, D, S, Ack(S, f.id)) /\ S \in SessionStates
    BY <1>2, <2>1, <2>3, SessionIs DEF OnRelay
  <2>5. Replies(d, D, Ack(S, f.id))
    BY <1>1, <2>2, AckReply
  <2> QED BY <2>2, <2>3, <2>4, <2>5, HandledGood
<1>3. CASE ~ (Knows(dev[d], f.id) \/ IsNext(dev[d], f.id))
  BY <1>3, ClosedGood DEF OnRelay
<1> QED BY <1>2, <1>3
(* handleApplicationPreview, handleCommitPreview                            *)
LEMMA PreviewedGood ==
  ASSUME SInv, NEW d \in Devices, NEW f, f = Head(down[d]), f \in DownMsgs,
         f.t = "preview", OnPreview(d, f), UNCHANGED <<relay, sealed>>, Handled(d)
  PROVE  SInv'
<1>1. f \notin Entries /\ f.id \in Ids
  BY MsgIs
<1>2. PICK D, S : D = dev[d] /\ S = ses[d]
  OBVIOUS
<1>3. PICK m : m = [t |-> "decide", id |-> f.id, ok |-> IsNext(dev[d], f.id)]
  OBVIOUS
<1>4. m \in UpMsgs /\ m.t = "decide"
  <2>1. IsNext(dev[d], f.id) \in BOOLEAN
    BY DEF IsNext, Idle
  <2> HIDE DEF IsNext
  <2> QED BY <1>1, <1>3, <2>1, UpNew
<1>5. UpOK(relay, d, D, m)
  BY <1>4 DEF UpOK
<1>6. Replies(d, D, <<m>>)
  BY <1>4, <1>5, OneReply
<1>7. Finish(d, D, S, <<m>>) /\ S \in SessionStates /\ Moved(d, D)
  BY <1>2, <1>3, SessionIs, StaysGood DEF OnPreview
<1> QED BY <1>1, <1>2, <1>6, <1>7, HandledGood

(* handleBacklogEnd: all before it is settled.                              *)
LEMMA EndGood ==
  ASSUME SInv, NEW d \in Devices, NEW f, f = Head(down[d]), f \in DownMsgs,
         f.t = "end", OnEnd(d, f), UNCHANGED <<relay, sealed>>, Handled(d)
  PROVE  SInv'
<1>1. f \notin Entries /\ f.id \in Ids \cup {0}
  BY MsgIs
<1>2. CASE ses[d].sure
  BY <1>2, ClosedGood DEF OnEnd
<1>3. CASE ~ ses[d].sure
  <2>1. PICK D : D = dev[d]
    OBVIOUS
  <2>2. PICK S : S = [ses[d] EXCEPT !.pc = "confirming", !.sure = TRUE]
    OBVIOUS
  <2>3. PICK m : m = [t |-> "complete", id |-> f.id]
    OBVIOUS
  <2>4. m \in UpMsgs /\ m.t = "complete" /\ m.id = f.id
    BY <1>1, <2>3, UpNew
  <2>5. f.id # 0 => DoneBy(relay, D, f.id)
    <3>1. SocketOK(relay, d, dev[d], down[d]) /\ down[d] # <<>>
      BY DEF SInv, SocketsOK, Handled
    <3>2. 1 \in 1..Len(down[d]) /\ down[d][1] = f
      BY <3>1 DEF SocketOK
    <3>3. ~ \E k \in 1..(1 - 1) : TRUE
      OBVIOUS
    <3> QED BY <2>1, <3>1, <3>2, <3>3 DEF SocketOK, EndOK
  <2>6. UpOK(relay, d, D, m)
    BY <2>4, <2>5 DEF UpOK
  <2>7. Replies(d, D, <<m>>)
    BY <2>4, <2>6, OneReply
  <2>8. S \in SessionStates /\ S.pend = ses[d].pend
    BY <2>2, SessionIs DEF SessionStates
  <2>9. Finish(d, D, S, <<m>>) /\ Moved(d, D)
    BY <1>3, <2>1, <2>2, <2>3, StaysGood DEF OnEnd
  <2> QED BY <1>1, <2>7, <2>8, <2>9, HandledGood
<1> QED BY <1>2, <1>3

(* The resume is complete, and what is unanswered is sent again.            *)
LEMMA CompletedGood ==
  ASSUME SInv, NEW d \in Devices, NEW f, f = Head(down[d]), f \in DownMsgs,
         f.t = "completed", OnCompleted(d), UNCHANGED <<relay, sealed>>, Handled(d)
  PROVE  SInv'
<1>1. f \notin Entries
  BY MsgIs
<1>2. PICK D : D = dev[d]
  OBVIOUS
<1>3. PICK S : S = [ses[d] EXCEPT !.pc = "ready", !.sure = FALSE]
  OBVIOUS
<1>4. PICK fs : fs = IF Idle(dev[d]) THEN <<>> ELSE Frame(dev[d].out)
  OBVIOUS
<1>5. Replies(d, D, fs)
  <2>1. CASE Idle(dev[d])
    BY <1>4, <2>1, NoReply
  <2>2. CASE ~ Idle(dev[d])
    <3>1. PICK m : m = [t |-> "frame", id |-> D.out]
      OBVIOUS
    <3>2. D.out \in Ids /\ sealed[D.out] # None /\ sealed[D.out].by = d
      BY <1>2, <2>2, DevIs DEF Idle, EngineOK, Sits
    <3>3. m \in UpMsgs /\ m.t = "frame" /\ m.id = D.out
      BY <3>1, <3>2, UpNew
    <3>4. UpOK(relay, d, D, m)
      BY <3>2, <3>3 DEF UpOK
    <3>5. fs = <<m>>
      BY <1>2, <1>4, <2>2, <3>1 DEF Frame
    <3> QED BY <3>3, <3>4, <3>5, OneReply
  <2> QED BY <2>1, <2>2
<1>6. S \in SessionStates /\ S.pend = ses[d].pend
  BY <1>3, SessionIs DEF SessionStates
<1>7. Finish(d, D, S, fs) /\ Moved(d, D)
  BY <1>2, <1>3, <1>4, StaysGood DEF OnCompleted
<1> QED BY <1>1, <1>5, <1>6, <1>7, HandledGood

(* handleMemberLifecycle, handleServerError                                 *)
LEMMA NoticedGood ==
  ASSUME SInv, NEW d \in Devices, NEW f, f = Head(down[d]), f \in DownMsgs, f.t \in {"active", "error"},
         OnActive(d) \/ OnError(d, f), UNCHANGED <<relay, sealed>>, Handled(d)
  PROVE  SInv'
<1>1. f \notin Entries
  BY MsgIs
<1>2. CASE Close(d)
  BY <1>2, ClosedGood
<1>3. CASE Finish(d, dev[d], ses[d], <<>>)
  <2>1. PICK D, S : D = dev[d] /\ S = ses[d]
    OBVIOUS
  <2>2. Finish(d, D, S, <<>>) /\ S \in SessionStates /\ Moved(d, D)
    BY <1>3, <2>1, SessionIs, StaysGood
  <2> QED BY <1>1, <2>1, <2>2, NoReply, HandledGood
<1> QED BY <1>2, <1>3 DEF OnActive, OnError

(* Every frame a device handles.                                            *)
LEMMA HandlerGood ==
  ASSUME SInv, NEW d \in Devices, Handle(d)
  PROVE  SInv'
<1>1. PICK f : f = Head(down[d])
  OBVIOUS
<1>2. Handled(d) /\ relay' = relay /\ down[d] # <<>>
  BY DEF Handle, Handled
<1>3. f \in DownMsgs /\ DownOK(relay, d, f)
  <2>1. SocketOK(relay, d, dev[d], down[d])
    BY DEF SInv, SocketsOK
  <2>2. 1 \in 1..Len(down[d]) /\ down[d][1] = f
    BY <1>1, <1>2, <2>1 DEF SocketOK
  <2> QED BY <2>1, <2>2 DEF SocketOK
<1>4. CASE f.t = "granted" /\ OnGranted(d, f)
  BY <1>1, <1>2, <1>3, <1>4, GrantHandled
<1>5. CASE f.t = "expired" /\ OnExpired(d, f) /\ UNCHANGED sealed
  BY <1>1, <1>2, <1>3, <1>5, ExpiredGood
<1>6. CASE f.t = "cancelled" /\ OnCancelled(d, f) /\ UNCHANGED sealed
  BY <1>1, <1>2, <1>3, <1>6, CancelledGood
<1>7. CASE f.t = "result" /\ OnResult(d, f) /\ UNCHANGED sealed
  BY <1>1, <1>2, <1>3, <1>7, ResultGood
<1>8. CASE f.t = "relay" /\ OnRelay(d, f) /\ UNCHANGED sealed
  BY <1>1, <1>2, <1>3, <1>8, RelayedGood
<1>9. CASE f.t = "preview" /\ OnPreview(d, f) /\ UNCHANGED sealed
  BY <1>1, <1>2, <1>3, <1>9, PreviewedGood
<1>10. CASE f.t = "end" /\ OnEnd(d, f) /\ UNCHANGED sealed
  BY <1>1, <1>2, <1>3, <1>10, EndGood
<1>11. CASE f.t = "active" /\ OnActive(d) /\ UNCHANGED sealed
  BY <1>1, <1>2, <1>3, <1>11, NoticedGood
<1>12. CASE f.t = "completed" /\ OnCompleted(d) /\ UNCHANGED sealed
  BY <1>1, <1>2, <1>3, <1>12, CompletedGood
<1>13. CASE f.t = "error" /\ OnError(d, f) /\ UNCHANGED sealed
  BY <1>1, <1>2, <1>3, <1>13, NoticedGood
<1> QED BY <1>1, <1>4, <1>5, <1>6, <1>7, <1>8, <1>9, <1>10, <1>11, <1>12, <1>13 DEF Handle

(* enqueueGrantIntent                                                       *)
LEMMA WantGood ==
  ASSUME SInv, NEW d \in Devices, NEW k \in Kinds, Want(d, k)
  PROVE  SInv'
<1>1. PICK D : D = dev[d]
  OBVIOUS
<1>2. PICK S : S = [ses[d] EXCEPT !.todo = <<k>>]
  OBVIOUS
<1>3. S \in SessionStates /\ S.pend = ses[d].pend
  <2>1. <<k>> \in Seq(Kinds)
    OBVIOUS
  <2>2. PICK t : t = <<k>>
    OBVIOUS
  <2>3. S = [ses[d] EXCEPT !.todo = t] /\ t \in Seq(Kinds)
    BY <1>2, <2>1, <2>2
  <2> QED BY <2>3, SessionIs DEF SessionStates
<1>4. Finish(d, D, S, <<>>) /\ relay' = relay /\ down' = down /\ sealed' = sealed
  BY <1>1, <1>2 DEF Want
<1>5. dev' = [dev EXCEPT ![d] = D] /\ Moved(d, D) /\ TypeInv
  BY <1>1, <1>4, DevIs, StaysGood DEF Finish
<1>6. Forward(d, D) /\ EngineOK(relay, d, D)'
  BY <1>4, <1>5, MovedForward
<1>7. PICK s : s = down[d]
  OBVIOUS
<1>8. SocketOK(relay, d, dev[d], s) /\ down' = [down EXCEPT ![d] = s]
  BY <1>4, <1>7 DEF SInv, SocketsOK
<1>9. SocketOK(relay, d, dev[d], s)'
  BY <1>4, <1>5, <1>6, <1>8, SocketKept
<1>10. sealed' \in [Ids -> Frames \cup {None}]
  BY <1>4, <1>5 DEF TypeInv
<1> QED BY <1>3, <1>4, <1>6, <1>8, <1>9, <1>10, NothingSent, FinishGood

(* A device notices that its socket is lost.                                *)
LEMMA NoticeGood ==
  ASSUME SInv, NEW d \in Devices, Notice(d)
  PROVE  SInv'
<1>1. PICK S \in {Offline, [ses[d] EXCEPT !.pc = "off"]} : ses' = [ses EXCEPT ![d] = S]
  BY DEF Notice
<1>2. /\ down' = [down EXCEPT ![d] = <<>>] /\ dev' = dev /\ relay' = relay /\ up' = up
      /\ sealed' = sealed /\ count' = count
  BY DEF Notice
<1>3. S \in SessionStates /\ (S.pend = None \/ S.pend = ses[d].pend)
  <2>1. CASE S = Offline
    BY <2>1, SessionIs
  <2>2. CASE S = [ses[d] EXCEPT !.pc = "off"]
    BY <2>2, SessionIs DEF SessionStates
  <2> QED BY <1>1, <2>1, <2>2
<1>4. PICK D : D = dev[d]
  OBVIOUS
<1>5. Moved(d, D) /\ dev' = [dev EXCEPT ![d] = D]
  BY <1>2, <1>4, DevIs, StaysGood
<1>6. Forward(d, D) /\ EngineOK(relay, d, D)'
  BY <1>2, <1>5, MovedForward
<1>7. count.ids <= count'.ids /\ count'.ids \in Int
  BY <1>2, SessionAssumption DEF SInv, TypeInv
<1>8. TypeInv'
  <2>1. ses' \in [Devices -> SessionStates]
    BY <1>1, <1>3, SessionIs
  <2> QED BY <1>2, <2>1 DEF SInv, TypeInv
<1>9. PendOK'
  <2>1. Asked(d, S)
    BY <1>2, <1>3 DEF Asked
  <2> QED BY <1>1, <1>3, <1>6, <1>7, <2>1, PendKept
<1>10. up' = [up EXCEPT ![d] = up[d] \o <<>>]
  <2>1. up = [e \in Devices |-> up[e]] /\ up[d] \in Seq(UpMsgs)
    BY DEF SInv, WiresOK, WireOK
  <2>2. up[d] \o <<>> = up[d]
    BY <2>1
  <2> QED BY <1>2, <2>1, <2>2
<1>11. SocketOK(relay, d, dev[d], <<>>)'
  BY DEF SocketOK, EndOK
<1> QED BY <1>2, <1>5, <1>6, <1>7, <1>8, <1>9, <1>10, <1>11, NothingSent, DeviceGood

(* s is a with m at its end.                                                 *)
IsAppend(s, a, m) ==
  /\ Len(s) = Len(a) + 1 /\ Len(a) \in Nat /\ s[Len(a) + 1] = m
  /\ \A n \in 1..Len(a) : s[n] = a[n]
  /\ \A n \in 1..Len(s) : n = Len(a) + 1 \/ n \in 1..Len(a)
LEMMA Appended ==
  ASSUME NEW S, NEW a \in Seq(S), NEW m \in S
  PROVE  Append(a, m) \in Seq(S) /\ IsAppend(Append(a, m), a, m)
<1> DEFINE s == Append(a, m)
<1>1. s \in Seq(S) /\ Len(s) = Len(a) + 1 /\ Len(a) \in Nat /\ s[Len(a) + 1] = m
  OBVIOUS
<1>2. \A n \in 1..Len(a) : s[n] = a[n]
  OBVIOUS
<1> HIDE DEF s
<1>3. \A n \in 1..Len(s) : n = Len(a) + 1 \/ n \in 1..Len(a)
  BY <1>1
<1>4. IsAppend(s, a, m)
  BY <1>1, <1>2, <1>3 DEF IsAppend
<1> QED BY <1>1, <1>4 DEF s

(* No request comes twice where none is new.                                 *)
AskedIn(u, v) ==
  \A e \in Devices : \A k \in 1..Len(v[e]) :
    v[e][k].t = "request" => k \in 1..Len(u[e]) /\ v[e][k] = u[e][k]
LEMMA OnceCut ==
  ASSUME NEW u, NEW v, OnceOK(u), AskedIn(u, v)
  PROVE  OnceOK(v)
<1> SUFFICES ASSUME NEW d \in Devices, NEW e \in Devices,
                    NEW m \in 1..Len(v[d]), NEW n \in 1..Len(v[e]),
                    v[d][m].t = "request" /\ v[e][n].t = "request" /\ v[e][n].id = v[d][m].id
             PROVE  d = e /\ m = n
  BY DEF OnceOK
<1>1. /\ m \in 1..Len(u[d]) /\ v[d][m] = u[d][m]
      /\ n \in 1..Len(u[e]) /\ v[e][n] = u[e][n]
  BY DEF AskedIn
<1> QED BY <1>1 DEF OnceOK

(* A socket is lost with some of what is under way.                          *)
LEMMA Cut ==
  ASSUME NEW r, NEW u, WiresOK(r, u), NEW d \in Devices, NEW n \in 0..Len(u[d]),
         NEW v, v = [u EXCEPT ![d] = Append(SubSeq(u[d], 1, n), [t |-> "close"])]
  PROVE  WiresOK(r, v)
<1>1. PICK m : m = [t |-> "close"]
  OBVIOUS
<1>2. m \in UpMsgs /\ m.t = "close"
  BY <1>1, UpNew
<1>3. u = [e \in Devices |-> u[e]] /\ OnceOK(u) /\ \A e \in Devices : WireOK(r, e, dev[e], u[e])
  BY DEF WiresOK
<1>4. \A e \in Devices : u[e] \in Seq(UpMsgs)
  BY <1>3 DEF WireOK
<1>5. v = [e \in Devices |-> v[e]] /\ (\A e \in Devices : e # d => v[e] = u[e])
      /\ v[d] = Append(SubSeq(u[d], 1, n), m)
  BY <1>1, <1>3
<1>6. /\ v[d] \in Seq(UpMsgs)
      /\ \A k \in 1..Len(v[d]) : v[d][k] = m \/ (k \in 1..Len(u[d]) /\ v[d][k] = u[d][k])
  <2> DEFINE a == SubSeq(u[d], 1, n)
  <2>1. a \in Seq(UpMsgs) /\ Len(a) = n /\ n \in Nat /\ \A k \in 1..n : k \in 1..Len(u[d]) /\ a[k] = u[d][k]
    BY <1>4
  <2> HIDE DEF a
  <2>2. v[d] = Append(a, m)
    BY <1>5 DEF a
  <2>3. v[d] \in Seq(UpMsgs) /\ Len(v[d]) = n + 1 /\ v[d][n + 1] = m
        /\ \A k \in 1..n : v[d][k] = a[k]
    <3>1. v[d] \in Seq(UpMsgs) /\ IsAppend(v[d], a, m)
      BY <1>2, <2>1, <2>2, Appended
    <3> QED BY <2>1, <3>1 DEF IsAppend
  <2>4. \A k \in 1..Len(v[d]) : k = n + 1 \/ k \in 1..n
    BY <2>1, <2>3
  <2> QED BY <2>1, <2>3, <2>4
<1>7. \A e \in Devices : v[e] \in Seq(UpMsgs)
  BY <1>4, <1>5, <1>6
<1>8. \A e \in Devices : \A k \in 1..Len(v[e]) : v[e][k] = m \/ (k \in 1..Len(u[e]) /\ v[e][k] = u[e][k])
  BY <1>5, <1>6
<1>9. ASSUME NEW e \in Devices PROVE WireOK(r, e, dev[e], v[e])
  <2>1. \A k \in 1..Len(u[e]) : UpOK(r, e, dev[e], u[e][k])
    BY <1>3 DEF WireOK
  <2>2. UpOK(r, e, dev[e], m)
    BY <1>2 DEF UpOK
  <2>3. \A k \in 1..Len(v[e]) : UpOK(r, e, dev[e], v[e][k])
    BY <1>8, <2>1, <2>2
  <2> QED BY <1>7, <2>3 DEF WireOK
<1>10. OnceOK(v)
  <2>1. AskedIn(u, v)
    BY <1>2, <1>8 DEF AskedIn
  <2> QED BY <1>3, <2>1, OnceCut
<1> QED BY <1>5, <1>9, <1>10 DEF WiresOK

LEMMA DropGood ==
  ASSUME SInv, NEW d \in Devices, Drop(d)
  PROVE  SInv'
<1>1. PICK n \in 0..Len(up[d]) : up' = [up EXCEPT ![d] = Append(SubSeq(up[d], 1, n), [t |-> "close"])]
  BY DEF Drop
<1>2. PICK q, w, u : q = relay /\ w = down /\ u = up'
  OBVIOUS
<1>3. /\ ses' = [ses EXCEPT ![d].open = FALSE] /\ count' = [count EXCEPT !.drops = count.drops + 1]
      /\ dev' = dev /\ relay' = q /\ down' = w /\ sealed' = sealed
  BY <1>2 DEF Drop
<1>4. /\ TypeInv /\ PendOK /\ RelayOK(relay) /\ SocketsOK(relay, down) /\ WiresOK(relay, up)
  BY DEF SInv
<1>5. WiresOK(relay, u)
  BY <1>1, <1>2, <1>4, Cut
<1>6. /\ ses' \in [Devices -> SessionStates]
      /\ \A e \in Devices : ses'[e].pend = ses[e].pend
  <2>1. PICK S : S = [ses[d] EXCEPT !.open = FALSE]
    OBVIOUS
  <2>2. ses' = [ses EXCEPT ![d] = S]
    BY <1>3, <2>1
  <2>3. S \in SessionStates /\ S.pend = ses[d].pend
    BY <2>1, SessionIs DEF SessionStates
  <2> QED BY <2>2, <2>3, SessionIs
<1>7. count' \in [ids : 0..MaxIds, drops : Nat, resumes : Nat] /\ count'.ids = count.ids
  BY <1>3, <1>4 DEF TypeInv
<1>8. TypeInv'
  BY <1>3, <1>4, <1>6, <1>7 DEF TypeInv
<1>9. PendOK'
  BY <1>3, <1>4, <1>6, <1>7 DEF PendOK
<1>10. RelayOK(q) /\ SocketsOK(q, w) /\ WiresOK(q, u) /\ up' = u
  BY <1>2, <1>4, <1>5
<1> QED BY <1>3, <1>7, <1>8, <1>9, <1>10, AfterGood

(* The replay of a backlog names its last entry at the end.                  *)
LEMMA ReplayGood ==
  ASSUME SInv, NEW d \in Devices,
         NEW s, s = Append(relay.back[d], [t |-> "end", id |-> LastOf(relay.back[d])])
  PROVE  SocketOK(relay, d, dev[d], s)
<1> DEFINE b == relay.back[d]
<1>1. b \in Seq(Entries) /\ BackOK(relay, d, dev[d])
  BY DevIs DEF RelayStates
<1>2. PICK m : m = [t |-> "end", id |-> LastOf(b)]
  OBVIOUS
<1>3. /\ LastOf(b) \in Ids \cup {0}
      /\ LastOf(b) # 0 => Len(b) \in 1..Len(b) /\ b[Len(b)].id = LastOf(b)
  <2>1. CASE b = <<>>
    BY <2>1 DEF LastOf
  <2>2. CASE b # <<>>
    <3>1. LastOf(b) = b[Len(b)].id /\ Len(b) \in 1..Len(b)
      BY <1>1, <2>2 DEF LastOf, Last
    <3>2. b[Len(b)] \in Entries
      BY <1>1, <3>1
    <3> QED BY <3>1, <3>2, MsgIs
  <2> QED BY <2>1, <2>2
<1> HIDE DEF b
<1>4. m \in DownMsgs /\ m \notin Entries /\ m.t = "end" /\ m.id = LastOf(b)
  BY <1>2, <1>3, DownNew
<1>5. /\ s = Append(b, m) /\ \A n \in 1..Len(b) : b[n] \in DownMsgs /\ b[n].t # "end"
  BY <1>1, <1>2, MsgIs DEF b
<1>6. b \in Seq(DownMsgs)
  BY <1>1, <1>5
<1>7. /\ s \in Seq(DownMsgs) /\ Len(s) = Len(b) + 1 /\ Len(b) \in Nat /\ s[Len(b) + 1] = m
      /\ \A n \in 1..Len(b) : s[n] = b[n]
  <2>1. s \in Seq(DownMsgs) /\ IsAppend(s, b, m)
    BY <1>4, <1>5, <1>6, Appended
  <2> QED BY <2>1 DEF IsAppend
<1>8. \A n \in 1..Len(s) : n = Len(b) + 1 \/ n \in 1..Len(b)
  BY <1>7
<1>9. ASSUME NEW n \in 1..Len(s) PROVE DownOK(relay, d, s[n])
  <2>1. CASE n = Len(b) + 1
    <3>1. DownOK(relay, d, m)
      BY <1>4 DEF DownOK
    <3> QED BY <1>7, <2>1, <3>1
  <2>2. CASE n \in 1..Len(b)
    <3>1. b[n] \in Entries /\ EntryOK(relay, d, b[n])
      BY <1>1, <2>2 DEF BackOK, b
    <3>2. b[n].t \in {"relay", "result"}
      BY <3>1, MsgIs
    <3>3. DownOK(relay, d, b[n])
      BY <3>1, <3>2 DEF DownOK
    <3> QED BY <1>7, <2>2, <3>3
  <2> QED BY <1>8, <2>1, <2>2
<1>10. EndOK(relay, dev[d], s)
  <2> SUFFICES ASSUME NEW n \in 1..Len(s), s[n].t = "end", s[n].id # 0
               PROVE  \E k \in 1..(n - 1) : s[k] \in Entries /\ s[k].id = s[n].id
    BY DEF EndOK
  <2>1. n = Len(b) + 1
    BY <1>5, <1>7, <1>8
  <2>2. Len(b) \in 1..Len(b) /\ b[Len(b)].id = s[n].id
    BY <1>3, <1>4, <1>7, <2>1
  <2>3. Len(b) \in 1..(n - 1) /\ s[Len(b)] = b[Len(b)]
    BY <1>7, <2>1, <2>2
  <2>4. b[Len(b)] \in Entries
    BY <1>1, <2>2
  <2> QED BY <2>2, <2>3, <2>4
<1> QED BY <1>7, <1>9, <1>10 DEF SocketOK

(* A resume is sent the backlog, and its end.                               *)
LEMMA ResumeGood ==
  ASSUME SInv, NEW d \in Devices, Resume(d)
  PROVE  SInv'
<1>1. /\ TypeInv /\ PendOK /\ RelayOK(relay) /\ SocketsOK(relay, down) /\ WiresOK(relay, up)
      /\ relay \in RelayStates
  BY DEF SInv, RelayOK
<1>2. PICK st : st = [relay.st EXCEPT ![d] = "replaying"]
  OBVIOUS
<1>3. PICK q : q = [relay EXCEPT !.st = st]
  OBVIOUS
<1>4. PICK s : s = Append(relay.back[d], [t |-> "end", id |-> LastOf(relay.back[d])])
  OBVIOUS
<1>5. PICK w, u : w = [down EXCEPT ![d] = s] /\ u = up
  OBVIOUS
<1>6. /\ relay' = q /\ down' = w /\ up' = u /\ sealed' = sealed /\ dev' = dev
      /\ ses' = [ses EXCEPT ![d].pc = "replaying", ![d].open = TRUE]
      /\ count' = [count EXCEPT !.resumes = count.resumes + 1]
  BY <1>2, <1>3, <1>4, <1>5, DevIs DEF Resume, Restored
<1>7. /\ q \in RelayStates /\ q.log = relay.log /\ q.back = relay.back /\ q.queue = relay.queue
      /\ q.grant = relay.grant /\ q.held = relay.held /\ q.rec = relay.rec
  <2>1. st \in [Devices -> {"active", "replaying", "away"}]
    BY <1>1, <1>2 DEF RelayStates
  <2> QED BY <1>1, <1>3, <2>1 DEF RelayStates
<1>8. RelayOK(q)
  <2>1. Small(relay, q)
    BY <1>1, <1>7 DEF Small
  <2>2. QueueOK(q) /\ GrantOK(q) /\ HeldOK(q)
    BY <1>1, <1>7 DEF RelayOK, QueueOK, GrantOK, HeldOK
  <2> QED BY <1>1, <2>1, <2>2, SmallGood
<1>9. Later(relay, q, 0)
  BY <1>7 DEF Later
<1>10. SocketsOK(relay, w)
  <2>1. SocketOK(relay, d, dev[d], s)
    BY <1>4, ReplayGood
  <2>2. w = [e \in Devices |-> w[e]] /\ \A e \in Devices : w[e] = IF e = d THEN s ELSE down[e]
    BY <1>1, <1>5 DEF SocketsOK
  <2> QED BY <1>1, <2>1, <2>2 DEF SocketsOK
<1>11. SocketsOK(q, w)
  BY <1>1, <1>7, <1>9, <1>10, SocketsStay
<1>12. WiresOK(q, u)
  BY <1>1, <1>5, <1>9, NoZero, WiresStay
<1>13. /\ ses' \in [Devices -> SessionStates]
       /\ \A e \in Devices : ses'[e].pend = ses[e].pend
  <2>1. PICK S : S = [ses[d] EXCEPT !.pc = "replaying", !.open = TRUE]
    OBVIOUS
  <2>2. ses' = [ses EXCEPT ![d] = S]
    BY <1>6, <2>1, SessionIs
  <2>3. S \in SessionStates /\ S.pend = ses[d].pend
    BY <2>1, SessionIs DEF SessionStates
  <2> QED BY <2>2, <2>3, SessionIs
<1>14. count' \in [ids : 0..MaxIds, drops : Nat, resumes : Nat] /\ count'.ids = count.ids
  BY <1>1, <1>6 DEF TypeInv
<1>15. TypeInv'
  BY <1>1, <1>6, <1>13, <1>14 DEF TypeInv
<1>16. PendOK'
  BY <1>1, <1>6, <1>13, <1>14 DEF PendOK
<1> QED BY <1>6, <1>8, <1>11, <1>12, <1>14, <1>15, <1>16, AfterGood

-----------------------------------------------------------------------------
(* A sequence is what it has at its places.                                  *)
LEMMA SameSeq ==
  ASSUME NEW S, NEW s \in Seq(S), NEW t \in Seq(S), Len(s) = Len(t),
         \A n \in 1..Len(s) : s[n] = t[n]
  PROVE  s = t
<1>1. s = [n \in 1..Len(s) |-> s[n]] /\ t = [n \in 1..Len(t) |-> t[n]]
  OBVIOUS
<1> QED BY <1>1

(* The room starts with nothing sent.                                       *)
LEMMA InitRelay ==
  ASSUME Init
  PROVE  TypeInv /\ PendOK /\ RelayOK(relay)
<1>1. PICK r : r = relay
  OBVIOUS
<1>2. /\ r \in RelayStates /\ r.queue = <<>> /\ r.grant = None /\ r.held = 0 /\ r.log = <<>>
      /\ \A d \in Devices : r.back[d] = <<>>
      /\ \A id \in Ids : r.rec[id] = "none"
  BY <1>1 DEF Init, RelayStates, Answers
<1>3. \A d \in Devices : /\ dev[d].out = 0 /\ dev[d].applied = <<>> /\ ~ dev[d].gone
                         /\ ses[d].pend = None
  BY DEF Init, Offline
<1>4. \A id \in Ids : sealed[id] = None
  BY DEF Init
<1>5. TypeInv
  <2>1. dev \in [Devices -> EngineStates]
    BY DEF Init, EngineStates
  <2>2. ses \in [Devices -> SessionStates]
    <3>1. PICK S : S = [Offline EXCEPT !.pc = "ready", !.open = TRUE]
      OBVIOUS
    <3>2. S = [pc |-> "ready", open |-> TRUE, pend |-> None, todo |-> <<>>, sure |-> FALSE]
      BY <3>1 DEF Offline
    <3>3. <<>> \in Seq(Kinds) /\ None \in Pends
      BY DEF Pends
    <3>4. S \in SessionStates
      BY <3>2, <3>3 DEF SessionStates
    <3>5. ses = [d \in Devices |-> S]
      BY <3>1 DEF Init
    <3> QED BY <3>4, <3>5
  <2>3. sealed \in [Ids -> Frames \cup {None}]
    BY DEF Init
  <2>4. count \in [ids : 0..MaxIds, drops : Nat, resumes : Nat]
    BY SessionAssumption DEF Init
  <2> QED BY <2>1, <2>2, <2>3, <2>4 DEF TypeInv
<1>6. PendOK
  BY <1>3 DEF PendOK
<1>7. LogOK(r)
  BY <1>2 DEF LogOK
<1>8. QueueOK(r) /\ GrantOK(r) /\ HeldOK(r)
  BY <1>2 DEF QueueOK, GrantOK, HeldOK
<1>9. OwnOK(r)
  BY <1>4 DEF OwnOK
<1>10. ASSUME NEW d \in Devices PROVE EngineOK(r, d, dev[d]) /\ BackOK(r, d, dev[d])
  <2>1. Sits(d, dev[d]) /\ Place(dev[d]) = 0
    BY <1>3 DEF Sits, Place
  <2>2. EngineOK(r, d, dev[d])
    BY <1>2, <1>3, <2>1 DEF EngineOK
  <2>3. BackOK(r, d, dev[d])
    BY <1>2, <2>1 DEF BackOK
  <2> QED BY <2>2, <2>3
<1>11. RelayOK(r)
  BY <1>2, <1>7, <1>8, <1>9, <1>10 DEF RelayOK
<1> QED BY <1>1, <1>5, <1>6, <1>11

LEMMA InitFits == Init => SInv
<1> SUFFICES ASSUME Init PROVE SInv
  OBVIOUS
<1>1. PICK r, w, u : r = relay /\ w = down /\ u = up
  OBVIOUS
<1>2. /\ w = [d \in Devices |-> w[d]] /\ u = [d \in Devices |-> u[d]]
      /\ \A d \in Devices : w[d] = <<>> /\ u[d] = <<>>
  BY <1>1 DEF Init
<1>3. SocketsOK(r, w)
  <2>1. ASSUME NEW d \in Devices PROVE SocketOK(r, d, dev[d], w[d])
    <3>1. w[d] = <<>> /\ <<>> \in Seq(DownMsgs) /\ Len(<<>>) = 0
      BY <1>2
    <3>2. \A n \in 1..0 : FALSE
      OBVIOUS
    <3> QED BY <3>1, <3>2 DEF SocketOK, EndOK
  <2> QED BY <1>2, <2>1 DEF SocketsOK
<1>4. WiresOK(r, u)
  <2>1. \A d \in Devices : u[d] \in Seq(UpMsgs) /\ \A n \in 1..Len(u[d]) : FALSE
    <3>1. <<>> \in Seq(UpMsgs) /\ Len(<<>>) = 0 /\ \A n \in 1..0 : FALSE
      OBVIOUS
    <3> QED BY <1>2, <3>1
  <2>2. OnceOK(u)
    BY <2>1 DEF OnceOK
  <2>3. \A d \in Devices : WireOK(r, d, dev[d], u[d])
    BY <2>1 DEF WireOK
  <2> QED BY <1>2, <2>2, <2>3 DEF WiresOK
<1> QED BY <1>1, <1>3, <1>4, InitRelay DEF SInv

LEMMA StayGood ==
  ASSUME SInv, UNCHANGED vars
  PROVE  SInv'
<1>1. PICK q, w, u : q = relay /\ w = down /\ u = up
  OBVIOUS
<1>2. /\ dev' = dev /\ ses' = ses /\ sealed' = sealed /\ count' = count
      /\ relay' = q /\ down' = w /\ up' = u
  BY <1>1 DEF vars
<1>3. TypeInv' /\ PendOK'
  BY <1>2 DEF SInv, TypeInv, PendOK
<1>4. RelayOK(q)'
  <2>1. RelayOK(q)
    BY <1>1 DEF SInv
  <2>2. LogOK(q)' /\ QueueOK(q)' /\ GrantOK(q)' /\ HeldOK(q)'
    BY <1>2, <2>1 DEF RelayOK, LogOK, QueueOK, GrantOK, HeldOK
  <2>3. OwnOK(q)'
    BY <1>2, <2>1 DEF RelayOK, OwnOK, DoneBy, Place
  <2>4. \A d \in Devices : EngineOK(q, d, dev[d])'
    BY <1>2, <2>1 DEF RelayOK, EngineOK, Sits, Place
  <2>5. \A d \in Devices : BackOK(q, d, dev[d])'
    BY <1>2, <2>1, SMTT(90) DEF RelayOK, BackOK, EntryOK, Place
  <2> QED BY <1>2, <2>1, <2>2, <2>3, <2>4, <2>5 DEF RelayOK
<1>5. SocketsOK(q, w)'
  BY <1>1, <1>2 DEF SInv, SocketsOK, SocketOK, DownOK, EntryOK, EndOK, DoneBy, Place
<1>6. WiresOK(q, u)'
  BY <1>1, <1>2 DEF SInv, WiresOK, WireOK, UpOK, OnceOK, DoneBy, Place
<1> QED BY <1>2, <1>3, <1>4, <1>5, <1>6 DEF SInv

(* Every step keeps the invariant.                                          *)
LEMMA StepFits == SInv /\ [Next]_vars => SInv'
<1> SUFFICES ASSUME SInv, [Next]_vars PROVE SInv'
  OBVIOUS
<1>1. CASE UNCHANGED vars
  BY <1>1, StayGood
<1>2. CASE \E d \in Devices : \/ \E k \in Kinds : Want(d, k)
                              \/ Handle(d) \/ Relay(d) \/ Swallow(d)
                              \/ Drop(d) \/ Notice(d) \/ Resume(d)
  BY <1>2, WantGood, HandlerGood, RelayStepGood, SwallowGood, DropGood, NoticeGood, ResumeGood
<1>3. CASE ExpireGrant \/ ExpireHeld
  BY <1>3, ExpireGood, ExpireHeldGood
<1> QED BY <1>1, <1>2, <1>3 DEF Next

(* The invariant holds always.                                              *)
LEMMA Ordered == Spec => []SInv
  BY InitFits, StepFits, PTL DEF Spec

(* A frame takes exactly the place in the order it was encrypted for         *)
(* (validateOutboundGrant, issueNextGrant).                                  *)
THEOREM InItsPlace == Spec => []CausallyNext
<1>1. ASSUME SInv PROVE CausallyNext
  <2>1. LogOK(relay) /\ relay.log \in Seq(Ids)
    BY <1>1 DEF SInv, RelayOK, RelayStates
  <2>2. DOMAIN relay.log = 1..Len(relay.log)
    BY <2>1
  <2> QED BY <2>1, <2>2 DEF CausallyNext, LogOK
<1>2. SInv => CausallyNext
  BY <1>1
<1> QED BY <1>2, Ordered, PTL

(* What the room has accepted its sender neither takes back nor pays for     *)
(* with its identity (rejectOutbound, acknowledgeOutbound).                  *)
THEOREM SenderKeeps == Spec => []AcceptedStays
<1>1. ASSUME SInv, NEW id \in ToSet(relay.log), NEW D, D = dev[sealed[id].by]
      PROVE  Knows(D, id) /\ (D.gone => D.out # id)
  <2>1. /\ relay \in RelayStates /\ LogOK(relay) /\ OwnOK(relay)
        /\ \A d \in Devices : EngineOK(relay, d, dev[d])
        /\ dev \in [Devices -> EngineStates] /\ sealed \in [Ids -> Frames \cup {None}]
    BY <1>1 DEF SInv, TypeInv, RelayOK
  <2>2. relay.log \in Seq(Ids)
    BY <2>1 DEF RelayStates
  <2>3. PICK n \in 1..Len(relay.log) : id = relay.log[n]
    BY <2>2 DEF ToSet
  <2>4. id \in Ids /\ sealed[id] # None /\ sealed[id].base = n - 1 /\ relay.rec[id] = "accepted"
    BY <2>1, <2>2, <2>3 DEF LogOK
  <2>5. sealed[id].by \in Devices
    BY <2>1, <2>4 DEF Frames
  <2>6. D.applied \in Seq(Ids) /\ EngineOK(relay, sealed[id].by, D)
    BY <1>1, <2>1, <2>5 DEF EngineStates
  <2>7. relay.rec[id] \notin Refused
    BY <2>4 DEF Refused
  <2>8. D.gone => D.out # id
    BY <2>6, <2>7 DEF EngineOK
  <2>9. CASE D.out = id
    <3>1. Len(D.applied) \in DOMAIN D.applied /\ D.applied[Len(D.applied)] = id
      BY <2>4, <2>6, <2>9 DEF EngineOK, Sits, Ids
    <3> QED BY <2>8, <3>1 DEF Knows, ToSet
  <2>10. CASE DoneBy(relay, D, id)
    <3>1. n - 1 < Place(D)
      BY <2>4, <2>7, <2>10 DEF DoneBy
    <3>2. Place(D) \in Int /\ Place(D) <= Len(D.applied)
      BY <2>6 DEF Place
    <3>3. n \in 1..Place(D) /\ n \in 1..Len(D.applied)
      BY <2>2, <2>3, <3>1, <3>2, <2>6
    <3>4. D.applied[n] = id
      BY <2>3, <2>6, <3>3 DEF EngineOK
    <3>5. n \in DOMAIN D.applied
      BY <2>6, <3>3
    <3> QED BY <2>8, <3>4, <3>5 DEF Knows, ToSet
  <2>11. D.out = id \/ DoneBy(relay, D, id)
    BY <1>1, <2>1, <2>4 DEF OwnOK
  <2> QED BY <2>9, <2>10, <2>11
<1>2. SInv => AcceptedStays
  BY <1>1 DEF AcceptedStays
<1> QED BY <1>2, Ordered, PTL

(* Places in order that leave none out.                                      *)
Covers(g, L, P, N) ==
  /\ \A i \in 1..L : g[i] \in (P + 1)..N
  /\ \A i, j \in 1..L : i < j => g[i] < g[j]
  /\ \A k \in (P + 1)..N : \E i \in 1..L : g[i] = k
FollowsOn(g, L, P) == \A i \in 1..L : g[i] = P + i

LEMMA NoneLeftOut ==
  ASSUME NEW P \in Nat, NEW N \in Nat, P <= N, NEW L \in Nat, NEW g, Covers(g, L, P, N)
  PROVE  L = N - P /\ FollowsOn(g, L, P)
<1> USE DEF Covers
<1> DEFINE Q == {k \in Nat : k <= N - P => k <= L /\ \A j \in 1..k : g[j] = P + j}
<1>1. 0 \in Q
  OBVIOUS
<1>2. ASSUME NEW k \in Nat, k \in Q PROVE k + 1 \in Q
  <2> SUFFICES ASSUME k + 1 <= N - P
               PROVE  k + 1 <= L /\ \A j \in 1..(k + 1) : g[j] = P + j
    OBVIOUS
  <2>1. k <= L /\ \A j \in 1..k : g[j] = P + j
    BY <1>2
  <2>2. PICK i \in 1..L : g[i] = P + (k + 1)
    OBVIOUS
  <2>3. i \notin 1..k
    BY <2>1, <2>2
  <2>4. k + 1 <= i /\ k + 1 \in 1..L
    BY <2>1, <2>2, <2>3
  <2>5. g[k + 1] <= P + (k + 1)
    <3>1. CASE i = k + 1
      BY <2>2, <3>1
    <3>2. CASE k + 1 < i
      <4>1. g[k + 1] < g[i] /\ g[k + 1] \in (P + 1)..N
        BY <2>2, <2>4, <3>2
      <4> QED BY <2>2, <4>1
    <3> QED BY <2>4, <3>1, <3>2
  <2>6. P + (k + 1) <= g[k + 1]
    <3>1. g[k + 1] \in (P + 1)..N
      BY <2>4
    <3>2. CASE k = 0
      BY <3>1, <3>2
    <3>3. CASE k # 0
      <4>1. k \in 1..k /\ k \in 1..L /\ k < k + 1
        BY <2>1, <3>3
      <4>2. g[k] = P + k /\ g[k] < g[k + 1]
        BY <2>1, <2>4, <4>1
      <4> QED BY <3>1, <4>2
    <3> QED BY <3>2, <3>3
  <2>7. g[k + 1] = P + (k + 1)
    BY <2>4, <2>5, <2>6
  <2>8. \A j \in 1..(k + 1) : j \in 1..k \/ j = k + 1
    OBVIOUS
  <2> QED BY <2>1, <2>4, <2>7, <2>8
<1> HIDE DEF Q
<1>3. Nat \subseteq Q
  BY <1>1, <1>2, Induction
<1>4. N - P \in Nat
  OBVIOUS
<1>5. N - P <= L /\ \A j \in 1..(N - P) : g[j] = P + j
  BY <1>3, <1>4 DEF Q
<1>6. L <= N - P
  <2> SUFFICES ASSUME N - P < L PROVE FALSE
    BY <1>4
  <2>1. N - P + 1 \in 1..L /\ g[N - P + 1] \in (P + 1)..N
    BY <1>4
  <2>2. CASE N - P = 0
    BY <2>1, <2>2
  <2>3. CASE N - P # 0
    <3>1. N - P \in 1..(N - P) /\ N - P \in 1..L /\ N - P < N - P + 1
      BY <1>4, <2>3
    <3>2. g[N - P] = P + (N - P) /\ g[N - P] < g[N - P + 1]
      BY <1>5, <2>1, <3>1
    <3> QED BY <2>1, <3>2
  <2> QED BY <2>2, <2>3
<1>7. L = N - P
  BY <1>4, <1>5, <1>6
<1> QED BY <1>5, <1>7 DEF FollowsOn

(* What a device has settled is the beginning of the order.                  *)
LEMMA Settled ==
  ASSUME SInv, NEW d \in Devices, NEW D, D = dev[d], NEW s, s = SettledOf(D)
  PROVE  /\ Place(D) \in Nat /\ Place(D) <= Len(relay.log)
         /\ s \in Seq(Ids) /\ Len(s) = Place(D)
         /\ \A n \in 1..Place(D) : s[n] = relay.log[n]
<1>1. D \in EngineStates /\ EngineOK(relay, d, D)
  BY DEF SInv, TypeInv, RelayOK
<1>2. D.applied \in Seq(Ids) /\ Len(D.applied) \in Nat
  BY <1>1 DEF EngineStates
<1>3. CASE D.out = 0
  <2>1. Place(D) = Len(D.applied) /\ s = D.applied
    BY <1>3 DEF Place, SettledOf, Idle
  <2> QED BY <1>1, <1>2, <2>1 DEF EngineOK
<1>4. CASE D.out # 0
  <2>1. Place(D) = Len(D.applied) - 1 /\ s = SubSeq(D.applied, 1, Len(D.applied) - 1)
    BY <1>4 DEF Place, SettledOf, Idle, Front
  <2>2. Len(D.applied) > 0
    BY <1>1, <1>4 DEF EngineOK, Sits
  <2>3. /\ s \in Seq(Ids) /\ Len(s) = Len(D.applied) - 1
        /\ \A n \in 1..(Len(D.applied) - 1) : s[n] = D.applied[n]
    BY <1>2, <2>1, <2>2
  <2> QED BY <1>1, <1>2, <2>1, <2>2, <2>3 DEF EngineOK
<1> QED BY <1>3, <1>4

(* What a backlog still holds for its device, in order, is the rest.         *)
News(b, s) == Filter(b, {e \in ToSet(b) : (e.t = "relay" \/ e.ok) /\ e.id \notin ToSet(s)})

IsRest(a, s, log) ==
  /\ a \in Seq(Entries) /\ Len(s) + Len(a) = Len(log)
  /\ \A i \in 1..Len(a) : a[i].id = log[Len(s) + i]

LEMMA NewsIsRest ==
  ASSUME SInv, NEW d \in Devices, NEW s, s = SettledOf(dev[d]),
         NEW b, b = relay.back[d], NEW a, a = News(b, s)
  PROVE  IsRest(a, s, relay.log)
<1> DEFINE r == relay
           T == {e \in ToSet(b) : (e.t = "relay" \/ e.ok) /\ e.id \notin ToSet(s)}
           g == [i \in 1..Len(a) |-> sealed[a[i].id].base + 1]
<1>1. PICK P, N, L : P = Place(dev[d]) /\ N = Len(r.log) /\ L = Len(a)
  OBVIOUS
<1>2. /\ r \in RelayStates /\ LogOK(r) /\ BackOK(r, d, dev[d])
      /\ sealed \in [Ids -> Frames \cup {None}]
  BY DEF SInv, TypeInv, RelayOK
<1>3. r.log \in Seq(Ids) /\ b \in Seq(Entries) /\ N \in Nat
  BY <1>1, <1>2 DEF RelayStates
<1>4. /\ P \in Nat /\ P <= N /\ s \in Seq(Ids) /\ Len(s) = P
      /\ \A n \in 1..P : s[n] = r.log[n]
  BY <1>1, Settled
<1>5. a \in Seq(Entries) /\ Len(a) \in Nat
  <2>1. a = Filter(b, T)
    BY DEF News
  <2> HIDE DEF T
  <2> QED BY <1>3, <2>1, FilterPicks
<1>6. PICK f : Picks(f, a, b, T, Len(b))
  <2>1. a = Filter(b, T)
    BY DEF News
  <2> HIDE DEF T
  <2> QED BY <1>3, <2>1, FilterPicks
<1>7. \A m, n \in 1..Len(b) : m < n /\ r.rec[b[m].id] = "accepted" =>
        sealed[b[m].id].base < sealed[b[n].id].base
  BY <1>2 DEF BackOK
(* An entry that brings the frame of place k. *)
<1>8. ASSUME NEW n \in 1..Len(b), b[n] \in T
      PROVE  /\ r.rec[b[n].id] = "accepted" /\ sealed[b[n].id].base + 1 \in (P + 1)..N
             /\ r.log[sealed[b[n].id].base + 1] = b[n].id
             /\ sealed[b[n].id].base \in Nat
  <2>1. EntryOK(r, d, b[n]) /\ b[n] \in Entries
    BY <1>2, <1>3 DEF BackOK
  <2>2. b[n].t = "relay" \/ b[n].ok
    BY <1>8
  <2>3. b[n].t \in {"relay", "result"} /\ b[n].id \in Ids
    BY <2>1 DEF Entries
  <2>4. r.rec[b[n].id] = "accepted"
    BY <2>1, <2>2, <2>3 DEF EntryOK
  <2>5. /\ sealed[b[n].id] # None /\ sealed[b[n].id].base + 1 \in 1..N
        /\ r.log[sealed[b[n].id].base + 1] = b[n].id
    BY <1>1, <1>2, <2>3, <2>4 DEF LogOK
  <2>6. sealed[b[n].id].base \in Nat
    BY <1>2, <2>3, <2>5 DEF Frames
  <2>7. b[n].id \notin ToSet(s)
    BY <1>8
  <2>8. PICK x : x = sealed[b[n].id].base
    OBVIOUS
  <2>9. x \in Nat /\ x + 1 \in 1..N /\ r.log[x + 1] = b[n].id
    BY <2>5, <2>6, <2>8
  <2>10. P \in Nat /\ N \in Nat /\ DOMAIN s = 1..P
    BY <1>3, <1>4
  <2>11. ~ (x + 1 <= P)
    <3> SUFFICES ASSUME x + 1 <= P PROVE FALSE
      OBVIOUS
    <3>1. x + 1 \in 1..P
      BY <2>9, <2>10
    <3>2. s[x + 1] = b[n].id
      BY <1>4, <2>9, <3>1
    <3> QED BY <2>7, <2>10, <3>1, <3>2 DEF ToSet
  <2>12. x + 1 \in (P + 1)..N
    BY <2>9, <2>10, <2>11
  <2> QED BY <2>4, <2>8, <2>9, <2>12
<1>9. /\ f \in [1..Len(a) -> 1..Len(b)]
      /\ \A i \in 1..Len(a) : a[i] = b[f[i]] /\ b[f[i]] \in T
      /\ \A i, j \in 1..Len(a) : i < j => f[i] < f[j]
      /\ \A k \in 1..Len(b) : b[k] \in T => \E i \in 1..Len(a) : f[i] = k
  <2> HIDE DEF T
  <2> QED BY <1>6 DEF Picks
<1>10. \A i \in 1..Len(a) : g[i] \in (P + 1)..N /\ r.log[g[i]] = a[i].id
  <2> SUFFICES ASSUME NEW i \in 1..Len(a) PROVE g[i] \in (P + 1)..N /\ r.log[g[i]] = a[i].id
    OBVIOUS
  <2>1. f[i] \in 1..Len(b) /\ a[i] = b[f[i]] /\ b[f[i]] \in T
    BY <1>9
  <2> HIDE DEF T
  <2> QED BY <1>8, <2>1
<1>11. \A i, j \in 1..Len(a) : i < j => g[i] < g[j]
  <2> SUFFICES ASSUME NEW i \in 1..Len(a), NEW j \in 1..Len(a), i < j PROVE g[i] < g[j]
    OBVIOUS
  <2>1. /\ f[i] \in 1..Len(b) /\ a[i] = b[f[i]] /\ b[f[i]] \in T
        /\ f[j] \in 1..Len(b) /\ a[j] = b[f[j]] /\ b[f[j]] \in T /\ f[i] < f[j]
    BY <1>9
  <2> HIDE DEF T
  <2>2. /\ r.rec[a[i].id] = "accepted" /\ sealed[a[i].id].base \in Nat
        /\ sealed[a[j].id].base \in Nat
    BY <1>8, <2>1
  <2>3. PICK m, n : m = f[i] /\ n = f[j]
    OBVIOUS
  <2>4. m \in 1..Len(b) /\ n \in 1..Len(b) /\ m < n /\ a[i] = b[m] /\ a[j] = b[n]
    BY <2>1, <2>3
  <2>5. r.rec[b[m].id] = "accepted"
    BY <2>2, <2>4
  <2> HIDE DEF r, g
  <2>7. sealed[b[m].id].base < sealed[b[n].id].base
    BY <1>7, <2>4, <2>5
  <2>6. sealed[a[i].id].base < sealed[a[j].id].base
    BY <2>4, <2>7
  <2>8. g[i] = sealed[a[i].id].base + 1 /\ g[j] = sealed[a[j].id].base + 1
    BY DEF g
  <2> QED BY <2>2, <2>6, <2>8
<1>12. \A k \in (P + 1)..N : \E i \in 1..Len(a) : g[i] = k
  <2> SUFFICES ASSUME NEW k \in (P + 1)..N PROVE \E i \in 1..Len(a) : g[i] = k
    OBVIOUS
  <2>1. k \in 1..N /\ k > P
    BY <1>3, <1>4
  <2>2. PICK n \in 1..Len(b) : b[n].id = r.log[k]
    BY <1>1, <1>2, <2>1 DEF BackOK
  <2>3. EntryOK(r, d, b[n]) /\ b[n] \in Entries
    BY <1>2, <1>3 DEF BackOK
  <2>4. sealed[r.log[k]].base = k - 1 /\ r.rec[r.log[k]] = "accepted"
    BY <1>1, <1>2, <2>1 DEF LogOK
  <2>5. b[n].t = "relay" \/ b[n].ok
    <3>1. CASE b[n].t = "relay"
      BY <3>1
    <3>2. CASE b[n].t = "result"
      <4>1. b[n].ok \in BOOLEAN /\ "accepted" # "rejected"
        BY <2>3, <3>2 DEF Entries
      <4> QED BY <2>2, <2>3, <2>4, <3>2, <4>1 DEF EntryOK
    <3> QED BY <2>3, <3>1, <3>2 DEF Entries
  <2>6. b[n].id \notin ToSet(s)
    <3> SUFFICES ASSUME NEW m \in 1..P, s[m] = b[n].id PROVE FALSE
      BY <1>4 DEF ToSet
    <3>1. r.log[m] = r.log[k] /\ m \in 1..N
      BY <1>3, <1>4, <2>2
    <3>2. sealed[r.log[m]].base = m - 1
      BY <1>1, <1>2, <3>1 DEF LogOK
    <3> QED BY <2>1, <2>4, <3>1, <3>2, <1>4
  <2>7. b[n] \in T
    BY <1>3, <2>5, <2>6 DEF ToSet
  <2> HIDE DEF T
  <2>8. PICK i \in 1..Len(a) : f[i] = n
    BY <1>9, <2>7
  <2>9. a[i].id = r.log[k]
    BY <1>9, <2>2, <2>8
  <2> QED BY <2>1, <2>4, <2>9
<1> HIDE DEF g
<1>13. PICK h : h = g
  OBVIOUS
<1>14. L = N - P /\ FollowsOn(h, L, P)
  <2>1. Covers(h, L, P, N)
    BY <1>1, <1>10, <1>11, <1>12, <1>13 DEF Covers
  <2>2. P \in Nat /\ N \in Nat /\ P <= N /\ L \in Nat
    BY <1>1, <1>3, <1>4, <1>5
  <2> QED BY <2>1, <2>2, NoneLeftOut
<1>15. \A i \in 1..Len(a) : a[i].id = r.log[Len(s) + i]
  <2>1. \A i \in 1..Len(a) : r.log[h[i]] = a[i].id
    BY <1>10, <1>13
  <2>2. \A i \in 1..Len(a) : h[i] = P + i
    BY <1>1, <1>14 DEF FollowsOn
  <2> QED BY <1>4, <2>1, <2>2
<1>16. Len(s) + Len(a) = Len(r.log)
  BY <1>1, <1>3, <1>4, <1>5, <1>14
<1> QED BY <1>5, <1>15, <1>16 DEF IsRest

(* No device misses, repeats or reorders an accepted frame, whatever is      *)
(* lost, replayed or refused: what it has settled and what its backlog still *)
(* holds for it make up the order of the room (receive, appendBacklog).      *)
THEOREM OrderReachesAll == Spec => []NothingSkipped
<1>1. ASSUME SInv, NEW d \in Devices PROVE SettledOf(dev[d]) \o StillIn(d) = relay.log
  <2>1. PICK s : s = SettledOf(dev[d])
    OBVIOUS
  <2>2. PICK b, a : b = relay.back[d] /\ a = News(b, s)
    OBVIOUS
  <2>3. PICK z : z = [n \in DOMAIN a |-> a[n].id]
    OBVIOUS
  <2>4. StillIn(d) = z
    BY <2>1, <2>2, <2>3 DEF StillIn, News
  <2>5. /\ a \in Seq(Entries) /\ Len(s) + Len(a) = Len(relay.log)
        /\ \A i \in 1..Len(a) : a[i].id = relay.log[Len(s) + i]
    <3>1. IsRest(a, s, relay.log)
      BY <1>1, <2>1, <2>2, NewsIsRest
    <3> QED BY <3>1 DEF IsRest
  <2>6. /\ s \in Seq(Ids) /\ relay.log \in Seq(Ids)
        /\ \A n \in 1..Len(s) : s[n] = relay.log[n]
    BY <1>1, <2>1, Settled DEF SInv, RelayOK, RelayStates
  <2>7. z \in Seq(Ids) /\ Len(z) = Len(a) /\ \A i \in 1..Len(z) : z[i] = relay.log[Len(s) + i]
    <3>1. \A i \in 1..Len(a) : a[i].id \in Ids
      BY <2>5 DEF Entries
    <3>2. z = [n \in 1..Len(a) |-> a[n].id] /\ Len(a) \in Nat
      BY <2>3, <2>5
    <3>3. z \in Seq(Ids) /\ Len(z) = Len(a)
      BY <3>1, <3>2
    <3> QED BY <2>5, <3>2, <3>3
  <2>8. s \o z \in Seq(Ids) /\ Len(s \o z) = Len(relay.log)
    BY <2>5, <2>6, <2>7
  <2>9. ASSUME NEW n \in 1..Len(s \o z) PROVE (s \o z)[n] = relay.log[n]
    <3>1. CASE n <= Len(s)
      BY <2>6, <2>7, <3>1
    <3>2. CASE n > Len(s)
      <4>1. n - Len(s) \in 1..Len(z) /\ (s \o z)[n] = z[n - Len(s)] /\ Len(s) + (n - Len(s)) = n
        BY <2>6, <2>7, <2>8, <3>2
      <4> QED BY <2>7, <4>1
    <3> QED BY <2>6, <3>1, <3>2
  <2>10. s \o z = relay.log
    BY <2>6, <2>8, <2>9, SameSeq
  <2> QED BY <2>1, <2>4, <2>10
<1>2. SInv => NothingSkipped
  BY <1>1 DEF NothingSkipped
<1> QED BY <1>2, Ordered, PTL
=============================================================================
