------------------------- MODULE DeviceIdentityProofs -------------------------
(***************************************************************************)
(* The store and the identities, for every number of tabs, room instances, *)
(* secrets and identities, whichever steps the tabs interleave: the        *)
(* registry is exact, nothing is sent that is not marked, an engine is     *)
(* what the store holds, and an identity the room has is erased only by    *)
(* the tab that created it.                                                *)
(***************************************************************************)
EXTENDS DeviceIdentity, TLAPS

\* What every record has, a function that EXCEPT may then change.
Whole(r) == {"rev", "life", "stage"} \subseteq DOMAIN r

\* The inductive form: the store has its shape, and what an older client
\* left is not unresolved, so that moving it leaves the registry alone.
Sound(st) ==
  /\ st = [recs |-> st.recs, reg |-> st.reg]
  /\ st.recs = [k \in Key |-> st.recs[k]]
  /\ \A k \in Key : st.recs[k] = NoRecord \/ Whole(st.recs[k])
  /\ \A i \in Instances : ~Unresolved(st.recs[OldKey(i)])
  /\ Exact(st)

\* No key of a credential is the key of an older client.
LEMMA KeysDiffer == \A i, s, j : KeyOf(i, s) # OldKey(j)
BY DEF KeyOf, OldKey

LEMMA EmptySound == Sound(EmptyStore)
<1>1. \A k \in Key : ~Unresolved(EmptyStore.recs[k])
  BY DEF EmptyStore, NoRecord, Unresolved
<1>2. \A i \in Instances : OldKey(i) \in Key
  BY DEF Key
<1> QED BY <1>1, <1>2 DEF Sound, EmptyStore, Exact

LEMMA InheritedSound ==
  ASSUME NEW s
  PROVE  Sound(Inherited(1, s, 1))
<1> DEFINE r == [rev |-> 1, life |-> "unscoped", dev |-> 1, founder |-> FALSE,
                 stage |-> "settled", secret |-> s]
           st == Inherited(1, s, 1)
<1>1. st = [recs |-> [k \in Key |-> IF k = OldKey(1) THEN r ELSE NoRecord], reg |-> {}]
  BY DEF Inherited
<1>2. ~Unresolved(r) /\ ~Unresolved(NoRecord) /\ Whole(r)
  BY DEF Unresolved, NoRecord, Whole
<1>3. \A i \in Instances : OldKey(i) \in Key
  BY DEF Key
<1> HIDE DEF r, st
<1>4. \A k \in Key : st.recs[k] = IF k = OldKey(1) THEN r ELSE NoRecord
  BY <1>1
<1>5. st = [recs |-> st.recs, reg |-> st.reg] /\ st.reg = {}
      /\ st.recs = [k \in Key |-> st.recs[k]]
  BY <1>1
<1>6. Sound(st)
  BY <1>2, <1>3, <1>4, <1>5 DEF Sound, Exact
<1> QED BY <1>6 DEF st

-----------------------------------------------------------------------------
(* The operations of the store *)

\* Creating an identity lists it, beside what was listed before.
LEMMA CreateSound ==
  ASSUME NEW st, Sound(st), NEW i, NEW s, NEW d, NEW f
  PROVE  Sound(Create(st, KeyOf(i, s), d, f))
<1> DEFINE k == KeyOf(i, s)
           new == Create(st, k, d, f)
           r == Fresh(k, d, f)
<1>1. new = [recs |-> [e \in Key |-> IF e = k THEN r ELSE st.recs[e]],
             reg |-> (st.reg \ {k}) \cup {k}]
  BY DEF Create, Sound, Others
<1>2. Whole(r) /\ Unresolved(r)
  BY DEF Fresh, Whole, Unresolved
<1>3. \A j \in Instances : OldKey(j) \in Key /\ OldKey(j) # k
  BY KeysDiffer DEF Key
<1> HIDE DEF r, k
<1>5. \A e \in Key : new.recs[e] = IF e = k THEN r ELSE st.recs[e]
  BY <1>1
<1>6. new = [recs |-> new.recs, reg |-> new.reg]
      /\ new.recs = [e \in Key |-> new.recs[e]]
  BY <1>1
<1>7. Exact(new)
  BY <1>1, <1>2, <1>5 DEF Sound, Exact
<1> HIDE DEF new
<1>8. \A e \in Key : new.recs[e] = NoRecord \/ Whole(new.recs[e])
  BY <1>2, <1>5 DEF Sound
<1>9. \A j \in Instances : ~Unresolved(new.recs[OldKey(j)])
  BY <1>3, <1>5 DEF Sound
<1>10. Sound(new)
  BY <1>6, <1>7, <1>8, <1>9 DEF Sound
<1> QED BY <1>10 DEF new, k

\* The content of a record is replaced, its lifecycle is kept.
LEMMA ReplaceSound ==
  ASSUME NEW st, Sound(st), NEW k, st.recs[k] # NoRecord, NEW stage
  PROVE  Sound(Replace(st, k, stage))
<1> DEFINE r == Replaced(st.recs[k], stage)
           new == Replace(st, k, stage)
<1>1. new = [recs |-> [e \in Key |-> IF e = k THEN r ELSE st.recs[e]], reg |-> st.reg]
  BY DEF Replace, Sound
<1>2. k \in Key => Whole(r) /\ r.life = st.recs[k].life
  BY DEF Sound, Whole, Replaced
<1>3. \A j \in Instances : OldKey(j) \in Key
  BY DEF Key
<1> HIDE DEF r
<1> QED BY <1>1, <1>2, <1>3 DEF Sound, Exact, Unresolved

\* A provisional record becomes ambiguous and stays listed.
LEMMA MarkAmbiguousSound ==
  ASSUME NEW st, Sound(st), NEW k
  PROVE  Sound(MarkAmbiguous(st, k))
<1> DEFINE r == Marked(st.recs[k])
           new == MarkAmbiguous(st, k)
<1>1. CASE st.recs[k].life # "provisional"
  BY <1>1 DEF MarkAmbiguous
<1>2. CASE st.recs[k].life = "provisional"
  <2>1. new = [recs |-> [e \in Key |-> IF e = k THEN r ELSE st.recs[e]], reg |-> st.reg]
    BY <1>2 DEF MarkAmbiguous, Sound
  <2>2. st.recs[k] # NoRecord
    BY <1>2 DEF NoRecord
  <2>3. k \in Key => Whole(r) /\ r.life = "ambiguous"
    BY <2>2 DEF Sound, Whole, Marked
  <2>4. \A j \in Instances : OldKey(j) \in Key
    BY DEF Key
  <2>5. Unresolved(st.recs[k])
    BY <1>2 DEF Unresolved
  <2>6. k \in Key => Unresolved(r)
    BY <2>3 DEF Unresolved
  <2> HIDE DEF r
  <2> QED BY <2>1, <2>3, <2>4, <2>5, <2>6 DEF Sound, Exact
<1> QED BY <1>1, <1>2

\* A resolved identity leaves the registry with its lifecycle.
LEMMA MarkEstablishedSound ==
  ASSUME NEW st, Sound(st), NEW k
  PROVE  Sound(MarkEstablished(st, k))
<1> DEFINE r == Resolved(st.recs[k])
           new == MarkEstablished(st, k)
<1>1. CASE ~Unresolved(st.recs[k])
  BY <1>1 DEF MarkEstablished
<1>2. CASE Unresolved(st.recs[k])
  <2>1. new = [recs |-> [e \in Key |-> IF e = k THEN r ELSE st.recs[e]],
               reg |-> st.reg \ {k}]
    BY <1>2 DEF MarkEstablished, Sound
  <2>2. st.recs[k] # NoRecord
    BY <1>2 DEF NoRecord, Unresolved
  <2>3. k \in Key => Whole(r) /\ r.life = "established"
    BY <2>2 DEF Sound, Whole, Resolved
  <2>4. \A j \in Instances : OldKey(j) \in Key
    BY DEF Key
  <2>5. k \in Key => ~Unresolved(r)
    BY <2>3 DEF Unresolved
  <2> HIDE DEF r
  <2> QED BY <2>1, <2>3, <2>4, <2>5 DEF Sound, Exact
<1> QED BY <1>1, <1>2

\* An erased identity is listed no more.
LEMMA EraseSound ==
  ASSUME NEW st, Sound(st), NEW k
  PROVE  Sound(Erase(st, k))
<1> DEFINE new == Erase(st, k)
<1>1. new = [recs |-> [e \in Key |-> IF e = k THEN NoRecord ELSE st.recs[e]],
             reg |-> IF Unresolved(st.recs[k]) THEN st.reg \ {k} ELSE st.reg]
  BY DEF Erase, Sound
<1>2. ~Unresolved(NoRecord)
  BY DEF NoRecord, Unresolved
<1>3. \A j \in Instances : OldKey(j) \in Key
  BY DEF Key
<1> QED BY <1>1, <1>2, <1>3 DEF Sound, Exact

\* Moving the record of an older client changes no unresolved identity.
LEMMA MoveSound ==
  ASSUME NEW st, Sound(st), NEW i, NEW s,
         st.recs[KeyOf(i, s)] = NoRecord, st.recs[OldKey(i)] # NoRecord
  PROVE  Sound(Move(st, OldKey(i), KeyOf(i, s)))
<1> DEFINE from == OldKey(i)
           to == KeyOf(i, s)
           r == Moved(st.recs[from])
           new == Move(st, from, to)
<1>1. new = [recs |-> [e \in Key |-> IF e = to THEN r
                         ELSE IF e = from THEN NoRecord ELSE st.recs[e]],
             reg |-> st.reg]
  BY DEF Move, Sound
<1>2. ~Unresolved(NoRecord)
  BY DEF NoRecord, Unresolved
<1>3. to \in Key => from \in Key /\ i \in Instances
  BY DEF Key, KeyOf, OldKey, Scoped
<1>4. from \in Key => i \in Instances
  BY DEF Key, KeyOf, OldKey, Scoped
<1>5. from \in Key => Whole(r) /\ r.life = "established"
  BY DEF Sound, Whole, Moved
<1>6. from \in Key => ~Unresolved(r) /\ ~Unresolved(st.recs[from])
  BY <1>4, <1>5 DEF Unresolved, Sound
<1>7. \A j \in Instances : OldKey(j) \in Key /\ OldKey(j) # to
  BY KeysDiffer DEF Key
<1>8. to # from /\ st.recs[to] = NoRecord
  BY KeysDiffer
<1> HIDE DEF r, to, from, new
<1>9. \A e \in Key : new.recs[e] = IF e = to THEN r
                        ELSE IF e = from THEN NoRecord ELSE st.recs[e]
  BY <1>1
<1>10. /\ new = [recs |-> new.recs, reg |-> new.reg]
       /\ new.recs = [e \in Key |-> new.recs[e]]
       /\ new.reg = st.reg
  BY <1>1
<1>11. \A e \in Key : Unresolved(new.recs[e]) <=> Unresolved(st.recs[e])
  BY <1>2, <1>3, <1>6, <1>8, <1>9
<1>12. Exact(new)
  BY <1>10, <1>11 DEF Sound, Exact
<1>13. \A e \in Key : new.recs[e] = NoRecord \/ Whole(new.recs[e])
  BY <1>3, <1>5, <1>9 DEF Sound
<1>14. \A j \in Instances : ~Unresolved(new.recs[OldKey(j)])
  BY <1>7, <1>11 DEF Sound
<1>15. Sound(new)
  BY <1>10, <1>12, <1>13, <1>14 DEF Sound
<1> QED BY <1>15 DEF new, to, from

-----------------------------------------------------------------------------
(* The steps *)

\* However an attempt ends, it leaves the store or erases one record.
LEMMA EndSound ==
  ASSUME Sound(store), NEW t,
         store' = store \/ store' = Erase(store, MemKey(t))
  PROVE  Sound(store')
BY EraseSound

LEMMA StopPendingSound ==
  ASSUME Sound(store), NEW t, StopPending(t, TRUE) \/ StopPending(t, FALSE)
  PROVE  Sound(store')
BY EndSound DEF StopPending, End

LEMMA ProtocolCloseSound ==
  ASSUME Sound(store), NEW t, ProtocolClose(t)
  PROVE  Sound(store')
<1>1. CASE StopPending(t, TRUE) \/ StopPending(t, FALSE)
  BY <1>1, StopPendingSound
<1>2. CASE End(t, FALSE, FALSE)
  BY <1>2, EndSound DEF End
<1> QED BY <1>1, <1>2 DEF ProtocolClose

\* What restore moves, whether it moves anything or not.
LEMMA RestoredSound ==
  ASSUME Sound(store), NEW i, NEW s
  PROVE  Sound(Restored(i, s))
<1>1. CASE OldRecord(i, s)
  BY <1>1, MoveSound DEF Restored, OldRecord, Stored
<1>2. CASE ~OldRecord(i, s)
  BY <1>2 DEF Restored
<1> QED BY <1>1, <1>2

\* Finding or making the identity of an attempt.
LEMMA CreateEngineSound ==
  ASSUME Sound(store), NEW t, NEW f, CreateEngine(t, f)
  PROVE  Sound(store')
<1>1. CASE ProtocolClose(t)
  BY <1>1, ProtocolCloseSound
<1>2. CASE store' = Create(store, Target(t), spare.dev, f)
  BY <1>2, CreateSound DEF Target
<1> QED BY <1>1, <1>2 DEF CreateEngine

LEMMA IdentifySound ==
  ASSUME Sound(store), NEW t, Identify(t)
  PROVE  Sound(store')
<1> DEFINE i == tab[t].conf.inst
           s == tab[t].conf.secret
<1>1. Sound(Restored(i, s))
  BY RestoredSound
<1>2. CASE IdentifyAgain(t)
  <2>1. CASE ProtocolClose(t)
    BY <2>1, ProtocolCloseSound
  <2>2. CASE store' = store
    BY <2>2
  <2> QED BY <1>2, <2>1, <2>2 DEF IdentifyAgain, Identified
<1>3. CASE IdentifyFounder(t)
  <2>1. CASE ProtocolClose(t) \/ StopPending(t, TRUE)
    BY <2>1, ProtocolCloseSound, StopPendingSound
  <2>2. CASE CreateEngine(t, TRUE)
    BY <2>2, CreateEngineSound
  <2>3. CASE store' = store \/ store' = Restored(i, s)
    BY <2>3, <1>1
  <2> QED BY <1>3, <2>1, <2>2, <2>3 DEF IdentifyFounder, Identified
<1>4. CASE IdentifyMember(t)
  <2>1. CASE ProtocolClose(t) \/ StopPending(t, TRUE)
    BY <2>1, ProtocolCloseSound, StopPendingSound
  <2>2. CASE CreateEngine(t, FALSE)
    BY <2>2, CreateEngineSound
  <2>3. CASE store' = Restored(i, s)
    BY <2>3, <1>1
  <2> QED BY <1>4, <2>1, <2>2, <2>3 DEF IdentifyMember, Identified
<1> QED BY <1>2, <1>3, <1>4 DEF Identify

LEMMA ClearSound ==
  ASSUME Sound(store), NEW t, Clear(t)
  PROVE  Sound(store')
<1> DEFINE i == tab[t].conf.inst
           s == tab[t].conf.secret
<1>1. CASE StopPending(t, TRUE)
  BY <1>1, StopPendingSound
<1>2. CASE store' = Erase(Restored(i, s), KeyOf(i, s))
  BY <1>2, RestoredSound, EraseSound
<1> QED BY <1>1, <1>2 DEF Clear

\* A compare-and-set: the operation commits at the revision that was read,
\* so its record is there, or the attempt ends.
LEMMA PresentWhenFits == \A t : Fits(t) => store.recs[MemKey(t)] # NoRecord
BY DEF Fits, AtRevision

LEMMA WriteSound ==
  ASSUME Sound(store), NEW t,
         \/ ProtocolClose(t)
         \/ store' = store
         \/ store' = MarkAmbiguous(store, MemKey(t))
         \/ store' = MarkEstablished(store, MemKey(t))
         \/ Fits(t) /\ \E stage : store' = Replace(store, MemKey(t), stage)
  PROVE  Sound(store')
<1>1. CASE ProtocolClose(t)
  BY <1>1, ProtocolCloseSound
<1>2. CASE store' = store
  BY <1>2
<1>3. CASE store' = MarkAmbiguous(store, MemKey(t))
  BY <1>3, MarkAmbiguousSound
<1>4. CASE store' = MarkEstablished(store, MemKey(t))
  BY <1>4, MarkEstablishedSound
<1>5. CASE Fits(t) /\ \E stage : store' = Replace(store, MemKey(t), stage)
  BY <1>5, ReplaceSound, PresentWhenFits
<1> QED BY <1>1, <1>2, <1>3, <1>4, <1>5

LEMMA UserSound ==
  ASSUME Sound(store), NEW t, User(t)
  PROVE  Sound(store')
<1>1. CASE \E mode \in {"setup", "join"}, s \in Secrets : Start(t, mode, s)
  BY <1>1 DEF Start
<1>2. CASE Cancel(t)
  BY <1>2, EndSound DEF Cancel, End
<1>3. CASE Disconnect(t) \/ Reload(t) \/ Reopen(t) \/ Takeover(t)
  BY <1>3 DEF Disconnect, Reload, Reopen, Restart, Takeover
<1> QED BY <1>1, <1>2, <1>3 DEF User

LEMMA ProceedsSound ==
  ASSUME Sound(store), NEW t, Proceeds(t)
  PROVE  Sound(store')
<1>1. CASE OpenSocket(t) \/ Granted(t) \/ Yield(t)
  BY <1>1 DEF OpenSocket, Granted, Grant, Yield
<1>2. CASE OnChallenge(t)
  BY <1>2, ProtocolCloseSound, StopPendingSound DEF OnChallenge, Proceed
<1>3. CASE Acquire(t) \/ TakeoverTimeout(t)
  BY <1>3, StopPendingSound DEF Acquire, Grant, TakeoverTimeout, Unlocked
<1>4. CASE Identify(t)
  BY <1>4, IdentifySound
<1>5. CASE Clear(t)
  BY <1>5, ClearSound
<1>6. CASE Frame(t)
  BY <1>6, WriteSound DEF Frame, Write
<1>7. CASE Mark(t)
  BY <1>7, WriteSound DEF Mark, Write
<1>8. CASE SendAuthentication(t)
  BY <1>8 DEF SendAuthentication
<1>9. CASE OnAuthenticated(t)
  BY <1>9, WriteSound DEF OnAuthenticated
<1>10. CASE Acknowledge(t)
  BY <1>10, WriteSound DEF Acknowledge, Write
<1>11. CASE CompleteJoin(t)
  BY <1>11, WriteSound DEF CompleteJoin, Write
<1>12. CASE Welcomed(t) \/ OnActive(t)
  BY <1>12, WriteSound DEF Welcomed, OnActive, Write
<1>13. CASE OnEstablished(t)
  BY <1>13, WriteSound DEF OnEstablished
<1>14. CASE OnRetired(t)
  BY <1>14, EndSound DEF OnRetired, End
<1>15. CASE OnRefused(t)
  <2>1. CASE StopPending(t, TRUE)
    BY <2>1, StopPendingSound
  <2>2. CASE store' = store \/ store' = Erase(store, MemKey(t))
    BY <2>2, EndSound
  <2> QED BY <1>15, <2>1, <2>2 DEF OnRefused, Again, End
<1> QED BY <1>1, <1>2, <1>3, <1>4, <1>5, <1>6, <1>7, <1>8, <1>9, <1>10,
           <1>11, <1>12, <1>13, <1>14, <1>15 DEF Proceeds

\* No transaction of any tab leaves the registry out of step.
LEMMA NextSound ==
  ASSUME Sound(store), [Next]_vars
  PROVE  Sound(store')
<1>1. CASE UNCHANGED vars
  BY <1>1 DEF vars
<1>2. ASSUME NEW t \in Tabs, User(t)
      PROVE  Sound(store')
  BY <1>2, UserSound
<1>3. ASSUME NEW t \in Tabs, Proceeds(t)
      PROVE  Sound(store')
  BY <1>3, ProceedsSound
<1>4. ASSUME NEW t \in Tabs, OnClose(t)
      PROVE  Sound(store')
  <2>1. CASE StopPending(t, TRUE) \/ StopPending(t, FALSE)
    BY <2>1, StopPendingSound
  <2>2. CASE ProtocolClose(t)
    BY <2>2, ProtocolCloseSound
  <2>3. CASE store' = store
    BY <2>3
  <2>4. StopPending(t, tab[t].may \/ Ambiguous(t)) => Sound(store')
    BY EndSound DEF StopPending, End
  <2> QED BY <1>4, <2>1, <2>2, <2>3, <2>4 DEF OnClose, Again
<1>5. CASE Room
  BY <1>5 DEF Room, Handle, HandleLate, Activate, Dismiss, Close
<1> QED BY <1>1, <1>2, <1>3, <1>4, <1>5 DEF Next

\* The registry of unresolved identities lists exactly the records that are
\* unresolved (cryptoStateStore.ts): the bound of createProvisionalOpaqueState
\* counts what it is about.
THEOREM RegistryIsExact == Spec => []RegistryExact
<1>1. Init => Sound(store)
  BY EmptySound, InheritedSound DEF Init
<1>2. Sound(store) /\ [Next]_vars => Sound(store)'
  BY NextSound
<1>3. Sound(store) => RegistryExact
  BY DEF Sound, RegistryExact
<1> QED BY <1>1, <1>2, <1>3, PTL DEF Spec

-----------------------------------------------------------------------------
(* The lock, the engines and what the room knows.  One invariant carries   *)
(* all three: a tab that has an engine holds the lock of its instance, the *)
(* store changes under that lock only, so the engine is the stored record; *)
(* and a device the room was told of is in no provisional record.          *)

Numbers == Instances \cup {0}

\* Where a controller has an engine, and where it has the lock.
Working == {"framing", "marking", "sending", "sent", "acking", "completing", "member"}
Locked == Working \cup {"identifying", "clearing"}
HasEngine(r) == r.eng # None \/ r.pc \in Working

ConfOK(c) ==
  /\ DOMAIN c = {"mode", "secret", "only", "inst", "setup", "resolved"}
  /\ c.inst \in Numbers /\ c.setup \in Numbers /\ c.secret \in Secrets
  /\ c.resolved \in {0, c.inst}
HintOK(h) == h # None => h.inst \in Instances

\* A controller r of tab t, with the locks h.
TabFields == {"pc", "conf", "recovery", "unresolved", "may", "discard", "forced",
              "tries", "hs", "eng", "lease", "chal", "ask"}
Leased(t, r, h) ==
  /\ r.lease \in Numbers
  /\ r.pc = "idle" => r.lease = 0
  /\ r.lease # 0 => /\ h[r.lease] = t /\ r.pc \notin {"locking", "queued"}
                    /\ r.conf.inst = r.lease /\ r.conf.resolved = r.lease
  /\ r.pc \in Locked => r.lease # 0
  /\ HasEngine(r) => r.lease # 0 /\ r.eng.inst = r.lease /\ r.eng.secret \in Secrets
Pinned(r) ==
  /\ r.pc \in {"locking", "queued"} =>
       /\ r.conf.inst \in Instances /\ r.conf.resolved = r.conf.inst
       /\ r.ask \in {"identifying", "clearing"}
       /\ r.ask = "clearing" => r.chal # r.conf.inst
  /\ r.pc = "clearing" => r.chal # r.conf.inst
  /\ r.pc = "sending" => r.eng.life # "provisional"
TabOK(t, r, h) ==
  /\ DOMAIN r = TabFields
  /\ r.chal \in Numbers /\ HintOK(r.recovery)
  /\ r.pc # "idle" => ConfOK(r.conf)
  /\ Leased(t, r, h)
  /\ Pinned(r)

\* The records of a store, each with a device of its own; the registry
\* lists nothing but keys.
RecFields == {"rev", "life", "dev", "founder", "stage", "secret"}
Present(st, k) == st.recs[k] # NoRecord
StoreOK(st) ==
  /\ st = [recs |-> st.recs, reg |-> st.reg]
  /\ st.recs = [k \in Key |-> st.recs[k]]
  /\ \A k \in Key : Present(st, k) =>
       DOMAIN st.recs[k] = RecFields /\ st.recs[k].dev \in Devices
  /\ \A i \in Instances, s \in Secrets :
       Present(st, KeyOf(i, s)) => st.recs[KeyOf(i, s)].secret = s
  /\ \A k, l \in Key : k # l /\ Present(st, k) /\ Present(st, l) =>
       st.recs[k].dev # st.recs[l].dev
  /\ st.reg \subseteq Key

\* The engine of a controller r is what the store st has.
Current(r, st) ==
  HasEngine(r) =>
    /\ Present(st, KeyOf(r.eng.inst, r.eng.secret))
    /\ r.eng = EngineOf(r.eng.inst, st.recs[KeyOf(r.eng.inst, r.eng.secret)])

\* A device that was used, and one the room may be told of.
Used(d, sp) == d \in Nat /\ d < sp.dev
Tellable(d, st, sp) ==
  Used(d, sp) /\ \A k \in Key : st.recs[k].life = "provisional" => st.recs[k].dev # d
SpareOK(sp, st) ==
  /\ DOMAIN sp = {"inst", "dev", "starts"} /\ sp.dev \in Nat
  /\ \A k \in Key : Present(st, k) => st.recs[k].dev < sp.dev

FrameOK(f, st, sp) ==
  f # None => f.inst \in Instances /\ f.dev \in Devices /\ Tellable(f.dev, st, sp)
NetOK(n, st, sp) ==
  /\ DOMAIN n = {"wire", "reply", "late"}
  /\ FrameOK(n.wire, st, sp) /\ FrameOK(n.late, st, sp)
RoomOK(rm, st, sp) ==
  /\ rm = [inst |-> rm.inst, secret |-> rm.secret, members |-> rm.members]
  /\ rm.inst \in Numbers
  /\ rm.members = [d \in Devices |-> rm.members[d]]
  /\ \A d \in Devices : rm.members[d] # "none" => Tellable(d, st, sp)

\* What was sent and what came back are about the engine at hand; who was
\* refused for good is no member, and no frame may make it one.
Refused(rm, d, i, nt) ==
  \/ rm.inst = i /\ rm.members[d] = "retired"
  \/ rm.inst # i /\ \A u \in Tabs : nt[u].late # None => nt[u].late.inst # i
Asked(r, n) ==
  /\ n.wire # None => /\ r.pc = "sent" /\ n.reply = None
                      /\ n.wire.dev = r.eng.dev /\ n.wire.inst = r.eng.inst
  /\ n.reply # None => r.pc = "sent" /\ n.reply # "room-retired"
Answered(r, n, rm, nt) ==
  n.reply # None /\ n.reply = "fresh-admission-required" =>
    Refused(rm, r.eng.dev, r.eng.inst, nt)

LInv ==
  /\ holder = [i \in Instances |-> holder[i]]
  /\ StoreOK(store) /\ SpareOK(spare, store) /\ RoomOK(room, store, spare)
  /\ tab = [t \in Tabs |-> tab[t]] /\ net = [t \in Tabs |-> net[t]]
  /\ \A t \in Tabs : /\ TabOK(t, tab[t], holder) /\ Current(tab[t], store)
                     /\ NetOK(net[t], store, spare)
                     /\ Asked(tab[t], net[t]) /\ Answered(tab[t], net[t], room, net)

-----------------------------------------------------------------------------
(* What a transaction of one instance leaves of the store *)

\* From store st to st2 only records of instance i change, each record has a
\* device of its own, and no device the room may be told of is provisional.
Follows(i, st, sp, st2, sp2) ==
  /\ StoreOK(st2) /\ SpareOK(sp2, st2)
  /\ \A k \in Key : k[1] # i => st2.recs[k] = st.recs[k]
  /\ \A d : Tellable(d, st, sp) => Tellable(d, st2, sp2)

\* No credential loses its record.
Keeps(st, st2) == \A k \in Scoped : Present(st, k) => Present(st2, k)

USE IdentityAssumption

LEMMA Keys ==
  /\ \A i \in Instances, s \in Secrets :
       KeyOf(i, s) \in Scoped /\ KeyOf(i, s) \in Key /\ KeyOf(i, s)[1] = i
  /\ \A i \in Instances : OldKey(i) \in Key /\ OldKey(i)[1] = i
  /\ \A k \in Scoped : \E i \in Instances, s \in Secrets : k = KeyOf(i, s)
  /\ \A k \in Key : \/ \E i \in Instances, s \in Secrets : k = KeyOf(i, s)
                    \/ \E i \in Instances : k = OldKey(i)
  /\ \A k \in Key : k[1] # 0
  /\ \A i, s, j, u : KeyOf(i, s) = KeyOf(j, u) => i = j /\ s = u
  /\ \A i, s, j : KeyOf(i, s) # OldKey(j)
<1>1. \A k \in Scoped : \E i \in Instances, s \in Secrets : k = KeyOf(i, s)
  <2>1. \A k \in Scoped : k[1] \in Instances /\ k[2] \in Secrets /\ k = <<k[1], k[2]>>
    BY DEF Scoped
  <2> QED BY <2>1 DEF KeyOf
<1>2. \A k \in Key : \/ \E i \in Instances, s \in Secrets : k = KeyOf(i, s)
                     \/ \E i \in Instances : k = OldKey(i)
  BY <1>1 DEF Key
<1>3. \A i, s, j, u : KeyOf(i, s)[1] = i /\ OldKey(j)[1] = j
  BY DEF KeyOf, OldKey
<1> QED BY <1>1, <1>2, <1>3 DEF Key, Scoped, KeyOf, OldKey

LEMMA SameFollows ==
  ASSUME NEW st, NEW sp, StoreOK(st), SpareOK(sp, st), NEW i
  PROVE  Follows(i, st, sp, st, sp) /\ Keeps(st, st)
BY DEF Follows, Keeps

LEMMA FollowsOn ==
  ASSUME NEW i, NEW st, NEW sp, NEW st2, NEW sp2, NEW st3, NEW sp3,
         Follows(i, st, sp, st2, sp2), Follows(i, st2, sp2, st3, sp3)
  PROVE  Follows(i, st, sp, st3, sp3)
BY DEF Follows

\* One record is changed, its device and its secret are not, and it does not
\* become provisional.
LEMMA ChangeFollows ==
  ASSUME NEW st, NEW sp, StoreOK(st), SpareOK(sp, st),
         NEW i \in Instances, NEW s \in Secrets, Present(st, KeyOf(i, s)),
         NEW r, NEW st2, NEW g, DOMAIN r = RecFields,
         r.dev = st.recs[KeyOf(i, s)].dev, r.secret = st.recs[KeyOf(i, s)].secret,
         r.life = "provisional" => st.recs[KeyOf(i, s)].life = "provisional",
         g \subseteq Key,
         st2 = [recs |-> [st.recs EXCEPT ![KeyOf(i, s)] = r], reg |-> g]
  PROVE  /\ Follows(i, st, sp, st2, sp) /\ Keeps(st, st2)
         /\ st2.recs[KeyOf(i, s)] = r /\ Present(st2, KeyOf(i, s))
<1> DEFINE k == KeyOf(i, s)
<1>1. k \in Key /\ k[1] = i
  BY Keys
<1>2. r # NoRecord
  BY DEF NoRecord, RecFields
<1>3. \A l \in Key : st2.recs[l] = IF l = k THEN r ELSE st.recs[l]
  BY DEF StoreOK
<1>4. st2 = [recs |-> st2.recs, reg |-> st2.reg] /\ st2.recs = [l \in Key |-> st2.recs[l]]
  BY <1>3 DEF StoreOK
<1>5. \A j \in Instances, u \in Secrets : KeyOf(j, u) = k => u = s
  BY Keys
<1>6. \A j \in Instances, u \in Secrets : KeyOf(j, u) \in Key
  BY Keys
<1>7. \A l \in Key : /\ Present(st2, l) => Present(st, l)
                     /\ Present(st, l) => Present(st2, l)
                     /\ Present(st, l) => st2.recs[l].dev = st.recs[l].dev
  BY <1>1, <1>2, <1>3 DEF Present
<1>8. \A l \in Key : Present(st, l) => /\ DOMAIN st2.recs[l] = RecFields
                                       /\ st2.recs[l].secret = st.recs[l].secret
  BY <1>1, <1>3 DEF StoreOK
<1> HIDE DEF k
<1>9. StoreOK(st2)
  <2>1. st2.reg \subseteq Key
    OBVIOUS
  <2>2. \A l, m \in Key : l # m /\ Present(st2, l) /\ Present(st2, m) =>
          st2.recs[l].dev # st2.recs[m].dev
    BY <1>7 DEF StoreOK
  <2>3. \A l \in Key : Present(st2, l) =>
          DOMAIN st2.recs[l] = RecFields /\ st2.recs[l].dev \in Devices
    BY <1>7, <1>8 DEF StoreOK
  <2>4. \A j \in Instances, u \in Secrets :
          Present(st2, KeyOf(j, u)) => st2.recs[KeyOf(j, u)].secret = u
    BY <1>6, <1>7, <1>8 DEF StoreOK
  <2> QED BY <1>4, <2>1, <2>2, <2>3, <2>4 DEF StoreOK
<1>10. SpareOK(sp, st2)
  BY <1>7 DEF SpareOK
<1>11. \A d : Tellable(d, st, sp) => Tellable(d, st2, sp)
  BY <1>1, <1>3 DEF Tellable, k
<1>12. \A l \in Key : l[1] # i => st2.recs[l] = st.recs[l]
  BY <1>1, <1>3
<1>13. Keeps(st, st2)
  BY <1>7 DEF Keeps, Key
<1> QED BY <1>1, <1>2, <1>3, <1>9, <1>10, <1>11, <1>12, <1>13 DEF Follows, Present, k

\* The transactions of an engine: the content is replaced, the identity is
\* marked ambiguous, or established.
LEMMA ReplaceFollows ==
  ASSUME NEW st, NEW sp, StoreOK(st), SpareOK(sp, st),
         NEW i \in Instances, NEW s \in Secrets, Present(st, KeyOf(i, s)), NEW stage
  PROVE  /\ Follows(i, st, sp, Replace(st, KeyOf(i, s), stage), sp)
         /\ Keeps(st, Replace(st, KeyOf(i, s), stage))
         /\ Present(Replace(st, KeyOf(i, s), stage), KeyOf(i, s))
<1> DEFINE k == KeyOf(i, s)
           r == Replaced(st.recs[k], stage)
           new == Replace(st, k, stage)
<1>1. k \in Key
  BY Keys
<1>2. DOMAIN st.recs[k] = RecFields
  BY <1>1 DEF StoreOK
<1>3. /\ DOMAIN r = RecFields /\ r.dev = st.recs[k].dev
      /\ r.secret = st.recs[k].secret /\ r.life = st.recs[k].life
  BY <1>2 DEF Replaced, RecFields
<1>4. new = [recs |-> [st.recs EXCEPT ![k] = r], reg |-> st.reg]
  BY DEF Replace, StoreOK
<1>6. st.reg \subseteq Key
  BY DEF StoreOK
<1> HIDE DEF r, new
<1>5. Follows(i, st, sp, new, sp) /\ Keeps(st, new) /\ Present(new, k)
  BY <1>3, <1>4, <1>6, ChangeFollows
<1> QED BY <1>5 DEF new

LEMMA MarkAmbiguousFollows ==
  ASSUME NEW st, NEW sp, StoreOK(st), SpareOK(sp, st),
         NEW i \in Instances, NEW s \in Secrets, Present(st, KeyOf(i, s))
  PROVE  /\ Follows(i, st, sp, MarkAmbiguous(st, KeyOf(i, s)), sp)
         /\ Keeps(st, MarkAmbiguous(st, KeyOf(i, s)))
         /\ Present(MarkAmbiguous(st, KeyOf(i, s)), KeyOf(i, s))
         /\ MarkAmbiguous(st, KeyOf(i, s)).recs[KeyOf(i, s)].life # "provisional"
<1> DEFINE k == KeyOf(i, s)
           r == Marked(st.recs[k])
           new == MarkAmbiguous(st, k)
<1>1. k \in Key
  BY Keys
<1>2. DOMAIN st.recs[k] = RecFields
  BY <1>1 DEF StoreOK
<1>3. /\ DOMAIN r = RecFields /\ r.dev = st.recs[k].dev
      /\ r.secret = st.recs[k].secret /\ r.life = "ambiguous"
  BY <1>2 DEF Marked, RecFields
<1>4. CASE st.recs[k].life = "provisional"
  <2>1. new = [recs |-> [st.recs EXCEPT ![k] = r], reg |-> st.reg]
    BY <1>4 DEF MarkAmbiguous, StoreOK
  <2>4. st.reg \subseteq Key
    BY DEF StoreOK
  <2> HIDE DEF r, new
  <2>2. Follows(i, st, sp, new, sp) /\ Keeps(st, new) /\ Present(new, k)
    BY <1>3, <1>4, <2>1, <2>4, ChangeFollows
  <2>3. new.recs[k] = r
    BY <1>1, <2>1 DEF StoreOK
  <2> QED BY <1>3, <2>2, <2>3 DEF new
<1>5. CASE st.recs[k].life # "provisional"
  <2>1. new = st
    BY <1>5 DEF MarkAmbiguous
  <2> QED BY <1>5, <2>1, SameFollows
<1> QED BY <1>4, <1>5

LEMMA MarkEstablishedFollows ==
  ASSUME NEW st, NEW sp, StoreOK(st), SpareOK(sp, st),
         NEW i \in Instances, NEW s \in Secrets, Present(st, KeyOf(i, s))
  PROVE  /\ Follows(i, st, sp, MarkEstablished(st, KeyOf(i, s)), sp)
         /\ Keeps(st, MarkEstablished(st, KeyOf(i, s)))
         /\ Present(MarkEstablished(st, KeyOf(i, s)), KeyOf(i, s))
<1> DEFINE k == KeyOf(i, s)
           r == Resolved(st.recs[k])
           new == MarkEstablished(st, k)
<1>1. k \in Key
  BY Keys
<1>2. DOMAIN st.recs[k] = RecFields
  BY <1>1 DEF StoreOK
<1>3. /\ DOMAIN r = RecFields /\ r.dev = st.recs[k].dev
      /\ r.secret = st.recs[k].secret /\ r.life = "established"
  BY <1>2 DEF Resolved, RecFields
<1>4. CASE Unresolved(st.recs[k])
  <2>1. new = [recs |-> [st.recs EXCEPT ![k] = r], reg |-> st.reg \ {k}]
    BY <1>4 DEF MarkEstablished, StoreOK
  <2>3. st.reg \ {k} \subseteq Key
    BY DEF StoreOK
  <2> HIDE DEF r, new
  <2>2. Follows(i, st, sp, new, sp) /\ Keeps(st, new) /\ Present(new, k)
    BY <1>3, <2>1, <2>3, ChangeFollows
  <2> QED BY <2>2 DEF new
<1>5. CASE ~Unresolved(st.recs[k])
  <2>1. new = st
    BY <1>5 DEF MarkEstablished
  <2> QED BY <2>1, SameFollows
<1> QED BY <1>4, <1>5

\* A record that is erased takes nothing else with it.
LEMMA EraseFollows ==
  ASSUME NEW st, NEW sp, StoreOK(st), SpareOK(sp, st),
         NEW i \in Instances, NEW s \in Secrets
  PROVE  /\ Follows(i, st, sp, Erase(st, KeyOf(i, s)), sp)
         /\ \A k \in Scoped : k # KeyOf(i, s) /\ Present(st, k) =>
              Present(Erase(st, KeyOf(i, s)), k)
<1> DEFINE k == KeyOf(i, s)
           new == Erase(st, k)
<1>1. k \in Key /\ k[1] = i
  BY Keys
<1>2. \A l \in Key : new.recs[l] = IF l = k THEN NoRecord ELSE st.recs[l]
  BY DEF StoreOK, Erase
<1>3. new = [recs |-> new.recs, reg |-> new.reg] /\ new.recs = [l \in Key |-> new.recs[l]]
  BY <1>2 DEF StoreOK, Erase
<1>4. NoRecord.life # "provisional"
  BY DEF NoRecord
<1>5. \A l \in Key : Present(new, l) => l # k /\ Present(st, l)
  BY <1>2 DEF Present
<1>6. \A j \in Instances, u \in Secrets : KeyOf(j, u) \in Key
  BY Keys
<1>12. new.reg \subseteq Key
  BY DEF Erase, StoreOK
<1> HIDE DEF new, k
<1>7. StoreOK(new)
  BY <1>2, <1>3, <1>5, <1>6, <1>12 DEF StoreOK
<1>8. SpareOK(sp, new)
  BY <1>2, <1>5 DEF SpareOK
<1>9. \A d : Tellable(d, st, sp) => Tellable(d, new, sp)
  BY <1>2, <1>4 DEF Tellable
<1>10. \A l \in Key : l[1] # i => new.recs[l] = st.recs[l]
  BY <1>1, <1>2
<1>11. \A l \in Scoped : l # k /\ Present(st, l) => Present(new, l)
  BY <1>2 DEF Present, Key
<1> QED BY <1>7, <1>8, <1>9, <1>10, <1>11 DEF Follows, new, k

\* The record of an older client moves with its device.
LEMMA MoveFollows ==
  ASSUME NEW st, NEW sp, StoreOK(st), SpareOK(sp, st),
         NEW i \in Instances, NEW s \in Secrets,
         ~Present(st, KeyOf(i, s)), Present(st, OldKey(i)),
         st.recs[OldKey(i)].secret = s
  PROVE  /\ Follows(i, st, sp, Move(st, OldKey(i), KeyOf(i, s)), sp)
         /\ Keeps(st, Move(st, OldKey(i), KeyOf(i, s)))
         /\ Present(Move(st, OldKey(i), KeyOf(i, s)), KeyOf(i, s))
         /\ Move(st, OldKey(i), KeyOf(i, s)).recs[KeyOf(i, s)].life = "established"
<1> DEFINE from == OldKey(i)
           to == KeyOf(i, s)
           r == Moved(st.recs[from])
           new == Move(st, from, to)
<1>1. /\ from \in Key /\ to \in Key /\ from # to /\ from[1] = i /\ to[1] = i
      /\ from \notin Scoped
  BY Keys
<1>2. \A l \in Key : new.recs[l] = IF l = to THEN r
                                   ELSE IF l = from THEN NoRecord ELSE st.recs[l]
  BY DEF StoreOK, Move
<1>3. new = [recs |-> new.recs, reg |-> new.reg] /\ new.recs = [l \in Key |-> new.recs[l]]
  BY <1>2 DEF StoreOK, Move
<1>4. DOMAIN st.recs[from] = RecFields /\ st.recs[from].dev \in Devices
  BY <1>1 DEF StoreOK
<1>5. /\ DOMAIN r = RecFields /\ r.dev = st.recs[from].dev
      /\ r.secret = s /\ r.life = "established"
  BY <1>4 DEF Moved, RecFields
<1>6. r # NoRecord
  BY <1>5 DEF NoRecord, RecFields
<1>7. NoRecord.life # "provisional"
  BY DEF NoRecord
<1>8. \A j \in Instances, u \in Secrets : KeyOf(j, u) \in Key
  BY Keys
<1>9. \A j \in Instances, u \in Secrets : KeyOf(j, u) = to => u = s
  BY Keys
<1>19. new.reg \subseteq Key
  BY DEF Move, StoreOK
<1> HIDE DEF new, to, from, r
<1>10. \A l \in Key : Present(new, l) =>
         \/ l = to
         \/ l # to /\ l # from /\ Present(st, l) /\ new.recs[l] = st.recs[l]
  BY <1>2 DEF Present
<1>11. Present(st, from) /\ new.recs[to] = r
  BY <1>1, <1>2 DEF from
<1>12. \A l, m \in Key : l # m /\ Present(new, l) /\ Present(new, m) =>
         new.recs[l].dev # new.recs[m].dev
  BY <1>1, <1>5, <1>10, <1>11 DEF StoreOK
<1>13. StoreOK(new)
  <2>1. \A l \in Key : Present(new, l) =>
          DOMAIN new.recs[l] = RecFields /\ new.recs[l].dev \in Devices
    BY <1>4, <1>5, <1>10, <1>11 DEF StoreOK
  <2>2. \A j \in Instances, u \in Secrets :
          Present(new, KeyOf(j, u)) => new.recs[KeyOf(j, u)].secret = u
    BY <1>5, <1>8, <1>9, <1>10, <1>11 DEF StoreOK
  <2> QED BY <1>3, <1>12, <1>19, <2>1, <2>2 DEF StoreOK
<1>14. SpareOK(sp, new)
  BY <1>1, <1>5, <1>10, <1>11 DEF SpareOK
<1>15. \A d : Tellable(d, st, sp) => Tellable(d, new, sp)
  BY <1>2, <1>5, <1>7 DEF Tellable
<1>16. \A l \in Key : l[1] # i => new.recs[l] = st.recs[l]
  BY <1>1, <1>2
<1>17. Keeps(st, new)
  BY <1>1, <1>2, <1>6 DEF Keeps, Present, Key
<1>18. Present(new, to)
  BY <1>6, <1>11 DEF Present
<1> QED BY <1>5, <1>11, <1>13, <1>14, <1>15, <1>16, <1>17, <1>18
    DEF Follows, new, to, from

\* A new identity is a device nobody was told of.
LEMMA CreateFollows ==
  ASSUME NEW st, NEW sp, StoreOK(st), SpareOK(sp, st),
         NEW i \in Instances, NEW s \in Secrets, NEW f,
         ~Present(st, KeyOf(i, s)), sp.dev \in Devices
  PROVE  /\ Follows(i, st, sp, Create(st, KeyOf(i, s), sp.dev, f),
                    [sp EXCEPT !.dev = sp.dev + 1])
         /\ Keeps(st, Create(st, KeyOf(i, s), sp.dev, f))
         /\ Create(st, KeyOf(i, s), sp.dev, f).recs[KeyOf(i, s)]
              = Fresh(KeyOf(i, s), sp.dev, f)
         /\ Present(Create(st, KeyOf(i, s), sp.dev, f), KeyOf(i, s))
<1> DEFINE k == KeyOf(i, s)
           r == Fresh(k, sp.dev, f)
           new == Create(st, k, sp.dev, f)
           sp2 == [sp EXCEPT !.dev = sp.dev + 1]
<1>1. k \in Key /\ k[1] = i /\ k[2] = s
  BY Keys DEF KeyOf
<1>2. \A l \in Key : new.recs[l] = IF l = k THEN r ELSE st.recs[l]
  BY DEF StoreOK, Create
<1>3. new = [recs |-> new.recs, reg |-> new.reg] /\ new.recs = [l \in Key |-> new.recs[l]]
  BY <1>2 DEF StoreOK, Create
<1>4. DOMAIN r = RecFields /\ r.dev = sp.dev /\ r.secret = s
  BY <1>1 DEF Fresh, RecFields
<1>5. r # NoRecord
  BY <1>4 DEF NoRecord, RecFields
<1>6. \A j \in Instances, u \in Secrets : KeyOf(j, u) \in Key
  BY Keys
<1>7. \A j \in Instances, u \in Secrets : KeyOf(j, u) = k => u = s
  BY Keys
<1>8. DOMAIN sp2 = {"inst", "dev", "starts"} /\ sp2.dev = sp.dev + 1 /\ sp.dev \in Nat
  BY DEF SpareOK
<1>22. new.reg \subseteq Key
  BY <1>1 DEF Create, Others, StoreOK
<1> HIDE DEF new, k, r, sp2
<1>9. \A l \in Key : Present(new, l) => (l = k \/ (l # k /\ Present(st, l)))
  BY <1>2 DEF Present
<1>10. \A l \in Key : l # k => new.recs[l] = st.recs[l]
  BY <1>2
<1>11. new.recs[k] = r
  BY <1>1, <1>2
<1>12. \A l \in Key : Present(st, l) => st.recs[l].dev \in Nat /\ st.recs[l].dev < sp.dev
  BY DEF StoreOK, SpareOK
<1>13. \A l, m \in Key : l # m /\ Present(new, l) /\ Present(new, m) =>
         new.recs[l].dev # new.recs[m].dev
  <2>1. SUFFICES ASSUME NEW l \in Key, NEW m \in Key, l # m, Present(new, l), Present(new, m)
                 PROVE  new.recs[l].dev # new.recs[m].dev
    OBVIOUS
  <2>2. CASE l = k
    BY <1>4, <1>8, <1>9, <1>10, <1>11, <1>12, <2>1, <2>2
  <2>3. CASE m = k
    BY <1>4, <1>8, <1>9, <1>10, <1>11, <1>12, <2>1, <2>3
  <2>4. CASE l # k /\ m # k
    BY <1>9, <1>10, <2>1, <2>4 DEF StoreOK
  <2> QED BY <2>2, <2>3, <2>4
<1>14. \A l \in Key : Present(new, l) =>
         DOMAIN new.recs[l] = RecFields /\ new.recs[l].dev \in Devices
  BY <1>4, <1>9, <1>10, <1>11 DEF StoreOK
<1>15. \A j \in Instances, u \in Secrets :
         Present(new, KeyOf(j, u)) => new.recs[KeyOf(j, u)].secret = u
  BY <1>4, <1>6, <1>7, <1>9, <1>10, <1>11 DEF StoreOK
<1>16. StoreOK(new)
  BY <1>3, <1>13, <1>14, <1>15, <1>22 DEF StoreOK
<1>17. SpareOK(sp2, new)
  BY <1>4, <1>8, <1>9, <1>10, <1>11, <1>12 DEF SpareOK
<1>18. \A d : Tellable(d, st, sp) => Tellable(d, new, sp2)
  BY <1>4, <1>8, <1>10, <1>11 DEF Tellable, Used
<1>19. \A l \in Key : l[1] # i => new.recs[l] = st.recs[l]
  BY <1>1, <1>10
<1>20. Keeps(st, new)
  BY <1>5, <1>10, <1>11 DEF Keeps, Present, Key
<1>21. Present(new, k)
  BY <1>5, <1>11 DEF Present
<1> QED BY <1>11, <1>16, <1>17, <1>18, <1>19, <1>20, <1>21
    DEF Follows, new, k, r, sp2

\* What restore leaves, and the identity it finds.
LEMMA RestoredFollows ==
  ASSUME StoreOK(store), SpareOK(spare, store), NEW i \in Instances, NEW s \in Secrets
  PROVE  /\ Follows(i, store, spare, Restored(i, s), spare)
         /\ Keeps(store, Restored(i, s))
         /\ Findable(i, s) => Present(Restored(i, s), KeyOf(i, s))
         /\ OldRecord(i, s) => Restored(i, s).recs[KeyOf(i, s)].life = "established"
<1>1. CASE OldRecord(i, s)
  <2>1. /\ ~Present(store, KeyOf(i, s)) /\ Present(store, OldKey(i))
        /\ store.recs[OldKey(i)].secret = s
    BY <1>1 DEF OldRecord, Stored, Present
  <2>2. Restored(i, s) = Move(store, OldKey(i), KeyOf(i, s))
    BY <1>1 DEF Restored
  <2> QED BY <2>1, <2>2, MoveFollows
<1>2. CASE ~OldRecord(i, s)
  <2>1. Restored(i, s) = store
    BY <1>2 DEF Restored
  <2>2. Findable(i, s) => Present(store, KeyOf(i, s))
    BY <1>2 DEF Findable, Stored, Present
  <2> QED BY <1>2, <2>1, <2>2, SameFollows
<1> QED BY <1>1, <1>2

-----------------------------------------------------------------------------
(* A step of one tab *)

\* Who has an engine or a lock has it alone.
LEMMA Leases ==
  ASSUME LInv, NEW t \in Tabs, NEW u \in Tabs, t # u
  PROVE  tab[t].lease # 0 => tab[t].lease # tab[u].lease
BY SMTT(20) DEF LInv, TabOK, Leased

\* The records of another tab's instance are left alone.
LEMMA CurrentKept ==
  ASSUME NEW i, NEW st, NEW sp, NEW st2, NEW sp2, Follows(i, st, sp, st2, sp2),
         NEW t, NEW r, NEW h, TabOK(t, r, h), Current(r, st), r.lease # 0 => r.lease # i
  PROVE  Current(r, st2)
<1>1. CASE ~HasEngine(r)
  BY <1>1 DEF Current
<1>2. CASE HasEngine(r)
  <2>1. r.lease \in Instances /\ r.eng.inst = r.lease /\ r.eng.secret \in Secrets
    BY <1>2 DEF TabOK, Leased, Numbers
  <2>2. st2.recs[KeyOf(r.eng.inst, r.eng.secret)] = st.recs[KeyOf(r.eng.inst, r.eng.secret)]
    BY <2>1, Keys, ZenonT(40) DEF Follows
  <2> QED BY <1>2, <2>2 DEF Current, Present
<1> QED BY <1>1, <1>2

LEMMA NetKept ==
  ASSUME NEW i, NEW st, NEW sp, NEW st2, NEW sp2, Follows(i, st, sp, st2, sp2), NEW n
  PROVE  NetOK(n, st, sp) => NetOK(n, st2, sp2)
BY DEF Follows, NetOK, FrameOK

\* What the invariant asks of one tab.
TabInv(t, r, n, h, st, sp, rm, nt) ==
  /\ TabOK(t, r, h) /\ Current(r, st) /\ NetOK(n, st, sp)
  /\ Asked(r, n) /\ Answered(r, n, rm, nt)

\* A step of tab t that leaves the locks of the others, and changes the
\* store as Follows says, needs to be looked at in t only.
LEMMA TabStep ==
  ASSUME LInv, NEW t \in Tabs, room' = room, NEW r, NEW n,
         tab' = [tab EXCEPT ![t] = r], net' = [net EXCEPT ![t] = n],
         holder' = [i \in Instances |-> holder'[i]],
         \A i \in Instances, u \in Tabs : u # t /\ holder[i] = u => holder'[i] = u,
         Follows(tab[t].lease, store, spare, store', spare'),
         n.late # None => n.late \in {net[t].late, net[t].wire},
         TabInv(t, r, n, holder', store', spare', room, net')
  PROVE  LInv'
<1>1. /\ tab' = [u \in Tabs |-> tab'[u]] /\ net' = [u \in Tabs |-> net'[u]]
      /\ \A u \in Tabs : /\ tab'[u] = IF u = t THEN r ELSE tab[u]
                         /\ net'[u] = IF u = t THEN n ELSE net[u]
  BY DEF LInv
<1>2. StoreOK(store') /\ SpareOK(spare', store')
  BY DEF Follows
<1>3. RoomOK(room', store', spare')
  BY DEF LInv, RoomOK, Follows
<1>4. ASSUME NEW u \in Tabs, u # t
      PROVE  TabInv(u, tab[u], net[u], holder', store', spare', room', net')
  <2>1. /\ TabOK(u, tab[u], holder) /\ Current(tab[u], store)
        /\ NetOK(net[u], store, spare) /\ Asked(tab[u], net[u])
        /\ Answered(tab[u], net[u], room, net)
    BY DEF LInv
  <2>2. TabOK(u, tab[u], holder')
    BY <1>4, <2>1 DEF TabOK, Leased, Numbers
  <2>3. Current(tab[u], store')
    BY <1>4, <2>1, CurrentKept, Leases
  <2>4. NetOK(net[u], store', spare')
    BY <2>1, NetKept
  <2>5. Answered(tab[u], net[u], room', net')
    <3>1. SUFFICES ASSUME net[u].reply # None, net[u].reply = "fresh-admission-required"
                   PROVE  Refused(room, tab[u].eng.dev, tab[u].eng.inst, net')
      BY DEF Answered
    <3>2. Refused(room, tab[u].eng.dev, tab[u].eng.inst, net)
      BY <2>1, <3>1 DEF Answered
    <3>3. tab[u].eng.inst = tab[u].lease /\ tab[u].lease # 0
      BY <2>1, <3>1 DEF Asked, TabOK, Leased, HasEngine, Working
    <3>4. net[t].wire # None => net[t].wire.inst = tab[t].lease
      BY DEF LInv, Asked, TabOK, Leased, HasEngine, Working
    <3>5. tab[t].lease # tab[u].lease
      BY <1>4, <3>3, Leases
    <3>6. \A v \in Tabs : net'[v].late # None =>
            \/ \E w \in Tabs : net[w].late # None /\ net'[v].late = net[w].late
            \/ net'[v].late.inst = tab[t].lease
      <4>1. SUFFICES ASSUME NEW v \in Tabs, net'[v].late # None
                     PROVE  \/ \E w \in Tabs : net[w].late # None /\ net'[v].late = net[w].late
                            \/ net'[v].late.inst = tab[t].lease
        OBVIOUS
      <4>2. CASE v # t
        BY <1>1, <4>1, <4>2
      <4>3. CASE v = t
        BY <1>1, <3>4, <4>1, <4>3
      <4> QED BY <4>2, <4>3
    <3> QED BY <3>2, <3>3, <3>5, <3>6 DEF Refused
  <2> QED BY <2>1, <2>2, <2>3, <2>4, <2>5 DEF TabInv
<1>5. \A u \in Tabs : TabInv(u, tab'[u], net'[u], holder', store', spare', room', net')
  BY <1>1, <1>4
<1> QED BY <1>1, <1>2, <1>3, <1>5 DEF LInv, TabInv

\* The browser frees the lock of a tab, and nobody else's.
LEMMA LockFreed ==
  ASSUME LInv, NEW t \in Tabs
  PROVE  /\ FreeLock(t) = [i \in Instances |-> FreeLock(t)[i]]
         /\ \A i \in Instances, u \in Tabs : u # t /\ holder[i] = u => FreeLock(t)[i] = u
BY DEF LInv, FreeLock, TabOK, Leased, Numbers

\* Nothing is under way on a socket that is closed, except what is late.
LEMMA HungUpOK ==
  ASSUME LInv, NEW t \in Tabs
  PROVE  \E n : /\ HungUp(t) = [net EXCEPT ![t] = n]
                /\ NetOK(n, store, spare) /\ n.wire = None /\ n.reply = None
                /\ n.late # None => n.late \in {net[t].late, net[t].wire}
<1> DEFINE n == [Quiet EXCEPT !.late = IF net[t].wire # None THEN net[t].wire ELSE net[t].late]
<1>1. HungUp(t) = [net EXCEPT ![t] = n]
  BY DEF HungUp
<1>2. DOMAIN n = {"wire", "reply", "late"} /\ n.wire = None /\ n.reply = None
      /\ n.late = IF net[t].wire # None THEN net[t].wire ELSE net[t].late
  BY DEF Quiet
<1>3. NetOK(net[t], store, spare)
  BY DEF LInv
<1> HIDE DEF n
<1>4. NetOK(n, store, spare)
  BY <1>2, <1>3 DEF NetOK, FrameOK
<1> QED BY <1>1, <1>2, <1>4

\* A tab that gives everything up, whatever it remembers.
LEMMA EndStep ==
  ASSUME LInv, NEW t \in Tabs, NEW rec, HintOK(rec), NEW x,
         tab' = [tab EXCEPT ![t] = Idle(rec, x)], holder' = FreeLock(t),
         net' = HungUp(t), room' = room, spare' = spare,
         Follows(tab[t].lease, store, spare, store', spare)
  PROVE  LInv'
<1> DEFINE r == Idle(rec, x)
<1>1. PICK n : /\ net' = [net EXCEPT ![t] = n]
               /\ NetOK(n, store, spare) /\ n.wire = None /\ n.reply = None
               /\ n.late # None => n.late \in {net[t].late, net[t].wire}
  BY HungUpOK
<1>2. /\ DOMAIN r = TabFields /\ r.pc = "idle" /\ r.eng = None /\ r.lease = 0
      /\ r.chal = 0 /\ r.recovery = rec
  BY DEF Idle, TabFields
<1> HIDE DEF r
<1>3. ~HasEngine(r) /\ r.pc \notin Locked
  BY <1>2 DEF HasEngine, Working, Locked
<1>4. TabOK(t, r, holder') /\ Current(r, store')
  BY <1>2, <1>3 DEF TabOK, Leased, Pinned, Current, Numbers
<1>5. NetOK(n, store', spare') /\ Asked(r, n) /\ Answered(r, n, room, net')
  BY <1>1, NetKept DEF Asked, Answered
<1>6. TabInv(t, r, n, holder', store', spare', room, net')
  BY <1>4, <1>5 DEF TabInv
<1>7. /\ holder' = [i \in Instances |-> holder'[i]]
      /\ \A i \in Instances, u \in Tabs : u # t /\ holder[i] = u => holder'[i] = u
  BY LockFreed
<1> QED BY <1>1, <1>6, <1>7, TabStep DEF r

-----------------------------------------------------------------------------
(* Ending an attempt *)

\* What EraseOnlyOwn asks of a step.
OwnErased ==
  \A k \in Scoped : Kept(k) /\ store'.recs[k] = NoRecord => \E t \in Tabs : ErasedBy(t, k)

LEMMA KeepsErasesNothing == Keeps(store, store') => OwnErased
BY DEF Keeps, OwnErased, Kept, Present

\* The hints a tab may keep name an instance.
LEMMA HintsOK ==
  ASSUME LInv, NEW t \in Tabs
  PROVE  /\ HintOK(None) /\ HintOK(tab[t].recovery)
         /\ HintOK(Forgotten(t, tab[t].conf))
         /\ tab[t].pc # "idle" => HintOK(Remembered(t, tab[t].conf))
         /\ tab[t].pc # "idle" /\ tab[t].conf.inst # 0 => HintOK(Hint(tab[t].conf))
<1>1. HintOK(None) /\ HintOK(tab[t].recovery)
  BY DEF LInv, TabOK, HintOK
<1>2. HintOK(Forgotten(t, tab[t].conf))
  BY <1>1 DEF Forgotten
<1>3. ASSUME tab[t].pc # "idle", tab[t].conf.inst # 0
      PROVE  HintOK(Hint(tab[t].conf))
  BY <1>3 DEF LInv, TabOK, ConfOK, Numbers, Hint, HintOK
<1>4. tab[t].pc # "idle" => HintOK(Remembered(t, tab[t].conf))
  BY <1>1, <1>3 DEF Remembered
<1> QED BY <1>1, <1>2, <1>3, <1>4

\* The record of the engine at hand.
LEMMA EngineHere ==
  ASSUME LInv, NEW t \in Tabs, HasEngine(tab[t])
  PROVE  /\ tab[t].lease \in Instances /\ holder[tab[t].lease] = t
         /\ Mem(t).inst = tab[t].lease /\ Mem(t).secret \in Secrets
         /\ MemKey(t) = KeyOf(tab[t].lease, Mem(t).secret)
         /\ MemKey(t) \in Scoped /\ MemKey(t) \in Key /\ MemKey(t)[1] = tab[t].lease
         /\ Present(store, MemKey(t))
         /\ Mem(t) = EngineOf(Mem(t).inst, store.recs[MemKey(t)])
         /\ Mem(t).dev = store.recs[MemKey(t)].dev /\ Mem(t).dev \in Devices
         /\ Mem(t).life = store.recs[MemKey(t)].life
<1>1. /\ tab[t].lease \in Instances /\ holder[tab[t].lease] = t
      /\ Mem(t).inst = tab[t].lease /\ Mem(t).secret \in Secrets
  BY DEF LInv, TabOK, Leased, Numbers, Mem
<1>2. /\ MemKey(t) = KeyOf(tab[t].lease, Mem(t).secret)
      /\ MemKey(t) \in Scoped /\ MemKey(t) \in Key /\ MemKey(t)[1] = tab[t].lease
  BY <1>1, Keys DEF MemKey
<1>3. /\ Present(store, MemKey(t))
      /\ Mem(t) = EngineOf(Mem(t).inst, store.recs[MemKey(t)])
  BY DEF LInv, Current, Mem, MemKey
<1>4. Mem(t).dev = store.recs[MemKey(t)].dev /\ Mem(t).life = store.recs[MemKey(t)].life
  BY <1>3 DEF EngineOf
<1>5. Mem(t).dev \in Devices
  BY <1>2, <1>3, <1>4 DEF LInv, StoreOK
<1> QED BY <1>1, <1>2, <1>3, <1>4, <1>5

\* What may be erased without asking: the room does not know it.
LEMMA ProvisionalUnknown ==
  ASSUME LInv, NEW t \in Tabs, HasEngine(tab[t]), Mem(t).life = "provisional"
  PROVE  ~Kept(MemKey(t))
<1>1. store.recs[MemKey(t)].life = "provisional" /\ MemKey(t) \in Key
      /\ store.recs[MemKey(t)].dev \in Devices
  BY EngineHere
<1>2. room.members[store.recs[MemKey(t)].dev] = "none"
  BY <1>1 DEF LInv, RoomOK, Tellable
<1> QED BY <1>2 DEF Kept

\* Erasing the engine at hand.
LEMMA EraseMine ==
  ASSUME LInv, NEW t \in Tabs, HasEngine(tab[t]), store' = Erase(store, MemKey(t))
  PROVE  /\ Follows(tab[t].lease, store, spare, store', spare)
         /\ ~Kept(MemKey(t)) \/ ErasedBy(t, MemKey(t)) => OwnErased
<1>1. /\ tab[t].lease \in Instances /\ Mem(t).secret \in Secrets
      /\ MemKey(t) = KeyOf(tab[t].lease, Mem(t).secret)
  BY EngineHere
<1>2. StoreOK(store) /\ SpareOK(spare, store)
  BY DEF LInv
<1>3. /\ Follows(tab[t].lease, store, spare, store', spare)
      /\ \A k \in Scoped : k # MemKey(t) /\ Present(store, k) => Present(store', k)
  BY <1>1, <1>2, EraseFollows
<1>4. \A k \in Scoped : Kept(k) /\ store'.recs[k] = NoRecord => k = MemKey(t)
  BY <1>3 DEF Kept, Present
<1> QED BY <1>3, <1>4 DEF OwnErased

LEMMA SameStore ==
  ASSUME LInv, NEW i
  PROVE  /\ Follows(i, store, spare, store, spare)
         /\ store' = store => OwnErased
BY SameFollows, KeepsErasesNothing DEF LInv

\* However an attempt ends, what it erases is unknown to the room or its own.
LEMMA EndOK ==
  ASSUME LInv, NEW t \in Tabs, tab[t].pc # "idle", NEW keep, NEW erase,
         End(t, keep, erase),
         erase => /\ HasEngine(tab[t])
                  /\ ~Kept(MemKey(t)) \/ ErasedBy(t, MemKey(t))
  PROVE  LInv' /\ OwnErased
<1>1. /\ \E rec, x : HintOK(rec) /\ tab' = [tab EXCEPT ![t] = Idle(rec, x)]
      /\ holder' = FreeLock(t) /\ net' = HungUp(t) /\ room' = room /\ spare' = spare
  BY HintsOK DEF End
<1>2. CASE store' = store
  BY <1>1, <1>2, SameStore, EndStep
<1>3. CASE store' # store
  <2>1. store' = Erase(store, MemKey(t)) /\ erase
    BY <1>3 DEF End
  <2>2. Follows(tab[t].lease, store, spare, store', spare) /\ OwnErased
    BY <2>1, EraseMine
  <2> QED BY <1>1, <2>2, EndStep
<1> QED BY <1>2, <1>3

LEMMA StopPendingOK ==
  ASSUME LInv, NEW t \in Tabs, tab[t].pc # "idle", NEW keep, StopPending(t, keep)
  PROVE  LInv' /\ OwnErased
<1>1. IsProvisional(t) => HasEngine(tab[t]) /\ ~Kept(MemKey(t))
  BY ProvisionalUnknown DEF IsProvisional, HasEngine, Mem
<1> QED BY <1>1, EndOK DEF StopPending

LEMMA ProtocolCloseOK ==
  ASSUME LInv, NEW t \in Tabs, tab[t].pc # "idle", ProtocolClose(t)
  PROVE  LInv' /\ OwnErased
<1>1. \/ \E keep : StopPending(t, keep)
      \/ End(t, FALSE, FALSE)
  BY DEF ProtocolClose
<1> QED BY <1>1, StopPendingOK, EndOK

LEMMA CancelOK ==
  ASSUME LInv, NEW t \in Tabs, Cancel(t)
  PROVE  LInv' /\ OwnErased
<1>1. IsProvisional(t) => HasEngine(tab[t]) /\ ~Kept(MemKey(t))
  BY ProvisionalUnknown DEF IsProvisional, HasEngine, Mem
<1> QED BY <1>1, EndOK DEF Cancel

LEMMA LeavingOK ==
  ASSUME LInv, NEW t \in Tabs, Disconnect(t) \/ Reload(t) \/ Reopen(t)
  PROVE  LInv' /\ OwnErased
<1>1. /\ \E rec, x : HintOK(rec) /\ tab' = [tab EXCEPT ![t] = Idle(rec, x)]
      /\ holder' = FreeLock(t) /\ net' = HungUp(t) /\ room' = room /\ spare' = spare
      /\ store' = store
  BY HintsOK DEF Disconnect, Reload, Reopen, Restart
<1> QED BY <1>1, SameStore, EndStep

LEMMA OnRetiredOK ==
  ASSUME LInv, NEW t \in Tabs, OnRetired(t)
  PROVE  LInv' /\ OwnErased
<1>1. HasEngine(tab[t]) /\ tab[t].pc # "idle"
  BY DEF OnRetired, Authed, HasEngine, Working
<1>2. ~Kept(MemKey(t))
  BY <1>1, EngineHere DEF OnRetired, Gone, Kept
<1> QED BY <1>1, <1>2, EndOK DEF OnRetired

-----------------------------------------------------------------------------
(* Dialing, the lock, and whose tab it is *)

\* A step of a tab that has nothing under way.
LEMMA QuietStep ==
  ASSUME LInv, NEW t \in Tabs, tab[t].pc # "sent", NEW r,
         tab' = [tab EXCEPT ![t] = r], net' = net, room' = room,
         holder' = [i \in Instances |-> holder'[i]],
         \A i \in Instances, u \in Tabs : u # t /\ holder[i] = u => holder'[i] = u,
         Follows(tab[t].lease, store, spare, store', spare'),
         TabOK(t, r, holder'), Current(r, store')
  PROVE  LInv'
<1>1. /\ NetOK(net[t], store, spare) /\ net[t].wire = None /\ net[t].reply = None
      /\ net' = [net EXCEPT ![t] = net[t]]
  BY DEF LInv, Asked
<1>2. NetOK(net[t], store', spare') /\ Asked(r, net[t]) /\ Answered(r, net[t], room, net')
  BY <1>1, NetKept DEF Asked, Answered
<1>3. TabInv(t, r, net[t], holder', store', spare', room, net')
  BY <1>2 DEF TabInv
<1> QED BY <1>1, <1>3, TabStep

\* A step of a tab that closes its socket.
LEMMA HungStep ==
  ASSUME LInv, NEW t \in Tabs, NEW r,
         tab' = [tab EXCEPT ![t] = r], net' = HungUp(t), room' = room,
         holder' = holder, store' = store, spare' = spare,
         TabOK(t, r, holder), Current(r, store)
  PROVE  LInv'
<1>1. PICK n : /\ net' = [net EXCEPT ![t] = n]
               /\ NetOK(n, store, spare) /\ n.wire = None /\ n.reply = None
               /\ n.late # None => n.late \in {net[t].late, net[t].wire}
  BY HungUpOK
<1>2. Asked(r, n) /\ Answered(r, n, room, net')
  BY <1>1 DEF Asked, Answered
<1>3. TabInv(t, r, n, holder', store', spare', room, net')
  BY <1>1, <1>2 DEF TabInv
<1>4. holder = [i \in Instances |-> holder[i]]
  BY DEF LInv
<1> QED BY <1>1, <1>3, <1>4, SameStore, TabStep

LEMMA TabHere ==
  ASSUME LInv, NEW t \in Tabs
  PROVE  /\ TabOK(t, tab[t], holder) /\ Current(tab[t], store)
         /\ holder = [i \in Instances |-> holder[i]]
         /\ \A i \in Instances, u \in Tabs : u # t /\ holder[i] = u => holder[i] = u
         /\ room.inst \in Numbers
BY DEF LInv, RoomOK

LEMMA StartOK ==
  ASSUME LInv, NEW t \in Tabs, NEW mode, NEW s \in Secrets, Start(t, mode, s)
  PROVE  LInv' /\ OwnErased
<1> DEFINE c == Configure(t, mode, s)
           r == [Idle(tab[t].recovery, tab[t].recovery # None) EXCEPT
                   !.pc = "dialing", !.conf = c, !.hs = TRUE]
<1>1. ConfOK(c)
  BY TabHere DEF Start, Configure, ConfOK, TabOK, HintOK, Numbers
<1> HIDE DEF c
<1>2. /\ DOMAIN r = TabFields /\ r.pc = "dialing" /\ r.eng = None /\ r.lease = 0
      /\ r.chal = 0 /\ r.recovery = tab[t].recovery /\ r.conf = c
  BY DEF Idle, TabFields
<1>3. tab' = [tab EXCEPT ![t] = r] /\ tab[t].pc # "sent"
  BY DEF Start, c
<1>4. Follows(tab[t].lease, store, spare, store', spare')
  <2>1. DOMAIN spare' = DOMAIN spare /\ spare'.dev = spare.dev
    BY DEF Start, LInv, SpareOK
  <2> QED BY <2>1 DEF LInv, Follows, SpareOK, Tellable, Used, Start
<1> HIDE DEF r
<1>5. TabOK(t, r, holder) /\ Current(r, store)
  BY <1>1, <1>2, TabHere DEF TabOK, Leased, Pinned, Current, HasEngine, Working, Locked, Numbers
<1>6. LInv'
  BY <1>3, <1>4, <1>5, TabHere, QuietStep DEF Start
<1> QED BY <1>6, SameStore DEF Start

LEMMA OpenSocketOK ==
  ASSUME LInv, NEW t \in Tabs, OpenSocket(t)
  PROVE  LInv' /\ OwnErased
<1> DEFINE r == [tab[t] EXCEPT !.pc = "challenged", !.chal = room.inst, !.ask = None]
<1>1. /\ DOMAIN r = TabFields /\ r.pc = "challenged" /\ r.eng = tab[t].eng
      /\ r.lease = tab[t].lease /\ r.chal = room.inst /\ r.recovery = tab[t].recovery
      /\ r.conf = tab[t].conf
  BY TabHere DEF TabOK, TabFields
<1>2. tab' = [tab EXCEPT ![t] = r] /\ tab[t].pc = "dialing"
  BY DEF OpenSocket
<1> HIDE DEF r
<1>3. TabOK(t, r, holder) /\ Current(r, store)
  BY <1>1, <1>2, TabHere DEF TabOK, Leased, Pinned, Current, HasEngine, Working, Locked
<1>4. holder' = holder /\ room' = room /\ spare' = spare /\ store' = store /\ net' = net
  BY DEF OpenSocket
<1>5. LInv'
  BY <1>2, <1>3, <1>4, TabHere, SameStore, QuietStep
<1> QED BY <1>4, <1>5, SameStore

LEMMA ProceedOK ==
  ASSUME LInv, NEW t \in Tabs, tab[t].pc = "challenged", NEW i \in Instances,
         NEW goal \in {"identifying", "clearing"}, Proceed(t, i, goal),
         tab[t].lease # 0 => tab[t].lease = i,
         goal = "clearing" => tab[t].chal # i
  PROVE  LInv' /\ OwnErased
<1> DEFINE c == [tab[t].conf EXCEPT !.inst = i, !.resolved = i]
           p == IF Holds(t) THEN goal ELSE "locking"
           r == [tab[t] EXCEPT !.pc = p, !.ask = goal, !.conf = c]
<1>1. tab' = [tab EXCEPT ![t] = r]
  BY DEF Proceed
<1>2. ConfOK(c) /\ c.inst = i /\ c.resolved = i
  BY TabHere DEF TabOK, ConfOK, Numbers
<1>3. p = IF tab[t].lease # 0 THEN goal ELSE "locking"
  BY TabHere DEF TabOK, Leased, Holds
<1> HIDE DEF c, p
<1>4. /\ DOMAIN r = TabFields /\ r.pc = p /\ r.eng = tab[t].eng
      /\ r.lease = tab[t].lease /\ r.chal = tab[t].chal /\ r.recovery = tab[t].recovery
      /\ r.conf = c /\ r.ask = goal
  BY TabHere DEF TabOK, TabFields
<1> HIDE DEF r
<1>5. TabOK(t, r, holder) /\ Current(r, store)
  BY <1>2, <1>3, <1>4, TabHere
     DEF TabOK, Leased, Pinned, Current, HasEngine, Working, Locked
<1>6. LInv'
  BY <1>1, <1>5, TabHere, SameStore, QuietStep DEF Proceed
<1> QED BY <1>6, SameStore DEF Proceed

LEMMA OnChallengeOK ==
  ASSUME LInv, NEW t \in Tabs, OnChallenge(t)
  PROVE  LInv' /\ OwnErased
<1>1. tab[t].pc = "challenged" /\ ConfOK(tab[t].conf) /\ tab[t].chal \in Numbers
      /\ (tab[t].lease # 0 => /\ tab[t].conf.inst = tab[t].lease
                              /\ tab[t].conf.resolved = tab[t].lease)
  BY TabHere DEF OnChallenge, TabOK, Leased
<1>2. CASE Unavailable(t)
  <2>1. tab[t].conf.inst \in Instances /\ tab[t].chal # tab[t].conf.inst
    BY <1>1, <1>2 DEF Unavailable, ConfOK, Numbers
  <2> QED BY <1>1, <1>2, <2>1, ProceedOK, StopPendingOK DEF OnChallenge
<1>3. CASE ~Unavailable(t) /\ Mismatched(t)
  BY <1>1, <1>3, ProtocolCloseOK DEF OnChallenge
<1>4. CASE ~Unavailable(t) /\ ~Mismatched(t)
  <2>1. Offered(t) \in Instances /\ (tab[t].lease # 0 => tab[t].lease = Offered(t))
    BY <1>1, <1>4 DEF Mismatched, Offered, ConfOK, Numbers
  <2> QED BY <1>1, <1>4, <2>1, ProceedOK DEF OnChallenge
<1> QED BY <1>2, <1>3, <1>4

\* The lock is granted to one tab, when no other has it.
LEMMA GrantOK ==
  ASSUME LInv, NEW t \in Tabs, tab[t].pc \in {"locking", "queued"}, Free(t), Grant(t)
  PROVE  LInv' /\ OwnErased
<1> DEFINE i == tab[t].conf.inst
           r == [tab[t] EXCEPT !.pc = tab[t].ask, !.ask = None, !.lease = tab[t].conf.inst]
<1>1. /\ i \in Instances /\ tab[t].ask \in {"identifying", "clearing"}
      /\ tab[t].conf.resolved = i /\ tab[t].lease = 0
      /\ tab[t].ask = "clearing" => tab[t].chal # i
  BY TabHere DEF TabOK, Leased, Pinned
<1>2. tab' = [tab EXCEPT ![t] = r] /\ holder' = [holder EXCEPT ![i] = t]
  BY DEF Grant
<1>3. /\ DOMAIN r = TabFields /\ r.pc = tab[t].ask /\ r.eng = tab[t].eng
      /\ r.lease = i /\ r.chal = tab[t].chal /\ r.recovery = tab[t].recovery
      /\ r.conf = tab[t].conf
  BY TabHere DEF TabOK, TabFields
<1>4. /\ holder' = [j \in Instances |-> holder'[j]] /\ holder'[i] = t
      /\ \A j \in Instances, u \in Tabs : u # t /\ holder[j] = u => holder'[j] = u
  BY <1>1, <1>2, TabHere DEF Free
<1> HIDE DEF r
<1>5. ~HasEngine(tab[t])
  BY <1>1, TabHere DEF TabOK, Leased
<1>6. ~HasEngine(r)
  BY <1>1, <1>3, <1>5 DEF HasEngine, Working
<1>7. TabOK(t, r, holder') /\ Current(r, store')
  BY <1>1, <1>3, <1>4, <1>6, TabHere DEF TabOK, Leased, Pinned, Current, Locked, Numbers
<1>8. LInv'
  BY <1>2, <1>4, <1>7, SameStore, QuietStep DEF Grant
<1> QED BY <1>8, SameStore DEF Grant

LEMMA UnlockedOK ==
  ASSUME LInv, NEW t \in Tabs, tab[t].pc \in {"locking", "queued"}, Unlocked(t)
  PROVE  LInv' /\ OwnErased
<1>1. CASE StopPending(t, TRUE)
  BY <1>1, StopPendingOK
<1>2. CASE tab[t].ask # "clearing"
  <2> DEFINE r == [tab[t] EXCEPT !.pc = "stopped", !.ask = None, !.hs = FALSE]
  <2>1. tab' = [tab EXCEPT ![t] = r]
    BY <1>2 DEF Unlocked
  <2>2. /\ DOMAIN r = TabFields /\ r.pc = "stopped" /\ r.eng = tab[t].eng
        /\ r.lease = tab[t].lease /\ r.chal = tab[t].chal /\ r.recovery = tab[t].recovery
        /\ r.conf = tab[t].conf
    BY TabHere DEF TabOK, TabFields
  <2> HIDE DEF r
  <2>3. TabOK(t, r, holder) /\ Current(r, store)
    BY <2>2, TabHere DEF TabOK, Leased, Pinned, Current, HasEngine, Working, Locked
  <2>4. LInv'
    BY <1>2, <2>1, <2>3, HungStep DEF Unlocked
  <2> QED BY <1>2, <2>4, SameStore DEF Unlocked
<1> QED BY <1>1, <1>2 DEF Unlocked

LEMMA TakeoverOK ==
  ASSUME LInv, NEW t \in Tabs, Takeover(t)
  PROVE  LInv' /\ OwnErased
<1> DEFINE r == [tab[t] EXCEPT !.pc = "queued"]
<1>1. tab' = [tab EXCEPT ![t] = r] /\ tab[t].pc = "locking"
  BY DEF Takeover
<1>2. /\ DOMAIN r = TabFields /\ r.pc = "queued" /\ r.eng = tab[t].eng
      /\ r.lease = tab[t].lease /\ r.chal = tab[t].chal /\ r.recovery = tab[t].recovery
      /\ r.conf = tab[t].conf /\ r.ask = tab[t].ask
  BY TabHere DEF TabOK, TabFields
<1> HIDE DEF r
<1>3. TabOK(t, r, holder) /\ Current(r, store)
  BY <1>1, <1>2, TabHere DEF TabOK, Leased, Pinned, Current, HasEngine, Working, Locked
<1>4. holder' = holder /\ room' = room /\ spare' = spare /\ store' = store /\ net' = net
  BY DEF Takeover
<1>5. LInv'
  BY <1>1, <1>3, <1>4, TabHere, SameStore, QuietStep
<1> QED BY <1>4, <1>5, SameStore

LEMMA YieldOK ==
  ASSUME LInv, NEW t \in Tabs, Yield(t)
  PROVE  LInv' /\ OwnErased
<1>1. room' = room /\ spare' = spare /\ store' = store
  BY DEF Yield
<1>2. CASE UNCHANGED <<tab, holder, net>>
  BY <1>1, <1>2, SameStore DEF LInv
<1>3. CASE LeaseAbort(t, tab[t].lease)
  <2>1. holder' = FreeLock(t)
    BY <1>3, TabHere DEF LeaseAbort, FreeLock
  <2>2. LInv'
    BY <1>1, <1>3, <2>1, HintsOK, SameStore, EndStep DEF LeaseAbort, Lost
  <2> QED BY <1>1, <2>2, SameStore
<1> QED BY <1>2, <1>3 DEF Yield

-----------------------------------------------------------------------------
(* Finding or making the identity *)

\* A controller that goes on with an engine of its instance.
LEMMA WithEngine ==
  ASSUME LInv, NEW t \in Tabs, tab[t].lease # 0, tab[t].pc # "idle", NEW r,
         DOMAIN r = TabFields, r.conf = tab[t].conf, r.lease = tab[t].lease,
         r.chal \in Numbers, HintOK(r.recovery),
         r.pc \notin {"idle", "locking", "queued"},
         r.eng.inst = tab[t].lease, r.eng.secret \in Secrets,
         r.pc = "clearing" => r.chal # r.conf.inst,
         r.pc = "sending" => r.eng.life # "provisional"
  PROVE  TabOK(t, r, holder)
BY TabHere DEF TabOK, Leased, Pinned

LEMMA IdentifiedOK ==
  ASSUME LInv, NEW t \in Tabs, tab[t].pc = "identifying", NEW e, NEW mode, NEW st,
         NEW discard, Identified(t, e, mode, st, discard),
         Follows(tab[t].lease, store, spare, st, spare), Keeps(store, st),
         NEW s \in Secrets, Present(st, KeyOf(tab[t].lease, s)),
         e = EngineOf(tab[t].lease, st.recs[KeyOf(tab[t].lease, s)])
  PROVE  LInv' /\ OwnErased
<1>1. CASE ProtocolClose(t)
  BY <1>1, ProtocolCloseOK
<1>2. CASE ~ProtocolClose(t)
  <2> DEFINE m == Forced(t, e, mode)
             r == [tab[t] EXCEPT !.pc = "framing", !.eng = e, !.ask = m,
                                 !.forced = None, !.discard = discard]
  <2>1. /\ tab' = [tab EXCEPT ![t] = r] /\ store' = st
        /\ holder' = holder /\ room' = room /\ spare' = spare /\ net' = net
    BY <1>2 DEF Identified
  <2> HIDE DEF m
  <2>2. /\ DOMAIN r = TabFields /\ r.pc = "framing" /\ r.eng = e
        /\ r.lease = tab[t].lease /\ r.chal = tab[t].chal /\ r.recovery = tab[t].recovery
        /\ r.conf = tab[t].conf
    BY TabHere DEF TabOK, TabFields
  <2>3. tab[t].lease \in Instances /\ tab[t].chal \in Numbers /\ HintOK(tab[t].recovery)
    BY TabHere DEF TabOK, Leased, Locked, Numbers
  <2> HIDE DEF r
  <2>4. e.inst = tab[t].lease /\ e.secret \in Secrets /\ Current(r, st)
    <3>1. StoreOK(st)
      BY DEF Follows
    <3>2. e.inst = tab[t].lease /\ e.secret = st.recs[KeyOf(tab[t].lease, s)].secret
      BY DEF EngineOf
    <3>3. e.secret = s
      BY <2>3, <3>1, <3>2 DEF StoreOK
    <3> QED BY <2>2, <3>2, <3>3 DEF Current
  <2>5. TabOK(t, r, holder)
    BY <2>2, <2>3, <2>4, WithEngine, 0 \notin Instances
  <2>6. LInv'
    BY <2>1, <2>4, <2>5, TabHere, QuietStep
  <2> QED BY <2>1, <2>6, KeepsErasesNothing
<1> QED BY <1>1, <1>2

LEMMA CreateEngineOK ==
  ASSUME LInv, NEW t \in Tabs, tab[t].pc = "identifying", NEW f, CreateEngine(t, f)
  PROVE  LInv' /\ OwnErased
<1>1. CASE ProtocolClose(t)
  BY <1>1, ProtocolCloseOK
<1>2. CASE ~ProtocolClose(t)
  <2> DEFINE i == tab[t].conf.inst
             s == tab[t].conf.secret
             e == EngineOf(i, Fresh(KeyOf(i, s), spare.dev, f))
             a == IF f THEN "setup" ELSE "join"
             r == [tab[t] EXCEPT !.pc = "framing", !.discard = TRUE, !.ask = a, !.eng = e]
  <2>1. /\ tab[t].lease \in Instances /\ i = tab[t].lease /\ s \in Secrets
        /\ tab[t].chal \in Numbers /\ HintOK(tab[t].recovery)
    BY TabHere DEF TabOK, Leased, ConfOK, Locked, Numbers
  <2>2. /\ tab' = [tab EXCEPT ![t] = r]
        /\ store' = Create(store, KeyOf(i, s), spare.dev, f)
        /\ spare' = [spare EXCEPT !.dev = spare.dev + 1]
        /\ holder' = holder /\ room' = room /\ net' = net
        /\ spare.dev \in Devices /\ ~Present(store, KeyOf(i, s))
    BY <1>2 DEF CreateEngine, Target, MayCreate, Present
  <2>3. StoreOK(store) /\ SpareOK(spare, store)
    BY DEF LInv
  <2>4. /\ Follows(i, store, spare, store', spare') /\ Keeps(store, store')
        /\ store'.recs[KeyOf(i, s)] = Fresh(KeyOf(i, s), spare.dev, f)
        /\ Present(store', KeyOf(i, s))
    <3> DEFINE st == Create(store, KeyOf(i, s), spare.dev, f)
    <3> HIDE DEF i, s, r, e, a
    <3>1. /\ Follows(i, store, spare, st, [spare EXCEPT !.dev = spare.dev + 1])
          /\ Keeps(store, st) /\ Present(st, KeyOf(i, s))
          /\ st.recs[KeyOf(i, s)] = Fresh(KeyOf(i, s), spare.dev, f)
      <4>1. i \in Instances /\ s \in Secrets /\ spare.dev \in Devices /\ ~Present(store, KeyOf(i, s))
        BY <2>1, <2>2
      <4>2. /\ Follows(i, store, spare, Create(store, KeyOf(i, s), spare.dev, f),
                       [spare EXCEPT !.dev = spare.dev + 1])
            /\ Keeps(store, Create(store, KeyOf(i, s), spare.dev, f))
            /\ Create(store, KeyOf(i, s), spare.dev, f).recs[KeyOf(i, s)]
                 = Fresh(KeyOf(i, s), spare.dev, f)
            /\ Present(Create(store, KeyOf(i, s), spare.dev, f), KeyOf(i, s))
        BY <2>3, <4>1, CreateFollows
      <4> QED BY <4>2
    <3> QED BY <2>2, <3>1
  <2> HIDE DEF e, a
  <2>5. /\ DOMAIN r = TabFields /\ r.pc = "framing" /\ r.eng = e
        /\ r.lease = tab[t].lease /\ r.chal = tab[t].chal /\ r.recovery = tab[t].recovery
        /\ r.conf = tab[t].conf
    BY TabHere DEF TabOK, TabFields
  <2> HIDE DEF r
  <2>6. e.inst = i /\ e.secret = s /\ Current(r, store')
    <3>1. StoreOK(store')
      BY <2>4 DEF Follows
    <3>2. e = EngineOf(i, store'.recs[KeyOf(i, s)])
      BY <2>4 DEF e
    <3> HIDE DEF i, s
    <3>3. e.inst = i /\ e.secret = store'.recs[KeyOf(i, s)].secret
      BY <3>2 DEF EngineOf
    <3>4. e.secret = s
      BY <2>1, <2>4, <3>1, <3>3 DEF StoreOK
    <3> QED BY <2>4, <2>5, <3>2, <3>3, <3>4 DEF Current
  <2>7. TabOK(t, r, holder)
    BY <2>1, <2>5, <2>6, WithEngine, 0 \notin Instances
  <2>8. LInv'
    BY <2>1, <2>2, <2>4, <2>6, <2>7, TabHere, QuietStep
  <2> QED BY <2>4, <2>8, KeepsErasesNothing
<1> QED BY <1>1, <1>2

\* What restore finds under the lock.
LEMMA FoundOK ==
  ASSUME LInv, NEW t \in Tabs, tab[t].pc \in Locked
  PROVE  LET i == tab[t].conf.inst
             s == tab[t].conf.secret
         IN /\ i \in Instances /\ i = tab[t].lease /\ s \in Secrets
            /\ Follows(i, store, spare, Restored(i, s), spare)
            /\ Keeps(store, Restored(i, s))
            /\ Findable(i, s) =>
                 /\ Present(Restored(i, s), KeyOf(i, s))
                 /\ Found(i, s) = EngineOf(i, Restored(i, s).recs[KeyOf(i, s)])
                 /\ Found(i, s).inst = i /\ Found(i, s).secret = s
                 /\ \A r : r.eng = Found(i, s) => Current(r, Restored(i, s))
            /\ Findable(i, s) /\ Found(i, s).life \in {"provisional", "ambiguous"} =>
                 Restored(i, s) = store
<1> DEFINE i == tab[t].conf.inst
           s == tab[t].conf.secret
<1>1. i \in Instances /\ i = tab[t].lease /\ s \in Secrets
  BY TabHere DEF TabOK, Leased, ConfOK, Locked, Working, Numbers
<1>2. StoreOK(store) /\ SpareOK(spare, store)
  BY DEF LInv
<1>3. /\ Follows(i, store, spare, Restored(i, s), spare)
      /\ Keeps(store, Restored(i, s))
      /\ Findable(i, s) => Present(Restored(i, s), KeyOf(i, s))
      /\ OldRecord(i, s) => Restored(i, s).recs[KeyOf(i, s)].life = "established"
  BY <1>1, <1>2, RestoredFollows
<1>4. Found(i, s) = EngineOf(i, Restored(i, s).recs[KeyOf(i, s)])
  BY DEF Found
<1>5. Findable(i, s) =>
        /\ Found(i, s).inst = i /\ Found(i, s).secret = s
        /\ Found(i, s).life = Restored(i, s).recs[KeyOf(i, s)].life
        /\ \A r : r.eng = Found(i, s) => Current(r, Restored(i, s))
  <2>1. StoreOK(Restored(i, s))
    BY <1>3 DEF Follows
  <2>2. /\ Found(i, s).life = Restored(i, s).recs[KeyOf(i, s)].life
        /\ Found(i, s).secret = Restored(i, s).recs[KeyOf(i, s)].secret
        /\ Found(i, s).inst = i
    BY <1>4, SMTT(20) DEF EngineOf
  <2>3. Findable(i, s) => Found(i, s).secret = s
    BY <1>1, <1>3, <2>1, <2>2 DEF StoreOK
  <2> HIDE DEF i, s
  <2> QED BY <1>3, <1>4, <2>2, <2>3 DEF Current
<1>6. ~OldRecord(i, s) => Restored(i, s) = store
  BY DEF Restored
<1> QED BY <1>1, <1>3, <1>4, <1>5, <1>6

LEMMA IdentifyOK ==
  ASSUME LInv, NEW t \in Tabs, Identify(t)
  PROVE  LInv' /\ OwnErased
<1> DEFINE i == tab[t].conf.inst
           s == tab[t].conf.secret
           e == Found(i, s)
<1>1. tab[t].pc = "identifying"
  BY DEF Identify
<1>2. /\ i \in Instances /\ i = tab[t].lease /\ s \in Secrets
      /\ Follows(i, store, spare, Restored(i, s), spare)
      /\ Keeps(store, Restored(i, s))
      /\ Findable(i, s) =>
           /\ Present(Restored(i, s), KeyOf(i, s))
           /\ e = EngineOf(i, Restored(i, s).recs[KeyOf(i, s)])
           /\ e.inst = i /\ e.secret = s
           /\ \A r : r.eng = e => Current(r, Restored(i, s))
      /\ Findable(i, s) /\ e.life \in {"provisional", "ambiguous"} => Restored(i, s) = store
  BY <1>1, FoundOK DEF Locked
<1> HIDE DEF e
<1>3. CASE ProtocolClose(t) \/ StopPending(t, TRUE)
  BY <1>1, <1>3, ProtocolCloseOK, StopPendingOK
<1>4. CASE CreateEngine(t, TRUE) \/ CreateEngine(t, FALSE)
  BY <1>1, <1>4, CreateEngineOK
<1>5. CASE Mem(t) # None /\ \E mode : Identified(t, Mem(t), mode, store, tab[t].discard)
  <2>1. HasEngine(tab[t])
    BY <1>5 DEF HasEngine, Mem
  <2>2. /\ Mem(t).secret \in Secrets /\ MemKey(t) = KeyOf(tab[t].lease, Mem(t).secret)
        /\ Present(store, MemKey(t)) /\ Mem(t).inst = tab[t].lease
        /\ Mem(t) = EngineOf(Mem(t).inst, store.recs[MemKey(t)])
    BY <2>1, EngineHere
  <2>3. Follows(tab[t].lease, store, spare, store, spare) /\ Keeps(store, store)
    BY SameFollows DEF LInv
  <2> QED BY <1>1, <1>5, <2>2, <2>3, IdentifiedOK
<1>6. CASE /\ Findable(i, s)
           /\ \E mode, discard : Identified(t, e, mode, Restored(i, s), discard)
  BY <1>1, <1>2, <1>6, IdentifiedOK
<1>7. CASE /\ tab[t].chal = 0 /\ Findable(i, s) /\ store' = Restored(i, s)
           /\ tab' = [tab EXCEPT ![t] = [tab[t] EXCEPT !.pc = "clearing", !.eng = e]]
           /\ UNCHANGED <<holder, asked, room, spare, net>>
  <2> DEFINE r == [tab[t] EXCEPT !.pc = "clearing", !.eng = e]
  <2>1. /\ DOMAIN r = TabFields /\ r.pc = "clearing" /\ r.eng = e
        /\ r.lease = tab[t].lease /\ r.chal = tab[t].chal /\ r.recovery = tab[t].recovery
        /\ r.conf = tab[t].conf
    BY TabHere DEF TabOK, TabFields
  <2>2. tab[t].chal \in Numbers /\ HintOK(tab[t].recovery)
    BY TabHere DEF TabOK
  <2> HIDE DEF r
  <2>3. TabOK(t, r, holder)
    BY <1>1, <1>2, <1>7, <2>1, <2>2, WithEngine, 0 \notin Instances
  <2>4. Current(r, store')
    BY <1>2, <1>7, <2>1
  <2>5. LInv'
    <3>1. tab' = [tab EXCEPT ![t] = r]
      BY <1>7 DEF r
    <3>2. Follows(tab[t].lease, store, spare, store', spare')
      BY <1>2, <1>7
    <3>3. holder' = holder /\ room' = room /\ net' = net
      BY <1>7
    <3>4. TabOK(t, r, holder') /\ holder' = [j \in Instances |-> holder'[j]]
      BY <2>3, <3>3, TabHere
    <3>5. \A j \in Instances, u \in Tabs : u # t /\ holder[j] = u => holder'[j] = u
      BY <3>3
    <3>6. tab[t].pc # "sent"
      BY <1>1
    <3> QED BY <2>4, <3>1, <3>2, <3>3, <3>4, <3>5, <3>6, QuietStep
  <2> QED BY <1>2, <1>7, <2>5, KeepsErasesNothing
<1>8. CASE Mem(t) # None
  BY <1>3, <1>5, <1>8 DEF Identify, IdentifyAgain
<1>9. CASE Mem(t) = None /\ tab[t].chal = 0
  <2>1. IdentifyFounder(t)
    BY <1>9 DEF Identify
  <2>2. CASE \/ CreateEngine(t, TRUE) \/ StopPending(t, TRUE)
    BY <1>3, <1>4, <2>2
  <2>3. CASE ~CreateEngine(t, TRUE) /\ ~StopPending(t, TRUE)
    BY <1>2, <1>6, <1>7, <1>9, <2>1, <2>3 DEF IdentifyFounder, e
  <2> QED BY <2>2, <2>3
<1>10. CASE Mem(t) = None /\ tab[t].chal # 0
  <2>1. IdentifyMember(t)
    BY <1>10 DEF Identify
  <2> QED BY <1>3, <1>4, <1>6, <2>1 DEF IdentifyMember, e
<1> QED BY <1>8, <1>9, <1>10

\* Clearing up erases the identity of an instance that is gone.
LEMMA ClearOK ==
  ASSUME LInv, NEW t \in Tabs, Clear(t)
  PROVE  LInv' /\ OwnErased
<1> DEFINE i == tab[t].conf.inst
           s == tab[t].conf.secret
           st == Restored(i, s)
<1>1. tab[t].pc = "clearing" /\ tab[t].chal # i
  BY TabHere DEF Clear, TabOK, Pinned
<1>2. /\ i \in Instances /\ i = tab[t].lease /\ s \in Secrets
      /\ Follows(i, store, spare, st, spare) /\ Keeps(store, st)
  BY <1>1, FoundOK DEF Locked
<1>3. CASE StopPending(t, TRUE)
  BY <1>1, <1>3, StopPendingOK
<1>4. CASE ~StopPending(t, TRUE)
  <2>1. /\ store' = Erase(st, KeyOf(i, s))
        /\ tab' = [tab EXCEPT ![t] = Idle(Forgotten(t, tab[t].conf), FALSE)]
        /\ holder' = FreeLock(t) /\ net' = HungUp(t) /\ room' = room /\ spare' = spare
    BY <1>4 DEF Clear
  <2>2. StoreOK(st) /\ SpareOK(spare, st)
    BY <1>2 DEF Follows
  <2> HIDE DEF st
  <2>3. /\ Follows(i, st, spare, store', spare)
        /\ \A k \in Scoped : k # KeyOf(i, s) /\ Present(st, k) => Present(store', k)
    BY <1>2, <2>1, <2>2, EraseFollows
  <2>4. Follows(i, store, spare, store', spare)
    BY <1>2, <2>3, FollowsOn
  <2>5. LInv'
    BY <1>2, <2>1, <2>4, HintsOK, EndStep
  <2>6. ASSUME NEW k \in Scoped, Kept(k), store'.recs[k] = NoRecord
        PROVE  ErasedBy(t, k)
    <3>1. Present(store, k)
      BY <2>6 DEF Kept, Present
    <3>2. k = KeyOf(i, s)
      BY <1>2, <2>3, <2>6, <3>1 DEF Keeps, Present
    <3> QED BY <1>1, <1>2, <3>2, Keys DEF ErasedBy
  <2> QED BY <2>5, <2>6 DEF OwnErased
<1> QED BY <1>3, <1>4

-----------------------------------------------------------------------------
(* Authenticating *)

\* A compare-and-set that commits leaves the engine as it wrote it.
LEMMA Rewritten ==
  ASSUME LInv, NEW t \in Tabs, HasEngine(tab[t]), tab[t].pc # "idle", NEW st,
         Follows(tab[t].lease, store, spare, st, spare), Present(st, MemKey(t)), NEW r,
         DOMAIN r = TabFields, r.conf = tab[t].conf, r.lease = tab[t].lease,
         r.chal \in Numbers, HintOK(r.recovery),
         r.pc \in {"marking", "sending", "acking", "completing", "member"},
         r.eng = EngineOf(Mem(t).inst, st.recs[MemKey(t)]),
         r.pc = "sending" => st.recs[MemKey(t)].life # "provisional"
  PROVE  TabOK(t, r, holder) /\ Current(r, st)
<1>1. /\ tab[t].lease \in Instances /\ Mem(t).inst = tab[t].lease
      /\ Mem(t).secret \in Secrets /\ MemKey(t) = KeyOf(tab[t].lease, Mem(t).secret)
  BY EngineHere
<1>2. StoreOK(st)
  BY DEF Follows
<1>3. /\ r.eng.inst = tab[t].lease /\ r.eng.secret = st.recs[MemKey(t)].secret
      /\ r.eng.life = st.recs[MemKey(t)].life
  BY <1>1 DEF EngineOf
<1>4. r.eng.secret = Mem(t).secret
  BY <1>1, <1>2, <1>3 DEF StoreOK
<1>5. Current(r, st)
  BY <1>1, <1>3, <1>4 DEF Current
<1>6. tab[t].lease # 0
  BY <1>1
<1>7. TabOK(t, r, holder)
  BY <1>1, <1>3, <1>4, <1>6, WithEngine
<1> QED BY <1>5, <1>7

LEMMA WriteOK ==
  ASSUME LInv, NEW t \in Tabs, HasEngine(tab[t]), tab[t].pc \notin {"idle", "sent"},
         NEW st, NEW p \in {"marking", "sending", "acking", "completing", "member"},
         Write(t, st, p),
         Follows(tab[t].lease, store, spare, st, spare), Keeps(store, st),
         Present(st, MemKey(t)),
         p = "sending" => st.recs[MemKey(t)].life # "provisional"
  PROVE  LInv' /\ OwnErased
<1>1. CASE ProtocolClose(t)
  BY <1>1, ProtocolCloseOK
<1>2. CASE ~ProtocolClose(t)
  <2> DEFINE e == EngineOf(Mem(t).inst, st.recs[MemKey(t)])
             r == [[tab[t] EXCEPT !.eng = e] EXCEPT !.pc = p]
  <2>1. /\ tab' = [tab EXCEPT ![t] = r] /\ store' = st
        /\ holder' = holder /\ room' = room /\ spare' = spare /\ net' = net
    BY <1>2 DEF Write, Reread
  <2> HIDE DEF e
  <2>2. /\ DOMAIN r = TabFields /\ r.pc = p /\ r.eng = e
        /\ r.lease = tab[t].lease /\ r.chal = tab[t].chal /\ r.recovery = tab[t].recovery
        /\ r.conf = tab[t].conf
    BY TabHere DEF TabOK, TabFields
  <2> HIDE DEF r
  <2>3. r.chal \in Numbers /\ HintOK(r.recovery)
    BY <2>2, TabHere DEF TabOK
  <2>4. TabOK(t, r, holder) /\ Current(r, st)
    BY <2>2, <2>3, Rewritten DEF e
  <2>5. LInv'
    BY <2>1, <2>4, TabHere, QuietStep
  <2> QED BY <2>1, <2>5, KeepsErasesNothing
<1> QED BY <1>1, <1>2

\* What the transactions of an engine leave.
LEMMA Transactions ==
  ASSUME LInv, NEW t \in Tabs, HasEngine(tab[t]), NEW st,
         \/ st = store \/ \E stage : st = Replace(store, MemKey(t), stage)
         \/ st = MarkAmbiguous(store, MemKey(t)) \/ st = MarkEstablished(store, MemKey(t))
  PROVE  /\ Follows(tab[t].lease, store, spare, st, spare) /\ Keeps(store, st)
         /\ Present(st, MemKey(t))
         /\ st = MarkAmbiguous(store, MemKey(t)) => st.recs[MemKey(t)].life # "provisional"
<1>1. /\ tab[t].lease \in Instances /\ Mem(t).secret \in Secrets
      /\ MemKey(t) = KeyOf(tab[t].lease, Mem(t).secret) /\ Present(store, MemKey(t))
  BY EngineHere
<1>2. StoreOK(store) /\ SpareOK(spare, store)
  BY DEF LInv
<1>3. st = MarkAmbiguous(store, MemKey(t)) =>
        /\ Follows(tab[t].lease, store, spare, st, spare) /\ Keeps(store, st)
        /\ Present(st, MemKey(t)) /\ st.recs[MemKey(t)].life # "provisional"
  BY <1>1, <1>2, MarkAmbiguousFollows
<1>4. CASE st = store
  BY <1>1, <1>2, <1>3, <1>4, SameFollows
<1>5. CASE \E stage : st = Replace(store, MemKey(t), stage)
  BY <1>1, <1>2, <1>3, <1>5, ReplaceFollows
<1>6. CASE st = MarkEstablished(store, MemKey(t))
  BY <1>1, <1>2, <1>3, <1>6, MarkEstablishedFollows
<1> QED BY <1>3, <1>4, <1>5, <1>6

LEMMA WritesOK ==
  ASSUME LInv, NEW t \in Tabs,
         Frame(t) \/ Mark(t) \/ Acknowledge(t) \/ CompleteJoin(t) \/ Welcomed(t) \/ OnActive(t)
  PROVE  LInv' /\ OwnErased
<1>1. HasEngine(tab[t]) /\ tab[t].pc \notin {"idle", "sent"}
  BY DEF Frame, Mark, Acknowledge, CompleteJoin, Welcomed, OnActive, HasEngine, Working
<1>2. CASE Frame(t)
  <2>1. \E st : /\ Write(t, st, "marking")
                /\ st = store \/ \E stage : st = Replace(store, MemKey(t), stage)
    BY <1>2 DEF Frame
  <2> QED BY <1>1, <2>1, WriteOK, Transactions
<1>3. CASE Mark(t)
  BY <1>1, <1>3, WriteOK, Transactions DEF Mark
<1>4. CASE Acknowledge(t)
  <2>1. \E st : /\ Write(t, st, "completing")
                /\ st = store \/ \E stage : st = Replace(store, MemKey(t), stage)
    BY <1>4 DEF Acknowledge
  <2> QED BY <1>1, <2>1, WriteOK, Transactions
<1>5. CASE CompleteJoin(t)
  <2>1. \E st : /\ Write(t, st, "member")
                /\ st = store \/ \E stage : st = Replace(store, MemKey(t), stage)
    BY <1>5 DEF CompleteJoin
  <2> QED BY <1>1, <2>1, WriteOK, Transactions
<1>6. CASE Welcomed(t) \/ OnActive(t)
  <2>1. \E stage : Write(t, Replace(store, MemKey(t), stage), "member")
    BY <1>6 DEF Welcomed, OnActive
  <2> QED BY <1>1, <2>1, WriteOK, Transactions
<1> QED BY <1>2, <1>3, <1>4, <1>5, <1>6

\* What is sent is the identity of the engine, which is marked by now.
LEMMA SendOK ==
  ASSUME LInv, NEW t \in Tabs, SendAuthentication(t)
  PROVE  LInv' /\ OwnErased
<1> DEFINE w == [mode |-> tab[t].ask, dev |-> Mem(t).dev, inst |-> Mem(t).inst,
                 secret |-> tab[t].conf.secret]
           n == [net[t] EXCEPT !.wire = w]
           h == Hint(tab[t].conf)
           r == [tab[t] EXCEPT !.pc = "sent", !.chal = 0, !.may = TRUE,
                               !.unresolved = TRUE, !.recovery = h]
<1>1. /\ tab' = [tab EXCEPT ![t] = r] /\ net' = [net EXCEPT ![t] = n]
      /\ holder' = holder /\ room' = room /\ spare' = spare /\ store' = store
      /\ tab[t].pc = "sending"
  BY DEF SendAuthentication
<1>2. HasEngine(tab[t])
  BY <1>1 DEF HasEngine, Working
<1>3. /\ tab[t].lease \in Instances /\ Mem(t).inst = tab[t].lease
      /\ Mem(t).secret \in Secrets /\ MemKey(t) \in Key /\ Present(store, MemKey(t))
      /\ Mem(t).dev = store.recs[MemKey(t)].dev /\ Mem(t).dev \in Devices
      /\ Mem(t).life = store.recs[MemKey(t)].life
  BY <1>2, EngineHere
<1>4. Mem(t).life # "provisional"
  BY <1>1, TabHere DEF TabOK, Pinned, Mem
<1>5. Tellable(Mem(t).dev, store, spare)
  <2>1. StoreOK(store) /\ SpareOK(spare, store)
    BY DEF LInv
  <2>2. Used(Mem(t).dev, spare)
    BY <1>3, <2>1 DEF SpareOK, Used
  <2>3. ASSUME NEW k \in Key, store.recs[k].life = "provisional"
        PROVE  store.recs[k].dev # Mem(t).dev
    <3>1. Present(store, k)
      BY <2>3 DEF Present, NoRecord
    <3> QED BY <1>3, <1>4, <2>1, <2>3, <3>1 DEF StoreOK
  <2> QED BY <2>2, <2>3 DEF Tellable
<1>6. NetOK(net[t], store, spare) /\ Asked(tab[t], net[t])
  BY DEF LInv
<1>7. w.dev = Mem(t).dev /\ w.inst = Mem(t).inst
  OBVIOUS
<1> HIDE DEF w, h
<1>8. /\ DOMAIN n = {"wire", "reply", "late"} /\ n.wire = w /\ n.reply = net[t].reply
      /\ n.late = net[t].late
  BY <1>6 DEF NetOK
<1>9. /\ DOMAIN r = TabFields /\ r.pc = "sent" /\ r.eng = tab[t].eng
      /\ r.lease = tab[t].lease /\ r.chal = 0 /\ r.recovery = h /\ r.conf = tab[t].conf
  BY TabHere DEF TabOK, TabFields
<1> HIDE DEF n, r
<1>10. HintOK(h)
  <2>1. tab[t].conf.inst # 0
    BY <1>3, TabHere DEF TabOK, Leased
  <2> QED BY <1>1, <2>1, HintsOK DEF h
<1>11. TabOK(t, r, holder)
  BY <1>1, <1>3, <1>9, <1>10, WithEngine DEF Mem, Numbers
<1>12. Current(r, store)
  BY <1>2, <1>9, TabHere DEF Current
<1>13. NetOK(n, store, spare)
  BY <1>3, <1>5, <1>6, <1>7, <1>8 DEF NetOK, FrameOK
<1>14. Asked(r, n) /\ Answered(r, n, room, net')
  BY <1>1, <1>6, <1>7, <1>8, <1>9 DEF Asked, Answered, Mem
<1>15. TabInv(t, r, n, holder', store', spare', room, net')
  BY <1>1, <1>11, <1>12, <1>13, <1>14 DEF TabInv
<1>16. LInv'
  BY <1>1, <1>8, <1>15, TabHere, SameStore, TabStep
<1> QED BY <1>1, <1>16, SameStore

-----------------------------------------------------------------------------
(* The answer *)

LEMMA OnAuthenticatedOK ==
  ASSUME LInv, NEW t \in Tabs, OnAuthenticated(t)
  PROVE  LInv' /\ OwnErased
<1>1. HasEngine(tab[t]) /\ tab[t].pc = "sent"
  BY DEF OnAuthenticated, HasEngine, Working
<1>2. CASE ~Fits(t)
  BY <1>1, <1>2, ProtocolCloseOK DEF OnAuthenticated
<1>3. CASE Fits(t)
  <2> DEFINE st == IF tab[t].ask = "join" THEN store ELSE MarkEstablished(store, MemKey(t))
             e == EngineOf(Mem(t).inst, st.recs[MemKey(t)])
             open == tab[t].ask = "join" /\ ~(tab[t].conf.mode = "setup")
             h == Settled(t)
             r == [[tab[t] EXCEPT !.eng = e] EXCEPT
                     !.pc = "acking", !.discard = FALSE, !.may = FALSE,
                     !.unresolved = open, !.recovery = h, !.tries = 0, !.hs = FALSE]
             n == [net[t] EXCEPT !.reply = None]
  <2>1. /\ store' = st /\ tab' = [tab EXCEPT ![t] = r] /\ net' = [net EXCEPT ![t] = n]
        /\ holder' = holder /\ room' = room /\ spare' = spare
    BY <1>3 DEF OnAuthenticated, Reread
  <2>2. /\ Follows(tab[t].lease, store, spare, st, spare) /\ Keeps(store, st)
        /\ Present(st, MemKey(t))
    BY <1>1, Transactions
  <2>3. HintOK(h)
    BY HintsOK DEF Settled
  <2>4. NetOK(net[t], store, spare) /\ Asked(tab[t], net[t])
    BY DEF LInv
  <2>5. net[t].wire = None
    BY <2>4 DEF OnAuthenticated, Asked
  <2> HIDE DEF st, e, open, h
  <2>6. /\ DOMAIN n = {"wire", "reply", "late"} /\ n.wire = None /\ n.reply = None
        /\ n.late = net[t].late
    BY <2>4, <2>5 DEF NetOK
  <2>7. /\ DOMAIN r = TabFields /\ r.pc = "acking" /\ r.eng = e
        /\ r.lease = tab[t].lease /\ r.chal = tab[t].chal /\ r.recovery = h
        /\ r.conf = tab[t].conf
    BY TabHere, ZenonT(40) DEF TabOK, TabFields
  <2> HIDE DEF n, r
  <2>8. TabOK(t, r, holder) /\ Current(r, st)
    <3>1. r.chal \in Numbers
      BY <2>7, TabHere DEF TabOK
    <3> QED BY <1>1, <2>2, <2>3, <2>7, <3>1, Rewritten DEF e
  <2>9. NetOK(n, store, spare)
    BY <2>4, <2>6 DEF NetOK, FrameOK
  <2>10. NetOK(n, st, spare)
    BY <2>2, <2>9, NetKept
  <2>11. Asked(r, n) /\ Answered(r, n, room, net')
    BY <2>6 DEF Asked, Answered
  <2>12. TabInv(t, r, n, holder', store', spare', room, net')
    BY <2>1, <2>8, <2>10, <2>11 DEF TabInv
  <2>13. Follows(tab[t].lease, store, spare, store', spare')
    BY <2>1, <2>2
  <2>14. LInv'
    BY <2>1, <2>6, <2>12, <2>13, TabHere, TabStep, ZenonT(40)
  <2> QED BY <2>1, <2>2, <2>14, KeepsErasesNothing
<1> QED BY <1>2, <1>3

LEMMA OnEstablishedOK ==
  ASSUME LInv, NEW t \in Tabs, OnEstablished(t)
  PROVE  LInv' /\ OwnErased
<1>1. HasEngine(tab[t]) /\ tab[t].pc = "member"
  BY DEF OnEstablished, HasEngine, Working
<1>2. CASE ~Fits(t)
  BY <1>1, <1>2, ProtocolCloseOK DEF OnEstablished
<1>3. CASE Fits(t)
  <2> DEFINE st == MarkEstablished(store, MemKey(t))
             e == EngineOf(Mem(t).inst, st.recs[MemKey(t)])
             h == Forgotten(t, tab[t].conf)
             r == [[tab[t] EXCEPT !.eng = e] EXCEPT !.unresolved = FALSE, !.recovery = h]
  <2>1. /\ store' = st /\ tab' = [tab EXCEPT ![t] = r]
        /\ holder' = holder /\ room' = room /\ spare' = spare /\ net' = net
    BY <1>3 DEF OnEstablished, Reread
  <2>2. /\ Follows(tab[t].lease, store, spare, st, spare) /\ Keeps(store, st)
        /\ Present(st, MemKey(t))
    BY <1>1, Transactions
  <2>3. HintOK(h)
    BY HintsOK
  <2> HIDE DEF st, e, h
  <2>4. /\ DOMAIN r = TabFields /\ r.pc = "member" /\ r.eng = e
        /\ r.lease = tab[t].lease /\ r.chal = tab[t].chal /\ r.recovery = h
        /\ r.conf = tab[t].conf
    BY <1>1, TabHere DEF TabOK, TabFields
  <2> HIDE DEF r
  <2>5. TabOK(t, r, holder) /\ Current(r, st)
    <3>1. r.chal \in Numbers
      BY <2>4, TabHere DEF TabOK
    <3> QED BY <1>1, <2>2, <2>3, <2>4, <3>1, Rewritten DEF e
  <2>6. Follows(tab[t].lease, store, spare, store', spare')
    BY <2>1, <2>2
  <2>7. LInv'
    BY <1>1, <2>1, <2>5, <2>6, TabHere, QuietStep
  <2> QED BY <2>1, <2>2, <2>7, KeepsErasesNothing
<1> QED BY <1>2, <1>3

\* A tab that dials again keeps its engine and its lock.
LEMMA AgainOK ==
  ASSUME LInv, NEW t \in Tabs, tab[t].pc # "idle",
         tab[t].pc \notin {"locking", "queued"}, NEW mode, Again(t, mode)
  PROVE  LInv' /\ OwnErased
<1>1. CASE StopPending(t, TRUE)
  BY <1>1, StopPendingOK
<1>2. CASE ~StopPending(t, TRUE)
  <2> DEFINE r == [tab[t] EXCEPT !.pc = "dialing", !.forced = mode,
                                 !.tries = tab[t].tries + 1]
  <2>1. /\ tab' = [tab EXCEPT ![t] = r] /\ net' = HungUp(t)
        /\ holder' = holder /\ room' = room /\ spare' = spare /\ store' = store
    BY <1>2 DEF Again
  <2>2. /\ DOMAIN r = TabFields /\ r.pc = "dialing" /\ r.eng = tab[t].eng
        /\ r.lease = tab[t].lease /\ r.chal = tab[t].chal /\ r.recovery = tab[t].recovery
        /\ r.conf = tab[t].conf
    BY TabHere DEF TabOK, TabFields
  <2> HIDE DEF r
  <2>3. TabOK(t, r, holder) /\ Current(r, store)
    BY <2>2, TabHere DEF TabOK, Leased, Pinned, Current, HasEngine, Working, Locked
  <2>4. LInv'
    BY <2>1, <2>3, HungStep
  <2> QED BY <2>1, <2>4, SameStore
<1> QED BY <1>1, <1>2

\* Who is refused for good is no member, and the attempt that created an
\* identity may discard it.
LEMMA OnRefusedOK ==
  ASSUME LInv, NEW t \in Tabs, OnRefused(t)
  PROVE  LInv' /\ OwnErased
<1>1. /\ tab[t].pc = "sent" /\ HasEngine(tab[t])
      /\ net[t].reply # None
  BY DEF OnRefused, HasEngine, Working
<1>2. Asked(tab[t], net[t]) /\ Answered(tab[t], net[t], room, net)
  BY DEF LInv
<1>3. /\ MemKey(t)[1] = Mem(t).inst /\ Mem(t).dev = store.recs[MemKey(t)].dev
  BY <1>1, EngineHere
<1>4. net[t].reply \in Ends => ~Kept(MemKey(t))
  <2>1. SUFFICES ASSUME net[t].reply \in Ends, Kept(MemKey(t))
                 PROVE  FALSE
    OBVIOUS
  <2>2. Refused(room, Mem(t).dev, Mem(t).inst, net)
    BY <1>1, <1>2, <2>1 DEF Asked, Answered, Ends, Mem
  <2> QED BY <1>3, <2>1, <2>2 DEF Refused, Kept
<1>5. tab[t].discard => ErasedBy(t, MemKey(t))
  BY <1>1 DEF ErasedBy
<1>6. CASE \E mode : Again(t, mode)
  BY <1>1, <1>6, AgainOK
<1>7. CASE (net[t].reply \in Ends \/ Discards(t)) /\ End(t, FALSE, TRUE)
  BY <1>1, <1>4, <1>5, <1>7, EndOK DEF Discards
<1>8. CASE End(t, Ambiguous(t), FALSE)
  BY <1>1, <1>8, EndOK
<1> QED BY <1>6, <1>7, <1>8 DEF OnRefused

LEMMA OnCloseOK ==
  ASSUME LInv, NEW t \in Tabs, OnClose(t)
  PROVE  LInv' /\ OwnErased
<1>1. tab[t].pc \in {"challenged", "sent", "acking", "completing", "member"}
  BY DEF OnClose
<1>2. CASE (\E mode : Again(t, mode)) \/ (\E keep : StopPending(t, keep)) \/ ProtocolClose(t)
  BY <1>1, <1>2, AgainOK, StopPendingOK, ProtocolCloseOK
<1>3. CASE ~Holds(t)
  <2> DEFINE r == [tab[t] EXCEPT !.pc = "stopped", !.hs = FALSE]
  <2>1. /\ tab' = [tab EXCEPT ![t] = r] /\ net' = HungUp(t)
        /\ holder' = holder /\ room' = room /\ spare' = spare /\ store' = store
    BY <1>3 DEF OnClose
  <2>2. tab[t].lease = 0
    BY <1>3, TabHere DEF TabOK, Leased, Holds
  <2>3. /\ DOMAIN r = TabFields /\ r.pc = "stopped" /\ r.eng = tab[t].eng
        /\ r.lease = tab[t].lease /\ r.chal = tab[t].chal /\ r.recovery = tab[t].recovery
        /\ r.conf = tab[t].conf
    BY TabHere DEF TabOK, TabFields
  <2> HIDE DEF r
  <2>4. TabOK(t, r, holder) /\ Current(r, store)
    BY <1>1, <2>2, <2>3, TabHere
       DEF TabOK, Leased, Pinned, Current, HasEngine, Working, Locked
  <2>5. LInv'
    BY <2>1, <2>4, HungStep
  <2> QED BY <2>1, <2>5, SameStore
<1> QED BY <1>2, <1>3 DEF OnClose

-----------------------------------------------------------------------------
(* The room *)

\* What an answer says of the room that gave it.
LEMMA VerdictSays ==
  ASSUME NEW f, NEW v \in Verdicts(f)
  PROVE  /\ v # "room-retired"
         /\ v = "ok" => \/ f.mode = "setup" /\ room.inst = 0
                        \/ f.mode = "join" /\ room.members[f.dev] \in {"pending", "none"}
                        \/ f.mode \notin {"setup", "join"}
         /\ v = "fresh-admission-required" =>
              room.inst = f.inst /\ room.members[f.dev] = "retired"
<1>1. \/ v = Before(f) /\ Before(f) # "ok"
      \/ Before(f) = "ok" /\ v \in {"rate-limited", "authentication-expired", "persistence-failed"}
      \/ Before(f) = "ok" /\ v = Proof(f) /\ v # "ok"
      \/ Before(f) = "ok" /\ Proof(f) = "ok" /\ v = Reduced(f)
  BY DEF Verdicts
<1>2. /\ Before(f) \in {"room-exists", "room-not-found", "wrong-room", "ok"}
      /\ Before(f) = "ok" => \/ f.mode = "setup" /\ room.inst = 0
                             \/ f.mode # "setup" /\ f.inst = room.inst
  BY DEF Before
<1>3. Proof(f) \in {"authentication-failed", "ok"}
  BY DEF Proof
<1>4. /\ Reduced(f) \in {"ok", "duplicate-id", "pending-limit", "invalid-lifecycle",
                         "fresh-admission-required"}
      /\ Reduced(f) = "fresh-admission-required" =>
           f.mode \notin {"setup", "join"} /\ room.members[f.dev] = "retired"
      /\ Reduced(f) = "ok" /\ f.mode = "join" => room.members[f.dev] \in {"pending", "none"}
  <2>1. CASE f.mode = "setup"
    BY <2>1 DEF Reduced
  <2>2. CASE f.mode = "join"
    BY <2>2 DEF Reduced, Rejoined, Resumed
  <2>3. CASE f.mode \notin {"setup", "join"}
    BY <2>3 DEF Reduced, Rejoined, Resumed
  <2> QED BY <2>1, <2>2, <2>3
<1> QED BY <1>1, <1>2, <1>3, <1>4

\* What a frame that is accepted makes of the room.
LEMMA AdmitOK ==
  ASSUME LInv, NEW f, f.inst \in Instances, f.dev \in Devices,
         Tellable(f.dev, store, spare),
         \/ f.mode = "setup" /\ room.inst = 0
         \/ f.mode = "join" /\ room.members[f.dev] \in {"pending", "none"}
         \/ f.mode \notin {"setup", "join"},
         NEW rm, rm = Admit(f)
  PROVE  /\ RoomOK(rm, store, spare)
         /\ \A d, i : i # 0 /\ room.inst = i /\ room.members[d] = "retired" =>
              rm.inst = i /\ rm.members[d] = "retired"
         /\ rm.inst = room.inst \/ rm.inst = f.inst
<1>1. RoomOK(room, store, spare)
  BY DEF LInv
<1>2. CASE f.mode = "setup"
  <2> DEFINE m == [[d \in Devices |-> "none"] EXCEPT ![f.dev] = "active"]
  <2>1. rm = [inst |-> f.inst, secret |-> f.secret, members |-> m]
    BY <1>2 DEF Admit, NoRoom
  <2>2. m = [d \in Devices |-> IF d = f.dev THEN "active" ELSE "none"]
    OBVIOUS
  <2> HIDE DEF m
  <2>3. /\ rm = [inst |-> rm.inst, secret |-> rm.secret, members |-> rm.members]
        /\ rm.inst = f.inst /\ rm.members = m
    BY <2>1
  <2>4. RoomOK(rm, store, spare)
    BY <2>2, <2>3 DEF RoomOK, Numbers
  <2> QED BY <1>2, <2>3, <2>4
<1>3. CASE f.mode = "join"
  <2> DEFINE m == [room.members EXCEPT ![f.dev] = "pending"]
  <2>1. rm = [inst |-> room.inst, secret |-> room.secret, members |-> m]
    BY <1>1, <1>3 DEF Admit, RoomOK
  <2>2. m = [d \in Devices |-> IF d = f.dev THEN "pending" ELSE room.members[d]]
    BY <1>1 DEF RoomOK
  <2>3. \A d : room.members[d] = "retired" => m[d] = "retired"
    BY <1>3, <1>1 DEF RoomOK
  <2> HIDE DEF m
  <2>4. /\ rm = [inst |-> rm.inst, secret |-> rm.secret, members |-> rm.members]
        /\ rm.inst = room.inst /\ rm.members = m
    BY <2>1
  <2>5. RoomOK(rm, store, spare)
    BY <1>1, <2>2, <2>4 DEF RoomOK
  <2> QED BY <2>3, <2>4, <2>5
<1>4. CASE f.mode \notin {"setup", "join"}
  BY <1>1, <1>4 DEF Admit
<1> QED BY <1>2, <1>3, <1>4

\* A step of the room, which no tab sees but by an answer.
LEMMA RoomStep ==
  ASSUME LInv, UNCHANGED <<store, holder, spare, tab>>, RoomOK(room', store, spare),
         net' = [t \in Tabs |-> net'[t]],
         \A t \in Tabs : /\ NetOK(net'[t], store, spare)
                         /\ Asked(tab[t], net'[t])
                         /\ Answered(tab[t], net'[t], room', net')
  PROVE  LInv' /\ OwnErased
<1>1. LInv'
  BY DEF LInv
<1> QED BY <1>1, SameStore

\* A tab that has an answer sent the identity it holds.
LEMMA Answerer ==
  ASSUME LInv, NEW t \in Tabs, net[t].reply # None \/ net[t].wire # None
  PROVE  /\ HasEngine(tab[t]) /\ tab[t].eng.inst = tab[t].lease
         /\ tab[t].lease \in Instances /\ tab[t].lease # 0
         /\ net[t].wire # None => /\ net[t].reply = None /\ net[t].wire.dev = tab[t].eng.dev
                                  /\ net[t].wire.inst = tab[t].eng.inst
BY DEF LInv, Asked, TabOK, Leased, HasEngine, Working, Numbers

LEMMA HandleOK ==
  ASSUME LInv, NEW t \in Tabs, Handle(t)
  PROVE  LInv' /\ OwnErased
<1> DEFINE f == net[t].wire
<1>1. f # None
  BY DEF Handle
<1>2. PICK v \in Verdicts(f) :
        /\ room' = IF v = "ok" THEN Admit(f) ELSE room
        /\ net' = [net EXCEPT ![t].wire = None, ![t].reply = v]
  BY DEF Handle
<1> DEFINE n == [net[t] EXCEPT !.wire = None, !.reply = v]
<1>3. UNCHANGED <<store, holder, spare, tab>>
  BY DEF Handle
<1>4. /\ \A u \in Tabs : NetOK(net[u], store, spare) /\ Asked(tab[u], net[u])
                         /\ Answered(tab[u], net[u], room, net)
      /\ RoomOK(room, store, spare) /\ net = [u \in Tabs |-> net[u]]
  BY DEF LInv
<1>5. /\ DOMAIN n = {"wire", "reply", "late"} /\ n.wire = None /\ n.reply = v
      /\ n.late = net[t].late
  BY <1>4 DEF NetOK
<1>6. /\ net' = [u \in Tabs |-> net'[u]]
      /\ \A u \in Tabs : net'[u] = IF u = t THEN n ELSE net[u]
  BY <1>2, <1>4
<1> HIDE DEF n
<1>7. /\ f.inst \in Instances /\ f.dev \in Devices /\ Tellable(f.dev, store, spare)
      /\ f.inst = tab[t].lease /\ f.inst = tab[t].eng.inst /\ f.dev = tab[t].eng.dev
  BY <1>1, <1>4, Answerer DEF NetOK, FrameOK
<1>8. /\ v # "room-retired"
      /\ v = "ok" => \/ f.mode = "setup" /\ room.inst = 0
                     \/ f.mode = "join" /\ room.members[f.dev] \in {"pending", "none"}
                     \/ f.mode \notin {"setup", "join"}
      /\ v = "fresh-admission-required" =>
           room.inst = f.inst /\ room.members[f.dev] = "retired"
  BY VerdictSays
<1> HIDE DEF f
<1>9. /\ RoomOK(room', store, spare)
      /\ \A d, i : i # 0 /\ room.inst = i /\ room.members[d] = "retired" =>
           room'.inst = i /\ room'.members[d] = "retired"
      /\ room'.inst = room.inst \/ room'.inst = f.inst
  <2>1. CASE v = "ok"
    BY <1>2, <1>7, <1>8, <2>1, AdmitOK
  <2>2. CASE v # "ok"
    BY <1>2, <1>4, <2>2
  <2> QED BY <2>1, <2>2
<1>10. \A u \in Tabs : NetOK(net'[u], store, spare)
  BY <1>4, <1>5, <1>6 DEF NetOK, FrameOK
<1>11. \A u \in Tabs : Asked(tab[u], net'[u])
  <2>1. Asked(tab[t], n)
    BY <1>1, <1>4, <1>5, <1>8 DEF Asked, f
  <2> QED BY <1>4, <1>6, <2>1
<1>12. ASSUME NEW u \in Tabs
       PROVE  Answered(tab[u], net'[u], room', net')
  <2>1. CASE u = t
    <3>1. SUFFICES ASSUME v = "fresh-admission-required"
                   PROVE  Refused(room', tab[t].eng.dev, tab[t].eng.inst, net')
      BY <1>5, <1>6, <2>1 DEF Answered
    <3>2. room' = room
      BY <1>2, <3>1
    <3> QED BY <1>7, <1>8, <3>1, <3>2 DEF Refused
  <2>2. CASE u # t
    <3>1. SUFFICES ASSUME net[u].reply # None, net[u].reply = "fresh-admission-required"
                   PROVE  Refused(room', tab[u].eng.dev, tab[u].eng.inst, net')
      BY <1>6, <2>2 DEF Answered
    <3>2. Refused(room, tab[u].eng.dev, tab[u].eng.inst, net)
      BY <1>4, <3>1 DEF Answered
    <3>3. tab[u].eng.inst = tab[u].lease /\ tab[u].lease # 0
      BY <3>1, Answerer
    <3>4. tab[u].lease # f.inst
      BY <1>7, <2>2, <3>3, Leases
    <3>5. \A w \in Tabs : net'[w].late = net[w].late
      BY <1>5, <1>6
    <3>6. CASE room.inst = tab[u].eng.inst /\ room.members[tab[u].eng.dev] = "retired"
      BY <1>9, <3>3, <3>6 DEF Refused
    <3>7. CASE /\ room.inst # tab[u].eng.inst
               /\ \A w \in Tabs : net[w].late # None => net[w].late.inst # tab[u].eng.inst
      BY <1>9, <3>3, <3>4, <3>5, <3>7 DEF Refused
    <3> QED BY <3>2, <3>6, <3>7 DEF Refused
  <2> QED BY <2>1, <2>2
<1> QED BY <1>3, <1>6, <1>9, <1>10, <1>11, <1>12, RoomStep

LEMMA HandleLateOK ==
  ASSUME LInv, NEW t \in Tabs, HandleLate(t)
  PROVE  LInv' /\ OwnErased
<1> DEFINE f == net[t].late
           n == [net[t] EXCEPT !.late = None]
<1>1. f # None
  BY DEF HandleLate
<1>2. PICK v \in Verdicts(f) : room' = IF v = "ok" THEN Admit(f) ELSE room
  BY DEF HandleLate
<1>3. UNCHANGED <<store, holder, spare, tab>> /\ net' = [net EXCEPT ![t].late = None]
  BY DEF HandleLate
<1>4. /\ \A u \in Tabs : NetOK(net[u], store, spare) /\ Asked(tab[u], net[u])
                         /\ Answered(tab[u], net[u], room, net)
      /\ RoomOK(room, store, spare) /\ net = [u \in Tabs |-> net[u]]
  BY DEF LInv
<1>5. /\ DOMAIN n = {"wire", "reply", "late"} /\ n.wire = net[t].wire
      /\ n.reply = net[t].reply /\ n.late = None
  BY <1>4 DEF NetOK
<1>6. /\ net' = [u \in Tabs |-> net'[u]]
      /\ \A u \in Tabs : net'[u] = IF u = t THEN n ELSE net[u]
  BY <1>3, <1>4
<1> HIDE DEF n
<1>7. f.inst \in Instances /\ f.dev \in Devices /\ Tellable(f.dev, store, spare)
  BY <1>1, <1>4 DEF NetOK, FrameOK
<1>8. v = "ok" => \/ f.mode = "setup" /\ room.inst = 0
                  \/ f.mode = "join" /\ room.members[f.dev] \in {"pending", "none"}
                  \/ f.mode \notin {"setup", "join"}
  BY VerdictSays
<1>9. /\ RoomOK(room', store, spare)
      /\ \A d, i : i # 0 /\ room.inst = i /\ room.members[d] = "retired" =>
           room'.inst = i /\ room'.members[d] = "retired"
      /\ room'.inst = room.inst \/ room'.inst = f.inst
  <2> HIDE DEF f
  <2>1. CASE v = "ok"
    BY <1>2, <1>7, <1>8, <2>1, AdmitOK
  <2>2. CASE v # "ok"
    BY <1>2, <1>4, <2>2
  <2> QED BY <2>1, <2>2
<1>10. \A u \in Tabs : NetOK(net'[u], store, spare)
  BY <1>4, <1>5, <1>6 DEF NetOK, FrameOK
<1>11. \A u \in Tabs : Asked(tab[u], net'[u])
  <2>1. Asked(tab[t], n)
    BY <1>4, <1>5 DEF Asked
  <2> QED BY <1>4, <1>6, <2>1
<1>12. \A w \in Tabs : net'[w].late # None => net'[w].late = net[w].late
  BY <1>5, <1>6
<1>13. ASSUME NEW u \in Tabs
       PROVE  Answered(tab[u], net'[u], room', net')
  <2>1. net'[u].reply = net[u].reply
    BY <1>5, <1>6
  <2>2. SUFFICES ASSUME net[u].reply # None, net[u].reply = "fresh-admission-required"
                 PROVE  Refused(room', tab[u].eng.dev, tab[u].eng.inst, net')
    BY <2>1 DEF Answered
  <2>3. Refused(room, tab[u].eng.dev, tab[u].eng.inst, net)
    BY <1>4, <2>2 DEF Answered
  <2>4. tab[u].eng.inst # 0
    BY <2>2, Answerer
  <2>5. CASE room.inst = tab[u].eng.inst /\ room.members[tab[u].eng.dev] = "retired"
    BY <1>9, <2>4, <2>5 DEF Refused
  <2>6. CASE /\ room.inst # tab[u].eng.inst
             /\ \A w \in Tabs : net[w].late # None => net[w].late.inst # tab[u].eng.inst
    BY <1>1, <1>9, <1>12, <2>6 DEF Refused
  <2> QED BY <2>3, <2>5, <2>6 DEF Refused
<1> QED BY <1>3, <1>6, <1>9, <1>10, <1>11, <1>13, RoomStep

\* Members come and go, and the room ends: who was refused stays refused.
LEMMA RoomGoesOnOK ==
  ASSUME LInv, (\E t \in Tabs : Activate(t)) \/ Dismiss
  PROVE  LInv' /\ OwnErased
<1>1. /\ \A u \in Tabs : NetOK(net[u], store, spare) /\ Asked(tab[u], net[u])
                         /\ Answered(tab[u], net[u], room, net)
      /\ RoomOK(room, store, spare) /\ net = [u \in Tabs |-> net[u]]
  BY DEF LInv
<1>2. PICK d \in Devices, s \in {"active", "retired"} :
        /\ room.members[d] \in {"pending", "active"}
        /\ room.members[d] = "active" => s = "retired"
        /\ room' = [room EXCEPT !.members[d] = s]
  <2>1. ASSUME NEW t \in Tabs, Activate(t)
        PROVE  Mem(t).dev \in Devices
    BY <2>1, EngineHere DEF Activate, HasEngine, Working
  <2> QED BY <2>1 DEF Activate, Dismiss
<1>3. UNCHANGED <<store, holder, spare, tab, net>>
  BY DEF Activate, Dismiss
<1> DEFINE m == [room.members EXCEPT ![d] = s]
<1>4. room' = [inst |-> room.inst, secret |-> room.secret, members |-> m]
  BY <1>1, <1>2 DEF RoomOK
<1>5. m = [e \in Devices |-> IF e = d THEN s ELSE room.members[e]]
  BY <1>1 DEF RoomOK
<1>6. \A e : room.members[e] = "retired" => m[e] = "retired"
  BY <1>1, <1>2 DEF RoomOK
<1> HIDE DEF m
<1>7. /\ room' = [inst |-> room'.inst, secret |-> room'.secret, members |-> room'.members]
      /\ room'.inst = room.inst /\ room'.members = m
  BY <1>4
<1>8. RoomOK(room', store, spare)
  BY <1>1, <1>2, <1>5, <1>7 DEF RoomOK
<1>9. \A u \in Tabs : Answered(tab[u], net[u], room', net')
  BY <1>1, <1>3, <1>6, <1>7 DEF Answered, Refused
<1> QED BY <1>1, <1>3, <1>8, <1>9, RoomStep

LEMMA CloseOK ==
  ASSUME LInv, Close
  PROVE  LInv' /\ OwnErased
<1>1. /\ \A u \in Tabs : NetOK(net[u], store, spare) /\ Asked(tab[u], net[u])
      /\ net = [u \in Tabs |-> net[u]]
  BY DEF LInv
<1>2. /\ UNCHANGED <<store, holder, spare, tab>> /\ room' = NoRoom
      /\ net' = [t \in Tabs |-> [net[t] EXCEPT !.late = None]]
  BY DEF Close
<1>3. RoomOK(room', store, spare)
  BY <1>2 DEF RoomOK, NoRoom, Numbers
<1>4. /\ net' = [u \in Tabs |-> net'[u]]
      /\ \A u \in Tabs : /\ DOMAIN net'[u] = {"wire", "reply", "late"}
                         /\ net'[u].wire = net[u].wire /\ net'[u].reply = net[u].reply
                         /\ net'[u].late = None
  BY <1>1, <1>2 DEF NetOK
<1>5. \A u \in Tabs : NetOK(net'[u], store, spare) /\ Asked(tab[u], net'[u])
  BY <1>1, <1>4 DEF NetOK, FrameOK, Asked
<1>6. \A u \in Tabs : Answered(tab[u], net'[u], room', net')
  <2>1. \A u \in Tabs : net[u].reply # None => tab[u].eng.inst # 0
    BY Answerer
  <2>2. room'.inst = 0
    BY <1>2 DEF NoRoom
  <2> QED BY <1>4, <2>1, <2>2 DEF Answered, Refused
<1> QED BY <1>2, <1>3, <1>4, <1>5, <1>6, RoomStep

-----------------------------------------------------------------------------
LEMMA InitOK == Init => LInv
<1>1. ASSUME Init
      PROVE  LInv
  <2> DEFINE idle == Idle(None, FALSE)
  <2>1. /\ DOMAIN idle = TabFields /\ idle.pc = "idle" /\ idle.eng = None
        /\ idle.lease = 0 /\ idle.chal = 0 /\ idle.recovery = None
    BY DEF Idle, TabFields
  <2>2. /\ tab = [t \in Tabs |-> idle] /\ net = [t \in Tabs |-> Quiet]
        /\ holder = [i \in Instances |-> None]
    BY <1>1 DEF Init
  <2> HIDE DEF idle
  <2>3. \A t : TabOK(t, idle, holder) /\ Current(idle, store)
    BY <2>1 DEF TabOK, Leased, Pinned, Current, HasEngine, HintOK, Working, Locked, Numbers
  <2>4. /\ NetOK(Quiet, store, spare) /\ Asked(idle, Quiet)
        /\ Answered(idle, Quiet, room, net)
    BY DEF NetOK, FrameOK, Asked, Answered, Quiet
  <2>5. StoreOK(store) /\ SpareOK(spare, store) /\ RoomOK(room, store, spare)
    <3>1. CASE /\ store = EmptyStore /\ room = NoRoom
               /\ spare = [inst |-> 1, dev |-> 1, starts |-> 0]
      <4>1. \A k \in Key : ~Present(store, k)
        BY <3>1 DEF EmptyStore, Present
      <4>2. \A i \in Instances, s \in Secrets : KeyOf(i, s) \in Key
        BY Keys
      <4>3. StoreOK(store) /\ SpareOK(spare, store)
        BY <3>1, <4>1, <4>2 DEF StoreOK, SpareOK, EmptyStore
      <4>4. RoomOK(room, store, spare)
        BY <3>1 DEF RoomOK, NoRoom, Numbers
      <4> QED BY <4>3, <4>4
    <3>2. CASE \E s \in Secrets :
                 /\ store = Inherited(1, s, 1)
                 /\ room = [inst |-> 1, secret |-> s,
                            members |-> [NoRoom.members EXCEPT ![1] = "active"]]
                 /\ spare = [inst |-> 2, dev |-> 2, starts |-> 0]
      <4>1. PICK s \in Secrets :
                 /\ store = Inherited(1, s, 1)
                 /\ room = [inst |-> 1, secret |-> s,
                            members |-> [NoRoom.members EXCEPT ![1] = "active"]]
                 /\ spare = [inst |-> 2, dev |-> 2, starts |-> 0]
        BY <3>2
      <4> DEFINE r == [rev |-> 1, life |-> "unscoped", dev |-> 1, founder |-> FALSE,
                       stage |-> "settled", secret |-> s]
      <4>2. store = [recs |-> [k \in Key |-> IF k = OldKey(1) THEN r ELSE NoRecord],
                     reg |-> {}]
        BY <4>1 DEF Inherited
      <4>3. DOMAIN r = RecFields /\ r.dev = 1 /\ r.life = "unscoped"
        BY DEF RecFields
      <4> HIDE DEF r
      <4>4. /\ store = [recs |-> store.recs, reg |-> store.reg]
            /\ store.recs = [k \in Key |-> store.recs[k]]
            /\ store.reg = {}
            /\ \A k \in Key : store.recs[k] = IF k = OldKey(1) THEN r ELSE NoRecord
        BY <4>2
      <4>5. \A i \in Instances, u \in Secrets : KeyOf(i, u) \in Key /\ KeyOf(i, u) # OldKey(1)
        BY Keys
      <4>6. \A k \in Key : Present(store, k) => k = OldKey(1) /\ store.recs[k] = r
        BY <4>4 DEF Present
      <4>7. StoreOK(store)
        BY <4>3, <4>4, <4>5, <4>6 DEF StoreOK
      <4>8. SpareOK(spare, store)
        BY <4>1, <4>3, <4>6 DEF SpareOK
      <4>9. NoRecord.life # "provisional"
        BY DEF NoRecord
      <4>10. Tellable(1, store, spare)
        BY <4>1, <4>3, <4>4, <4>9 DEF Tellable, Used
      <4> DEFINE m == [[d \in Devices |-> "none"] EXCEPT ![1] = "active"]
      <4>11. room = [inst |-> 1, secret |-> s, members |-> m]
        BY <4>1 DEF NoRoom
      <4>12. m = [d \in Devices |-> IF d = 1 THEN "active" ELSE "none"]
        OBVIOUS
      <4> HIDE DEF m
      <4>13. RoomOK(room, store, spare)
        BY <4>10, <4>11, <4>12 DEF RoomOK, Numbers
      <4> QED BY <4>7, <4>8, <4>13
    <3> QED BY <1>1, <3>1, <3>2 DEF Init
  <2> QED BY <2>2, <2>3, <2>4, <2>5 DEF LInv
<1> QED BY <1>1

\* Every step keeps the invariant, and erases what EraseOnlyOwn lets it.
LEMMA NextOK ==
  ASSUME LInv, [Next]_vars
  PROVE  LInv' /\ OwnErased
<1>1. CASE UNCHANGED vars
  BY <1>1, RoomStep, SameStore DEF vars, LInv
<1>2. ASSUME NEW t \in Tabs, User(t)
      PROVE  LInv' /\ OwnErased
  <2>1. CASE \E mode \in {"setup", "join"}, s \in Secrets : Start(t, mode, s)
    BY <2>1, StartOK
  <2> QED BY <1>2, <2>1, CancelOK, LeavingOK, TakeoverOK DEF User
<1>3. ASSUME NEW t \in Tabs, Proceeds(t)
      PROVE  LInv' /\ OwnErased
  <2>1. CASE Acquire(t)
    BY <2>1, GrantOK, UnlockedOK DEF Acquire
  <2>2. CASE Granted(t)
    BY <2>2, GrantOK DEF Granted
  <2>3. CASE TakeoverTimeout(t)
    BY <2>3, UnlockedOK DEF TakeoverTimeout
  <2> QED BY <1>3, <2>1, <2>2, <2>3, OpenSocketOK, OnChallengeOK, YieldOK, IdentifyOK,
             ClearOK, WritesOK, SendOK, OnAuthenticatedOK, OnEstablishedOK,
             OnRetiredOK, OnRefusedOK DEF Proceeds
<1>4. ASSUME NEW t \in Tabs, OnClose(t)
      PROVE  LInv' /\ OwnErased
  BY <1>4, OnCloseOK
<1>5. CASE Room
  BY <1>5, HandleOK, HandleLateOK, RoomGoesOnOK, CloseOK DEF Room
<1> QED BY <1>1, <1>2, <1>3, <1>4, <1>5 DEF Next

\* Nothing reaches the room before its identity is marked ambiguous
\* (markAuthenticationAttempted before the authentication frame): what the
\* store calls provisional, which a cancelled attempt erases, is unknown to
\* the room.
THEOREM SentAfterMark == Spec => []SentIsMarked
<1>1. LInv => SentIsMarked
  <2>1. ASSUME LInv, NEW k \in Scoped, store.recs[k].life = "provisional"
        PROVE  room.members[store.recs[k].dev] = "none"
    <3>1. k \in Key /\ Present(store, k)
      BY <2>1 DEF Key, Present, NoRecord
    <3>2. store.recs[k].dev \in Devices
      BY <2>1, <3>1 DEF LInv, StoreOK
    <3> QED BY <2>1, <3>1, <3>2 DEF LInv, RoomOK, Tellable
  <2> QED BY <2>1 DEF SentIsMarked
<1>2. LInv /\ [Next]_vars => LInv'
  BY NextOK
<1> QED BY <1>1, <1>2, InitOK, PTL DEF Spec

\* Two tabs never work on one record (roomCryptoLock.ts): a tab that has an
\* engine has the lock of its instance, and the engine is what the store
\* holds.
THEOREM EnginesAreCurrent == Spec => []EngineIsCurrent
<1>1. LInv => EngineIsCurrent
  <2>1. ASSUME LInv, NEW t \in Tabs, Mem(t) # None
        PROVE  /\ Holds(t)
               /\ store.recs[MemKey(t)] # NoRecord
               /\ Mem(t) = EngineOf(Mem(t).inst, store.recs[MemKey(t)])
    <3>1. HasEngine(tab[t])
      BY <2>1 DEF HasEngine, Mem
    <3>2. tab[t].lease # 0
      BY <2>1, <3>1, EngineHere
    <3> QED BY <2>1, <3>1, <3>2, EngineHere DEF Holds, Present
  <2> QED BY <2>1 DEF EngineIsCurrent
<1>2. LInv /\ [Next]_vars => LInv'
  BY NextOK
<1> QED BY <1>1, <1>2, InitOK, PTL DEF Spec

\* An identity the room has as a member is erased by nobody but the tab that
\* was the first to send it (handleServerError), or one that was told its
\* instance is gone (resolveUnavailableRecoveryRoom).
THEOREM ErasedByItsOwn == Spec => EraseOnlyOwn
<1>1. LInv /\ [Next]_vars =>
        [\A k \in Scoped : Kept(k) /\ store'.recs[k] = NoRecord
            => \E t \in Tabs : ErasedBy(t, k)]_vars
  BY NextOK DEF OwnErased
<1>2. LInv /\ [Next]_vars => LInv'
  BY NextOK
<1> QED BY <1>1, <1>2, InitOK, PTL DEF Spec, EraseOnlyOwn

\* Over an exact store the set the in-memory store counts is the registry,
\* so the bound of both is the same, and each operation leaves what its
\* counterpart leaves.
LEMMA StoresAlike ==
  ASSUME NEW st, StoreOK(st), Exact(st)
  PROVE  Agrees(st)
<1>1. st.recs = [e \in Key |-> st.recs[e]] /\ st.reg = Pending(st.recs)
  BY DEF StoreOK, Exact, Pending
<1>2. SUFFICES ASSUME NEW k \in Key
               PROVE  Agrees(st)!(k)
  BY DEF Agrees
<1>3. MayCreate(st, k) <=> MemMayCreate(st.recs, k)
  <2>1. st.recs[k] = NoRecord => Others(st, k) = Pending(st.recs)
    BY <1>1 DEF Others, Pending, NoRecord, Unresolved
  <2> QED BY <2>1 DEF MayCreate, MemMayCreate, Saturated, MemSaturated
<1>4. ASSUME NEW d, NEW f
      PROVE  Create(st, k, d, f).recs = MemCreate(st.recs, k, d, f)
  BY DEF Create, MemCreate
<1>5. ASSUME NEW stage
      PROVE  Replace(st, k, stage).recs = MemSet(st.recs, k, stage)
  BY DEF Replace, MemSet, StoreOK
<1>6. /\ MarkAmbiguous(st, k).recs = MemMark(st.recs, k, "ambiguous")
      /\ MarkEstablished(st, k).recs = MemMark(st.recs, k, "established")
  <2> DEFINE r == st.recs[k]
  <2>1. r.life \notin {"provisional", "ambiguous"} =>
          /\ MarkAmbiguous(st, k) = st /\ MarkEstablished(st, k) = st
          /\ \A life : MemMark(st.recs, k, life) = st.recs
    BY DEF MarkAmbiguous, MarkEstablished, MemMark, Unresolved
  <2>2. r.life = "ambiguous" =>
          /\ MarkAmbiguous(st, k) = st
          /\ MemMark(st.recs, k, "ambiguous") = st.recs
    BY DEF MarkAmbiguous, MemMark
  <2>3. r.life = "provisional" =>
          /\ MarkAmbiguous(st, k).recs = [st.recs EXCEPT ![k] = Marked(r)]
          /\ MemMark(st.recs, k, "ambiguous") = [st.recs EXCEPT ![k] = Marked(r)]
    BY DEF MarkAmbiguous, MemMark, Unresolved, Marked
  <2>4. r.life \in {"provisional", "ambiguous"} =>
          /\ MarkEstablished(st, k).recs = [st.recs EXCEPT ![k] = Resolved(r)]
          /\ MemMark(st.recs, k, "established") = [st.recs EXCEPT ![k] = Resolved(r)]
    BY DEF MarkEstablished, MemMark, Unresolved, Resolved
  <2> QED BY <2>1, <2>2, <2>3, <2>4
<1>7. Erase(st, k).recs = MemErase(st.recs, k)
  BY DEF Erase, MemErase
<1>8. ASSUME NEW to, st.recs[k].life = "unscoped"
      PROVE  Move(st, k, to).recs = MemMove(st.recs, k, to)
  BY <1>8 DEF Move, MemMove
<1> QED BY <1>3, <1>4, <1>5, <1>6, <1>7, <1>8

\* A participant that keeps its state in memory (MemoryCryptoStateStore) is
\* bound by the same rules as a browser: in every state the two stores would
\* admit the same new identities and turn the same records into the same.
THEOREM StoresAgree == Spec => []Agrees(store)
<1>1. LInv /\ Sound(store) => Agrees(store)
  BY StoresAlike DEF LInv, Sound
<1>2. LInv /\ [Next]_vars => LInv'
  BY NextOK
<1>3. Sound(store) /\ [Next]_vars => Sound(store)'
  BY NextSound
<1>4. Init => Sound(store)
  BY EmptySound, InheritedSound DEF Init
<1> QED BY <1>1, <1>2, <1>3, <1>4, InitOK, PTL DEF Spec
=============================================================================
