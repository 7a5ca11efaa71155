---------------------------- MODULE CryptoStore ----------------------------
(***************************************************************************)
(* The browser's store of encrypted device state                           *)
(* (participant/cryptoStateStore.ts), shared by every tab of an origin.    *)
(*                                                                         *)
(* A record belongs to a key, the hash of a room instance and the room     *)
(* secret; an older client kept one record per instance instead, under a   *)
(* key of the instance alone.  A record has a revision, and a lifecycle  *)
(* that says whether its identity may have reached the relay.  A registry  *)
(* lists the unresolved identities, to bound them.  Every operation is one *)
(* strict transaction and so one step; it is a function of the store here, *)
(* and the predicate beside it says when the transaction commits.          *)
(***************************************************************************)
EXTENDS Integers, FiniteSets

CONSTANTS
  Instances,            \* the room instances that exist over time
  Secrets,              \* the secrets a user may type
  Devices,              \* the device identities that may be created
  MaxProvisional,       \* unresolved identities of one instance (4 in the code)
  MaxProvisionalGlobal  \* and of the whole origin (16 in the code)

KeyOf(i, s) == <<i, s>>
OldKey(i) == <<i>>
Scoped == Instances \X Secrets
Key == Scoped \cup {OldKey(i) : i \in Instances}

Lifecycles == {"provisional", "ambiguous", "established", "unscoped"}

\* The content of a record, as far as the life of an identity tells it
\* apart: the KeyPackage that authenticates it is not yet made (new), kept
\* and unanswered (keyed), acknowledged (acked), kept by a joiner that has
\* processed its Welcome (joined), or dropped for good (settled).
Stages == {"new", "keyed", "acked", "joined", "settled"}

Record == [rev : Nat, life : Lifecycles, dev : Devices, founder : BOOLEAN,
           stage : Stages, secret : Secrets]
NoRecord == [rev |-> 0, life |-> "none"]

Unresolved(r) == r.life \in {"provisional", "ambiguous"}

Stores == [recs : [Key -> Record \cup {NoRecord}], reg : SUBSET Key]

\* compareAndSetOpaqueState, the two markers and the erasure all require
\* the revision the caller has read.
AtRevision(st, k, rev) == st.recs[k] # NoRecord /\ st.recs[k].rev = rev

\* compareAndSetOpaqueState: new content, the same scope and lifecycle.
Replaced(r, stage) == [r EXCEPT !.rev = r.rev + 1, !.stage = stage]
Replace(st, k, stage) ==
  [st EXCEPT !.recs = [st.recs EXCEPT ![k] = Replaced(st.recs[k], stage)]]

\* createProvisionalOpaqueState: a stale entry of the absent record itself
\* is dropped, no other entry is ever evicted.
Others(st, k) == st.reg \ {k}
Saturated(st, k) ==
  \/ Cardinality({e \in Others(st, k) : e[1] = k[1]}) >= MaxProvisional
  \/ Cardinality(Others(st, k)) >= MaxProvisionalGlobal
MayCreate(st, k) == st.recs[k] = NoRecord /\ ~Saturated(st, k)
Fresh(k, d, isFounder) ==
  [rev |-> 1, life |-> "provisional", dev |-> d, founder |-> isFounder,
   stage |-> "new", secret |-> k[2]]
Create(st, k, d, isFounder) ==
  [recs |-> [st.recs EXCEPT ![k] = Fresh(k, d, isFounder)],
   reg  |-> Others(st, k) \cup {k}]

\* markOpaqueStateAuthenticationAmbiguous: only a provisional record moves.
Marked(r) == [r EXCEPT !.rev = r.rev + 1, !.life = "ambiguous"]
MarkAmbiguous(st, k) ==
  IF st.recs[k].life = "provisional"
  THEN [st EXCEPT !.recs = [st.recs EXCEPT ![k] = Marked(st.recs[k])]]
  ELSE st

\* markOpaqueStateEstablished: the identity is resolved, so its registry
\* entry goes in the same transaction.
Resolved(r) == [r EXCEPT !.rev = r.rev + 1, !.life = "established"]
\* Slip: the entry of the resolved identity is left in the registry.
EstablishOnly(st, k) ==
  IF Unresolved(st.recs[k])
  THEN [recs |-> [st.recs EXCEPT ![k] = Resolved(st.recs[k])], reg |-> st.reg]
  ELSE st
MarkEstablished(st, k) ==
  IF Unresolved(st.recs[k])
  THEN [recs |-> [st.recs EXCEPT ![k] = Resolved(st.recs[k])],
        reg  |-> st.reg \ {k}]
  ELSE st

\* compareAndDeleteOpaqueState
Erase(st, k) ==
  [recs |-> [st.recs EXCEPT ![k] = NoRecord],
   reg  |-> IF Unresolved(st.recs[k]) THEN st.reg \ {k} ELSE st.reg]

\* compareAndMoveOpaqueState, as restore uses it: the record of an older
\* client goes to the key of the credential that decrypts it, gets a scope
\* and counts as established.
Moved(r) == [r EXCEPT !.life = "established"]
Move(st, from, to) ==
  [recs |-> [st.recs EXCEPT ![from] = NoRecord, ![to] = Moved(st.recs[from])],
   reg  |-> st.reg]

\* A record the older client left is never unresolved.
EmptyStore == [recs |-> [k \in Key |-> NoRecord], reg |-> {}]
Inherited(i, s, d) ==
  [recs |-> [k \in Key |->
     IF k = OldKey(i)
     THEN [rev |-> 1, life |-> "unscoped", dev |-> d, founder |-> FALSE,
           stage |-> "settled", secret |-> s]
     ELSE NoRecord],
   reg |-> {}]

\* The registry lists exactly the unresolved identities, although each is
\* changed by another operation (validateProvisionalStateRegistryRecord and
\* the "absent from its registry" errors take it for granted).
Exact(st) == \A k \in Key : k \in st.reg <=> Unresolved(st.recs[k])

\* The store of an ephemeral participant (MemoryCryptoStateStore) keeps the
\* records alone: it has no registry and counts the unresolved ones each
\* time.
Pending(recs) == {e \in Key : Unresolved(recs[e])}
MemSaturated(recs, k) ==
  \/ Cardinality(Pending(recs)) >= MaxProvisionalGlobal
  \/ Cardinality({e \in Pending(recs) : e[1] = k[1]}) >= MaxProvisional
MemMayCreate(recs, k) == recs[k] = NoRecord /\ ~MemSaturated(recs, k)
MemCreate(recs, k, d, isFounder) == [recs EXCEPT ![k] = Fresh(k, d, isFounder)]
MemSet(recs, k, stage) == [recs EXCEPT ![k] = Replaced(@, stage)]
\* mark: one operation for both markers, which a record of the lifecycle
\* asked for passes unchanged.
MemMark(recs, k, life) ==
  IF Unresolved(recs[k]) /\ recs[k].life # life
  THEN [recs EXCEPT ![k] = [recs[k] EXCEPT !.rev = recs[k].rev + 1, !.life = life]]
  ELSE recs
MemErase(recs, k) == [recs EXCEPT ![k] = NoRecord]
MemMove(recs, from, to) ==
  [recs EXCEPT ![from] = NoRecord,
               ![to] = IF recs[from].life = "unscoped" THEN Moved(recs[from]) ELSE recs[from]]

\* The two stores are one to the engine: over the same records they allow
\* the same identities, and every operation leaves the same records.
Agrees(st) ==
  \A k \in Key :
    /\ k \in Scoped => (MayCreate(st, k) <=> MemMayCreate(st.recs, k))
    /\ \A d \in Devices, f \in BOOLEAN :
         k \in Scoped => Create(st, k, d, f).recs = MemCreate(st.recs, k, d, f)
    /\ st.recs[k] # NoRecord =>
         /\ \A stage \in Stages : Replace(st, k, stage).recs = MemSet(st.recs, k, stage)
         /\ MarkAmbiguous(st, k).recs = MemMark(st.recs, k, "ambiguous")
         /\ MarkEstablished(st, k).recs = MemMark(st.recs, k, "established")
         /\ Erase(st, k).recs = MemErase(st.recs, k)
         /\ st.recs[k].life = "unscoped" =>
              \A to \in Scoped : Move(st, k, to).recs = MemMove(st.recs, k, to)
=============================================================================
