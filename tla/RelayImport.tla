----------------------------- MODULE RelayImport -----------------------------
(* What a relay state must satisfy to be read back: parseMember and           *)
(* parseSecureRelayStateV4 of src/src/secureRelayV4.ts.  Every entry point of *)
(* the reducer parses the state it is given, and the Durable Object parses    *)
(* the state it is about to store.  One operator per group of checks.         *)
EXTENDS RelayState

MemberImportable(m) ==
    /\ (m.status \in {"active", "pending"}) <=> (m.conn # 0)
    /\ m.phase # "none" =>
          /\ m.status \in {"pending", "disconnected"} /\ m.admission # "off"
          /\ m.phase # "awaiting-welcome" => m.added
          /\ (m.phase = "awaiting-proof") <=> (m.proofOrder # 0)
          /\ m.proof => m.phase = "awaiting-proof"
    /\ m.phase = "none" =>
          m.admission = "off" /\ ~m.added /\ ~m.proof /\ m.proofOrder = 0
    /\ m.status \in {"absent", "retired"} => m.backlog = <<>>
    /\ m.fresh => Away(m) /\ m.backlog = <<>>
    /\ (Away(m) /\ ~m.fresh) <=> (m.grace # "off")
    /\ m.replay # 0 => Replaying(m)
    /\ Len(m.backlog) <= MaxBacklog

(* A queued request or a grant belongs to an active member with nothing left  *)
(* to acknowledge, and a member has at most one of the two.                   *)
QueueImportable(r) ==
    /\ \A d \in Listed(r.queue) : Ready(r.members[d])
    /\ Cardinality(Listed(r.queue)) <= MaxQueue

GrantImportable(r) ==
    r.grant.device # NoDevice =>
        /\ Ready(r.members[r.grant.device])
        /\ r.grant.order = r.nextOrder
        /\ r.queue[r.grant.device] = 0

(* The held operation is that of an established member other than the host,   *)
(* it holds the next order, and it excludes a grant and a second operation.   *)
HeldImportable(r, from, order) ==
    from # NoDevice =>
        /\ from # r.host /\ Established(r.members[from])
        /\ order = r.nextOrder /\ r.grant.device = NoDevice

PendingImportable(r) ==
    /\ HeldImportable(r, r.application.from, r.application.order)
    /\ HeldImportable(r, r.commit.from, r.commit.order)
    /\ r.application.from = NoDevice \/ r.commit.from = NoDevice

TransferImportable(r) ==
    /\ r.transfer.host # NoDevice =>
          /\ r.transfer.host = r.host
          /\ r.members[r.transfer.target].status # "retired"
          /\ InAdmission(r) = {}
    /\ r.application.accepts =>
          r.transfer.host # NoDevice /\ r.transfer.target = r.application.from

(* Only the host may hold or queue for an order, if `open`; nobody otherwise. *)
HostOnly(r, open) ==
    /\ r.grant.device # NoDevice => open /\ r.grant.device = r.host
    /\ \A d \in Listed(r.queue) : open /\ d = r.host

Quiet(r) ==
    r.application.from = NoDevice /\ r.commit.from = NoDevice /\ r.transfer.host = NoDevice

RemovalImportable(r) ==
    /\ \A d \in Listed(r.zombies) : r.members[d].status = "retired" \/ r.members[d].fresh
    /\ RemovalBarrier(r) => Quiet(r) /\ InAdmission(r) = {} /\ HostOnly(r, r.removal = 0)
    /\ r.removal # 0 =>
          /\ RemovalBarrier(r) /\ r.removal \in 1..Len(r.accepted)
          /\ r.accepted[r.removal].from = r.host

AdmissionImportable(r) ==
    /\ \A a \in AdmissionBarrier(r) :
          /\ \A b \in AdmissionBarrier(r) : a = b
          /\ ~RemovalBarrier(r) /\ Quiet(r)
          /\ HostOnly(r, r.members[a].phase = "awaiting-bootstrap")
    /\ \A a \in InAdmission(r) : r.members[a].proofOrder \in {0, r.nextOrder}

LifecycleImportable(r) ==
    /\ r.lifecycle = "open" => r.host # NoDevice /\ Established(r.members[r.host])
    /\ r.lifecycle = "retired" =>
          /\ r.host = NoDevice /\ r.grant.device = NoDevice /\ Quiet(r)
          /\ Listed(r.queue) = {} /\ ~RemovalBarrier(r)
          /\ \A d \in Device : r.members[d].status \in {"absent", "retired"}

(* Orders never go back within a backlog, a delivery or an acceptance carries *)
(* an order already given out, and no device is sent its own frame.           *)
BacklogImportable(r) ==
    \A d \in Device : LET log == r.members[d].backlog IN
        /\ \A i \in 1..Len(log) :
              IF log[i].kind = "rejected" THEN log[i].order <= r.nextOrder
                                          ELSE log[i].order < r.nextOrder
        /\ \A i, j \in 1..Len(log) :
              i < j /\ log[i].order # 0 /\ log[j].order # 0 => log[i].order <= log[j].order
        /\ \A i \in 1..Len(log) : log[i].kind = "relay" => r.accepted[log[i].frame].from # d

Importable(r) ==
    /\ \A d \in Device : MemberImportable(r.members[d])
    /\ QueueImportable(r)
    /\ GrantImportable(r)
    /\ PendingImportable(r)
    /\ TransferImportable(r)
    /\ RemovalImportable(r)
    /\ AdmissionImportable(r)
    /\ LifecycleImportable(r)
    /\ BacklogImportable(r)

(* A transition also stamps the state with the time it ran at, and a state    *)
(* whose stamp has reached a disconnect deadline cannot be read back.         *)
Unexpired(r) == \A d \in Device : r.members[d].grace # "over"
=============================================================================
