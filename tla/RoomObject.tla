---------------------------- MODULE RoomObject ----------------------------
(***************************************************************************)
(* The Durable Object of a room (room.ts): what it keeps in storage        *)
(* (secureRelayPersistenceV4.ts), in memory and in the attachments of its  *)
(* sockets, its one alarm (alarms.ts), and the queue its asynchronous      *)
(* handlers wait in (withSecureLock).                                      *)
(*                                                                         *)
(* A handler in the queue runs alone with respect to the other handlers of *)
(* the queue, but sockets are accepted, messages arrive and sockets close  *)
(* while it waits for storage or cryptography; so it is one step, and what *)
(* arrives before that step arrived while it was waiting or running.       *)
(*                                                                         *)
(* The relay's state is what the object sees of it: a revision, who is     *)
(* connected, whether a deadline runs, and how many chunks it fills;       *)
(* SecureRelay has the rest.                                               *)
(***************************************************************************)
EXTENDS Integers, Sequences

CONSTANTS
  Devices, None,
  MaxConns,     \* bound: sockets accepted
  MaxRev,       \* bound: revisions of a room
  MaxChunks,    \* bound: chunks of a state
  MaxFaults     \* bound: storage failures and crashes

VARIABLES
  disk,    \* the storage: manifest, chunks, alarm schedule
  mem,     \* the relay's state and manifest in memory
  armed,   \* the alarm is set
  sock,    \* connection -> its socket and attachment
  queue,   \* handlers waiting for, or holding, the lock
  faults   \* storage failures and crashes so far

vars == <<disk, mem, armed, sock, queue, faults>>

Conns == 1..MaxConns
Kinds == {"auth-sockets", "secure-relay", "idle"}
Rooms ==
  [rev : 1..MaxRev, conn : [Devices -> 0..MaxConns], due : BOOLEAN, open : BOOLEAN,
   size : 1..MaxChunks]
Manifests == [gen : {0, 1}, count : 1..MaxChunks, rev : 1..MaxRev, digest : Rooms]

ASSUME ObjectAssumption ==
  /\ MaxConns \in Nat /\ MaxRev \in Nat \ {0} /\ MaxChunks \in Nat /\ MaxFaults \in Nat
  /\ None \notin Rooms /\ None \notin Manifests /\ None \notin Devices

Empty == [manifest |-> None, chunks |-> <<>>, sched |-> {}]
Blank == [room |-> None, manifest |-> None]

-----------------------------------------------------------------------------
(* Storage *)

\* prepareSecureRelayPersistenceV4: a state is cut into chunks, and the
\* manifest has the digest of the whole.
Chunks(g, room) == [k \in {g} \X (1..room.size) |-> room]
Manifest(g, room) == [gen |-> g, count |-> room.size, rev |-> room.rev, digest |-> room]

\* restoreSecureRelayPersistenceV4: all chunks of the manifest, of one state.
Readable(dk) ==
  /\ dk.manifest # None
  /\ \A i \in 1..dk.manifest.count :
       /\ <<dk.manifest.gen, i>> \in DOMAIN dk.chunks
       /\ dk.chunks[<<dk.manifest.gen, i>>] = dk.manifest.digest
Restored(dk) ==
  IF Readable(dk) THEN [room |-> dk.manifest.digest, manifest |-> dk.manifest]
  ELSE Blank

\* Slip: the idle deadline takes the place of the relay's.
ScheduledIdle(sched, room, touch) ==
  (sched \ {"secure-relay"}) \cup {IF touch THEN "idle" ELSE "secure-relay"}
\* The schedule of a state: its deadline, and the idle deadline when touched.
Scheduled(sched, room, touch) ==
  (sched \ {"secure-relay"})
    \cup (IF room.due THEN {"secure-relay"} ELSE {})
    \cup (IF touch THEN {"idle"} ELSE {})

OtherGeneration(manifest) == IF manifest # None /\ manifest.gen = 0 THEN 1 ELSE 0

\* Slip: as many old chunks are deleted as new ones were written.
DeletedLikeNew(previous, room) ==
  IF previous = None THEN {} ELSE {previous.gen} \X (1..room.size)
\* The chunks of the previous generation are deleted.
Deleted(previous, room) ==
  IF previous = None THEN {} ELSE {previous.gen} \X (1..previous.count)

\* What one transaction of persistSecureRelayState leaves in storage.
Stored(dk, previous, room, touch) ==
  LET g       == OtherGeneration(previous)
      written == {g} \X (1..room.size)
      keys    == (written \cup DOMAIN dk.chunks) \ Deleted(previous, room)
  IN [manifest |-> Manifest(g, room),
      chunks   |-> [k \in keys |-> IF k \in written THEN room ELSE dk.chunks[k]],
      sched    |-> Scheduled(dk.sched, room, touch)]

\* The storage is what the memory believes it is.
Unchanged(dk, mm, room) ==
  /\ dk.manifest = mm.manifest
  /\ room.rev = IF mm.manifest = None THEN 1 ELSE mm.manifest.rev + 1

\* Slip: the memory is ahead of a failed transaction.
FailedAhead(mm, room) == [mm EXCEPT !.room = room]
\* A failed transaction leaves everything as it was.
Failed(mm, room) == mm

Persisted(room, touch) ==
  /\ Unchanged(disk, mem, room)
  /\ disk' = Stored(disk, mem.manifest, room, touch)
  /\ mem' = [room |-> room, manifest |-> Manifest(OtherGeneration(mem.manifest), room)]
  /\ armed' = (disk'.sched # {})
  /\ UNCHANGED faults
NotPersisted(room) ==
  /\ \/ ~Unchanged(disk, mem, room) /\ UNCHANGED faults
     \/ faults < MaxFaults /\ faults' = faults + 1
  /\ mem' = Failed(mem, room)
  /\ UNCHANGED disk

-----------------------------------------------------------------------------
(* The relay, as the object sees it *)

NewRoom(d, c, size) ==
  [rev |-> 1, conn |-> [e \in Devices |-> IF e = d THEN c ELSE 0],
   due |-> FALSE, open |-> TRUE, size |-> size]
Retired(room) ==
  [room EXCEPT !.rev = room.rev + 1, !.open = FALSE, !.due = FALSE,
               !.conn = [e \in Devices |-> 0]]
Moved(room, conn, due, size) ==
  [room EXCEPT !.rev = room.rev + 1, !.conn = conn, !.due = due, !.size = size]
\* A transition of an open room with these connections, or its last.
Successors(room, conn) ==
  {Retired(room)} \cup
  {Moved(room, conn, due, size) : due \in BOOLEAN, size \in 1..MaxChunks}
CanMove(room) == room # None /\ room.open /\ room.rev < MaxRev

-----------------------------------------------------------------------------
(* Sockets *)

NoSocket == [st |-> "none", auth |-> FALSE, dev |-> None, asked |-> FALSE]
ServerCloses(s) ==
  IF s.st \in {"opening", "open"} THEN [s EXCEPT !.st = "closed"] ELSE s
\* The sockets of a retired room are closed with it.
Retiring(s, room) ==
  IF room.open THEN s ELSE [c \in Conns |-> ServerCloses(s[c])]

\* fetch: a socket is accepted, and has its attachment and its deadline
\* only after its source has been hashed.
Accept(c) ==
  /\ sock[c].st = "none" /\ \A b \in 1..(c - 1) : sock[b].st # "none"
  /\ sock' = [sock EXCEPT ![c].st = "opening"]
  /\ UNCHANGED <<disk, mem, armed, queue, faults>>

\* schedulePreAuthSocketSweep sets the alarm with its entry.
ArmedFor(sched) == armed \/ "auth-sockets" \notin sched
Challenge(c) ==
  /\ sock[c].st \in {"opening", "closed"} /\ ~sock[c].asked
  /\ \/ /\ sock' = [sock EXCEPT ![c].st = IF sock[c].st = "opening" THEN "open" ELSE "closed",
                                ![c].asked = TRUE]
        /\ armed' = ArmedFor(disk.sched)
        /\ disk' = [disk EXCEPT !.sched = disk.sched \cup {"auth-sockets"}]
        /\ UNCHANGED faults
     \/ /\ faults < MaxFaults /\ faults' = faults + 1
        /\ sock' = [sock EXCEPT ![c] = [ServerCloses(sock[c]) EXCEPT !.asked = TRUE]]
        /\ UNCHANGED <<disk, armed>>
  /\ UNCHANGED <<mem, queue>>

\* A client authenticates (setup, join or resume), once, or sends a frame.
Waiting(op) == \E n \in DOMAIN queue : queue[n] = op
Authenticate(c, d) ==
  /\ sock[c].st = "open" /\ ~sock[c].auth /\ sock[c].dev = None
  /\ sock' = [sock EXCEPT ![c].dev = d]
  /\ queue' = Append(queue, [op |-> "auth", c |-> c])
  /\ UNCHANGED <<disk, mem, armed, faults>>
Send(c) ==
  /\ sock[c].st = "open" /\ sock[c].auth
  /\ ~Waiting([op |-> "frame", c |-> c])
  /\ queue' = Append(queue, [op |-> "frame", c |-> c])
  /\ UNCHANGED <<disk, mem, armed, sock, faults>>

\* The client closes its socket, or the connection is lost.
ClientCloses(c) ==
  /\ sock[c].st \in {"opening", "open"}
  /\ sock' = [sock EXCEPT ![c].st = "closed"]
  /\ UNCHANGED <<disk, mem, armed, queue, faults>>
\* webSocketClose, webSocketError: only an authenticated socket has a secure
\* disconnect.
CloseEvent(c) ==
  /\ sock[c].st = "closed"
  /\ sock' = [sock EXCEPT ![c].st = "gone"]
  /\ queue' = IF sock[c].auth THEN Append(queue, [op |-> "close", c |-> c]) ELSE queue
  /\ UNCHANGED <<disk, mem, armed, faults>>

-----------------------------------------------------------------------------
(* The handlers of the queue *)

\* A rejected socket is closed (rejectSecureAuthentication).
Reject(c) ==
  /\ sock' = [sock EXCEPT ![c] = ServerCloses(sock[c])]
  /\ UNCHANGED <<disk, mem, armed, faults>>

\* What authenticating d on c makes of the room; setup makes the room.
Authenticated(c, d) ==
  IF mem.room = None
  THEN {NewRoom(d, c, size) : size \in 1..MaxChunks}
  ELSE Successors(mem.room, [mem.room.conn EXCEPT ![d] = c])
\* The socket of the connection a resume replaces is closed.
Replaced(s, c, d) ==
  [b \in Conns |->
     IF b # c /\ s[b].auth /\ mem.room # None /\ mem.room.conn[d] = b
     THEN ServerCloses(s[b]) ELSE s[b]]

\* handleSecureAuthenticate.  What expired meanwhile is stored even if it
\* costs the device its place, or the room is over: the socket is rejected.
RunAuth(c) ==
  LET d == sock[c].dev
  IN \/ Reject(c)
     \/ /\ mem.room = None \/ CanMove(mem.room)
        /\ \E room \in Authenticated(c, d) :
             \/ /\ Persisted(room, TRUE) /\ room.open
                /\ sock' = [Replaced(sock, c, d) EXCEPT ![c].auth = TRUE]
             \/ NotPersisted(room) /\ UNCHANGED armed
                /\ sock' = [sock EXCEPT ![c] = ServerCloses(sock[c])]
     \/ /\ CanMove(mem.room)
        /\ \E room \in Successors(mem.room, mem.room.conn) :
             /\ Persisted(room, TRUE)
             /\ sock' = Retiring([sock EXCEPT ![c] = ServerCloses(sock[c])], room)

\* handleSecureFrame
RunFrame(c) ==
  IF mem.room = None \/ ~sock[c].auth \/ ~CanMove(mem.room) \/ mem.room.conn[sock[c].dev] # c
  THEN UNCHANGED <<disk, mem, armed, sock, faults>>
  ELSE \E room \in Successors(mem.room, mem.room.conn) :
         \/ Persisted(room, TRUE) /\ sock' = Retiring(sock, room)
         \/ NotPersisted(room) /\ UNCHANGED <<armed, sock>>

\* onSecureDisconnect: nothing for a connection that was replaced.
RunClose(c) ==
  IF mem.room = None \/ ~sock[c].auth \/ ~CanMove(mem.room) \/ mem.room.conn[sock[c].dev] # c
  THEN UNCHANGED <<disk, mem, armed, sock, faults>>
  ELSE \E room \in Successors(mem.room, [mem.room.conn EXCEPT ![sock[c].dev] = 0]) :
         \/ Persisted(room, FALSE)
            /\ sock' = Retiring([sock EXCEPT ![c].auth = FALSE], room)
         \/ NotPersisted(room) /\ UNCHANGED <<armed, sock>>

\* saveAlarmSchedule
Saved(sched) ==
  /\ disk' = [disk EXCEPT !.sched = sched]
  /\ armed' = (sched # {})

\* The sweep closes the sockets whose time to authenticate is over, and
\* those that have no attachment yet.
Unauthenticated(c) == sock[c].st \in {"opening", "open"} /\ ~sock[c].auth
Sweep ==
  \E late \in SUBSET {c \in Conns : Unauthenticated(c)} :
    LET over == late \cup {c \in Conns : sock[c].st = "opening"}
        left == {c \in Conns : Unauthenticated(c)} \ over
    IN /\ sock' = [c \in Conns |-> IF c \in over THEN ServerCloses(sock[c]) ELSE sock[c]]
       /\ Saved((disk.sched \ {"auth-sockets"})
                  \cup (IF left # {} THEN {"auth-sockets"} ELSE {}))
       /\ UNCHANGED <<mem, faults>>

\* A failure surfaces, and the platform fires the alarm again.
AdvanceRelay ==
  IF mem.room = None
  THEN Saved(disk.sched \ {"secure-relay"}) /\ UNCHANGED <<mem, sock, faults>>
  ELSE \/ /\ Saved(Scheduled(disk.sched, mem.room, FALSE))
          /\ UNCHANGED <<mem, sock, faults>>
       \/ /\ CanMove(mem.room)
          /\ \E room \in Successors(mem.room, mem.room.conn) :
               \/ Persisted(room, FALSE) /\ sock' = Retiring(sock, room)
               \/ NotPersisted(room) /\ armed' = TRUE /\ UNCHANGED sock

\* destroyRoom: of this module's keys none is kept.
Destroy ==
  /\ disk' = Empty /\ mem' = Blank /\ armed' = FALSE
  /\ sock' = [c \in Conns |-> ServerCloses(sock[c])]
  /\ UNCHANGED faults

\* alarm: one kind that is due, by priority; it is due or was put off.
RunAlarm ==
  \E due \in SUBSET disk.sched :
    CASE "auth-sockets" \in due -> Sweep
      [] due \cap {"auth-sockets", "secure-relay"} = {"secure-relay"} -> AdvanceRelay
      [] due = {"idle"} -> Destroy
      [] OTHER -> Saved(disk.sched) /\ UNCHANGED <<mem, sock, faults>>

Run ==
  /\ queue # <<>>
  /\ queue' = Tail(queue)
  /\ LET q == Head(queue)
     IN CASE q.op = "auth"  -> RunAuth(q.c)
          [] q.op = "frame" -> RunFrame(q.c)
          [] q.op = "close" -> RunClose(q.c)
          [] q.op = "alarm" -> RunAlarm

\* The platform fires the alarm that is set, which clears it.
TheAlarm == [op |-> "alarm", c |-> 0]
Fire ==
  /\ armed /\ ~Waiting(TheAlarm)
  /\ armed' = FALSE
  /\ queue' = Append(queue, TheAlarm)
  /\ UNCHANGED <<disk, mem, sock, faults>>

-----------------------------------------------------------------------------
(* The object is evicted between two handlers and its sockets stay, or it  *)
(* crashes with everything in memory and every socket.                     *)

\* The constructor restores the state and the alarm of its deadline.
Restarted(retry) ==
  LET mm == Restored(disk)
  IN /\ mem' = mm
     /\ IF mm.room = None THEN UNCHANGED disk /\ armed' = (armed \/ retry)
        ELSE Saved(Scheduled(disk.sched, mm.room, FALSE))
Evict ==
  /\ queue = <<>> /\ \A c \in Conns : sock[c].st # "opening"
  /\ Restarted(FALSE)
  /\ UNCHANGED <<sock, queue, faults>>
Crash ==
  /\ faults < MaxFaults /\ faults' = faults + 1
  /\ Restarted(Waiting(TheAlarm))
  /\ queue' = <<>>
  /\ sock' = [c \in Conns |-> IF sock[c].st = "none" THEN sock[c] ELSE [sock[c] EXCEPT !.st = "gone"]]

-----------------------------------------------------------------------------
Init ==
  /\ disk = Empty /\ mem = Blank /\ armed = FALSE
  /\ sock = [c \in Conns |-> NoSocket]
  /\ queue = <<>> /\ faults = 0

Next ==
  \/ \E c \in Conns :
       \/ Accept(c) \/ Challenge(c) \/ Send(c) \/ ClientCloses(c) \/ CloseEvent(c)
       \/ \E d \in Devices : Authenticate(c, d)
  \/ Run \/ Fire \/ Evict \/ Crash
Spec == Init /\ [][Next]_vars

-----------------------------------------------------------------------------
(* Properties *)

\* Whenever the object goes down, what it finds in storage is one whole
\* state, and nothing of another; no chunk is left behind for good.
StoredIsWhole ==
  IF disk.manifest = None THEN disk.chunks = <<>>
  ELSE disk.chunks = Chunks(disk.manifest.gen, disk.manifest.digest)

\* No handler answers from a state that a restart would not bring back,
\* whatever transactions failed before.
MemoryIsStored == mem = Restored(disk)

\* A deadline of the relay and the end of an idle room are waited for: the
\* schedule has them, and the one alarm is set or about to be handled.
DeadlineIsAwaited ==
  /\ disk.manifest # None =>
       /\ mem.room # None /\ mem.room.due => "secure-relay" \in disk.sched
       /\ "idle" \in disk.sched
  /\ disk.sched # {} => armed \/ Waiting(TheAlarm)

\* A socket that has its challenge and does not use it is closed some time.
SweepIsAwaited ==
  \A c \in Conns : sock[c].st = "open" /\ ~sock[c].auth => "auth-sockets" \in disk.sched

\* No deadline is forgotten, though all of them share one alarm, which is
\* cleared when it fires and moved by every handler.
AlarmIsAwaited == DeadlineIsAwaited /\ SweepIsAwaited

\* room.ts:1096: no member is left "marked connected forever": whoever the
\* relay takes for connected has a socket whose end it will be told of.
ConnectedHasSocket ==
  mem.room # None =>
    \A d \in Devices : mem.room.conn[d] # 0 =>
      LET c == mem.room.conn[d]
      IN sock[c].st \in {"opening", "open", "closed"} \/ Waiting([op |-> "close", c |-> c])
=============================================================================
