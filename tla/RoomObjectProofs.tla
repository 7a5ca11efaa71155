------------------------ MODULE RoomObjectProofs ------------------------
(***************************************************************************)
(* What the Durable Object of a room keeps and waits for (RoomObject), for *)
(* any number of sockets, chunks, revisions, storage failures and crashes. *)
(***************************************************************************)
EXTENDS RoomObject, SequenceTheorems, TLAPS

USE ObjectAssumption

-----------------------------------------------------------------------------
(* The invariant *)

Sockets == [st : {"none", "opening", "open", "closed", "gone"}, auth : BOOLEAN,
            dev : Devices \cup {None}, asked : BOOLEAN]
Handlers == [op : {"auth", "frame", "close", "alarm"}, c : 0..MaxConns]

Shape ==
  /\ disk = [manifest |-> disk.manifest, chunks |-> disk.chunks, sched |-> disk.sched]
  /\ disk.sched \subseteq Kinds
  /\ armed \in BOOLEAN
  /\ sock \in [Conns -> Sockets]
  /\ queue \in Seq(Handlers)
  /\ \A n \in DOMAIN queue : queue[n].op # "alarm" => queue[n].c \in Conns

(* Storage and memory have the same whole state, or none.                     *)
WholeState(dk, mm, g, room) ==
  /\ mm = [room |-> room, manifest |-> Manifest(g, room)]
  /\ dk.manifest = Manifest(g, room)
  /\ dk.chunks = Chunks(g, room)
NoState(dk, mm) == mm = Blank /\ dk.manifest = None /\ dk.chunks = <<>>
Whole == NoState(disk, mem) \/ \E g \in {0, 1}, room \in Rooms : WholeState(disk, mem, g, room)

(* A close event that waits to be handled is that of a socket that is gone.   *)
ClosersAreGone ==
  \A n \in DOMAIN queue : queue[n].op = "close" => sock[queue[n].c].st = "gone"

IInv == Shape /\ Whole /\ ClosersAreGone /\ DeadlineIsAwaited /\ SweepIsAwaited

-----------------------------------------------------------------------------
(* Sockets *)

LEMMA SocketShape ==
  \A s \in Sockets, st \in {"none", "opening", "open", "closed", "gone"}, b \in BOOLEAN,
     d \in Devices \cup {None} :
    /\ [s EXCEPT !.st = st] \in Sockets /\ [s EXCEPT !.st = st].st = st
    /\ [s EXCEPT !.st = st].auth = s.auth
    /\ [s EXCEPT !.auth = b] \in Sockets /\ [s EXCEPT !.auth = b].auth = b
    /\ [s EXCEPT !.auth = b].st = s.st
    /\ [s EXCEPT !.dev = d] \in Sockets /\ [s EXCEPT !.dev = d].st = s.st
    /\ [s EXCEPT !.dev = d].auth = s.auth
    /\ [s EXCEPT !.asked = b] \in Sockets /\ [s EXCEPT !.asked = b].st = s.st
    /\ [s EXCEPT !.asked = b].auth = s.auth
  BY DEF Sockets

LEMMA ServerClosesShape ==
  \A s \in Sockets :
    /\ ServerCloses(s) \in Sockets
    /\ ServerCloses(s).st \notin {"opening", "open"}
    /\ s.st = "gone" => ServerCloses(s).st = "gone"
    /\ ServerCloses(s).auth = s.auth
<1> SUFFICES ASSUME NEW s \in Sockets
             PROVE  /\ ServerCloses(s) \in Sockets
                    /\ ServerCloses(s).st \notin {"opening", "open"}
                    /\ s.st = "gone" => ServerCloses(s).st = "gone"
                    /\ ServerCloses(s).auth = s.auth
  OBVIOUS
<1>1. [s EXCEPT !.st = "closed"] \in Sockets /\ [s EXCEPT !.st = "closed"].st = "closed"
      /\ [s EXCEPT !.st = "closed"].auth = s.auth
  BY SocketShape, TRUE \in BOOLEAN, None \in Devices \cup {None}, ZenonT(40)
<1> QED BY <1>1 DEF ServerCloses

(* From s to t sockets come to an end or authenticate, and none is opened.    *)
Settles(s, t) ==
  /\ t \in [Conns -> Sockets]
  /\ \A c \in Conns :
       /\ s[c].st = "gone" => t[c].st = "gone"
       /\ t[c].st = "open" /\ ~t[c].auth => s[c].st = "open" /\ ~s[c].auth

LEMMA SettlesTwice ==
  ASSUME NEW s, NEW t, NEW u, Settles(s, t), Settles(t, u)
  PROVE  Settles(s, u)
  BY DEF Settles

LEMMA SomeClose ==
  ASSUME NEW s \in [Conns -> Sockets], NEW t \in [Conns -> Sockets],
         \A c \in Conns : t[c] = s[c] \/ t[c] = ServerCloses(s[c])
  PROVE  Settles(s, t)
  BY ServerClosesShape DEF Settles

LEMMA OneCloses ==
  ASSUME NEW s \in [Conns -> Sockets], NEW c \in Conns
  PROVE  Settles(s, [s EXCEPT ![c] = ServerCloses(s[c])])
<1>1. [s EXCEPT ![c] = ServerCloses(s[c])] \in [Conns -> Sockets]
  BY ServerClosesShape
<1> QED BY <1>1, SomeClose

LEMMA AllClose ==
  ASSUME NEW s \in [Conns -> Sockets]
  PROVE  /\ Settles(s, [c \in Conns |-> ServerCloses(s[c])])
         /\ \A c \in Conns : [b \in Conns |-> ServerCloses(s[b])][c].st # "open"
<1>1. [c \in Conns |-> ServerCloses(s[c])] \in [Conns -> Sockets]
  BY ServerClosesShape
<1> QED BY <1>1, SomeClose, ServerClosesShape

LEMMA RetiringSettles ==
  ASSUME NEW s, NEW t, Settles(s, t), NEW room
  PROVE  Settles(s, Retiring(t, room))
<1>1. t \in [Conns -> Sockets]
  BY DEF Settles
<1>2. Settles(t, t)
  BY <1>1 DEF Settles
<1>3. Settles(t, Retiring(t, room))
  BY <1>1, <1>2, AllClose DEF Retiring
<1> QED BY <1>3, SettlesTwice

LEMMA ReplacedSettles ==
  ASSUME NEW c \in Conns, NEW d, NEW s \in [Conns -> Sockets]
  PROVE  Settles(s, Replaced(s, c, d))
<1>1. Replaced(s, c, d) \in [Conns -> Sockets]
  BY ServerClosesShape DEF Replaced
<1> QED BY <1>1, SomeClose DEF Replaced

LEMMA AuthenticatedSettles ==
  ASSUME NEW c \in Conns, NEW s, NEW t, Settles(s, t)
  PROVE  Settles(s, [t EXCEPT ![c].auth = TRUE])
<1>1. t \in [Conns -> Sockets]
  BY DEF Settles
<1>2. [t[c] EXCEPT !.auth = TRUE] \in Sockets /\ [t[c] EXCEPT !.auth = TRUE].auth = TRUE
      /\ [t[c] EXCEPT !.auth = TRUE].st = t[c].st
  BY <1>1 DEF Sockets
<1>3. /\ [t EXCEPT ![c].auth = TRUE] \in [Conns -> Sockets]
      /\ [t EXCEPT ![c].auth = TRUE][c] = [t[c] EXCEPT !.auth = TRUE]
      /\ \A b \in Conns \ {c} : [t EXCEPT ![c].auth = TRUE][b] = t[b]
  BY <1>1, <1>2
<1> QED BY <1>1, <1>2, <1>3 DEF Settles

LEMMA LeavingSettles ==
  ASSUME NEW c \in Conns, NEW s \in [Conns -> Sockets], s[c].st = "gone"
  PROVE  Settles(s, [s EXCEPT ![c].auth = FALSE])
<1>1. [s[c] EXCEPT !.auth = FALSE] \in Sockets /\ [s[c] EXCEPT !.auth = FALSE].st = s[c].st
  BY DEF Sockets
<1>2. /\ [s EXCEPT ![c].auth = FALSE] \in [Conns -> Sockets]
      /\ [s EXCEPT ![c].auth = FALSE][c] = [s[c] EXCEPT !.auth = FALSE]
      /\ \A b \in Conns \ {c} : [s EXCEPT ![c].auth = FALSE][b] = s[b]
  BY <1>1
<1> QED BY <1>1, <1>2 DEF Settles

-----------------------------------------------------------------------------
(* Storage *)

LEMMA SchedulesAreKinds ==
  ASSUME NEW sched \in SUBSET Kinds, NEW room \in Rooms, NEW touch \in BOOLEAN
  PROVE  /\ Scheduled(sched, room, touch) \subseteq Kinds
         /\ room.due => "secure-relay" \in Scheduled(sched, room, touch)
         /\ "auth-sockets" \in sched => "auth-sockets" \in Scheduled(sched, room, touch)
         /\ "idle" \in sched => "idle" \in Scheduled(sched, room, touch)
         /\ touch => "idle" \in Scheduled(sched, room, touch)
  BY DEF Scheduled, Kinds

LEMMA ManifestShape ==
  ASSUME NEW g \in {0, 1}, NEW room \in Rooms
  PROVE  /\ Manifest(g, room) \in Manifests /\ Manifest(g, room) # None
         /\ Manifest(g, room).gen = g /\ Manifest(g, room).count = room.size
         /\ Manifest(g, room).rev = room.rev /\ Manifest(g, room).digest = room
         /\ room # None /\ room.size \in Nat
  BY DEF Manifest, Manifests, Rooms

(* What is restored is the state that was stored.                             *)
LEMMA WholeIsRestored ==
  ASSUME NEW dk, NEW mm, NEW g \in {0, 1}, NEW room \in Rooms, WholeState(dk, mm, g, room)
  PROVE  Restored(dk) = mm
<1>1. /\ dk.manifest # None /\ dk.manifest.gen = g /\ dk.manifest.count = room.size
      /\ dk.manifest.digest = room
  BY ManifestShape DEF WholeState
<1>2. \A i \in 1..room.size :
        /\ <<g, i>> \in DOMAIN dk.chunks
        /\ dk.chunks[<<g, i>>] = room
  BY DEF WholeState, Chunks
<1>3. Readable(dk)
  BY <1>1, <1>2 DEF Readable
<1> QED BY <1>1, <1>3 DEF Restored, WholeState

LEMMA NothingIsRestored ==
  ASSUME NEW dk, NEW mm, NoState(dk, mm)
  PROVE  Restored(dk) = mm
  BY DEF NoState, Restored, Readable

(* A transaction replaces the state of either generation, or none, by the     *)
(* state of the other, chunk by chunk.                                        *)
LEMMA ChunksAreReplaced ==
  ASSUME NEW dk, NEW old \in {0, 1}, NEW before \in Rooms, NEW room \in Rooms, NEW touch,
         dk.manifest = Manifest(old, before), dk.chunks = Chunks(old, before)
  PROVE  /\ OtherGeneration(dk.manifest) = 1 - old
         /\ Stored(dk, dk.manifest, room, touch).chunks = Chunks(1 - old, room)
<1> DEFINE g == OtherGeneration(dk.manifest)
           W == {g} \X (1..room.size)
           D == {old} \X (1..before.size)
<1>1. g = 1 - old /\ g # old
  BY ManifestShape DEF OtherGeneration
<1>2. DOMAIN dk.chunks = D
  BY DEF Chunks
<1>3. Deleted(dk.manifest, room) = D
  BY ManifestShape DEF Deleted
<1>4. (W \cup D) \ D = W
  BY <1>1
<1>5. Stored(dk, dk.manifest, room, touch).chunks
        = [k \in (W \cup D) \ D |-> IF k \in W THEN room ELSE dk.chunks[k]]
  BY <1>2, <1>3 DEF Stored
<1> HIDE DEF g, W, D
<1>6. [k \in W |-> IF k \in W THEN room ELSE dk.chunks[k]] = [k \in W |-> room]
  OBVIOUS
<1>7. Stored(dk, dk.manifest, room, touch).chunks = [k \in W |-> room]
  BY <1>4, <1>5, <1>6
<1> QED BY <1>1, <1>7 DEF Chunks, W, g

LEMMA ChunksAreFirst ==
  ASSUME NEW dk, NEW room \in Rooms, NEW touch, dk.manifest = None, dk.chunks = <<>>
  PROVE  /\ OtherGeneration(None) = 0
         /\ Stored(dk, None, room, touch).chunks = Chunks(0, room)
<1> DEFINE W == {0} \X (1..room.size)
<1>1. OtherGeneration(None) = 0
  BY DEF OtherGeneration
<1>2. DOMAIN dk.chunks = {} /\ Deleted(None, room) = {}
  BY DEF Deleted
<1>3. Stored(dk, None, room, touch).chunks
        = [k \in (W \cup {}) \ {} |-> IF k \in W THEN room ELSE dk.chunks[k]]
  BY <1>1, <1>2 DEF Stored
<1>4. (W \cup {}) \ {} = W
  OBVIOUS
<1> HIDE DEF W
<1>5. [k \in W |-> IF k \in W THEN room ELSE dk.chunks[k]] = [k \in W |-> room]
  OBVIOUS
<1>6. Stored(dk, None, room, touch).chunks = [k \in W |-> room]
  BY <1>3, <1>4, <1>5
<1> QED BY <1>1, <1>6 DEF Chunks, W

(* A transaction that commits stores the state that memory gets.              *)
LEMMA PersistedIsWhole ==
  ASSUME Whole, disk.sched \subseteq Kinds,
         NEW room \in Rooms, NEW touch \in BOOLEAN, Persisted(room, touch)
  PROVE  /\ Whole' /\ mem'.room = room /\ disk'.manifest # None
         /\ disk' = [manifest |-> disk'.manifest, chunks |-> disk'.chunks,
                     sched |-> Scheduled(disk.sched, room, touch)]
         /\ armed' = (disk'.sched # {})
<1>1. /\ disk' = Stored(disk, disk.manifest, room, touch)
      /\ mem' = [room |-> room, manifest |-> Manifest(OtherGeneration(disk.manifest), room)]
      /\ armed' = (disk'.sched # {})
  BY DEF Persisted, Unchanged
<1>2. PICK g \in {0, 1} : g = OtherGeneration(disk.manifest)
  BY DEF OtherGeneration
<1>3. Stored(disk, disk.manifest, room, touch).chunks = Chunks(g, room)
  <2>1. CASE NoState(disk, mem)
    BY <1>2, <2>1, ChunksAreFirst DEF NoState
  <2>2. CASE \E old \in {0, 1}, before \in Rooms : WholeState(disk, mem, old, before)
    BY <1>2, <2>2, ChunksAreReplaced DEF WholeState
  <2> QED BY <2>1, <2>2 DEF Whole
<1>4. /\ disk'.manifest = Manifest(g, room) /\ disk'.chunks = Chunks(g, room)
      /\ disk'.sched = Scheduled(disk.sched, room, touch)
      /\ disk' = [manifest |-> disk'.manifest, chunks |-> disk'.chunks, sched |-> disk'.sched]
  BY <1>1, <1>2, <1>3 DEF Stored
<1>5. WholeState(disk', mem', g, room)
  BY <1>1, <1>2, <1>4 DEF WholeState
<1>6. Whole'
  BY <1>5 DEF Whole
<1> QED BY <1>1, <1>4, <1>6, ManifestShape

-----------------------------------------------------------------------------
(* The handlers of the queue *)

LEMMA NewRoomsAreRooms ==
  ASSUME NEW d, NEW c \in 0..MaxConns, NEW size \in 1..MaxChunks
  PROVE  NewRoom(d, c, size) \in Rooms
<1>1. [e \in Devices |-> IF e = d THEN c ELSE 0] \in [Devices -> 0..MaxConns]
  OBVIOUS
<1> QED BY <1>1 DEF NewRoom, Rooms

LEMMA RoomFields ==
  \A room \in Rooms, rev \in 1..MaxRev, conn \in [Devices -> 0..MaxConns],
     due \in BOOLEAN, size \in 1..MaxChunks :
    /\ [room EXCEPT !.rev = rev] \in Rooms /\ [room EXCEPT !.conn = conn] \in Rooms
    /\ [room EXCEPT !.due = due] \in Rooms /\ [room EXCEPT !.size = size] \in Rooms
  BY DEF Rooms

LEMMA SuccessorsAreRooms ==
  ASSUME NEW room \in Rooms, NEW conn \in [Devices -> 0..MaxConns], CanMove(room)
  PROVE  Successors(room, conn) \subseteq Rooms
<1>1. room.rev + 1 \in 1..MaxRev
  BY DEF CanMove, Rooms
<1>2. [e \in Devices |-> 0] \in [Devices -> 0..MaxConns]
  OBVIOUS
<1>3. Retired(room) \in Rooms
  BY <1>1, <1>2, TRUE \in BOOLEAN, FALSE \in BOOLEAN DEF Retired, Rooms
<1>4. ASSUME NEW due \in BOOLEAN, NEW size \in 1..MaxChunks
      PROVE  Moved(room, conn, due, size) \in Rooms
  <2>1. Moved(room, conn, due, size)
          = [[[[room EXCEPT !.rev = room.rev + 1] EXCEPT !.conn = conn]
               EXCEPT !.due = due] EXCEPT !.size = size]
    BY DEF Moved
  <2>2. [[room EXCEPT !.rev = room.rev + 1] EXCEPT !.conn = conn] \in Rooms
    BY <1>1, RoomFields, TRUE \in BOOLEAN
  <2>3. [[[room EXCEPT !.rev = room.rev + 1] EXCEPT !.conn = conn] EXCEPT !.due = due] \in Rooms
    BY <1>1, <2>2, RoomFields
  <2> QED BY <1>1, <2>1, <2>3, RoomFields
<1> QED BY <1>3, <1>4, SMT DEF Successors

LEMMA RoomInMemory ==
  ASSUME Whole
  PROVE  /\ mem.room = None <=> disk.manifest = None
         /\ mem.room # None => mem.room \in Rooms
  BY ManifestShape DEF Whole, NoState, WholeState, Blank

Deadlines(dk, mm) ==
  dk.manifest # None =>
    /\ mm.room # None /\ mm.room.due => "secure-relay" \in dk.sched
    /\ "idle" \in dk.sched

(* What a handler leaves: a whole state, sockets that settled, and an alarm   *)
(* for what is scheduled; the handler of the alarm itself set it again.       *)
Handled(alarm) ==
  /\ Whole' /\ SweepIsAwaited' /\ Deadlines(disk', mem')
  /\ disk' = [manifest |-> disk'.manifest, chunks |-> disk'.chunks, sched |-> disk'.sched]
  /\ disk'.sched \subseteq Kinds /\ armed' \in BOOLEAN
  /\ Settles(sock, sock')
  /\ armed' \/ disk'.sched = {} \/ (~alarm /\ armed' = armed /\ disk'.sched = disk.sched)

LEMMA NoneForgotten ==
  ASSUME SweepIsAwaited, Settles(sock, sock'),
         "auth-sockets" \in disk.sched => "auth-sockets" \in disk'.sched
  PROVE  SweepIsAwaited'
  BY DEF SweepIsAwaited, Settles

LEMMA Committed ==
  ASSUME IInv, NEW room \in Rooms, NEW touch \in BOOLEAN, Persisted(room, touch),
         touch \/ mem.room # None, Settles(sock, sock'), NEW alarm
  PROVE  Handled(alarm)
<1>1. /\ Whole' /\ mem'.room = room /\ disk'.manifest # None
      /\ disk' = [manifest |-> disk'.manifest, chunks |-> disk'.chunks,
                  sched |-> Scheduled(disk.sched, room, touch)]
      /\ armed' = (disk'.sched # {})
  BY PersistedIsWhole DEF IInv, Shape
<1>2. disk'.sched = Scheduled(disk.sched, room, touch)
  BY <1>1
<1>3. touch \/ "idle" \in disk.sched
  BY RoomInMemory DEF IInv, DeadlineIsAwaited
<1> DEFINE sched == Scheduled(disk.sched, room, touch)
<1>4. /\ sched \subseteq Kinds
      /\ room.due => "secure-relay" \in sched
      /\ "auth-sockets" \in disk.sched => "auth-sockets" \in sched
      /\ "idle" \in disk.sched => "idle" \in sched
      /\ touch => "idle" \in sched
  <2>1. disk.sched \in SUBSET Kinds
    BY DEF IInv, Shape
  <2> QED BY <2>1, SchedulesAreKinds
<1>5. disk'.sched = sched
  BY <1>2
<1> HIDE DEF sched
<1>6. "idle" \in sched
  BY <1>3, <1>4, Zenon
<1>7. /\ disk'.sched \subseteq Kinds /\ "idle" \in disk'.sched
      /\ room.due => "secure-relay" \in disk'.sched
      /\ "auth-sockets" \in disk.sched => "auth-sockets" \in disk'.sched
  BY <1>4, <1>5, <1>6
<1>8. SweepIsAwaited'
  BY <1>7, NoneForgotten DEF IInv
<1>9. Deadlines(disk', mem')
  BY <1>1, <1>7 DEF Deadlines
<1> QED BY <1>1, <1>2, <1>7, <1>8, <1>9 DEF Handled

LEMMA NothingStored ==
  ASSUME IInv, disk' = disk, mem' = mem, Settles(sock, sock'), NEW alarm \in BOOLEAN,
         IF alarm THEN armed' = TRUE ELSE armed' = armed
  PROVE  Handled(alarm)
<1>1. Whole'
  BY DEF IInv, Whole, NoState, WholeState
<1>2. SweepIsAwaited'
  BY NoneForgotten DEF IInv
<1>3. Deadlines(disk', mem')
  BY DEF IInv, Deadlines, DeadlineIsAwaited
<1> QED BY <1>1, <1>2, <1>3 DEF Handled, IInv, Shape

LEMMA NotCommitted ==
  ASSUME IInv, NEW room, NotPersisted(room), Settles(sock, sock'), NEW alarm \in BOOLEAN,
         IF alarm THEN armed' = TRUE ELSE armed' = armed
  PROVE  Handled(alarm)
  BY NothingStored DEF NotPersisted, Failed

LEMMA SavedShape ==
  ASSUME IInv, NEW sched \in SUBSET Kinds, Saved(sched), mem' = mem
  PROVE  /\ Whole' /\ disk'.sched = sched /\ disk'.manifest = disk.manifest
         /\ disk' = [manifest |-> disk'.manifest, chunks |-> disk'.chunks, sched |-> disk'.sched]
         /\ armed' = (sched # {})
<1>1. /\ disk'.sched = sched /\ disk'.manifest = disk.manifest /\ disk'.chunks = disk.chunks
      /\ disk' = [manifest |-> disk'.manifest, chunks |-> disk'.chunks, sched |-> disk'.sched]
      /\ armed' = (sched # {})
  BY DEF Saved, IInv, Shape
<1>2. Whole'
  BY <1>1 DEF IInv, Whole, NoState, WholeState
<1> QED BY <1>1, <1>2

LEMMA Rescheduled ==
  ASSUME IInv, NEW sched \in SUBSET Kinds, Saved(sched), mem' = mem,
         Settles(sock, sock'), NEW alarm,
         SweepIsAwaited',
         "idle" \in disk.sched => "idle" \in sched,
         mem.room # None /\ mem.room.due => "secure-relay" \in sched
  PROVE  Handled(alarm)
<1>1. /\ Whole' /\ disk'.sched = sched /\ disk'.manifest = disk.manifest
      /\ disk' = [manifest |-> disk'.manifest, chunks |-> disk'.chunks, sched |-> disk'.sched]
      /\ armed' = (sched # {})
  BY SavedShape
<1>2. Deadlines(disk', mem')
  BY <1>1 DEF Deadlines, IInv, DeadlineIsAwaited
<1> QED BY <1>1, <1>2 DEF Handled

LEMMA RunAuthHandles ==
  ASSUME IInv, NEW c \in Conns, RunAuth(c)
  PROVE  Handled(FALSE)
<1> DEFINE d == sock[c].dev
<1>1. sock \in [Conns -> Sockets] /\ c \in 0..MaxConns
  BY DEF IInv, Shape, Conns
<1>2. Settles(sock, [sock EXCEPT ![c] = ServerCloses(sock[c])])
  BY <1>1, OneCloses
<1>3. CASE Reject(c)
  BY <1>2, <1>3, NothingStored DEF Reject
<1>4. CASE /\ mem.room = None \/ CanMove(mem.room)
           /\ \E room \in Authenticated(c, d) :
                \/ /\ Persisted(room, TRUE) /\ room.open
                   /\ sock' = [Replaced(sock, c, d) EXCEPT ![c].auth = TRUE]
                \/ NotPersisted(room) /\ UNCHANGED armed
                   /\ sock' = [sock EXCEPT ![c] = ServerCloses(sock[c])]
  <2>1. Authenticated(c, d) \subseteq Rooms
    <3>1. CASE mem.room = None
      BY <1>1, <3>1, NewRoomsAreRooms DEF Authenticated
    <3>2. CASE mem.room # None
      <4>1. mem.room \in Rooms /\ CanMove(mem.room)
        BY <1>4, <3>2, RoomInMemory DEF IInv
      <4>2. [mem.room.conn EXCEPT ![d] = c] \in [Devices -> 0..MaxConns]
        BY <1>1, <4>1 DEF Rooms
      <4> QED BY <3>2, <4>1, <4>2, SuccessorsAreRooms DEF Authenticated
    <3> QED BY <3>1, <3>2
  <2>2. PICK room \in Rooms :
          \/ /\ Persisted(room, TRUE)
             /\ sock' = [Replaced(sock, c, d) EXCEPT ![c].auth = TRUE]
          \/ NotPersisted(room) /\ UNCHANGED armed
             /\ sock' = [sock EXCEPT ![c] = ServerCloses(sock[c])]
    BY <1>4, <2>1
  <2>6. Settles(sock, [Replaced(sock, c, d) EXCEPT ![c].auth = TRUE])
    BY <1>1, ReplacedSettles, AuthenticatedSettles
  <2> HIDE DEF d
  <2>3. Settles(sock, sock')
    BY <1>2, <2>2, <2>6
  <2>4. CASE Persisted(room, TRUE)
    BY <2>3, <2>4, Committed
  <2>5. CASE NotPersisted(room) /\ UNCHANGED armed
    BY <2>3, <2>5, NotCommitted
  <2> QED BY <2>2, <2>4, <2>5
<1>5. CASE /\ CanMove(mem.room)
           /\ \E room \in Successors(mem.room, mem.room.conn) :
                /\ Persisted(room, TRUE)
                /\ sock' = Retiring([sock EXCEPT ![c] = ServerCloses(sock[c])], room)
  <2>1. mem.room \in Rooms
    BY <1>5, RoomInMemory DEF IInv, CanMove
  <2>2. mem.room.conn \in [Devices -> 0..MaxConns]
    BY <2>1 DEF Rooms
  <2>3. PICK room \in Rooms :
          /\ Persisted(room, TRUE)
          /\ sock' = Retiring([sock EXCEPT ![c] = ServerCloses(sock[c])], room)
    BY <1>5, <2>1, <2>2, SuccessorsAreRooms
  <2>4. Settles(sock, sock')
    BY <1>2, <2>3, RetiringSettles
  <2> QED BY <2>3, <2>4, Committed
<1> QED BY <1>3, <1>4, <1>5 DEF RunAuth

LEMMA SameSocketsSettle ==
  ASSUME IInv, sock' = sock
  PROVE  Settles(sock, sock')
  BY DEF Settles, IInv, Shape

LEMMA RunFrameHandles ==
  ASSUME IInv, NEW c \in Conns, RunFrame(c)
  PROVE  Handled(FALSE)
<1>1. CASE UNCHANGED <<disk, mem, armed, sock, faults>>
  BY <1>1, NothingStored, SameSocketsSettle
<1>2. CASE /\ mem.room # None /\ CanMove(mem.room)
           /\ \E room \in Successors(mem.room, mem.room.conn) :
                \/ Persisted(room, TRUE) /\ sock' = Retiring(sock, room)
                \/ NotPersisted(room) /\ UNCHANGED <<armed, sock>>
  <2>1. mem.room \in Rooms /\ mem.room.conn \in [Devices -> 0..MaxConns]
    BY <1>2, RoomInMemory DEF IInv, Rooms
  <2>2. PICK room \in Rooms :
          \/ Persisted(room, TRUE) /\ sock' = Retiring(sock, room)
          \/ NotPersisted(room) /\ UNCHANGED <<armed, sock>>
    BY <1>2, <2>1, SuccessorsAreRooms
  <2>3. Settles(sock, sock)
    BY DEF Settles, IInv, Shape
  <2>4. Settles(sock, sock')
    BY <2>2, <2>3, RetiringSettles
  <2>5. CASE Persisted(room, TRUE)
    BY <2>4, <2>5, Committed
  <2>6. CASE NotPersisted(room) /\ UNCHANGED armed
    BY <2>4, <2>6, NotCommitted
  <2> QED BY <2>2, <2>5, <2>6
<1> QED BY <1>1, <1>2 DEF RunFrame

LEMMA RunCloseHandles ==
  ASSUME IInv, NEW c \in Conns, RunClose(c), sock[c].st = "gone"
  PROVE  Handled(FALSE)
<1>1. CASE UNCHANGED <<disk, mem, armed, sock, faults>>
  BY <1>1, NothingStored, SameSocketsSettle
<1>2. CASE /\ mem.room # None /\ CanMove(mem.room)
           /\ \E room \in Successors(mem.room, [mem.room.conn EXCEPT ![sock[c].dev] = 0]) :
                \/ Persisted(room, FALSE)
                   /\ sock' = Retiring([sock EXCEPT ![c].auth = FALSE], room)
                \/ NotPersisted(room) /\ UNCHANGED <<armed, sock>>
  <2>1. /\ mem.room \in Rooms
        /\ [mem.room.conn EXCEPT ![sock[c].dev] = 0] \in [Devices -> 0..MaxConns]
    <3>1. mem.room \in Rooms
      BY <1>2, RoomInMemory DEF IInv
    <3>2. mem.room.conn \in [Devices -> 0..MaxConns] /\ 0 \in 0..MaxConns
      BY <3>1 DEF Rooms
    <3> QED BY <3>1, <3>2
  <2>2. PICK room \in Rooms :
          \/ Persisted(room, FALSE) /\ sock' = Retiring([sock EXCEPT ![c].auth = FALSE], room)
          \/ NotPersisted(room) /\ UNCHANGED <<armed, sock>>
    BY <1>2, <2>1, SuccessorsAreRooms
  <2>3. Settles(sock, [sock EXCEPT ![c].auth = FALSE])
    BY LeavingSettles DEF IInv, Shape
  <2>7. Settles(sock, Retiring([sock EXCEPT ![c].auth = FALSE], room))
    BY <2>3, RetiringSettles
  <2>8. Settles(sock, sock)
    BY DEF IInv, Shape, Settles
  <2>4. Settles(sock, sock')
    BY <2>2, <2>7, <2>8
  <2>5. CASE Persisted(room, FALSE)
    BY <1>2, <2>4, <2>5, Committed
  <2>6. CASE NotPersisted(room) /\ UNCHANGED armed
    BY <2>4, <2>6, NotCommitted
  <2> QED BY <2>2, <2>5, <2>6
<1> QED BY <1>1, <1>2 DEF RunClose

LEMMA SweepHandles ==
  ASSUME IInv, Sweep
  PROVE  Handled(TRUE)
<1>1. PICK late \in SUBSET {c \in Conns : Unauthenticated(c)} :
        LET over == late \cup {c \in Conns : sock[c].st = "opening"}
            left == {c \in Conns : Unauthenticated(c)} \ over
        IN /\ sock' = [c \in Conns |-> IF c \in over THEN ServerCloses(sock[c]) ELSE sock[c]]
           /\ Saved((disk.sched \ {"auth-sockets"})
                      \cup (IF left # {} THEN {"auth-sockets"} ELSE {}))
           /\ UNCHANGED <<mem, faults>>
  BY DEF Sweep
<1> DEFINE over == late \cup {c \in Conns : sock[c].st = "opening"}
           left == {c \in Conns : Unauthenticated(c)} \ over
           sched == (disk.sched \ {"auth-sockets"}) \cup (IF left # {} THEN {"auth-sockets"} ELSE {})
<1>2. /\ sock' = [c \in Conns |-> IF c \in over THEN ServerCloses(sock[c]) ELSE sock[c]]
      /\ Saved(sched) /\ mem' = mem
  BY <1>1
<1>3. sock \in [Conns -> Sockets] /\ disk.sched \in SUBSET Kinds
  BY DEF IInv, Shape
<1>4. sched \in SUBSET Kinds
  BY <1>3 DEF Kinds
<1>5. sock' \in [Conns -> Sockets]
  BY <1>2, <1>3, ServerClosesShape
<1>6. \A c \in Conns : sock'[c] = IF c \in over THEN ServerCloses(sock[c]) ELSE sock[c]
  BY <1>2
<1>7. Settles(sock, sock')
  BY <1>3, <1>5, <1>6, SomeClose
<1>8. \A c \in Conns : sock'[c].st = "open" /\ ~sock'[c].auth => c \in left
  BY <1>3, <1>6, ServerClosesShape DEF Unauthenticated
<1>9. disk'.sched = sched
  BY <1>2, <1>4, SavedShape
<1>10. SweepIsAwaited'
  BY <1>8, <1>9 DEF SweepIsAwaited
<1>11. /\ "idle" \in disk.sched => "idle" \in sched
       /\ mem.room # None /\ mem.room.due => "secure-relay" \in sched
  BY RoomInMemory DEF IInv, DeadlineIsAwaited
<1> HIDE DEF sched
<1> QED BY <1>2, <1>4, <1>7, <1>10, <1>11, Rescheduled

LEMMA AdvanceRelayHandles ==
  ASSUME IInv, AdvanceRelay
  PROVE  Handled(TRUE)
<1>1. disk.sched \in SUBSET Kinds /\ Settles(sock, sock)
  BY DEF IInv, Shape, Settles
<1>2. CASE mem.room = None /\ Saved(disk.sched \ {"secure-relay"}) /\ UNCHANGED <<mem, sock, faults>>
  <2>1. disk'.sched = disk.sched \ {"secure-relay"}
    BY <1>1, <1>2, SavedShape
  <2>2. SweepIsAwaited'
    BY <1>1, <1>2, <2>1, NoneForgotten DEF IInv
  <2> QED BY <1>1, <1>2, <2>2, Rescheduled
<1>3. CASE /\ mem.room # None
           /\ Saved(Scheduled(disk.sched, mem.room, FALSE)) /\ UNCHANGED <<mem, sock, faults>>
  <2>1. mem.room \in Rooms /\ FALSE \in BOOLEAN
    BY <1>3, RoomInMemory DEF IInv
  <2> DEFINE sched == Scheduled(disk.sched, mem.room, FALSE)
  <2>2. /\ sched \in SUBSET Kinds
        /\ mem.room.due => "secure-relay" \in sched
        /\ "auth-sockets" \in disk.sched => "auth-sockets" \in sched
        /\ "idle" \in disk.sched => "idle" \in sched
    BY <1>1, <2>1, SchedulesAreKinds
  <2>3. disk'.sched = sched
    BY <1>3, <2>2, SavedShape
  <2>4. SweepIsAwaited'
    BY <1>1, <1>3, <2>2, <2>3, NoneForgotten DEF IInv
  <2> HIDE DEF sched
  <2>5. Saved(sched) /\ mem' = mem /\ Settles(sock, sock')
    BY <1>1, <1>3 DEF sched
  <2> QED BY <2>2, <2>4, <2>5, Rescheduled
<1>4. CASE /\ mem.room # None /\ CanMove(mem.room)
           /\ \E room \in Successors(mem.room, mem.room.conn) :
                \/ Persisted(room, FALSE) /\ sock' = Retiring(sock, room)
                \/ NotPersisted(room) /\ armed' = TRUE /\ UNCHANGED sock
  <2>1. mem.room \in Rooms /\ mem.room.conn \in [Devices -> 0..MaxConns]
    BY <1>4, RoomInMemory DEF IInv, Rooms
  <2>2. PICK room \in Rooms :
          \/ Persisted(room, FALSE) /\ sock' = Retiring(sock, room)
          \/ NotPersisted(room) /\ armed' = TRUE /\ UNCHANGED sock
    BY <1>4, <2>1, SuccessorsAreRooms
  <2>3. Settles(sock, sock')
    BY <1>1, <2>2, RetiringSettles
  <2>4. CASE Persisted(room, FALSE)
    BY <1>4, <2>3, <2>4, Committed
  <2>5. CASE NotPersisted(room) /\ armed' = TRUE
    BY <2>3, <2>5, NotCommitted
  <2> QED BY <2>2, <2>4, <2>5
<1> QED BY <1>2, <1>3, <1>4 DEF AdvanceRelay

LEMMA DestroyHandles ==
  ASSUME IInv, Destroy
  PROVE  Handled(TRUE)
<1>1. Settles(sock, sock') /\ \A c \in Conns : sock'[c].st # "open"
  BY AllClose DEF IInv, Shape, Destroy
<1>2. /\ disk' = Empty /\ mem' = Blank /\ armed' = FALSE
      /\ disk'.sched = {} /\ disk'.manifest = None
  BY DEF Destroy, Empty
<1>3. Whole'
  BY <1>2 DEF Whole, NoState, Empty
<1>4. SweepIsAwaited' /\ Deadlines(disk', mem')
  BY <1>1, <1>2 DEF SweepIsAwaited, Deadlines
<1> QED BY <1>1, <1>2, <1>3, <1>4 DEF Handled, Empty

LEMMA RunAlarmHandles ==
  ASSUME IInv, RunAlarm
  PROVE  Handled(TRUE)
<1>1. CASE Sweep
  BY <1>1, SweepHandles
<1>2. CASE AdvanceRelay
  BY <1>2, AdvanceRelayHandles
<1>3. CASE Destroy
  BY <1>3, DestroyHandles
<1>4. CASE Saved(disk.sched) /\ UNCHANGED <<mem, sock, faults>>
  <2>1. disk.sched \in SUBSET Kinds /\ Settles(sock, sock')
    BY <1>4, SameSocketsSettle DEF IInv, Shape
  <2>2. SweepIsAwaited'
    BY <1>4, <2>1, SavedShape, NoneForgotten DEF IInv
  <2>3. mem.room # None /\ mem.room.due => "secure-relay" \in disk.sched
    BY RoomInMemory DEF IInv, DeadlineIsAwaited
  <2> QED BY <1>4, <2>1, <2>2, <2>3, Rescheduled
<1> QED BY <1>1, <1>2, <1>3, <1>4 DEF RunAlarm

-----------------------------------------------------------------------------
(* The queue *)

QueueShape(q) ==
  /\ q \in Seq(Handlers)
  /\ \A n \in DOMAIN q : q[n].op # "alarm" => q[n].c \in Conns
Closers(q, s) == \A n \in DOMAIN q : q[n].op = "close" => s[q[n].c].st = "gone"

LEMMA Appended ==
  ASSUME NEW q, QueueShape(q), NEW op \in Handlers, op.op # "alarm" => op.c \in Conns
  PROVE  /\ QueueShape(Append(q, op))
         /\ \A s : Closers(q, s) /\ (op.op = "close" => s[op.c].st = "gone")
                 => Closers(Append(q, op), s)
         /\ \A it : (\E n \in DOMAIN q : q[n] = it) \/ it = op
                 => \E n \in DOMAIN Append(q, op) : Append(q, op)[n] = it
<1> DEFINE r == Append(q, op)
<1>1. /\ q \in Seq(Handlers) /\ r \in Seq(Handlers) /\ Len(r) = Len(q) + 1
      /\ DOMAIN q = 1..Len(q) /\ DOMAIN r = 1..Len(r) /\ Len(q) \in Nat
      /\ \A n \in 1..Len(q) : r[n] = q[n]
      /\ r[Len(q) + 1] = op
  BY DEF QueueShape
<1>2. \A n \in DOMAIN r : n \in DOMAIN q \/ n = Len(q) + 1
  BY <1>1
<1>3. /\ DOMAIN q \subseteq DOMAIN r /\ Len(q) + 1 \in DOMAIN r
      /\ \A n \in DOMAIN q : r[n] = q[n]
  BY <1>1
<1> HIDE DEF r
<1>4. QueueShape(r)
  BY <1>1, <1>2, <1>3 DEF QueueShape
<1>5. \A s : Closers(q, s) /\ (op.op = "close" => s[op.c].st = "gone") => Closers(r, s)
  BY <1>1, <1>2, <1>3 DEF Closers
<1>6. \A it : (\E n \in DOMAIN q : q[n] = it) \/ it = op => \E n \in DOMAIN r : r[n] = it
  BY <1>1, <1>3
<1> QED BY <1>4, <1>5, <1>6 DEF r

LEMMA Taken ==
  ASSUME NEW q, QueueShape(q), q # <<>>
  PROVE  /\ Head(q) \in Handlers /\ (Head(q).op # "alarm" => Head(q).c \in Conns)
         /\ QueueShape(Tail(q))
         /\ \A s : Closers(q, s) =>
              /\ Closers(Tail(q), s)
              /\ Head(q).op = "close" => s[Head(q).c].st = "gone"
         /\ \A it : (\E n \in DOMAIN q : q[n] = it) =>
              Head(q) = it \/ \E n \in DOMAIN Tail(q) : Tail(q)[n] = it
<1> DEFINE r == Tail(q)
<1>1. /\ q \in Seq(Handlers) /\ r \in Seq(Handlers) /\ Len(r) = Len(q) - 1
      /\ DOMAIN q = 1..Len(q) /\ DOMAIN r = 1..Len(r) /\ Len(q) \in Nat \ {0}
      /\ \A n \in 1..Len(r) : r[n] = q[n + 1]
      /\ Head(q) = q[1] /\ Head(q) \in Handlers
  BY DEF QueueShape
<1>2. /\ 1 \in DOMAIN q
      /\ \A n \in DOMAIN r : n + 1 \in DOMAIN q /\ r[n] = q[n + 1]
      /\ \A n \in DOMAIN q : n = 1 \/ (n - 1 \in DOMAIN r /\ r[n - 1] = q[n])
  BY <1>1
<1> HIDE DEF r
<1>3. QueueShape(r) /\ (Head(q).op # "alarm" => Head(q).c \in Conns)
  BY <1>1, <1>2 DEF QueueShape
<1>4. \A s : Closers(q, s) => Closers(r, s) /\ (Head(q).op = "close" => s[Head(q).c].st = "gone")
  BY <1>1, <1>2 DEF Closers
<1>5. \A it : (\E n \in DOMAIN q : q[n] = it) => Head(q) = it \/ \E n \in DOMAIN r : r[n] = it
  BY <1>1, <1>2
<1> QED BY <1>1, <1>3, <1>4, <1>5 DEF r

LEMMA ClosersStay ==
  ASSUME NEW q, QueueShape(q), NEW s, NEW t, Settles(s, t), Closers(q, s)
  PROVE  Closers(q, t)
  BY DEF Settles, Closers, QueueShape

-----------------------------------------------------------------------------
(* The steps *)

LEMMA Facts ==
  ASSUME IInv
  PROVE  /\ QueueShape(queue) /\ Closers(queue, sock)
         /\ sock \in [Conns -> Sockets] /\ disk.sched \in SUBSET Kinds
         /\ disk.sched # {} => armed \/ Waiting(TheAlarm)
         /\ Deadlines(disk, mem)
  BY DEF IInv, Shape, QueueShape, Closers, ClosersAreGone, DeadlineIsAwaited, Deadlines

(* What a step has to leave.                                                  *)
LEMMA Composed ==
  ASSUME Whole', SweepIsAwaited', Deadlines(disk', mem'),
         disk' = [manifest |-> disk'.manifest, chunks |-> disk'.chunks, sched |-> disk'.sched],
         disk'.sched \subseteq Kinds, armed' \in BOOLEAN, sock' \in [Conns -> Sockets],
         QueueShape(queue'), Closers(queue', sock'),
         disk'.sched # {} => armed' \/ Waiting(TheAlarm)'
  PROVE  IInv'
<1>1. Shape'
  BY DEF Shape, QueueShape
<1>2. ClosersAreGone'
  BY DEF ClosersAreGone, Closers
<1>3. DeadlineIsAwaited'
  BY DEF DeadlineIsAwaited, Deadlines
<1> QED BY <1>1, <1>2, <1>3 DEF IInv

LEMMA RunGood ==
  ASSUME IInv, Run
  PROVE  IInv'
<1> DEFINE q == Head(queue)
           alarm == q.op = "alarm"
<1>1. /\ queue # <<>> /\ queue' = Tail(queue) /\ QueueShape(queue) /\ Closers(queue, sock)
  BY Facts DEF Run
<1>2. /\ q \in Handlers /\ (q.op # "alarm" => q.c \in Conns)
      /\ QueueShape(queue') /\ Closers(queue', sock)
      /\ q.op = "close" => sock[q.c].st = "gone"
  BY <1>1, Taken
<1>3. Handled(alarm)
  <2>1. CASE q.op = "auth"
    <3>1. RunAuth(q.c) /\ q.c \in Conns
      BY <1>2, <2>1 DEF Run
    <3> HIDE DEF q
    <3>2. Handled(FALSE)
      BY <3>1, RunAuthHandles
    <3>3. alarm = FALSE
      BY <2>1
    <3> QED BY <3>2, <3>3
  <2>2. CASE q.op = "frame"
    <3>1. RunFrame(q.c) /\ q.c \in Conns
      BY <1>2, <2>2 DEF Run
    <3> HIDE DEF q
    <3>2. Handled(FALSE)
      BY <3>1, RunFrameHandles
    <3>3. alarm = FALSE
      BY <2>2
    <3> QED BY <3>2, <3>3
  <2>3. CASE q.op = "close"
    <3>1. RunClose(q.c) /\ q.c \in Conns /\ sock[q.c].st = "gone"
      BY <1>2, <2>3 DEF Run
    <3> HIDE DEF q
    <3>2. Handled(FALSE)
      BY <3>1, RunCloseHandles
    <3>3. alarm = FALSE
      BY <2>3
    <3> QED BY <3>2, <3>3
  <2>4. CASE q.op = "alarm"
    <3>1. RunAlarm
      BY <2>4 DEF Run
    <3>2. Handled(TRUE)
      BY <3>1, RunAlarmHandles
    <3>3. alarm = TRUE
      BY <2>4
    <3> QED BY <3>2, <3>3
  <2> QED BY <1>2, <2>1, <2>2, <2>3, <2>4 DEF Handlers
<1>4. Settles(sock, sock') /\ sock' \in [Conns -> Sockets]
  BY <1>3 DEF Handled, Settles
<1>5. Closers(queue', sock')
  BY <1>2, <1>4, ClosersStay
<1>6. Waiting(TheAlarm) => alarm \/ Waiting(TheAlarm)'
  <2>1. \A it : (\E n \in DOMAIN queue : queue[n] = it) =>
          q = it \/ \E n \in DOMAIN Tail(queue) : Tail(queue)[n] = it
    BY <1>1, Taken
  <2>2. Waiting(TheAlarm) => q = TheAlarm \/ Waiting(TheAlarm)'
    BY <1>1, <2>1 DEF Waiting
  <2>3. q = TheAlarm => alarm
    BY DEF TheAlarm
  <2> HIDE DEF alarm
  <2> QED BY <2>2, <2>3
<1>7. disk'.sched # {} => armed' \/ Waiting(TheAlarm)'
  BY <1>3, <1>6, Facts DEF Handled
<1> HIDE DEF alarm
<1> QED BY <1>2, <1>3, <1>4, <1>5, <1>7, Composed DEF Handled

(* A step that leaves the storage and the memory as they are.                 *)
LEMMA OnlySockets ==
  ASSUME IInv, disk' = disk, mem' = mem, sock' \in [Conns -> Sockets], armed' \in BOOLEAN,
         \A c \in Conns : sock'[c].st = "open" /\ ~sock'[c].auth =>
                          sock[c].st = "open" /\ ~sock[c].auth,
         QueueShape(queue'), Closers(queue', sock'),
         disk'.sched # {} => armed' \/ Waiting(TheAlarm)'
  PROVE  IInv'
<1>1. Whole'
  BY DEF IInv, Whole, NoState, WholeState
<1>2. SweepIsAwaited'
  BY DEF IInv, SweepIsAwaited
<1>3. Deadlines(disk', mem')
  BY Facts
<1> QED BY <1>1, <1>2, <1>3, Composed DEF IInv, Shape

(* One of c's steps: its socket becomes that, and the queue gets longer.      *)
LEMMA SocketStep ==
  ASSUME IInv, NEW c \in Conns, NEW to \in Sockets, sock' = [sock EXCEPT ![c] = to],
         sock[c].st = "gone" => to.st = "gone",
         to.st = "open" /\ ~to.auth => sock[c].st = "open" /\ ~sock[c].auth,
         disk' = disk, mem' = mem, armed' = armed,
         \/ queue' = queue
         \/ \E op \in Handlers :
              /\ op.c = c /\ op.op \in {"auth", "frame", "close"}
              /\ op.op = "close" => to.st = "gone"
              /\ queue' = Append(queue, op)
  PROVE  IInv'
<1>1. /\ sock' \in [Conns -> Sockets] /\ sock'[c] = to
      /\ \A b \in Conns \ {c} : sock'[b] = sock[b]
  BY Facts
<1>2. Settles(sock, sock')
  BY <1>1 DEF Settles
<1>3. Closers(queue, sock')
  BY <1>2, ClosersStay, Facts
<1>4. /\ QueueShape(queue') /\ Closers(queue', sock')
      /\ Waiting(TheAlarm) => Waiting(TheAlarm)'
  <2>1. CASE queue' = queue
    BY <1>3, <2>1, Facts DEF Waiting
  <2>2. ASSUME NEW op \in Handlers, op.c = c, op.op \in {"auth", "frame", "close"},
               op.op = "close" => to.st = "gone", queue' = Append(queue, op)
        PROVE  /\ QueueShape(queue') /\ Closers(queue', sock')
               /\ Waiting(TheAlarm) => Waiting(TheAlarm)'
    <3>1. op.op = "close" => sock'[op.c].st = "gone"
      BY <1>1, <2>2
    <3>2. QueueShape(queue)
      BY Facts
    <3>3. /\ QueueShape(Append(queue, op))
          /\ Closers(Append(queue, op), sock')
          /\ Waiting(TheAlarm) =>
               \E n \in DOMAIN Append(queue, op) : Append(queue, op)[n] = TheAlarm
      <4>1. op.op # "alarm" => op.c \in Conns
        BY <2>2
      <4>2. QueueShape(Append(queue, op))
        BY <3>2, <4>1, Appended
      <4>3. \A s : Closers(queue, s) /\ (op.op = "close" => s[op.c].st = "gone")
                => Closers(Append(queue, op), s)
        BY <3>2, <4>1, Appended
      <4>4. Closers(Append(queue, op), sock')
        BY <1>3, <3>1, <4>3
      <4>5. \A it : (\E n \in DOMAIN queue : queue[n] = it) \/ it = op
                 => \E n \in DOMAIN Append(queue, op) : Append(queue, op)[n] = it
        BY <3>2, <4>1, Appended
      <4> QED BY <4>2, <4>4, <4>5 DEF Waiting
    <3> QED BY <2>2, <3>3 DEF Waiting
  <2> QED BY <2>1, <2>2
<1> QED BY <1>1, <1>2, <1>4, OnlySockets, Facts DEF Settles, IInv, Shape

LEMMA AcceptGood ==
  ASSUME IInv, NEW c \in Conns, Accept(c)
  PROVE  IInv'
<1> DEFINE to == [sock[c] EXCEPT !.st = "opening"]
<1>1. sock[c] \in Sockets /\ sock[c].st = "none"
  BY Facts DEF Accept
<1>2. to \in Sockets /\ to.st = "opening"
  BY <1>1 DEF Sockets
<1>3. sock' = [sock EXCEPT ![c] = to]
  BY DEF Accept
<1> HIDE DEF to
<1> QED BY <1>1, <1>2, <1>3, SocketStep DEF Accept

LEMMA AuthenticateGood ==
  ASSUME IInv, NEW c \in Conns, NEW d \in Devices, Authenticate(c, d)
  PROVE  IInv'
<1> DEFINE to == [sock[c] EXCEPT !.dev = d]
<1>1. sock[c] \in Sockets
  BY Facts
<1>2. to \in Sockets /\ to.st = sock[c].st /\ to.auth = sock[c].auth
  BY <1>1 DEF Sockets
<1>3. sock' = [sock EXCEPT ![c] = to]
  BY DEF Authenticate
<1>4. [op |-> "auth", c |-> c] \in Handlers
  BY DEF Handlers, Conns
<1> HIDE DEF to
<1> QED BY <1>1, <1>2, <1>3, <1>4, SocketStep DEF Authenticate

LEMMA SendGood ==
  ASSUME IInv, NEW c \in Conns, Send(c)
  PROVE  IInv'
<1>1. sock' = [sock EXCEPT ![c] = sock[c]] /\ sock[c] \in Sockets
  BY Facts DEF Send
<1>2. [op |-> "frame", c |-> c] \in Handlers
  BY DEF Handlers, Conns
<1> QED BY <1>1, <1>2, SocketStep DEF Send

LEMMA ClientClosesGood ==
  ASSUME IInv, NEW c \in Conns, ClientCloses(c)
  PROVE  IInv'
<1> DEFINE to == [sock[c] EXCEPT !.st = "closed"]
<1>1. sock[c] \in Sockets /\ sock[c].st # "gone"
  BY Facts DEF ClientCloses
<1>2. to \in Sockets /\ to.st = "closed"
  BY <1>1 DEF Sockets
<1>3. sock' = [sock EXCEPT ![c] = to]
  BY DEF ClientCloses
<1> HIDE DEF to
<1> QED BY <1>1, <1>2, <1>3, SocketStep DEF ClientCloses

LEMMA CloseEventGood ==
  ASSUME IInv, NEW c \in Conns, CloseEvent(c)
  PROVE  IInv'
<1> DEFINE to == [sock[c] EXCEPT !.st = "gone"]
<1>1. sock[c] \in Sockets
  BY Facts
<1>2. to \in Sockets /\ to.st = "gone"
  BY <1>1 DEF Sockets
<1>3. sock' = [sock EXCEPT ![c] = to]
  BY DEF CloseEvent
<1>4. [op |-> "close", c |-> c] \in Handlers
  BY DEF Handlers, Conns
<1>5. queue' = queue \/ queue' = Append(queue, [op |-> "close", c |-> c])
  BY DEF CloseEvent
<1> HIDE DEF to
<1> QED BY <1>1, <1>2, <1>3, <1>4, <1>5, SocketStep DEF CloseEvent

LEMMA FireGood ==
  ASSUME IInv, Fire
  PROVE  IInv'
<1>1. TheAlarm \in Handlers /\ TheAlarm.op = "alarm"
  BY DEF TheAlarm, Handlers
<1>2. /\ queue' = Append(queue, TheAlarm) /\ sock' = sock /\ disk' = disk /\ mem' = mem
      /\ armed' = FALSE
  BY DEF Fire
<1>3. QueueShape(queue) /\ Closers(queue, sock) /\ sock \in [Conns -> Sockets]
  BY Facts
<1>4. QueueShape(queue') /\ Closers(queue', sock) /\ Waiting(TheAlarm)'
  BY <1>1, <1>2, <1>3, Appended DEF Waiting
<1> QED BY <1>2, <1>3, <1>4, OnlySockets

LEMMA ChallengeGood ==
  ASSUME IInv, NEW c \in Conns, Challenge(c)
  PROVE  IInv'
<1>1. /\ sock[c].st \in {"opening", "closed"} /\ sock[c] \in Sockets
      /\ mem' = mem /\ queue' = queue
  BY Facts DEF Challenge
<1>2. CASE /\ sock' = [sock EXCEPT ![c].st = IF sock[c].st = "opening" THEN "open" ELSE "closed",
                                  ![c].asked = TRUE]
           /\ armed' = ArmedFor(disk.sched)
           /\ disk' = [disk EXCEPT !.sched = disk.sched \cup {"auth-sockets"}]
  <2> DEFINE st == IF sock[c].st = "opening" THEN "open" ELSE "closed"
             to == [[sock[c] EXCEPT !.st = st] EXCEPT !.asked = TRUE]
  <2>1. to \in Sockets /\ to.st \in {"open", "closed"}
    BY <1>1 DEF Sockets
  <2>2. sock' = [sock EXCEPT ![c] = to]
    BY <1>2, Facts
  <2> HIDE DEF to
  <2>3. /\ sock' \in [Conns -> Sockets] /\ sock'[c] = to
        /\ \A b \in Conns \ {c} : sock'[b] = sock[b]
    BY <2>1, <2>2, Facts
  <2>4. /\ disk'.manifest = disk.manifest /\ disk'.chunks = disk.chunks
        /\ disk'.sched = disk.sched \cup {"auth-sockets"}
        /\ disk' = [manifest |-> disk'.manifest, chunks |-> disk'.chunks, sched |-> disk'.sched]
        /\ disk'.sched \subseteq Kinds
    BY <1>2, Facts DEF IInv, Shape, Kinds
  <2>5. Whole'
    BY <1>1, <2>4 DEF IInv, Whole, NoState, WholeState
  <2>6. SweepIsAwaited' /\ Deadlines(disk', mem')
    BY <1>1, <2>4, Facts DEF SweepIsAwaited, Deadlines
  <2>7. \A b \in Conns : sock[b].st = "gone" => sock'[b].st = "gone"
    BY <1>1, <2>3
  <2>8. QueueShape(queue') /\ Closers(queue', sock')
    BY <1>1, <2>7, Facts DEF QueueShape, Closers
  <2>9. armed' \in BOOLEAN /\ (armed' \/ Waiting(TheAlarm)')
    BY <1>1, <1>2, Facts DEF ArmedFor, IInv, Shape, Waiting
  <2> QED BY <2>3, <2>4, <2>5, <2>6, <2>8, <2>9, Composed
<1>3. CASE /\ sock' = [sock EXCEPT ![c] = [ServerCloses(sock[c]) EXCEPT !.asked = TRUE]]
           /\ UNCHANGED <<disk, armed>>
  <2> DEFINE to == [ServerCloses(sock[c]) EXCEPT !.asked = TRUE]
  <2>1. ServerCloses(sock[c]) \in Sockets /\ ServerCloses(sock[c]).st # "open"
    BY <1>1, ServerClosesShape
  <2>2. to \in Sockets /\ to.st # "open"
    BY <2>1 DEF Sockets
  <2>3. sock' = [sock EXCEPT ![c] = to]
    BY <1>3
  <2> HIDE DEF to
  <2> QED BY <1>1, <1>3, <2>2, <2>3, SocketStep
<1> QED BY <1>2, <1>3 DEF Challenge

LEMMA RestartedShape ==
  ASSUME IInv, NEW retry \in BOOLEAN, Waiting(TheAlarm) => retry, Restarted(retry)
  PROVE  /\ Whole' /\ Deadlines(disk', mem') /\ mem' = mem
         /\ disk' = [manifest |-> disk'.manifest, chunks |-> disk'.chunks, sched |-> disk'.sched]
         /\ disk'.sched \subseteq Kinds /\ armed' \in BOOLEAN
         /\ "auth-sockets" \in disk.sched => "auth-sockets" \in disk'.sched
         /\ disk'.sched # {} => armed'
<1>1. mem' = mem /\ Restarted(retry) /\ mem' = Restored(disk)
  BY WholeIsRestored, NothingIsRestored DEF IInv, Whole, Restarted
<1>2. CASE mem.room = None
  <2>1. UNCHANGED disk /\ armed' = (armed \/ retry)
    BY <1>1, <1>2 DEF Restarted
  <2>2. Whole'
    BY <1>1, <2>1 DEF IInv, Whole, NoState, WholeState
  <2>3. Deadlines(disk', mem')
    BY <1>1, <2>1, Facts
  <2>4. disk.sched # {} => armed'
    BY <2>1, Facts
  <2> QED BY <1>1, <2>1, <2>2, <2>3, <2>4 DEF IInv, Shape
<1>3. CASE mem.room # None
  <2> DEFINE sched == Scheduled(disk.sched, mem.room, FALSE)
  <2>1. mem.room \in Rooms /\ FALSE \in BOOLEAN /\ disk.sched \in SUBSET Kinds
    BY <1>3, RoomInMemory, Facts DEF IInv
  <2>2. /\ sched \in SUBSET Kinds
        /\ mem.room.due => "secure-relay" \in sched
        /\ "auth-sockets" \in disk.sched => "auth-sockets" \in sched
        /\ "idle" \in disk.sched => "idle" \in sched
    BY <2>1, SchedulesAreKinds
  <2>3. Saved(sched)
    BY <1>1, <1>3 DEF Restarted
  <2> HIDE DEF sched
  <2>4. /\ Whole' /\ disk'.sched = sched /\ disk'.manifest = disk.manifest
        /\ disk' = [manifest |-> disk'.manifest, chunks |-> disk'.chunks, sched |-> disk'.sched]
        /\ armed' = (sched # {})
    BY <1>1, <2>2, <2>3, SavedShape
  <2>5. Deadlines(disk', mem')
    BY <1>1, <2>2, <2>4, Facts DEF Deadlines
  <2> QED BY <1>1, <2>2, <2>4, <2>5
<1> QED BY <1>2, <1>3

LEMMA EvictGood ==
  ASSUME IInv, Evict
  PROVE  IInv'
<1>1. queue = <<>> /\ Restarted(FALSE) /\ sock' = sock /\ queue' = queue
  BY DEF Evict
<1>2. ~Waiting(TheAlarm)
  BY <1>1 DEF Waiting
<1>3. /\ Whole' /\ Deadlines(disk', mem') /\ mem' = mem
      /\ disk' = [manifest |-> disk'.manifest, chunks |-> disk'.chunks, sched |-> disk'.sched]
      /\ disk'.sched \subseteq Kinds /\ armed' \in BOOLEAN
      /\ "auth-sockets" \in disk.sched => "auth-sockets" \in disk'.sched
      /\ disk'.sched # {} => armed'
  BY <1>1, <1>2, RestartedShape, FALSE \in BOOLEAN
<1>4. SweepIsAwaited'
  BY <1>1, <1>3, SameSocketsSettle, NoneForgotten DEF IInv
<1> QED BY <1>1, <1>3, <1>4, Facts, Composed

LEMMA CrashGood ==
  ASSUME IInv, Crash
  PROVE  IInv'
<1>1. /\ Restarted(Waiting(TheAlarm)) /\ queue' = <<>>
      /\ sock' = [c \in Conns |-> IF sock[c].st = "none" THEN sock[c]
                                   ELSE [sock[c] EXCEPT !.st = "gone"]]
  BY DEF Crash
<1>2. Waiting(TheAlarm) \in BOOLEAN
  BY DEF Waiting
<1>3. /\ Whole' /\ Deadlines(disk', mem') /\ mem' = mem
      /\ disk' = [manifest |-> disk'.manifest, chunks |-> disk'.chunks, sched |-> disk'.sched]
      /\ disk'.sched \subseteq Kinds /\ armed' \in BOOLEAN
      /\ disk'.sched # {} => armed'
  BY <1>1, <1>2, RestartedShape
<1>4. \A c \in Conns : sock'[c] \in Sockets /\ sock'[c].st # "open"
  <2> SUFFICES ASSUME NEW c \in Conns
               PROVE  sock'[c] \in Sockets /\ sock'[c].st # "open"
    OBVIOUS
  <2>1. sock[c] \in Sockets
    BY Facts
  <2>2. [sock[c] EXCEPT !.st = "gone"] \in Sockets /\ [sock[c] EXCEPT !.st = "gone"].st = "gone"
    BY <2>1 DEF Sockets
  <2> QED BY <1>1, <2>1, <2>2
<1>5. sock' \in [Conns -> Sockets]
  BY <1>1, <1>4
<1>6. SweepIsAwaited'
  BY <1>4 DEF SweepIsAwaited
<1>7. QueueShape(queue') /\ Closers(queue', sock')
  BY <1>1 DEF QueueShape, Closers
<1> QED BY <1>3, <1>5, <1>6, <1>7, Composed

-----------------------------------------------------------------------------
(* The theorems *)

LEMMA InitGood == Init => IInv
<1> SUFFICES ASSUME Init PROVE IInv
  OBVIOUS
<1>1. Whole
  BY DEF Init, Whole, NoState, Empty
<1>2. sock \in [Conns -> Sockets] /\ \A c \in Conns : sock[c].st = "none"
  BY DEF Init, NoSocket, Sockets
<1>3. Shape
  <2>1. queue \in Seq(Handlers) /\ \A n \in DOMAIN queue : queue[n].op # "alarm" => queue[n].c \in Conns
    BY DEF Init
  <2>2. /\ disk = [manifest |-> disk.manifest, chunks |-> disk.chunks, sched |-> disk.sched]
        /\ disk.sched \subseteq Kinds
    BY DEF Init, Empty
  <2>3. armed \in BOOLEAN
    BY DEF Init
  <2> QED BY <1>2, <2>1, <2>2, <2>3 DEF Shape
<1>4. ClosersAreGone /\ DeadlineIsAwaited /\ SweepIsAwaited
  BY <1>2 DEF Init, Empty, ClosersAreGone, DeadlineIsAwaited, SweepIsAwaited
<1> QED BY <1>1, <1>3, <1>4 DEF IInv

LEMMA StepGood == IInv /\ [Next]_vars => IInv'
<1> SUFFICES ASSUME IInv, [Next]_vars PROVE IInv'
  OBVIOUS
<1>1. CASE UNCHANGED vars
  BY <1>1 DEF vars, IInv, Shape, Whole, NoState, WholeState, ClosersAreGone,
              DeadlineIsAwaited, SweepIsAwaited, Waiting
<1>2. ASSUME NEW c \in Conns,
             \/ Accept(c) \/ Challenge(c) \/ Send(c) \/ ClientCloses(c) \/ CloseEvent(c)
             \/ \E d \in Devices : Authenticate(c, d)
      PROVE  IInv'
  BY <1>2, AcceptGood, ChallengeGood, SendGood, ClientClosesGood, CloseEventGood, AuthenticateGood
<1>3. CASE Run
  BY <1>3, RunGood
<1>4. CASE Fire
  BY <1>4, FireGood
<1>5. CASE Evict
  BY <1>5, EvictGood
<1>6. CASE Crash
  BY <1>6, CrashGood
<1> QED BY <1>1, <1>2, <1>3, <1>4, <1>5, <1>6 DEF Next

LEMMA Invariance == Spec => []IInv
BY InitGood, StepGood, PTL DEF Spec

(* Storage has one whole state and no chunk of another, whatever transactions *)
(* fail and whenever the object goes down (persistSecureRelayState).          *)
THEOREM WholeStored == Spec => []StoredIsWhole
<1>1. ASSUME IInv PROVE StoredIsWhole
  <2>1. CASE NoState(disk, mem)
    BY <2>1 DEF NoState, StoredIsWhole
  <2>2. ASSUME NEW g \in {0, 1}, NEW room \in Rooms, WholeState(disk, mem, g, room)
        PROVE  StoredIsWhole
    BY <2>2, ManifestShape DEF WholeState, StoredIsWhole
  <2> QED BY <1>1, <2>1, <2>2 DEF IInv, Whole
<1> QED BY <1>1, Invariance, PTL

(* Memory is what a restart would restore, so no handler answers from a state *)
(* that could be lost.                                                        *)
THEOREM StoredRemembered == Spec => []MemoryIsStored
<1>1. IInv => MemoryIsStored
  BY WholeIsRestored, NothingIsRestored DEF IInv, Whole, MemoryIsStored
<1> QED BY <1>1, Invariance, PTL

(* The one alarm is set, or waits to be handled, while any deadline runs.     *)
THEOREM AlarmSet == Spec => []AlarmIsAwaited
<1>1. IInv => AlarmIsAwaited
  BY DEF IInv, AlarmIsAwaited
<1> QED BY <1>1, Invariance, PTL
=============================================================================
