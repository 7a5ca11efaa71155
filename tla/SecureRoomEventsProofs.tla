----------------------- MODULE SecureRoomEventsProofs -----------------------
(* The room its members share (SecureRoomEvents), for any devices, games and  *)
(* bound of the queue.                                                        *)
(*                                                                            *)
(* Between two events the room is Sound: what its parts say of each other     *)
(* fits together (Good), no vote against the host waits (Hosted), and a       *)
(* request waits for a cause only (Waits).  Drain and the operators that end, *)
(* begin or take games and members out of a room are shown to lead a room to  *)
(* a room, paying nobody but whom they name (Steps); each event is then one   *)
(* of these, or refused for a cause (StepOk).                                 *)
EXTENDS SecureRoomEvents, SelectionProofs, FiniteSetTheorems

USE GamesAssumption, KindsAssumption

(****************************************************************************)
(* The state of a room, and what its parts say of each other.               *)
(****************************************************************************)
OptDevice == Device \cup {NoDevice}
Entries == [id : Nat, game : GameKind, by : Device, target : OptDevice]
Votes == [id : Nat, starter : OptDevice, target : OptDevice,
          yes : SUBSET Device, no : SUBSET Device]
RpsGames == [id : Nat, p1 : OptDevice, p2 : OptDevice,
             phase : {"pending", "committing", "revealing"}, koth : BOOLEAN,
             committed : SUBSET Device, revealed : SUBSET Device]
TttGames == [id : Nat, p1 : OptDevice, p2 : OptDevice, phase : {"pending", "playing"},
             turn : Nat]
Accusations == [accuser : OptDevice, suspect : OptDevice,
                yes : SUBSET Device, no : SUBSET Device]
Saboteurs == [id : Nat, starter : OptDevice, phase : {"committing", "revealing", "playing"},
              players : SUBSET Device, committed : SUBSET Device, revealed : SUBSET Device,
              saboteur : OptDevice, accusation : Accusations, strikes : Nat,
              canStrike : BOOLEAN]
RoomStates == [host : OptDevice, pendingHost : OptDevice, removals : SUBSET Device,
               bound : SUBSET Device, members : SUBSET Device, closed : BOOLEAN,
               queue : Seq(Entries), vote : Votes, rps : RpsGames, ttt : TttGames,
               saboteur : Saboteurs, score : [Device -> Nat]]

Group(bound, members, host, pending, removals) ==
    /\ members \subseteq bound
    /\ host \in members \cup {NoDevice} /\ pending \in members \cup {NoDevice}
    /\ removals \subseteq members \ {host}
    /\ removals # {} => pending = NoDevice

(* The members that are not leaving, who may ask for games.                  *)
EntryFit(e, staying, n) ==
    /\ e.id \in 1..n
    /\ e.by \in staying /\ e.target \in staying \cup {NoDevice} /\ e.target # e.by
    /\ e.game \in Targeted => e.target # NoDevice
QueueFit(q, staying, n) ==
    /\ Len(q) <= MaxGameQueue
    /\ \A i \in 1..Len(q) : EntryFit(q[i], staying, n)
    /\ \A i, j \in 1..Len(q) : q[i].id = q[j].id => i = j
Fresh(q, v, r, t, b) == \A i \in 1..Len(q) : q[i].id \notin {v, r, t, b}

(* One game at a time, and none while a new host is asked for.               *)
One(v, r, t, b, pending) ==
    /\ v # 0 => r = 0 /\ t = 0 /\ b = 0
    /\ r # 0 => t = 0 /\ b = 0
    /\ t # 0 => b = 0
    /\ pending # NoDevice => v = 0 /\ r = 0 /\ t = 0 /\ b = 0

VoteFit(v, members, host, n) ==
    /\ v.id = 0 => v = NoVote
    /\ v.id # 0 =>
         /\ v.id <= n
         /\ v.starter \in members /\ v.target \in members
         /\ v.target # v.starter /\ v.target # host
         /\ v.yes \subseteq members \ {v.target} /\ v.no \subseteq members \ {v.target}
         /\ v.starter \in v.yes /\ v.yes \cap v.no = {}
         /\ Cardinality(v.yes \cup v.no) < Cardinality(members \ {v.target})

RpsFit(g, members, host, n) ==
    /\ g.id = 0 => g = NoRps
    /\ g.id # 0 =>
         /\ g.id <= n
         /\ g.p1 \in members /\ g.p2 \in members /\ g.p1 # g.p2
         /\ g.committed \subseteq {g.p1, g.p2} /\ g.revealed \subseteq {g.p1, g.p2}
         /\ g.koth => g.phase # "pending" /\ g.p2 = host
         /\ g.phase = "pending" => g.committed = {}
         /\ g.phase # "revealing" => g.committed # {g.p1, g.p2} /\ g.revealed = {}
         /\ g.phase = "revealing" =>
              g.committed = {g.p1, g.p2} /\ g.revealed # {g.p1, g.p2}

TttFit(g, members, n) ==
    /\ g.id = 0 => g = NoTtt
    /\ g.id # 0 => g.id <= n /\ g.p1 \in members /\ g.p2 \in members

SabFit(g, members, n) ==
    /\ g.id = 0 => g = NoSaboteur
    /\ g.id # 0 =>
         /\ g.id <= n
         /\ g.players \subseteq members /\ g.starter \in g.players
         /\ Cardinality(g.players) >= 4
         /\ g.phase = "committing" => g.committed # g.players /\ g.revealed = {}
         /\ g.phase = "revealing" => g.committed = g.players /\ g.revealed # g.players
         /\ g.phase # "playing" =>
              /\ g.saboteur = NoDevice /\ ~g.canStrike /\ g.strikes = 0
              /\ g.accusation = NoAccusation
         /\ g.phase = "playing" => /\ g.committed = g.players /\ g.revealed = g.players
                                   /\ g.saboteur \in g.players /\ g.strikes < 3
         /\ g.accusation.accuser # NoDevice =>
              /\ ~g.canStrike
              /\ g.accusation.accuser \notin {g.accusation.suspect, g.saboteur}
              /\ g.accusation.yes \cup g.accusation.no # g.players

(* No vote is queued against the host.                                        *)
Hosted(q, host) == \A i \in 1..Len(q) : q[i].game = "vote" => q[i].target # host

Good(s, n) ==
    /\ s \in RoomStates
    /\ Group(s.bound, s.members, s.host, s.pendingHost, s.removals)
    /\ QueueFit(s.queue, s.members \ s.removals, n)
    /\ Fresh(s.queue, s.vote.id, s.rps.id, s.ttt.id, s.saboteur.id)
    /\ One(s.vote.id, s.rps.id, s.ttt.id, s.saboteur.id, s.pendingHost)
    /\ VoteFit(s.vote, s.members, s.host, n)
    /\ RpsFit(s.rps, s.members, s.host, n)
    /\ TttFit(s.ttt, s.members, n)
    /\ SabFit(s.saboteur, s.members, n)

Fine(s, n) == Good(s, n) /\ Hosted(s.queue, s.host)
Waits(s) == s.queue # <<>> => Barred(s) \/ s.closed
Sound(s, n) == Fine(s, n) /\ Waits(s)

-----------------------------------------------------------------------------
(* A field at a time.                                                         *)
SameGroup(s, t) ==
    /\ t.host = s.host /\ t.pendingHost = s.pendingHost /\ t.removals = s.removals
    /\ t.bound = s.bound /\ t.members = s.members /\ t.closed = s.closed
SameGames(s, t) ==
    t.vote = s.vote /\ t.rps = s.rps /\ t.ttt = s.ttt /\ t.saboteur = s.saboteur

LEMMA SetVote ==
    ASSUME NEW s \in RoomStates, NEW x \in Votes
    PROVE  LET t == [s EXCEPT !.vote = x]
           IN  /\ t \in RoomStates /\ t.vote = x
               /\ SameGroup(s, t) /\ t.queue = s.queue /\ t.score = s.score
               /\ t.rps = s.rps /\ t.ttt = s.ttt /\ t.saboteur = s.saboteur
BY DEF RoomStates, SameGroup

LEMMA SetRps ==
    ASSUME NEW s \in RoomStates, NEW x \in RpsGames
    PROVE  LET t == [s EXCEPT !.rps = x]
           IN  /\ t \in RoomStates /\ t.rps = x
               /\ SameGroup(s, t) /\ t.queue = s.queue /\ t.score = s.score
               /\ t.vote = s.vote /\ t.ttt = s.ttt /\ t.saboteur = s.saboteur
BY DEF RoomStates, SameGroup

LEMMA SetTtt ==
    ASSUME NEW s \in RoomStates, NEW x \in TttGames
    PROVE  LET t == [s EXCEPT !.ttt = x]
           IN  /\ t \in RoomStates /\ t.ttt = x
               /\ SameGroup(s, t) /\ t.queue = s.queue /\ t.score = s.score
               /\ t.vote = s.vote /\ t.rps = s.rps /\ t.saboteur = s.saboteur
BY DEF RoomStates, SameGroup

LEMMA SetSaboteur ==
    ASSUME NEW s \in RoomStates, NEW x \in Saboteurs
    PROVE  LET t == [s EXCEPT !.saboteur = x]
           IN  /\ t \in RoomStates /\ t.saboteur = x
               /\ SameGroup(s, t) /\ t.queue = s.queue /\ t.score = s.score
               /\ t.vote = s.vote /\ t.rps = s.rps /\ t.ttt = s.ttt
BY DEF RoomStates, SameGroup

LEMMA SetQueue ==
    ASSUME NEW s \in RoomStates, NEW x \in Seq(Entries)
    PROVE  LET t == [s EXCEPT !.queue = x]
           IN  /\ t \in RoomStates /\ t.queue = x
               /\ SameGroup(s, t) /\ SameGames(s, t) /\ t.score = s.score
BY DEF RoomStates, SameGroup, SameGames

LEMMA SetScore ==
    ASSUME NEW s \in RoomStates, NEW x \in [Device -> Nat]
    PROVE  LET t == [s EXCEPT !.score = x]
           IN  /\ t \in RoomStates /\ t.score = x
               /\ SameGroup(s, t) /\ SameGames(s, t) /\ t.queue = s.queue
BY DEF RoomStates, SameGroup, SameGames

LEMMA SetPending ==
    ASSUME NEW s \in RoomStates, NEW x \in OptDevice
    PROVE  LET t == [s EXCEPT !.pendingHost = x]
           IN  /\ t \in RoomStates /\ t.pendingHost = x
               /\ t.host = s.host /\ t.removals = s.removals /\ t.bound = s.bound
               /\ t.members = s.members /\ t.closed = s.closed
               /\ SameGames(s, t) /\ t.queue = s.queue /\ t.score = s.score
BY DEF RoomStates, SameGames

-----------------------------------------------------------------------------
(* What keeps a room good.                                                    *)
LEMMA GoodVote ==
    ASSUME NEW n \in Nat, NEW s, Good(s, n), NEW x \in Votes,
           VoteFit(x, s.members, s.host, n),
           Fresh(s.queue, x.id, s.rps.id, s.ttt.id, s.saboteur.id),
           One(x.id, s.rps.id, s.ttt.id, s.saboteur.id, s.pendingHost)
    PROVE  Good([s EXCEPT !.vote = x], n)
<1>1. s \in RoomStates
    BY DEF Good
<1> QED BY <1>1, SetVote DEF Good, SameGroup

LEMMA GoodRps ==
    ASSUME NEW n \in Nat, NEW s, Good(s, n), NEW x \in RpsGames,
           RpsFit(x, s.members, s.host, n),
           Fresh(s.queue, s.vote.id, x.id, s.ttt.id, s.saboteur.id),
           One(s.vote.id, x.id, s.ttt.id, s.saboteur.id, s.pendingHost)
    PROVE  Good([s EXCEPT !.rps = x], n)
<1>1. s \in RoomStates
    BY DEF Good
<1> QED BY <1>1, SetRps DEF Good, SameGroup

LEMMA GoodTtt ==
    ASSUME NEW n \in Nat, NEW s, Good(s, n), NEW x \in TttGames,
           TttFit(x, s.members, n),
           Fresh(s.queue, s.vote.id, s.rps.id, x.id, s.saboteur.id),
           One(s.vote.id, s.rps.id, x.id, s.saboteur.id, s.pendingHost)
    PROVE  Good([s EXCEPT !.ttt = x], n)
<1>1. s \in RoomStates
    BY DEF Good
<1> QED BY <1>1, SetTtt DEF Good, SameGroup

LEMMA GoodSaboteur ==
    ASSUME NEW n \in Nat, NEW s, Good(s, n), NEW x \in Saboteurs,
           SabFit(x, s.members, n),
           Fresh(s.queue, s.vote.id, s.rps.id, s.ttt.id, x.id),
           One(s.vote.id, s.rps.id, s.ttt.id, x.id, s.pendingHost)
    PROVE  Good([s EXCEPT !.saboteur = x], n)
<1>1. s \in RoomStates
    BY DEF Good
<1> QED BY <1>1, SetSaboteur DEF Good, SameGroup

LEMMA GoodQueue ==
    ASSUME NEW n \in Nat, NEW s, Good(s, n), NEW x \in Seq(Entries),
           QueueFit(x, s.members \ s.removals, n),
           Fresh(x, s.vote.id, s.rps.id, s.ttt.id, s.saboteur.id)
    PROVE  Good([s EXCEPT !.queue = x], n)
<1>1. s \in RoomStates
    BY DEF Good
<1> QED BY <1>1, SetQueue DEF Good, SameGroup, SameGames

LEMMA GoodPending ==
    ASSUME NEW n \in Nat, NEW s, Good(s, n), NEW x \in s.members \cup {NoDevice},
           x # NoDevice => s.removals = {},
           One(s.vote.id, s.rps.id, s.ttt.id, s.saboteur.id, x)
    PROVE  Good([s EXCEPT !.pendingHost = x], n)
<1>1. s \in RoomStates /\ s.members \in SUBSET Device
    BY DEF Good, RoomStates
<1>2. x \in OptDevice
    BY <1>1 DEF OptDevice
<1> DEFINE t == [s EXCEPT !.pendingHost = x]
<1>3. /\ t \in RoomStates /\ t.pendingHost = x
      /\ t.host = s.host /\ t.removals = s.removals /\ t.bound = s.bound
      /\ t.members = s.members /\ t.closed = s.closed
      /\ SameGames(s, t) /\ t.queue = s.queue /\ t.score = s.score
    BY <1>1, <1>2, SetPending
<1> HIDE DEF t
<1>4. Group(t.bound, t.members, t.host, t.pendingHost, t.removals)
    BY <1>3 DEF Good, Group
<1>5. /\ QueueFit(t.queue, t.members \ t.removals, n)
      /\ Fresh(t.queue, t.vote.id, t.rps.id, t.ttt.id, t.saboteur.id)
      /\ One(t.vote.id, t.rps.id, t.ttt.id, t.saboteur.id, t.pendingHost)
    BY <1>3 DEF Good, SameGames
<1>6. /\ VoteFit(t.vote, t.members, t.host, n) /\ RpsFit(t.rps, t.members, t.host, n)
      /\ TttFit(t.ttt, t.members, n) /\ SabFit(t.saboteur, t.members, n)
    BY <1>3 DEF Good, SameGames
<1> QED BY <1>3, <1>4, <1>5, <1>6 DEF Good, t

(* The names of games grow.                                                   *)
LEMMA GoodLater ==
    ASSUME NEW n \in Nat, NEW s, Good(s, n)
    PROVE  Good(s, n + 1)
<1>1. s \in RoomStates /\ s.queue \in Seq(Entries) /\ s.vote.id \in Nat /\ s.rps.id \in Nat
      /\ s.ttt.id \in Nat /\ s.saboteur.id \in Nat
    BY DEF Good, RoomStates, Votes, RpsGames, TttGames, Saboteurs
<1>2. QueueFit(s.queue, s.members \ s.removals, n + 1)
    BY <1>1 DEF Good, QueueFit, EntryFit
<1>3. VoteFit(s.vote, s.members, s.host, n + 1)
    BY <1>1 DEF Good, VoteFit
<1>4. RpsFit(s.rps, s.members, s.host, n + 1)
    BY <1>1 DEF Good, RpsFit
<1>5. TttFit(s.ttt, s.members, n + 1)
    BY <1>1 DEF Good, TttFit
<1>6. SabFit(s.saboteur, s.members, n + 1)
    BY <1>1 DEF Good, SabFit
<1> QED BY <1>2, <1>3, <1>4, <1>5, <1>6 DEF Good

(* The games that are over.                                                   *)
LEMMA Nothing ==
    /\ NoVote \in Votes /\ NoRps \in RpsGames /\ NoTtt \in TttGames
    /\ NoAccusation \in Accusations /\ NoSaboteur \in Saboteurs
    /\ NoVote.id = 0 /\ NoRps.id = 0 /\ NoTtt.id = 0 /\ NoSaboteur.id = 0
    /\ NoAccusation.accuser = NoDevice
<1>1. NoVote \in Votes /\ NoVote.id = 0
    BY DEF NoVote, Votes, OptDevice
<1>2. NoRps \in RpsGames /\ NoRps.id = 0
    BY DEF NoRps, RpsGames, OptDevice
<1>3. NoTtt \in TttGames /\ NoTtt.id = 0
    BY DEF NoTtt, TttGames, OptDevice
<1>4. NoAccusation \in Accusations /\ NoAccusation.accuser = NoDevice
    BY DEF NoAccusation, Accusations, OptDevice
<1>5. NoSaboteur \in Saboteurs /\ NoSaboteur.id = 0
    BY <1>4 DEF NoSaboteur, Saboteurs, OptDevice
<1> QED BY <1>1, <1>2, <1>3, <1>4, <1>5

LEMMA Numbers ==
    ASSUME NEW n \in Nat, NEW s, Good(s, n)
    PROVE  /\ s \in RoomStates /\ s.queue \in Seq(Entries)
           /\ s.vote \in Votes /\ s.rps \in RpsGames /\ s.ttt \in TttGames
           /\ s.saboteur \in Saboteurs /\ s.score \in [Device -> Nat]
           /\ s.members \subseteq Device /\ s.host \in OptDevice /\ s.pendingHost \in OptDevice
           /\ s.removals \subseteq Device /\ s.bound \subseteq Device
           /\ s.vote.id \in Nat /\ s.rps.id \in Nat /\ s.ttt.id \in Nat /\ s.saboteur.id \in Nat
           /\ \A i \in 1..Len(s.queue) : s.queue[i] \in Entries /\ s.queue[i].id \in 1..n
<1>1. s \in RoomStates /\ QueueFit(s.queue, s.members \ s.removals, n)
    BY DEF Good
<1>2. /\ s.queue \in Seq(Entries)
      /\ s.vote \in Votes /\ s.rps \in RpsGames /\ s.ttt \in TttGames
      /\ s.saboteur \in Saboteurs /\ s.score \in [Device -> Nat]
      /\ s.members \subseteq Device /\ s.host \in OptDevice /\ s.pendingHost \in OptDevice
      /\ s.removals \subseteq Device /\ s.bound \subseteq Device
    BY <1>1 DEF RoomStates
<1>3. s.vote.id \in Nat /\ s.rps.id \in Nat /\ s.ttt.id \in Nat /\ s.saboteur.id \in Nat
    BY <1>2 DEF Votes, RpsGames, TttGames, Saboteurs
<1> QED BY <1>1, <1>2, <1>3 DEF QueueFit, EntryFit

LEMMA GamesEnd ==
    ASSUME NEW n \in Nat, NEW s, Good(s, n)
    PROVE  /\ Good([s EXCEPT !.vote = NoVote], n) /\ Good([s EXCEPT !.rps = NoRps], n)
           /\ Good([s EXCEPT !.ttt = NoTtt], n) /\ Good([s EXCEPT !.saboteur = NoSaboteur], n)
<1>1. \A i \in 1..Len(s.queue) : s.queue[i].id # 0
    BY Numbers
<1>2. /\ VoteFit(NoVote, s.members, s.host, n) /\ RpsFit(NoRps, s.members, s.host, n)
      /\ TttFit(NoTtt, s.members, n) /\ SabFit(NoSaboteur, s.members, n)
    BY Nothing DEF VoteFit, RpsFit, TttFit, SabFit
<1>3. /\ Fresh(s.queue, 0, s.rps.id, s.ttt.id, s.saboteur.id)
      /\ Fresh(s.queue, s.vote.id, 0, s.ttt.id, s.saboteur.id)
      /\ Fresh(s.queue, s.vote.id, s.rps.id, 0, s.saboteur.id)
      /\ Fresh(s.queue, s.vote.id, s.rps.id, s.ttt.id, 0)
    BY <1>1 DEF Good, Fresh
<1>4. /\ One(0, s.rps.id, s.ttt.id, s.saboteur.id, s.pendingHost)
      /\ One(s.vote.id, 0, s.ttt.id, s.saboteur.id, s.pendingHost)
      /\ One(s.vote.id, s.rps.id, 0, s.saboteur.id, s.pendingHost)
      /\ One(s.vote.id, s.rps.id, s.ttt.id, 0, s.pendingHost)
    BY DEF Good, One
<1>5. Good([s EXCEPT !.vote = NoVote], n)
    BY <1>2, <1>3, <1>4, Nothing, GoodVote
<1>6. Good([s EXCEPT !.rps = NoRps], n)
    BY <1>2, <1>3, <1>4, Nothing, GoodRps
<1>7. Good([s EXCEPT !.ttt = NoTtt], n)
    BY <1>2, <1>3, <1>4, Nothing, GoodTtt
<1>8. Good([s EXCEPT !.saboteur = NoSaboteur], n)
    BY <1>2, <1>3, <1>4, Nothing, GoodSaboteur
<1> QED BY <1>5, <1>6, <1>7, <1>8

LEMMA BumpFields ==
    ASSUME NEW s \in RoomStates, NEW S
    PROVE  LET t == Bump(s, S)
           IN  /\ t \in RoomStates /\ SameGroup(s, t) /\ SameGames(s, t) /\ t.queue = s.queue
               /\ \A d \in Device : t.score[d] = IF d \in S THEN s.score[d] + 1 ELSE s.score[d]
<1> DEFINE x == [d \in Device |-> IF d \in S THEN s.score[d] + 1 ELSE s.score[d]]
<1>1. s.score \in [Device -> Nat]
    BY DEF RoomStates
<1>2. x \in [Device -> Nat]
    BY <1>1
<1>3. Bump(s, S) = [s EXCEPT !.score = x]
    BY DEF Bump
<1>4. \A d \in Device : x[d] = IF d \in S THEN s.score[d] + 1 ELSE s.score[d]
    OBVIOUS
<1> HIDE DEF x
<1> QED BY <1>2, <1>3, <1>4, SetScore

LEMMA BumpGood ==
    ASSUME NEW n \in Nat, NEW s, Good(s, n), NEW S
    PROVE  Good(Bump(s, S), n)
<1>1. PICK t : t = Bump(s, S)
    OBVIOUS
<1>2. t \in RoomStates /\ SameGroup(s, t) /\ SameGames(s, t) /\ t.queue = s.queue
    BY <1>1, Numbers, BumpFields
<1>3. Good(t, n)
    BY <1>2 DEF Good, SameGroup, SameGames
<1> QED BY <1>1, <1>3

-----------------------------------------------------------------------------
(* A part of a queue.                                                         *)
PartOf(q, p) ==
    /\ Len(q) <= Len(p)
    /\ \E f \in [1..Len(q) -> 1..Len(p)] :
         /\ \A i, j \in 1..Len(q) : f[i] = f[j] => i = j
         /\ \A i \in 1..Len(q) : q[i] = p[f[i]]

LEMMA PartFit ==
    ASSUME NEW n \in Nat, NEW p \in Seq(Entries), NEW q \in Seq(Entries), PartOf(q, p),
           NEW staying, QueueFit(p, staying, n),
           NEW v, NEW r, NEW t, NEW b, Fresh(p, v, r, t, b)
    PROVE  QueueFit(q, staying, n) /\ Fresh(q, v, r, t, b)
<1>1. PICK f \in [1..Len(q) -> 1..Len(p)] :
         /\ \A i, j \in 1..Len(q) : f[i] = f[j] => i = j
         /\ \A i \in 1..Len(q) : q[i] = p[f[i]]
    BY DEF PartOf
<1>2. \A i \in 1..Len(q) : f[i] \in 1..Len(p)
    OBVIOUS
<1>3. Len(q) <= MaxGameQueue
    BY DEF QueueFit, PartOf
<1>4. \A i \in 1..Len(q) : EntryFit(q[i], staying, n)
    BY <1>1, <1>2 DEF QueueFit
<1>5. \A i, j \in 1..Len(q) : q[i].id = q[j].id => i = j
    BY <1>1, <1>2 DEF QueueFit
<1>6. Fresh(q, v, r, t, b)
    BY <1>1, <1>2 DEF Fresh
<1> QED BY <1>3, <1>4, <1>5, <1>6 DEF QueueFit

LEMMA PartIn ==
    ASSUME NEW S, NEW p \in Seq(S), NEW q \in Seq(S), PartOf(q, p), NEW i \in 1..Len(q)
    PROVE  \E k \in 1..Len(p) : q[i] = p[k]
BY DEF PartOf

LEMMA NoPart ==
    ASSUME NEW S, NEW p \in Seq(S)
    PROVE  <<>> \in Seq(S) /\ PartOf(<<>>, p)
<1>1. PICK q : q = <<>>
    OBVIOUS
<1>2. q \in Seq(S) /\ Len(q) = 0 /\ Len(p) \in Nat /\ 1..Len(q) = {}
    BY <1>1
<1> DEFINE f == [i \in 1..Len(q) |-> i]
<1>3. f \in [1..Len(q) -> 1..Len(p)]
    BY <1>2
<1> HIDE DEF f
<1>4. /\ \A i, j \in 1..Len(q) : f[i] = f[j] => i = j
      /\ \A i \in 1..Len(q) : q[i] = p[f[i]]
      /\ Len(q) <= Len(p)
    BY <1>2
<1>5. PartOf(q, p)
    BY <1>3, <1>4 DEF PartOf
<1> QED BY <1>1, <1>2, <1>5

LEMMA SamePart ==
    ASSUME NEW S, NEW p \in Seq(S)
    PROVE  PartOf(p, p)
<1> DEFINE f == [i \in 1..Len(p) |-> i]
<1>1. f \in [1..Len(p) -> 1..Len(p)] /\ \A i \in 1..Len(p) : f[i] = i
    OBVIOUS
<1> HIDE DEF f
<1> QED BY <1>1 DEF PartOf

LEMMA PartPart ==
    ASSUME NEW S, NEW p \in Seq(S), NEW q \in Seq(S), NEW r \in Seq(S),
           PartOf(q, p), PartOf(r, q)
    PROVE  PartOf(r, p)
<1>1. PICK f \in [1..Len(q) -> 1..Len(p)] :
         /\ \A i, j \in 1..Len(q) : f[i] = f[j] => i = j
         /\ \A i \in 1..Len(q) : q[i] = p[f[i]]
    BY DEF PartOf
<1>2. PICK g \in [1..Len(r) -> 1..Len(q)] :
         /\ \A i, j \in 1..Len(r) : g[i] = g[j] => i = j
         /\ \A i \in 1..Len(r) : r[i] = q[g[i]]
    BY DEF PartOf
<1> DEFINE h == [i \in 1..Len(r) |-> f[g[i]]]
<1>3. h \in [1..Len(r) -> 1..Len(p)]
    OBVIOUS
<1>4. \A i \in 1..Len(r) : h[i] = f[g[i]] /\ g[i] \in 1..Len(q)
    OBVIOUS
<1> HIDE DEF h
<1>5. \A i, j \in 1..Len(r) : h[i] = h[j] => i = j
    BY <1>1, <1>2, <1>4
<1>6. \A i \in 1..Len(r) : r[i] = p[h[i]]
    BY <1>1, <1>2, <1>4
<1>7. Len(r) <= Len(p)
    BY DEF PartOf
<1> QED BY <1>3, <1>5, <1>6, <1>7 DEF PartOf

LEMMA SuffixPart ==
    ASSUME NEW S, NEW p \in Seq(S), NEW k \in 1..Len(p)
    PROVE  /\ SubSeq(p, k + 1, Len(p)) \in Seq(S) /\ PartOf(SubSeq(p, k + 1, Len(p)), p)
           /\ \A i \in 1..Len(SubSeq(p, k + 1, Len(p))) : \E j \in (k + 1)..Len(p) :
                SubSeq(p, k + 1, Len(p))[i] = p[j]
<1> DEFINE q == SubSeq(p, k + 1, Len(p))
           f == [i \in 1..Len(q) |-> k + i]
<1>1. /\ q \in Seq(S) /\ Len(q) = Len(p) - k
      /\ \A i \in 1..Len(q) : q[i] = p[k + i] /\ k + i \in 1..Len(p) /\ k + i > k
    OBVIOUS
<1> HIDE DEF q
<1>2. f \in [1..Len(q) -> 1..Len(p)] /\ \A i \in 1..Len(q) : f[i] = k + i
    BY <1>1
<1> HIDE DEF f
<1>3. \A i, j \in 1..Len(q) : f[i] = f[j] => i = j
    BY <1>1, <1>2
<1>4. PartOf(q, p)
    <2>1. Len(q) <= Len(p) /\ \A i \in 1..Len(q) : q[i] = p[f[i]]
        BY <1>1, <1>2
    <2> QED BY <1>2, <1>3, <2>1 DEF PartOf
<1>5. \A i \in 1..Len(q) : \E j \in (k + 1)..Len(p) : q[i] = p[j]
    BY <1>1
<1> QED BY <1>1, <1>4, <1>5 DEF q

LEMMA Joined ==
    ASSUME NEW S, NEW a \in Seq(S), NEW b \in Seq(S)
    PROVE  /\ a \o b \in Seq(S) /\ Len(a \o b) = Len(a) + Len(b)
           /\ \A i \in 1..(Len(a) + Len(b)) :
                (a \o b)[i] = IF i <= Len(a) THEN a[i] ELSE b[i - Len(a)]
OBVIOUS

LEMMA WithoutPart ==
    ASSUME NEW S, NEW p \in Seq(S), NEW k \in 1..Len(p)
    PROVE  LET q == SubSeq(p, 1, k - 1) \o SubSeq(p, k + 1, Len(p))
           IN  q \in Seq(S) /\ PartOf(q, p)
<1> DEFINE a == SubSeq(p, 1, k - 1)
           b == SubSeq(p, k + 1, Len(p))
           q == a \o b
           f == [i \in 1..Len(q) |-> IF i < k THEN i ELSE i + 1]
<1>1. a \in Seq(S) /\ Len(a) = k - 1 /\ \A i \in 1..Len(a) : a[i] = p[i]
    OBVIOUS
<1>2. b \in Seq(S) /\ Len(b) = Len(p) - k /\ \A i \in 1..Len(b) : b[i] = p[k + i]
    OBVIOUS
<1> HIDE DEF a, b
<1>3. /\ q \in Seq(S) /\ Len(q) = Len(a) + Len(b)
      /\ \A i \in 1..Len(q) : q[i] = IF i <= Len(a) THEN a[i] ELSE b[i - Len(a)]
    <2>1. a \in Seq(S) /\ b \in Seq(S)
        BY <1>1, <1>2
    <2> QED BY <2>1, Joined
<1> HIDE DEF q
<1>4. Len(q) = Len(p) - 1
    BY <1>1, <1>2, <1>3
<1>5. \A i \in 1..Len(q) : q[i] = p[IF i < k THEN i ELSE i + 1]
    <2> TAKE i \in 1..Len(q)
    <2>1. CASE i < k
        BY <1>1, <1>3, <2>1
    <2>2. CASE i >= k
        <3>1. i - Len(a) \in 1..Len(b) /\ k + (i - Len(a)) = i + 1
            BY <1>1, <1>2, <1>4, <2>2
        <3>2. q[i] = b[i - Len(a)]
            BY <1>1, <1>3, <2>2
        <3>3. b[i - Len(a)] = p[k + (i - Len(a))]
            BY <1>2, <3>1
        <3> QED BY <2>2, <3>1, <3>2, <3>3
    <2> QED BY <2>1, <2>2
<1>6. f \in [1..Len(q) -> 1..Len(p)] /\ \A i \in 1..Len(q) : f[i] = IF i < k THEN i ELSE i + 1
    BY <1>4
<1> HIDE DEF f
<1>7. \A i, j \in 1..Len(q) : f[i] = f[j] => i = j
    BY <1>6
<1>8. \A i \in 1..Len(q) : q[i] = p[f[i]]
    BY <1>5, <1>6
<1>9. Len(q) <= Len(p)
    BY <1>4
<1>10. PartOf(q, p)
    BY <1>6, <1>7, <1>8, <1>9 DEF PartOf
<1> QED BY <1>3, <1>10 DEF q, a, b

LEMMA FilterPart ==
    ASSUME NEW S, NEW p \in Seq(S), NEW T
    PROVE  /\ Filter(p, T) \in Seq(S) /\ PartOf(Filter(p, T), p)
           /\ \A i \in 1..Len(Filter(p, T)) : Filter(p, T)[i] \in T
<1>1. PICK f : Picks(f, Filter(p, T), p, T, Len(p))
    BY FilterPicks
<1>2. PICK q : q = Filter(p, T)
    OBVIOUS
<1>3. q \in Seq(S)
    BY <1>2, FilterPicks
<1>4. /\ f \in [1..Len(q) -> 1..Len(p)]
      /\ \A i \in 1..Len(q) : q[i] = p[f[i]] /\ p[f[i]] \in T
      /\ \A i, j \in 1..Len(q) : i < j => f[i] < f[j]
    BY <1>1, <1>2 DEF Picks
<1>5. \A i, j \in 1..Len(q) : f[i] = f[j] => i = j
    <2> TAKE i, j \in 1..Len(q)
    <2>1. i \in Int /\ j \in Int /\ f[i] \in Int /\ f[j] \in Int
        BY <1>4
    <2> QED BY <1>4, <2>1
<1>6. Len(q) <= Len(p)
    <2>1. f \in Injection(1..Len(q), 1..Len(p))
        BY <1>4, <1>5 DEF Injection, IsInjective
    <2>2. IsFiniteSet(1..Len(p)) /\ Cardinality(1..Len(p)) = Len(p) /\ Cardinality(1..Len(q)) = Len(q)
        <3>1. Len(p) \in Nat /\ Len(q) \in Nat /\ 1 \in Int /\ Len(p) \in Int /\ Len(q) \in Int
            BY <1>3
        <3>2. IsFiniteSet(1..Len(p)) /\ Cardinality(1..Len(p)) = IF 1 > Len(p) THEN 0 ELSE Len(p) - 1 + 1
            BY <3>1, FS_Interval
        <3>3. Cardinality(1..Len(q)) = IF 1 > Len(q) THEN 0 ELSE Len(q) - 1 + 1
            BY <3>1, FS_Interval
        <3> QED BY <3>1, <3>2, <3>3
    <2>3. Cardinality(1..Len(q)) <= Cardinality(1..Len(p))
        BY <2>1, <2>2, FS_Injection
    <2> QED BY <2>2, <2>3
<1>7. PartOf(q, p)
    BY <1>4, <1>5, <1>6 DEF PartOf
<1> QED BY <1>2, <1>3, <1>4, <1>7

-----------------------------------------------------------------------------
(* A game begins.                                                             *)
Idle(s) ==
    /\ s.vote.id = 0 /\ s.rps.id = 0 /\ s.ttt.id = 0 /\ s.saboteur.id = 0
    /\ s.pendingHost = NoDevice /\ s.removals = {}

LEMMA IdleIs ==
    ASSUME NEW n \in Nat, NEW s, Good(s, n)
    PROVE  ~Barred(s) <=> Idle(s)
BY Numbers DEF Barred, ActiveGame, ActiveIds, Idle

(* The games that may follow: those of the queue.                            *)
Follows(s, t) ==
    \A x \in ActiveIds(t) : x \in ActiveIds(s) \/ \E k \in 1..Len(s.queue) : s.queue[k].id = x

Unique(s, i) == i # 0 /\ \A k \in 1..Len(s.queue) : s.queue[k].id # i

(* The games as they begin.                                                   *)
FirstVote(i, by, target) ==
    [NoVote EXCEPT !.id = i, !.starter = by, !.target = target, !.yes = {by}]
FirstRps(i, by, target) == [NoRps EXCEPT !.id = i, !.p1 = by, !.p2 = target]
FirstKoth(i, by, target) ==
    [NoRps EXCEPT !.id = i, !.p1 = by, !.p2 = target, !.phase = "committing", !.koth = TRUE]
FirstTtt(i, by, target) == [NoTtt EXCEPT !.id = i, !.p1 = by, !.p2 = target]
FirstSaboteur(i, by, S) == [NoSaboteur EXCEPT !.id = i, !.starter = by, !.players = S]

LEMMA NewVote ==
    ASSUME NEW i \in Nat, NEW by \in Device, NEW target \in Device
    PROVE  LET x == FirstVote(i, by, target)
           IN  /\ x \in Votes /\ x.id = i /\ x.starter = by /\ x.target = target
               /\ x.yes = {by} /\ x.no = {}
BY Nothing DEF FirstVote, NoVote, Votes, OptDevice

LEMMA NewRps ==
    ASSUME NEW i \in Nat, NEW by \in Device, NEW target \in Device
    PROVE  LET x == FirstRps(i, by, target)
           IN  /\ x \in RpsGames /\ x.id = i /\ x.p1 = by /\ x.p2 = target
               /\ x.phase = "pending" /\ ~x.koth /\ x.committed = {} /\ x.revealed = {}
BY Nothing DEF FirstRps, NoRps, RpsGames, OptDevice

LEMMA NewKoth ==
    ASSUME NEW i \in Nat, NEW by \in Device, NEW target \in Device
    PROVE  LET x == FirstKoth(i, by, target)
           IN  /\ x \in RpsGames /\ x.id = i /\ x.p1 = by /\ x.p2 = target
               /\ x.phase = "committing" /\ x.koth /\ x.committed = {} /\ x.revealed = {}
BY Nothing DEF FirstKoth, NoRps, RpsGames, OptDevice

LEMMA NewTtt ==
    ASSUME NEW i \in Nat, NEW by \in Device, NEW target \in Device
    PROVE  LET x == FirstTtt(i, by, target)
           IN  x \in TttGames /\ x.id = i /\ x.p1 = by /\ x.p2 = target
BY Nothing DEF FirstTtt, NoTtt, TttGames, OptDevice

LEMMA NewSaboteur ==
    ASSUME NEW i \in Nat, NEW by \in Device, NEW S \in SUBSET Device
    PROVE  LET x == FirstSaboteur(i, by, S)
           IN  /\ x \in Saboteurs /\ x.id = i /\ x.starter = by /\ x.players = S
               /\ x.phase = "committing" /\ x.committed = {} /\ x.revealed = {}
               /\ x.saboteur = NoDevice /\ x.accusation = NoAccusation /\ ~x.canStrike /\ x.strikes = 0
BY Nothing DEF FirstSaboteur, NoSaboteur, Saboteurs, OptDevice

LEMMA StartsVote ==
    ASSUME NEW n \in Nat, NEW s, Good(s, n), Idle(s), NEW i \in 1..n, Unique(s, i),
           NEW by \in s.members, NEW target \in s.members,
           target # by, target # s.host, Cardinality(s.members) >= 3
    PROVE  LET t == WithVote(s, i, by, target)
           IN  /\ Good(t, n) /\ ActiveIds(t) = {i}
               /\ SameGroup(s, t) /\ t.score = s.score /\ t.queue = s.queue
<1> DEFINE x == FirstVote(i, by, target)
<1>1. WithVote(s, i, by, target) = [s EXCEPT !.vote = x]
    BY DEF WithVote, FirstVote
<1>2. i \in Nat /\ by \in Device /\ target \in Device /\ s \in RoomStates
    BY Numbers
<1>3. /\ x \in Votes /\ x.id = i /\ x.starter = by /\ x.target = target
      /\ x.yes = {by} /\ x.no = {}
    BY <1>2, NewVote
<1> HIDE DEF x
<1>4. Cardinality({by} \cup {}) < Cardinality(s.members \ {target})
    <2>1. IsFiniteSet(s.members)
        BY Numbers, FS_Subset
    <2>2. Cardinality(s.members \ {target}) = Cardinality(s.members) - 1
        BY <2>1, FS_RemoveElement
    <2>3. Cardinality({by}) = 1 /\ {by} \cup {} = {by} /\ Cardinality(s.members) \in Nat
        BY <2>1, FS_Singleton, FS_CardinalityType
    <2> QED BY <2>2, <2>3
<1>5. VoteFit(x, s.members, s.host, n)
    BY <1>3, <1>4 DEF VoteFit
<1>6. /\ Fresh(s.queue, x.id, s.rps.id, s.ttt.id, s.saboteur.id)
      /\ One(x.id, s.rps.id, s.ttt.id, s.saboteur.id, s.pendingHost)
    BY <1>3 DEF Good, Fresh, One, Idle, Unique
<1>7. Good([s EXCEPT !.vote = x], n)
    BY <1>3, <1>5, <1>6, GoodVote
<1>8. PICK t : t = [s EXCEPT !.vote = x]
    OBVIOUS
<1>9. /\ t.vote = x /\ SameGroup(s, t) /\ t.queue = s.queue /\ t.score = s.score
      /\ t.rps = s.rps /\ t.ttt = s.ttt /\ t.saboteur = s.saboteur
    BY <1>2, <1>3, <1>8, SetVote
<1>10. ActiveIds(t) = {i}
    BY <1>3, <1>9 DEF ActiveIds, Idle, Unique
<1> QED BY <1>1, <1>7, <1>8, <1>9, <1>10

LEMMA StartsRps ==
    ASSUME NEW n \in Nat, NEW s, Good(s, n), Idle(s), NEW i \in 1..n, Unique(s, i),
           NEW by \in s.members, NEW target \in s.members, target # by
    PROVE  LET t == WithRps(s, i, by, target)
           IN  /\ Good(t, n) /\ ActiveIds(t) = {i}
               /\ SameGroup(s, t) /\ t.score = s.score /\ t.queue = s.queue
<1> DEFINE x == FirstRps(i, by, target)
<1>1. WithRps(s, i, by, target) = [s EXCEPT !.rps = x]
    BY DEF WithRps, FirstRps
<1>2. i \in Nat /\ by \in Device /\ target \in Device /\ s \in RoomStates
    BY Numbers
<1>3. /\ x \in RpsGames /\ x.id = i /\ x.p1 = by /\ x.p2 = target
      /\ x.phase = "pending" /\ ~x.koth /\ x.committed = {} /\ x.revealed = {}
    BY <1>2, NewRps
<1> HIDE DEF x
<1>5. RpsFit(x, s.members, s.host, n)
    BY <1>3 DEF RpsFit
<1>6. /\ Fresh(s.queue, s.vote.id, x.id, s.ttt.id, s.saboteur.id)
      /\ One(s.vote.id, x.id, s.ttt.id, s.saboteur.id, s.pendingHost)
    BY <1>3 DEF Good, Fresh, One, Idle, Unique
<1>7. Good([s EXCEPT !.rps = x], n)
    BY <1>3, <1>5, <1>6, GoodRps
<1>8. PICK t : t = [s EXCEPT !.rps = x]
    OBVIOUS
<1>9. /\ t.rps = x /\ SameGroup(s, t) /\ t.queue = s.queue /\ t.score = s.score
      /\ t.vote = s.vote /\ t.ttt = s.ttt /\ t.saboteur = s.saboteur
    BY <1>2, <1>3, <1>8, SetRps
<1>10. ActiveIds(t) = {i}
    BY <1>3, <1>9 DEF ActiveIds, Idle, Unique
<1> QED BY <1>1, <1>7, <1>8, <1>9, <1>10

LEMMA StartsKoth ==
    ASSUME NEW n \in Nat, NEW s, Good(s, n), Idle(s), NEW i \in 1..n, Unique(s, i),
           NEW by \in s.members, by # s.host, s.host # NoDevice
    PROVE  LET t == WithKoth(s, i, by)
           IN  /\ Good(t, n) /\ ActiveIds(t) = {i}
               /\ SameGroup(s, t) /\ t.score = s.score /\ t.queue = s.queue
<1> DEFINE x == FirstKoth(i, by, s.host)
<1>1. WithKoth(s, i, by) = [s EXCEPT !.rps = x]
    BY DEF WithKoth, FirstKoth
<1>2. i \in Nat /\ by \in Device /\ s.host \in s.members /\ s.host \in Device /\ s \in RoomStates
    <2>1. by \in Device /\ s.members \subseteq Device /\ s \in RoomStates
        BY Numbers
    <2>2. s.host \in s.members
        BY DEF Good, Group
    <2> QED BY <2>1, <2>2
<1>3. /\ x \in RpsGames /\ x.id = i /\ x.p1 = by /\ x.p2 = s.host
      /\ x.phase = "committing" /\ x.koth /\ x.committed = {} /\ x.revealed = {}
    BY <1>2, NewKoth
<1> HIDE DEF x
<1>5. RpsFit(x, s.members, s.host, n)
    BY <1>3, <1>2 DEF RpsFit
<1>6. /\ Fresh(s.queue, s.vote.id, x.id, s.ttt.id, s.saboteur.id)
      /\ One(s.vote.id, x.id, s.ttt.id, s.saboteur.id, s.pendingHost)
    BY <1>3 DEF Good, Fresh, One, Idle, Unique
<1>7. Good([s EXCEPT !.rps = x], n)
    BY <1>3, <1>5, <1>6, GoodRps
<1>8. PICK t : t = [s EXCEPT !.rps = x]
    OBVIOUS
<1>9. /\ t.rps = x /\ SameGroup(s, t) /\ t.queue = s.queue /\ t.score = s.score
      /\ t.vote = s.vote /\ t.ttt = s.ttt /\ t.saboteur = s.saboteur
    BY <1>2, <1>3, <1>8, SetRps
<1>10. ActiveIds(t) = {i}
    BY <1>3, <1>9 DEF ActiveIds, Idle, Unique
<1> QED BY <1>1, <1>7, <1>8, <1>9, <1>10

LEMMA StartsTtt ==
    ASSUME NEW n \in Nat, NEW s, Good(s, n), Idle(s), NEW i \in 1..n, Unique(s, i),
           NEW by \in s.members, NEW target \in s.members
    PROVE  LET t == WithTtt(s, i, by, target)
           IN  /\ Good(t, n) /\ ActiveIds(t) = {i}
               /\ SameGroup(s, t) /\ t.score = s.score /\ t.queue = s.queue
<1> DEFINE x == FirstTtt(i, by, target)
<1>1. WithTtt(s, i, by, target) = [s EXCEPT !.ttt = x]
    BY DEF WithTtt, FirstTtt
<1>2. i \in Nat /\ by \in Device /\ target \in Device /\ s \in RoomStates
    BY Numbers
<1>3. x \in TttGames /\ x.id = i /\ x.p1 = by /\ x.p2 = target
    BY <1>2, NewTtt
<1> HIDE DEF x
<1>5. TttFit(x, s.members, n)
    BY <1>3 DEF TttFit
<1>6. /\ Fresh(s.queue, s.vote.id, s.rps.id, x.id, s.saboteur.id)
      /\ One(s.vote.id, s.rps.id, x.id, s.saboteur.id, s.pendingHost)
    BY <1>3 DEF Good, Fresh, One, Idle, Unique
<1>7. Good([s EXCEPT !.ttt = x], n)
    BY <1>3, <1>5, <1>6, GoodTtt
<1>8. PICK t : t = [s EXCEPT !.ttt = x]
    OBVIOUS
<1>9. /\ t.ttt = x /\ SameGroup(s, t) /\ t.queue = s.queue /\ t.score = s.score
      /\ t.vote = s.vote /\ t.rps = s.rps /\ t.saboteur = s.saboteur
    BY <1>2, <1>3, <1>8, SetTtt
<1>10. ActiveIds(t) = {i}
    BY <1>3, <1>9 DEF ActiveIds, Idle, Unique
<1> QED BY <1>1, <1>7, <1>8, <1>9, <1>10

LEMMA StartsSaboteur ==
    ASSUME NEW n \in Nat, NEW s, Good(s, n), Idle(s), NEW i \in 1..n, Unique(s, i),
           NEW by \in s.members, Cardinality(s.members) >= 4
    PROVE  LET t == WithSaboteur(s, i, by)
           IN  /\ Good(t, n) /\ ActiveIds(t) = {i}
               /\ SameGroup(s, t) /\ t.score = s.score /\ t.queue = s.queue
<1> DEFINE x == FirstSaboteur(i, by, s.members)
<1>1. WithSaboteur(s, i, by) = [s EXCEPT !.saboteur = x]
    BY DEF WithSaboteur, FirstSaboteur
<1>2. i \in Nat /\ by \in Device /\ s.members \in SUBSET Device /\ s \in RoomStates
    BY Numbers
<1>3. /\ x \in Saboteurs /\ x.id = i /\ x.starter = by /\ x.players = s.members
      /\ x.phase = "committing" /\ x.committed = {} /\ x.revealed = {}
      /\ x.saboteur = NoDevice /\ x.accusation = NoAccusation /\ ~x.canStrike /\ x.strikes = 0
    BY <1>2, NewSaboteur
<1> HIDE DEF x
<1>5. SabFit(x, s.members, n)
    BY <1>3, Nothing DEF SabFit
<1>6. /\ Fresh(s.queue, s.vote.id, s.rps.id, s.ttt.id, x.id)
      /\ One(s.vote.id, s.rps.id, s.ttt.id, x.id, s.pendingHost)
    BY <1>3 DEF Good, Fresh, One, Idle, Unique
<1>7. Good([s EXCEPT !.saboteur = x], n)
    BY <1>3, <1>5, <1>6, GoodSaboteur
<1>8. PICK t : t = [s EXCEPT !.saboteur = x]
    OBVIOUS
<1>9. /\ t.saboteur = x /\ SameGroup(s, t) /\ t.queue = s.queue /\ t.score = s.score
      /\ t.vote = s.vote /\ t.rps = s.rps /\ t.ttt = s.ttt
    BY <1>2, <1>3, <1>8, SetSaboteur
<1>10. ActiveIds(t) = {i}
    BY <1>3, <1>9 DEF ActiveIds, Idle, Unique
<1> QED BY <1>1, <1>7, <1>8, <1>9, <1>10

(* An entry of the queue that can start.                                      *)
LEMMA BegunGood ==
    ASSUME NEW n \in Nat, NEW s, Good(s, n), Idle(s), NEW e \in Entries,
           EntryFit(e, s.members \ s.removals, n), Unique(s, e.id), Startable(s, e)
    PROVE  LET t == Begun(s, e)
           IN  /\ Good(t, n) /\ ActiveIds(t) = {e.id}
               /\ SameGroup(s, t) /\ t.score = s.score /\ t.queue = s.queue
<1>1. e.id \in 1..n /\ e.by \in s.members /\ e.target \in s.members \cup {NoDevice}
      /\ e.target # e.by /\ (e.game \in Targeted => e.target # NoDevice)
    BY DEF EntryFit
<1>2. e.game \in GameKind
    BY DEF Entries
<1>3. CASE e.game = "vote"
    <2>1. Begun(s, e) = WithVote(s, e.id, e.by, e.target)
        BY <1>3 DEF Begun
    <2>2. Cardinality(s.members) >= 3 /\ e.target # s.host
        BY <1>3 DEF Startable
    <2> QED BY <1>1, <1>3, <2>1, <2>2, StartsVote DEF Targeted
<1>4. CASE e.game = "rps"
    <2>1. Begun(s, e) = WithRps(s, e.id, e.by, e.target)
        BY <1>4 DEF Begun
    <2> QED BY <1>1, <1>4, <2>1, StartsRps DEF Targeted
<1>5. CASE e.game = "ttt"
    <2>1. Begun(s, e) = WithTtt(s, e.id, e.by, e.target)
        BY <1>5 DEF Begun
    <2> QED BY <1>1, <1>5, <2>1, StartsTtt DEF Targeted
<1>6. CASE e.game = "saboteur"
    <2>1. Begun(s, e) = WithSaboteur(s, e.id, e.by)
        BY <1>6 DEF Begun
    <2>2. Cardinality(s.members) >= 4
        BY <1>6 DEF Startable
    <2> QED BY <1>1, <1>6, <2>1, <2>2, StartsSaboteur
<1>7. CASE e.game = "koth"
    <2>1. Begun(s, e) = WithKoth(s, e.id, e.by)
        BY <1>7 DEF Begun
    <2>2. s.host # NoDevice /\ e.by # s.host
        BY <1>7 DEF Startable
    <2> QED BY <1>1, <1>7, <2>1, <2>2, StartsKoth
<1> QED BY <1>2, <1>3, <1>4, <1>5, <1>6, <1>7 DEF GameKind

-----------------------------------------------------------------------------
(* The queue drains.                                                          *)
LEMMA Least ==
    ASSUME NEW S, S \subseteq Nat, S # {}
    PROVE  (CHOOSE i \in S : \A j \in S : i <= j) \in S
<1>1. PICK i \in S : \A k \in S : <<k, i>> \notin OpToRel(<, Nat)
    BY NatLessThanWellFounded, WFMin
<1>2. \A j \in S : i <= j
    <2> TAKE j \in S
    <2>1. i \in Nat /\ j \in Nat
        OBVIOUS
    <2>2. j < i => <<j, i>> \in OpToRel(<, Nat)
        BY <2>1 DEF OpToRel
    <2>3. <<j, i>> \notin OpToRel(<, Nat)
        BY <1>1
    <2>4. ~(j < i)
        BY <2>2, <2>3
    <2> QED BY <2>1, <2>4
<1> QED BY <1>2

LEMMA PartHosted ==
    ASSUME NEW p \in Seq(Entries), NEW q \in Seq(Entries), PartOf(q, p), NEW host,
           Hosted(p, host)
    PROVE  Hosted(q, host)
BY PartIn DEF Hosted

(* What a step that only starts games leaves.                                 *)
Moved(s, t) ==
    /\ SameGroup(s, t) /\ t.score = s.score
    /\ t.queue \in Seq(Entries) /\ PartOf(t.queue, s.queue)
    /\ Follows(s, t)

LEMMA GoodPart ==
    ASSUME NEW n \in Nat, NEW s, Good(s, n), NEW q \in Seq(Entries), PartOf(q, s.queue)
    PROVE  Good([s EXCEPT !.queue = q], n)
<1>1. s.queue \in Seq(Entries)
    BY Numbers
<1>2. /\ QueueFit(s.queue, s.members \ s.removals, n)
      /\ Fresh(s.queue, s.vote.id, s.rps.id, s.ttt.id, s.saboteur.id)
    BY DEF Good
<1>3. /\ QueueFit(q, s.members \ s.removals, n)
      /\ Fresh(q, s.vote.id, s.rps.id, s.ttt.id, s.saboteur.id)
    BY <1>1, <1>2, PartFit
<1> QED BY <1>3, GoodQueue

LEMMA Stays ==
    ASSUME NEW n \in Nat, NEW s, Good(s, n)
    PROVE  Moved(s, s)
<1>1. s.queue \in Seq(Entries)
    BY Numbers
<1> QED BY <1>1, SamePart DEF Moved, SameGroup, Follows

LEMMA DrainGood ==
    ASSUME NEW n \in Nat, NEW s, Good(s, n)
    PROVE  Good(Drain(s), n) /\ Waits(Drain(s)) /\ Moved(s, Drain(s))
<1> DEFINE ready == {i \in 1..Len(s.queue) : Startable(s, s.queue[i])}
           first == CHOOSE i \in ready : \A j \in ready : i <= j
<1>1. /\ s \in RoomStates /\ s.queue \in Seq(Entries)
      /\ \A i \in 1..Len(s.queue) : s.queue[i] \in Entries /\ s.queue[i].id \in 1..n
    BY Numbers
<1>2. CASE Barred(s) \/ s.closed
    <2>1. Drain(s) = s
        BY <1>2 DEF Drain
    <2> QED BY <1>2, <2>1, Stays DEF Waits
<1>3. CASE ~(Barred(s) \/ s.closed) /\ ready = {}
    <2>1. Drain(s) = [s EXCEPT !.queue = <<>>]
        BY <1>3 DEF Drain
    <2>2. <<>> \in Seq(Entries) /\ PartOf(<<>>, s.queue)
        BY <1>1, NoPart
    <2>3. PICK t : t = [s EXCEPT !.queue = <<>>]
        OBVIOUS
    <2>4. t.queue = <<>> /\ SameGroup(s, t) /\ SameGames(s, t) /\ t.score = s.score
        BY <1>1, <2>2, <2>3, SetQueue
    <2>5. Good(t, n)
        BY <2>2, <2>3, GoodPart
    <2>6. Moved(s, t)
        BY <2>2, <2>4 DEF Moved, Follows, ActiveIds, SameGames
    <2> QED BY <2>1, <2>3, <2>4, <2>5, <2>6 DEF Waits
<1>4. CASE ~(Barred(s) \/ s.closed) /\ ready # {}
    <2>1. PICK k : k = first
        OBVIOUS
    <2>2. k \in 1..Len(s.queue) /\ Startable(s, s.queue[k])
        <3>1. ready \subseteq Nat
            OBVIOUS
        <3>2. first \in ready
            BY <1>4, <3>1, Least
        <3> QED BY <2>1, <3>2
    <2> DEFINE q == SubSeq(s.queue, k + 1, Len(s.queue))
    <2>3. Drain(s) = Begun([s EXCEPT !.queue = q], s.queue[k])
        BY <1>4, <2>1 DEF Drain
    <2>4. PICK e : e = s.queue[k]
        OBVIOUS
    <2>5. /\ q \in Seq(Entries) /\ PartOf(q, s.queue)
          /\ \A i \in 1..Len(q) : \E j \in (k + 1)..Len(s.queue) : q[i] = s.queue[j]
        BY <1>1, <2>2, SuffixPart
    <2> HIDE DEF q
    <2>6. PICK t : t = [s EXCEPT !.queue = q]
        OBVIOUS
    <2>7. t.queue = q /\ SameGroup(s, t) /\ SameGames(s, t) /\ t.score = s.score
        BY <1>1, <2>5, <2>6, SetQueue
    <2>8. Good(t, n)
        BY <2>5, <2>6, GoodPart
    <2>9. Idle(s)
        BY <1>4, IdleIs
    <2>10. Idle(t)
        BY <2>7, <2>9 DEF Idle, SameGroup, SameGames
    <2>11. e \in Entries /\ EntryFit(e, t.members \ t.removals, n)
        BY <1>1, <2>2, <2>4, <2>7 DEF Good, QueueFit, SameGroup
    <2>12. e.id \in Nat /\ e.id # 0
        BY <1>1, <2>2, <2>4
    <2>13. \A i \in 1..Len(q) : q[i].id # e.id
        <3> TAKE i \in 1..Len(q)
        <3>1. PICK j \in (k + 1)..Len(s.queue) : q[i] = s.queue[j]
            BY <2>5
        <3>2. j \in 1..Len(s.queue) /\ j # k
            BY <2>2, <3>1
        <3> QED BY <2>2, <2>4, <3>1, <3>2 DEF Good, QueueFit
    <2>14. Unique(t, e.id)
        BY <2>7, <2>12, <2>13 DEF Unique
    <2>15. Startable(t, e)
        BY <2>2, <2>4, <2>7 DEF Startable, SameGroup
    <2>16. PICK u : u = Begun(t, e)
        OBVIOUS
    <2>17. /\ Good(u, n) /\ ActiveIds(u) = {e.id}
           /\ SameGroup(t, u) /\ u.score = t.score /\ u.queue = t.queue
        BY <2>8, <2>10, <2>11, <2>14, <2>15, <2>16, BegunGood
    <2>18. Waits(u)
        BY <2>17 DEF Waits, Barred, ActiveGame
    <2>19. SameGroup(s, u)
        BY <2>7, <2>17 DEF SameGroup
    <2>20. Follows(s, u)
        BY <2>2, <2>4, <2>17 DEF Follows
    <2>21. Moved(s, u)
        BY <2>5, <2>7, <2>17, <2>19, <2>20 DEF Moved
    <2> QED BY <2>3, <2>4, <2>6, <2>16, <2>17, <2>18, <2>21
<1> QED BY <1>2, <1>3, <1>4

LEMMA DrainSound ==
    ASSUME NEW n \in Nat, NEW s, Fine(s, n)
    PROVE  Sound(Drain(s), n) /\ Moved(s, Drain(s))
<1>1. Good(s, n) /\ Hosted(s.queue, s.host) /\ s.queue \in Seq(Entries)
    BY Numbers DEF Fine
<1>2. PICK t : t = Drain(s)
    OBVIOUS
<1>3. Good(t, n) /\ Waits(t) /\ Moved(s, t)
    BY <1>1, <1>2, DrainGood
<1>4. Hosted(t.queue, t.host)
    BY <1>1, <1>3, PartHosted DEF Moved, SameGroup
<1> QED BY <1>2, <1>3, <1>4 DEF Sound, Fine

-----------------------------------------------------------------------------
(* A good room is one the snapshot check keeps.                               *)
LEMMA Pair ==
    ASSUME NEW a, NEW b, a # b
    PROVE  Cardinality({a, b}) = 2 /\ IsFiniteSet({a, b})
<1>1. IsFiniteSet({a}) /\ Cardinality({a}) = 1 /\ b \notin {a}
    BY FS_Singleton
<1>2. IsFiniteSet({a} \cup {b}) /\ Cardinality({a} \cup {b}) = Cardinality({a}) + 1
    BY <1>1, FS_AddElement
<1>3. {a} \cup {b} = {a, b}
    OBVIOUS
<1> QED BY <1>1, <1>2, <1>3

LEMMA FewerThanPair ==
    ASSUME NEW a, NEW b, a # b, NEW S \in SUBSET {a, b}, S # {a, b}
    PROVE  Cardinality(S) \in Nat /\ Cardinality(S) < 2
<1>1. IsFiniteSet({a, b}) /\ Cardinality({a, b}) = 2
    BY Pair
<1>2. IsFiniteSet(S) /\ Cardinality(S) <= 2 /\ (Cardinality(S) = 2 => S = {a, b})
    BY <1>1, FS_Subset
<1>3. Cardinality(S) \in Nat
    BY <1>2, FS_CardinalityType
<1> QED BY <1>2, <1>3

LEMMA QueueIsValid ==
    ASSUME NEW n \in Nat, NEW s, Fine(s, n)
    PROVE  QueueValid(s)
<1>1. /\ QueueFit(s.queue, s.members \ s.removals, n)
      /\ Fresh(s.queue, s.vote.id, s.rps.id, s.ttt.id, s.saboteur.id)
      /\ Hosted(s.queue, s.host)
    BY DEF Fine, Good
<1>2. \A i \in 1..Len(s.queue) : EntryValid(s, s.queue[i])
    <2> TAKE i \in 1..Len(s.queue)
    <2>1. EntryFit(s.queue[i], s.members \ s.removals, n)
        BY <1>1 DEF QueueFit
    <2>2. s.queue[i].id \notin ActiveIds(s)
        BY <1>1 DEF Fresh, ActiveIds
    <2>3. ~(s.queue[i].game = "vote" /\ s.queue[i].target = s.host)
        BY <1>1 DEF Hosted
    <2> QED BY <2>1, <2>2, <2>3 DEF EntryFit, EntryValid
<1> QED BY <1>1, <1>2 DEF QueueFit, QueueValid

LEMMA VoteIsValid ==
    ASSUME NEW n \in Nat, NEW s, Fine(s, n)
    PROVE  VoteValid(s)
<1> SUFFICES ASSUME s.vote.id # 0 PROVE VoteValid(s)
    BY DEF VoteValid
<1>1. VoteFit(s.vote, s.members, s.host, n) /\ s.members \subseteq Device /\ IsFiniteSet(s.members)
    <2>1. Good(s, n)
        BY DEF Fine
    <2>2. s.members \subseteq Device
        BY <2>1, Numbers
    <2> QED BY <2>1, <2>2, FS_Subset DEF Good
<1>2. /\ s.vote.starter \in s.members /\ s.vote.target \in s.members
      /\ s.vote.target # s.vote.starter /\ s.vote.target # s.host
      /\ s.vote.yes \subseteq s.members \ {s.vote.target}
      /\ s.vote.no \subseteq s.members \ {s.vote.target}
      /\ s.vote.starter \in s.vote.yes
      /\ Cardinality(s.vote.yes \cup s.vote.no) < Cardinality(s.members \ {s.vote.target})
    BY <1>1 DEF VoteFit
<1>3. Cardinality(s.members \ {s.vote.target}) = Cardinality(s.members) - 1
    <2>1. PICK S, x : S = s.members /\ x = s.vote.target
        OBVIOUS
    <2>2. IsFiniteSet(S) /\ x \in S
        BY <1>1, <1>2, <2>1
    <2>3. Cardinality(S \ {x}) = Cardinality(S) - 1
        BY <2>2, FS_RemoveElement
    <2> QED BY <2>1, <2>3
<1>4. Cardinality(s.vote.yes \cup s.vote.no) >= 1
    <2>1. IsFiniteSet(s.vote.yes \cup s.vote.no)
        BY <1>1, <1>2, FS_Subset
    <2>2. Cardinality(s.vote.yes \cup s.vote.no) # 0 /\ Cardinality(s.vote.yes \cup s.vote.no) \in Nat
        BY <1>2, <2>1, FS_EmptySet, FS_CardinalityType
    <2> QED BY <2>2
<1>5. Cardinality(s.members) \in Nat /\ Cardinality(s.vote.yes \cup s.vote.no) \in Nat
    BY <1>1, <1>2, FS_Subset, FS_CardinalityType
<1> QED BY <1>2, <1>3, <1>4, <1>5 DEF VoteValid

LEMMA RpsIsValid ==
    ASSUME NEW n \in Nat, NEW s, Fine(s, n)
    PROVE  RpsValid(s)
<1> SUFFICES ASSUME s.rps.id # 0 PROVE RpsValid(s)
    BY DEF RpsValid
<1>1. RpsFit(s.rps, s.members, s.host, n) /\ s.members \subseteq Device /\ s.rps \in RpsGames
    <2>1. Good(s, n)
        BY DEF Fine
    <2> QED BY <2>1, Numbers DEF Good
<1>2. PICK g : g = s.rps
    OBVIOUS
<1>3. /\ g.p1 \in s.members /\ g.p2 \in s.members /\ g.p1 # g.p2
      /\ g.committed \subseteq {g.p1, g.p2} /\ g.revealed \subseteq {g.p1, g.p2}
      /\ g.koth => g.phase # "pending" /\ g.p2 = s.host
      /\ g.phase = "pending" => g.committed = {}
      /\ g.phase # "revealing" => g.committed # {g.p1, g.p2} /\ g.revealed = {}
      /\ g.phase = "revealing" => g.committed = {g.p1, g.p2} /\ g.revealed # {g.p1, g.p2}
    BY <1>1, <1>2 DEF RpsFit
<1>4. g.phase # "revealing" => Cardinality(g.committed) < 2
    BY <1>3, FewerThanPair
<1>5. g.phase = "revealing" => Cardinality(g.committed) = 2 /\ Cardinality(g.revealed) < 2
    <2> SUFFICES ASSUME g.phase = "revealing"
                 PROVE  Cardinality(g.committed) = 2 /\ Cardinality(g.revealed) < 2
        OBVIOUS
    <2>1. Cardinality({g.p1, g.p2}) = 2
        BY <1>3, Pair
    <2>2. Cardinality(g.revealed) < 2
        BY <1>3, FewerThanPair
    <2> QED BY <1>3, <2>1, <2>2
<1>6. g.koth => s.host # NoDevice
    BY <1>1, <1>3
<1>7. g.phase = "pending" => ~g.koth /\ g.committed = {}
    BY <1>3
<1> QED BY <1>2, <1>3, <1>4, <1>5, <1>6, <1>7 DEF RpsValid

LEMMA SaboteurIsValid ==
    ASSUME NEW n \in Nat, NEW s, Fine(s, n)
    PROVE  SaboteurValid(s)
<1>1. SabFit(s.saboteur, s.members, n) /\ s.saboteur \in Saboteurs
    <2>1. Good(s, n)
        BY DEF Fine
    <2> QED BY <2>1, Numbers DEF Good
<1>2. PICK g : g = s.saboteur
    OBVIOUS
<1>3. g \in Saboteurs /\ SabFit(g, s.members, n)
    BY <1>1, <1>2
<1>4. CASE g.id = 0
    BY <1>2, <1>4 DEF SaboteurValid
<1>5. CASE g.id # 0 /\ g.phase # "playing"
    <2>1. /\ Cardinality(g.players) >= 4 /\ g.starter \in g.players
          /\ g.phase = "committing" => g.committed # g.players /\ g.revealed = {}
          /\ g.phase = "revealing" => g.committed = g.players /\ g.revealed # g.players
          /\ g.saboteur = NoDevice /\ ~g.canStrike /\ g.accusation = NoAccusation
        BY <1>3, <1>5 DEF SabFit
    <2>2. g.accusation.accuser = NoDevice
        BY <2>1, Nothing
    <2> QED BY <1>2, <1>5, <2>1, <2>2 DEF SaboteurValid
<1>6. CASE g.id # 0 /\ g.phase = "playing"
    <2>1. /\ Cardinality(g.players) >= 4 /\ g.starter \in g.players
          /\ g.committed = g.players /\ g.revealed = g.players
          /\ g.saboteur \in g.players /\ g.strikes < 3
          /\ g.accusation.accuser # NoDevice =>
              /\ ~g.canStrike
              /\ g.accusation.accuser \notin {g.accusation.suspect, g.saboteur}
              /\ g.accusation.yes \cup g.accusation.no # g.players
        BY <1>3, <1>6 DEF SabFit
    <2> QED BY <1>2, <1>6, <2>1 DEF SaboteurValid
<1> QED BY <1>4, <1>5, <1>6

LEMMA OneGame ==
    ASSUME NEW v \in Nat, NEW r \in Nat, NEW t \in Nat, NEW b \in Nat, NEW pending,
           One(v, r, t, b, pending)
    PROVE  Cardinality({i \in {v, r, t, b} : i # 0}) <= 1
<1> DEFINE S == {i \in {v, r, t, b} : i # 0}
<1>1. \E x : S \subseteq {x}
    BY DEF One
<1>2. PICK x : S \subseteq {x}
    BY <1>1
<1>3. IsFiniteSet({x}) /\ Cardinality({x}) = 1
    BY FS_Singleton
<1>4. Cardinality(S) <= Cardinality({x})
    BY <1>2, <1>3, FS_Subset
<1> QED BY <1>3, <1>4

LEMMA FineValid ==
    ASSUME NEW n \in Nat, NEW s, Fine(s, n)
    PROVE  SnapshotValid(s) /\ MatchesMembership(s)
<1>1. Good(s, n)
    BY DEF Fine
<1>2. /\ Group(s.bound, s.members, s.host, s.pendingHost, s.removals)
      /\ One(s.vote.id, s.rps.id, s.ttt.id, s.saboteur.id, s.pendingHost)
      /\ VoteFit(s.vote, s.members, s.host, n) /\ RpsFit(s.rps, s.members, s.host, n)
      /\ TttFit(s.ttt, s.members, n) /\ SabFit(s.saboteur, s.members, n)
    BY <1>1 DEF Good
<1>3. s.vote.id \in Nat /\ s.rps.id \in Nat /\ s.ttt.id \in Nat /\ s.saboteur.id \in Nat
    BY <1>1, Numbers
<1>4. Cardinality({i \in {s.vote.id, s.rps.id, s.ttt.id, s.saboteur.id} : i # 0}) <= 1
    BY <1>2, <1>3, OneGame
<1>5. s.pendingHost # NoDevice => ~ActiveGame(s)
    BY <1>2 DEF One, ActiveGame, ActiveIds
<1>6. /\ s.members \subseteq s.bound /\ {s.host, s.pendingHost} \subseteq s.members \cup {NoDevice}
      /\ s.removals \subseteq s.members \ {s.host}
      /\ s.removals # {} => s.pendingHost = NoDevice
    BY <1>2 DEF Group
<1>7. SnapshotValid(s)
    BY <1>4, <1>5, <1>6, QueueIsValid, VoteIsValid, RpsIsValid, SaboteurIsValid DEF SnapshotValid
<1>8. s.vote.id # 0 => {s.vote.starter, s.vote.target} \cup s.vote.yes \cup s.vote.no
                          \subseteq s.members
    BY <1>2 DEF VoteFit
<1>9. s.rps.id # 0 => {s.rps.p1, s.rps.p2} \subseteq s.members
    BY <1>2 DEF RpsFit
<1>10. s.ttt.id # 0 => {s.ttt.p1, s.ttt.p2} \subseteq s.members
    BY <1>2 DEF TttFit
<1>11. s.saboteur.players \subseteq s.members
    <2>1. s.saboteur.id = 0 => s.saboteur.players = {}
        BY <1>2 DEF SabFit, NoSaboteur
    <2>2. s.saboteur.id # 0 => s.saboteur.players \subseteq s.members
        BY <1>2 DEF SabFit
    <2> QED BY <2>1, <2>2
<1> QED BY <1>7, <1>8, <1>9, <1>10, <1>11 DEF MatchesMembership

LEMMA ConsumeGood ==
    ASSUME NEW n \in Nat, NEW s, Good(s, n), NEW game, NEW by, NEW target
    PROVE  LET t == ConsumeQueued(s, game, by, target)
           IN  /\ Good(t, n) /\ SameGroup(s, t) /\ SameGames(s, t) /\ t.score = s.score
               /\ t.queue \in Seq(Entries) /\ PartOf(t.queue, s.queue)
<1> DEFINE asked == {i \in 1..Len(s.queue) : /\ s.queue[i].game = game
                                             /\ s.queue[i].by = by /\ s.queue[i].target = target}
           first == CHOOSE i \in asked : \A j \in asked : i <= j
<1>1. s \in RoomStates /\ s.queue \in Seq(Entries)
    BY Numbers
<1>2. CASE asked = {}
    <2>1. ConsumeQueued(s, game, by, target) = s
        BY <1>2 DEF ConsumeQueued
    <2> QED BY <1>1, <2>1, SamePart DEF SameGroup, SameGames
<1>3. CASE asked # {}
    <2>1. PICK k : k = first
        OBVIOUS
    <2>2. k \in 1..Len(s.queue)
        <3>1. asked \subseteq Nat
            OBVIOUS
        <3>2. first \in asked
            BY <1>3, <3>1, Least
        <3> QED BY <2>1, <3>2
    <2>3. PICK q : q = SubSeq(s.queue, 1, k - 1) \o SubSeq(s.queue, k + 1, Len(s.queue))
        OBVIOUS
    <2>4. ConsumeQueued(s, game, by, target) = [s EXCEPT !.queue = q]
        BY <1>3, <2>1, <2>3 DEF ConsumeQueued
    <2>5. q \in Seq(Entries) /\ PartOf(q, s.queue)
        BY <1>1, <2>2, <2>3, WithoutPart
    <2> QED BY <1>1, <2>4, <2>5, GoodPart, SetQueue
<1> QED BY <1>2, <1>3

-----------------------------------------------------------------------------
(* What a step may do to the room: no member is marked, and points are given  *)
(* once, for a game that ends.                                                *)
Paid(s, t) ==
    \A d \in Device : t.score[d] > s.score[d] =>
        /\ d \in s.members /\ t.score[d] = s.score[d] + 1
        /\ ActiveIds(s) \ ActiveIds(t) # {}
        /\ s.saboteur.id = 0 => \A e \in Device : t.score[e] > s.score[e] => e = d

Steps(s, t, n) == Sound(t, n) /\ Paid(s, t) /\ t.removals \subseteq s.removals

LEMMA PaidNone ==
    ASSUME NEW s \in RoomStates, NEW t, t.score = s.score
    PROVE  Paid(s, t)
<1>1. \A d \in Device : s.score[d] \in Int
    BY DEF RoomStates
<1> QED BY <1>1 DEF Paid

(* The points a game pays, before the next one is taken off the queue.        *)
Pays(s, u, S) ==
    /\ \A d \in Device : u.score[d] > s.score[d] => d \in S /\ u.score[d] = s.score[d] + 1
    /\ S \subseteq s.members
    /\ s.saboteur.id = 0 => \E x : S \subseteq {x}

LEMMA PaidOver ==
    ASSUME NEW n \in Nat, NEW s, Good(s, n), NEW u, NEW t,
           u.queue \in Seq(Entries), PartOf(u.queue, s.queue), Moved(u, t),
           NEW g \in ActiveIds(s), ActiveIds(u) \subseteq ActiveIds(s) \ {g},
           NEW S, Pays(s, u, S)
    PROVE  Paid(s, t)
<1>1. g \notin ActiveIds(t)
    <2> SUFFICES ASSUME g \in ActiveIds(t) PROVE FALSE
        OBVIOUS
    <2>1. PICK k \in 1..Len(u.queue) : u.queue[k].id = g
        BY DEF Moved, Follows
    <2>2. PICK j \in 1..Len(s.queue) : u.queue[k] = s.queue[j]
        <3>1. PICK p, q : p = s.queue /\ q = u.queue
            OBVIOUS
        <3>2. p \in Seq(Entries) /\ q \in Seq(Entries) /\ PartOf(q, p) /\ k \in 1..Len(q)
            BY <3>1, Numbers
        <3>3. \E j \in 1..Len(p) : q[k] = p[j]
            BY <3>2, PartIn
        <3> QED BY <3>1, <3>3
    <2>3. s.queue[j].id \notin ActiveIds(s)
        BY DEF Good, Fresh, ActiveIds
    <2> QED BY <2>1, <2>2, <2>3
<1>2. t.score = u.score
    BY DEF Moved
<1> QED BY <1>1, <1>2 DEF Paid, Pays

LEMMA Ends ==
    ASSUME NEW n \in Nat, NEW s, Good(s, n), NEW u, Fine(u, n),
           u.queue = s.queue, u.removals \subseteq s.removals,
           NEW g \in ActiveIds(s), ActiveIds(u) \subseteq ActiveIds(s) \ {g},
           NEW S, Pays(s, u, S)
    PROVE  Steps(s, Drain(u), n) /\ Moved(u, Drain(u))
<1>1. PICK t : t = Drain(u)
    OBVIOUS
<1>2. Sound(t, n) /\ Moved(u, t)
    BY <1>1, DrainSound
<1>3. s.queue \in Seq(Entries) /\ PartOf(u.queue, s.queue)
    BY Numbers, SamePart
<1>4. Paid(s, t)
    BY <1>2, <1>3, PaidOver
<1>5. t.removals \subseteq s.removals
    BY <1>2 DEF Moved, SameGroup
<1> QED BY <1>1, <1>2, <1>4, <1>5 DEF Steps

(* A room in which one game is over.                                          *)
Over(s, u, n, S) ==
    /\ Fine(u, n) /\ SameGroup(s, u) /\ u.queue = s.queue /\ ActiveIds(u) = {}
    /\ \A d \in Device : u.score[d] = IF d \in S THEN s.score[d] + 1 ELSE s.score[d]

LEMMA OverNoPay ==
    ASSUME NEW s \in RoomStates, NEW u, NEW n,
           Fine(u, n), SameGroup(s, u), u.queue = s.queue, ActiveIds(u) = {}, u.score = s.score
    PROVE  Over(s, u, n, {})
BY DEF Over

LEMMA EndsVote ==
    ASSUME NEW n \in Nat, NEW s, Fine(s, n), s.vote.id # 0, NEW S
    PROVE  /\ Over(s, [s EXCEPT !.vote = NoVote], n, {})
           /\ Over(s, [Bump(s, S) EXCEPT !.vote = NoVote], n, S)
<1>1. Good(s, n) /\ s \in RoomStates
    BY Numbers DEF Fine
<1>2. PICK b : b = Bump(s, S)
    OBVIOUS
<1>3. /\ Good(b, n) /\ b \in RoomStates /\ SameGroup(s, b) /\ SameGames(s, b)
      /\ b.queue = s.queue
      /\ \A d \in Device : b.score[d] = IF d \in S THEN s.score[d] + 1 ELSE s.score[d]
    BY <1>1, <1>2, BumpGood, BumpFields
<1>4. PICK t, u : t = [s EXCEPT !.vote = NoVote] /\ u = [b EXCEPT !.vote = NoVote]
    OBVIOUS
<1>5. Good(t, n) /\ Good(u, n)
    BY <1>1, <1>3, <1>4, GamesEnd
<1>6. /\ t.vote = NoVote /\ SameGroup(s, t) /\ t.queue = s.queue /\ t.score = s.score
      /\ t.rps = s.rps /\ t.ttt = s.ttt /\ t.saboteur = s.saboteur
    BY <1>1, <1>4, Nothing, SetVote
<1>7. /\ u.vote = NoVote /\ SameGroup(b, u) /\ u.queue = b.queue /\ u.score = b.score
      /\ u.rps = b.rps /\ u.ttt = b.ttt /\ u.saboteur = b.saboteur
    BY <1>3, <1>4, Nothing, SetVote
<1>8. s.rps.id = 0 /\ s.ttt.id = 0 /\ s.saboteur.id = 0
    BY <1>1 DEF Good, One
<1>9. ActiveIds(t) = {} /\ ActiveIds(u) = {}
    BY <1>3, <1>6, <1>7, <1>8, Nothing DEF ActiveIds, SameGames
<1>10. Fine(t, n) /\ Fine(u, n) /\ SameGroup(s, u)
    BY <1>3, <1>5, <1>6, <1>7 DEF Fine, SameGroup
<1>11. Over(s, t, n, {})
    BY <1>1, <1>6, <1>9, <1>10, OverNoPay
<1>12. Over(s, u, n, S)
    BY <1>3, <1>7, <1>9, <1>10 DEF Over
<1> QED BY <1>2, <1>4, <1>11, <1>12

LEMMA EndsRps ==
    ASSUME NEW n \in Nat, NEW s, Fine(s, n), s.rps.id # 0, NEW S
    PROVE  /\ Over(s, [s EXCEPT !.rps = NoRps], n, {})
           /\ Over(s, [Bump(s, S) EXCEPT !.rps = NoRps], n, S)
<1>1. Good(s, n) /\ s \in RoomStates
    BY Numbers DEF Fine
<1>2. PICK b : b = Bump(s, S)
    OBVIOUS
<1>3. /\ Good(b, n) /\ b \in RoomStates /\ SameGroup(s, b) /\ SameGames(s, b)
      /\ b.queue = s.queue
      /\ \A d \in Device : b.score[d] = IF d \in S THEN s.score[d] + 1 ELSE s.score[d]
    BY <1>1, <1>2, BumpGood, BumpFields
<1>4. PICK t, u : t = [s EXCEPT !.rps = NoRps] /\ u = [b EXCEPT !.rps = NoRps]
    OBVIOUS
<1>5. Good(t, n) /\ Good(u, n)
    BY <1>1, <1>3, <1>4, GamesEnd
<1>6. /\ t.rps = NoRps /\ SameGroup(s, t) /\ t.queue = s.queue /\ t.score = s.score
      /\ t.vote = s.vote /\ t.ttt = s.ttt /\ t.saboteur = s.saboteur
    BY <1>1, <1>4, Nothing, SetRps
<1>7. /\ u.rps = NoRps /\ SameGroup(b, u) /\ u.queue = b.queue /\ u.score = b.score
      /\ u.vote = b.vote /\ u.ttt = b.ttt /\ u.saboteur = b.saboteur
    BY <1>3, <1>4, Nothing, SetRps
<1>8. s.vote.id = 0 /\ s.ttt.id = 0 /\ s.saboteur.id = 0
    BY <1>1 DEF Good, One
<1>9. ActiveIds(t) = {} /\ ActiveIds(u) = {}
    BY <1>3, <1>6, <1>7, <1>8, Nothing DEF ActiveIds, SameGames
<1>10. Fine(t, n) /\ Fine(u, n) /\ SameGroup(s, u)
    BY <1>3, <1>5, <1>6, <1>7 DEF Fine, SameGroup
<1>11. Over(s, t, n, {})
    BY <1>1, <1>6, <1>9, <1>10, OverNoPay
<1>12. Over(s, u, n, S)
    BY <1>3, <1>7, <1>9, <1>10 DEF Over
<1> QED BY <1>2, <1>4, <1>11, <1>12

LEMMA EndsTtt ==
    ASSUME NEW n \in Nat, NEW s, Fine(s, n), s.ttt.id # 0, NEW S
    PROVE  /\ Over(s, [s EXCEPT !.ttt = NoTtt], n, {})
           /\ Over(s, [Bump(s, S) EXCEPT !.ttt = NoTtt], n, S)
<1>1. Good(s, n) /\ s \in RoomStates
    BY Numbers DEF Fine
<1>2. PICK b : b = Bump(s, S)
    OBVIOUS
<1>3. /\ Good(b, n) /\ b \in RoomStates /\ SameGroup(s, b) /\ SameGames(s, b)
      /\ b.queue = s.queue
      /\ \A d \in Device : b.score[d] = IF d \in S THEN s.score[d] + 1 ELSE s.score[d]
    BY <1>1, <1>2, BumpGood, BumpFields
<1>4. PICK t, u : t = [s EXCEPT !.ttt = NoTtt] /\ u = [b EXCEPT !.ttt = NoTtt]
    OBVIOUS
<1>5. Good(t, n) /\ Good(u, n)
    BY <1>1, <1>3, <1>4, GamesEnd
<1>6. /\ t.ttt = NoTtt /\ SameGroup(s, t) /\ t.queue = s.queue /\ t.score = s.score
      /\ t.vote = s.vote /\ t.rps = s.rps /\ t.saboteur = s.saboteur
    BY <1>1, <1>4, Nothing, SetTtt
<1>7. /\ u.ttt = NoTtt /\ SameGroup(b, u) /\ u.queue = b.queue /\ u.score = b.score
      /\ u.vote = b.vote /\ u.rps = b.rps /\ u.saboteur = b.saboteur
    BY <1>3, <1>4, Nothing, SetTtt
<1>8. s.vote.id = 0 /\ s.rps.id = 0 /\ s.saboteur.id = 0
    BY <1>1 DEF Good, One
<1>9. ActiveIds(t) = {} /\ ActiveIds(u) = {}
    BY <1>3, <1>6, <1>7, <1>8, Nothing DEF ActiveIds, SameGames
<1>10. Fine(t, n) /\ Fine(u, n) /\ SameGroup(s, u)
    BY <1>3, <1>5, <1>6, <1>7 DEF Fine, SameGroup
<1>11. Over(s, t, n, {})
    BY <1>1, <1>6, <1>9, <1>10, OverNoPay
<1>12. Over(s, u, n, S)
    BY <1>3, <1>7, <1>9, <1>10 DEF Over
<1> QED BY <1>2, <1>4, <1>11, <1>12

LEMMA EndsSaboteur ==
    ASSUME NEW n \in Nat, NEW s, Fine(s, n), s.saboteur.id # 0, NEW S
    PROVE  /\ Over(s, [s EXCEPT !.saboteur = NoSaboteur], n, {})
           /\ Over(s, [Bump(s, S) EXCEPT !.saboteur = NoSaboteur], n, S)
<1>1. Good(s, n) /\ s \in RoomStates
    BY Numbers DEF Fine
<1>2. PICK b : b = Bump(s, S)
    OBVIOUS
<1>3. /\ Good(b, n) /\ b \in RoomStates /\ SameGroup(s, b) /\ SameGames(s, b)
      /\ b.queue = s.queue
      /\ \A d \in Device : b.score[d] = IF d \in S THEN s.score[d] + 1 ELSE s.score[d]
    BY <1>1, <1>2, BumpGood, BumpFields
<1>4. PICK t, u : t = [s EXCEPT !.saboteur = NoSaboteur] /\ u = [b EXCEPT !.saboteur = NoSaboteur]
    OBVIOUS
<1>5. Good(t, n) /\ Good(u, n)
    BY <1>1, <1>3, <1>4, GamesEnd
<1>6. /\ t.saboteur = NoSaboteur /\ SameGroup(s, t) /\ t.queue = s.queue /\ t.score = s.score
      /\ t.vote = s.vote /\ t.ttt = s.ttt /\ t.rps = s.rps
    BY <1>1, <1>4, Nothing, SetSaboteur
<1>7. /\ u.saboteur = NoSaboteur /\ SameGroup(b, u) /\ u.queue = b.queue /\ u.score = b.score
      /\ u.vote = b.vote /\ u.ttt = b.ttt /\ u.rps = b.rps
    BY <1>3, <1>4, Nothing, SetSaboteur
<1>8. s.vote.id = 0 /\ s.ttt.id = 0 /\ s.rps.id = 0
    BY <1>1 DEF Good, One
<1>9. ActiveIds(t) = {} /\ ActiveIds(u) = {}
    BY <1>3, <1>6, <1>7, <1>8, Nothing DEF ActiveIds, SameGames
<1>10. Fine(t, n) /\ Fine(u, n) /\ SameGroup(s, u)
    BY <1>3, <1>5, <1>6, <1>7 DEF Fine, SameGroup
<1>11. Over(s, t, n, {})
    BY <1>1, <1>6, <1>9, <1>10, OverNoPay
<1>12. Over(s, u, n, S)
    BY <1>3, <1>7, <1>9, <1>10 DEF Over
<1> QED BY <1>2, <1>4, <1>11, <1>12

(* The next game is taken off the queue, and the points are those of S.       *)
LEMMA OverSteps ==
    ASSUME NEW n \in Nat, NEW s, Good(s, n), ActiveIds(s) # {}, NEW u, NEW S, Over(s, u, n, S),
           S \subseteq s.members, s.saboteur.id = 0 => \E x : S \subseteq {x}
    PROVE  Steps(s, Drain(u), n) /\ Moved(u, Drain(u))
<1>1. PICK g \in ActiveIds(s) : TRUE
    OBVIOUS
<1>2. \A d \in Device : s.score[d] \in Int
    BY Numbers
<1>3. Pays(s, u, S)
    BY <1>2 DEF Over, Pays
<1>4. /\ Fine(u, n) /\ u.queue = s.queue /\ u.removals \subseteq s.removals
      /\ ActiveIds(u) \subseteq ActiveIds(s) \ {g}
    BY DEF Over, SameGroup
<1> QED BY <1>1, <1>3, <1>4, Ends

-----------------------------------------------------------------------------
(* What holds of the room between two events, and what an event may do.       *)
RoomInv == ids \in Nat /\ Sound(room, ids) /\ RefusedForCause

PaidStep ==
    \A d \in Device : room'.score[d] > room.score[d] =>
        /\ d \in room.members /\ room'.score[d] = room.score[d] + 1
        /\ Ended # {}
        /\ room.saboteur.id = 0 =>
             \A e \in Device : room'.score[e] > room.score[e] => e = d

RemovedStep ==
    \A d \in room'.removals \ room.removals :
        \/ Leave(d)
        \/ /\ d = room.vote.target /\ d # room.host
           /\ \/ Majority(room.vote.yes \cap room'.members, d)
              \/ \E e \in Device : CastVote(e, TRUE) /\ Majority(room.vote.yes \cup {e}, d)

StepOk == RoomInv' /\ PaidStep /\ RemovedStep

LEMMA StepSteps ==
    ASSUME RoomInv, NEW n \in Nat, NEW t, Steps(room, t, n),
           room' = t, refused' = FALSE, ids' = n
    PROVE  StepOk
<1>1. RoomInv'
    BY DEF RoomInv, RefusedForCause, Steps
<1>2. PaidStep
    BY DEF PaidStep, Steps, Paid, Ended, ActiveIds
<1>3. RemovedStep
    BY DEF RemovedStep, Steps
<1> QED BY <1>1, <1>2, <1>3 DEF StepOk

LEMMA KeptSteps ==
    ASSUME RoomInv, NEW t, Steps(room, t, ids), Kept(t)
    PROVE  StepOk
<1>1. SnapshotValid(t)
    BY FineValid DEF Steps, Sound, RoomInv
<1>2. room' = t /\ refused' = FALSE /\ ids' = ids
    BY <1>1 DEF Kept, Finalize
<1>3. ids \in Nat
    BY DEF RoomInv
<1> QED BY <1>2, <1>3, StepSteps

LEMMA NamedSteps ==
    ASSUME RoomInv, NEW t, Steps(room, t, ids + 1), Named(t)
    PROVE  StepOk
<1>1. ids \in Nat /\ ids + 1 \in Nat
    BY DEF RoomInv
<1>2. SnapshotValid(t)
    BY <1>1, FineValid DEF Steps, Sound
<1>3. room' = t /\ refused' = FALSE /\ ids' = ids + 1
    BY <1>2 DEF Named, Finalize
<1> QED BY <1>1, <1>3, StepSteps

(* An event that is refused, and may be.                                      *)
Cause(s) ==
    \/ s.pendingHost # NoDevice
       /\ \E i \in 1..Len(s.queue) : s.queue[i].game = "vote" /\ s.queue[i].target = s.pendingHost
    \/ s.rps.koth /\ s.removals # {}

LEMMA RefusedSteps ==
    ASSUME RoomInv, NEW t, Cause(room), ~SnapshotValid(t), Kept(t)
    PROVE  StepOk
<1>1. room' = room /\ ids' = ids
    BY DEF Kept, Finalize
<1>2. RefusedForCause'
    BY <1>1 DEF Cause, RefusedForCause, VoteQueuedAgainst
<1>3. RoomInv'
    BY <1>1, <1>2 DEF RoomInv
<1>4. PaidStep
    <2>1. \A d \in Device : room.score[d] \in Int
        BY Numbers DEF RoomInv, Sound, Fine
    <2> QED BY <1>1, <2>1 DEF PaidStep
<1>5. RemovedStep
    BY <1>1 DEF RemovedStep
<1> QED BY <1>3, <1>4, <1>5 DEF StepOk

(* A game goes on.                                                            *)
OnlyRps(s, t) ==
    /\ t \in RoomStates /\ SameGroup(s, t) /\ t.queue = s.queue /\ t.score = s.score
    /\ t.vote = s.vote /\ t.ttt = s.ttt /\ t.saboteur = s.saboteur
OnlyTtt(s, t) ==
    /\ t \in RoomStates /\ SameGroup(s, t) /\ t.queue = s.queue /\ t.score = s.score
    /\ t.vote = s.vote /\ t.rps = s.rps /\ t.saboteur = s.saboteur
OnlySaboteur(s, t) ==
    /\ t \in RoomStates /\ SameGroup(s, t) /\ t.queue = s.queue /\ t.score = s.score
    /\ t.vote = s.vote /\ t.rps = s.rps /\ t.ttt = s.ttt
OnlyVote(s, t) ==
    /\ t \in RoomStates /\ SameGroup(s, t) /\ t.queue = s.queue /\ t.score = s.score
    /\ t.rps = s.rps /\ t.ttt = s.ttt /\ t.saboteur = s.saboteur

LEMMA GoesOn ==
    ASSUME NEW n \in Nat, NEW s, Sound(s, n), NEW t, Good(t, n),
           SameGroup(s, t), t.queue = s.queue, t.score = s.score, ActiveIds(t) = ActiveIds(s)
    PROVE  Steps(s, t, n)
<1>1. Fine(t, n)
    BY DEF Sound, Fine, SameGroup
<1>2. Waits(t)
    BY DEF Sound, Waits, Barred, ActiveGame, SameGroup
<1>3. s \in RoomStates
    BY Numbers DEF Sound, Fine
<1>4. Paid(s, t)
    BY <1>3, PaidNone
<1>5. t.removals \subseteq s.removals
    BY DEF SameGroup
<1> QED BY <1>1, <1>2, <1>4, <1>5 DEF Steps, Sound

LEMMA RpsSteps ==
    ASSUME NEW n \in Nat, NEW s, Sound(s, n), NEW t, OnlyRps(s, t), t.rps.id = s.rps.id,
           RpsFit(t.rps, s.members, s.host, n)
    PROVE  Steps(s, t, n)
<1>1. Good(s, n)
    BY DEF Sound, Fine
<1>2. Good(t, n)
    BY <1>1 DEF Good, OnlyRps, SameGroup
<1>3. ActiveIds(t) = ActiveIds(s)
    BY DEF OnlyRps, ActiveIds
<1> QED BY <1>2, <1>3, GoesOn DEF OnlyRps

LEMMA TttSteps ==
    ASSUME NEW n \in Nat, NEW s, Sound(s, n), NEW t, OnlyTtt(s, t), t.ttt.id = s.ttt.id,
           TttFit(t.ttt, s.members, n)
    PROVE  Steps(s, t, n)
<1>1. Good(s, n)
    BY DEF Sound, Fine
<1>2. Good(t, n)
    BY <1>1 DEF Good, OnlyTtt, SameGroup
<1>3. ActiveIds(t) = ActiveIds(s)
    BY DEF OnlyTtt, ActiveIds
<1> QED BY <1>2, <1>3, GoesOn DEF OnlyTtt

LEMMA SaboteurSteps ==
    ASSUME NEW n \in Nat, NEW s, Sound(s, n), NEW t, OnlySaboteur(s, t),
           t.saboteur.id = s.saboteur.id, SabFit(t.saboteur, s.members, n)
    PROVE  Steps(s, t, n)
<1>1. Good(s, n)
    BY DEF Sound, Fine
<1>2. Good(t, n)
    BY <1>1 DEF Good, OnlySaboteur, SameGroup
<1>3. ActiveIds(t) = ActiveIds(s)
    BY DEF OnlySaboteur, ActiveIds
<1> QED BY <1>2, <1>3, GoesOn DEF OnlySaboteur

LEMMA VoteSteps ==
    ASSUME NEW n \in Nat, NEW s, Sound(s, n), NEW t, OnlyVote(s, t), t.vote.id = s.vote.id,
           VoteFit(t.vote, s.members, s.host, n)
    PROVE  Steps(s, t, n)
<1>1. Good(s, n)
    BY DEF Sound, Fine
<1>2. Good(t, n)
    BY <1>1 DEF Good, OnlyVote, SameGroup
<1>3. ActiveIds(t) = ActiveIds(s)
    BY DEF OnlyVote, ActiveIds
<1> QED BY <1>2, <1>3, GoesOn DEF OnlyVote

-----------------------------------------------------------------------------
(* The two games of two players.                                              *)
LEMMA Now ==
    ASSUME RoomInv
    PROVE  /\ ids \in Nat /\ Sound(room, ids) /\ Fine(room, ids) /\ Good(room, ids)
           /\ room \in RoomStates /\ room.vote \in Votes /\ room.rps \in RpsGames
           /\ room.ttt \in TttGames /\ room.saboteur \in Saboteurs
           /\ room.members \subseteq Device
           /\ VoteFit(room.vote, room.members, room.host, ids)
           /\ RpsFit(room.rps, room.members, room.host, ids)
           /\ TttFit(room.ttt, room.members, ids)
           /\ SabFit(room.saboteur, room.members, ids)
<1>1. ids \in Nat /\ Sound(room, ids) /\ Fine(room, ids) /\ Good(room, ids)
    BY DEF RoomInv, Sound, Fine
<1>2. /\ VoteFit(room.vote, room.members, room.host, ids)
      /\ RpsFit(room.rps, room.members, room.host, ids)
      /\ TttFit(room.ttt, room.members, ids)
      /\ SabFit(room.saboteur, room.members, ids)
    BY <1>1 DEF Good
<1> QED BY <1>1, <1>2, Numbers

LEMMA AcceptGameOk ==
    ASSUME RoomInv, NEW d \in Device, AcceptGame(d)
    PROVE  StepOk
<1>1. CASE /\ room.rps.id # 0 /\ room.rps.phase = "pending" /\ d = room.rps.p2
           /\ Kept([room EXCEPT !.rps.phase = "committing"])
    <2>1. PICK t : t = [room EXCEPT !.rps.phase = "committing"]
        OBVIOUS
    <2>2. OnlyRps(room, t)
        BY <2>1, Now DEF OnlyRps, RoomStates, SameGroup, RpsGames
    <2>3. /\ t.rps.id = room.rps.id /\ t.rps.p1 = room.rps.p1 /\ t.rps.p2 = room.rps.p2
          /\ t.rps.phase = "committing" /\ t.rps.koth = room.rps.koth
          /\ t.rps.committed = room.rps.committed /\ t.rps.revealed = room.rps.revealed
        BY <2>1, Now DEF RoomStates, RpsGames
    <2>4. RpsFit(t.rps, room.members, room.host, ids)
        BY <1>1, <2>3, Now DEF RpsFit
    <2>5. Steps(room, t, ids)
        BY <2>2, <2>3, <2>4, Now, RpsSteps
    <2> QED BY <1>1, <2>1, <2>5, KeptSteps
<1>2. CASE /\ room.ttt.id # 0 /\ room.ttt.phase = "pending" /\ d = room.ttt.p2
           /\ Kept([room EXCEPT !.ttt.phase = "playing"])
    <2>1. PICK t : t = [room EXCEPT !.ttt.phase = "playing"]
        OBVIOUS
    <2>2. OnlyTtt(room, t)
        BY <2>1, Now DEF OnlyTtt, RoomStates, SameGroup, TttGames
    <2>3. t.ttt.id = room.ttt.id /\ t.ttt.p1 = room.ttt.p1 /\ t.ttt.p2 = room.ttt.p2
        BY <2>1, Now DEF RoomStates, TttGames
    <2>4. TttFit(t.ttt, room.members, ids)
        BY <1>2, <2>3, Now DEF TttFit
    <2>5. Steps(room, t, ids)
        BY <2>2, <2>3, <2>4, Now, TttSteps
    <2> QED BY <1>2, <2>1, <2>5, KeptSteps
<1> QED BY <1>1, <1>2 DEF AcceptGame

LEMMA CommitPickOk ==
    ASSUME RoomInv, NEW d \in Device, CommitPick(d)
    PROVE  StepOk
<1>1. PICK C : C = room.rps.committed \cup {d}
    OBVIOUS
<1>2. PICK t : t = [room EXCEPT !.rps.committed = C,
                                !.rps.phase = IF Cardinality(C) = 2 THEN "revealing" ELSE @]
    OBVIOUS
<1>3. /\ room.rps.id # 0 /\ room.rps.phase = "committing"
      /\ d \in {room.rps.p1, room.rps.p2} \ room.rps.committed
      /\ Kept(t)
    BY <1>1, <1>2 DEF CommitPick, Players
<1>4. C \in SUBSET Device
    BY <1>1, Now DEF RpsGames
<1>5. OnlyRps(room, t)
    BY <1>2, <1>4, Now DEF OnlyRps, RoomStates, SameGroup, RpsGames
<1>6. /\ t.rps.id = room.rps.id /\ t.rps.p1 = room.rps.p1 /\ t.rps.p2 = room.rps.p2
      /\ t.rps.koth = room.rps.koth
      /\ t.rps.committed = C /\ t.rps.revealed = room.rps.revealed
      /\ t.rps.phase = IF Cardinality(C) = 2 THEN "revealing" ELSE "committing"
    BY <1>2, <1>3, <1>4, Now DEF RoomStates, RpsGames
<1>7. RpsFit(t.rps, room.members, room.host, ids)
    <2>1. /\ room.rps.id <= ids /\ room.rps.p1 \in room.members /\ room.rps.p2 \in room.members
          /\ room.rps.p1 # room.rps.p2 /\ (room.rps.koth => room.rps.p2 = room.host)
          /\ room.rps.committed \subseteq {room.rps.p1, room.rps.p2} /\ room.rps.revealed = {}
        BY <1>3, Now DEF RpsFit
    <2>2. C \subseteq {room.rps.p1, room.rps.p2}
        BY <1>1, <1>3, <2>1
    <2>3. Cardinality(C) = 2 <=> C = {room.rps.p1, room.rps.p2}
        <3>1. PICK a, b : a = room.rps.p1 /\ b = room.rps.p2
            OBVIOUS
        <3>2. a # b /\ C \in SUBSET {a, b}
            BY <2>1, <2>2, <3>1
        <3>3. Cardinality({a, b}) = 2
            BY <3>2, Pair
        <3>4. C # {a, b} => Cardinality(C) < 2 /\ Cardinality(C) \in Nat
            BY <3>2, FewerThanPair
        <3> QED BY <3>1, <3>3, <3>4
    <2> QED BY <1>3, <1>6, <2>1, <2>2, <2>3 DEF RpsFit
<1>8. Steps(room, t, ids)
    BY <1>5, <1>6, <1>7, Now, RpsSteps
<1> QED BY <1>3, <1>8, KeptSteps

LEMMA RpsStops ==
    ASSUME RoomInv, room.rps.id # 0
    PROVE  Steps(room, Drain([room EXCEPT !.rps = NoRps]), ids)
<1>1. ActiveIds(room) # {} /\ {} \subseteq room.members /\ \E x : {} \subseteq {x}
    BY DEF ActiveIds
<1>2. PICK t : t = [room EXCEPT !.rps = NoRps]
    OBVIOUS
<1>3. Over(room, t, ids, {})
    BY <1>2, Now, EndsRps
<1> QED BY <1>1, <1>2, <1>3, Now, OverSteps

LEMMA RpsEnds ==
    ASSUME RoomInv, room.rps.id # 0, NEW S, S \subseteq room.members, \E x : S \subseteq {x}
    PROVE  Steps(room, Drain([Bump(room, S) EXCEPT !.rps = NoRps]), ids)
<1>1. ActiveIds(room) # {}
    BY DEF ActiveIds
<1>2. PICK u : u = [Bump(room, S) EXCEPT !.rps = NoRps]
    OBVIOUS
<1>3. Over(room, u, ids, S)
    BY <1>2, Now, EndsRps
<1> QED BY <1>1, <1>2, <1>3, Now, OverSteps

LEMMA TttStops ==
    ASSUME RoomInv, room.ttt.id # 0
    PROVE  Steps(room, Drain([room EXCEPT !.ttt = NoTtt]), ids)
<1>1. ActiveIds(room) # {} /\ {} \subseteq room.members /\ \E x : {} \subseteq {x}
    BY DEF ActiveIds
<1>2. PICK t : t = [room EXCEPT !.ttt = NoTtt]
    OBVIOUS
<1>3. Over(room, t, ids, {})
    BY <1>2, Now, EndsTtt
<1> QED BY <1>1, <1>2, <1>3, Now, OverSteps

LEMMA TttEnds ==
    ASSUME RoomInv, room.ttt.id # 0, NEW S, S \subseteq room.members, \E x : S \subseteq {x}
    PROVE  Steps(room, Drain([Bump(room, S) EXCEPT !.ttt = NoTtt]), ids)
<1>1. ActiveIds(room) # {}
    BY DEF ActiveIds
<1>2. PICK u : u = [Bump(room, S) EXCEPT !.ttt = NoTtt]
    OBVIOUS
<1>3. Over(room, u, ids, S)
    BY <1>2, Now, EndsTtt
<1> QED BY <1>1, <1>2, <1>3, Now, OverSteps

LEMMA CancelGameOk ==
    ASSUME RoomInv, NEW d \in Device, CancelGame(d)
    PROVE  StepOk
<1>2. CASE room.rps.id # 0 /\ Kept(Drain([room EXCEPT !.rps = NoRps]))
    <2>1. PICK t : t = Drain([room EXCEPT !.rps = NoRps])
        OBVIOUS
    <2>2. Steps(room, t, ids)
        BY <1>2, <2>1, RpsStops
    <2> QED BY <1>2, <2>1, <2>2, KeptSteps
<1>3. CASE room.ttt.id # 0 /\ Kept(Drain([room EXCEPT !.ttt = NoTtt]))
    <2>1. PICK t : t = Drain([room EXCEPT !.ttt = NoTtt])
        OBVIOUS
    <2>2. Steps(room, t, ids)
        BY <1>3, <2>1, TttStops
    <2> QED BY <1>3, <2>1, <2>2, KeptSteps
<1> QED BY <1>2, <1>3 DEF CancelGame

(* A challenger that wins the hill is offered the room, unless a member is    *)
(* leaving it: the snapshot check refuses that win.                           *)
LEMMA RpsWonOk ==
    ASSUME RoomInv, room.rps.id # 0, NEW winner \in Players(room.rps), Kept(RpsWon(room, winner))
    PROVE  StepOk
<1>1. winner \in room.members /\ room.rps.p1 \in room.members /\ winner \in Device
    BY Now DEF RpsFit, Players
<1>2. {winner} \subseteq room.members /\ \E x : {winner} \subseteq {x}
    BY <1>1
<1>3. PICK u : u = [Bump(room, {winner}) EXCEPT !.rps = NoRps]
    OBVIOUS
<1>4. CASE ~(room.rps.koth /\ winner = room.rps.p1)
    <2>1. PICK t : t = Drain(u)
        OBVIOUS
    <2>2. Kept(t)
        BY <1>3, <1>4, <2>1 DEF RpsWon
    <2>3. Steps(room, t, ids)
        BY <1>2, <1>3, <2>1, RpsEnds
    <2> QED BY <2>2, <2>3, KeptSteps
<1>5. CASE room.rps.koth /\ winner = room.rps.p1
    <2>1. PICK v : v = [u EXCEPT !.pendingHost = winner]
        OBVIOUS
    <2>2. Kept(Drain(v))
        BY <1>3, <1>5, <2>1 DEF RpsWon
    <2>3. Over(room, u, ids, {winner})
        BY <1>3, Now, EndsRps
    <2>4. Fine(u, ids) /\ Good(u, ids) /\ u \in RoomStates /\ SameGroup(room, u) /\ ids \in Nat
        BY <2>3, Now, Numbers DEF Over, Fine
    <2>5. winner \in OptDevice /\ winner # NoDevice
        BY <1>1 DEF OptDevice
    <2>6. /\ v.pendingHost = winner /\ v.host = u.host /\ v.removals = u.removals
          /\ v.members = u.members /\ v.queue = u.queue /\ v.score = u.score /\ SameGames(u, v)
        BY <2>1, <2>4, <2>5, SetPending
    <2>7. CASE room.removals = {}
        <3>1. /\ winner \in u.members \cup {NoDevice}
              /\ winner # NoDevice => u.removals = {}
              /\ One(u.vote.id, u.rps.id, u.ttt.id, u.saboteur.id, winner)
            <4>1. u.vote.id = 0 /\ u.rps.id = 0 /\ u.ttt.id = 0 /\ u.saboteur.id = 0
                BY <2>3 DEF Over, ActiveIds
            <4> QED BY <1>1, <2>4, <2>7, <4>1 DEF One, SameGroup
        <3>2. Good(v, ids)
            BY <2>1, <2>4, <3>1, GoodPending
        <3>3. Fine(v, ids)
            BY <2>4, <2>6, <3>2 DEF Fine
        <3>4. PICK g \in ActiveIds(room) : TRUE
            BY Now DEF ActiveIds
        <3>5. ActiveIds(v) \subseteq ActiveIds(room) \ {g}
            BY <2>3, <2>6 DEF Over, ActiveIds, SameGames
        <3>6. v.queue = room.queue /\ v.removals \subseteq room.removals
            BY <2>3, <2>4, <2>6 DEF Over, SameGroup
        <3>7. Pays(room, v, {winner})
            <4>1. \A d \in Device : room.score[d] \in Int
                BY Now, Numbers
            <4> QED BY <1>2, <2>3, <2>6, <4>1 DEF Over, Pays
        <3>8. PICK t : t = Drain(v)
            OBVIOUS
        <3>9. Steps(room, t, ids)
            BY <3>3, <3>4, <3>5, <3>6, <3>7, <3>8, Now, Ends
        <3> QED BY <2>2, <3>8, <3>9, KeptSteps
    <2>8. CASE room.removals # {}
        <3>1. v.removals # {} /\ v.pendingHost # NoDevice
            BY <2>4, <2>5, <2>6, <2>8 DEF SameGroup
        <3>2. Drain(v) = v
            BY <3>1 DEF Drain, Barred
        <3>3. ~SnapshotValid(v)
            BY <3>1 DEF SnapshotValid
        <3>4. Cause(room)
            BY <1>5, <2>8 DEF Cause
        <3> QED BY <2>2, <3>2, <3>3, <3>4, RefusedSteps
    <2> QED BY <2>7, <2>8
<1> QED BY <1>4, <1>5

LEMMA ForfeitOk ==
    ASSUME RoomInv, NEW d \in Device, Forfeit(d)
    PROVE  StepOk
<1>1. CASE /\ room.rps.id # 0 /\ room.rps.phase # "pending" /\ d \in Players(room.rps)
           /\ Kept(RpsWon(room, Opponent(room.rps, d)))
    <2>1. PICK w : w = Opponent(room.rps, d)
        OBVIOUS
    <2>2. w \in Players(room.rps)
        BY <2>1 DEF Opponent, Players
    <2> QED BY <1>1, <2>1, <2>2, RpsWonOk
<1>2. CASE /\ room.ttt.id # 0 /\ room.ttt.phase # "pending" /\ d \in Players(room.ttt)
           /\ Kept(Drain([Bump(room, {Opponent(room.ttt, d)}) EXCEPT !.ttt = NoTtt]))
    <2>1. PICK w : w = Opponent(room.ttt, d)
        OBVIOUS
    <2>2. {w} \subseteq room.members /\ \E x : {w} \subseteq {x}
        BY <1>2, <2>1, Now DEF Opponent, TttFit
    <2>3. PICK t : t = Drain([Bump(room, {w}) EXCEPT !.ttt = NoTtt])
        OBVIOUS
    <2>4. Steps(room, t, ids)
        BY <1>2, <2>2, <2>3, TttEnds
    <2> QED BY <1>2, <2>1, <2>3, <2>4, KeptSteps
<1> QED BY <1>1, <1>2 DEF Forfeit

LEMMA RevealPickOk ==
    ASSUME RoomInv, NEW d \in Device, RevealPick(d)
    PROVE  StepOk
<1>1. /\ room.rps.id # 0 /\ room.rps.phase = "revealing"
      /\ d \in {room.rps.p1, room.rps.p2} \ room.rps.revealed
    BY DEF RevealPick, Players
<1>2. CASE room.rps.revealed = {} /\ Kept([room EXCEPT !.rps.revealed = {d}])
    <2>1. PICK t : t = [room EXCEPT !.rps.revealed = {d}]
        OBVIOUS
    <2>2. OnlyRps(room, t)
        BY <2>1, Now DEF OnlyRps, RoomStates, SameGroup, RpsGames
    <2>3. /\ t.rps.id = room.rps.id /\ t.rps.p1 = room.rps.p1 /\ t.rps.p2 = room.rps.p2
          /\ t.rps.phase = room.rps.phase /\ t.rps.koth = room.rps.koth
          /\ t.rps.committed = room.rps.committed /\ t.rps.revealed = {d}
        BY <2>1, Now DEF RoomStates, RpsGames
    <2>4. RpsFit(t.rps, room.members, room.host, ids)
        BY <1>1, <2>3, Now DEF RpsFit
    <2>5. Steps(room, t, ids)
        BY <2>2, <2>3, <2>4, Now, RpsSteps
    <2> QED BY <1>2, <2>1, <2>5, KeptSteps
<1>3. CASE Kept(RpsDrawn(room))
    <2>1. PICK t : t = Drain([room EXCEPT !.rps = NoRps])
        OBVIOUS
    <2>3. Steps(room, t, ids)
        BY <1>1, <2>1, RpsStops
    <2> QED BY <1>3, <2>1, <2>3, KeptSteps DEF RpsDrawn
<1>4. CASE \E winner \in RpsWinners(room.rps) : Kept(RpsWon(room, winner))
    BY <1>1, <1>4, RpsWonOk DEF RpsWinners
<1> QED BY <1>2, <1>3, <1>4 DEF RevealPick

LEMMA MoveOk ==
    ASSUME RoomInv, NEW d \in Device, Move(d)
    PROVE  StepOk
<1>1. PICK turn : turn = room.ttt.turn + 1
    OBVIOUS
<1>2. /\ room.ttt.id # 0 /\ d \in {room.ttt.p1, room.ttt.p2}
      /\ \/ Kept([room EXCEPT !.ttt.turn = turn])
         \/ Kept(Drain([Bump(room, {d}) EXCEPT !.ttt = NoTtt]))
         \/ Kept(Drain([room EXCEPT !.ttt = NoTtt]))
    BY <1>1 DEF Move
<1>3. {d} \subseteq room.members /\ \E x : {d} \subseteq {x}
    BY <1>2, Now DEF TttFit
<1>4. CASE Kept([room EXCEPT !.ttt.turn = turn])
    <2>1. PICK t : t = [room EXCEPT !.ttt.turn = turn]
        OBVIOUS
    <2>2. turn \in Nat
        BY <1>1, Now DEF TttGames
    <2>3. OnlyTtt(room, t)
        BY <2>1, <2>2, Now DEF OnlyTtt, RoomStates, SameGroup, TttGames
    <2>4. t.ttt.id = room.ttt.id /\ t.ttt.p1 = room.ttt.p1 /\ t.ttt.p2 = room.ttt.p2
        BY <2>1, <2>2, Now DEF RoomStates, TttGames
    <2>5. TttFit(t.ttt, room.members, ids)
        BY <1>2, <2>4, Now DEF TttFit
    <2>6. Steps(room, t, ids)
        BY <2>3, <2>4, <2>5, Now, TttSteps
    <2> QED BY <1>4, <2>1, <2>6, KeptSteps
<1>5. CASE Kept(Drain([Bump(room, {d}) EXCEPT !.ttt = NoTtt]))
    <2>1. PICK t : t = Drain([Bump(room, {d}) EXCEPT !.ttt = NoTtt])
        OBVIOUS
    <2>2. Steps(room, t, ids)
        BY <1>2, <1>3, <2>1, TttEnds
    <2> QED BY <1>5, <2>1, <2>2, KeptSteps
<1>6. CASE Kept(Drain([room EXCEPT !.ttt = NoTtt]))
    <2>1. PICK t : t = Drain([room EXCEPT !.ttt = NoTtt])
        OBVIOUS
    <2>2. Steps(room, t, ids)
        BY <1>2, <2>1, TttStops
    <2> QED BY <1>6, <2>1, <2>2, KeptSteps
<1> QED BY <1>2, <1>4, <1>5, <1>6

-----------------------------------------------------------------------------
(* Saboteur.                                                                  *)
SameSaboteur(g, h) ==
    h.id = g.id /\ h.players = g.players /\ h.starter = g.starter

LEMMA Playing ==
    ASSUME RoomInv, NEW d, Plays(d)
    PROVE  /\ room.saboteur.id # 0 /\ room.saboteur.id <= ids /\ d \in room.saboteur.players
           /\ room.saboteur.players \subseteq room.members
           /\ room.saboteur.starter \in room.saboteur.players
           /\ Cardinality(room.saboteur.players) >= 4
<1>1. room.saboteur.id # 0
    BY Now DEF Plays, SabFit, NoSaboteur
<1> QED BY <1>1, Now DEF Plays, SabFit

LEMMA CommitEntropyOk ==
    ASSUME RoomInv, NEW d \in Device, CommitEntropy(d)
    PROVE  StepOk
<1>1. PICK C : C = room.saboteur.committed \cup {d}
    OBVIOUS
<1>2. PICK t : t = [room EXCEPT !.saboteur.committed = C,
                                !.saboteur.phase = IF C = room.saboteur.players
                                                   THEN "revealing" ELSE @]
    OBVIOUS
<1>3. Plays(d) /\ room.saboteur.phase = "committing" /\ Kept(t)
    BY <1>1, <1>2 DEF CommitEntropy
<1>4. C \in SUBSET Device
    BY <1>1, Now DEF Saboteurs
<1>5. OnlySaboteur(room, t)
    BY <1>2, <1>4, Now DEF OnlySaboteur, RoomStates, SameGroup, Saboteurs
<1>6. /\ SameSaboteur(room.saboteur, t.saboteur)
      /\ t.saboteur.committed = C
      /\ t.saboteur.phase = IF C = room.saboteur.players THEN "revealing" ELSE "committing"
      /\ t.saboteur.revealed = room.saboteur.revealed
      /\ t.saboteur.saboteur = room.saboteur.saboteur
      /\ t.saboteur.accusation = room.saboteur.accusation
      /\ t.saboteur.canStrike = room.saboteur.canStrike
      /\ t.saboteur.strikes = room.saboteur.strikes
    BY <1>2, <1>3, <1>4, Now DEF RoomStates, Saboteurs, SameSaboteur
<1>7. /\ room.saboteur.revealed = {} /\ room.saboteur.saboteur = NoDevice
      /\ ~room.saboteur.canStrike /\ room.saboteur.accusation = NoAccusation
      /\ room.saboteur.strikes = 0
      /\ room.saboteur.accusation.accuser = NoDevice
    BY <1>3, Playing, Now, Nothing DEF SabFit
<1>8. room.saboteur.players # {}
    BY <1>3, Playing
<1>9. SabFit(t.saboteur, room.members, ids)
    BY <1>3, <1>6, <1>7, <1>8, Playing DEF SabFit, SameSaboteur
<1>10. Steps(room, t, ids)
    BY <1>5, <1>6, <1>9, Now, SaboteurSteps DEF SameSaboteur
<1> QED BY <1>3, <1>10, KeptSteps

LEMMA RevealEntropyOk ==
    ASSUME RoomInv, NEW d \in Device, RevealEntropy(d)
    PROVE  StepOk
<1>1. PICK R : R = room.saboteur.revealed \cup {d}
    OBVIOUS
<1>2. Plays(d) /\ room.saboteur.phase = "revealing"
    BY DEF RevealEntropy
<1>3. R \in SUBSET Device
    BY <1>1, Now DEF Saboteurs
<1>4. /\ room.saboteur.committed = room.saboteur.players
      /\ room.saboteur.saboteur = NoDevice
      /\ ~room.saboteur.canStrike /\ room.saboteur.accusation = NoAccusation
      /\ room.saboteur.strikes = 0
      /\ room.saboteur.accusation.accuser = NoDevice
    BY <1>2, Playing, Now, Nothing DEF SabFit
<1>5. CASE R # room.saboteur.players /\ Kept([room EXCEPT !.saboteur.revealed = R])
    <2>1. PICK t : t = [room EXCEPT !.saboteur.revealed = R]
        OBVIOUS
    <2>2. OnlySaboteur(room, t)
        BY <1>3, <2>1, Now DEF OnlySaboteur, RoomStates, SameGroup, Saboteurs
    <2>3. /\ SameSaboteur(room.saboteur, t.saboteur)
          /\ t.saboteur.committed = room.saboteur.committed
          /\ t.saboteur.phase = "revealing" /\ t.saboteur.revealed = R
          /\ t.saboteur.saboteur = room.saboteur.saboteur
          /\ t.saboteur.accusation = room.saboteur.accusation
          /\ t.saboteur.canStrike = room.saboteur.canStrike
          /\ t.saboteur.strikes = room.saboteur.strikes
        BY <1>2, <1>3, <2>1, Now DEF RoomStates, Saboteurs, SameSaboteur
    <2>4. SabFit(t.saboteur, room.members, ids)
        BY <1>2, <1>4, <1>5, <2>3, Playing DEF SabFit, SameSaboteur
    <2>5. Steps(room, t, ids)
        BY <2>2, <2>3, <2>4, Now, SaboteurSteps DEF SameSaboteur
    <2> QED BY <1>5, <2>1, <2>5, KeptSteps
<1>6. CASE R = room.saboteur.players
    <2>1. PICK drawn \in room.saboteur.players :
              Kept([room EXCEPT !.saboteur.revealed = R, !.saboteur.saboteur = drawn,
                                !.saboteur.phase = "playing", !.saboteur.canStrike = TRUE])
        BY <1>1, <1>6 DEF RevealEntropy, Drawable
    <2>2. PICK t : t = [room EXCEPT !.saboteur.revealed = R, !.saboteur.saboteur = drawn,
                                !.saboteur.phase = "playing", !.saboteur.canStrike = TRUE]
        OBVIOUS
    <2>3. drawn \in OptDevice
        BY <2>1, Now DEF Saboteurs, OptDevice
    <2>4. OnlySaboteur(room, t)
        BY <1>3, <2>2, <2>3, Now DEF OnlySaboteur, RoomStates, SameGroup, Saboteurs
    <2>5. /\ SameSaboteur(room.saboteur, t.saboteur)
          /\ t.saboteur.committed = room.saboteur.committed
          /\ t.saboteur.phase = "playing" /\ t.saboteur.revealed = R
          /\ t.saboteur.saboteur = drawn /\ t.saboteur.strikes = room.saboteur.strikes
          /\ t.saboteur.accusation = room.saboteur.accusation
        BY <1>2, <1>3, <2>2, <2>3, Now DEF RoomStates, Saboteurs, SameSaboteur
    <2>6. room.saboteur.strikes < 3
        BY <1>4
    <2>7. SabFit(t.saboteur, room.members, ids)
        BY <1>2, <1>4, <1>6, <2>1, <2>5, <2>6, Playing DEF SabFit, SameSaboteur
    <2>8. Steps(room, t, ids)
        BY <2>4, <2>5, <2>7, Now, SaboteurSteps DEF SameSaboteur
    <2> QED BY <2>1, <2>2, <2>8, KeptSteps
<1> QED BY <1>1, <1>5, <1>6 DEF RevealEntropy

(* A room in which the game is over.                                          *)
LEMMA SaboteurOver ==
    ASSUME NEW n \in Nat, NEW s, Fine(s, n), s.saboteur.id # 0, NEW t \in RoomStates, NEW S,
           SameGroup(s, t), t.queue = s.queue,
           t.vote = s.vote, t.rps = s.rps, t.ttt = s.ttt, t.saboteur = NoSaboteur,
           \A d \in Device : t.score[d] = IF d \in S THEN s.score[d] + 1 ELSE s.score[d]
    PROVE  Over(s, t, n, S)
<1>1. Good(s, n) /\ s \in RoomStates
    BY Numbers DEF Fine
<1>2. PICK u : u = [s EXCEPT !.saboteur = NoSaboteur]
    OBVIOUS
<1>3. /\ u.saboteur = NoSaboteur /\ SameGroup(s, u) /\ u.queue = s.queue
      /\ u.vote = s.vote /\ u.rps = s.rps /\ u.ttt = s.ttt
    BY <1>1, <1>2, Nothing, SetSaboteur
<1>4. Good(u, n) /\ ActiveIds(u) = {}
    BY <1>2, EndsSaboteur DEF Over, Fine
<1>5. Good(t, n)
    BY <1>3, <1>4 DEF Good, SameGroup
<1>6. ActiveIds(t) = {}
    BY <1>3, <1>4 DEF ActiveIds
<1>7. Fine(t, n)
    BY <1>5 DEF Fine, SameGroup
<1> QED BY <1>6, <1>7 DEF Over

LEMMA CloseSaboteurOk ==
    ASSUME RoomInv, NEW d \in Device, CloseSaboteur(d)
    PROVE  StepOk
<1>1. room.saboteur.id # 0
    BY Playing DEF CloseSaboteur
<1>2. ActiveIds(room) # {} /\ {} \subseteq room.members /\ \E x : {} \subseteq {x}
    BY <1>1 DEF ActiveIds
<1>3. PICK u, t : u = [room EXCEPT !.saboteur = NoSaboteur] /\ t = Drain(u)
    OBVIOUS
<1>4. Over(room, u, ids, {})
    BY <1>1, <1>3, Now, EndsSaboteur
<1>5. Steps(room, t, ids)
    BY <1>2, <1>3, <1>4, Now, OverSteps
<1>6. Kept(t)
    BY <1>3 DEF CloseSaboteur
<1> QED BY <1>5, <1>6, KeptSteps

LEMMA AccuseOk ==
    ASSUME RoomInv, NEW d \in Device, NEW suspect \in Device, Accuse(d, suspect)
    PROVE  StepOk
<1>1. PICK case : case = [accuser |-> d, suspect |-> suspect, yes |-> {d}, no |-> {}]
    OBVIOUS
<1>2. PICK t : t = [room EXCEPT !.saboteur.accusation = case, !.saboteur.canStrike = FALSE]
    OBVIOUS
<1>3. /\ Plays(d) /\ room.saboteur.phase = "playing" /\ d # room.saboteur.saboteur
      /\ suspect \in room.saboteur.players /\ suspect # d
      /\ Kept(t)
    BY <1>1, <1>2 DEF Accuse
<1>4. /\ case \in Accusations /\ case.accuser = d /\ case.suspect = suspect
      /\ case.yes = {d} /\ case.no = {}
    BY <1>1 DEF Accusations, OptDevice
<1>5. OnlySaboteur(room, t)
    BY <1>2, <1>4, Now DEF OnlySaboteur, RoomStates, SameGroup, Saboteurs
<1>6. /\ SameSaboteur(room.saboteur, t.saboteur)
      /\ t.saboteur.committed = room.saboteur.committed
      /\ t.saboteur.phase = "playing" /\ t.saboteur.revealed = room.saboteur.revealed
      /\ t.saboteur.saboteur = room.saboteur.saboteur
      /\ t.saboteur.strikes = room.saboteur.strikes
      /\ t.saboteur.accusation = case /\ ~t.saboteur.canStrike
    BY <1>2, <1>3, <1>4, Now DEF RoomStates, Saboteurs, SameSaboteur
<1>7. {d} # room.saboteur.players
    BY <1>3
<1>8. /\ room.saboteur.committed = room.saboteur.players
      /\ room.saboteur.revealed = room.saboteur.players
      /\ room.saboteur.saboteur \in room.saboteur.players /\ room.saboteur.strikes < 3
    BY <1>3, Playing, Now DEF SabFit
<1>9. SabFit(t.saboteur, room.members, ids)
    BY <1>3, <1>4, <1>6, <1>7, <1>8, Playing DEF SabFit, SameSaboteur
<1>10. Steps(room, t, ids)
    BY <1>5, <1>6, <1>9, Now, SaboteurSteps DEF SameSaboteur
<1> QED BY <1>3, <1>10, KeptSteps

(* The verdict: a saboteur that is found loses, and the others gain a point.  *)
LEMMA VoteAccusationOk ==
    ASSUME RoomInv, NEW d \in Device, NEW yes \in BOOLEAN, VoteAccusation(d, yes)
    PROVE  StepOk
<1>1. PICK case : case = room.saboteur.accusation
    OBVIOUS
<1>2. PICK new : new = IF yes THEN [case EXCEPT !.yes = @ \cup {d}, !.no = @ \ {d}]
                              ELSE [case EXCEPT !.no = @ \cup {d}, !.yes = @ \ {d}]
    OBVIOUS
<1>3. PICK voted : voted = [room EXCEPT !.saboteur.accusation = new]
    OBVIOUS
<1>4. /\ Plays(d) /\ room.saboteur.phase = "playing" /\ case.accuser # NoDevice
      /\ IF new.yes \cup new.no = room.saboteur.players
         THEN Kept(ResolveAccusation(voted)) ELSE Kept(voted)
    BY <1>1, <1>2, <1>3 DEF VoteAccusation, Accused
<1>5. case \in Accusations
    BY <1>1, Now DEF Saboteurs
<1>6. new \in Accusations /\ new.accuser = case.accuser /\ new.suspect = case.suspect
    BY <1>2, <1>5 DEF Accusations
<1>7. /\ room.saboteur.committed = room.saboteur.players
      /\ room.saboteur.revealed = room.saboteur.players
      /\ room.saboteur.saboteur \in room.saboteur.players /\ room.saboteur.strikes < 3
      /\ ~room.saboteur.canStrike
      /\ case.accuser \notin {case.suspect, room.saboteur.saboteur}
    BY <1>1, <1>4, Playing, Now DEF SabFit
<1>8. OnlySaboteur(room, voted)
    BY <1>3, <1>6, Now DEF OnlySaboteur, RoomStates, SameGroup, Saboteurs
<1>9. /\ SameSaboteur(room.saboteur, voted.saboteur)
      /\ voted.saboteur.committed = room.saboteur.committed
      /\ voted.saboteur.phase = "playing" /\ voted.saboteur.revealed = room.saboteur.revealed
      /\ voted.saboteur.saboteur = room.saboteur.saboteur
      /\ voted.saboteur.strikes = room.saboteur.strikes
      /\ voted.saboteur.accusation = new
      /\ voted.saboteur.canStrike = room.saboteur.canStrike
    BY <1>3, <1>4, <1>6, Now DEF RoomStates, Saboteurs, SameSaboteur
<1>10. CASE new.yes \cup new.no # room.saboteur.players
    <2>1. SabFit(voted.saboteur, room.members, ids)
        BY <1>4, <1>6, <1>7, <1>9, <1>10, Playing DEF SabFit, SameSaboteur
    <2>2. Steps(room, voted, ids)
        BY <1>8, <1>9, <2>1, Now, SaboteurSteps DEF SameSaboteur
    <2> QED BY <1>4, <1>10, <2>2, KeptSteps
<1>11. CASE new.yes \cup new.no = room.saboteur.players
    <2>1. Kept(ResolveAccusation(voted))
        BY <1>4, <1>11
    <2>2. PICK S : S = voted.saboteur.players \ {new.suspect}
        OBVIOUS
    <2>3. PICK u : u = [Bump(voted, S) EXCEPT !.saboteur = NoSaboteur]
        OBVIOUS
    <2>4. PICK w : w = [voted EXCEPT !.saboteur.accusation = NoAccusation,
                                     !.saboteur.canStrike = TRUE]
        OBVIOUS
    <2>5. Kept(Drain(u)) \/ Kept(w)
        BY <1>9, <2>1, <2>2, <2>3, <2>4 DEF ResolveAccusation
    <2>6. CASE Kept(Drain(u))
        <3>1. PICK b : b = Bump(voted, S)
            OBVIOUS
        <3>2. /\ b \in RoomStates /\ SameGroup(voted, b) /\ SameGames(voted, b)
              /\ b.queue = voted.queue
              /\ \A e \in Device : b.score[e] = IF e \in S THEN voted.score[e] + 1
                                                ELSE voted.score[e]
            BY <1>8, <3>1, BumpFields DEF OnlySaboteur
        <3>3. /\ u \in RoomStates /\ u.saboteur = NoSaboteur
              /\ SameGroup(b, u) /\ u.queue = b.queue /\ u.score = b.score
              /\ u.vote = b.vote /\ u.rps = b.rps /\ u.ttt = b.ttt
            BY <2>3, <3>1, <3>2, Nothing, SetSaboteur
        <3>4. /\ SameGroup(room, u) /\ u.queue = room.queue
              /\ u.vote = room.vote /\ u.rps = room.rps /\ u.ttt = room.ttt
            BY <1>8, <3>2, <3>3 DEF OnlySaboteur, SameGroup, SameGames
        <3>5. \A e \in Device : u.score[e] = IF e \in S THEN room.score[e] + 1
                                             ELSE room.score[e]
            BY <1>8, <3>2, <3>3 DEF OnlySaboteur
        <3>6. room.saboteur.id # 0 /\ S \subseteq room.members /\ ActiveIds(room) # {}
            BY <1>4, <1>9, <2>2, Playing DEF SameSaboteur, ActiveIds
        <3>7. Over(room, u, ids, S)
            BY <3>3, <3>4, <3>5, <3>6, Now, SaboteurOver
        <3>8. PICK t : t = Drain(u)
            OBVIOUS
        <3>9. Steps(room, t, ids)
            BY <3>6, <3>7, <3>8, Now, OverSteps
        <3> QED BY <2>6, <3>8, <3>9, KeptSteps
    <2>7. CASE Kept(w)
        <3>1. voted \in RoomStates /\ voted.saboteur \in Saboteurs
            BY <1>8 DEF OnlySaboteur, RoomStates
        <3>2. OnlySaboteur(voted, w)
            BY <2>4, <3>1, Nothing DEF OnlySaboteur, RoomStates, SameGroup, Saboteurs
        <3>3. OnlySaboteur(room, w)
            BY <1>8, <3>2 DEF OnlySaboteur, SameGroup
        <3>4. /\ SameSaboteur(voted.saboteur, w.saboteur)
              /\ w.saboteur.committed = voted.saboteur.committed
              /\ w.saboteur.phase = voted.saboteur.phase
              /\ w.saboteur.revealed = voted.saboteur.revealed
              /\ w.saboteur.saboteur = voted.saboteur.saboteur
              /\ w.saboteur.strikes = voted.saboteur.strikes
              /\ w.saboteur.accusation = NoAccusation
            BY <2>4, <3>1, Nothing DEF RoomStates, Saboteurs, SameSaboteur
        <3>5. SabFit(w.saboteur, room.members, ids)
            BY <1>4, <1>7, <1>9, <3>4, Playing, Nothing DEF SabFit, SameSaboteur
        <3>6. Steps(room, w, ids)
            BY <1>9, <3>3, <3>4, <3>5, Now, SaboteurSteps DEF SameSaboteur
        <3> QED BY <2>7, <3>6, KeptSteps
    <2> QED BY <2>5, <2>6, <2>7
<1> QED BY <1>10, <1>11

LEMMA StrikeOk ==
    ASSUME RoomInv, NEW d \in Device, Strike(d)
    PROVE  StepOk
<1>1. Plays(d) /\ room.saboteur.phase = "playing"
    BY DEF Strike
<1>2. /\ room.saboteur.committed = room.saboteur.players
      /\ room.saboteur.revealed = room.saboteur.players
      /\ room.saboteur.saboteur \in room.saboteur.players /\ room.saboteur.strikes \in Nat
      /\ room.saboteur.accusation.accuser # NoDevice => ~room.saboteur.canStrike
    BY <1>1, Playing, Now DEF SabFit, Saboteurs
<1>3. CASE /\ room.saboteur.strikes < 2 /\ room.saboteur.canStrike
           /\ Kept([room EXCEPT !.saboteur.strikes = @ + 1, !.saboteur.canStrike = FALSE])
    <2>1. PICK k : k = room.saboteur.strikes + 1
        OBVIOUS
    <2>2. PICK t : t = [room EXCEPT !.saboteur.strikes = @ + 1, !.saboteur.canStrike = FALSE]
        OBVIOUS
    <2>3. k \in Nat /\ k < 3
        BY <1>2, <1>3, <2>1
    <2>4. OnlySaboteur(room, t)
        BY <2>1, <2>2, <2>3, Now DEF OnlySaboteur, RoomStates, SameGroup, Saboteurs
    <2>5. /\ SameSaboteur(room.saboteur, t.saboteur)
          /\ t.saboteur.committed = room.saboteur.committed
          /\ t.saboteur.phase = "playing" /\ t.saboteur.revealed = room.saboteur.revealed
          /\ t.saboteur.saboteur = room.saboteur.saboteur
          /\ t.saboteur.strikes = k
          /\ t.saboteur.accusation = room.saboteur.accusation /\ ~t.saboteur.canStrike
        BY <1>1, <2>1, <2>2, <2>3, Now DEF RoomStates, Saboteurs, SameSaboteur
    <2>6. room.saboteur.accusation.accuser = NoDevice
        BY <1>2, <1>3
    <2>7. SabFit(t.saboteur, room.members, ids)
        BY <1>1, <1>2, <2>3, <2>5, <2>6, Playing DEF SabFit, SameSaboteur
    <2>8. Steps(room, t, ids)
        BY <2>4, <2>5, <2>7, Now, SaboteurSteps DEF SameSaboteur
    <2> QED BY <1>3, <2>2, <2>8, KeptSteps
<1>4. CASE Kept([Bump(room, {d}) EXCEPT !.closed = TRUE, !.saboteur = NoSaboteur])
    <2>1. PICK b : b = Bump(room, {d})
        OBVIOUS
    <2>2. PICK t : t = [b EXCEPT !.closed = TRUE, !.saboteur = NoSaboteur]
        OBVIOUS
    <2>3. PICK u : u = [b EXCEPT !.saboteur = NoSaboteur]
        OBVIOUS
    <2>4. room.saboteur.id # 0 /\ {d} \subseteq room.members /\ \E x : {d} \subseteq {x}
        BY <1>1, Playing
    <2>5. Over(room, u, ids, {d})
        BY <2>1, <2>3, <2>4, Now, EndsSaboteur
    <2>6. b \in RoomStates
        BY <2>1, Now, BumpFields
    <2>7. /\ t \in RoomStates /\ t.closed /\ t.saboteur = u.saboteur
          /\ t.host = u.host /\ t.pendingHost = u.pendingHost /\ t.removals = u.removals
          /\ t.bound = u.bound /\ t.members = u.members /\ t.queue = u.queue
          /\ t.vote = u.vote /\ t.rps = u.rps /\ t.ttt = u.ttt /\ t.score = u.score
        BY <2>2, <2>3, <2>6, Nothing DEF RoomStates
    <2>8. Good(t, ids)
        BY <2>5, <2>7 DEF Over, Fine, Good
    <2>9. Sound(t, ids)
        BY <2>5, <2>7, <2>8 DEF Over, Fine, Sound, Waits
    <2>10. PICK g \in ActiveIds(room) : TRUE
        BY <2>4 DEF ActiveIds
    <2>11. ActiveIds(t) \subseteq ActiveIds(room) \ {g}
        BY <2>5, <2>7 DEF Over, ActiveIds
    <2>12. Pays(room, t, {d})
        <3>1. \A e \in Device : room.score[e] \in Int
            BY Now, Numbers
        <3> QED BY <2>4, <2>5, <2>7, <3>1 DEF Over, Pays
    <2>13. Moved(t, t)
        BY <2>8, Now, Stays
    <2>14. t.queue = room.queue /\ t.queue \in Seq(Entries) /\ PartOf(t.queue, room.queue)
        BY <2>5, <2>7, Now, Numbers, SamePart DEF Over
    <2>15. Paid(room, t)
        BY <2>10, <2>11, <2>12, <2>13, <2>14, Now, PaidOver
    <2>16. Steps(room, t, ids)
        BY <2>5, <2>7, <2>9, <2>15 DEF Steps, Over, SameGroup
    <2> QED BY <1>4, <2>1, <2>2, <2>16, KeptSteps
<1> QED BY <1>3, <1>4 DEF Strike

-----------------------------------------------------------------------------
(* The queue of games.                                                        *)
LEMMA Drains ==
    ASSUME NEW n \in Nat, NEW s \in RoomStates, NEW u, Fine(u, n), u.score = s.score,
           u.removals \subseteq s.removals
    PROVE  Steps(s, Drain(u), n)
<1>1. PICK t : t = Drain(u)
    OBVIOUS
<1>2. Sound(t, n) /\ Moved(u, t)
    BY <1>1, DrainSound
<1>3. t.score = s.score /\ t.removals \subseteq s.removals
    BY <1>2 DEF Moved, SameGroup
<1> QED BY <1>1, <1>2, <1>3, PaidNone DEF Steps

LEMMA EnqueueOk ==
    ASSUME RoomInv, NEW d \in Device, NEW game \in GameKind, NEW target \in OptDevice,
           Enqueue(d, game, target)
    PROVE  StepOk
<1>1. PICK e : e = Request(game, d, target)
    OBVIOUS
<1>2. PICK u : u = [room EXCEPT !.queue = Append(@, e)]
    OBVIOUS
<1>3. /\ d \in room.members \ room.removals /\ Len(room.queue) < MaxGameQueue
      /\ IF game \in Targeted
         THEN /\ target \in room.members \ (room.removals \cup {d})
              /\ ~(game = "vote" /\ target = room.host)
         ELSE target = NoDevice
      /\ Named(Drain(u))
    BY <1>1, <1>2 DEF Enqueue, MayAct
<1>4. ids \in Nat /\ ids + 1 \in Nat /\ Good(room, ids) /\ Good(room, ids + 1)
    BY Now, GoodLater
<1>5. e \in Entries /\ e.id = ids + 1 /\ e.game = game /\ e.by = d /\ e.target = target
    BY <1>1, <1>4 DEF Request, Entries
<1>6. PICK p, q : p = room.queue /\ q = Append(p, e)
    OBVIOUS
<1>7. /\ p \in Seq(Entries) /\ q \in Seq(Entries) /\ Len(p) \in Nat
      /\ Len(q) = Len(p) + 1 /\ q[Len(p) + 1] = e
      /\ \A i \in 1..Len(p) : q[i] = p[i]
    BY <1>4, <1>5, <1>6, Numbers
<1>8. EntryFit(e, room.members \ room.removals, ids + 1)
    <2>1. e.id \in 1..(ids + 1)
        BY <1>4, <1>5
    <2>2. d # NoDevice /\ room.members \subseteq Device
        BY Now
    <2>3. /\ e.by \in room.members \ room.removals
          /\ e.target \in (room.members \ room.removals) \cup {NoDevice} /\ e.target # e.by
        BY <1>3, <1>5, <2>2
    <2>4. e.game \in Targeted => e.target # NoDevice
        BY <1>3, <1>5, <2>2
    <2> QED BY <2>1, <2>3, <2>4 DEF EntryFit
<1>9. \A i \in 1..Len(p) : p[i].id \in 1..ids
    BY <1>4, <1>6, Numbers
<1>10. \A i \in 1..Len(q) : i \in 1..Len(p) \/ i = Len(p) + 1
    BY <1>7
<1>11. QueueFit(q, room.members \ room.removals, ids + 1)
    <2>1. Len(q) <= MaxGameQueue
        BY <1>3, <1>6, <1>7
    <2>2. \A i \in 1..Len(q) : EntryFit(q[i], room.members \ room.removals, ids + 1)
        BY <1>4, <1>6, <1>7, <1>8, <1>10 DEF Good, QueueFit
    <2>3. \A i, j \in 1..Len(q) : q[i].id = q[j].id => i = j
        <3> TAKE i, j \in 1..Len(q)
        <3>1. CASE i \in 1..Len(p) /\ j \in 1..Len(p)
            BY <1>4, <1>6, <1>7, <3>1 DEF Good, QueueFit
        <3>2. CASE i = Len(p) + 1 /\ j \in 1..Len(p)
            BY <1>4, <1>5, <1>7, <1>9, <3>2
        <3>3. CASE i \in 1..Len(p) /\ j = Len(p) + 1
            BY <1>4, <1>5, <1>7, <1>9, <3>3
        <3> QED BY <1>10, <3>1, <3>2, <3>3
    <2> QED BY <2>1, <2>2, <2>3 DEF QueueFit
<1>12. Fresh(q, room.vote.id, room.rps.id, room.ttt.id, room.saboteur.id)
    <2>1. ids + 1 \notin {room.vote.id, room.rps.id, room.ttt.id, room.saboteur.id}
        <3>1. /\ room.vote.id \in 0..ids /\ room.rps.id \in 0..ids
              /\ room.ttt.id \in 0..ids /\ room.saboteur.id \in 0..ids
            BY Now, Numbers DEF VoteFit, RpsFit, TttFit, SabFit
        <3> QED BY <1>4, <3>1
    <2> QED BY <1>4, <1>5, <1>6, <1>7, <1>10, <2>1 DEF Good, Fresh
<1>13. Hosted(q, room.host)
    <2>1. Hosted(p, room.host)
        BY <1>6, Now DEF Fine
    <2>2. e.game = "vote" => e.target # room.host
        BY <1>3, <1>5 DEF Targeted
    <2> QED BY <1>7, <1>10, <2>1, <2>2 DEF Hosted
<1>14. u = [room EXCEPT !.queue = q]
    BY <1>2, <1>6
<1>15. Good(u, ids + 1)
    BY <1>4, <1>7, <1>11, <1>12, <1>14, GoodQueue
<1>16. u.queue = q /\ SameGroup(room, u) /\ u.score = room.score
    BY <1>7, <1>14, Now, SetQueue
<1>17. Fine(u, ids + 1) /\ u.removals \subseteq room.removals
    BY <1>13, <1>15, <1>16 DEF Fine, SameGroup
<1>18. PICK t : t = Drain(u)
    OBVIOUS
<1>19. Steps(room, t, ids + 1)
    BY <1>4, <1>16, <1>17, <1>18, Now, Drains
<1> QED BY <1>3, <1>18, <1>19, NamedSteps

LEMMA CancelRequestOk ==
    ASSUME RoomInv, NEW d \in Device, NEW i \in 1..Len(room.queue), CancelRequest(d, i)
    PROVE  StepOk
<1>1. PICK p, q : p = room.queue /\ q = SubSeq(p, 1, i - 1) \o SubSeq(p, i + 1, Len(p))
    OBVIOUS
<1>2. PICK t : t = [room EXCEPT !.queue = q]
    OBVIOUS
<1>3. Kept(t)
    BY <1>1, <1>2 DEF CancelRequest
<1>4. p \in Seq(Entries) /\ i \in 1..Len(p) /\ Hosted(p, room.host)
    BY <1>1, Now, Numbers DEF Fine
<1>5. q \in Seq(Entries) /\ PartOf(q, p)
    BY <1>1, <1>4, WithoutPart
<1>6. Good(t, ids)
    BY <1>1, <1>2, <1>5, Now, GoodPart
<1>7. t.queue = q /\ SameGroup(room, t) /\ SameGames(room, t) /\ t.score = room.score
    BY <1>2, <1>5, Now, SetQueue
<1>8. Hosted(q, room.host)
    BY <1>4, <1>5, PartHosted
<1>9. Waits(t)
    <2>1. Barred(room) \/ room.closed
        BY <1>1, <1>4, Now DEF Sound, Waits
    <2> QED BY <1>7, <2>1 DEF Waits, Barred, ActiveGame, ActiveIds, SameGroup, SameGames
<1>10. Steps(room, t, ids)
    BY <1>6, <1>7, <1>8, <1>9, Now, PaidNone DEF Steps, Sound, Fine, SameGroup
<1> QED BY <1>3, <1>10, KeptSteps

(* A game that starts directly: its request is taken off the queue.           *)
LEMMA Ready ==
    ASSUME RoomInv, ~Barred(room), NEW game, NEW by, NEW target
    PROVE  LET c == ConsumeQueued(room, game, by, target)
           IN  /\ Good(c, ids + 1) /\ Idle(c) /\ Unique(c, ids + 1)
               /\ SameGroup(room, c) /\ c.score = room.score
               /\ c.queue \in Seq(Entries) /\ PartOf(c.queue, room.queue)
<1>1. PICK c : c = ConsumeQueued(room, game, by, target)
    OBVIOUS
<1>2. ids \in Nat /\ Good(room, ids) /\ Idle(room)
    BY Now, IdleIs
<1>3. /\ Good(c, ids) /\ SameGroup(room, c) /\ SameGames(room, c) /\ c.score = room.score
      /\ c.queue \in Seq(Entries) /\ PartOf(c.queue, room.queue)
    BY <1>1, <1>2, ConsumeGood
<1>4. Good(c, ids + 1)
    BY <1>2, <1>3, GoodLater
<1>5. Idle(c)
    BY <1>2, <1>3 DEF Idle, SameGroup, SameGames
<1>6. Unique(c, ids + 1)
    <2>1. \A k \in 1..Len(c.queue) : c.queue[k].id \in 1..ids
        BY <1>2, <1>3, Numbers
    <2> QED BY <1>2, <2>1 DEF Unique
<1> QED BY <1>1, <1>3, <1>4, <1>5, <1>6

LEMMA ChallengeSteps ==
    ASSUME RoomInv, NEW c, SameGroup(room, c), c.score = room.score,
           c.queue \in Seq(Entries), PartOf(c.queue, room.queue),
           NEW t, Good(t, ids + 1), ActiveIds(t) = {ids + 1},
           SameGroup(c, t), t.score = c.score, t.queue = c.queue
    PROVE  Steps(room, t, ids + 1)
<1>1. room.queue \in Seq(Entries) /\ Hosted(room.queue, room.host)
    BY Now, Numbers DEF Fine
<1>2. Hosted(c.queue, room.host)
    BY <1>1, PartHosted
<1>3. Fine(t, ids + 1)
    BY <1>2 DEF Fine, SameGroup
<1>4. Waits(t)
    BY DEF Waits, Barred, ActiveGame
<1>5. Paid(room, t)
    BY Now, PaidNone
<1> QED BY <1>3, <1>4, <1>5 DEF Steps, Sound, SameGroup

LEMMA StartVoteOk ==
    ASSUME RoomInv, NEW d \in Device, NEW target \in Device, StartVote(d, target)
    PROVE  StepOk
<1>1. PICK c : c = ConsumeQueued(room, "vote", d, target)
    OBVIOUS
<1>2. PICK t : t = WithVote(c, ids + 1, d, target)
    OBVIOUS
<1>3. /\ Cardinality(room.members) >= 3 /\ target \in room.members \ {d, room.host}
      /\ d \in room.members /\ ~Barred(room) /\ Named(t)
    BY <1>1, <1>2 DEF StartVote, Challenge, MayAct
<1>4. /\ Good(c, ids + 1) /\ Idle(c) /\ Unique(c, ids + 1)
      /\ SameGroup(room, c) /\ c.score = room.score
      /\ c.queue \in Seq(Entries) /\ PartOf(c.queue, room.queue)
    BY <1>1, <1>3, Ready
<1>5. /\ ids + 1 \in Nat /\ ids + 1 \in 1..(ids + 1)
      /\ c.members = room.members /\ c.host = room.host
    BY <1>4, Now DEF SameGroup
<1>6. /\ Good(t, ids + 1) /\ ActiveIds(t) = {ids + 1}
      /\ SameGroup(c, t) /\ t.score = c.score /\ t.queue = c.queue
    BY <1>2, <1>3, <1>4, <1>5, StartsVote
<1>7. Steps(room, t, ids + 1)
    BY <1>4, <1>6, ChallengeSteps
<1> QED BY <1>3, <1>7, NamedSteps

LEMMA StartRpsOk ==
    ASSUME RoomInv, NEW d \in Device, NEW target \in Device, StartRps(d, target)
    PROVE  StepOk
<1>1. PICK c : c = ConsumeQueued(room, "rps", d, target)
    OBVIOUS
<1>2. PICK t : t = WithRps(c, ids + 1, d, target)
    OBVIOUS
<1>3. /\ target \in room.members /\ target # d
      /\ d \in room.members /\ ~Barred(room) /\ Named(t)
    BY <1>1, <1>2 DEF StartRps, Challenge, MayAct
<1>4. /\ Good(c, ids + 1) /\ Idle(c) /\ Unique(c, ids + 1)
      /\ SameGroup(room, c) /\ c.score = room.score
      /\ c.queue \in Seq(Entries) /\ PartOf(c.queue, room.queue)
    BY <1>1, <1>3, Ready
<1>5. /\ ids + 1 \in Nat /\ ids + 1 \in 1..(ids + 1)
      /\ c.members = room.members /\ c.host = room.host
    BY <1>4, Now DEF SameGroup
<1>6. /\ Good(t, ids + 1) /\ ActiveIds(t) = {ids + 1}
      /\ SameGroup(c, t) /\ t.score = c.score /\ t.queue = c.queue
    BY <1>2, <1>3, <1>4, <1>5, StartsRps
<1>7. Steps(room, t, ids + 1)
    BY <1>4, <1>6, ChallengeSteps
<1> QED BY <1>3, <1>7, NamedSteps

LEMMA StartTttOk ==
    ASSUME RoomInv, NEW d \in Device, NEW target \in Device, StartTtt(d, target)
    PROVE  StepOk
<1>1. PICK c : c = ConsumeQueued(room, "ttt", d, target)
    OBVIOUS
<1>2. PICK t : t = WithTtt(c, ids + 1, d, target)
    OBVIOUS
<1>3. /\ target \in room.members /\ target # d
      /\ d \in room.members /\ ~Barred(room) /\ Named(t)
    BY <1>1, <1>2 DEF StartTtt, Challenge, MayAct
<1>4. /\ Good(c, ids + 1) /\ Idle(c) /\ Unique(c, ids + 1)
      /\ SameGroup(room, c) /\ c.score = room.score
      /\ c.queue \in Seq(Entries) /\ PartOf(c.queue, room.queue)
    BY <1>1, <1>3, Ready
<1>5. /\ ids + 1 \in Nat /\ ids + 1 \in 1..(ids + 1)
      /\ c.members = room.members /\ c.host = room.host
    BY <1>4, Now DEF SameGroup
<1>6. /\ Good(t, ids + 1) /\ ActiveIds(t) = {ids + 1}
      /\ SameGroup(c, t) /\ t.score = c.score /\ t.queue = c.queue
    BY <1>2, <1>3, <1>4, <1>5, StartsTtt
<1>7. Steps(room, t, ids + 1)
    BY <1>4, <1>6, ChallengeSteps
<1> QED BY <1>3, <1>7, NamedSteps

LEMMA StartKothOk ==
    ASSUME RoomInv, NEW d \in Device, StartKoth(d)
    PROVE  StepOk
<1>1. PICK c : c = ConsumeQueued(room, "koth", d, NoDevice)
    OBVIOUS
<1>2. PICK t : t = WithKoth(c, ids + 1, d)
    OBVIOUS
<1>3. /\ d # room.host /\ room.host # NoDevice
      /\ d \in room.members /\ ~Barred(room) /\ Named(t)
    BY <1>1, <1>2 DEF StartKoth, Challenge, MayAct
<1>4. /\ Good(c, ids + 1) /\ Idle(c) /\ Unique(c, ids + 1)
      /\ SameGroup(room, c) /\ c.score = room.score
      /\ c.queue \in Seq(Entries) /\ PartOf(c.queue, room.queue)
    BY <1>1, <1>3, Ready
<1>5. /\ ids + 1 \in Nat /\ ids + 1 \in 1..(ids + 1)
      /\ c.members = room.members /\ c.host = room.host
    BY <1>4, Now DEF SameGroup
<1>6. /\ Good(t, ids + 1) /\ ActiveIds(t) = {ids + 1}
      /\ SameGroup(c, t) /\ t.score = c.score /\ t.queue = c.queue
    BY <1>2, <1>3, <1>4, <1>5, StartsKoth
<1>7. Steps(room, t, ids + 1)
    BY <1>4, <1>6, ChallengeSteps
<1> QED BY <1>3, <1>7, NamedSteps

LEMMA StartSaboteurOk ==
    ASSUME RoomInv, NEW d \in Device, StartSaboteur(d)
    PROVE  StepOk
<1>1. PICK c : c = ConsumeQueued(room, "saboteur", d, NoDevice)
    OBVIOUS
<1>2. PICK t : t = WithSaboteur(c, ids + 1, d)
    OBVIOUS
<1>3. /\ Cardinality(room.members) >= 4
      /\ d \in room.members /\ ~Barred(room) /\ Named(t)
    BY <1>1, <1>2 DEF StartSaboteur, Challenge, MayAct
<1>4. /\ Good(c, ids + 1) /\ Idle(c) /\ Unique(c, ids + 1)
      /\ SameGroup(room, c) /\ c.score = room.score
      /\ c.queue \in Seq(Entries) /\ PartOf(c.queue, room.queue)
    BY <1>1, <1>3, Ready
<1>5. /\ ids + 1 \in Nat /\ ids + 1 \in 1..(ids + 1)
      /\ c.members = room.members /\ c.host = room.host
    BY <1>4, Now DEF SameGroup
<1>6. /\ Good(t, ids + 1) /\ ActiveIds(t) = {ids + 1}
      /\ SameGroup(c, t) /\ t.score = c.score /\ t.queue = c.queue
    BY <1>2, <1>3, <1>4, <1>5, StartsSaboteur
<1>7. Steps(room, t, ids + 1)
    BY <1>4, <1>6, ChallengeSteps
<1> QED BY <1>3, <1>7, NamedSteps

-----------------------------------------------------------------------------
(* The members and the host.                                                  *)
LEMMA FineSteps ==
    ASSUME NEW n \in Nat, NEW s, Sound(s, n), NEW t, Fine(t, n), t.score = s.score,
           t.queue = s.queue, t.removals = s.removals, SameGames(s, t),
           s.pendingHost # NoDevice => t.pendingHost # NoDevice, s.closed => t.closed
    PROVE  Steps(s, t, n)
<1>1. Waits(t)
    BY DEF Sound, Waits, Barred, ActiveGame, ActiveIds, SameGames
<1>2. s \in RoomStates
    BY Numbers DEF Sound, Fine
<1> QED BY <1>1, <1>2, PaidNone DEF Steps, Sound

LEMMA AdmitOk ==
    ASSUME RoomInv, NEW d \in Device, Admit(d)
    PROVE  StepOk
<1>1. PICK t : t = [room EXCEPT !.bound = @ \cup {d}]
    OBVIOUS
<1>2. room' = t /\ refused' = FALSE /\ ids' = ids
    BY <1>1 DEF Admit
<1>3. /\ t \in RoomStates /\ t.bound = room.bound \cup {d}
      /\ t.host = room.host /\ t.pendingHost = room.pendingHost /\ t.removals = room.removals
      /\ t.members = room.members /\ t.closed = room.closed
      /\ t.queue = room.queue /\ SameGames(room, t) /\ t.score = room.score
    BY <1>1, Now DEF RoomStates, SameGames
<1>4. Group(t.bound, t.members, t.host, t.pendingHost, t.removals)
    BY <1>3, Now DEF Good, Group
<1>5. Good(t, ids)
    BY <1>3, <1>4, Now DEF Good, SameGames
<1>6. Steps(room, t, ids)
    BY <1>3, <1>5, Now, FineSteps DEF Fine
<1> QED BY <1>2, <1>6, Now, StepSteps

LEMMA ProfileOk ==
    ASSUME RoomInv, NEW d \in Device, Profile(d)
    PROVE  StepOk
<1>1. PICK t : t = [room EXCEPT !.members = @ \cup {d}]
    OBVIOUS
<1>2. Kept(t) /\ d \in room.bound /\ d \notin room.members
    BY <1>1 DEF Profile
<1>3. /\ t \in RoomStates /\ t.bound = room.bound
      /\ t.host = room.host /\ t.pendingHost = room.pendingHost /\ t.removals = room.removals
      /\ t.members = room.members \cup {d} /\ t.closed = room.closed
      /\ t.queue = room.queue /\ SameGames(room, t) /\ t.score = room.score
    BY <1>1, Now DEF RoomStates, SameGames
<1>4. Group(t.bound, t.members, t.host, t.pendingHost, t.removals)
    BY <1>2, <1>3, Now DEF Good, Group
<1>5. QueueFit(t.queue, t.members \ t.removals, ids)
    <2>1. QueueFit(room.queue, room.members \ room.removals, ids)
        BY Now DEF Good
    <2>2. room.members \ room.removals \subseteq t.members \ t.removals
        BY <1>3
    <2> QED BY <1>3, <2>1, <2>2 DEF QueueFit, EntryFit
<1>6. VoteFit(t.vote, t.members, t.host, ids)
    <2>1. PICK v : v = room.vote
        OBVIOUS
    <2>2. t.vote = v /\ VoteFit(v, room.members, room.host, ids)
        BY <1>3, <2>1, Now DEF SameGames
    <2>3. CASE v.id = 0
        BY <2>2, <2>3 DEF VoteFit
    <2>4. CASE v.id # 0
        <3>1. PICK A, B : A = room.members \ {v.target} /\ B = t.members \ {v.target}
            OBVIOUS
        <3>2. IsFiniteSet(B)
            <4>1. t.members \subseteq Device
                BY <1>3, Now
            <4>2. B \subseteq Device
                BY <3>1, <4>1
            <4> QED BY <4>2, FS_Subset
        <3>3. A \subseteq B
            BY <1>3, <3>1
        <3>4. IsFiniteSet(A) /\ Cardinality(A) <= Cardinality(B)
            BY <3>2, <3>3, FS_Subset
        <3>5. v.yes \cup v.no \subseteq A
            BY <2>2, <2>4, <3>1 DEF VoteFit
        <3>6. Cardinality(v.yes \cup v.no) < Cardinality(A)
            BY <2>2, <2>4, <3>1 DEF VoteFit
        <3>7. Cardinality(v.yes \cup v.no) \in Nat
            BY <3>4, <3>5, FS_Subset, FS_CardinalityType
        <3>8. Cardinality(v.yes \cup v.no) < Cardinality(B)
            <4>1. Cardinality(A) \in Nat /\ Cardinality(B) \in Nat
                BY <3>2, <3>4, FS_CardinalityType
            <4> QED BY <3>4, <3>6, <3>7, <4>1
        <3> QED BY <1>3, <2>2, <2>4, <3>1, <3>3, <3>8 DEF VoteFit
    <2> QED BY <2>3, <2>4
<1>7. RpsFit(t.rps, t.members, t.host, ids)
    BY <1>3, Now DEF RpsFit, SameGames
<1>8. TttFit(t.ttt, t.members, ids)
    BY <1>3, Now DEF TttFit, SameGames
<1>9. SabFit(t.saboteur, t.members, ids)
    BY <1>3, Now DEF SabFit, SameGames
<1>10. /\ Fresh(t.queue, t.vote.id, t.rps.id, t.ttt.id, t.saboteur.id)
       /\ One(t.vote.id, t.rps.id, t.ttt.id, t.saboteur.id, t.pendingHost)
    BY <1>3, Now DEF Good, SameGames
<1>11. Good(t, ids)
    BY <1>3, <1>4, <1>5, <1>6, <1>7, <1>8, <1>9, <1>10 DEF Good
<1>12. Steps(room, t, ids)
    BY <1>3, <1>11, Now, FineSteps DEF Fine
<1> QED BY <1>2, <1>12, KeptSteps

LEMMA RoomCloseOk ==
    ASSUME RoomInv, NEW d \in Device, RoomClose(d)
    PROVE  StepOk
<1>1. PICK t : t = [room EXCEPT !.closed = TRUE]
    OBVIOUS
<1>2. Kept(t)
    BY <1>1 DEF RoomClose
<1>3. /\ t \in RoomStates /\ t.bound = room.bound
      /\ t.host = room.host /\ t.pendingHost = room.pendingHost /\ t.removals = room.removals
      /\ t.members = room.members /\ t.closed
      /\ t.queue = room.queue /\ SameGames(room, t) /\ t.score = room.score
    BY <1>1, Now DEF RoomStates, SameGames
<1>4. Good(t, ids)
    BY <1>3, Now DEF Good, SameGames
<1>5. Steps(room, t, ids)
    BY <1>3, <1>4, Now, FineSteps DEF Fine
<1> QED BY <1>2, <1>5, KeptSteps

LEMMA OfferOk ==
    ASSUME RoomInv, ~ActiveGame(room), room.removals = {}, NEW target \in room.members,
           Kept([room EXCEPT !.pendingHost = target])
    PROVE  StepOk
<1>1. PICK t : t = [room EXCEPT !.pendingHost = target]
    OBVIOUS
<1>2. target \in OptDevice /\ target # NoDevice
    BY Now DEF OptDevice
<1>3. One(room.vote.id, room.rps.id, room.ttt.id, room.saboteur.id, target)
    BY DEF ActiveGame, ActiveIds, One
<1>4. Good(t, ids)
    BY <1>1, <1>3, Now, GoodPending
<1>5. /\ t.pendingHost = target
      /\ t.host = room.host /\ t.removals = room.removals /\ t.closed = room.closed
      /\ SameGames(room, t) /\ t.queue = room.queue /\ t.score = room.score
    BY <1>1, <1>2, Now, SetPending
<1>6. Steps(room, t, ids)
    BY <1>2, <1>4, <1>5, Now, FineSteps DEF Fine
<1> QED BY <1>1, <1>6, KeptSteps

LEMMA OffersOk ==
    ASSUME RoomInv, NEW d \in Device, NEW target \in Device,
           PillowToss(d, target) \/ OfferHost(d, target)
    PROVE  StepOk
BY OfferOk DEF PillowToss, OfferHost, Barred

LEMMA RejectHostOk ==
    ASSUME RoomInv, NEW d \in Device, RejectHost(d)
    PROVE  StepOk
<1>1. PICK u, t : u = [room EXCEPT !.pendingHost = NoDevice] /\ t = Drain(u)
    OBVIOUS
<1>2. Kept(t)
    BY <1>1 DEF RejectHost
<1>3. One(room.vote.id, room.rps.id, room.ttt.id, room.saboteur.id, NoDevice)
    BY Now DEF Good, One
<1>4. NoDevice \in room.members \cup {NoDevice} /\ NoDevice \in OptDevice
    BY DEF OptDevice
<1>5. Good(u, ids)
    BY <1>1, <1>3, <1>4, Now, GoodPending
<1>6. u.host = room.host /\ u.removals = room.removals /\ u.queue = room.queue
      /\ u.score = room.score
    BY <1>1, <1>4, Now, SetPending
<1>7. Fine(u, ids)
    BY <1>5, <1>6, Now DEF Fine
<1>8. Steps(room, t, ids)
    BY <1>1, <1>6, <1>7, Now, Drains
<1> QED BY <1>2, <1>8, KeptSteps

(* The offered host accepts.  The queue starts a game against it no more, but *)
(* a vote against it that stays queued is refused with the acceptance.        *)
LEMMA AcceptHostOk ==
    ASSUME RoomInv, NEW d \in Device, AcceptHost(d)
    PROVE  StepOk
<1>1. PICK u, t : u = [room EXCEPT !.host = d, !.pendingHost = NoDevice] /\ t = Drain(u)
    OBVIOUS
<1>2. Kept(t) /\ d \in room.members /\ d = room.pendingHost /\ d # NoDevice
    BY <1>1 DEF AcceptHost, MayAct
<1>3. /\ u \in RoomStates /\ u.bound = room.bound /\ u.host = d /\ u.pendingHost = NoDevice
      /\ u.removals = room.removals /\ u.members = room.members /\ u.closed = room.closed
      /\ u.queue = room.queue /\ SameGames(room, u) /\ u.score = room.score
    BY <1>1, Now DEF RoomStates, SameGames, OptDevice
<1>4. /\ room.removals = {}
      /\ room.vote.id = 0 /\ room.rps.id = 0 /\ room.ttt.id = 0 /\ room.saboteur.id = 0
    BY <1>2, Now DEF Good, Group, One
<1>5. Group(u.bound, u.members, u.host, u.pendingHost, u.removals)
    BY <1>2, <1>3, <1>4, Now DEF Good, Group
<1>6. VoteFit(u.vote, u.members, u.host, ids) /\ RpsFit(u.rps, u.members, u.host, ids)
    BY <1>3, <1>4, Now DEF VoteFit, RpsFit, SameGames
<1>7. One(u.vote.id, u.rps.id, u.ttt.id, u.saboteur.id, u.pendingHost)
    BY <1>3, <1>4 DEF One, SameGames
<1>8. Good(u, ids)
    BY <1>3, <1>5, <1>6, <1>7, Now DEF Good, SameGames
<1>9. Good(t, ids) /\ Waits(t) /\ Moved(u, t)
    BY <1>1, <1>8, Now, DrainGood
<1>10. t.host = d /\ t.removals = room.removals /\ t.score = room.score
       /\ t.queue \in Seq(Entries) /\ PartOf(t.queue, room.queue)
    BY <1>3, <1>9 DEF Moved, SameGroup
<1>11. CASE Hosted(t.queue, t.host)
    <2>1. Sound(t, ids)
        BY <1>9, <1>11 DEF Sound, Fine
    <2>2. Steps(room, t, ids)
        BY <1>10, <2>1, Now, PaidNone DEF Steps
    <2> QED BY <1>2, <2>2, KeptSteps
<1>12. CASE ~Hosted(t.queue, t.host)
    <2>1. PICK i \in 1..Len(t.queue) : t.queue[i].game = "vote" /\ t.queue[i].target = d
        BY <1>10, <1>12 DEF Hosted
    <2>2. ~SnapshotValid(t)
        BY <1>10, <2>1 DEF SnapshotValid, QueueValid, EntryValid
    <2>3. PICK p, q : p = room.queue /\ q = t.queue
        OBVIOUS
    <2>4. p \in Seq(Entries) /\ q \in Seq(Entries) /\ PartOf(q, p) /\ i \in 1..Len(q)
        BY <1>10, <2>3, Now, Numbers
    <2>5. PICK j \in 1..Len(p) : q[i] = p[j]
        BY <2>4, PartIn
    <2>6. Cause(room)
        BY <1>2, <2>1, <2>3, <2>5 DEF Cause
    <2> QED BY <1>2, <2>2, <2>6, RefusedSteps
<1> QED BY <1>11, <1>12

-----------------------------------------------------------------------------
(* A member that is leaving: nothing that names it stays queued.              *)
Unnamed(q, d) == \A i \in 1..Len(q) : ~Names(q[i], d)

Marked(s, t, d) ==
    /\ t \in RoomStates /\ t.host = s.host /\ t.bound = s.bound /\ t.members = s.members
    /\ t.closed = s.closed /\ t.pendingHost = NoDevice /\ t.removals = s.removals \cup {d}
    /\ t.queue \in Seq(Entries) /\ PartOf(t.queue, s.queue) /\ Unnamed(t.queue, d)

LEMMA WithoutEntries ==
    ASSUME NEW s \in RoomStates, NEW d
    PROVE  LET t == WithoutEntriesOf(s, d)
           IN  /\ t \in RoomStates /\ SameGroup(s, t) /\ SameGames(s, t) /\ t.score = s.score
               /\ t.queue \in Seq(Entries) /\ PartOf(t.queue, s.queue) /\ Unnamed(t.queue, d)
<1>1. PICK p, T : p = s.queue /\ T = {entry \in ToSet(p) : ~Names(entry, d)}
    OBVIOUS
<1>2. PICK q : q = Filter(p, T)
    OBVIOUS
<1>3. WithoutEntriesOf(s, d) = [s EXCEPT !.queue = q]
    BY <1>1, <1>2 DEF WithoutEntriesOf
<1>4. p \in Seq(Entries)
    BY <1>1 DEF RoomStates
<1>5. q \in Seq(Entries) /\ PartOf(q, p) /\ \A i \in 1..Len(q) : q[i] \in T
    BY <1>2, <1>4, FilterPart
<1>6. Unnamed(q, d)
    BY <1>1, <1>5 DEF Unnamed
<1> QED BY <1>1, <1>3, <1>5, <1>6, SetQueue

LEMMA MarkFields ==
    ASSUME NEW s \in RoomStates, NEW d \in Device
    PROVE  LET t == MarkPendingRemoval(s, d)
           IN  Marked(s, t, d) /\ SameGames(s, t) /\ t.score = s.score
<1>1. PICK u : u = [s EXCEPT !.removals = @ \cup {d}, !.pendingHost = NoDevice]
    OBVIOUS
<1>2. /\ u \in RoomStates /\ u.host = s.host /\ u.bound = s.bound /\ u.members = s.members
      /\ u.closed = s.closed /\ u.pendingHost = NoDevice /\ u.removals = s.removals \cup {d}
      /\ u.queue = s.queue /\ SameGames(s, u) /\ u.score = s.score
    BY <1>1 DEF RoomStates, SameGames, OptDevice
<1>3. PICK t : t = WithoutEntriesOf(u, d)
    OBVIOUS
<1>4. MarkPendingRemoval(s, d) = t
    BY <1>1, <1>3 DEF MarkPendingRemoval
<1>5. /\ t \in RoomStates /\ SameGroup(u, t) /\ SameGames(u, t) /\ t.score = u.score
      /\ t.queue \in Seq(Entries) /\ PartOf(t.queue, u.queue) /\ Unnamed(t.queue, d)
    BY <1>2, <1>3, WithoutEntries
<1>6. Marked(s, t, d)
    BY <1>2, <1>5 DEF Marked, SameGroup
<1>7. SameGames(s, t) /\ t.score = s.score
    BY <1>2, <1>5 DEF SameGames
<1> QED BY <1>4, <1>6, <1>7

LEMMA MarkedFine ==
    ASSUME NEW n \in Nat, NEW s, Fine(s, n), NEW d \in s.members, d # s.host, NEW t,
           Marked(s, t, d), SameGames(s, t)
    PROVE  Fine(t, n) /\ Waits(t)
<1>1. Good(s, n) /\ Hosted(s.queue, s.host) /\ s.queue \in Seq(Entries)
    BY Numbers DEF Fine
<1>2. Group(t.bound, t.members, t.host, t.pendingHost, t.removals)
    BY <1>1 DEF Good, Group, Marked
<1>3. PICK p, q : p = s.queue /\ q = t.queue
    OBVIOUS
<1>4. p \in Seq(Entries) /\ q \in Seq(Entries) /\ PartOf(q, p) /\ Unnamed(q, d)
    BY <1>1, <1>3 DEF Marked
<1>5. /\ QueueFit(p, s.members \ s.removals, n)
      /\ Fresh(p, s.vote.id, s.rps.id, s.ttt.id, s.saboteur.id)
    BY <1>1, <1>3 DEF Good
<1>6. /\ QueueFit(q, s.members \ s.removals, n)
      /\ Fresh(q, s.vote.id, s.rps.id, s.ttt.id, s.saboteur.id)
    BY <1>4, <1>5, PartFit
<1>7. QueueFit(q, t.members \ t.removals, n)
    <2>1. \A i \in 1..Len(q) : EntryFit(q[i], t.members \ t.removals, n)
        <3> TAKE i \in 1..Len(q)
        <3>1. PICK e : e = q[i]
            OBVIOUS
        <3>2. EntryFit(e, s.members \ s.removals, n) /\ ~Names(e, d)
            BY <1>4, <1>6, <3>1 DEF QueueFit, Unnamed
        <3>3. t.members \ t.removals = (s.members \ s.removals) \ {d}
            BY DEF Marked
        <3>4. EntryFit(e, t.members \ t.removals, n)
            BY <3>2, <3>3 DEF EntryFit, Names
        <3> QED BY <3>1, <3>4
    <2> QED BY <1>6, <2>1 DEF QueueFit
<1>8. Hosted(q, t.host)
    BY <1>1, <1>3, <1>4, PartHosted DEF Marked
<1>9. One(t.vote.id, t.rps.id, t.ttt.id, t.saboteur.id, t.pendingHost)
    BY <1>1 DEF Good, One, Marked, SameGames
<1>10. /\ VoteFit(t.vote, t.members, t.host, n) /\ RpsFit(t.rps, t.members, t.host, n)
       /\ TttFit(t.ttt, t.members, n) /\ SabFit(t.saboteur, t.members, n)
    BY <1>1 DEF Good, Marked, SameGames
<1>11. Fresh(q, t.vote.id, t.rps.id, t.ttt.id, t.saboteur.id)
    BY <1>6 DEF SameGames
<1>12. Good(t, n)
    BY <1>2, <1>3, <1>7, <1>9, <1>10, <1>11 DEF Good, Marked
<1>13. Waits(t)
    BY DEF Waits, Barred, Marked
<1> QED BY <1>3, <1>8, <1>12, <1>13 DEF Fine

LEMMA LeaveOk ==
    ASSUME RoomInv, NEW d \in Device, Leave(d)
    PROVE  StepOk
<1>1. PICK t : t = MarkPendingRemoval(room, d)
    OBVIOUS
<1>2. Kept(t) /\ d \in room.members /\ d # room.host
    BY <1>1 DEF Leave, MayAct
<1>3. Marked(room, t, d) /\ SameGames(room, t) /\ t.score = room.score
    BY <1>1, Now, MarkFields
<1>4. Fine(t, ids) /\ Waits(t)
    BY <1>2, <1>3, Now, MarkedFine
<1>5. SnapshotValid(t)
    BY <1>4, Now, FineValid
<1>6. room' = t /\ refused' = FALSE /\ ids' = ids
    BY <1>2, <1>5 DEF Kept, Finalize
<1>7. RoomInv'
    BY <1>4, <1>6, Now DEF RoomInv, Sound, RefusedForCause
<1>8. PaidStep
    <2>1. Paid(room, t)
        BY <1>3, Now, PaidNone
    <2> QED BY <1>6, <2>1 DEF PaidStep, Paid, Ended, ActiveIds
<1>9. RemovedStep
    BY <1>3, <1>6 DEF RemovedStep, Marked
<1> QED BY <1>7, <1>8, <1>9 DEF StepOk

-----------------------------------------------------------------------------
(* The vote.                                                                  *)
LEMMA CancelVoteOk ==
    ASSUME RoomInv, NEW d \in Device, CancelVote(d)
    PROVE  StepOk
<1>1. room.vote.id # 0
    BY DEF CancelVote
<1>2. ActiveIds(room) # {} /\ {} \subseteq room.members /\ \E x : {} \subseteq {x}
    BY <1>1 DEF ActiveIds
<1>3. PICK u, t : u = [room EXCEPT !.vote = NoVote] /\ t = Drain(u)
    OBVIOUS
<1>4. Over(room, u, ids, {})
    BY <1>1, <1>3, Now, EndsVote
<1>5. Steps(room, t, ids)
    BY <1>2, <1>3, <1>4, Now, OverSteps
<1>6. Kept(t)
    BY <1>3 DEF CancelVote
<1> QED BY <1>5, <1>6, KeptSteps

(* The outcome of a complete vote: w is the room without the vote.            *)
Resolved(w, v, u, n) ==
    /\ Fine(u, n) /\ ActiveIds(u) = {}
    /\ u.host = w.host /\ u.bound = w.bound /\ u.members = w.members /\ u.closed = w.closed
    /\ u.queue \in Seq(Entries) /\ PartOf(u.queue, w.queue)
    /\ \/ u.removals = w.removals
       \/ /\ u.removals = w.removals \cup {v.target}
          /\ 2 * Cardinality(v.yes) > Cardinality(w.members \ {v.target})
    /\ \E x \in {v.starter, v.target} :
         \A d \in Device : u.score[d] = IF d = x THEN w.score[d] + 1 ELSE w.score[d]

LEMMA ResolveGood ==
    ASSUME NEW n \in Nat, NEW w, Fine(w, n), ActiveIds(w) = {}, w.vote = NoVote,
           NEW s, OnlyVote(w, s),
           s.vote.starter \in w.members, s.vote.target \in w.members, s.vote.target # w.host
    PROVE  \E u : Resolved(w, s.vote, u, n) /\ ResolveVote(s) = Drain(u)
<1>1. PICK v : v = s.vote
    OBVIOUS
<1>2. /\ s \in RoomStates /\ SameGroup(w, s) /\ s.queue = w.queue /\ s.score = w.score
      /\ s.rps = w.rps /\ s.ttt = w.ttt /\ s.saboteur = w.saboteur
    BY DEF OnlyVote
<1>3. Good(w, n) /\ w \in RoomStates /\ w.queue \in Seq(Entries) /\ w.members \subseteq Device
    BY Numbers DEF Fine
<1>4. PICK ejected \in BOOLEAN : ejected <=>
        /\ Cardinality(v.yes) > Cardinality(v.no)
        /\ 2 * Cardinality(v.yes) > Cardinality(Eligible(s))
    OBVIOUS
<1>5. Eligible(s) = w.members \ {v.target}
    BY <1>1, <1>2 DEF Eligible, SameGroup
<1>6. CASE ejected
    <2>1. PICK b : b = Bump(s, {v.starter})
        OBVIOUS
    <2>2. PICK m : m = MarkPendingRemoval(b, v.target)
        OBVIOUS
    <2>3. PICK u : u = [m EXCEPT !.vote = NoVote]
        OBVIOUS
    <2>4. ResolveVote(s) = Drain(u)
        BY <1>1, <1>4, <1>6, <2>1, <2>2, <2>3 DEF ResolveVote
    <2>5. /\ b \in RoomStates /\ SameGroup(s, b) /\ SameGames(s, b) /\ b.queue = s.queue
          /\ \A d \in Device : b.score[d] = IF d \in {v.starter} THEN s.score[d] + 1
                                            ELSE s.score[d]
        BY <1>2, <2>1, BumpFields
    <2>6. v.target \in Device
        BY <1>1, <1>3
    <2>7. Marked(b, m, v.target) /\ SameGames(b, m) /\ m.score = b.score
        BY <2>2, <2>5, <2>6, MarkFields
    <2>8. m \in RoomStates
        BY <2>7 DEF Marked
    <2>9. /\ u \in RoomStates /\ u.vote = NoVote
          /\ SameGroup(m, u) /\ u.queue = m.queue /\ u.score = m.score
          /\ u.rps = m.rps /\ u.ttt = m.ttt /\ u.saboteur = m.saboteur
        BY <2>3, <2>8, Nothing, SetVote
    <2>10. Marked(w, u, v.target)
        BY <1>2, <2>5, <2>7, <2>9 DEF Marked, SameGroup
    <2>11. SameGames(w, u)
        BY <1>2, <2>5, <2>7, <2>9 DEF SameGames
    <2>12. Fine(u, n)
        BY <1>1, <2>10, <2>11, MarkedFine
    <2>13. ActiveIds(u) = {}
        BY <2>11 DEF ActiveIds, SameGames
    <2>14. \A d \in Device : u.score[d] = IF d = v.starter THEN w.score[d] + 1 ELSE w.score[d]
        BY <1>2, <2>5, <2>7, <2>9
    <2>15. 2 * Cardinality(v.yes) > Cardinality(w.members \ {v.target})
        BY <1>4, <1>5, <1>6
    <2>16. Resolved(w, v, u, n)
        BY <2>10, <2>12, <2>13, <2>14, <2>15 DEF Resolved, Marked
    <2> QED BY <1>1, <2>4, <2>16
<1>7. CASE ~ejected
    <2>1. PICK b : b = Bump(s, {v.target})
        OBVIOUS
    <2>2. PICK u : u = [b EXCEPT !.vote = NoVote]
        OBVIOUS
    <2>3. ResolveVote(s) = Drain(u)
        BY <1>1, <1>4, <1>7, <2>1, <2>2 DEF ResolveVote
    <2>4. /\ b \in RoomStates /\ SameGroup(s, b) /\ SameGames(s, b) /\ b.queue = s.queue
          /\ \A d \in Device : b.score[d] = IF d \in {v.target} THEN s.score[d] + 1
                                            ELSE s.score[d]
        BY <1>2, <2>1, BumpFields
    <2>5. /\ u \in RoomStates /\ u.vote = NoVote
          /\ SameGroup(b, u) /\ u.queue = b.queue /\ u.score = b.score
          /\ u.rps = b.rps /\ u.ttt = b.ttt /\ u.saboteur = b.saboteur
        BY <2>2, <2>4, Nothing, SetVote
    <2>6. SameGroup(w, u) /\ SameGames(w, u) /\ u.queue = w.queue
        BY <1>2, <2>4, <2>5 DEF SameGroup, SameGames
    <2>7. Good(u, n)
        BY <1>3, <2>5, <2>6 DEF Good, SameGroup, SameGames
    <2>8. Fine(u, n)
        BY <2>6, <2>7 DEF Fine, SameGroup
    <2>9. ActiveIds(u) = {}
        BY <2>6 DEF ActiveIds, SameGames
    <2>10. \A d \in Device : u.score[d] = IF d = v.target THEN w.score[d] + 1 ELSE w.score[d]
        BY <1>2, <2>4, <2>5
    <2>11. u.queue \in Seq(Entries) /\ PartOf(u.queue, w.queue)
        BY <1>3, <2>6, SamePart
    <2>12. Resolved(w, v, u, n)
        BY <2>6, <2>8, <2>9, <2>10, <2>11 DEF Resolved, SameGroup
    <2> QED BY <1>1, <2>3, <2>12
<1> QED BY <1>6, <1>7

(* A vote that is decided pays the member that asked for it, or the one it    *)
(* was about.                                                                 *)
Reset(s, w, v) ==
    \A d \in Device : \/ w.score[d] = s.score[d]
                      \/ d \notin {v.starter, v.target} /\ w.score[d] = 0

LEMMA ResolvedPaid ==
    ASSUME NEW n \in Nat, NEW s, Good(s, n), s.vote.id # 0, NEW w, NEW v, NEW u,
           Resolved(w, v, u, n), w.queue \in Seq(Entries), PartOf(w.queue, s.queue),
           Reset(s, w, v),
           v.starter \in s.members, v.target \in s.members,
           NEW t, Moved(u, t)
    PROVE  Paid(s, t)
<1>3. s.queue \in Seq(Entries) /\ \A d \in Device : s.score[d] \in Nat
    BY Numbers
<1>4. u.queue \in Seq(Entries) /\ PartOf(u.queue, s.queue)
    <2>1. PICK p, q, r : p = s.queue /\ q = w.queue /\ r = u.queue
        OBVIOUS
    <2>2. /\ p \in Seq(Entries) /\ q \in Seq(Entries) /\ r \in Seq(Entries)
          /\ PartOf(q, p) /\ PartOf(r, q)
        BY <1>3, <2>1 DEF Resolved
    <2>3. PartOf(r, p)
        BY <2>2, PartPart
    <2> QED BY <2>1, <2>2, <2>3
<1>5. PICK g \in ActiveIds(s) : TRUE
    BY DEF ActiveIds
<1>6. ActiveIds(u) \subseteq ActiveIds(s) \ {g}
    BY DEF Resolved
<1>7. PICK x \in {v.starter, v.target} :
         \A d \in Device : u.score[d] = IF d = x THEN w.score[d] + 1 ELSE w.score[d]
    BY DEF Resolved
<1>8. Pays(s, u, {x})
    <2>1. \A d \in Device : u.score[d] > s.score[d] => d \in {x} /\ u.score[d] = s.score[d] + 1
        BY <1>3, <1>7 DEF Reset
    <2> QED BY <1>7, <2>1 DEF Pays
<1> QED BY <1>4, <1>5, <1>6, <1>8, PaidOver

LEMMA CastVoteOk ==
    ASSUME RoomInv, NEW d \in Device, NEW yes \in BOOLEAN, CastVote(d, yes)
    PROVE  StepOk
<1>1. PICK voted : voted = IF yes THEN [room EXCEPT !.vote.yes = @ \cup {d}]
                                  ELSE [room EXCEPT !.vote.no = @ \cup {d}]
    OBVIOUS
<1>2. /\ d \in room.members /\ room.vote.id # 0
      /\ d \notin room.vote.yes \cup room.vote.no \cup {room.vote.target}
      /\ Kept(ResolvedIfComplete(voted))
    BY <1>1 DEF CastVote, MayAct
<1>3. OnlyVote(room, voted)
    BY <1>1, Now DEF OnlyVote, RoomStates, SameGroup, Votes
<1>4. /\ voted.vote.id = room.vote.id /\ voted.vote.starter = room.vote.starter
      /\ voted.vote.target = room.vote.target
      /\ voted.vote.yes = IF yes THEN room.vote.yes \cup {d} ELSE room.vote.yes
      /\ voted.vote.no = IF yes THEN room.vote.no ELSE room.vote.no \cup {d}
    BY <1>1, Now DEF RoomStates, Votes
<1>5. /\ room.vote.id <= ids
      /\ room.vote.starter \in room.members /\ room.vote.target \in room.members
      /\ room.vote.target # room.vote.starter /\ room.vote.target # room.host
      /\ room.vote.yes \subseteq room.members \ {room.vote.target}
      /\ room.vote.no \subseteq room.members \ {room.vote.target}
      /\ room.vote.starter \in room.vote.yes /\ room.vote.yes \cap room.vote.no = {}
    BY <1>2, Now DEF VoteFit
<1>6. voted.vote.id # 0 /\ voted.members = room.members
    BY <1>2, <1>3, <1>4 DEF OnlyVote, SameGroup
<1>7. CASE ~AllEligibleVoted(voted)
    <2>1. ResolvedIfComplete(voted) = voted
        BY <1>7 DEF ResolvedIfComplete
    <2>2. PICK A, B : A = voted.vote.yes \cup voted.vote.no
                      /\ B = voted.members \ {voted.vote.target}
        OBVIOUS
    <2>3. A \subseteq B /\ B \subseteq Device
        BY <1>2, <1>4, <1>5, <1>6, <2>2, Now
    <2>4. IsFiniteSet(A) /\ IsFiniteSet(B)
        BY <2>3, FS_Subset
    <2>5. Cardinality(A) \in Nat /\ Cardinality(B) \in Nat
        BY <2>4, FS_CardinalityType
    <2>6. ~(Cardinality(A) >= Cardinality(B))
        BY <1>6, <1>7, <2>2 DEF AllEligibleVoted, Eligible
    <2>7. Cardinality(A) < Cardinality(B)
        BY <2>5, <2>6
    <2>8. VoteFit(voted.vote, room.members, room.host, ids)
        <3>1. Cardinality(voted.vote.yes \cup voted.vote.no)
                < Cardinality(room.members \ {voted.vote.target})
            BY <1>6, <2>2, <2>7
        <3>2. voted.vote.yes \cap voted.vote.no = {}
            BY <1>2, <1>4, <1>5
        <3>3. /\ voted.vote.yes \subseteq room.members \ {voted.vote.target}
              /\ voted.vote.no \subseteq room.members \ {voted.vote.target}
              /\ voted.vote.starter \in voted.vote.yes
            BY <1>2, <1>4, <1>5
        <3> QED BY <1>4, <1>5, <1>6, <3>1, <3>2, <3>3 DEF VoteFit
    <2>9. Steps(room, voted, ids)
        BY <1>3, <1>4, <2>8, Now, VoteSteps
    <2> QED BY <1>2, <2>1, <2>9, KeptSteps
<1>8. CASE AllEligibleVoted(voted)
    <2>1. Kept(ResolveVote(voted))
        BY <1>2, <1>8 DEF ResolvedIfComplete
    <2>2. PICK w : w = [room EXCEPT !.vote = NoVote]
        OBVIOUS
    <2>3. Fine(w, ids) /\ ActiveIds(w) = {}
        BY <1>2, <2>2, Now, EndsVote DEF Over
    <2>4. /\ w.vote = NoVote /\ SameGroup(room, w) /\ w.queue = room.queue
          /\ w.score = room.score
          /\ w.rps = room.rps /\ w.ttt = room.ttt /\ w.saboteur = room.saboteur
        BY <2>2, Now, Nothing, SetVote
    <2>5. OnlyVote(w, voted)
        BY <1>3, <2>4 DEF OnlyVote, SameGroup
    <2>6. /\ voted.vote.starter \in w.members /\ voted.vote.target \in w.members
          /\ voted.vote.target # w.host
        BY <1>4, <1>5, <2>4 DEF SameGroup
    <2>7. PICK u : Resolved(w, voted.vote, u, ids) /\ ResolveVote(voted) = Drain(u)
        BY <2>3, <2>4, <2>5, <2>6, Now, ResolveGood
    <2>8. PICK t, v : t = Drain(u) /\ v = voted.vote
        OBVIOUS
    <2>9. w.queue \in Seq(Entries) /\ PartOf(w.queue, room.queue)
        BY <2>4, Now, Numbers, SamePart
    <2>10. Resolved(w, v, u, ids) /\ v.starter \in room.members /\ v.target \in room.members
        BY <1>4, <1>5, <2>7, <2>8
    <2>11. Sound(t, ids) /\ Moved(u, t) /\ Paid(room, t)
        <3>1. Sound(t, ids) /\ Moved(u, t)
            BY <2>8, <2>10, Now, DrainSound DEF Resolved
        <3>2. Reset(room, w, v)
            BY <2>4 DEF Reset
        <3>3. Paid(room, t)
            BY <1>2, <2>9, <2>10, <3>1, <3>2, Now, ResolvedPaid
        <3> QED BY <3>1, <3>3
    <2>12. SnapshotValid(t)
        BY <2>11, Now, FineValid DEF Sound
    <2>13. room' = t /\ refused' = FALSE /\ ids' = ids
        BY <2>1, <2>7, <2>8, <2>12 DEF Kept, Finalize
    <2>14. RoomInv'
        BY <2>11, <2>13, Now DEF RoomInv, RefusedForCause
    <2>15. PaidStep
        BY <2>11, <2>13 DEF PaidStep, Paid, Ended, ActiveIds
    <2>16. t.members = room.members /\ t.removals = u.removals
        BY <2>4, <2>10, <2>11 DEF Resolved, Moved, SameGroup
    <2>17. \/ t.removals = room.removals
           \/ /\ t.removals = room.removals \cup {room.vote.target}
              /\ 2 * Cardinality(v.yes) > Cardinality(room.members \ {room.vote.target})
        BY <1>4, <2>4, <2>8, <2>10, <2>16 DEF Resolved, SameGroup
    <2>18. RemovedStep
        <3> SUFFICES ASSUME NEW x \in room'.removals \ room.removals
                     PROVE  /\ x = room.vote.target /\ x # room.host
                            /\ \/ Majority(room.vote.yes \cap room'.members, x)
                               \/ \E e \in Device :
                                    CastVote(e, TRUE) /\ Majority(room.vote.yes \cup {e}, x)
            BY DEF RemovedStep
        <3>1. /\ x = room.vote.target /\ x # room.host
              /\ 2 * Cardinality(v.yes) > Cardinality(room'.members \ {x})
            BY <1>5, <2>13, <2>16, <2>17
        <3>2. CASE yes
            <4>1. v.yes = room.vote.yes \cup {d}
                BY <1>4, <2>8, <3>2
            <4>2. CastVote(d, TRUE)
                <5>1. yes = TRUE
                    BY <3>2
                <5> QED BY <5>1
            <4>3. Majority(room.vote.yes \cup {d}, x)
                BY <3>1, <4>1 DEF Majority
            <4> QED BY <3>1, <4>2, <4>3
        <3>3. CASE ~yes
            <4>1. v.yes = room.vote.yes
                BY <1>4, <2>8, <3>3
            <4>2. room.vote.yes \cap room'.members = room.vote.yes
                BY <1>5, <2>13, <2>16
            <4>3. Majority(room.vote.yes \cap room'.members, x)
                BY <3>1, <4>1, <4>2 DEF Majority
            <4> QED BY <3>1, <4>3
        <3> QED BY <3>2, <3>3
    <2> QED BY <2>14, <2>15, <2>18 DEF StepOk
<1> QED BY <1>7, <1>8

-----------------------------------------------------------------------------
(* A device leaves the group: the room without it and without a vote.         *)
LeftGroup(s, g, d) ==
    /\ g \in RoomStates
    /\ g.host = (IF s.host = d THEN NoDevice ELSE s.host)
    /\ g.pendingHost = (IF s.pendingHost = d THEN NoDevice ELSE s.pendingHost)
    /\ g.removals = s.removals \ {d} /\ g.bound = s.bound \ {d} /\ g.members = s.members \ {d}
    /\ g.closed = s.closed
    /\ g.queue \in Seq(Entries) /\ PartOf(g.queue, s.queue) /\ Unnamed(g.queue, d)
    /\ \A e \in Device : g.score[e] = IF e = d THEN 0 ELSE s.score[e]

LeftGames(s, g, d) ==
    /\ g.rps = (IF d \in {s.rps.p1, s.rps.p2} THEN NoRps ELSE s.rps)
    /\ g.ttt = (IF d \in {s.ttt.p1, s.ttt.p2} THEN NoTtt ELSE s.ttt)
    /\ g.saboteur = (IF d \in s.saboteur.players THEN NoSaboteur ELSE s.saboteur)

LEMMA DropMemberFields ==
    ASSUME NEW s \in RoomStates, NEW d \in Device
    PROVE  LET m == DropMember(s, d) IN LeftGroup(s, m, d) /\ SameGames(s, m)
<1>1. PICK w : w = WithoutEntriesOf(s, d)
    OBVIOUS
<1>2. /\ w \in RoomStates /\ SameGroup(s, w) /\ SameGames(s, w) /\ w.score = s.score
      /\ w.queue \in Seq(Entries) /\ PartOf(w.queue, s.queue) /\ Unnamed(w.queue, d)
    BY <1>1, WithoutEntries
<1>3. PICK m : m = DropMember(s, d)
    OBVIOUS
<1>4. m = [w EXCEPT !.members = @ \ {d}, !.bound = @ \ {d}, !.score[d] = 0,
                    !.removals = @ \ {d},
                    !.pendingHost = IF @ = d THEN NoDevice ELSE @,
                    !.host = IF @ = d THEN NoDevice ELSE @]
    BY <1>1, <1>3 DEF DropMember
<1>5. m \in RoomStates
    BY <1>2, <1>4 DEF RoomStates, OptDevice
<1>6. /\ m.host = (IF w.host = d THEN NoDevice ELSE w.host)
      /\ m.pendingHost = (IF w.pendingHost = d THEN NoDevice ELSE w.pendingHost)
      /\ m.removals = w.removals \ {d} /\ m.bound = w.bound \ {d}
      /\ m.members = w.members \ {d} /\ m.closed = w.closed /\ m.queue = w.queue
      /\ SameGames(w, m)
    BY <1>2, <1>4 DEF RoomStates, SameGames
<1>7. \A e \in Device : m.score[e] = IF e = d THEN 0 ELSE w.score[e]
    BY <1>2, <1>4 DEF RoomStates
<1> QED BY <1>2, <1>3, <1>5, <1>6, <1>7 DEF LeftGroup, SameGroup, SameGames

LEMMA DropGamesFields ==
    ASSUME NEW s \in RoomStates, NEW d \in Device
    PROVE  LET g == DropGames(s, d)
           IN  /\ g \in RoomStates /\ SameGroup(s, g) /\ g.queue = s.queue /\ g.score = s.score
               /\ g.vote = s.vote /\ LeftGames(s, g, d)
<1>1. PICK g : g = DropGames(s, d)
    OBVIOUS
<1>2. g = [s EXCEPT !.rps = IF d \in {@.p1, @.p2} THEN NoRps ELSE @,
                    !.ttt = IF d \in {@.p1, @.p2} THEN NoTtt ELSE @,
                    !.saboteur = IF d \in @.players THEN NoSaboteur ELSE @]
    BY <1>1 DEF DropGames
<1>3. g \in RoomStates
    BY <1>2, Nothing DEF RoomStates
<1>4. SameGroup(s, g) /\ g.queue = s.queue /\ g.score = s.score /\ g.vote = s.vote
    BY <1>2 DEF RoomStates, SameGroup
<1>5. LeftGames(s, g, d)
    BY <1>2 DEF RoomStates, LeftGames
<1> QED BY <1>1, <1>3, <1>4, <1>5

(* Games whose players stay are not dropped.                                  *)
LEMMA StayingGames ==
    ASSUME NEW n \in Nat, NEW s, Good(s, n), NEW d \in Device, d \notin s.members, NEW g,
           LeftGames(s, g, d)
    PROVE  g.rps = s.rps /\ g.ttt = s.ttt /\ g.saboteur = s.saboteur
<1>1. d # NoDevice
    OBVIOUS
<1>2. d \notin {s.rps.p1, s.rps.p2}
    BY <1>1 DEF Good, RpsFit, NoRps
<1>3. d \notin {s.ttt.p1, s.ttt.p2}
    BY <1>1 DEF Good, TttFit, NoTtt
<1>4. d \notin s.saboteur.players
    BY <1>1 DEF Good, SabFit, NoSaboteur
<1> QED BY <1>2, <1>3, <1>4 DEF LeftGames

LEMMA LeftFine ==
    ASSUME NEW n \in Nat, NEW s, Fine(s, n), NEW d \in Device, NEW g,
           LeftGroup(s, g, d), LeftGames(s, g, d), g.vote = NoVote
    PROVE  Fine(g, n)
<1>1. Good(s, n) /\ Hosted(s.queue, s.host) /\ s.queue \in Seq(Entries) /\ d # NoDevice
      /\ s.members \subseteq Device
    BY Numbers DEF Fine
<1>2. Group(g.bound, g.members, g.host, g.pendingHost, g.removals)
    <2>1. /\ s.members \subseteq s.bound
          /\ s.host \in s.members \cup {NoDevice} /\ s.pendingHost \in s.members \cup {NoDevice}
          /\ s.removals \subseteq s.members \ {s.host}
          /\ s.removals # {} => s.pendingHost = NoDevice
        BY <1>1 DEF Good, Group
    <2>2. g.members \subseteq g.bound
        BY <2>1 DEF LeftGroup
    <2>3. g.host \in g.members \cup {NoDevice} /\ g.pendingHost \in g.members \cup {NoDevice}
        BY <2>1 DEF LeftGroup
    <2>4. g.removals \subseteq g.members \ {g.host}
        <3>1. g.removals = s.removals \ {d} /\ g.members = s.members \ {d}
              /\ (g.host = NoDevice \/ g.host = s.host)
            BY DEF LeftGroup
        <3>2. NoDevice \notin s.members
            BY <1>1
        <3> QED BY <2>1, <3>1, <3>2
    <2>5. g.removals # {} => g.pendingHost = NoDevice
        BY <2>1 DEF LeftGroup
    <2> QED BY <2>2, <2>3, <2>4, <2>5 DEF Group
<1>3. PICK p, q : p = s.queue /\ q = g.queue
    OBVIOUS
<1>4. p \in Seq(Entries) /\ q \in Seq(Entries) /\ PartOf(q, p) /\ Unnamed(q, d)
    BY <1>1, <1>3 DEF LeftGroup
<1>5. /\ QueueFit(p, s.members \ s.removals, n)
      /\ Fresh(p, s.vote.id, s.rps.id, s.ttt.id, s.saboteur.id)
    BY <1>1, <1>3 DEF Good
<1>6. /\ QueueFit(q, s.members \ s.removals, n)
      /\ Fresh(q, s.vote.id, s.rps.id, s.ttt.id, s.saboteur.id)
    BY <1>4, <1>5, PartFit
<1>7. QueueFit(q, g.members \ g.removals, n)
    <2>1. \A i \in 1..Len(q) : EntryFit(q[i], g.members \ g.removals, n)
        <3> TAKE i \in 1..Len(q)
        <3>1. PICK e : e = q[i]
            OBVIOUS
        <3>2. EntryFit(e, s.members \ s.removals, n) /\ ~Names(e, d)
            BY <1>4, <1>6, <3>1 DEF QueueFit, Unnamed
        <3>3. g.members \ g.removals = (s.members \ s.removals) \ {d}
            BY DEF LeftGroup
        <3>4. EntryFit(e, g.members \ g.removals, n)
            BY <3>2, <3>3 DEF EntryFit, Names
        <3> QED BY <3>1, <3>4
    <2> QED BY <1>6, <2>1 DEF QueueFit
<1>8. Hosted(q, g.host)
    <2>1. Hosted(q, s.host)
        BY <1>1, <1>3, <1>4, PartHosted
    <2>2. \A i \in 1..Len(q) : q[i].game = "vote" => q[i].target # NoDevice
        BY <1>6 DEF QueueFit, EntryFit, Targeted
    <2> QED BY <2>1, <2>2 DEF Hosted, LeftGroup
<1>9. /\ g.rps.id = 0 \/ g.rps.id = s.rps.id
      /\ g.ttt.id = 0 \/ g.ttt.id = s.ttt.id
      /\ g.saboteur.id = 0 \/ g.saboteur.id = s.saboteur.id
      /\ g.vote.id = 0
    BY Nothing DEF LeftGames
<1>10. One(g.vote.id, g.rps.id, g.ttt.id, g.saboteur.id, g.pendingHost)
    <2>1. g.pendingHost # NoDevice => s.pendingHost # NoDevice
        BY DEF LeftGroup
    <2> QED BY <1>1, <1>9, <2>1 DEF Good, One
<1>11. Fresh(q, g.vote.id, g.rps.id, g.ttt.id, g.saboteur.id)
    <2>1. \A i \in 1..Len(q) : q[i].id # 0
        BY <1>6 DEF QueueFit, EntryFit
    <2> QED BY <1>6, <1>9, <2>1 DEF Fresh
<1>12. VoteFit(g.vote, g.members, g.host, n)
    BY Nothing DEF VoteFit
<1>13. RpsFit(g.rps, g.members, g.host, n)
    <2>1. CASE g.rps = NoRps
        BY <2>1, Nothing DEF RpsFit
    <2>2. CASE g.rps = s.rps /\ d \notin {s.rps.p1, s.rps.p2}
        <3>1. RpsFit(s.rps, s.members, s.host, n)
            BY <1>1 DEF Good
        <3>2. g.members = s.members \ {d} /\ (s.host # d => g.host = s.host)
            BY DEF LeftGroup
        <3> QED BY <2>2, <3>1, <3>2 DEF RpsFit
    <2> QED BY <2>1, <2>2 DEF LeftGames
<1>14. TttFit(g.ttt, g.members, n)
    <2>1. CASE g.ttt = NoTtt
        BY <2>1, Nothing DEF TttFit
    <2>2. CASE g.ttt = s.ttt /\ d \notin {s.ttt.p1, s.ttt.p2}
        BY <1>1, <2>2 DEF TttFit, Good, LeftGroup
    <2> QED BY <2>1, <2>2 DEF LeftGames
<1>15. SabFit(g.saboteur, g.members, n)
    <2>1. CASE g.saboteur = NoSaboteur
        BY <2>1, Nothing DEF SabFit
    <2>2. CASE g.saboteur = s.saboteur /\ d \notin s.saboteur.players
        <3>1. SabFit(s.saboteur, s.members, n) /\ g.members = s.members \ {d}
            BY <1>1 DEF Good, LeftGroup
        <3> QED BY <2>2, <3>1 DEF SabFit
    <2> QED BY <2>1, <2>2 DEF LeftGames
<1>16. Good(g, n)
    BY <1>2, <1>3, <1>7, <1>10, <1>11, <1>12, <1>13, <1>14, <1>15 DEF Good, LeftGroup
<1> QED BY <1>3, <1>8, <1>16 DEF Fine

(* No device gains a point by a departure.                                    *)
LEMMA PaidLess ==
    ASSUME NEW s, NEW t, \A e \in Device : ~(t.score[e] > s.score[e])
    PROVE  Paid(s, t)
BY DEF Paid

Lifts(s, d) ==
    \/ d \in s.removals \/ d = s.pendingHost
    \/ CancelledVote(s, d)
    \/ s.rps.id # 0 /\ d \in {s.rps.p1, s.rps.p2}
    \/ s.ttt.id # 0 /\ d \in {s.ttt.p1, s.ttt.p2}
    \/ d \in s.saboteur.players

LEMMA LeftSound ==
    ASSUME NEW n \in Nat, NEW s, Sound(s, n), NEW d \in Device, NEW g,
           LeftGroup(s, g, d), LeftGames(s, g, d), g.vote = NoVote,
           ~Lifts(s, d) => s.vote.id = 0
    PROVE  Steps(s, IF Lifts(s, d) THEN Drain(g) ELSE g, n)
<1>1. Fine(s, n) /\ Good(s, n) /\ s.queue \in Seq(Entries)
      /\ \A e \in Device : s.score[e] \in Nat
    <2>1. Fine(s, n) /\ Good(s, n)
        BY DEF Sound, Fine
    <2> QED BY <2>1, Numbers
<1>2. Fine(g, n)
    BY <1>1, LeftFine
<1>3. CASE Lifts(s, d)
    <2>1. PICK t : t = Drain(g)
        OBVIOUS
    <2>2. Sound(t, n) /\ Moved(g, t)
        BY <1>2, <2>1, DrainSound
    <2>3. \A e \in Device : ~(t.score[e] > s.score[e])
        BY <1>1, <2>2 DEF Moved, LeftGroup
    <2>4. t.removals \subseteq s.removals
        BY <2>2 DEF Moved, SameGroup, LeftGroup
    <2> QED BY <1>3, <2>1, <2>2, <2>3, <2>4, PaidLess DEF Steps
<1>4. CASE ~Lifts(s, d)
    <2>1. /\ d \notin s.removals /\ d # s.pendingHost /\ s.vote.id = 0
          /\ s.rps.id = 0 \/ d \notin {s.rps.p1, s.rps.p2}
          /\ s.ttt.id = 0 \/ d \notin {s.ttt.p1, s.ttt.p2}
          /\ d \notin s.saboteur.players
        BY <1>4 DEF Lifts
    <2>2. s.rps.id = 0 => g.rps.id = 0
        BY Nothing DEF LeftGames
    <2>3. s.ttt.id = 0 => g.ttt.id = 0
        BY Nothing DEF LeftGames
    <2>4. g.rps.id = s.rps.id
        BY <2>1, <2>2 DEF LeftGames
    <2>5. g.ttt.id = s.ttt.id
        BY <2>1, <2>3 DEF LeftGames
    <2>6. g.saboteur.id = s.saboteur.id /\ g.vote.id = s.vote.id
        BY <2>1, Nothing DEF LeftGames
    <2>7. g.removals = s.removals /\ g.pendingHost = s.pendingHost /\ g.closed = s.closed
        BY <2>1 DEF LeftGroup
    <2>8. g.queue # <<>> => s.queue # <<>>
        <3>1. g.queue \in Seq(Entries) /\ Len(g.queue) <= Len(s.queue)
            BY DEF LeftGroup, PartOf
        <3>2. s.queue = <<>> => Len(s.queue) = 0
            OBVIOUS
        <3>3. Len(g.queue) \in Nat /\ (Len(g.queue) = 0 => g.queue = <<>>)
            BY <3>1
        <3> QED BY <3>1, <3>2, <3>3
    <2>9. Waits(g)
        BY <2>4, <2>5, <2>6, <2>7, <2>8 DEF Sound, Waits, Barred, ActiveGame, ActiveIds
    <2>10. \A e \in Device : ~(g.score[e] > s.score[e])
        BY <1>1 DEF LeftGroup
    <2>11. g.removals \subseteq s.removals
        BY <2>7
    <2> QED BY <1>2, <1>4, <2>9, <2>10, <2>11, PaidLess DEF Steps, Sound
<1> QED BY <1>3, <1>4

(* What the commit of a departure leaves.                                     *)
LEMMA ReconcileSteps ==
    ASSUME RoomInv, NEW d \in Device, Reconcile(d), NEW t, t = Reconciled(room, d),
           Sound(t, ids), Paid(room, t), NEW x, x = room.vote.target,
           \/ t.removals \subseteq room.removals
           \/ /\ t.removals \subseteq room.removals \cup {x} /\ x # room.host
              /\ 2 * Cardinality(room.vote.yes \cap t.members) > Cardinality(t.members \ {x})
    PROVE  StepOk
<1>1. SnapshotValid(t) /\ MatchesMembership(t)
    BY Now, FineValid DEF Sound
<1>2. room' = t /\ refused' = FALSE /\ ids' = ids
    BY <1>1 DEF Reconcile, Finalize
<1>3. RoomInv'
    BY <1>2, Now DEF RoomInv, RefusedForCause
<1>4. PaidStep
    BY <1>2 DEF PaidStep, Paid, Ended, ActiveIds
<1>5. RemovedStep
    BY <1>2 DEF RemovedStep, Majority
<1> QED BY <1>3, <1>4, <1>5 DEF StepOk

LEMMA MovedMoved ==
    ASSUME NEW a, NEW b, NEW c, a.queue \in Seq(Entries), Moved(a, b), Moved(b, c)
    PROVE  Moved(a, c)
<1>1. PICK p, q, r : p = a.queue /\ q = b.queue /\ r = c.queue
    OBVIOUS
<1>2. /\ p \in Seq(Entries) /\ q \in Seq(Entries) /\ r \in Seq(Entries)
      /\ PartOf(q, p) /\ PartOf(r, q)
    BY <1>1 DEF Moved
<1>3. PartOf(r, p)
    BY <1>2, PartPart
<1>4. Follows(a, c)
    <2> SUFFICES ASSUME NEW x \in ActiveIds(c)
                 PROVE  x \in ActiveIds(a) \/ \E k \in 1..Len(p) : p[k].id = x
        BY <1>1 DEF Follows
    <2>1. CASE x \in ActiveIds(b)
        BY <1>1, <2>1 DEF Moved, Follows
    <2>2. CASE \E k \in 1..Len(q) : q[k].id = x
        <3>1. PICK k \in 1..Len(q) : q[k].id = x
            BY <2>2
        <3>2. \E j \in 1..Len(p) : q[k] = p[j]
            BY <1>2, PartIn
        <3> QED BY <3>1, <3>2
    <2> QED BY <1>1, <2>1, <2>2 DEF Moved, Follows
<1> QED BY <1>1, <1>2, <1>3, <1>4 DEF Moved, SameGroup

LEMMA ReconcileOk ==
    ASSUME RoomInv, NEW d \in Device, Reconcile(d)
    PROVE  StepOk
<1>1. PICK m : m = DropMember(room, d)
    OBVIOUS
<1>2. LeftGroup(room, m, d) /\ SameGames(room, m) /\ m \in RoomStates
    BY <1>1, Now, DropMemberFields DEF LeftGroup
<1>3. PICK r : r = DropVote(m, d)
    OBVIOUS
<1>4. PICK g : g = DropGames(r, d)
    OBVIOUS
<1>5. PICK t : t = Reconciled(room, d)
    OBVIOUS
<1>6. t = IF Lifts(room, d) THEN Drain(g) ELSE g
    BY <1>1, <1>3, <1>4, <1>5 DEF Reconciled, Lifts
<1>7. CASE room.vote.id = 0 \/ d \in {room.vote.starter, room.vote.target}
    <2>1. /\ r \in RoomStates /\ SameGroup(m, r) /\ r.queue = m.queue /\ r.score = m.score
          /\ r.vote = NoVote /\ r.rps = m.rps /\ r.ttt = m.ttt /\ r.saboteur = m.saboteur
        <3>1. CASE room.vote.id = 0
            <4>1. m.vote.id = 0 /\ m.vote = NoVote
                BY <1>2, <3>1, Now DEF VoteFit, SameGames
            <4>2. r = m
                BY <1>3, <4>1 DEF DropVote
            <4> QED BY <1>2, <4>1, <4>2 DEF SameGroup
        <3>2. CASE room.vote.id # 0 /\ d \in {room.vote.starter, room.vote.target}
            <4>1. m.vote = room.vote
                BY <1>2 DEF SameGames
            <4>2. r = [m EXCEPT !.vote = NoVote]
                BY <1>3, <3>2, <4>1 DEF DropVote
            <4> QED BY <1>2, <4>2, Nothing, SetVote
        <3> QED BY <1>7, <3>1, <3>2
    <2>2. /\ g \in RoomStates /\ SameGroup(r, g) /\ g.queue = r.queue /\ g.score = r.score
          /\ g.vote = r.vote /\ LeftGames(r, g, d)
        BY <1>4, <2>1, DropGamesFields
    <2>3. LeftGroup(room, g, d)
        BY <1>2, <2>1, <2>2 DEF LeftGroup, SameGroup
    <2>4. LeftGames(room, g, d) /\ g.vote = NoVote
        BY <1>2, <2>1, <2>2 DEF LeftGames, SameGames
    <2>5. ~Lifts(room, d) => room.vote.id = 0
        BY <1>7 DEF Lifts, CancelledVote
    <2>6. Steps(room, t, ids)
        BY <1>6, <2>3, <2>4, <2>5, Now, LeftSound
    <2> QED BY <1>5, <2>6, ReconcileSteps DEF Steps
<1>8. CASE room.vote.id # 0 /\ d \notin {room.vote.starter, room.vote.target}
    <2>1. PICK v : v = room.vote
        OBVIOUS
    <2>2. /\ v.id # 0 /\ v.id <= ids
          /\ v.starter \in room.members /\ v.target \in room.members
          /\ v.target # v.starter /\ v.target # room.host
          /\ v.yes \subseteq room.members \ {v.target}
          /\ v.no \subseteq room.members \ {v.target}
          /\ v.starter \in v.yes /\ v.yes \cap v.no = {}
          /\ v \in Votes
        BY <1>8, <2>1, Now DEF VoteFit
    <2>3. PICK s : s = [m EXCEPT !.vote.yes = @ \ {d}, !.vote.no = @ \ {d}]
        OBVIOUS
    <2>4. r = ResolvedIfComplete(s)
        <3>1. m.vote = v
            BY <1>2, <2>1 DEF SameGames
        <3> QED BY <1>3, <1>8, <2>1, <2>3, <3>1 DEF DropVote
    <2>5. OnlyVote(m, s)
        BY <1>2, <2>3 DEF OnlyVote, RoomStates, SameGroup, Votes
    <2>6. /\ s.vote.id = v.id /\ s.vote.starter = v.starter /\ s.vote.target = v.target
          /\ s.vote.yes = v.yes \ {d} /\ s.vote.no = v.no \ {d}
        <3>1. /\ s.vote.id = m.vote.id /\ s.vote.starter = m.vote.starter
              /\ s.vote.target = m.vote.target
              /\ s.vote.yes = m.vote.yes \ {d} /\ s.vote.no = m.vote.no \ {d}
            BY <1>2, <2>3 DEF RoomStates, Votes
        <3> QED BY <1>2, <2>1, <3>1 DEF SameGames
    <2>7. PICK w : w = [m EXCEPT !.vote = NoVote]
        OBVIOUS
    <2>8. /\ w \in RoomStates /\ w.vote = NoVote /\ SameGroup(m, w) /\ w.queue = m.queue
          /\ w.score = m.score /\ w.rps = m.rps /\ w.ttt = m.ttt /\ w.saboteur = m.saboteur
        BY <1>2, <2>7, Nothing, SetVote
    <2>9. room.rps = NoRps /\ room.ttt = NoTtt /\ room.saboteur = NoSaboteur
        <3>1. room.rps.id = 0 /\ room.ttt.id = 0 /\ room.saboteur.id = 0
            BY <1>8, Now DEF Good, One
        <3> QED BY <3>1, Now DEF RpsFit, TttFit, SabFit
    <2>10. LeftGroup(room, w, d)
        BY <1>2, <2>8 DEF LeftGroup, SameGroup
    <2>11. LeftGames(room, w, d)
        BY <1>2, <2>8, <2>9 DEF LeftGames, SameGames
    <2>12. Fine(w, ids)
        BY <2>8, <2>10, <2>11, Now, LeftFine
    <2>13. ActiveIds(w) = {}
        BY <1>2, <2>8, <2>9, Nothing DEF ActiveIds, SameGames
    <2>14. OnlyVote(w, s)
        BY <2>5, <2>8 DEF OnlyVote, SameGroup
    <2>15. /\ w.members = room.members \ {d} /\ w.removals = room.removals \ {d}
           /\ w.queue \in Seq(Entries) /\ PartOf(w.queue, room.queue)
           /\ (w.host = room.host \/ w.host = NoDevice)
           /\ d \notin w.members
        BY <2>10 DEF LeftGroup
    <2>16. /\ s.vote.starter \in w.members /\ s.vote.target \in w.members
           /\ s.vote.target # w.host
        <3>1. v.starter # d /\ v.target # d /\ v.target # NoDevice
            BY <1>8, <2>1, <2>2, Now
        <3> QED BY <2>2, <2>6, <2>15, <3>1
    <2>17. v.yes \cap w.members = s.vote.yes
        BY <2>2, <2>6, <2>15
    <2>18. CASE AllEligibleVoted(s)
        <3>1. PICK u : Resolved(w, s.vote, u, ids) /\ ResolveVote(s) = Drain(u)
            BY <2>8, <2>12, <2>13, <2>14, <2>16, Now, ResolveGood
        <3>2. r = Drain(u)
            BY <2>4, <2>18, <3>1 DEF ResolvedIfComplete
        <3>3. PICK sv : sv = s.vote
            OBVIOUS
        <3>4. Resolved(w, sv, u, ids) /\ Fine(u, ids) /\ u.queue \in Seq(Entries)
            BY <3>1, <3>3 DEF Resolved
        <3>5. Sound(r, ids) /\ Moved(u, r)
            BY <3>2, <3>4, Now, DrainSound
        <3>6. r.members = w.members /\ Good(r, ids) /\ r \in RoomStates
            BY <3>4, <3>5, Now, Numbers DEF Resolved, Moved, SameGroup, Sound, Fine
        <3>7. /\ g \in RoomStates /\ SameGroup(r, g) /\ g.queue = r.queue /\ g.score = r.score
              /\ g.vote = r.vote /\ LeftGames(r, g, d)
            BY <1>4, <3>6, DropGamesFields
        <3>8. g.rps = r.rps /\ g.ttt = r.ttt /\ g.saboteur = r.saboteur
            BY <2>15, <3>6, <3>7, Now, StayingGames
        <3>9. Good(g, ids)
            BY <3>6, <3>7, <3>8 DEF Good, SameGroup
        <3>10. Sound(g, ids)
            BY <3>5, <3>7, <3>8, <3>9
               DEF Sound, Fine, Waits, Barred, ActiveGame, ActiveIds, SameGroup
        <3>11. Moved(r, g)
            BY <3>5, <3>7, <3>8, SamePart DEF Moved, Follows, ActiveIds, SameGroup
        <3>12. Sound(t, ids) /\ Moved(g, t)
            <4>1. CASE Lifts(room, d)
                BY <1>6, <3>10, <4>1, Now, DrainSound DEF Sound
            <4>2. CASE ~Lifts(room, d)
                BY <1>6, <3>9, <3>10, <4>2, Now, Stays
            <4> QED BY <4>1, <4>2
        <3>13. Moved(u, t)
            <4>1. Moved(u, g)
                BY <3>4, <3>5, <3>11, MovedMoved
            <4> QED BY <3>4, <3>12, <4>1, MovedMoved
        <3>14. Paid(room, t)
            <4>1. Reset(room, w, sv)
                <5>1. sv.starter # d /\ sv.target # d
                    BY <1>8, <2>1, <2>6, <3>3
                <5> QED BY <2>10, <5>1 DEF Reset, LeftGroup
            <4>2. sv.starter \in room.members /\ sv.target \in room.members
                BY <2>2, <2>6, <3>3
            <4> QED BY <1>8, <2>15, <3>4, <3>13, <4>1, <4>2, Now, ResolvedPaid
        <3>15. t.removals = u.removals /\ t.members = w.members
            BY <3>4, <3>13 DEF Moved, SameGroup, Resolved
        <3>16. \/ t.removals \subseteq room.removals
               \/ /\ t.removals \subseteq room.removals \cup {v.target} /\ v.target # room.host
                  /\ 2 * Cardinality(v.yes \cap t.members) > Cardinality(t.members \ {v.target})
            BY <2>2, <2>6, <2>15, <2>17, <3>3, <3>4, <3>15 DEF Resolved
        <3> QED BY <1>5, <2>1, <3>12, <3>14, <3>16, ReconcileSteps
    <2>19. CASE ~AllEligibleVoted(s)
        <3>1. r = s /\ s \in RoomStates
            BY <2>4, <2>5, <2>19 DEF ResolvedIfComplete, OnlyVote
        <3>2. /\ g \in RoomStates /\ SameGroup(s, g) /\ g.queue = s.queue /\ g.score = s.score
              /\ g.vote = s.vote /\ LeftGames(s, g, d)
            BY <1>4, <3>1, DropGamesFields
        <3>3. g.rps = w.rps /\ g.ttt = w.ttt /\ g.saboteur = w.saboteur
            <4>1. w.rps = NoRps /\ w.ttt = NoTtt /\ w.saboteur = NoSaboteur
                BY <1>2, <2>8, <2>9 DEF SameGames
            <4>2. s.rps = w.rps /\ s.ttt = w.ttt /\ s.saboteur = w.saboteur
                BY <2>14 DEF OnlyVote
            <4> QED BY <3>2, <4>1, <4>2 DEF LeftGames
        <3>4. SameGroup(w, g) /\ g.queue = w.queue /\ g.score = w.score
            BY <2>14, <3>2 DEF OnlyVote, SameGroup
        <3>5. VoteFit(g.vote, w.members, w.host, ids)
            <4>1. PICK A, B : A = s.vote.yes \cup s.vote.no
                              /\ B = w.members \ {s.vote.target}
                OBVIOUS
            <4>2. A \subseteq B /\ B \subseteq Device
                BY <2>2, <2>6, <2>15, <4>1, Now
            <4>3. Cardinality(A) \in Nat /\ Cardinality(B) \in Nat
                BY <4>2, FS_Subset, FS_CardinalityType
            <4>4. ~(Cardinality(A) >= Cardinality(B))
                <5>1. s.members = w.members
                    BY <2>14 DEF OnlyVote, SameGroup
                <5> QED BY <2>2, <2>6, <2>19, <4>1, <5>1 DEF AllEligibleVoted, Eligible
            <4>5. Cardinality(s.vote.yes \cup s.vote.no) < Cardinality(w.members \ {s.vote.target})
                BY <4>1, <4>3, <4>4
            <4>6. s.vote.yes \cap s.vote.no = {} /\ s.vote.starter \in s.vote.yes
                BY <1>8, <2>1, <2>2, <2>6
            <4>7. /\ s.vote.yes \subseteq w.members \ {s.vote.target}
                  /\ s.vote.no \subseteq w.members \ {s.vote.target}
                BY <4>1, <4>2
            <4> QED BY <2>2, <2>6, <2>16, <3>2, <4>5, <4>6, <4>7 DEF VoteFit
        <3>6. Good(w, ids)
            BY <2>12 DEF Fine
        <3>7. g.rps.id = 0 /\ g.ttt.id = 0 /\ g.saboteur.id = 0 /\ g.vote.id = v.id
            BY <1>2, <2>6, <2>8, <2>9, <3>2, <3>3, Nothing DEF SameGames
        <3>8. Fresh(g.queue, g.vote.id, g.rps.id, g.ttt.id, g.saboteur.id)
            <4>1. PICK p, q : p = room.queue /\ q = w.queue
                OBVIOUS
            <4>2. p \in Seq(Entries) /\ q \in Seq(Entries) /\ PartOf(q, p)
                BY <2>15, <4>1, Now, Numbers
            <4>3. \A i \in 1..Len(p) : p[i].id # v.id /\ p[i].id # 0
                <5>1. Good(room, ids)
                    BY Now
                <5>2. Fresh(room.queue, room.vote.id, room.rps.id, room.ttt.id, room.saboteur.id)
                    BY <5>1 DEF Good
                <5>3. \A i \in 1..Len(room.queue) : room.queue[i].id # 0
                    BY <5>1, Now, Numbers
                <5> QED BY <2>1, <4>1, <5>2, <5>3 DEF Fresh
            <4>4. \A i \in 1..Len(q) : q[i].id # v.id /\ q[i].id # 0
                BY <4>2, <4>3, PartIn
            <4> QED BY <3>4, <3>7, <4>1, <4>4 DEF Fresh
        <3>9. One(g.vote.id, g.rps.id, g.ttt.id, g.saboteur.id, g.pendingHost)
            <4>1. room.pendingHost = NoDevice
                BY <1>8, Now DEF Good, One
            <4>2. g.pendingHost = NoDevice
                BY <2>10, <3>4, <4>1 DEF LeftGroup, SameGroup
            <4> QED BY <3>7, <4>2 DEF One
        <3>10. Good(g, ids)
            <4>1. /\ Group(g.bound, g.members, g.host, g.pendingHost, g.removals)
                  /\ QueueFit(g.queue, g.members \ g.removals, ids)
                BY <3>4, <3>6 DEF Good, SameGroup
            <4>2. /\ VoteFit(g.vote, g.members, g.host, ids)
                  /\ RpsFit(g.rps, g.members, g.host, ids)
                  /\ TttFit(g.ttt, g.members, ids) /\ SabFit(g.saboteur, g.members, ids)
                BY <3>3, <3>4, <3>5, <3>6 DEF Good, SameGroup
            <4> QED BY <3>2, <3>8, <3>9, <4>1, <4>2 DEF Good
        <3>11. Fine(g, ids)
            BY <2>12, <3>4, <3>10 DEF Fine, SameGroup
        <3>12. Waits(g)
            BY <2>2, <3>7 DEF Waits, Barred, ActiveGame, ActiveIds
        <3>13. Sound(t, ids) /\ Moved(g, t)
            <4>1. CASE Lifts(room, d)
                BY <1>6, <3>11, <4>1, Now, DrainSound
            <4>2. CASE ~Lifts(room, d)
                BY <1>6, <3>10, <3>11, <3>12, <4>2, Now, Stays DEF Sound
            <4> QED BY <4>1, <4>2
        <3>14. Paid(room, t)
            <4>1. \A e \in Device : room.score[e] \in Nat
                BY Now, Numbers
            <4>2. t.score = w.score
                BY <3>4, <3>13 DEF Moved
            <4>3. \A e \in Device : ~(t.score[e] > room.score[e])
                BY <2>10, <4>1, <4>2 DEF LeftGroup
            <4> QED BY <4>3, PaidLess
        <3>15. t.removals \subseteq room.removals
            BY <2>15, <3>4, <3>13 DEF Moved, SameGroup
        <3> QED BY <1>5, <2>1, <3>13, <3>14, <3>15, ReconcileSteps
    <2> QED BY <2>18, <2>19
<1> QED BY <1>7, <1>8

-----------------------------------------------------------------------------
LEMMA InitOk == Init => RoomInv
<1> SUFFICES ASSUME Init PROVE RoomInv
    OBVIOUS
<1>1. PICK s : s = NewState({Founder})
    OBVIOUS
<1>2. /\ s.host = Founder /\ s.pendingHost = NoDevice /\ s.removals = {} /\ s.bound = {Founder}
      /\ s.members = {Founder} /\ s.closed = FALSE /\ s.queue = <<>>
      /\ s.vote = NoVote /\ s.rps = NoRps /\ s.ttt = NoTtt /\ s.saboteur = NoSaboteur
      /\ s.score = [d \in Device |-> 0]
    BY <1>1 DEF NewState
<1>3. s \in RoomStates
    <2>1. [d \in Device |-> 0] \in [Device -> Nat]
        OBVIOUS
    <2>2. <<>> \in Seq(Entries)
        OBVIOUS
    <2>3. Founder \in Device
        OBVIOUS
    <2> QED BY <1>1, <2>1, <2>2, <2>3, Nothing DEF NewState, RoomStates, OptDevice
<1>4. Group(s.bound, s.members, s.host, s.pendingHost, s.removals)
    BY <1>2 DEF Group
<1>5. QueueFit(s.queue, s.members \ s.removals, 0) /\ s.queue \in Seq(Entries)
    BY <1>2 DEF QueueFit
<1>6. /\ VoteFit(s.vote, s.members, s.host, 0) /\ RpsFit(s.rps, s.members, s.host, 0)
      /\ TttFit(s.ttt, s.members, 0) /\ SabFit(s.saboteur, s.members, 0)
    BY <1>2, Nothing DEF VoteFit, RpsFit, TttFit, SabFit
<1>7. /\ Fresh(s.queue, s.vote.id, s.rps.id, s.ttt.id, s.saboteur.id)
      /\ One(s.vote.id, s.rps.id, s.ttt.id, s.saboteur.id, s.pendingHost)
    BY <1>2, Nothing DEF Fresh, One
<1>8. Good(s, 0)
    BY <1>3, <1>4, <1>5, <1>6, <1>7 DEF Good
<1>9. Sound(s, 0)
    BY <1>2, <1>8 DEF Sound, Fine, Waits, Hosted
<1> QED BY <1>1, <1>9 DEF Init, RoomInv, RefusedForCause

LEMMA MemberOk ==
    ASSUME RoomInv, NEW d \in Device, MemberNext(d)
    PROVE  StepOk
<1>1. CASE Admit(d)       BY <1>1, AdmitOk
<1>2. CASE Profile(d)     BY <1>2, ProfileOk
<1>3. CASE Leave(d)       BY <1>3, LeaveOk
<1>4. CASE Reconcile(d)   BY <1>4, ReconcileOk
<1>5. CASE RoomClose(d)   BY <1>5, RoomCloseOk
<1>6. CASE AcceptHost(d)  BY <1>6, AcceptHostOk
<1>7. CASE RejectHost(d)  BY <1>7, RejectHostOk
<1>8. CASE \E target \in Device : PillowToss(d, target) \/ OfferHost(d, target)
    BY <1>8, OffersOk
<1> QED BY <1>1, <1>2, <1>3, <1>4, <1>5, <1>6, <1>7, <1>8 DEF MemberNext

LEMMA GameOk ==
    ASSUME RoomInv, NEW d \in Device, GameNext(d)
    PROVE  StepOk
<1>1. CASE \E game \in GameKind, target \in Device \cup {NoDevice} : Enqueue(d, game, target)
    BY <1>1, EnqueueOk DEF OptDevice
<1>2. CASE \E i \in 1..Len(room.queue) : CancelRequest(d, i)
    BY <1>2, CancelRequestOk
<1>3. CASE \E target \in Device : StartVote(d, target)
    BY <1>3, StartVoteOk
<1>4. CASE \E target \in Device : StartRps(d, target)
    BY <1>4, StartRpsOk
<1>5. CASE \E target \in Device : StartTtt(d, target)
    BY <1>5, StartTttOk
<1>6. CASE CancelVote(d)  BY <1>6, CancelVoteOk
<1>7. CASE \E yes \in BOOLEAN : CastVote(d, yes)
    BY <1>7, CastVoteOk
<1>8. CASE StartKoth(d)   BY <1>8, StartKothOk
<1>9. CASE AcceptGame(d)  BY <1>9, AcceptGameOk
<1>10. CASE CancelGame(d) BY <1>10, CancelGameOk
<1>11. CASE Forfeit(d)    BY <1>11, ForfeitOk
<1>12. CASE CommitPick(d) BY <1>12, CommitPickOk
<1>13. CASE RevealPick(d) BY <1>13, RevealPickOk
<1>14. CASE Move(d)       BY <1>14, MoveOk
<1> QED BY <1>1, <1>2, <1>3, <1>4, <1>5, <1>6, <1>7, <1>8, <1>9, <1>10, <1>11, <1>12,
           <1>13, <1>14 DEF GameNext

LEMMA SaboteurOk ==
    ASSUME RoomInv, NEW d \in Device, SaboteurNext(d)
    PROVE  StepOk
<1>1. CASE StartSaboteur(d) BY <1>1, StartSaboteurOk
<1>2. CASE CommitEntropy(d) BY <1>2, CommitEntropyOk
<1>3. CASE RevealEntropy(d) BY <1>3, RevealEntropyOk
<1>4. CASE CloseSaboteur(d) BY <1>4, CloseSaboteurOk
<1>5. CASE \E suspect \in Device : Accuse(d, suspect)
    BY <1>5, AccuseOk
<1>6. CASE \E yes \in BOOLEAN : VoteAccusation(d, yes)
    BY <1>6, VoteAccusationOk
<1>7. CASE Strike(d)        BY <1>7, StrikeOk
<1> QED BY <1>1, <1>2, <1>3, <1>4, <1>5, <1>6, <1>7 DEF SaboteurNext

LEMMA NextOk == RoomInv /\ Next => StepOk
BY MemberOk, GameOk, SaboteurOk DEF Next

LEMMA StutterOk == RoomInv /\ UNCHANGED vars => RoomInv'
<1> SUFFICES ASSUME RoomInv, UNCHANGED vars PROVE RoomInv'
    OBVIOUS
<1>1. room' = room /\ ids' = ids /\ refused' = refused
    BY DEF vars
<1> QED BY <1>1 DEF RoomInv, RefusedForCause, VoteQueuedAgainst

(* Whatever its members do, the snapshot every member holds is one the code's *)
(* own check takes: the host and the offered host are members, a request is   *)
(* of a member that stays, a game of members that are there, one game at a    *)
(* time, and no identifier of a game comes back.                              *)
THEOREM RoomSound == Spec => []RoomInv
<1>1. RoomInv /\ [Next]_vars => RoomInv'
    BY NextOk, StutterOk DEF StepOk
<1> QED BY InitOk, <1>1, PTL DEF Spec

(* No request is left waiting in the queue of an open room without a game, an *)
(* offer or a removal that is to end: none of the events that lift the last   *)
(* of these forgets to start the next game.                                   *)
THEOREM NoRequestForgotten == Spec => []QueueWaitsForCause
<1>1. RoomInv => QueueWaitsForCause
    BY DEF RoomInv, Sound, Waits, QueueWaitsForCause
<1> QED BY RoomSound, <1>1, PTL

(* What a handler takes, the snapshot check takes, but for the two conflicts  *)
(* named: a vote that waits against the offered host, and King of the Hill    *)
(* won while a removal is pending.                                            *)
THEOREM NothingElseRefused == Spec => []RefusedForCause
<1>1. RoomInv => RefusedForCause
    BY DEF RoomInv
<1> QED BY RoomSound, <1>1, PTL

(* Nobody is removed but by its own leave or by a majority of those asked, in *)
(* a room of any size and whoever departs meanwhile.                          *)
THEOREM NobodyElseRemoved == Spec => RemovedByMajority
<1>1. RoomInv /\ [Next]_vars => [RemovedStep]_vars
    BY NextOk DEF StepOk
<1> QED BY RoomSound, <1>1, PTL DEF Spec, RemovedByMajority, RemovedStep

(* A game gives its point once, to a member, and as it ends.                  *)
THEOREM EachGamePaysOnce == Spec => PaidOnce
<1>1. RoomInv /\ [Next]_vars => [PaidStep]_vars
    BY NextOk DEF StepOk
<1> QED BY RoomSound, <1>1, PTL DEF Spec, PaidOnce, PaidStep
=============================================================================
