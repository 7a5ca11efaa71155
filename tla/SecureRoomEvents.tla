--------------------------- MODULE SecureRoomEvents ---------------------------
(* The room as its members see it: every signed event the host's relay orders *)
(* is reduced by every member to the same next state                          *)
(* (src/src/secureGameReducer.ts).  One action per event of a device and one  *)
(* for each change of the MLS roster.  An event its handler refuses changes   *)
(* nothing; one whose outcome is not a valid snapshot is refused as well,     *)
(* which `refused` records.                                                   *)
EXTENDS RoomGames

CONSTANTS
    MaxGameIds,     \* the games and requests a behaviour may name
    Kinds           \* the games that are played

VARIABLES
    room,           \* the state every member holds
    ids,            \* the number of games and requests named so far
    refused         \* the last event was refused after its handler took it

vars == <<room, ids, refused>>

ASSUME KindsAssumption == Kinds \subseteq GameKind /\ MaxGameIds \in Nat

Init ==
    /\ room = NewState({Founder})
    /\ ids = 0
    /\ refused = FALSE

(****************************************************************************)
(* Every event of a device passes through here, and every new state.        *)
(****************************************************************************)
MayAct(d) == ~room.closed /\ d \in room.members \ room.removals

Finalize(new, valid) ==
    IF valid THEN room' = new /\ refused' = FALSE
             ELSE UNCHANGED room /\ refused' = TRUE

Kept(new) == Finalize(new, SnapshotValid(new)) /\ UNCHANGED ids
Named(new) ==
    /\ Finalize(new, SnapshotValid(new))
    /\ ids' = IF SnapshotValid(new) THEN ids + 1 ELSE ids

(****************************************************************************)
(* Members.                                                                 *)
(****************************************************************************)
(* The host admits a device to the group; its profile makes it a member.      *)
Admit(d) ==
    /\ ~room.closed /\ d \notin room.bound
    /\ room' = [room EXCEPT !.bound = @ \cup {d}]
    /\ refused' = FALSE
    /\ UNCHANGED ids

Profile(d) ==
    /\ ~room.closed /\ d \in room.bound \ room.members
    /\ Kept([room EXCEPT !.members = @ \cup {d}])

Leave(d) ==
    /\ MayAct(d) /\ d # room.host
    /\ Kept(MarkPendingRemoval(room, d))

(* The commit that takes a device out of the group; a host must hand the room *)
(* over before, unless the room is closed.                                    *)
Reconcile(d) ==
    /\ d \in room.bound
    /\ d = room.host => room.closed
    /\ LET new == Reconciled(room, d)
       IN Finalize(new, SnapshotValid(new) /\ MatchesMembership(new))
    /\ UNCHANGED ids

RoomClose(d) ==
    /\ MayAct(d) /\ d = room.host
    /\ Kept([room EXCEPT !.closed = TRUE])

(****************************************************************************)
(* The host.  A tossed pillow and an offer differ in what may be repeated.  *)
(****************************************************************************)
PillowToss(d, target) ==
    /\ MayAct(d) /\ d = room.host /\ ~Barred(room)
    /\ target \in room.members \ {d}
    /\ Kept([room EXCEPT !.pendingHost = target])

OfferHost(d, target) ==
    /\ MayAct(d) /\ d = room.host
    /\ ~ActiveGame(room) /\ room.removals = {}
    /\ room.pendingHost \in {NoDevice, target}
    /\ target \in room.members \ {d}
    /\ Kept([room EXCEPT !.pendingHost = target])

AcceptHost(d) ==
    /\ MayAct(d) /\ d = room.pendingHost
    /\ Kept(Drain([room EXCEPT !.host = d, !.pendingHost = NoDevice]))

RejectHost(d) ==
    /\ MayAct(d) /\ d = room.pendingHost
    /\ Kept(Drain([room EXCEPT !.pendingHost = NoDevice]))

(****************************************************************************)
(* The queue.                                                               *)
(****************************************************************************)
Request(game, d, target) == [id |-> ids + 1, game |-> game, by |-> d, target |-> target]

Enqueue(d, game, target) ==
    /\ MayAct(d) /\ game \in Kinds /\ ids < MaxGameIds
    /\ Len(room.queue) < MaxGameQueue
    /\ IF game \in Targeted
       THEN /\ target \in room.members \ (room.removals \cup {d})
            /\ ~(game = "vote" /\ target = room.host)
       ELSE target = NoDevice
    /\ Named(Drain([room EXCEPT !.queue = Append(@, Request(game, d, target))]))

CancelRequest(d, i) ==
    /\ MayAct(d)
    /\ d \in {room.queue[i].by, room.host}
    /\ Kept([room EXCEPT !.queue = SubSeq(@, 1, i - 1) \o SubSeq(@, i + 1, Len(@))])

(****************************************************************************)
(* A vote to remove a member.                                               *)
(****************************************************************************)
Challenge(d, game, new) ==
    /\ MayAct(d) /\ game \in Kinds /\ ids < MaxGameIds /\ ~Barred(room)
    /\ Named(new)

StartVote(d, target) ==
    /\ Cardinality(room.members) >= 3
    /\ target \in room.members \ {d, room.host}
    /\ Challenge(d, "vote",
                 WithVote(ConsumeQueued(room, "vote", d, target), ids + 1, d, target))

CancelVote(d) ==
    /\ MayAct(d) /\ room.vote.id # 0 /\ d \in {room.host, room.vote.starter}
    /\ Kept(Drain([room EXCEPT !.vote = NoVote]))

(* The vote is decided as the last member casts its vote, so the host's own   *)
(* close of a complete vote never finds one.                                  *)
CastVote(d, yes) ==
    /\ MayAct(d) /\ room.vote.id # 0
    /\ d \notin room.vote.yes \cup room.vote.no \cup {room.vote.target}
    /\ Kept(ResolvedIfComplete(
                IF yes THEN [room EXCEPT !.vote.yes = @ \cup {d}]
                       ELSE [room EXCEPT !.vote.no = @ \cup {d}]))

(****************************************************************************)
(* The two games of two players.                                            *)
(****************************************************************************)
StartRps(d, target) ==
    /\ target \in room.members \ {d}
    /\ Challenge(d, "rps",
                 WithRps(ConsumeQueued(room, "rps", d, target), ids + 1, d, target))

StartTtt(d, target) ==
    /\ target \in room.members \ {d}
    /\ Challenge(d, "ttt",
                 WithTtt(ConsumeQueued(room, "ttt", d, target), ids + 1, d, target))

StartKoth(d) ==
    /\ d # room.host /\ room.host # NoDevice
    /\ Challenge(d, "koth",
                 WithKoth(ConsumeQueued(room, "koth", d, NoDevice), ids + 1, d))

Players(game) == {game.p1, game.p2}
Opponent(game, d) == IF d = game.p1 THEN game.p2 ELSE game.p1

AcceptGame(d) ==
    /\ MayAct(d)
    /\ \/ /\ room.rps.id # 0 /\ room.rps.phase = "pending" /\ d = room.rps.p2
          /\ Kept([room EXCEPT !.rps.phase = "committing"])
       \/ /\ room.ttt.id # 0 /\ room.ttt.phase = "pending" /\ d = room.ttt.p2
          /\ Kept([room EXCEPT !.ttt.phase = "playing"])

(* Declined by the challenged, or withdrawn by the challenger while pending,  *)
(* or cancelled by a host that does not play.                                 *)
MayCancel(d, game) ==
    \/ game.phase = "pending" /\ d \in Players(game)
    \/ d = room.host /\ d \notin Players(game)

CancelGame(d) ==
    /\ MayAct(d)
    /\ \/ room.rps.id # 0 /\ MayCancel(d, room.rps) /\ Kept(Drain([room EXCEPT !.rps = NoRps]))
       \/ room.ttt.id # 0 /\ MayCancel(d, room.ttt) /\ Kept(Drain([room EXCEPT !.ttt = NoTtt]))

\* Slip: the game stays after its last reveal.
RpsWonAndKept(s, winner) ==
    IF s.rps.koth THEN Drain([Bump(s, {winner}) EXCEPT !.rps = NoRps])
    ELSE [Bump(s, {winner}) EXCEPT !.rps.revealed = {winner}]

(* A round of Rock-Paper-Scissors is over.  A challenger that wins King of    *)
(* the Hill is offered the room.                                              *)
RpsWon(s, winner) ==
    LET over == [Bump(s, {winner}) EXCEPT !.rps = NoRps]
    IN IF s.rps.koth /\ winner = s.rps.p1
       THEN Drain([over EXCEPT !.pendingHost = winner])
       ELSE Drain(over)

RpsDrawn(s) == Drain([s EXCEPT !.rps = NoRps])

Forfeit(d) ==
    /\ MayAct(d)
    /\ \/ /\ room.rps.id # 0 /\ room.rps.phase # "pending" /\ d \in Players(room.rps)
          /\ Kept(RpsWon(room, Opponent(room.rps, d)))
       \/ /\ room.ttt.id # 0 /\ room.ttt.phase # "pending" /\ d \in Players(room.ttt)
          /\ Kept(Drain([Bump(room, {Opponent(room.ttt, d)}) EXCEPT !.ttt = NoTtt]))

CommitPick(d) ==
    LET committed == room.rps.committed \cup {d}
    IN /\ MayAct(d) /\ room.rps.id # 0 /\ room.rps.phase = "committing"
       /\ d \in Players(room.rps) \ room.rps.committed
       /\ Kept([room EXCEPT !.rps.committed = committed,
                            !.rps.phase = IF Cardinality(committed) = 2
                                          THEN "revealing" ELSE @])

(* The picks are open until the reveals, so either player may win.            *)
RpsWinners(game) == Players(game)

RevealPick(d) ==
    /\ MayAct(d) /\ room.rps.id # 0 /\ room.rps.phase = "revealing"
    /\ d \in Players(room.rps) \ room.rps.revealed
    /\ IF room.rps.revealed = {}
       THEN Kept([room EXCEPT !.rps.revealed = {d}])
       ELSE \/ Kept(RpsDrawn(room))
            \/ \E winner \in RpsWinners(room.rps) : Kept(RpsWon(room, winner))

(* X moves first; the third mark of a player may be in line, the ninth mark   *)
(* ends the game.                                                             *)
Move(d) ==
    LET turn == room.ttt.turn + 1
    IN /\ MayAct(d) /\ room.ttt.id # 0 /\ room.ttt.phase = "playing"
       /\ d = IF room.ttt.turn % 2 = 0 THEN room.ttt.p1 ELSE room.ttt.p2
       /\ \/ turn < 9 /\ Kept([room EXCEPT !.ttt.turn = turn])
          \/ turn >= 5 /\ Kept(Drain([Bump(room, {d}) EXCEPT !.ttt = NoTtt]))
          \/ turn = 9 /\ Kept(Drain([room EXCEPT !.ttt = NoTtt]))

(****************************************************************************)
(* Saboteur.                                                                *)
(****************************************************************************)
StartSaboteur(d) ==
    /\ Cardinality(room.members) >= 4
    /\ Challenge(d, "saboteur",
                 WithSaboteur(ConsumeQueued(room, "saboteur", d, NoDevice), ids + 1, d))

Plays(d) == MayAct(d) /\ d \in room.saboteur.players

CommitEntropy(d) ==
    LET committed == room.saboteur.committed \cup {d}
    IN /\ Plays(d) /\ room.saboteur.phase = "committing" /\ d \notin room.saboteur.committed
       /\ Kept([room EXCEPT !.saboteur.committed = committed,
                            !.saboteur.phase = IF committed = room.saboteur.players
                                               THEN "revealing" ELSE @])

(* The draw is a hash of all the reveals: any player may be drawn.            *)
Drawable(game) == game.players

RevealEntropy(d) ==
    LET revealed == room.saboteur.revealed \cup {d}
    IN /\ Plays(d) /\ room.saboteur.phase = "revealing" /\ d \notin room.saboteur.revealed
       /\ IF revealed # room.saboteur.players
          THEN Kept([room EXCEPT !.saboteur.revealed = revealed])
          ELSE \E drawn \in Drawable(room.saboteur) :
                   Kept([room EXCEPT !.saboteur.revealed = revealed,
                                     !.saboteur.saboteur = drawn,
                                     !.saboteur.phase = "playing",
                                     !.saboteur.canStrike = TRUE])

CloseSaboteur(d) ==
    /\ Plays(d) /\ d \in {room.host, room.saboteur.starter}
    /\ Kept(Drain([room EXCEPT !.saboteur = NoSaboteur]))

Accused(s) == s.saboteur.accusation.accuser # NoDevice

Accuse(d, suspect) ==
    /\ Plays(d) /\ room.saboteur.phase = "playing" /\ ~Accused(room)
    /\ d # room.saboteur.saboteur /\ suspect \in room.saboteur.players \ {d}
    /\ Kept([room EXCEPT !.saboteur.accusation =
                             [accuser |-> d, suspect |-> suspect, yes |-> {d}, no |-> {}],
                         !.saboteur.canStrike = FALSE])

(* The verdict: the accused was the saboteur and a majority said so, or the   *)
(* game goes on and the saboteur may strike.                                  *)
ResolveAccusation(s) ==
    LET case == s.saboteur.accusation
    IN IF /\ Cardinality(case.yes) > Cardinality(case.no)
          /\ case.suspect = s.saboteur.saboteur
       THEN Drain([Bump(s, s.saboteur.players \ {case.suspect}) EXCEPT !.saboteur = NoSaboteur])
       ELSE [s EXCEPT !.saboteur.accusation = NoAccusation, !.saboteur.canStrike = TRUE]

(* A vote may be changed until the last player has voted.                     *)
VoteAccusation(d, yes) ==
    LET case == room.saboteur.accusation
        new == IF yes THEN [case EXCEPT !.yes = @ \cup {d}, !.no = @ \ {d}]
                      ELSE [case EXCEPT !.no = @ \cup {d}, !.yes = @ \ {d}]
        voted == [room EXCEPT !.saboteur.accusation = new]
    IN /\ Plays(d) /\ room.saboteur.phase = "playing" /\ Accused(room)
       /\ IF new.yes \cup new.no = room.saboteur.players
          THEN Kept(ResolveAccusation(voted)) ELSE Kept(voted)

(* The third strike ends the game and closes the room.                        *)
Strike(d) ==
    /\ Plays(d) /\ room.saboteur.phase = "playing"
    /\ d = room.saboteur.saboteur /\ room.saboteur.canStrike
    /\ IF room.saboteur.strikes < 2
       THEN Kept([room EXCEPT !.saboteur.strikes = @ + 1, !.saboteur.canStrike = FALSE])
       ELSE Kept([Bump(room, {d}) EXCEPT !.closed = TRUE, !.saboteur = NoSaboteur])

(****************************************************************************)
MemberNext(d) ==
    \/ Admit(d) \/ Profile(d) \/ Leave(d) \/ Reconcile(d) \/ RoomClose(d)
    \/ AcceptHost(d) \/ RejectHost(d)
    \/ \E target \in Device : PillowToss(d, target) \/ OfferHost(d, target)

GameNext(d) ==
    \/ \E game \in GameKind, target \in Device \cup {NoDevice} : Enqueue(d, game, target)
    \/ \E i \in 1..Len(room.queue) : CancelRequest(d, i)
    \/ \E target \in Device : StartVote(d, target) \/ StartRps(d, target) \/ StartTtt(d, target)
    \/ CancelVote(d) \/ \E yes \in BOOLEAN : CastVote(d, yes)
    \/ StartKoth(d) \/ AcceptGame(d) \/ CancelGame(d) \/ Forfeit(d)
    \/ CommitPick(d) \/ RevealPick(d) \/ Move(d)

SaboteurNext(d) ==
    \/ StartSaboteur(d) \/ CommitEntropy(d) \/ RevealEntropy(d) \/ CloseSaboteur(d)
    \/ \E suspect \in Device : Accuse(d, suspect)
    \/ \E yes \in BOOLEAN : VoteAccusation(d, yes)
    \/ Strike(d)

Next == \E d \in Device : MemberNext(d) \/ GameNext(d) \/ SaboteurNext(d)

Spec == Init /\ [][Next]_vars

(****************************************************************************)
(* The queue drains itself: an entry waits for a game to end, for an offered  *)
(* host to answer or for a removal to be committed, and every step that lifts *)
(* the last of these starts the next game (drainNextQueuedGame, called at     *)
(* fourteen places).                                                          *)
QueueWaitsForCause == room.queue # <<>> => Barred(room) \/ room.closed

(* The snapshot check after an event is a second line of defence: what the    *)
(* handlers take, it keeps, but for two conflicts.  An offered host cannot    *)
(* accept while a vote against it is queued behind another game, and a win at *)
(* King of the Hill cannot be recorded while a removal is pending.            *)
VoteQueuedAgainst(d) ==
    \E i \in 1..Len(room.queue) : room.queue[i].game = "vote" /\ room.queue[i].target = d

RefusedForCause ==
    refused => \/ room.pendingHost # NoDevice /\ VoteQueuedAgainst(room.pendingHost)
               \/ room.rps.koth /\ room.removals # {}

(* Nobody is marked for removal but by its own leave, or by the yes of more   *)
(* than half of the members the vote asked; no tally of a part of them, and   *)
(* no departure in the middle of the vote, removes anybody (resolveVote).     *)
Majority(S, target) == 2 * Cardinality(S) > Cardinality(room'.members \ {target})

RemovedByMajority ==
    [][\A d \in room'.removals \ room.removals :
         \/ Leave(d)
         \/ /\ d = room.vote.target /\ d # room.host
            /\ \/ Majority(room.vote.yes \cap room'.members, d)
               \/ \E e \in Device : CastVote(e, TRUE) /\ Majority(room.vote.yes \cup {e}, d)]_vars

(* A game pays once, as it ends: no point is given while the game that gave   *)
(* it goes on, none to both players, and to nobody that is not a member.      *)
Ended == ActiveIds(room) \ ActiveIds(room)'

PaidOnce ==
    [][\A d \in Device : room'.score[d] > room.score[d] =>
         /\ d \in room.members /\ room'.score[d] = room.score[d] + 1
         /\ Ended # {}
         /\ room.saboteur.id = 0 =>
              \A e \in Device : room'.score[e] > room.score[e] => e = d]_vars
=============================================================================
