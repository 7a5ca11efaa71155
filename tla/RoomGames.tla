------------------------------ MODULE RoomGames ------------------------------
(* The state every member of a secure room holds about its members, its host  *)
(* and its games (SecureRoomStateSnapshotV4 of                                *)
(* src/src/applicationEventsV4.ts), and the operators with which              *)
(* src/src/secureGameReducer.ts transforms it.                                *)
(*                                                                            *)
(* What is abstracted.  A game is named by a number (`id`; 0 is null), its    *)
(* commitments and reveals by the devices that made them: the hash binds a    *)
(* reveal to its commitment, so who wins a round is open until the last       *)
(* reveal.  A Tic-Tac-Toe board is the number of its marks.  A leaderboard    *)
(* entry is the sum of its five counters.  Names, messages, drawings, themes  *)
(* and presence are left out.                                                 *)
EXTENDS Selections, SequencesExt, FiniteSets

CONSTANTS
    Device,         \* the devices that may ever be in the MLS group
    NoDevice,       \* null
    Founder,        \* the first host
    MaxGameQueue    \* MAX_SECURE_GAME_QUEUE

ASSUME GamesAssumption ==
    /\ IsFiniteSet(Device) /\ NoDevice \notin Device /\ Founder \in Device
    /\ MaxGameQueue \in Nat

NoVote == [id |-> 0, starter |-> NoDevice, target |-> NoDevice, yes |-> {}, no |-> {}]
NoRps == [id |-> 0, p1 |-> NoDevice, p2 |-> NoDevice, phase |-> "pending", koth |-> FALSE,
          committed |-> {}, revealed |-> {}]
NoTtt == [id |-> 0, p1 |-> NoDevice, p2 |-> NoDevice, phase |-> "pending", turn |-> 0]
NoAccusation == [accuser |-> NoDevice, suspect |-> NoDevice, yes |-> {}, no |-> {}]
NoSaboteur == [id |-> 0, starter |-> NoDevice, phase |-> "committing", players |-> {},
               committed |-> {}, revealed |-> {}, saboteur |-> NoDevice,
               accusation |-> NoAccusation, strikes |-> 0, canStrike |-> FALSE]

NewState(members) ==
    [host |-> Founder, pendingHost |-> NoDevice, removals |-> {}, bound |-> members,
     members |-> members, closed |-> FALSE, queue |-> <<>>,
     vote |-> NoVote, rps |-> NoRps, ttt |-> NoTtt, saboteur |-> NoSaboteur,
     score |-> [d \in Device |-> 0]]

ActiveIds(s) == {s.vote.id, s.rps.id, s.ttt.id, s.saboteur.id} \ {0}
ActiveGame(s) == ActiveIds(s) # {}
Barred(s) == ActiveGame(s) \/ s.pendingHost # NoDevice \/ s.removals # {}
Bump(s, S) == [s EXCEPT !.score = [d \in Device |-> IF d \in S THEN @[d] + 1 ELSE @[d]]]

(****************************************************************************)
(* Games, as they start.                                                    *)
(****************************************************************************)
WithVote(s, i, by, target) ==
    [s EXCEPT !.vote = [NoVote EXCEPT !.id = i, !.starter = by, !.target = target, !.yes = {by}]]
WithRps(s, i, by, target) ==
    [s EXCEPT !.rps = [NoRps EXCEPT !.id = i, !.p1 = by, !.p2 = target]]
WithTtt(s, i, by, target) ==
    [s EXCEPT !.ttt = [NoTtt EXCEPT !.id = i, !.p1 = by, !.p2 = target]]
WithSaboteur(s, i, by) ==
    [s EXCEPT !.saboteur = [NoSaboteur EXCEPT !.id = i, !.starter = by, !.players = s.members]]
WithKoth(s, i, by) ==
    [s EXCEPT !.rps = [NoRps EXCEPT !.id = i, !.p1 = by, !.p2 = s.host,
                                    !.phase = "committing", !.koth = TRUE]]

(****************************************************************************)
(* The queue of games.                                                      *)
(****************************************************************************)
GameKind == {"vote", "rps", "ttt", "saboteur", "koth"}
Targeted == {"vote", "rps", "ttt"}

Startable(s, entry) ==
    /\ entry.by \in s.members
    /\ entry.target \in s.members \cup {NoDevice}
    /\ CASE entry.game = "vote" -> /\ entry.target \notin {entry.by, s.host}
                                   /\ Cardinality(s.members) >= 3
         [] entry.game \in {"rps", "ttt"} -> entry.target # entry.by
         [] entry.game = "saboteur" -> Cardinality(s.members) >= 4
         [] entry.game = "koth" -> s.host # NoDevice /\ entry.by # s.host

Begun(s, entry) ==
    CASE entry.game = "vote" -> WithVote(s, entry.id, entry.by, entry.target)
      [] entry.game = "rps" -> WithRps(s, entry.id, entry.by, entry.target)
      [] entry.game = "ttt" -> WithTtt(s, entry.id, entry.by, entry.target)
      [] entry.game = "saboteur" -> WithSaboteur(s, entry.id, entry.by)
      [] entry.game = "koth" -> WithKoth(s, entry.id, entry.by)

\* Slip: the first entry is taken off the queue whether it can start or not.
DrainOne(s) ==
    IF Barred(s) \/ s.closed \/ s.queue = <<>> THEN s
    ELSE LET rest == [s EXCEPT !.queue = Tail(@)]
         IN IF Startable(s, Head(s.queue)) THEN Begun(rest, Head(s.queue)) ELSE rest

(* The first entry that can start starts; the entries before it are dropped.  *)
Drain(s) ==
    LET ready == {i \in 1..Len(s.queue) : Startable(s, s.queue[i])}
        first == CHOOSE i \in ready : \A j \in ready : i <= j
    IN IF Barred(s) \/ s.closed THEN s
       ELSE IF ready = {} THEN [s EXCEPT !.queue = <<>>]
       ELSE Begun([s EXCEPT !.queue = SubSeq(@, first + 1, Len(@))], s.queue[first])

Names(entry, d) == d \in {entry.by, entry.target}

WithoutEntriesOf(s, d) ==
    [s EXCEPT !.queue = Filter(@, {entry \in ToSet(@) : ~Names(entry, d)})]

(* A game started directly takes the request that asked for it off the queue. *)
ConsumeQueued(s, game, by, target) ==
    LET asked == {i \in 1..Len(s.queue) : /\ s.queue[i].game = game
                                          /\ s.queue[i].by = by /\ s.queue[i].target = target}
        first == CHOOSE i \in asked : \A j \in asked : i <= j
    IN IF asked = {} THEN s
       ELSE [s EXCEPT !.queue = SubSeq(@, 1, first - 1) \o SubSeq(@, first + 1, Len(@))]

(****************************************************************************)
(* Removals and votes.                                                      *)
(****************************************************************************)
\* Slip: the entries of the member that leaves stay queued.
MarkKeepingQueue(s, d) == [s EXCEPT !.removals = @ \cup {d}, !.pendingHost = NoDevice]

MarkPendingRemoval(s, d) ==
    WithoutEntriesOf([s EXCEPT !.removals = @ \cup {d}, !.pendingHost = NoDevice], d)

\* Slip: the electorate is whoever voted.
VotersOnly(s) == s.vote.yes \cup s.vote.no

Eligible(s) == s.members \ {s.vote.target}

AllEligibleVoted(s) ==
    s.vote.id # 0 /\ Cardinality(s.vote.yes \cup s.vote.no) >= Cardinality(Eligible(s))

ResolveVote(s) ==
    LET yes == Cardinality(s.vote.yes)
        ejected == yes > Cardinality(s.vote.no) /\ 2 * yes > Cardinality(Eligible(s))
    IN IF ejected
       THEN Drain([MarkPendingRemoval(Bump(s, {s.vote.starter}), s.vote.target)
                      EXCEPT !.vote = NoVote])
       ELSE Drain([Bump(s, {s.vote.target}) EXCEPT !.vote = NoVote])

ResolvedIfComplete(s) == IF AllEligibleVoted(s) THEN ResolveVote(s) ELSE s

(****************************************************************************)
(* The roster of the MLS group changed: device `d` is not in it any more.   *)
(****************************************************************************)
DropMember(s, d) ==
    [WithoutEntriesOf(s, d) EXCEPT
        !.members = @ \ {d}, !.bound = @ \ {d}, !.score[d] = 0, !.removals = @ \ {d},
        !.pendingHost = IF @ = d THEN NoDevice ELSE @,
        !.host = IF @ = d THEN NoDevice ELSE @]

CancelledVote(s, d) == s.vote.id # 0 /\ d \in {s.vote.starter, s.vote.target}

(* The votes of the others stand, and may now be all there are.               *)
DropVote(s, d) ==
    IF s.vote.id = 0 THEN s
    ELSE IF d \in {s.vote.starter, s.vote.target} THEN [s EXCEPT !.vote = NoVote]
    ELSE ResolvedIfComplete([s EXCEPT !.vote.yes = @ \ {d}, !.vote.no = @ \ {d}])

(* The games of the two players one of whom is gone end without a winner; a   *)
(* departure after the commitments would bias the Saboteur draw, so it ends   *)
(* that game too.                                                             *)
DropGames(s, d) ==
    [s EXCEPT !.rps = IF d \in {@.p1, @.p2} THEN NoRps ELSE @,
              !.ttt = IF d \in {@.p1, @.p2} THEN NoTtt ELSE @,
              !.saboteur = IF d \in @.players THEN NoSaboteur ELSE @]

Reconciled(s, d) ==
    LET dropped == DropGames(DropVote(DropMember(s, d), d), d)
        lifts == \/ d \in s.removals \/ d = s.pendingHost
                 \/ CancelledVote(s, d)
                 \/ s.rps.id # 0 /\ d \in {s.rps.p1, s.rps.p2}
                 \/ s.ttt.id # 0 /\ d \in {s.ttt.p1, s.ttt.p2}
                 \/ d \in s.saboteur.players
    IN IF lifts THEN Drain(dropped) ELSE dropped

(****************************************************************************)
(* What isSecureRoomStateSnapshotV4 asks of a state that is to be kept.     *)
(****************************************************************************)
EntryValid(s, entry) ==
    /\ entry.by \in s.members \ s.removals
    /\ entry.target \in (s.members \ s.removals) \cup {NoDevice}
    /\ entry.target # entry.by
    /\ entry.id \notin ActiveIds(s)
    /\ ~(entry.game = "vote" /\ entry.target = s.host)

QueueValid(s) ==
    /\ Len(s.queue) <= MaxGameQueue
    /\ \A i \in 1..Len(s.queue) : EntryValid(s, s.queue[i])
    /\ \A i, j \in 1..Len(s.queue) : s.queue[i].id = s.queue[j].id => i = j

RpsValid(s) ==
    s.rps.id # 0 =>
        /\ s.rps.p1 # s.rps.p2
        /\ s.rps.phase = "pending" => ~s.rps.koth /\ s.rps.committed = {}
        /\ s.rps.phase # "revealing" => Cardinality(s.rps.committed) < 2 /\ s.rps.revealed = {}
        /\ s.rps.phase = "revealing" => /\ Cardinality(s.rps.committed) = 2
                                        /\ Cardinality(s.rps.revealed) < 2
        /\ s.rps.koth => s.host # NoDevice /\ s.rps.p2 = s.host

VoteValid(s) ==
    s.vote.id # 0 =>
        /\ Cardinality(s.members) >= 3
        /\ s.vote.target \notin s.vote.yes \cup s.vote.no \cup {s.vote.starter, s.host}
        /\ s.vote.starter \in s.vote.yes
        /\ Cardinality(s.vote.yes \cup s.vote.no) < Cardinality(s.members) - 1

SaboteurValid(s) ==
    LET game == s.saboteur
        ended == game.accusation.accuser = NoDevice
    IN game.id # 0 =>
        /\ Cardinality(game.players) >= 4 /\ game.starter \in game.players
        /\ game.phase = "committing" =>
             game.committed # game.players /\ game.revealed = {} /\ ~game.canStrike
        /\ game.phase = "revealing" =>
             /\ game.committed = game.players /\ game.revealed # game.players
             /\ game.saboteur = NoDevice /\ ~game.canStrike
        /\ game.phase = "playing" =>
             /\ game.committed = game.players /\ game.revealed = game.players
             /\ game.saboteur \in game.players /\ game.strikes < 3
        /\ ~ended =>
             /\ game.phase = "playing" /\ ~game.canStrike
             /\ game.accusation.accuser \notin {game.accusation.suspect, game.saboteur}
             /\ game.accusation.yes \cup game.accusation.no # game.players

SnapshotValid(s) ==
    /\ s.members \subseteq s.bound
    /\ {s.host, s.pendingHost} \subseteq s.members \cup {NoDevice}
    /\ s.removals \subseteq s.members \ {s.host}
    /\ s.removals # {} => s.pendingHost = NoDevice
    /\ Cardinality({i \in {s.vote.id, s.rps.id, s.ttt.id, s.saboteur.id} : i # 0}) <= 1
    /\ s.pendingHost # NoDevice => ~ActiveGame(s)
    /\ QueueValid(s) /\ VoteValid(s) /\ RpsValid(s) /\ SaboteurValid(s)

(* What snapshotMatchesMembership asks besides: only members play.            *)
MatchesMembership(s) ==
    /\ s.vote.id # 0 => {s.vote.starter, s.vote.target} \cup s.vote.yes \cup s.vote.no
                          \subseteq s.members
    /\ s.rps.id # 0 => {s.rps.p1, s.rps.p2} \subseteq s.members
    /\ s.ttt.id # 0 => {s.ttt.p1, s.ttt.p2} \subseteq s.members
    /\ s.saboteur.players \subseteq s.members
=============================================================================
