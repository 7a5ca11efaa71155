------------------------------ MODULE LocalFort ------------------------------
(***************************************************************************)
(* The plain-text fort of the local runtime (server.ts, the sockets that   *)
(* ask for protocol "legacy"): who is in the fort, who is its host, and the *)
(* games its members play, one at a time with the others in a queue.       *)
(*                                                                         *)
(* The fort knows its members twice: by socket (its host, its guests, and  *)
(* what each socket holds of itself), and by name (games, votes, the queue, *)
(* and those who lost their socket and may come back for a while).         *)
(*                                                                         *)
(* A handler runs to its end, so each is one step.  What a duel or a board *)
(* decides is left open, and so is when a timer fires.  Only a join waits: *)
(* it looks the fort up, checks the password, and enters the fort as it is *)
(* then.  Chat, drawing, status, themes and leaderboards change nothing    *)
(* here.  room.ts holds the same handlers, which no socket reaches.        *)
(***************************************************************************)
EXTENDS Integers, SequencesExt, FiniteSetsExt, TLC

CONSTANTS
  Sockets, Names,
  Founder, FounderName,   \* who set the fort up
  Guests, GuestName,      \* who is in it at first: sockets, socket -> name
  None,
  MaxGuests,     \* MAX_GUESTS
  MaxQueue,      \* MAX_GAME_QUEUE
  MinPlayers,    \* SABOTEUR_MIN_PLAYERS
  MaxStrikes,    \* strikes until the bomb: 3
  MaxMoves       \* bound: arrivals, tossed pillows and games asked for

\* There is a name for everyone.
ASSUME NamesSuffice == Cardinality(Names) >= Cardinality(Sockets)

VARIABLES
  fort,      \* the fort
  data,      \* socket -> what it holds of itself
  moves

vars == <<fort, data, moves>>

Fresh == [in |-> FALSE, name |-> None, host |-> FALSE, ducked |-> FALSE]

\* A handler works on the fort and the sockets' data; "mole" is whom chance
\* makes the saboteur, should a game of it start.
Room(mole) == [f |-> fort, d |-> data, mole |-> mole]

-----------------------------------------------------------------------------
(* Members *)

Placed(R) == (IF R.f.host = None THEN <<>> ELSE <<R.f.host>>) \o R.f.guests
\* members: the host first.  A name can occur twice.
Members(R) == LET all == Placed(R) IN [n \in DOMAIN all |-> R.d[all[n]].name]
IsMember(R, x) == x \in ToSet(Members(R))
HostName(R) == IF R.f.host = None THEN None ELSE R.d[R.f.host].name
\* findWs
SocketOf(R, x) ==
  LET n == SelectInSeq(Members(R), LAMBDA y : y = x)
  IN IF n = 0 THEN None ELSE Placed(R)[n]
Others(R, x) == Len(SelectSeq(Members(R), LAMBDA y : y # x))

NoGames == [vote |-> None, rps |-> None, ttt |-> None, sab |-> None, sabVote |-> None,
            koth |-> None, active |-> None, queue |-> <<>>, bomb |-> FALSE]
Empty == [open |-> TRUE, host |-> None, guests |-> <<>>, toss |-> None,
          away |-> [x \in Names |-> "no"], old |-> {}] @@ NoGames

\* destroy.  The code leaves the timers of a vote and of names in their grace
\* running, which may act on a later fort of the same code; they are dropped here.
Destroy(R) == [R EXCEPT !.f = [Empty EXCEPT !.open = FALSE], !.d = [s \in Sockets |-> Fresh]]

\* offerHost: without anyone to ask, the fort is over.
OfferHost(R) ==
  IF \A n \in DOMAIN R.f.guests : R.d[R.f.guests[n]].ducked THEN Destroy(R) ELSE R
NoDucks(R) ==
  [R EXCEPT !.d = [s \in Sockets |-> [@[s] EXCEPT !.ducked =
                     IF s \in ToSet(R.f.guests) THEN FALSE ELSE @]]]
MakeHost(R, s) ==
  [R EXCEPT !.f.guests = SelectSeq(@, LAMBDA g : g # s), !.f.host = s,
            !.d[s].host = TRUE]
Gone(R, s) ==
  IF R.d[s].host THEN [R EXCEPT !.f.host = None]
  ELSE [R EXCEPT !.f.guests = SelectSeq(@, LAMBDA g : g # s)]

-----------------------------------------------------------------------------
(* The games.  At most one is "active"; the queue holds what was asked for *)
(* meanwhile.                                                              *)

Game(kind, by, target) == [kind |-> kind, by |-> by, target |-> target]

StartVote(R, starter, target, auto) ==
  IF \/ R.f.vote # None \/ ~IsMember(R, target) \/ Len(Members(R)) < 3
     \/ ~auto /\ (starter = target \/ ~IsMember(R, starter))
  THEN R
  ELSE [R EXCEPT !.f.vote = [target |-> target, starter |-> starter, no |-> {},
                             yes |-> IF auto THEN {} ELSE {starter}],
                 !.f.active = Game("vote", starter, target)]
MayMeet(R, p1, p2) == IsMember(R, p1) /\ IsMember(R, p2) /\ p1 # p2
StartRps(R, p1, p2) ==
  IF R.f.rps # None \/ ~MayMeet(R, p1, p2) THEN R
  ELSE [R EXCEPT !.f.rps = [p1 |-> p1, p2 |-> p2, playing |-> FALSE, picked |-> {}],
                 !.f.active = Game("rps", p1, p2)]
StartTtt(R, p1, p2) ==
  IF R.f.ttt # None \/ ~MayMeet(R, p1, p2) THEN R
  ELSE [R EXCEPT !.f.ttt = [p1 |-> p1, p2 |-> p2, playing |-> FALSE, turn |-> p1],
                 !.f.active = Game("ttt", p1, p2)]
StartSaboteur(R, starter) ==
  LET m == IF IsMember(R, R.mole) THEN R.mole ELSE Head(Members(R))
  IN IF R.f.sab # None \/ ~IsMember(R, starter) \/ Len(Members(R)) < MinPlayers THEN R
     ELSE [R EXCEPT !.f.sab = [who |-> m, strikes |-> 0, can |-> TRUE],
                    !.f.active = Game("saboteur", starter, None)]
StartKoth(R, c) ==
  LET s == SocketOf(R, c)
  IN IF s = None \/ R.d[s].host \/ R.f.rps # None \/ R.f.host = None THEN R
     ELSE [R EXCEPT !.f.koth = [challenger |-> c, host |-> HostName(R)],
                    !.f.rps = [p1 |-> c, p2 |-> HostName(R), playing |-> TRUE, picked |-> {}],
                    !.f.active = Game("koth", c, HostName(R))]

Present(R, q) == IsMember(R, q.by) /\ (q.target # None => IsMember(R, q.target))
Start(R, q) ==
  CASE q.kind = "vote"     -> StartVote(R, q.by, q.target, FALSE)
    [] q.kind = "rps"      -> StartRps(R, q.by, q.target)
    [] q.kind = "ttt"      -> StartTtt(R, q.by, q.target)
    [] q.kind = "saboteur" -> StartSaboteur(R, q.by)
    [] q.kind = "koth"     -> StartKoth(R, q.by)

\* drainGameQueue: the first that can still start; those before it are lost.
Drain(R) ==
  LET try(Y, q) ==
        IF Y.f.active # None THEN [Y EXCEPT !.f.queue = Append(@, q)]
        ELSE IF Present(Y, q) THEN Start(Y, q) ELSE Y
  IN IF R.f.active # None THEN R ELSE FoldLeft(try, [R EXCEPT !.f.queue = <<>>], R.f.queue)

NoGame(R) == [R EXCEPT !.f.active = None]
\* clearActiveGame
ClearActive(R) == IF R.f.active = None THEN R ELSE Drain(NoGame(R))
\* pruneGameQueue
Prune(R) == [R EXCEPT !.f.queue = SelectSeq(@, LAMBDA q : Present(R, q))]
\* queueGame
QueueGame(R, q) ==
  IF q = R.f.active \/ q \in ToSet(R.f.queue) \/ Len(R.f.queue) >= MaxQueue THEN R
  ELSE [R EXCEPT !.f.queue = Append(@, q)]
Ask(R, q) == IF R.f.active # None THEN QueueGame(R, q) ELSE Start(R, q)

\* resolveVote: more than half of the others, and more for it than against.
Ejected(R, v) ==
  /\ Cardinality(v.yes) > Cardinality(v.no)
  /\ 2 * Cardinality(v.yes) > Others(R, v.target)
Eject(R, x) ==
  LET s == SocketOf(R, x)
      Y == IF s = None THEN R
           ELSE [R EXCEPT !.d[s] = Fresh,
                          !.f.host = IF @ = s THEN None ELSE @,
                          !.f.guests = SelectSeq(@, LAMBDA g : g # s)]
  IN IF HostName(R) = x THEN OfferHost(Prune(Y)) ELSE Prune(Y)
ResolveVote(R) ==
  LET v == R.f.vote
      Y == IF Ejected(R, v) THEN Eject(R, v.target) ELSE R
  IN IF v = None THEN R ELSE ClearActive([Y EXCEPT !.f.vote = None])
Counted(R) ==
  LET v == R.f.vote
  IN IF Cardinality(v.yes) + Cardinality(v.no) >= Others(R, v.target) THEN ResolveVote(R) ELSE R

\* resolveSabVote: a saboteur who is caught is put to the vote.
ResolveSabVote(R) ==
  LET v == R.f.sabVote
      mole == R.f.sab.who
      caught == Cardinality(v.yes) > Cardinality(v.no) /\ v.suspect = mole
      Y == NoGame([R EXCEPT !.f.sab = None, !.f.sabVote = None])
  IN IF v = None \/ R.f.sab = None THEN R
     ELSE IF ~caught THEN [R EXCEPT !.f.sabVote = None, !.f.sab.can = TRUE]
     ELSE IF Y.f.vote = None /\ Len(Members(Y)) >= 3 /\ IsMember(Y, mole)
     THEN StartVote(Y, mole, mole, TRUE) ELSE Drain(Y)
SabCounted(R) ==
  LET v == R.f.sabVote
  IN IF Cardinality(v.yes) + Cardinality(v.no) >= Len(Members(R)) THEN ResolveSabVote(R) ELSE R

\* resolveKoth: the winner takes the fort from the host it challenged.
ResolveKoth(R, winner) ==
  LET k == R.f.koth
      h == SocketOf(R, k.host)
      c == SocketOf(R, k.challenger)
      Y == [R EXCEPT !.f.koth = None]
      Z == IF h # None /\ HostName(R) = k.host
           THEN [Y EXCEPT !.f.guests = Append(@, h), !.f.host = None, !.d[h].host = FALSE]
           ELSE Y
  IN ClearActive(IF winner # k.challenger THEN Y ELSE IF c = None THEN Z ELSE MakeHost(Z, c))

\* cancelActiveGamesForMember
Plays(g, x) == g # None /\ x \in {g.p1, g.p2}
Named(v, x) == v # None /\ x \in {v.target, v.starter}
Without(v, x) == [v EXCEPT !.yes = @ \ {x}, !.no = @ \ {x}]
CancelVote(R, x) ==
  IF R.f.vote = None THEN R
  ELSE IF Named(R.f.vote, x) THEN [R EXCEPT !.f.vote = None]
  ELSE Counted([R EXCEPT !.f.vote = Without(@, x)])
\* Slip: the game for the hill outlives its duel.
CancelRpsOnly(R, x) == IF Plays(R.f.rps, x) THEN [R EXCEPT !.f.rps = None] ELSE R
CancelRps(R, x) == IF Plays(R.f.rps, x) THEN [R EXCEPT !.f.rps = None, !.f.koth = None] ELSE R
CancelTtt(R, x) == IF Plays(R.f.ttt, x) THEN [R EXCEPT !.f.ttt = None] ELSE R
CancelSab(R, x) ==
  LET v == R.f.sabVote
  IN IF R.f.sab # None /\ R.f.sab.who = x THEN [R EXCEPT !.f.sab = None, !.f.sabVote = None]
     ELSE IF v = None THEN R
     ELSE IF x \in {v.accuser, v.suspect} THEN [R EXCEPT !.f.sabVote = None]
     ELSE SabCounted([R EXCEPT !.f.sabVote = Without(@, x)])
CancelGames(R, x) ==
  LET A == CancelVote(R, x)
      B == CancelRps(A, x)
      C == CancelTtt(B, x)
      D == CancelSab(C, x)
  IN IF \/ Named(R.f.vote, x) \/ Plays(A.f.rps, x) \/ Plays(B.f.ttt, x)
        \/ C.f.sab # None /\ C.f.sab.who = x
     THEN ClearActive(D) ELSE D

-----------------------------------------------------------------------------
(* Coming and going *)

\* A step of a socket that is in the fort, with what it made of the fort.
Moles == IF \E n \in DOMAIN fort.queue : fort.queue[n].kind = "saboteur"
         THEN Names ELSE {None}
Becomes(R) == fort' = R.f /\ data' = R.d
Runs(Handler(_)) == fort.open /\ \E mole \in Moles : Becomes(Handler(Room(mole)))
Does(Handler(_)) == Runs(Handler) /\ UNCHANGED moves
Moves == moves < MaxMoves /\ moves' = moves + 1
In(s) == fort.open /\ data[s].in
Me(s) == data[s].name

Admit(R, s, x) == [R EXCEPT !.d[s] = [Fresh EXCEPT !.in = TRUE, !.name = x],
                            !.f.guests = Append(@, s)]
Arrives(s) == ~data[s].in /\ s \notin ToSet(fort.guests) /\ Moves
\* A join, or a rejoin when the grace period is over.  uniqueName: a name that
\* no member has; it does not know those who may still come back.  The fort may
\* be gone since it was looked up.
Join(s, x) ==
  /\ Arrives(s) /\ Len(fort.guests) < MaxGuests /\ ~IsMember(Room(None), x)
  /\ Becomes(Admit(Room(None), s, x))
\* Slip: who was host is host again, whoever is host now.
RejoinAsHost(s, x) ==
  /\ Arrives(s) /\ fort.away[x] # "no"
  /\ LET R == [Room(None) EXCEPT !.f.away[x] = "no"]
         Y == Admit(R, s, x)
     IN Becomes(IF fort.away[x] = "host" THEN MakeHost(Y, s) ELSE Y)
\* onRejoin within the grace period
Rejoin(s, x) ==
  /\ Arrives(s) /\ fort.away[x] # "no"
  /\ LET R == [Room(None) EXCEPT !.f.away[x] = "no"]
         Y == Admit(R, s, x)
     IN Becomes(IF fort.away[x] = "host" /\ fort.host = None THEN MakeHost(Y, s) ELSE Y)

\* onLeave, removeMember
Leave(s) ==
  /\ In(s)
  /\ Does(LAMBDA R :
       LET Y == Gone(R, s)
           Z == IF ~R.d[s].host THEN Y
                ELSE IF R.f.guests = <<>> THEN Destroy(Y) ELSE OfferHost(Y)
       IN [Prune(CancelGames(Z, Me(s))) EXCEPT !.d[s] = Fresh])

\* onDisconnect: the name is kept for a while.  A name that is kept already
\* is kept once, but both timers run.
Timer(x, how) == IF how = "no" THEN {} ELSE {[name |-> x, how |-> how]}
Disconnect(s) ==
  /\ In(s)
  /\ Does(LAMBDA R :
       [Gone(R, s) EXCEPT !.f.away[Me(s)] = IF R.d[s].host THEN "host" ELSE "guest",
                          !.f.old = @ \cup Timer(Me(s), R.f.away[Me(s)]),
                          !.d[s] = Fresh])
\* Slip: who stays away is forgotten, but not by the games.
LapseQuietly(R, x, how) ==
  LET Y == [R EXCEPT !.f.away[x] = "no"]
  IN IF how # "host" \/ Y.f.host # None THEN Y ELSE OfferHost(Y)
\* The timer of a name, and of a name that was kept again since.
Lapse(R, x, how) ==
  LET Y == Prune(CancelGames([R EXCEPT !.f.away[x] = "no"], x))
  IN IF how # "host" \/ Y.f.host # None THEN Y ELSE OfferHost(Y)
GraceOver(x) == fort.away[x] # "no" /\ Does(LAMBDA R : Lapse(R, x, fort.away[x]))
OldGraceOver(t) ==
  /\ t \in fort.old
  /\ Does(LAMBDA R :
       Lapse([R EXCEPT !.f.old = (@ \ {t}) \cup Timer(t.name, fort.away[t.name])],
             t.name, t.how))

-----------------------------------------------------------------------------
(* The pillow *)

TossPillow(s, x) ==
  /\ In(s) /\ data[s].host
  /\ \E n \in DOMAIN fort.guests : data[fort.guests[n]].name = x
  /\ Moves
  /\ Runs(LAMBDA R : [R EXCEPT !.f.toss = Me(s), !.f.host = None, !.d[s].host = FALSE,
                               !.f.guests = Append(SelectSeq(@, LAMBDA g : g # s), s)])
AcceptHost(s) ==
  /\ In(s) /\ ~data[s].host /\ fort.host = None
  /\ Does(LAMBDA R : NoDucks([MakeHost(R, s) EXCEPT !.f.toss = None, !.d[s].ducked = FALSE]))
\* onRejectHost: of a tossed pillow, the one who tossed it is host again.
RejectHost(s) ==
  /\ In(s) /\ ~data[s].host
  /\ Does(LAMBDA R :
       LET Y == [R EXCEPT !.d[s].ducked = TRUE, !.f.toss = None]
           n == SelectInSeq(R.f.guests, LAMBDA g : R.d[g].name = R.f.toss)
           g == R.f.guests[n]
       IN IF R.f.toss = None \/ n = 0 THEN OfferHost(Y)
          ELSE NoDucks([MakeHost(Y, g) EXCEPT !.d[g].ducked = FALSE]))
KnockDown(s) == In(s) /\ data[s].host /\ Does(Destroy)
\* The fort is quiet for too long; one that is gone, since somebody entered it.
Idle ==
  /\ fort.open \/ fort.guests # <<>>
  /\ Becomes(Destroy(Room(None))) /\ UNCHANGED moves
\* Nothing else is heard in a fort that is gone.
LeaveGone(s) ==
  ~fort.open /\ data[s].in /\ data' = [data EXCEPT ![s] = Fresh] /\ UNCHANGED <<fort, moves>>

-----------------------------------------------------------------------------
(* What players do *)

Asks(s, q) ==
  /\ In(s) /\ Moves
  /\ fort.active # None => QueueGame(Room(None), q) # Room(None)
  /\ \E mole \in IF q.kind = "saboteur" THEN Names ELSE {None} :
       Becomes(Ask(Room(mole), q))
Here(x) == IsMember(Room(None), x)
StartsVote(s, x) ==
  /\ x # Me(s) /\ Here(x) /\ Len(Members(Room(None))) >= 3
  /\ Asks(s, Game("vote", Me(s), x))
ChallengesRps(s, x) ==
  x # Me(s) /\ (fort.active = None => Here(x)) /\ Asks(s, Game("rps", Me(s), x))
ChallengesTtt(s, x) ==
  x # Me(s) /\ (fort.active = None => Here(x)) /\ Asks(s, Game("ttt", Me(s), x))
StartsSaboteur(s) ==
  /\ fort.sab = None /\ Len(Members(Room(None))) >= MinPlayers
  /\ Asks(s, Game("saboteur", Me(s), None))
ChallengesKoth(s) ==
  /\ In(s) /\ ~data[s].host /\ fort.host # None
  /\ Asks(s, Game("koth", Me(s), HostName(Room(None))))

CastVote(s, yes) ==
  /\ In(s) /\ fort.vote # None
  /\ Me(s) \notin fort.vote.yes \cup fort.vote.no \cup {fort.vote.target}
  /\ Does(LAMBDA R : Counted(IF yes THEN [R EXCEPT !.f.vote.yes = @ \cup {Me(s)}]
                             ELSE [R EXCEPT !.f.vote.no = @ \cup {Me(s)}]))
VoteOver == fort.vote # None /\ Does(ResolveVote)

RpsAccept(s) ==
  /\ In(s) /\ fort.rps # None /\ Me(s) = fort.rps.p2 /\ ~fort.rps.playing
  /\ Does(LAMBDA R : [R EXCEPT !.f.rps.playing = TRUE])
EndRps(R) == ClearActive([R EXCEPT !.f.rps = None, !.f.koth = None])
RpsDecline(s) == In(s) /\ fort.rps # None /\ Me(s) = fort.rps.p2 /\ Does(EndRps)
RpsTimeout == fort.rps # None /\ Does(EndRps)
\* onRpsPick: the second pick decides, or nobody wins.
RpsPick(s) ==
  /\ In(s) /\ fort.rps # None /\ fort.rps.playing
  /\ Me(s) \in {fort.rps.p1, fort.rps.p2} \ fort.rps.picked
  /\ IF fort.rps.picked = {} THEN Does(LAMBDA R : [R EXCEPT !.f.rps.picked = {Me(s)}])
     ELSE \E winner \in {fort.rps.p1, fort.rps.p2, None} :
            Does(LAMBDA R : IF winner = None \/ R.f.koth = None THEN EndRps(R)
                            ELSE ResolveKoth([R EXCEPT !.f.rps = None], winner))

TttAccept(s) ==
  /\ In(s) /\ fort.ttt # None /\ Me(s) = fort.ttt.p2 /\ ~fort.ttt.playing
  /\ Does(LAMBDA R : [R EXCEPT !.f.ttt.playing = TRUE])
EndTtt(R) == ClearActive([R EXCEPT !.f.ttt = None])
TttDecline(s) == In(s) /\ fort.ttt # None /\ Me(s) = fort.ttt.p2 /\ Does(EndTtt)
TttTimeout == fort.ttt # None /\ Does(EndTtt)
\* onTttMove: it wins, fills the board, or it is the other's turn.
TttMove(s) ==
  /\ In(s) /\ fort.ttt # None /\ fort.ttt.playing /\ Me(s) = fort.ttt.turn
  /\ \/ Does(EndTtt)
     \/ Does(LAMBDA R : [R EXCEPT !.f.ttt.turn =
                           IF @ = R.f.ttt.p1 THEN R.f.ttt.p2 ELSE R.f.ttt.p1])

SabAccuse(s, x) ==
  /\ In(s) /\ fort.sab # None /\ fort.sabVote = None
  /\ Me(s) # fort.sab.who /\ Here(x) /\ x # Me(s)
  /\ Does(LAMBDA R : [R EXCEPT !.f.sabVote =
                        [accuser |-> Me(s), suspect |-> x, yes |-> {Me(s)}, no |-> {}]])
SabVote(s, yes) ==
  /\ In(s) /\ fort.sab # None /\ fort.sabVote # None
  /\ Does(LAMBDA R :
       LET v == Without(R.f.sabVote, Me(s))
       IN SabCounted([R EXCEPT !.f.sabVote =
            IF yes THEN [v EXCEPT !.yes = @ \cup {Me(s)}]
            ELSE [v EXCEPT !.no = @ \cup {Me(s)}]]))
SabVoteOver == fort.sabVote # None /\ Does(ResolveSabVote)
\* onSabStrike: after the last, the fort has little time left.
SabStrike(s) ==
  /\ In(s) /\ fort.sab # None /\ Me(s) = fort.sab.who /\ fort.sab.can
  /\ Does(LAMBDA R :
       IF R.f.sab.strikes + 1 = MaxStrikes
       THEN [R EXCEPT !.f.sab = None, !.f.sabVote = None, !.f.bomb = TRUE]
       ELSE [R EXCEPT !.f.sab.can = FALSE, !.f.sab.strikes = @ + 1])
Bomb == fort.bomb /\ Does(Destroy)

Init ==
  /\ fort = [Empty EXCEPT !.host = Founder, !.guests = SetToSeq(Guests)]
  /\ data = [s \in Sockets |->
               IF s = Founder THEN [in |-> TRUE, name |-> FounderName, host |-> TRUE, ducked |-> FALSE]
               ELSE IF s \in Guests THEN [Fresh EXCEPT !.in = TRUE, !.name = GuestName[s]]
               ELSE Fresh]
  /\ moves = 0

Comes(s) == \E x \in Names : Join(s, x) \/ Rejoin(s, x)
Goes(s) == Leave(s) \/ Disconnect(s) \/ LeaveGone(s) \/ KnockDown(s)
Pillow(s) == AcceptHost(s) \/ RejectHost(s) \/ \E x \in Names : TossPillow(s, x)
Plays1(s) ==
  \/ StartsSaboteur(s) \/ ChallengesKoth(s)
  \/ \E x \in Names : StartsVote(s, x) \/ ChallengesRps(s, x) \/ ChallengesTtt(s, x)
                      \/ SabAccuse(s, x)
  \/ \E yes \in BOOLEAN : CastVote(s, yes) \/ SabVote(s, yes)
  \/ RpsAccept(s) \/ RpsDecline(s) \/ RpsPick(s)
  \/ TttAccept(s) \/ TttDecline(s) \/ TttMove(s) \/ SabStrike(s)
Timers ==
  \/ Idle \/ Bomb \/ VoteOver \/ RpsTimeout \/ TttTimeout \/ SabVoteOver
  \/ \E x \in Names : GraceOver(x)
  \/ \E t \in fort.old : OldGraceOver(t)

Next == Timers \/ \E s \in Sockets : Comes(s) \/ Goes(s) \/ Pillow(s) \/ Plays1(s)
Spec == Init /\ [][Next]_vars

-----------------------------------------------------------------------------
(* Properties *)

\* The fort and its sockets agree on who is in it and on who is host.
Placement ==
  /\ \A s \in Sockets : data[s].in => s \in ToSet(Placed(Room(None)))
  /\ IsInjective(Placed(Room(None)))

\* A socket says that it is the host if and only if the fort's host is that
\* socket: "true if this socket is the host" (ARCHITECTURE.md 194).  Does not
\* hold, see the README.
HostIsHost == \A s \in Sockets : data[s].host <=> fort.host = s

\* Two steps make a second host: whoever tossed the pillow gets it back when it
\* is ducked, though somebody became host meanwhile; the winner of a game for
\* the hill takes the fort, though a third is host by then.
DuckedLate == fort.toss # None /\ fort.host # None /\ \E s \in Sockets : RejectHost(s)
WonLate ==
  /\ fort.koth # None /\ HostName(Room(None)) \notin {None, fort.koth.host, fort.koth.challenger}
  /\ \E s \in Sockets : RpsPick(s)

\* The fort and its sockets go on agreeing on who is in it and who its host is,
\* whatever pillows are tossed, ducked or caught, whatever games for the hill are
\* won, and whoever leaves, drops or comes back meanwhile, but for those two steps
\* (onAcceptHost, onRejectHost, onRejoin, onDisconnect, resolveKoth).
HostKnown == [][Placement /\ HostIsHost => (Placement /\ HostIsHost)' \/ DuckedLate \/ WonLate]_vars

\* The game the fort shows is the game that is on, and the only one; a game
\* for the hill lasts as long as its duel, an accusation no longer than its
\* game; and nothing waits in the queue while no game is on.
Running ==
  (IF fort.vote = None THEN {} ELSE {"vote"})
  \cup (IF fort.rps = None THEN {} ELSE {IF fort.koth = None THEN "rps" ELSE "koth"})
  \cup (IF fort.ttt = None THEN {} ELSE {"ttt"})
  \cup (IF fort.sab # None \/ fort.bomb THEN {"saboteur"} ELSE {})
GamesAgree ==
  /\ Running = (IF fort.active = None THEN {} ELSE {fort.active.kind})
  /\ fort.koth # None => fort.rps # None
  /\ fort.sabVote # None => fort.sab # None
  /\ fort.queue # <<>> => fort.active # None

\* Whoever a game is with is in the fort, or may still come back to it.
Players ==
  (IF fort.vote = None THEN {} ELSE {fort.vote.target, fort.vote.starter})
  \cup (IF fort.rps = None THEN {} ELSE {fort.rps.p1, fort.rps.p2})
  \cup (IF fort.ttt = None THEN {} ELSE {fort.ttt.p1, fort.ttt.p2})
  \cup (IF fort.sab = None THEN {} ELSE {fort.sab.who})
  \cup (IF fort.sabVote = None THEN {} ELSE {fort.sabVote.accuser, fort.sabVote.suspect})
PlayersThere ==
  \A x \in Players :
    fort.away[x] # "no" \/ \E s \in Sockets : data[s].in /\ data[s].name = x
=============================================================================
