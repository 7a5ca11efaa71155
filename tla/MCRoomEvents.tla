----------------------------- MODULE MCRoomEvents -----------------------------
(* SecureRoomEvents in a small room.                                          *)
EXTENDS SecureRoomEvents, TLC

CONSTANTS h, a, b, c

Others == Permutations({a, b, c})

(* Two games, one after the other or one queued behind the other, are played  *)
(* by up to three members, and four play one game.  The Saboteur game is the  *)
(* first one.                                                                 *)
FewGames ==
    /\ Cardinality(room.members) = 4 => ids <= 1
    /\ room.saboteur.id # 0 => ids = 1
=============================================================================
