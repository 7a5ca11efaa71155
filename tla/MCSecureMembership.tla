------------------------- MODULE MCSecureMembership -------------------------
(* An instance of SecureMembership: a host, members, and one that asks to join. *)
EXTENDS SecureMembership

CONSTANTS h, b, j
=============================================================================
