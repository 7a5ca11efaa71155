------------------------------ MODULE MCFortPass ------------------------------
(* FortPass with a few sessions and requests.                                 *)
EXTENDS FortPass, TLC

Jobs == Permutations(Job)
=============================================================================
