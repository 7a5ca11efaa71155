-------------------------- MODULE MCSecureSession --------------------------
(* A host and one member. *)
EXTENDS SecureSession
CONSTANTS h, m
=============================================================================
