----------------------------- MODULE MCJwksCache -----------------------------
(* An instance of JwksCache for TLC. *)
EXTENDS JwksCache
=============================================================================
