----------------------------- MODULE MCRegistry -----------------------------
(* registry-service with two tokens and two requests in flight.            *)
EXTENDS Registry, TLC

=============================================================================
