------------------------------- MODULE MCAgent -------------------------------
(* The agent loop with its transport, its state machine and a backend.       *)
EXTENDS Agent
=============================================================================
