----------------------------- MODULE MCTransport -----------------------------
(* Client.Send against a backend that accepts, refuses and fails.           *)
EXTENDS Transport
=============================================================================
