------------------------------ MODULE MCRegistry ------------------------------
(* Two informers and a poller, with a second caller of StopAll.              *)
EXTENDS Registry

MCOrder == <<"nodes", "metrics", "pods">>
MCOrderPair == <<"nodes", "metrics">>
=============================================================================
