---------------------------- MODULE MCLeadership ----------------------------
(* Two replicas, one of them a dedicated worker.                           *)
EXTENDS Leadership
=============================================================================
