---------------------------- MODULE MCIBGateway ----------------------------
(* Instances of TokenBucket and IBGateway for TLC. *)
EXTENDS IBGateway
=============================================================================
