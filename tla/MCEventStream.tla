---------------------------- MODULE MCEventStream ----------------------------
(* EventStream for TLC: two hosts, so that one may evict the other's events. *)
EXTENDS EventStream, TLC
=============================================================================
