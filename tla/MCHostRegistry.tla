---------------------------- MODULE MCHostRegistry ---------------------------
(* HostRegistry for TLC: hosts share nothing but the gateway's requests, so  *)
(* one host and two requests that overlap give every race.                   *)
EXTENDS HostRegistry, TLC
=============================================================================
