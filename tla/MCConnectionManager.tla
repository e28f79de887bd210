------------------------- MODULE MCConnectionManager -------------------------
(* ConnectionManager for TLC: a local socket and a remote https endpoint give *)
(* every way through detection; the remote one is probed and needs a client  *)
(* certificate for an Engine, so it alone gives most.                        *)
EXTENDS ConnectionManager

CONSTANTS c1, c2, socket, remote
=============================================================================
