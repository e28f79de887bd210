----------------------------- MODULE MCScreens -----------------------------
(* Two hosts, which may be listed from the start, added or removed.        *)
EXTENDS Screens
MCHosts == 1..2
=============================================================================
