----------------------------- MODULE MCTerminal -----------------------------
(* Terminal for TLC: three runs, so that one can end while another has begun *)
(* and a third is yet to come; one piece of output can be late or lost.      *)
EXTENDS Terminal
=============================================================================
