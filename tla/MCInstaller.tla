------------------------------ MODULE MCInstaller ------------------------------
(* Installer for TLC: two installers race for everything there is to race    *)
(* for; a second port lets both gateways of one project be started.          *)
EXTENDS Installer, TLC

CONSTANTS i1, i2, d1, d2, p1, p2

AnyShell   == [bindHost : {"loopback", "public", "unset"}, authMode : {"dev", "unset"}]
CleanShell == {[bindHost |-> "unset", authMode |-> "unset"]}

Symmetry == Permutations(Installers) \cup Permutations(Directories) \cup Permutations(Ports)
=============================================================================
