---------------------------- MODULE MCScanRunner ----------------------------
(* ScanRunner for TLC: two scans that share one host.                        *)
EXTENDS ScanRunner

CONSTANTS s1, s2
=============================================================================
