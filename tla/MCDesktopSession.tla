--------------------------- MODULE MCDesktopSession ---------------------------
(* DesktopSession for TLC: three jobs beside the restore are enough for a    *)
(* request, a login and a logout to meet, or for two requests and a logout.  *)
EXTENDS DesktopSession

CONSTANTS j1, j2, boot, g1, g2
=============================================================================
