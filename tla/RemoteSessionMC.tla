--------------------------- MODULE RemoteSessionMC ---------------------------
(* Two files, each absent, old or current on the host at first.               *)
EXTENDS RemoteSession

CONSTANTS f1, f2

MCFiles == {f1, f2}
=============================================================================
