--------------------------- MODULE MCLiveSessions ---------------------------
(* Small instances of LiveSessions. *)
EXTENDS LiveSessions, TLC

CONSTANTS s1, s2, p1

OneProject == [s \in Sessions |-> p1]
=============================================================================
