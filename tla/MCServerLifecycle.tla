------------------------ MODULE MCServerLifecycle ------------------------
(***************************************************************************)
(* Small instance of ServerLifecycle for TLC.  The code sleeps 30 s and    *)
(* stops after 300 s idle with a 3 s grace; here the idle threshold is two *)
(* check intervals (a multiple of it, as in the code, so the boundary      *)
(* idle_time = IDLE_DURATION is reached), and the grace is shorter than    *)
(* one interval, as in the code.  Two connection slots let one connection  *)
(* be open while another opens or closes.                                  *)
(***************************************************************************)
EXTENDS ServerLifecycle

CONSTANTS c1, c2

MCConn == {c1, c2}

\* For the idle_sampling run: no connection is accepted between
\* check_idle's count and its decision, so that a shutdown after too short
\* a quiet spell comes from the gap between two samples, not from the
\* count-to-decision race the idle_race run shows.
NoAcceptWhileDeciding ==
    mon = "deciding" => \A c \in Conn : conn[c] = "closed" => conn'[c] = "closed"

=============================================================================
