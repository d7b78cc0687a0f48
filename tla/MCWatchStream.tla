--------------------------- MODULE MCWatchStream ----------------------------
(* Two objects with two values each, watched by a task that is restarted.  *)
EXTENDS WatchStream, TLC

CONSTANTS a, b, v, w

MCUids == {a, b}
MCValues == {v, w}

=============================================================================
