--------------------------- MODULE MCDebugSessions ---------------------------
(* Debug shells on two nodes.                                              *)
EXTENDS DebugSessions

CONSTANTS n1, n2

MCNodes == {n1, n2}

=============================================================================
