---------------------------- MODULE MCPortForward ----------------------------
(* Three pods, one remote port of each, two local ports, two clusters.      *)
EXTENDS PortForward

CONSTANTS c1, c2

MCContexts == {c1, c2}

=============================================================================
