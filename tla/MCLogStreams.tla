---------------------------- MODULE MCLogStreams ----------------------------
(* The streams of one container of a pod.                                  *)
EXTENDS LogStreams

CONSTANT c1

MCContainers == {c1}

=============================================================================
