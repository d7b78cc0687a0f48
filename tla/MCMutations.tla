---------------------------- MODULE MCMutations ----------------------------
(* An instance of Mutations for TLC.  Mutations of different resources meet  *)
(* only in the guards and in the history, where the resource does not count, *)
(* so one resource with its rollout tab and its Helm tab is enough.          *)
EXTENDS Mutations

CONSTANT r1

MCResources == {r1}

=============================================================================
