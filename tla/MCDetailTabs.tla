---------------------------- MODULE MCDetailTabs ----------------------------
(***************************************************************************)
(* DetailTabs for TLC: a Secret, and a resource that has events.           *)
(***************************************************************************)
EXTENDS DetailTabs

CONSTANTS s1, r1

MCResources == {s1, r1}
MCSecrets == {s1}

=============================================================================
