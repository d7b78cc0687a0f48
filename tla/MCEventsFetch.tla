---------------------------- MODULE MCEventsFetch ----------------------------
(* EventsFetch with one namespace to select besides all of them. *)
EXTENDS EventsFetch

CONSTANTS ns1, all, nil

MCNamespaces == {ns1}

=============================================================================
