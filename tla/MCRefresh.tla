----------------------------- MODULE MCRefresh -----------------------------
(* Refresh on small instances.  The views are chosen from the table: one that *)
(* needs a watched resource and metrics (Pods), one that needs a scope without *)
(* watches (Secrets), one whose fetch has a core and a background part         *)
(* (Projects).                                                                 *)
EXTENDS Refresh

CONSTANTS ns1, all, nil

MCPodsSecrets == {"Pods", "Secrets"}
MCSecretsProjects == {"Secrets", "Projects"}
MCOneNamespace == {ns1}
MCNoNamespace == {}

=============================================================================
