----------------------------- MODULE MCSession -----------------------------
(* Session on small instances: one watched resource, the view that shows it, *)
(* one namespace to select, two clusters to switch between.                 *)
EXTENDS Session, TLC

CONSTANTS ns1, all, nil, c1, c2, empty

MCDeployments == {"Deployments"}
MCNamespaces == {ns1}
MCContexts == {c1, c2}
MCOneContext == {c1}
MCSymmetry == Permutations(MCContexts)

=============================================================================
