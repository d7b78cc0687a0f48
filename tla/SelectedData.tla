----------------------------- MODULE SelectedData -----------------------------
(***************************************************************************)
(* What the program promises of any data that it shows of the cluster:     *)
(* each change of the namespace or of the context clears what is shown,    *)
(* nothing that was asked for before then is ever shown again, and what    *)
(* was asked for since the last change is of the selection, whoever has    *)
(* read it and however late it comes.                                      *)
(***************************************************************************)
EXTENDS Integers

CONSTANTS
    Namespaces,  \* namespaces that can be selected, besides all of them
    All,         \* all of them
    Clients,     \* the clusters, or the connections to them
    NONE         \* nothing is shown

VARIABLES
    generation,  \* counts the changes of the selection
    client,      \* what the program is connected to
    namespace,   \* the selected namespace
    cleared,     \* the generation that last cleared what is shown
    shown        \* what is shown: from where, and asked for in which generation

vars == <<generation, client, namespace, cleared, shown>>

AnyNamespace == Namespaces \cup {All}

Data == [client : Clients, namespace : AnyNamespace, generation : Nat]

\* May datum be shown while ns is selected?
Fits(datum, ns) ==
    /\ datum.generation \in cleared..generation
    /\ datum.generation = generation =>
          /\ datum.client = client
          /\ ns # All => datum.namespace = ns

Init ==
    /\ generation = 0
    /\ client \in Clients
    /\ namespace \in AnyNamespace
    /\ cleared = 0
    /\ shown = NONE

\* Other data are shown, or none.  The selection widens to all namespaces when
\* the selected one is found to be gone.
Show ==
    /\ namespace' \in {namespace, All}
    /\ shown' \in Data \cup {NONE}
    /\ shown' # NONE => Fits(shown', namespace')
    /\ UNCHANGED <<generation, client, cleared>>

\* Another namespace of the same cluster.
Select ==
    /\ generation' = generation + 1
    /\ cleared' = generation'
    /\ namespace' \in AnyNamespace
    /\ shown' = NONE
    /\ UNCHANGED client

\* A switch of the context begins; until it ends the old client is used.
Disconnect ==
    /\ generation' = generation + 1
    /\ cleared' = generation'
    /\ shown' = NONE
    /\ UNCHANGED <<client, namespace>>

\* It ends: what was shown meanwhile, of the old client, stays until it is
\* replaced.
Connect ==
    /\ generation' = generation + 1
    /\ client' \in Clients
    /\ namespace' \in AnyNamespace
    /\ UNCHANGED <<cleared, shown>>

Next == Show \/ Select \/ Disconnect \/ Connect

Spec == Init /\ [][Next]_vars

=============================================================================
