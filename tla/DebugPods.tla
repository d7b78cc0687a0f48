------------------------------ MODULE DebugPods ------------------------------
(***************************************************************************)
(* What node debug shells promise of the pods they create: from the moment *)
(* a pod exists until it is deleted exactly one party has to delete it,    *)
(* and a pod is only ever handed on, from its launch to its shell or from  *)
(* either of them to a cleanup.                                            *)
(***************************************************************************)
CONSTANT
    Sessions  \* the numbers of the launches and of their pods

VARIABLES
    pods,   \* by session: "none", "up", or "kept" when deleting it has failed
    owners  \* by session: the parties that have to delete its pod

\* Nobody, or one party.
Owners == {{}, {"launch"}, {"shell"}, {"cleanup"}}

\* From whom to whom a pod is handed on.
Handover ==
    {<<{"launch"}, {"shell"}>>, <<{"launch"}, {"cleanup"}>>,
     <<{"shell"}, {"cleanup"}>>}

Init == /\ pods = [s \in Sessions |-> "none"]
        /\ owners = [s \in Sessions |-> {}]

\* The launch that creates a pod has it first.
Create(s) ==
    /\ pods[s] = "none"
    /\ pods' = [pods EXCEPT ![s] = "up"]
    /\ owners' = [owners EXCEPT ![s] = {"launch"}]

\* Several pods may change hands at once: a new shell takes its pod while the
\* one that it replaces gives its own away.
HandOn ==
    /\ owners' \in [Sessions -> Owners]
    /\ \A s \in Sessions :
          owners'[s] # owners[s] => <<owners[s], owners'[s]>> \in Handover
    /\ UNCHANGED pods

\* Whoever has a pod tries once to delete it.
Delete(sessions) ==
    /\ \A s \in sessions : pods[s] = "up" /\ owners[s] \in Owners \ {{}}
    /\ owners' = [s \in Sessions |-> IF s \in sessions THEN {} ELSE owners[s]]
    /\ \E failing \in SUBSET sessions :
          pods' = [s \in Sessions |->
                      IF s \in failing THEN "kept"
                      ELSE IF s \in sessions THEN "none" ELSE pods[s]]

Next ==
    \/ \E s \in Sessions : Create(s)
    \/ HandOn
    \/ \E sessions \in SUBSET Sessions : Delete(sessions)

Spec == Init /\ [][Next]_<<pods, owners>>

=============================================================================
