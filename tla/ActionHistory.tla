---------------------------- MODULE ActionHistory ----------------------------
(***************************************************************************)
(* What the action history promises: it shows the newest mutations, in the *)
(* order in which they were started; a mutation is pending until it ends,  *)
(* and is settled once and for good; and none is reported as a success     *)
(* when it ends after the namespace or the cluster it was meant for has    *)
(* been left.                                                              *)
(***************************************************************************)
EXTENDS Naturals, Sequences

CONSTANTS
    Kinds,     \* the kinds of mutations
    Followed,  \* the kinds that are followed after the cluster has accepted them
    Limit      \* how many mutations are shown

VARIABLES
    issued,   \* the mutations started so far
    ledger,   \* the history, newest first
    running   \* those that run, and whether what they were meant for was left

vars == <<issued, ledger, running>>

Init ==
    /\ issued = 0
    /\ ledger = <<>>
    /\ running = {}

Shown(n) == 1..(IF n < Limit THEN n ELSE Limit)

\* The new mutation comes first; the oldest is left out when there are too many.
Recorded(kind) ==
    [i \in Shown(Len(ledger) + 1) |->
        IF i = 1 THEN [id |-> issued + 1, kind |-> kind, status |-> "Pending"]
        ELSE ledger[i - 1]]

Start ==
    /\ issued' = issued + 1
    /\ running' = running \cup {[id |-> issued + 1, stale |-> FALSE]}
    /\ \E kind \in Kinds : ledger' = Recorded(kind)

Settled(entry, outcome) == [entry EXCEPT !.status = outcome]

\* The cluster will do what a mutation asks for, which is followed from here.
Accept(r) ==
    /\ ~r.stale
    /\ \A i \in DOMAIN ledger : ledger[i].id = r.id => ledger[i].kind \in Followed
    /\ UNCHANGED ledger

\* A mutation ends, and with it its wait; when it is not shown any more, its
\* outcome is forgotten.
End(r, outcome) ==
    /\ outcome = "Succeeded" => ~r.stale
    /\ \A i \in DOMAIN ledger : ledger[i].id = r.id => ledger[i].status = "Pending"
    /\ ledger' = [i \in DOMAIN ledger |->
                     IF ledger[i].id = r.id THEN Settled(ledger[i], outcome)
                     ELSE ledger[i]]

\* The answer of the cluster is received.
Answer(r) ==
    /\ running' = running \ {r}
    /\ UNCHANGED issued
    /\ Accept(r) \/ \E outcome \in {"Succeeded", "Failed"} : End(r, outcome)

\* The cluster has done what some of the mutations asked for.
Follow ==
    /\ UNCHANGED <<issued, running>>
    /\ DOMAIN ledger' = DOMAIN ledger
    /\ \A i \in DOMAIN ledger :
          \/ ledger'[i] = ledger[i]
          \/ /\ ledger[i].kind \in Followed /\ ledger[i].status = "Pending"
             /\ \A r \in running : r.id # ledger[i].id
             /\ ledger'[i] = Settled(ledger[i], "Succeeded")

\* The namespace or the cluster is left.
Switch ==
    /\ running' = {[id |-> r.id, stale |-> TRUE] : r \in running}
    /\ UNCHANGED <<issued, ledger>>

Next ==
    \/ Start
    \/ \E r \in running : Answer(r)
    \/ Follow
    \/ Switch

Spec == Init /\ [][Next]_vars

=============================================================================
