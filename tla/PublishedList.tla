--------------------------- MODULE PublishedList ----------------------------
(***************************************************************************)
(* What watching a resource promises: the list on screen is, at any time,  *)
(* one that the cluster has really had, whole, never a mixture of two.     *)
(***************************************************************************)
EXTENDS Sequences, Integers

CONSTANTS
    Uids,    \* the uids of the objects of the resource
    Values,  \* what is shown of an object
    ABSENT   \* the object does not exist

VARIABLES
    history,  \* the lists that the cluster has had, the last one its own now
    shown     \* the list in the global state

Lists == [Uids -> Values \cup {ABSENT}]
Nothing == [uid \in Uids |-> ABSENT]

\* The list before the first one is published, and every list of the history.
Had == {history[i] : i \in DOMAIN history} \cup {Nothing}

Init == /\ history \in {<<list>> : list \in Lists}
        /\ shown = Nothing

\* One object is created, changed or deleted.  A change that is not shown
\* repeats the list.
Change(uid, value) ==
    /\ history' = Append(history, [history[Len(history)] EXCEPT ![uid] = value])
    /\ UNCHANGED shown

Show(list) ==
    /\ list \in Had
    /\ shown' = list
    /\ UNCHANGED history

Next ==
    \/ \E uid \in Uids, value \in Values \cup {ABSENT} : Change(uid, value)
    \/ \E list \in Lists : Show(list)

Spec == Init /\ [][Next]_<<history, shown>>

=============================================================================
