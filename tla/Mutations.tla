----------------------------- MODULE Mutations -----------------------------
(***************************************************************************)
(* Background mutations of the cluster, their entries in the action        *)
(* history, and what waits for them: the guards against a second delete    *)
(* and a second node operation, the rollout and Helm tabs that lock while  *)
(* their mutation runs, and the verifications of Flux reconciles.          *)
(*                                                                         *)
(* Every mutation runs in a task of its own and sends its result, with the *)
(* generation it was started in, to the main loop.  Left out: what is sent *)
(* to the cluster, the refresh a success asks for (module Refresh,         *)
(* MutationSucceeded), the permission checks and confirmations in front of *)
(* a mutation, and edits of YAML, which suspend the program.               *)
(***************************************************************************)
EXTENDS Integers, Sequences, FiniteSets

CONSTANTS
    Resources,      \* the resources that are mutated
    NIL,            \* Rust's None
    MaxEntries,     \* MAX_ACTION_HISTORY_ENTRIES
    MaxId,          \* bound: the mutations started
    MaxRunning,     \* bound: the mutations running at a time
    MaxRequest,     \* bound: the inspections requested
    MaxGeneration   \* bound: the changes of namespace or context

ASSUME NilAssumption == NIL \notin Nat
ASSUME EntriesAssumption == MaxEntries \in Nat \ {0}
ASSUME BoundsAssumption ==
    {MaxId, MaxRunning, MaxRequest, MaxGeneration} \subseteq Nat

VARIABLES
    context_generation,   \* refresh_state.context_generation
    switching,            \* whether pending_context_switch is Some
    entries,              \* the action history, newest first
    next_id,              \* the id of the next entry
    mutations,            \* the tasks that mutate, until their result is received
    delete_in_flight_id,  \* the delete that is waited for
    node_op_in_flight,    \* whether a cordon, uncordon or drain is waited for
    tabs,                 \* the open rollout and Helm history tabs
    next_request,         \* the id of the next inspection
    inspections,          \* the tasks that read what a tab shows
    verifications         \* pending_flux_reconcile_verifications

vars == <<context_generation, switching, entries, next_id, mutations,
          delete_in_flight_id, node_op_in_flight, tabs, next_request,
          inspections, verifications>>

TabKinds == {"rollout", "helm"}
TabKey == TabKinds \X Resources

\* "update" stands for scaling, waiting until ready, triggering a CronJob and
\* suspending one, which are started and received in the same way.
Kinds == {"update", "delete", "node", "flux"} \cup TabKinds

Entry == [id : Nat, kind : Kinds, status : {"Pending", "Succeeded", "Failed"}]
Mutation == [id : Nat, kind : Kinds, resource : Resources, generation : Nat]
Inspection == [key : TabKey, request : Nat, generation : Nat]
Verification == [id : Nat, resource : Resources]

\* lock is pending_mutation_action_history_id of a rollout tab, with which
\* mutation_pending is set and cleared, and pending_rollback_action_history_id
\* of a Helm tab; loaded says whether the revisions are known.  requested is a
\* history variable: the generation in which the request was made.
Tab == [lock : Nat \cup {NIL}, request : Nat \cup {NIL}, loaded : BOOLEAN,
        requested : Nat]

MutationsTypeOK ==
    /\ context_generation \in 0..MaxGeneration
    /\ switching \in BOOLEAN
    /\ entries \in Seq(Entry)
    /\ Len(entries) <= MaxEntries
    /\ next_id \in 1..MaxId + 1
    /\ mutations \subseteq Mutation
    /\ delete_in_flight_id \in Nat \cup {NIL}
    /\ node_op_in_flight \in BOOLEAN
    /\ DOMAIN tabs \subseteq TabKey
    /\ tabs \in [DOMAIN tabs -> Tab]
    /\ next_request \in 1..MaxRequest + 1
    /\ inspections \subseteq Inspection
    /\ verifications \subseteq Verification

NoTabs == [key \in {} |-> NIL]

Init ==
    /\ context_generation = 0
    /\ switching = FALSE
    /\ entries = <<>>
    /\ next_id = 1
    /\ mutations = {}
    /\ delete_in_flight_id = NIL
    /\ node_op_in_flight = FALSE
    /\ tabs = NoTabs
    /\ next_request = 1
    /\ inspections = {}
    /\ verifications = {}

-----------------------------------------------------------------------------
\* trim_to_limit
Trim(list) ==
    IF Len(list) <= MaxEntries THEN list ELSE SubSeq(list, 1, MaxEntries)

\* Seeded bug: the history is trimmed before the new entry is pushed.
TrimmedTooEarly(entry) == <<entry>> \o Trim(entries)

\* push_front and trim_to_limit
Pushed(entry) == Trim(<<entry>> \o entries)

\* record_action_pending, and the task that is spawned
Start(kind, r) ==
    /\ next_id <= MaxId /\ Cardinality(mutations) < MaxRunning
    /\ next_id' = next_id + 1
    /\ entries' = Pushed([id |-> next_id, kind |-> kind, status |-> "Pending"])
    /\ mutations' = mutations \cup
          {[id |-> next_id, kind |-> kind, resource |-> r,
            generation |-> context_generation]}

\* complete_action_history of the entries with these ids, unless evicted
Complete(ids, status) ==
    entries' = [i \in DOMAIN entries |->
                   IF entries[i].id \in ids THEN [entries[i] EXCEPT !.status = status]
                   ELSE entries[i]]

Outcome(ok) == IF ok THEN "Succeeded" ELSE "Failed"

\* A result of an earlier namespace or context only fails its entry.
Current(m) == m.generation = context_generation

\* clear_mutation_if_matches, clear_rollback_if_matches
Unlocked(key, id) ==
    [k \in DOMAIN tabs |->
        IF k = key /\ tabs[k].lock = id THEN [tabs[k] EXCEPT !.lock = NIL]
        ELSE tabs[k]]

\* refresh(request_id) on a tab that is open
Refreshed(ts, key) ==
    [k \in DOMAIN ts |->
        IF k = key THEN [ts[k] EXCEPT !.request = next_request,
                                      !.requested = context_generation]
        ELSE ts[k]]

\* A new request id, and the task that reads what the tab shows.
RequestInspection(key) ==
    /\ next_request <= MaxRequest
    /\ next_request' = next_request + 1
    /\ inspections' = inspections \cup
          {[key |-> key, request |-> next_request,
            generation |-> context_generation]}

guards == <<delete_in_flight_id, node_op_in_flight>>
views == <<tabs, next_request, inspections>>
session == <<context_generation, switching>>

-----------------------------------------------------------------------------
(* The user starts a mutation.                                             *)

Update(r) ==
    /\ Start("update", r)
    /\ UNCHANGED <<session, guards, views, verifications>>

\* The request id of a delete is drawn with its entry, which stands for it.
DeleteResource(r) ==
    /\ delete_in_flight_id = NIL
    /\ Start("delete", r)
    /\ delete_in_flight_id' = next_id
    /\ UNCHANGED <<session, node_op_in_flight, views, verifications>>

NodeOp(r) ==
    /\ ~node_op_in_flight
    /\ Start("node", r)
    /\ node_op_in_flight' = TRUE
    /\ UNCHANGED <<session, delete_in_flight_id, views, verifications>>

FluxReconcile(r) ==
    /\ Start("flux", r)
    /\ UNCHANGED <<session, guards, views, verifications>>

Locked(key) ==
    [k \in DOMAIN tabs |->
        IF k = key THEN [tabs[k] EXCEPT !.lock = next_id] ELSE tabs[k]]

\* A restart needs no tab, and one that is asked for in the detail view does not
\* look at the lock; pausing, resuming and undoing need an unlocked tab.
RolloutMutation(r) ==
    /\ Start("rollout", r)
    /\ tabs' = Locked(<<"rollout", r>>)
    /\ UNCHANGED <<session, guards, next_request, inspections, verifications>>

HelmRollback(r) ==
    LET key == <<"helm", r>>
    IN  /\ key \in DOMAIN tabs
        /\ tabs[key].loaded /\ tabs[key].lock = NIL
        /\ Start("helm", r)
        /\ tabs' = Locked(key)
        /\ UNCHANGED <<session, guards, next_request, inspections, verifications>>

-----------------------------------------------------------------------------
(* The main loop receives a result.                                        *)

\* Seeded bug: the entry of a stale result is not completed.
DropStaleUpdate(m, ok) ==
    /\ m.kind = "update"
    /\ mutations' = mutations \ {m}
    /\ IF Current(m) THEN Complete({m.id}, Outcome(ok)) ELSE UNCHANGED entries
    /\ UNCHANGED <<session, next_id, guards, views, verifications>>

ReceiveUpdate(m, ok) ==
    /\ m.kind = "update"
    /\ mutations' = mutations \ {m}
    /\ Complete({m.id}, Outcome(ok /\ Current(m)))
    /\ UNCHANGED <<session, next_id, guards, views, verifications>>

\* Seeded bug: a stale result ends the wait, as it does for a node operation.
StaleDeleteEndsWait(m, ok) ==
    /\ m.kind = "delete"
    /\ mutations' = mutations \ {m}
    /\ Complete({m.id}, Outcome(ok /\ Current(m)))
    /\ delete_in_flight_id' = NIL
    /\ UNCHANGED <<session, next_id, node_op_in_flight, views, verifications>>

ReceiveDelete(m, ok) ==
    LET awaited == Current(m) /\ delete_in_flight_id = m.id
    IN  /\ m.kind = "delete"
        /\ mutations' = mutations \ {m}
        /\ Complete({m.id}, Outcome(ok /\ awaited))
        /\ delete_in_flight_id' = IF awaited THEN NIL ELSE delete_in_flight_id
        /\ UNCHANGED <<session, next_id, node_op_in_flight, views, verifications>>

\* Seeded bug: a stale result leaves the flag, as it does for a delete.
StaleNodeOpKeepsFlag(m, ok) ==
    /\ m.kind = "node"
    /\ mutations' = mutations \ {m}
    /\ Complete({m.id}, Outcome(ok /\ Current(m)))
    /\ node_op_in_flight' = (node_op_in_flight /\ ~Current(m))
    /\ UNCHANGED <<session, next_id, delete_in_flight_id, views, verifications>>

\* Whichever operation it is that ends, the flag is cleared.
ReceiveNodeOp(m, ok) ==
    /\ m.kind = "node"
    /\ mutations' = mutations \ {m}
    /\ Complete({m.id}, Outcome(ok /\ Current(m)))
    /\ node_op_in_flight' = FALSE
    /\ UNCHANGED <<session, next_id, delete_in_flight_id, views, verifications>>

\* Seeded bug: a request that failed is waited for as well.
VerifyAnyway(m, ok) ==
    /\ m.kind = "flux"
    /\ mutations' = mutations \ {m}
    /\ IF ok THEN UNCHANGED entries ELSE Complete({m.id}, "Failed")
    /\ verifications' = verifications \cup {[id |-> m.id, resource |-> m.resource]}
    /\ UNCHANGED <<session, next_id, guards, views>>

\* A request that was accepted replaces an earlier verification of the resource,
\* whose entry nobody completes any more.
ReceiveReconcile(m, ok) ==
    /\ m.kind = "flux"
    /\ mutations' = mutations \ {m}
    /\ IF ok /\ Current(m)
       THEN /\ verifications' =
                  {v \in verifications : v.resource # m.resource}
                      \cup {[id |-> m.id, resource |-> m.resource]}
            /\ UNCHANGED entries
       ELSE /\ Complete({m.id}, "Failed")
            /\ UNCHANGED verifications
    /\ UNCHANGED <<session, next_id, guards, views>>

\* Seeded bug: the tab stays locked when the mutation has failed.
FailureKeepsLock(m, ok) ==
    LET key == <<"rollout", m.resource>>
    IN  /\ m.kind = "rollout"
        /\ mutations' = mutations \ {m}
        /\ Complete({m.id}, Outcome(ok /\ Current(m)))
        /\ IF ok /\ Current(m) /\ key \in DOMAIN tabs
           THEN tabs' = Refreshed(tabs, key) /\ RequestInspection(key)
           ELSE UNCHANGED views
        /\ UNCHANGED <<session, next_id, guards, verifications>>

\* After a success the tab stays locked until it shows the new revisions.
ReceiveRollout(m, ok) ==
    LET key == <<"rollout", m.resource>>
        succeeded == ok /\ Current(m)
    IN  /\ m.kind = "rollout"
        /\ mutations' = mutations \ {m}
        /\ Complete({m.id}, Outcome(succeeded))
        /\ \/ /\ succeeded
              /\ key \in DOMAIN tabs
              /\ tabs' = Refreshed(tabs, key)
              /\ RequestInspection(key)
           \/ /\ succeeded => key \notin DOMAIN tabs
              /\ tabs' = IF succeeded THEN tabs ELSE Unlocked(key, m.id)
              /\ UNCHANGED <<next_request, inspections>>
        /\ UNCHANGED <<session, next_id, guards, verifications>>

\* The tab is unlocked in any case; the history is read even without a tab.
ReceiveRollback(m, ok) ==
    LET key == <<"helm", m.resource>>
        succeeded == ok /\ Current(m)
        unlocked == Unlocked(key, m.id)
    IN  /\ m.kind = "helm"
        /\ mutations' = mutations \ {m}
        /\ Complete({m.id}, Outcome(succeeded))
        /\ \/ /\ succeeded
              /\ tabs' = Refreshed(unlocked, key)
              /\ RequestInspection(key)
           \/ /\ ~succeeded
              /\ tabs' = unlocked
              /\ UNCHANGED <<next_request, inspections>>
        /\ UNCHANGED <<session, next_id, guards, verifications>>

\* process_flux_reconcile_verifications, after a refresh or an update of a Flux
\* watch: some show progress or are past their deadline, which counts as success.
ProcessVerifications(done) ==
    /\ done # {}
    /\ verifications' = verifications \ done
    /\ Complete({v.id : v \in done}, "Succeeded")
    /\ UNCHANGED <<session, next_id, mutations, guards, views>>

-----------------------------------------------------------------------------
(* The tabs.                                                               *)

\* A tab that is open already is refreshed and keeps its lock.
OpenTab(key) ==
    /\ RequestInspection(key)
    /\ tabs' = IF key \in DOMAIN tabs THEN Refreshed(tabs, key)
               ELSE [k \in DOMAIN tabs \cup {key} |->
                        IF k = key
                        THEN [lock |-> NIL, request |-> next_request,
                              loaded |-> FALSE, requested |-> context_generation]
                        ELSE tabs[k]]
    /\ UNCHANGED <<session, entries, next_id, mutations, guards, verifications>>

CloseTab(key) ==
    /\ tabs' = [k \in DOMAIN tabs \ {key} |-> tabs[k]]
    /\ UNCHANGED <<session, entries, next_id, mutations, guards, next_request,
                   inspections, verifications>>

\* What was read, or the error, is shown when the tab still waits for it, and
\* unlocks the tab.
ReceiveInspection(i, ok) ==
    /\ inspections' = inspections \ {i}
    /\ tabs' = [k \in DOMAIN tabs |->
                   IF k = i.key /\ tabs[k].request = i.request /\ Current(i)
                   THEN [tabs[k] EXCEPT !.lock = NIL, !.request = NIL, !.loaded = ok]
                   ELSE tabs[k]]
    /\ UNCHANGED <<session, entries, next_id, mutations, guards, next_request,
                   verifications>>

\* Applying a saved workspace of the same namespace and context.
ApplyWorkspace ==
    /\ tabs' = NoTabs
    /\ UNCHANGED <<session, entries, next_id, mutations, guards, next_request,
                   inspections, verifications>>

-----------------------------------------------------------------------------
(* Namespace and context.                                                  *)

\* invalidate_context_generation
Invalidate ==
    /\ context_generation < MaxGeneration
    /\ context_generation' = context_generation + 1

SelectNamespace ==
    /\ Invalidate
    /\ verifications' = {}
    /\ delete_in_flight_id' = NIL
    /\ node_op_in_flight' = FALSE
    /\ tabs' = NoTabs
    /\ UNCHANGED <<switching, entries, next_id, mutations, next_request, inspections>>

\* The guards are left as they are.
SelectContext ==
    /\ Invalidate
    /\ switching' = TRUE
    /\ verifications' = {}
    /\ tabs' = NoTabs
    /\ UNCHANGED <<entries, next_id, mutations, guards, next_request, inspections>>

\* The tabs opened since SelectContext stay, unless a saved workspace was waiting
\* for the context.
ContextSwitchSucceeds ==
    /\ switching
    /\ Invalidate
    /\ switching' = FALSE
    /\ delete_in_flight_id' = NIL
    /\ node_op_in_flight' = FALSE
    /\ tabs' \in {tabs, NoTabs}
    /\ UNCHANGED <<entries, next_id, mutations, next_request, inspections,
                   verifications>>

ContextSwitchFails ==
    /\ switching
    /\ switching' = FALSE
    /\ UNCHANGED <<context_generation, entries, next_id, mutations, guards, views,
                   verifications>>

-----------------------------------------------------------------------------
Starts(r) ==
    \/ Update(r) \/ DeleteResource(r) \/ NodeOp(r) \/ FluxReconcile(r)
    \/ RolloutMutation(r) \/ HelmRollback(r)

Receives(m, ok) ==
    \/ ReceiveUpdate(m, ok) \/ ReceiveDelete(m, ok) \/ ReceiveNodeOp(m, ok)
    \/ ReceiveReconcile(m, ok) \/ ReceiveRollout(m, ok) \/ ReceiveRollback(m, ok)

Next ==
    \/ \E r \in Resources : Starts(r)
    \/ \E m \in mutations, ok \in BOOLEAN : Receives(m, ok)
    \/ \E done \in SUBSET verifications : ProcessVerifications(done)
    \/ \E key \in TabKey : OpenTab(key)
    \/ \E key \in DOMAIN tabs : CloseTab(key)
    \/ \E i \in inspections, ok \in BOOLEAN : ReceiveInspection(i, ok)
    \/ ApplyWorkspace
    \/ SelectNamespace
    \/ SelectContext
    \/ ContextSwitchSucceeds
    \/ ContextSwitchFails

Spec == Init /\ [][Next]_vars

-----------------------------------------------------------------------------
\* No entry of the history stays pending without a task that will settle it,
\* whatever has been switched since; a Flux reconcile, whose verification may be
\* replaced or dropped, is the exception.
EntriesAreCarried ==
    \A i \in DOMAIN entries :
        (entries[i].status = "Pending" /\ entries[i].kind # "flux") =>
            \E m \in mutations : m.id = entries[i].id

\* Two deletes never run in one generation: neither a stale result nor a switch
\* that failed lets a second one in.
DeletesExclude ==
    \A m, n \in mutations :
        (m.kind = "delete" /\ n.kind = "delete" /\ m.generation = n.generation)
            => m = n

\* Node operations are refused only while one runs, so a switch of context that
\* fails, or a stale result, cannot block them for good.
NodeOpIsCarried ==
    node_op_in_flight => \E m \in mutations : m.kind = "node"

\* A tab that is locked, and so takes no command, waits for its mutation to end or
\* for an inspection on its way to it; one requested before a context switch has
\* succeeded is lost, which is the exception.
LockedTabsAreServed ==
    \A key \in DOMAIN tabs :
        LET tab == tabs[key]
        IN  tab.lock # NIL =>
                \/ \E m \in mutations :
                      m.id = tab.lock /\ key = <<m.kind, m.resource>>
                \/ /\ tab.request # NIL
                   /\ tab.requested = context_generation =>
                         \E i \in inspections :
                            i.key = key /\ i.request = tab.request /\ Current(i)

\* The history never changes its mind: an entry that has succeeded or failed keeps
\* that status, in particular when a verification of a reconcile ends late.
EntriesAreFinal ==
    [][ \A i \in DOMAIN entries, j \in DOMAIN entries' :
           (entries[i].id = entries'[j].id /\ entries[i].status # "Pending")
               => entries'[j] = entries[i] ]_vars

-----------------------------------------------------------------------------
(* The history as the user knows it.                                       *)

Running(m) == [id |-> m.id, stale |-> ~Current(m)]
Tasks == {Running(m) : m \in mutations}

Abstract == INSTANCE ActionHistory WITH
    Followed <- {"flux"}, Limit <- MaxEntries,
    issued <- next_id - 1, ledger <- entries, running <- Tasks

\* The history keeps its promise: through results in any order, switches, results
\* of what was left behind, reconciles that are verified late and entries that are
\* evicted while they are pending, each mutation is settled once, by its own end.
HistoryKeepsPromise == Abstract!Spec

=============================================================================
