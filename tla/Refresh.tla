------------------------------ MODULE Refresh -------------------------------
(***************************************************************************)
(* The refresh pipeline of the main loop: at most one refresh is meant to  *)
(* be in flight, later requests are merged into one queued refresh, a view *)
(* the user is looking at preempts a background backfill, and a change of  *)
(* namespace or context starts a new generation whose older results are    *)
(* dropped.  The refresh tasks run concurrently with the loop and answer   *)
(* through the refresh_rx channel.                                         *)
(*                                                                         *)
(* Left out: what a refresh fetches (module Session), the failure backoff  *)
(* and the open detail panel, which only delay an automatic refresh, and   *)
(* the capacity of the channel, which only delays a task that is done.     *)
(***************************************************************************)
EXTENDS Integers, Sequences, FiniteSets, Scopes

CONSTANTS
    Views,          \* the views the user visits
    Namespaces,     \* the namespaces the user selects
    All,            \* the pseudo namespace "all", sent as no namespace
    NIL,            \* Option::None
    MaxSeq,         \* bound: requests the loop starts
    MaxGeneration,  \* bound: namespace and context changes
    MaxDeferred     \* bound: deferred refreshes pending at once

ASSUME ViewsAssumption == Views \subseteq AppViews /\ "none" \notin Views
ASSUME AllAssumption == All \notin Namespaces

VARIABLES
    refresh,    \* RefreshRuntimeState, with the tasks it has spawned
    refresh_rx, \* results sent by the tasks and not yet received
    deferred,   \* deferred refresh triggers that have not fired yet
    namespace,  \* app.namespace
    view,       \* app.view
    switching,  \* pending_context_switch.is_some()
    watching    \* the watch manager runs (active_scope is not NONE)

vars == <<refresh, refresh_rx, deferred, namespace, view, switching, watching>>

AnyNamespace == Namespaces \cup {All}
AnyView == Views \cup {NoView}

\* A spawned refresh task, and the in_flight_* fields that describe it.
Job ==
    [task : Nat, id : Nat, generation : Nat, namespace : AnyNamespace,
     scope : SUBSET Flags, skip_core : BOOLEAN, target_view : AnyView]

QueuedRefresh ==
    [request_id : Nat, namespace : AnyNamespace, primary_scope : SUBSET Flags,
     scope : SUBSET Flags, skip_core : BOOLEAN, target_view : AnyView,
     context_generation : Nat]

\* running and aborting are the tasks that have not sent their result; an
\* aborted one may still send it.
RefreshRuntimeState ==
    [request_seq : Nat, in_flight : Job \cup {NIL},
     queued_refresh : QueuedRefresh \cup {NIL}, context_generation : Nat,
     spawned : Nat, running : SUBSET Job, aborting : SUBSET Job]

\* namespace_gone: the task succeeded and its state holds a list of namespaces
\* without the one it was asked for (read by the task or copied with the state,
\* see module Session).  A failed task changes nothing here.
RefreshAsyncResult == [job : Job, namespace_gone : BOOLEAN]

RefreshDispatch ==
    [primary_scope : SUBSET Flags, scope : SUBSET Flags, target_view : AnyView]

MUTATION_REFRESH_DELAYS_SECS == {2, 5}

DeferredRefreshTrigger ==
    [context_generation : Nat, namespace : AnyNamespace,
     dispatch : RefreshDispatch, delay : MUTATION_REFRESH_DELAYS_SECS]

ASSUME NilAssumption == NIL \notin Job /\ NIL \notin QueuedRefresh

TypeOK ==
    /\ refresh \in RefreshRuntimeState
    /\ refresh_rx \in Seq(RefreshAsyncResult)
    /\ deferred \subseteq DeferredRefreshTrigger
    /\ namespace \in AnyNamespace
    /\ view \in Views
    /\ switching \in BOOLEAN
    /\ watching \in BOOLEAN

-----------------------------------------------------------------------------
(* request_refresh and its helpers, as functions of the runtime state.     *)

\* Spawns the task of a refresh and records it as the one in flight.
Launch(r, id, ns, scope, skip_core, target) ==
    LET job == [task |-> r.spawned + 1, id |-> id,
                generation |-> r.context_generation, namespace |-> ns,
                scope |-> scope, skip_core |-> skip_core,
                target_view |-> target]
    IN  [r EXCEPT !.in_flight = job, !.spawned = job.task,
                  !.running = @ \cup {job}]

\* Seeded bug: the task is aborted and stays recorded as the one in flight.
AbortAndForget(r) ==
    [r EXCEPT !.running = @ \ {r.in_flight},
              !.aborting = @ \cup ({r.in_flight} \cap r.running)]

\* abort_in_flight_refresh
AbortInFlight(r) ==
    [r EXCEPT !.in_flight = NIL,
              !.running = @ \ {r.in_flight},
              !.aborting = @ \cup ({r.in_flight} \cap r.running)]

\* The view's load state is tracked only when the fetch covers all it needs.
ScopedTargetView(scope, target) ==
    IF target # NoView /\ scope = ViewReadyScope(target) THEN target ELSE NoView

\* Only an untargeted backfill gives way, to a refresh of the visible view.
CanPreempt(r, target) ==
    /\ target # NoView
    /\ r.in_flight # NIL
    /\ r.in_flight.skip_core
    /\ r.in_flight.target_view = NoView

\* Aborts the backfill in flight and queues it again.
Preempt(r) ==
    LET backfill ==
            [request_id |-> r.request_seq + 1,
             namespace |-> r.in_flight.namespace, primary_scope |-> NONE,
             scope |-> r.in_flight.scope, skip_core |-> r.in_flight.skip_core,
             target_view |-> NoView,
             context_generation |-> r.context_generation]
        old == r.queued_refresh
        merged == [old EXCEPT
                     !.namespace = IF @ = All THEN backfill.namespace ELSE @,
                     !.scope = @ \cup backfill.scope,
                     !.skip_core = @ /\ backfill.skip_core,
                     !.target_view = NoView]
    IN  [AbortInFlight(r) EXCEPT
            !.queued_refresh = IF old = NIL THEN backfill ELSE merged]

\* Starts the immediate part of a request and queues the rest as a backfill.
StartNow(r, id, ns, immediate, background, target) ==
    LET started == Launch(r, id, ns, immediate, FALSE,
                          ScopedTargetView(immediate, target))
        backfill ==
            [request_id |-> r.request_seq + 1, namespace |-> ns,
             primary_scope |-> NONE, scope |-> background, skip_core |-> TRUE,
             target_view |-> ScopedTargetView(background, target),
             context_generation |-> r.context_generation]
    IN  IF background = NONE
        THEN started
        ELSE [started EXCEPT !.request_seq = @ + 1, !.queued_refresh = backfill]

\* The view a merged request is for: none when two views are merged.
MergedTargetView(old, new) ==
    IF old = NoView \/ old = new THEN new
    ELSE IF new = NoView THEN old ELSE NoView

\* Seeded bug: the core scopes of the incoming request are forgotten.
InheritSkipCore(old, primary) == old # NIL /\ old.skip_core

\* A merged request is a backfill only when both of its parts are.
MergedSkipCore(old, primary) == old # NIL /\ old.skip_core /\ primary = NONE

\* Seeded bug: a request replaces the queued one.
ReplaceQueued(r, id, ns, d) ==
    [r EXCEPT !.queued_refresh =
        [request_id |-> id, namespace |-> ns, primary_scope |-> d.primary_scope,
         scope |-> d.scope, skip_core |-> FALSE,
         target_view |-> ScopedTargetView(d.scope, d.target_view),
         context_generation |-> r.context_generation]]

\* Merges a request into the queued one; the newest namespace wins.
MergeIntoQueue(r, id, ns, d) ==
    LET old == r.queued_refresh
        scope == d.scope \cup (IF old = NIL THEN NONE ELSE old.scope)
        primary == d.primary_scope
                       \cup (IF old = NIL THEN NONE ELSE old.primary_scope)
    IN  [r EXCEPT !.queued_refresh =
            [request_id |-> id, namespace |-> ns, primary_scope |-> primary,
             scope |-> scope,
             skip_core |-> MergedSkipCore(old, primary),
             target_view |->
                MergedTargetView(
                    IF old = NIL THEN NoView
                    ELSE ScopedTargetView(scope, old.target_view),
                    ScopedTargetView(scope, d.target_view)),
             context_generation |-> r.context_generation]]

RequestRefresh(r, ns, d) ==
    LET primary    == d.primary_scope \cap d.scope
        immediate  == IF primary = NONE THEN d.scope ELSE primary
        background == d.scope \ immediate
        id         == r.request_seq + 1
        counted    == [r EXCEPT !.request_seq = id]
        ready      == IF CanPreempt(r, ScopedTargetView(immediate, d.target_view))
                      THEN Preempt(counted) ELSE counted
    IN  IF d.scope = NONE THEN r
        ELSE IF ready.in_flight = NIL
        THEN StartNow(ready, id, ns, immediate, background, d.target_view)
        ELSE MergeIntoQueue(ready, id, ns, d)

\* queued_refresh_requires_two_phase
RequiresTwoPhase(q) ==
    q.primary_scope # NONE /\ ~q.skip_core /\ q.scope \ q.primary_scope # NONE

\* Seeded bug: the queued refresh is recorded without spawning its task.
RecordQueued(r) ==
    IF r.queued_refresh = NIL THEN r
    ELSE [r EXCEPT !.queued_refresh = NIL, !.in_flight = r.queued_refresh]

\* Seeded bug: a queued backfill is left for the next request to merge.
LeaveBackfill(r) ==
    LET q == r.queued_refresh
    IN  IF q = NIL \/ q.skip_core THEN r
        ELSE Launch([r EXCEPT !.queued_refresh = NIL], q.request_id,
                    q.namespace, q.scope, q.skip_core, q.target_view)

\* The end of the refresh_rx handler: the queued refresh is started, in one or
\* two phases, unless its generation is over.
RunQueued(r) ==
    LET q == r.queued_refresh
        popped == [r EXCEPT !.queued_refresh = NIL]
    IN  IF q = NIL THEN r
        ELSE IF q.context_generation # r.context_generation THEN popped
        ELSE IF RequiresTwoPhase(q)
        THEN RequestRefresh(popped, q.namespace,
                            Dispatch(q.primary_scope, q.scope, q.target_view))
        ELSE Launch(popped, q.request_id, q.namespace, q.scope, q.skip_core,
                    q.target_view)

\* invalidate_context_generation, and the wider reset of the handlers that
\* also abort the refresh in flight and drop the queued one.
InvalidateGeneration(r) ==
    [r EXCEPT !.context_generation = @ + 1]

\* Seeded bug: the queued refresh is kept.
NewGenerationKeepsQueue(r) == AbortInFlight(InvalidateGeneration(r))

NewGeneration(r) ==
    [AbortInFlight(InvalidateGeneration(r)) EXCEPT !.queued_refresh = NIL]

ViewDispatch(v) == RefreshOptionsForView(v, v \in FluxViews, FALSE)

-----------------------------------------------------------------------------
\* RefreshRuntimeState::default
IdleRefresh ==
    [request_seq |-> 0, in_flight |-> NIL, queued_refresh |-> NIL,
     context_generation |-> 0, spawned |-> 0, running |-> {}, aborting |-> {}]

Init ==
    /\ view \in Views
    /\ namespace \in AnyNamespace
    /\ refresh = RequestRefresh(IdleRefresh, namespace,
                    RefreshOptionsForView(view, view \in FluxViews, TRUE))
    /\ refresh_rx = <<>>
    /\ deferred = {}
    /\ switching = FALSE
    /\ watching = TRUE

\* Bounds the requests of a behaviour.
MayRequest == refresh.request_seq < MaxSeq

Request(ns, d) == refresh' = RequestRefresh(refresh, ns, d)

\* AppAction::NavigateTo, and a workspace of the current namespace restored.
NavigateTo(v) ==
    /\ MayRequest
    /\ view' = v
    /\ IF v = "PortForwarding" THEN UNCHANGED refresh
       ELSE Request(namespace, ViewDispatch(v))
    /\ UNCHANGED <<refresh_rx, deferred, namespace, switching, watching>>

\* AppAction::RefreshData
RefreshData ==
    /\ MayRequest
    /\ Request(namespace, FullRefreshOptions(TRUE, TRUE))
    /\ UNCHANGED <<refresh_rx, deferred, namespace, view, switching, watching>>

\* The auto_refresh tick: watched scopes are left to their watchers.
AutoRefresh(include_flux) ==
    LET active == IF watching THEN NormalizeWatchScope(WatchScopeForView(view))
                  ELSE NONE
    IN  /\ MayRequest
        /\ Request(namespace,
                   StripActiveWatchScope(
                       RefreshOptionsForView(view, include_flux, FALSE), active))
        /\ UNCHANGED <<refresh_rx, deferred, namespace, view, switching, watching>>

\* apply_mutation_success, run for a mutation of the current generation that
\* was started in the view origin.
MutationSucceeded(origin, force_include_flux) ==
    LET d == MutationRefreshOptions(
                 origin, force_include_flux \/ origin \in FluxViews)
    IN  /\ MayRequest
        /\ Cardinality(deferred) + 2 <= MaxDeferred
        /\ Request(namespace, d)
        /\ deferred' = deferred \cup
               [context_generation : {refresh.context_generation},
                namespace : {namespace}, dispatch : {d},
                delay : MUTATION_REFRESH_DELAYS_SECS]
        /\ UNCHANGED <<refresh_rx, namespace, view, switching, watching>>

\* The deferred_refresh_rx handler.
DeferredFires(trigger) ==
    /\ MayRequest
    /\ deferred' = deferred \ {trigger}
    /\ IF trigger.context_generation # refresh.context_generation
       THEN UNCHANGED refresh
       ELSE Request(trigger.namespace, trigger.dispatch)
    /\ UNCHANGED <<refresh_rx, namespace, view, switching, watching>>

\* AppAction::SelectNamespace; v differs from view when the selection restores
\* a workspace.
SelectNamespace(ns, v) ==
    /\ MayRequest
    /\ refresh.context_generation < MaxGeneration
    /\ namespace' = ns
    /\ view' = v
    /\ refresh' = RequestRefresh(NewGeneration(refresh), ns, ViewDispatch(v))
    /\ watching' = TRUE
    /\ UNCHANGED <<refresh_rx, deferred, switching>>

\* AppAction::SelectContext: the connection is made in the background.
SelectContext ==
    /\ refresh.context_generation < MaxGeneration
    /\ refresh' = InvalidateGeneration(refresh)
    /\ switching' = TRUE
    /\ watching' = FALSE
    /\ UNCHANGED <<refresh_rx, deferred, namespace, view>>

\* pending_context_switch is done; v and ns differ from view and namespace when
\* the switch restores a workspace.
ContextSwitchSucceeds(ns, v) ==
    /\ switching
    /\ switching' = FALSE
    /\ namespace' = ns
    /\ view' = v
    /\ refresh' = RequestRefresh(NewGeneration(refresh), ns,
                                 RefreshOptionsForView(v, v \in FluxViews, TRUE))
    /\ watching' = TRUE
    /\ UNCHANGED <<refresh_rx, deferred>>

\* fail_context_switch leaves the refresh state and the watches as they are.
ContextSwitchFails ==
    /\ switching
    /\ switching' = FALSE
    /\ UNCHANGED <<refresh, refresh_rx, deferred, namespace, view, watching>>

Send(job, namespace_gone) ==
    refresh_rx' =
        Append(refresh_rx, [job |-> job, namespace_gone |-> namespace_gone])

Receive == refresh_rx # <<>> /\ refresh_rx' = Tail(refresh_rx)

\* A refresh task sends its result, the last thing it does.  An aborted task
\* may be past its last await.
TaskFinishes(job, namespace_gone) ==
    /\ job.namespace = All => ~namespace_gone
    /\ Send(job, namespace_gone)
    /\ refresh' = [refresh EXCEPT !.running = @ \ {job},
                                 !.aborting = @ \ {job}]
    /\ UNCHANGED <<deferred, namespace, view, switching, watching>>

TaskAborted(job) ==
    /\ refresh' = [refresh EXCEPT !.aborting = @ \ {job}]
    /\ UNCHANGED <<refresh_rx, deferred, namespace, view, switching, watching>>

\* Seeded bug: a result for a namespace that was left is dropped unhandled.
AcceptsSelectedNamespace(r, job) ==
    /\ job.generation = r.context_generation /\ job.namespace = namespace
    /\ r.in_flight # NIL /\ r.in_flight.id = job.id

\* A result is taken for the refresh in flight when the request ids agree.
Accepts(r, job) ==
    /\ job.generation = r.context_generation
    /\ r.in_flight # NIL
    /\ r.in_flight.id = job.id

NamespaceFallback(r) == RequestRefresh(r, All, ViewDispatch(view))

\* The refresh_rx handler.  Results of other generations and of other requests
\* are dropped; a namespace that is gone is replaced by all namespaces; then
\* the queued refresh runs.
RefreshResult ==
    LET result == Head(refresh_rx)
        cleared == [refresh EXCEPT !.in_flight = NIL]
    IN  /\ Receive
        /\ \/ /\ ~Accepts(refresh, result.job)
              /\ UNCHANGED <<refresh, namespace>>
           \/ /\ Accepts(refresh, result.job)
              /\ result.namespace_gone /\ result.job.namespace = namespace
              /\ namespace' = All
              /\ refresh' = RunQueued(NamespaceFallback(cleared))
           \/ /\ Accepts(refresh, result.job)
              /\ ~(result.namespace_gone /\ result.job.namespace = namespace)
              /\ refresh' = RunQueued(cleared)
              /\ UNCHANGED namespace
        /\ UNCHANGED <<deferred, view, switching, watching>>

\* The watch_rx handler, for a namespace list without the selected namespace.
NamespaceGone ==
    /\ MayRequest
    /\ watching
    /\ namespace # All
    /\ namespace' = All
    /\ refresh' = NamespaceFallback(refresh)
    /\ UNCHANGED <<refresh_rx, deferred, view, switching, watching>>

Users ==
    \/ \E v \in Views : NavigateTo(v)
    \/ RefreshData
    \/ \E origin \in Views, force_include_flux \in BOOLEAN :
            MutationSucceeded(origin, force_include_flux)
    \/ \E ns \in AnyNamespace, v \in Views : SelectNamespace(ns, v)
    \/ SelectContext

Next ==
    \/ Users
    \/ \E include_flux \in BOOLEAN : AutoRefresh(include_flux)
    \/ \E trigger \in deferred : DeferredFires(trigger)
    \/ \E ns \in AnyNamespace, v \in Views : ContextSwitchSucceeds(ns, v)
    \/ ContextSwitchFails
    \/ \E job \in refresh.running \cup refresh.aborting, gone \in BOOLEAN :
            TaskFinishes(job, gone)
    \/ \E job \in refresh.aborting : TaskAborted(job)
    \/ RefreshResult
    \/ NamespaceGone

Spec == Init /\ [][Next]_vars

\* A task ends because its fetch has a timeout of 60 s; the loop polls
\* refresh_rx in every turn.
Fairness ==
    /\ WF_refresh_rx(\E job \in refresh.running, gone \in BOOLEAN : Send(job, gone))
    /\ WF_refresh_rx(Receive)

FairSpec == Spec /\ Fairness

-----------------------------------------------------------------------------
\* The refresh in flight belongs to the current generation.
Current(r) == r.in_flight # NIL /\ r.in_flight.generation = r.context_generation

\* Some task will still answer for the job, or has answered already.
Carried(job) ==
    \/ job \in refresh.running
    \/ \E i \in DOMAIN refresh_rx : refresh_rx[i].job = job

\* A refresh of the current generation that the loop waits for is always
\* carried by a task that was not aborted, or by its unread result: aborting,
\* preempting and superseding never leave in_flight_id without an answer,
\* which would stop every later refresh.
InFlightIsCarried == Current(refresh) => Carried(refresh.in_flight)

\* A queued refresh always waits behind one in flight, whose result is the only
\* thing that starts it.
QueuedBehindInFlight ==
    refresh.queued_refresh # NIL => refresh.in_flight # NIL

\* While one namespace is selected, no refresh that is in flight, queued or
\* deferred in the current generation is for another one: a request merged into
\* an older one, a preempted backfill (even of an older generation) or a deferred
\* trigger never fetches a namespace that the user has left.
NamespaceWork ==
    namespace # All =>
        /\ refresh.in_flight # NIL => refresh.in_flight.namespace = namespace
        /\ refresh.queued_refresh # NIL =>
              refresh.queued_refresh.namespace = namespace
        /\ \A trigger \in deferred :
              trigger.context_generation = refresh.context_generation
                  => trigger.namespace = namespace

\* A backfill skips the core resources, so a request with a core scope that is
\* merged with one never inherits its skip_core: no core scope is ever queued or
\* in flight in a refresh that does not fetch it.
BackfillsHaveNoCore ==
    /\ (refresh.in_flight # NIL /\ refresh.in_flight.skip_core) =>
          refresh.in_flight.scope \cap CORE_OVERVIEW = NONE
    /\ (refresh.queued_refresh # NIL /\ refresh.queued_refresh.skip_core) =>
          refresh.queued_refresh.scope \cap CORE_OVERVIEW = NONE

\* Within a generation a running task is aborted only if it is an untargeted
\* backfill, and only to start a refresh of the view that the user is looking
\* at; what it was fetching is queued again.
PreemptOnlyBackfill ==
    [][ \A job \in refresh'.aborting \ refresh.aborting :
            refresh'.context_generation = refresh.context_generation =>
                /\ job.skip_core /\ job.target_view = NoView
                /\ refresh'.in_flight.target_view # NoView ]_vars

\* Once requests stop coming (their number is bounded), every refresh of the
\* current generation is answered or given up with its generation: a preempted,
\* merged or superseded one never stays in flight.
RefreshIsAnswered == Current(refresh) ~> ~Current(refresh)

\* The flags that the current generation still waits for.
Outstanding(r) ==
    (IF Current(r) THEN r.in_flight.scope ELSE NONE)
        \cup (IF r.queued_refresh # NIL
                 /\ r.queued_refresh.context_generation = r.context_generation
              THEN r.queued_refresh.scope ELSE NONE)

\* No request is lost: within a generation a flag that is waited for ceases to be
\* so only with the answer of the refresh in flight that fetches it.  There are two
\* exceptions: a request that preempts a backfill and queues a background part of
\* its own, which takes the place of what was queued, and a result that finds the
\* namespace gone, because the fallback and the queued refresh start at once.
NothingIsForgotten ==
    [][ refresh'.context_generation = refresh.context_generation =>
            LET lost == Outstanding(refresh) \ Outstanding(refresh')
            IN  \/ lost = NONE
                \/ /\ Receive /\ Accepts(refresh, Head(refresh_rx).job)
                   /\ lost \subseteq refresh.in_flight.scope \/ namespace' # namespace
                \/ /\ refresh.in_flight.skip_core
                   /\ refresh'.in_flight.target_view # NoView
                   /\ refresh'.queued_refresh # NIL
                   /\ refresh'.queued_refresh.request_id = refresh'.request_seq ]_vars

-----------------------------------------------------------------------------
(* What the documentation says and the code does not do.                   *)

\* README.md:266: data is refreshed every 30 s, so a refresh in flight ends,
\* whatever its generation, at least when no context switch is pending.  The
\* result of an older generation is dropped without clearing in_flight_id, and
\* SelectContext neither aborts the refresh in flight nor clears it.
InFlightEnds ==
    (refresh.in_flight # NIL /\ ~switching)
        ~> (refresh.in_flight = NIL \/ switching)

=============================================================================
