----------------------------- MODULE EventsFetch -----------------------------
(***************************************************************************)
(* The events of the cluster, which are fetched beside the refreshes: one  *)
(* fetch in flight, one namespace queued behind it, the list in the global *)
(* state, and what a refresh does to that list without ever reading it: it *)
(* works on a copy of the state, and its result puts the copy in place.    *)
(*                                                                         *)
(* Of the refresh in flight (module Refresh) only the copy is kept.  Left  *)
(* out: the channel, whose order does not matter because the ids tell the  *)
(* results apart; the text of an error; and every view but Events.         *)
(***************************************************************************)
EXTENDS Integers, FiniteSets

CONSTANTS
    Namespaces,     \* namespaces that can be selected, besides all of them
    All,            \* "all"
    NIL,            \* Rust's None
    MaxFetches,     \* bound: the fetches at one time, those given up included
    MaxGeneration,  \* bound: the generation in which one is selected
    MaxDeferred,    \* bound: deferred refreshes that wait
    MaxVersion      \* bound: the changes of the events of the cluster

ASSUME AllAssumption == All \notin Namespaces
ASSUME BoundsAssumption == MaxFetches \in Nat

VARIABLES
    version,             \* the events of the clusters are at
    client,              \* the context that is connected
    switching,           \* a context switch is pending
    context_generation,
    namespace,           \* the selected namespace
    events_view,         \* the view on screen is Events
    events_state,        \* EventsFetchRuntimeState
    fetches,             \* by id: the task of a fetch, or its unread result
    global_state,        \* the events and whether they are being loaded
    refresh,             \* the refresh in flight, by the copy it works on
    deferred,            \* deferred refreshes of the Events view
    cleared              \* history: the generation of the last clearing

vars == <<version, client, switching, context_generation, namespace, events_view,
          events_state, fetches, global_state, refresh, deferred, cleared>>

AnyNamespace == Namespaces \cup {All}
Ids == 1..MaxFetches

\* A list of events is told by where and when it was read, and for which
\* generation.
Events == [client : Nat, namespace : AnyNamespace, version : Nat, generation : Nat]

GlobalState == [events : Events \cup {NIL}, requested : BOOLEAN]

Copy == [state : GlobalState, namespace : AnyNamespace, generation : Nat]

\* Ids are never used twice; here one is used again when nothing knows it.
Fetch ==
    [namespace : AnyNamespace, generation : Nat, client : Nat,
     answered : BOOLEAN, answer : Events \cup {NIL}]

ASSUME NilAssumption ==
    NIL \notin AnyNamespace /\ NIL \notin Events /\ NIL \notin Fetch /\ NIL \notin Copy

\* in_flight_generation is a history variable: the generation in which the fetch
\* in flight was asked for.
EventsFetchRuntimeState ==
    [in_flight_id : Ids \cup {0}, in_flight_namespace : AnyNamespace \cup {NIL},
     queued_namespace : AnyNamespace \cup {NIL}, in_flight_generation : Nat]

\* The types; the id of the fetch in flight and its namespace are set and cleared
\* together.
EventsTypeOK ==
    /\ version \in Nat
    /\ client \in Nat
    /\ switching \in BOOLEAN
    /\ context_generation \in Nat
    /\ namespace \in AnyNamespace
    /\ events_view \in BOOLEAN
    /\ events_state \in EventsFetchRuntimeState
    /\ events_state.in_flight_id = 0 <=> events_state.in_flight_namespace = NIL
    /\ fetches \in [Ids -> Fetch \cup {NIL}]
    /\ global_state \in GlobalState
    /\ refresh \in Copy \cup {NIL}
    /\ deferred \subseteq [namespace : AnyNamespace, generation : Nat]
    /\ cleared \in Nat

-----------------------------------------------------------------------------
NoEvents == [events |-> NIL, requested |-> FALSE]

NoFetch == [in_flight_id |-> 0, in_flight_namespace |-> NIL,
            queued_namespace |-> NIL, in_flight_generation |-> 0]

NewId(state, tasks, id) == tasks[id] = NIL /\ id # state.in_flight_id

\* spawn_events_fetch_task, of a fetch that becomes the one in flight
SpawnFetch(state, tasks, ns, generation, context) ==
    \E id \in Ids :
        /\ NewId(state, tasks, id)
        /\ \A other \in 1..(id - 1) : ~NewId(state, tasks, other)
        /\ events_state' = [state EXCEPT !.in_flight_id = id,
                                         !.in_flight_namespace = ns,
                                         !.in_flight_generation = generation]
        /\ fetches' = [tasks EXCEPT ![id] =
               [namespace |-> ns, generation |-> generation, client |-> context,
                answered |-> FALSE, answer |-> NIL]]

\* A request behind a fetch in flight is queued, unless it has been made already.
Queue(state, ns) ==
    IF ns \in {state.in_flight_namespace, state.queued_namespace} THEN state
    ELSE [state EXCEPT !.queued_namespace = ns]

\* request_events_refresh, in a handler that has left the global state, the
\* fetches and the generation as they are given here.
RequestEvents(state, shown, ns, generation, context) ==
    IF state.in_flight_id # 0
    THEN /\ events_state' = Queue(state, ns)
         /\ global_state' = shown
         /\ UNCHANGED fetches
    ELSE /\ global_state' = [shown EXCEPT !.requested = TRUE]
         /\ SpawnFetch(state, fetches, ns, generation, context)

\* The handlers that ask for events do so in the Events view only.
EventsIfShown(view, state, shown, ns, generation, context) ==
    IF view THEN RequestEvents(state, shown, ns, generation, context)
    ELSE events_state' = state /\ global_state' = shown /\ UNCHANGED fetches

\* request_refresh: a copy of the state is started on, in place of the one in
\* flight when that is preempted, or it has to wait.
Refreshing(shown, ns, generation) ==
    LET copy == [state |-> shown, namespace |-> ns, generation |-> generation]
    IN  ({copy} \cup {refresh}) \ {NIL}

-----------------------------------------------------------------------------
Init ==
    /\ version = 0 /\ client = 0 /\ switching = FALSE
    /\ context_generation = 0
    /\ namespace \in AnyNamespace
    /\ events_view = FALSE
    /\ events_state = NoFetch
    /\ fetches = [id \in Ids |-> NIL]
    /\ global_state = NoEvents
    /\ refresh \in {NIL, [state |-> NoEvents, namespace |-> namespace, generation |-> 0]}
    /\ deferred = {}
    /\ cleared = 0

ClusterChanges ==
    /\ version < MaxVersion
    /\ version' = version + 1
    /\ UNCHANGED <<client, switching, context_generation, namespace, events_view,
                   events_state, fetches, global_state, refresh, deferred, cleared>>

\* Unchanged by what happens within a generation.
session == <<version, client, switching, context_generation, cleared>>

RequestsHere(state) ==
    RequestEvents(events_state, state, namespace, context_generation, client)

\* AppAction::NavigateTo, and a saved workspace with another view.  The Events
\* view needs no refresh.
ShowEvents ==
    /\ events_view' = TRUE
    /\ RequestsHere(global_state)
    /\ UNCHANGED <<session, namespace, refresh, deferred>>

ShowOther ==
    /\ events_view' = FALSE
    /\ refresh' \in Refreshing(global_state, namespace, context_generation)
    /\ UNCHANGED <<session, namespace, events_state, fetches, global_state, deferred>>

\* AppAction::RefreshData
RefreshData ==
    /\ refresh' \in Refreshing(global_state, namespace, context_generation)
    /\ EventsIfShown(events_view, events_state, global_state, namespace,
                     context_generation, client)
    /\ UNCHANGED <<session, namespace, events_view, deferred>>

\* The 30 s timer, in the Events view; in others it is like ShowOther.
AutoRefresh ==
    /\ events_view
    /\ RequestsHere(global_state)
    /\ UNCHANGED <<session, namespace, events_view, refresh, deferred>>

\* A mutation that was started in the Events view has succeeded.
MutationSucceeded ==
    /\ Cardinality(deferred) < MaxDeferred
    /\ deferred' = deferred \cup
          {[namespace |-> namespace, generation |-> context_generation]}
    /\ UNCHANGED <<session, namespace, events_view, events_state, fetches,
                   global_state, refresh>>

\* Seeded bug: a trigger of an earlier generation fires.
FiresAnyway(trigger) ==
    /\ trigger \in deferred
    /\ deferred' = deferred \ {trigger}
    /\ RequestEvents(events_state, global_state, trigger.namespace,
                     context_generation, client)
    /\ UNCHANGED <<session, namespace, events_view, refresh>>

\* The events are asked for whatever the view now is.
DeferredFires(trigger) ==
    /\ trigger \in deferred
    /\ deferred' = deferred \ {trigger}
    /\ IF trigger.generation = context_generation
       THEN RequestEvents(events_state, global_state, trigger.namespace,
                          context_generation, client)
       ELSE UNCHANGED <<events_state, fetches, global_state>>
    /\ UNCHANGED <<session, namespace, events_view, refresh>>

-----------------------------------------------------------------------------
(* The fetch                                                               *)

FetchAnswers(id, ok) ==
    /\ fetches[id] # NIL /\ ~fetches[id].answered
    /\ fetches' = [fetches EXCEPT ![id].answered = TRUE, ![id].answer =
           IF ok THEN [client |-> fetches[id].client,
                       namespace |-> fetches[id].namespace,
                       version |-> version, generation |-> fetches[id].generation]
           ELSE NIL]
    /\ UNCHANGED <<session, namespace, events_view, events_state, global_state,
                   refresh, deferred>>

\* Seeded bug: a task ends and tells nobody.
FetchDies(id) ==
    /\ fetches[id] # NIL /\ ~fetches[id].answered
    /\ fetches' = [fetches EXCEPT ![id] = NIL]
    /\ UNCHANGED <<session, namespace, events_view, events_state, global_state,
                   refresh, deferred>>

\* A task that has been aborted is dropped at its next await, if it has one.
FetchAborted(id) ==
    /\ fetches[id] # NIL /\ ~fetches[id].answered
    /\ id # events_state.in_flight_id
    /\ fetches' = [fetches EXCEPT ![id] = NIL]
    /\ UNCHANGED <<session, namespace, events_view, events_state, global_state,
                   refresh, deferred>>

\* Seeded bug: a result for a namespace that was left ends no fetch.
AcceptsSelected(id) ==
    /\ fetches[id].generation = context_generation
    /\ events_state.in_flight_id = id
    /\ fetches[id].namespace = namespace

\* Seeded bug: a result is taken for that of the fetch in flight by its id alone.
AcceptsById(id) == events_state.in_flight_id = id

Accepts(id) ==
    /\ fetches[id].generation = context_generation
    /\ events_state.in_flight_id = id

\* apply_events_update, or fail_events_refresh
Shown(fetch) ==
    IF fetch.namespace # namespace THEN global_state
    ELSE [events |-> IF fetch.answer = NIL THEN global_state.events ELSE fetch.answer,
          requested |-> FALSE]

\* The fetch of the queued namespace is started at once, and not announced.
ReceiveEvents(id) ==
    LET fetch == fetches[id]
        read == [fetches EXCEPT ![id] = NIL]
        done == [events_state EXCEPT !.in_flight_id = 0, !.in_flight_namespace = NIL,
                                     !.queued_namespace = NIL]
        queued == events_state.queued_namespace
    IN  /\ fetch # NIL /\ fetch.answered
        /\ \/ /\ ~Accepts(id)
              /\ fetches' = read
              /\ UNCHANGED <<events_state, global_state>>
           \/ /\ Accepts(id) /\ queued = NIL
              /\ fetches' = read
              /\ events_state' = done
              /\ global_state' = Shown(fetch)
           \/ /\ Accepts(id) /\ queued # NIL
              /\ SpawnFetch(done, read, queued, context_generation, client)
              /\ global_state' = Shown(fetch)
        /\ UNCHANGED <<session, namespace, events_view, refresh, deferred>>

-----------------------------------------------------------------------------
(* Refreshes                                                               *)

\* A result of the current generation.  The state is replaced when it is of the
\* selected namespace; what was queued is started on a copy of the new state.
RefreshResult(ok) ==
    LET matches == ok /\ refresh.namespace = namespace
    IN  /\ refresh # NIL /\ refresh.generation = context_generation
        /\ global_state' = IF matches THEN refresh.state ELSE global_state
        /\ refresh' \in {NIL, [state |-> global_state', namespace |-> namespace,
                               generation |-> context_generation]}
        /\ UNCHANGED <<session, namespace, events_view, events_state, fetches, deferred>>

\* The result, or an update of the watched namespaces, says that the selected
\* namespace is gone.  What was queued may be started on the state so announced.
RefreshFindsNamespaceGone ==
    /\ refresh # NIL /\ refresh.generation = context_generation
    /\ namespace # All /\ refresh.namespace = namespace
    /\ namespace' = All
    /\ EventsIfShown(events_view, events_state, refresh.state, All,
                     context_generation, client)
    /\ \E state \in {refresh.state, global_state'} :
          refresh' = [state |-> state, namespace |-> All,
                      generation |-> context_generation]
    /\ UNCHANGED <<session, events_view, deferred>>

NamespaceGone ==
    /\ namespace # All
    /\ namespace' = All
    /\ refresh' \in Refreshing(global_state, All, context_generation)
    /\ EventsIfShown(events_view, events_state, global_state, All,
                     context_generation, client)
    /\ UNCHANGED <<session, events_view, deferred>>

-----------------------------------------------------------------------------
(* Namespace and context                                                   *)

\* Seeded bug: the namespace of the fetch that is aborted is kept.
AbortKeepsNamespace(state) ==
    [state EXCEPT !.in_flight_id = 0, !.queued_namespace = NIL]

\* abort_in_flight_events_fetch, and no namespace is queued.
AbortEvents(state) ==
    [state EXCEPT !.in_flight_id = 0, !.in_flight_namespace = NIL,
                  !.queued_namespace = NIL]

NewGeneration == context_generation' = context_generation + 1

\* The refresh that SelectNamespace and a new context start; the Events view
\* needs none.
RefreshUnless(view, shown, ns, generation) ==
    refresh' = IF view THEN NIL
               ELSE [state |-> shown, namespace |-> ns, generation |-> generation]

\* A saved workspace may bring its view.
SelectNamespace(ns, view) ==
    /\ context_generation < MaxGeneration
    /\ NewGeneration
    /\ namespace' = ns /\ events_view' = view
    /\ cleared' = context_generation'
    /\ RefreshUnless(view, NoEvents, ns, context_generation')
    /\ EventsIfShown(view, AbortEvents(events_state), NoEvents, ns,
                     context_generation', client)
    /\ UNCHANGED <<version, client, switching, deferred>>

\* The fetch in flight is not aborted, nor is what is queued dropped.
SelectContext ==
    /\ context_generation < MaxGeneration
    /\ NewGeneration
    /\ switching' = TRUE
    /\ global_state' = NoEvents
    /\ cleared' = context_generation'
    /\ UNCHANGED <<version, client, namespace, events_view, events_state, fetches,
                   refresh, deferred>>

\* The state is not cleared again.
ContextSwitchSucceeds(ns, view) ==
    /\ switching /\ switching' = FALSE
    /\ NewGeneration
    /\ client' = client + 1
    /\ namespace' = ns /\ events_view' = view
    /\ RefreshUnless(view, global_state, ns, context_generation')
    /\ EventsIfShown(view, AbortEvents(events_state), global_state, ns,
                     context_generation', client')
    /\ UNCHANGED <<version, deferred, cleared>>

ContextSwitchFails ==
    /\ switching /\ switching' = FALSE
    /\ UNCHANGED <<version, client, context_generation, namespace, events_view,
                   events_state, fetches, global_state, refresh, deferred, cleared>>

-----------------------------------------------------------------------------
Next ==
    \/ ClusterChanges
    \/ ShowEvents \/ ShowOther \/ RefreshData \/ AutoRefresh \/ MutationSucceeded
    \/ \E trigger \in deferred : DeferredFires(trigger)
    \/ \E id \in Ids, ok \in BOOLEAN : FetchAnswers(id, ok)
    \/ \E id \in Ids : FetchAborted(id) \/ ReceiveEvents(id)
    \/ \E ok \in BOOLEAN : RefreshResult(ok)
    \/ RefreshFindsNamespaceGone
    \/ NamespaceGone
    \/ \E ns \in AnyNamespace, view \in BOOLEAN :
          SelectNamespace(ns, view) \/ ContextSwitchSucceeds(ns, view)
    \/ SelectContext
    \/ ContextSwitchFails

Spec == Init /\ [][Next]_vars

\* Tasks end and the loop reads its channel, the timer runs while the Events
\* view is shown, and the API server does not fail for ever.
FairSpec ==
    /\ Spec
    /\ WF_vars(AutoRefresh)
    /\ \A id \in Ids :
          /\ SF_vars(FetchAnswers(id, TRUE))
          /\ WF_vars(FetchAborted(id))
          /\ WF_vars(ReceiveEvents(id))

-----------------------------------------------------------------------------
\* The fetch that the loop waits for is on its way, for the namespace that was
\* asked for: nothing is queued behind an answer that nobody gives.  One that was
\* asked for before a SelectContext is lost, which is the exception.
FetchIsCarried ==
    LET id == events_state.in_flight_id
    IN  id # 0 /\ events_state.in_flight_generation = context_generation =>
            /\ fetches[id] # NIL
            /\ fetches[id].namespace = events_state.in_flight_namespace
            /\ fetches[id].generation = context_generation

\* A namespace is queued only behind the fetch of another one.
QueuedBehindFetch ==
    events_state.queued_namespace # NIL =>
        /\ events_state.in_flight_id # 0
        /\ events_state.queued_namespace # events_state.in_flight_namespace

\* While a namespace is selected, the fetch of the current generation is of that
\* namespace, and no other is queued behind it.
NamespaceFetches ==
    events_state.in_flight_id # 0
        /\ events_state.in_flight_generation = context_generation
        /\ namespace # All =>
            /\ events_state.in_flight_namespace = namespace
            /\ events_state.queued_namespace = NIL

\* No events are shown, nor brought back by the copy of a refresh, that were asked
\* for before the last clearing; those that the current generation has asked for
\* are of the selected namespace and the connected cluster.
EventsOf(state, ns) ==
    state.events # NIL =>
        /\ state.events.generation >= cleared
        /\ state.events.generation = context_generation =>
              /\ state.events.client = client
              /\ ns # All => state.events.namespace = ns

EventsOfSelection ==
    /\ EventsOf(global_state, namespace)
    /\ refresh # NIL /\ refresh.generation = context_generation =>
          EventsOf(refresh.state, refresh.namespace)

\* The events that are shown, in the terms of SelectedData.
Showing ==
    IF global_state.events = NIL THEN NIL
    ELSE [client |-> global_state.events.client,
          namespace |-> global_state.events.namespace,
          generation |-> global_state.events.generation]

Abstract ==
    INSTANCE SelectedData
    WITH generation <- context_generation, shown <- Showing,
         Clients <- Nat, NONE <- NIL

\* Fetches, the queue behind them and the refreshes that put copies of the state
\* in place together show the events as SelectedData promises.
ShowsSelectedEvents == Abstract!Spec

\* In the Events view, once no refresh is in flight for good, the latest events of
\* the selected namespace come to be shown, unless a context switch that failed
\* has left the loop waiting for a lost fetch.  (While refreshes go on, each may
\* put back the older events of its copy.)
EventsConverge ==
    <>[](events_view /\ refresh = NIL) =>
        <>[](\/ /\ global_state.events # NIL
                /\ global_state.events.version = version
                /\ global_state.events.namespace = namespace
                /\ ~global_state.requested \/ events_state.in_flight_id # 0
             \/ /\ events_state.in_flight_id # 0
                /\ events_state.in_flight_generation # context_generation)

=============================================================================
