-------------------------- MODULE EventsFetchProofs --------------------------
(***************************************************************************)
(* What the events fetch guarantees for any namespaces and any number of   *)
(* fetches, generations, deferred refreshes and changes of the cluster.    *)
(* The invariant is stated of values, so that it can be used of the state  *)
(* in which a handler calls request_events_refresh, between two of its own *)
(* assignments.                                                            *)
(***************************************************************************)
EXTENDS EventsFetch, TLAPS

\* The fetches, and what the loop knows of them, in a generation with the
\* selected namespace ns and the connected context.
FetchTypes(state, tasks) ==
    /\ state \in EventsFetchRuntimeState
    /\ tasks \in [Ids -> Fetch \cup {NIL}]
    /\ state.in_flight_id = 0 <=> state.in_flight_namespace = NIL

\* A fetch is of no later generation, one of the current generation asks the
\* connected context, and what it read is what it asked for.
FetchesSound(tasks, generation, context) ==
    \A id \in Ids : tasks[id] # NIL =>
        /\ tasks[id].generation <= generation
        /\ tasks[id].generation = generation => tasks[id].client = context
        /\ tasks[id].answer # NIL =>
              /\ tasks[id].answer.generation = tasks[id].generation
              /\ tasks[id].answer.client = tasks[id].client
              /\ tasks[id].answer.namespace = tasks[id].namespace

InFlight(state, tasks, generation) ==
    /\ state.in_flight_generation <= generation
    /\ state.in_flight_id # 0 =>
          /\ state.in_flight_generation = generation => tasks[state.in_flight_id] # NIL
          /\ tasks[state.in_flight_id] # NIL =>
                /\ tasks[state.in_flight_id].namespace = state.in_flight_namespace
                /\ tasks[state.in_flight_id].generation = state.in_flight_generation

QueuedBehind(state) ==
    state.queued_namespace # NIL =>
        /\ state.in_flight_id # 0
        /\ state.queued_namespace # state.in_flight_namespace

Selects(state, ns, generation) ==
    state.in_flight_id # 0 /\ state.in_flight_generation = generation /\ ns # All =>
        /\ state.in_flight_namespace = ns
        /\ state.queued_namespace = NIL

FetchInv(state, tasks, ns, generation, context) ==
    /\ FetchTypes(state, tasks)
    /\ FetchesSound(tasks, generation, context)
    /\ InFlight(state, tasks, generation)
    /\ QueuedBehind(state)
    /\ Selects(state, ns, generation)

\* A state, in the current generation: what it shows was asked for since the last
\* clearing, and in this generation for the namespace of the state.
StateSound(state, ns, generation, context, clearing) ==
    /\ state \in GlobalState
    /\ state.events # NIL =>
          /\ state.events.generation <= generation
          /\ state.events.generation >= clearing
          /\ state.events.generation = generation =>
                /\ state.events.client = context
                /\ ns # All => state.events.namespace = ns

RefreshSound(copy, generation, context, clearing) ==
    copy # NIL =>
        /\ copy \in Copy
        /\ copy.generation <= generation
        /\ copy.generation = generation =>
              StateSound(copy.state, copy.namespace, generation, context, clearing)

\* A deferred refresh of the current generation is for the selected namespace.
DeferredSound(triggers, ns, generation) ==
    /\ triggers \subseteq [namespace : AnyNamespace, generation : Nat]
    /\ \A trigger \in triggers :
          /\ trigger.generation <= generation
          /\ trigger.generation = generation /\ ns # All => trigger.namespace = ns

SessionTypes ==
    /\ version \in Nat
    /\ client \in Nat
    /\ switching \in BOOLEAN
    /\ context_generation \in Nat
    /\ namespace \in AnyNamespace
    /\ events_view \in BOOLEAN
    /\ cleared \in Nat
    /\ cleared <= context_generation

EventsInv ==
    /\ SessionTypes
    /\ FetchInv(events_state, fetches, namespace, context_generation, client)
    /\ StateSound(global_state, namespace, context_generation, client, cleared)
    /\ RefreshSound(refresh, context_generation, client, cleared)
    /\ DeferredSound(deferred, namespace, context_generation)

-----------------------------------------------------------------------------
LEMMA IdsAreNumbers == Ids \subseteq Nat \ {0}
BY BoundsAssumption DEF Ids

LEMMA NilIsNoNamespace == NIL \notin AnyNamespace /\ NIL \notin Events /\ NIL \notin Fetch
BY NilAssumption

LEMMA AllIsANamespace == All \in AnyNamespace
BY DEF AnyNamespace

\* What spawn_events_fetch_task and the assignments around it do.
LEMMA Spawned ==
    ASSUME NEW state \in EventsFetchRuntimeState,
           NEW tasks \in [Ids -> Fetch \cup {NIL}],
           NEW ns \in AnyNamespace, NEW generation \in Nat, NEW context \in Nat,
           SpawnFetch(state, tasks, ns, generation, context)
    PROVE  \E id \in Ids :
              /\ events_state' \in EventsFetchRuntimeState
              /\ events_state'.in_flight_id = id
              /\ events_state'.in_flight_namespace = ns
              /\ events_state'.in_flight_generation = generation
              /\ events_state'.queued_namespace = state.queued_namespace
              /\ fetches' \in [Ids -> Fetch \cup {NIL}]
              /\ fetches'[id] \in Fetch
              /\ fetches'[id].namespace = ns
              /\ fetches'[id].generation = generation
              /\ fetches'[id].client = context
              /\ fetches'[id].answer = NIL
              /\ \A other \in Ids : other # id => fetches'[other] = tasks[other]
<1> DEFINE task == [namespace |-> ns, generation |-> generation, client |-> context,
                    answered |-> FALSE, answer |-> NIL]
<1>1. PICK id \in Ids :
         /\ events_state' = [state EXCEPT !.in_flight_id = id,
                                          !.in_flight_namespace = ns,
                                          !.in_flight_generation = generation]
         /\ fetches' = [tasks EXCEPT ![id] = task]
  BY Zenon DEF SpawnFetch
<1>2. /\ task \in Fetch
      /\ task.namespace = ns /\ task.generation = generation
      /\ task.client = context /\ task.answer = NIL
  BY DEF Fetch
<1>3. /\ fetches' \in [Ids -> Fetch \cup {NIL}]
      /\ fetches'[id] = task
      /\ \A other \in Ids : other # id => fetches'[other] = tasks[other]
  <2> HIDE DEF task
  <2>1. QED
    BY <1>1, <1>2
<1>4. /\ events_state' \in EventsFetchRuntimeState
      /\ events_state'.in_flight_id = id
      /\ events_state'.in_flight_namespace = ns
      /\ events_state'.in_flight_generation = generation
      /\ events_state'.queued_namespace = state.queued_namespace
  BY <1>1 DEF EventsFetchRuntimeState
<1>5. QED
  BY <1>2, <1>3, <1>4, Zenon

\* A fetch that is started with nothing queued behind it keeps the invariant.
LEMMA SpawnKeeps ==
    ASSUME NEW state, NEW tasks, NEW ns \in AnyNamespace, NEW selected \in AnyNamespace,
           NEW generation \in Nat, NEW context \in Nat,
           FetchTypes(state, tasks), FetchesSound(tasks, generation, context),
           state.queued_namespace = NIL,
           selected # All => ns = selected,
           SpawnFetch(state, tasks, ns, generation, context)
    PROVE  FetchInv(events_state', fetches', selected, generation, context)
<1>1. PICK id \in Ids :
              /\ events_state' \in EventsFetchRuntimeState
              /\ events_state'.in_flight_id = id
              /\ events_state'.in_flight_namespace = ns
              /\ events_state'.in_flight_generation = generation
              /\ events_state'.queued_namespace = state.queued_namespace
              /\ fetches' \in [Ids -> Fetch \cup {NIL}]
              /\ fetches'[id] \in Fetch
              /\ fetches'[id].namespace = ns
              /\ fetches'[id].generation = generation
              /\ fetches'[id].client = context
              /\ fetches'[id].answer = NIL
              /\ \A other \in Ids : other # id => fetches'[other] = tasks[other]
  BY Spawned DEF FetchTypes
<1>2. FetchTypes(events_state', fetches')
  BY <1>1, IdsAreNumbers, NilIsNoNamespace DEF FetchTypes
<1>3. FetchesSound(fetches', generation, context)
  BY <1>1 DEF FetchesSound
<1>4. InFlight(events_state', fetches', generation)
  BY <1>1, NilIsNoNamespace DEF InFlight
<1>5. QueuedBehind(events_state') /\ Selects(events_state', selected, generation)
  BY <1>1 DEF QueuedBehind, Selects
<1>6. QED
  BY <1>2, <1>3, <1>4, <1>5 DEF FetchInv

\* A request keeps the invariant and shows at most that events are asked for.
LEMMA RequestKeeps ==
    ASSUME NEW state, NEW shown, NEW ns \in AnyNamespace, NEW selected \in AnyNamespace,
           NEW generation \in Nat, NEW context \in Nat,
           FetchInv(state, fetches, selected, generation, context),
           selected # All => ns = selected,
           RequestEvents(state, shown, ns, generation, context)
    PROVE  /\ FetchInv(events_state', fetches', selected, generation, context)
           /\ global_state' \in {shown, [shown EXCEPT !.requested = TRUE]}
<1>1. CASE state.in_flight_id # 0
  <2>1. /\ events_state' = Queue(state, ns)
        /\ global_state' = shown
        /\ fetches' = fetches
    BY <1>1 DEF RequestEvents
  <2>2. CASE ns \in {state.in_flight_namespace, state.queued_namespace}
    BY <2>1, <2>2 DEF Queue
  <2>3. CASE ns \notin {state.in_flight_namespace, state.queued_namespace}
    <3> DEFINE next == [state EXCEPT !.queued_namespace = ns]
    <3>1. /\ next \in EventsFetchRuntimeState
          /\ next.in_flight_id = state.in_flight_id
          /\ next.in_flight_namespace = state.in_flight_namespace
          /\ next.in_flight_generation = state.in_flight_generation
          /\ next.queued_namespace = ns
      BY DEF FetchInv, FetchTypes, EventsFetchRuntimeState
    <3> HIDE DEF next
    <3>2. FetchTypes(next, fetches) /\ InFlight(next, fetches, generation)
      BY <3>1 DEF FetchInv, FetchTypes, InFlight
    <3>3. QueuedBehind(next)
      BY <1>1, <2>3, <3>1 DEF QueuedBehind
    <3>4. Selects(next, selected, generation)
      BY <2>3, <3>1 DEF FetchInv, Selects
    <3>5. events_state' = next
      BY <2>1, <2>3 DEF Queue, next
    <3>6. QED
      BY <2>1, <3>2, <3>3, <3>4, <3>5 DEF FetchInv
  <2>4. QED
    BY <2>2, <2>3
<1>2. CASE state.in_flight_id = 0
  <2>1. /\ global_state' = [shown EXCEPT !.requested = TRUE]
        /\ SpawnFetch(state, fetches, ns, generation, context)
    BY <1>2 DEF RequestEvents
  <2>2. state.queued_namespace = NIL
    BY <1>2 DEF FetchInv, QueuedBehind
  <2>3. FetchInv(events_state', fetches', selected, generation, context)
    BY <2>1, <2>2, SpawnKeeps DEF FetchInv
  <2>4. QED
    BY <2>1, <2>3
<1>3. QED
  BY <1>1, <1>2

LEMMA RequestIfShownKeeps ==
    ASSUME NEW view, NEW state, NEW shown, NEW ns \in AnyNamespace,
           NEW selected \in AnyNamespace, NEW generation \in Nat, NEW context \in Nat,
           FetchInv(state, fetches, selected, generation, context),
           selected # All => ns = selected,
           EventsIfShown(view, state, shown, ns, generation, context)
    PROVE  /\ FetchInv(events_state', fetches', selected, generation, context)
           /\ global_state' \in {shown, [shown EXCEPT !.requested = TRUE]}
<1>1. CASE view
  BY <1>1, RequestKeeps DEF EventsIfShown
<1>2. CASE ~view
  BY <1>2 DEF EventsIfShown
<1>3. QED
  BY <1>1, <1>2

\* In a new generation nothing is in flight once the fetch has been aborted.
LEMMA AbortKeeps ==
    ASSUME NEW state, NEW tasks, NEW ns, NEW generation \in Nat, NEW context,
           NEW selected, NEW connected,
           FetchInv(state, tasks, ns, generation, context)
    PROVE  FetchInv(AbortEvents(state), tasks, selected, generation + 1, connected)
<1>1. /\ AbortEvents(state) \in EventsFetchRuntimeState
      /\ AbortEvents(state).in_flight_id = 0
      /\ AbortEvents(state).in_flight_namespace = NIL
      /\ AbortEvents(state).queued_namespace = NIL
      /\ AbortEvents(state).in_flight_generation = state.in_flight_generation
  BY DEF AbortEvents, EventsFetchRuntimeState, FetchInv, FetchTypes
<1>2. \A id \in Ids : tasks[id] # NIL => tasks[id].generation \in Nat
  BY DEF FetchInv, FetchTypes, Fetch
<1>3. FetchesSound(tasks, generation + 1, connected)
  BY <1>2 DEF FetchInv, FetchesSound
<1>4. state.in_flight_generation \in Nat
  BY DEF FetchInv, FetchTypes, EventsFetchRuntimeState
<1>5. QED
  BY <1>1, <1>3, <1>4 DEF FetchInv, FetchTypes, InFlight, QueuedBehind, Selects

\* Left in place, it is lost, and is of no generation but its own.
LEMMA NewGenerationKeeps ==
    ASSUME NEW state, NEW tasks, NEW ns, NEW generation \in Nat, NEW context,
           FetchInv(state, tasks, ns, generation, context)
    PROVE  FetchInv(state, tasks, ns, generation + 1, context)
<1>1. \A id \in Ids : tasks[id] # NIL => tasks[id].generation \in Nat
  BY DEF FetchInv, FetchTypes, Fetch
<1>2. FetchesSound(tasks, generation + 1, context)
  BY <1>1 DEF FetchInv, FetchesSound
<1>3. state.in_flight_generation \in Nat
  BY DEF FetchInv, FetchTypes, EventsFetchRuntimeState
<1>4. QED
  BY <1>2, <1>3 DEF FetchInv, InFlight, Selects

\* The mark that events are asked for changes no event.
LEMMA RequestedKeepsState ==
    ASSUME NEW shown, NEW next \in {shown, [shown EXCEPT !.requested = TRUE]},
           NEW ns, NEW generation, NEW context, NEW clearing,
           StateSound(shown, ns, generation, context, clearing)
    PROVE  StateSound(next, ns, generation, context, clearing)
<1>1. next \in GlobalState /\ next.events = shown.events
  BY DEF StateSound, GlobalState
<1>2. QED
  BY <1>1 DEF StateSound

LEMMA EmptyStateSound ==
    ASSUME NEW ns, NEW generation, NEW context, NEW clearing
    PROVE  StateSound(NoEvents, ns, generation, context, clearing)
BY DEF StateSound, NoEvents, GlobalState

\* A state stays sound when a generation begins without clearing it, and when all
\* namespaces are selected.
LEMMA NewGenerationKeepsState ==
    ASSUME NEW state, NEW ns, NEW generation \in Nat, NEW context, NEW clearing,
           NEW selected, NEW connected,
           StateSound(state, ns, generation, context, clearing)
    PROVE  StateSound(state, selected, generation + 1, connected, clearing)
<1>1. state.events # NIL => state.events.generation \in Nat
  BY DEF StateSound, GlobalState, Events
<1>2. QED
  BY <1>1 DEF StateSound

LEMMA AllKeepsState ==
    ASSUME NEW state, NEW ns, NEW generation, NEW context, NEW clearing,
           StateSound(state, ns, generation, context, clearing)
    PROVE  StateSound(state, All, generation, context, clearing)
BY DEF StateSound

\* The copy of a sound state is a sound refresh.
LEMMA CopySound ==
    ASSUME NEW state, NEW ns \in AnyNamespace, NEW generation \in Nat, NEW context,
           NEW clearing,
           StateSound(state, ns, generation, context, clearing)
    PROVE  RefreshSound([state |-> state, namespace |-> ns, generation |-> generation],
                        generation, context, clearing)
<1> DEFINE copy == [state |-> state, namespace |-> ns, generation |-> generation]
<1>1. /\ copy \in Copy
      /\ copy.state = state /\ copy.namespace = ns /\ copy.generation = generation
  BY DEF Copy, StateSound
<1> HIDE DEF copy
<1>2. RefreshSound(copy, generation, context, clearing)
  BY <1>1 DEF RefreshSound
<1>3. QED
  BY <1>2 DEF copy

LEMMA RefreshingSound ==
    ASSUME NEW state, NEW ns \in AnyNamespace, NEW generation \in Nat, NEW context,
           NEW clearing,
           StateSound(state, ns, generation, context, clearing),
           RefreshSound(refresh, generation, context, clearing),
           NEW next \in Refreshing(state, ns, generation)
    PROVE  RefreshSound(next, generation, context, clearing)
<1>1. \/ next = [state |-> state, namespace |-> ns, generation |-> generation]
      \/ next = refresh
  BY DEF Refreshing
<1>2. QED
  BY <1>1, CopySound

\* A refresh of an earlier generation, or of one that now ends, is sound.
LEMMA NewGenerationKeepsRefresh ==
    ASSUME NEW copy, NEW generation \in Nat, NEW context, NEW clearing,
           NEW connected, NEW now,
           RefreshSound(copy, generation, context, clearing)
    PROVE  RefreshSound(copy, generation + 1, connected, now)
<1>1. copy # NIL => copy.generation \in Nat
  BY DEF RefreshSound, Copy
<1>2. QED
  BY <1>1 DEF RefreshSound

LEMMA NewGenerationKeepsDeferred ==
    ASSUME NEW triggers, NEW ns, NEW generation \in Nat, NEW selected,
           DeferredSound(triggers, ns, generation)
    PROVE  DeferredSound(triggers, selected, generation + 1)
<1>1. \A trigger \in triggers : trigger.generation \in Nat
  BY DEF DeferredSound
<1>2. QED
  BY <1>1 DEF DeferredSound

LEMMA FallbackKeeps ==
    ASSUME EventsInv
    PROVE  /\ FetchInv(events_state, fetches, All, context_generation, client)
           /\ DeferredSound(deferred, All, context_generation)
BY DEF EventsInv, FetchInv, Selects, DeferredSound

-----------------------------------------------------------------------------
LEMMA InitEstablishes == Init => EventsInv
<1> SUFFICES ASSUME Init PROVE EventsInv
  OBVIOUS
<1>1. SessionTypes
  <2>1. switching \in BOOLEAN /\ events_view \in BOOLEAN
    BY Zenon DEF Init
  <2>2. QED
    BY <2>1 DEF Init, SessionTypes
<1>2. FetchInv(events_state, fetches, namespace, context_generation, client)
  <2>1. NoFetch \in EventsFetchRuntimeState
    BY DEF NoFetch, EventsFetchRuntimeState
  <2>2. QED
    BY <2>1 DEF Init, NoFetch, FetchInv, FetchTypes, FetchesSound, InFlight,
                QueuedBehind, Selects
<1>3. StateSound(NoEvents, namespace, context_generation, client, cleared)
  BY EmptyStateSound
<1>4. RefreshSound(refresh, context_generation, client, cleared)
  <2>1. namespace \in AnyNamespace /\ context_generation = 0
    BY DEF Init
  <2>2. RefreshSound([state |-> NoEvents, namespace |-> namespace, generation |-> 0],
                     0, client, cleared)
    BY <1>3, <2>1, CopySound
  <2>3. QED
    BY <2>1, <2>2 DEF Init, RefreshSound
<1>5. DeferredSound(deferred, namespace, context_generation)
  BY DEF Init, DeferredSound
<1>6. QED
  BY <1>1, <1>2, <1>3, <1>4, <1>5 DEF Init, EventsInv

-----------------------------------------------------------------------------
LEMMA StutterKeeps ==
    ASSUME EventsInv, UNCHANGED vars
    PROVE  EventsInv'
<1>1. /\ version' = version /\ client' = client /\ switching' = switching
      /\ context_generation' = context_generation /\ namespace' = namespace
      /\ events_view' = events_view /\ events_state' = events_state
      /\ fetches' = fetches /\ global_state' = global_state /\ refresh' = refresh
      /\ deferred' = deferred /\ cleared' = cleared
  BY DEF vars
<1>2. QED
  BY <1>1 DEF EventsInv, SessionTypes

LEMMA ClusterChangesKeeps ==
    ASSUME EventsInv, ClusterChanges
    PROVE  EventsInv'
<1>1. /\ version' = version + 1 /\ client' = client /\ switching' = switching
      /\ context_generation' = context_generation /\ namespace' = namespace
      /\ events_view' = events_view /\ events_state' = events_state
      /\ fetches' = fetches /\ global_state' = global_state /\ refresh' = refresh
      /\ deferred' = deferred /\ cleared' = cleared
  BY DEF ClusterChanges
<1>2. QED
  BY <1>1 DEF EventsInv, SessionTypes

\* A step within a generation: what it leaves alone stays sound.
LEMMA SessionKeeps ==
    ASSUME EventsInv, UNCHANGED session, namespace' \in AnyNamespace,
           events_view' \in BOOLEAN
    PROVE  /\ SessionTypes'
           /\ context_generation' = context_generation
           /\ client' = client
           /\ cleared' = cleared
BY DEF EventsInv, SessionTypes, session

\* A request in the selected namespace leaves what is shown sound.
LEMMA RequestsHereKeeps ==
    ASSUME EventsInv, RequestsHere(global_state)
    PROVE  /\ FetchInv(events_state', fetches', namespace, context_generation, client)
           /\ StateSound(global_state', namespace, context_generation, client, cleared)
<1>1. /\ namespace \in AnyNamespace /\ context_generation \in Nat /\ client \in Nat
      /\ FetchInv(events_state, fetches, namespace, context_generation, client)
      /\ StateSound(global_state, namespace, context_generation, client, cleared)
  BY DEF EventsInv, SessionTypes
<1>2. RequestEvents(events_state, global_state, namespace, context_generation, client)
  BY DEF RequestsHere
<1>3. /\ FetchInv(events_state', fetches', namespace, context_generation, client)
      /\ global_state' \in {global_state, [global_state EXCEPT !.requested = TRUE]}
  BY <1>1, <1>2, RequestKeeps
<1>4. QED
  BY <1>1, <1>3, RequestedKeepsState

LEMMA RequestsIfShownKeeps ==
    ASSUME EventsInv, NEW ns \in {namespace, All}, NEW shown,
           StateSound(shown, ns, context_generation, client, cleared),
           EventsIfShown(events_view, events_state, shown, ns, context_generation, client)
    PROVE  /\ FetchInv(events_state', fetches', ns, context_generation, client)
           /\ StateSound(global_state', ns, context_generation, client, cleared)
<1>1. /\ ns \in AnyNamespace /\ context_generation \in Nat /\ client \in Nat
      /\ FetchInv(events_state, fetches, ns, context_generation, client)
  BY AllIsANamespace, FallbackKeeps DEF EventsInv, SessionTypes
<1>2. /\ FetchInv(events_state', fetches', ns, context_generation, client)
      /\ global_state' \in {shown, [shown EXCEPT !.requested = TRUE]}
  BY <1>1, RequestIfShownKeeps
<1>3. QED
  BY <1>2, RequestedKeepsState

LEMMA UsersKeep ==
    ASSUME EventsInv, ShowEvents \/ ShowOther \/ RefreshData \/ AutoRefresh
    PROVE  EventsInv'
<1>1. /\ UNCHANGED session /\ namespace' = namespace /\ deferred' = deferred
      /\ events_view' \in BOOLEAN
  BY DEF ShowEvents, ShowOther, RefreshData, AutoRefresh, EventsInv, SessionTypes
<1>2. /\ SessionTypes' /\ context_generation' = context_generation
      /\ client' = client /\ cleared' = cleared
  BY <1>1, SessionKeeps DEF EventsInv, SessionTypes
<1>3. /\ namespace \in AnyNamespace /\ context_generation \in Nat
      /\ StateSound(global_state, namespace, context_generation, client, cleared)
      /\ RefreshSound(refresh, context_generation, client, cleared)
  BY DEF EventsInv, SessionTypes
<1>4. RefreshSound(refresh', context_generation, client, cleared)
  <2>1. CASE refresh' = refresh
    BY <1>3, <2>1
  <2>2. CASE refresh' \in Refreshing(global_state, namespace, context_generation)
    BY <1>3, <2>2, RefreshingSound
  <2>3. QED
    BY <2>1, <2>2 DEF ShowEvents, ShowOther, RefreshData, AutoRefresh
<1>5. /\ FetchInv(events_state', fetches', namespace, context_generation, client)
      /\ StateSound(global_state', namespace, context_generation, client, cleared)
  <2>1. CASE ShowEvents \/ AutoRefresh
    BY <2>1, RequestsHereKeeps DEF ShowEvents, AutoRefresh
  <2>2. CASE RefreshData
    BY <1>3, <2>2, RequestsIfShownKeeps DEF RefreshData
  <2>3. CASE ShowOther
    BY <2>3 DEF ShowOther, EventsInv
  <2>4. QED
    BY <2>1, <2>2, <2>3
<1>6. QED
  BY <1>1, <1>2, <1>4, <1>5 DEF EventsInv

LEMMA MutationKeeps ==
    ASSUME EventsInv, MutationSucceeded
    PROVE  EventsInv'
<1> DEFINE new == [namespace |-> namespace, generation |-> context_generation]
<1>1. /\ UNCHANGED session /\ namespace' = namespace /\ events_view' = events_view
      /\ deferred' = deferred \cup {new}
      /\ events_state' = events_state /\ fetches' = fetches
      /\ global_state' = global_state /\ refresh' = refresh
  BY DEF MutationSucceeded
<1>2. /\ SessionTypes' /\ context_generation' = context_generation
      /\ client' = client /\ cleared' = cleared
  BY <1>1, SessionKeeps DEF EventsInv, SessionTypes
<1>3. /\ new \in [namespace : AnyNamespace, generation : Nat]
      /\ new.generation = context_generation /\ new.namespace = namespace
  BY DEF EventsInv, SessionTypes
<1>4. DeferredSound(deferred', namespace, context_generation)
  <2> HIDE DEF new
  <2>1. QED
    BY <1>1, <1>3 DEF EventsInv, SessionTypes, DeferredSound
<1>5. QED
  BY <1>1, <1>2, <1>4 DEF EventsInv

LEMMA DeferredKeeps ==
    ASSUME EventsInv, NEW trigger \in deferred, DeferredFires(trigger)
    PROVE  EventsInv'
<1>1. /\ UNCHANGED session /\ namespace' = namespace /\ events_view' = events_view
      /\ refresh' = refresh /\ deferred' = deferred \ {trigger}
  BY DEF DeferredFires
<1>2. /\ SessionTypes' /\ context_generation' = context_generation
      /\ client' = client /\ cleared' = cleared
  BY <1>1, SessionKeeps DEF EventsInv, SessionTypes
<1>3. DeferredSound(deferred', namespace, context_generation)
  BY <1>1 DEF EventsInv, DeferredSound
<1>4. /\ FetchInv(events_state', fetches', namespace, context_generation, client)
      /\ StateSound(global_state', namespace, context_generation, client, cleared)
  <2>1. CASE trigger.generation = context_generation
    <3>1. RequestEvents(events_state, global_state, trigger.namespace,
                        context_generation, client)
      BY <2>1 DEF DeferredFires
    <3>2. /\ trigger.namespace \in AnyNamespace /\ namespace \in AnyNamespace
          /\ namespace # All => trigger.namespace = namespace
          /\ context_generation \in Nat /\ client \in Nat
      BY <2>1 DEF EventsInv, DeferredSound, SessionTypes
    <3>3. /\ FetchInv(events_state', fetches', namespace, context_generation, client)
          /\ global_state' \in {global_state, [global_state EXCEPT !.requested = TRUE]}
      BY <3>1, <3>2, RequestKeeps DEF EventsInv
    <3>4. QED
      BY <3>3, RequestedKeepsState DEF EventsInv
  <2>2. CASE trigger.generation # context_generation
    BY <2>2 DEF DeferredFires, EventsInv
  <2>3. QED
    BY <2>1, <2>2
<1>5. QED
  BY <1>1, <1>2, <1>3, <1>4 DEF EventsInv

-----------------------------------------------------------------------------
\* What a task of a fetch does leaves the other parts alone.
LEMMA TaskKeeps ==
    ASSUME EventsInv, UNCHANGED <<session, namespace, events_view, events_state,
                                  global_state, refresh, deferred>>,
           FetchInv(events_state, fetches', namespace, context_generation, client)
    PROVE  EventsInv'
<1>1. /\ UNCHANGED session /\ namespace' = namespace /\ events_view' = events_view
      /\ events_state' = events_state /\ global_state' = global_state
      /\ refresh' = refresh /\ deferred' = deferred
  OBVIOUS
<1>2. /\ SessionTypes' /\ context_generation' = context_generation
      /\ client' = client /\ cleared' = cleared
  BY <1>1, SessionKeeps DEF EventsInv, SessionTypes
<1>3. QED
  BY <1>1, <1>2 DEF EventsInv

LEMMA AnswerKeeps ==
    ASSUME EventsInv, NEW id \in Ids, NEW ok \in BOOLEAN, FetchAnswers(id, ok)
    PROVE  EventsInv'
<1> DEFINE answer == IF ok THEN [client |-> fetches[id].client,
                                 namespace |-> fetches[id].namespace,
                                 version |-> version,
                                 generation |-> fetches[id].generation]
                     ELSE NIL
           task == [fetches[id] EXCEPT !.answered = TRUE, !.answer = answer]
<1>1. fetches[id] \in Fetch /\ fetches \in [Ids -> Fetch \cup {NIL}] /\ version \in Nat
  BY DEF FetchAnswers, EventsInv, SessionTypes, FetchInv, FetchTypes
<1>2. /\ answer \in Events \cup {NIL}
      /\ answer # NIL => /\ answer.client = fetches[id].client
                         /\ answer.namespace = fetches[id].namespace
                         /\ answer.generation = fetches[id].generation
  BY <1>1 DEF Fetch, Events
<1>3. /\ task \in Fetch
      /\ task.namespace = fetches[id].namespace
      /\ task.generation = fetches[id].generation
      /\ task.client = fetches[id].client
      /\ task.answer = answer
  <2> HIDE DEF answer
  <2>1. QED
    BY <1>1, <1>2 DEF Fetch
<1>4. fetches' = [fetches EXCEPT ![id] = task]
  BY DEF FetchAnswers
<1>5. FetchInv(events_state, fetches', namespace, context_generation, client)
  <2> HIDE DEF answer, task
  <2>1. /\ fetches' \in [Ids -> Fetch \cup {NIL}]
        /\ fetches'[id] = task
        /\ \A other \in Ids : other # id => fetches'[other] = fetches[other]
    BY <1>1, <1>3, <1>4
  <2>2. FetchesSound(fetches', context_generation, client)
    BY <1>1, <1>2, <1>3, <2>1, NilIsNoNamespace DEF EventsInv, FetchInv, FetchesSound
  <2>3. InFlight(events_state, fetches', context_generation)
    <3>1. events_state.in_flight_id # 0 => events_state.in_flight_id \in Ids
      BY DEF EventsInv, FetchInv, FetchTypes, EventsFetchRuntimeState
    <3>2. QED
      BY <1>1, <1>3, <2>1, <3>1, NilIsNoNamespace DEF EventsInv, FetchInv, InFlight
  <2>4. QED
    BY <2>1, <2>2, <2>3 DEF EventsInv, FetchInv, FetchTypes
<1>6. QED
  BY <1>5, TaskKeeps DEF FetchAnswers

\* A fetch that is forgotten leaves the others sound, when it is not the one that
\* the loop waits for in this generation.
LEMMA ForgetKeeps ==
    ASSUME EventsInv, NEW id \in Ids,
           \/ id # events_state.in_flight_id
           \/ events_state.in_flight_generation # context_generation
    PROVE  FetchInv(events_state, [fetches EXCEPT ![id] = NIL], namespace,
                    context_generation, client)
<1> DEFINE rest == [fetches EXCEPT ![id] = NIL]
<1>1. /\ rest \in [Ids -> Fetch \cup {NIL}]
      /\ rest[id] = NIL
      /\ \A other \in Ids : other # id => rest[other] = fetches[other]
  BY DEF EventsInv, FetchInv, FetchTypes
<1> HIDE DEF rest
<1>2. FetchesSound(rest, context_generation, client)
  BY <1>1 DEF EventsInv, FetchInv, FetchesSound
<1>3. InFlight(events_state, rest, context_generation)
  <2>1. events_state.in_flight_id # 0 => events_state.in_flight_id \in Ids
    BY DEF EventsInv, FetchInv, FetchTypes, EventsFetchRuntimeState
  <2>2. QED
    BY <1>1, <2>1 DEF EventsInv, FetchInv, InFlight
<1>4. FetchInv(events_state, rest, namespace, context_generation, client)
  BY <1>1, <1>2, <1>3 DEF EventsInv, FetchInv, FetchTypes
<1>5. QED
  BY <1>4 DEF rest

LEMMA AbortedKeeps ==
    ASSUME EventsInv, NEW id \in Ids, FetchAborted(id)
    PROVE  EventsInv'
<1>1. /\ id # events_state.in_flight_id
      /\ fetches' = [fetches EXCEPT ![id] = NIL]
      /\ UNCHANGED <<session, namespace, events_view, events_state, global_state,
                     refresh, deferred>>
  BY DEF FetchAborted
<1>2. QED
  BY <1>1, ForgetKeeps, TaskKeeps

\* What an accepted answer shows.
LEMMA ShownSound ==
    ASSUME EventsInv, NEW id \in Ids, fetches[id] # NIL, Accepts(id)
    PROVE  StateSound(Shown(fetches[id]), namespace, context_generation, client, cleared)
<1> DEFINE fetch == fetches[id]
<1>1. /\ fetch \in Fetch /\ fetch.generation = context_generation
      /\ fetch.client = client
      /\ fetch.answer # NIL => /\ fetch.answer.generation = context_generation
                               /\ fetch.answer.client = client
                               /\ fetch.answer.namespace = fetch.namespace
  BY DEF Accepts, EventsInv, FetchInv, FetchTypes, FetchesSound
<1>2. fetch.answer \in Events \cup {NIL}
  BY <1>1 DEF Fetch
<1>3. /\ context_generation \in Nat /\ cleared \in Nat /\ cleared <= context_generation
      /\ StateSound(global_state, namespace, context_generation, client, cleared)
  BY DEF EventsInv, SessionTypes
<1>4. StateSound(Shown(fetch), namespace, context_generation, client, cleared)
  <2> HIDE DEF fetch
  <2>1. CASE fetch.namespace # namespace
    BY <1>3, <2>1 DEF Shown
  <2>2. CASE fetch.namespace = namespace /\ fetch.answer = NIL
    <3>1. Shown(fetch) = [events |-> global_state.events, requested |-> FALSE]
      BY <2>2 DEF Shown
    <3>2. QED
      BY <1>3, <3>1 DEF StateSound, GlobalState
  <2>3. CASE fetch.namespace = namespace /\ fetch.answer # NIL
    <3>1. Shown(fetch) = [events |-> fetch.answer, requested |-> FALSE]
      BY <2>3 DEF Shown
    <3>2. QED
      BY <1>1, <1>2, <1>3, <2>3, <3>1 DEF StateSound, GlobalState
  <2>4. QED
    BY <2>1, <2>2, <2>3
<1>5. QED
  BY <1>4 DEF fetch

LEMMA ReceiveKeeps ==
    ASSUME EventsInv, NEW id \in Ids, ReceiveEvents(id)
    PROVE  EventsInv'
<1> DEFINE read == [fetches EXCEPT ![id] = NIL]
           done == [events_state EXCEPT !.in_flight_id = 0, !.in_flight_namespace = NIL,
                                        !.queued_namespace = NIL]
           queued == events_state.queued_namespace
<1>1. /\ fetches[id] # NIL
      /\ UNCHANGED session /\ namespace' = namespace /\ events_view' = events_view
      /\ refresh' = refresh /\ deferred' = deferred
  BY DEF ReceiveEvents
<1>2. /\ SessionTypes' /\ context_generation' = context_generation
      /\ client' = client /\ cleared' = cleared
  BY <1>1, SessionKeeps DEF EventsInv, SessionTypes
<1>3. CASE ~Accepts(id)
  <2>1. /\ fetches' = read /\ events_state' = events_state
        /\ global_state' = global_state
    BY <1>3 DEF ReceiveEvents
  <2>2. \/ id # events_state.in_flight_id
        \/ events_state.in_flight_generation # context_generation
    <3>1. id # 0
      BY IdsAreNumbers
    <3>2. QED
      BY <1>1, <1>3, <3>1 DEF Accepts, EventsInv, FetchInv, InFlight
  <2>3. FetchInv(events_state, fetches', namespace, context_generation, client)
    BY <2>1, <2>2, ForgetKeeps
  <2>4. QED
    BY <1>1, <2>1, <2>3, TaskKeeps
<1>4. CASE Accepts(id)
  <2>1. /\ id = events_state.in_flight_id /\ id # 0
        /\ events_state.in_flight_generation = context_generation
        /\ global_state' = Shown(fetches[id])
        /\ \/ queued = NIL /\ fetches' = read /\ events_state' = done
           \/ queued # NIL /\ SpawnFetch(done, read, queued, context_generation, client)
    <3>1. id # 0
      BY IdsAreNumbers
    <3>2. QED
      BY <1>1, <1>4, <3>1 DEF ReceiveEvents, Accepts, EventsInv, FetchInv, InFlight
  <2>2. StateSound(global_state', namespace, context_generation, client, cleared)
    BY <1>1, <1>4, <2>1, ShownSound
  <2>3. /\ done \in EventsFetchRuntimeState
        /\ done.in_flight_id = 0 /\ done.in_flight_namespace = NIL
        /\ done.queued_namespace = NIL
        /\ done.in_flight_generation = events_state.in_flight_generation
    BY DEF EventsInv, FetchInv, FetchTypes, EventsFetchRuntimeState
  <2>4. /\ read \in [Ids -> Fetch \cup {NIL}]
        /\ read[id] = NIL
        /\ \A other \in Ids : other # id => read[other] = fetches[other]
    BY DEF EventsInv, FetchInv, FetchTypes
  <2>5. FetchTypes(done, read) /\ FetchesSound(read, context_generation, client)
    <3> HIDE DEF read, done
    <3>1. QED
      BY <2>3, <2>4 DEF EventsInv, FetchInv, FetchTypes, FetchesSound
  <2>6. /\ queued \in AnyNamespace \cup {NIL} /\ namespace \in AnyNamespace
        /\ context_generation \in Nat /\ client \in Nat
        /\ namespace # All => queued = NIL
    BY <2>1 DEF EventsInv, SessionTypes, FetchInv, FetchTypes, EventsFetchRuntimeState,
                Selects
  <2>7. FetchInv(events_state', fetches', namespace, context_generation, client)
    <3> HIDE DEF read, done, queued
    <3>1. CASE queued = NIL
      <4>1. fetches' = read /\ events_state' = done
        BY <2>1, <3>1
      <4>2. QED
        BY <2>1, <2>3, <2>5, <4>1
           DEF EventsInv, FetchInv, InFlight, QueuedBehind, Selects
    <3>2. CASE queued # NIL
      <4>1. SpawnFetch(done, read, queued, context_generation, client)
        BY <2>1, <3>2
      <4>2. queued \in AnyNamespace /\ namespace = All
        BY <2>6, <3>2
      <4>3. QED
        BY <2>3, <2>5, <2>6, <4>1, <4>2, SpawnKeeps
    <3>3. QED
      BY <3>1, <3>2
  <2>8. QED
    BY <1>1, <1>2, <2>2, <2>7 DEF EventsInv
<1>5. QED
  BY <1>3, <1>4

-----------------------------------------------------------------------------
LEMMA RefreshResultKeeps ==
    ASSUME EventsInv, NEW ok \in BOOLEAN, RefreshResult(ok)
    PROVE  EventsInv'
<1> DEFINE matches == ok /\ refresh.namespace = namespace
           copy == [state |-> global_state', namespace |-> namespace,
                    generation |-> context_generation]
<1>1. /\ refresh # NIL /\ refresh.generation = context_generation
      /\ global_state' = IF matches THEN refresh.state ELSE global_state
      /\ refresh' \in {NIL, copy}
      /\ UNCHANGED session /\ namespace' = namespace /\ events_view' = events_view
      /\ events_state' = events_state /\ fetches' = fetches /\ deferred' = deferred
  BY DEF RefreshResult
<1>2. /\ SessionTypes' /\ context_generation' = context_generation
      /\ client' = client /\ cleared' = cleared
  BY <1>1, SessionKeeps DEF EventsInv, SessionTypes
<1>3. StateSound(global_state', namespace, context_generation, client, cleared)
  BY <1>1 DEF EventsInv, RefreshSound
<1>4. RefreshSound(refresh', context_generation, client, cleared)
  <2>1. RefreshSound(copy, context_generation, client, cleared)
    BY <1>3, CopySound DEF EventsInv, SessionTypes
  <2>2. QED
    BY <1>1, <2>1 DEF RefreshSound
<1>5. QED
  BY <1>1, <1>2, <1>3, <1>4 DEF EventsInv

LEMMA RefreshFindsNamespaceGoneKeeps ==
    ASSUME EventsInv, RefreshFindsNamespaceGone
    PROVE  EventsInv'
<1>1. /\ refresh # NIL /\ refresh.generation = context_generation
      /\ namespace' = All
      /\ EventsIfShown(events_view, events_state, refresh.state, All,
                       context_generation, client)
      /\ UNCHANGED session /\ events_view' = events_view /\ deferred' = deferred
  BY DEF RefreshFindsNamespaceGone
<1>2. PICK state \in {refresh.state, global_state'} :
         refresh' = [state |-> state, namespace |-> All,
                     generation |-> context_generation]
  BY DEF RefreshFindsNamespaceGone
<1>3. /\ SessionTypes' /\ context_generation' = context_generation
      /\ client' = client /\ cleared' = cleared
  BY <1>1, AllIsANamespace, SessionKeeps DEF EventsInv, SessionTypes
<1>4. StateSound(refresh.state, All, context_generation, client, cleared)
  BY <1>1, AllKeepsState DEF EventsInv, RefreshSound
<1>5. /\ FetchInv(events_state', fetches', All, context_generation, client)
      /\ StateSound(global_state', All, context_generation, client, cleared)
  BY <1>1, <1>4, RequestsIfShownKeeps
<1>6. RefreshSound(refresh', context_generation, client, cleared)
  <2>1. StateSound(state, All, context_generation, client, cleared)
    BY <1>4, <1>5
  <2>2. QED
    BY <1>2, <2>1, AllIsANamespace, CopySound DEF EventsInv, SessionTypes
<1>7. DeferredSound(deferred, All, context_generation)
  BY FallbackKeeps
<1>8. QED
  BY <1>1, <1>3, <1>5, <1>6, <1>7 DEF EventsInv

LEMMA NamespaceGoneKeeps ==
    ASSUME EventsInv, NamespaceGone
    PROVE  EventsInv'
<1>1. /\ namespace' = All
      /\ refresh' \in Refreshing(global_state, All, context_generation)
      /\ EventsIfShown(events_view, events_state, global_state, All,
                       context_generation, client)
      /\ UNCHANGED session /\ events_view' = events_view /\ deferred' = deferred
  BY DEF NamespaceGone
<1>2. /\ SessionTypes' /\ context_generation' = context_generation
      /\ client' = client /\ cleared' = cleared
  BY <1>1, AllIsANamespace, SessionKeeps DEF EventsInv, SessionTypes
<1>3. StateSound(global_state, All, context_generation, client, cleared)
  BY AllKeepsState DEF EventsInv
<1>4. /\ FetchInv(events_state', fetches', All, context_generation, client)
      /\ StateSound(global_state', All, context_generation, client, cleared)
  BY <1>1, <1>3, RequestsIfShownKeeps
<1>5. RefreshSound(refresh', context_generation, client, cleared)
  BY <1>1, <1>3, AllIsANamespace, RefreshingSound DEF EventsInv, SessionTypes
<1>6. DeferredSound(deferred, All, context_generation)
  BY FallbackKeeps
<1>7. QED
  BY <1>1, <1>2, <1>4, <1>5, <1>6 DEF EventsInv

-----------------------------------------------------------------------------
LEMMA SelectNamespaceKeeps ==
    ASSUME EventsInv, NEW ns \in AnyNamespace, NEW view \in BOOLEAN,
           SelectNamespace(ns, view)
    PROVE  EventsInv'
<1>1. /\ context_generation' = context_generation + 1
      /\ namespace' = ns /\ events_view' = view /\ cleared' = context_generation'
      /\ refresh' \in {NIL, [state |-> NoEvents, namespace |-> ns,
                             generation |-> context_generation']}
      /\ EventsIfShown(view, AbortEvents(events_state), NoEvents, ns,
                       context_generation', client)
      /\ version' = version /\ client' = client /\ switching' = switching
      /\ deferred' = deferred
  BY DEF SelectNamespace, NewGeneration, RefreshUnless
<1>2. SessionTypes'
  BY <1>1 DEF EventsInv, SessionTypes
<1>3. context_generation \in Nat /\ context_generation' \in Nat /\ client \in Nat
  BY <1>1 DEF EventsInv, SessionTypes
<1>4. FetchInv(AbortEvents(events_state), fetches, ns, context_generation', client)
  BY <1>1, <1>3, AbortKeeps DEF EventsInv
<1>5. /\ FetchInv(events_state', fetches', ns, context_generation', client)
      /\ global_state' \in {NoEvents, [NoEvents EXCEPT !.requested = TRUE]}
  BY <1>1, <1>3, <1>4, RequestIfShownKeeps
<1>6. StateSound(global_state', ns, context_generation', client, cleared')
  BY <1>5, EmptyStateSound, RequestedKeepsState
<1>7. RefreshSound(refresh', context_generation', client, cleared')
  <2>1. CASE refresh' = NIL
    BY <2>1 DEF RefreshSound
  <2>2. CASE refresh' # NIL
    BY <1>1, <1>3, <2>2, EmptyStateSound, CopySound
  <2>3. QED
    BY <2>1, <2>2
<1>8. DeferredSound(deferred, ns, context_generation')
  BY <1>1, <1>3, NewGenerationKeepsDeferred DEF EventsInv
<1>9. QED
  BY <1>1, <1>2, <1>5, <1>6, <1>7, <1>8 DEF EventsInv

LEMMA SelectContextKeeps ==
    ASSUME EventsInv, SelectContext
    PROVE  EventsInv'
<1>1. /\ context_generation' = context_generation + 1
      /\ switching' = TRUE /\ global_state' = NoEvents /\ cleared' = context_generation'
      /\ version' = version /\ client' = client /\ namespace' = namespace
      /\ events_view' = events_view /\ events_state' = events_state
      /\ fetches' = fetches /\ refresh' = refresh /\ deferred' = deferred
  BY DEF SelectContext, NewGeneration
<1>2. SessionTypes'
  BY <1>1 DEF EventsInv, SessionTypes
<1>3. context_generation \in Nat
  BY DEF EventsInv, SessionTypes
<1>4. FetchInv(events_state, fetches, namespace, context_generation', client)
  BY <1>1, <1>3, NewGenerationKeeps DEF EventsInv
<1>5. StateSound(global_state', namespace, context_generation', client, cleared')
  BY <1>1, EmptyStateSound
<1>6. RefreshSound(refresh, context_generation', client, cleared')
  BY <1>1, <1>3, NewGenerationKeepsRefresh DEF EventsInv
<1>7. DeferredSound(deferred, namespace, context_generation')
  BY <1>1, <1>3, NewGenerationKeepsDeferred DEF EventsInv
<1>8. QED
  BY <1>1, <1>2, <1>4, <1>5, <1>6, <1>7 DEF EventsInv

LEMMA ContextSwitchSucceedsKeeps ==
    ASSUME EventsInv, NEW ns \in AnyNamespace, NEW view \in BOOLEAN,
           ContextSwitchSucceeds(ns, view)
    PROVE  EventsInv'
<1>1. /\ context_generation' = context_generation + 1
      /\ client' = client + 1 /\ switching' = FALSE
      /\ namespace' = ns /\ events_view' = view
      /\ refresh' \in {NIL, [state |-> global_state, namespace |-> ns,
                             generation |-> context_generation']}
      /\ EventsIfShown(view, AbortEvents(events_state), global_state, ns,
                       context_generation', client')
      /\ version' = version /\ deferred' = deferred /\ cleared' = cleared
  BY DEF ContextSwitchSucceeds, NewGeneration, RefreshUnless
<1>2. SessionTypes'
  <2>1. switching' \in BOOLEAN /\ events_view' \in BOOLEAN
    BY <1>1, Zenon
  <2>2. /\ context_generation' \in Nat /\ cleared' \in Nat
        /\ cleared' <= context_generation'
    BY <1>1 DEF EventsInv, SessionTypes
  <2>3. QED
    BY <1>1, <2>1, <2>2 DEF EventsInv, SessionTypes
<1>3. context_generation \in Nat /\ context_generation' \in Nat /\ client' \in Nat
  BY <1>1 DEF EventsInv, SessionTypes
<1>4. FetchInv(AbortEvents(events_state), fetches, ns, context_generation', client')
  BY <1>1, <1>3, AbortKeeps DEF EventsInv
<1>5. StateSound(global_state, ns, context_generation', client', cleared')
  BY <1>1, <1>3, NewGenerationKeepsState DEF EventsInv
<1>6. /\ FetchInv(events_state', fetches', ns, context_generation', client')
      /\ global_state' \in {global_state, [global_state EXCEPT !.requested = TRUE]}
  BY <1>1, <1>3, <1>4, RequestIfShownKeeps
<1>7. StateSound(global_state', ns, context_generation', client', cleared')
  BY <1>5, <1>6, RequestedKeepsState
<1>8. RefreshSound(refresh', context_generation', client', cleared')
  <2>1. CASE refresh' = NIL
    BY <2>1 DEF RefreshSound
  <2>2. CASE refresh' # NIL
    BY <1>1, <1>3, <1>5, <2>2, CopySound
  <2>3. QED
    BY <2>1, <2>2
<1>9. DeferredSound(deferred, ns, context_generation')
  BY <1>1, <1>3, NewGenerationKeepsDeferred DEF EventsInv
<1>10. QED
  BY <1>1, <1>2, <1>6, <1>7, <1>8, <1>9 DEF EventsInv

LEMMA ContextSwitchFailsKeeps ==
    ASSUME EventsInv, ContextSwitchFails
    PROVE  EventsInv'
<1>1. /\ version' = version /\ client' = client /\ switching' = FALSE
      /\ context_generation' = context_generation /\ namespace' = namespace
      /\ events_view' = events_view /\ events_state' = events_state
      /\ fetches' = fetches /\ global_state' = global_state /\ refresh' = refresh
      /\ deferred' = deferred /\ cleared' = cleared
  BY DEF ContextSwitchFails
<1>2. QED
  BY <1>1 DEF EventsInv, SessionTypes

-----------------------------------------------------------------------------
LEMMA NextKeeps ==
    ASSUME EventsInv, [Next]_vars
    PROVE  EventsInv'
<1>1. CASE UNCHANGED vars
  BY <1>1, StutterKeeps
<1>2. CASE ShowEvents \/ ShowOther \/ RefreshData \/ AutoRefresh
  BY <1>2, UsersKeep
<1>3. ASSUME NEW trigger \in deferred, DeferredFires(trigger) PROVE EventsInv'
  BY <1>3, DeferredKeeps
<1>4. ASSUME NEW id \in Ids, NEW ok \in BOOLEAN, FetchAnswers(id, ok) PROVE EventsInv'
  BY <1>4, AnswerKeeps
<1>5. ASSUME NEW id \in Ids, FetchAborted(id) \/ ReceiveEvents(id) PROVE EventsInv'
  BY <1>5, AbortedKeeps, ReceiveKeeps
<1>6. ASSUME NEW ok \in BOOLEAN, RefreshResult(ok) PROVE EventsInv'
  BY <1>6, RefreshResultKeeps
<1>7. ASSUME NEW ns \in AnyNamespace, NEW view \in BOOLEAN,
             SelectNamespace(ns, view) \/ ContextSwitchSucceeds(ns, view)
      PROVE  EventsInv'
  BY <1>7, SelectNamespaceKeeps, ContextSwitchSucceedsKeeps
<1>8. CASE ClusterChanges \/ MutationSucceeded \/ RefreshFindsNamespaceGone
             \/ NamespaceGone \/ SelectContext \/ ContextSwitchFails
  BY <1>8, ClusterChangesKeeps, MutationKeeps, RefreshFindsNamespaceGoneKeeps,
     NamespaceGoneKeeps, SelectContextKeeps, ContextSwitchFailsKeeps
<1>9. QED
  BY <1>1, <1>2, <1>3, <1>4, <1>5, <1>6, <1>7, <1>8, Zenon DEF Next

LEMMA EventsAreSound == Spec => []EventsInv
BY InitEstablishes, NextKeeps, PTL DEF Spec

-----------------------------------------------------------------------------
\* The variables have their types, and the id of the fetch in flight and its
\* namespace are set and cleared together.
THEOREM EventsTypeCorrect == Spec => []EventsTypeOK
<1>1. EventsInv => EventsTypeOK
  <2> SUFFICES ASSUME EventsInv PROVE EventsTypeOK
    OBVIOUS
  <2>1. refresh \in Copy \cup {NIL}
    BY DEF EventsInv, RefreshSound
  <2>2. QED
    BY <2>1 DEF EventsInv, EventsTypeOK, SessionTypes, FetchInv, FetchTypes,
                StateSound, DeferredSound
<1>2. QED
  BY <1>1, EventsAreSound, PTL

\* The fetch that the loop waits for is on its way, unless a context has been
\* selected since it was asked for.
THEOREM FetchesAreCarried == Spec => []FetchIsCarried
<1>1. EventsInv => FetchIsCarried
  BY DEF EventsInv, FetchInv, InFlight, FetchIsCarried
<1>2. QED
  BY <1>1, EventsAreSound, PTL

\* A namespace is queued only behind the fetch of another one.
THEOREM NothingIsQueuedAlone == Spec => []QueuedBehindFetch
<1>1. EventsInv => QueuedBehindFetch
  BY DEF EventsInv, FetchInv, QueuedBehind, QueuedBehindFetch
<1>2. QED
  BY <1>1, EventsAreSound, PTL

\* The fetch of the current generation is of the selected namespace.
THEOREM FetchesAreOfSelection == Spec => []NamespaceFetches
<1>1. EventsInv => NamespaceFetches
  BY DEF EventsInv, FetchInv, Selects, NamespaceFetches
<1>2. QED
  BY <1>1, EventsAreSound, PTL

\* No events come back that were asked for before the last clearing, and those of
\* the current generation are of the selected namespace and connected cluster.
THEOREM ShownEventsAreOfSelection == Spec => []EventsOfSelection
<1>1. EventsInv => EventsOfSelection
  BY DEF EventsInv, RefreshSound, StateSound, EventsOfSelection, EventsOf
<1>2. QED
  BY <1>1, EventsAreSound, PTL

-----------------------------------------------------------------------------
(* The promise of module SelectedData                                      *)

\* A handler that asks for events leaves those that it found.
LEMMA AskingLeavesEvents ==
    ASSUME NEW view, NEW state, NEW shown \in GlobalState, NEW ns, NEW generation,
           NEW context, EventsIfShown(view, state, shown, ns, generation, context)
    PROVE  global_state'.events = shown.events
<1>1. global_state' = shown \/ global_state' = [shown EXCEPT !.requested = TRUE]
  BY DEF EventsIfShown, RequestEvents
<1>2. QED
  BY <1>1 DEF GlobalState

\* A step within a generation shows what the invariant allows.
LEMMA StepShows ==
    ASSUME EventsInv', namespace' \in {namespace, All},
           UNCHANGED <<context_generation, client, cleared>>
    PROVE  Abstract!Next
<1> DEFINE events == global_state.events
<1>1. /\ StateSound(global_state, namespace, context_generation, client, cleared)'
      /\ context_generation' \in Nat /\ cleared' \in Nat
  BY DEF EventsInv, SessionTypes
<1>2. CASE events' = NIL
  <2>1. Showing' = NIL
    BY <1>2 DEF Showing
  <2>2. QED
    BY <2>1 DEF Abstract!Show, Abstract!Next
<1>3. CASE events' # NIL
  <2>1. events' \in Events
    BY <1>1, <1>3 DEF StateSound, GlobalState
  <2>2. /\ Showing' = [client |-> events'.client, namespace |-> events'.namespace,
                       generation |-> events'.generation]
        /\ Showing' \in Abstract!Data
    BY <1>3, <2>1 DEF Showing, Events, Abstract!Data, AnyNamespace,
       Abstract!AnyNamespace
  <2>3. /\ events'.generation \in cleared..context_generation
        /\ events'.generation = context_generation =>
              /\ events'.client = client
              /\ namespace' # All => events'.namespace = namespace'
    BY <1>1, <1>3, <2>1 DEF StateSound, Events
  <2>4. Abstract!Fits(Showing', namespace')
    BY <2>2, <2>3 DEF Abstract!Fits
  <2>5. QED
    BY <2>2, <2>4 DEF Abstract!Show, Abstract!Next
<1>4. QED
  BY <1>2, <1>3

LEMMA StepImplements ==
    EventsInv /\ EventsInv' /\ [Next]_vars => [Abstract!Next]_Abstract!vars
<1> SUFFICES ASSUME EventsInv, EventsInv', [Next]_vars PROVE Abstract!Next
  OBVIOUS
<1>1. global_state \in GlobalState /\ NoEvents \in GlobalState
  BY DEF EventsInv, StateSound, NoEvents, GlobalState
<1>2. ASSUME UNCHANGED <<session, namespace>> PROVE Abstract!Next
  BY <1>2, StepShows DEF session
<1>3. CASE ClusterChanges \/ ContextSwitchFails \/ UNCHANGED vars
  BY <1>3, StepShows DEF ClusterChanges, ContextSwitchFails, vars
<1>4. CASE ShowEvents \/ ShowOther \/ RefreshData \/ AutoRefresh \/ MutationSucceeded
  BY <1>2, <1>4 DEF ShowEvents, ShowOther, RefreshData, AutoRefresh, MutationSucceeded
<1>5. ASSUME NEW trigger \in deferred, DeferredFires(trigger) PROVE Abstract!Next
  BY <1>2, <1>5 DEF DeferredFires
<1>6. ASSUME NEW id \in Ids, NEW ok \in BOOLEAN, FetchAnswers(id, ok)
      PROVE  Abstract!Next
  BY <1>2, <1>6 DEF FetchAnswers
<1>7. ASSUME NEW id \in Ids, FetchAborted(id) \/ ReceiveEvents(id)
      PROVE  Abstract!Next
  BY <1>2, <1>7 DEF FetchAborted, ReceiveEvents
<1>8. ASSUME NEW ok \in BOOLEAN, RefreshResult(ok) PROVE Abstract!Next
  BY <1>2, <1>8 DEF RefreshResult
<1>9. CASE RefreshFindsNamespaceGone \/ NamespaceGone
  BY <1>9, StepShows DEF RefreshFindsNamespaceGone, NamespaceGone, session
<1>10. ASSUME NEW ns \in AnyNamespace, NEW view \in BOOLEAN, SelectNamespace(ns, view)
       PROVE  Abstract!Next
  <2>1. global_state'.events = NIL
    BY <1>1, <1>10, AskingLeavesEvents DEF SelectNamespace, NoEvents
  <2>2. Abstract!Select
    BY <1>10, <2>1 DEF SelectNamespace, NewGeneration, Showing, Abstract!Select,
       AnyNamespace, Abstract!AnyNamespace
  <2>3. QED
    BY <2>2 DEF Abstract!Next
<1>11. CASE SelectContext
  BY <1>11 DEF SelectContext, NewGeneration, NoEvents, Showing, Abstract!Disconnect,
     Abstract!Next
<1>12. ASSUME NEW ns \in AnyNamespace, NEW view \in BOOLEAN,
              ContextSwitchSucceeds(ns, view)
       PROVE  Abstract!Next
  <2>1. global_state'.events = global_state.events
    BY <1>1, <1>12, AskingLeavesEvents DEF ContextSwitchSucceeds
  <2>2. client' \in Nat
    BY DEF EventsInv, SessionTypes
  <2>3. Abstract!Connect
    BY <1>12, <2>1, <2>2 DEF ContextSwitchSucceeds, NewGeneration, Showing,
       Abstract!Connect, AnyNamespace, Abstract!AnyNamespace
  <2>4. QED
    BY <2>3 DEF Abstract!Next
<1>13. QED
  BY <1>3, <1>4, <1>5, <1>6, <1>7, <1>8, <1>9, <1>10, <1>11, <1>12 DEF Next

\* The events that are shown are what SelectedData promises, for any namespaces
\* and any number of fetches, refreshes and switches.
THEOREM EventsShowSelectedData == Spec => ShowsSelectedEvents
<1>1. Init => Abstract!Init
  BY DEF Init, NoEvents, Abstract!Init, Showing, AnyNamespace, Abstract!AnyNamespace
<1>2. QED
  BY <1>1, EventsAreSound, StepImplements, PTL
     DEF Spec, ShowsSelectedEvents, Abstract!Spec

=============================================================================
