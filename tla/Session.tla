------------------------------ MODULE Session ------------------------------
(***************************************************************************)
(* Where the data on screen comes from.  Module Refresh says which refresh *)
(* runs when; here every refresh carries the copy of the global state it   *)
(* was spawned with, reads the cluster into it and replaces the global     *)
(* state, while the watchers write into the same state.                    *)
(*                                                                         *)
(* The state holds one watched, namespaced resource (Kind) and the list of *)
(* namespaces.  Left out: the other resources, which are copied and        *)
(* replaced the same way, the merge of Flux resources, and the debounce of *)
(* a watcher, which only delays what it publishes.                         *)
(***************************************************************************)
EXTENDS Refresh

CONSTANTS
    Kind,          \* the flag of the watched resource
    Contexts,      \* the clusters of the kubeconfig
    EMPTY,         \* a list without items
    MaxVersion,    \* bound: the changes of the clusters, and one
    ListsFail,     \* whether the API server may refuse a list
    RefreshesFail  \* whether a refresh may fail as a whole

ASSUME KindAssumption == Kind \in WATCHED_SCOPES \ {"NAMESPACES"}
ASSUME ContextsAssumption == NIL \notin Contexts
ASSUME VersionAssumption == MaxVersion \in Nat \ {0}
ASSUME FailuresAssumption == {ListsFail, RefreshesFail} \subseteq BOOLEAN

VARIABLES
    cluster,          \* what the API servers would answer
    client,           \* the context that the client is connected to
    pending_context,  \* the context of pending_context_switch, or NIL
    global_state,     \* GlobalState
    copies,           \* for each refresh task: its client and its state
    answers,          \* for each result in refresh_rx: the state, or NIL
    watch_manager,    \* WatchManager, with the stores of its watchers
    watch_rx,         \* watch updates not yet received
    cleared           \* history: the generation that last cleared the state

data == <<cluster, client, pending_context, global_state, copies, answers,
          watch_manager, watch_rx, cleared>>
session_vars == <<vars, data>>

\* A list of the resource, with where it was read; generation is that of the
\* request or of the watch session that read it.
List ==
    [context : Contexts, namespace : AnyNamespace, version : 1..MaxVersion,
     generation : Nat]

\* namespaces is derived from namespace_list, but not always (see Cleared).
GlobalState ==
    [items : List \cup {EMPTY}, namespace_list : SUBSET Namespaces,
     namespaces : SUBSET Namespaces]

WatchManager ==
    [scope : SUBSET {Kind, "NAMESPACES"}, generation : Nat,
     namespace : AnyNamespace, context : Contexts,
     items : List \cup {EMPTY}, namespace_list : SUBSET Namespaces]

WatchUpdate ==
    [resource : {Kind}, generation : Nat, items : List \cup {EMPTY}]
        \cup [resource : {"NAMESPACES"}, generation : Nat,
              namespace_list : SUBSET Namespaces]

ASSUME NoStateAssumption == NIL \notin GlobalState

SessionTypeOK ==
    /\ TypeOK
    /\ cluster \in [Contexts -> [namespaces : SUBSET Namespaces,
                                 version : 1..MaxVersion]]
    /\ client \in Contexts
    /\ pending_context \in Contexts \cup {NIL}
    /\ global_state \in GlobalState
    /\ copies \in [refresh.running \cup refresh.aborting ->
                      [client : Contexts, state : GlobalState \cup {NIL},
                       fetched : BOOLEAN]]
    /\ answers \in Seq(GlobalState \cup {NIL})
    /\ Len(answers) = Len(refresh_rx)
    /\ watch_manager \in WatchManager
    /\ watching <=> watch_manager.scope # {}
    /\ watch_rx \in Seq(WatchUpdate)
    /\ cleared \in 0..refresh.context_generation
    /\ switching <=> pending_context # NIL

-----------------------------------------------------------------------------
\* What a list request for the resource answers.
Read(ctx, ns, gen) ==
    IF ns \notin cluster[ctx].namespaces \cup {All} THEN EMPTY
    ELSE [context |-> ctx, namespace |-> ns, version |-> cluster[ctx].version,
          generation |-> gen]

\* The resources that are modelled and that a refresh task asks for.
Wanted(job) ==
    IF job.skip_core THEN {} ELSE job.scope \cap {Kind, "NAMESPACES"}

\* refresh_inner: a list that could not be read stays as it was copied, and the
\* names are derived anew from the list, read or not.
Fetched(state, job, ctx, got) ==
    LET list == IF "NAMESPACES" \in got THEN cluster[ctx].namespaces
                ELSE state.namespace_list
    IN  [items |-> IF Kind \in got THEN Read(ctx, job.namespace, job.generation)
                   ELSE state.items,
         namespace_list |-> list, namespaces |-> list]

\* begin_loading_transition clears the list of namespaces always, and their
\* names on request.
Cleared(state, clear_namespaces) ==
    [items |-> EMPTY, namespace_list |-> {},
     namespaces |-> IF clear_namespaces THEN {} ELSE state.namespaces]

\* apply_watch_update: a list that did not change leaves the names alone.
Watched(state, update) ==
    LET next == IF update.resource = Kind
                THEN [state EXCEPT !.items = update.items]
                ELSE [state EXCEPT !.namespace_list = update.namespace_list]
    IN  IF next = state THEN state
        ELSE [next EXCEPT !.namespaces = next.namespace_list]

WatchScope(v) ==
    NormalizeWatchScope(WatchScopeForView(v)) \cap {Kind, "NAMESPACES"}

\* Seeded bug: the watchers are started with the generation that was left.
StartInOldGeneration(gen, ns, ctx, v) ==
    [scope |-> WatchScope(v), generation |-> refresh.context_generation,
     namespace |-> ns, context |-> ctx, items |-> EMPTY, namespace_list |-> {}]

\* start_watch_manager
StartWatches(gen, ns, ctx, v) ==
    [scope |-> WatchScope(v), generation |-> gen, namespace |-> ns,
     context |-> ctx, items |-> EMPTY, namespace_list |-> {}]

\* Seeded bug: the scopes still count as watched.
StopKeepsScope(w) == [w EXCEPT !.items = EMPTY, !.namespace_list = {}]

\* stop_all
StopAll(w) == [w EXCEPT !.scope = {}, !.items = EMPTY, !.namespace_list = {}]

\* ensure_watches, run in every turn of the loop: a scope that shrinks restarts
\* all watchers, a stopped manager stays stopped.
EnsureWatches(w, v) ==
    IF w.scope = {} THEN w
    ELSE IF w.scope \subseteq WatchScope(v) THEN [w EXCEPT !.scope = WatchScope(v)]
    ELSE StartWatches(w.generation, w.namespace, w.context, v)

\* Every task spawned in a step copies the state and the client that the step
\* leaves; a task that is over drops its copy.
CopiesFollow ==
    copies' = [job \in refresh'.running \cup refresh'.aborting |->
                  IF job \in DOMAIN copies THEN copies[job]
                  ELSE [client |-> client', state |-> global_state',
                        fetched |-> FALSE]]

-----------------------------------------------------------------------------
SessionInit ==
    /\ Init
    /\ cluster = [ctx \in Contexts |-> [namespaces |-> Namespaces, version |-> 1]]
    /\ client \in Contexts
    /\ pending_context = NIL
    /\ global_state = [items |-> EMPTY, namespace_list |-> {}, namespaces |-> {}]
    /\ copies = [job \in refresh.running |->
                    [client |-> client, state |-> global_state, fetched |-> FALSE]]
    /\ answers = <<>>
    /\ watch_manager = StartWatches(0, namespace, client, view)
    /\ watch_rx = <<>>
    /\ cleared = 0

\* A version that no cluster has had: it counts the changes of all clusters.
NewVersion(version) == \A ctx \in Contexts : cluster[ctx].version < version

\* The cluster changes under the program.
ClusterChanges(ctx, version) ==
    /\ NewVersion(version)
    /\ cluster' = [cluster EXCEPT ![ctx].version = version]
    /\ UNCHANGED <<vars, client, pending_context, global_state, copies, answers,
                   watch_manager, watch_rx, cleared>>

NamespaceDeleted(ctx, ns, version) ==
    /\ ns \in cluster[ctx].namespaces
    /\ NewVersion(version)
    /\ cluster' = [cluster EXCEPT ![ctx] =
                     [namespaces |-> @.namespaces \ {ns}, version |-> version]]
    /\ UNCHANGED <<vars, client, pending_context, global_state, copies, answers,
                   watch_manager, watch_rx, cleared>>

\* The steps of the loop that only ask for a refresh.
Asks ==
    \/ \E v \in Views : NavigateTo(v)
    \/ RefreshData
    \/ \E include_flux \in BOOLEAN : AutoRefresh(include_flux)
    \/ \E origin \in Views, force \in BOOLEAN : MutationSucceeded(origin, force)
    \/ \E trigger \in deferred : DeferredFires(trigger)

AfterAsking ==
    /\ watch_manager' = EnsureWatches(watch_manager, view')
    /\ UNCHANGED <<cluster, client, pending_context, global_state, answers,
                   watch_rx, cleared>>
    /\ CopiesFollow

SessionAsks == Asks /\ AfterAsking

SessionSelectNamespace(ns, v) ==
    /\ SelectNamespace(ns, v)
    /\ global_state' = Cleared(global_state, FALSE)
    /\ cleared' = refresh'.context_generation
    /\ watch_manager' = StartWatches(refresh'.context_generation, ns, client, v)
    /\ UNCHANGED <<cluster, client, pending_context, answers, watch_rx>>
    /\ CopiesFollow

\* An earlier pending switch is replaced and its result never looked at.
SessionSelectContext(ctx) ==
    /\ SelectContext
    /\ pending_context' = ctx
    /\ global_state' = Cleared(global_state, TRUE)
    /\ cleared' = refresh'.context_generation
    /\ watch_manager' = StopAll(watch_manager)
    /\ UNCHANGED <<cluster, client, answers, watch_rx>>
    /\ CopiesFollow

\* The global state is not cleared again.
SessionContextSwitchSucceeds(ns, v) ==
    /\ ContextSwitchSucceeds(ns, v)
    /\ client' = pending_context
    /\ pending_context' = NIL
    /\ watch_manager' =
          StartWatches(refresh'.context_generation, ns, client', v)
    /\ UNCHANGED <<cluster, global_state, answers, watch_rx, cleared>>
    /\ CopiesFollow

SessionContextSwitchFails ==
    /\ ContextSwitchFails
    /\ pending_context' = NIL
    /\ UNCHANGED <<cluster, client, global_state, answers, watch_manager,
                   watch_rx, cleared>>
    /\ CopiesFollow

\* A refresh task reads the lists it asks for and gets some of them.  It fails
\* when no core or Flux list was read, those left out here included, and when
\* it takes too long.  An aborted task gets no further than its next await.
TaskFetches(job, got, failed) ==
    /\ job \in refresh.running /\ ~copies[job].fetched
    /\ got \subseteq Wanted(job)
    /\ got # Wanted(job) => ListsFail
    /\ failed => RefreshesFail
    /\ \/ failed \/ got # {} \/ Wanted(job) = {}
       \/ job.scope \cap (CORE_OVERVIEW \cup {"FLUX"}) # Wanted(job)
    /\ copies' = [copies EXCEPT ![job].fetched = TRUE,
                     ![job].state = IF failed THEN NIL
                                    ELSE Fetched(@, job, copies[job].client, got)]
    /\ UNCHANGED <<vars, cluster, client, pending_context, global_state, answers,
                   watch_manager, watch_rx, cleared>>

\* It sends the state it has built, or the error.
SessionTaskFinishes(job) ==
    LET answer == copies[job].state
    IN  /\ copies[job].fetched
        /\ TaskFinishes(job, answer # NIL
                                /\ job.namespace \notin answer.namespaces \cup {All})
        /\ answers' = Append(answers, answer)
        /\ UNCHANGED <<cluster, client, pending_context, global_state,
                       watch_manager, watch_rx, cleared>>
        /\ CopiesFollow

SessionTaskAborted(job) ==
    /\ TaskAborted(job)
    /\ UNCHANGED <<cluster, client, pending_context, global_state, answers,
                   watch_manager, watch_rx, cleared>>
    /\ CopiesFollow

\* A result that is taken replaces the whole global state, when it is for the
\* selected namespace.
SessionRefreshResult ==
    LET job == Head(refresh_rx).job
        answer == Head(answers)
    IN  /\ RefreshResult
        /\ answers' = Tail(answers)
        /\ global_state' =
              IF Accepts(refresh, job) /\ job.namespace = namespace /\ answer # NIL
              THEN answer ELSE global_state
        /\ UNCHANGED <<cluster, client, pending_context, watch_manager, watch_rx,
                       cleared>>
        /\ CopiesFollow

\* A watcher has listed, or seen a change, and publishes its store.  A first
\* list that is empty is no change.
WatchPublishes(resource) ==
    LET w == watch_manager
        next == IF resource = Kind
                THEN [w EXCEPT !.items = Read(w.context, w.namespace, w.generation)]
                ELSE [w EXCEPT !.namespace_list = cluster[w.context].namespaces]
        update == IF resource = Kind
                  THEN [resource |-> resource, generation |-> w.generation,
                        items |-> next.items]
                  ELSE [resource |-> resource, generation |-> w.generation,
                        namespace_list |-> next.namespace_list]
    IN  /\ resource \in w.scope
        /\ next # w
        /\ watch_manager' = next
        /\ watch_rx' = Append(watch_rx, update)
        /\ UNCHANGED <<vars, cluster, client, pending_context, global_state,
                       copies, answers, cleared>>

\* Seeded bug: the update of an older generation is applied.
TakesAnyUpdate(update) == TRUE

TakesUpdate(update) == update.generation = refresh.context_generation

\* The watch_rx handler.  A list of namespaces without the selected one selects
\* all of them; the watchers keep their namespace.
WatchUpdateReceived ==
    LET update == Head(watch_rx)
        next == Watched(global_state, update)
    IN  /\ watch_rx # <<>>
        /\ watch_rx' = Tail(watch_rx)
        /\ IF TakesUpdate(update)
           THEN /\ global_state' = next
                /\ IF update.resource = "NAMESPACES"
                        /\ namespace \notin next.namespaces \cup {All}
                   THEN NamespaceGone
                   ELSE UNCHANGED vars
           ELSE UNCHANGED <<vars, global_state>>
        /\ UNCHANGED <<cluster, client, pending_context, answers, watch_manager,
                       cleared>>
        /\ CopiesFollow

SessionNext ==
    \/ \E ctx \in Contexts, version \in 1..MaxVersion :
          \/ ClusterChanges(ctx, version)
          \/ \E ns \in Namespaces : NamespaceDeleted(ctx, ns, version)
    \/ SessionAsks
    \/ \E ns \in AnyNamespace, v \in Views : SessionSelectNamespace(ns, v)
    \/ \E ctx \in Contexts : SessionSelectContext(ctx)
    \/ \E ns \in AnyNamespace, v \in Views : SessionContextSwitchSucceeds(ns, v)
    \/ SessionContextSwitchFails
    \/ \E job \in DOMAIN copies :
          \/ \E got \in SUBSET {Kind, "NAMESPACES"}, failed \in BOOLEAN :
                TaskFetches(job, got, failed)
          \/ SessionTaskFinishes(job)
    \/ \E job \in refresh.aborting : SessionTaskAborted(job)
    \/ SessionRefreshResult
    \/ \E resource \in {Kind, "NAMESPACES"} : WatchPublishes(resource)
    \/ WatchUpdateReceived

SessionSpec == SessionInit /\ [][SessionNext]_session_vars

-----------------------------------------------------------------------------
\* What a view shows was read after the state was last cleared: neither a refresh
\* or a watcher of the namespace or the cluster that was left, nor a copy of the
\* state made before, ever brings back what a switch has cleared.
ClearedDataStaysCleared ==
    global_state.items # EMPTY => global_state.items.generation >= cleared

\* What the current generation has read comes from the cluster the client is
\* connected to and, while one namespace is selected, from that namespace,
\* whether a refresh or a watcher has read it.
DataOfSelection ==
    LET items == global_state.items
    IN  (items # EMPTY /\ items.generation = refresh.context_generation) =>
            /\ items.context = client
            /\ namespace # All => items.namespace = namespace

\* While watchers run, which takes their resource out of the automatic refresh,
\* they read the connected cluster and the selected namespace and what they
\* publish is taken.  A selection that fell back to all namespaces is excepted:
\* it leaves them on the namespace that is gone.
WatchersServeSelection ==
    watching =>
        /\ watch_manager.generation = refresh.context_generation
        /\ watch_manager.context = client
        /\ namespace # All => watch_manager.namespace = namespace

\* What a view shows, in the terms of SelectedData.
Showing ==
    IF global_state.items = EMPTY THEN NIL
    ELSE [client |-> global_state.items.context,
          namespace |-> global_state.items.namespace,
          generation |-> global_state.items.generation]

Abstract ==
    INSTANCE SelectedData
    WITH generation <- refresh.context_generation, shown <- Showing,
         Clients <- Contexts, NONE <- NIL

\* Refreshes with their copies, watchers, fallbacks and switches together show
\* the resource as SelectedData promises.
ShowsSelectedData == Abstract!Spec

-----------------------------------------------------------------------------
(* What the documentation says and the code does not do.                   *)

\* main.rs:4235: the selection moves to all namespaces when the namespace was
\* not found.  The state that a refresh starts from after SelectNamespace has no
\* list of namespaces, and a refresh that does not read the list derives the
\* names from it.
NamespaceFallbackSound ==
    [][ (/\ namespace # All /\ namespace' = All
         /\ refresh'.context_generation = refresh.context_generation)
        => namespace \notin cluster[client].namespaces ]_session_vars

=============================================================================
