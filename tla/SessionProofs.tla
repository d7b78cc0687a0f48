--------------------------- MODULE SessionProofs ----------------------------
(***************************************************************************)
(* Proofs about the refresh pipeline, and then about the session that      *)
(* composes it with the data on screen.                                    *)
(*                                                                         *)
(* The pipeline's state is one record, changed by pure transformers, so    *)
(* its proofs come in two layers: what each transformer does to a runtime  *)
(* state, and then one step per action.                                    *)
(*                                                                         *)
(* For the session: what the data on screen guarantees for any contexts,   *)
(* namespaces, views and bounds, whether fetches fail or not: the types,   *)
(* that what a switch has cleared never comes back, and that what the      *)
(* current generation has read is of the selected context and namespace.   *)
(* The composition implements the refresh pipeline, whose invariant is     *)
(* used throughout.                                                        *)
(***************************************************************************)
EXTENDS Session, TLAPS

-----------------------------------------------------------------------------
(* The tables give scopes and dispatches.                                  *)

\* A dispatch or queued refresh whose core scopes all belong to its first phase.
CoreFirst(d) == d.scope \cap CORE_OVERVIEW \subseteq d.primary_scope

\* A refresh that skips the core resources asks for none.
HonestBackfill(x) == x.skip_core => x.scope \cap CORE_OVERVIEW = NONE

\* Every view needs a set of the known flags.
LEMMA ViewReadyScopeType ==
    ASSUME NEW v \in AppViews
    PROVE  ViewReadyScope(v) \in SUBSET Flags
  <1>1. CASE v \in DOMAIN WatchedFlag
    BY <1>1 DEF ViewReadyScope, WatchedFlag, NetworkViews, ConfigViews,
         StorageViews, RbacViews, FluxViews, Flags, WATCHED_SCOPES
  <1>2. CASE v \notin DOMAIN WatchedFlag
    BY <1>2 DEF ViewReadyScope, AppViews, Flags, WATCHED_SCOPES, DASHBOARD_WATCHED,
         CORE_OVERVIEW, LEGACY_SECONDARY, ISSUE_DIAGNOSTICS,
         SANITIZER_DIAGNOSTICS, NONE, NetworkViews, ConfigViews, StorageViews,
         RbacViews, FluxViews
  <1> QED BY <1>1, <1>2

LEMMA FlagFacts ==
    /\ CORE_OVERVIEW \in SUBSET Flags
    /\ LEGACY_SECONDARY \in SUBSET Flags
    /\ {"METRICS"} \in SUBSET Flags
    /\ {"FLUX"} \in SUBSET Flags
    /\ {"LOCAL_HELM_REPOSITORIES"} \in SUBSET Flags
    /\ NONE \in SUBSET Flags
    /\ LEGACY_SECONDARY \cap CORE_OVERVIEW = {}
    /\ "METRICS" \notin CORE_OVERVIEW
  BY DEF CORE_OVERVIEW, LEGACY_SECONDARY, Flags, WATCHED_SCOPES, NONE

\* The four builders of dispatches give typed ones that fetch core scopes first.
LEMMA FullRefreshOptionsType ==
    ASSUME NEW include_flux \in BOOLEAN, NEW include_cluster_info \in BOOLEAN
    PROVE  LET d == FullRefreshOptions(include_flux, include_cluster_info)
           IN  d \in RefreshDispatch /\ CoreFirst(d)
  <1> DEFINE scope == CORE_OVERVIEW \cup LEGACY_SECONDARY
                        \cup {"LOCAL_HELM_REPOSITORIES"}
                        \cup (IF include_flux THEN {"FLUX"} ELSE {})
                        \cup (IF include_cluster_info THEN {"METRICS"} ELSE {})
  <1>1. scope \in SUBSET Flags
    BY FlagFacts
  <1>2. FullRefreshOptions(include_flux, include_cluster_info) =
          [primary_scope |-> scope \ LEGACY_SECONDARY, scope |-> scope,
           target_view |-> NoView]
    BY DEF FullRefreshOptions, Dispatch
  <1> HIDE DEF scope
  <1> QED BY <1>1, <1>2, FlagFacts DEF RefreshDispatch, CoreFirst, AnyView

LEMMA FastRefreshOptionsType ==
    ASSUME NEW include_flux \in BOOLEAN
    PROVE  LET d == FastRefreshOptions(include_flux)
           IN  d \in RefreshDispatch /\ CoreFirst(d)
  <1> DEFINE scope == CORE_OVERVIEW \cup (IF include_flux THEN {"FLUX"} ELSE {})
  <1>1. scope \in SUBSET Flags
    BY FlagFacts
  <1>2. FastRefreshOptions(include_flux) =
          [primary_scope |-> scope, scope |-> scope, target_view |-> NoView]
    BY DEF FastRefreshOptions, Dispatch
  <1> HIDE DEF scope
  <1> QED BY <1>1, <1>2 DEF RefreshDispatch, CoreFirst, AnyView

LEMMA RefreshOptionsForViewType ==
    ASSUME NEW v \in Views, NEW include_flux \in BOOLEAN,
           NEW force_cluster_info \in BOOLEAN
    PROVE  LET d == RefreshOptionsForView(v, include_flux, force_cluster_info)
           IN  d \in RefreshDispatch /\ CoreFirst(d)
  <1> DEFINE ready == ViewReadyScope(v)
             d == RefreshOptionsForView(v, include_flux, force_cluster_info)
  <1> SUFFICES d \in RefreshDispatch /\ CoreFirst(d)
    OBVIOUS
  <1>1. ready \in SUBSET Flags /\ v \in AnyView
    BY ViewReadyScopeType, ViewsAssumption DEF AnyView
  <1>2. CASE v \in {"Dashboard", "Pods", "Nodes"}
    <2>1. d = [primary_scope |-> ready, scope |-> ready \cup {"METRICS"},
               target_view |-> v]
      BY <1>2 DEF RefreshOptionsForView, Dispatch
    <2> HIDE DEF d, ready
    <2> QED BY <1>1, <2>1, FlagFacts DEF RefreshDispatch, CoreFirst
  <1>3. CASE v \in {"Projects", "Governance", "Issues", "HealthReport"}
    <2>1. d = [primary_scope |-> CORE_OVERVIEW, scope |-> ready,
               target_view |-> v]
      BY <1>3 DEF RefreshOptionsForView, Dispatch
    <2> HIDE DEF d, ready
    <2> QED BY <1>1, <2>1, FlagFacts DEF RefreshDispatch, CoreFirst
  <1>4. CASE v = "Bookmarks"
    <2> DEFINE full == FullRefreshOptions(include_flux, force_cluster_info)
    <2>1. d = [full EXCEPT !.target_view = v]
      BY <1>4 DEF RefreshOptionsForView
    <2>2. full \in RefreshDispatch /\ CoreFirst(full)
      BY FullRefreshOptionsType
    <2> HIDE DEF d, full
    <2> QED BY <1>1, <2>1, <2>2 DEF RefreshDispatch, CoreFirst
  <1>5. CASE v \in {"PortForwarding", "Events"}
    <2>1. d = [primary_scope |-> NONE, scope |-> NONE, target_view |-> v]
      BY <1>5 DEF RefreshOptionsForView, Dispatch
    <2> HIDE DEF d, ready
    <2> QED BY <1>1, <2>1, FlagFacts DEF RefreshDispatch, CoreFirst
  <1>6. CASE v \notin {"Dashboard", "Pods", "Nodes", "Projects", "Governance",
                       "Issues", "HealthReport", "Bookmarks", "PortForwarding",
                       "Events"}
    <2>1. d = [primary_scope |-> ready, scope |-> ready, target_view |-> v]
      BY <1>6 DEF RefreshOptionsForView, Dispatch
    <2> HIDE DEF d, ready
    <2> QED BY <1>1, <2>1, FlagFacts DEF RefreshDispatch, CoreFirst
  <1> QED BY <1>2, <1>3, <1>4, <1>5, <1>6

LEMMA ViewDispatchType ==
    ASSUME NEW v \in Views
    PROVE  ViewDispatch(v) \in RefreshDispatch /\ CoreFirst(ViewDispatch(v))
  <1>1. (v \in FluxViews) \in BOOLEAN /\ FALSE \in BOOLEAN
    OBVIOUS
  <1> QED BY <1>1, RefreshOptionsForViewType DEF ViewDispatch

LEMMA MutationRefreshOptionsType ==
    ASSUME NEW v \in Views, NEW include_flux \in BOOLEAN
    PROVE  LET d == MutationRefreshOptions(v, include_flux)
           IN  d \in RefreshDispatch /\ CoreFirst(d)
  BY RefreshOptionsForViewType, FastRefreshOptionsType DEF MutationRefreshOptions

LEMMA StripActiveWatchScopeType ==
    ASSUME NEW d \in RefreshDispatch, CoreFirst(d), NEW active
    PROVE  LET s == StripActiveWatchScope(d, active)
           IN  s \in RefreshDispatch /\ CoreFirst(s)
  BY DEF StripActiveWatchScope, RefreshDispatch, CoreFirst

LEMMA ScopedTargetViewType ==
    ASSUME NEW scope, NEW target \in AnyView
    PROVE  ScopedTargetView(scope, target) \in AnyView
  BY DEF ScopedTargetView, AnyView

-----------------------------------------------------------------------------
(* What the transformers keep.                                             *)

\* The part of the invariant that is about one runtime state, for a selected
\* namespace ns.  QueuedBehindInFlight is not part of it: it is broken between
\* the two halves of the result handler.
RuntimeInv(r, ns) ==
    /\ r \in RefreshRuntimeState
    /\ r.in_flight # NIL =>
          /\ ns # All => r.in_flight.namespace = ns
          /\ HonestBackfill(r.in_flight)
          /\ r.in_flight.generation <= r.context_generation
    /\ r.queued_refresh # NIL =>
          /\ ns # All => r.queued_refresh.namespace = ns
          /\ HonestBackfill(r.queued_refresh)
          /\ CoreFirst(r.queued_refresh)

\* s is r with one more task, that of the refresh in flight.
LaunchedFrom(r, ns, scope, skip_core, target, s) ==
    /\ s \in RefreshRuntimeState
    /\ s.in_flight \in Job
    /\ s.in_flight \in s.running
    /\ s.in_flight.namespace = ns
    /\ s.in_flight.scope = scope
    /\ s.in_flight.skip_core = skip_core
    /\ s.in_flight.target_view = target
    /\ s.in_flight.generation = r.context_generation
    /\ s.queued_refresh = r.queued_refresh
    /\ s.request_seq = r.request_seq
    /\ s.context_generation = r.context_generation
    /\ s.aborting = r.aborting
    /\ r.running \subseteq s.running

LEMMA LaunchFields ==
    ASSUME NEW r \in RefreshRuntimeState, NEW id \in Nat,
           NEW ns \in AnyNamespace, NEW scope \in SUBSET Flags,
           NEW skip_core \in BOOLEAN, NEW target \in AnyView
    PROVE  LaunchedFrom(r, ns, scope, skip_core, target,
                        Launch(r, id, ns, scope, skip_core, target))
  <1> DEFINE job == [task |-> r.spawned + 1, id |-> id,
                     generation |-> r.context_generation, namespace |-> ns,
                     scope |-> scope, skip_core |-> skip_core,
                     target_view |-> target]
             s == Launch(r, id, ns, scope, skip_core, target)
  <1>1. job \in Job /\ job.task \in Nat
    BY DEF Job, RefreshRuntimeState
  <1>2. s = [r EXCEPT !.in_flight = job, !.spawned = job.task,
                      !.running = @ \cup {job}]
    BY DEF Launch
  <1>3. /\ job.namespace = ns /\ job.scope = scope /\ job.skip_core = skip_core
        /\ job.target_view = target /\ job.generation = r.context_generation
    OBVIOUS
  <1> SUFFICES /\ s \in RefreshRuntimeState
               /\ s.in_flight = job
               /\ job \in s.running
               /\ s.queued_refresh = r.queued_refresh
               /\ s.request_seq = r.request_seq
               /\ s.context_generation = r.context_generation
               /\ s.aborting = r.aborting
               /\ r.running \subseteq s.running
    BY <1>1, <1>3 DEF LaunchedFrom
  <1> HIDE DEF job, s
  <1> QED BY <1>1, <1>2 DEF RefreshRuntimeState

\* Aborting forgets the refresh in flight and moves at most its task.
LEMMA AbortInFlightFields ==
    ASSUME NEW r \in RefreshRuntimeState
    PROVE  LET s == AbortInFlight(r)
           IN  /\ s \in RefreshRuntimeState
               /\ s.in_flight = NIL
               /\ s.queued_refresh = r.queued_refresh
               /\ s.request_seq = r.request_seq
               /\ s.context_generation = r.context_generation
               /\ s.aborting \subseteq r.aborting \cup {r.in_flight}
  BY DEF AbortInFlight, RefreshRuntimeState

\* s is r after its refresh in flight was aborted.
AbortedFrom(r, ns, s) ==
    /\ RuntimeInv(s, ns)
    /\ s.in_flight = NIL
    /\ s.queued_refresh \in QueuedRefresh
    /\ s.request_seq = r.request_seq
    /\ s.context_generation = r.context_generation
    /\ s.aborting \subseteq r.aborting \cup {r.in_flight}

\* Preempting leaves nothing in flight and queues the aborted backfill.
LEMMA PreemptFields ==
    ASSUME NEW r, NEW ns, NEW target, RuntimeInv(r, ns), CanPreempt(r, target)
    PROVE  AbortedFrom(r, ns, Preempt(r))
  <1> DEFINE backfill ==
               [request_id |-> r.request_seq + 1,
                namespace |-> r.in_flight.namespace, primary_scope |-> NONE,
                scope |-> r.in_flight.scope, skip_core |-> r.in_flight.skip_core,
                target_view |-> NoView,
                context_generation |-> r.context_generation]
             old == r.queued_refresh
             merged == [old EXCEPT
                          !.namespace = IF @ = All THEN backfill.namespace ELSE @,
                          !.scope = @ \cup backfill.scope,
                          !.skip_core = @ /\ backfill.skip_core,
                          !.target_view = NoView]
             queued == IF old = NIL THEN backfill ELSE merged
             a == AbortInFlight(r)
             s == Preempt(r)
  <1>1. s = [a EXCEPT !.queued_refresh = queued]
    BY DEF Preempt
  <1>2. /\ r \in RefreshRuntimeState
        /\ r.in_flight \in Job
        /\ r.in_flight.skip_core = TRUE
        /\ r.in_flight.scope \cap CORE_OVERVIEW = NONE
        /\ ns # All => r.in_flight.namespace = ns
    BY DEF RuntimeInv, CanPreempt, HonestBackfill, RefreshRuntimeState, Job
  <1>3. /\ backfill \in QueuedRefresh
        /\ backfill.namespace = r.in_flight.namespace
        /\ backfill.scope = r.in_flight.scope
        /\ backfill.skip_core = TRUE
        /\ backfill.primary_scope = NONE
    <2>1. NoView \in AnyView /\ r.request_seq + 1 \in Nat
      BY <1>2 DEF AnyView, RefreshRuntimeState
    <2> QED BY <1>2, <2>1, FlagFacts DEF QueuedRefresh, Job, RefreshRuntimeState
  <1> HIDE DEF backfill
  <1>4. /\ queued \in QueuedRefresh
        /\ ns # All => queued.namespace = ns
        /\ HonestBackfill(queued)
        /\ CoreFirst(queued)
    <2>1. CASE old = NIL
      BY <1>2, <1>3, <2>1 DEF HonestBackfill, CoreFirst, NONE
    <2>2. CASE old # NIL
      <3>1. /\ old \in QueuedRefresh
            /\ ns # All => old.namespace = ns
            /\ HonestBackfill(old) /\ CoreFirst(old)
        BY <2>2 DEF RuntimeInv, RefreshRuntimeState
      <3>2. NoView \in AnyView
        BY DEF AnyView
      <3>3. merged \in QueuedRefresh
        BY <1>3, <3>1, <3>2 DEF QueuedRefresh
      <3>4. /\ merged.namespace = IF old.namespace = All THEN backfill.namespace
                                  ELSE old.namespace
            /\ merged.scope = old.scope \cup backfill.scope
            /\ merged.skip_core = (old.skip_core /\ backfill.skip_core)
            /\ merged.primary_scope = old.primary_scope
        BY <3>1 DEF QueuedRefresh
      <3> HIDE DEF merged, old
      <3>5. ns # All => merged.namespace = ns
        BY <1>2, <1>3, <3>1, <3>4
      <3>6. merged.scope \cap CORE_OVERVIEW = old.scope \cap CORE_OVERVIEW
        BY <1>2, <1>3, <3>4 DEF NONE
      <3>7. HonestBackfill(merged) /\ CoreFirst(merged)
        BY <1>3, <3>1, <3>4, <3>6 DEF HonestBackfill, CoreFirst
      <3> QED BY <2>2, <3>3, <3>5, <3>7
    <2> QED BY <2>1, <2>2
  <1>5. /\ a \in RefreshRuntimeState
        /\ a.in_flight = NIL
        /\ a.request_seq = r.request_seq
        /\ a.context_generation = r.context_generation
        /\ a.aborting \subseteq r.aborting \cup {r.in_flight}
    BY <1>2, AbortInFlightFields
  <1> SUFFICES /\ s \in RefreshRuntimeState
               /\ s.queued_refresh = queued
               /\ s.in_flight = NIL
               /\ s.request_seq = r.request_seq
               /\ s.context_generation = r.context_generation
               /\ s.aborting \subseteq r.aborting \cup {r.in_flight}
    BY <1>4 DEF RuntimeInv, AbortedFrom
  <1> HIDE DEF queued, a, s
  <1> QED BY <1>1, <1>4, <1>5 DEF RefreshRuntimeState

\* s follows r: the same generation, and in flight is what r had in flight, with
\* its task, or a refresh whose task runs, or nothing.
Continues(r, s) ==
    /\ s.context_generation = r.context_generation
    /\ \/ s.in_flight = NIL
       \/ s.in_flight \in s.running
       \/ s.in_flight = r.in_flight /\ r.running \subseteq s.running

\* s has started the immediate part of a request of r.
StartedFrom(r, sel, immediate, target, s) ==
    /\ RuntimeInv(s, sel)
    /\ s.in_flight # NIL
    /\ s.in_flight \in s.running
    /\ s.in_flight.skip_core = FALSE
    /\ s.in_flight.target_view = ScopedTargetView(immediate, target)
    /\ s.context_generation = r.context_generation
    /\ s.aborting = r.aborting

\* Starting a request puts it in flight.
LEMMA StartNowFields ==
    ASSUME NEW r, NEW sel, RuntimeInv(r, sel), NEW id \in Nat,
           NEW ns \in AnyNamespace, sel # All => ns = sel,
           NEW immediate \in SUBSET Flags, NEW background \in SUBSET Flags,
           background \cap CORE_OVERVIEW = NONE, NEW target \in AnyView
    PROVE  StartedFrom(r, sel, immediate, target,
                       StartNow(r, id, ns, immediate, background, target))
  <1> DEFINE started == Launch(r, id, ns, immediate, FALSE,
                               ScopedTargetView(immediate, target))
             backfill ==
               [request_id |-> r.request_seq + 1, namespace |-> ns,
                primary_scope |-> NONE, scope |-> background, skip_core |-> TRUE,
                target_view |-> ScopedTargetView(background, target),
                context_generation |-> r.context_generation]
             s == StartNow(r, id, ns, immediate, background, target)
  <1> SUFFICES /\ RuntimeInv(s, sel)
               /\ s.in_flight # NIL
               /\ s.in_flight \in s.running
               /\ s.in_flight.skip_core = FALSE
               /\ s.in_flight.target_view = ScopedTargetView(immediate, target)
               /\ s.context_generation = r.context_generation
               /\ s.aborting = r.aborting
    BY DEF StartedFrom
  <1>1. r \in RefreshRuntimeState
    BY DEF RuntimeInv
  <1>2. ScopedTargetView(immediate, target) \in AnyView
        /\ ScopedTargetView(background, target) \in AnyView
    BY ScopedTargetViewType
  <1>3. /\ started \in RefreshRuntimeState
        /\ started.in_flight \in Job
        /\ started.in_flight \in started.running
        /\ started.in_flight.namespace = ns
        /\ started.in_flight.skip_core = FALSE
        /\ started.in_flight.generation <= started.context_generation
        /\ started.in_flight.target_view = ScopedTargetView(immediate, target)
        /\ started.queued_refresh = r.queued_refresh
        /\ started.context_generation = r.context_generation
        /\ started.aborting = r.aborting
    <2>1. LaunchedFrom(r, ns, immediate, FALSE, ScopedTargetView(immediate, target),
                       started)
      BY <1>1, <1>2, LaunchFields
    <2>2. r.context_generation <= r.context_generation
      BY <1>1 DEF RefreshRuntimeState
    <2> HIDE DEF started
    <2> QED BY <2>1, <2>2 DEF LaunchedFrom
  <1>4. /\ backfill \in QueuedRefresh
        /\ backfill.namespace = ns
        /\ HonestBackfill(backfill)
        /\ CoreFirst(backfill)
    BY <1>1, <1>2, FlagFacts
       DEF QueuedRefresh, RefreshRuntimeState, HonestBackfill, CoreFirst, NONE
  <1>5. s = IF background = NONE THEN started
            ELSE [started EXCEPT !.request_seq = @ + 1, !.queued_refresh = backfill]
    BY DEF StartNow
  <1>6. started.in_flight # NIL
    BY <1>3, NilAssumption
  <1>7. HonestBackfill(started.in_flight)
    BY <1>3 DEF HonestBackfill
  <1> HIDE DEF started, backfill, s
  <1>8. CASE background = NONE
    BY <1>3, <1>5, <1>6, <1>7, <1>8 DEF RuntimeInv
  <1>9. CASE background # NONE
    <2>1. /\ s \in RefreshRuntimeState
          /\ s.in_flight = started.in_flight
          /\ s.running = started.running
          /\ s.aborting = started.aborting
          /\ s.context_generation = started.context_generation
          /\ s.queued_refresh = backfill
      <3>1. s = [started EXCEPT !.request_seq = @ + 1, !.queued_refresh = backfill]
        BY <1>5, <1>9
      <3>2. started.request_seq + 1 \in Nat
        BY <1>3 DEF RefreshRuntimeState
      <3>3. s \in RefreshRuntimeState
        BY <1>3, <1>4, <3>1, <3>2 DEF RefreshRuntimeState
      <3> QED BY <1>3, <3>1, <3>3 DEF RefreshRuntimeState
    <2> QED BY <1>3, <1>4, <1>6, <1>7, <2>1 DEF RuntimeInv
  <1> QED BY <1>8, <1>9

\* s differs from r in its queue only.
MergedFrom(r, sel, s) ==
    /\ RuntimeInv(s, sel)
    /\ s.in_flight = r.in_flight
    /\ s.queued_refresh \in QueuedRefresh
    /\ s.running = r.running
    /\ s.aborting = r.aborting
    /\ s.context_generation = r.context_generation

\* Merging a request changes nothing but the queue.
LEMMA MergeIntoQueueFields ==
    ASSUME NEW r, NEW sel, RuntimeInv(r, sel), NEW id \in Nat,
           NEW ns \in AnyNamespace, sel # All => ns = sel,
           NEW d \in RefreshDispatch, CoreFirst(d)
    PROVE  MergedFrom(r, sel, MergeIntoQueue(r, id, ns, d))
  <1> DEFINE old == r.queued_refresh
             scope == d.scope \cup (IF old = NIL THEN NONE ELSE old.scope)
             primary == d.primary_scope
                          \cup (IF old = NIL THEN NONE ELSE old.primary_scope)
             skip == MergedSkipCore(old, primary)
             target == MergedTargetView(
                          IF old = NIL THEN NoView
                          ELSE ScopedTargetView(scope, old.target_view),
                          ScopedTargetView(scope, d.target_view))
             queued == [request_id |-> id, namespace |-> ns,
                        primary_scope |-> primary, scope |-> scope,
                        skip_core |-> skip, target_view |-> target,
                        context_generation |-> r.context_generation]
             s == MergeIntoQueue(r, id, ns, d)
  <1>1. r \in RefreshRuntimeState /\ r.context_generation \in Nat
    BY DEF RuntimeInv, RefreshRuntimeState
  <1>2. s = [r EXCEPT !.queued_refresh = queued]
    BY DEF MergeIntoQueue
  <1>3. /\ d.scope \in SUBSET Flags
        /\ d.primary_scope \in SUBSET Flags
        /\ d.target_view \in AnyView
    BY DEF RefreshDispatch
  <1>4. old # NIL =>
          /\ old \in QueuedRefresh
          /\ old.scope \in SUBSET Flags
          /\ old.primary_scope \in SUBSET Flags
          /\ old.target_view \in AnyView
          /\ old.skip_core \in BOOLEAN
          /\ HonestBackfill(old) /\ CoreFirst(old)
    <2> SUFFICES ASSUME old # NIL
                 PROVE  /\ old \in QueuedRefresh
                        /\ HonestBackfill(old) /\ CoreFirst(old)
      BY DEF QueuedRefresh
    <2> QED BY <1>1 DEF RuntimeInv, RefreshRuntimeState
  <1>5. scope \in SUBSET Flags /\ primary \in SUBSET Flags
    BY <1>3, <1>4, FlagFacts
  <1>6. target \in AnyView
    <2> DEFINE t1 == IF old = NIL THEN NoView
                     ELSE ScopedTargetView(scope, old.target_view)
               t2 == ScopedTargetView(scope, d.target_view)
    <2>1. t1 \in AnyView /\ t2 \in AnyView
      BY <1>3, <1>4, ScopedTargetViewType DEF AnyView
    <2>2. target = MergedTargetView(t1, t2)
      OBVIOUS
    <2> HIDE DEF t1, t2, target
    <2> QED BY <2>1, <2>2 DEF MergedTargetView, AnyView
  <1>7. skip \in BOOLEAN
    BY DEF MergedSkipCore
  <1>8. scope \cap CORE_OVERVIEW \subseteq primary
    BY <1>4 DEF CoreFirst, NONE
  <1>9. skip => scope \cap CORE_OVERVIEW = NONE
    <2> SUFFICES ASSUME skip PROVE scope \cap CORE_OVERVIEW = {}
      BY DEF NONE
    <2>1. primary = {}
      BY DEF MergedSkipCore, NONE
    <2> QED BY <2>1, <1>8
  <1>10. /\ queued.scope = scope /\ queued.primary_scope = primary
         /\ queued.skip_core = skip /\ queued.namespace = ns
    OBVIOUS
  <1> HIDE DEF old, scope, primary, skip, target
  <1>11. queued \in QueuedRefresh
    BY <1>1, <1>5, <1>6, <1>7 DEF QueuedRefresh
  <1> HIDE DEF queued, s
  <1>12. HonestBackfill(queued) /\ CoreFirst(queued)
    BY <1>8, <1>9, <1>10 DEF HonestBackfill, CoreFirst
  <1>13. /\ s \in RefreshRuntimeState
         /\ s.in_flight = r.in_flight
         /\ s.running = r.running
         /\ s.aborting = r.aborting
         /\ s.context_generation = r.context_generation
         /\ s.queued_refresh = queued
    BY <1>1, <1>2, <1>11 DEF RefreshRuntimeState
  <1>14. RuntimeInv(s, sel)
    BY <1>10, <1>12, <1>13 DEF RuntimeInv
  <1> QED BY <1>11, <1>13, <1>14 DEF s, MergedFrom

\* s is r after a request for the scopes of d was taken in.
RequestedFrom(r, sel, d, s) ==
    /\ RuntimeInv(s, sel)
    /\ Continues(r, s)
    /\ IF d.scope = NONE THEN s = r ELSE s.in_flight # NIL
    /\ \A job \in s.aborting \ r.aborting :
          job.skip_core /\ job.target_view = NoView
              /\ s.in_flight.target_view # NoView
    /\ (r.in_flight = NIL \/ ~r.in_flight.skip_core) => s.aborting = r.aborting
    /\ (s.in_flight # r.in_flight /\ s.in_flight # NIL) => ~s.in_flight.skip_core

\* A request is started, started in place of a backfill, or merged.
LEMMA RequestRefreshFields ==
    ASSUME NEW r, NEW sel, RuntimeInv(r, sel), NEW ns \in AnyNamespace,
           sel # All => ns = sel, NEW d \in RefreshDispatch, CoreFirst(d)
    PROVE  RequestedFrom(r, sel, d, RequestRefresh(r, ns, d))
  <1> DEFINE primary    == d.primary_scope \cap d.scope
             immediate  == IF primary = NONE THEN d.scope ELSE primary
             background == d.scope \ immediate
             id         == r.request_seq + 1
             counted    == [r EXCEPT !.request_seq = id]
             preempts   == CanPreempt(r, ScopedTargetView(immediate, d.target_view))
             ready      == IF preempts THEN Preempt(counted) ELSE counted
             s          == RequestRefresh(r, ns, d)
  <1> SUFFICES RequestedFrom(r, sel, d, s)
    OBVIOUS
  <1>1. s = IF d.scope = NONE THEN r
            ELSE IF ready.in_flight = NIL
            THEN StartNow(ready, id, ns, immediate, background, d.target_view)
            ELSE MergeIntoQueue(ready, id, ns, d)
    BY DEF RequestRefresh
  <1>2. CASE d.scope = NONE
    BY <1>1, <1>2 DEF RequestedFrom, Continues
  <1>3. /\ d.scope \in SUBSET Flags /\ d.primary_scope \in SUBSET Flags
        /\ d.target_view \in AnyView
        /\ immediate \in SUBSET Flags /\ background \in SUBSET Flags
    BY DEF RefreshDispatch
  <1>4. background \cap CORE_OVERVIEW = NONE
    BY DEF CoreFirst, NONE
  <1>5. /\ r \in RefreshRuntimeState
        /\ id \in Nat
    BY DEF RuntimeInv, RefreshRuntimeState
  <1>6. /\ counted \in RefreshRuntimeState
        /\ counted.in_flight = r.in_flight
        /\ counted.queued_refresh = r.queued_refresh
        /\ counted.running = r.running
        /\ counted.aborting = r.aborting
        /\ counted.context_generation = r.context_generation
    <2> HIDE DEF id
    <2> QED BY <1>5 DEF RefreshRuntimeState
  <1> HIDE DEF counted, id
  <1>7. RuntimeInv(counted, sel)
    BY <1>6 DEF RuntimeInv
  <1>8. preempts => AbortedFrom(counted, sel, ready)
    <2> SUFFICES ASSUME preempts PROVE AbortedFrom(counted, sel, ready)
      OBVIOUS
    <2>1. CanPreempt(counted, ScopedTargetView(immediate, d.target_view))
      BY <1>6 DEF CanPreempt
    <2>2. AbortedFrom(counted, sel, Preempt(counted))
      BY <1>7, <2>1, PreemptFields
    <2> QED BY <2>2
  <1>9. ~preempts => ready = counted
    OBVIOUS
  <1>10. preempts => /\ r.in_flight # NIL /\ r.in_flight.skip_core
                     /\ r.in_flight.target_view = NoView
                     /\ ScopedTargetView(immediate, d.target_view) # NoView
    BY DEF CanPreempt
  <1> HIDE DEF preempts, ready, s
  <1>11. RuntimeInv(ready, sel)
    BY <1>7, <1>8, <1>9 DEF AbortedFrom
  <1>12. CASE d.scope # NONE /\ ready.in_flight = NIL
    <2>1. s = StartNow(ready, id, ns, immediate, background, d.target_view)
      BY <1>1, <1>12
    <2> HIDE DEF primary, immediate, background
    <2>2. StartedFrom(ready, sel, immediate, d.target_view, s)
      BY <1>3, <1>4, <1>5, <1>11, <2>1, StartNowFields
    <2>3. ready.context_generation = r.context_generation
      BY <1>6, <1>8, <1>9 DEF AbortedFrom
    <2>4. preempts => s.aborting \subseteq r.aborting \cup {r.in_flight}
      BY <1>6, <1>8, <2>2 DEF AbortedFrom, StartedFrom
    <2>5. ~preempts => s.aborting = r.aborting
      BY <1>6, <1>9, <2>2 DEF StartedFrom
    <2>6. \A job \in s.aborting \ r.aborting :
            job.skip_core /\ job.target_view = NoView
                /\ s.in_flight.target_view # NoView
      BY <1>10, <2>2, <2>4, <2>5 DEF StartedFrom
    <2> QED BY <1>10, <1>12, <2>2, <2>3, <2>5, <2>6
         DEF RequestedFrom, Continues, StartedFrom
  <1>13. CASE d.scope # NONE /\ ready.in_flight # NIL
    <2>1. s = MergeIntoQueue(ready, id, ns, d)
      BY <1>1, <1>13
    <2>2. MergedFrom(ready, sel, s)
      BY <1>5, <1>11, <2>1, MergeIntoQueueFields
    <2>3. ready = counted
      BY <1>8, <1>9, <1>13 DEF AbortedFrom
    <2> QED BY <1>6, <1>13, <2>2, <2>3 DEF RequestedFrom, Continues, MergedFrom
  <1> QED BY <1>2, <1>12, <1>13

\* s is r after its queued refresh was taken.
RanQueuedFrom(r, sel, s) ==
    /\ RuntimeInv(s, sel)
    /\ s.queued_refresh # NIL => s.in_flight # NIL
    /\ Continues(r, s)
    /\ (r.in_flight = NIL \/ ~r.in_flight.skip_core) => s.aborting = r.aborting

\* Taking the queued refresh leaves no refresh queued without one in flight.
LEMMA RunQueuedFields ==
    ASSUME NEW r, NEW sel, RuntimeInv(r, sel)
    PROVE  RanQueuedFrom(r, sel, RunQueued(r))
  <1> DEFINE q == r.queued_refresh
             popped == [r EXCEPT !.queued_refresh = NIL]
             d == Dispatch(q.primary_scope, q.scope, q.target_view)
             s == RunQueued(r)
  <1> SUFFICES RanQueuedFrom(r, sel, s)
    OBVIOUS
  <1>1. s = IF q = NIL THEN r
            ELSE IF q.context_generation # r.context_generation THEN popped
            ELSE IF RequiresTwoPhase(q) THEN RequestRefresh(popped, q.namespace, d)
            ELSE Launch(popped, q.request_id, q.namespace, q.scope, q.skip_core,
                        q.target_view)
    BY DEF RunQueued
  <1>2. r \in RefreshRuntimeState
    BY DEF RuntimeInv
  <1>3. /\ popped \in RefreshRuntimeState
        /\ popped.queued_refresh = NIL
        /\ popped.in_flight = r.in_flight
        /\ popped.running = r.running
        /\ popped.aborting = r.aborting
        /\ popped.context_generation = r.context_generation
    BY <1>2 DEF RefreshRuntimeState
  <1>4. CASE q = NIL
    BY <1>1, <1>4 DEF RanQueuedFrom, Continues
  <1> HIDE DEF popped, s
  <1>5. RuntimeInv(popped, sel)
    BY <1>3 DEF RuntimeInv
  <1>6. CASE q # NIL /\ q.context_generation # r.context_generation
    BY <1>1, <1>3, <1>5, <1>6 DEF RanQueuedFrom, Continues
  <1>7. ASSUME q # NIL
        PROVE  /\ q \in QueuedRefresh
               /\ sel # All => q.namespace = sel
               /\ HonestBackfill(q) /\ CoreFirst(q)
               /\ q.request_id \in Nat /\ q.namespace \in AnyNamespace
               /\ q.primary_scope \in SUBSET Flags /\ q.scope \in SUBSET Flags
               /\ q.skip_core \in BOOLEAN /\ q.target_view \in AnyView
    <2>1. q \in QueuedRefresh
      BY <1>2, <1>7 DEF RefreshRuntimeState
    <2>2. /\ sel # All => q.namespace = sel
          /\ HonestBackfill(q) /\ CoreFirst(q)
      BY <1>7 DEF RuntimeInv
    <2> QED BY <2>1, <2>2 DEF QueuedRefresh
  <1>8. CASE /\ q # NIL /\ q.context_generation = r.context_generation
             /\ RequiresTwoPhase(q)
    <2>1. s = RequestRefresh(popped, q.namespace, d)
      BY <1>1, <1>8
    <2>2. d \in RefreshDispatch /\ CoreFirst(d) /\ d.scope = q.scope
      BY <1>7, <1>8 DEF Dispatch, RefreshDispatch, CoreFirst
    <2> HIDE DEF d
    <2>3. RequestedFrom(popped, sel, d, s)
      BY <1>5, <1>7, <1>8, <2>1, <2>2, RequestRefreshFields
    <2>4. d.scope # NONE
      BY <1>8, <2>2 DEF RequiresTwoPhase, NONE
    <2> QED BY <1>3, <2>3, <2>4 DEF RequestedFrom, RanQueuedFrom, Continues
  <1>9. CASE /\ q # NIL /\ q.context_generation = r.context_generation
             /\ ~RequiresTwoPhase(q)
    <2>1. s = Launch(popped, q.request_id, q.namespace, q.scope, q.skip_core,
                     q.target_view)
      BY <1>1, <1>9
    <2>2. LaunchedFrom(popped, q.namespace, q.scope, q.skip_core, q.target_view, s)
      BY <1>3, <1>7, <1>9, <2>1, LaunchFields
    <2>3. s.in_flight # NIL
      BY <2>2, NilAssumption DEF LaunchedFrom
    <2>4. HonestBackfill(s.in_flight)
            /\ s.in_flight.generation <= s.context_generation
      BY <1>3, <1>7, <1>9, <2>2 DEF LaunchedFrom, HonestBackfill, RefreshRuntimeState
    <2>5. RuntimeInv(s, sel)
      BY <1>3, <1>7, <1>9, <2>2, <2>3, <2>4 DEF LaunchedFrom, RuntimeInv
    <2> QED BY <1>3, <2>2, <2>3, <2>5 DEF LaunchedFrom, RanQueuedFrom, Continues
  <1> QED BY <1>4, <1>6, <1>8, <1>9

\* s is r with a new generation and nothing in flight or queued.
NewGenerationOf(r, s) ==
    /\ s \in RefreshRuntimeState
    /\ s.in_flight = NIL
    /\ s.queued_refresh = NIL
    /\ s.context_generation = r.context_generation + 1

LEMMA NewGenerationFields ==
    ASSUME NEW r \in RefreshRuntimeState
    PROVE  NewGenerationOf(r, NewGeneration(r))
  <1> DEFINE i == InvalidateGeneration(r)
             a == AbortInFlight(i)
             s == NewGeneration(r)
  <1> SUFFICES NewGenerationOf(r, s)
    OBVIOUS
  <1>1. /\ i \in RefreshRuntimeState
        /\ i.context_generation = r.context_generation + 1
    <2>1. r.context_generation + 1 \in Nat
      BY DEF RefreshRuntimeState
    <2> QED BY <2>1 DEF InvalidateGeneration, RefreshRuntimeState
  <1>2. s = [a EXCEPT !.queued_refresh = NIL]
    BY DEF NewGeneration
  <1> HIDE DEF i, s
  <1>3. /\ a \in RefreshRuntimeState
        /\ a.in_flight = NIL
        /\ a.context_generation = i.context_generation
    BY <1>1, AbortInFlightFields
  <1> HIDE DEF a
  <1> QED BY <1>1, <1>2, <1>3 DEF NewGenerationOf, RefreshRuntimeState

LEMMA IdleRefreshInv ==
    ASSUME NEW sel
    PROVE  RuntimeInv(IdleRefresh, sel)
  BY DEF RuntimeInv, IdleRefresh, RefreshRuntimeState

-----------------------------------------------------------------------------
(* The inductive invariant.                                                *)

\* No pending trigger is from the future, and those of the current generation
\* are for the selected namespace.
DeferredInv ==
    \A trigger \in deferred :
        /\ trigger.context_generation <= refresh.context_generation
        /\ CoreFirst(trigger.dispatch)
        /\ (/\ trigger.context_generation = refresh.context_generation
            /\ namespace # All) => trigger.namespace = namespace

RefreshInv ==
    /\ TypeOK
    /\ RuntimeInv(refresh, namespace)
    /\ QueuedBehindInFlight
    /\ InFlightIsCarried
    /\ DeferredInv

\* The invariant gives the properties that are checked.
LEMMA RefreshInvImplies ==
    RefreshInv => NamespaceWork /\ BackfillsHaveNoCore
  <1> SUFFICES ASSUME RefreshInv PROVE NamespaceWork /\ BackfillsHaveNoCore
    OBVIOUS
  <1>1. NamespaceWork
    BY DEF RefreshInv, RuntimeInv, DeferredInv, NamespaceWork
  <1>2. BackfillsHaveNoCore
    BY DEF RefreshInv, RuntimeInv, HonestBackfill, BackfillsHaveNoCore
  <1> QED BY <1>1, <1>2

\* A running task that carries the refresh in flight carries it in the next
\* state, when the runtime state only continues.
LEMMA CarriedContinues ==
    ASSUME RefreshInv, refresh' \in RefreshRuntimeState,
           Continues(refresh, refresh'), refresh_rx' = refresh_rx
    PROVE  InFlightIsCarried'
  <1>1. CASE refresh'.in_flight = NIL
    BY <1>1 DEF InFlightIsCarried, Current
  <1>2. CASE refresh'.in_flight \in refresh'.running
    BY <1>2 DEF InFlightIsCarried, Carried
  <1>3. CASE /\ refresh'.in_flight = refresh.in_flight
             /\ refresh.running \subseteq refresh'.running
    BY <1>3 DEF RefreshInv, Continues, InFlightIsCarried, Current, Carried
  <1> QED BY <1>1, <1>2, <1>3 DEF Continues

\* A request from a handler keeps the invariant, in the same namespace or with
\* the fallback to all of them.
LEMMA RequestKeepsInv ==
    ASSUME RefreshInv, NEW ns \in AnyNamespace, NEW d \in RefreshDispatch,
           CoreFirst(d), namespace' \in {namespace, All},
           namespace' # All => ns = namespace',
           refresh' = RequestRefresh(refresh, ns, d), refresh_rx' = refresh_rx
    PROVE  /\ refresh' \in RefreshRuntimeState
           /\ refresh'.context_generation = refresh.context_generation
           /\ RuntimeInv(refresh', namespace')
           /\ QueuedBehindInFlight'
           /\ InFlightIsCarried'
  <1>1. RuntimeInv(refresh, namespace')
    BY DEF RefreshInv, RuntimeInv
  <1>2. RequestedFrom(refresh, namespace', d, refresh')
    BY <1>1, RequestRefreshFields
  <1>3. refresh' \in RefreshRuntimeState
        /\ RuntimeInv(refresh', namespace')
        /\ Continues(refresh, refresh')
    BY <1>2 DEF RequestedFrom, RuntimeInv
  <1>4. InFlightIsCarried'
    BY <1>3, CarriedContinues
  <1>5. QueuedBehindInFlight'
    BY <1>2 DEF RequestedFrom, QueuedBehindInFlight, RefreshInv
  <1> QED BY <1>3, <1>4, <1>5 DEF Continues

\* So does a request that opens a new generation, for any namespace.
LEMMA NewGenerationKeepsInv ==
    ASSUME RefreshInv, namespace' \in AnyNamespace, NEW d \in RefreshDispatch,
           CoreFirst(d),
           refresh' = RequestRefresh(NewGeneration(refresh), namespace', d)
    PROVE  /\ refresh' \in RefreshRuntimeState
           /\ refresh'.context_generation = refresh.context_generation + 1
           /\ RuntimeInv(refresh', namespace')
           /\ QueuedBehindInFlight'
           /\ InFlightIsCarried'
  <1> DEFINE r == NewGeneration(refresh)
  <1>1. NewGenerationOf(refresh, r)
    BY NewGenerationFields DEF RefreshInv, RuntimeInv
  <1> HIDE DEF r
  <1>2. RuntimeInv(r, namespace')
    BY <1>1 DEF NewGenerationOf, RuntimeInv
  <1>3. RequestedFrom(r, namespace', d, refresh')
    BY <1>2, RequestRefreshFields DEF r
  <1>4. Continues(r, refresh') /\ RuntimeInv(refresh', namespace')
    BY <1>3 DEF RequestedFrom
  <1>5. InFlightIsCarried'
    BY <1>1, <1>4 DEF NewGenerationOf, Continues, InFlightIsCarried, Carried, Current
  <1>6. QueuedBehindInFlight'
    BY <1>1, <1>3 DEF RequestedFrom, NewGenerationOf, QueuedBehindInFlight
  <1> QED BY <1>1, <1>4, <1>5, <1>6 DEF NewGenerationOf, Continues, RuntimeInv

\* The result handler takes the queued refresh of a state with nothing in flight,
\* or of the state that the namespace fallback leaves.
LEMMA RunQueuedKeepsInv ==
    ASSUME NEW r, NEW sel, RuntimeInv(r, sel), Continues(refresh, r),
           r.in_flight = NIL \/ r.in_flight \in r.running,
           refresh' = RunQueued(r), namespace' = sel,
           r.context_generation = refresh.context_generation
    PROVE  /\ refresh' \in RefreshRuntimeState
           /\ refresh'.context_generation = refresh.context_generation
           /\ RuntimeInv(refresh', namespace')
           /\ QueuedBehindInFlight'
           /\ InFlightIsCarried'
  <1>1. RanQueuedFrom(r, sel, refresh')
    BY RunQueuedFields
  <1>2. RuntimeInv(refresh', namespace') /\ Continues(r, refresh')
    BY <1>1 DEF RanQueuedFrom
  <1>3. refresh'.in_flight = NIL \/ refresh'.in_flight \in refresh'.running
    BY <1>2 DEF Continues
  <1>4. InFlightIsCarried'
    BY <1>3 DEF InFlightIsCarried, Carried, Current
  <1>5. QueuedBehindInFlight'
    BY <1>1 DEF RanQueuedFrom, QueuedBehindInFlight
  <1> QED BY <1>2, <1>4, <1>5 DEF Continues, RuntimeInv

\* The initial state, with the first request taken in.
LEMMA InitRefreshInv == Init => RefreshInv
  <1> SUFFICES ASSUME Init PROVE RefreshInv
    OBVIOUS
  <1> DEFINE d == RefreshOptionsForView(view, view \in FluxViews, TRUE)
  <1>1. /\ view \in Views /\ namespace \in AnyNamespace
        /\ refresh = RequestRefresh(IdleRefresh, namespace, d)
        /\ refresh_rx = <<>> /\ deferred = {} /\ switching = FALSE
        /\ watching = TRUE
    BY DEF Init
  <1>2. d \in RefreshDispatch /\ CoreFirst(d)
    <2>1. (view \in FluxViews) \in BOOLEAN /\ TRUE \in BOOLEAN
      OBVIOUS
    <2> QED BY <1>1, <2>1, RefreshOptionsForViewType
  <1> HIDE DEF d
  <1>3. RequestedFrom(IdleRefresh, namespace, d, refresh)
    BY <1>1, <1>2, IdleRefreshInv, RequestRefreshFields
  <1>4. IdleRefresh.in_flight = NIL /\ IdleRefresh.queued_refresh = NIL
    BY DEF IdleRefresh
  <1>5. RuntimeInv(refresh, namespace)
    BY <1>3 DEF RequestedFrom
  <1>6. TypeOK
    <2>1. refresh_rx \in Seq(RefreshAsyncResult)
      BY <1>1
    <2>2. switching \in BOOLEAN /\ watching \in BOOLEAN
      BY <1>1
    <2>3. refresh \in RefreshRuntimeState
      BY <1>5 DEF RuntimeInv
    <2> QED BY <1>1, <2>1, <2>2, <2>3 DEF TypeOK
  <1>7. QueuedBehindInFlight
    BY <1>3, <1>4 DEF RequestedFrom, QueuedBehindInFlight
  <1>8. InFlightIsCarried
    BY <1>3, <1>4 DEF RequestedFrom, Continues, InFlightIsCarried, Carried, Current
  <1>9. DeferredInv
    BY <1>1 DEF DeferredInv
  <1> QED BY <1>5, <1>6, <1>7, <1>8, <1>9 DEF RefreshInv

\* A handler that takes in a request and touches nothing else that the
\* invariant is about.
LEMMA RequestOnlyKeepsInv ==
    ASSUME RefreshInv, NEW ns \in AnyNamespace, NEW d \in RefreshDispatch,
           CoreFirst(d), namespace' \in {namespace, All},
           namespace' # All => ns = namespace', Request(ns, d),
           deferred' \subseteq deferred, view' \in Views,
           UNCHANGED <<refresh_rx, switching, watching>>
    PROVE  RefreshInv'
  <1>1. refresh' = RequestRefresh(refresh, ns, d)
    BY DEF Request
  <1>2. /\ refresh' \in RefreshRuntimeState
        /\ refresh'.context_generation = refresh.context_generation
        /\ RuntimeInv(refresh', namespace')
        /\ QueuedBehindInFlight'
        /\ InFlightIsCarried'
    BY <1>1, RequestKeepsInv
  <1>3. TypeOK'
    BY <1>2 DEF RefreshInv, TypeOK, AnyNamespace
  <1>4. DeferredInv'
    BY <1>2 DEF RefreshInv, DeferredInv
  <1> QED BY <1>2, <1>3, <1>4 DEF RefreshInv

\* A handler that opens a generation.
LEMMA NewGenerationStepKeepsInv ==
    ASSUME RefreshInv, namespace' \in AnyNamespace, view' \in Views,
           NEW d \in RefreshDispatch, CoreFirst(d),
           refresh' = RequestRefresh(NewGeneration(refresh), namespace', d),
           switching' \in BOOLEAN, watching' \in BOOLEAN,
           UNCHANGED <<refresh_rx, deferred>>
    PROVE  RefreshInv'
  <1>1. /\ refresh' \in RefreshRuntimeState
        /\ refresh'.context_generation = refresh.context_generation + 1
        /\ RuntimeInv(refresh', namespace')
        /\ QueuedBehindInFlight'
        /\ InFlightIsCarried'
    BY NewGenerationKeepsInv
  <1>2. TypeOK'
    BY <1>1 DEF RefreshInv, TypeOK
  <1>3. DeferredInv'
    <2>1. \A t \in deferred : t.context_generation \in Nat
      BY DEF RefreshInv, TypeOK, DeferredRefreshTrigger
    <2>2. refresh.context_generation \in Nat
      BY DEF RefreshInv, TypeOK, RefreshRuntimeState
    <2> QED BY <1>1, <2>1, <2>2 DEF RefreshInv, DeferredInv
  <1> QED BY <1>1, <1>2, <1>3 DEF RefreshInv

\* A step that leaves the runtime state, the results and the namespace alone.
LEMMA RuntimeUnchangedKeepsInv ==
    ASSUME RefreshInv, UNCHANGED <<refresh, refresh_rx, namespace>>,
           deferred' \subseteq deferred, view' \in Views,
           switching' \in BOOLEAN, watching' \in BOOLEAN
    PROVE  RefreshInv'
  BY DEF RefreshInv, TypeOK, QueuedBehindInFlight, InFlightIsCarried, Current,
         Carried, DeferredInv

LEMMA NavigateToKeepsInv ==
    ASSUME RefreshInv, NEW v \in Views, NavigateTo(v)
    PROVE  RefreshInv'
  <1>1. switching \in BOOLEAN /\ watching \in BOOLEAN /\ namespace \in AnyNamespace
    BY DEF RefreshInv, TypeOK
  <1>2. CASE v = "PortForwarding"
    BY <1>1, <1>2, RuntimeUnchangedKeepsInv DEF NavigateTo
  <1>3. CASE v # "PortForwarding"
    <2>1. Request(namespace, ViewDispatch(v))
      BY <1>3 DEF NavigateTo
    <2> QED BY <1>1, <2>1, ViewDispatchType, RequestOnlyKeepsInv DEF NavigateTo
  <1> QED BY <1>2, <1>3

LEMMA RefreshDataKeepsInv ==
    ASSUME RefreshInv, RefreshData
    PROVE  RefreshInv'
  <1> DEFINE d == FullRefreshOptions(TRUE, TRUE)
  <1>1. d \in RefreshDispatch /\ CoreFirst(d)
    BY FullRefreshOptionsType
  <1>2. Request(namespace, d) /\ namespace \in AnyNamespace /\ view \in Views
    BY DEF RefreshData, RefreshInv, TypeOK
  <1> HIDE DEF d
  <1> QED BY <1>1, <1>2, RequestOnlyKeepsInv DEF RefreshData

LEMMA AutoRefreshKeepsInv ==
    ASSUME RefreshInv, NEW include_flux \in BOOLEAN, AutoRefresh(include_flux)
    PROVE  RefreshInv'
  <1> DEFINE active == IF watching THEN NormalizeWatchScope(WatchScopeForView(view))
                       ELSE NONE
             whole == RefreshOptionsForView(view, include_flux, FALSE)
             d == StripActiveWatchScope(whole, active)
  <1>1. namespace \in AnyNamespace /\ view \in Views
    BY DEF RefreshInv, TypeOK
  <1>2. whole \in RefreshDispatch /\ CoreFirst(whole)
    BY <1>1, RefreshOptionsForViewType
  <1>3. d \in RefreshDispatch /\ CoreFirst(d)
    <2> HIDE DEF whole, active
    <2> QED BY <1>2, StripActiveWatchScopeType
  <1>4. Request(namespace, d)
    BY DEF AutoRefresh
  <1> HIDE DEF d
  <1> QED BY <1>1, <1>3, <1>4, RequestOnlyKeepsInv DEF AutoRefresh

LEMMA MutationSucceededKeepsInv ==
    ASSUME RefreshInv, NEW origin \in Views, NEW force_include_flux \in BOOLEAN,
           MutationSucceeded(origin, force_include_flux)
    PROVE  RefreshInv'
  <1> DEFINE d == MutationRefreshOptions(
                    origin, force_include_flux \/ origin \in FluxViews)
             triggers ==
               [context_generation : {refresh.context_generation},
                namespace : {namespace}, dispatch : {d},
                delay : MUTATION_REFRESH_DELAYS_SECS]
  <1>1. d \in RefreshDispatch /\ CoreFirst(d)
    <2>1. (force_include_flux \/ origin \in FluxViews) \in BOOLEAN
      OBVIOUS
    <2> QED BY <2>1, MutationRefreshOptionsType
  <1>2. /\ refresh' = RequestRefresh(refresh, namespace, d)
        /\ deferred' = deferred \cup triggers
        /\ UNCHANGED <<refresh_rx, namespace, view, switching, watching>>
    BY DEF MutationSucceeded, Request
  <1> HIDE DEF d
  <1>3. namespace \in AnyNamespace /\ refresh.context_generation \in Nat
    BY DEF RefreshInv, TypeOK, RefreshRuntimeState
  <1>4. /\ refresh' \in RefreshRuntimeState
        /\ refresh'.context_generation = refresh.context_generation
        /\ RuntimeInv(refresh', namespace')
        /\ QueuedBehindInFlight'
        /\ InFlightIsCarried'
    BY <1>1, <1>2, <1>3, RequestKeepsInv
  <1>5. triggers \subseteq DeferredRefreshTrigger
    BY <1>1, <1>3 DEF DeferredRefreshTrigger
  <1>6. \A t \in triggers :
          /\ t.context_generation = refresh.context_generation
          /\ t.namespace = namespace
          /\ t.dispatch = d
    OBVIOUS
  <1> HIDE DEF triggers
  <1>7. TypeOK'
    BY <1>2, <1>4, <1>5 DEF RefreshInv, TypeOK
  <1>8. DeferredInv'
    BY <1>1, <1>2, <1>3, <1>4, <1>6 DEF RefreshInv, DeferredInv
  <1> QED BY <1>4, <1>7, <1>8 DEF RefreshInv

LEMMA DeferredFiresKeepsInv ==
    ASSUME RefreshInv, NEW trigger \in deferred, DeferredFires(trigger)
    PROVE  RefreshInv'
  <1>1. /\ deferred' \subseteq deferred
        /\ UNCHANGED <<refresh_rx, namespace, view, switching, watching>>
    BY DEF DeferredFires
  <1>2. /\ trigger \in DeferredRefreshTrigger /\ view \in Views
        /\ switching \in BOOLEAN /\ watching \in BOOLEAN
    BY DEF RefreshInv, TypeOK
  <1>3. CASE trigger.context_generation # refresh.context_generation
    <2>1. UNCHANGED refresh
      BY <1>3 DEF DeferredFires
    <2> QED BY <1>1, <1>2, <2>1, RuntimeUnchangedKeepsInv
  <1>4. CASE trigger.context_generation = refresh.context_generation
    <2>1. Request(trigger.namespace, trigger.dispatch)
      BY <1>4 DEF DeferredFires
    <2>2. /\ trigger.dispatch \in RefreshDispatch
          /\ trigger.namespace \in AnyNamespace
      BY <1>2 DEF DeferredRefreshTrigger
    <2>3. /\ CoreFirst(trigger.dispatch)
          /\ namespace # All => trigger.namespace = namespace
      BY <1>4 DEF RefreshInv, DeferredInv
    <2> QED BY <1>1, <1>2, <2>1, <2>2, <2>3, RequestOnlyKeepsInv
  <1> QED BY <1>3, <1>4

LEMMA SelectNamespaceKeepsInv ==
    ASSUME RefreshInv, NEW ns \in AnyNamespace, NEW v \in Views,
           SelectNamespace(ns, v)
    PROVE  RefreshInv'
  <1>1. switching \in BOOLEAN /\ TRUE \in BOOLEAN
    BY DEF RefreshInv, TypeOK
  <1>2. /\ namespace' = ns /\ view' = v /\ watching' = TRUE
        /\ refresh' = RequestRefresh(NewGeneration(refresh), ns, ViewDispatch(v))
        /\ UNCHANGED <<refresh_rx, deferred, switching>>
    BY DEF SelectNamespace
  <1> QED BY <1>1, <1>2, ViewDispatchType, NewGenerationStepKeepsInv

LEMMA ContextSwitchSucceedsKeepsInv ==
    ASSUME RefreshInv, NEW ns \in AnyNamespace, NEW v \in Views,
           ContextSwitchSucceeds(ns, v)
    PROVE  RefreshInv'
  <1> DEFINE d == RefreshOptionsForView(v, v \in FluxViews, TRUE)
  <1>1. /\ namespace' = ns /\ view' = v /\ watching' = TRUE /\ switching' = FALSE
        /\ refresh' = RequestRefresh(NewGeneration(refresh), ns, d)
        /\ UNCHANGED <<refresh_rx, deferred>>
    BY DEF ContextSwitchSucceeds
  <1>2. d \in RefreshDispatch /\ CoreFirst(d)
    <2>1. (v \in FluxViews) \in BOOLEAN /\ TRUE \in BOOLEAN
      OBVIOUS
    <2> QED BY <2>1, RefreshOptionsForViewType
  <1>3. TRUE \in BOOLEAN /\ FALSE \in BOOLEAN
    OBVIOUS
  <1> HIDE DEF d
  <1> QED BY <1>1, <1>2, <1>3, NewGenerationStepKeepsInv

\* The refresh in flight stays recorded, and is not current any more.
LEMMA SelectContextKeepsInv ==
    ASSUME RefreshInv, SelectContext
    PROVE  RefreshInv'
  <1>1. refresh \in RefreshRuntimeState /\ refresh.context_generation \in Nat
    BY DEF RefreshInv, TypeOK, RefreshRuntimeState
  <1>2. refresh' = [refresh EXCEPT !.context_generation = @ + 1]
    BY DEF SelectContext, InvalidateGeneration
  <1>3. /\ refresh' \in RefreshRuntimeState
        /\ refresh'.context_generation = refresh.context_generation + 1
        /\ refresh'.in_flight = refresh.in_flight
        /\ refresh'.queued_refresh = refresh.queued_refresh
    <2> DEFINE next == refresh.context_generation + 1
    <2>1. next \in Nat /\ refresh' = [refresh EXCEPT !.context_generation = next]
      BY <1>1, <1>2
    <2> HIDE DEF next
    <2>2. /\ refresh' \in RefreshRuntimeState
          /\ refresh'.context_generation = next
          /\ refresh'.in_flight = refresh.in_flight
          /\ refresh'.queued_refresh = refresh.queued_refresh
      BY <1>1, <2>1 DEF RefreshRuntimeState
    <2> QED BY <2>2 DEF next
  <1>4. /\ UNCHANGED <<refresh_rx, deferred, namespace, view>>
        /\ switching' \in BOOLEAN /\ watching' \in BOOLEAN
    BY DEF SelectContext
  <1>5. TypeOK'
    BY <1>3, <1>4 DEF RefreshInv, TypeOK
  <1>6. refresh.in_flight # NIL => refresh.in_flight.generation \in Nat
    BY <1>1 DEF RefreshRuntimeState, Job
  <1>7. RuntimeInv(refresh', namespace')
    BY <1>1, <1>3, <1>4, <1>6 DEF RefreshInv, RuntimeInv
  <1>8. QueuedBehindInFlight'
    BY <1>3 DEF RefreshInv, QueuedBehindInFlight
  <1>9. InFlightIsCarried'
    BY <1>1, <1>3, <1>6 DEF RefreshInv, RuntimeInv, InFlightIsCarried, Current
  <1>10. DeferredInv'
    <2>1. \A t \in deferred : t.context_generation \in Nat
      BY DEF RefreshInv, TypeOK, DeferredRefreshTrigger
    <2> QED BY <1>1, <1>3, <1>4, <2>1 DEF RefreshInv, DeferredInv
  <1> QED BY <1>5, <1>7, <1>8, <1>9, <1>10 DEF RefreshInv

LEMMA ContextSwitchFailsKeepsInv ==
    ASSUME RefreshInv, ContextSwitchFails
    PROVE  RefreshInv'
  <1>1. view \in Views /\ watching \in BOOLEAN /\ FALSE \in BOOLEAN
    BY DEF RefreshInv, TypeOK
  <1> QED BY <1>1, RuntimeUnchangedKeepsInv DEF ContextSwitchFails

\* A step that changes only the sets of tasks of the runtime state.
LEMMA TasksOnlyKeepsInv ==
    ASSUME RefreshInv, refresh' \in RefreshRuntimeState,
           refresh'.in_flight = refresh.in_flight,
           refresh'.queued_refresh = refresh.queued_refresh,
           refresh'.context_generation = refresh.context_generation,
           refresh_rx' \in Seq(RefreshAsyncResult), InFlightIsCarried',
           UNCHANGED <<deferred, namespace, view, switching, watching>>
    PROVE  RefreshInv'
  <1>1. TypeOK'
    BY DEF RefreshInv, TypeOK
  <1>2. RuntimeInv(refresh', namespace')
    BY DEF RefreshInv, RuntimeInv
  <1>3. QueuedBehindInFlight' /\ DeferredInv'
    BY DEF RefreshInv, QueuedBehindInFlight, DeferredInv
  <1> QED BY <1>1, <1>2, <1>3 DEF RefreshInv

\* The result of a task that ends takes its place as the carrier.
LEMMA TaskFinishesKeepsInv ==
    ASSUME RefreshInv, NEW job \in refresh.running \cup refresh.aborting,
           NEW gone \in BOOLEAN, TaskFinishes(job, gone)
    PROVE  RefreshInv'
  <1> DEFINE result == [job |-> job, namespace_gone |-> gone]
             running == refresh.running \ {job}
             aborting == refresh.aborting \ {job}
  <1>1. /\ refresh \in RefreshRuntimeState /\ refresh_rx \in Seq(RefreshAsyncResult)
        /\ job \in Job
        /\ running \in SUBSET Job /\ aborting \in SUBSET Job
    BY DEF RefreshInv, TypeOK, RefreshRuntimeState
  <1>2. result \in RefreshAsyncResult /\ result.job = job
    BY <1>1 DEF RefreshAsyncResult
  <1>3. /\ refresh_rx' = Append(refresh_rx, result)
        /\ refresh' = [refresh EXCEPT !.running = running, !.aborting = aborting]
        /\ UNCHANGED <<deferred, namespace, view, switching, watching>>
    BY DEF TaskFinishes, Send
  <1> HIDE DEF result, running, aborting
  <1>4. /\ refresh' \in RefreshRuntimeState
        /\ refresh'.running = running
        /\ refresh'.in_flight = refresh.in_flight
        /\ refresh'.queued_refresh = refresh.queued_refresh
        /\ refresh'.context_generation = refresh.context_generation
    BY <1>1, <1>3 DEF RefreshRuntimeState
  <1>5. refresh_rx' \in Seq(RefreshAsyncResult)
    BY <1>1, <1>2, <1>3
  <1>6. /\ Len(refresh_rx) + 1 \in DOMAIN refresh_rx'
        /\ refresh_rx'[Len(refresh_rx) + 1] = result
        /\ \A i \in DOMAIN refresh_rx :
              i \in DOMAIN refresh_rx' /\ refresh_rx'[i] = refresh_rx[i]
    BY <1>1, <1>2, <1>3
  <1>7. InFlightIsCarried'
    <2> SUFFICES ASSUME Current(refresh)' PROVE Carried(refresh.in_flight)'
      BY DEF InFlightIsCarried
    <2>1. Carried(refresh.in_flight)
      BY <1>4 DEF RefreshInv, InFlightIsCarried, Current
    <2>2. CASE refresh.in_flight = job
      BY <1>2, <1>4, <1>6, <2>2 DEF Carried
    <2>3. CASE refresh.in_flight # job /\ refresh.in_flight \in refresh.running
      BY <1>4, <2>3 DEF Carried, running
    <2>4. CASE \E i \in DOMAIN refresh_rx : refresh_rx[i].job = refresh.in_flight
      BY <1>4, <1>6, <2>4 DEF Carried
    <2> QED BY <2>1, <2>2, <2>3, <2>4 DEF Carried
  <1> QED BY <1>3, <1>4, <1>5, <1>7, TasksOnlyKeepsInv

LEMMA TaskAbortedKeepsInv ==
    ASSUME RefreshInv, NEW job \in refresh.aborting, TaskAborted(job)
    PROVE  RefreshInv'
  <1> DEFINE aborting == refresh.aborting \ {job}
  <1>1. /\ refresh \in RefreshRuntimeState /\ refresh_rx \in Seq(RefreshAsyncResult)
        /\ aborting \in SUBSET Job /\ refresh.running \in SUBSET Job
    BY DEF RefreshInv, TypeOK, RefreshRuntimeState
  <1>2. /\ refresh' = [refresh EXCEPT !.aborting = aborting]
        /\ UNCHANGED <<refresh_rx, deferred, namespace, view, switching, watching>>
    BY DEF TaskAborted
  <1> HIDE DEF aborting
  <1>3. /\ refresh' \in RefreshRuntimeState
        /\ refresh'.running = refresh.running
        /\ refresh'.in_flight = refresh.in_flight
        /\ refresh'.queued_refresh = refresh.queued_refresh
        /\ refresh'.context_generation = refresh.context_generation
    BY <1>1, <1>2 DEF RefreshRuntimeState
  <1>4. InFlightIsCarried'
    BY <1>2, <1>3, CarriedContinues DEF Continues
  <1> QED BY <1>1, <1>2, <1>3, <1>4, TasksOnlyKeepsInv

LEMMA NamespaceGoneKeepsInv ==
    ASSUME RefreshInv, NamespaceGone
    PROVE  RefreshInv'
  <1>1. All \in AnyNamespace /\ view \in Views
    BY DEF RefreshInv, TypeOK, AnyNamespace
  <1>2. ViewDispatch(view) \in RefreshDispatch /\ CoreFirst(ViewDispatch(view))
    BY <1>1, ViewDispatchType
  <1>3. Request(All, ViewDispatch(view))
    BY DEF NamespaceGone, NamespaceFallback, Request
  <1> QED BY <1>1, <1>2, <1>3, RequestOnlyKeepsInv DEF NamespaceGone

\* What the result handler leaves before it takes the queued refresh: the
\* runtime state with nothing in flight, or with the namespace fallback started.
ClearedFrom(r, sel, c) ==
    /\ RuntimeInv(c, sel)
    /\ Continues(r, c)
    /\ c.in_flight = NIL \/ c.in_flight \in c.running
    /\ c.in_flight = NIL \/ ~c.in_flight.skip_core
    /\ c.aborting = r.aborting

LEMMA ClearedFields ==
    ASSUME NEW r, NEW sel, RuntimeInv(r, sel)
    PROVE  ClearedFrom(r, sel, [r EXCEPT !.in_flight = NIL])
  <1> DEFINE c == [r EXCEPT !.in_flight = NIL]
  <1>1. /\ c \in RefreshRuntimeState
        /\ c.in_flight = NIL
        /\ c.queued_refresh = r.queued_refresh
        /\ c.aborting = r.aborting
        /\ c.context_generation = r.context_generation
    BY DEF RuntimeInv, RefreshRuntimeState
  <1> HIDE DEF c
  <1>2. ClearedFrom(r, sel, c)
    BY <1>1 DEF ClearedFrom, RuntimeInv, Continues
  <1> QED BY <1>2 DEF c

LEMMA NamespaceFallbackFields ==
    ASSUME NEW r, NEW sel, NEW c, ClearedFrom(r, sel, c), c.in_flight = NIL,
           view \in Views
    PROVE  ClearedFrom(r, All, NamespaceFallback(c))
  <1> DEFINE d == ViewDispatch(view)
             s == NamespaceFallback(c)
  <1>1. d \in RefreshDispatch /\ CoreFirst(d)
    BY ViewDispatchType
  <1>2. RuntimeInv(c, All)
    BY DEF ClearedFrom, RuntimeInv
  <1>3. s = RequestRefresh(c, All, d) /\ All \in AnyNamespace
    BY DEF NamespaceFallback, AnyNamespace
  <1> HIDE DEF d, s
  <1>4. RequestedFrom(c, All, d, s)
    BY <1>1, <1>2, <1>3, RequestRefreshFields
  <1>5. ClearedFrom(r, All, s)
    BY <1>4 DEF RequestedFrom, ClearedFrom, Continues
  <1> QED BY <1>5 DEF s

\* The three outcomes of a result.
LEMMA RefreshResultCases ==
    ASSUME RefreshInv, RefreshResult
    PROVE  \/ /\ ~Accepts(refresh, Head(refresh_rx).job)
              /\ UNCHANGED <<refresh, namespace>>
           \/ \E c : /\ ClearedFrom(refresh, namespace', c)
                     /\ refresh' = RunQueued(c)
                     /\ namespace' \in {namespace, All}
  <1> DEFINE answered == [refresh EXCEPT !.in_flight = NIL]
             job == Head(refresh_rx).job
             left == Head(refresh_rx).namespace_gone /\ job.namespace = namespace
  <1>1. ClearedFrom(refresh, namespace, answered) /\ answered.in_flight = NIL
    BY ClearedFields DEF RefreshInv, TypeOK, RefreshRuntimeState
  <1>2. view \in Views
    BY DEF RefreshInv, TypeOK
  <1> HIDE DEF answered
  <1>3. CASE ~Accepts(refresh, job)
    BY <1>3 DEF RefreshResult
  <1>4. CASE Accepts(refresh, job) /\ left
    <2>1. namespace' = All /\ refresh' = RunQueued(NamespaceFallback(answered))
      BY <1>4 DEF RefreshResult, answered
    <2>2. ClearedFrom(refresh, All, NamespaceFallback(answered))
      BY <1>1, <1>2, NamespaceFallbackFields
    <2> QED BY <2>1, <2>2
  <1>5. CASE Accepts(refresh, job) /\ ~left
    <2>1. namespace' = namespace /\ refresh' = RunQueued(answered)
      BY <1>5 DEF RefreshResult, answered
    <2> QED BY <1>1, <2>1
  <1> QED BY <1>3, <1>4, <1>5

\* A result that is dropped was not carrying the refresh in flight.
LEMMA RefreshResultKeepsInv ==
    ASSUME RefreshInv, RefreshResult
    PROVE  RefreshInv'
  <1>1. /\ refresh_rx \in Seq(RefreshAsyncResult) /\ refresh_rx # <<>>
        /\ refresh_rx' = Tail(refresh_rx)
        /\ UNCHANGED <<deferred, view, switching, watching>>
    BY DEF RefreshInv, TypeOK, RefreshResult, Receive
  <1>2. refresh_rx' \in Seq(RefreshAsyncResult)
    BY <1>1
  <1>3. CASE /\ ~Accepts(refresh, Head(refresh_rx).job)
             /\ UNCHANGED <<refresh, namespace>>
    <2>1. TypeOK' /\ RuntimeInv(refresh', namespace') /\ QueuedBehindInFlight'
            /\ DeferredInv'
      BY <1>1, <1>2, <1>3 DEF RefreshInv, TypeOK, QueuedBehindInFlight, DeferredInv
    <2>2. InFlightIsCarried'
      <3> SUFFICES ASSUME Current(refresh)' PROVE Carried(refresh.in_flight)'
        BY DEF InFlightIsCarried
      <3>1. Current(refresh) /\ Carried(refresh.in_flight)
        BY <1>3 DEF RefreshInv, InFlightIsCarried, Current
      <3>2. Head(refresh_rx).job # refresh.in_flight
        BY <1>3, <3>1 DEF Accepts, Current
      <3>3. CASE refresh.in_flight \in refresh.running
        BY <1>3, <3>3 DEF Carried
      <3>4. CASE \E i \in DOMAIN refresh_rx : refresh_rx[i].job = refresh.in_flight
        <4>1. PICK i \in DOMAIN refresh_rx : refresh_rx[i].job = refresh.in_flight
          BY <3>4
        <4>2. i # 1
          BY <1>1, <3>2, <4>1
        <4>3. i - 1 \in DOMAIN refresh_rx' /\ refresh_rx'[i - 1] = refresh_rx[i]
          BY <1>1, <4>1, <4>2
        <4> QED BY <1>3, <4>1, <4>3 DEF Carried
      <3> QED BY <3>1, <3>3, <3>4 DEF Carried
    <2> QED BY <2>1, <2>2 DEF RefreshInv
  <1>4. CASE \E c : /\ ClearedFrom(refresh, namespace', c)
                    /\ refresh' = RunQueued(c)
                    /\ namespace' \in {namespace, All}
    <2>1. PICK c : /\ ClearedFrom(refresh, namespace', c)
                   /\ refresh' = RunQueued(c)
                   /\ namespace' \in {namespace, All}
      BY <1>4
    <2>2. /\ RuntimeInv(c, namespace') /\ Continues(refresh, c)
          /\ c.in_flight = NIL \/ c.in_flight \in c.running
          /\ c.context_generation = refresh.context_generation
      BY <2>1 DEF ClearedFrom, Continues
    <2>3. /\ refresh' \in RefreshRuntimeState
          /\ refresh'.context_generation = refresh.context_generation
          /\ RuntimeInv(refresh', namespace')
          /\ QueuedBehindInFlight'
          /\ InFlightIsCarried'
      BY <2>1, <2>2, RunQueuedKeepsInv
    <2>4. TypeOK'
      BY <1>1, <1>2, <2>1, <2>3 DEF RefreshInv, TypeOK, AnyNamespace
    <2>5. DeferredInv'
      BY <1>1, <2>1, <2>3 DEF RefreshInv, DeferredInv
    <2> QED BY <2>3, <2>4, <2>5 DEF RefreshInv
  <1> QED BY <1>3, <1>4, RefreshResultCases

-----------------------------------------------------------------------------
(* The theorems.                                                           *)

\* RefreshInv is inductive.
LEMMA NextKeepsInv ==
    ASSUME RefreshInv, [Next]_vars
    PROVE  RefreshInv'
  <1>1. CASE Users
    <2>1. ASSUME NEW v \in Views, NavigateTo(v) PROVE RefreshInv'
      BY <2>1, NavigateToKeepsInv
    <2>2. CASE RefreshData
      BY <2>2, RefreshDataKeepsInv
    <2>3. ASSUME NEW origin \in Views, NEW flux \in BOOLEAN,
                 MutationSucceeded(origin, flux)
          PROVE  RefreshInv'
      BY <2>3, MutationSucceededKeepsInv
    <2>4. ASSUME NEW ns \in AnyNamespace, NEW v \in Views, SelectNamespace(ns, v)
          PROVE  RefreshInv'
      BY <2>4, SelectNamespaceKeepsInv
    <2>5. CASE SelectContext
      BY <2>5, SelectContextKeepsInv
    <2> QED BY <1>1, <2>1, <2>2, <2>3, <2>4, <2>5 DEF Users
  <1>2. ASSUME NEW flux \in BOOLEAN, AutoRefresh(flux) PROVE RefreshInv'
    BY <1>2, AutoRefreshKeepsInv
  <1>3. ASSUME NEW trigger \in deferred, DeferredFires(trigger) PROVE RefreshInv'
    BY <1>3, DeferredFiresKeepsInv
  <1>4. ASSUME NEW ns \in AnyNamespace, NEW v \in Views,
               ContextSwitchSucceeds(ns, v)
        PROVE  RefreshInv'
    BY <1>4, ContextSwitchSucceedsKeepsInv
  <1>5. CASE ContextSwitchFails
    BY <1>5, ContextSwitchFailsKeepsInv
  <1>6. ASSUME NEW job \in refresh.running \cup refresh.aborting,
               NEW gone \in BOOLEAN, TaskFinishes(job, gone)
        PROVE  RefreshInv'
    BY <1>6, TaskFinishesKeepsInv
  <1>7. ASSUME NEW job \in refresh.aborting, TaskAborted(job) PROVE RefreshInv'
    BY <1>7, TaskAbortedKeepsInv
  <1>8. CASE RefreshResult
    BY <1>8, RefreshResultKeepsInv
  <1>9. CASE NamespaceGone
    BY <1>9, NamespaceGoneKeepsInv
  <1>10. CASE UNCHANGED vars
    <2>1. /\ UNCHANGED <<refresh, refresh_rx, namespace, deferred>>
          /\ view' \in Views /\ switching' \in BOOLEAN /\ watching' \in BOOLEAN
      BY <1>10 DEF RefreshInv, TypeOK, vars
    <2> QED BY <2>1, RuntimeUnchangedKeepsInv
  <1> QED BY <1>1, <1>2, <1>3, <1>4, <1>5, <1>6, <1>7, <1>8, <1>9, <1>10 DEF Next

THEOREM SpecImpliesRefreshInv == Spec => []RefreshInv
  BY InitRefreshInv, NextKeepsInv, PTL DEF Spec

\* The variables of the refresh pipeline keep their types.
THEOREM SpecImpliesTypeOK == Spec => []TypeOK
  <1>1. RefreshInv => TypeOK
    BY DEF RefreshInv
  <1> QED BY <1>1, SpecImpliesRefreshInv, PTL

\* The refresh of the current generation that the loop waits for is always
\* carried by a task that was not aborted or by its unread result.
THEOREM SpecImpliesInFlightIsCarried == Spec => []InFlightIsCarried
  <1>1. RefreshInv => InFlightIsCarried
    BY DEF RefreshInv
  <1> QED BY <1>1, SpecImpliesRefreshInv, PTL

\* A queued refresh always waits behind one in flight.
THEOREM SpecImpliesQueuedBehindInFlight == Spec => []QueuedBehindInFlight
  <1>1. RefreshInv => QueuedBehindInFlight
    BY DEF RefreshInv
  <1> QED BY <1>1, SpecImpliesRefreshInv, PTL

\* No refresh that is in flight, queued or deferred fetches a namespace that the
\* user has left.
THEOREM SpecImpliesNamespaceWork == Spec => []NamespaceWork
  <1>1. RefreshInv => NamespaceWork
    BY RefreshInvImplies
  <1> QED BY <1>1, SpecImpliesRefreshInv, PTL

\* A backfill is never asked for a core scope.
THEOREM SpecImpliesBackfillsHaveNoCore == Spec => []BackfillsHaveNoCore
  <1>1. RefreshInv => BackfillsHaveNoCore
    BY RefreshInvImplies
  <1> QED BY <1>1, SpecImpliesRefreshInv, PTL

\* The body of PreemptOnlyBackfill.
PreemptsOnlyBackfill ==
    \A job \in refresh'.aborting \ refresh.aborting :
        refresh'.context_generation = refresh.context_generation =>
            /\ job.skip_core /\ job.target_view = NoView
            /\ refresh'.in_flight.target_view # NoView

\* A request in the current generation aborts at most an untargeted backfill.
LEMMA RequestPreemptsOnlyBackfill ==
    ASSUME RefreshInv, NEW ns \in AnyNamespace, NEW d \in RefreshDispatch,
           CoreFirst(d), namespace # All => ns = namespace \/ ns = All,
           Request(ns, d)
    PROVE  PreemptsOnlyBackfill
  <1> DEFINE sel == IF ns = All THEN All ELSE namespace
  <1>1. RuntimeInv(refresh, sel) /\ (sel # All => ns = sel)
    BY DEF RefreshInv, RuntimeInv
  <1> HIDE DEF sel
  <1>2. RequestedFrom(refresh, sel, d, refresh')
    BY <1>1, RequestRefreshFields DEF Request
  <1> QED BY <1>2 DEF RequestedFrom, PreemptsOnlyBackfill

\* A step of a handler that asks for a refresh in the current generation, and one
\* that opens a new generation with a request.
StaysAndAsks ==
    \E ns \in AnyNamespace, d \in RefreshDispatch :
        /\ CoreFirst(d)
        /\ namespace # All => ns = namespace \/ ns = All
        /\ Request(ns, d)
        /\ UNCHANGED refresh_rx

OpensGeneration ==
    \E ns \in AnyNamespace, d \in RefreshDispatch :
        /\ CoreFirst(d)
        /\ refresh' = RequestRefresh(NewGeneration(refresh), ns, d)
        /\ UNCHANGED refresh_rx

\* What a step may do to the runtime state.
LEMMA NextSteps ==
    ASSUME RefreshInv, [Next]_vars
    PROVE  \/ StaysAndAsks
           \/ OpensGeneration
           \/ SelectContext
           \/ \E job \in refresh.running \cup refresh.aborting, gone \in BOOLEAN :
                 TaskFinishes(job, gone)
           \/ \E job \in refresh.aborting : TaskAborted(job)
           \/ RefreshResult
           \/ UNCHANGED <<refresh, refresh_rx>>
  <1>1. namespace \in AnyNamespace /\ All \in AnyNamespace /\ view \in Views
    BY DEF RefreshInv, TypeOK, AnyNamespace
  <1> DEFINE Still == UNCHANGED <<refresh, refresh_rx>>
  <1>2. ASSUME NEW ns \in AnyNamespace, namespace # All => ns = namespace \/ ns = All,
               NEW d, d \in RefreshDispatch /\ CoreFirst(d),
               Request(ns, d), UNCHANGED refresh_rx
        PROVE  StaysAndAsks
    BY <1>2 DEF StaysAndAsks
  <1>3. ASSUME NEW v \in Views, NavigateTo(v) PROVE StaysAndAsks \/ Still
    BY <1>1, <1>2, <1>3, ViewDispatchType DEF NavigateTo
  <1>4. CASE RefreshData
    <2> DEFINE d == FullRefreshOptions(TRUE, TRUE)
    <2>1. d \in RefreshDispatch /\ CoreFirst(d) /\ Request(namespace, d)
            /\ UNCHANGED refresh_rx
      BY <1>4, FullRefreshOptionsType DEF RefreshData
    <2> HIDE DEF d
    <2> QED BY <1>1, <1>2, <2>1
  <1>5. ASSUME NEW flux \in BOOLEAN, AutoRefresh(flux) PROVE StaysAndAsks
    <2> DEFINE active == IF watching
                         THEN NormalizeWatchScope(WatchScopeForView(view))
                         ELSE NONE
               whole == RefreshOptionsForView(view, flux, FALSE)
               d == StripActiveWatchScope(whole, active)
    <2>1. Request(namespace, d) /\ UNCHANGED refresh_rx
      BY <1>5 DEF AutoRefresh
    <2>2. whole \in RefreshDispatch /\ CoreFirst(whole)
      BY <1>1, RefreshOptionsForViewType
    <2> HIDE DEF whole, active
    <2>3. d \in RefreshDispatch /\ CoreFirst(d)
      BY <2>2, StripActiveWatchScopeType
    <2> HIDE DEF d
    <2> QED BY <1>1, <1>2, <2>1, <2>3
  <1>6. ASSUME NEW origin \in Views, NEW flux \in BOOLEAN,
               MutationSucceeded(origin, flux)
        PROVE  StaysAndAsks
    <2> DEFINE include == flux \/ origin \in FluxViews
               d == MutationRefreshOptions(origin, include)
    <2>1. Request(namespace, d) /\ UNCHANGED refresh_rx
      BY <1>6 DEF MutationSucceeded
    <2>2. include \in BOOLEAN
      OBVIOUS
    <2> HIDE DEF include
    <2>3. d \in RefreshDispatch /\ CoreFirst(d)
      BY <2>2, MutationRefreshOptionsType
    <2> HIDE DEF d
    <2> QED BY <1>1, <1>2, <2>1, <2>3
  <1>7. ASSUME NEW trigger \in deferred, DeferredFires(trigger)
        PROVE  StaysAndAsks \/ Still
    <2>1. CASE trigger.context_generation # refresh.context_generation
      BY <1>7, <2>1 DEF DeferredFires
    <2>2. CASE trigger.context_generation = refresh.context_generation
      <3>1. Request(trigger.namespace, trigger.dispatch) /\ UNCHANGED refresh_rx
        BY <1>7, <2>2 DEF DeferredFires
      <3>2. trigger.dispatch \in RefreshDispatch /\ trigger.namespace \in AnyNamespace
        BY DEF RefreshInv, TypeOK, DeferredRefreshTrigger
      <3>3. CoreFirst(trigger.dispatch)
              /\ (namespace # All => trigger.namespace = namespace)
        BY <2>2 DEF RefreshInv, DeferredInv
      <3> QED BY <1>2, <3>1, <3>2, <3>3
    <2> QED BY <2>1, <2>2
  <1>8. CASE NamespaceGone
    <2>1. Request(All, ViewDispatch(view)) /\ UNCHANGED refresh_rx
      BY <1>8 DEF NamespaceGone, NamespaceFallback, Request
    <2> QED BY <1>1, <1>2, <2>1, ViewDispatchType
  <1>9. ASSUME NEW ns \in AnyNamespace, NEW v \in Views, SelectNamespace(ns, v)
        PROVE  OpensGeneration
    BY <1>9, ViewDispatchType DEF SelectNamespace, OpensGeneration
  <1>10. ASSUME NEW ns \in AnyNamespace, NEW v \in Views,
                ContextSwitchSucceeds(ns, v)
         PROVE  OpensGeneration
    <2> DEFINE d == RefreshOptionsForView(v, v \in FluxViews, TRUE)
    <2>1. refresh' = RequestRefresh(NewGeneration(refresh), ns, d)
            /\ UNCHANGED refresh_rx
      BY <1>10 DEF ContextSwitchSucceeds
    <2>2. (v \in FluxViews) \in BOOLEAN /\ TRUE \in BOOLEAN
      OBVIOUS
    <2>3. d \in RefreshDispatch /\ CoreFirst(d)
      BY <2>2, RefreshOptionsForViewType
    <2> HIDE DEF d
    <2> QED BY <2>1, <2>3 DEF OpensGeneration
  <1>11. CASE Users
    BY <1>3, <1>4, <1>6, <1>9, <1>11 DEF Users
  <1>12. CASE ContextSwitchFails \/ UNCHANGED vars
    BY <1>12 DEF ContextSwitchFails, vars
  <1> QED BY <1>5, <1>7, <1>8, <1>10, <1>11, <1>12 DEF Next

\* The only steps of a generation that abort a task are requests.
LEMMA NextPreemptsOnlyBackfill ==
    ASSUME RefreshInv, [Next]_vars
    PROVE  PreemptsOnlyBackfill
  <1>1. refresh \in RefreshRuntimeState /\ refresh.context_generation \in Nat
    BY DEF RefreshInv, TypeOK, RefreshRuntimeState
  <1>2. CASE UNCHANGED refresh
    BY <1>2 DEF PreemptsOnlyBackfill
  <1>3. CASE StaysAndAsks
    BY <1>3, RequestPreemptsOnlyBackfill DEF StaysAndAsks
  <1>4. CASE OpensGeneration
    <2>1. PICK ns \in AnyNamespace, d \in RefreshDispatch :
            CoreFirst(d) /\ refresh' = RequestRefresh(NewGeneration(refresh), ns, d)
      BY <1>4 DEF OpensGeneration
    <2> DEFINE r == NewGeneration(refresh)
    <2>2. NewGenerationOf(refresh, r)
      BY <1>1, NewGenerationFields
    <2> HIDE DEF r
    <2>3. RuntimeInv(r, ns)
      BY <2>2 DEF NewGenerationOf, RuntimeInv
    <2>4. RequestedFrom(r, ns, d, refresh')
      BY <2>1, <2>3, RequestRefreshFields DEF r
    <2>5. refresh'.context_generation = refresh.context_generation + 1
      BY <2>2, <2>4 DEF RequestedFrom, Continues, NewGenerationOf
    <2> QED BY <1>1, <2>5 DEF PreemptsOnlyBackfill
  <1>5. CASE SelectContext
    <2>1. refresh' = [refresh EXCEPT !.context_generation = @ + 1]
      BY <1>5 DEF SelectContext, InvalidateGeneration
    <2> QED BY <1>1, <2>1 DEF PreemptsOnlyBackfill, RefreshRuntimeState
  <1>6. ASSUME NEW job, NEW gone, TaskFinishes(job, gone)
        PROVE  PreemptsOnlyBackfill
    BY <1>1, <1>6 DEF TaskFinishes, PreemptsOnlyBackfill, RefreshRuntimeState
  <1>7. ASSUME NEW job, TaskAborted(job) PROVE PreemptsOnlyBackfill
    BY <1>1, <1>7 DEF TaskAborted, PreemptsOnlyBackfill, RefreshRuntimeState
  <1>8. CASE RefreshResult
    <2>1. ASSUME NEW c, ClearedFrom(refresh, namespace', c), refresh' = RunQueued(c)
          PROVE  PreemptsOnlyBackfill
      <3>1. RanQueuedFrom(c, namespace', refresh')
        BY <2>1, RunQueuedFields DEF ClearedFrom
      <3> QED BY <2>1, <3>1 DEF RanQueuedFrom, ClearedFrom, PreemptsOnlyBackfill
    <2> QED BY <1>2, <1>8, <2>1, RefreshResultCases
  <1> QED BY <1>2, <1>3, <1>4, <1>5, <1>6, <1>7, <1>8, NextSteps

\* Within a generation a running task is aborted only if it is an untargeted
\* backfill, and only for the view that the user is looking at.
THEOREM SpecImpliesPreemptOnlyBackfill == Spec => PreemptOnlyBackfill
  <1>1. RefreshInv /\ [Next]_vars => [PreemptsOnlyBackfill]_vars
    BY NextPreemptsOnlyBackfill
  <1>2. Spec => [][PreemptsOnlyBackfill]_vars
    BY <1>1, SpecImpliesRefreshInv, PTL DEF Spec
  <1> QED BY <1>2 DEF PreemptOnlyBackfill, PreemptsOnlyBackfill

-----------------------------------------------------------------------------
(* What the loop still waits for.                                          *)

\* Preempting queues the aborted backfill under the generation of what was queued
\* before, which is the current one whenever a current backfill is in flight.
BackfillQueueInv(r) ==
    (Current(r) /\ r.in_flight.skip_core /\ r.queued_refresh # NIL)
        => r.queued_refresh.context_generation = r.context_generation

\* Only a refresh of one namespace finds that its namespace is gone.
GoneResultsInv ==
    \A i \in DOMAIN refresh_rx :
        refresh_rx[i].namespace_gone => refresh_rx[i].job.namespace # All

WorkInv == BackfillQueueInv(refresh) /\ GoneResultsInv

\* The queue of s is the background part of the request that s has started.
QueuesOwnBackground(s) ==
    s.queued_refresh # NIL /\ s.queued_refresh.request_id = s.request_seq

\* A launched refresh is waited for.
LEMMA LaunchWaits ==
    ASSUME NEW r, NEW ns, NEW scope, NEW skip_core, NEW target, NEW s,
           LaunchedFrom(r, ns, scope, skip_core, target, s)
    PROVE  Current(s) /\ scope \subseteq Outstanding(s)
  BY NilAssumption DEF LaunchedFrom, Current, Outstanding

\* s has started a request of r, and waits for both of its parts.
StartedWaits(r, immediate, background, s) ==
    /\ immediate \cup background \subseteq Outstanding(s)
    /\ background = NONE => s.queued_refresh = r.queued_refresh
    /\ background # NONE => QueuesOwnBackground(s)
    /\ BackfillQueueInv(s)

LEMMA StartNowWaits ==
    ASSUME NEW r \in RefreshRuntimeState, NEW id \in Nat,
           NEW ns \in AnyNamespace, NEW immediate \in SUBSET Flags,
           NEW background \in SUBSET Flags, NEW target \in AnyView
    PROVE  StartedWaits(r, immediate, background,
                        StartNow(r, id, ns, immediate, background, target))
  <1> DEFINE started == Launch(r, id, ns, immediate, FALSE,
                               ScopedTargetView(immediate, target))
             backfill ==
               [request_id |-> r.request_seq + 1, namespace |-> ns,
                primary_scope |-> NONE, scope |-> background, skip_core |-> TRUE,
                target_view |-> ScopedTargetView(background, target),
                context_generation |-> r.context_generation]
             s == StartNow(r, id, ns, immediate, background, target)
  <1> SUFFICES /\ immediate \cup background \subseteq Outstanding(s)
               /\ background = NONE => s.queued_refresh = r.queued_refresh
               /\ background # NONE => QueuesOwnBackground(s)
               /\ BackfillQueueInv(s)
    BY DEF StartedWaits
  <1>1. LaunchedFrom(r, ns, immediate, FALSE, ScopedTargetView(immediate, target),
                     started)
    BY ScopedTargetViewType, LaunchFields
  <1>2. s = IF background = NONE THEN started
            ELSE [started EXCEPT !.request_seq = @ + 1, !.queued_refresh = backfill]
    BY DEF StartNow
  <1>3. /\ backfill.scope = background
        /\ backfill.request_id = r.request_seq + 1
        /\ backfill.context_generation = r.context_generation
        /\ backfill \in QueuedRefresh
    BY ScopedTargetViewType, FlagFacts DEF QueuedRefresh, RefreshRuntimeState
  <1> HIDE DEF started, backfill, s
  <1>4. /\ started \in RefreshRuntimeState
        /\ started.in_flight # NIL /\ started.in_flight.skip_core = FALSE
        /\ started.in_flight.generation = r.context_generation
        /\ started.in_flight.scope = immediate
        /\ started.queued_refresh = r.queued_refresh
        /\ started.request_seq = r.request_seq
        /\ started.context_generation = r.context_generation
    BY <1>1, NilAssumption DEF LaunchedFrom
  <1>5. CASE background = NONE
    BY <1>2, <1>4, <1>5 DEF Outstanding, Current, BackfillQueueInv, NONE
  <1>6. CASE background # NONE
    <2>1. /\ s.in_flight = started.in_flight
          /\ s.context_generation = started.context_generation
          /\ s.queued_refresh = backfill
          /\ s.request_seq = started.request_seq + 1
      BY <1>2, <1>4, <1>6 DEF RefreshRuntimeState
    <2>2. backfill # NIL
      BY <1>3, NilAssumption
    <2> QED BY <1>3, <1>4, <1>6, <2>1, <2>2
         DEF Outstanding, Current, BackfillQueueInv, QueuesOwnBackground
  <1> QED BY <1>5, <1>6

\* Merging a request keeps what was waited for and adds its scopes.
LEMMA MergeWaits ==
    ASSUME NEW r \in RefreshRuntimeState, NEW sel, NEW id, NEW ns, NEW d,
           MergedFrom(r, sel, MergeIntoQueue(r, id, ns, d))
    PROVE  LET s == MergeIntoQueue(r, id, ns, d)
           IN  /\ Outstanding(r) \cup d.scope \subseteq Outstanding(s)
               /\ BackfillQueueInv(s)
  <1> DEFINE old == r.queued_refresh
             s == MergeIntoQueue(r, id, ns, d)
             scope == d.scope \cup (IF old = NIL THEN NONE ELSE old.scope)
             primary == d.primary_scope
                          \cup (IF old = NIL THEN NONE ELSE old.primary_scope)
             queued == [request_id |-> id, namespace |-> ns,
                        primary_scope |-> primary, scope |-> scope,
                        skip_core |-> MergedSkipCore(old, primary),
                        target_view |->
                           MergedTargetView(
                               IF old = NIL THEN NoView
                               ELSE ScopedTargetView(scope, old.target_view),
                               ScopedTargetView(scope, d.target_view)),
                        context_generation |-> r.context_generation]
  <1>1. /\ s = [r EXCEPT !.queued_refresh = queued]
        /\ queued.scope = scope
        /\ queued.context_generation = r.context_generation
    BY DEF MergeIntoQueue
  <1>2. s.queued_refresh \in QueuedRefresh
    BY DEF MergedFrom
  <1> SUFFICES /\ Outstanding(r) \cup d.scope \subseteq Outstanding(s)
               /\ BackfillQueueInv(s)
    OBVIOUS
  <1> HIDE DEF s, queued
  <1>3. /\ s.in_flight = r.in_flight
        /\ s.queued_refresh = queued /\ queued # NIL
        /\ s.context_generation = r.context_generation
    BY <1>1, <1>2, NilAssumption DEF RefreshRuntimeState
  <1>4. BackfillQueueInv(s)
    BY <1>1, <1>3 DEF BackfillQueueInv
  <1> QED BY <1>1, <1>3, <1>4 DEF Outstanding, Current, NONE

\* Preempting keeps what was waited for in the queue.
LEMMA PreemptWaits ==
    ASSUME NEW r \in RefreshRuntimeState, NEW ns, NEW target,
           CanPreempt(r, target), BackfillQueueInv(r),
           AbortedFrom(r, ns, Preempt(r))
    PROVE  Outstanding(r) \subseteq Outstanding(Preempt(r))
  <1> DEFINE old == r.queued_refresh
             s == Preempt(r)
             a == AbortInFlight(r)
             backfill ==
               [request_id |-> r.request_seq + 1,
                namespace |-> r.in_flight.namespace, primary_scope |-> NONE,
                scope |-> r.in_flight.scope, skip_core |-> r.in_flight.skip_core,
                target_view |-> NoView,
                context_generation |-> r.context_generation]
             merged == [old EXCEPT
                          !.namespace = IF @ = All THEN backfill.namespace ELSE @,
                          !.scope = @ \cup backfill.scope,
                          !.skip_core = @ /\ backfill.skip_core,
                          !.target_view = NoView]
  <1>1. /\ s = [a EXCEPT !.queued_refresh = IF old = NIL THEN backfill ELSE merged]
        /\ backfill.scope = r.in_flight.scope
        /\ backfill.context_generation = r.context_generation
    BY DEF Preempt
  <1>2. /\ s.queued_refresh # NIL
        /\ s.context_generation = r.context_generation
    BY NilAssumption DEF AbortedFrom
  <1>3. a \in RefreshRuntimeState
    BY AbortInFlightFields
  <1> SUFFICES Outstanding(r) \subseteq Outstanding(s)
    OBVIOUS
  <1> HIDE DEF s, a, backfill
  <1>4. CASE old = NIL
    <2>1. s.queued_refresh = backfill
      BY <1>1, <1>3, <1>4 DEF RefreshRuntimeState
    <2> QED BY <1>1, <1>2, <1>4, <2>1 DEF Outstanding, NONE
  <1>5. CASE old # NIL
    <2>1. old \in QueuedRefresh
      BY <1>5 DEF RefreshRuntimeState
    <2>2. /\ merged.scope = old.scope \cup backfill.scope
          /\ merged.context_generation = old.context_generation
      BY <2>1 DEF QueuedRefresh
    <2> HIDE DEF merged
    <2>3. s.queued_refresh = merged
      BY <1>1, <1>3, <1>5 DEF RefreshRuntimeState
    <2>4. Current(r) => old.context_generation = r.context_generation
      BY <1>5 DEF BackfillQueueInv, CanPreempt
    <2> QED BY <1>1, <1>2, <1>5, <2>2, <2>3, <2>4 DEF Outstanding, NONE
  <1> QED BY <1>4, <1>5

\* s is r after a request for the scopes of d: all of them are waited for and, when
\* nothing was queued without a refresh in flight, so is what was before, unless the
\* request has preempted a backfill and queued its own background part.
WaitsFor(r, d, s) ==
    /\ d.scope \subseteq Outstanding(s)
    /\ BackfillQueueInv(s)
    /\ (r.queued_refresh # NIL => r.in_flight # NIL) =>
          \/ Outstanding(r) \subseteq Outstanding(s)
          \/ /\ r.in_flight.skip_core
             /\ s.in_flight.target_view # NoView
             /\ QueuesOwnBackground(s)

LEMMA RequestWaits ==
    ASSUME NEW r, NEW sel, RuntimeInv(r, sel), BackfillQueueInv(r),
           NEW ns \in AnyNamespace, sel # All => ns = sel,
           NEW d \in RefreshDispatch, CoreFirst(d)
    PROVE  WaitsFor(r, d, RequestRefresh(r, ns, d))
  <1> DEFINE primary    == d.primary_scope \cap d.scope
             immediate  == IF primary = NONE THEN d.scope ELSE primary
             background == d.scope \ immediate
             target     == ScopedTargetView(immediate, d.target_view)
             id         == r.request_seq + 1
             counted    == [r EXCEPT !.request_seq = id]
             preempts   == CanPreempt(r, target)
             ready      == IF preempts THEN Preempt(counted) ELSE counted
             s          == RequestRefresh(r, ns, d)
  <1> SUFFICES WaitsFor(r, d, s)
    OBVIOUS
  <1>1. s = IF d.scope = NONE THEN r
            ELSE IF ready.in_flight = NIL
            THEN StartNow(ready, id, ns, immediate, background, d.target_view)
            ELSE MergeIntoQueue(ready, id, ns, d)
    BY DEF RequestRefresh
  <1>2. CASE d.scope = NONE
    BY <1>1, <1>2 DEF WaitsFor, NONE
  <1>3. /\ d.target_view \in AnyView
        /\ immediate \in SUBSET Flags /\ background \in SUBSET Flags
        /\ immediate \cup background = d.scope
        /\ background \cap CORE_OVERVIEW = NONE
    BY DEF RefreshDispatch, CoreFirst, NONE
  <1>4. r \in RefreshRuntimeState /\ id \in Nat
    BY DEF RuntimeInv, RefreshRuntimeState
  <1>5. /\ counted \in RefreshRuntimeState
        /\ counted.in_flight = r.in_flight
        /\ counted.queued_refresh = r.queued_refresh
        /\ counted.context_generation = r.context_generation
    <2> HIDE DEF id
    <2> QED BY <1>4 DEF RefreshRuntimeState
  <1> HIDE DEF counted, id, immediate, background
  <1>6. /\ RuntimeInv(counted, sel)
        /\ BackfillQueueInv(counted)
        /\ Outstanding(counted) = Outstanding(r)
    BY <1>5 DEF RuntimeInv, BackfillQueueInv, Outstanding, Current
  <1>7. CASE d.scope # NONE /\ preempts
    <2>1. CanPreempt(counted, target) /\ ready = Preempt(counted)
      BY <1>5, <1>7 DEF CanPreempt
    <2> HIDE DEF target, ready
    <2>2. AbortedFrom(counted, sel, ready)
      BY <1>6, <2>1, PreemptFields
    <2>3. Outstanding(r) \subseteq Outstanding(ready)
      BY <1>5, <1>6, <2>1, <2>2, PreemptWaits
    <2>4. /\ RuntimeInv(ready, sel) /\ ready \in RefreshRuntimeState
          /\ ready.in_flight = NIL
          /\ ready.context_generation = r.context_generation
      BY <1>5, <2>2 DEF AbortedFrom, RuntimeInv
    <2>5. s = StartNow(ready, id, ns, immediate, background, d.target_view)
      BY <1>1, <1>7, <2>4
    <2> HIDE DEF s
    <2>6. /\ immediate \cup background \subseteq Outstanding(s)
          /\ background = NONE => s.queued_refresh = ready.queued_refresh
          /\ background # NONE => QueuesOwnBackground(s)
          /\ BackfillQueueInv(s)
      <3>1. StartedWaits(ready, immediate, background, s)
        BY <1>3, <1>4, <2>4, <2>5, StartNowWaits
      <3> QED BY <3>1 DEF StartedWaits
    <2>7. StartedFrom(ready, sel, immediate, d.target_view, s)
      BY <1>3, <1>4, <2>4, <2>5, StartNowFields
    <2>8. r.in_flight.skip_core /\ s.in_flight.target_view # NoView
      BY <1>7, <2>7 DEF CanPreempt, StartedFrom, target
    <2>9. CASE background = NONE
      <3>1. Outstanding(ready) \subseteq Outstanding(s)
        BY <2>4, <2>6, <2>7, <2>9 DEF Outstanding, Current, StartedFrom, NONE
      <3> QED BY <1>3, <2>3, <2>6, <3>1 DEF WaitsFor
    <2> QED BY <1>3, <2>6, <2>8, <2>9 DEF WaitsFor
  <1>8. CASE d.scope # NONE /\ ~preempts /\ r.in_flight = NIL
    <2>1. s = StartNow(counted, id, ns, immediate, background, d.target_view)
      BY <1>1, <1>5, <1>8
    <2>2. r.queued_refresh = NIL => Outstanding(r) = {}
      BY <1>8 DEF Outstanding, Current, NONE
    <2> HIDE DEF s
    <2>3. StartedWaits(counted, immediate, background, s)
      BY <1>3, <1>4, <1>5, <2>1, StartNowWaits
    <2> QED BY <1>3, <1>8, <2>2, <2>3 DEF WaitsFor, StartedWaits
  <1>9. CASE d.scope # NONE /\ ~preempts /\ r.in_flight # NIL
    <2>1. s = MergeIntoQueue(counted, id, ns, d)
      BY <1>1, <1>5, <1>9
    <2> HIDE DEF s
    <2>2. MergedFrom(counted, sel, s)
      BY <1>4, <1>6, <2>1, MergeIntoQueueFields
    <2> QED BY <1>5, <1>6, <2>1, <2>2, MergeWaits DEF WaitsFor
  <1> QED BY <1>2, <1>7, <1>8, <1>9

\* Taking the queued refresh waits for it.
LEMMA RunQueuedWaits ==
    ASSUME NEW r, NEW sel, RuntimeInv(r, sel)
    PROVE  LET s == RunQueued(r)
           IN  /\ BackfillQueueInv(r) => BackfillQueueInv(s)
               /\ r.in_flight = NIL => Outstanding(r) \subseteq Outstanding(s)
  <1> DEFINE q == r.queued_refresh
             popped == [r EXCEPT !.queued_refresh = NIL]
             d == Dispatch(q.primary_scope, q.scope, q.target_view)
             s == RunQueued(r)
  <1> SUFFICES /\ BackfillQueueInv(r) => BackfillQueueInv(s)
               /\ r.in_flight = NIL => Outstanding(r) \subseteq Outstanding(s)
    OBVIOUS
  <1>1. s = IF q = NIL THEN r
            ELSE IF q.context_generation # r.context_generation THEN popped
            ELSE IF RequiresTwoPhase(q) THEN RequestRefresh(popped, q.namespace, d)
            ELSE Launch(popped, q.request_id, q.namespace, q.scope, q.skip_core,
                        q.target_view)
    BY DEF RunQueued
  <1>2. r \in RefreshRuntimeState
    BY DEF RuntimeInv
  <1>3. /\ popped \in RefreshRuntimeState
        /\ popped.queued_refresh = NIL
        /\ popped.in_flight = r.in_flight
        /\ popped.context_generation = r.context_generation
    BY <1>2 DEF RefreshRuntimeState
  <1>4. CASE q = NIL
    BY <1>1, <1>4
  <1> HIDE DEF popped, s
  <1>5. RuntimeInv(popped, sel) /\ BackfillQueueInv(popped)
    BY <1>3 DEF RuntimeInv, BackfillQueueInv
  <1>6. CASE q # NIL /\ q.context_generation # r.context_generation
    BY <1>1, <1>3, <1>5, <1>6 DEF Outstanding, Current
  <1>7. ASSUME q # NIL
        PROVE  /\ q \in QueuedRefresh
               /\ sel # All => q.namespace = sel
               /\ CoreFirst(q)
               /\ q.request_id \in Nat /\ q.namespace \in AnyNamespace
               /\ q.primary_scope \in SUBSET Flags /\ q.scope \in SUBSET Flags
               /\ q.skip_core \in BOOLEAN /\ q.target_view \in AnyView
    <2>1. q \in QueuedRefresh
      BY <1>2, <1>7 DEF RefreshRuntimeState
    <2> QED BY <1>7, <2>1 DEF RuntimeInv, QueuedRefresh
  <1>8. r.in_flight = NIL => Outstanding(r) \subseteq q.scope
    BY DEF Outstanding, Current, NONE
  <1>9. CASE /\ q # NIL /\ q.context_generation = r.context_generation
             /\ RequiresTwoPhase(q)
    <2>1. s = RequestRefresh(popped, q.namespace, d)
      BY <1>1, <1>9
    <2>2. d \in RefreshDispatch /\ CoreFirst(d) /\ d.scope = q.scope
      BY <1>7, <1>9 DEF Dispatch, RefreshDispatch, CoreFirst
    <2> HIDE DEF d
    <2>3. WaitsFor(popped, d, s)
      BY <1>3, <1>5, <1>7, <1>9, <2>1, <2>2, RequestWaits
    <2> QED BY <1>8, <2>2, <2>3 DEF WaitsFor
  <1>10. CASE /\ q # NIL /\ q.context_generation = r.context_generation
              /\ ~RequiresTwoPhase(q)
    <2>1. s = Launch(popped, q.request_id, q.namespace, q.scope, q.skip_core,
                     q.target_view)
      BY <1>1, <1>10
    <2>2. LaunchedFrom(popped, q.namespace, q.scope, q.skip_core, q.target_view, s)
      BY <1>3, <1>7, <1>10, <2>1, LaunchFields
    <2>3. q.scope \subseteq Outstanding(s)
      BY <2>2, LaunchWaits
    <2>4. BackfillQueueInv(s)
      BY <1>3, <2>2 DEF LaunchedFrom, BackfillQueueInv
    <2> QED BY <1>8, <2>3, <2>4
  <1> QED BY <1>4, <1>6, <1>9, <1>10

\* The body of NothingIsForgotten.
ForgetsNothing ==
    refresh'.context_generation = refresh.context_generation =>
        LET lost == Outstanding(refresh) \ Outstanding(refresh')
        IN  \/ lost = NONE
            \/ /\ Receive /\ Accepts(refresh, Head(refresh_rx).job)
               /\ lost \subseteq refresh.in_flight.scope \/ namespace' # namespace
            \/ /\ refresh.in_flight.skip_core
               /\ refresh'.in_flight.target_view # NoView
               /\ refresh'.queued_refresh # NIL
               /\ refresh'.queued_refresh.request_id = refresh'.request_seq

\* A result takes away what it answers, and the fallback what was queued.
LEMMA RefreshResultWaits ==
    ASSUME RefreshInv, WorkInv, RefreshResult
    PROVE  BackfillQueueInv(refresh') /\ ForgetsNothing
  <1> DEFINE answered == [refresh EXCEPT !.in_flight = NIL]
             job == Head(refresh_rx).job
             left == Head(refresh_rx).namespace_gone /\ job.namespace = namespace
  <1>1. ClearedFrom(refresh, namespace, answered) /\ answered.in_flight = NIL
    BY ClearedFields DEF RefreshInv, TypeOK, RefreshRuntimeState
  <1>2. /\ BackfillQueueInv(answered)
        /\ Outstanding(refresh)
              \subseteq Outstanding(answered) \cup refresh.in_flight.scope
    BY DEF RefreshInv, TypeOK, RefreshRuntimeState, BackfillQueueInv, Current,
           Outstanding, NONE
  <1>3. Receive
    BY DEF RefreshResult
  <1> HIDE DEF answered
  <1>4. CASE ~Accepts(refresh, job)
    BY <1>4 DEF RefreshResult, WorkInv, ForgetsNothing, NONE
  <1>5. CASE Accepts(refresh, job) /\ left
    <2> DEFINE c == NamespaceFallback(answered)
    <2>1. namespace' = All /\ refresh' = RunQueued(c)
      BY <1>5 DEF RefreshResult, answered
    <2>2. namespace # All
      <3>1. 1 \in DOMAIN refresh_rx /\ Head(refresh_rx) = refresh_rx[1]
        BY <1>3 DEF Receive, RefreshInv, TypeOK
      <3> QED BY <1>5, <3>1 DEF WorkInv, GoneResultsInv
    <2>3. view \in Views /\ All \in AnyNamespace
      BY DEF RefreshInv, TypeOK, AnyNamespace
    <2>4. RuntimeInv(answered, All)
      BY <1>1 DEF ClearedFrom, RuntimeInv
    <2>5. c = RequestRefresh(answered, All, ViewDispatch(view))
      BY DEF NamespaceFallback
    <2>6. ViewDispatch(view) \in RefreshDispatch /\ CoreFirst(ViewDispatch(view))
      BY <2>3, ViewDispatchType
    <2>7. WaitsFor(answered, ViewDispatch(view), c)
      BY <1>2, <2>3, <2>4, <2>5, <2>6, RequestWaits
    <2>8. RuntimeInv(c, All)
      BY <2>3, <2>4, <2>5, <2>6, RequestRefreshFields DEF RequestedFrom
    <2> HIDE DEF c
    <2>9. BackfillQueueInv(refresh')
      BY <2>1, <2>7, <2>8, RunQueuedWaits DEF WaitsFor
    <2> QED BY <1>3, <1>5, <2>1, <2>2, <2>9 DEF ForgetsNothing
  <1>6. CASE Accepts(refresh, job) /\ ~left
    <2>1. refresh' = RunQueued(answered)
      BY <1>6 DEF RefreshResult, answered
    <2>2. RuntimeInv(answered, namespace)
      BY <1>1 DEF ClearedFrom
    <2>3. /\ BackfillQueueInv(refresh')
          /\ Outstanding(answered) \subseteq Outstanding(refresh')
      BY <1>1, <1>2, <2>1, <2>2, RunQueuedWaits
    <2>4. Outstanding(refresh) \ Outstanding(refresh')
             \subseteq refresh.in_flight.scope
      BY <1>2, <2>3
    <2> QED BY <1>3, <1>6, <2>3, <2>4 DEF ForgetsNothing
  <1> QED BY <1>4, <1>5, <1>6

LEMMA NextKeepsWork ==
    ASSUME RefreshInv, WorkInv, [Next]_vars
    PROVE  WorkInv' /\ ForgetsNothing
  <1>1. /\ namespace \in AnyNamespace /\ All \in AnyNamespace
        /\ refresh \in RefreshRuntimeState /\ refresh.context_generation \in Nat
        /\ refresh_rx \in Seq(RefreshAsyncResult)
    BY DEF RefreshInv, TypeOK, RefreshRuntimeState, AnyNamespace
  <1>2. ASSUME UNCHANGED refresh_rx, BackfillQueueInv(refresh') PROVE WorkInv'
    BY <1>2 DEF WorkInv, GoneResultsInv
  <1>3. CASE UNCHANGED <<refresh, refresh_rx>>
    BY <1>2, <1>3 DEF WorkInv, ForgetsNothing, NONE
  <1>4. CASE StaysAndAsks
    <2>1. PICK ns \in AnyNamespace, d \in RefreshDispatch :
            /\ CoreFirst(d)
            /\ namespace # All => ns = namespace \/ ns = All
            /\ Request(ns, d)
            /\ UNCHANGED refresh_rx
      BY <1>4 DEF StaysAndAsks
    <2> DEFINE sel == IF ns = All THEN All ELSE namespace
    <2>2. RuntimeInv(refresh, sel) /\ (sel # All => ns = sel)
      BY <2>1 DEF RefreshInv, RuntimeInv
    <2> HIDE DEF sel
    <2>3. WaitsFor(refresh, d, refresh')
      BY <2>1, <2>2, RequestWaits DEF Request, WorkInv
    <2>4. refresh.queued_refresh # NIL => refresh.in_flight # NIL
      BY DEF RefreshInv, QueuedBehindInFlight
    <2> QED BY <1>2, <2>1, <2>3, <2>4
         DEF WaitsFor, ForgetsNothing, QueuesOwnBackground, NONE
  <1>5. CASE OpensGeneration
    <2>1. PICK ns \in AnyNamespace, d \in RefreshDispatch :
            /\ CoreFirst(d)
            /\ refresh' = RequestRefresh(NewGeneration(refresh), ns, d)
            /\ UNCHANGED refresh_rx
      BY <1>5 DEF OpensGeneration
    <2> DEFINE r == NewGeneration(refresh)
    <2>2. NewGenerationOf(refresh, r)
      BY <1>1, NewGenerationFields
    <2> HIDE DEF r
    <2>3. RuntimeInv(r, ns) /\ BackfillQueueInv(r)
      BY <2>2 DEF NewGenerationOf, RuntimeInv, BackfillQueueInv
    <2>4. RequestedFrom(r, ns, d, refresh') /\ WaitsFor(r, d, refresh')
      BY <2>1, <2>3, RequestRefreshFields, RequestWaits DEF r
    <2>5. refresh'.context_generation = refresh.context_generation + 1
      BY <2>2, <2>4 DEF RequestedFrom, Continues, NewGenerationOf
    <2> QED BY <1>1, <1>2, <2>1, <2>4, <2>5 DEF WaitsFor, ForgetsNothing
  <1>6. CASE SelectContext
    <2>1. /\ refresh' = [refresh EXCEPT !.context_generation = @ + 1]
          /\ UNCHANGED refresh_rx
      BY <1>6 DEF SelectContext, InvalidateGeneration
    <2>2. /\ refresh'.in_flight = refresh.in_flight
          /\ refresh'.context_generation = refresh.context_generation + 1
      BY <1>1, <2>1 DEF RefreshRuntimeState
    <2>3. ~Current(refresh')
      <3> SUFFICES ASSUME refresh.in_flight # NIL
                   PROVE  refresh.in_flight.generation
                             # refresh.context_generation + 1
        BY <2>2 DEF Current
      <3>1. refresh.in_flight.generation <= refresh.context_generation
              /\ refresh.in_flight.generation \in Nat
        BY <1>1 DEF RefreshInv, RuntimeInv, RefreshRuntimeState, Job
      <3> QED BY <1>1, <3>1
    <2> QED BY <1>1, <1>2, <2>1, <2>2, <2>3 DEF BackfillQueueInv, ForgetsNothing
  <1>7. ASSUME NEW j \in refresh.running \cup refresh.aborting, NEW gone \in BOOLEAN,
               TaskFinishes(j, gone)
        PROVE  WorkInv' /\ ForgetsNothing
    <2>1. /\ refresh'.in_flight = refresh.in_flight
          /\ refresh'.queued_refresh = refresh.queued_refresh
          /\ refresh'.context_generation = refresh.context_generation
      BY <1>1, <1>7 DEF TaskFinishes, RefreshRuntimeState
    <2>2. ForgetsNothing /\ BackfillQueueInv(refresh')
      BY <2>1 DEF ForgetsNothing, BackfillQueueInv, WorkInv, Outstanding, Current,
                  NONE
    <2> DEFINE result == [job |-> j, namespace_gone |-> gone]
    <2>3. /\ refresh_rx' = Append(refresh_rx, result)
          /\ result.namespace_gone => result.job.namespace # All
      BY <1>7 DEF TaskFinishes, Send
    <2> HIDE DEF result
    <2>4. \A i \in DOMAIN refresh_rx' :
             refresh_rx'[i] = result
                \/ (i \in DOMAIN refresh_rx /\ refresh_rx'[i] = refresh_rx[i])
      BY <1>1, <2>3
    <2> QED BY <2>2, <2>3, <2>4 DEF WorkInv, GoneResultsInv
  <1>8. ASSUME NEW j \in refresh.aborting, TaskAborted(j)
        PROVE  WorkInv' /\ ForgetsNothing
    <2>1. /\ refresh'.in_flight = refresh.in_flight
          /\ refresh'.queued_refresh = refresh.queued_refresh
          /\ refresh'.context_generation = refresh.context_generation
          /\ UNCHANGED refresh_rx
      BY <1>1, <1>8 DEF TaskAborted, RefreshRuntimeState
    <2> QED BY <1>2, <2>1
         DEF ForgetsNothing, BackfillQueueInv, WorkInv, Outstanding, Current, NONE
  <1>9. CASE RefreshResult
    <2>1. refresh_rx # <<>> /\ refresh_rx' = Tail(refresh_rx)
      BY <1>9 DEF RefreshResult, Receive
    <2>2. \A i \in DOMAIN refresh_rx' :
             i + 1 \in DOMAIN refresh_rx /\ refresh_rx'[i] = refresh_rx[i + 1]
      BY <1>1, <2>1
    <2>3. GoneResultsInv'
      BY <2>2 DEF WorkInv, GoneResultsInv
    <2> QED BY <1>9, <2>3, RefreshResultWaits DEF WorkInv
  <1> QED BY <1>3, <1>4, <1>5, <1>6, <1>7, <1>8, <1>9, NextSteps

LEMMA InitWorkInv == Init => WorkInv
  <1> SUFFICES ASSUME Init PROVE WorkInv
    OBVIOUS
  <1> DEFINE d == RefreshOptionsForView(view, view \in FluxViews, TRUE)
  <1>1. /\ refresh = RequestRefresh(IdleRefresh, namespace, d)
        /\ refresh_rx = <<>> /\ namespace \in AnyNamespace /\ view \in Views
    BY DEF Init
  <1>2. (view \in FluxViews) \in BOOLEAN /\ TRUE \in BOOLEAN
    OBVIOUS
  <1>3. d \in RefreshDispatch /\ CoreFirst(d)
    BY <1>1, <1>2, RefreshOptionsForViewType
  <1> HIDE DEF d
  <1>4. RuntimeInv(IdleRefresh, namespace) /\ BackfillQueueInv(IdleRefresh)
    BY IdleRefreshInv DEF BackfillQueueInv, Current, IdleRefresh
  <1>5. BackfillQueueInv(refresh)
    BY <1>1, <1>3, <1>4, RequestWaits DEF WaitsFor
  <1> QED BY <1>1, <1>5 DEF WorkInv, GoneResultsInv

\* No request is lost: within a generation a flag that is waited for ceases to be so
\* only with an answer, or in one of the two cases that NothingIsForgotten names.
THEOREM SpecImpliesNothingIsForgotten == Spec => NothingIsForgotten
  <1>1. RefreshInv /\ WorkInv /\ [Next]_vars => WorkInv' /\ [ForgetsNothing]_vars
    BY NextKeepsWork
  <1>2. Spec => [][ForgetsNothing]_vars
    BY <1>1, InitWorkInv, SpecImpliesRefreshInv, PTL DEF Spec
  <1> QED BY <1>2 DEF NothingIsForgotten, ForgetsNothing

\* Every flag that a handler asks for is waited for when the handler returns: it is
\* in flight or queued in the current generation, whether the request was started,
\* merged into the queued one or started in place of a backfill.
RequestsAreTaken ==
    [][ \A ns \in AnyNamespace, d \in RefreshDispatch :
            CoreFirst(d) /\ Request(ns, d) => d.scope \subseteq Outstanding(refresh') ]_vars

\* No request is refused, whatever is in flight or queued.
THEOREM SpecImpliesRequestsAreTaken == Spec => RequestsAreTaken
  <1> DEFINE Taken ==
        \A ns \in AnyNamespace, d \in RefreshDispatch :
            CoreFirst(d) /\ Request(ns, d) => d.scope \subseteq Outstanding(refresh')
  <1>1. ASSUME RefreshInv, WorkInv PROVE Taken
    <2> SUFFICES ASSUME NEW ns \in AnyNamespace, NEW d \in RefreshDispatch,
                        CoreFirst(d), Request(ns, d)
                 PROVE  d.scope \subseteq Outstanding(refresh')
      OBVIOUS
    <2>1. RuntimeInv(refresh, All)
      BY <1>1 DEF RefreshInv, RuntimeInv
    <2> QED BY <1>1, <2>1, RequestWaits DEF Request, WorkInv, WaitsFor
  <1>2. RefreshInv /\ WorkInv /\ [Next]_vars => WorkInv' /\ [Taken]_vars
    BY <1>1, NextKeepsWork
  <1> HIDE DEF Taken
  <1>3. Spec => [][Taken]_vars
    BY <1>2, InitWorkInv, SpecImpliesRefreshInv, PTL DEF Spec
  <1> QED BY <1>3 DEF RequestsAreTaken, Taken

-----------------------------------------------------------------------------
(* The tasks that a step spawns.                                           *)

\* The tasks that have not sent their result.
Tasks(r) == r.running \cup r.aborting

\* Every task of s that r does not have was spawned for the generation of s
\* and, while one namespace is selected, for that namespace.
SpawnsFrom(r, sel, s) ==
    \A job \in Tasks(s) \ Tasks(r) :
        /\ job.generation = s.context_generation
        /\ sel # All => job.namespace = sel

\* Launching adds one task.
LEMMA LaunchSpawns ==
    ASSUME NEW r \in RefreshRuntimeState, NEW id, NEW ns, NEW sel,
           sel # All => ns = sel, NEW scope, NEW skip_core, NEW target
    PROVE  LET s == Launch(r, id, ns, scope, skip_core, target)
           IN  /\ SpawnsFrom(r, sel, s)
               /\ s.context_generation = r.context_generation
               /\ "running" \in DOMAIN s /\ "aborting" \in DOMAIN s
               /\ "context_generation" \in DOMAIN s
  <1> DEFINE job == [task |-> r.spawned + 1, id |-> id,
                     generation |-> r.context_generation, namespace |-> ns,
                     scope |-> scope, skip_core |-> skip_core,
                     target_view |-> target]
             s == Launch(r, id, ns, scope, skip_core, target)
  <1>1. job.generation = r.context_generation /\ job.namespace = ns
    OBVIOUS
  <1>2. s = [r EXCEPT !.in_flight = job, !.spawned = job.task,
                      !.running = @ \cup {job}]
    BY DEF Launch
  <1> SUFFICES /\ SpawnsFrom(r, sel, s)
               /\ s.context_generation = r.context_generation
               /\ "running" \in DOMAIN s /\ "aborting" \in DOMAIN s
               /\ "context_generation" \in DOMAIN s
    OBVIOUS
  <1> HIDE DEF job, s
  <1>3. /\ s.running = r.running \cup {job} /\ s.aborting = r.aborting
        /\ s.context_generation = r.context_generation
        /\ "running" \in DOMAIN s /\ "aborting" \in DOMAIN s
        /\ "context_generation" \in DOMAIN s
    BY <1>2 DEF RefreshRuntimeState
  <1> QED BY <1>1, <1>3 DEF SpawnsFrom, Tasks

\* Aborting and preempting only move tasks.
LEMMA AbortSpawns ==
    ASSUME NEW r \in RefreshRuntimeState
    PROVE  /\ Tasks(AbortInFlight(r)) \subseteq Tasks(r)
           /\ Tasks(Preempt(r)) \subseteq Tasks(r)
  <1> DEFINE a == AbortInFlight(r)
  <1>1. /\ a \in RefreshRuntimeState
        /\ a.running = r.running \ {r.in_flight}
        /\ a.aborting = r.aborting \cup ({r.in_flight} \cap r.running)
    BY AbortInFlightFields DEF AbortInFlight, RefreshRuntimeState
  <1>2. PICK queued : Preempt(r) = [a EXCEPT !.queued_refresh = queued]
    BY DEF Preempt
  <1> HIDE DEF a
  <1>3. Preempt(r).running = a.running /\ Preempt(r).aborting = a.aborting
    BY <1>1, <1>2 DEF RefreshRuntimeState
  <1> QED BY <1>1, <1>3 DEF Tasks, a

LEMMA StartNowSpawns ==
    ASSUME NEW r \in RefreshRuntimeState, NEW id, NEW ns, NEW sel,
           sel # All => ns = sel, NEW immediate, NEW background, NEW target
    PROVE  LET s == StartNow(r, id, ns, immediate, background, target)
           IN  /\ SpawnsFrom(r, sel, s)
               /\ s.context_generation = r.context_generation
  <1> DEFINE started == Launch(r, id, ns, immediate, FALSE,
                               ScopedTargetView(immediate, target))
             s == StartNow(r, id, ns, immediate, background, target)
  <1>1. /\ SpawnsFrom(r, sel, started)
        /\ started.context_generation = r.context_generation
        /\ "running" \in DOMAIN started /\ "aborting" \in DOMAIN started
        /\ "context_generation" \in DOMAIN started
    BY LaunchSpawns
  <1>2. \/ s = started
        \/ \E queued : s = [started EXCEPT !.request_seq = @ + 1,
                                           !.queued_refresh = queued]
    BY DEF StartNow
  <1> SUFFICES /\ SpawnsFrom(r, sel, s)
               /\ s.context_generation = r.context_generation
    OBVIOUS
  <1> HIDE DEF started, s
  <1>3. /\ s.running = started.running /\ s.aborting = started.aborting
        /\ s.context_generation = started.context_generation
    BY <1>1, <1>2
  <1> QED BY <1>1, <1>3 DEF SpawnsFrom, Tasks

\* So does a request, and taking the queued one.
LEMMA RequestSpawns ==
    ASSUME NEW r, NEW sel, RuntimeInv(r, sel), NEW ns \in AnyNamespace,
           sel # All => ns = sel, NEW d \in RefreshDispatch, CoreFirst(d)
    PROVE  SpawnsFrom(r, sel, RequestRefresh(r, ns, d))
  <1> DEFINE primary    == d.primary_scope \cap d.scope
             immediate  == IF primary = NONE THEN d.scope ELSE primary
             background == d.scope \ immediate
             id         == r.request_seq + 1
             counted    == [r EXCEPT !.request_seq = id]
             preempts   == CanPreempt(counted, ScopedTargetView(immediate, d.target_view))
             ready      == IF preempts THEN Preempt(counted) ELSE counted
             s          == RequestRefresh(r, ns, d)
  <1>1. /\ counted \in RefreshRuntimeState
        /\ counted.in_flight = r.in_flight
        /\ counted.queued_refresh = r.queued_refresh
        /\ Tasks(counted) = Tasks(r)
        /\ counted.context_generation = r.context_generation
    BY DEF RuntimeInv, RefreshRuntimeState, Tasks
  <1>2. RuntimeInv(counted, sel)
    BY <1>1 DEF RuntimeInv
  <1>3. CanPreempt(r, ScopedTargetView(immediate, d.target_view)) <=> preempts
    BY <1>1 DEF CanPreempt
  <1>4. s = IF d.scope = NONE THEN r
            ELSE IF ready.in_flight = NIL
            THEN StartNow(ready, id, ns, immediate, background, d.target_view)
            ELSE MergeIntoQueue(ready, id, ns, d)
    BY <1>3 DEF RequestRefresh
  <1>5. preempts => AbortedFrom(counted, sel, Preempt(counted))
    BY <1>2, PreemptFields
  <1> HIDE DEF counted
  <1>6. /\ ready \in RefreshRuntimeState
        /\ Tasks(ready) \subseteq Tasks(r)
        /\ ready.context_generation = r.context_generation
    BY <1>1, <1>5, AbortSpawns DEF AbortedFrom, RuntimeInv
  <1> SUFFICES SpawnsFrom(r, sel, s)
    OBVIOUS
  <1> HIDE DEF ready, id, immediate, background
  <1>7. CASE d.scope = NONE
    BY <1>4, <1>7 DEF SpawnsFrom
  <1>8. CASE d.scope # NONE /\ ready.in_flight = NIL
    <2>1. s = StartNow(ready, id, ns, immediate, background, d.target_view)
      BY <1>4, <1>8
    <2>2. SpawnsFrom(ready, sel, s)
      BY <1>6, <2>1, StartNowSpawns
    <2> QED BY <1>6, <2>2 DEF SpawnsFrom
  <1>9. CASE d.scope # NONE /\ ready.in_flight # NIL
    <2>1. s = MergeIntoQueue(ready, id, ns, d)
      BY <1>4, <1>9
    <2>2. PICK queued : s = [ready EXCEPT !.queued_refresh = queued]
      BY <2>1 DEF MergeIntoQueue
    <2>3. Tasks(s) = Tasks(ready)
      BY <1>6, <2>2 DEF RefreshRuntimeState, Tasks
    <2> QED BY <1>6, <2>3 DEF SpawnsFrom
  <1> QED BY <1>7, <1>8, <1>9

LEMMA RunQueuedSpawns ==
    ASSUME NEW r, NEW sel, RuntimeInv(r, sel)
    PROVE  SpawnsFrom(r, sel, RunQueued(r))
  <1> DEFINE q == r.queued_refresh
             popped == [r EXCEPT !.queued_refresh = NIL]
             d == Dispatch(q.primary_scope, q.scope, q.target_view)
             s == RunQueued(r)
  <1>1. /\ popped \in RefreshRuntimeState
        /\ popped.in_flight = r.in_flight
        /\ popped.queued_refresh = NIL
        /\ Tasks(popped) = Tasks(r)
        /\ popped.context_generation = r.context_generation
    BY DEF RuntimeInv, RefreshRuntimeState, Tasks
  <1>2. RuntimeInv(popped, sel)
    BY <1>1 DEF RuntimeInv
  <1>3. s = IF q = NIL THEN r
            ELSE IF q.context_generation # r.context_generation THEN popped
            ELSE IF RequiresTwoPhase(q) THEN RequestRefresh(popped, q.namespace, d)
            ELSE Launch(popped, q.request_id, q.namespace, q.scope, q.skip_core,
                        q.target_view)
    BY DEF RunQueued
  <1> SUFFICES SpawnsFrom(r, sel, s)
    OBVIOUS
  <1> HIDE DEF popped, s
  <1>4. CASE q = NIL \/ q.context_generation # r.context_generation
    BY <1>1, <1>3, <1>4 DEF SpawnsFrom
  <1>5. CASE q # NIL /\ q.context_generation = r.context_generation
    <2>1. /\ q \in QueuedRefresh /\ CoreFirst(q)
          /\ sel # All => q.namespace = sel
      BY <1>5 DEF RuntimeInv, RefreshRuntimeState
    <2>2. d \in RefreshDispatch /\ CoreFirst(d) /\ q.namespace \in AnyNamespace
      BY <2>1 DEF QueuedRefresh, RefreshDispatch, Dispatch, CoreFirst
    <2> HIDE DEF q, d
    <2>3. CASE RequiresTwoPhase(q)
      <3>1. s = RequestRefresh(popped, q.namespace, d)
        BY <1>3, <1>5, <2>3
      <3>2. SpawnsFrom(popped, sel, s)
        BY <1>2, <2>1, <2>2, <3>1, RequestSpawns
      <3> QED BY <1>1, <3>2 DEF SpawnsFrom
    <2>4. CASE ~RequiresTwoPhase(q)
      <3>1. s = Launch(popped, q.request_id, q.namespace, q.scope, q.skip_core,
                       q.target_view)
        BY <1>3, <1>5, <2>4
      <3>2. SpawnsFrom(popped, sel, s)
        BY <1>1, <2>1, <3>1, LaunchSpawns
      <3> QED BY <1>1, <3>2 DEF SpawnsFrom
    <2> QED BY <2>3, <2>4
  <1> QED BY <1>4, <1>5

LEMMA NewGenerationSpawns ==
    ASSUME NEW r \in RefreshRuntimeState
    PROVE  Tasks(NewGeneration(r)) \subseteq Tasks(r)
  <1> DEFINE i == InvalidateGeneration(r)
             a == AbortInFlight(i)
  <1>1. i \in RefreshRuntimeState /\ Tasks(i) = Tasks(r)
    <2>1. r.context_generation + 1 \in Nat
      BY DEF RefreshRuntimeState
    <2> QED BY <2>1 DEF InvalidateGeneration, RefreshRuntimeState, Tasks
  <1>2. NewGeneration(r) = [a EXCEPT !.queued_refresh = NIL]
    BY DEF NewGeneration
  <1> HIDE DEF i
  <1>3. a \in RefreshRuntimeState /\ Tasks(a) \subseteq Tasks(r)
    BY <1>1, AbortInFlightFields, AbortSpawns
  <1> HIDE DEF a
  <1> QED BY <1>2, <1>3 DEF RefreshRuntimeState, Tasks

\* A step stays in the generation, with the namespace or all of them, or starts
\* the next one; what it spawns is for what it leaves selected.
Stays ==
    /\ SpawnsFrom(refresh, namespace', refresh')
    /\ refresh'.context_generation = refresh.context_generation
    /\ namespace' \in {namespace, All}

Moves ==
    \/ Stays
    \/ /\ SpawnsFrom(refresh, namespace', refresh')
       /\ refresh'.context_generation = refresh.context_generation + 1

\* The steps that neither select a namespace or a context nor connect to one.
Within ==
    \/ \E v \in Views : NavigateTo(v)
    \/ RefreshData
    \/ \E flux \in BOOLEAN : AutoRefresh(flux)
    \/ \E origin \in Views, flux \in BOOLEAN : MutationSucceeded(origin, flux)
    \/ \E trigger \in deferred : DeferredFires(trigger)
    \/ NamespaceGone
    \/ \E job \in refresh.running \cup refresh.aborting, gone \in BOOLEAN :
          TaskFinishes(job, gone)
    \/ \E job \in refresh.aborting : TaskAborted(job)
    \/ RefreshResult
    \/ ContextSwitchFails
    \/ UNCHANGED vars

LEMMA RequestMoves ==
    ASSUME RefreshInv, NEW ns \in AnyNamespace, NEW d \in RefreshDispatch,
           CoreFirst(d), namespace' \in {namespace, All},
           namespace' # All => ns = namespace', Request(ns, d)
    PROVE  Stays
  <1>1. RuntimeInv(refresh, namespace')
    BY DEF RefreshInv, RuntimeInv
  <1>2. SpawnsFrom(refresh, namespace', refresh')
    BY <1>1, RequestSpawns DEF Request
  <1>3. RequestedFrom(refresh, namespace', d, refresh')
    BY <1>1, RequestRefreshFields DEF Request
  <1> QED BY <1>2, <1>3 DEF Stays, RequestedFrom, Continues

LEMMA NewGenerationMoves ==
    ASSUME RefreshInv, namespace' \in AnyNamespace, NEW d \in RefreshDispatch,
           CoreFirst(d),
           refresh' = RequestRefresh(NewGeneration(refresh), namespace', d)
    PROVE  Moves /\ refresh'.context_generation = refresh.context_generation + 1
  <1> DEFINE r == NewGeneration(refresh)
  <1>1. refresh \in RefreshRuntimeState
    BY DEF RefreshInv, TypeOK
  <1>2. NewGenerationOf(refresh, r) /\ Tasks(r) \subseteq Tasks(refresh)
    BY <1>1, NewGenerationFields, NewGenerationSpawns
  <1> HIDE DEF r
  <1>3. RuntimeInv(r, namespace')
    BY <1>2 DEF NewGenerationOf, RuntimeInv
  <1>4. RequestedFrom(r, namespace', d, refresh')
    BY <1>3, RequestRefreshFields DEF r
  <1>5. SpawnsFrom(r, namespace', refresh')
    BY <1>3, RequestSpawns DEF r
  <1>6. refresh'.context_generation = refresh.context_generation + 1
    BY <1>2, <1>4 DEF RequestedFrom, Continues, NewGenerationOf
  <1> QED BY <1>2, <1>5, <1>6 DEF Moves, SpawnsFrom

\* A step that spawns nothing.
LEMMA TasksOnlyMoves ==
    ASSUME Tasks(refresh') \subseteq Tasks(refresh),
           refresh'.context_generation = refresh.context_generation,
           UNCHANGED namespace
    PROVE  Stays
  BY DEF Stays, SpawnsFrom

\* The result handler spawns what the fallback and the queued refresh ask for.
LEMMA RefreshResultMoves ==
    ASSUME RefreshInv, RefreshResult
    PROVE  Stays
  <1> DEFINE emptied == [refresh EXCEPT !.in_flight = NIL]
             job == Head(refresh_rx).job
             left == Head(refresh_rx).namespace_gone /\ job.namespace = namespace
  <1>1. /\ ClearedFrom(refresh, namespace, emptied) /\ emptied.in_flight = NIL
        /\ Tasks(emptied) = Tasks(refresh)
    BY ClearedFields DEF RefreshInv, TypeOK, RefreshRuntimeState, Tasks
  <1>2. view \in Views /\ All \in AnyNamespace
    BY DEF RefreshInv, TypeOK, AnyNamespace
  <1> HIDE DEF emptied
  <1>3. CASE ~Accepts(refresh, job)
    BY <1>3, TasksOnlyMoves DEF RefreshResult
  <1>4. ASSUME NEW c, ClearedFrom(refresh, namespace', c), refresh' = RunQueued(c),
               namespace' \in {namespace, All}, SpawnsFrom(refresh, namespace', c)
        PROVE  Stays
    <2>1. RuntimeInv(c, namespace')
            /\ c.context_generation = refresh.context_generation
      BY <1>4 DEF ClearedFrom, Continues
    <2>2. RanQueuedFrom(c, namespace', refresh')
      BY <1>4, <2>1, RunQueuedFields
    <2>3. SpawnsFrom(c, namespace', refresh')
      BY <1>4, <2>1, RunQueuedSpawns
    <2>4. refresh'.context_generation = refresh.context_generation
      BY <2>1, <2>2 DEF RanQueuedFrom, Continues
    <2> QED BY <1>4, <2>1, <2>3, <2>4 DEF Stays, SpawnsFrom
  <1>5. CASE Accepts(refresh, job) /\ left
    <2> DEFINE c == NamespaceFallback(emptied)
    <2>1. namespace' = All /\ refresh' = RunQueued(c)
      BY <1>5 DEF RefreshResult, emptied
    <2>2. ClearedFrom(refresh, All, c)
      BY <1>1, <1>2, NamespaceFallbackFields
    <2>3. RuntimeInv(emptied, All) /\ c = RequestRefresh(emptied, All, ViewDispatch(view))
      BY <1>1 DEF ClearedFrom, RuntimeInv, NamespaceFallback
    <2>4. ViewDispatch(view) \in RefreshDispatch /\ CoreFirst(ViewDispatch(view))
      BY <1>2, ViewDispatchType
    <2>5. SpawnsFrom(emptied, All, c)
      BY <1>2, <2>3, <2>4, RequestSpawns
    <2> HIDE DEF c
    <2>6. SpawnsFrom(refresh, All, c)
      BY <1>1, <2>5 DEF SpawnsFrom
    <2> QED BY <1>4, <2>1, <2>2, <2>6
  <1>6. CASE Accepts(refresh, job) /\ ~left
    <2>1. namespace' = namespace /\ refresh' = RunQueued(emptied)
      BY <1>6 DEF RefreshResult, emptied
    <2>2. SpawnsFrom(refresh, namespace, emptied)
      BY <1>1 DEF SpawnsFrom
    <2> QED BY <1>1, <1>4, <2>1, <2>2
  <1> QED BY <1>3, <1>5, <1>6

LEMMA WithinStays ==
    ASSUME RefreshInv, Within
    PROVE  Stays
  <1>1. /\ namespace \in AnyNamespace /\ All \in AnyNamespace /\ view \in Views
        /\ refresh \in RefreshRuntimeState
    BY DEF RefreshInv, TypeOK, AnyNamespace
  <1>2. ASSUME UNCHANGED <<refresh, namespace>> PROVE Stays
    BY <1>2, TasksOnlyMoves
  <1>3. ASSUME NEW v \in Views, NavigateTo(v) PROVE Stays
    <2>1. UNCHANGED namespace
      BY <1>3 DEF NavigateTo
    <2>2. CASE v = "PortForwarding"
      BY <1>2, <1>3, <2>2 DEF NavigateTo
    <2>3. CASE v # "PortForwarding"
      <3>1. Request(namespace, ViewDispatch(v))
        BY <1>3, <2>3 DEF NavigateTo
      <3>2. ViewDispatch(v) \in RefreshDispatch /\ CoreFirst(ViewDispatch(v))
        BY ViewDispatchType
      <3> QED BY <1>1, <2>1, <3>1, <3>2, RequestMoves
    <2> QED BY <2>2, <2>3
  <1>4. CASE RefreshData
    <2> DEFINE d == FullRefreshOptions(TRUE, TRUE)
    <2>1. Request(namespace, d) /\ UNCHANGED namespace
      BY <1>4 DEF RefreshData
    <2>2. d \in RefreshDispatch /\ CoreFirst(d)
      BY FullRefreshOptionsType
    <2> HIDE DEF d
    <2> QED BY <1>1, <2>1, <2>2, RequestMoves
  <1>5. ASSUME NEW flux \in BOOLEAN, AutoRefresh(flux) PROVE Stays
    <2> DEFINE active == IF watching
                         THEN NormalizeWatchScope(WatchScopeForView(view))
                         ELSE NONE
               whole == RefreshOptionsForView(view, flux, FALSE)
               d == StripActiveWatchScope(whole, active)
    <2>1. Request(namespace, d) /\ UNCHANGED namespace
      BY <1>5 DEF AutoRefresh
    <2>2. whole \in RefreshDispatch /\ CoreFirst(whole)
      BY <1>1, RefreshOptionsForViewType
    <2> HIDE DEF whole, active
    <2>3. d \in RefreshDispatch /\ CoreFirst(d)
      BY <2>2, StripActiveWatchScopeType
    <2> HIDE DEF d
    <2> QED BY <1>1, <2>1, <2>3, RequestMoves
  <1>6. ASSUME NEW origin \in Views, NEW flux \in BOOLEAN,
               MutationSucceeded(origin, flux)
        PROVE  Stays
    <2> DEFINE include == flux \/ origin \in FluxViews
               d == MutationRefreshOptions(origin, include)
    <2>1. Request(namespace, d) /\ UNCHANGED namespace
      BY <1>6 DEF MutationSucceeded
    <2>2. include \in BOOLEAN
      OBVIOUS
    <2> HIDE DEF include
    <2>3. d \in RefreshDispatch /\ CoreFirst(d)
      BY <2>2, MutationRefreshOptionsType
    <2> HIDE DEF d
    <2> QED BY <1>1, <2>1, <2>3, RequestMoves
  <1>7. ASSUME NEW trigger \in deferred, DeferredFires(trigger) PROVE Stays
    <2>1. UNCHANGED namespace
      BY <1>7 DEF DeferredFires
    <2>2. CASE trigger.context_generation # refresh.context_generation
      BY <1>2, <1>7, <2>2 DEF DeferredFires
    <2>3. CASE trigger.context_generation = refresh.context_generation
      <3>1. Request(trigger.namespace, trigger.dispatch)
        BY <1>7, <2>3 DEF DeferredFires
      <3>2. trigger.dispatch \in RefreshDispatch /\ trigger.namespace \in AnyNamespace
        BY DEF RefreshInv, TypeOK, DeferredRefreshTrigger
      <3>3. CoreFirst(trigger.dispatch)
              /\ (namespace # All => trigger.namespace = namespace)
        BY <2>3 DEF RefreshInv, DeferredInv
      <3> QED BY <2>1, <3>1, <3>2, <3>3, RequestMoves
    <2> QED BY <2>2, <2>3
  <1>8. CASE NamespaceGone
    <2>1. Request(All, ViewDispatch(view)) /\ namespace' = All
      BY <1>8 DEF NamespaceGone, NamespaceFallback, Request
    <2>2. ViewDispatch(view) \in RefreshDispatch /\ CoreFirst(ViewDispatch(view))
      BY <1>1, ViewDispatchType
    <2> QED BY <1>1, <2>1, <2>2, RequestMoves
  <1>9. ASSUME NEW job, NEW gone, TaskFinishes(job, gone) PROVE Stays
    <2>1. Tasks(refresh') \subseteq Tasks(refresh)
            /\ UNCHANGED namespace
            /\ refresh'.context_generation = refresh.context_generation
      BY <1>1, <1>9 DEF TaskFinishes, Tasks, RefreshRuntimeState
    <2> QED BY <2>1, TasksOnlyMoves
  <1>10. ASSUME NEW job, TaskAborted(job) PROVE Stays
    <2>1. Tasks(refresh') \subseteq Tasks(refresh)
            /\ UNCHANGED namespace
            /\ refresh'.context_generation = refresh.context_generation
      BY <1>1, <1>10 DEF TaskAborted, Tasks, RefreshRuntimeState
    <2> QED BY <2>1, TasksOnlyMoves
  <1>11. CASE RefreshResult
    BY <1>2, <1>11, RefreshResultMoves
  <1>12. CASE ContextSwitchFails \/ UNCHANGED vars
    BY <1>2, <1>12 DEF ContextSwitchFails, vars
  <1> QED BY <1>3, <1>4, <1>5, <1>6, <1>7, <1>8, <1>9, <1>10, <1>11, <1>12 DEF Within

LEMMA NextMoves ==
    ASSUME RefreshInv, [Next]_vars
    PROVE  Moves
  <1>1. refresh \in RefreshRuntimeState
    BY DEF RefreshInv, TypeOK
  <1>2. CASE Within
    BY <1>2, WithinStays DEF Moves
  <1>3. ASSUME NEW ns \in AnyNamespace, NEW v \in Views, SelectNamespace(ns, v)
         PROVE  Moves
    <2>1. namespace' = ns
            /\ refresh' = RequestRefresh(NewGeneration(refresh), ns, ViewDispatch(v))
      BY <1>3 DEF SelectNamespace
    <2>2. ViewDispatch(v) \in RefreshDispatch /\ CoreFirst(ViewDispatch(v))
      BY ViewDispatchType
    <2> QED BY <2>1, <2>2, NewGenerationMoves
  <1>4. ASSUME NEW ns \in AnyNamespace, NEW v \in Views,
                ContextSwitchSucceeds(ns, v)
         PROVE  Moves
    <2> DEFINE d == RefreshOptionsForView(v, v \in FluxViews, TRUE)
    <2>1. namespace' = ns
            /\ refresh' = RequestRefresh(NewGeneration(refresh), ns, d)
      BY <1>4 DEF ContextSwitchSucceeds
    <2>2. (v \in FluxViews) \in BOOLEAN /\ TRUE \in BOOLEAN
      OBVIOUS
    <2>3. d \in RefreshDispatch /\ CoreFirst(d)
      BY <2>2, RefreshOptionsForViewType
    <2> HIDE DEF d
    <2> QED BY <2>1, <2>3, NewGenerationMoves
  <1>5. CASE SelectContext
    <2>1. refresh' = [refresh EXCEPT !.context_generation = @ + 1]
      BY <1>5 DEF SelectContext, InvalidateGeneration
    <2>2. Tasks(refresh') = Tasks(refresh)
            /\ refresh'.context_generation = refresh.context_generation + 1
      BY <1>1, <2>1 DEF Tasks, RefreshRuntimeState
    <2> QED BY <2>2 DEF Moves, SpawnsFrom
  <1> QED BY <1>2, <1>3, <1>4, <1>5 DEF Next, Users, Within

-----------------------------------------------------------------------------
(* The composition implements the refresh pipeline.                        *)

LEMMA SessionNextRefreshes ==
    ASSUME SessionTypeOK, [SessionNext]_session_vars
    PROVE  [Next]_vars
  <1>1. DOMAIN copies = refresh.running \cup refresh.aborting
    BY DEF SessionTypeOK
  <1>2. ASSUME NEW ctx, NEW version, ClusterChanges(ctx, version)
        PROVE  [Next]_vars
    BY <1>2 DEF ClusterChanges
  <1>3. ASSUME NEW ctx, NEW ns, NEW version, NamespaceDeleted(ctx, ns, version)
        PROVE  [Next]_vars
    BY <1>3 DEF NamespaceDeleted
  <1>4. CASE SessionAsks
    BY <1>4 DEF SessionAsks, Asks, Next, Users
  <1>5. ASSUME NEW ns \in AnyNamespace, NEW v \in Views,
               SessionSelectNamespace(ns, v)
        PROVE  [Next]_vars
    BY <1>5 DEF SessionSelectNamespace, Next, Users
  <1>6. ASSUME NEW ctx, SessionSelectContext(ctx) PROVE [Next]_vars
    BY <1>6 DEF SessionSelectContext, Next, Users
  <1>7. ASSUME NEW ns \in AnyNamespace, NEW v \in Views,
               SessionContextSwitchSucceeds(ns, v)
        PROVE  [Next]_vars
    BY <1>7 DEF SessionContextSwitchSucceeds, Next
  <1>8. CASE SessionContextSwitchFails
    BY <1>8 DEF SessionContextSwitchFails, Next
  <1>9. ASSUME NEW job, NEW got, NEW failed, TaskFetches(job, got, failed)
        PROVE  [Next]_vars
    BY <1>9 DEF TaskFetches
  <1>10. ASSUME NEW job \in DOMAIN copies, SessionTaskFinishes(job)
         PROVE  [Next]_vars
    <2> DEFINE gone == copies[job].state # NIL
                 /\ job.namespace \notin copies[job].state.namespaces \cup {All}
    <2>1. TaskFinishes(job, gone) /\ gone \in BOOLEAN
      BY <1>10 DEF SessionTaskFinishes
    <2> HIDE DEF gone
    <2> QED BY <1>1, <2>1 DEF Next
  <1>11. ASSUME NEW job \in refresh.aborting, SessionTaskAborted(job)
         PROVE  [Next]_vars
    BY <1>11 DEF SessionTaskAborted, Next
  <1>12. CASE SessionRefreshResult
    BY <1>12 DEF SessionRefreshResult, Next
  <1>13. ASSUME NEW resource, WatchPublishes(resource) PROVE [Next]_vars
    BY <1>13 DEF WatchPublishes
  <1>14. CASE WatchUpdateReceived
    <2>1. UNCHANGED vars \/ NamespaceGone
      BY <1>14 DEF WatchUpdateReceived, vars
    <2> QED BY <2>1 DEF Next
  <1>15. CASE UNCHANGED session_vars
    BY <1>15 DEF session_vars
  <1> QED BY <1>2, <1>3, <1>4, <1>5, <1>6, <1>7, <1>8, <1>9, <1>10, <1>11,
             <1>12, <1>13, <1>14, <1>15 DEF SessionNext

-----------------------------------------------------------------------------
(* The inductive invariant.                                                *)

\* Read in the context cl and, while one namespace is selected, in that one.
OfSelection(ctx, ns, cl, sel) == ctx = cl /\ (sel # All => ns = sel)

\* A list read since generation c, from the selection when it was read in the
\* generation g.
Sound(items, g, c, cl, sel) ==
    items # EMPTY =>
        /\ c <= items.generation /\ items.generation <= g
        /\ items.generation = g => OfSelection(items.context, items.namespace, cl, sel)

SoundNow(items) ==
    Sound(items, refresh.context_generation, cleared, client, namespace)

SoundState(state) == state # NIL => SoundNow(state.items)

\* The work of an older generation may be anything, it is dropped; that of the
\* current one is of the selection.
CopiesInv ==
    \A job \in DOMAIN copies :
        /\ job.generation <= refresh.context_generation
        /\ ~copies[job].fetched => copies[job].state \in GlobalState
        /\ job.generation = refresh.context_generation =>
              /\ OfSelection(copies[job].client, job.namespace, client, namespace)
              /\ SoundState(copies[job].state)

AnswersInv ==
    \A i \in DOMAIN refresh_rx :
        /\ refresh_rx[i].job.generation <= refresh.context_generation
        /\ refresh_rx[i].job.generation = refresh.context_generation =>
              SoundState(answers[i])

ManagerInv ==
    /\ watch_manager.generation <= refresh.context_generation
    /\ watch_manager.generation = refresh.context_generation =>
          OfSelection(watch_manager.context, watch_manager.namespace, client,
                      namespace)

UpdatesInv ==
    \A i \in DOMAIN watch_rx :
        /\ watch_rx[i].generation <= refresh.context_generation
        /\ (/\ watch_rx[i].resource = Kind
            /\ watch_rx[i].generation = refresh.context_generation) =>
              SoundNow(watch_rx[i].items)

ShownInv == SoundNow(global_state.items)

SessionInv ==
    /\ RefreshInv
    /\ SessionTypeOK
    /\ CopiesInv
    /\ AnswersInv
    /\ ManagerInv
    /\ UpdatesInv
    /\ ShownInv

\* A step leaves the selection alone, or widens it to all namespaces, or starts
\* a new generation.
Carries ==
    \/ /\ refresh'.context_generation = refresh.context_generation
       /\ cleared' = cleared
       /\ client' = client
       /\ namespace' \in {namespace, All}
    \/ refresh'.context_generation = refresh.context_generation + 1

LEMMA SoundWidens ==
    ASSUME NEW items, NEW g, NEW c, NEW cl, NEW sel, NEW wide \in {sel, All},
           Sound(items, g, c, cl, sel)
    PROVE  Sound(items, g, c, cl, wide)
  BY DEF Sound, OfSelection

LEMMA GenerationType ==
    ASSUME RefreshInv
    PROVE  refresh.context_generation \in Nat
  BY DEF RefreshInv, TypeOK, RefreshRuntimeState

\* The tasks that a step leaves, the new ones with the state that it leaves.
LEMMA CopiesKept ==
    ASSUME SessionInv, [Next]_vars, Carries, CopiesFollow,
           global_state' \in GlobalState, client' \in Contexts, ShownInv'
    PROVE  /\ CopiesInv'
           /\ copies' \in [refresh'.running \cup refresh'.aborting ->
                             [client : Contexts, state : GlobalState \cup {NIL},
                              fetched : BOOLEAN]]
  <1> DEFINE T == [client : Contexts, state : GlobalState \cup {NIL},
                   fetched : BOOLEAN]
             new == [client |-> client', state |-> global_state', fetched |-> FALSE]
             g == refresh.context_generation
  <1>1. copies \in [refresh.running \cup refresh.aborting -> T]
    BY DEF SessionInv, SessionTypeOK
  <1>2. /\ new \in T /\ new.client = client' /\ new.state = global_state'
        /\ new.fetched = FALSE
    OBVIOUS
  <1>3. copies' = [job \in refresh'.running \cup refresh'.aborting |->
                     IF job \in DOMAIN copies THEN copies[job] ELSE new]
    BY DEF CopiesFollow
  <1>4. Moves /\ g \in Nat
    BY NextMoves, GenerationType DEF SessionInv
  <1> HIDE DEF T, new
  <1>5. copies' \in [refresh'.running \cup refresh'.aborting -> T]
    BY <1>1, <1>2, <1>3
  <1>6. CopiesInv'
    <2> SUFFICES ASSUME NEW job \in DOMAIN copies'
                 PROVE  /\ job.generation <= g'
                        /\ ~copies'[job].fetched => copies'[job].state \in GlobalState
                        /\ job.generation = g' =>
                              /\ OfSelection(copies'[job].client, job.namespace,
                                             client', namespace')
                              /\ SoundState(copies[job].state)'
      BY DEF CopiesInv
    <2>1. CASE job \in DOMAIN copies
      <3>1. copies'[job] = copies[job]
        BY <1>3, <2>1
      <3>2. /\ job.generation <= g
            /\ ~copies[job].fetched => copies[job].state \in GlobalState
            /\ job.generation = g =>
                  /\ OfSelection(copies[job].client, job.namespace, client, namespace)
                  /\ SoundState(copies[job].state)
        BY <2>1 DEF SessionInv, CopiesInv
      <3>3. job.generation \in Nat
        BY <1>1, <2>1 DEF SessionInv, RefreshInv, TypeOK, RefreshRuntimeState, Job
      <3>4. CASE g' = g + 1
        BY <1>4, <3>1, <3>2, <3>3, <3>4
      <3>5. CASE /\ g' = g /\ cleared' = cleared /\ client' = client
                 /\ namespace' \in {namespace, All}
        <4> SUFFICES ASSUME job.generation = g
                     PROVE  /\ OfSelection(copies[job].client, job.namespace,
                                           client, namespace')
                            /\ copies[job].state # NIL =>
                                 Sound(copies[job].state.items, g, cleared, client,
                                       namespace')
          BY <3>1, <3>2, <3>5 DEF SoundState, SoundNow
        <4> QED BY <3>2, <3>5, SoundWidens DEF OfSelection, SoundState, SoundNow
      <3> QED BY <3>4, <3>5 DEF Carries
    <2>2. CASE job \notin DOMAIN copies
      <3>1. copies'[job] = new /\ job \in Tasks(refresh') \ Tasks(refresh)
        BY <1>1, <1>3, <1>5, <2>2 DEF Tasks
      <3>2. job.generation = g' /\ (namespace' # All => job.namespace = namespace')
        BY <1>4, <3>1 DEF Moves, Stays, SpawnsFrom
      <3>3. g' \in Nat
        BY <1>4 DEF Moves, Stays
      <3>4. SoundState(copies[job].state)'
        BY <1>2, <3>1 DEF SoundState, ShownInv
      <3> QED BY <1>2, <3>1, <3>2, <3>3, <3>4 DEF OfSelection
    <2> QED BY <2>1, <2>2
  <1> QED BY <1>5, <1>6 DEF T

\* What a step leaves alone stays sound.
LEMMA AnswersKept ==
    ASSUME SessionInv, Carries, UNCHANGED <<refresh_rx, answers>>
    PROVE  AnswersInv'
  <1> DEFINE g == refresh.context_generation
  <1>1. g \in Nat /\ refresh_rx \in Seq(RefreshAsyncResult)
    BY GenerationType DEF SessionInv, RefreshInv, TypeOK
  <1> SUFFICES ASSUME NEW i \in DOMAIN refresh_rx
               PROVE  /\ refresh_rx[i].job.generation <= g'
                      /\ (refresh_rx[i].job.generation = g' /\ answers[i] # NIL) =>
                            Sound(answers[i].items, g', cleared', client', namespace')
    BY DEF AnswersInv, SoundState, SoundNow
  <1>2. /\ refresh_rx[i].job.generation \in Nat
        /\ refresh_rx[i].job.generation <= g
        /\ (refresh_rx[i].job.generation = g /\ answers[i] # NIL) =>
              Sound(answers[i].items, g, cleared, client, namespace)
    <2>1. refresh_rx[i] \in RefreshAsyncResult
      BY <1>1
    <2>2. refresh_rx[i].job.generation \in Nat
      BY <2>1 DEF RefreshAsyncResult, Job
    <2> QED BY <2>2 DEF SessionInv, AnswersInv, SoundState, SoundNow
  <1>3. CASE g' = g + 1
    BY <1>1, <1>2, <1>3
  <1>4. CASE /\ g' = g /\ cleared' = cleared /\ client' = client
             /\ namespace' \in {namespace, All}
    BY <1>2, <1>4, SoundWidens
  <1> QED BY <1>3, <1>4 DEF Carries

LEMMA ManagerKept ==
    ASSUME SessionInv, Carries,
           watch_manager'.generation = watch_manager.generation,
           watch_manager'.context = watch_manager.context,
           watch_manager'.namespace = watch_manager.namespace
    PROVE  ManagerInv'
  <1> DEFINE g == refresh.context_generation
  <1>1. g \in Nat /\ watch_manager.generation \in Nat
    BY GenerationType DEF SessionInv, SessionTypeOK, WatchManager
  <1>2. CASE g' = g + 1
    BY <1>1, <1>2 DEF SessionInv, ManagerInv
  <1>3. CASE /\ g' = g /\ client' = client /\ namespace' \in {namespace, All}
    BY <1>3 DEF SessionInv, ManagerInv, OfSelection
  <1> QED BY <1>2, <1>3 DEF Carries

LEMMA UpdatesKept ==
    ASSUME SessionInv, Carries, UNCHANGED watch_rx
    PROVE  UpdatesInv'
  <1> DEFINE g == refresh.context_generation
  <1>1. g \in Nat /\ watch_rx \in Seq(WatchUpdate)
    BY GenerationType DEF SessionInv, SessionTypeOK
  <1> SUFFICES ASSUME NEW i \in DOMAIN watch_rx
               PROVE  /\ watch_rx[i].generation <= g'
                      /\ (watch_rx[i].resource = Kind /\ watch_rx[i].generation = g') =>
                            Sound(watch_rx[i].items, g', cleared', client', namespace')
    BY DEF UpdatesInv, SoundNow
  <1>2. /\ watch_rx[i].generation \in Nat
        /\ watch_rx[i].generation <= g
        /\ (watch_rx[i].resource = Kind /\ watch_rx[i].generation = g) =>
              Sound(watch_rx[i].items, g, cleared, client, namespace)
    BY <1>1 DEF SessionInv, UpdatesInv, SoundNow, WatchUpdate
  <1>3. CASE g' = g + 1
    BY <1>1, <1>2, <1>3
  <1>4. CASE /\ g' = g /\ cleared' = cleared /\ client' = client
             /\ namespace' \in {namespace, All}
    BY <1>2, <1>4, SoundWidens
  <1> QED BY <1>3, <1>4 DEF Carries

LEMMA SoundCarries ==
    ASSUME SessionInv, Carries, UNCHANGED cleared, NEW items \in List \cup {EMPTY},
           Sound(items, refresh.context_generation, cleared, client, namespace)
    PROVE  Sound(items, refresh'.context_generation, cleared, client', namespace')
  <1> DEFINE g == refresh.context_generation
  <1>1. /\ g \in Nat
        /\ items # EMPTY => items.generation \in Nat
    BY GenerationType DEF SessionInv, List
  <1>2. CASE g' = g + 1
    BY <1>1, <1>2 DEF Sound
  <1>3. CASE /\ g' = g /\ client' = client /\ namespace' \in {namespace, All}
    BY <1>3, SoundWidens
  <1> QED BY <1>2, <1>3 DEF Carries

LEMMA ShownKept ==
    ASSUME SessionInv, Carries, UNCHANGED <<global_state, cleared>>
    PROVE  ShownInv'
  <1>1. global_state.items \in List \cup {EMPTY}
    BY DEF SessionInv, SessionTypeOK, GlobalState
  <1> QED BY <1>1, SoundCarries DEF SessionInv, ShownInv, SoundNow

\* The watchers that are started or kept have the list of namespaces at least.
LEMMA WatchScopeType ==
    ASSUME NEW v
    PROVE  WatchScope(v) \in SUBSET {Kind, "NAMESPACES"} /\ WatchScope(v) # {}
  BY DEF WatchScope, NormalizeWatchScope

LEMMA StartWatchesType ==
    ASSUME NEW gen \in Nat, NEW ns \in AnyNamespace, NEW ctx \in Contexts, NEW v
    PROVE  LET w == StartWatches(gen, ns, ctx, v)
           IN  /\ w \in WatchManager /\ w.scope # {}
               /\ w.generation = gen /\ w.namespace = ns /\ w.context = ctx
  <1> DEFINE w == StartWatches(gen, ns, ctx, v)
  <1>1. WatchScope(v) \in SUBSET {Kind, "NAMESPACES"} /\ WatchScope(v) # {}
    BY WatchScopeType
  <1>2. w = [scope |-> WatchScope(v), generation |-> gen, namespace |-> ns,
             context |-> ctx, items |-> EMPTY, namespace_list |-> {}]
    BY DEF StartWatches
  <1> SUFFICES /\ w \in WatchManager /\ w.scope # {}
               /\ w.generation = gen /\ w.namespace = ns /\ w.context = ctx
    OBVIOUS
  <1> HIDE DEF w
  <1>3. EMPTY \in List \cup {EMPTY} /\ {} \in SUBSET Namespaces
    OBVIOUS
  <1>4. /\ w.scope = WatchScope(v) /\ w.generation = gen /\ w.namespace = ns
        /\ w.context = ctx
    BY <1>2
  <1>5. w \in WatchManager
    BY <1>1, <1>2, <1>3 DEF WatchManager
  <1> QED BY <1>1, <1>4, <1>5

LEMMA EnsureWatchesType ==
    ASSUME NEW w \in WatchManager, NEW v
    PROVE  LET e == EnsureWatches(w, v)
           IN  /\ e \in WatchManager /\ (e.scope # {} <=> w.scope # {})
               /\ e.generation = w.generation /\ e.namespace = w.namespace
               /\ e.context = w.context
  <1> DEFINE e == EnsureWatches(w, v)
  <1>1. w.generation \in Nat /\ w.namespace \in AnyNamespace /\ w.context \in Contexts
    BY DEF WatchManager
  <1>2. WatchScope(v) \in SUBSET {Kind, "NAMESPACES"} /\ WatchScope(v) # {}
    BY WatchScopeType
  <1>3. \/ e = w
        \/ w.scope # {} /\ e = [w EXCEPT !.scope = WatchScope(v)]
        \/ w.scope # {} /\ e = StartWatches(w.generation, w.namespace, w.context, v)
    BY DEF EnsureWatches
  <1> SUFFICES /\ e \in WatchManager /\ (e.scope # {} <=> w.scope # {})
               /\ e.generation = w.generation /\ e.namespace = w.namespace
               /\ e.context = w.context
    OBVIOUS
  <1> HIDE DEF e
  <1>4. CASE e = w
    BY <1>4
  <1>5. CASE w.scope # {} /\ e = [w EXCEPT !.scope = WatchScope(v)]
    BY <1>2, <1>5 DEF WatchManager
  <1>6. CASE w.scope # {}
               /\ e = StartWatches(w.generation, w.namespace, w.context, v)
    BY <1>1, <1>6, StartWatchesType
  <1> QED BY <1>3, <1>4, <1>5, <1>6

\* What is read is of the context, the namespace and the generation asked for.
LEMMA ReadType ==
    ASSUME SessionTypeOK, NEW ctx \in Contexts, NEW ns \in AnyNamespace,
           NEW gen \in Nat
    PROVE  LET items == Read(ctx, ns, gen)
           IN  /\ items \in List \cup {EMPTY}
               /\ items # EMPTY =>
                     /\ items.context = ctx /\ items.namespace = ns
                     /\ items.generation = gen
  <1> DEFINE items == Read(ctx, ns, gen)
             read == [context |-> ctx, namespace |-> ns,
                      version |-> cluster[ctx].version, generation |-> gen]
  <1>1. cluster[ctx].version \in 1..MaxVersion
    BY DEF SessionTypeOK
  <1>2. /\ read \in List
        /\ read.context = ctx /\ read.namespace = ns /\ read.generation = gen
    BY <1>1 DEF List
  <1>3. items = EMPTY \/ items = read
    BY DEF Read
  <1> HIDE DEF items, read
  <1>4. /\ items \in List \cup {EMPTY}
        /\ items # EMPTY =>
              /\ items.context = ctx /\ items.namespace = ns
              /\ items.generation = gen
    BY <1>2, <1>3
  <1> QED BY <1>4 DEF items

LEMMA ClearedType ==
    ASSUME NEW state \in GlobalState, NEW clear_namespaces
    PROVE  /\ Cleared(state, clear_namespaces) \in GlobalState
           /\ Cleared(state, clear_namespaces).items = EMPTY
  BY DEF Cleared, GlobalState

\* A refresh task builds a state.
LEMMA FetchedType ==
    ASSUME SessionTypeOK, NEW state \in GlobalState, NEW job \in Job,
           NEW ctx \in Contexts, NEW got
    PROVE  LET next == Fetched(state, job, ctx, got)
           IN  /\ next \in GlobalState
               /\ next.items = IF Kind \in got
                               THEN Read(ctx, job.namespace, job.generation)
                               ELSE state.items
  <1> DEFINE list == IF "NAMESPACES" \in got THEN cluster[ctx].namespaces
                     ELSE state.namespace_list
             items == IF Kind \in got
                      THEN Read(ctx, job.namespace, job.generation) ELSE state.items
             next == Fetched(state, job, ctx, got)
  <1>1. list \in SUBSET Namespaces
    BY DEF SessionTypeOK, GlobalState
  <1>2. job.namespace \in AnyNamespace /\ job.generation \in Nat
    BY DEF Job
  <1>3. items \in List \cup {EMPTY}
    BY <1>2, ReadType DEF GlobalState
  <1>4. next = [items |-> items, namespace_list |-> list, namespaces |-> list]
    BY DEF Fetched
  <1> HIDE DEF list, items, next
  <1>5. next \in GlobalState /\ next.items = items
    BY <1>1, <1>3, <1>4 DEF GlobalState
  <1> QED BY <1>5 DEF items, next

\* So does the update of a watcher.
LEMMA WatchedType ==
    ASSUME NEW state \in GlobalState, NEW update \in WatchUpdate
    PROVE  LET next == Watched(state, update)
           IN  /\ next \in GlobalState
               /\ next.items \in {state.items}
                     \cup (IF update.resource = Kind THEN {update.items} ELSE {})
  <1> DEFINE set == IF update.resource = Kind
                    THEN [state EXCEPT !.items = update.items]
                    ELSE [state EXCEPT !.namespace_list = update.namespace_list]
             next == Watched(state, update)
  <1>1. /\ update.resource = Kind => update.items \in List \cup {EMPTY}
        /\ update.resource # Kind => update.namespace_list \in SUBSET Namespaces
    BY KindAssumption DEF WatchUpdate
  <1>2. /\ set \in GlobalState
        /\ set.items = IF update.resource = Kind THEN update.items ELSE state.items
    BY <1>1 DEF GlobalState
  <1>3. next = state \/ next = [set EXCEPT !.namespaces = set.namespace_list]
    BY DEF Watched
  <1> HIDE DEF set, next
  <1>4. /\ next \in GlobalState
        /\ next.items \in {state.items, set.items}
    BY <1>2, <1>3 DEF GlobalState
  <1> QED BY <1>2, <1>4 DEF next

\* The parts of the invariant, put together.
LEMMA SessionInvParts ==
    ASSUME SessionInv, [Next]_vars, CopiesInv',
           copies' \in [refresh'.running \cup refresh'.aborting ->
                          [client : Contexts, state : GlobalState \cup {NIL},
                           fetched : BOOLEAN]],
           cluster' \in [Contexts -> [namespaces : SUBSET Namespaces,
                                      version : 1..MaxVersion]],
           client' \in Contexts, pending_context' \in Contexts \cup {NIL},
           switching' <=> pending_context' # NIL,
           global_state' \in GlobalState, ShownInv',
           answers' \in Seq(GlobalState \cup {NIL}),
           Len(answers') = Len(refresh_rx'), AnswersInv',
           watch_manager' \in WatchManager, watching' <=> watch_manager'.scope # {},
           ManagerInv', watch_rx' \in Seq(WatchUpdate), UpdatesInv',
           cleared' \in 0..refresh'.context_generation
    PROVE  SessionInv'
  <1>1. RefreshInv'
    BY NextKeepsInv DEF SessionInv
  <1>2. TypeOK'
    BY <1>1 DEF RefreshInv
  <1> QED BY <1>1, <1>2 DEF SessionInv, SessionTypeOK

LEMMA CarriesMoves ==
    ASSUME SessionInv, [Next]_vars, UNCHANGED <<client, cleared>>
    PROVE  Carries
  <1>1. Moves
    BY NextMoves DEF SessionInv
  <1> QED BY <1>1 DEF Moves, Stays, Carries

\* The bound of the generation that last cleared the state.
LEMMA ClearedKept ==
    ASSUME SessionInv, Carries, UNCHANGED cleared
    PROVE  cleared' \in 0..refresh'.context_generation
  <1>1. refresh.context_generation \in Nat
           /\ cleared \in 0..refresh.context_generation
    BY GenerationType DEF SessionInv, SessionTypeOK
  <1> QED BY <1>1 DEF Carries

\* A step of the loop that leaves the data alone.
LEMMA LoopStepKeepsInv ==
    ASSUME SessionInv, [Next]_vars, CopiesFollow,
           UNCHANGED <<cluster, client, global_state, answers, watch_rx, cleared>>,
           UNCHANGED refresh_rx,
           pending_context' \in Contexts \cup {NIL},
           switching' <=> pending_context' # NIL,
           watch_manager' \in WatchManager,
           watch_manager'.generation = watch_manager.generation,
           watch_manager'.context = watch_manager.context,
           watch_manager'.namespace = watch_manager.namespace,
           watching' <=> watch_manager'.scope # {}
    PROVE  SessionInv'
  <1>1. Carries
    BY CarriesMoves
  <1>2. /\ AnswersInv' /\ ManagerInv' /\ UpdatesInv' /\ ShownInv'
        /\ cleared' \in 0..refresh'.context_generation
    BY <1>1, AnswersKept, ManagerKept, UpdatesKept, ShownKept, ClearedKept
  <1>3. /\ global_state' \in GlobalState /\ client' \in Contexts
        /\ cluster' \in [Contexts -> [namespaces : SUBSET Namespaces,
                                      version : 1..MaxVersion]]
        /\ answers' \in Seq(GlobalState \cup {NIL})
        /\ Len(answers') = Len(refresh_rx')
        /\ watch_rx' \in Seq(WatchUpdate)
    BY DEF SessionInv, SessionTypeOK
  <1>4. /\ CopiesInv'
        /\ copies' \in [refresh'.running \cup refresh'.aborting ->
                          [client : Contexts, state : GlobalState \cup {NIL},
                           fetched : BOOLEAN]]
    BY <1>1, <1>2, <1>3, CopiesKept
  <1> QED BY <1>2, <1>3, <1>4, SessionInvParts

LEMMA SessionAsksKeepsInv ==
    ASSUME SessionInv, SessionAsks
    PROVE  SessionInv'
  <1>1. Asks /\ AfterAsking /\ [Next]_vars
    BY SessionNextRefreshes DEF SessionAsks, SessionNext, SessionInv
  <1>2. UNCHANGED <<refresh_rx, switching, watching>>
    BY <1>1 DEF Asks, NavigateTo, RefreshData, AutoRefresh, MutationSucceeded,
                DeferredFires
  <1>3. /\ watch_manager \in WatchManager /\ (watching <=> watch_manager.scope # {})
        /\ pending_context \in Contexts \cup {NIL}
        /\ switching <=> pending_context # NIL
    BY DEF SessionInv, SessionTypeOK
  <1>4. /\ watch_manager' = EnsureWatches(watch_manager, view')
        /\ UNCHANGED <<cluster, client, pending_context, global_state, answers,
                       watch_rx, cleared>>
        /\ CopiesFollow
    BY <1>1 DEF AfterAsking
  <1>5. /\ watch_manager' \in WatchManager
        /\ watch_manager'.scope # {} <=> watch_manager.scope # {}
        /\ watch_manager'.generation = watch_manager.generation
        /\ watch_manager'.namespace = watch_manager.namespace
        /\ watch_manager'.context = watch_manager.context
    BY <1>3, <1>4, EnsureWatchesType
  <1> QED BY <1>1, <1>2, <1>3, <1>4, <1>5, LoopStepKeepsInv

LEMMA SessionContextSwitchFailsKeepsInv ==
    ASSUME SessionInv, SessionContextSwitchFails
    PROVE  SessionInv'
  <1>1. [Next]_vars
    BY SessionNextRefreshes DEF SessionNext, SessionInv
  <1>2. /\ switching' = FALSE /\ pending_context' = NIL
        /\ UNCHANGED <<refresh_rx, watching, watch_manager>>
        /\ UNCHANGED <<cluster, client, global_state, answers, watch_rx, cleared>>
        /\ CopiesFollow
    BY DEF SessionContextSwitchFails, ContextSwitchFails
  <1>3. watch_manager \in WatchManager /\ (watching <=> watch_manager.scope # {})
    BY DEF SessionInv, SessionTypeOK
  <1> QED BY <1>1, <1>2, <1>3, LoopStepKeepsInv

LEMMA SessionTaskAbortedKeepsInv ==
    ASSUME SessionInv, NEW job \in refresh.aborting, SessionTaskAborted(job)
    PROVE  SessionInv'
  <1>1. [Next]_vars
    BY SessionNextRefreshes DEF SessionNext, SessionInv
  <1>2. /\ UNCHANGED <<switching, pending_context, refresh_rx, watching, watch_manager>>
        /\ UNCHANGED <<cluster, client, global_state, answers, watch_rx, cleared>>
        /\ CopiesFollow
    BY DEF SessionTaskAborted, TaskAborted
  <1>3. /\ watch_manager \in WatchManager /\ (watching <=> watch_manager.scope # {})
        /\ pending_context \in Contexts \cup {NIL}
        /\ switching <=> pending_context # NIL
    BY DEF SessionInv, SessionTypeOK
  <1> QED BY <1>1, <1>2, <1>3, LoopStepKeepsInv

\* A step that starts a new generation, with the watchers stopped or started
\* for what it selects.
LEMMA NewGenerationStepKeepsSession ==
    ASSUME SessionInv, [Next]_vars, CopiesFollow,
           refresh'.context_generation = refresh.context_generation + 1,
           UNCHANGED <<cluster, refresh_rx, answers, watch_rx>>,
           client' \in Contexts, pending_context' \in Contexts \cup {NIL},
           switching' <=> pending_context' # NIL,
           global_state' \in GlobalState,
           \/ UNCHANGED <<global_state, cleared>>
           \/ /\ global_state'.items = EMPTY
              /\ cleared' = refresh'.context_generation,
           watch_manager' \in WatchManager, watching' <=> watch_manager'.scope # {},
           \/ watch_manager'.generation = watch_manager.generation
           \/ /\ watch_manager'.generation = refresh'.context_generation
              /\ watch_manager'.context = client'
              /\ watch_manager'.namespace = namespace'
    PROVE  SessionInv'
  <1> DEFINE g == refresh.context_generation
  <1>1. Carries
    BY DEF Carries
  <1>2. /\ g \in Nat /\ cleared \in 0..g /\ watch_manager.generation \in Nat
    BY GenerationType DEF SessionInv, SessionTypeOK, WatchManager
  <1>3. AnswersInv' /\ UpdatesInv'
    BY <1>1, AnswersKept, UpdatesKept
  <1>4. ManagerInv'
    <2>1. CASE watch_manager'.generation = watch_manager.generation
      BY <1>2, <2>1 DEF SessionInv, ManagerInv
    <2>2. CASE /\ watch_manager'.generation = g'
               /\ watch_manager'.context = client'
               /\ watch_manager'.namespace = namespace'
      BY <1>2, <2>2 DEF ManagerInv, OfSelection
    <2> QED BY <2>1, <2>2
  <1>5. ShownInv' /\ cleared' \in 0..g'
    <2>1. CASE UNCHANGED <<global_state, cleared>>
      BY <1>1, <2>1, ShownKept, ClearedKept
    <2>2. CASE global_state'.items = EMPTY /\ cleared' = g'
      BY <1>2, <2>2 DEF ShownInv, SoundNow, Sound
    <2> QED BY <2>1, <2>2
  <1>6. /\ CopiesInv'
        /\ copies' \in [refresh'.running \cup refresh'.aborting ->
                          [client : Contexts, state : GlobalState \cup {NIL},
                           fetched : BOOLEAN]]
    BY <1>1, <1>5, CopiesKept
  <1>7. /\ cluster' \in [Contexts -> [namespaces : SUBSET Namespaces,
                                      version : 1..MaxVersion]]
        /\ answers' \in Seq(GlobalState \cup {NIL})
        /\ Len(answers') = Len(refresh_rx')
        /\ watch_rx' \in Seq(WatchUpdate)
    BY DEF SessionInv, SessionTypeOK
  <1> QED BY <1>3, <1>4, <1>5, <1>6, <1>7, SessionInvParts

LEMMA SessionSelectNamespaceKeepsInv ==
    ASSUME SessionInv, NEW ns \in AnyNamespace, NEW v \in Views,
           SessionSelectNamespace(ns, v)
    PROVE  SessionInv'
  <1>1. [Next]_vars
    BY SessionNextRefreshes DEF SessionNext, SessionInv
  <1>2. /\ namespace' = ns /\ watching' = TRUE
        /\ UNCHANGED <<refresh_rx, switching>>
        /\ refresh' = RequestRefresh(NewGeneration(refresh), ns, ViewDispatch(v))
    BY DEF SessionSelectNamespace, SelectNamespace
  <1>3. refresh'.context_generation = refresh.context_generation + 1
    BY <1>2, ViewDispatchType, NewGenerationMoves DEF SessionInv
  <1>4. /\ global_state' = Cleared(global_state, FALSE)
        /\ cleared' = refresh'.context_generation
        /\ watch_manager' = StartWatches(refresh'.context_generation, ns, client, v)
        /\ UNCHANGED <<cluster, client, pending_context, answers, watch_rx>>
        /\ CopiesFollow
    BY DEF SessionSelectNamespace
  <1>5. /\ global_state \in GlobalState /\ client \in Contexts
        /\ pending_context \in Contexts \cup {NIL}
        /\ switching <=> pending_context # NIL
        /\ refresh'.context_generation \in Nat
    BY <1>3, GenerationType DEF SessionInv, SessionTypeOK
  <1>6. global_state' \in GlobalState /\ global_state'.items = EMPTY
    BY <1>4, <1>5, ClearedType
  <1>7. /\ watch_manager' \in WatchManager /\ watch_manager'.scope # {}
        /\ watch_manager'.generation = refresh'.context_generation
        /\ watch_manager'.context = client' /\ watch_manager'.namespace = namespace'
    BY <1>2, <1>4, <1>5, StartWatchesType
  <1> QED BY <1>1, <1>2, <1>3, <1>4, <1>5, <1>6, <1>7,
             NewGenerationStepKeepsSession

LEMMA SessionSelectContextKeepsInv ==
    ASSUME SessionInv, NEW ctx \in Contexts, SessionSelectContext(ctx)
    PROVE  SessionInv'
  <1>1. [Next]_vars
    BY SessionNextRefreshes DEF SessionNext, SessionInv
  <1>2. /\ switching' = TRUE /\ watching' = FALSE /\ UNCHANGED refresh_rx
        /\ refresh' = [refresh EXCEPT !.context_generation = @ + 1]
    BY DEF SessionSelectContext, SelectContext, InvalidateGeneration
  <1>3. refresh'.context_generation = refresh.context_generation + 1
    BY <1>2 DEF SessionInv, RefreshInv, TypeOK, RefreshRuntimeState
  <1>4. /\ pending_context' = ctx
        /\ global_state' = Cleared(global_state, TRUE)
        /\ cleared' = refresh'.context_generation
        /\ watch_manager' = StopAll(watch_manager)
        /\ UNCHANGED <<cluster, client, answers, watch_rx>>
        /\ CopiesFollow
    BY DEF SessionSelectContext
  <1>5. /\ global_state \in GlobalState /\ client \in Contexts
        /\ watch_manager \in WatchManager
        /\ pending_context' # NIL
    BY <1>4, ContextsAssumption DEF SessionInv, SessionTypeOK
  <1>6. global_state' \in GlobalState /\ global_state'.items = EMPTY
    BY <1>4, <1>5, ClearedType
  <1>7. /\ watch_manager' \in WatchManager /\ watch_manager'.scope = {}
        /\ watch_manager'.generation = watch_manager.generation
    BY <1>4, <1>5 DEF StopAll, WatchManager
  <1> QED BY <1>1, <1>2, <1>3, <1>4, <1>5, <1>6, <1>7,
             NewGenerationStepKeepsSession

LEMMA SessionContextSwitchSucceedsKeepsInv ==
    ASSUME SessionInv, NEW ns \in AnyNamespace, NEW v \in Views,
           SessionContextSwitchSucceeds(ns, v)
    PROVE  SessionInv'
  <1> DEFINE d == RefreshOptionsForView(v, v \in FluxViews, TRUE)
  <1>1. [Next]_vars
    BY SessionNextRefreshes DEF SessionNext, SessionInv
  <1>2. /\ namespace' = ns /\ watching' = TRUE /\ switching /\ switching' = FALSE
        /\ UNCHANGED refresh_rx
        /\ refresh' = RequestRefresh(NewGeneration(refresh), ns, d)
    BY DEF SessionContextSwitchSucceeds, ContextSwitchSucceeds
  <1>3. refresh'.context_generation = refresh.context_generation + 1
    <2>1. (v \in FluxViews) \in BOOLEAN /\ TRUE \in BOOLEAN
      OBVIOUS
    <2>2. d \in RefreshDispatch /\ CoreFirst(d)
      BY <2>1, RefreshOptionsForViewType
    <2> HIDE DEF d
    <2> QED BY <1>2, <2>2, NewGenerationMoves DEF SessionInv
  <1>4. /\ client' = pending_context /\ pending_context' = NIL
        /\ watch_manager' = StartWatches(refresh'.context_generation, ns, client', v)
        /\ UNCHANGED <<cluster, global_state, answers, watch_rx, cleared>>
        /\ CopiesFollow
    BY DEF SessionContextSwitchSucceeds
  <1>5. /\ global_state \in GlobalState
        /\ pending_context \in Contexts \cup {NIL}
        /\ switching <=> pending_context # NIL
        /\ refresh'.context_generation \in Nat
    BY <1>3, GenerationType DEF SessionInv, SessionTypeOK
  <1>6. client' \in Contexts
    BY <1>2, <1>4, <1>5
  <1>7. /\ watch_manager' \in WatchManager /\ watch_manager'.scope # {}
        /\ watch_manager'.generation = refresh'.context_generation
        /\ watch_manager'.context = client' /\ watch_manager'.namespace = namespace'
    <2>1. /\ watch_manager' = StartWatches(refresh'.context_generation, ns,
                                           pending_context, v)
          /\ pending_context \in Contexts
      BY <1>4, <1>6
    <2>2. /\ watch_manager' \in WatchManager /\ watch_manager'.scope # {}
          /\ watch_manager'.generation = refresh'.context_generation
          /\ watch_manager'.context = pending_context
          /\ watch_manager'.namespace = ns
      BY <1>5, <2>1, StartWatchesType
    <2> QED BY <1>2, <1>4, <2>2
  <1> QED BY <1>1, <1>2, <1>3, <1>4, <1>5, <1>6, <1>7,
             NewGenerationStepKeepsSession

\* A step that changes neither the refresh pipeline nor what is shown.
LEMMA QuietStepKeepsInv ==
    ASSUME SessionInv,
           UNCHANGED <<vars, client, pending_context, global_state, copies, answers,
                       watch_manager, watch_rx, cleared>>,
           cluster' \in [Contexts -> [namespaces : SUBSET Namespaces,
                                      version : 1..MaxVersion]]
    PROVE  SessionInv'
  <1>1. /\ refresh' = refresh /\ refresh_rx' = refresh_rx /\ namespace' = namespace
        /\ switching' = switching /\ watching' = watching /\ [Next]_vars
    BY DEF vars
  <1>2. /\ CopiesInv' /\ AnswersInv' /\ ManagerInv' /\ UpdatesInv' /\ ShownInv'
    BY <1>1 DEF SessionInv, CopiesInv, AnswersInv, ManagerInv, UpdatesInv, ShownInv,
                SoundState, SoundNow
  <1>3. RefreshInv'
    BY <1>1, NextKeepsInv DEF SessionInv
  <1>4. TypeOK'
    BY <1>3 DEF RefreshInv
  <1> QED BY <1>1, <1>2, <1>3, <1>4 DEF SessionInv, SessionTypeOK

LEMMA ClusterStepsKeepInv ==
    ASSUME SessionInv, NEW ctx \in Contexts, NEW version \in 1..MaxVersion,
           \/ ClusterChanges(ctx, version)
           \/ \E ns \in Namespaces : NamespaceDeleted(ctx, ns, version)
    PROVE  SessionInv'
  <1> DEFINE C == [namespaces : SUBSET Namespaces, version : 1..MaxVersion]
  <1>1. cluster \in [Contexts -> C]
    BY DEF SessionInv, SessionTypeOK
  <1>2. CASE ClusterChanges(ctx, version)
    <2>1. cluster' = [cluster EXCEPT ![ctx].version = version]
      BY <1>2 DEF ClusterChanges
    <2>2. cluster' \in [Contexts -> C]
      BY <1>1, <2>1
    <2> QED BY <1>2, <2>2, QuietStepKeepsInv DEF ClusterChanges
  <1>3. ASSUME NEW ns \in Namespaces, NamespaceDeleted(ctx, ns, version)
        PROVE  SessionInv'
    <2>1. cluster' = [cluster EXCEPT ![ctx] =
                        [namespaces |-> @.namespaces \ {ns}, version |-> version]]
      BY <1>3 DEF NamespaceDeleted
    <2>2. cluster' \in [Contexts -> C]
      BY <1>1, <2>1
    <2> QED BY <1>3, <2>2, QuietStepKeepsInv DEF NamespaceDeleted
  <1> QED BY <1>2, <1>3

\* A task reads with its own client, in its own namespace and generation.
LEMMA TaskFetchesKeepsInv ==
    ASSUME SessionInv, NEW job, NEW got, NEW failed, TaskFetches(job, got, failed)
    PROVE  SessionInv'
  <1> DEFINE g == refresh.context_generation
             old == copies[job]
             state == IF failed THEN NIL ELSE Fetched(old.state, job, old.client, got)
             T == [client : Contexts, state : GlobalState \cup {NIL},
                   fetched : BOOLEAN]
  <1>1. /\ UNCHANGED vars
        /\ UNCHANGED <<cluster, client, pending_context, global_state, answers,
                       watch_manager, watch_rx, cleared>>
        /\ job \in refresh.running /\ ~old.fetched
        /\ copies' = [copies EXCEPT ![job] = [@ EXCEPT !.fetched = TRUE,
                                                       !.state = state]]
    BY DEF TaskFetches
  <1>2. /\ refresh' = refresh /\ refresh_rx' = refresh_rx /\ namespace' = namespace
        /\ switching' = switching /\ watching' = watching /\ [Next]_vars
    BY <1>1 DEF vars
  <1>3. /\ copies \in [refresh.running \cup refresh.aborting -> T]
        /\ job \in Job /\ SessionTypeOK
    BY <1>1 DEF SessionInv, SessionTypeOK, RefreshInv, TypeOK, RefreshRuntimeState
  <1>4. /\ old \in T /\ job \in DOMAIN copies /\ job.namespace \in AnyNamespace
        /\ job.generation \in Nat
    BY <1>1, <1>3 DEF Job
  <1>5. old.state \in GlobalState /\ job.generation <= g
    BY <1>1, <1>4 DEF SessionInv, CopiesInv
  <1>6. /\ state \in GlobalState \cup {NIL}
        /\ state # NIL => state.items = IF Kind \in got
                             THEN Read(old.client, job.namespace, job.generation)
                             ELSE old.state.items
    BY <1>3, <1>4, <1>5, FetchedType
  <1>7. ASSUME job.generation = g PROVE SoundState(state)
    <2>1. /\ OfSelection(old.client, job.namespace, client, namespace)
          /\ SoundState(old.state)
      BY <1>4, <1>7 DEF SessionInv, CopiesInv
    <2>2. SoundNow(Read(old.client, job.namespace, job.generation))
      <3> DEFINE read == Read(old.client, job.namespace, job.generation)
      <3>1. read # EMPTY => /\ read.context = old.client
                            /\ read.namespace = job.namespace
                            /\ read.generation = g
        BY <1>3, <1>4, <1>7, ReadType
      <3>2. g \in Nat /\ cleared \in 0..g
        BY GenerationType DEF SessionInv, SessionTypeOK
      <3> HIDE DEF read
      <3>3. SoundNow(read)
        BY <2>1, <3>1, <3>2 DEF SoundNow, Sound, OfSelection
      <3> QED BY <3>3 DEF read
    <2>3. SoundNow(old.state.items)
      BY <1>5, <2>1, NoStateAssumption DEF SoundState
    <2> QED BY <1>6, <2>2, <2>3 DEF SoundState
  <1> HIDE DEF state
  <1>8. /\ copies' \in [refresh.running \cup refresh.aborting -> T]
        /\ copies'[job].state = state /\ copies'[job].client = old.client
        /\ copies'[job].fetched = TRUE
        /\ \A other \in DOMAIN copies \ {job} : copies'[other] = copies[other]
        /\ DOMAIN copies' = DOMAIN copies
    BY <1>1, <1>3, <1>4, <1>6
  <1>9. CopiesInv'
    <2> SUFFICES ASSUME NEW other \in DOMAIN copies
                 PROVE  /\ other.generation <= g
                        /\ ~copies'[other].fetched =>
                              copies'[other].state \in GlobalState
                        /\ other.generation = g =>
                              /\ OfSelection(copies'[other].client, other.namespace,
                                             client, namespace)
                              /\ copies'[other].state # NIL =>
                                    SoundNow(copies'[other].state.items)
      BY <1>1, <1>2, <1>8 DEF CopiesInv, SoundState, SoundNow
    <2>1. CASE other = job
      BY <1>4, <1>5, <1>7, <1>8, <2>1 DEF SessionInv, CopiesInv, SoundState
    <2>2. CASE other # job
      <3>1. copies'[other] = copies[other]
        BY <1>8, <2>2
      <3> QED BY <3>1 DEF SessionInv, CopiesInv, SoundState
    <2> QED BY <2>1, <2>2
  <1>10. AnswersInv' /\ ManagerInv' /\ UpdatesInv' /\ ShownInv'
    BY <1>1, <1>2 DEF SessionInv, AnswersInv, ManagerInv, UpdatesInv, ShownInv,
                      SoundState, SoundNow
  <1>11. RefreshInv'
    BY <1>2, NextKeepsInv DEF SessionInv
  <1>12. TypeOK'
    BY <1>11 DEF RefreshInv
  <1>13. SessionTypeOK'
    BY <1>1, <1>2, <1>3, <1>8, <1>12 DEF SessionTypeOK
  <1> QED BY <1>9, <1>10, <1>11, <1>13 DEF SessionInv

\* A task sends the state it has built.
LEMMA SessionTaskFinishesKeepsInv ==
    ASSUME SessionInv, NEW job \in DOMAIN copies, SessionTaskFinishes(job)
    PROVE  SessionInv'
  <1> DEFINE g == refresh.context_generation
             answer == copies[job].state
             gone == answer # NIL /\ job.namespace \notin answer.namespaces \cup {All}
             result == [job |-> job, namespace_gone |-> gone]
  <1>1. [Next]_vars
    BY SessionNextRefreshes DEF SessionNext, SessionInv
  <1>2. /\ refresh_rx' = Append(refresh_rx, result)
        /\ answers' = Append(answers, answer)
        /\ UNCHANGED <<namespace, switching, watching>>
        /\ UNCHANGED <<cluster, client, pending_context, global_state, watch_manager,
                       watch_rx, cleared>>
        /\ CopiesFollow
        /\ refresh' = [refresh EXCEPT !.running = @ \ {job}, !.aborting = @ \ {job}]
    BY DEF SessionTaskFinishes, TaskFinishes, Send
  <1>3. g' = g /\ g \in Nat
    BY <1>2, GenerationType DEF SessionInv, RefreshInv, TypeOK, RefreshRuntimeState
  <1>4. /\ refresh_rx \in Seq(RefreshAsyncResult)
        /\ answers \in Seq(GlobalState \cup {NIL}) /\ Len(answers) = Len(refresh_rx)
        /\ answer \in GlobalState \cup {NIL}
        /\ global_state \in GlobalState /\ client \in Contexts
        /\ cluster \in [Contexts -> [namespaces : SUBSET Namespaces,
                                     version : 1..MaxVersion]]
        /\ watch_manager \in WatchManager /\ watch_rx \in Seq(WatchUpdate)
        /\ pending_context \in Contexts \cup {NIL}
        /\ (switching <=> pending_context # NIL)
        /\ (watching <=> watch_manager.scope # {})
    BY DEF SessionInv, SessionTypeOK, RefreshInv, TypeOK
  <1>5. Carries
    BY <1>1, <1>2, CarriesMoves
  <1>6. /\ ManagerInv' /\ UpdatesInv' /\ ShownInv'
        /\ cleared' \in 0..refresh'.context_generation
    BY <1>2, <1>5, ManagerKept, UpdatesKept, ShownKept, ClearedKept
  <1>7. /\ CopiesInv'
        /\ copies' \in [refresh'.running \cup refresh'.aborting ->
                          [client : Contexts, state : GlobalState \cup {NIL},
                           fetched : BOOLEAN]]
    BY <1>1, <1>2, <1>4, <1>5, <1>6, CopiesKept
  <1>8. result.job = job
    OBVIOUS
  <1> HIDE DEF result, answer, gone
  <1>9. /\ answers' \in Seq(GlobalState \cup {NIL})
        /\ Len(answers') = Len(refresh_rx')
    BY <1>2, <1>4
  <1>10. AnswersInv'
    <2> SUFFICES ASSUME NEW i \in DOMAIN refresh_rx'
                 PROVE  /\ refresh_rx'[i].job.generation <= g
                        /\ (refresh_rx'[i].job.generation = g /\ answers'[i] # NIL) =>
                              SoundNow(answers'[i].items)
      BY <1>2, <1>3 DEF AnswersInv, SoundState, SoundNow
    <2>1. CASE i \in DOMAIN refresh_rx
      <3>1. refresh_rx'[i] = refresh_rx[i] /\ answers'[i] = answers[i]
        BY <1>2, <1>4, <2>1
      <3> QED BY <2>1, <3>1 DEF SessionInv, AnswersInv, SoundState
    <2>2. CASE i \notin DOMAIN refresh_rx
      <3>1. refresh_rx'[i] = result /\ answers'[i] = answer
        BY <1>2, <1>4, <2>2
      <3> QED BY <1>8, <3>1 DEF SessionInv, CopiesInv, SoundState, answer
    <2> QED BY <2>1, <2>2
  <1> QED BY <1>1, <1>2, <1>4, <1>6, <1>7, <1>9, <1>10, SessionInvParts

\* A result that is taken is of the current generation.
LEMMA SessionRefreshResultKeepsInv ==
    ASSUME SessionInv, SessionRefreshResult
    PROVE  SessionInv'
  <1> DEFINE g == refresh.context_generation
             job == Head(refresh_rx).job
             answer == Head(answers)
             taken == Accepts(refresh, job) /\ job.namespace = namespace /\ answer # NIL
  <1>1. [Next]_vars
    BY SessionNextRefreshes DEF SessionNext, SessionInv
  <1>2. /\ refresh_rx # <<>> /\ refresh_rx' = Tail(refresh_rx)
        /\ answers' = Tail(answers)
        /\ global_state' = IF taken THEN answer ELSE global_state
        /\ UNCHANGED <<switching, watching>>
        /\ UNCHANGED <<cluster, client, pending_context, watch_manager, watch_rx,
                       cleared>>
        /\ CopiesFollow
    BY DEF SessionRefreshResult, RefreshResult, Receive
  <1>3. /\ refresh_rx \in Seq(RefreshAsyncResult)
        /\ answers \in Seq(GlobalState \cup {NIL}) /\ Len(answers) = Len(refresh_rx)
        /\ global_state \in GlobalState /\ client \in Contexts
        /\ cluster \in [Contexts -> [namespaces : SUBSET Namespaces,
                                     version : 1..MaxVersion]]
        /\ watch_manager \in WatchManager /\ watch_rx \in Seq(WatchUpdate)
        /\ pending_context \in Contexts \cup {NIL}
        /\ (switching <=> pending_context # NIL)
        /\ (watching <=> watch_manager.scope # {})
    BY DEF SessionInv, SessionTypeOK, RefreshInv, TypeOK
  <1>4. Carries
    BY <1>1, <1>2, CarriesMoves
  <1>5. /\ 1 \in DOMAIN refresh_rx
        /\ Head(refresh_rx) = refresh_rx[1] /\ answer = answers[1]
        /\ answer \in GlobalState \cup {NIL}
    BY <1>2, <1>3
  <1>6. global_state' \in GlobalState
    BY <1>2, <1>3, <1>5
  <1>7. ShownInv'
    <2>1. CASE taken
      <3>1. refresh_rx[1].job.generation = g /\ answers[1] # NIL
        BY <1>5, <2>1 DEF Accepts
      <3>2. SoundNow(answer.items)
        BY <1>5, <3>1 DEF SessionInv, AnswersInv, SoundState
      <3>3. answer.items \in List \cup {EMPTY}
        BY <1>5, <2>1 DEF GlobalState
      <3>4. Sound(answer.items, g', cleared, client', namespace')
        BY <1>2, <1>4, <3>2, <3>3, SoundCarries DEF SoundNow
      <3> QED BY <1>2, <2>1, <3>4 DEF ShownInv, SoundNow
    <2>2. CASE ~taken
      BY <1>2, <1>4, <2>2, ShownKept
    <2> QED BY <2>1, <2>2
  <1> HIDE DEF taken, answer, job
  <1>8. AnswersInv'
    <2> SUFFICES ASSUME NEW i \in DOMAIN refresh_rx'
                 PROVE  /\ refresh_rx'[i].job.generation <= g'
                        /\ (/\ refresh_rx'[i].job.generation = g'
                            /\ answers'[i] # NIL) =>
                              Sound(answers'[i].items, g', cleared, client', namespace')
      BY <1>2 DEF AnswersInv, SoundState, SoundNow
    <2>1. /\ i + 1 \in DOMAIN refresh_rx /\ i + 1 \in DOMAIN answers
          /\ refresh_rx'[i] = refresh_rx[i + 1] /\ answers'[i] = answers[i + 1]
      BY <1>2, <1>3
    <2>2. /\ refresh_rx[i + 1] \in RefreshAsyncResult
          /\ answers[i + 1] \in GlobalState \cup {NIL}
      BY <1>3, <2>1
    <2>3. /\ refresh_rx[i + 1].job.generation \in Nat
          /\ refresh_rx[i + 1].job.generation <= g
          /\ (refresh_rx[i + 1].job.generation = g /\ answers[i + 1] # NIL) =>
                SoundNow(answers[i + 1].items)
      <3>1. refresh_rx[i + 1].job.generation \in Nat
        BY <2>2 DEF RefreshAsyncResult, Job
      <3> QED BY <2>1, <3>1 DEF SessionInv, AnswersInv, SoundState
    <2>4. g \in Nat
      BY GenerationType DEF SessionInv
    <2>5. CASE g' = g + 1
      BY <2>1, <2>3, <2>4, <2>5
    <2>6. CASE g' = g
      <3>1. SoundNow(answers[i + 1].items) /\ answers[i + 1] # NIL =>
              Sound(answers[i + 1].items, g', cleared, client', namespace')
        <4>1. answers[i + 1] # NIL => answers[i + 1].items \in List \cup {EMPTY}
          BY <2>2 DEF GlobalState
        <4> QED BY <1>2, <1>4, <4>1, SoundCarries DEF SoundNow
      <3> QED BY <2>1, <2>3, <2>6, <3>1
    <2> QED BY <1>4, <2>5, <2>6 DEF Carries
  <1>9. /\ ManagerInv' /\ UpdatesInv'
        /\ cleared' \in 0..refresh'.context_generation
    BY <1>2, <1>4, ManagerKept, UpdatesKept, ClearedKept
  <1>10. /\ CopiesInv'
         /\ copies' \in [refresh'.running \cup refresh'.aborting ->
                           [client : Contexts, state : GlobalState \cup {NIL},
                            fetched : BOOLEAN]]
    BY <1>1, <1>2, <1>3, <1>4, <1>6, <1>7, CopiesKept
  <1>11. /\ answers' \in Seq(GlobalState \cup {NIL})
         /\ Len(answers') = Len(refresh_rx')
    BY <1>2, <1>3
  <1> QED BY <1>1, <1>2, <1>3, <1>6, <1>7, <1>8, <1>9, <1>10, <1>11,
             SessionInvParts

\* A watcher reads its context and namespace, in the generation of its manager.
LEMMA WatchPublishesKeepsInv ==
    ASSUME SessionInv, NEW resource \in {Kind, "NAMESPACES"}, WatchPublishes(resource)
    PROVE  SessionInv'
  <1> DEFINE g == refresh.context_generation
             w == watch_manager
             read == Read(w.context, w.namespace, w.generation)
             listed == cluster[w.context].namespaces
             next == IF resource = Kind THEN [w EXCEPT !.items = read]
                     ELSE [w EXCEPT !.namespace_list = listed]
             update == IF resource = Kind
                       THEN [resource |-> resource, generation |-> w.generation,
                             items |-> next.items]
                       ELSE [resource |-> resource, generation |-> w.generation,
                             namespace_list |-> next.namespace_list]
  <1>1. /\ UNCHANGED <<vars, cluster, client, pending_context, global_state, copies,
                       answers, cleared>>
        /\ watch_manager' = next /\ watch_rx' = Append(watch_rx, update)
    BY DEF WatchPublishes
  <1>2. /\ refresh' = refresh /\ refresh_rx' = refresh_rx /\ namespace' = namespace
        /\ switching' = switching /\ watching' = watching /\ [Next]_vars
    BY <1>1 DEF vars
  <1>3. /\ w \in WatchManager /\ watch_rx \in Seq(WatchUpdate) /\ SessionTypeOK
        /\ w.context \in Contexts /\ w.namespace \in AnyNamespace
        /\ w.generation \in Nat
    BY DEF SessionInv, SessionTypeOK, WatchManager
  <1>4. /\ read \in List \cup {EMPTY}
        /\ read # EMPTY => /\ read.context = w.context /\ read.namespace = w.namespace
                           /\ read.generation = w.generation
    BY <1>3, ReadType
  <1>5. listed \in SUBSET Namespaces
    BY <1>3 DEF SessionTypeOK
  <1>6. w.generation <= g /\ (w.generation = g => SoundNow(read))
    <2>1. g \in Nat /\ cleared \in 0..g
      BY GenerationType DEF SessionInv, SessionTypeOK
    <2> HIDE DEF read
    <2> QED BY <1>4, <2>1 DEF SessionInv, ManagerInv, SoundNow, Sound, OfSelection
  <1> HIDE DEF read, listed
  <1>7. /\ next \in WatchManager /\ next.scope = w.scope
        /\ next.generation = w.generation /\ next.context = w.context
        /\ next.namespace = w.namespace
        /\ resource = Kind => next.items = read
        /\ resource # Kind => next.namespace_list = listed
    BY <1>3, <1>4, <1>5 DEF WatchManager
  <1>8. /\ update \in WatchUpdate /\ update.generation = w.generation
        /\ update.resource = resource
        /\ resource = Kind => update.items = read
    <2>1. CASE resource = Kind
      BY <1>3, <1>4, <1>7, <2>1, KindAssumption DEF WatchUpdate
    <2>2. CASE resource = "NAMESPACES"
      BY <1>3, <1>5, <1>7, <2>2, KindAssumption DEF WatchUpdate
    <2> QED BY <2>1, <2>2
  <1> HIDE DEF next, update
  <1>9. CopiesInv' /\ AnswersInv' /\ ShownInv'
    BY <1>1, <1>2 DEF SessionInv, CopiesInv, AnswersInv, ShownInv, SoundState,
                      SoundNow
  <1>10. ManagerInv'
    BY <1>1, <1>2, <1>7 DEF SessionInv, ManagerInv
  <1>11. UpdatesInv'
    <2> SUFFICES ASSUME NEW i \in DOMAIN watch_rx'
                 PROVE  /\ watch_rx'[i].generation <= g
                        /\ (/\ watch_rx'[i].resource = Kind
                            /\ watch_rx'[i].generation = g) =>
                              SoundNow(watch_rx'[i].items)
      BY <1>1, <1>2 DEF UpdatesInv, SoundNow
    <2>1. CASE i \in DOMAIN watch_rx
      <3>1. watch_rx'[i] = watch_rx[i]
        BY <1>1, <1>3, <2>1
      <3> QED BY <2>1, <3>1 DEF SessionInv, UpdatesInv
    <2>2. CASE i \notin DOMAIN watch_rx
      <3>1. watch_rx'[i] = update
        BY <1>1, <1>3, <2>2
      <3> QED BY <1>6, <1>8, <3>1
    <2> QED BY <2>1, <2>2
  <1>12. watch_rx' \in Seq(WatchUpdate)
    BY <1>1, <1>3, <1>8
  <1>13. RefreshInv'
    BY <1>2, NextKeepsInv DEF SessionInv
  <1>14. TypeOK'
    BY <1>13 DEF RefreshInv
  <1>15. SessionTypeOK'
    BY <1>1, <1>2, <1>3, <1>7, <1>12, <1>14 DEF SessionTypeOK
  <1> QED BY <1>9, <1>10, <1>11, <1>13, <1>15 DEF SessionInv

\* An update that is taken is of the current generation, even when it selects
\* all namespaces.
LEMMA WatchUpdateReceivedKeepsInv ==
    ASSUME SessionInv, WatchUpdateReceived
    PROVE  SessionInv'
  <1> DEFINE g == refresh.context_generation
             update == Head(watch_rx)
             next == Watched(global_state, update)
             taken == TakesUpdate(update)
  <1>1. [Next]_vars
    BY SessionNextRefreshes DEF SessionNext, SessionInv
  <1>2. /\ watch_rx # <<>> /\ watch_rx' = Tail(watch_rx)
        /\ global_state' = IF taken THEN next ELSE global_state
        /\ NamespaceGone \/ UNCHANGED vars
        /\ UNCHANGED <<cluster, client, pending_context, answers, watch_manager,
                       cleared>>
        /\ CopiesFollow
    BY DEF WatchUpdateReceived
  <1>3. UNCHANGED <<refresh_rx, switching, watching>>
    BY <1>2 DEF NamespaceGone, vars
  <1>4. /\ watch_rx \in Seq(WatchUpdate)
        /\ answers \in Seq(GlobalState \cup {NIL}) /\ Len(answers) = Len(refresh_rx)
        /\ global_state \in GlobalState /\ client \in Contexts
        /\ cluster \in [Contexts -> [namespaces : SUBSET Namespaces,
                                     version : 1..MaxVersion]]
        /\ watch_manager \in WatchManager
        /\ pending_context \in Contexts \cup {NIL}
        /\ (switching <=> pending_context # NIL)
        /\ (watching <=> watch_manager.scope # {})
    BY DEF SessionInv, SessionTypeOK
  <1>5. Carries
    BY <1>1, <1>2, CarriesMoves
  <1>6. /\ 1 \in DOMAIN watch_rx /\ update = watch_rx[1] /\ update \in WatchUpdate
    BY <1>2, <1>4
  <1>7. /\ next \in GlobalState
        /\ next.items \in {global_state.items}
              \cup (IF update.resource = Kind THEN {update.items} ELSE {})
    BY <1>4, <1>6, WatchedType
  <1>8. taken => update.generation = g
    BY DEF TakesUpdate
  <1> HIDE DEF next, taken
  <1>9. global_state' \in GlobalState
    BY <1>2, <1>4, <1>7
  <1>10. ShownInv'
    <2>1. SoundNow(global_state'.items)
      <3>1. CASE global_state'.items = global_state.items
        BY <3>1 DEF SessionInv, ShownInv
      <3>2. CASE global_state'.items # global_state.items
        <4>1. /\ taken /\ update.resource = Kind
              /\ global_state'.items = update.items
          BY <1>2, <1>7, <3>2
        <4> QED BY <1>6, <1>8, <4>1 DEF SessionInv, UpdatesInv
      <3> QED BY <3>1, <3>2
    <2>2. global_state'.items \in List \cup {EMPTY}
      BY <1>9 DEF GlobalState
    <2>3. Sound(global_state'.items, g', cleared, client', namespace')
      BY <1>2, <1>5, <2>1, <2>2, SoundCarries DEF SoundNow
    <2> QED BY <1>2, <2>3 DEF ShownInv, SoundNow
  <1> HIDE DEF update
  <1>11. UpdatesInv'
    <2> SUFFICES ASSUME NEW i \in DOMAIN watch_rx'
                 PROVE  /\ watch_rx'[i].generation <= g'
                        /\ (/\ watch_rx'[i].resource = Kind
                            /\ watch_rx'[i].generation = g') =>
                              Sound(watch_rx'[i].items, g', cleared, client', namespace')
      BY <1>2 DEF UpdatesInv, SoundNow
    <2>1. i + 1 \in DOMAIN watch_rx /\ watch_rx'[i] = watch_rx[i + 1]
      BY <1>2, <1>4
    <2>2. watch_rx[i + 1] \in WatchUpdate
      BY <1>4, <2>1
    <2>3. /\ watch_rx[i + 1].generation \in Nat
          /\ watch_rx[i + 1].resource = Kind =>
                watch_rx[i + 1].items \in List \cup {EMPTY}
      BY <2>2, KindAssumption DEF WatchUpdate
    <2>4. /\ watch_rx[i + 1].generation <= g
          /\ (watch_rx[i + 1].resource = Kind /\ watch_rx[i + 1].generation = g) =>
                SoundNow(watch_rx[i + 1].items)
      BY <2>1 DEF SessionInv, UpdatesInv
    <2>5. g \in Nat
      BY GenerationType DEF SessionInv
    <2>6. CASE g' = g + 1
      BY <2>1, <2>3, <2>4, <2>5, <2>6
    <2>7. CASE g' = g
      <3>1. (watch_rx[i + 1].resource = Kind /\ SoundNow(watch_rx[i + 1].items)) =>
              Sound(watch_rx[i + 1].items, g', cleared, client', namespace')
        BY <1>2, <1>5, <2>3, SoundCarries DEF SoundNow
      <3> QED BY <2>1, <2>4, <2>7, <3>1
    <2> QED BY <1>5, <2>6, <2>7 DEF Carries
  <1>12. /\ AnswersInv' /\ ManagerInv'
         /\ cleared' \in 0..refresh'.context_generation
    BY <1>2, <1>3, <1>5, AnswersKept, ManagerKept, ClearedKept
  <1>13. /\ CopiesInv'
         /\ copies' \in [refresh'.running \cup refresh'.aborting ->
                           [client : Contexts, state : GlobalState \cup {NIL},
                            fetched : BOOLEAN]]
    BY <1>1, <1>2, <1>4, <1>5, <1>9, <1>10, CopiesKept
  <1>14. watch_rx' \in Seq(WatchUpdate)
    BY <1>2, <1>4
  <1> QED BY <1>1, <1>2, <1>3, <1>4, <1>9, <1>10, <1>11, <1>12, <1>13, <1>14,
             SessionInvParts

\* The first refresh copies the empty state of the selected namespace.
LEMMA InitSessionInv == SessionInit => SessionInv
  <1> SUFFICES ASSUME SessionInit PROVE SessionInv
    OBVIOUS
  <1> DEFINE blank == [items |-> EMPTY, namespace_list |-> {}, namespaces |-> {}]
             first == [client |-> client, state |-> blank, fetched |-> FALSE]
             T == [client : Contexts, state : GlobalState \cup {NIL},
                   fetched : BOOLEAN]
             d == RefreshOptionsForView(view, view \in FluxViews, TRUE)
  <1>1. RefreshInv
    BY InitRefreshInv DEF SessionInit
  <1>2. /\ namespace \in AnyNamespace /\ view \in Views /\ refresh_rx = <<>>
        /\ switching = FALSE /\ watching = TRUE
        /\ refresh = RequestRefresh(IdleRefresh, namespace, d)
    BY DEF SessionInit, Init
  <1>3. /\ cluster = [ctx \in Contexts |-> [namespaces |-> Namespaces, version |-> 1]]
        /\ client \in Contexts /\ pending_context = NIL /\ global_state = blank
        /\ copies = [job \in refresh.running |-> first]
        /\ answers = <<>> /\ watch_rx = <<>> /\ cleared = 0
        /\ watch_manager = StartWatches(0, namespace, client, view)
    BY DEF SessionInit
  <1>4. /\ refresh.context_generation = 0 /\ refresh.aborting = {}
        /\ \A job \in refresh.running : job.generation = 0
              /\ (namespace # All => job.namespace = namespace)
    <2>1. d \in RefreshDispatch /\ CoreFirst(d)
      <3>1. (view \in FluxViews) \in BOOLEAN /\ TRUE \in BOOLEAN
        OBVIOUS
      <3> QED BY <1>2, <3>1, RefreshOptionsForViewType
    <2> HIDE DEF d
    <2>2. /\ RequestedFrom(IdleRefresh, namespace, d, refresh)
          /\ SpawnsFrom(IdleRefresh, namespace, refresh)
      BY <1>2, <2>1, IdleRefreshInv, RequestRefreshFields, RequestSpawns
    <2>3. /\ IdleRefresh.context_generation = 0 /\ IdleRefresh.in_flight = NIL
          /\ Tasks(IdleRefresh) = {} /\ IdleRefresh.aborting = {}
      BY DEF IdleRefresh, Tasks
    <2> HIDE DEF IdleRefresh
    <2> QED BY <2>2, <2>3 DEF RequestedFrom, Continues, SpawnsFrom, Tasks
  <1>5. /\ blank \in GlobalState /\ blank.items = EMPTY
        /\ first \in T /\ first.client = client /\ first.state = blank
        /\ first.fetched = FALSE
    BY <1>3 DEF GlobalState
  <1>6. /\ watch_manager \in WatchManager /\ watch_manager.scope # {}
        /\ watch_manager.generation = 0 /\ watch_manager.namespace = namespace
        /\ watch_manager.context = client
    BY <1>2, <1>3, StartWatchesType
  <1>7. cluster \in [Contexts -> [namespaces : SUBSET Namespaces,
                                  version : 1..MaxVersion]]
    <2>1. Namespaces \in SUBSET Namespaces /\ 1 \in 1..MaxVersion
      BY VersionAssumption
    <2> QED BY <1>3, <2>1
  <1> HIDE DEF blank, first, T
  <1>8. /\ copies \in [refresh.running \cup refresh.aborting -> T]
        /\ \A job \in DOMAIN copies : copies[job] = first
        /\ DOMAIN copies = refresh.running
    BY <1>3, <1>4, <1>5
  <1>9. SoundNow(EMPTY)
    BY DEF SoundNow, Sound
  <1>10. CopiesInv
    BY <1>4, <1>5, <1>8, <1>9 DEF CopiesInv, SoundState, OfSelection
  <1>11. AnswersInv /\ UpdatesInv
    BY <1>2, <1>3 DEF AnswersInv, UpdatesInv
  <1>12. ManagerInv /\ ShownInv
    BY <1>3, <1>4, <1>5, <1>6, <1>9 DEF ManagerInv, ShownInv, OfSelection
  <1>13. SessionTypeOK
    <2>1. TypeOK
      BY <1>1 DEF RefreshInv
    <2>2. /\ answers \in Seq(GlobalState \cup {NIL}) /\ Len(answers) = Len(refresh_rx)
          /\ watch_rx \in Seq(WatchUpdate)
          /\ cleared \in 0..refresh.context_generation
      <3>1. /\ <<>> \in Seq(GlobalState \cup {NIL}) /\ <<>> \in Seq(WatchUpdate)
            /\ 0 \in 0..0
        OBVIOUS
      <3> QED BY <1>2, <1>3, <1>4, <3>1
    <2> QED BY <1>2, <1>3, <1>5, <1>6, <1>7, <1>8, <2>1, <2>2 DEF SessionTypeOK, T
  <1> QED BY <1>1, <1>10, <1>11, <1>12, <1>13 DEF SessionInv

-----------------------------------------------------------------------------
(* The theorems.                                                           *)

\* SessionInv is inductive.
LEMMA SessionNextKeepsInv ==
    ASSUME SessionInv, [SessionNext]_session_vars
    PROVE  SessionInv'
  <1>1. ASSUME NEW ctx \in Contexts, NEW version \in 1..MaxVersion,
               \/ ClusterChanges(ctx, version)
               \/ \E ns \in Namespaces : NamespaceDeleted(ctx, ns, version)
        PROVE  SessionInv'
    BY <1>1, ClusterStepsKeepInv
  <1>2. CASE SessionAsks
    BY <1>2, SessionAsksKeepsInv
  <1>3. ASSUME NEW ns \in AnyNamespace, NEW v \in Views,
               SessionSelectNamespace(ns, v)
        PROVE  SessionInv'
    BY <1>3, SessionSelectNamespaceKeepsInv
  <1>4. ASSUME NEW ctx \in Contexts, SessionSelectContext(ctx) PROVE SessionInv'
    BY <1>4, SessionSelectContextKeepsInv
  <1>5. ASSUME NEW ns \in AnyNamespace, NEW v \in Views,
               SessionContextSwitchSucceeds(ns, v)
        PROVE  SessionInv'
    BY <1>5, SessionContextSwitchSucceedsKeepsInv
  <1>6. CASE SessionContextSwitchFails
    BY <1>6, SessionContextSwitchFailsKeepsInv
  <1>7. ASSUME NEW job \in DOMAIN copies, NEW got, NEW failed,
               TaskFetches(job, got, failed)
        PROVE  SessionInv'
    BY <1>7, TaskFetchesKeepsInv
  <1>8. ASSUME NEW job \in DOMAIN copies, SessionTaskFinishes(job)
        PROVE  SessionInv'
    BY <1>8, SessionTaskFinishesKeepsInv
  <1>9. ASSUME NEW job \in refresh.aborting, SessionTaskAborted(job)
        PROVE  SessionInv'
    BY <1>9, SessionTaskAbortedKeepsInv
  <1>10. CASE SessionRefreshResult
    BY <1>10, SessionRefreshResultKeepsInv
  <1>11. ASSUME NEW resource \in {Kind, "NAMESPACES"}, WatchPublishes(resource)
         PROVE  SessionInv'
    BY <1>11, WatchPublishesKeepsInv
  <1>12. CASE WatchUpdateReceived
    BY <1>12, WatchUpdateReceivedKeepsInv
  <1>13. CASE UNCHANGED session_vars
    <2>1. /\ UNCHANGED <<vars, client, pending_context, global_state, copies, answers,
                         watch_manager, watch_rx, cleared>>
          /\ cluster' \in [Contexts -> [namespaces : SUBSET Namespaces,
                                        version : 1..MaxVersion]]
      BY <1>13 DEF session_vars, data, SessionInv, SessionTypeOK
    <2> QED BY <2>1, QuietStepKeepsInv
  <1> QED BY <1>1, <1>2, <1>3, <1>4, <1>5, <1>6, <1>7, <1>8, <1>9, <1>10, <1>11,
             <1>12, <1>13 DEF SessionNext

THEOREM SessionIsSound == SessionSpec => []SessionInv
  BY InitSessionInv, SessionNextKeepsInv, PTL DEF SessionSpec

\* The data and the pipeline together keep their types, a copy for every task
\* and an answer for every result among them.
THEOREM SessionTypeCorrect == SessionSpec => []SessionTypeOK
  <1>1. SessionInv => SessionTypeOK
    BY DEF SessionInv
  <1> QED BY <1>1, SessionIsSound, PTL

\* Whatever the tasks read, whenever they answer and whichever fetches fail,
\* what a switch has cleared never comes back.
THEOREM ClearedDataNeverReturns == SessionSpec => []ClearedDataStaysCleared
  <1>1. SessionInv => ClearedDataStaysCleared
    BY DEF SessionInv, ShownInv, SoundNow, Sound, ClearedDataStaysCleared
  <1> QED BY <1>1, SessionIsSound, PTL

\* What the current generation has read is of the selected context and
\* namespace.
THEOREM CurrentDataIsOfSelection == SessionSpec => []DataOfSelection
  <1>1. SessionInv => DataOfSelection
    BY DEF SessionInv, ShownInv, SoundNow, Sound, OfSelection, DataOfSelection
  <1> QED BY <1>1, SessionIsSound, PTL

\* The program starts in generation 0.
LEMMA InitGeneration ==
    ASSUME SessionInit
    PROVE  /\ namespace \in AnyNamespace
           /\ refresh.context_generation = 0
  <1> DEFINE d == RefreshOptionsForView(view, view \in FluxViews, TRUE)
  <1>1. /\ namespace \in AnyNamespace /\ view \in Views
        /\ refresh = RequestRefresh(IdleRefresh, namespace, d)
    BY DEF SessionInit, Init
  <1>2. d \in RefreshDispatch /\ CoreFirst(d)
    <2>1. (view \in FluxViews) \in BOOLEAN /\ TRUE \in BOOLEAN
      OBVIOUS
    <2> QED BY <1>1, <2>1, RefreshOptionsForViewType
  <1> HIDE DEF d
  <1>3. RequestedFrom(IdleRefresh, namespace, d, refresh)
    BY <1>1, <1>2, IdleRefreshInv, RequestRefreshFields
  <1>4. refresh.context_generation = 0
    BY <1>3 DEF RequestedFrom, Continues, IdleRefresh
  <1> QED BY <1>1, <1>4

\* The watchers that run are those of the current generation.
WatchingInv == watching => watch_manager.generation = refresh.context_generation

LEMMA WithinKeepsWatching ==
    ASSUME SessionInv, SessionInv', WatchingInv, Within,
           watch_manager'.generation = watch_manager.generation,
           watch_manager'.scope # {} => watch_manager.scope # {}
    PROVE  WatchingInv'
  <1>1. refresh'.context_generation = refresh.context_generation
    BY WithinStays DEF Stays, SessionInv
  <1>2. watching' => watching
    BY DEF SessionInv, SessionTypeOK
  <1> QED BY <1>1, <1>2 DEF WatchingInv

LEMMA SessionNextKeepsWatching ==
    SessionInv /\ SessionInv' /\ WatchingInv /\ [SessionNext]_session_vars =>
        WatchingInv'
  <1> SUFFICES ASSUME SessionInv, SessionInv', WatchingInv,
                      [SessionNext]_session_vars
               PROVE  WatchingInv'
    OBVIOUS
  <1>1. DOMAIN copies = refresh.running \cup refresh.aborting
          /\ watch_manager \in WatchManager
    BY DEF SessionInv, SessionTypeOK
  <1>2. ASSUME Within, UNCHANGED watch_manager PROVE WatchingInv'
    BY <1>2, WithinKeepsWatching
  <1>3. ASSUME NEW ctx, NEW version,
               \/ ClusterChanges(ctx, version)
               \/ \E ns \in Namespaces : NamespaceDeleted(ctx, ns, version)
        PROVE  WatchingInv'
    BY <1>2, <1>3 DEF ClusterChanges, NamespaceDeleted, Within
  <1>4. CASE SessionAsks
    <2>1. Within /\ watch_manager' = EnsureWatches(watch_manager, view')
      BY <1>4 DEF SessionAsks, Asks, AfterAsking, Within
    <2>2. /\ watch_manager'.generation = watch_manager.generation
          /\ watch_manager'.scope # {} => watch_manager.scope # {}
      BY <1>1, <2>1, EnsureWatchesType
    <2> QED BY <2>1, <2>2, WithinKeepsWatching
  <1>5. CASE SessionContextSwitchFails
    BY <1>2, <1>5 DEF SessionContextSwitchFails, Within
  <1>6. ASSUME NEW job, NEW got, NEW failed, TaskFetches(job, got, failed)
        PROVE  WatchingInv'
    BY <1>2, <1>6 DEF TaskFetches, Within
  <1>7. ASSUME NEW job \in DOMAIN copies, SessionTaskFinishes(job)
        PROVE  WatchingInv'
    <2> DEFINE gone == copies[job].state # NIL
                 /\ job.namespace \notin copies[job].state.namespaces \cup {All}
    <2>1. /\ TaskFinishes(job, gone) /\ gone \in BOOLEAN
          /\ UNCHANGED watch_manager
      BY <1>7 DEF SessionTaskFinishes
    <2> HIDE DEF gone
    <2> QED BY <1>1, <1>2, <2>1 DEF Within
  <1>8. ASSUME NEW job \in refresh.aborting, SessionTaskAborted(job)
        PROVE  WatchingInv'
    BY <1>2, <1>8 DEF SessionTaskAborted, Within
  <1>9. CASE SessionRefreshResult
    BY <1>2, <1>9 DEF SessionRefreshResult, Within
  <1>10. ASSUME NEW resource, WatchPublishes(resource) PROVE WatchingInv'
    <2>1. UNCHANGED <<watching, refresh>>
      BY <1>10 DEF WatchPublishes, vars
    <2>2. \/ watch_manager' = [watch_manager EXCEPT !.items = watch_manager'.items]
          \/ watch_manager' = [watch_manager EXCEPT
                                  !.namespace_list = watch_manager'.namespace_list]
      BY <1>1, <1>10 DEF WatchPublishes, WatchManager
    <2>3. watch_manager'.generation = watch_manager.generation
      BY <1>1, <2>2 DEF WatchManager
    <2> QED BY <2>1, <2>3 DEF WatchingInv
  <1>11. CASE WatchUpdateReceived
    <2>1. (UNCHANGED vars \/ NamespaceGone) /\ UNCHANGED watch_manager
      BY <1>11 DEF WatchUpdateReceived, vars
    <2> QED BY <1>2, <2>1 DEF Within
  <1>12. CASE UNCHANGED session_vars
    BY <1>2, <1>12 DEF session_vars, data, Within
  <1>13. ASSUME NEW ns, NEW v, SessionSelectNamespace(ns, v) PROVE WatchingInv'
    BY <1>13 DEF SessionSelectNamespace, StartWatches, WatchingInv
  <1>14. ASSUME NEW ctx, SessionSelectContext(ctx) PROVE WatchingInv'
    BY <1>14 DEF SessionSelectContext, SelectContext, WatchingInv
  <1>15. ASSUME NEW ns, NEW v, SessionContextSwitchSucceeds(ns, v)
         PROVE  WatchingInv'
    BY <1>15 DEF SessionContextSwitchSucceeds, StartWatches, WatchingInv
  <1> QED BY <1>3, <1>4, <1>5, <1>6, <1>7, <1>8, <1>9, <1>10, <1>11, <1>12, <1>13,
             <1>14, <1>15 DEF SessionNext

\* Running watchers read the connected cluster and the selected namespace and
\* what they publish is taken, whatever is selected while a switch is pending
\* and however it ends.
THEOREM WatchersAlwaysServeSelection == SessionSpec => []WatchersServeSelection
  <1>1. SessionInit => WatchingInv
    <2> SUFFICES ASSUME SessionInit PROVE WatchingInv
      OBVIOUS
    <2>1. refresh.context_generation = 0
      BY InitGeneration
    <2> QED BY <2>1 DEF SessionInit, StartWatches, WatchingInv
  <1>2. SessionInv /\ WatchingInv => WatchersServeSelection
    BY DEF SessionInv, ManagerInv, OfSelection, WatchingInv, WatchersServeSelection
  <1> QED BY <1>1, <1>2, SessionNextKeepsWatching, SessionIsSound, PTL
             DEF SessionSpec

\* The session does to the pipeline only what the pipeline allows, so what is
\* proved of the pipeline holds of the session.
THEOREM SessionRefreshes == SessionSpec => Spec
  <1>1. SessionInit => Init
    BY DEF SessionInit
  <1>2. SessionInv /\ [SessionNext]_session_vars => [Next]_vars
    BY SessionNextRefreshes DEF SessionInv
  <1> QED BY <1>1, <1>2, SessionIsSound, PTL DEF SessionSpec, Spec

-----------------------------------------------------------------------------
(* The promise of module SelectedData                                      *)

\* A step that stays in the generation shows what the invariant allows.
LEMMA StepShows ==
    ASSUME SessionInv', namespace' \in {namespace, All},
           refresh'.context_generation = refresh.context_generation,
           UNCHANGED <<client, cleared>>
    PROVE  Abstract!Show
  <1> DEFINE items == global_state.items
  <1>1. global_state' \in GlobalState /\ SoundNow(global_state.items)'
          /\ refresh'.context_generation \in Nat /\ cleared' \in Nat
    BY DEF SessionInv, ShownInv, SessionTypeOK, RefreshInv, TypeOK,
           RefreshRuntimeState
  <1>2. CASE items' = EMPTY
    <2>1. Showing' = NIL
      BY <1>2 DEF Showing
    <2> QED BY <2>1 DEF Abstract!Show
  <1>3. CASE items' # EMPTY
    <2>1. items' \in List
      BY <1>1, <1>3 DEF GlobalState
    <2>2. /\ Showing' = [client |-> items'.context, namespace |-> items'.namespace,
                         generation |-> items'.generation]
          /\ Showing' \in Abstract!Data
      BY <1>3, <2>1 DEF Showing, List, Abstract!Data, AnyNamespace,
         Abstract!AnyNamespace
    <2>3. /\ items'.generation \in cleared..refresh.context_generation
          /\ items'.generation = refresh.context_generation =>
                /\ items'.context = client
                /\ namespace' # All => items'.namespace = namespace'
      BY <1>1, <1>3, <2>1 DEF SoundNow, Sound, OfSelection, List
    <2>4. Abstract!Fits(Showing', namespace')
      BY <2>2, <2>3 DEF Abstract!Fits
    <2> QED BY <2>2, <2>4 DEF Abstract!Show
  <1> QED BY <1>2, <1>3

LEMMA SessionWithinShows ==
    ASSUME SessionInv, SessionInv', Within, UNCHANGED <<client, cleared>>
    PROVE  Abstract!Show
  <1>1. Stays
    BY WithinStays DEF SessionInv
  <1> QED BY <1>1, StepShows DEF Stays

LEMMA SessionNextShows ==
    SessionInv /\ SessionInv' /\ [SessionNext]_session_vars =>
        [Abstract!Next]_Abstract!vars
  <1> SUFFICES ASSUME SessionInv, SessionInv', [SessionNext]_session_vars
               PROVE  Abstract!Next
    OBVIOUS
  <1>1. DOMAIN copies = refresh.running \cup refresh.aborting
    BY DEF SessionInv, SessionTypeOK
  <1>2. ASSUME Within, UNCHANGED <<client, cleared>> PROVE Abstract!Next
    BY <1>2, SessionWithinShows DEF Abstract!Next
  <1>3. ASSUME NEW ctx, NEW version,
               \/ ClusterChanges(ctx, version)
               \/ \E ns \in Namespaces : NamespaceDeleted(ctx, ns, version)
        PROVE  Abstract!Next
    BY <1>2, <1>3 DEF ClusterChanges, NamespaceDeleted, Within
  <1>4. CASE SessionAsks
    BY <1>2, <1>4 DEF SessionAsks, Asks, AfterAsking, Within
  <1>5. CASE SessionContextSwitchFails
    BY <1>2, <1>5 DEF SessionContextSwitchFails, Within
  <1>6. ASSUME NEW job, NEW got, NEW failed, TaskFetches(job, got, failed)
        PROVE  Abstract!Next
    BY <1>2, <1>6 DEF TaskFetches, Within
  <1>7. ASSUME NEW job \in DOMAIN copies, SessionTaskFinishes(job)
        PROVE  Abstract!Next
    <2> DEFINE gone == copies[job].state # NIL
                 /\ job.namespace \notin copies[job].state.namespaces \cup {All}
    <2>1. /\ TaskFinishes(job, gone) /\ gone \in BOOLEAN
          /\ UNCHANGED <<client, cleared>>
      BY <1>7 DEF SessionTaskFinishes
    <2> HIDE DEF gone
    <2> QED BY <1>1, <1>2, <2>1 DEF Within
  <1>8. ASSUME NEW job \in refresh.aborting, SessionTaskAborted(job)
        PROVE  Abstract!Next
    BY <1>2, <1>8 DEF SessionTaskAborted, Within
  <1>9. CASE SessionRefreshResult
    BY <1>2, <1>9 DEF SessionRefreshResult, Within
  <1>10. ASSUME NEW resource, WatchPublishes(resource) PROVE Abstract!Next
    BY <1>2, <1>10 DEF WatchPublishes, Within
  <1>11. CASE WatchUpdateReceived
    <2>1. (UNCHANGED vars \/ NamespaceGone) /\ UNCHANGED <<client, cleared>>
      BY <1>11 DEF WatchUpdateReceived, vars
    <2> QED BY <1>2, <2>1 DEF Within
  <1>12. CASE UNCHANGED session_vars
    BY <1>2, <1>12 DEF session_vars, data, Within
  <1>13. ASSUME NEW ns \in AnyNamespace, NEW v \in Views,
                SessionSelectNamespace(ns, v)
         PROVE  Abstract!Next
    <2>1. SelectNamespace(ns, v)
      BY <1>13 DEF SessionSelectNamespace
    <2>2. /\ ViewDispatch(v) \in RefreshDispatch /\ CoreFirst(ViewDispatch(v))
          /\ namespace' = ns
          /\ refresh' = RequestRefresh(NewGeneration(refresh), ns, ViewDispatch(v))
      BY <2>1, ViewDispatchType DEF SelectNamespace
    <2>3. refresh'.context_generation = refresh.context_generation + 1
      BY <2>2, NewGenerationMoves DEF SessionInv
    <2>4. Showing' = NIL /\ cleared' = refresh'.context_generation
            /\ UNCHANGED client
      BY <1>13 DEF SessionSelectNamespace, Cleared, Showing
    <2> QED BY <2>2, <2>3, <2>4 DEF Abstract!Select, Abstract!Next, AnyNamespace,
               Abstract!AnyNamespace
  <1>14. ASSUME NEW ctx, SessionSelectContext(ctx) PROVE Abstract!Next
    <2>1. /\ refresh' = [refresh EXCEPT !.context_generation = @ + 1]
          /\ refresh \in RefreshRuntimeState /\ UNCHANGED <<namespace, client>>
      BY <1>14 DEF SessionSelectContext, SelectContext, InvalidateGeneration,
         SessionInv, RefreshInv, TypeOK
    <2>2. refresh'.context_generation = refresh.context_generation + 1
      BY <2>1 DEF RefreshRuntimeState
    <2>3. Showing' = NIL /\ cleared' = refresh'.context_generation
      BY <1>14 DEF SessionSelectContext, Cleared, Showing
    <2> QED BY <2>1, <2>2, <2>3 DEF Abstract!Disconnect, Abstract!Next
  <1>15. ASSUME NEW ns \in AnyNamespace, NEW v \in Views,
                SessionContextSwitchSucceeds(ns, v)
         PROVE  Abstract!Next
    <2> DEFINE d == RefreshOptionsForView(v, v \in FluxViews, TRUE)
    <2>1. /\ namespace' = ns
          /\ refresh' = RequestRefresh(NewGeneration(refresh), ns, d)
      BY <1>15 DEF SessionContextSwitchSucceeds, ContextSwitchSucceeds
    <2>2. (v \in FluxViews) \in BOOLEAN /\ TRUE \in BOOLEAN
      OBVIOUS
    <2>3. d \in RefreshDispatch /\ CoreFirst(d)
      BY <2>2, RefreshOptionsForViewType
    <2> HIDE DEF d
    <2>4. refresh'.context_generation = refresh.context_generation + 1
      BY <2>1, <2>3, NewGenerationMoves DEF SessionInv
    <2>5. client' \in Contexts
      BY DEF SessionInv, SessionTypeOK
    <2>6. UNCHANGED <<cleared, Showing>>
      BY <1>15 DEF SessionContextSwitchSucceeds, Showing
    <2> QED BY <2>1, <2>4, <2>5, <2>6 DEF Abstract!Connect, Abstract!Next,
               AnyNamespace, Abstract!AnyNamespace
  <1> QED BY <1>3, <1>4, <1>5, <1>6, <1>7, <1>8, <1>9, <1>10, <1>11, <1>12, <1>13,
             <1>14, <1>15 DEF SessionNext

\* What the views show of a watched resource is what SelectedData promises, for
\* any clusters, namespaces and views and any number of switches.
THEOREM SessionShowsSelectedData == SessionSpec => ShowsSelectedData
  <1>1. SessionInit => Abstract!Init
    <2> SUFFICES ASSUME SessionInit PROVE Abstract!Init
      OBVIOUS
    <2>1. namespace \in AnyNamespace /\ refresh.context_generation = 0
      BY InitGeneration
    <2> QED BY <2>1 DEF SessionInit, Abstract!Init, Showing, AnyNamespace,
               Abstract!AnyNamespace
  <1> QED BY <1>1, SessionNextShows, SessionIsSound, PTL
             DEF SessionSpec, ShowsSelectedData, Abstract!Spec

=============================================================================
