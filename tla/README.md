# TLA+ models of Kubectui

Kubectui is a terminal user interface for Kubernetes. One event loop
(`src/src/main.rs`, a biased `tokio::select!`) owns the state of the program;
everything slow runs in spawned tasks that work on copies and answer through
channels. What is hard about the program is therefore neither locking nor
rendering: it is that **answers arrive later than the state they were asked
for** – after the user has selected another namespace, while a switch to another
cluster is pending, after a watcher has written a newer list, after the tab was
closed, after the task was aborted. These modules model that core, check it with
TLC and prove the safety part of it with TLAPS.

Paths below are relative to `src/src/` unless they start with `README` or `docs`.

## 1. Inventory

| component | state | operations | interacts with | what makes it correct |
|---|---|---|---|---|
| **Refresh pipeline** `event_handlers.rs`, `async_types.rs`, `mutation_helpers.rs` | `RefreshRuntimeState`: one refresh in flight, one queued, request and generation counters | `request_refresh` (two phases, preemption, merging), `abort_in_flight_refresh`, the `refresh_rx` handler, deferred refreshes after a mutation | spawns tasks; result through `refresh_rx` | a refresh waited for is always answered; the queued one always starts; nothing is fetched for a namespace that was left; merging never loses a core scope; only a backfill is preempted |
| **Scopes and view tables** `state/mod.rs`, `mutation_helpers.rs`, `app/views.rs` | 25 flags | what a view needs, requests and watches | parameters of the above | a core scope is never fetched with `skip_core` |
| **Events fetch** `event_handlers.rs` | `EventsFetchRuntimeState`: one fetch in flight, one queued namespace | `request_events_refresh`, the abort, the `events_rx` handler | spawns tasks; a refresh copies and overwrites the events | the queue is only behind another fetch; what is fetched and shown is of the selection; the latest events come to be shown |
| **Cluster state** `state/mod.rs`, `state/refresh.rs`, `state/fetch.rs` | `GlobalState`: lists, namespaces, snapshot | copied into a task, replaced by its result, cleared by a switch, written by watch updates | refreshes, events and watchers all write it | shows the selected namespace and the connected cluster; what was cleared stays cleared |
| **Watchers** `state/watch.rs` | `WatchManager`: active scope; per resource a stream, a `ResourceStore`, a debounce | `ensure_watches`, `stop_all`, `Init`/`InitApply`/`InitDone`/`Apply`/`Delete` | updates through `watch_rx` | the published list is one the cluster had, never a mixture, never of a stopped session, and in the end its own |
| **Context and namespace switch** `main.rs` | context generation, pending connection | `SelectNamespace`, `SelectContext`, success, failure, the fallback to all namespaces | resets almost every other component | no data, task, stream or shell of the old selection survives |
| **Update coordinator** `coordinator/` | `log_tasks` by namespace, pod and container | start, stop, shut-down, the end of a task | statuses through `update_rx`; started and stopped by tabs | the registry holds exactly the streams that run |
| **Exec and debug sessions** `k8s/exec.rs`, `k8s/node_debug.rs`, `action/node_debug.rs` | handles by session, debug pods by session, the dialog's pending launch | launch, attach, restart, end, clean up | tabs, detail panel, quit | every debug pod has exactly one owner that will delete it; a shell can be seen and stopped |
| **Mutations** `action/`, `action_history.rs`, `flux_reconcile.rs` | history of bounded length, guards, tab locks, verifications | submit, result, verify | ask for refreshes; lock tabs | an entry is settled once; an operation excludes its like and never blocks it for good |
| **Workbench and details** `workbench.rs`, `action/detail_tabs.rs`, `app/workbench.rs`, `app/detail_state.rs`, `secret.rs` | the detail panel, tabs with their pending request ids, entries of decoded Secrets | open, ask, apply a result, edit, save, close, restore | tasks that answer through result channels; closed by a switch | a result reaches the tab that asked for it and no other; nothing loads for ever; what is edited is kept, and saved into the YAML it was decoded from; no session outlives its tab |
| **Port forwarding** `k8s/portforward.rs`, `app/port_forward.rs`, `ui/components/port_forward_dialog.rs` | tunnels and listener handles of the service; the view's and the dialog's list | create, stop, stop all, select | awaited by the loop; stopped by every switch | every listener is of the connected cluster and can be stopped; a target has one tunnel; the lists are true and the selection stays with its tunnel |
| **Kubernetes client** `k8s/client.rs` ... | – | requests, conversion | API server | I/O; external to these models |
| **Input, navigation, persistence, analyses, AI, user interface** | local | sequential | – | unit-tested; not modelled |

`PROJECT.json` lists the same components with their files, and every hazard with
the line where it bites and the property that watches it.

## 2. Modules

```
Scopes <- Refresh <---.
             |         SessionProofs      (Session implements Refresh)
          Session <---'

abstract          component         proofs
SelectedData  <-- Session       <-- SessionProofs
SelectedData  <-- EventsFetch   <-- EventsFetchProofs
PublishedList <-- WatchStream   <-- WatchStreamProofs
DebugPods     <-- DebugSessions <-- DebugSessionsProofs
ActionHistory <-- Mutations     <-- MutationsProofs
ServedTunnels <-- PortForward   <-- PortForwardProofs
                  LogStreams    <-- LogStreamsProofs
                  DetailTabs    <-- DetailTabsProofs
```

An abstract module says what its component promises, in terms of what the user or
the cluster can see, without queues, tasks, request ids or registries. The component
instantiates it (`Abstract == INSTANCE ... WITH ...`), TLC checks `Abstract!Spec` as
a property of the run, and a theorem proves it.

Each component has an `MC` module with the sets for
TLC. The modules from `EventsFetch` on share the switch of namespace and context: each
models, in its own variables, what the same handlers (`SelectNamespace`,
`SelectContext`, `ContextSwitchSucceeds`, `ContextSwitchFails`) do to its
component. They are separate because nothing else couples them: their only common
state is the generation, the client and the selected namespace.

**Scopes** holds the tables: `RefreshScope` and its groups, `view_ready_scope`,
`refresh_options_for_view`, `watch_scope_for_view`,
`strip_active_watch_scope_from_refresh`. The sets are those of the code, so that
what two requests merge into is what the program would fetch.

**Refresh** is when a refresh runs. `refresh` is `RefreshRuntimeState`; the five
`in_flight_*` fields are one record (`in_flight`, a `Job`, or `NIL`), and the
tasks, which the code keeps in the Tokio runtime, are the sets `running` and
`aborting`. An aborted task may be past its last await, so `TaskFinishes` is
enabled for it as well as `TaskAborted`. `request_refresh` is a function of the
state (`RequestRefresh`, composed of `Preempt`, `StartNow`, `MergeIntoQueue`),
and every handler that calls it is one action. Whether a result finds the selected
namespace missing is a free choice here; Session decides it.

**Session** is what a refresh reads and what is shown. It extends Refresh: each of
its actions is the action of Refresh together with what the same handler does to
the data. Every task has a copy of the state and the client it was spawned with
(`copies`), every result the state it carries (`answers`, in step with
`refresh_rx`), and `watch_manager`/`watch_rx` are the watchers and their updates.
One watched resource (`Kind`) and the list of namespaces stand for the others. A
list is a record of where it was read – cluster, namespace, version, and the
generation of the request – which is all the properties tell apart.
`global_state.namespaces` is kept beside `namespace_list` because the code lets
the two disagree. `cleared` is the only history variable.

**WatchStream** is one watcher: the stream of kube's `watcher` (external: a list in
pages, then deltas, errors and relists), the `ResourceStore` with its `items` and
`init_buffer`, the publish ticker, the bounded channel and the handler. A list maps
uids to values or `ABSENT`. `history` keeps the lists the cluster has had, for the
abstract specification **PublishedList**: what is shown is always one of them.
The mapping is the identity on `history` and `shown`.

**SelectedData** is the promise that Session and EventsFetch share, each for its own
data: a change of the selection clears what is shown (`cleared` is the generation in
which that happened), nothing that was asked for before is shown again, and what was
asked for in the current generation is of the connected cluster and the selected
namespace. `Showing` maps a list of the session, or the events, to where it was read
and for which generation. The exceptions of the code are in the abstract actions: what
is shown while a switch of context is pending stays when it ends (`Connect`), and a
selection can widen to all namespaces (`Show`).

**EventsFetch** is `request_events_refresh` and all its callers, the fetch tasks, and
what refreshes do to the events: each works on a copy of `GlobalState` and puts it
in place, older events and "loading" flag included.

**LogStreams** is the registry of the coordinator, the tasks (connecting, fetching,
following, cleaning up, with the state of their cancel channel), the `PodLogs` tab
and the two `WorkloadLogs` tabs of one pod, targets that are resolved in the
background, and the four statuses that change a tab. A new coordinator (a context
switch) keeps the tasks of the old one in `tasks`, by `of`. Hiding the workbench stops
what it follows; whether it is shown changes nothing else and is not kept.

**DebugSessions** is the path of a node debug pod: the dialog in the detail panel, the
launch task (create, wait until ready, undo), its result and who owns it by then,
the exec session and its tab, the end of the shell, the clean-up task. One number
stands for the launch, its pod and its shell, as in the code; a restarted shell has
a number of its own and no pod. `Quit` is the end of `run_app`.

**DebugPods** is the promise: from its creation to its deletion a pod has exactly one
party that has to delete it – its launch, its shell or a clean-up –, it changes hands in
that direction only, and whoever has it deletes it. `HoldersOf` collects the parties
from the launches (their unread results included), `node_debug_sessions` and the
clean-ups, so that two at once would violate the specification.

**Mutations** is every background mutation by what waits for it. "update" stands for
scaling, waiting until ready, triggering and suspending a CronJob, which start and
end alike; delete and node operations have their guards, rollouts and Helm
rollbacks lock a tab, a Flux reconcile leaves a verification with a deadline. Tabs
request inspections whose request id decides which answer they take.

**ActionHistory** is what the history promises: it shows the newest mutations in the
order of their starts, a mutation is settled once, by its own end or, for a reconcile
that was accepted, by its verification, and none is a success that ends after the
selection it was started in was left. The mapping keeps the entries and takes from a
task its id and whether it is `stale`; guards, tabs, verifications and generations are
the implementation's.

**PortForward** is the forwarder's service (`tunnels`, and `handles`, whose tasks it can
abort), the `listeners` by local port, the creation of a tunnel with its awaits
(`creating`: looked up, registered, bound), the two lists and the dialog's selection,
which is an index there and here, and the switches. The loop awaits the creation, so
the keys are disabled meanwhile, while listeners end and other processes bind ports. Tunnels are
ordered by numbers. Accepted connections, the form, the filter of the view and the end
of the program are left out.

**ServedTunnels** is the promise: what serves a port leads to the connected cluster, is
alone on its port and on its target, and is listed until it is stopped; a switch serves
nothing any more. `Served` are the listeners that were not told to stop, the list is the
one the view shows; registration, handles and the steps of the creation are hidden.

**DetailTabs** is the detail panel and the tabs of one resource: YAML, events, drift and
the decoded Secret. `request_seq` are the two counters (`"detail"`, `"diff"`), a
request is a task until it has read and an answer until the loop takes it, and
`pending_request_id` decides who takes it. A YAML, an event list or the entries of a
Secret are the version of the resource they were read at; `asked`, of a request, and
`stranded` are history. A YAML that cannot be decoded (truncated, or the text that
stands for a denial) is not `readable`. The loop awaits a save, so it is one step.

## 3. Runs

| run | bounds | checks | result |
|---|---|---|---|
| `refresh` | `Secrets`, `Projects`; 1 namespace; `MaxSeq` 3, `MaxGeneration` 1, `MaxDeferred` 2 | `TypeOK`, `NamespaceWork`, `InFlightIsCarried`, `BackfillsHaveNoCore`, `NothingIsForgotten`, `RefreshIsAnswered` under `FairSpec` | holds |
| `refresh_wedge` | `Pods`, `Secrets`; `MaxSeq` 2, `MaxGeneration` 1 | `InFlightEnds` under `FairSpec` | **violated** |
| `session_data` | `Deployments`; 1 namespace, 2 contexts; `MaxSeq` 2, `MaxGeneration` 1, `MaxVersion` 2; lists may fail | `SessionTypeOK`, `WatchersServeSelection`, `ShowsSelectedData` | holds |
| `session_fallback` | as above, with one context and no failures | `NamespaceFallbackSound` | **violated** |
| `watch` | 2 objects, 2 values; 2 changes, 1 failure, 1 restart; `Capacity` 2 | `TypeOK`, `Implements`, `Converges` under `FairSpec` | holds |
| `logs` | 1 container, 3 tabs; `MaxTasks` 2, `MaxSessions` 2, `MaxSwitches` 1 | `LogsTypeOK`, `StreamsAreRegistered`, `SessionHasTab` | holds |
| `log_restart` | as above | `OnlyStopsCancel` | **violated** |
| `debug` | 2 nodes; `MaxSessions` 2, `MaxGeneration` 2 | `DebugTypeOK`, `PodsAreHandedOn`, `DebugShellIsShown`, `ShellsCanBeStopped`, `PodsWithoutShellAreDeleted` under `FairSpec` | holds |
| `mutations` | 1 resource; history of 2, `MaxId` 3, `MaxRunning` 2, `MaxRequest` 2, `MaxGeneration` 2 | `MutationsTypeOK`, `DeletesExclude`, `NodeOpIsCarried`, `LockedTabsAreServed`, `HistoryKeepsPromise` | holds |
| `events` | 1 namespace and all; `MaxFetches` 2, `MaxGeneration` 1, `MaxDeferred` 1, `MaxVersion` 1 | `EventsTypeOK`, `FetchIsCarried`, `NamespaceFetches`, `EventsOfSelection`, `ShowsSelectedEvents`, `EventsConverge` under `FairSpec` | holds |
| `forward` | 3 pods, 1 remote port, 2 local ports, 2 contexts | `ForwardTypeOK`, `ListenersAreReached`, `TunnelsAreServed`, `SelectionFollows` | holds |
| `detail_tabs` | 1 Secret, 1 other resource; `MaxVersion` 2, `MaxRequest` 2, `MaxGeneration` 2 | `DetailTypeOK`, `LoadingIsCarried`, `AnswersAreFresh`, `EntriesMatchSource`, `EditsSurvive` | holds |

What a property says is written above it in its module, with the exception the code
makes where it makes one. `Implements`, `ShowsSelectedData`, `ShowsSelectedEvents`,
`PodsAreHandedOn`, `HistoryKeepsPromise` and `TunnelsAreServed` are the abstract
specifications; where one contains an earlier property (`ClearedDataStaysCleared`,
`DataOfSelection`, `PodsAreOwned`, `EntriesAreFinal`, `EntriesAreCarried`, `ListsAreTrue`), or a proof covers it for every
instance (`QueuedBehindInFlight`), the run checks it no more.

**Why the bounds are enough.**

* *Refreshes.* A preemption needs three requests: one with a background part, its
  result, the request of a visible view. Hence `MaxSeq` 3. That a fourth merges
  with what was queued, and that a queued refresh is of an older generation, is
  left to the proofs, which have no bounds. The views are chosen by the shape of their dispatch: `Secrets` has one targeted scope,
  `Projects` a primary and an untargeted background part, `Pods` a watched and an
  unwatched scope.
* *Switches.* Every race with a switch needs one change and something of the
  generation before it; a switch of context takes two generations, one when it is
  asked for and one when it succeeds. `MaxGeneration` 1 with a free choice of either
  is enough where data are compared by generation; `DebugSessions` and `Mutations`,
  where the two halves of a switch do different things, have 2.
* *Sessions and versions.* The sessions have one view whose scope is watched; two
  requests are one before and one after a switch, or one on each side of a
  watcher's update. `MaxVersion` 2 is one change of the cluster – a new version or a
  deleted namespace – between any two reads. In `session_data` every list may fail
  (`ListsFail`), so that a result mixes what was read with what was copied; that a
  refresh fails as a whole (`RefreshesFail`) changes nothing in the state and is left
  to the proof of the same properties, as is a namespace selected while a switch is
  pending, which takes a third generation.
* *Watchers.* Two objects let a list be half delivered; two changes put one between
  the pages of a list and one after it; a failure relists, a restart meets the
  updates of the task before. `Capacity` 2 lets the channel be full.
* *Logs.* Two tasks of one key, and two sessions, are a stream and its successor;
  numbers are used again when nothing refers to them, so restarts are unlimited.
  Streams of two containers meet only in a tab, which `SelectAllContainers` models.
* *Debug pods.* Two sessions are a shell and the launch or restart beside it.
* *Mutations.* A history of two entries, of which the third trims the first, so a
  result arrives for an entry that is gone; two run at a time, of the same or
  different kinds; the second request of a tab supersedes the first. Mutations of
  different resources meet only in guards and history, which do not look at the
  resource, so one is enough.
* *Events.* Two fetches are the one waited for and one that was given up.
* *Port forwarding.* Three pods are a selected tunnel and one on each side of it; two
  local ports, one of them taken by another process or by a tunnel; two contexts. There are
  no counters, so nothing else is bounded.
* *Details.* The Secret has the tabs that others have not, and the other resource the
  events that Secrets have not. Two requests, of both channels together, are one that is
  superseded and the one that is waited for; two versions are one change between two
  reads; `MaxGeneration` 2 is a switch of context with both its halves. Checked once with
  three requests as well, without switches.
* `SYMMETRY` on the two contexts of `session_data` is sound: no definition names one
  of them (the first client is any of them), and the run checks no liveness.

**Deadlock** is not checked where a behaviour may really end: when the requests,
generations and changes are used up and the program idles (`refresh`,
`session_data` and `session_fallback`, `watch`, `detail_tabs`), or when it is quit (`debug`). It is checked for logs, mutations, events and
port forwarding, whose tabs and views can always be opened.

**Fairness.** The runtime runs its tasks and the loop reads its channels; the user,
the cluster's changes, the shell, the switch and an aborted task are never fair.

* `Refresh`: a running task answers (its fetch ends by the 60 s timeout in
  `state/refresh.rs`) and the loop receives results; `select!` is biased, but a channel of
  higher priority that has nothing to deliver does not hold it back.
* `WatchStream`: kube's watcher retries without limit, the ticker ticks, the loop
  receives.
* `DebugSessions`: launches (which have timeouts), clean-ups and the two channels.
* `EventsFetch`: fetches answer – strongly fair, because a fetch is also allowed to
  fail at any time, and one that fails for ever shows no events –, an abort takes
  effect, the loop receives, and the 30 s timer runs. Refreshes are not fair.

**Mutants.** Beside a definition stands, where needed, a seeded bug with the same
parameters (`AbortAndForget`, `BeginInitKeepsBuffer`, `AttachBeside`, ...). Used in its
place it violates the property that watches it; it is no part of the specification.

## 4. What the violations show

1. **A failed context switch can stop all refreshes** (`InFlightEnds`, README.md:266).
   `SelectContext` starts a generation but leaves the refresh in flight; its
   result is dropped as stale without clearing `in_flight_id`, and
   `fail_context_switch` clears nothing. Every later request is merged into a
   queue that no result will start, until a namespace or context is selected.
2. **A namespace that exists is "not found"** (`NamespaceFallbackSound`, main.rs:4235).
   After `SelectNamespace` the state has no `namespace_list`; a refresh that does
   not fetch it derives the names from the empty list.
3. **A restarted log stream ends at once** (`OnlyStopsCancel`, coordinator/mod.rs:217). A
   task that ends removes what is registered under its key, even when that is its
   successor, whose cancel sender is dropped with the handle; the successor takes
   itself for cancelled. `StreamsAreRegistered` shows what saves the program from
   worse: because the drop cancels, no stream ever runs out of reach.

## 5. Proofs

Eight modules prove the safety properties for every value of the constants, from the
named assumptions of the modules (`NIL` is none of the values, `All` is no namespace,
the bounds are numbers, views come from the table).

| module | theorems and the properties they establish |
|---|---|
| `SessionProofs`, about `Refresh` | `SpecImplies...`: `TypeOK`, `InFlightIsCarried`, `QueuedBehindInFlight`, `NamespaceWork`, `BackfillsHaveNoCore`, `PreemptOnlyBackfill`, `NothingIsForgotten`, `RequestsAreTaken` |
| `SessionProofs`, about `Session` | `SessionRefreshes` (`SessionSpec => Spec`), `SessionTypeCorrect`, `WatchersAlwaysServeSelection` (`WatchersServeSelection`), `CurrentDataIsOfSelection` (`DataOfSelection`), `ClearedDataNeverReturns` (`ClearedDataStaysCleared`), `SessionShowsSelectedData` (`SessionSpec => Abstract!Spec`) |
| `WatchStreamProofs` | `TypeCorrect`, `NothingIsWithheld`, `WatchImplements` (`Spec => Abstract!Spec`) |
| `LogStreamsProofs` | `LogsTypeCorrect`, `RegistryIsExact` (`StreamsAreRegistered`), `SessionsHaveTabs` (`SessionHasTab`) |
| `DebugSessionsProofs` | `DebugTypeCorrect`, `NoPodIsLeftBehind` (`PodsAreOwned`), `PodsAreKeptForShells` (`DebugShellIsShown`), `EveryShellCanBeStopped`, `PendingDialogAwaitsLaunch`, `DebugPodsAreHandedOn` (`Spec => Abstract!Spec`) |
| `MutationsProofs` | `MutationsTypeCorrect`, `PendingEntriesSettle` (`EntriesAreCarried`), `OneDeleteAtATime` (`DeletesExclude`), `NodeOpsAreNotBlocked`, `LocksAreServed`, `HistoryIsFinal` (`EntriesAreFinal`), `HistoryIsKept` (`Spec => Abstract!Spec`) |
| `EventsFetchProofs` | `EventsTypeCorrect`, `FetchesAreCarried`, `NothingIsQueuedAlone`, `FetchesAreOfSelection` (`NamespaceFetches`), `ShownEventsAreOfSelection` (`EventsOfSelection`), `EventsShowSelectedData` (`Spec => Abstract!Spec`) |
| `PortForwardProofs` | `ForwardTypeCorrect`, `EveryListenerIsReached` (`ListenersAreReached`), `TargetsAreUnique` (`OneTunnelPerTarget`), `ListsShowListeners` (`ListsAreTrue`), `SelectionIsKept` (`SelectionFollows`), `TunnelsServeAsPromised` (`Spec => Abstract!Spec`) |
| `DetailTabsProofs` | `DetailsAreSound`, `DetailTypeCorrect`, `NothingLoadsForEver` (`LoadingIsCarried`), `ShownIsFresh` (`AnswersAreFresh`), `SavesAreOfOneRead` (`EntriesMatchSource`), `EditsAreKept` (`EditsSurvive`) |

Each follows from one inductive invariant, because none of the properties is
inductive alone:

* **`RefreshInv`**: that the refresh in flight is carried needs its generation never to
  be ahead of the current one, so that a new generation cannot make an abandoned
  refresh current again. That merged work is for the selected namespace needs the
  same of deferred triggers, and of a refresh in flight of an older generation too,
  because a preemption queues that one under the current generation. That backfills
  have no core scope (`HonestBackfill`) needs the core part of every dispatch and of
  every queued request to lie in its primary scope (`CoreFirst`). The lemmas about the
  transformers (`Launch`, `AbortInFlight`, `Preempt`, `MergeIntoQueue`, ...) say that
  each keeps `RuntimeInv` of a state; one step per action puts them together.
* **`WorkInv`**, beside it, is for `NothingIsForgotten` and `RequestsAreTaken`: a preemption
  merges the aborted backfill into what is queued and keeps the generation of that, so
  the flags would be dropped with an older generation; `BackfillQueueInv` says that whenever
  a backfill of the current generation is in flight, what is queued is of the current
  generation too. It holds because a backfill is started only from the queue, which that
  empties.
* **`SessionInv`** contains `RefreshInv` – a session is a behaviour of `Refresh`, so its
  theorems are reused – and says of every copy, answer, watch manager and update
  that it is of no later generation and, if of the current one, `Sound`: read since
  the last clearing, by the connected client, in the selected namespace unless all
  are selected. `Carries` sums up what a step may do to the selection: leave it,
  widen it to all namespaces, or start a generation. The result handler and the
  fallback inside it are the hard cases, because they spawn tasks from a state that
  exists only in the middle of the handler. `WatchingInv`, beside it, says that the
  watchers that run are those of the current generation; that they are of the selection
  then follows from what `SessionInv` says of such a watch manager.
* The invariant of **WatchStream** ties the buffer to what is still to be delivered of
  the list being read (`BufferFollows`), the items to the list the stream is at
  (`ItemsFollow`), and every list on its way to the history (`OnlyWholeLists`). With it
  the refinement has one step per action: a change of the cluster is `Change`,
  `ReceiveUpdate` is `Show`, every other step stutters.
* **LogStreams**: `Exact` says of a coordinator that its registry is exact. It is
  inductive by itself, because every way a handle leaves the registry – a stop, the
  shut-down, the end of a task – also cancels its task. One lemma per operation of the
  coordinator (`StopKeeps`, `StartKeeps`, `ReplaceKeeps`, `CleanUpKeeps`) takes an exact
  coordinator to an exact one; the actions of the tabs put them together.
* **DebugSessions** adds `Apart`: the number of a launch is not yet known as a shell,
  tab or clean-up, and a shell whose end was reported is over. Without it a launch
  could overwrite the owner of another pod.
* **`MutationsInv`** has three parts that share few variables: history (ids are drawn
  once, an entry of a running task is pending and of its kind), guards (the delete
  of this generation is the one waited for) and tabs (an answer carries a request
  once, so it can unlock a tab only for the request the tab waits for).
* **`EventsInv`** is stated over values (`FetchInv(state, tasks, ...)`, `StateSound(...)`)
  rather than variables, so that it can be used for the state in the middle of a
  handler that both aborts and spawns.
* **`ForwardInv`** needs `CreationIsAlone`: no tunnel has the target of the one that is
  looked up but not yet registered, so that the duplicate found before the awaits is
  still the only possible one after them. That the selection stays with its tunnel is
  arithmetic of positions: the position of a tunnel is the cardinality of those that
  precede it, smaller than that of the list, and different for different tunnels.
* **`DetailInv`**: the panel, a tab and a decoded Secret wait in the same way, so what
  keeps one served is stated once of a holder and the part of the state its wait
  depends on (`World`, `Waits`), and one lemma says which changes of that part
  (`Grows`) keep it served. It is inductive because every request that is waited for
  has been drawn (`RequestsKnown`), so a new one cannot be mistaken for it; because what
  was asked under a number was asked when its holder says; and because an answer
  carries no version older than the one that was asked for (`AnswersHonest`). That edits
  are kept is then a matter of single steps of the Secret's tab.

**The refinements** need no new invariant but one; the invariants above say what the
guards of the abstract actions ask for. Each has one lemma per kind of step, which names
the abstract action that it is, and a theorem that puts them together:

* `SessionShowsSelectedData`, `EventsShowSelectedData`: a handler may widen the selection,
  replace the list and start tasks in one step, so the lemmas are about what is shown
  before and after it. What is shown afterwards is what was, or comes from an answer or
  an update that the handler accepted, which the invariant says is `Sound`; what was kept
  from a failed fetch comes from the copy, which is never older than the last clearing.
* `DebugPodsAreHandedOn`: most steps move one number from one set to another, `HandOn`;
  closing tabs and switches move many at once, so it is stated for all of them together.
  The new invariant is `NoPodYet`: the pod of a launch that is still creating it does not
  exist, nor has deleting it failed before.
* `HistoryIsKept`: a start is `Start`, for which the trimmed history must be the abstract
  one (`PushedIsRecorded`); a result is the end of the task that sent it because ids are
  drawn once; a switch makes every task stale because none is of a later generation than
  the current one; a verification is `Follow` because no task has its id any more.
* `TunnelsServeAsPromised`: binding a listener opens a tunnel whose port and target
  nothing serves, because the port was free and the target alone (`CreationIsAlone`);
  stopping a tunnel of the list stops what serves its target because every listener is
  registered and held (`ListenersAreReached`).

`PreemptOnlyBackfill`, `RequestsAreTaken`, `QueuedBehindInFlight`, `ClearedDataStaysCleared`,
`DataOfSelection`, `PodsAreOwned`, `EntriesAreFinal`, `EntriesAreCarried`, `ListsAreTrue`, `NothingWithheld`, `DialogAwaitsLaunch`,
`QueuedBehindFetch` and `OneTunnelPerTarget` are proved for every instance, and no run
repeats them.

Only model-checked: liveness, which needs fairness (`RefreshIsAnswered`,
`Converges`, `PodsWithoutShellAreDeleted`, `EventsConverge`).

## 6. Met while reading

Things the code does that no property above states, because it would not hold; the
steps that lead to them are in the modules named.

* *Refresh.* The queued backfill is numbered `request_seq + 1` without advancing the
  counter (event_handlers.rs:745): a later request of that number can be answered by
  the backfill's late result. A request that preempts a backfill and has a
  background part of its own overwrites the queued remainder (event_handlers.rs:796).
  The fallback to all namespaces starts a refresh inside the result handler, which
  then starts the queued one beside it (main.rs:4299). The last two are the exceptions
  of `NothingIsForgotten`.
* *Session.* A refresh result replaces the whole state (main.rs:4215), with the lists that
  the watchers have updated since they were read: the older list stays on screen until
  the resource changes again, because the watcher publishes only changes and the
  automatic refresh leaves watched scopes to it (main.rs:520), while README.md:105 says
  that watch streams keep these resources "updated in real-time". Between `SelectContext` and the end of the connection the old client is in
  use; what it fetched is still shown when the switch succeeds (main.rs:5842). After
  the fallback the watchers stay on the old namespace in the same generation
  (main.rs:4425), which is the exception of `WatchersServeSelection`.
* *WatchStream.* A restarted watcher whose first list is empty publishes nothing, so
  the list of its predecessor stays (`Converges` names the case).
* *LogStreams.* The late `Ended` or `Cancelled` of an old stream turns off the follow
  mode of its successor; scrolling turns it off without stopping the stream, and
  scrolling to the end turns it on without one. A tab stops its stream when it is
  closed only if follow mode is on. Pod and workload logs share a key, so one tab can
  stop the other's stream.
* *DebugSessions.* Restarting the shell of a node asks for its pod to be deleted and
  then opens the new shell in it. Quitting interrupts launches and clean-ups; a
  deletion that fails in `SelectNamespace` or at the end is ignored.
* *Mutations.* `delete_in_flight_id` is cleared neither by `SelectContext` nor by a stale
  result nor by a failed switch, so deletes can be refused from then on, like finding
  1. A stale node operation clears the flag that a newer one has set. The
  verification of a reconcile is dropped with a switch or replaced by a later one of
  its resource, and its history entry stays pending. An inspection requested for an
  earlier mutation, or before its tab was closed and opened again, can unlock the
  tab while a mutation runs; one that a context switch has made stale leaves it
  locked. The rollout commands prefer the rollout tab in front over the resource in
  the detail panel (action/rollout.rs:389).
* *EventsFetch.* A fetch in flight when a switch is asked for and fails is waited for
  for ever (event_handlers.rs:922); `FetchIsCarried` and `EventsConverge` name the case.
* *PortForward.* The tunnel is registered before its listener is bound; when that fails
  it stays, is not listed until the list is refreshed, and a retry is refused as a
  duplicate although the message ends in "(will retry)" (k8s/portforward.rs:128,
  k8s/portforward_errors.rs:96). An accepted connection is held by no list, so it outlives the
  stop of its tunnel and a switch. A dialog opened while a switch of context is pending stays
  open, for a pod of the old cluster.
* *DetailTabs.* Editing an entry while a reopened decoded-Secret tab is loading leaves the
  tab without its YAML: opening it has taken the YAML away (app/workbench.rs:295), the
  answer is not applied because of the edit (event_handlers.rs:194), and every save is
  refused with "Secret YAML is not loaded yet." (main.rs:8689), until the edit is given up
  and the tab opened again. A tab opened while a switch of context is pending
  survives its success, against the comment at workbench.rs:3291, and is loading for ever;
  `LoadingIsCarried` names the case. A panel that was read before a tab can replace
  its contents by older ones.
* *Snapshot versions* (not modelled). A refresh that was given version v and a watch update applied
  meanwhile both publish v + 1, so that what is cached by the version, like the counts of
  the sidebar (ui/mod.rs:88), can show the one for the other; the comment at
  state/mod.rs:1413 takes revisions for monotonic.

## 7. Not modelled

Of the parts that are modelled: the failure backoff and the open detail panel,
which only delay an automatic refresh; `include_cluster_info`; the third deferred
refresh (9 s) after a Flux reconciliation, one more trigger of the same kind; the
merge of Flux resources into a result; the load state per view; snapshot versions and
the render caches they key; the optimistic changes of rows after a mutation; the
ephemeral debug containers of pods, whose shells are ordinary exec sessions; the
lines, filters and tails of logs; the polling of probes; access reviews and the tabs of
relations, networks, runbooks and AI. `wrapping_add` on 64-bit
counters is plain addition. The conditions of some user actions (a picker is open, a
permission) are left out: they make fewer behaviours.

Of the other components: the client, persistence,
AI and external commands, which are I/O; input, navigation and the analyses, which
are sequential and unit-tested; the user interface, which only draws. Together they
are most of the program's lines and little of its concurrency.

## 8. Plan

| step | modules | question | state |
|---|---|---|---|
| 1 | `Scopes`, `Refresh`, their part of `SessionProofs` | does every refresh that is waited for end, for the right namespace? | done |
| 2 | `Session`, `SessionProofs` | is what is shown of the selection? | done |
| 3 | `WatchStream`, `PublishedList`, `WatchStreamProofs` | is a watched list ever a mixture of two? | done |
| 4 | `LogStreams`, `LogStreamsProofs` | can a stream run that nobody can stop? | done |
| 5 | `EventsFetch`, `Mutations` and their proofs | does what is waited for come, once, for whom it was asked? | done |
| 6 | `DebugSessions`, `DebugSessionsProofs` | is a debug pod ever left behind? | done |
| 7 | `PortForward`, `PortForwardProofs` | is every listener of the connected cluster, and within reach? | done |
| 8 | `DetailTabs`, `DetailTabsProofs` | does a tab show the answer it waits for, and is what is edited kept? | done |
| 9 | `SelectedData`, `DebugPods`, `ActionHistory`, `ServedTunnels` | what do the components promise, and do they keep it? | done |
| 10 | `SnapshotVersions` | a render cache keyed by the version never shows an older snapshot | open |
| 11 | `Optimistic` | an optimistic row and the refresh that contradicts it | open |

## 9. Running

```
tlc -workers 2 -config MCRefresh.cfg MCRefresh.tla
tlc -workers 2 -config MCMutations.cfg MCMutations.tla     # the longest, about three minutes
tlapm SessionProofs.tla
```
