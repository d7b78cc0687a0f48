----------------------------- MODULE LogStreams -----------------------------
(***************************************************************************)
(* The log streams of one pod: the registry of the UpdateCoordinator, the  *)
(* tasks that stream a container each, the tabs of the workbench that      *)
(* start and stop them, and the switches of namespace and context.         *)
(*                                                                         *)
(* Two tabs of the pod's logs are told apart: PodLogs, which shows one     *)
(* container, and WorkloadLogs, which shows several and exists for the pod *)
(* itself and for its workload.  Left out: the lines, the statuses that    *)
(* only change the text of a tab, the tail requests, and the probes, whose *)
(* registry works the same and is not used by the loop.                    *)
(***************************************************************************)
EXTENDS Sequences, Integers

CONSTANTS
    Containers,   \* containers of the pod, which may have others: nothing
                  \* but the tabs relates the streams of two containers
    NIL,          \* nothing
    MaxTasks,     \* bound: the tasks of a container at one time
    MaxSessions,  \* bound: the sessions of workload logs at one time
    MaxSwitches,  \* bound: context switches that succeed
    Capacity      \* bound: statuses in the channel (4096 messages in the code)

ASSUME BoundsAssumption == MaxTasks \in Nat /\ MaxSessions \in Nat

VARIABLES
    coordinator,  \* UpdateCoordinator: its number, its registry and all tasks,
                  \* those of earlier coordinators included
    update_rx,    \* containers whose stream has reported Ended or Cancelled
    viewer,       \* the PodLogs tab, or NIL
    tabs,         \* the sessions of the WorkloadLogs tabs, or 0
    bootstraps,   \* sessions whose targets are being resolved
    workload_log_sessions,
    switching     \* a context switch is pending

vars == <<coordinator, update_rx, viewer, tabs, bootstraps,
          workload_log_sessions, switching>>

Slots == 1..MaxTasks
Sessions == 1..MaxSessions
WorkloadTabs == {"pod", "workload"}

\* cancelled says how the cancel channel of the task was closed, if it was:
\* by a stop, or because its handle was dropped.
Task ==
    [phase : {"connecting", "fetching", "following", "cleaning"},
     cancelled : {"no", "stopped", "dropped"}, of : Nat]

Viewer ==
    [container : Containers \cup {NIL}, picking_container : BOOLEAN,
     follow_mode : BOOLEAN, previous_logs : BOOLEAN, show_timestamps : BOOLEAN,
     asked : BOOLEAN]

\* 0 in the registry is no handle.
UpdateCoordinator ==
    [number : Nat, log_tasks : [Containers -> Slots \cup {0}],
     tasks : [Containers -> [Slots -> Task \cup {NIL}]]]

ASSUME NilAssumption == NIL \notin Containers /\ NIL \notin Task /\ NIL \notin Viewer

LogsTypeOK ==
    /\ coordinator \in UpdateCoordinator
    /\ update_rx \in Seq(Containers)
    /\ viewer \in Viewer \cup {NIL}
    /\ tabs \in [WorkloadTabs -> Sessions \cup {0}]
    /\ bootstraps \in SUBSET Sessions
    /\ workload_log_sessions \in [Sessions -> SUBSET Containers]
    /\ switching \in BOOLEAN

Live(c, n) == coordinator.tasks[c][n] # NIL

-----------------------------------------------------------------------------
(* UpdateCoordinator                                                       *)

\* stop_log_streaming for each of the containers
StopLogStreaming(r, containers) ==
    [r EXCEPT
        !.log_tasks = [c \in Containers |-> IF c \in containers THEN 0 ELSE @[c]],
        !.tasks = [c \in Containers |->
            IF c \in containers /\ r.log_tasks[c] # 0
            THEN [@[c] EXCEPT ![r.log_tasks[c]].cancelled = "stopped"]
            ELSE @[c]]]

FreeSlots(r, c) == {n \in Slots : r.tasks[c][n] = NIL}

\* The bound on the tasks leaves room for new ones.
Room(containers) ==
    \A c \in containers : FreeSlots(coordinator, c) # {}

\* start_log_streaming for each of the containers; one that is registered
\* already is left alone.
StartLogStreaming(r, containers, follow) ==
    LET started == {c \in containers : r.log_tasks[c] = 0}
        slot(c) == CHOOSE n \in FreeSlots(r, c) : TRUE
        task == [phase |-> IF follow THEN "connecting" ELSE "fetching",
                 cancelled |-> "no", of |-> r.number]
    IN  [r EXCEPT
            !.log_tasks = [c \in Containers |-> IF c \in started THEN slot(c)
                                                ELSE @[c]],
            !.tasks = [c \in Containers |->
                IF c \in started THEN [@[c] EXCEPT ![slot(c)] = task] ELSE @[c]]]

\* Seeded bug: the coordinator is replaced without being shut down.
ReplaceOnly(r) ==
    [r EXCEPT !.number = @ + 1, !.log_tasks = [c \in Containers |-> 0]]

\* shutdown, and UpdateCoordinator::new
ShutDownAndReplace(r) ==
    [StopLogStreaming(r, Containers) EXCEPT !.number = @ + 1]

\* The end of the spawned task: what is registered for the container, be it the
\* task or a successor, is removed, which drops its handle.
CleanUp(r, c, n) ==
    LET held == r.log_tasks[c]
        over == [r.tasks[c] EXCEPT ![n] = NIL]
    IN  IF r.tasks[c][n].of # r.number \/ held = 0
        THEN [r EXCEPT !.tasks[c] = over]
        ELSE [r EXCEPT !.log_tasks[c] = 0,
                       !.tasks[c] =
                           IF held = n THEN over
                           ELSE [over EXCEPT ![held].cancelled = "dropped"]]

-----------------------------------------------------------------------------
Init ==
    /\ coordinator = [number |-> 0, log_tasks |-> [c \in Containers |-> 0],
                      tasks |-> [c \in Containers |-> [n \in Slots |-> NIL]]]
    /\ update_rx = <<>>
    /\ viewer = NIL
    /\ tabs = [t \in WorkloadTabs |-> 0]
    /\ bootstraps = {}
    /\ workload_log_sessions = [s \in Sessions |-> {}]
    /\ switching = FALSE

\* workbench_all_follow_streams_to_stop
Followed ==
    IF viewer # NIL /\ viewer.follow_mode THEN {viewer.container} \ {NIL} ELSE {}

\* The streams of some sessions.
Streamed(sessions) == UNION {workload_log_sessions[s] : s \in sessions}

Forget(sessions) ==
    workload_log_sessions' =
        [s \in Sessions |-> IF s \in sessions THEN {} ELSE workload_log_sessions[s]]

\* Numbers of sessions that nothing knows any more are used again.
FreeSessions ==
    Sessions \ ({tabs[t] : t \in WorkloadTabs} \cup bootstraps
                \cup {s \in Sessions : workload_log_sessions[s] # {}})

IsNewSession(session) ==
    /\ session \in FreeSessions
    /\ \A s \in FreeSessions : session <= s

NoViewer ==
    [container |-> NIL, picking_container |-> FALSE, follow_mode |-> FALSE,
     previous_logs |-> FALSE, show_timestamps |-> FALSE, asked |-> FALSE]

\* AppAction::LogsViewerOpen for the pod: an open tab keeps its container and
\* its modes, and a stream that it follows goes on.
OpenPodLogs ==
    /\ viewer' = [(IF viewer = NIL THEN NoViewer ELSE viewer) EXCEPT
                     !.picking_container = FALSE, !.asked = TRUE]
    /\ UNCHANGED <<coordinator, update_rx, tabs, bootstraps,
                   workload_log_sessions, switching>>

\* LogsViewerAsyncResult::Containers: a single container is chosen, several are
\* offered, and there may be none.
ContainersDiscovered(single, several) ==
    /\ viewer # NIL /\ viewer.asked
    /\ viewer' = [viewer EXCEPT !.asked = FALSE, !.container = single,
                                !.picking_container = several]
    /\ UNCHANGED <<coordinator, update_rx, tabs, bootstraps,
                   workload_log_sessions, switching>>

ContainersNotFound ==
    /\ viewer # NIL /\ viewer.asked
    /\ viewer' = [viewer EXCEPT !.asked = FALSE, !.picking_container = FALSE]
    /\ UNCHANGED <<coordinator, update_rx, tabs, bootstraps,
                   workload_log_sessions, switching>>

\* AppAction::LogsViewerSelectContainer
SelectContainer(c) ==
    /\ viewer # NIL /\ viewer.picking_container
    /\ viewer' = [viewer EXCEPT !.picking_container = FALSE, !.container = c]
    /\ UNCHANGED <<coordinator, update_rx, tabs, bootstraps,
                   workload_log_sessions, switching>>

\* Seeded bug: the tab takes the number of the session after the new one.
NewSessionAhead(tab, session) ==
    /\ tabs' = [tabs EXCEPT ![tab] = IF session = 0 THEN 0 ELSE session + 1]
    /\ coordinator' =
          StopLogStreaming(coordinator, Streamed({tabs[tab]} \ {0}))
    /\ Forget({tabs[tab]} \ {0})

\* Seeded bug: a new session does not end the one the tab has had.
NewSessionOnly(tab, session) ==
    /\ tabs' = [tabs EXCEPT ![tab] = session]
    /\ coordinator' = coordinator
    /\ UNCHANGED workload_log_sessions

\* stop_workload_log_session, and the tab takes the new session.
NewSession(tab, session) ==
    /\ tabs' = [tabs EXCEPT ![tab] = session]
    /\ coordinator' =
          StopLogStreaming(coordinator, Streamed({tabs[tab]} \ {0}))
    /\ Forget({tabs[tab]} \ {0})

\* AppAction::LogsViewerOpen for the workload: its pods are resolved in the
\* background.
OpenWorkloadLogs(session) ==
    /\ IsNewSession(session)
    /\ NewSession("workload", session)
    /\ bootstraps' = bootstraps \cup {session}
    /\ UNCHANGED <<update_rx, viewer, switching>>

\* workload_logs_bootstrap_rx: a session that its tab has no more is ignored.
Bootstrapped(session, sources) ==
    /\ session \in bootstraps
    /\ Room(sources)
    /\ bootstraps' = bootstraps \ {session}
    /\ IF tabs["workload"] = session /\ sources # {}
       THEN /\ workload_log_sessions' =
                  [workload_log_sessions EXCEPT ![session] = sources]
            /\ coordinator' = StartLogStreaming(coordinator, sources, TRUE)
       ELSE UNCHANGED <<workload_log_sessions, coordinator>>
    /\ UNCHANGED <<update_rx, viewer, tabs, switching>>

\* AppAction::LogsViewerSelectAllContainers: the PodLogs tab makes way for a
\* WorkloadLogs tab of the pod.
SelectAllContainers(session) ==
    LET old == {tabs["pod"]} \ {0}
    IN  /\ viewer # NIL /\ viewer.picking_container
        /\ IsNewSession(session)
        /\ Room(Containers)
        /\ viewer' = NIL
        /\ tabs' = [tabs EXCEPT !["pod"] = session]
        /\ workload_log_sessions' =
              [s \in Sessions |-> IF s = session THEN Containers
                                  ELSE IF s \in old THEN {}
                                  ELSE workload_log_sessions[s]]
        /\ coordinator' =
              StartLogStreaming(StopLogStreaming(coordinator, Streamed(old)),
                                Containers, TRUE)
        /\ UNCHANGED <<update_rx, bootstraps, switching>>

\* AppAction::LogsViewerToggleFollow
ToggleFollow ==
    /\ viewer # NIL
    /\ IF viewer.follow_mode
       THEN coordinator' =
               StopLogStreaming(coordinator, {viewer.container} \ {NIL})
       ELSE /\ viewer.container # NIL /\ ~viewer.picking_container
            /\ Room({viewer.container})
            /\ coordinator' =
                  StartLogStreaming(coordinator, {viewer.container}, TRUE)
    /\ viewer' = [viewer EXCEPT !.follow_mode = ~@]
    /\ UNCHANGED <<update_rx, tabs, bootstraps, workload_log_sessions, switching>>

\* AppAction::LogsViewerTogglePrevious
TogglePrevious ==
    /\ viewer # NIL
    /\ ~viewer.picking_container /\ viewer.container # NIL
    /\ coordinator' =
          IF viewer.follow_mode \/ viewer.previous_logs
          THEN StopLogStreaming(coordinator, {viewer.container}) ELSE coordinator
    /\ viewer' = [viewer EXCEPT !.previous_logs = ~@, !.follow_mode = FALSE]
    /\ UNCHANGED <<update_rx, tabs, bootstraps, workload_log_sessions, switching>>

\* AppAction::LogsViewerToggleTimestamps: the stream is started anew.
ToggleTimestamps ==
    LET stopped == IF viewer.follow_mode \/ viewer.show_timestamps
                   THEN StopLogStreaming(coordinator, {viewer.container})
                   ELSE coordinator
    IN  /\ viewer # NIL
        /\ ~viewer.picking_container /\ viewer.container # NIL
        /\ Room({viewer.container})
        /\ coordinator' = StartLogStreaming(stopped, {viewer.container},
                                            ~viewer.previous_logs)
        /\ viewer' = [viewer EXCEPT !.show_timestamps = ~@]
        /\ UNCHANGED <<update_rx, tabs, bootstraps, workload_log_sessions, switching>>

\* Scrolling, searching and jumping set the mode and leave the stream alone.
Scroll(to_bottom) ==
    /\ viewer # NIL
    /\ viewer' = [viewer EXCEPT !.follow_mode = to_bottom]
    /\ UNCHANGED <<coordinator, update_rx, tabs, bootstraps,
                   workload_log_sessions, switching>>

\* AppAction::WorkbenchCloseActiveTab
ClosePodLogs ==
    /\ viewer # NIL
    /\ viewer' = NIL
    /\ coordinator' = StopLogStreaming(coordinator, Followed)
    /\ UNCHANGED <<update_rx, tabs, bootstraps, workload_log_sessions, switching>>

CloseWorkloadLogs(tab) ==
    /\ tabs[tab] # 0
    /\ NewSession(tab, 0)
    /\ UNCHANGED <<update_rx, viewer, bootstraps, switching>>

\* AppAction::ToggleWorkbench, which hides the workbench: the tabs stay.  To show
\* it again changes nothing, so whether it is shown is not kept.
ToggleWorkbench ==
    LET sessions == {tabs[t] : t \in WorkloadTabs} \ {0}
    IN  /\ coordinator' =
              StopLogStreaming(coordinator, Followed \cup Streamed(sessions))
        /\ Forget(sessions)
        /\ UNCHANGED <<update_rx, viewer, tabs, bootstraps, switching>>

\* A new generation: results of the old one are ignored, all sessions and what
\* the viewer follows are stopped.
StopContextBound ==
    /\ bootstraps' = {}
    /\ Forget(Sessions)

StopAllFollowed(r) == StopLogStreaming(r, Followed \cup Streamed(Sessions))

\* AppAction::SelectNamespace and AppAction::SelectContext close the tabs of
\* resources.
CloseResourceTabs ==
    /\ viewer' = NIL
    /\ tabs' = [t \in WorkloadTabs |-> 0]

SelectNamespace ==
    /\ StopContextBound
    /\ coordinator' = StopAllFollowed(coordinator)
    /\ CloseResourceTabs
    /\ UNCHANGED <<update_rx, switching>>

SelectContext ==
    /\ coordinator.number < MaxSwitches
    /\ StopContextBound
    /\ coordinator' = StopAllFollowed(coordinator)
    /\ CloseResourceTabs
    /\ switching' = TRUE
    /\ UNCHANGED <<update_rx>>

\* Tabs that were opened while the switch was pending stay, and the viewer waits
\* for a result that will be ignored.
ContextSwitchSucceeds ==
    /\ switching /\ switching' = FALSE
    /\ StopContextBound
    /\ coordinator' = ShutDownAndReplace(StopAllFollowed(coordinator))
    /\ viewer' = IF viewer = NIL THEN NIL ELSE [viewer EXCEPT !.asked = FALSE]
    /\ UNCHANGED <<update_rx, tabs>>

ContextSwitchFails ==
    /\ switching /\ switching' = FALSE
    /\ UNCHANGED <<coordinator, update_rx, viewer, tabs, bootstraps,
                   workload_log_sessions>>

-----------------------------------------------------------------------------
(* The task of a container: stream_logs                                    *)

\* Reports Ended or Cancelled, and cleans up next.
Report(c, n) ==
    /\ Len(update_rx) < Capacity
    /\ update_rx' = Append(update_rx, c)
    /\ coordinator' = [coordinator EXCEPT !.tasks[c][n].phase = "cleaning"]
    /\ UNCHANGED <<viewer, tabs, bootstraps, workload_log_sessions, switching>>

\* The cancel channel is not looked at before the stream is connected.
TaskConnects(c, n) ==
    /\ Live(c, n) /\ coordinator.tasks[c][n].phase = "connecting"
    /\ coordinator' = [coordinator EXCEPT !.tasks[c][n].phase = "following"]
    /\ UNCHANGED <<update_rx, viewer, tabs, bootstraps, workload_log_sessions,
                   switching>>

\* An error is reported too, without a consequence for the tabs' modes.
TaskFails(c, n) ==
    /\ Live(c, n) /\ coordinator.tasks[c][n].phase # "cleaning"
    /\ coordinator' = [coordinator EXCEPT !.tasks[c][n].phase = "cleaning"]
    /\ UNCHANGED <<update_rx, viewer, tabs, bootstraps, workload_log_sessions,
                   switching>>

\* The tail of a container that is not followed is fetched, cancelled or not.
TaskFetched(c, n) ==
    /\ Live(c, n) /\ coordinator.tasks[c][n].phase = "fetching"
    /\ Report(c, n)

\* The API server ends the stream, or nothing has come for 300 s.
TaskEnds(c, n) ==
    /\ Live(c, n) /\ coordinator.tasks[c][n].phase = "following"
    /\ Report(c, n)

TaskCancelled(c, n) ==
    /\ Live(c, n) /\ coordinator.tasks[c][n].phase = "following"
    /\ coordinator.tasks[c][n].cancelled # "no"
    /\ Report(c, n)

TaskCleansUp(c, n) ==
    /\ Live(c, n) /\ coordinator.tasks[c][n].phase = "cleaning"
    /\ coordinator' = CleanUp(coordinator, c, n)
    /\ UNCHANGED <<update_rx, viewer, tabs, bootstraps, workload_log_sessions,
                   switching>>

\* apply_coordinator_msg: a status is known by the container only, so that of a
\* stopped task ends the follow mode of its successor.
ReceiveStatus ==
    /\ update_rx # <<>>
    /\ update_rx' = Tail(update_rx)
    /\ viewer' = IF viewer # NIL /\ viewer.container = Head(update_rx)
                 THEN [viewer EXCEPT !.follow_mode = FALSE] ELSE viewer
    /\ UNCHANGED <<coordinator, tabs, bootstraps, workload_log_sessions, switching>>

-----------------------------------------------------------------------------
PodLogsActions ==
    \/ OpenPodLogs
    \/ \E c \in Containers : ContainersDiscovered(c, FALSE)
    \/ \E several \in BOOLEAN : ContainersDiscovered(NIL, several)
    \/ ContainersNotFound
    \/ \E c \in Containers : SelectContainer(c)
    \/ ToggleFollow \/ TogglePrevious \/ ToggleTimestamps
    \/ \E to_bottom \in BOOLEAN : Scroll(to_bottom)
    \/ ClosePodLogs

WorkloadLogsActions ==
    \/ \E session \in Sessions : OpenWorkloadLogs(session)
    \/ \E session \in Sessions, sources \in SUBSET Containers :
          Bootstrapped(session, sources)
    \/ \E session \in Sessions : SelectAllContainers(session)
    \/ \E tab \in WorkloadTabs : CloseWorkloadLogs(tab)

Switches ==
    \/ ToggleWorkbench
    \/ SelectNamespace \/ SelectContext
    \/ ContextSwitchSucceeds \/ ContextSwitchFails

TaskStep(c, n) ==
    \/ TaskConnects(c, n) \/ TaskFails(c, n) \/ TaskFetched(c, n)
    \/ TaskEnds(c, n) \/ TaskCancelled(c, n) \/ TaskCleansUp(c, n)

Next ==
    \/ PodLogsActions \/ WorkloadLogsActions \/ Switches
    \/ \E c \in Containers, n \in Slots : TaskStep(c, n)
    \/ ReceiveStatus

Spec == Init /\ [][Next]_vars

-----------------------------------------------------------------------------
\* The registry is exact: it holds, for each container, the one task of the
\* current coordinator that nothing has cancelled, and never one that is over.
\* So whatever tabs and switches do, and however the ends of old tasks meet the
\* starts of new ones, no stream, of this cluster or an earlier one, runs on out
\* of reach of stop_log_streaming.
StreamsAreRegistered ==
    \A c \in Containers :
        /\ coordinator.log_tasks[c] # 0 => Live(c, coordinator.log_tasks[c])
        /\ \A n \in Slots :
              Live(c, n) =>
                  (coordinator.tasks[c][n].cancelled = "no"
                    <=> coordinator.log_tasks[c] = n)
        /\ \A n \in Slots :
              (Live(c, n) /\ coordinator.tasks[c][n].cancelled = "no")
                => coordinator.tasks[c][n].of = coordinator.number

\* The streams of a session are stopped by way of its tab, so no session outlives
\* its tab, in spite of targets that are resolved after it was closed, replaced
\* or left with a switch.
SessionHasTab ==
    \A s \in Sessions :
        workload_log_sessions[s] # {} => \E t \in WorkloadTabs : tabs[t] = s

-----------------------------------------------------------------------------
(* What the documentation says and the code does not do.                   *)

\* coordinator/mod.rs:217: a task that ends cleans up its handle, its own.  It
\* removes what is registered under the key: the stream that was started after
\* a stop, as ToggleTimestamps does at once, is cancelled by its predecessor.
OnlyStopsCancel ==
    \A c \in Containers, n \in Slots :
        Live(c, n) => coordinator.tasks[c][n].cancelled # "dropped"

=============================================================================
