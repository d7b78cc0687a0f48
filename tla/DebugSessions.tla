---------------------------- MODULE DebugSessions ----------------------------
(***************************************************************************)
(* Node debug shells: the dialog that launches a debug pod on a node, the  *)
(* launch task, the exec session that is attached to the pod, its tab, and *)
(* every way in which the shell ends and the pod has to be deleted.        *)
(*                                                                         *)
(* A launch, its pod and its exec session share one number, the session_id *)
(* given out when the dialog is submitted; a restarted session has a       *)
(* number of its own and no pod. Other tabs show and hide the workbench as *)
(* well, so whether it is shown is left open here. Left out: the shell's   *)
(* input and output, the access review, and the exec sessions of pods.     *)
(***************************************************************************)
EXTENDS Integers

CONSTANTS
    Nodes,         \* nodes of the cluster
    NIL,           \* nothing
    MaxSessions,   \* bound: session numbers in use at one time
    MaxGeneration  \* bound: the context generation

ASSUME BoundAssumption == MaxSessions \in Nat

VARIABLES
    running,             \* the program has not been quit
    context_generation,
    switching,           \* a context switch is pending
    detail,              \* the detail of a node with its debug dialog, or NIL
    launches,            \* by session: the launch task, or its unread result
    pods,                \* by session: the debug pod of the cluster
    tabs,                \* by node: the session of its exec tab, or 0
    exec_sessions,       \* sessions whose handle the loop holds
    execs,               \* by session: the task that runs the shell
    exec_update_rx,      \* sessions with an unread Exited or Error
    node_debug_sessions, \* sessions whose pod the loop has to delete
    cleanups             \* sessions whose pod a cleanup task deletes

vars == <<running, context_generation, switching, detail, launches, pods, tabs,
          exec_sessions, execs, exec_update_rx, node_debug_sessions, cleanups>>

Sessions == 1..MaxSessions

Detail == [node : Nodes, dialog : BOOLEAN, launch : Sessions \cup {0}]

Launch ==
    [phase : {"creating", "waiting", "undoing", "launched", "failed"},
     node : Nodes, context_generation : Nat]

Exec == [phase : {"connecting", "open"}, cancelled : BOOLEAN]

ASSUME NilAssumption == NIL \notin Detail /\ NIL \notin Launch /\ NIL \notin Exec

\* The types; a pod is "kept" when deleting it has failed, which is reported.
DebugTypeOK ==
    /\ running \in BOOLEAN
    /\ context_generation \in Nat
    /\ switching \in BOOLEAN
    /\ detail \in Detail \cup {NIL}
    /\ launches \in [Sessions -> Launch \cup {NIL}]
    /\ pods \in [Sessions -> {"none", "up", "kept"}]
    /\ tabs \in [Nodes -> Sessions \cup {0}]
    /\ exec_sessions \subseteq Sessions
    /\ execs \in [Sessions -> Exec \cup {NIL}]
    /\ exec_update_rx \subseteq Sessions
    /\ node_debug_sessions \subseteq Sessions
    /\ cleanups \subseteq Sessions

Init ==
    /\ running = TRUE
    /\ context_generation = 0
    /\ switching = FALSE
    /\ detail = NIL
    /\ launches = [s \in Sessions |-> NIL]
    /\ pods = [s \in Sessions |-> "none"]
    /\ tabs = [n \in Nodes |-> 0]
    /\ exec_sessions = {}
    /\ execs = [s \in Sessions |-> NIL]
    /\ exec_update_rx = {}
    /\ node_debug_sessions = {}
    /\ cleanups = {}

NoTabs == [n \in Nodes |-> 0]

TabSessions == {tabs[n] : n \in Nodes} \ {0}

\* The counter only grows; numbers that nothing knows are used again.
Free(s) ==
    /\ launches[s] = NIL
    /\ pods[s] = "none"
    /\ execs[s] = NIL
    /\ s \notin TabSessions \cup exec_sessions \cup exec_update_rx

IsNewSession(s) ==
    /\ Free(s)
    /\ \A t \in 1..(s - 1) : ~Free(t)

-----------------------------------------------------------------------------
(* Ending sessions                                                         *)

\* The shells of some sessions with the cancel of their handles sent.
Cancelled(sessions) ==
    [s \in Sessions |->
        IF s \in sessions \cap exec_sessions /\ execs[s] # NIL
        THEN [execs[s] EXCEPT !.cancelled = TRUE]
        ELSE execs[s]]

\* cleanup_node_debug_session_if_needed for each of the sessions
CleanUpIfNeeded(sessions) ==
    /\ cleanups' = cleanups \cup (sessions \cap node_debug_sessions)
    /\ node_debug_sessions' = node_debug_sessions \ sessions

\* Remove the handle, send the cancel, clean up.
StopSessions(sessions) ==
    /\ execs' = Cancelled(sessions)
    /\ exec_sessions' = exec_sessions \ sessions
    /\ CleanUpIfNeeded(sessions)

\* Deleting the pods of some sessions, where it fails for some of them.
Deleted(sessions, failing) ==
    [s \in Sessions |->
        IF s \notin sessions THEN pods[s]
        ELSE IF s \in failing THEN "kept" ELSE "none"]

\* The loop deletes the pods of all sessions itself, one after the other.
DeleteAllInline(failing) ==
    /\ execs' = Cancelled(Sessions)
    /\ exec_sessions' = {}
    /\ pods' = Deleted(node_debug_sessions, failing)
    /\ node_debug_sessions' = {}
    /\ UNCHANGED cleanups

-----------------------------------------------------------------------------
(* The detail and the dialog                                               *)

OpenDetail(n) ==
    /\ running
    /\ detail' = [node |-> n, dialog |-> FALSE, launch |-> 0]
    /\ UNCHANGED <<running, context_generation, switching, launches, pods, tabs,
                   exec_sessions, execs, exec_update_rx, node_debug_sessions,
                   cleanups>>

\* Seeded bug: the detail is emptied, not closed.
EmptyDetail ==
    /\ running
    /\ detail # NIL
    /\ detail' = [detail EXCEPT !.node = NIL]
    /\ UNCHANGED <<running, context_generation, switching, launches, pods, tabs,
                   exec_sessions, execs, exec_update_rx, node_debug_sessions,
                   cleanups>>

CloseDetail ==
    /\ running
    /\ detail # NIL
    /\ detail' = NIL
    /\ UNCHANGED <<running, context_generation, switching, launches, pods, tabs,
                   exec_sessions, execs, exec_update_rx, node_debug_sessions,
                   cleanups>>

\* handle_node_debug_dialog_open: a new dialog, which awaits no launch
NodeDebugDialogOpen ==
    /\ running
    /\ detail # NIL
    /\ detail' = [detail EXCEPT !.dialog = TRUE, !.launch = 0]
    /\ UNCHANGED <<running, context_generation, switching, launches, pods, tabs,
                   exec_sessions, execs, exec_update_rx, node_debug_sessions,
                   cleanups>>

\* Esc closes the dialog, also while it awaits a launch.
NodeDebugDialogClose ==
    /\ running
    /\ detail # NIL
    /\ detail.dialog
    /\ detail' = [detail EXCEPT !.dialog = FALSE, !.launch = 0]
    /\ UNCHANGED <<running, context_generation, switching, launches, pods, tabs,
                   exec_sessions, execs, exec_update_rx, node_debug_sessions,
                   cleanups>>

NodeDebugDialogSubmit(s) ==
    /\ running
    /\ detail # NIL
    /\ detail.dialog
    /\ detail.launch = 0
    /\ IsNewSession(s)
    /\ launches' = [launches EXCEPT ![s] =
            [phase |-> "creating", node |-> detail.node,
             context_generation |-> context_generation]]
    /\ detail' = [detail EXCEPT !.launch = s]
    /\ UNCHANGED <<running, context_generation, switching, pods, tabs,
                   exec_sessions, execs, exec_update_rx, node_debug_sessions,
                   cleanups>>

-----------------------------------------------------------------------------
(* The launch task: create the pod, wait until it runs, else delete it     *)

LaunchGoesOn(s, phase) ==
    /\ running
    /\ launches' = [launches EXCEPT ![s].phase = phase]
    /\ UNCHANGED <<running, context_generation, switching, detail, tabs,
                   exec_sessions, execs, exec_update_rx, node_debug_sessions,
                   cleanups>>

InPhase(s, phase) == launches[s] # NIL /\ launches[s].phase = phase

CreatePod(s) ==
    /\ InPhase(s, "creating")
    /\ \/ pods' = [pods EXCEPT ![s] = "up"] /\ LaunchGoesOn(s, "waiting")
       \/ UNCHANGED pods /\ LaunchGoesOn(s, "failed")

\* Running, or failed or not ready before the deadline.
AwaitPod(s) ==
    /\ InPhase(s, "waiting")
    /\ LaunchGoesOn(s, "launched") \/ LaunchGoesOn(s, "undoing")
    /\ UNCHANGED pods

UndoLaunch(s) ==
    /\ InPhase(s, "undoing")
    /\ \E failing \in SUBSET {s} : pods' = Deleted({s}, failing)
    /\ LaunchGoesOn(s, "failed")

-----------------------------------------------------------------------------
(* The loop receives the result of a launch                                *)

\* detail_node_debug_launch_owned
LaunchOwned(s) ==
    detail # NIL /\ detail.node = launches[s].node /\ detail.launch = s

ClearLaunchIfMatches(s) ==
    detail' = IF LaunchOwned(s) THEN [detail EXCEPT !.launch = 0] ELSE detail

ResultRead(s) ==
    /\ running
    /\ launches' = [launches EXCEPT ![s] = NIL]
    /\ UNCHANGED <<running, context_generation, switching, pods, exec_update_rx>>

Stale(s) == launches[s].context_generation # context_generation

ReceiveStaleLaunch(s) ==
    /\ InPhase(s, "launched") \/ InPhase(s, "failed")
    /\ Stale(s)
    /\ ClearLaunchIfMatches(s)
    /\ cleanups' = IF InPhase(s, "launched") THEN cleanups \cup {s} ELSE cleanups
    /\ ResultRead(s)
    /\ UNCHANGED <<tabs, exec_sessions, execs, node_debug_sessions>>

\* The dialog was closed or replaced while the pod was launched.
ReceiveDisownedLaunch(s) ==
    /\ InPhase(s, "launched")
    /\ ~Stale(s)
    /\ ~LaunchOwned(s)
    /\ cleanups' = cleanups \cup {s}
    /\ ResultRead(s)
    /\ UNCHANGED <<detail, tabs, exec_sessions, execs, node_debug_sessions>>

\* Seeded bug: the shell that is replaced is left alone.
AttachBeside(s) ==
    /\ InPhase(s, "launched")
    /\ ~Stale(s)
    /\ LaunchOwned(s)
    /\ node_debug_sessions' = node_debug_sessions \cup {s}
    /\ exec_sessions' = exec_sessions \cup {s}
    /\ execs' = [execs EXCEPT ![s] = [phase |-> "connecting", cancelled |-> FALSE]]
    /\ tabs' = [tabs EXCEPT ![launches[s].node] = s]
    /\ detail' = NIL
    /\ ResultRead(s)
    /\ UNCHANGED cleanups

\* The shell replaces the one in the node's tab.
AttachShell(s) ==
    /\ InPhase(s, "launched")
    /\ ~Stale(s)
    /\ LaunchOwned(s)
    /\ LET node == launches[s].node
           existing == {tabs[node]} \ {0}
       IN  /\ cleanups' = cleanups \cup (existing \cap node_debug_sessions)
           /\ node_debug_sessions' = (node_debug_sessions \ existing) \cup {s}
           /\ exec_sessions' = (exec_sessions \ existing) \cup {s}
           /\ execs' = [Cancelled(existing) EXCEPT ![s] =
                            [phase |-> "connecting", cancelled |-> FALSE]]
           /\ tabs' = [tabs EXCEPT ![node] = s]
    /\ detail' = NIL
    /\ ResultRead(s)

ReceiveLaunchFailure(s) ==
    /\ InPhase(s, "failed")
    /\ ~Stale(s)
    /\ ClearLaunchIfMatches(s)
    /\ ResultRead(s)
    /\ UNCHANGED <<tabs, exec_sessions, execs, node_debug_sessions, cleanups>>

-----------------------------------------------------------------------------
(* The shell: a cancel is noticed only once the process has been opened    *)

OpenShell(s) ==
    /\ running
    /\ execs[s] # NIL
    /\ execs[s].phase = "connecting"
    /\ execs' = [execs EXCEPT ![s].phase = "open"]
    /\ UNCHANGED <<running, context_generation, switching, detail, launches, pods,
                   tabs, exec_sessions, exec_update_rx, node_debug_sessions,
                   cleanups>>

\* By an error, by itself, or by the cancel.
EndShell(s) ==
    /\ running
    /\ execs[s] # NIL
    /\ execs' = [execs EXCEPT ![s] = NIL]
    /\ exec_update_rx' = exec_update_rx \cup {s}
    /\ UNCHANGED <<running, context_generation, switching, detail, launches, pods,
                   tabs, exec_sessions, node_debug_sessions, cleanups>>

\* Seeded bug: the pod is left to the next stop of the session.
ShellEndOnly(s) ==
    /\ running
    /\ s \in exec_update_rx
    /\ exec_update_rx' = exec_update_rx \ {s}
    /\ exec_sessions' = IF s \in TabSessions THEN exec_sessions \ {s}
                        ELSE exec_sessions
    /\ UNCHANGED <<running, context_generation, switching, detail, launches, pods,
                   tabs, execs, node_debug_sessions, cleanups>>

\* Exited and Error count only while a tab shows the session.
ReceiveShellEnd(s) ==
    /\ running
    /\ s \in exec_update_rx
    /\ exec_update_rx' = exec_update_rx \ {s}
    /\ IF s \in TabSessions
       THEN exec_sessions' = exec_sessions \ {s} /\ CleanUpIfNeeded({s})
       ELSE UNCHANGED <<exec_sessions, node_debug_sessions, cleanups>>
    /\ UNCHANGED <<running, context_generation, switching, detail, launches, pods,
                   tabs, execs>>

\* The task of spawn_node_debug_cleanup.
DeletePod(s) ==
    /\ running
    /\ s \in cleanups
    /\ \E failing \in SUBSET {s} : pods' = Deleted({s}, failing)
    /\ cleanups' = cleanups \ {s}
    /\ UNCHANGED <<running, context_generation, switching, detail, launches, tabs,
                   exec_sessions, execs, exec_update_rx, node_debug_sessions>>

-----------------------------------------------------------------------------
(* Tabs, switches, the end of the program                                  *)

\* ToggleWorkbench of a workbench that is shown: the tabs stay.
HideWorkbench ==
    /\ running
    /\ StopSessions(TabSessions)
    /\ UNCHANGED <<running, context_generation, switching, detail, launches, pods,
                   tabs, exec_update_rx>>

\* Seeded bug: closing a tab cancels its shell and forgets its pod.
CloseTabOnly(n) ==
    /\ running
    /\ tabs[n] # 0
    /\ execs' = Cancelled({tabs[n]})
    /\ exec_sessions' = exec_sessions \ {tabs[n]}
    /\ node_debug_sessions' = node_debug_sessions \ {tabs[n]}
    /\ tabs' = [tabs EXCEPT ![n] = 0]
    /\ UNCHANGED <<running, context_generation, switching, detail, launches, pods,
                   exec_update_rx, cleanups>>

CloseActiveTab(n) ==
    /\ running
    /\ tabs[n] # 0
    /\ StopSessions({tabs[n]})
    /\ tabs' = [tabs EXCEPT ![n] = 0]
    /\ UNCHANGED <<running, context_generation, switching, detail, launches, pods,
                   exec_update_rx>>

\* Seeded bug: the new session starts beside the old one.
RestartBeside(n, s) ==
    /\ running
    /\ tabs[n] # 0
    /\ IsNewSession(s)
    /\ execs' = [execs EXCEPT ![s] = [phase |-> "connecting", cancelled |-> FALSE]]
    /\ exec_sessions' = exec_sessions \cup {s}
    /\ CleanUpIfNeeded({tabs[n]})
    /\ tabs' = [tabs EXCEPT ![n] = s]
    /\ UNCHANGED <<running, context_generation, switching, detail, launches, pods,
                   exec_update_rx>>

\* A new session in the pod of the old one, which is being deleted.
ExecRestartSession(n, s) ==
    /\ running
    /\ tabs[n] # 0
    /\ IsNewSession(s)
    /\ execs' = [Cancelled({tabs[n]}) EXCEPT ![s] =
                    [phase |-> "connecting", cancelled |-> FALSE]]
    /\ exec_sessions' = (exec_sessions \ {tabs[n]}) \cup {s}
    /\ CleanUpIfNeeded({tabs[n]})
    /\ tabs' = [tabs EXCEPT ![n] = s]
    /\ UNCHANGED <<running, context_generation, switching, detail, launches, pods,
                   exec_update_rx>>

\* apply_workspace_snapshot_and_refresh
ApplyWorkspace ==
    /\ running
    /\ StopSessions(TabSessions)
    /\ tabs' = NoTabs
    /\ detail' = NIL
    /\ UNCHANGED <<running, context_generation, switching, launches, pods,
                   exec_update_rx>>

SelectNamespace ==
    /\ running
    /\ context_generation < MaxGeneration
    /\ context_generation' = context_generation + 1
    /\ \E failing \in SUBSET node_debug_sessions : DeleteAllInline(failing)
    /\ tabs' = NoTabs
    /\ detail' = NIL
    /\ UNCHANGED <<running, switching, launches, exec_update_rx>>

SelectContext ==
    /\ running
    /\ context_generation < MaxGeneration
    /\ context_generation' = context_generation + 1
    /\ switching' = TRUE
    /\ StopSessions(Sessions)
    /\ tabs' = NoTabs
    /\ detail' = NIL
    /\ UNCHANGED <<running, launches, pods, exec_update_rx>>

\* With the workspace that waited for the context, if one did.
ContextSwitchSucceeds(restores) ==
    /\ running
    /\ switching
    /\ context_generation < MaxGeneration
    /\ context_generation' = context_generation + 1
    /\ switching' = FALSE
    /\ StopSessions(Sessions)
    /\ tabs' = IF restores THEN NoTabs ELSE tabs
    /\ detail' = IF restores THEN NIL ELSE detail
    /\ UNCHANGED <<running, launches, pods, exec_update_rx>>

ContextSwitchFails ==
    /\ running
    /\ switching
    /\ switching' = FALSE
    /\ UNCHANGED <<running, context_generation, detail, launches, pods, tabs,
                   exec_sessions, execs, exec_update_rx, node_debug_sessions,
                   cleanups>>

\* Tasks that have not ended are dropped with the runtime.
Quit ==
    /\ running
    /\ running' = FALSE
    /\ \E failing \in SUBSET node_debug_sessions : DeleteAllInline(failing)
    /\ UNCHANGED <<context_generation, switching, detail, launches, tabs,
                   exec_update_rx>>

-----------------------------------------------------------------------------
LaunchTask(s) == CreatePod(s) \/ AwaitPod(s) \/ UndoLaunch(s)

ReceiveLaunch(s) ==
    \/ ReceiveStaleLaunch(s)
    \/ ReceiveDisownedLaunch(s)
    \/ AttachShell(s)
    \/ ReceiveLaunchFailure(s)

Next ==
    \/ \E n \in Nodes : OpenDetail(n) \/ CloseActiveTab(n)
    \/ \E n \in Nodes, s \in Sessions : ExecRestartSession(n, s)
    \/ CloseDetail
    \/ NodeDebugDialogOpen
    \/ NodeDebugDialogClose
    \/ \E s \in Sessions :
          \/ NodeDebugDialogSubmit(s)
          \/ LaunchTask(s)
          \/ ReceiveLaunch(s)
          \/ OpenShell(s)
          \/ EndShell(s)
          \/ ReceiveShellEnd(s)
          \/ DeletePod(s)
    \/ HideWorkbench
    \/ ApplyWorkspace
    \/ SelectNamespace
    \/ SelectContext
    \/ \E restores \in BOOLEAN : ContextSwitchSucceeds(restores)
    \/ ContextSwitchFails
    \/ Quit

Spec == Init /\ [][Next]_vars

\* The runtime runs its tasks and the loop reads its channels; nothing is
\* assumed of the user, of the shell or of the switch.
Fairness ==
    \A s \in Sessions :
        /\ WF_vars(LaunchTask(s))
        /\ WF_vars(ReceiveLaunch(s))
        /\ WF_vars(ReceiveShellEnd(s))
        /\ WF_vars(DeletePod(s))

FairSpec == Spec /\ Fairness

-----------------------------------------------------------------------------
\* The pod of s is a launch's to hand over or to delete.
Launching(s) ==
    InPhase(s, "waiting") \/ InPhase(s, "undoing") \/ InPhase(s, "launched")

\* No debug pod is left behind: one that runs is still in the hands of its
\* launch, registered with the loop, or of a cleanup task, of exactly one of
\* them; so when the program is quit only launches and cleanups that it
\* interrupts leave a pod, never a shell.
PodsAreOwned ==
    \A s \in Sessions :
        /\ pods[s] = "up" <=>
              (Launching(s) \/ s \in node_debug_sessions \/ s \in cleanups)
        /\ Launching(s) => s \notin node_debug_sessions \cup cleanups
        /\ s \notin node_debug_sessions \cap cleanups

\* Who has to delete the pod of s.
HoldersOf(s) ==
    {party \in {"launch", "shell", "cleanup"} :
        \/ party = "launch" /\ Launching(s)
        \/ party = "shell" /\ s \in node_debug_sessions
        \/ party = "cleanup" /\ s \in cleanups}

Abstract ==
    INSTANCE DebugPods
    WITH owners <- [s \in Sessions |-> HoldersOf(s)]

\* Launches, shells and cleanups pass the pods on as DebugPods promises: no
\* step loses a pod, gives it to two of them, takes it back or deletes it
\* twice, and a pod that could not be deleted is never touched again.
PodsAreHandedOn == Abstract!Spec

\* A pod that is kept for a shell has one: a tab shows the session, the loop
\* holds its handle, and the shell runs or its end has not been read yet.
DebugShellIsShown ==
    \A s \in node_debug_sessions :
        /\ s \in TabSessions
        /\ s \in exec_sessions
        /\ execs[s] # NIL \/ s \in exec_update_rx

\* A shell that has not been told to stop is one the loop can still stop, and
\* the user can still see.
ShellsCanBeStopped ==
    \A s \in Sessions :
        running /\ execs[s] # NIL /\ ~execs[s].cancelled =>
            s \in exec_sessions \cap TabSessions

\* A dialog that shows a launch as pending, and so takes no key but Esc,
\* will get its result.
DialogAwaitsLaunch ==
    running /\ detail # NIL /\ detail.launch # 0 =>
        /\ detail.dialog
        /\ launches[detail.launch] # NIL
        /\ launches[detail.launch].node = detail.node

\* A debug pod without a shell gets one or is deleted, or deleting it fails
\* and is reported.
PodsWithoutShellAreDeleted ==
    \A s \in Sessions :
        pods[s] = "up" /\ execs[s] = NIL ~>
            pods[s] # "up" \/ execs[s] # NIL \/ ~running

=============================================================================
