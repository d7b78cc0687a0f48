------------------------ MODULE DebugSessionsProofs -------------------------
(***************************************************************************)
(* What node debug shells guarantee for any nodes, any number of sessions  *)
(* and of switches: the types, that no debug pod is left behind, that a    *)
(* pod is kept only for a shell that a tab shows, that every shell can be  *)
(* stopped, and that a pending dialog awaits a launch.                     *)
(***************************************************************************)
EXTENDS DebugSessions, TLAPS

\* The number of a launch is no session's yet, and a shell that has reported
\* its end is over.
Apart ==
    \A s \in Sessions :
        /\ launches[s] # NIL =>
              /\ execs[s] = NIL
              /\ s \notin exec_update_rx
              /\ s \notin exec_sessions
              /\ s \notin TabSessions
              /\ s \notin node_debug_sessions
              /\ s \notin cleanups
        /\ s \in exec_update_rx => execs[s] = NIL

Inv ==
    /\ DebugTypeOK
    /\ Apart
    /\ PodsAreOwned
    /\ DebugShellIsShown
    /\ ShellsCanBeStopped
    /\ DialogAwaitsLaunch

-----------------------------------------------------------------------------
LEMMA SessionsAreNumbers == Sessions \subseteq Nat \ {0}
BY BoundAssumption DEF Sessions

\* Which sessions the tabs show.
LEMMA Shown ==
    ASSUME DebugTypeOK
    PROVE  /\ TabSessions \subseteq Sessions
           /\ \A n \in Nodes : tabs[n] # 0 => tabs[n] \in TabSessions
           /\ \A s \in TabSessions : \E n \in Nodes : tabs[n] = s
BY DEF DebugTypeOK, TabSessions

\* A cancel reaches the shells whose handles are held, and no others.
LEMMA CancelledShells ==
    ASSUME DebugTypeOK, NEW sessions
    PROVE  /\ Cancelled(sessions) \in [Sessions -> Exec \cup {NIL}]
           /\ \A s \in Sessions :
                 /\ Cancelled(sessions)[s] = NIL <=> execs[s] = NIL
                 /\ s \in sessions \cap exec_sessions /\ execs[s] # NIL =>
                       Cancelled(sessions)[s].cancelled
                 /\ s \notin sessions \cap exec_sessions =>
                       Cancelled(sessions)[s] = execs[s]
<1>1. \A s \in Sessions : execs[s] # NIL =>
         /\ [execs[s] EXCEPT !.cancelled = TRUE] \in Exec
         /\ [execs[s] EXCEPT !.cancelled = TRUE].cancelled
  BY DEF DebugTypeOK, Exec
<1>2. QED
  BY <1>1, NilAssumption DEF DebugTypeOK, Cancelled

\* Deleting pods leaves those of other sessions.
LEMMA DeletedPods ==
    ASSUME DebugTypeOK, NEW sessions, NEW failing
    PROVE  /\ Deleted(sessions, failing) \in [Sessions -> {"none", "up", "kept"}]
           /\ \A s \in Sessions :
                 /\ s \in sessions => Deleted(sessions, failing)[s] # "up"
                 /\ s \notin sessions => Deleted(sessions, failing)[s] = pods[s]
BY DEF DebugTypeOK, Deleted

-----------------------------------------------------------------------------
LEMMA InitInv == Init => Inv
<1> SUFFICES ASSUME Init PROVE Inv
  OBVIOUS
<1>1. DebugTypeOK
  <2>1. running \in BOOLEAN /\ switching \in BOOLEAN
    BY Zenon DEF Init
  <2>2. QED
    BY <2>1 DEF Init, DebugTypeOK
<1>2. Apart
  BY DEF Init, Apart
<1>3. PodsAreOwned
  BY DEF Init, PodsAreOwned, Launching, InPhase
<1>4. DebugShellIsShown /\ ShellsCanBeStopped /\ DialogAwaitsLaunch
  BY DEF Init, DebugShellIsShown, ShellsCanBeStopped, DialogAwaitsLaunch
<1>5. QED
  BY <1>1, <1>2, <1>3, <1>4 DEF Inv

\* The detail and the dialog change nothing else.
LEMMA DetailKeepsInv ==
    ASSUME Inv, detail' \in Detail \cup {NIL},
           detail' # NIL => detail'.launch = 0,
           UNCHANGED <<running, context_generation, switching, launches, pods, tabs,
                       exec_sessions, execs, exec_update_rx, node_debug_sessions,
                       cleanups>>
    PROVE  Inv'
<1>1. DebugTypeOK'
  BY DEF Inv, DebugTypeOK
<1>2. Apart'
  BY DEF Inv, Apart, TabSessions
<1>3. PodsAreOwned'
  BY DEF Inv, PodsAreOwned, Launching, InPhase
<1>4. DebugShellIsShown' /\ ShellsCanBeStopped'
  BY DEF Inv, DebugShellIsShown, ShellsCanBeStopped, TabSessions
<1>5. DialogAwaitsLaunch'
  BY DEF DialogAwaitsLaunch
<1>6. QED
  BY <1>1, <1>2, <1>3, <1>4, <1>5 DEF Inv

\* OpenDetail, CloseDetail and the dialog's opening and closing.
LEMMA DetailSteps ==
    ASSUME Inv,
           \/ \E n \in Nodes : OpenDetail(n)
           \/ CloseDetail
           \/ NodeDebugDialogOpen
           \/ NodeDebugDialogClose
    PROVE  Inv'
<1>1. CASE \E n \in Nodes : OpenDetail(n)
  BY <1>1, DetailKeepsInv DEF OpenDetail, Detail
<1>2. CASE CloseDetail
  BY <1>2, DetailKeepsInv DEF CloseDetail
<1>3. CASE NodeDebugDialogOpen
  BY <1>3, DetailKeepsInv DEF NodeDebugDialogOpen, Detail, Inv, DebugTypeOK
<1>4. CASE NodeDebugDialogClose
  BY <1>4, DetailKeepsInv DEF NodeDebugDialogClose, Detail, Inv, DebugTypeOK
<1>5. QED
  BY <1>1, <1>2, <1>3, <1>4

LEMMA SubmitKeepsInv ==
    ASSUME Inv, NEW s \in Sessions, NodeDebugDialogSubmit(s)
    PROVE  Inv'
<1> DEFINE launch == [phase |-> "creating", node |-> detail.node,
                      context_generation |-> context_generation]
<1> USE DEF NodeDebugDialogSubmit, IsNewSession, Free
<1>1. launch \in Launch /\ launch # NIL /\ launches' = [launches EXCEPT ![s] = launch]
  BY NilAssumption DEF Inv, DebugTypeOK, Launch, Detail
<1>2. detail' \in Detail /\ detail'.launch = s /\ detail'.node = detail.node /\ detail'.dialog
  BY DEF Inv, DebugTypeOK, Detail
<1>3. DebugTypeOK'
  BY <1>1, <1>2 DEF Inv, DebugTypeOK
<1>4. launches'[s] = launch /\ \A t \in Sessions \ {s} : launches'[t] = launches[t]
  BY <1>1 DEF Inv, DebugTypeOK
<1>5. s \notin node_debug_sessions \cup cleanups
  BY DEF Inv, PodsAreOwned
<1>6. Apart'
  BY <1>4, <1>5 DEF Inv, Apart, TabSessions
<1>7. PodsAreOwned'
  <2>1. ~Launching(s)'
    BY <1>4 DEF Launching, InPhase
  <2>2. \A t \in Sessions \ {s} : Launching(t)' <=> Launching(t)
    BY <1>4 DEF Launching, InPhase
  <2>3. QED
    BY <2>1, <2>2, <1>5 DEF Inv, PodsAreOwned
<1>8. DebugShellIsShown' /\ ShellsCanBeStopped'
  BY DEF Inv, DebugShellIsShown, ShellsCanBeStopped, TabSessions
<1>9. DialogAwaitsLaunch'
  BY <1>1, <1>2, <1>4 DEF DialogAwaitsLaunch
<1>10. QED
  BY <1>3, <1>6, <1>7, <1>8, <1>9 DEF Inv

\* A launch task: its pod exists exactly while it has to hand it over or to
\* delete it.
LEMMA LaunchTaskKeepsInv ==
    ASSUME Inv, NEW s \in Sessions, LaunchTask(s)
    PROVE  Inv'
<1>1. PICK phase \in {"waiting", "undoing", "launched", "failed"} :
         /\ launches[s] # NIL
         /\ LaunchGoesOn(s, phase)
         /\ \/ pods'[s] = "up" /\ phase # "failed"
            \/ pods'[s] # "up" /\ phase = "failed"
         /\ pods' \in [Sessions -> {"none", "up", "kept"}]
         /\ \A t \in Sessions \ {s} : pods'[t] = pods[t]
  <2>1. CASE CreatePod(s)
    <3>1. pods[s] # "up"
      BY <2>1 DEF Inv, Apart, PodsAreOwned, CreatePod, Launching, InPhase
    <3>2. QED
      BY <2>1, <3>1 DEF Inv, DebugTypeOK, CreatePod, InPhase
  <2>2. CASE AwaitPod(s)
    <3>1. pods[s] = "up"
      BY <2>2 DEF Inv, PodsAreOwned, AwaitPod, Launching
    <3>2. QED
      BY <2>2, <3>1 DEF Inv, DebugTypeOK, AwaitPod, InPhase
  <2>3. CASE UndoLaunch(s)
    BY <2>3, DeletedPods DEF Inv, UndoLaunch, InPhase
  <2>4. QED
    BY <2>1, <2>2, <2>3 DEF LaunchTask
<1> USE DEF LaunchGoesOn
<1>2. /\ launches' = [launches EXCEPT ![s] = [launches[s] EXCEPT !.phase = phase]]
      /\ [launches[s] EXCEPT !.phase = phase] \in Launch
  BY <1>1 DEF Inv, DebugTypeOK, Launch
<1>3. /\ launches' \in [Sessions -> Launch \cup {NIL}]
      /\ launches'[s] # NIL
      /\ launches'[s].phase = phase
      /\ launches'[s].node = launches[s].node
      /\ \A t \in Sessions \ {s} : launches'[t] = launches[t]
  BY <1>1, <1>2, NilAssumption DEF Inv, DebugTypeOK, Launch
<1>4. DebugTypeOK'
  BY <1>1, <1>3 DEF Inv, DebugTypeOK
<1>5. Apart'
  BY <1>1, <1>3 DEF Inv, Apart, TabSessions
<1>6. PodsAreOwned'
  <2>1. Launching(s)' <=> phase # "failed"
    BY <1>1, <1>3 DEF Launching, InPhase
  <2>2. \A t \in Sessions \ {s} : Launching(t)' <=> Launching(t)
    BY <1>3 DEF Launching, InPhase
  <2>3. s \notin node_debug_sessions \cup cleanups
    BY <1>1 DEF Inv, Apart
  <2>4. QED
    BY <1>1, <2>1, <2>2, <2>3 DEF Inv, PodsAreOwned
<1>7. DebugShellIsShown' /\ ShellsCanBeStopped'
  BY <1>1 DEF Inv, DebugShellIsShown, ShellsCanBeStopped, TabSessions
<1>8. DialogAwaitsLaunch'
  <2>1. running /\ detail # NIL /\ detail.launch # 0 => detail.launch \in Sessions
    BY DEF Inv, DebugTypeOK, Detail
  <2>2. QED
    BY <1>1, <1>3, <2>1 DEF Inv, DialogAwaitsLaunch
<1>9. QED
  BY <1>4, <1>5, <1>6, <1>7, <1>8 DEF Inv

-----------------------------------------------------------------------------
\* The effect of reading a result on the launches, and on what they own.
LEMMA ResultOfLaunch ==
    ASSUME Inv, NEW s \in Sessions, InPhase(s, "launched") \/ InPhase(s, "failed"),
           ResultRead(s)
    PROVE  /\ launches' \in [Sessions -> Launch \cup {NIL}]
           /\ launches'[s] = NIL
           /\ \A t \in Sessions \ {s} : launches'[t] = launches[t]
           /\ ~Launching(s)'
           /\ \A t \in Sessions \ {s} : Launching(t)' <=> Launching(t)
           /\ Launching(s) <=> InPhase(s, "launched")
<1>1. /\ launches' \in [Sessions -> Launch \cup {NIL}]
      /\ launches'[s] = NIL
      /\ \A t \in Sessions \ {s} : launches'[t] = launches[t]
  BY DEF Inv, DebugTypeOK, ResultRead
<1>2. QED
  BY <1>1 DEF Launching, InPhase

\* A result that is only read, or whose pod is only cleaned up.
LEMMA ResultKeepsInv ==
    ASSUME Inv, NEW s \in Sessions,
           InPhase(s, "launched") \/ InPhase(s, "failed"),
           ResultRead(s),
           cleanups' = IF InPhase(s, "launched") THEN cleanups \cup {s} ELSE cleanups,
           detail' \in Detail \cup {NIL},
           detail' # NIL =>
              /\ detail # NIL
              /\ detail'.launch # s
              /\ detail'.launch # 0 =>
                    /\ detail'.launch = detail.launch
                    /\ detail'.node = detail.node
                    /\ detail'.dialog = detail.dialog,
           UNCHANGED <<tabs, exec_sessions, execs, node_debug_sessions>>
    PROVE  Inv'
<1> USE DEF ResultRead
<1>1. s \notin node_debug_sessions \cup cleanups
  BY DEF Inv, Apart, InPhase
<1>2. DebugTypeOK'
  BY ResultOfLaunch DEF Inv, DebugTypeOK
<1>3. Apart'
  <2> SUFFICES ASSUME NEW t \in Sessions
               PROVE  /\ launches'[t] # NIL =>
                            /\ execs'[t] = NIL
                            /\ t \notin exec_update_rx'
                            /\ t \notin exec_sessions'
                            /\ t \notin TabSessions'
                            /\ t \notin node_debug_sessions'
                            /\ t \notin cleanups'
                      /\ t \in exec_update_rx' => execs'[t] = NIL
    BY DEF Apart
  <2>1. TabSessions' = TabSessions
    BY DEF TabSessions
  <2>2. QED
    BY <2>1, ResultOfLaunch DEF Inv, Apart
<1>4. PodsAreOwned'
  BY ResultOfLaunch, <1>1 DEF Inv, PodsAreOwned
<1>5. DebugShellIsShown' /\ ShellsCanBeStopped'
  BY DEF Inv, DebugShellIsShown, ShellsCanBeStopped, TabSessions
<1>6. DialogAwaitsLaunch'
  <2>1. detail' # NIL /\ detail'.launch # 0 => detail.launch \in Sessions \ {s}
    BY DEF Inv, DebugTypeOK, Detail
  <2>2. QED
    BY <2>1, ResultOfLaunch DEF Inv, DialogAwaitsLaunch
<1>7. QED
  BY <1>2, <1>3, <1>4, <1>5, <1>6 DEF Inv

\* A dialog that shows the launch s as pending owns it.
LEMMA PendingIsOwned ==
    ASSUME Inv, NEW s \in Sessions, running, detail # NIL, detail.launch = s
    PROVE  LaunchOwned(s)
BY SessionsAreNumbers DEF Inv, DialogAwaitsLaunch, LaunchOwned

LEMMA ClearedDetail ==
    ASSUME Inv, NEW s \in Sessions, running, ClearLaunchIfMatches(s)
    PROVE  /\ detail' \in Detail \cup {NIL}
           /\ detail' # NIL =>
                 /\ detail # NIL
                 /\ detail'.launch # s
                 /\ detail'.launch # 0 =>
                       /\ detail'.launch = detail.launch
                       /\ detail'.node = detail.node
                       /\ detail'.dialog = detail.dialog
<1>1. CASE LaunchOwned(s)
  <2>1. detail \in Detail /\ detail' = [detail EXCEPT !.launch = 0]
    BY <1>1 DEF LaunchOwned, ClearLaunchIfMatches, Inv, DebugTypeOK
  <2>2. detail' \in Detail /\ detail'.launch = 0
    BY <2>1 DEF Detail
  <2>3. detail # NIL /\ s # 0
    BY <1>1, SessionsAreNumbers DEF LaunchOwned
  <2>4. QED
    BY <2>2, <2>3
<1>2. CASE ~LaunchOwned(s)
  BY <1>2, PendingIsOwned DEF ClearLaunchIfMatches, Inv, DebugTypeOK
<1>3. QED
  BY <1>1, <1>2

\* A shell that is attached takes its pod from its launch, and the shell it
\* replaces gives its own to a cleanup task.
LEMMA AttachKeepsInv ==
    ASSUME Inv, NEW s \in Sessions, AttachShell(s)
    PROVE  Inv'
<1> DEFINE node == launches[s].node
           existing == {tabs[node]} \ {0}
           exec == [phase |-> "connecting", cancelled |-> FALSE]
<1> USE DEF AttachShell
<1>1. /\ launches[s] # NIL /\ node \in Nodes
      /\ s \notin node_debug_sessions \cup cleanups \cup exec_sessions
      /\ s \notin existing /\ s \notin exec_update_rx
  <2>1. launches[s] # NIL /\ node \in Nodes
    BY DEF Inv, DebugTypeOK, InPhase, Launch
  <2>2. QED
    BY <2>1, Shown DEF Inv, Apart
<1>2. ResultRead(s) /\ Launching(s)
  BY DEF Launching
<1>3. exec \in Exec /\ exec # NIL
  <2>1. exec \in Exec
    BY DEF Exec
  <2>2. QED
    BY <2>1, NilAssumption, Zenon
<1>4. /\ execs' \in [Sessions -> Exec \cup {NIL}]
      /\ execs'[s] = exec
      /\ \A t \in Sessions \ {s} : execs'[t] = Cancelled(existing)[t]
  BY <1>3, CancelledShells DEF Inv
<1>5. /\ tabs' \in [Nodes -> Sessions \cup {0}]
      /\ TabSessions' \subseteq TabSessions \cup {s}
      /\ (TabSessions \ existing) \cup {s} \subseteq TabSessions'
  <2>1. /\ tabs' \in [Nodes -> Sessions \cup {0}]
        /\ tabs'[node] = s
        /\ \A n \in Nodes \ {node} : tabs'[n] = tabs[n]
    BY <1>1 DEF Inv, DebugTypeOK
  <2>2. QED
    BY <1>1, <2>1, SessionsAreNumbers DEF TabSessions
<1>6. DebugTypeOK'
  BY <1>2, <1>4, <1>5, ResultOfLaunch DEF Inv, DebugTypeOK, ResultRead
<1>7. Apart'
  <2> SUFFICES ASSUME NEW t \in Sessions
               PROVE  /\ launches'[t] # NIL =>
                            /\ execs'[t] = NIL
                            /\ t \notin exec_update_rx'
                            /\ t \notin exec_sessions'
                            /\ t \notin TabSessions'
                            /\ t \notin node_debug_sessions'
                            /\ t \notin cleanups'
                      /\ t \in exec_update_rx' => execs'[t] = NIL
    BY DEF Apart
  <2>1. CASE t = s
    BY <2>1, <1>1, <1>2, ResultOfLaunch DEF ResultRead
  <2>2. CASE t # s
    BY <2>2, <1>2, <1>4, <1>5, ResultOfLaunch, CancelledShells DEF ResultRead, Inv, Apart
  <2>3. QED
    BY <2>1, <2>2
<1>8. PodsAreOwned'
  BY <1>1, <1>2, ResultOfLaunch DEF Inv, PodsAreOwned, ResultRead
<1>9. DebugShellIsShown'
  <2> SUFFICES ASSUME NEW t \in node_debug_sessions'
               PROVE  /\ t \in TabSessions' /\ t \in exec_sessions'
                      /\ execs'[t] # NIL \/ t \in exec_update_rx'
    BY DEF DebugShellIsShown
  <2>1. CASE t = s
    BY <2>1, <1>3, <1>4, <1>5
  <2>2. CASE t # s
    BY <2>2, <1>2, <1>4, <1>5, CancelledShells
       DEF ResultRead, Inv, DebugTypeOK, DebugShellIsShown
  <2>3. QED
    BY <2>1, <2>2
<1>10. ShellsCanBeStopped'
  <2> SUFFICES ASSUME NEW t \in Sessions, execs'[t] # NIL, ~execs'[t].cancelled, running
               PROVE  t \in exec_sessions' \cap TabSessions'
    BY <1>2 DEF ShellsCanBeStopped, ResultRead
  <2>1. CASE t = s
    BY <2>1, <1>5
  <2>2. CASE t # s
    <3>1. execs[t] # NIL /\ t \notin existing \cap exec_sessions /\ ~execs[t].cancelled
      BY <2>2, <1>4, CancelledShells DEF Inv
    <3>2. t \in exec_sessions /\ t \in TabSessions
      BY <3>1 DEF Inv, ShellsCanBeStopped
    <3>3. QED
      BY <2>2, <3>1, <3>2, <1>5
  <2>3. QED
    BY <2>1, <2>2
<1>11. DialogAwaitsLaunch'
  BY DEF DialogAwaitsLaunch
<1>12. QED
  BY <1>6, <1>7, <1>8, <1>9, <1>10, <1>11 DEF Inv

LEMMA ReceiveLaunchKeepsInv ==
    ASSUME Inv, NEW s \in Sessions, ReceiveLaunch(s)
    PROVE  Inv'
<1>1. CASE ReceiveStaleLaunch(s)
  BY <1>1, ClearedDetail, ResultKeepsInv DEF ReceiveStaleLaunch, ResultRead
<1>2. CASE ReceiveDisownedLaunch(s)
  <2>1. detail # NIL => detail.launch # s
    BY <1>2, PendingIsOwned DEF ReceiveDisownedLaunch, ResultRead
  <2>2. detail' = detail /\ detail \in Detail \cup {NIL}
    BY <1>2 DEF ReceiveDisownedLaunch, Inv, DebugTypeOK
  <2>3. QED
    BY <1>2, <2>1, <2>2, ResultKeepsInv DEF ReceiveDisownedLaunch
<1>3. CASE AttachShell(s)
  BY <1>3, AttachKeepsInv
<1>4. CASE ReceiveLaunchFailure(s)
  <2>1. cleanups' = IF InPhase(s, "launched") THEN cleanups \cup {s} ELSE cleanups
    BY <1>4 DEF ReceiveLaunchFailure, InPhase
  <2>2. QED
    BY <1>4, <2>1, ClearedDetail, ResultKeepsInv DEF ReceiveLaunchFailure, ResultRead
<1>5. QED
  BY <1>1, <1>2, <1>3, <1>4 DEF ReceiveLaunch

-----------------------------------------------------------------------------
(* The shell and its pod                                                   *)

LEMMA ShellKeepsInv ==
    ASSUME Inv, NEW s \in Sessions, OpenShell(s) \/ EndShell(s)
    PROVE  Inv'
<1>1. /\ running /\ execs[s] # NIL
      /\ UNCHANGED <<running, context_generation, switching, detail, launches,
                     pods, tabs, exec_sessions, node_debug_sessions, cleanups>>
  BY DEF OpenShell, EndShell
<1>2. /\ execs' \in [Sessions -> Exec \cup {NIL}]
      /\ \A t \in Sessions \ {s} : execs'[t] = execs[t]
      /\ \/ exec_update_rx' = exec_update_rx \cup {s} /\ execs'[s] = NIL
         \/ /\ exec_update_rx' = exec_update_rx /\ execs'[s] # NIL
            /\ execs'[s].cancelled = execs[s].cancelled
  <2>1. CASE OpenShell(s)
    <3>1. /\ execs' = [execs EXCEPT ![s] = [execs[s] EXCEPT !.phase = "open"]]
          /\ [execs[s] EXCEPT !.phase = "open"] \in Exec
          /\ [execs[s] EXCEPT !.phase = "open"].cancelled = execs[s].cancelled
      BY <2>1 DEF OpenShell, Inv, DebugTypeOK, Exec
    <3>2. QED
      BY <2>1, <3>1, NilAssumption DEF OpenShell, Inv, DebugTypeOK
  <2>2. CASE EndShell(s)
    BY <2>2 DEF EndShell, Inv, DebugTypeOK
  <2>3. QED
    BY <2>1, <2>2
<1>3. TabSessions' = TabSessions
  BY <1>1 DEF TabSessions
<1>4. DebugTypeOK'
  BY <1>1, <1>2 DEF Inv, DebugTypeOK
<1>5. Apart'
  BY <1>1, <1>2, <1>3 DEF Inv, Apart
<1>6. PodsAreOwned'
  BY <1>1 DEF Inv, PodsAreOwned, Launching, InPhase
<1>7. DebugShellIsShown'
  BY <1>1, <1>2, <1>3 DEF Inv, DebugTypeOK, DebugShellIsShown
<1>8. ShellsCanBeStopped'
  BY <1>1, <1>2, <1>3 DEF Inv, ShellsCanBeStopped
<1>9. DialogAwaitsLaunch'
  BY <1>1 DEF Inv, DialogAwaitsLaunch
<1>10. QED
  BY <1>4, <1>5, <1>6, <1>7, <1>8, <1>9 DEF Inv

LEMMA ShellEndKeepsInv ==
    ASSUME Inv, NEW s \in Sessions, ReceiveShellEnd(s)
    PROVE  Inv'
<1> USE DEF ReceiveShellEnd
<1>1. TabSessions' = TabSessions
  BY DEF TabSessions
<1>2. /\ exec_sessions' = exec_sessions \ {s} \/ exec_sessions' = exec_sessions
      /\ node_debug_sessions' = node_debug_sessions \ {s}
      /\ cleanups' = cleanups \cup ({s} \cap node_debug_sessions)
  <2>1. CASE s \in TabSessions
    BY <2>1 DEF CleanUpIfNeeded
  <2>2. CASE s \notin TabSessions
    BY <2>2 DEF Inv, DebugShellIsShown
  <2>3. QED
    BY <2>1, <2>2
<1>3. execs[s] = NIL
  BY DEF Inv, Apart
<1>4. DebugTypeOK'
  BY <1>2 DEF Inv, DebugTypeOK
<1>5. Apart'
  BY <1>1, <1>2 DEF Inv, Apart
<1>6. PodsAreOwned'
  BY <1>2 DEF Inv, PodsAreOwned, Launching, InPhase
<1>7. DebugShellIsShown'
  BY <1>1, <1>2 DEF Inv, DebugShellIsShown
<1>8. ShellsCanBeStopped'
  BY <1>1, <1>2, <1>3 DEF Inv, ShellsCanBeStopped
<1>9. DialogAwaitsLaunch'
  BY DEF Inv, DialogAwaitsLaunch
<1>10. QED
  BY <1>4, <1>5, <1>6, <1>7, <1>8, <1>9 DEF Inv

LEMMA DeletePodKeepsInv ==
    ASSUME Inv, NEW s \in Sessions, DeletePod(s)
    PROVE  Inv'
<1> USE DEF DeletePod
<1>1. /\ pods' \in [Sessions -> {"none", "up", "kept"}]
      /\ pods'[s] # "up"
      /\ \A t \in Sessions \ {s} : pods'[t] = pods[t]
  BY DeletedPods DEF Inv
<1>2. DebugTypeOK'
  BY <1>1 DEF Inv, DebugTypeOK
<1>3. Apart'
  BY DEF Inv, Apart, TabSessions
<1>4. PodsAreOwned'
  BY <1>1 DEF Inv, PodsAreOwned, Launching, InPhase
<1>5. DebugShellIsShown' /\ ShellsCanBeStopped'
  BY DEF Inv, DebugShellIsShown, ShellsCanBeStopped, TabSessions
<1>6. DialogAwaitsLaunch'
  BY DEF Inv, DialogAwaitsLaunch
<1>7. QED
  BY <1>2, <1>3, <1>4, <1>5, <1>6 DEF Inv

-----------------------------------------------------------------------------
(* Stopping sessions                                                       *)

\* The sessions of every tab that goes are stopped, and so is every one that
\* is registered with the loop when their pods are deleted by the loop itself.
LEMMA StopKeepsInv ==
    ASSUME Inv, NEW sessions \in SUBSET Sessions,
           StopSessions(sessions),
           running' = running,
           context_generation' \in Nat,
           switching' \in BOOLEAN,
           detail' = detail \/ detail' = NIL,
           tabs' \in [Nodes -> Sessions \cup {0}],
           TabSessions' \subseteq TabSessions,
           TabSessions \ sessions \subseteq TabSessions',
           UNCHANGED <<launches, pods, exec_update_rx>>
    PROVE  Inv'
<1> USE DEF StopSessions, CleanUpIfNeeded
<1>1. DebugTypeOK'
  BY CancelledShells DEF Inv, DebugTypeOK
<1>2. Apart'
  BY CancelledShells DEF Inv, Apart
<1>3. PodsAreOwned'
  BY DEF Inv, PodsAreOwned, Launching, InPhase
<1>4. DebugShellIsShown'
  BY CancelledShells DEF Inv, DebugTypeOK, DebugShellIsShown
<1>5. ShellsCanBeStopped'
  <2> SUFFICES ASSUME NEW t \in Sessions, running, execs'[t] # NIL, ~execs'[t].cancelled
               PROVE  t \in exec_sessions' \cap TabSessions'
    BY DEF ShellsCanBeStopped
  <2>1. execs[t] # NIL /\ t \notin sessions \cap exec_sessions /\ ~execs[t].cancelled
    BY CancelledShells DEF Inv
  <2>2. QED
    BY <2>1 DEF Inv, ShellsCanBeStopped
<1>6. DialogAwaitsLaunch'
  BY DEF Inv, DialogAwaitsLaunch
<1>7. QED
  BY <1>1, <1>2, <1>3, <1>4, <1>5, <1>6 DEF Inv

LEMMA InlineKeepsInv ==
    ASSUME Inv, NEW failing, DeleteAllInline(failing),
           running' = running \/ (running' = FALSE /\ tabs' = tabs),
           running' \in BOOLEAN,
           context_generation' \in Nat,
           detail' = NIL \/ running' = FALSE,
           detail' \in Detail \cup {NIL},
           tabs' = NoTabs \/ tabs' = tabs,
           UNCHANGED <<switching, launches, exec_update_rx>>
    PROVE  Inv'
<1> USE DEF DeleteAllInline
<1>1. tabs' \in [Nodes -> Sessions \cup {0}] /\ TabSessions' \subseteq TabSessions
  BY DEF Inv, DebugTypeOK, TabSessions, NoTabs
<1>2. DebugTypeOK'
  BY <1>1, CancelledShells, DeletedPods DEF Inv, DebugTypeOK
<1>3. Apart'
  BY <1>1, CancelledShells DEF Inv, Apart
<1>4. PodsAreOwned'
  BY DeletedPods DEF Inv, PodsAreOwned, Launching, InPhase
<1>5. DebugShellIsShown'
  BY DEF DebugShellIsShown
<1>6. ShellsCanBeStopped'
  <2> SUFFICES ASSUME NEW t \in Sessions, running', execs'[t] # NIL, ~execs'[t].cancelled
               PROVE  FALSE
    BY DEF ShellsCanBeStopped
  <2>1. running /\ execs[t] # NIL /\ t \notin exec_sessions /\ ~execs[t].cancelled
    BY CancelledShells DEF Inv
  <2>2. QED
    BY <2>1 DEF Inv, ShellsCanBeStopped
<1>7. DialogAwaitsLaunch'
  BY DEF DialogAwaitsLaunch
<1>8. QED
  BY <1>2, <1>3, <1>4, <1>5, <1>6, <1>7 DEF Inv

\* A restarted session has a number of its own and no pod.
LEMMA RestartKeepsInv ==
    ASSUME Inv, NEW n \in Nodes, NEW s \in Sessions, ExecRestartSession(n, s)
    PROVE  Inv'
<1> DEFINE old == tabs[n]
           exec == [phase |-> "connecting", cancelled |-> FALSE]
<1> USE DEF ExecRestartSession, CleanUpIfNeeded
<1>1. /\ old \in TabSessions /\ old \in Sessions /\ old # s
      /\ launches[s] = NIL /\ pods[s] = "none" /\ execs[s] = NIL
      /\ s \notin exec_update_rx
  BY Shown DEF IsNewSession, Free, Inv
<1>2. s \notin node_debug_sessions \cup cleanups
  BY <1>1 DEF Inv, PodsAreOwned
<1>3. exec \in Exec /\ exec # NIL
  <2>1. exec \in Exec
    BY DEF Exec
  <2>2. QED
    BY <2>1, NilAssumption, Zenon
<1>4. /\ execs' \in [Sessions -> Exec \cup {NIL}]
      /\ execs'[s] = exec
      /\ \A t \in Sessions \ {s} : execs'[t] = Cancelled({old})[t]
  BY <1>3, CancelledShells DEF Inv
<1>5. /\ tabs' \in [Nodes -> Sessions \cup {0}]
      /\ TabSessions' \subseteq TabSessions \cup {s}
      /\ (TabSessions \ {old}) \cup {s} \subseteq TabSessions'
  <2>1. /\ tabs' \in [Nodes -> Sessions \cup {0}]
        /\ tabs'[n] = s
        /\ \A m \in Nodes \ {n} : tabs'[m] = tabs[m]
    BY DEF Inv, DebugTypeOK
  <2>2. QED
    BY <2>1, SessionsAreNumbers DEF TabSessions
<1>6. DebugTypeOK'
  BY <1>1, <1>4, <1>5 DEF Inv, DebugTypeOK
<1>7. Apart'
  <2> SUFFICES ASSUME NEW t \in Sessions
               PROVE  /\ launches'[t] # NIL =>
                            /\ execs'[t] = NIL
                            /\ t \notin exec_update_rx'
                            /\ t \notin exec_sessions'
                            /\ t \notin TabSessions'
                            /\ t \notin node_debug_sessions'
                            /\ t \notin cleanups'
                      /\ t \in exec_update_rx' => execs'[t] = NIL
    BY DEF Apart
  <2>1. CASE t = s
    BY <2>1, <1>1
  <2>2. CASE t # s
    BY <2>2, <1>4, <1>5, CancelledShells DEF Inv, Apart
  <2>3. QED
    BY <2>1, <2>2
<1>8. PodsAreOwned'
  BY DEF Inv, PodsAreOwned, Launching, InPhase
<1>9. DebugShellIsShown'
  BY <1>2, <1>4, <1>5, CancelledShells DEF Inv, DebugTypeOK, DebugShellIsShown
<1>10. ShellsCanBeStopped'
  <2> SUFFICES ASSUME NEW t \in Sessions, execs'[t] # NIL, ~execs'[t].cancelled, running
               PROVE  t \in exec_sessions' \cap TabSessions'
    BY DEF ShellsCanBeStopped
  <2>1. CASE t = s
    BY <2>1, <1>5
  <2>2. CASE t # s
    <3>1. execs[t] # NIL /\ t \notin {old} \cap exec_sessions /\ ~execs[t].cancelled
      BY <2>2, <1>4, CancelledShells DEF Inv
    <3>2. t \in exec_sessions /\ t \in TabSessions
      BY <3>1 DEF Inv, ShellsCanBeStopped
    <3>3. QED
      BY <2>2, <3>1, <3>2, <1>5
  <2>3. QED
    BY <2>1, <2>2
<1>11. DialogAwaitsLaunch'
  BY DEF Inv, DialogAwaitsLaunch
<1>12. QED
  BY <1>6, <1>7, <1>8, <1>9, <1>10, <1>11 DEF Inv

-----------------------------------------------------------------------------
LEMMA NextInv == Inv /\ [Next]_vars => Inv'
<1> SUFFICES ASSUME Inv, [Next]_vars PROVE Inv'
  OBVIOUS
<1>1. CASE UNCHANGED vars
  BY <1>1 DEF vars, Inv, DebugTypeOK, Apart, PodsAreOwned, DebugShellIsShown,
              ShellsCanBeStopped, DialogAwaitsLaunch, TabSessions, Launching, InPhase
<1>2. ASSUME NEW n \in Nodes, OpenDetail(n) PROVE Inv'
  BY <1>2, DetailSteps
<1>3. ASSUME NEW n \in Nodes, CloseActiveTab(n) PROVE Inv'
  <2> USE <1>3 DEF CloseActiveTab
  <2>1. {tabs[n]} \in SUBSET Sessions
    BY Shown DEF Inv
  <2>2. /\ tabs' \in [Nodes -> Sessions \cup {0}]
        /\ TabSessions' \subseteq TabSessions
        /\ TabSessions \ {tabs[n]} \subseteq TabSessions'
    <3>1. /\ tabs' \in [Nodes -> Sessions \cup {0}]
          /\ tabs'[n] = 0
          /\ \A m \in Nodes \ {n} : tabs'[m] = tabs[m]
      BY DEF Inv, DebugTypeOK
    <3>2. QED
      BY <3>1 DEF TabSessions
  <2>3. QED
    BY <2>1, <2>2, StopKeepsInv DEF Inv, DebugTypeOK
<1>4. ASSUME NEW n \in Nodes, NEW s \in Sessions, ExecRestartSession(n, s) PROVE Inv'
  BY <1>4, RestartKeepsInv
<1>5. CASE CloseDetail \/ NodeDebugDialogOpen \/ NodeDebugDialogClose
  BY <1>5, DetailSteps
<1>6. ASSUME NEW s \in Sessions, NodeDebugDialogSubmit(s) PROVE Inv'
  BY <1>6, SubmitKeepsInv
<1>7. ASSUME NEW s \in Sessions, LaunchTask(s) PROVE Inv'
  BY <1>7, LaunchTaskKeepsInv
<1>8. ASSUME NEW s \in Sessions, ReceiveLaunch(s) PROVE Inv'
  BY <1>8, ReceiveLaunchKeepsInv
<1>9. ASSUME NEW s \in Sessions, OpenShell(s) \/ EndShell(s) PROVE Inv'
  BY <1>9, ShellKeepsInv
<1>10. ASSUME NEW s \in Sessions, ReceiveShellEnd(s) PROVE Inv'
  BY <1>10, ShellEndKeepsInv
<1>11. ASSUME NEW s \in Sessions, DeletePod(s) PROVE Inv'
  BY <1>11, DeletePodKeepsInv
<1>12. CASE HideWorkbench
  <2>1. TabSessions \in SUBSET Sessions /\ TabSessions' = TabSessions
    BY <1>12, Shown DEF Inv, HideWorkbench, TabSessions
  <2>2. QED
    BY <1>12, <2>1, StopKeepsInv DEF HideWorkbench, Inv, DebugTypeOK
<1>13. NoTabs \in [Nodes -> Sessions \cup {0}] /\ (tabs' = NoTabs => TabSessions' = {})
  BY DEF NoTabs, TabSessions
<1>14. CASE ApplyWorkspace
  <2>1. TabSessions \in SUBSET Sessions
    BY Shown DEF Inv
  <2>2. QED
    BY <1>13, <1>14, <2>1, StopKeepsInv DEF ApplyWorkspace, Inv, DebugTypeOK
<1>15. CASE SelectNamespace
  <2>1. PICK failing \in SUBSET node_debug_sessions : DeleteAllInline(failing)
    BY <1>15 DEF SelectNamespace
  <2>2. running' = running /\ running \in BOOLEAN
    BY <1>15 DEF SelectNamespace, Inv, DebugTypeOK
  <2>3. QED
    BY <1>15, <2>1, <2>2, InlineKeepsInv DEF SelectNamespace, Inv, DebugTypeOK
<1>16. CASE SelectContext
  <2>1. TabSessions \in SUBSET Sessions /\ switching' \in BOOLEAN
    BY <1>16, Shown DEF Inv, SelectContext
  <2>2. QED
    BY <1>13, <1>16, <2>1, StopKeepsInv DEF SelectContext, Inv, DebugTypeOK
<1>17. ASSUME NEW restores \in BOOLEAN, ContextSwitchSucceeds(restores) PROVE Inv'
  <2> USE <1>17 DEF ContextSwitchSucceeds
  <2>1. TabSessions \in SUBSET Sessions /\ switching' \in BOOLEAN
    BY Shown DEF Inv
  <2>2. /\ tabs' \in [Nodes -> Sessions \cup {0}]
        /\ TabSessions' \subseteq TabSessions
    BY <1>13 DEF Inv, DebugTypeOK, TabSessions
  <2>3. detail' = detail \/ detail' = NIL
    OBVIOUS
  <2>4. QED
    BY <2>1, <2>2, <2>3, StopKeepsInv DEF Inv, DebugTypeOK
<1>18. CASE ContextSwitchFails
  <2> USE <1>18 DEF ContextSwitchFails
  <2>1. switching' \in BOOLEAN
    OBVIOUS
  <2>2. DebugTypeOK'
    BY <2>1 DEF Inv, DebugTypeOK
  <2>3. QED
    BY <2>2 DEF Inv, Apart, PodsAreOwned, DebugShellIsShown, ShellsCanBeStopped,
                DialogAwaitsLaunch, TabSessions, Launching, InPhase
<1>19. CASE Quit
  <2>1. PICK failing \in SUBSET node_debug_sessions : DeleteAllInline(failing)
    BY <1>19 DEF Quit
  <2>2. running' = FALSE /\ tabs' = tabs
    BY <1>19 DEF Quit
  <2>3. QED
    BY <1>19, <2>1, <2>2, InlineKeepsInv DEF Quit, Inv, DebugTypeOK
<1>20. QED
  BY <1>1, <1>2, <1>3, <1>4, <1>5, <1>6, <1>7, <1>8, <1>9, <1>10, <1>11, <1>12,
     <1>14, <1>15, <1>16, <1>17, <1>18, <1>19 DEF Next

LEMMA SpecInv == Spec => []Inv
BY InitInv, NextInv, PTL DEF Spec

\* The variables keep their types.
THEOREM DebugTypeCorrect == Spec => []DebugTypeOK
<1>1. Inv => DebugTypeOK
  BY DEF Inv
<1>2. QED
  BY SpecInv, <1>1, PTL

\* No debug pod is left behind: a launch, the loop, or a cleanup task has it.
THEOREM NoPodIsLeftBehind == Spec => []PodsAreOwned
<1>1. Inv => PodsAreOwned
  BY DEF Inv
<1>2. QED
  BY SpecInv, <1>1, PTL

\* A pod is kept only for a shell that a tab shows and the loop can stop.
THEOREM PodsAreKeptForShells == Spec => []DebugShellIsShown
<1>1. Inv => DebugShellIsShown
  BY DEF Inv
<1>2. QED
  BY SpecInv, <1>1, PTL

\* No shell runs that nothing can stop.
THEOREM EveryShellCanBeStopped == Spec => []ShellsCanBeStopped
<1>1. Inv => ShellsCanBeStopped
  BY DEF Inv
<1>2. QED
  BY SpecInv, <1>1, PTL

\* A dialog never waits for a launch that is over.
THEOREM PendingDialogAwaitsLaunch == Spec => []DialogAwaitsLaunch
<1>1. Inv => DialogAwaitsLaunch
  BY DEF Inv
<1>2. QED
  BY SpecInv, <1>1, PTL

-----------------------------------------------------------------------------
(* The promise of module DebugPods                                         *)

\* A launch that has not created its pod yet meets no older one.
NoPodYet == \A s \in Sessions : InPhase(s, "creating") => pods[s] = "none"

LEMMA InitNoPodYet == Init => NoPodYet
BY DEF Init, NoPodYet

\* Pods are created, and deleted, only where a launch is past its creation,
\* or over.
LEMMA NextNoPodYet == Inv /\ NoPodYet /\ [Next]_vars => NoPodYet'
<1> SUFFICES ASSUME Inv, NoPodYet, [Next]_vars,
                    NEW s \in Sessions, InPhase(s, "creating")'
             PROVE  pods'[s] = "none"
  BY DEF NoPodYet
<1>1. CASE UNCHANGED <<launches, pods>>
  BY <1>1 DEF NoPodYet, InPhase
<1>2. ASSUME NEW t \in Sessions, NodeDebugDialogSubmit(t) PROVE pods'[s] = "none"
  BY <1>2 DEF NodeDebugDialogSubmit, IsNewSession, Free, NoPodYet, InPhase, Inv,
              DebugTypeOK
<1>3. ASSUME NEW t \in Sessions, LaunchTask(t) PROVE pods'[s] = "none"
  <2>1. \A phase \in {"waiting", "undoing", "launched", "failed"} :
           launches[t] # NIL /\ LaunchGoesOn(t, phase) =>
              s # t /\ launches'[s] = launches[s]
    BY DEF LaunchGoesOn, InPhase, Inv, DebugTypeOK, Launch
  <2>2. s # t /\ launches'[s] = launches[s]
    BY <1>3, <2>1 DEF LaunchTask, CreatePod, AwaitPod, UndoLaunch, InPhase
  <2>3. pods'[s] = pods[s]
    BY <1>3, <2>2, DeletedPods DEF LaunchTask, CreatePod, AwaitPod, UndoLaunch, Inv,
       DebugTypeOK
  <2>4. QED
    BY <2>2, <2>3 DEF NoPodYet, InPhase
<1>4. ASSUME NEW t \in Sessions, ReceiveLaunch(t) PROVE pods'[s] = "none"
  BY <1>4 DEF ReceiveLaunch, ReceiveStaleLaunch, ReceiveDisownedLaunch, AttachShell,
     ReceiveLaunchFailure, ResultRead, NoPodYet, InPhase, Inv, DebugTypeOK
<1>5. ASSUME NEW sessions, NEW failing, UNCHANGED launches,
             pods' = Deleted(sessions, failing),
             \A t \in Sessions : t \in sessions => launches[t] = NIL
      PROVE  pods'[s] = "none"
  BY <1>5, DeletedPods DEF NoPodYet, InPhase, Inv
<1>6. \A t \in node_debug_sessions \cup cleanups : launches[t] = NIL
  BY DEF Inv, DebugTypeOK, Apart
<1>7. ASSUME NEW t \in Sessions, DeletePod(t) PROVE pods'[s] = "none"
  BY <1>5, <1>6, <1>7 DEF DeletePod
<1>8. CASE SelectNamespace \/ Quit
  BY <1>5, <1>6, <1>8 DEF SelectNamespace, Quit, DeleteAllInline
<1>9. QED
  BY <1>1, <1>2, <1>3, <1>4, <1>7, <1>8
     DEF Next, vars, OpenDetail, CloseActiveTab, ExecRestartSession, CloseDetail,
         NodeDebugDialogOpen, NodeDebugDialogClose, OpenShell, EndShell,
         ReceiveShellEnd, HideWorkbench, ApplyWorkspace, SelectContext,
         ContextSwitchSucceeds, ContextSwitchFails

LEMMA SpecNoPodYet == Spec => [](Inv /\ NoPodYet)
BY InitInv, NextInv, InitNoPodYet, NextNoPodYet, PTL DEF Spec

\* Who owns a pod, in the terms of DebugPods.
OneOwner ==
    \A s \in Sessions :
        /\ HoldersOf(s) \in Abstract!Owners
        /\ pods[s] = "up" <=> HoldersOf(s) # {}
        /\ Launching(s) <=> HoldersOf(s) = {"launch"}
        /\ s \in node_debug_sessions <=> HoldersOf(s) = {"shell"}
        /\ s \in cleanups <=> HoldersOf(s) = {"cleanup"}

LEMMA OwnersAreHolders == Inv => OneOwner
<1> SUFFICES ASSUME Inv, NEW s \in Sessions
             PROVE  /\ HoldersOf(s) \in Abstract!Owners
                    /\ pods[s] = "up" <=> HoldersOf(s) # {}
                    /\ Launching(s) <=> HoldersOf(s) = {"launch"}
                    /\ s \in node_debug_sessions <=> HoldersOf(s) = {"shell"}
                    /\ s \in cleanups <=> HoldersOf(s) = {"cleanup"}
  BY DEF OneOwner
<1>1. /\ "launch" \in HoldersOf(s) <=> Launching(s)
      /\ "shell" \in HoldersOf(s) <=> s \in node_debug_sessions
      /\ "cleanup" \in HoldersOf(s) <=> s \in cleanups
      /\ HoldersOf(s) \subseteq {"launch", "shell", "cleanup"}
  BY DEF HoldersOf
<1>2. /\ pods[s] = "up" <=> (Launching(s) \/ s \in node_debug_sessions \/ s \in cleanups)
      /\ Launching(s) => s \notin node_debug_sessions \cup cleanups
      /\ s \notin node_debug_sessions \cap cleanups
  BY DEF Inv, PodsAreOwned
<1>3. CASE Launching(s)
  <2>1. HoldersOf(s) = {"launch"}
    BY <1>1, <1>2, <1>3
  <2>2. QED
    BY <2>1, <1>2, <1>3 DEF Abstract!Owners
<1>4. CASE s \in node_debug_sessions
  <2>1. HoldersOf(s) = {"shell"}
    BY <1>1, <1>2, <1>4
  <2>2. QED
    BY <2>1, <1>2, <1>4 DEF Abstract!Owners
<1>5. CASE s \in cleanups
  <2>1. HoldersOf(s) = {"cleanup"}
    BY <1>1, <1>2, <1>5
  <2>2. QED
    BY <2>1, <1>2, <1>5 DEF Abstract!Owners
<1>6. CASE ~(Launching(s) \/ s \in node_debug_sessions \/ s \in cleanups)
  <2>1. HoldersOf(s) = {}
    BY <1>1, <1>6
  <2>2. QED
    BY <2>1, <1>2, <1>6 DEF Abstract!Owners
<1>7. QED
  BY <1>3, <1>4, <1>5, <1>6

\* While no pod changes a pod can only be handed on, unless a launch takes one
\* back or a cleanup gives one up.
LEMMA HandsOn ==
    ASSUME OneOwner, OneOwner', UNCHANGED pods,
           \A s \in Sessions : Launching(s)' => Launching(s),
           cleanups \subseteq cleanups'
    PROVE  Abstract!HandOn
<1>1. ASSUME NEW s \in Sessions, HoldersOf(s)' # HoldersOf(s)
      PROVE  <<HoldersOf(s), HoldersOf(s)'>> \in Abstract!Handover
  <2>1. /\ HoldersOf(s) \in Abstract!Owners /\ HoldersOf(s)' \in Abstract!Owners
        /\ HoldersOf(s) # {} <=> HoldersOf(s)' # {}
        /\ HoldersOf(s)' = {"launch"} => HoldersOf(s) = {"launch"}
        /\ HoldersOf(s) = {"cleanup"} => HoldersOf(s)' = {"cleanup"}
    BY DEF OneOwner
  <2>2. QED
    BY <1>1, <2>1 DEF Abstract!Owners, Abstract!Handover
<1>2. [s \in Sessions |-> HoldersOf(s)]' \in [Sessions -> Abstract!Owners]
  BY DEF OneOwner
<1>3. QED
  BY <1>1, <1>2 DEF Abstract!HandOn

\* Pods that had owners are deleted, and the others keep theirs.
LEMMA Deletes ==
    ASSUME OneOwner, OneOwner', DebugTypeOK, NEW sessions \in SUBSET Sessions,
           NEW failing \in SUBSET sessions,
           pods' = Deleted(sessions, failing),
           \A s \in sessions : pods[s] = "up",
           \A s \in Sessions \ sessions : HoldersOf(s)' = HoldersOf(s)
    PROVE  Abstract!Next
<1>1. \A s \in sessions : HoldersOf(s) \in Abstract!Owners \ {{}}
  BY DEF OneOwner
<1>2. \A s \in sessions : HoldersOf(s)' = {}
  BY DeletedPods DEF OneOwner
<1>3. [s \in Sessions |-> HoldersOf(s)]'
        = [s \in Sessions |-> IF s \in sessions THEN {} ELSE HoldersOf(s)]
  BY <1>2
<1>4. pods' = [s \in Sessions |->
                  IF s \in failing THEN "kept"
                  ELSE IF s \in sessions THEN "none" ELSE pods[s]]
  BY DEF Deleted
<1>5. Abstract!Delete(sessions)
  BY <1>1, <1>3, <1>4 DEF Abstract!Delete
<1>6. QED
  BY <1>5 DEF Abstract!Next

\* Every step creates a pod, hands pods on, or deletes some.
LEMMA StepImplements ==
    Inv /\ Inv' /\ NoPodYet /\ [Next]_vars =>
        [Abstract!Next]_<<pods, [s \in Sessions |-> HoldersOf(s)]>>
<1> SUFFICES ASSUME Inv, Inv', NoPodYet, [Next]_vars,
                    ~UNCHANGED <<pods, [s \in Sessions |-> HoldersOf(s)]>>
             PROVE  Abstract!Next
  OBVIOUS
<1>1. OneOwner /\ OneOwner' /\ DebugTypeOK
  BY OwnersAreHolders, PTL DEF Inv
<1>2. ASSUME UNCHANGED pods,
             \A s \in Sessions : Launching(s)' => Launching(s),
             cleanups \subseteq cleanups'
      PROVE  Abstract!Next
  BY <1>1, <1>2, HandsOn DEF Abstract!Next
<1>3. CASE UNCHANGED <<launches, pods>> /\ cleanups \subseteq cleanups'
  BY <1>2, <1>3 DEF Launching, InPhase
<1>4. ASSUME NEW s \in Sessions, NodeDebugDialogSubmit(s) PROVE Abstract!Next
  BY <1>2, <1>4 DEF NodeDebugDialogSubmit, Launching, InPhase, Inv, DebugTypeOK
<1>5. ASSUME NEW s \in Sessions, LaunchTask(s) PROVE Abstract!Next
  <2>1. /\ UNCHANGED <<node_debug_sessions, cleanups>>
        /\ \A t \in Sessions \ {s} : launches'[t] = launches[t]
    BY <1>5 DEF LaunchTask, CreatePod, AwaitPod, UndoLaunch, LaunchGoesOn, Inv,
       DebugTypeOK
  <2>2. \A t \in Sessions \ {s} : HoldersOf(t)' = HoldersOf(t) /\ (Launching(t)' => Launching(t))
    BY <2>1 DEF HoldersOf, Launching, InPhase
  <2>3. CASE CreatePod(s) /\ pods' = [pods EXCEPT ![s] = "up"]
    <3>1. pods[s] = "none" /\ HoldersOf(s)' = {"launch"}
      <4>1. pods[s] = "none" /\ pods'[s] = "up"
        BY <2>3 DEF CreatePod, NoPodYet, Inv, DebugTypeOK
      <4>2. s \notin node_debug_sessions' /\ s \notin cleanups'
        BY <2>1, <2>3 DEF CreatePod, Inv, Apart, InPhase
      <4>3. QED
        BY <4>1, <4>2, <1>1 DEF OneOwner, Inv, PodsAreOwned
    <3>2. [t \in Sessions |-> HoldersOf(t)]'
            = [[t \in Sessions |-> HoldersOf(t)] EXCEPT ![s] = {"launch"}]
      BY <2>2, <3>1
    <3>3. Abstract!Create(s)
      BY <2>3, <3>1, <3>2 DEF Abstract!Create
    <3>4. QED
      BY <3>3 DEF Abstract!Next
  <2>4. CASE UNCHANGED pods
    <3>1. Launching(s)' => Launching(s)
      BY <1>1, <2>1, <2>4, <1>5 DEF OneOwner, Inv, PodsAreOwned, Apart, LaunchTask,
         CreatePod, AwaitPod, UndoLaunch, InPhase
    <3>2. QED
      BY <1>2, <2>1, <2>2, <2>4, <3>1
  <2>5. CASE UndoLaunch(s)
    <3>1. PICK failing \in SUBSET {s} : pods' = Deleted({s}, failing)
      BY <2>5 DEF UndoLaunch
    <3>2. pods[s] = "up"
      BY <2>5 DEF UndoLaunch, Launching, Inv, PodsAreOwned
    <3>3. QED
      BY <1>1, <2>2, <3>1, <3>2, Deletes
  <2>6. QED
    BY <1>5, <2>3, <2>4, <2>5 DEF LaunchTask, CreatePod, AwaitPod
<1>6. ASSUME NEW s \in Sessions, ReceiveLaunch(s) PROVE Abstract!Next
  <2>1. UNCHANGED pods /\ ResultRead(s) /\ (InPhase(s, "launched") \/ InPhase(s, "failed"))
    BY <1>6 DEF ReceiveLaunch, ReceiveStaleLaunch, ReceiveDisownedLaunch, AttachShell,
       ReceiveLaunchFailure, ResultRead
  <2>2. cleanups \subseteq cleanups'
    BY <1>6 DEF ReceiveLaunch, ReceiveStaleLaunch, ReceiveDisownedLaunch, AttachShell,
       ReceiveLaunchFailure
  <2>3. \A t \in Sessions : Launching(t)' => Launching(t)
    BY <2>1, ResultOfLaunch
  <2>4. QED
    BY <1>2, <2>1, <2>2, <2>3
<1>7. ASSUME NEW s \in Sessions, DeletePod(s) PROVE Abstract!Next
  <2>1. PICK failing \in SUBSET {s} : pods' = Deleted({s}, failing)
    BY <1>7 DEF DeletePod
  <2>2. pods[s] = "up"
    BY <1>7 DEF DeletePod, Inv, PodsAreOwned
  <2>3. \A t \in Sessions \ {s} : HoldersOf(t)' = HoldersOf(t)
    BY <1>7 DEF DeletePod, HoldersOf, Launching, InPhase
  <2>4. QED
    BY <1>1, <2>1, <2>2, <2>3, Deletes
<1>8. CASE SelectNamespace \/ Quit
  <2>1. PICK failing \in SUBSET node_debug_sessions : DeleteAllInline(failing)
    BY <1>8 DEF SelectNamespace, Quit
  <2>2. UNCHANGED <<launches, cleanups>> /\ node_debug_sessions' = {}
    BY <1>8, <2>1 DEF SelectNamespace, Quit, DeleteAllInline
  <2>3. \A t \in Sessions \ node_debug_sessions : HoldersOf(t)' = HoldersOf(t)
    BY <2>2 DEF HoldersOf, Launching, InPhase
  <2>4. /\ node_debug_sessions \in SUBSET Sessions
        /\ \A s \in node_debug_sessions : pods[s] = "up"
    BY DEF Inv, DebugTypeOK, PodsAreOwned
  <2>5. pods' = Deleted(node_debug_sessions, failing)
    BY <2>1 DEF DeleteAllInline
  <2>6. QED
    BY <1>1, <2>3, <2>4, <2>5, Deletes
<1>9. QED
  BY <1>3, <1>4, <1>5, <1>6, <1>7, <1>8
     DEF Next, vars, OpenDetail, CloseActiveTab, ExecRestartSession, CloseDetail,
         NodeDebugDialogOpen, NodeDebugDialogClose, OpenShell, EndShell,
         ReceiveShellEnd, HideWorkbench, ApplyWorkspace, SelectContext,
         ContextSwitchSucceeds, ContextSwitchFails, StopSessions, CleanUpIfNeeded

\* The pods pass from launches to shells to cleanups as DebugPods promises,
\* for any nodes, sessions and switches.
THEOREM DebugPodsAreHandedOn == Spec => PodsAreHandedOn
<1>1. Init => Abstract!Init
  <2> SUFFICES ASSUME Init PROVE Abstract!Init
    OBVIOUS
  <2>1. \A s \in Sessions : HoldersOf(s) = {}
    BY DEF Init, HoldersOf, Launching, InPhase
  <2>2. QED
    BY <2>1 DEF Init, Abstract!Init
<1>2. QED
  BY <1>1, SpecNoPodYet, StepImplements, PTL DEF Spec, PodsAreHandedOn, Abstract!Spec

=============================================================================
