----------------------------- MODULE PortForward -----------------------------
(***************************************************************************)
(* Port forwarding: the forwarder's tunnels and their listeners, the two   *)
(* lists that show the tunnels, and the switches that stop them all.       *)
(*                                                                         *)
(* The event loop awaits every operation of the forwarder, so no key is    *)
(* handled while a tunnel is created; the listeners and the other          *)
(* processes of the host go on. A tunnel is named by its pod and remote    *)
(* port, the pod standing for its namespace as well. Left out: typing into *)
(* the form, messages, the filter of the view, the access review, the      *)
(* proxied connections, which no list holds and no stop reaches, and the   *)
(* end of the program.                                                     *)
(***************************************************************************)
EXTENDS Integers, FiniteSets

CONSTANTS
    Pods,          \* pods, numbered in the order of their names
    RemotePorts,   \* ports of the pods
    Ports,         \* local ports
    Contexts,      \* the clusters of the kubeconfig
    NIL            \* nothing

ASSUME PodsAssumption == Pods \subseteq Nat /\ IsFiniteSet(Pods)
ASSUME RemotePortsAssumption ==
    RemotePorts \subseteq Nat /\ IsFiniteSet(RemotePorts)
ASSUME PortsAssumption == Ports \subseteq Nat \ {0} /\ IsFiniteSet(Ports)
ASSUME ContextsAssumption == NIL \notin Contexts

VARIABLES
    client,           \* the context of the client
    pending_context,  \* the context of pending_context_switch, or NIL
    tunnels,          \* PortForwarderService::tunnels
    handles,          \* PortForwarderService::handles: whose tasks it can abort
    listeners,        \* by local port: the task that accepts there, or NIL
    other_processes,  \* local ports that other processes have bound
    creating,         \* create_tunnel_async, which the loop awaits, or NIL
    tunnel_registry,  \* AppState::tunnel_registry: the list of the view
    dialog            \* the dialog in the port-forward tab, or NIL

vars == <<client, pending_context, tunnels, handles, listeners,
          other_processes, creating, tunnel_registry, dialog>>

service == <<tunnels, handles, listeners>>

Tunnel == [pod : Pods, remote : RemotePorts, port : Ports]

Listener == [tunnel : Tunnel, context : Contexts, aborted : BOOLEAN]

\* local_port = 0 asks for any; once chosen, the tunnel is set.
Creation ==
    [pod : Pods, remote : RemotePorts, local_port : Ports \cup {0}] \cup Tunnel

Dialog ==
    [pod : Pods, mode : {"Create", "List"}, registry : SUBSET Tunnel,
     selected_tunnel : Nat]

ASSUME NilAssumption == NIL \notin Listener \cup Creation \cup Dialog

ForwardTypeOK ==
    /\ client \in Contexts
    /\ pending_context \in Contexts \cup {NIL}
    /\ tunnels \subseteq Tunnel
    /\ handles \subseteq Tunnel
    /\ listeners \in [Ports -> Listener \cup {NIL}]
    /\ other_processes \subseteq Ports
    /\ creating \in Creation \cup {NIL}
    /\ tunnel_registry \subseteq Tunnel
    /\ dialog \in Dialog \cup {NIL}

Init ==
    /\ client \in Contexts
    /\ pending_context = NIL
    /\ tunnels = {}
    /\ handles = {}
    /\ listeners = [p \in Ports |-> NIL]
    /\ other_processes \in SUBSET Ports
    /\ creating = NIL
    /\ tunnel_registry = {}
    /\ dialog = NIL

-----------------------------------------------------------------------------
(* The lists                                                               *)

SameTarget(t, u) == t.pod = u.pod /\ t.remote = u.remote

\* rebuild_order: by namespace and pod, local port, remote port
Precedes(t, u) ==
    \/ t.pod < u.pod
    \/ t.pod = u.pod /\ t.port < u.port
    \/ t.pod = u.pod /\ t.port = u.port /\ t.remote < u.remote

\* The index of a tunnel in ordered_tunnels.
Position(t, registry) == Cardinality({u \in registry : Precedes(u, t)})

\* selected_tunnel_index: the index, kept within the list
Clamped(i, registry) ==
    IF i < Cardinality(registry) THEN i
    ELSE IF registry = {} THEN 0 ELSE Cardinality(registry) - 1

\* get_selected_tunnel, as a set of one tunnel or of none
Selected(d) ==
    {t \in d.registry :
        Position(t, d.registry) = Clamped(d.selected_tunnel, d.registry)}

\* Seeded bug: only the index is kept.
UpdatedByIndex(d, registry) ==
    [d EXCEPT !.registry = registry,
              !.selected_tunnel = Clamped(d.selected_tunnel, registry)]

\* update_registry: the selection stays with its tunnel while that is listed.
Updated(d, registry) ==
    LET kept == {t \in registry : \E u \in Selected(d) : SameTarget(t, u)}
    IN  [d EXCEPT
            !.registry = registry,
            !.selected_tunnel =
                IF kept # {} THEN Position(CHOOSE t \in kept : TRUE, registry)
                ELSE Clamped(d.selected_tunnel, registry)]

\* Seeded bug: the dialog's copy is left as it was.
ShowInView(registry, d) ==
    /\ tunnel_registry' = registry
    /\ dialog' = d

\* update_port_forwarding_registry, and the dialog's copy of the list
Show(registry, d) ==
    /\ tunnel_registry' = registry
    /\ dialog' = IF d = NIL THEN NIL ELSE Updated(d, registry)

-----------------------------------------------------------------------------
(* Creating a tunnel                                                       *)

Free(p) == listeners[p] = NIL /\ p \notin other_processes

\* Enter in the form; a target that is registered is refused.
PortForwardCreate(pod, remote, local_port) ==
    /\ creating = NIL
    /\ dialog # NIL
    /\ dialog.mode = "Create"
    /\ ~\E t \in tunnels : t.pod = pod /\ t.remote = remote
    /\ creating' = [pod |-> pod, remote |-> remote, local_port |-> local_port]
    /\ UNCHANGED <<client, pending_context, service, other_processes,
                   tunnel_registry, dialog>>

\* Seeded bug: the port that was asked for is registered, not the one found.
RegisterAsked(p) ==
    /\ creating # NIL
    /\ creating \notin Tunnel
    /\ creating.local_port \in {0, p}
    /\ Free(p)
    /\ creating' = [pod |-> creating.pod, remote |-> creating.remote,
                    port |-> creating.local_port]
    /\ tunnels' = tunnels \cup {creating'}
    /\ UNCHANGED <<client, pending_context, handles, listeners,
                   other_processes, tunnel_registry, dialog>>

\* create_port_forward: the pod exists, exposes the port, and the local port
\* can be bound, which is tried and undone. The tunnel is registered.
Register(p) ==
    /\ creating # NIL
    /\ creating \notin Tunnel
    /\ creating.local_port \in {0, p}
    /\ Free(p)
    /\ creating' = [pod |-> creating.pod, remote |-> creating.remote, port |-> p]
    /\ tunnels' = tunnels \cup {creating'}
    /\ UNCHANGED <<client, pending_context, handles, listeners,
                   other_processes, tunnel_registry, dialog>>

\* The pod is missing, does not expose the port, or no local port is free.
RefuseToCreate ==
    /\ creating # NIL
    /\ creating \notin Tunnel
    /\ creating' = NIL
    /\ UNCHANGED <<client, pending_context, service, other_processes,
                   tunnel_registry, dialog>>

\* The listener is bound and its task spawned; the handler updates the lists.
BindListener ==
    /\ creating \in Tunnel
    /\ Free(creating.port)
    /\ listeners' = [listeners EXCEPT ![creating.port] =
            [tunnel |-> creating, context |-> client, aborted |-> FALSE]]
    /\ handles' = handles \cup {creating}
    /\ Show(tunnels, dialog)
    /\ creating' = NIL
    /\ UNCHANGED <<client, pending_context, tunnels, other_processes>>

\* Another process was faster; the tunnel stays registered.
BindFails ==
    /\ creating \in Tunnel
    /\ ~Free(creating.port)
    /\ creating' = NIL
    /\ UNCHANGED <<client, pending_context, service, other_processes,
                   tunnel_registry, dialog>>

-----------------------------------------------------------------------------
(* Stopping tunnels                                                        *)

\* The listeners with the tasks of some handles aborted.
Aborted(stopped) ==
    [p \in Ports |->
        IF listeners[p] # NIL /\ listeners[p].tunnel \in stopped
        THEN [listeners[p] EXCEPT !.aborted = TRUE]
        ELSE listeners[p]]

\* Seeded bug: the handle is dropped, which detaches its task.
StopDetaches(tunnel) ==
    /\ handles' = {h \in handles : ~SameTarget(h, tunnel)}
    /\ tunnels' = {t \in tunnels : ~SameTarget(t, tunnel)}
    /\ UNCHANGED listeners

\* stop_forward
StopForward(tunnel) ==
    LET stopped == {h \in handles : SameTarget(h, tunnel)}
    IN  /\ listeners' = Aborted(stopped)
        /\ handles' = handles \ stopped
        /\ tunnels' = {t \in tunnels : ~SameTarget(t, tunnel)}

\* stop_all: stop_forward of every tunnel that is registered
StopAll ==
    LET stopped == {h \in handles : \E t \in tunnels : SameTarget(h, t)}
    IN  /\ listeners' = Aborted(stopped)
        /\ handles' = handles \ stopped
        /\ tunnels' = {}

\* Seeded bug: the service is replaced without stopping its tunnels.
ForgetAll ==
    /\ handles' = {}
    /\ tunnels' = {}
    /\ UNCHANGED listeners

\* Keys of the dialog's list.
PortForwardStop ==
    /\ creating = NIL
    /\ dialog # NIL
    /\ dialog.mode = "List"
    /\ \E t \in Selected(dialog) : StopForward(t)
    /\ Show(tunnels', dialog)
    /\ UNCHANGED <<client, pending_context, other_processes, creating>>

PortForwardRefresh ==
    /\ creating = NIL
    /\ dialog # NIL
    /\ dialog.mode = "List"
    /\ Show(tunnels, dialog)
    /\ UNCHANGED <<client, pending_context, service, other_processes,
                   creating>>

\* Down, or Up, which wraps around
Select(down) ==
    /\ creating = NIL
    /\ dialog # NIL
    /\ dialog.mode = "List"
    /\ LET total == Cardinality(dialog.registry)
           selected == Clamped(dialog.selected_tunnel, dialog.registry)
       IN  dialog' = [dialog EXCEPT !.selected_tunnel =
               IF total = 0 THEN 0
               ELSE IF down THEN IF selected + 1 < total THEN selected + 1 ELSE 0
               ELSE IF selected > 0 THEN selected - 1 ELSE total - 1]
    /\ UNCHANGED <<client, pending_context, service, other_processes,
                   creating, tunnel_registry>>

\* F1 and F2
SwitchMode(mode) ==
    /\ creating = NIL
    /\ dialog # NIL
    /\ dialog' = [dialog EXCEPT !.mode = mode]
    /\ UNCHANGED <<client, pending_context, service, other_processes,
                   creating, tunnel_registry>>

\* open_port_forward_tab: the tab of the same pod keeps its dialog.
PortForwardOpen(pod) ==
    /\ creating = NIL
    /\ Show(tunnels,
            IF dialog # NIL /\ dialog.pod = pod THEN dialog
            ELSE [pod |-> pod, mode |-> "Create", registry |-> {},
                  selected_tunnel |-> 0])
    /\ UNCHANGED <<client, pending_context, service, other_processes,
                   creating>>

CloseTab ==
    /\ creating = NIL
    /\ dialog # NIL
    /\ dialog' = NIL
    /\ UNCHANGED <<client, pending_context, service, other_processes,
                   creating, tunnel_registry>>

-----------------------------------------------------------------------------
(* Switches, which stop every tunnel                                       *)

\* SelectNamespace, and the restoration of a workspace of this context
StopSessions ==
    /\ creating = NIL
    /\ StopAll
    /\ Show({}, NIL)
    /\ UNCHANGED <<client, pending_context, other_processes, creating>>

SelectContext(context) ==
    /\ creating = NIL
    /\ StopAll
    /\ Show({}, NIL)
    /\ pending_context' = context
    /\ UNCHANGED <<client, other_processes, creating>>

\* Seeded bug: only SelectContext stops tunnels.
SwitchOnly(restoring) ==
    /\ creating = NIL
    /\ pending_context # NIL
    /\ ForgetAll
    /\ Show({}, IF restoring THEN NIL ELSE dialog)
    /\ client' = pending_context
    /\ pending_context' = NIL
    /\ UNCHANGED <<other_processes, creating>>

\* Tunnels created while the switch was pending are stopped; their tab is
\* closed only when a workspace is restored.
ContextSwitchSucceeds(restoring) ==
    /\ creating = NIL
    /\ pending_context # NIL
    /\ StopAll
    /\ Show({}, IF restoring THEN NIL ELSE dialog)
    /\ client' = pending_context
    /\ pending_context' = NIL
    /\ UNCHANGED <<other_processes, creating>>

ContextSwitchFails ==
    /\ creating = NIL
    /\ pending_context # NIL
    /\ pending_context' = NIL
    /\ UNCHANGED <<client, service, other_processes, creating,
                   tunnel_registry, dialog>>

-----------------------------------------------------------------------------
(* Listeners and other processes                                           *)

\* The task is dropped by the runtime, or leaves its loop at an error.
ListenerEnds(p) ==
    /\ listeners[p] # NIL
    /\ listeners' = [listeners EXCEPT ![p] = NIL]
    /\ UNCHANGED <<client, pending_context, tunnels, handles, other_processes,
                   creating, tunnel_registry, dialog>>

OtherProcessBinds(p) ==
    /\ Free(p)
    /\ other_processes' = other_processes \cup {p}
    /\ UNCHANGED <<client, pending_context, service, creating,
                   tunnel_registry, dialog>>

OtherProcessCloses(p) ==
    /\ p \in other_processes
    /\ other_processes' = other_processes \ {p}
    /\ UNCHANGED <<client, pending_context, service, creating,
                   tunnel_registry, dialog>>

-----------------------------------------------------------------------------
Next ==
    \/ \E pod \in Pods, remote \in RemotePorts, p \in Ports \cup {0} :
            PortForwardCreate(pod, remote, p)
    \/ \E p \in Ports : Register(p)
    \/ RefuseToCreate
    \/ BindListener
    \/ BindFails
    \/ PortForwardStop
    \/ PortForwardRefresh
    \/ \E down \in BOOLEAN : Select(down)
    \/ \E mode \in {"Create", "List"} : SwitchMode(mode)
    \/ \E pod \in Pods : PortForwardOpen(pod)
    \/ CloseTab
    \/ StopSessions
    \/ \E context \in Contexts : SelectContext(context)
    \/ \E restoring \in BOOLEAN : ContextSwitchSucceeds(restoring)
    \/ ContextSwitchFails
    \/ \E p \in Ports : ListenerEnds(p)
    \/ \E p \in Ports : OtherProcessBinds(p)
    \/ \E p \in Ports : OtherProcessCloses(p)

Spec == Init /\ [][Next]_vars

-----------------------------------------------------------------------------
(* Properties                                                              *)

Listening(p) == listeners[p] # NIL /\ ~listeners[p].aborted

\* Every listener that has not been told to stop is of the cluster that the
\* client is connected to, in the registry of the service, and its handle is
\* held: stop_forward and the switches reach every one of them, whatever was
\* created while a switch was pending.
ListenersAreReached ==
    \A p \in Ports : Listening(p) =>
        /\ listeners[p].context = client
        /\ listeners[p].tunnel \in tunnels \cap handles

\* A pod's port has one tunnel, although looking it up and registering it are
\* separated by the requests that create_tunnel_async awaits.
OneTunnelPerTarget ==
    \A t, u \in tunnels : SameTarget(t, u) => t = u

\* The lists of the view and of the dialog agree, show every tunnel that
\* listens, with the address it listens at, and none that was stopped.
ListsAreTrue ==
    /\ \A p \in Ports : Listening(p) =>
            /\ listeners[p].tunnel.port = p
            /\ listeners[p].tunnel \in tunnel_registry
    /\ tunnel_registry \subseteq tunnels
    /\ dialog # NIL => dialog.registry = tunnel_registry

\* The tunnels that serve, each with the local port at which it really does.
Served ==
    {[tunnel |-> [listeners[p].tunnel EXCEPT !.port = p],
      context |-> listeners[p].context] : p \in {q \in Ports : Listening(q)}}

Abstract ==
    INSTANCE ServedTunnels
    WITH connected <- client, served <- Served, listed <- tunnel_registry

\* The forwarder, its listeners and the lists serve tunnels as ServedTunnels
\* promises.
TunnelsAreServed == Abstract!Spec

\* The selection of a dialog moves with its tunnel when tunnels appear before
\* it and disappear; d stops the tunnel that the user chose.
SelectionFollows ==
    [][(/\ dialog # NIL
        /\ dialog' # NIL
        /\ dialog'.pod = dialog.pod
        /\ dialog'.registry # dialog.registry)
       => (Selected(dialog) \subseteq dialog'.registry
           => Selected(dialog') = Selected(dialog)
              \/ Selected(dialog) = {})]_vars

=============================================================================
