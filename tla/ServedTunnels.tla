---------------------------- MODULE ServedTunnels ----------------------------
(***************************************************************************)
(* What port forwarding promises: a tunnel that serves a local port leads  *)
(* to the cluster that the program is connected to, is the only one of its *)
(* port and of its target, and is listed under the address at which it     *)
(* serves until it is stopped; nothing is served across a switch.          *)
(***************************************************************************)
CONSTANTS
    Pods,         \* pods of the clusters
    RemotePorts,  \* their ports
    Ports,        \* local ports
    Contexts      \* the clusters

VARIABLES
    connected,  \* the cluster that the program is connected to
    served,     \* the tunnels that accept connections, and whither they lead
    listed      \* the tunnels that the user is shown, and can stop

vars == <<connected, served, listed>>

Tunnel == [pod : Pods, remote : RemotePorts, port : Ports]

SameTarget(t, u) == t.pod = u.pod /\ t.remote = u.remote

Init ==
    /\ connected \in Contexts
    /\ served = {}
    /\ listed = {}

\* Whatever else is found to be registered is listed as well, here and below: a
\* tunnel that could not be opened, or has ended by itself, is registered.
Lists(tunnels) ==
    /\ listed' \subseteq Tunnel
    /\ tunnels \subseteq listed'

Open(t) ==
    /\ \A s \in served : s.tunnel.port # t.port /\ ~SameTarget(s.tunnel, t)
    /\ served' = served \cup {[tunnel |-> t, context |-> connected]}
    /\ Lists(listed \cup {t})
    /\ UNCHANGED connected

\* The user stops a tunnel of the list, and with it whatever serves its target.
Stop(t) ==
    /\ t \in listed
    /\ served' = {s \in served : ~SameTarget(s.tunnel, t)}
    /\ Lists({u \in listed : ~SameTarget(u, t)})
    /\ \A u \in listed' : ~SameTarget(u, t)
    /\ UNCHANGED connected

\* A tunnel that ends by itself stays listed.
End(s) ==
    /\ s \in served
    /\ served' = served \ {s}
    /\ UNCHANGED <<connected, listed>>

\* The list is brought up to date.
List ==
    /\ Lists(listed)
    /\ UNCHANGED <<connected, served>>

\* Another namespace, or the end of a switch, which may connect elsewhere.
Switch ==
    /\ served' = {}
    /\ listed' = {}
    /\ connected' \in Contexts

Next ==
    \/ \E t \in Tunnel : Open(t) \/ Stop(t)
    \/ \E s \in served : End(s)
    \/ List
    \/ Switch

Spec == Init /\ [][Next]_vars

=============================================================================
