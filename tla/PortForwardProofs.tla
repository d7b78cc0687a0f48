-------------------------- MODULE PortForwardProofs --------------------------
(***************************************************************************)
(* Every listener is in reach of the forwarder and on its lists, and the   *)
(* selection of the list follows its tunnel, for any pods and ports.  The  *)
(* first part is about the order of the list, the second about the         *)
(* actions.                                                                *)
(***************************************************************************)
EXTENDS PortForward, FiniteSetTheorems, TLAPS

\* What create_tunnel_async knows between its requests: the target that was
\* looked up is still absent, and a tunnel whose listener is awaited is
\* registered.
CreationIsAlone ==
    creating # NIL =>
        IF creating \in Tunnel THEN creating \in tunnels
        ELSE \A t \in tunnels : ~SameTarget(t, creating)

ForwardInv ==
    /\ ForwardTypeOK
    /\ ListenersAreReached
    /\ OneTunnelPerTarget
    /\ ListsAreTrue
    /\ CreationIsAlone

\* A registry that lists each target once.
Registry == {r \in SUBSET Tunnel : \A t, u \in r : SameTarget(t, u) => t = u}

-----------------------------------------------------------------------------
(* The order of the list                                                   *)

LEMMA TunnelsAreFinite == IsFiniteSet(Tunnel)
<1> DEFINE Product == (Pods \X RemotePorts) \X Ports
           tunnel == [x \in Product |->
                         [pod |-> x[1][1], remote |-> x[1][2], port |-> x[2]]]
<1>1. IsFiniteSet(Pods \X RemotePorts)
  BY FS_Product, PodsAssumption, RemotePortsAssumption
<1>2. IsFiniteSet(Product)
  BY <1>1, FS_Product, PortsAssumption
<1>3. tunnel \in [Product -> Tunnel]
  BY DEF Tunnel
<1>4. ASSUME NEW t \in Tunnel PROVE \E x \in Product : tunnel[x] = t
  <2>1. <<<<t.pod, t.remote>>, t.port>> \in Product
    BY DEF Tunnel
  <2>2. tunnel[<<<<t.pod, t.remote>>, t.port>>] = t
    BY <2>1 DEF Tunnel
  <2>3. QED
    BY <2>1, <2>2
<1>5. tunnel \in Surjection(Product, Tunnel)
  BY <1>3, <1>4 DEF Surjection
<1>6. QED
  BY <1>2, <1>5, FS_Surjection

\* A tunnel has numbers for its parts, and two with the same parts are one.
LEMMA TunnelParts ==
    ASSUME NEW t \in Tunnel
    PROVE  /\ t.pod \in Nat /\ t.remote \in Nat /\ t.port \in Nat
           /\ \A u \in Tunnel :
                 t.pod = u.pod /\ t.remote = u.remote /\ t.port = u.port => t = u
<1>1. t.pod \in Nat /\ t.remote \in Nat /\ t.port \in Nat
  BY PodsAssumption, RemotePortsAssumption, PortsAssumption DEF Tunnel
<1>2. ASSUME NEW u \in Tunnel,
             t.pod = u.pod, t.remote = u.remote, t.port = u.port
      PROVE  t = u
  BY <1>2 DEF Tunnel
<1>3. QED
  BY <1>1, <1>2

\* Precedes is a strict total order of the tunnels.
LEMMA PrecedesOrders ==
    ASSUME NEW t \in Tunnel, NEW u \in Tunnel
    PROVE  /\ ~Precedes(t, t)
           /\ t # u => Precedes(t, u) \/ Precedes(u, t)
           /\ \A v \in Tunnel : Precedes(v, t) /\ Precedes(t, u) => Precedes(v, u)
<1>1. ~Precedes(t, t)
  BY TunnelParts DEF Precedes
<1>2. t # u => Precedes(t, u) \/ Precedes(u, t)
  BY TunnelParts DEF Precedes
<1>3. ASSUME NEW v \in Tunnel, Precedes(v, t), Precedes(t, u)
      PROVE  Precedes(v, u)
  <2>1. /\ v.pod \in Nat /\ v.remote \in Nat /\ v.port \in Nat
        /\ t.pod \in Nat /\ t.remote \in Nat /\ t.port \in Nat
        /\ u.pod \in Nat /\ u.remote \in Nat /\ u.port \in Nat
    BY TunnelParts
  <2>2. QED
    BY <1>3, <2>1 DEF Precedes
<1>4. QED
  BY <1>1, <1>2, <1>3

\* Positions are indices of the list, and grow along its order.
LEMMA Positions ==
    ASSUME NEW registry \in SUBSET Tunnel, NEW t \in Tunnel
    PROVE  /\ IsFiniteSet(registry)
           /\ Cardinality(registry) \in Nat
           /\ Position(t, registry) \in Nat
           /\ t \in registry => Position(t, registry) < Cardinality(registry)
           /\ \A u \in registry : u # t /\ Precedes(u, t) =>
                 Position(u, registry) < Position(t, registry)
<1> DEFINE before(u) == {v \in registry : Precedes(v, u)}
<1>1. IsFiniteSet(registry) /\ Cardinality(registry) \in Nat
  BY TunnelsAreFinite, FS_Subset, FS_CardinalityType
<1>2. \A u \in Tunnel : /\ IsFiniteSet(before(u))
                        /\ Cardinality(before(u)) \in Nat
                        /\ Cardinality(before(u)) <= Cardinality(registry)
                        /\ Cardinality(registry) = Cardinality(before(u))
                              => registry = before(u)
  <2>1. TAKE u \in Tunnel
  <2>2. before(u) \in SUBSET registry
    OBVIOUS
  <2>3. QED
    BY <1>1, <2>2, FS_Subset, FS_CardinalityType
<1>3. t \in registry => Position(t, registry) < Cardinality(registry)
  <2>1. t \in registry => registry # before(t)
    BY PrecedesOrders
  <2>2. /\ Cardinality(before(t)) \in Nat
        /\ Cardinality(before(t)) <= Cardinality(registry)
        /\ t \in registry => Cardinality(before(t)) # Cardinality(registry)
    BY <1>2, <2>1
  <2>3. Position(t, registry) = Cardinality(before(t))
    BY DEF Position
  <2>4. QED
    BY <1>1, <2>2, <2>3
<1>4. ASSUME NEW u \in registry, Precedes(u, t)
      PROVE  Position(u, registry) < Position(t, registry)
  <2>1. before(u) \in SUBSET before(t)
    BY <1>4, PrecedesOrders
  <2>2. before(u) # before(t)
    <3>1. u \in before(t) /\ u \notin before(u)
      BY <1>4, PrecedesOrders
    <3>2. QED
      BY <3>1
  <2>3. Cardinality(before(u)) <= Cardinality(before(t))
        /\ Cardinality(before(t)) # Cardinality(before(u))
    BY <1>2, <2>1, <2>2, FS_Subset
  <2>4. /\ Position(u, registry) = Cardinality(before(u))
        /\ Position(t, registry) = Cardinality(before(t))
    BY DEF Position
  <2>5. Cardinality(before(u)) \in Nat /\ Cardinality(before(t)) \in Nat
    BY <1>2
  <2>6. QED
    BY <2>3, <2>4, <2>5
<1>5. QED
  BY <1>1, <1>2, <1>3, <1>4 DEF Position

\* Two tunnels of a list do not share a position.
LEMMA PositionsDiffer ==
    ASSUME NEW registry \in SUBSET Tunnel, NEW t \in registry, NEW u \in registry,
           Position(t, registry) = Position(u, registry)
    PROVE  t = u
<1>1. SUFFICES ASSUME t # u PROVE FALSE
  OBVIOUS
<1>2. CASE Precedes(t, u)
  <2>1. Position(t, registry) < Position(u, registry)
    BY <1>1, <1>2, Positions
  <2>2. Position(u, registry) \in Nat
    BY Positions
  <2>3. QED
    BY <2>1, <2>2
<1>3. CASE Precedes(u, t)
  <2>1. Position(u, registry) < Position(t, registry)
    BY <1>1, <1>3, Positions
  <2>2. Position(t, registry) \in Nat
    BY Positions
  <2>3. QED
    BY <2>1, <2>2
<1>4. QED
  BY <1>1, <1>2, <1>3, PrecedesOrders

LEMMA ClampedType ==
    ASSUME NEW registry \in SUBSET Tunnel, NEW i \in Nat
    PROVE  /\ Clamped(i, registry) \in Nat
           /\ i < Cardinality(registry) => Clamped(i, registry) = i
<1>1. IsFiniteSet(registry) /\ Cardinality(registry) \in Nat
  BY TunnelsAreFinite, FS_Subset, FS_CardinalityType
<1>2. registry # {} => Cardinality(registry) - 1 \in Nat
  BY <1>1, FS_EmptySet
<1>3. QED
  BY <1>1, <1>2 DEF Clamped

LEMMA SelectedIsOne ==
    ASSUME NEW d \in Dialog, NEW t \in Selected(d), NEW u \in Selected(d)
    PROVE  t = u
BY PositionsDiffer DEF Selected, Dialog

LEMMA UpdatedType ==
    ASSUME NEW d \in Dialog, NEW registry \in SUBSET Tunnel
    PROVE  /\ Updated(d, registry) \in Dialog
           /\ Updated(d, registry).registry = registry
           /\ Updated(d, registry).pod = d.pod
<1> DEFINE kept == {t \in registry : \E u \in Selected(d) : SameTarget(t, u)}
<1>1. kept # {} => Position(CHOOSE t \in kept : TRUE, registry) \in Nat
  BY Positions
<1>2. Clamped(d.selected_tunnel, registry) \in Nat
  BY ClampedType DEF Dialog
<1>3. QED
  BY <1>1, <1>2 DEF Updated, Dialog

\* update_registry moves the selection with its tunnel.
LEMMA UpdatedSelects ==
    ASSUME NEW d \in Dialog, NEW registry \in Registry,
           NEW u \in Selected(d), u \in registry
    PROVE  Selected(Updated(d, registry)) = {u}
<1> DEFINE kept == {t \in registry : \E v \in Selected(d) : SameTarget(t, v)}
           e == Updated(d, registry)
<1>1. registry \in SUBSET Tunnel /\ u \in Tunnel
  BY DEF Registry
<1>2. kept = {u}
  <2>1. u \in kept
    BY DEF SameTarget
  <2>2. ASSUME NEW t \in kept PROVE t = u
    <3>1. SameTarget(t, u)
      BY <2>2, SelectedIsOne
    <3>2. QED
      BY <3>1 DEF Registry
  <2>3. QED
    BY <2>1, <2>2
<1>3. (CHOOSE t \in kept : TRUE) = u
  BY <1>2
<1>4. e.registry = registry /\ e.selected_tunnel = Position(u, registry)
  BY <1>2, <1>3 DEF Updated, Dialog
<1>5. Clamped(Position(u, registry), registry) = Position(u, registry)
  BY <1>1, Positions, ClampedType
<1>6. Selected(e) = {t \in registry : Position(t, registry) = Position(u, registry)}
  BY <1>4, <1>5 DEF Selected
<1>7. QED
  BY <1>1, <1>6, PositionsDiffer

-----------------------------------------------------------------------------
LEMMA Nil == /\ NIL \notin Listener
             /\ NIL \notin Creation
             /\ NIL \notin Dialog
             /\ NIL \notin Tunnel
             /\ NIL \notin Contexts
             /\ 0 \notin Ports
BY NilAssumption, ContextsAssumption, PortsAssumption DEF Creation

LEMMA InitEstablishes == Init => ForwardInv
BY DEF Init, ForwardInv, ForwardTypeOK, ListenersAreReached, OneTunnelPerTarget,
       ListsAreTrue, CreationIsAlone, Listening

\* Showing a list keeps the types, and makes both lists that list.
LEMMA ShowKeeps ==
    ASSUME NEW registry \in SUBSET Tunnel, NEW d \in Dialog \cup {NIL},
           Show(registry, d)
    PROVE  /\ tunnel_registry' = registry
           /\ dialog' \in Dialog \cup {NIL}
           /\ dialog' # NIL => dialog'.registry = registry
BY UpdatedType, Nil DEF Show

\* Aborting listeners leaves their tunnels and contexts.
LEMMA AbortedKeeps ==
    ASSUME ForwardTypeOK, NEW stopped, listeners' = Aborted(stopped)
    PROVE  /\ listeners' \in [Ports -> Listener \cup {NIL}]
           /\ \A p \in Ports : Listening(p)' =>
                 /\ Listening(p)
                 /\ listeners'[p].tunnel = listeners[p].tunnel
                 /\ listeners'[p].context = listeners[p].context
                 /\ listeners[p].tunnel \notin stopped
<1>1. ASSUME NEW p \in Ports
      PROVE  /\ listeners'[p] \in Listener \cup {NIL}
             /\ Listening(p)' =>
                 /\ Listening(p)
                 /\ listeners'[p].tunnel = listeners[p].tunnel
                 /\ listeners'[p].context = listeners[p].context
                 /\ listeners[p].tunnel \notin stopped
  <2>1. listeners[p] \in Listener \cup {NIL}
    BY DEF ForwardTypeOK
  <2>2. CASE listeners[p] # NIL /\ listeners[p].tunnel \in stopped
    <3>1. listeners'[p] = [listeners[p] EXCEPT !.aborted = TRUE]
      BY <2>2 DEF Aborted
    <3>2. QED
      BY <2>1, <2>2, <3>1 DEF Listener, Listening
  <2>3. CASE ~(listeners[p] # NIL /\ listeners[p].tunnel \in stopped)
    <3>1. listeners'[p] = listeners[p]
      BY <2>3 DEF Aborted
    <3>2. QED
      BY <2>1, <2>3, <3>1 DEF Listening
  <2>4. QED
    BY <2>2, <2>3
<1>2. listeners' \in [Ports -> Listener \cup {NIL}]
  BY <1>1 DEF Aborted
<1>3. QED
  BY <1>1, <1>2

\* stop_forward: what still listens is of another target.
LEMMA StopForwardKeeps ==
    ASSUME ForwardInv, NEW t \in Tunnel, StopForward(t)
    PROVE  /\ listeners' \in [Ports -> Listener \cup {NIL}]
           /\ tunnels' \subseteq tunnels
           /\ handles' \subseteq handles
           /\ \A p \in Ports : Listening(p)' =>
                 /\ Listening(p)
                 /\ listeners'[p].tunnel = listeners[p].tunnel
                 /\ listeners'[p].context = listeners[p].context
                 /\ listeners'[p].tunnel \in tunnels' \cap handles'
<1> DEFINE stopped == {h \in handles : SameTarget(h, t)}
<1>1. listeners' = Aborted(stopped) /\ handles' = handles \ stopped
      /\ tunnels' = {u \in tunnels : ~SameTarget(u, t)}
  BY DEF StopForward
<1>2. ASSUME NEW p \in Ports, Listening(p)'
      PROVE  listeners'[p].tunnel \in tunnels' \cap handles'
  <2>1. /\ Listening(p)
        /\ listeners'[p].tunnel = listeners[p].tunnel
        /\ listeners[p].tunnel \notin stopped
    BY <1>1, <1>2, AbortedKeeps DEF ForwardInv
  <2>2. listeners[p].tunnel \in tunnels \cap handles
    BY <2>1 DEF ForwardInv, ListenersAreReached
  <2>3. QED
    BY <1>1, <2>1, <2>2
<1>3. QED
  BY <1>1, <1>2, AbortedKeeps DEF ForwardInv

\* stop_all: nothing listens any more.
LEMMA StopAllStops ==
    ASSUME ForwardInv, StopAll
    PROVE  /\ listeners' \in [Ports -> Listener \cup {NIL}]
           /\ tunnels' = {}
           /\ handles' \subseteq handles
           /\ \A p \in Ports : ~Listening(p)'
<1> DEFINE stopped == {h \in handles : \E t \in tunnels : SameTarget(h, t)}
<1>1. listeners' = Aborted(stopped) /\ handles' = handles \ stopped /\ tunnels' = {}
  BY DEF StopAll
<1>2. ASSUME NEW p \in Ports, Listening(p)' PROVE FALSE
  <2>1. Listening(p) /\ listeners[p].tunnel \notin stopped
    BY <1>1, <1>2, AbortedKeeps DEF ForwardInv
  <2>2. listeners[p].tunnel \in tunnels \cap handles
    BY <2>1 DEF ForwardInv, ListenersAreReached
  <2>3. QED
    BY <2>1, <2>2 DEF SameTarget
<1>3. QED
  BY <1>1, <1>2, AbortedKeeps DEF ForwardInv

-----------------------------------------------------------------------------
(* The actions                                                             *)

LEMMA CreateKeeps ==
    ASSUME ForwardInv, NEW pod \in Pods, NEW remote \in RemotePorts,
           NEW p \in Ports \cup {0}, PortForwardCreate(pod, remote, p)
    PROVE  ForwardInv'
<1> USE DEF PortForwardCreate, service
<1>1. creating' \in Creation
  BY DEF Creation
<1>2. creating' \notin Tunnel
  BY DEF Tunnel
<1>3. ForwardTypeOK'
  BY <1>1 DEF ForwardInv, ForwardTypeOK
<1>4. CreationIsAlone'
  BY <1>2 DEF CreationIsAlone, SameTarget
<1>5. ListenersAreReached' /\ OneTunnelPerTarget' /\ ListsAreTrue'
  BY DEF ForwardInv, ListenersAreReached, OneTunnelPerTarget, ListsAreTrue,
         Listening
<1>6. QED
  BY <1>3, <1>4, <1>5 DEF ForwardInv

LEMMA RegisterKeeps ==
    ASSUME ForwardInv, NEW p \in Ports, Register(p)
    PROVE  ForwardInv'
<1> USE DEF Register
<1>1. creating.pod \in Pods /\ creating.remote \in RemotePorts
  BY Nil DEF ForwardInv, ForwardTypeOK, Creation
<1>2. creating' \in Tunnel /\ creating' \in tunnels' /\ tunnels \subseteq tunnels'
  BY <1>1 DEF Tunnel
<1>3. ForwardTypeOK'
  BY <1>2 DEF ForwardInv, ForwardTypeOK, Creation
<1>4. OneTunnelPerTarget'
  <2>1. \A t \in tunnels : ~SameTarget(t, creating') /\ ~SameTarget(creating', t)
    BY DEF ForwardInv, CreationIsAlone, SameTarget
  <2>2. QED
    BY <2>1 DEF ForwardInv, OneTunnelPerTarget
<1>5. CreationIsAlone'
  BY <1>2 DEF CreationIsAlone
<1>6. ListenersAreReached' /\ ListsAreTrue'
  BY <1>2 DEF ForwardInv, ListenersAreReached, ListsAreTrue, Listening
<1>7. QED
  BY <1>3, <1>4, <1>5, <1>6 DEF ForwardInv

\* The creation ends without a listener.
LEMMA CreationEnds ==
    ASSUME ForwardInv, RefuseToCreate \/ BindFails
    PROVE  ForwardInv'
BY DEF RefuseToCreate, BindFails, service, ForwardInv, ForwardTypeOK,
       ListenersAreReached, OneTunnelPerTarget, ListsAreTrue, CreationIsAlone,
       Listening

LEMMA BindKeeps == ASSUME ForwardInv, BindListener PROVE ForwardInv'
<1> USE DEF BindListener
<1> DEFINE task == [tunnel |-> creating, context |-> client, aborted |-> FALSE]
<1>1. task \in Listener /\ creating.port \in Ports /\ creating \in tunnels
  BY Nil DEF ForwardInv, ForwardTypeOK, Listener, Tunnel, CreationIsAlone
<1>2. tunnels \in SUBSET Tunnel /\ dialog \in Dialog \cup {NIL}
  BY DEF ForwardInv, ForwardTypeOK
<1>3. /\ tunnel_registry' = tunnels
      /\ dialog' \in Dialog \cup {NIL}
      /\ dialog' # NIL => dialog'.registry = tunnels
  BY <1>2, ShowKeeps
<1>4. ForwardTypeOK'
  BY <1>1, <1>3 DEF ForwardInv, ForwardTypeOK
<1>5. ASSUME NEW p \in Ports, Listening(p)'
      PROVE  /\ listeners'[p].context = client'
             /\ listeners'[p].tunnel \in tunnels' \cap handles'
             /\ listeners'[p].tunnel.port = p
  <2>1. CASE p = creating.port
    <3>1. listeners'[p] = task
      BY <2>1, <1>1 DEF ForwardInv, ForwardTypeOK
    <3>2. QED
      BY <2>1, <3>1, <1>1
  <2>2. CASE p # creating.port
    <3>1. listeners'[p] = listeners[p]
      BY <2>2 DEF ForwardInv, ForwardTypeOK
    <3>2. Listening(p)
      BY <3>1, <1>5 DEF Listening
    <3>3. QED
      BY <3>1, <3>2 DEF ForwardInv, ListenersAreReached, ListsAreTrue
  <2>3. QED
    BY <2>1, <2>2
<1>6. ListenersAreReached' /\ ListsAreTrue'
  BY <1>3, <1>5 DEF ListenersAreReached, ListsAreTrue
<1>7. OneTunnelPerTarget' /\ CreationIsAlone'
  BY DEF ForwardInv, OneTunnelPerTarget, CreationIsAlone
<1>8. QED
  BY <1>4, <1>6, <1>7 DEF ForwardInv

LEMMA StopKeeps == ASSUME ForwardInv, PortForwardStop PROVE ForwardInv'
<1> USE DEF PortForwardStop
<1>1. PICK t \in Selected(dialog) : StopForward(t)
  OBVIOUS
<1>2. t \in Tunnel /\ dialog \in Dialog
  BY DEF ForwardInv, ForwardTypeOK, Selected, Dialog
<1>3. /\ listeners' \in [Ports -> Listener \cup {NIL}]
      /\ tunnels' \subseteq tunnels
      /\ handles' \subseteq handles
      /\ \A p \in Ports : Listening(p)' =>
            /\ Listening(p)
            /\ listeners'[p].tunnel = listeners[p].tunnel
            /\ listeners'[p].context = listeners[p].context
            /\ listeners'[p].tunnel \in tunnels' \cap handles'
  BY <1>1, <1>2, StopForwardKeeps
<1>4. tunnels' \in SUBSET Tunnel
  BY <1>3 DEF ForwardInv, ForwardTypeOK
<1>5. /\ tunnel_registry' = tunnels'
      /\ dialog' \in Dialog \cup {NIL}
      /\ dialog' # NIL => dialog'.registry = tunnels'
  BY <1>2, <1>4, ShowKeeps
<1>6. ForwardTypeOK'
  BY <1>3, <1>4, <1>5 DEF ForwardInv, ForwardTypeOK
<1>7. ListenersAreReached' /\ ListsAreTrue'
  BY <1>3, <1>5 DEF ForwardInv, ListenersAreReached, ListsAreTrue
<1>8. OneTunnelPerTarget' /\ CreationIsAlone'
  BY <1>3 DEF ForwardInv, OneTunnelPerTarget, CreationIsAlone
<1>9. QED
  BY <1>6, <1>7, <1>8 DEF ForwardInv

\* Refreshing the lists, and opening the tab.
LEMMA ListsKeep ==
    ASSUME ForwardInv,
           \/ PortForwardRefresh
           \/ \E pod \in Pods : PortForwardOpen(pod)
    PROVE  ForwardInv'
<1>1. tunnels \in SUBSET Tunnel /\ dialog \in Dialog \cup {NIL}
  BY DEF ForwardInv, ForwardTypeOK
<1>2. PICK d \in Dialog \cup {NIL} : Show(tunnels, d)
  <2>1. CASE PortForwardRefresh
    BY <1>1, <2>1 DEF PortForwardRefresh
  <2>2. CASE \E pod \in Pods : PortForwardOpen(pod)
    <3>1. PICK pod \in Pods : PortForwardOpen(pod)
      BY <2>2
    <3>2. [pod |-> pod, mode |-> "Create", registry |-> {},
           selected_tunnel |-> 0] \in Dialog
      BY DEF Dialog
    <3>3. QED
      BY <1>1, <3>1, <3>2 DEF PortForwardOpen
  <2>3. QED
    BY <2>1, <2>2
<1>3. UNCHANGED <<client, pending_context, tunnels, handles, listeners,
                  other_processes, creating>>
  BY DEF PortForwardRefresh, PortForwardOpen, service
<1>4. /\ tunnel_registry' = tunnels
      /\ dialog' \in Dialog \cup {NIL}
      /\ dialog' # NIL => dialog'.registry = tunnels
  BY <1>1, <1>2, ShowKeeps
<1>5. ForwardTypeOK'
  BY <1>1, <1>3, <1>4 DEF ForwardInv, ForwardTypeOK
<1>6. QED
  BY <1>3, <1>4, <1>5
    DEF ForwardInv, ListenersAreReached, OneTunnelPerTarget, ListsAreTrue,
        CreationIsAlone, Listening

\* Keys that move in the dialog, and closing it.
LEMMA DialogKeeps ==
    ASSUME ForwardInv,
           \/ \E down \in BOOLEAN : Select(down)
           \/ \E mode \in {"Create", "List"} : SwitchMode(mode)
           \/ CloseTab
    PROVE  ForwardInv'
<1>1. UNCHANGED <<client, pending_context, tunnels, handles, listeners,
                  other_processes, creating, tunnel_registry>>
  BY DEF Select, SwitchMode, CloseTab, service
<1>2. /\ dialog' \in Dialog \cup {NIL}
      /\ dialog' # NIL => dialog # NIL /\ dialog'.registry = dialog.registry
  <2>1. CASE \E down \in BOOLEAN : Select(down)
    <3>1. PICK down \in BOOLEAN : Select(down)
      BY <2>1
    <3> DEFINE total == Cardinality(dialog.registry)
               selected == Clamped(dialog.selected_tunnel, dialog.registry)
               next == IF total = 0 THEN 0
                       ELSE IF down
                            THEN IF selected + 1 < total THEN selected + 1 ELSE 0
                       ELSE IF selected > 0 THEN selected - 1 ELSE total - 1
    <3>2. dialog \in Dialog
      BY <3>1 DEF Select, ForwardInv, ForwardTypeOK
    <3>3. /\ dialog.registry \in SUBSET Tunnel
          /\ dialog.selected_tunnel \in Nat
      BY <3>2 DEF Dialog
    <3>4. total \in Nat
      BY <3>3, TunnelsAreFinite, FS_Subset, FS_CardinalityType
    <3>5. selected \in Nat
      BY <3>3, ClampedType
    <3> HIDE DEF total, selected
    <3>6. next \in Nat
      BY <3>4, <3>5
    <3>7. dialog' = [dialog EXCEPT !.selected_tunnel = next]
      BY <3>1 DEF Select, total, selected
    <3> HIDE DEF next
    <3>8. QED
      BY <3>2, <3>6, <3>7, Nil DEF Dialog
  <2>2. CASE \E mode \in {"Create", "List"} : SwitchMode(mode)
    BY <2>2, Nil DEF SwitchMode, ForwardInv, ForwardTypeOK, Dialog
  <2>3. CASE CloseTab
    BY <2>3 DEF CloseTab
  <2>4. QED
    BY <2>1, <2>2, <2>3
<1>3. ForwardTypeOK'
  BY <1>1, <1>2 DEF ForwardInv, ForwardTypeOK
<1>4. QED
  BY <1>1, <1>2, <1>3
    DEF ForwardInv, ListenersAreReached, OneTunnelPerTarget, ListsAreTrue,
        CreationIsAlone, Listening

LEMMA SwitchesKeep ==
    ASSUME ForwardInv,
           \/ StopSessions
           \/ \E context \in Contexts : SelectContext(context)
           \/ \E restoring \in BOOLEAN : ContextSwitchSucceeds(restoring)
    PROVE  ForwardInv'
<1> USE DEF StopSessions, SelectContext, ContextSwitchSucceeds
<1>1. creating = NIL /\ creating' = NIL /\ StopAll
      /\ UNCHANGED other_processes
  OBVIOUS
<1>2. client' \in Contexts /\ pending_context' \in Contexts \cup {NIL}
  BY DEF ForwardInv, ForwardTypeOK
<1>3. PICK d \in Dialog \cup {NIL} : Show({}, d)
  BY DEF ForwardInv, ForwardTypeOK
<1>4. /\ tunnel_registry' = {}
      /\ dialog' \in Dialog \cup {NIL}
      /\ dialog' # NIL => dialog'.registry = {}
  BY <1>3, ShowKeeps
<1>5. /\ listeners' \in [Ports -> Listener \cup {NIL}]
      /\ tunnels' = {}
      /\ handles' \subseteq handles
      /\ \A p \in Ports : ~Listening(p)'
  BY <1>1, StopAllStops
<1>6. ForwardTypeOK'
  BY <1>1, <1>2, <1>4, <1>5 DEF ForwardInv, ForwardTypeOK
<1>7. QED
  BY <1>1, <1>4, <1>5, <1>6
    DEF ForwardInv, ListenersAreReached, OneTunnelPerTarget, ListsAreTrue,
        CreationIsAlone

\* Listeners that end, other processes, and a switch that fails.
LEMMA OthersKeep ==
    ASSUME ForwardInv,
           \/ ContextSwitchFails
           \/ \E p \in Ports : ListenerEnds(p)
           \/ \E p \in Ports : OtherProcessBinds(p)
           \/ \E p \in Ports : OtherProcessCloses(p)
    PROVE  ForwardInv'
<1>1. UNCHANGED <<client, tunnels, handles, creating, tunnel_registry, dialog>>
  BY DEF ContextSwitchFails, ListenerEnds,
         OtherProcessBinds, OtherProcessCloses, service
<1>2. /\ listeners' \in [Ports -> Listener \cup {NIL}]
      /\ \A p \in Ports : listeners'[p] \in {listeners[p], NIL}
  BY DEF ContextSwitchFails, ListenerEnds,
         OtherProcessBinds, OtherProcessCloses, service, ForwardInv, ForwardTypeOK
<1>3. /\ pending_context' \in Contexts \cup {NIL}
      /\ other_processes' \subseteq Ports
  BY DEF ContextSwitchFails, ListenerEnds,
         OtherProcessBinds, OtherProcessCloses, ForwardInv, ForwardTypeOK
<1>4. ForwardTypeOK'
  BY <1>1, <1>2, <1>3 DEF ForwardInv, ForwardTypeOK
<1>5. \A p \in Ports : Listening(p)' => Listening(p) /\ listeners'[p] = listeners[p]
  BY <1>2 DEF Listening
<1>6. QED
  BY <1>1, <1>4, <1>5
    DEF ForwardInv, ListenersAreReached, OneTunnelPerTarget, ListsAreTrue,
        CreationIsAlone

LEMMA NextKeeps == ASSUME ForwardInv, [Next]_vars PROVE ForwardInv'
<1>1. CASE UNCHANGED vars
  BY <1>1 DEF vars, ForwardInv, ForwardTypeOK, ListenersAreReached,
     OneTunnelPerTarget, ListsAreTrue, CreationIsAlone, Listening
<1>2. CASE Next
  BY <1>2, CreateKeeps, RegisterKeeps, CreationEnds, BindKeeps, StopKeeps,
     ListsKeep, DialogKeeps, SwitchesKeep, OthersKeep DEF Next
<1>3. QED
  BY <1>1, <1>2

LEMMA AlwaysForwardInv == Spec => []ForwardInv
BY InitEstablishes, NextKeeps, PTL DEF Spec

-----------------------------------------------------------------------------
\* The service, the lists and the dialog keep their types, for any pods, ports
\* and clusters.
THEOREM ForwardTypeCorrect == Spec => []ForwardTypeOK
<1>1. ForwardInv => ForwardTypeOK
  BY DEF ForwardInv
<1>2. QED
  BY <1>1, AlwaysForwardInv, PTL

\* No listener of the forwarder is out of its reach or works for a cluster that
\* was left, unless it has been told to stop.
THEOREM EveryListenerIsReached == Spec => []ListenersAreReached
<1>1. ForwardInv => ListenersAreReached
  BY DEF ForwardInv
<1>2. QED
  BY <1>1, AlwaysForwardInv, PTL

\* No target is registered twice, whatever is awaited between looking it up and
\* registering it.
THEOREM TargetsAreUnique == Spec => []OneTunnelPerTarget
<1>1. ForwardInv => OneTunnelPerTarget
  BY DEF ForwardInv
<1>2. QED
  BY <1>1, AlwaysForwardInv, PTL

\* The view and the dialog show every tunnel that listens, and none that was
\* stopped.
THEOREM ListsShowListeners == Spec => []ListsAreTrue
<1>1. ForwardInv => ListsAreTrue
  BY DEF ForwardInv
<1>2. QED
  BY <1>1, AlwaysForwardInv, PTL

-----------------------------------------------------------------------------
\* A dialog whose list changes is the same dialog, updated.
LEMMA ListChangesByUpdate ==
    ASSUME ForwardInv, ForwardInv', [Next]_vars,
           dialog # NIL, dialog' # NIL, dialog'.pod = dialog.pod,
           dialog'.registry # dialog.registry
    PROVE  \E registry \in Registry : dialog' = Updated(dialog, registry)
<1>1. dialog \in Dialog /\ dialog.registry \in SUBSET Tunnel
  BY DEF ForwardInv, ForwardTypeOK, Dialog
<1>2. tunnels \in Registry /\ tunnels' \in Registry /\ {} \in Registry
  BY DEF ForwardInv, ForwardTypeOK, OneTunnelPerTarget, Registry
<1>3. CASE BindListener \/ PortForwardRefresh
  BY <1>2, <1>3 DEF BindListener, PortForwardRefresh, Show
<1>4. CASE PortForwardStop
  BY <1>2, <1>4 DEF PortForwardStop, Show
<1>5. ASSUME NEW pod \in Pods, PortForwardOpen(pod)
      PROVE  \E registry \in Registry : dialog' = Updated(dialog, registry)
  <2> DEFINE new == [pod |-> pod, mode |-> "Create", registry |-> {},
                     selected_tunnel |-> 0]
  <2>1. CASE dialog.pod = pod
    BY <1>2, <1>5, <2>1 DEF PortForwardOpen, Show
  <2>2. CASE dialog.pod # pod
    <3>1. new \in Dialog
      BY DEF Dialog
    <3>2. dialog' = Updated(new, tunnels)
      BY <1>5, <2>2, <3>1, Nil DEF PortForwardOpen, Show
    <3>3. dialog'.pod = pod
      BY <1>2, <3>1, <3>2, UpdatedType DEF Registry
    <3>4. QED
      BY <2>2, <3>3
  <2>3. QED
    BY <2>1, <2>2
<1>6. CASE StopSessions \/ \E context \in Contexts : SelectContext(context)
  BY <1>6 DEF StopSessions, SelectContext, Show
<1>7. CASE \E restoring \in BOOLEAN : ContextSwitchSucceeds(restoring)
  BY <1>2, <1>7 DEF ContextSwitchSucceeds, Show
<1>8. ASSUME NEW down \in BOOLEAN, Select(down) PROVE FALSE
  BY <1>1, <1>8 DEF Select, Dialog
<1>9. ASSUME NEW mode \in {"Create", "List"}, SwitchMode(mode) PROVE FALSE
  BY <1>1, <1>9 DEF SwitchMode, Dialog
<1>10. CASE UNCHANGED dialog \/ CloseTab
  BY <1>10 DEF CloseTab
<1>11. QED
  BY <1>3, <1>4, <1>5, <1>6, <1>7, <1>8, <1>9, <1>10
    DEF Next, vars, PortForwardCreate, Register, RefuseToCreate, BindFails,
        ContextSwitchFails, ListenerEnds,
        OtherProcessBinds, OtherProcessCloses

\* The selection of the dialog follows its tunnel through every change of the
\* list: what d stops is what the user chose.
THEOREM SelectionIsKept == Spec => SelectionFollows
<1> DEFINE Follows ==
        (/\ dialog # NIL
         /\ dialog' # NIL
         /\ dialog'.pod = dialog.pod
         /\ dialog'.registry # dialog.registry)
        => (Selected(dialog) \subseteq dialog'.registry
            => Selected(dialog') = Selected(dialog) \/ Selected(dialog) = {})
<1>1. ASSUME ForwardInv, ForwardInv', [Next]_vars PROVE Follows
  <2>1. SUFFICES ASSUME dialog # NIL, dialog' # NIL, dialog'.pod = dialog.pod,
                        dialog'.registry # dialog.registry,
                        Selected(dialog) \subseteq dialog'.registry,
                        Selected(dialog) # {}
                 PROVE  Selected(dialog') = Selected(dialog)
    OBVIOUS
  <2>2. PICK registry \in Registry : dialog' = Updated(dialog, registry)
    BY <1>1, <2>1, ListChangesByUpdate
  <2>3. dialog \in Dialog /\ registry \in SUBSET Tunnel
    BY <1>1, <2>1 DEF ForwardInv, ForwardTypeOK, Registry
  <2>4. dialog'.registry = registry
    BY <2>2, <2>3, UpdatedType
  <2>5. PICK u \in Selected(dialog) : TRUE
    BY <2>1
  <2>6. Selected(dialog) = {u}
    BY <2>3, SelectedIsOne
  <2>7. Selected(dialog') = {u}
    BY <2>1, <2>2, <2>3, <2>4, <2>5, UpdatedSelects
  <2>8. QED
    BY <2>6, <2>7
<1>2. QED
  BY <1>1, AlwaysForwardInv, PTL DEF Spec, SelectionFollows

-----------------------------------------------------------------------------
(* The promise of module ServedTunnels                                     *)

\* What serves, with the addresses and clusters that the invariant grants.
Serving ==
    {[tunnel |-> listeners[p].tunnel, context |-> client] :
        p \in {q \in Ports : Listening(q)}}

LEMMA ServedIsServing == ForwardInv => Served = Serving
<1> SUFFICES ASSUME ForwardInv PROVE Served = Serving
  OBVIOUS
<1>1. ASSUME NEW p \in Ports, Listening(p)
      PROVE  /\ [listeners[p].tunnel EXCEPT !.port = p] = listeners[p].tunnel
             /\ listeners[p].context = client
  <2>1. /\ listeners[p].tunnel \in Tunnel /\ listeners[p].tunnel.port = p
        /\ listeners[p].context = client
    BY <1>1 DEF ForwardInv, ForwardTypeOK, ListenersAreReached, ListsAreTrue
  <2>2. QED
    BY <2>1 DEF Tunnel
<1>2. QED
  BY <1>1 DEF Served, Serving

\* The invariant, of what serves and of the list.
LEMMA ServingFacts ==
    ASSUME ForwardInv, NEW p \in Ports, Listening(p)
    PROVE  /\ listeners[p].tunnel \in Tunnel \cap tunnels \cap handles
           /\ listeners[p].tunnel.port = p
BY DEF ForwardInv, ForwardTypeOK, ListenersAreReached, ListsAreTrue

LEMMA RegistryFacts ==
    ASSUME ForwardInv
    PROVE  /\ tunnels \subseteq Tunnel
           /\ tunnel_registry \subseteq tunnels
           /\ Abstract!Tunnel = Tunnel
           /\ dialog # NIL =>
                 dialog \in Dialog /\ dialog.registry = tunnel_registry
           /\ client \in Contexts
BY DEF ForwardInv, ForwardTypeOK, ListsAreTrue, Tunnel, Abstract!Tunnel

\* A list that only grows, while what serves stays.
LEMMA ListsOnly ==
    ASSUME ForwardInv, Served' = Served, client' = client,
           tunnel_registry' \in {tunnel_registry, tunnels}
    PROVE  Abstract!Next
<1>1. tunnel_registry' \subseteq Abstract!Tunnel /\ tunnel_registry \subseteq tunnel_registry'
  BY RegistryFacts
<1>2. Abstract!List
  BY <1>1 DEF Abstract!List, Abstract!Lists
<1>3. QED
  BY <1>2 DEF Abstract!Next

LEMMA BindOpens ==
    ASSUME ForwardInv, ForwardInv', BindListener
    PROVE  Abstract!Next
<1>0. PICK t \in Tunnel : t = creating
  BY Nil DEF BindListener, ForwardInv, ForwardTypeOK
<1>1. /\ t \in tunnels /\ t.port \in Ports
      /\ listeners[t.port] = NIL
  <2>1. creating # NIL
    BY Nil DEF BindListener
  <2>2. QED
    BY <1>0, <2>1 DEF BindListener, ForwardInv, CreationIsAlone, Tunnel, Free
<1>2. /\ listeners'[t.port] = [tunnel |-> t, context |-> client, aborted |-> FALSE]
      /\ listeners'[t.port] # NIL
      /\ ~listeners'[t.port].aborted
      /\ \A p \in Ports \ {t.port} : listeners'[p] = listeners[p]
  <2>1. [tunnel |-> t, context |-> client, aborted |-> FALSE] \in Listener
    BY <1>1 DEF ForwardInv, ForwardTypeOK, Listener
  <2>2. QED
    BY <1>0, <1>1, <2>1, Nil DEF ForwardInv, ForwardTypeOK, BindListener
<1>3. Serving' = Serving \cup {[tunnel |-> t, context |-> client]}
  <2>1. ~Listening(t.port)
    BY <1>1 DEF Listening
  <2>2. Listening(t.port)'
    BY <1>2 DEF Listening
  <2>3. \A p \in Ports \ {t.port} : Listening(p)' <=> Listening(p)
    BY <1>2 DEF Listening
  <2>4. \A p \in Ports : Listening(p)' <=> Listening(p) \/ p = t.port
    BY <2>1, <2>2, <2>3
  <2>5. \A p \in Ports : Listening(p)' =>
           listeners'[p].tunnel = IF p = t.port THEN t ELSE listeners[p].tunnel
    BY <1>2
  <2>6. client' = client
    BY DEF BindListener
  <2>7. Serving' \subseteq Serving \cup {[tunnel |-> t, context |-> client]}
    BY <2>4, <2>5, <2>6 DEF Serving
  <2>8. Serving \subseteq Serving'
    BY <2>1, <2>4, <2>5, <2>6 DEF Serving
  <2>9. [tunnel |-> t, context |-> client] \in Serving'
    BY <1>1, <2>4, <2>5, <2>6 DEF Serving
  <2>10. QED
    BY <2>7, <2>8, <2>9
<1>4. ASSUME NEW s \in Serving
      PROVE  s.tunnel.port # t.port /\ ~SameTarget(s.tunnel, t)
  <2>1. PICK p \in Ports : Listening(p) /\ s = [tunnel |-> listeners[p].tunnel, context |-> client]
    BY <1>4 DEF Serving
  <2>2. s.tunnel = listeners[p].tunnel /\ s.tunnel \in tunnels /\ s.tunnel.port = p
    BY <2>1, ServingFacts
  <2>3. p # t.port
    BY <1>1, <2>1 DEF Listening
  <2>4. SameTarget(s.tunnel, t) => s.tunnel = t
    BY <1>1, <2>2 DEF ForwardInv, OneTunnelPerTarget
  <2>5. QED
    BY <2>2, <2>3, <2>4
<1>5. tunnel_registry' = tunnels /\ client' = client
  BY DEF BindListener, Show
<1>6. Served = Serving /\ Served' = Serving'
  <2>1. (Served = Serving) /\ (Served = Serving)'
    BY ServedIsServing, PTL
  <2>2. QED
    BY <2>1
<1>7. Abstract!Open(t)
  BY <1>1, <1>3, <1>4, <1>5, <1>6, RegistryFacts
     DEF Abstract!Open, Abstract!Lists, Abstract!SameTarget, SameTarget
<1>8. QED
  BY <1>1, <1>7, RegistryFacts DEF Abstract!Next

LEMMA StopStops ==
    ASSUME ForwardInv, ForwardInv', PortForwardStop
    PROVE  Abstract!Next
<1> USE DEF PortForwardStop
<1>1. PICK t \in Selected(dialog) : StopForward(t)
  OBVIOUS
<1>2. t \in tunnel_registry /\ t \in Tunnel
  BY RegistryFacts DEF Selected
<1> DEFINE stopped == {h \in handles : SameTarget(h, t)}
<1>3. /\ listeners' = Aborted(stopped)
      /\ tunnels' = {u \in tunnels : ~SameTarget(u, t)}
      /\ client' = client /\ tunnel_registry' = tunnels'
  BY <1>1 DEF StopForward, Show
<1>4. ASSUME NEW p \in Ports
      PROVE  /\ Listening(p)' <=> Listening(p) /\ ~SameTarget(listeners[p].tunnel, t)
             /\ Listening(p)' => listeners'[p] = listeners[p]
  <2>1. listeners[p] \in Listener \cup {NIL}
    BY DEF ForwardInv, ForwardTypeOK
  <2>2. CASE listeners[p] # NIL /\ listeners[p].tunnel \in stopped
    <3>1. listeners'[p] = [listeners[p] EXCEPT !.aborted = TRUE]
      BY <1>3, <2>2 DEF Aborted
    <3>2. ~Listening(p)'
      BY <2>1, <2>2, <3>1 DEF Listening, Listener
    <3>3. QED
      BY <2>2, <3>2
  <2>3. CASE ~(listeners[p] # NIL /\ listeners[p].tunnel \in stopped)
    <3>1. listeners'[p] = listeners[p]
      BY <1>3, <2>3 DEF Aborted
    <3>2. Listening(p) => ~SameTarget(listeners[p].tunnel, t)
      BY <2>3, ServingFacts DEF Listening
    <3>3. QED
      BY <3>1, <3>2 DEF Listening
  <2>4. QED
    BY <2>2, <2>3
<1>5. Serving' = {s \in Serving : ~SameTarget(s.tunnel, t)}
  BY <1>3, <1>4 DEF Serving
<1>6. Served = Serving /\ Served' = Serving'
  <2>1. (Served = Serving) /\ (Served = Serving)'
    BY ServedIsServing, PTL
  <2>2. QED
    BY <2>1
<1>7. Abstract!Stop(t)
  BY <1>2, <1>3, <1>5, <1>6, RegistryFacts
     DEF Abstract!Stop, Abstract!Lists, Abstract!SameTarget, SameTarget
<1>8. QED
  BY <1>2, <1>7, RegistryFacts DEF Abstract!Next

LEMMA EndEnds ==
    ASSUME ForwardInv, ForwardInv', NEW p \in Ports, ListenerEnds(p)
    PROVE  Abstract!Next
<1> USE DEF ListenerEnds
<1>1. /\ listeners'[p] = NIL
      /\ \A q \in Ports \ {p} : listeners'[q] = listeners[q]
      /\ UNCHANGED <<client, tunnel_registry>>
  BY DEF ForwardInv, ForwardTypeOK
<1>2. /\ ~Listening(p)'
      /\ \A q \in Ports \ {p} : Listening(q)' <=> Listening(q)
  BY <1>1 DEF Listening
<1>3. Served = Serving /\ Served' = Serving'
  <2>1. (Served = Serving) /\ (Served = Serving)'
    BY ServedIsServing, PTL
  <2>2. QED
    BY <2>1
<1>4. CASE ~Listening(p)
  <2>1. Serving' = Serving
    BY <1>1, <1>2, <1>4 DEF Serving
  <2>2. QED
    BY <1>1, <1>3, <2>1, ListsOnly
<1>5. CASE Listening(p)
  <2> DEFINE s == [tunnel |-> listeners[p].tunnel, context |-> client]
  <2>1. s \in Serving
    BY <1>5 DEF Serving
  <2>2. \A q \in Ports \ {p} : Listening(q) => listeners[q].tunnel # listeners[p].tunnel
    BY <1>5, ServingFacts
  <2>3. Serving' = Serving \ {s}
    <3>1. \A q \in Ports \ {p} : Listening(q) =>
             [tunnel |-> listeners[q].tunnel, context |-> client] # s
      BY <2>2
    <3>2. QED
      BY <1>1, <1>2, <3>1 DEF Serving
  <2> HIDE DEF s
  <2>4. Abstract!End(s)
    BY <1>1, <1>3, <2>1, <2>3 DEF Abstract!End
  <2>5. QED
    BY <1>3, <2>1, <2>4 DEF Abstract!Next
<1>6. QED
  BY <1>4, <1>5

LEMMA StepServes ==
    ForwardInv /\ ForwardInv' /\ [Next]_vars => [Abstract!Next]_Abstract!vars
<1> SUFFICES ASSUME ForwardInv, ForwardInv', [Next]_vars PROVE Abstract!Next
  OBVIOUS
<1>1. CASE UNCHANGED <<client, listeners>>
            /\ tunnel_registry' \in {tunnel_registry, tunnels}
  <2>1. Served' = Served
    BY <1>1 DEF Served, Listening
  <2>2. QED
    BY <1>1, <2>1, ListsOnly
<1>2. CASE PortForwardRefresh \/ \E pod \in Pods : PortForwardOpen(pod)
  BY <1>1, <1>2 DEF PortForwardRefresh, PortForwardOpen, Show, service
<1>3. CASE \/ StopSessions
           \/ \E context \in Contexts : SelectContext(context)
           \/ \E restoring \in BOOLEAN : ContextSwitchSucceeds(restoring)
  <2>1. StopAll /\ tunnel_registry' = {}
    BY <1>3 DEF StopSessions, SelectContext, ContextSwitchSucceeds, Show
  <2>2. Served' = {}
    BY <2>1, StopAllStops DEF Served
  <2>3. client' \in Contexts
    BY DEF ForwardInv, ForwardTypeOK
  <2>4. Abstract!Switch
    BY <2>1, <2>2, <2>3 DEF Abstract!Switch
  <2>5. QED
    BY <2>4 DEF Abstract!Next
<1>4. QED
  BY <1>1, <1>2, <1>3, BindOpens, StopStops, EndEnds
     DEF Next, vars, PortForwardCreate, Register, RefuseToCreate, BindFails,
         Select, SwitchMode, CloseTab, ContextSwitchFails, OtherProcessBinds,
         OtherProcessCloses, service

\* The forwarder serves tunnels as ServedTunnels promises, for any pods, ports
\* and clusters and whatever other processes do.
THEOREM TunnelsServeAsPromised == Spec => TunnelsAreServed
<1>1. Init => Abstract!Init
  BY DEF Init, Abstract!Init, Served, Listening
<1>2. QED
  BY <1>1, AlwaysForwardInv, StepServes, PTL DEF Spec, TunnelsAreServed, Abstract!Spec

=============================================================================
