-------------------------- MODULE LogStreamsProofs --------------------------
(***************************************************************************)
(* The registry of log streams is exact, and no session outlives its tab,  *)
(* for any containers of the pod and any number of tasks, sessions and     *)
(* context switches.  The lemmas are about the operations of the           *)
(* UpdateCoordinator, which take one coordinator to another; the actions   *)
(* of the tabs only put them together.                                     *)
(***************************************************************************)
EXTENDS LogStreams, SequenceTheorems, TLAPS

\* StreamsAreRegistered, of the container c in the coordinator r.
ExactFor(r, c) ==
    /\ r.log_tasks[c] # 0 => r.tasks[c][r.log_tasks[c]] # NIL
    /\ \A n \in Slots : r.tasks[c][n] # NIL =>
          /\ r.tasks[c][n].cancelled = "no" <=> r.log_tasks[c] = n
          /\ r.tasks[c][n].cancelled = "no" => r.tasks[c][n].of = r.number

Exact(r) ==
    /\ r \in UpdateCoordinator
    /\ \A c \in Containers : ExactFor(r, c)

\* What the channel and the tabs are.
TabsTypeOK ==
    /\ update_rx \in Seq(Containers)
    /\ viewer \in Viewer \cup {NIL}
    /\ tabs \in [WorkloadTabs -> Sessions \cup {0}]
    /\ bootstraps \in SUBSET Sessions
    /\ workload_log_sessions \in [Sessions -> SUBSET Containers]
    /\ switching \in BOOLEAN

LogsInv == Exact(coordinator) /\ TabsTypeOK /\ SessionHasTab

-----------------------------------------------------------------------------
LEMMA SlotsAreNumbers == 0 \notin Slots /\ 0 \notin Sessions
BY BoundsAssumption DEF Slots, Sessions

LEMMA ExactIsRegistered == Exact(coordinator) => StreamsAreRegistered
BY DEF Exact, ExactFor, StreamsAreRegistered, Live

\* Fields of a coordinator.
LEMMA Fields ==
    ASSUME NEW r \in UpdateCoordinator
    PROVE  /\ r.number \in Nat
           /\ r.log_tasks \in [Containers -> Slots \cup {0}]
           /\ r.tasks \in [Containers -> [Slots -> Task \cup {NIL}]]
BY DEF UpdateCoordinator

\* stop_log_streaming leaves the registry exact, and every slot as free as it was.
LEMMA StopKeeps ==
    ASSUME NEW r, Exact(r), NEW containers
    PROVE  /\ Exact(StopLogStreaming(r, containers))
           /\ StopLogStreaming(r, containers).number = r.number
           /\ \A c \in Containers :
                 FreeSlots(StopLogStreaming(r, containers), c) = FreeSlots(r, c)
           /\ \A c \in Containers : c \in containers =>
                 StopLogStreaming(r, containers).log_tasks[c] = 0
<1> DEFINE q == StopLogStreaming(r, containers)
           stops(c) == c \in containers /\ r.log_tasks[c] # 0
           stopped(c) == [r.tasks[c] EXCEPT
                             ![r.log_tasks[c]] =
                                [@ EXCEPT !.cancelled = "stopped"]]
<1>1. r \in UpdateCoordinator /\ \A c \in Containers : ExactFor(r, c)
  BY DEF Exact
<1>2. /\ r.number \in Nat
      /\ r.log_tasks \in [Containers -> Slots \cup {0}]
      /\ r.tasks \in [Containers -> [Slots -> Task \cup {NIL}]]
  BY <1>1, Fields
<1>3. /\ q.number = r.number
      /\ q.log_tasks = [c \in Containers |-> IF c \in containers THEN 0 ELSE r.log_tasks[c]]
      /\ q.tasks = [c \in Containers |-> IF stops(c) THEN stopped(c) ELSE r.tasks[c]]
      /\ q = [number |-> q.number, log_tasks |-> q.log_tasks, tasks |-> q.tasks]
  <2> DEFINE held == [c \in Containers |-> IF c \in containers THEN 0 ELSE r.log_tasks[c]]
             tasks == [c \in Containers |-> IF stops(c) THEN stopped(c) ELSE r.tasks[c]]
  <2>1. q = [r EXCEPT !.log_tasks = held, !.tasks = tasks]
    BY DEF StopLogStreaming
  <2> HIDE DEF held, tasks, q
  <2>2. /\ q.number = r.number /\ q.log_tasks = held /\ q.tasks = tasks
        /\ q = [number |-> q.number, log_tasks |-> q.log_tasks, tasks |-> q.tasks]
    BY <1>1, <2>1 DEF UpdateCoordinator
  <2>3. QED
    BY <2>2 DEF held, tasks
<1> HIDE DEF q
<1>4. ASSUME NEW c \in Containers, stops(c)
      PROVE  /\ stopped(c) \in [Slots -> Task \cup {NIL}]
             /\ stopped(c)[r.log_tasks[c]] # NIL
             /\ stopped(c)[r.log_tasks[c]].cancelled = "stopped"
             /\ \A n \in Slots : n # r.log_tasks[c] => stopped(c)[n] = r.tasks[c][n]
  <2>1. r.log_tasks[c] \in Slots /\ r.tasks[c] \in [Slots -> Task \cup {NIL}]
    BY <1>2, <1>4
  <2>2. r.tasks[c][r.log_tasks[c]] \in Task
    BY <1>1, <1>4, <2>1 DEF ExactFor
  <2>3. /\ [r.tasks[c][r.log_tasks[c]] EXCEPT !.cancelled = "stopped"] \in Task
        /\ [r.tasks[c][r.log_tasks[c]] EXCEPT !.cancelled = "stopped"].cancelled = "stopped"
    BY <2>2 DEF Task
  <2>4. QED
    BY <2>1, <2>3, NilAssumption
<1>5. ASSUME NEW c \in Containers
      PROVE  /\ q.tasks[c] \in [Slots -> Task \cup {NIL}]
             /\ ExactFor(q, c)
             /\ FreeSlots(q, c) = FreeSlots(r, c)
  <2>1. CASE stops(c)
    <3>1. q.log_tasks[c] = 0 /\ q.tasks[c] = stopped(c) /\ r.log_tasks[c] \in Slots
      BY <1>2, <1>3, <2>1
    <3>2. ExactFor(r, c) /\ r.tasks[c][r.log_tasks[c]] # NIL
      BY <1>1, <2>1 DEF ExactFor
    <3> HIDE DEF stopped
    <3>3. QED
      BY <1>3, <1>4, <2>1, <3>1, <3>2, SlotsAreNumbers DEF ExactFor, FreeSlots
  <2>2. CASE ~stops(c)
    <3>1. q.log_tasks[c] = r.log_tasks[c] /\ q.tasks[c] = r.tasks[c]
      BY <1>2, <1>3, <2>2
    <3>2. ExactFor(r, c) /\ r.tasks[c] \in [Slots -> Task \cup {NIL}]
      BY <1>1, <1>2
    <3>3. QED
      BY <1>3, <3>1, <3>2 DEF ExactFor, FreeSlots
  <2>3. QED
    BY <2>1, <2>2
<1>6. q \in UpdateCoordinator
  <2>1. q.log_tasks \in [Containers -> Slots \cup {0}]
    BY <1>2, <1>3
  <2>2. q.tasks \in [Containers -> [Slots -> Task \cup {NIL}]]
    <3>1. DOMAIN q.tasks = Containers
          /\ q.tasks = [c \in Containers |-> q.tasks[c]]
      BY <1>3
    <3>2. QED
      BY <1>5, <3>1
  <2>3. QED
    BY <1>2, <1>3, <2>1, <2>2 DEF UpdateCoordinator
<1>7. QED
  <2>1. \A c \in Containers : c \in containers => q.log_tasks[c] = 0
    BY <1>3
  <2>2. QED
    BY <1>3, <1>5, <1>6, <2>1 DEF Exact, q

\* start_log_streaming registers the streams that it starts.
LEMMA StartKeeps ==
    ASSUME NEW r, Exact(r), NEW containers \in SUBSET Containers, NEW follow \in BOOLEAN,
           \A c \in containers : FreeSlots(r, c) # {}
    PROVE  Exact(StartLogStreaming(r, containers, follow))
<1> DEFINE q == StartLogStreaming(r, containers, follow)
           started == {c \in containers : r.log_tasks[c] = 0}
           slot(c) == CHOOSE n \in FreeSlots(r, c) : TRUE
           task == [phase |-> IF follow THEN "connecting" ELSE "fetching",
                    cancelled |-> "no", of |-> r.number]
<1>1. r \in UpdateCoordinator /\ \A c \in Containers : ExactFor(r, c)
  BY DEF Exact
<1>2. /\ r.number \in Nat
      /\ r.log_tasks \in [Containers -> Slots \cup {0}]
      /\ r.tasks \in [Containers -> [Slots -> Task \cup {NIL}]]
  BY <1>1, Fields
<1>3. /\ q.number = r.number
      /\ q.log_tasks = [c \in Containers |-> IF c \in started THEN slot(c)
                                             ELSE r.log_tasks[c]]
      /\ q.tasks = [c \in Containers |-> IF c \in started
                                         THEN [r.tasks[c] EXCEPT ![slot(c)] = task]
                                         ELSE r.tasks[c]]
      /\ q = [number |-> q.number, log_tasks |-> q.log_tasks, tasks |-> q.tasks]
  <2> DEFINE held == [c \in Containers |-> IF c \in started THEN slot(c)
                                           ELSE r.log_tasks[c]]
             tasks == [c \in Containers |-> IF c \in started
                                            THEN [r.tasks[c] EXCEPT ![slot(c)] = task]
                                            ELSE r.tasks[c]]
  <2>1. q = [r EXCEPT !.log_tasks = held, !.tasks = tasks]
    BY DEF StartLogStreaming
  <2> HIDE DEF held, tasks, q
  <2>2. /\ q.number = r.number /\ q.log_tasks = held /\ q.tasks = tasks
        /\ q = [number |-> q.number, log_tasks |-> q.log_tasks, tasks |-> q.tasks]
    BY <1>1, <2>1 DEF UpdateCoordinator
  <2>3. QED
    BY <2>2 DEF held, tasks
<1>4. /\ task \in Task /\ task # NIL
      /\ task.cancelled = "no" /\ task.of = r.number
  BY <1>2, NilAssumption DEF Task
<1>5. \A c \in started : slot(c) \in Slots /\ r.tasks[c][slot(c)] = NIL
  BY DEF FreeSlots
<1> HIDE DEF q, task, slot
<1>6. ASSUME NEW c \in Containers
      PROVE  /\ q.log_tasks[c] \in Slots \cup {0}
             /\ q.tasks[c] \in [Slots -> Task \cup {NIL}]
             /\ ExactFor(q, c)
  <2>1. ExactFor(r, c) /\ r.tasks[c] \in [Slots -> Task \cup {NIL}]
        /\ r.log_tasks[c] \in Slots \cup {0}
    BY <1>1, <1>2
  <2>2. CASE c \in started
    <3>1. /\ q.log_tasks[c] = slot(c)
          /\ q.tasks[c] = [r.tasks[c] EXCEPT ![slot(c)] = task]
          /\ r.log_tasks[c] = 0
      BY <1>3, <2>2
    <3>2. slot(c) \in Slots
      BY <1>5, <2>2
    <3>3. /\ q.tasks[c] \in [Slots -> Task \cup {NIL}]
          /\ q.tasks[c][slot(c)] = task
          /\ \A n \in Slots : n # slot(c) => q.tasks[c][n] = r.tasks[c][n]
      BY <1>4, <2>1, <3>1, <3>2
    <3>4. \A n \in Slots : r.tasks[c][n] # NIL => r.tasks[c][n].cancelled # "no"
      BY <2>1, <3>1, SlotsAreNumbers DEF ExactFor
    <3>5. QED
      BY <1>3, <1>4, <3>1, <3>2, <3>3, <3>4 DEF ExactFor
  <2>3. CASE c \notin started
    <3>1. q.log_tasks[c] = r.log_tasks[c] /\ q.tasks[c] = r.tasks[c]
      BY <1>3, <2>3
    <3>2. QED
      BY <1>3, <2>1, <3>1 DEF ExactFor
  <2>4. QED
    BY <2>2, <2>3
<1>7. q \in UpdateCoordinator
  <2>1. /\ q.log_tasks = [c \in Containers |-> q.log_tasks[c]]
        /\ q.tasks = [c \in Containers |-> q.tasks[c]]
    BY <1>3
  <2>2. /\ q.log_tasks \in [Containers -> Slots \cup {0}]
        /\ q.tasks \in [Containers -> [Slots -> Task \cup {NIL}]]
    BY <1>6, <2>1
  <2>3. QED
    BY <1>2, <1>3, <2>2 DEF UpdateCoordinator
<1>8. QED
  BY <1>6, <1>7 DEF Exact, q

\* shutdown cancels every task, so the new coordinator begins with none.
LEMMA ReplaceKeeps ==
    ASSUME NEW r, Exact(r)
    PROVE  Exact(ShutDownAndReplace(r))
<1> DEFINE s == StopLogStreaming(r, Containers)
           q == [s EXCEPT !.number = @ + 1]
<1>1. Exact(s) /\ \A c \in Containers : s.log_tasks[c] = 0
  BY StopKeeps
<1> HIDE DEF s
<1>2. /\ s \in UpdateCoordinator /\ s.number \in Nat
      /\ \A c \in Containers : ExactFor(s, c)
  BY <1>1, Fields DEF Exact
<1>3. /\ q \in UpdateCoordinator
      /\ q.tasks = s.tasks /\ q.log_tasks = s.log_tasks
  BY <1>2 DEF UpdateCoordinator
<1> HIDE DEF q
<1>4. ASSUME NEW c \in Containers PROVE ExactFor(q, c)
  BY <1>1, <1>2, <1>3, SlotsAreNumbers DEF ExactFor
<1>5. QED
  BY <1>3, <1>4 DEF Exact, ShutDownAndReplace, q, s

\* A task goes on to another phase.
LEMMA PhaseKeeps ==
    ASSUME NEW r, Exact(r), NEW c \in Containers, NEW n \in Slots, r.tasks[c][n] # NIL,
           NEW phase \in {"connecting", "fetching", "following", "cleaning"}
    PROVE  Exact([r EXCEPT !.tasks[c][n].phase = phase])
<1> DEFINE task == [r.tasks[c][n] EXCEPT !.phase = phase]
           slots == [r.tasks[c] EXCEPT ![n] = task]
           tasks == [r.tasks EXCEPT ![c] = slots]
           q == [r EXCEPT !.tasks = tasks]
<1>1. /\ r \in UpdateCoordinator
      /\ r.number \in Nat
      /\ r.log_tasks \in [Containers -> Slots \cup {0}]
      /\ r.tasks \in [Containers -> [Slots -> Task \cup {NIL}]]
      /\ \A d \in Containers : ExactFor(r, d)
  BY Fields DEF Exact
<1>2. /\ r.tasks[c][n] \in Task
      /\ task \in Task /\ task # NIL
      /\ task.cancelled = r.tasks[c][n].cancelled /\ task.of = r.tasks[c][n].of
  <2>1. r.tasks[c][n] \in Task
    BY <1>1
  <2>2. QED
    BY <2>1, NilAssumption DEF Task
<1>3. q = [r EXCEPT !.tasks[c][n].phase = phase]
  BY DEF q, tasks, slots, task
<1> HIDE DEF task
<1>4. /\ slots \in [Slots -> Task \cup {NIL}]
      /\ slots[n] = task
      /\ \A m \in Slots : m # n => slots[m] = r.tasks[c][m]
  BY <1>1, <1>2
<1> HIDE DEF slots
<1>5. /\ tasks \in [Containers -> [Slots -> Task \cup {NIL}]]
      /\ tasks[c] = slots
      /\ \A d \in Containers : d # c => tasks[d] = r.tasks[d]
  BY <1>1, <1>4
<1> HIDE DEF tasks
<1>6. /\ q \in UpdateCoordinator
      /\ q.tasks = tasks /\ q.log_tasks = r.log_tasks /\ q.number = r.number
  BY <1>1, <1>5 DEF UpdateCoordinator
<1> HIDE DEF q
<1>7. ASSUME NEW d \in Containers PROVE ExactFor(q, d)
  <2>1. CASE d = c
    BY <1>1, <1>2, <1>4, <1>5, <1>6, <2>1 DEF ExactFor
  <2>2. CASE d # c
    BY <1>1, <1>5, <1>6, <2>2 DEF ExactFor
  <2>3. QED
    BY <2>1, <2>2
<1>8. QED
  BY <1>3, <1>6, <1>7 DEF Exact

\* A task that is over frees its slot; if it removes the handle of a successor,
\* that one is cancelled by it.
LEMMA CleanUpKeeps ==
    ASSUME NEW r, Exact(r), NEW c \in Containers, NEW n \in Slots, r.tasks[c][n] # NIL
    PROVE  Exact(CleanUp(r, c, n))
<1> DEFINE held == r.log_tasks[c]
           dropped == [r.tasks[c][held] EXCEPT !.cancelled = "dropped"]
           frees == [r.tasks[c] EXCEPT ![n] = NIL]
           drops == [frees EXCEPT ![held] = dropped]
           over == [r EXCEPT !.tasks = [@ EXCEPT ![c] = frees]]
           forgets == [r.log_tasks EXCEPT ![c] = 0]
<1>1. /\ r \in UpdateCoordinator
      /\ r.number \in Nat
      /\ r.log_tasks \in [Containers -> Slots \cup {0}]
      /\ r.tasks \in [Containers -> [Slots -> Task \cup {NIL}]]
      /\ \A d \in Containers : ExactFor(r, d)
  BY Fields DEF Exact
<1>2. r.tasks[c] \in [Slots -> Task \cup {NIL}] /\ held \in Slots \cup {0}
      /\ r.tasks[c][n] \in Task /\ ExactFor(r, c)
  BY <1>1
<1>3. /\ frees \in [Slots -> Task \cup {NIL}] /\ frees[n] = NIL
      /\ \A m \in Slots : m # n => frees[m] = r.tasks[c][m]
  BY <1>2
\* Whatever becomes of the slots of c and of its handle, the others are the same.
<1>4. ASSUME NEW slots \in [Slots -> Task \cup {NIL}], NEW handle \in Slots \cup {0},
             handle # 0 => slots[handle] # NIL,
             \A m \in Slots : slots[m] # NIL =>
                /\ slots[m].cancelled = "no" <=> handle = m
                /\ slots[m].cancelled = "no" => slots[m].of = r.number
      PROVE  Exact([r EXCEPT !.tasks = [r.tasks EXCEPT ![c] = slots],
                             !.log_tasks = [r.log_tasks EXCEPT ![c] = handle]])
  <2> DEFINE tasks == [r.tasks EXCEPT ![c] = slots]
             handles == [r.log_tasks EXCEPT ![c] = handle]
             q == [r EXCEPT !.tasks = tasks, !.log_tasks = handles]
  <2>1. /\ tasks \in [Containers -> [Slots -> Task \cup {NIL}]]
        /\ tasks[c] = slots
        /\ \A d \in Containers : d # c => tasks[d] = r.tasks[d]
        /\ handles \in [Containers -> Slots \cup {0}]
        /\ handles[c] = handle
        /\ \A d \in Containers : d # c => handles[d] = r.log_tasks[d]
    BY <1>1
  <2> HIDE DEF tasks, handles
  <2>3. /\ q \in UpdateCoordinator
        /\ q.tasks = tasks /\ q.log_tasks = handles /\ q.number = r.number
    BY <1>1, <2>1 DEF UpdateCoordinator
  <2> HIDE DEF q
  <2>4. ASSUME NEW d \in Containers PROVE ExactFor(q, d)
    <3>1. CASE d = c
      BY <1>4, <2>1, <2>3, <3>1 DEF ExactFor
    <3>2. CASE d # c
      BY <1>1, <2>1, <2>3, <3>2 DEF ExactFor
    <3>3. QED
      BY <3>1, <3>2
  <2>5. QED
    BY <2>3, <2>4 DEF Exact, q, tasks, handles
<1>5. CASE r.tasks[c][n].of # r.number \/ held = 0
  <2>1. CleanUp(r, c, n) = [r EXCEPT !.tasks = [r.tasks EXCEPT ![c] = frees],
                                     !.log_tasks = [r.log_tasks EXCEPT ![c] = held]]
    <3>1. [r.log_tasks EXCEPT ![c] = held] = r.log_tasks
      BY <1>1
    <3>2. CleanUp(r, c, n) = [r EXCEPT !.tasks = [r.tasks EXCEPT ![c] = frees]]
      BY <1>5 DEF CleanUp
    <3>3. [r EXCEPT !.log_tasks = r.log_tasks] = r
      BY <1>1 DEF UpdateCoordinator
    <3>4. QED
      BY <1>1, <3>1, <3>2, <3>3 DEF UpdateCoordinator
  <2>2. held # n
    BY <1>2, <1>5, SlotsAreNumbers DEF ExactFor
  <2>3. held # 0 => frees[held] # NIL
    BY <1>2, <1>3, <2>2 DEF ExactFor
  <2>4. \A m \in Slots : frees[m] # NIL =>
           /\ frees[m].cancelled = "no" <=> held = m
           /\ frees[m].cancelled = "no" => frees[m].of = r.number
    BY <1>2, <1>3 DEF ExactFor
  <2> HIDE DEF frees
  <2>5. QED
    <3>1. Exact([r EXCEPT !.tasks = [r.tasks EXCEPT ![c] = frees],
                          !.log_tasks = [r.log_tasks EXCEPT ![c] = held]])
      BY <1>2, <1>3, <1>4, <2>3, <2>4
    <3>2. QED
      BY <2>1, <3>1
<1>6. CASE held = n /\ r.tasks[c][n].of = r.number
  <2>1. CleanUp(r, c, n) = [r EXCEPT !.tasks = [r.tasks EXCEPT ![c] = frees],
                                     !.log_tasks = [r.log_tasks EXCEPT ![c] = 0]]
    BY <1>1, <1>6, SlotsAreNumbers DEF CleanUp, UpdateCoordinator
  <2>2. \A m \in Slots : frees[m] # NIL =>
           /\ frees[m].cancelled = "no" <=> 0 = m
           /\ frees[m].cancelled = "no" => frees[m].of = r.number
    BY <1>2, <1>3, <1>6, SlotsAreNumbers DEF ExactFor
  <2> HIDE DEF frees
  <2>3. QED
    <3>1. Exact([r EXCEPT !.tasks = [r.tasks EXCEPT ![c] = frees],
                          !.log_tasks = [r.log_tasks EXCEPT ![c] = 0]])
      BY <1>3, <1>4, <2>2
    <3>2. QED
      BY <2>1, <3>1
<1>7. CASE held # n /\ held # 0 /\ r.tasks[c][n].of = r.number
  <2>1. CleanUp(r, c, n) = [r EXCEPT !.tasks = [r.tasks EXCEPT ![c] = drops],
                                     !.log_tasks = [r.log_tasks EXCEPT ![c] = 0]]
    <3>1. frees[held] = r.tasks[c][held]
      BY <1>2, <1>7
    <3>2. [frees EXCEPT ![held].cancelled = "dropped"] = drops
      BY <3>1
    <3>3. CleanUp(r, c, n) =
             [r EXCEPT !.log_tasks[c] = 0,
                       !.tasks[c] = [frees EXCEPT ![held].cancelled = "dropped"]]
      BY <1>7 DEF CleanUp
    <3>4. CleanUp(r, c, n) = [r EXCEPT !.log_tasks[c] = 0, !.tasks[c] = drops]
      BY <3>2, <3>3
    <3> HIDE DEF drops
    <3>5. QED
      BY <1>1, <3>4 DEF UpdateCoordinator
  <2>2. held \in Slots /\ r.tasks[c][held] \in Task
    BY <1>2, <1>7 DEF ExactFor
  <2>3. dropped \in Task /\ dropped.cancelled = "dropped"
    BY <2>2 DEF Task
  <2> HIDE DEF dropped, frees
  <2>4. /\ drops \in [Slots -> Task \cup {NIL}]
        /\ drops[held] = dropped
        /\ \A m \in Slots : m # held => drops[m] = frees[m]
    BY <1>3, <2>2, <2>3
  <2> HIDE DEF drops
  <2>5. \A m \in Slots : drops[m] # NIL =>
           /\ drops[m].cancelled = "no" <=> 0 = m
           /\ drops[m].cancelled = "no" => drops[m].of = r.number
    BY <1>2, <1>3, <2>3, <2>4, SlotsAreNumbers DEF ExactFor
  <2>6. QED
    <3>1. Exact([r EXCEPT !.tasks = [r.tasks EXCEPT ![c] = drops],
                          !.log_tasks = [r.log_tasks EXCEPT ![c] = 0]])
      BY <1>4, <2>4, <2>5
    <3>2. QED
      BY <2>1, <3>1
<1>8. QED
  BY <1>5, <1>6, <1>7

-----------------------------------------------------------------------------
LEMMA InitEstablishes == Init => LogsInv
<1> SUFFICES ASSUME Init PROVE LogsInv
  OBVIOUS
<1> DEFINE q == [number |-> 0, log_tasks |-> [c \in Containers |-> 0],
                 tasks |-> [c \in Containers |-> [n \in Slots |-> NIL]]]
<1>1. coordinator = q
  BY DEF Init
<1>2. q \in UpdateCoordinator
  BY DEF UpdateCoordinator
<1>3. \A c \in Containers : ExactFor(q, c)
  BY DEF ExactFor
<1>4. TabsTypeOK
  <2>1. update_rx \in Seq(Containers)
    BY EmptySeq DEF Init
  <2>2. /\ viewer \in Viewer \cup {NIL} /\ switching \in BOOLEAN
        /\ tabs \in [WorkloadTabs -> Sessions \cup {0}]
    BY DEF Init
  <2>3. /\ bootstraps \in SUBSET Sessions
        /\ workload_log_sessions \in [Sessions -> SUBSET Containers]
    BY DEF Init
  <2>4. QED
    BY <2>1, <2>2, <2>3 DEF TabsTypeOK
<1>5. SessionHasTab
  BY DEF Init, SessionHasTab
<1>6. QED
  BY <1>1, <1>2, <1>3, <1>4, <1>5 DEF LogsInv, Exact

\* Actions that only change what a viewer that stays open shows and follows.
LEMMA ViewerActionsKeep ==
    ASSUME LogsInv, Exact(coordinator'), viewer' \in Viewer \cup {NIL},
           UNCHANGED <<update_rx, tabs, bootstraps, workload_log_sessions, switching>>
    PROVE  LogsInv'
BY DEF LogsInv, TabsTypeOK, SessionHasTab

LEMMA ViewerIsViewer ==
    ASSUME LogsInv, viewer # NIL
    PROVE  /\ viewer \in Viewer
           /\ viewer.container \in Containers \cup {NIL}
           /\ viewer.picking_container \in BOOLEAN /\ viewer.follow_mode \in BOOLEAN
           /\ viewer.previous_logs \in BOOLEAN /\ viewer.show_timestamps \in BOOLEAN
BY DEF LogsInv, TabsTypeOK, Viewer

LEMMA OpenKeeps == ASSUME LogsInv, OpenPodLogs PROVE LogsInv'
<1> DEFINE v == IF viewer = NIL THEN NoViewer ELSE viewer
<1>1. NoViewer \in Viewer
  BY DEF NoViewer, Viewer
<1>2. v \in Viewer
  BY <1>1, ViewerIsViewer
<1> HIDE DEF v
<1>3. [v EXCEPT !.picking_container = FALSE, !.asked = TRUE] \in Viewer
  BY <1>2 DEF Viewer
<1>4. viewer' \in Viewer /\ Exact(coordinator')
  BY <1>3 DEF OpenPodLogs, v, LogsInv
<1>5. QED
  BY <1>4, ViewerActionsKeep DEF OpenPodLogs

LEMMA ContainersKeep ==
    ASSUME LogsInv, NEW single \in Containers \cup {NIL}, NEW several \in BOOLEAN,
           ContainersDiscovered(single, several)
    PROVE  LogsInv'
<1>1. viewer \in Viewer /\ Exact(coordinator')
  BY ViewerIsViewer DEF ContainersDiscovered, LogsInv
<1>2. viewer' \in Viewer
  BY <1>1 DEF ContainersDiscovered, Viewer
<1>3. QED
  BY <1>1, <1>2, ViewerActionsKeep DEF ContainersDiscovered

LEMMA NotFoundKeeps == ASSUME LogsInv, ContainersNotFound PROVE LogsInv'
<1>1. viewer \in Viewer /\ Exact(coordinator')
  BY ViewerIsViewer DEF ContainersNotFound, LogsInv
<1>2. viewer' \in Viewer
  BY <1>1 DEF ContainersNotFound, Viewer
<1>3. QED
  BY <1>1, <1>2, ViewerActionsKeep DEF ContainersNotFound

LEMMA SelectKeeps ==
    ASSUME LogsInv, NEW c \in Containers, SelectContainer(c) PROVE LogsInv'
<1>1. viewer \in Viewer /\ Exact(coordinator')
  BY ViewerIsViewer DEF SelectContainer, LogsInv
<1>2. viewer' \in Viewer
  BY <1>1 DEF SelectContainer, Viewer
<1>3. QED
  BY <1>1, <1>2, ViewerActionsKeep DEF SelectContainer

LEMMA ScrollKeeps ==
    ASSUME LogsInv, NEW to_bottom \in BOOLEAN, Scroll(to_bottom) PROVE LogsInv'
<1>1. viewer \in Viewer /\ Exact(coordinator')
  BY ViewerIsViewer DEF Scroll, LogsInv
<1>2. viewer' \in Viewer
  BY <1>1 DEF Scroll, Viewer
<1>3. QED
  BY <1>1, <1>2, ViewerActionsKeep DEF Scroll

LEMMA FollowKeeps == ASSUME LogsInv, ToggleFollow PROVE LogsInv'
<1>1. /\ viewer \in Viewer /\ viewer.follow_mode \in BOOLEAN
      /\ viewer.container \in Containers \cup {NIL} /\ Exact(coordinator)
  BY ViewerIsViewer DEF ToggleFollow, LogsInv
<1>2. viewer' \in Viewer
  BY <1>1 DEF ToggleFollow, Viewer
<1>3. CASE viewer.follow_mode
  <2>1. coordinator' = StopLogStreaming(coordinator, {viewer.container} \ {NIL})
    BY <1>3 DEF ToggleFollow
  <2>2. Exact(coordinator')
    BY <1>1, <2>1, StopKeeps
  <2>3. QED
    BY <1>2, <2>2, ViewerActionsKeep DEF ToggleFollow
<1>4. CASE ~viewer.follow_mode
  <2>1. /\ viewer.container # NIL /\ Room({viewer.container})
        /\ coordinator' = StartLogStreaming(coordinator, {viewer.container}, TRUE)
    BY <1>4 DEF ToggleFollow
  <2>2. {viewer.container} \in SUBSET Containers
        /\ \A c \in {viewer.container} : FreeSlots(coordinator, c) # {}
    BY <1>1, <2>1 DEF Room
  <2>3. Exact(coordinator')
    BY <1>1, <2>1, <2>2, StartKeeps
  <2>4. QED
    BY <1>2, <2>3, ViewerActionsKeep DEF ToggleFollow
<1>5. QED
  BY <1>1, <1>3, <1>4

LEMMA PreviousKeeps == ASSUME LogsInv, TogglePrevious PROVE LogsInv'
<1>1. viewer \in Viewer /\ viewer.previous_logs \in BOOLEAN /\ Exact(coordinator)
  BY ViewerIsViewer DEF TogglePrevious, LogsInv
<1>2. viewer' \in Viewer
  BY <1>1 DEF TogglePrevious, Viewer
<1>3. coordinator' \in {coordinator, StopLogStreaming(coordinator, {viewer.container})}
  BY DEF TogglePrevious
<1>4. Exact(coordinator')
  BY <1>1, <1>3, StopKeeps
<1>5. QED
  BY <1>2, <1>4, ViewerActionsKeep DEF TogglePrevious

LEMMA TimestampsKeep == ASSUME LogsInv, ToggleTimestamps PROVE LogsInv'
<1> DEFINE stopped == IF viewer.follow_mode \/ viewer.show_timestamps
                      THEN StopLogStreaming(coordinator, {viewer.container})
                      ELSE coordinator
<1>1. /\ viewer \in Viewer /\ viewer.show_timestamps \in BOOLEAN
      /\ viewer.previous_logs \in BOOLEAN
      /\ viewer.container \in Containers /\ Exact(coordinator)
  BY ViewerIsViewer DEF ToggleTimestamps, LogsInv
<1>2. viewer' \in Viewer
  BY <1>1 DEF ToggleTimestamps, Viewer
<1>3. /\ Exact(stopped)
      /\ FreeSlots(stopped, viewer.container) = FreeSlots(coordinator, viewer.container)
  BY <1>1, StopKeeps
<1>4. /\ Room({viewer.container})
      /\ coordinator' = StartLogStreaming(stopped, {viewer.container},
                                          ~viewer.previous_logs)
  BY DEF ToggleTimestamps
<1> HIDE DEF stopped
<1>5. {viewer.container} \in SUBSET Containers
      /\ \A c \in {viewer.container} : FreeSlots(stopped, c) # {}
  BY <1>1, <1>3, <1>4 DEF Room
<1>6. (~viewer.previous_logs) \in BOOLEAN
  BY <1>1
<1>7. Exact(coordinator')
  BY <1>3, <1>4, <1>5, <1>6, StartKeeps
<1>8. QED
  BY <1>2, <1>7, ViewerActionsKeep DEF ToggleTimestamps

LEMMA ClosePodLogsKeeps == ASSUME LogsInv, ClosePodLogs PROVE LogsInv'
<1>1. Exact(coordinator')
  BY StopKeeps DEF ClosePodLogs, LogsInv
<1>2. QED
  BY <1>1, ViewerActionsKeep DEF ClosePodLogs

-----------------------------------------------------------------------------
\* A tab that takes a new session, or none, ends the one it has had.
LEMMA NewSessionKeeps ==
    ASSUME LogsInv, NEW tab \in WorkloadTabs, NEW session \in Sessions \cup {0},
           NewSession(tab, session)
    PROVE  /\ Exact(coordinator') /\ SessionHasTab'
           /\ tabs' \in [WorkloadTabs -> Sessions \cup {0}]
           /\ workload_log_sessions' \in [Sessions -> SUBSET Containers]
<1>1. TabsTypeOK /\ Exact(coordinator) /\ SessionHasTab
  BY DEF LogsInv
<1>2. Exact(coordinator')
  BY <1>1, StopKeeps DEF NewSession
<1>3. /\ tabs' \in [WorkloadTabs -> Sessions \cup {0}]
      /\ workload_log_sessions' \in [Sessions -> SUBSET Containers]
  BY <1>1 DEF NewSession, Forget, TabsTypeOK
<1>4. SessionHasTab'
  <2> SUFFICES ASSUME NEW s \in Sessions, workload_log_sessions'[s] # {}
               PROVE  \E t \in WorkloadTabs : tabs'[t] = s
    BY DEF SessionHasTab
  <2>1. s # tabs[tab] /\ workload_log_sessions[s] # {}
    BY SlotsAreNumbers DEF NewSession, Forget
  <2>2. PICK t \in WorkloadTabs : tabs[t] = s
    BY <1>1, <2>1 DEF SessionHasTab
  <2>3. tabs'[t] = s
    BY <1>1, <2>1, <2>2 DEF NewSession, TabsTypeOK
  <2>4. QED
    BY <2>3
<1>5. QED
  BY <1>2, <1>3, <1>4

LEMMA OpenWorkloadKeeps ==
    ASSUME LogsInv, NEW session \in Sessions, OpenWorkloadLogs(session) PROVE LogsInv'
<1>1. "workload" \in WorkloadTabs /\ session \in Sessions \cup {0}
  BY DEF WorkloadTabs
<1>2. NewSession("workload", session)
  BY DEF OpenWorkloadLogs
<1>3. QED
  BY <1>1, <1>2, NewSessionKeeps DEF OpenWorkloadLogs, LogsInv, TabsTypeOK

LEMMA CloseWorkloadKeeps ==
    ASSUME LogsInv, NEW tab \in WorkloadTabs, CloseWorkloadLogs(tab) PROVE LogsInv'
<1>1. NewSession(tab, 0)
  BY DEF CloseWorkloadLogs
<1>2. QED
  BY <1>1, NewSessionKeeps DEF CloseWorkloadLogs, LogsInv, TabsTypeOK

\* Only a session that its tab still has gets streams.
LEMMA BootstrappedKeeps ==
    ASSUME LogsInv, NEW session \in Sessions, NEW sources \in SUBSET Containers,
           Bootstrapped(session, sources)
    PROVE  LogsInv'
<1>1. TabsTypeOK /\ Exact(coordinator) /\ SessionHasTab
  BY DEF LogsInv
<1>2. \A c \in sources : FreeSlots(coordinator, c) # {}
  BY DEF Bootstrapped, Room
<1>3. Exact(coordinator')
  BY <1>1, <1>2, StartKeeps DEF Bootstrapped
<1>4. TabsTypeOK'
  BY <1>1 DEF Bootstrapped, TabsTypeOK
<1>5. SessionHasTab'
  BY <1>1 DEF Bootstrapped, SessionHasTab, WorkloadTabs, TabsTypeOK
<1>6. QED
  BY <1>3, <1>4, <1>5 DEF LogsInv

LEMMA SelectAllKeeps ==
    ASSUME LogsInv, NEW session \in Sessions, SelectAllContainers(session) PROVE LogsInv'
<1> DEFINE old == {tabs["pod"]} \ {0}
           stopped == StopLogStreaming(coordinator, Streamed(old))
<1>1. TabsTypeOK /\ Exact(coordinator) /\ SessionHasTab /\ "pod" \in WorkloadTabs
  BY DEF LogsInv, WorkloadTabs
<1>2. /\ Exact(stopped)
      /\ \A c \in Containers : FreeSlots(stopped, c) = FreeSlots(coordinator, c)
  BY <1>1, StopKeeps
<1>3. /\ coordinator' = StartLogStreaming(stopped, Containers, TRUE)
      /\ \A c \in Containers : FreeSlots(coordinator, c) # {}
      /\ viewer' = NIL
      /\ tabs' = [tabs EXCEPT !["pod"] = session]
      /\ workload_log_sessions' =
            [s \in Sessions |-> IF s = session THEN Containers
                                ELSE IF s \in old THEN {}
                                ELSE workload_log_sessions[s]]
      /\ UNCHANGED <<update_rx, bootstraps, switching>>
  BY DEF SelectAllContainers, Room
<1> HIDE DEF stopped
<1>4. Exact(coordinator')
  BY <1>2, <1>3, StartKeeps
<1>5. TabsTypeOK'
  BY <1>1, <1>3 DEF TabsTypeOK
<1>6. SessionHasTab'
  <2> SUFFICES ASSUME NEW s \in Sessions, workload_log_sessions'[s] # {}
               PROVE  \E t \in WorkloadTabs : tabs'[t] = s
    BY DEF SessionHasTab
  <2>1. CASE s = session
    BY <1>1, <1>3, <2>1 DEF TabsTypeOK
  <2>2. CASE s # session
    <3>1. s # tabs["pod"] /\ workload_log_sessions[s] # {}
      BY <1>3, <2>2, SlotsAreNumbers
    <3>2. PICK t \in WorkloadTabs : tabs[t] = s
      BY <1>1, <3>1 DEF SessionHasTab
    <3>3. tabs'[t] = s
      BY <1>1, <1>3, <3>1, <3>2 DEF TabsTypeOK
    <3>4. QED
      BY <3>3
  <2>3. QED
    BY <2>1, <2>2
<1>7. QED
  BY <1>4, <1>5, <1>6 DEF LogsInv

-----------------------------------------------------------------------------
LEMMA ToggleWorkbenchKeeps == ASSUME LogsInv, ToggleWorkbench PROVE LogsInv'
<1>1. TabsTypeOK /\ Exact(coordinator) /\ SessionHasTab
  BY DEF LogsInv
<1>2. Exact(coordinator')
  BY <1>1, StopKeeps DEF ToggleWorkbench
<1>3. TabsTypeOK' /\ SessionHasTab'
  BY <1>1 DEF ToggleWorkbench, Forget, TabsTypeOK, SessionHasTab
<1>4. QED
  BY <1>2, <1>3 DEF LogsInv

\* No session is left when a generation ends.
LEMMA StopContextBoundKeeps ==
    ASSUME LogsInv, StopContextBound
    PROVE  /\ bootstraps' = {} /\ SessionHasTab'
           /\ workload_log_sessions' \in [Sessions -> SUBSET Containers]
           /\ Exact(StopAllFollowed(coordinator))
<1>1. Exact(StopAllFollowed(coordinator))
  BY StopKeeps DEF LogsInv, StopAllFollowed
<1>2. workload_log_sessions' = [s \in Sessions |-> {}]
  BY DEF StopContextBound, Forget
<1>3. QED
  BY <1>1, <1>2 DEF StopContextBound, SessionHasTab

LEMMA SwitchesKeep == ASSUME LogsInv, Switches PROVE LogsInv'
<1>1. TabsTypeOK
  BY DEF LogsInv
<1>2. CASE ToggleWorkbench
  BY <1>2, ToggleWorkbenchKeeps
<1>3. CASE SelectNamespace \/ SelectContext
  <2>1. StopContextBound /\ CloseResourceTabs
        /\ coordinator' = StopAllFollowed(coordinator)
    BY <1>3 DEF SelectNamespace, SelectContext
  <2>2. TabsTypeOK'
    BY <1>1, <1>3, <2>1, StopContextBoundKeeps
      DEF SelectNamespace, SelectContext, CloseResourceTabs, TabsTypeOK
  <2>3. QED
    BY <2>1, <2>2, StopContextBoundKeeps DEF LogsInv
<1>4. CASE ContextSwitchSucceeds
  <2>1. /\ StopContextBound
        /\ coordinator' = ShutDownAndReplace(StopAllFollowed(coordinator))
    BY <1>4 DEF ContextSwitchSucceeds
  <2>2. Exact(coordinator') /\ SessionHasTab'
    BY <2>1, StopContextBoundKeeps, ReplaceKeeps
  <2>3. viewer' \in Viewer \cup {NIL}
    BY <1>1, <1>4 DEF ContextSwitchSucceeds, TabsTypeOK, Viewer
  <2>4. TabsTypeOK'
    BY <1>1, <1>4, <2>1, <2>3, StopContextBoundKeeps
      DEF ContextSwitchSucceeds, TabsTypeOK
  <2>5. QED
    BY <2>2, <2>4 DEF LogsInv
<1>5. CASE ContextSwitchFails
  BY <1>5 DEF ContextSwitchFails, LogsInv, TabsTypeOK, SessionHasTab
<1>6. QED
  BY <1>2, <1>3, <1>4, <1>5 DEF Switches

-----------------------------------------------------------------------------
\* The tabs do not notice what a task does, but for the status in the channel.
LEMMA TasksKeep ==
    ASSUME LogsInv, NEW c \in Containers, NEW n \in Slots, TaskStep(c, n)
    PROVE  LogsInv'
<1>1. TabsTypeOK /\ Exact(coordinator)
  BY DEF LogsInv
<1>2. /\ UNCHANGED <<viewer, tabs, bootstraps, workload_log_sessions, switching>>
      /\ update_rx' \in {update_rx, Append(update_rx, c)}
      /\ coordinator.tasks[c][n] # NIL
  BY DEF TaskStep, TaskConnects, TaskFails, TaskFetched, TaskEnds, TaskCancelled,
         TaskCleansUp, Report, Live
<1>3. update_rx' \in Seq(Containers)
  BY <1>1, <1>2, AppendProperties DEF TabsTypeOK
<1>4. Exact(coordinator')
  <2>1. CASE TaskCleansUp(c, n)
    BY <1>1, <1>2, <2>1, CleanUpKeeps DEF TaskCleansUp
  <2>2. CASE ~TaskCleansUp(c, n)
    <3>1. \/ coordinator' = [coordinator EXCEPT !.tasks[c][n].phase = "following"]
          \/ coordinator' = [coordinator EXCEPT !.tasks[c][n].phase = "cleaning"]
      BY <2>2 DEF TaskStep, TaskConnects, TaskFails, TaskFetched, TaskEnds,
                  TaskCancelled, Report
    <3>2. /\ Exact([coordinator EXCEPT !.tasks[c][n].phase = "following"])
          /\ Exact([coordinator EXCEPT !.tasks[c][n].phase = "cleaning"])
      BY <1>1, <1>2, PhaseKeeps
    <3>3. QED
      BY <3>1, <3>2
  <2>3. QED
    BY <2>1, <2>2
<1>5. QED
  BY <1>1, <1>2, <1>3, <1>4 DEF LogsInv, TabsTypeOK, SessionHasTab

LEMMA StatusKeeps == ASSUME LogsInv, ReceiveStatus PROVE LogsInv'
<1>1. TabsTypeOK /\ Exact(coordinator')
  BY DEF LogsInv, ReceiveStatus
<1>2. update_rx' \in Seq(Containers)
  BY <1>1, HeadTailProperties DEF ReceiveStatus, TabsTypeOK
<1>3. viewer' \in Viewer \cup {NIL}
  BY <1>1 DEF ReceiveStatus, TabsTypeOK, Viewer
<1>4. QED
  BY <1>1, <1>2, <1>3 DEF ReceiveStatus, LogsInv, TabsTypeOK, SessionHasTab

LEMMA NextKeeps == ASSUME LogsInv, [Next]_vars PROVE LogsInv'
<1>1. CASE PodLogsActions
  BY <1>1, OpenKeeps, ContainersKeep, NotFoundKeeps, SelectKeeps, FollowKeeps,
     PreviousKeeps, TimestampsKeep, ScrollKeeps, ClosePodLogsKeeps
    DEF PodLogsActions
<1>2. CASE WorkloadLogsActions
  BY <1>2, OpenWorkloadKeeps, BootstrappedKeeps, SelectAllKeeps, CloseWorkloadKeeps
    DEF WorkloadLogsActions
<1>3. CASE Switches
  BY <1>3, SwitchesKeep
<1>4. CASE \E c \in Containers, n \in Slots : TaskStep(c, n)
  BY <1>4, TasksKeep
<1>5. CASE ReceiveStatus
  BY <1>5, StatusKeeps
<1>6. CASE UNCHANGED vars
  BY <1>6 DEF vars, LogsInv, TabsTypeOK, SessionHasTab
<1>7. QED
  BY <1>1, <1>2, <1>3, <1>4, <1>5, <1>6 DEF Next

LEMMA AlwaysLogsInv == Spec => []LogsInv
BY InitEstablishes, NextKeeps, PTL DEF Spec

-----------------------------------------------------------------------------
\* Every coordinator, task, tab and session is of its type, however many
\* containers the pod has.
THEOREM LogsTypeCorrect == Spec => []LogsTypeOK
<1>1. LogsInv => LogsTypeOK
  BY DEF LogsInv, Exact, TabsTypeOK, LogsTypeOK
<1>2. QED
  BY <1>1, AlwaysLogsInv, PTL

\* No log stream runs on out of reach of stop_log_streaming: what the registry
\* holds for a container is the one task of the current coordinator that nothing
\* has cancelled, although the end of a task may remove its successor's handle.
THEOREM RegistryIsExact == Spec => []StreamsAreRegistered
<1>1. LogsInv => StreamsAreRegistered
  BY ExactIsRegistered DEF LogsInv
<1>2. QED
  BY <1>1, AlwaysLogsInv, PTL

\* A workload-log session has streams only while a tab has it, so that closing,
\* replacing or switching reaches them, however late its targets are resolved.
THEOREM SessionsHaveTabs == Spec => []SessionHasTab
<1>1. LogsInv => SessionHasTab
  BY DEF LogsInv
<1>2. QED
  BY <1>1, AlwaysLogsInv, PTL

=============================================================================
