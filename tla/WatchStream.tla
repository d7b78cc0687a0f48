---------------------------- MODULE WatchStream -----------------------------
(***************************************************************************)
(* One watched resource, from the cluster to the global state: the task of *)
(* start_<resource>_watch with its ResourceStore and its debounce, the     *)
(* stream of kube's watcher that it reads (external), the channel of watch *)
(* updates and the handler that applies them.  A task is replaced by a new *)
(* one, in the same generation, whenever the watched scope shrinks.        *)
(*                                                                         *)
(* watch_rx stands for the channel and the sends that wait for room in it, *)
(* which are served in order.  Left out: the error updates, which change   *)
(* no list, the objects without uid, which are skipped, and the refreshes, *)
(* which write the same list (module Session).                             *)
(***************************************************************************)
EXTENDS Sequences, Integers

CONSTANTS
    Uids,         \* the uids of the objects of the resource
    Values,       \* what the DTO keeps of an object
    ABSENT,       \* the object does not exist
    NIL,          \* no list
    MaxChanges,   \* bound: changes of the cluster
    MaxFailures,  \* bound: failures of the stream
    MaxRestarts,  \* bound: restarts of the task
    Capacity      \* bound: updates in the channel (32 in the code)

ASSUME AbsentAssumption == ABSENT \notin Values
ASSUME NilAssumption == NIL \notin [Uids -> Values \cup {ABSENT}]

VARIABLES
    history,          \* the lists that the cluster has had
    stream,           \* kube's watcher: its phase, the list that it is at, and
                      \* the uids of that list it has not delivered yet
    store,            \* ResourceStore
    publish_pending,
    watch_rx,         \* lists sent and not yet received
    shown,            \* the list in the global state
    published,        \* history: the last list that this task has sent, or NIL
    failures,         \* history: the failures so far
    restarts          \* history: the restarts so far

vars == <<history, stream, store, publish_pending, watch_rx, shown, published,
          failures, restarts>>

Lists == [Uids -> Values \cup {ABSENT}]
Nothing == [uid \in Uids |-> ABSENT]

Current == history[Len(history)]

\* The types: at is a list of the history, only whole lists are sent and shown.
TypeOK ==
    /\ history \in Seq(Lists) /\ history # <<>>
    /\ stream \in [phase : {"empty", "listing", "paging", "watching", "ended"},
                   at : DOMAIN history, left : SUBSET Uids]
    /\ store \in [items : Lists, init_buffer : Lists]
    /\ publish_pending \in BOOLEAN
    /\ watch_rx \in Seq(Lists)
    /\ shown \in Lists
    /\ published \in Lists \cup {NIL}
    /\ failures \in Nat
    /\ restarts \in Nat

-----------------------------------------------------------------------------
(* ResourceStore                                                           *)

NewStore == [items |-> Nothing, init_buffer |-> Nothing]

\* Seeded bug: the buffer keeps what an interrupted list has left in it.
BeginInitKeepsBuffer(s) == s

BeginInit(s) == [s EXCEPT !.init_buffer = Nothing]

ApplyInitPage(s, uid, value) == [s EXCEPT !.init_buffer[uid] = value]

CommitInit(s) == [items |-> s.init_buffer, init_buffer |-> Nothing]

\* apply_event and remove
ApplyEvent(s, uid, value) == [s EXCEPT !.items[uid] = value]

-----------------------------------------------------------------------------
Init ==
    /\ history \in {<<list>> : list \in Lists}
    /\ stream = [phase |-> "empty", at |-> 1, left |-> {}]
    /\ store = NewStore
    /\ publish_pending = FALSE
    /\ watch_rx = <<>>
    /\ shown = Nothing
    /\ published = NIL
    /\ failures = 0
    /\ restarts = 0

\* One object of the cluster is created, changed or deleted; a change of a part
\* that the DTO does not keep repeats the list.
ClusterChanges(uid, value) ==
    /\ Len(history) <= MaxChanges
    /\ ~(value = ABSENT /\ Current[uid] = ABSENT)
    /\ history' = Append(history, [Current EXCEPT ![uid] = value])
    /\ UNCHANGED <<stream, store, publish_pending, watch_rx, shown, published,
                   failures, restarts>>

\* An event of the stream leaves the store s; the task publishes later, when the
\* event has changed the items.
Processed(s) ==
    /\ store' = s
    /\ publish_pending' = (publish_pending \/ s.items # store.items)
    /\ UNCHANGED <<history, watch_rx, shown, published, failures, restarts>>

\* Event::Init comes before the list is asked for.
StreamInit ==
    /\ stream.phase = "empty"
    /\ stream' = [stream EXCEPT !.phase = "listing"]
    /\ Processed(BeginInit(store))

\* The API server may answer any version that it has had (any_semantic).
ListAnswered(version) ==
    /\ stream.phase = "listing"
    /\ stream' = [phase |-> "paging", at |-> version,
                  left |-> {uid \in Uids : history[version][uid] # ABSENT}]
    /\ UNCHANGED <<history, store, publish_pending, watch_rx, shown, published,
                   failures, restarts>>

\* Event::InitApply
StreamInitApply(uid) ==
    /\ stream.phase = "paging" /\ uid \in stream.left
    /\ stream' = [stream EXCEPT !.left = @ \ {uid}]
    /\ Processed(ApplyInitPage(store, uid, history[stream.at][uid]))

\* Event::InitDone
StreamInitDone ==
    /\ stream.phase = "paging" /\ stream.left = {}
    /\ stream' = [stream EXCEPT !.phase = "watching"]
    /\ Processed(CommitInit(store))

\* Event::Apply or Event::Delete, in the order of the changes.
StreamDelta(uid) ==
    LET next == history[stream.at + 1]
    IN  /\ stream.phase = "watching" /\ stream.at < Len(history)
        /\ \A other \in Uids \ {uid} : next[other] = history[stream.at][other]
        /\ stream' = [stream EXCEPT !.at = @ + 1]
        /\ Processed(ApplyEvent(store, uid, next[uid]))

\* Err(_): the stream lists anew, or goes on watching where it was.
StreamFails(relists) ==
    /\ stream.phase \in {"listing", "paging", "watching"}
    /\ stream.phase # "watching" => relists
    /\ failures < MaxFailures
    /\ failures' = failures + 1
    /\ stream' = IF relists THEN [stream EXCEPT !.phase = "empty", !.left = {}]
                 ELSE stream
    /\ UNCHANGED <<history, store, publish_pending, watch_rx, shown, published,
                   restarts>>

\* Seeded bug: the list that was sent before is sent again.
PublishOld ==
    /\ Len(watch_rx) < Capacity
    /\ watch_rx' = Append(watch_rx, published)
    /\ published' = store.items

\* Sends the items.
Publish ==
    /\ Len(watch_rx) < Capacity
    /\ watch_rx' = Append(watch_rx, store.items)
    /\ published' = store.items

\* The debounce tick.
PublishTick ==
    /\ publish_pending /\ stream.phase # "ended"
    /\ publish_pending' = FALSE
    /\ Publish
    /\ UNCHANGED <<history, stream, store, shown, failures, restarts>>

\* Ok(None): the task sends what is pending, and is over.
StreamEnds ==
    /\ stream.phase = "watching"
    /\ failures < MaxFailures
    /\ failures' = failures + 1
    /\ stream' = [stream EXCEPT !.phase = "ended"]
    /\ publish_pending' = FALSE
    /\ IF publish_pending THEN Publish ELSE UNCHANGED <<watch_rx, published>>
    /\ UNCHANGED <<history, store, shown, restarts>>

\* ensure_watches restarts all tasks when the scope shrinks: the old task is
\* cancelled, the new one has a store of its own, the updates on their way stay.
Restart ==
    /\ restarts < MaxRestarts
    /\ restarts' = restarts + 1
    /\ stream' = [phase |-> "empty", at |-> 1, left |-> {}]
    /\ store' = NewStore
    /\ publish_pending' = FALSE
    /\ published' = NIL
    /\ UNCHANGED <<history, watch_rx, shown, failures>>

\* Seeded bug: the updates behind the one received are drained and dropped.
ReceiveAndDrain ==
    /\ watch_rx # <<>>
    /\ shown' = Head(watch_rx)
    /\ watch_rx' = <<>>
    /\ UNCHANGED <<history, stream, store, publish_pending, published, failures,
                   restarts>>

\* apply_watch_update
ReceiveUpdate ==
    /\ watch_rx # <<>>
    /\ shown' = Head(watch_rx)
    /\ watch_rx' = Tail(watch_rx)
    /\ UNCHANGED <<history, stream, store, publish_pending, published, failures,
                   restarts>>

\* One event of the stream.
StreamStep ==
    \/ StreamInit
    \/ \E version \in DOMAIN history : ListAnswered(version)
    \/ \E uid \in Uids : StreamInitApply(uid)
    \/ StreamInitDone
    \/ \E uid \in Uids : StreamDelta(uid)

Next ==
    \/ \E uid \in Uids, value \in Values \cup {ABSENT} : ClusterChanges(uid, value)
    \/ StreamStep
    \/ \E relists \in BOOLEAN : StreamFails(relists)
    \/ StreamEnds
    \/ PublishTick
    \/ Restart
    \/ ReceiveUpdate

Spec == Init /\ [][Next]_vars

\* kube's watcher retries without limit (without_max_times), the ticker runs and
\* the event loop receives the updates.
FairSpec ==
    Spec /\ WF_vars(StreamStep) /\ WF_vars(PublishTick) /\ WF_vars(ReceiveUpdate)

-----------------------------------------------------------------------------
\* The list in the global state is always one the cluster has had, whatever the
\* order of relists, deltas, failures and restarts (the ResourceStore commits a
\* list atomically).
Abstract == INSTANCE PublishedList WITH history <- history, shown <- shown
Implements == Abstract!Spec

\* What the store knows has been sent, or will be at the next tick; but the
\* first list of a task is not sent when it is empty (commit_init compares it
\* with the empty items of the new store).
NothingWithheld ==
    \/ publish_pending
    \/ published = store.items
    \/ published = NIL /\ store.items = Nothing

\* The list on screen becomes the cluster's once it stops changing.  Two things
\* prevent that: a stream that has ended, and a restarted task whose first list
\* is empty, after which the list of its predecessor stays.
Converges ==
    <>[](\/ shown = Current
         \/ stream.phase = "ended"
         \/ published = NIL /\ Current = Nothing)

=============================================================================
