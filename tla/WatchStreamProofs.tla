------------------------- MODULE WatchStreamProofs --------------------------
(***************************************************************************)
(* What the watch of a resource guarantees for any objects, any number of  *)
(* changes, failures and restarts: the types, that nothing is withheld,    *)
(* and that only lists of the cluster are shown.                           *)
(***************************************************************************)
EXTENDS WatchStream, SequenceTheorems, TLAPS

\* The list before the first one is published, and every list of the history.
Had == {history[i] : i \in DOMAIN history} \cup {Nothing}

\* While a list is read, the buffer holds what has been delivered of it.
BufferFollows ==
    /\ stream.phase = "listing" => store.init_buffer = Nothing
    /\ stream.phase = "paging" =>
          store.init_buffer =
             [uid \in Uids |-> IF uid \in stream.left THEN ABSENT
                               ELSE history[stream.at][uid]]

\* A stream that watches has the items at the list it is at.
ItemsFollow ==
    stream.phase = "watching" => store.items = history[stream.at]

\* Every list on its way, from the store to the screen, is one of the cluster.
OnlyWholeLists ==
    /\ store.items \in Had
    /\ \A i \in DOMAIN watch_rx : watch_rx[i] \in Had
    /\ shown \in Had

Inv == TypeOK /\ BufferFollows /\ ItemsFollow /\ OnlyWholeLists /\ NothingWithheld

-----------------------------------------------------------------------------
\* The empty list is a list.
LEMMA NothingIsList == Nothing \in Lists
BY DEF Nothing, Lists

\* A change leaves the lists that were had, with their positions.
LEMMA HistoryGrows ==
    ASSUME TypeOK,
           NEW uid \in Uids, NEW value \in Values \cup {ABSENT},
           history' = Append(history, [Current EXCEPT ![uid] = value])
    PROVE  /\ history' \in Seq(Lists) /\ history' # <<>>
           /\ DOMAIN history \subseteq DOMAIN history'
           /\ \A i \in DOMAIN history : history'[i] = history[i]
<1> DEFINE next == [Current EXCEPT ![uid] = value]
<1>1. Current \in Lists
  BY DEF TypeOK, Current
<1>2. next \in Lists
  BY <1>1 DEF Lists
<1>3. QED
  BY <1>2 DEF TypeOK

\* The initial state has the invariant.
LEMMA InitInv == Init => Inv
<1> SUFFICES ASSUME Init PROVE Inv
  OBVIOUS
<1>1. TypeOK
  <2>1. PICK list \in Lists : history = <<list>>
    BY DEF Init
  <2>2. history \in Seq(Lists) /\ history # <<>> /\ 1 \in DOMAIN history
    BY <2>1
  <2>3. stream \in [phase : {"empty", "listing", "paging", "watching", "ended"},
                    at : DOMAIN history, left : SUBSET Uids]
    BY <2>2 DEF Init
  <2>4. store \in [items : Lists, init_buffer : Lists]
    BY NothingIsList DEF Init, NewStore
  <2>5. publish_pending \in BOOLEAN /\ watch_rx \in Seq(Lists) /\ shown \in Lists
    <3>1. publish_pending \in BOOLEAN
      BY Zenon DEF Init
    <3>2. watch_rx \in Seq(Lists) /\ shown \in Lists
      BY NothingIsList DEF Init
    <3>3. QED
      BY <3>1, <3>2
  <2>6. published \in Lists \cup {NIL} /\ failures \in Nat /\ restarts \in Nat
    BY DEF Init
  <2>7. QED
    BY <2>2, <2>3, <2>4, <2>5, <2>6, Zenon DEF TypeOK
<1>2. BufferFollows /\ ItemsFollow
  BY DEF Init, BufferFollows, ItemsFollow
<1>3. OnlyWholeLists
  BY DEF Init, OnlyWholeLists, Had, NewStore
<1>4. NothingWithheld
  BY DEF Init, NothingWithheld, NewStore
<1>5. QED
  BY <1>1, <1>2, <1>3, <1>4 DEF Inv

\* An event that leaves the history, and a store with whole lists, keeps the
\* types, the lists on their way and the pending publication.
LEMMA ProcessedKeeps ==
    ASSUME Inv,
           NEW s \in [items : Lists, init_buffer : Lists],
           Processed(s),
           s.items \in Had
    PROVE  /\ store' = s /\ publish_pending' \in BOOLEAN
           /\ history' = history /\ watch_rx' = watch_rx /\ shown' = shown
           /\ published' = published /\ failures' = failures
           /\ restarts' = restarts
           /\ OnlyWholeLists'
           /\ NothingWithheld'
<1>1. /\ store' = s /\ publish_pending' = (publish_pending \/ s.items # store.items)
      /\ history' = history /\ watch_rx' = watch_rx /\ shown' = shown
      /\ published' = published /\ failures' = failures /\ restarts' = restarts
  BY DEF Processed
<1>2. Had' = Had
  BY <1>1 DEF Had
<1>3. OnlyWholeLists'
  BY <1>1, <1>2 DEF Inv, OnlyWholeLists
<1>4. publish_pending' \in BOOLEAN
  BY <1>1
<1>5. NothingWithheld'
  <2>1. CASE s.items # store.items
    BY <2>1, <1>1 DEF NothingWithheld
  <2>2. CASE s.items = store.items
    <3>1. store'.items = store.items /\ (publish_pending => publish_pending')
      BY <2>2, <1>1
    <3>2. QED
      BY <3>1, <1>1 DEF Inv, NothingWithheld
  <2>3. QED
    BY <2>1, <2>2
<1>6. QED
  BY <1>1, <1>3, <1>4, <1>5

-----------------------------------------------------------------------------
\* Every step keeps the invariant.
LEMMA NextInv == Inv /\ [Next]_vars => Inv'
<1> SUFFICES ASSUME Inv, [Next]_vars PROVE Inv'
  OBVIOUS
<1>t. TypeOK /\ BufferFollows /\ ItemsFollow /\ OnlyWholeLists /\ NothingWithheld
  BY DEF Inv
<1>c. Current \in Lists /\ \A i \in DOMAIN history : history[i] \in Lists
  BY <1>t DEF TypeOK, Current
<1>1. ASSUME NEW uid \in Uids, NEW value \in Values \cup {ABSENT},
             ClusterChanges(uid, value)
      PROVE  Inv'
  <2>1. /\ history' = Append(history, [Current EXCEPT ![uid] = value])
        /\ UNCHANGED <<stream, store, publish_pending, watch_rx, shown, published,
                       failures, restarts>>
    BY <1>1 DEF ClusterChanges
  <2>2. /\ history' \in Seq(Lists) /\ history' # <<>>
        /\ DOMAIN history \subseteq DOMAIN history'
        /\ \A i \in DOMAIN history : history'[i] = history[i]
    BY <2>1, <1>t, HistoryGrows
  <2>3. stream.at \in DOMAIN history /\ history'[stream.at] = history[stream.at]
    BY <2>2, <1>t DEF TypeOK
  <2>4. Had \subseteq Had'
    BY <2>2 DEF Had
  <2>5. TypeOK'
    BY <2>1, <2>2, <1>t DEF TypeOK
  <2>6. BufferFollows' /\ ItemsFollow'
    BY <2>1, <2>3, <1>t DEF BufferFollows, ItemsFollow
  <2>7. OnlyWholeLists' /\ NothingWithheld'
    BY <2>1, <2>4, <1>t DEF OnlyWholeLists, NothingWithheld
  <2>8. QED
    BY <2>5, <2>6, <2>7 DEF Inv
<1>2. CASE StreamInit
  <2> DEFINE s == BeginInit(store)
  <2>1. /\ s \in [items : Lists, init_buffer : Lists]
        /\ s.items = store.items /\ s.init_buffer = Nothing
    BY <1>t, NothingIsList DEF TypeOK, BeginInit
  <2>2. /\ stream' = [stream EXCEPT !.phase = "listing"] /\ Processed(s)
    BY <1>2 DEF StreamInit
  <2>3. s.items \in Had
    BY <2>1, <1>t DEF OnlyWholeLists
  <2>4. /\ store' = s /\ publish_pending' \in BOOLEAN
        /\ history' = history /\ watch_rx' = watch_rx /\ shown' = shown
        /\ published' = published /\ failures' = failures /\ restarts' = restarts
        /\ OnlyWholeLists' /\ NothingWithheld'
    BY <2>1, <2>2, <2>3, ProcessedKeeps
  <2>5. stream'.phase = "listing"
    BY <2>2, <1>t DEF TypeOK
  <2>6. TypeOK'
    BY <2>1, <2>2, <2>4, <1>t DEF TypeOK
  <2>7. BufferFollows' /\ ItemsFollow'
    BY <2>1, <2>4, <2>5 DEF BufferFollows, ItemsFollow, Nothing
  <2>8. QED
    BY <2>4, <2>6, <2>7 DEF Inv
<1>3. ASSUME NEW version \in DOMAIN history, ListAnswered(version)
      PROVE  Inv'
  <2> DEFINE left == {uid \in Uids : history[version][uid] # ABSENT}
  <2>1. /\ stream.phase = "listing"
        /\ stream' = [phase |-> "paging", at |-> version, left |-> left]
        /\ UNCHANGED <<history, store, publish_pending, watch_rx, shown,
                       published, failures, restarts>>
    BY <1>3 DEF ListAnswered
  <2>2. TypeOK'
    BY <2>1, <1>t DEF TypeOK
  <2>3. Nothing = [uid \in Uids |-> IF uid \in left THEN ABSENT
                                    ELSE history[version][uid]]
    BY DEF Nothing
  <2>4. BufferFollows'
    BY <2>1, <2>3, <1>t DEF BufferFollows, Nothing
  <2>5. ItemsFollow'
    BY <2>1 DEF ItemsFollow
  <2>6. OnlyWholeLists' /\ NothingWithheld'
    BY <2>1, <1>t DEF OnlyWholeLists, NothingWithheld, Had, Nothing
  <2>7. QED
    BY <2>2, <2>4, <2>5, <2>6 DEF Inv
<1>4. ASSUME NEW uid \in Uids, StreamInitApply(uid)
      PROVE  Inv'
  <2> DEFINE value == history[stream.at][uid]
             s == ApplyInitPage(store, uid, value)
  <2>1. /\ stream.phase = "paging" /\ uid \in stream.left
        /\ stream' = [stream EXCEPT !.left = @ \ {uid}]
        /\ Processed(s)
    BY <1>4 DEF StreamInitApply
  <2>2. history[stream.at] \in Lists /\ value \in Values \cup {ABSENT}
    BY <1>t, <1>c DEF TypeOK, Lists
  <2>3. /\ s.items = store.items
        /\ s.init_buffer = [store.init_buffer EXCEPT ![uid] = value]
        /\ s \in [items : Lists, init_buffer : Lists]
    BY <2>2, <1>t DEF TypeOK, ApplyInitPage, Lists
  <2>4. /\ store' = s /\ publish_pending' \in BOOLEAN
        /\ history' = history /\ watch_rx' = watch_rx /\ shown' = shown
        /\ published' = published /\ failures' = failures /\ restarts' = restarts
        /\ OnlyWholeLists' /\ NothingWithheld'
    BY <2>1, <2>3, <1>t, ProcessedKeeps DEF OnlyWholeLists
  <2>5. /\ stream'.phase = "paging" /\ stream'.at = stream.at
        /\ stream'.left = stream.left \ {uid}
    BY <2>1, <1>t DEF TypeOK
  <2>6. TypeOK'
    BY <2>1, <2>3, <2>4, <1>t DEF TypeOK
  <2>7. store.init_buffer =
           [other \in Uids |-> IF other \in stream.left THEN ABSENT
                               ELSE history[stream.at][other]]
    BY <2>1, <1>t DEF BufferFollows
  <2>8. s.init_buffer =
           [other \in Uids |-> IF other \in stream.left \ {uid} THEN ABSENT
                               ELSE history[stream.at][other]]
    BY <2>3, <2>7
  <2>9. BufferFollows' /\ ItemsFollow'
    BY <2>4, <2>5, <2>8 DEF BufferFollows, ItemsFollow
  <2>10. QED
    BY <2>4, <2>6, <2>9 DEF Inv
<1>5. CASE StreamInitDone
  <2> DEFINE s == CommitInit(store)
  <2>1. /\ stream.phase = "paging" /\ stream.left = {}
        /\ stream' = [stream EXCEPT !.phase = "watching"]
        /\ Processed(s)
    BY <1>5 DEF StreamInitDone
  <2>2. stream.at \in DOMAIN history /\ history[stream.at] \in Lists
    BY <1>t, <1>c DEF TypeOK
  <2>3. store.init_buffer = history[stream.at]
    BY <2>1, <2>2, <1>t DEF BufferFollows, Lists
  <2>4. /\ s.items = history[stream.at]
        /\ s \in [items : Lists, init_buffer : Lists]
    BY <2>2, <2>3, NothingIsList DEF CommitInit
  <2>5. s.items \in Had
    BY <2>2, <2>4 DEF Had
  <2>6. /\ store' = s /\ publish_pending' \in BOOLEAN
        /\ history' = history /\ watch_rx' = watch_rx /\ shown' = shown
        /\ published' = published /\ failures' = failures /\ restarts' = restarts
        /\ OnlyWholeLists' /\ NothingWithheld'
    BY <2>1, <2>4, <2>5, ProcessedKeeps
  <2>7. stream'.phase = "watching" /\ stream'.at = stream.at
    BY <2>1, <1>t DEF TypeOK
  <2>8. TypeOK'
    BY <2>1, <2>4, <2>6, <1>t DEF TypeOK
  <2>9. BufferFollows' /\ ItemsFollow'
    BY <2>4, <2>6, <2>7 DEF BufferFollows, ItemsFollow
  <2>10. QED
    BY <2>6, <2>8, <2>9 DEF Inv
<1>6. ASSUME NEW uid \in Uids, StreamDelta(uid)
      PROVE  Inv'
  <2> DEFINE next == history[stream.at + 1]
             s == ApplyEvent(store, uid, next[uid])
  <2>1. /\ stream.phase = "watching" /\ stream.at < Len(history)
        /\ \A other \in Uids \ {uid} : next[other] = history[stream.at][other]
        /\ stream' = [stream EXCEPT !.at = @ + 1]
        /\ Processed(s)
    BY <1>6 DEF StreamDelta
  <2>2. stream.at \in DOMAIN history /\ stream.at + 1 \in DOMAIN history
    BY <2>1, <1>t DEF TypeOK
  <2>3. history[stream.at] \in Lists /\ next \in Lists
    BY <2>2, <1>c
  <2>4. store.items = history[stream.at]
    BY <2>1, <1>t DEF ItemsFollow
  <2>5. [store.items EXCEPT ![uid] = next[uid]] = next
    BY <2>1, <2>3, <2>4 DEF Lists
  <2>6. /\ s.items = next
        /\ s \in [items : Lists, init_buffer : Lists]
    BY <2>3, <2>5, <1>t DEF ApplyEvent, TypeOK
  <2>7. s.items \in Had
    BY <2>2, <2>6 DEF Had
  <2>8. /\ store' = s /\ publish_pending' \in BOOLEAN
        /\ history' = history /\ watch_rx' = watch_rx /\ shown' = shown
        /\ published' = published /\ failures' = failures /\ restarts' = restarts
        /\ OnlyWholeLists' /\ NothingWithheld'
    BY <2>1, <2>6, <2>7, ProcessedKeeps
  <2>9. stream'.phase = "watching" /\ stream'.at = stream.at + 1
    BY <2>1, <1>t DEF TypeOK
  <2>10. TypeOK'
    BY <2>1, <2>2, <2>6, <2>8, <1>t DEF TypeOK
  <2>11. BufferFollows' /\ ItemsFollow'
    BY <2>6, <2>8, <2>9 DEF BufferFollows, ItemsFollow
  <2>12. QED
    BY <2>8, <2>10, <2>11 DEF Inv
<1>7. ASSUME NEW relists \in BOOLEAN, StreamFails(relists)
      PROVE  Inv'
  <2>1. /\ stream' = IF relists THEN [stream EXCEPT !.phase = "empty", !.left = {}]
                     ELSE stream
        /\ failures' = failures + 1
        /\ UNCHANGED <<history, store, publish_pending, watch_rx, shown,
                       published, restarts>>
    BY <1>7 DEF StreamFails
  <2>2. TypeOK'
    <3>1. stream' \in [phase : {"empty", "listing", "paging", "watching", "ended"},
                     at : DOMAIN history', left : SUBSET Uids]
      <4>1. CASE relists
        BY <4>1, <2>1, <1>t DEF TypeOK
      <4>2. CASE ~relists
        BY <4>2, <2>1, <1>t DEF TypeOK
      <4>3. QED
        BY <4>1, <4>2
    <3>2. QED
      BY <3>1, <2>1, <1>t DEF TypeOK
  <2>3. stream' = stream \/ stream'.phase = "empty"
    BY <2>1, <1>t DEF TypeOK
  <2>4. BufferFollows' /\ ItemsFollow'
    BY <2>1, <2>3, <1>t DEF BufferFollows, ItemsFollow
  <2>5. OnlyWholeLists' /\ NothingWithheld'
    BY <2>1, <1>t DEF OnlyWholeLists, NothingWithheld, Had
  <2>6. QED
    BY <2>2, <2>4, <2>5 DEF Inv
<1>8. ASSUME Publish, UNCHANGED <<history, store, shown>>
      PROVE  /\ OnlyWholeLists' /\ NothingWithheld'
             /\ watch_rx' \in Seq(Lists) /\ published' \in Lists
  <2>1. watch_rx' = Append(watch_rx, store.items) /\ published' = store.items
    BY <1>8 DEF Publish
  <2>2. Had' = Had
    BY <1>8 DEF Had
  <2>3. store.items \in Lists /\ watch_rx \in Seq(Lists)
    BY <1>t DEF TypeOK
  <2>4. watch_rx' \in Seq(Lists) /\ published' \in Lists
    BY <2>1, <2>3
  <2>5. \A i \in DOMAIN watch_rx' : watch_rx'[i] \in Had
    BY <2>1, <2>3, <1>t DEF OnlyWholeLists
  <2>6. OnlyWholeLists' /\ NothingWithheld'
    BY <1>8, <2>1, <2>2, <2>5, <1>t DEF OnlyWholeLists, NothingWithheld
  <2>7. QED
    BY <2>4, <2>6
<1>9. CASE StreamEnds
  <2>1. /\ stream' = [stream EXCEPT !.phase = "ended"]
        /\ failures' = failures + 1
        /\ publish_pending' = FALSE
        /\ UNCHANGED <<history, store, shown, restarts>>
    BY <1>9 DEF StreamEnds
  <2>2. stream'.phase = "ended" /\ stream'.at = stream.at
    BY <2>1, <1>t DEF TypeOK
  <2>3. BufferFollows' /\ ItemsFollow'
    BY <2>2 DEF BufferFollows, ItemsFollow
  <2>4. /\ OnlyWholeLists' /\ NothingWithheld'
        /\ watch_rx' \in Seq(Lists) /\ published' \in Lists \cup {NIL}
    <3>1. CASE publish_pending
      BY <3>1, <2>1, <1>8, <1>9 DEF StreamEnds
    <3>2. CASE ~publish_pending
      <4>1. UNCHANGED <<watch_rx, published>>
        BY <3>2, <1>9 DEF StreamEnds
      <4>2. QED
        BY <3>2, <4>1, <2>1, <1>t
           DEF OnlyWholeLists, NothingWithheld, Had, TypeOK
    <3>3. QED
      BY <3>1, <3>2
  <2>5. TypeOK'
    <3>1. stream' \in [phase : {"empty", "listing", "paging", "watching", "ended"},
                     at : DOMAIN history', left : SUBSET Uids]
      BY <2>1, <1>t DEF TypeOK
    <3>2. publish_pending' \in BOOLEAN
      BY <2>1
    <3>3. failures' \in Nat
      BY <2>1, <1>t DEF TypeOK
    <3>4. /\ history' \in Seq(Lists) /\ history' # <<>>
          /\ store' \in [items : Lists, init_buffer : Lists]
          /\ shown' \in Lists /\ restarts' \in Nat
      BY <2>1, <1>t, Zenon DEF TypeOK
    <3>5. Lists' = Lists
      BY DEF Lists
    <3>6. QED
      BY <3>1, <3>2, <3>3, <3>4, <3>5, <2>4, Zenon DEF TypeOK
  <2>6. QED
    BY <2>3, <2>4, <2>5 DEF Inv
<1>10. CASE PublishTick
  <2>1. /\ Publish /\ publish_pending' = FALSE
        /\ UNCHANGED <<history, stream, store, shown, failures, restarts>>
    BY <1>10 DEF PublishTick
  <2>2. /\ OnlyWholeLists' /\ NothingWithheld'
        /\ watch_rx' \in Seq(Lists) /\ published' \in Lists
    BY <2>1, <1>8
  <2>3. TypeOK'
    BY <2>1, <2>2, <1>t DEF TypeOK
  <2>4. BufferFollows' /\ ItemsFollow'
    BY <2>1, <1>t DEF BufferFollows, ItemsFollow
  <2>5. QED
    BY <2>2, <2>3, <2>4 DEF Inv
<1>11. CASE Restart
  <2>1. /\ stream' = [phase |-> "empty", at |-> 1, left |-> {}]
        /\ store' = NewStore /\ publish_pending' = FALSE /\ published' = NIL
        /\ restarts' = restarts + 1
        /\ UNCHANGED <<history, watch_rx, shown, failures>>
    BY <1>11 DEF Restart
  <2>2. 1 \in DOMAIN history
    BY <1>t DEF TypeOK
  <2>3. TypeOK'
    <3>1. stream' \in [phase : {"empty", "listing", "paging", "watching", "ended"},
                     at : DOMAIN history', left : SUBSET Uids]
      BY <2>1, <2>2
    <3>2. store' \in [items : Lists', init_buffer : Lists']
      BY <2>1, NothingIsList DEF NewStore, Lists
    <3>3. publish_pending' \in BOOLEAN /\ restarts' \in Nat
      <4>1. publish_pending' \in BOOLEAN
        BY <2>1, Zenon
      <4>2. restarts' \in Nat
        BY <2>1, <1>t DEF TypeOK
      <4>3. QED
        BY <4>1, <4>2
    <3>4. published' \in Lists \cup {NIL}
      BY <2>1
    <3>5. /\ history' \in Seq(Lists) /\ history' # <<>>
          /\ watch_rx' \in Seq(Lists) /\ shown' \in Lists /\ failures' \in Nat
      BY <2>1, <1>t, Zenon DEF TypeOK
    <3>6. Lists' = Lists
      BY DEF Lists
    <3>7. QED
      BY <3>1, <3>2, <3>3, <3>4, <3>5, <3>6, Zenon DEF TypeOK
  <2>4. BufferFollows' /\ ItemsFollow'
    BY <2>1 DEF BufferFollows, ItemsFollow
  <2>5. store'.items = Nothing
    BY <2>1 DEF NewStore
  <2>6. NothingWithheld'
    BY <2>1, <2>5 DEF NothingWithheld, Nothing
  <2>7. Had' = Had /\ Nothing \in Had
    BY <2>1 DEF Had, Nothing
  <2>8. OnlyWholeLists'
    BY <2>1, <2>5, <2>7, <1>t DEF OnlyWholeLists
  <2>9. QED
    BY <2>3, <2>4, <2>6, <2>8 DEF Inv
<1>12. CASE ReceiveUpdate
  <2>1. /\ watch_rx # <<>> /\ shown' = Head(watch_rx) /\ watch_rx' = Tail(watch_rx)
        /\ UNCHANGED <<history, stream, store, publish_pending, published,
                       failures, restarts>>
    BY <1>12 DEF ReceiveUpdate
  <2>2. /\ Head(watch_rx) = watch_rx[1] /\ 1 \in DOMAIN watch_rx
        /\ Tail(watch_rx) \in Seq(Lists)
        /\ Head(watch_rx) \in Lists
    BY <2>1, <1>t DEF TypeOK
  <2>3. \A i \in DOMAIN Tail(watch_rx) :
           i + 1 \in DOMAIN watch_rx /\ Tail(watch_rx)[i] = watch_rx[i + 1]
    BY <2>1, <1>t DEF TypeOK
  <2>4. TypeOK'
    BY <2>1, <2>2, <1>t DEF TypeOK
  <2>5. BufferFollows' /\ ItemsFollow' /\ NothingWithheld'
    BY <2>1, <1>t DEF BufferFollows, ItemsFollow, NothingWithheld
  <2>6. Had' = Had
    BY <2>1 DEF Had
  <2>7. OnlyWholeLists'
    BY <2>1, <2>2, <2>3, <2>6, <1>t DEF OnlyWholeLists
  <2>8. QED
    BY <2>4, <2>5, <2>7 DEF Inv
<1>13. CASE UNCHANGED vars
  BY <1>13, <1>t DEF vars, Inv, TypeOK, BufferFollows, ItemsFollow,
                     OnlyWholeLists, NothingWithheld, Had
<1>14. QED
  BY <1>1, <1>2, <1>3, <1>4, <1>5, <1>6, <1>7, <1>9, <1>10, <1>11, <1>12, <1>13
     DEF Next, StreamStep

-----------------------------------------------------------------------------
\* The invariant holds in every state.
LEMMA SpecInv == Spec => []Inv
BY InitInv, NextInv, PTL DEF Spec

\* The types of the stream, the store and the lists on their way.
THEOREM TypeCorrect == Spec => []TypeOK
BY SpecInv, PTL DEF Inv

\* Whatever is in the store has been sent or is about to be, the empty first
\* list excepted, for any interleaving of ticks, events and restarts.
THEOREM NothingIsWithheld == Spec => []NothingWithheld
BY SpecInv, PTL DEF Inv

\* Every step changes the cluster, shows a list of the history or does neither.
LEMMA StepImplements ==
    Inv /\ [Next]_vars => [Abstract!Next]_<<history, shown>>
<1> SUFFICES ASSUME Inv, [Next]_vars, ~UNCHANGED <<history, shown>>
             PROVE  Abstract!Next
  OBVIOUS
<1>1. ASSUME NEW uid \in Uids, NEW value \in Values \cup {ABSENT},
             ClusterChanges(uid, value)
      PROVE  Abstract!Next
  <2>1. Abstract!Change(uid, value)
    BY <1>1 DEF ClusterChanges, Current, Abstract!Change
  <2>2. QED
    BY <2>1 DEF Abstract!Next
<1>2. CASE ReceiveUpdate
  <2>1. /\ watch_rx # <<>> /\ shown' = Head(watch_rx) /\ UNCHANGED history
    BY <1>2 DEF ReceiveUpdate
  <2>2. /\ Head(watch_rx) = watch_rx[1] /\ 1 \in DOMAIN watch_rx
        /\ Head(watch_rx) \in Lists
    BY <2>1 DEF Inv, TypeOK
  <2>3. Head(watch_rx) \in Had
    BY <2>2 DEF Inv, OnlyWholeLists
  <2>4. Had = Abstract!Had /\ Lists = Abstract!Lists
    BY DEF Had, Lists, Nothing, Abstract!Had, Abstract!Lists, Abstract!Nothing
  <2>5. Abstract!Show(Head(watch_rx)) /\ Head(watch_rx) \in Abstract!Lists
    BY <2>1, <2>2, <2>3, <2>4 DEF Abstract!Show
  <2>6. QED
    BY <2>5 DEF Abstract!Next
<1>3. QED
  BY <1>1, <1>2
     DEF Next, StreamStep, StreamInit, ListAnswered, StreamInitApply,
         StreamInitDone, StreamDelta, Processed, StreamFails, StreamEnds,
         PublishTick, Restart, vars

\* The list shown is always a whole list of the cluster: the watch implements
\* the promise of module PublishedList.
THEOREM WatchImplements == Spec => Implements
<1>1. Init => Abstract!Init
  BY DEF Init, Abstract!Init, Lists, Nothing, Abstract!Lists, Abstract!Nothing
<1>2. QED
  BY <1>1, SpecInv, StepImplements, PTL DEF Spec, Implements, Abstract!Spec

=============================================================================
