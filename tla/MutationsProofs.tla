-------------------------- MODULE MutationsProofs ---------------------------
(***************************************************************************)
(* What holds of background mutations for any resources, any length of the *)
(* history and any number of mutations and switches: the types, that a     *)
(* pending entry is carried by a task, that entries are final, that        *)
(* deletes exclude each other, that node operations are refused only while *)
(* one runs, and that a locked tab is served.                              *)
(*                                                                         *)
(* The invariant has three parts that share the set of tasks: the history, *)
(* the guards and the tabs.                                                *)
(***************************************************************************)
EXTENDS Mutations, TLAPS

HistoryTypeOK ==
    /\ context_generation \in 0..MaxGeneration
    /\ switching \in BOOLEAN
    /\ entries \in Seq(Entry)
    /\ Len(entries) <= MaxEntries
    /\ next_id \in 1..MaxId + 1
    /\ mutations \subseteq Mutation
    /\ verifications \subseteq Verification

\* Ids are drawn once: each belongs to one entry, and to one task or one
\* verification, for which the entry is pending.
IdsInv ==
    /\ \A m \in mutations : m.id < next_id
    /\ \A m, n \in mutations : m.id = n.id => m = n
    /\ \A v \in verifications : v.id < next_id
    /\ \A v, w \in verifications : v.id = w.id => v = w
    /\ \A v \in verifications, m \in mutations : v.id # m.id

EntriesInv ==
    /\ \A i \in DOMAIN entries : entries[i].id < next_id
    /\ \A i, j \in DOMAIN entries : entries[i].id = entries[j].id => i = j
    /\ \A i \in DOMAIN entries, m \in mutations :
          entries[i].id = m.id =>
              entries[i].status = "Pending" /\ entries[i].kind = m.kind
    /\ \A i \in DOMAIN entries, v \in verifications :
          entries[i].id = v.id =>
              entries[i].status = "Pending" /\ entries[i].kind = "flux"

HistoryInv == HistoryTypeOK /\ IdsInv /\ EntriesInv /\ EntriesAreCarried

\* The delete of this generation is the one that is waited for.
DeletesInv ==
    /\ delete_in_flight_id \in Nat \cup {NIL}
    /\ \A m \in mutations : m.generation <= context_generation
    /\ \A m \in mutations :
          (m.kind = "delete" /\ Current(m)) => delete_in_flight_id = m.id

GuardsInv ==
    /\ DeletesInv
    /\ DeletesExclude
    /\ node_op_in_flight \in BOOLEAN
    /\ NodeOpIsCarried

TabsTypeOK ==
    /\ DOMAIN tabs \subseteq TabKey
    /\ tabs \in [DOMAIN tabs -> Tab]
    /\ next_request \in 1..MaxRequest + 1
    /\ inspections \subseteq Inspection

RequestsInv ==
    /\ \A i \in inspections : i.request < next_request
    /\ \A i, j \in inspections : i.request = j.request => i = j
    /\ \A key \in DOMAIN tabs : tabs[key].requested <= context_generation

TabsInv == TabsTypeOK /\ RequestsInv /\ LockedTabsAreServed

MutationsInv == HistoryInv /\ GuardsInv /\ TabsInv

\* One step never unsettles an entry: EntriesAreFinal without the box.
Final ==
    \A i \in DOMAIN entries, j \in DOMAIN entries' :
        (entries[i].id = entries'[j].id /\ entries[i].status # "Pending")
            => entries'[j] = entries[i]

-----------------------------------------------------------------------------
(* The history.                                                            *)

\* A new entry comes first, and the others move down by one, the oldest out.
LEMMA PushedEntries ==
    ASSUME HistoryTypeOK, NEW e \in Entry
    PROVE  /\ Pushed(e) \in Seq(Entry)
           /\ Len(Pushed(e)) <= MaxEntries
           /\ \A i \in DOMAIN Pushed(e) :
                 \/ i = 1 /\ Pushed(e)[i] = e
                 \/ /\ i # 1 /\ i - 1 \in DOMAIN entries
                    /\ Pushed(e)[i] = entries[i - 1]
<1> DEFINE all == <<e>> \o entries
<1>1. /\ entries \in Seq(Entry) /\ MaxEntries \in Nat \ {0}
      /\ all \in Seq(Entry) /\ Len(all) = Len(entries) + 1
  BY EntriesAssumption DEF HistoryTypeOK
<1>2. \A i \in 1..Len(all) :
         \/ i = 1 /\ all[i] = e
         \/ i # 1 /\ i - 1 \in DOMAIN entries /\ all[i] = entries[i - 1]
  BY <1>1
<1>3. CASE Len(all) <= MaxEntries
  BY <1>1, <1>2, <1>3 DEF Pushed, Trim
<1>4. CASE ~(Len(all) <= MaxEntries)
  <2>1. Pushed(e) = SubSeq(all, 1, MaxEntries)
    BY <1>4 DEF Pushed, Trim
  <2> HIDE DEF all
  <2>2. /\ SubSeq(all, 1, MaxEntries) \in Seq(Entry)
        /\ Len(SubSeq(all, 1, MaxEntries)) = MaxEntries
        /\ \A i \in 1..MaxEntries : SubSeq(all, 1, MaxEntries)[i] = all[i]
    BY <1>1, <1>4
  <2>3. 1..MaxEntries \subseteq 1..Len(all)
    BY <1>1, <1>4
  <2>4. QED
    BY <2>1, <2>2, <2>3, <1>1, <1>2
<1>5. QED
  BY <1>3, <1>4

LEMMA StartKeepsHistory ==
    ASSUME HistoryInv, NEW kind \in Kinds, NEW r \in Resources, Start(kind, r),
           UNCHANGED <<session, verifications>>
    PROVE  HistoryInv' /\ Final
<1> DEFINE e == [id |-> next_id, kind |-> kind, status |-> "Pending"]
           m == [id |-> next_id, kind |-> kind, resource |-> r,
                 generation |-> context_generation]
<1>1. /\ next_id \in Nat \ {0} /\ next_id <= MaxId /\ MaxId \in Nat
      /\ MaxGeneration \in Nat /\ context_generation \in Nat
  BY BoundsAssumption DEF HistoryInv, HistoryTypeOK, Start
<1>2. /\ next_id' = next_id + 1
      /\ entries' = Pushed(e)
      /\ mutations' = mutations \cup {m}
      /\ e \in Entry /\ m \in Mutation
  BY <1>1 DEF Start, Entry, Mutation
<1>3. /\ e.id = next_id /\ e.kind = kind /\ e.status = "Pending"
      /\ m.id = next_id /\ m.kind = kind
  OBVIOUS
<1> HIDE DEF e, m
<1>4. /\ entries' \in Seq(Entry) /\ Len(entries') <= MaxEntries
      /\ \A i \in DOMAIN entries' :
            \/ i = 1 /\ entries'[i] = e
            \/ /\ i # 1 /\ i - 1 \in DOMAIN entries
               /\ entries'[i] = entries[i - 1]
  BY <1>2, PushedEntries DEF HistoryInv
<1>5. HistoryTypeOK'
  BY <1>1, <1>2, <1>4 DEF HistoryInv, HistoryTypeOK, session
<1>6. IdsInv'
  <2>1. \A n \in mutations : n.id \in Nat /\ n.id < next_id
    BY DEF HistoryInv, HistoryTypeOK, IdsInv, Mutation
  <2>2. \A v \in verifications : v.id \in Nat /\ v.id < next_id
    BY DEF HistoryInv, HistoryTypeOK, IdsInv, Verification
  <2>3. QED
    BY <2>1, <2>2, <1>1, <1>2, <1>3 DEF HistoryInv, IdsInv
<1>7. /\ \A i \in DOMAIN entries : entries[i].id \in Nat /\ entries[i].id < next_id
      /\ \A i \in DOMAIN entries : i \in Nat
      /\ \A i \in DOMAIN entries' : i \in Nat
  <2>1. entries \in Seq(Entry) /\ \A i \in DOMAIN entries : entries[i] \in Entry
    BY DEF HistoryInv, HistoryTypeOK
  <2>2. DOMAIN entries = 1..Len(entries) /\ DOMAIN entries' = 1..Len(entries')
    BY <2>1, <1>4
  <2>3. \A i \in DOMAIN entries : entries[i].id \in Nat
    BY <2>1 DEF Entry
  <2>4. QED
    BY <2>1, <2>2, <2>3, <1>4 DEF HistoryInv, EntriesInv
<1>8. EntriesInv'
  <2>1. /\ \A n \in mutations : n.id < next_id
        /\ \A v \in verifications : v.id < next_id
        /\ \A v \in verifications : v.id \in Nat
    BY DEF HistoryInv, HistoryTypeOK, IdsInv, Verification
  <2>2. (\A i \in DOMAIN entries : entries[i].id < next_id)'
    BY <1>1, <1>2, <1>3, <1>4, <1>7
  <2>3. (\A i, j \in DOMAIN entries : entries[i].id = entries[j].id => i = j)'
    BY <1>1, <1>3, <1>4, <1>7 DEF HistoryInv, EntriesInv
  <2>4. (\A i \in DOMAIN entries, n \in mutations :
            entries[i].id = n.id =>
                entries[i].status = "Pending" /\ entries[i].kind = n.kind)'
    BY <2>1, <1>1, <1>2, <1>3, <1>4, <1>7 DEF HistoryInv, EntriesInv
  <2>5. (\A i \in DOMAIN entries, v \in verifications :
            entries[i].id = v.id =>
                entries[i].status = "Pending" /\ entries[i].kind = "flux")'
    BY <2>1, <1>1, <1>2, <1>3, <1>4, <1>7 DEF HistoryInv, EntriesInv
  <2>6. QED
    BY <2>2, <2>3, <2>4, <2>5 DEF EntriesInv
<1>9. EntriesAreCarried'
  BY <1>2, <1>3, <1>4 DEF HistoryInv, EntriesAreCarried
<1>10. Final
  <2> SUFFICES ASSUME NEW i \in DOMAIN entries, NEW j \in DOMAIN entries',
                      entries[i].id = entries'[j].id
               PROVE  entries'[j] = entries[i]
    BY DEF Final
  <2>1. entries'[j] # e
    BY <1>1, <1>3, <1>7
  <2>2. j - 1 \in DOMAIN entries /\ entries'[j] = entries[j - 1]
    BY <2>1, <1>4
  <2>3. QED
    BY <2>2 DEF HistoryInv, EntriesInv
<1>11. QED
  BY <1>5, <1>6, <1>8, <1>9, <1>10 DEF HistoryInv

\* What completing entries does to each of them.
LEMMA CompletedEntries ==
    ASSUME HistoryTypeOK, NEW ids, NEW status \in {"Succeeded", "Failed"},
           Complete(ids, status)
    PROVE  /\ entries' \in Seq(Entry) /\ Len(entries') = Len(entries)
           /\ DOMAIN entries' = DOMAIN entries
           /\ \A i \in DOMAIN entries :
                 /\ entries'[i].id = entries[i].id
                 /\ entries'[i].kind = entries[i].kind
                 /\ entries[i].id \in ids => entries'[i].status # "Pending"
                 /\ entries[i].id \notin ids => entries'[i] = entries[i]
<1>1. entries \in Seq(Entry)
  BY DEF HistoryTypeOK
<1>2. \A i \in DOMAIN entries :
         /\ entries[i] \in Entry
         /\ [entries[i] EXCEPT !.status = status] \in Entry
         /\ [entries[i] EXCEPT !.status = status].id = entries[i].id
         /\ [entries[i] EXCEPT !.status = status].kind = entries[i].kind
         /\ [entries[i] EXCEPT !.status = status].status = status
  <2>1. \A i \in DOMAIN entries : entries[i] \in Entry
    BY <1>1
  <2>2. \A e \in Entry :
           /\ [e EXCEPT !.status = status] \in Entry
           /\ [e EXCEPT !.status = status].id = e.id
           /\ [e EXCEPT !.status = status].kind = e.kind
           /\ [e EXCEPT !.status = status].status = status
    BY DEF Entry
  <2>3. QED
    BY <2>1, <2>2
<1>3. /\ entries' = [i \in DOMAIN entries |->
                       IF entries[i].id \in ids
                       THEN [entries[i] EXCEPT !.status = status] ELSE entries[i]]
      /\ DOMAIN entries = 1..Len(entries)
  BY <1>1 DEF Complete
<1>4. \A i \in DOMAIN entries : entries'[i] \in Entry
  BY <1>2, <1>3
<1>5. entries' \in Seq(Entry) /\ Len(entries') = Len(entries)
  BY <1>1, <1>3, <1>4
<1>6. QED
  BY <1>2, <1>3, <1>5

\* Completing the entries of tasks and verifications that go away.
LEMMA CompletingKeepsHistory ==
    ASSUME HistoryInv, NEW ids, NEW status \in {"Succeeded", "Failed"},
           Complete(ids, status),
           mutations' \subseteq mutations, verifications' \subseteq verifications,
           \A m \in mutations : m.id \notin ids => m \in mutations',
           \A m \in mutations' : m.id \notin ids,
           \A v \in verifications' : v.id \notin ids,
           \A id \in ids : \/ \E m \in mutations : m.id = id
                           \/ \E v \in verifications : v.id = id,
           UNCHANGED <<session, next_id>>
    PROVE  HistoryInv' /\ Final
<1>1. /\ entries' \in Seq(Entry) /\ Len(entries') = Len(entries)
      /\ DOMAIN entries' = DOMAIN entries
      /\ \A i \in DOMAIN entries :
            /\ entries'[i].id = entries[i].id
            /\ entries'[i].kind = entries[i].kind
            /\ entries[i].id \in ids => entries'[i].status # "Pending"
            /\ entries[i].id \notin ids => entries'[i] = entries[i]
  BY CompletedEntries DEF HistoryInv
<1>2. HistoryTypeOK'
  BY <1>1 DEF HistoryInv, HistoryTypeOK, session
<1>3. IdsInv'
  BY DEF HistoryInv, IdsInv
<1>4. EntriesInv'
  BY <1>1 DEF HistoryInv, EntriesInv
<1>5. EntriesAreCarried'
  BY <1>1 DEF HistoryInv, EntriesAreCarried
<1>6. Final
  BY <1>1 DEF HistoryInv, EntriesInv, Final
<1>7. QED
  BY <1>2, <1>3, <1>4, <1>5, <1>6 DEF HistoryInv

\* A task whose result is received, with an entry completed.
LEMMA ReceivingKeepsHistory ==
    ASSUME HistoryInv, NEW m \in mutations, mutations' = mutations \ {m},
           NEW ok, Complete({m.id}, Outcome(ok)),
           UNCHANGED <<session, next_id, verifications>>
    PROVE  HistoryInv' /\ Final
<1>1. Outcome(ok) \in {"Succeeded", "Failed"}
  BY DEF Outcome
<1>2. \A n \in mutations : n.id \notin {m.id} <=> n \in mutations'
  BY DEF HistoryInv, IdsInv
<1>3. \A v \in verifications : v.id \notin {m.id}
  BY DEF HistoryInv, IdsInv
<1>4. QED
  BY <1>1, <1>2, <1>3, CompletingKeepsHistory

LEMMA ReconcileKeepsHistory ==
    ASSUME HistoryInv, NEW m \in mutations, NEW ok, ReceiveReconcile(m, ok)
    PROVE  HistoryInv' /\ Final
<1> USE DEF ReceiveReconcile
<1>1. CASE ok /\ Current(m)
  <2> DEFINE v == [id |-> m.id, resource |-> m.resource]
  <2>1. /\ v \in Verification /\ v.id = m.id
        /\ verifications' \subseteq verifications \cup {v}
        /\ m.id < next_id
    BY <1>1 DEF HistoryInv, HistoryTypeOK, IdsInv, Mutation, Verification
  <2> HIDE DEF v
  <2>2. HistoryTypeOK'
    BY <1>1, <2>1 DEF HistoryInv, HistoryTypeOK, session
  <2>3. IdsInv'
    BY <1>1, <2>1 DEF HistoryInv, IdsInv
  <2>4. EntriesInv'
    BY <1>1, <2>1 DEF HistoryInv, EntriesInv
  <2>5. EntriesAreCarried'
    BY <1>1 DEF HistoryInv, EntriesInv, EntriesAreCarried
  <2>6. Final
    BY <1>1 DEF HistoryInv, EntriesInv, Final
  <2>7. QED
    BY <2>2, <2>3, <2>4, <2>5, <2>6 DEF HistoryInv
<1>2. CASE ~(ok /\ Current(m))
  <2>1. Complete({m.id}, Outcome(FALSE))
    BY <1>2 DEF Outcome
  <2>2. QED
    BY <1>2, <2>1, ReceivingKeepsHistory
<1>3. QED
  BY <1>1, <1>2

LEMMA VerifyingKeepsHistory ==
    ASSUME HistoryInv, NEW done \in SUBSET verifications, ProcessVerifications(done)
    PROVE  HistoryInv' /\ Final
<1> DEFINE ids == {v.id : v \in done}
<1> USE DEF ProcessVerifications
<1>1. \A m \in mutations : m.id \notin ids /\ m \in mutations'
  BY DEF HistoryInv, IdsInv
<1>2. \A v \in verifications' : v.id \notin ids
  BY DEF HistoryInv, IdsInv
<1>3. \A id \in ids : \E v \in verifications : v.id = id
  OBVIOUS
<1>4. mutations' = mutations /\ verifications' \subseteq verifications
  OBVIOUS
<1>5. Complete(ids, "Succeeded") /\ UNCHANGED <<session, next_id>>
  OBVIOUS
<1> HIDE DEF ids
<1>6. QED
  BY <1>1, <1>2, <1>3, <1>4, <1>5, CompletingKeepsHistory

\* Steps that leave the history, but for the verifications they may drop.
LEMMA OtherStepsKeepHistory ==
    ASSUME HistoryInv, UNCHANGED <<entries, next_id, mutations>>,
           verifications' \subseteq verifications,
           context_generation' \in 0..MaxGeneration, switching' \in BOOLEAN
    PROVE  HistoryInv' /\ Final
<1>1. HistoryTypeOK' /\ IdsInv' /\ EntriesInv'
  BY DEF HistoryInv, HistoryTypeOK, IdsInv, EntriesInv
<1>2. EntriesAreCarried' /\ Final
  BY DEF HistoryInv, EntriesAreCarried, EntriesInv, Final
<1>3. QED
  BY <1>1, <1>2 DEF HistoryInv

-----------------------------------------------------------------------------
(* The guards.                                                             *)

\* What a mutation that is started adds to the tasks.
LEMMA StartedTask ==
    ASSUME HistoryInv, NEW kind \in Kinds, NEW r \in Resources, Start(kind, r)
    PROVE  \E m \in Mutation :
              /\ m.id = next_id /\ m.kind = kind /\ m.resource = r
              /\ m.generation = context_generation
              /\ mutations' = mutations \cup {m}
<1>1. next_id \in Nat /\ context_generation \in Nat
  BY BoundsAssumption DEF HistoryInv, HistoryTypeOK
<1>2. QED
  BY <1>1 DEF Start, Mutation

\* Tasks of other kinds come and go, and a delete that is not waited for ends.
LEMMA OtherTasksKeepGuards ==
    ASSUME GuardsInv, UNCHANGED <<guards, context_generation>>,
           context_generation \in Nat,
           \A m \in mutations' : m \notin mutations =>
               m.kind \notin {"delete", "node"} /\ m.generation = context_generation,
           \A m \in mutations : m \notin mutations' => m.kind # "node"
    PROVE  GuardsInv'
<1>1. DeletesInv'
  BY DEF GuardsInv, DeletesInv, Current, guards
<1>2. DeletesExclude'
  BY DEF GuardsInv, DeletesExclude
<1>3. NodeOpIsCarried' /\ (node_op_in_flight \in BOOLEAN)'
  BY DEF GuardsInv, NodeOpIsCarried, guards
<1>4. QED
  BY <1>1, <1>2, <1>3 DEF GuardsInv

LEMMA StartKeepsGuards ==
    ASSUME HistoryInv, GuardsInv, NEW kind \in Kinds \ {"delete", "node"},
           NEW r \in Resources, Start(kind, r), UNCHANGED <<session, guards>>
    PROVE  GuardsInv'
<1>1. context_generation \in Nat
  BY BoundsAssumption DEF HistoryInv, HistoryTypeOK
<1>2. PICK m \in Mutation :
         /\ m.kind = kind /\ m.generation = context_generation
         /\ mutations' = mutations \cup {m}
  BY StartedTask
<1>3. QED
  BY <1>1, <1>2, OtherTasksKeepGuards DEF session

LEMMA DeleteKeepsGuards ==
    ASSUME HistoryInv, GuardsInv, NEW r \in Resources, DeleteResource(r)
    PROVE  GuardsInv'
<1> USE DEF DeleteResource, session
<1>1. context_generation \in Nat /\ next_id \in Nat
  BY BoundsAssumption DEF HistoryInv, HistoryTypeOK
<1>2. PICK m \in Mutation :
         /\ m.id = next_id /\ m.kind = "delete"
         /\ m.generation = context_generation
         /\ mutations' = mutations \cup {m}
  BY StartedTask DEF Kinds
<1>3. \A n \in mutations : n.kind = "delete" => n.generation # context_generation
  <2>1. \A n \in mutations : n.id # NIL
    BY NilAssumption DEF HistoryInv, HistoryTypeOK, Mutation
  <2>2. QED
    BY <2>1 DEF GuardsInv, DeletesInv, Current
<1>4. DeletesInv'
  BY <1>1, <1>2, <1>3 DEF GuardsInv, DeletesInv, Current
<1>5. DeletesExclude'
  BY <1>2, <1>3 DEF GuardsInv, DeletesExclude
<1>6. NodeOpIsCarried' /\ (node_op_in_flight \in BOOLEAN)'
  BY <1>2 DEF GuardsInv, NodeOpIsCarried
<1>7. QED
  BY <1>4, <1>5, <1>6 DEF GuardsInv

LEMMA NodeOpKeepsGuards ==
    ASSUME HistoryInv, GuardsInv, NEW r \in Resources, NodeOp(r)
    PROVE  GuardsInv'
<1> USE DEF NodeOp, session
<1>1. context_generation \in Nat
  BY BoundsAssumption DEF HistoryInv, HistoryTypeOK
<1>2. PICK m \in Mutation :
         /\ m.kind = "node" /\ m.generation = context_generation
         /\ mutations' = mutations \cup {m}
  BY StartedTask DEF Kinds
<1>3. DeletesInv'
  BY <1>1, <1>2 DEF GuardsInv, DeletesInv, Current
<1>4. DeletesExclude'
  BY <1>2 DEF GuardsInv, DeletesExclude
<1>5. NodeOpIsCarried' /\ (node_op_in_flight \in BOOLEAN)'
  BY <1>2 DEF NodeOpIsCarried
<1>6. QED
  BY <1>3, <1>4, <1>5 DEF GuardsInv

LEMMA ReceiveDeleteKeepsGuards ==
    ASSUME HistoryInv, GuardsInv, NEW m \in mutations, NEW ok, ReceiveDelete(m, ok)
    PROVE  GuardsInv'
<1> USE DEF ReceiveDelete, session
<1>1. DeletesInv'
  BY DEF HistoryInv, IdsInv, GuardsInv, DeletesInv, Current
<1>2. DeletesExclude'
  BY DEF GuardsInv, DeletesExclude
<1>3. NodeOpIsCarried' /\ (node_op_in_flight \in BOOLEAN)'
  BY DEF GuardsInv, NodeOpIsCarried
<1>4. QED
  BY <1>1, <1>2, <1>3 DEF GuardsInv

LEMMA ReceiveNodeOpKeepsGuards ==
    ASSUME GuardsInv, NEW m \in mutations, NEW ok, ReceiveNodeOp(m, ok)
    PROVE  GuardsInv'
BY DEF ReceiveNodeOp, session, GuardsInv, DeletesInv, Current, DeletesExclude,
       NodeOpIsCarried

\* A new generation has no task yet, so that the guards may be dropped or kept.
LEMMA InvalidateKeepsGuards ==
    ASSUME HistoryInv, GuardsInv, Invalidate, mutations' = mutations,
           \/ UNCHANGED guards
           \/ delete_in_flight_id' = NIL /\ node_op_in_flight' = FALSE
    PROVE  GuardsInv'
<1>1. \A m \in mutations :
         m.generation # context_generation' /\ m.generation <= context_generation'
  <2>1. /\ context_generation \in Nat
        /\ \A m \in mutations : m.generation \in Nat
    BY BoundsAssumption DEF HistoryInv, HistoryTypeOK, Mutation
  <2>2. QED
    BY <2>1 DEF Invalidate, GuardsInv, DeletesInv
<1>2. DeletesInv'
  <2>1. delete_in_flight_id' \in Nat \cup {NIL}
    BY DEF GuardsInv, DeletesInv, guards
  <2>2. QED
    BY <1>1, <2>1 DEF DeletesInv, Current
<1>3. DeletesExclude'
  BY DEF GuardsInv, DeletesExclude
<1>4. NodeOpIsCarried' /\ (node_op_in_flight \in BOOLEAN)'
  <2>1. CASE UNCHANGED guards
    BY <2>1 DEF GuardsInv, NodeOpIsCarried, guards
  <2>2. CASE node_op_in_flight' = FALSE
    BY <2>2, Zenon DEF NodeOpIsCarried
  <2>3. QED
    BY <2>1, <2>2
<1>5. QED
  BY <1>2, <1>3, <1>4 DEF GuardsInv

-----------------------------------------------------------------------------
(* The tabs.                                                               *)

\* What a request adds to the inspections.
LEMMA RequestedInspection ==
    ASSUME TabsInv, context_generation \in Nat, NEW key \in TabKey,
           RequestInspection(key)
    PROVE  /\ next_request \in Nat
           /\ next_request' \in 1..MaxRequest + 1
           /\ next_request' = next_request + 1
           /\ \E i \in Inspection :
                 /\ i.key = key /\ i.request = next_request
                 /\ i.generation = context_generation
                 /\ inspections' = inspections \cup {i}
<1>1. next_request \in Nat /\ next_request' \in 1..MaxRequest + 1
  BY BoundsAssumption DEF TabsInv, TabsTypeOK, RequestInspection
<1>2. QED
  BY <1>1 DEF RequestInspection, Inspection

\* What a refresh does to a tab.
LEMMA RefreshedTabs ==
    ASSUME NEW ts, DOMAIN ts \subseteq TabKey, ts \in [DOMAIN ts -> Tab],
           next_request \in Nat, context_generation \in Nat, NEW key
    PROVE  /\ DOMAIN Refreshed(ts, key) = DOMAIN ts
           /\ Refreshed(ts, key) \in [DOMAIN ts -> Tab]
           /\ \A k \in DOMAIN ts :
                 /\ Refreshed(ts, key)[k].lock = ts[k].lock
                 /\ k # key => Refreshed(ts, key)[k] = ts[k]
                 /\ k = key =>
                       /\ Refreshed(ts, key)[k].request = next_request
                       /\ Refreshed(ts, key)[k].requested = context_generation
<1>1. \A tab \in Tab :
         LET new == [tab EXCEPT !.request = next_request,
                                !.requested = context_generation]
         IN  /\ new \in Tab /\ new.lock = tab.lock
             /\ new.request = next_request /\ new.requested = context_generation
  BY DEF Tab
<1>2. QED
  BY <1>1 DEF Refreshed

\* What unlocking does to a tab.
LEMMA UnlockedTabs ==
    ASSUME TabsTypeOK, NEW key, NEW id
    PROVE  /\ DOMAIN Unlocked(key, id) = DOMAIN tabs
           /\ Unlocked(key, id) \in [DOMAIN tabs -> Tab]
           /\ \A k \in DOMAIN tabs :
                 /\ Unlocked(key, id)[k].request = tabs[k].request
                 /\ Unlocked(key, id)[k].requested = tabs[k].requested
                 /\ Unlocked(key, id)[k].lock \in {tabs[k].lock, NIL}
                 /\ (k = key /\ tabs[k].lock = id) => Unlocked(key, id)[k].lock = NIL
<1>1. \A tab \in Tab :
         LET new == [tab EXCEPT !.lock = NIL]
         IN  /\ new \in Tab /\ new.lock = NIL /\ new.request = tab.request
             /\ new.requested = tab.requested
  BY DEF Tab
<1>2. QED
  BY <1>1 DEF Unlocked, TabsTypeOK

\* A tab is served by the tasks of its mutation and of its inspection.
ServedBy(key, tab) ==
    tab.lock # NIL =>
        \/ \E m \in mutations :
              m.id = tab.lock /\ key = <<m.kind, m.resource>>
        \/ /\ tab.request # NIL
           /\ tab.requested = context_generation =>
                 \E i \in inspections :
                    i.key = key /\ i.request = tab.request /\ Current(i)

LEMMA TabsAreServed ==
    LockedTabsAreServed <=> \A key \in DOMAIN tabs : ServedBy(key, tabs[key])
BY DEF LockedTabsAreServed, ServedBy

\* The tabs and the inspections stay; tasks that no tab waits for go.
LEMMA OtherTasksKeepTabs ==
    ASSUME TabsInv, UNCHANGED <<views, context_generation>>,
           \A m \in mutations : m \notin mutations' => m.kind \notin TabKinds
    PROVE  TabsInv'
<1>1. TabsTypeOK' /\ RequestsInv'
  BY DEF TabsInv, TabsTypeOK, RequestsInv, views
<1>2. ASSUME NEW key \in DOMAIN tabs, NEW m \in mutations,
             key = <<m.kind, m.resource>>
      PROVE  m \in mutations'
  <2>1. key \in TabKinds \X Resources
    BY DEF TabsInv, TabsTypeOK, TabKey
  <2>2. m.kind \in TabKinds
    BY <1>2, <2>1
  <2>3. QED
    BY <2>2
<1>3. LockedTabsAreServed'
  BY <1>2 DEF TabsInv, LockedTabsAreServed, views, Current
<1>4. QED
  BY <1>1, <1>3 DEF TabsInv

\* A mutation locks its tab while it runs.
LEMMA LockingKeepsTabs ==
    ASSUME HistoryInv, TabsInv, NEW kind \in TabKinds, NEW r \in Resources,
           Start(kind, r), tabs' = Locked(<<kind, r>>),
           UNCHANGED <<session, next_request, inspections>>
    PROVE  TabsInv'
<1> DEFINE key == <<kind, r>>
<1>0. kind \in Kinds
  BY DEF Kinds
<1>1. PICK m \in Mutation :
         /\ m.id = next_id /\ m.kind = kind /\ m.resource = r
         /\ mutations' = mutations \cup {m}
  <2> HIDE DEF key
  <2>1. QED
    BY <1>0, StartedTask
<1>2. next_id \in Nat
  BY DEF HistoryInv, HistoryTypeOK
<1>3. \A tab \in Tab :
         LET new == [tab EXCEPT !.lock = next_id]
         IN  /\ new \in Tab /\ new.lock = next_id
             /\ new.request = tab.request /\ new.requested = tab.requested
  BY <1>2 DEF Tab
<1>4. /\ DOMAIN tabs' = DOMAIN tabs
      /\ tabs' \in [DOMAIN tabs -> Tab]
      /\ \A k \in DOMAIN tabs :
            /\ tabs'[k].requested = tabs[k].requested
            /\ k = key => tabs'[k].lock = next_id
            /\ k # key => tabs'[k] = tabs[k]
  BY <1>3 DEF Locked, TabsInv, TabsTypeOK
<1>5. TabsTypeOK' /\ RequestsInv'
  BY <1>4 DEF TabsInv, TabsTypeOK, RequestsInv, session
<1>6. ASSUME NEW k \in DOMAIN tabs' PROVE ServedBy(k, tabs[k])'
  <2>1. CASE k = key
    BY <1>1, <1>4, <2>1 DEF ServedBy
  <2>2. CASE k # key
    <3>1. ServedBy(k, tabs[k])
      BY <1>4, TabsAreServed DEF TabsInv
    <3>2. QED
      BY <1>1, <1>4, <2>2, <3>1 DEF ServedBy, session, Current
  <2>3. QED
    BY <2>1, <2>2
<1>7. LockedTabsAreServed'
  BY <1>6 DEF LockedTabsAreServed, ServedBy
<1>8. QED
  BY <1>5, <1>7 DEF TabsInv

\* A tab is refreshed, and the task of its mutation may end.
LEMMA RefreshingKeepsTabs ==
    ASSUME HistoryInv, TabsInv, NEW key \in TabKey, NEW ts,
           DOMAIN ts = DOMAIN tabs, ts \in [DOMAIN ts -> Tab],
           \A k \in DOMAIN tabs : k # key => ts[k] = tabs[k],
           RequestInspection(key), tabs' = Refreshed(ts, key),
           \A m \in mutations : m \notin mutations' => <<m.kind, m.resource>> = key,
           UNCHANGED context_generation
    PROVE  TabsInv'
<1>1. context_generation \in Nat
  BY BoundsAssumption DEF HistoryInv, HistoryTypeOK
<1>2. /\ next_request \in Nat /\ next_request' \in 1..MaxRequest + 1
      /\ next_request' = next_request + 1
  BY <1>1, RequestedInspection
<1>3. PICK i \in Inspection :
         /\ i.key = key /\ i.request = next_request
         /\ i.generation = context_generation
         /\ inspections' = inspections \cup {i}
  BY <1>1, RequestedInspection
<1>4. /\ DOMAIN tabs' = DOMAIN tabs
      /\ tabs' \in [DOMAIN tabs -> Tab]
      /\ \A k \in DOMAIN tabs :
            /\ k # key => tabs'[k] = tabs[k]
            /\ k = key => /\ tabs'[k].request = next_request
                          /\ tabs'[k].requested = context_generation
  BY <1>1, <1>2, RefreshedTabs DEF TabsInv, TabsTypeOK
<1>5. TabsTypeOK'
  BY <1>2, <1>3, <1>4 DEF TabsInv, TabsTypeOK
<1>6. RequestsInv'
  <2>1. \A j \in inspections : j.request \in Nat /\ j.request < next_request
    BY DEF TabsInv, TabsTypeOK, RequestsInv, Inspection
  <2>2. QED
    BY <1>1, <1>2, <1>3, <1>4, <2>1 DEF TabsInv, RequestsInv
<1>7. ASSUME NEW k \in DOMAIN tabs' PROVE ServedBy(k, tabs[k])'
  <2>1. CASE k = key
    <3>1. next_request # NIL
      BY <1>2, NilAssumption
    <3>2. QED
      BY <1>3, <1>4, <2>1, <3>1 DEF ServedBy, Current
  <2>2. CASE k # key
    <3>1. ServedBy(k, tabs[k])
      BY <1>4, TabsAreServed DEF TabsInv
    <3>2. QED
      BY <1>3, <1>4, <2>2, <3>1 DEF ServedBy, Current
  <2>3. QED
    BY <2>1, <2>2
<1>8. LockedTabsAreServed'
  BY <1>7 DEF LockedTabsAreServed, ServedBy
<1>9. QED
  BY <1>5, <1>6, <1>8 DEF TabsInv

\* A mutation ends and unlocks its tab, unless a later one has locked it anew.
LEMMA UnlockingKeepsTabs ==
    ASSUME HistoryInv, TabsInv, NEW m \in mutations, mutations' = mutations \ {m},
           tabs' = Unlocked(<<m.kind, m.resource>>, m.id),
           UNCHANGED <<context_generation, next_request, inspections>>
    PROVE  TabsInv'
<1> DEFINE key == <<m.kind, m.resource>>
<1>1. /\ DOMAIN tabs' = DOMAIN tabs
      /\ tabs' \in [DOMAIN tabs -> Tab]
      /\ \A k \in DOMAIN tabs :
            /\ tabs'[k].request = tabs[k].request
            /\ tabs'[k].requested = tabs[k].requested
            /\ tabs'[k].lock \in {tabs[k].lock, NIL}
            /\ (k = key /\ tabs[k].lock = m.id) => tabs'[k].lock = NIL
  BY UnlockedTabs DEF TabsInv
<1>2. TabsTypeOK' /\ RequestsInv'
  BY <1>1 DEF TabsInv, TabsTypeOK, RequestsInv
<1>3. ASSUME NEW k \in DOMAIN tabs' PROVE ServedBy(k, tabs[k])'
  <2>1. ServedBy(k, tabs[k])
    BY <1>1, TabsAreServed DEF TabsInv
  <2>2. ASSUME tabs'[k].lock # NIL, NEW n \in mutations, n.id = tabs[k].lock,
               k = <<n.kind, n.resource>>
        PROVE  n \in mutations' /\ n.id = tabs'[k].lock
    BY <1>1, <2>2
  <2>3. QED
    BY <1>1, <2>1, <2>2 DEF ServedBy, Current
<1>4. LockedTabsAreServed'
  BY <1>3 DEF LockedTabsAreServed, ServedBy
<1>5. QED
  BY <1>2, <1>4 DEF TabsInv

LEMMA ReceiveRolloutKeepsTabs ==
    ASSUME HistoryInv, TabsInv, NEW m \in mutations, NEW ok, ReceiveRollout(m, ok)
    PROVE  TabsInv'
<1> DEFINE key == <<"rollout", m.resource>>
           succeeded == ok /\ Current(m)
<1>1. /\ m.kind = "rollout" /\ mutations' = mutations \ {m}
      /\ UNCHANGED context_generation
      /\ m.resource \in Resources /\ key = <<m.kind, m.resource>>
  BY DEF ReceiveRollout, session, HistoryInv, HistoryTypeOK, Mutation
<1>2. key \in TabKey
  BY <1>1 DEF TabKey, TabKinds
<1>3. CASE /\ succeeded /\ key \in DOMAIN tabs
           /\ tabs' = Refreshed(tabs, key) /\ RequestInspection(key)
  <2>1. /\ DOMAIN tabs = DOMAIN tabs /\ tabs \in [DOMAIN tabs -> Tab]
        /\ \A n \in mutations : n \notin mutations' => <<n.kind, n.resource>> = key
    BY <1>1 DEF TabsInv, TabsTypeOK
  <2> HIDE DEF key, succeeded
  <2>2. QED
    BY <1>1, <1>2, <1>3, <2>1, RefreshingKeepsTabs
<1>4. CASE /\ succeeded => key \notin DOMAIN tabs
           /\ tabs' = IF succeeded THEN tabs ELSE Unlocked(key, m.id)
           /\ UNCHANGED <<next_request, inspections>>
  <2>1. key \notin DOMAIN tabs => Unlocked(key, m.id) = tabs
    BY DEF Unlocked, TabsInv, TabsTypeOK
  <2>2. tabs' = Unlocked(key, m.id)
    BY <1>4, <2>1
  <2>3. QED
    BY <1>1, <1>4, <2>2, UnlockingKeepsTabs
<1>5. QED
  BY <1>3, <1>4 DEF ReceiveRollout

LEMMA ReceiveRollbackKeepsTabs ==
    ASSUME HistoryInv, TabsInv, NEW m \in mutations, NEW ok, ReceiveRollback(m, ok)
    PROVE  TabsInv'
<1> DEFINE key == <<"helm", m.resource>>
           succeeded == ok /\ Current(m)
           unlocked == Unlocked(key, m.id)
<1>1. /\ m.kind = "helm" /\ mutations' = mutations \ {m}
      /\ UNCHANGED context_generation
      /\ m.resource \in Resources /\ key = <<m.kind, m.resource>>
  BY DEF ReceiveRollback, session, HistoryInv, HistoryTypeOK, Mutation
<1>2. key \in TabKey
  BY <1>1 DEF TabKey, TabKinds
<1>3. CASE tabs' = Refreshed(unlocked, key) /\ RequestInspection(key)
  <2>1. /\ DOMAIN unlocked = DOMAIN tabs /\ unlocked \in [DOMAIN unlocked -> Tab]
    BY UnlockedTabs DEF TabsInv
  <2>2. \A k \in DOMAIN tabs : k # key => unlocked[k] = tabs[k]
    BY DEF Unlocked
  <2>3. \A n \in mutations : n \notin mutations' => <<n.kind, n.resource>> = key
    BY <1>1
  <2> HIDE DEF key, unlocked
  <2>4. QED
    BY <1>1, <1>2, <1>3, <2>1, <2>2, <2>3, RefreshingKeepsTabs
<1>4. CASE tabs' = unlocked /\ UNCHANGED <<next_request, inspections>>
  BY <1>1, <1>4, UnlockingKeepsTabs
<1>5. QED
  BY <1>3, <1>4 DEF ReceiveRollback

LEMMA OpenTabKeepsTabs ==
    ASSUME HistoryInv, TabsInv, NEW key \in TabKey, OpenTab(key)
    PROVE  TabsInv'
<1> USE DEF OpenTab, session
<1>1. CASE key \in DOMAIN tabs
  <2>1. tabs \in [DOMAIN tabs -> Tab]
    BY DEF TabsInv, TabsTypeOK
  <2>2. tabs' = Refreshed(tabs, key) /\ RequestInspection(key)
    BY <1>1
  <2>3. UNCHANGED <<mutations, context_generation>>
    OBVIOUS
  <2>4. QED
    BY <2>1, <2>2, <2>3, RefreshingKeepsTabs DEF TabsInv
<1>2. CASE key \notin DOMAIN tabs
  <2> DEFINE tab == [lock |-> NIL, request |-> next_request, loaded |-> FALSE,
                     requested |-> context_generation]
  <2>1. context_generation \in Nat
    BY BoundsAssumption DEF HistoryInv, HistoryTypeOK
  <2>2. /\ next_request \in Nat /\ next_request' \in 1..MaxRequest + 1
        /\ next_request' = next_request + 1
    BY <2>1, RequestedInspection
  <2>3. PICK i \in Inspection :
           /\ i.request = next_request
           /\ inspections' = inspections \cup {i}
    BY <2>1, RequestedInspection
  <2>4. tab \in Tab /\ tab.lock = NIL /\ tab.requested = context_generation
    BY <2>1, <2>2 DEF Tab
  <2>5. tabs' = [k \in DOMAIN tabs \cup {key} |-> IF k = key THEN tab ELSE tabs[k]]
    BY <1>2
  <2> HIDE DEF tab
  <2>6. /\ DOMAIN tabs' = DOMAIN tabs \cup {key}
        /\ tabs'[key] = tab
        /\ \A k \in DOMAIN tabs : tabs'[k] = tabs[k]
    BY <1>2, <2>5
  <2>7. TabsTypeOK'
    BY <2>2, <2>3, <2>4, <2>5 DEF TabsInv, TabsTypeOK
  <2>8. RequestsInv'
    <3>1. \A j \in inspections : j.request \in Nat /\ j.request < next_request
      BY DEF TabsInv, TabsTypeOK, RequestsInv, Inspection
    <3>2. QED
      BY <2>1, <2>2, <2>3, <2>4, <2>6, <3>1 DEF TabsInv, RequestsInv
  <2>9. ASSUME NEW k \in DOMAIN tabs' PROVE ServedBy(k, tabs[k])'
    <3>1. CASE k = key
      BY <2>4, <2>6, <3>1 DEF ServedBy
    <3>2. CASE k # key
      <4>1. k \in DOMAIN tabs /\ ServedBy(k, tabs[k])
        BY <2>6, <3>2, TabsAreServed DEF TabsInv
      <4>2. QED
        BY <2>3, <2>6, <4>1 DEF ServedBy, Current
    <3>3. QED
      BY <3>1, <3>2
  <2>10. LockedTabsAreServed'
    BY <2>9 DEF LockedTabsAreServed, ServedBy
  <2>11. QED
    BY <2>7, <2>8, <2>10 DEF TabsInv
<1>3. QED
  BY <1>1, <1>2

\* Some tabs are closed, all of them when the generation moves on.
LEMMA ClosingKeepsTabs ==
    ASSUME TabsInv, UNCHANGED <<mutations, next_request, inspections>>,
           \/ UNCHANGED context_generation /\ \E key : tabs' = [k \in DOMAIN tabs \ {key} |-> tabs[k]]
           \/ tabs' = NoTabs
    PROVE  TabsInv'
<1>1. CASE UNCHANGED context_generation
           /\ \E key : tabs' = [k \in DOMAIN tabs \ {key} |-> tabs[k]]
  <2>1. PICK key : tabs' = [k \in DOMAIN tabs \ {key} |-> tabs[k]]
    BY <1>1
  <2>2. TabsTypeOK' /\ RequestsInv'
    BY <1>1, <2>1 DEF TabsInv, TabsTypeOK, RequestsInv
  <2>3. LockedTabsAreServed'
    BY <1>1, <2>1 DEF TabsInv, LockedTabsAreServed, Current
  <2>4. QED
    BY <2>2, <2>3 DEF TabsInv
<1>2. CASE tabs' = NoTabs
  <2>1. TabsTypeOK'
    BY <1>2 DEF TabsInv, TabsTypeOK, NoTabs
  <2>2. RequestsInv' /\ LockedTabsAreServed'
    BY <1>2 DEF TabsInv, RequestsInv, LockedTabsAreServed, NoTabs
  <2>3. QED
    BY <2>1, <2>2 DEF TabsInv
<1>3. QED
  BY <1>1, <1>2

LEMMA InspectionKeepsTabs ==
    ASSUME TabsInv, NEW i \in inspections, NEW ok \in BOOLEAN, ReceiveInspection(i, ok)
    PROVE  TabsInv'
<1> USE DEF ReceiveInspection, session
<1>1. \A tab \in Tab :
         LET new == [tab EXCEPT !.lock = NIL, !.request = NIL, !.loaded = ok]
         IN  new \in Tab /\ new.lock = NIL /\ new.requested = tab.requested
  BY DEF Tab
<1>2. /\ DOMAIN tabs' = DOMAIN tabs
      /\ tabs' \in [DOMAIN tabs -> Tab]
      /\ \A k \in DOMAIN tabs :
            /\ tabs'[k].requested = tabs[k].requested
            /\ \/ tabs'[k].lock = NIL
               \/ /\ tabs'[k] = tabs[k]
                  /\ ~(k = i.key /\ tabs[k].request = i.request /\ Current(i))
  BY <1>1 DEF TabsInv, TabsTypeOK
<1>3. TabsTypeOK' /\ RequestsInv'
  BY <1>2 DEF TabsInv, TabsTypeOK, RequestsInv
<1>4. ASSUME NEW k \in DOMAIN tabs' PROVE ServedBy(k, tabs[k])'
  <2>1. ServedBy(k, tabs[k])
    BY <1>2, TabsAreServed DEF TabsInv
  <2>2. QED
    BY <1>2, <2>1 DEF ServedBy, Current
<1>5. LockedTabsAreServed'
  BY <1>4 DEF LockedTabsAreServed, ServedBy
<1>6. QED
  BY <1>3, <1>5 DEF TabsInv

\* A new generation waits for no inspection that was requested before.
LEMMA NewGenerationKeepsTabs ==
    ASSUME HistoryInv, TabsInv, Invalidate, UNCHANGED <<mutations, views>>
    PROVE  TabsInv'
<1>1. context_generation \in Nat /\ context_generation' = context_generation + 1
  BY BoundsAssumption DEF HistoryInv, HistoryTypeOK, Invalidate
<1>2. \A key \in DOMAIN tabs :
         /\ tabs[key].requested \in Nat
         /\ tabs[key].requested <= context_generation
  BY DEF TabsInv, TabsTypeOK, RequestsInv, Tab
<1>3. TabsTypeOK' /\ RequestsInv'
  BY <1>1, <1>2 DEF TabsInv, TabsTypeOK, RequestsInv, views
<1>4. ASSUME NEW k \in DOMAIN tabs PROVE ServedBy(k, tabs[k])'
  <2>1. ServedBy(k, tabs[k])
    BY TabsAreServed DEF TabsInv
  <2>2. tabs[k].lock # NIL /\ tabs[k].request = NIL =>
           \E m \in mutations : m.id = tabs[k].lock /\ k = <<m.kind, m.resource>>
    BY <2>1 DEF ServedBy
  <2>3. tabs'[k].requested # context_generation'
    BY <1>1, <1>2 DEF views
  <2>4. QED
    BY <2>2, <2>3 DEF ServedBy, views
<1>5. LockedTabsAreServed'
  BY <1>4 DEF LockedTabsAreServed, ServedBy, views
<1>6. QED
  BY <1>3, <1>5 DEF TabsInv

-----------------------------------------------------------------------------
(* All steps.                                                              *)

LEMMA InitEstablishes == Init => MutationsInv
<1> SUFFICES ASSUME Init PROVE MutationsInv
  OBVIOUS
<1>1. HistoryInv
  <2>1. switching \in BOOLEAN
    BY Zenon DEF Init
  <2>2. HistoryTypeOK
    BY <2>1, BoundsAssumption, EntriesAssumption DEF Init, HistoryTypeOK
  <2>3. IdsInv /\ EntriesInv /\ EntriesAreCarried
    BY DEF Init, IdsInv, EntriesInv, EntriesAreCarried
  <2>4. QED
    BY <2>2, <2>3 DEF HistoryInv
<1>2. GuardsInv
  <2>1. node_op_in_flight \in BOOLEAN /\ NodeOpIsCarried
    BY Zenon DEF Init, NodeOpIsCarried
  <2>2. DeletesInv /\ DeletesExclude
    BY DEF Init, DeletesInv, DeletesExclude
  <2>3. QED
    BY <2>1, <2>2 DEF GuardsInv
<1>3. TabsInv
  BY BoundsAssumption
     DEF Init, TabsInv, TabsTypeOK, RequestsInv, LockedTabsAreServed, NoTabs
<1>4. QED
  BY <1>1, <1>2, <1>3 DEF MutationsInv

LEMMA StartsKeepInv ==
    ASSUME MutationsInv, NEW r \in Resources, Starts(r)
    PROVE  MutationsInv' /\ Final
<1> USE DEF MutationsInv
<1>1. {"update", "delete", "node", "flux", "rollout", "helm"} \subseteq Kinds
  BY DEF Kinds, TabKinds
<1>2. CASE Update(r)
  <2>1. Start("update", r) /\ UNCHANGED <<session, guards, views, verifications>>
    BY <1>2 DEF Update
  <2>2. \E m \in Mutation : mutations' = mutations \cup {m}
    BY <1>1, <2>1, StartedTask
  <2>3. TabsInv'
    BY <2>1, <2>2, OtherTasksKeepTabs DEF session
  <2>4. QED
    BY <1>1, <2>1, <2>3, StartKeepsHistory, StartKeepsGuards
<1>3. CASE FluxReconcile(r)
  <2>1. Start("flux", r) /\ UNCHANGED <<session, guards, views, verifications>>
    BY <1>3 DEF FluxReconcile
  <2>2. \E m \in Mutation : mutations' = mutations \cup {m}
    BY <1>1, <2>1, StartedTask
  <2>3. TabsInv'
    BY <2>1, <2>2, OtherTasksKeepTabs DEF session
  <2>4. QED
    BY <1>1, <2>1, <2>3, StartKeepsHistory, StartKeepsGuards
<1>4. CASE DeleteResource(r)
  <2>1. Start("delete", r) /\ UNCHANGED <<session, views, verifications>>
    BY <1>4 DEF DeleteResource
  <2>2. \E m \in Mutation : mutations' = mutations \cup {m}
    BY <1>1, <2>1, StartedTask
  <2>3. TabsInv'
    BY <2>1, <2>2, OtherTasksKeepTabs DEF session
  <2>4. QED
    BY <1>1, <1>4, <2>1, <2>3, StartKeepsHistory, DeleteKeepsGuards
<1>5. CASE NodeOp(r)
  <2>1. Start("node", r) /\ UNCHANGED <<session, views, verifications>>
    BY <1>5 DEF NodeOp
  <2>2. \E m \in Mutation : mutations' = mutations \cup {m}
    BY <1>1, <2>1, StartedTask
  <2>3. TabsInv'
    BY <2>1, <2>2, OtherTasksKeepTabs DEF session
  <2>4. QED
    BY <1>1, <1>5, <2>1, <2>3, StartKeepsHistory, NodeOpKeepsGuards
<1>6. CASE RolloutMutation(r)
  <2>1. /\ Start("rollout", r) /\ tabs' = Locked(<<"rollout", r>>)
        /\ UNCHANGED <<session, guards, next_request, inspections, verifications>>
    BY <1>6 DEF RolloutMutation
  <2>2. "rollout" \in TabKinds /\ "rollout" \in Kinds \ {"delete", "node"}
    BY <1>1 DEF TabKinds
  <2>3. QED
    BY <2>1, <2>2, StartKeepsHistory, StartKeepsGuards, LockingKeepsTabs
<1>7. CASE HelmRollback(r)
  <2>1. /\ Start("helm", r) /\ tabs' = Locked(<<"helm", r>>)
        /\ UNCHANGED <<session, guards, next_request, inspections, verifications>>
    BY <1>7 DEF HelmRollback
  <2>2. "helm" \in TabKinds /\ "helm" \in Kinds \ {"delete", "node"}
    BY <1>1 DEF TabKinds
  <2>3. QED
    BY <2>1, <2>2, StartKeepsHistory, StartKeepsGuards, LockingKeepsTabs
<1>8. QED
  BY <1>2, <1>3, <1>4, <1>5, <1>6, <1>7 DEF Starts

LEMMA ReceivesKeepInv ==
    ASSUME MutationsInv, NEW m \in mutations, NEW ok \in BOOLEAN, Receives(m, ok)
    PROVE  MutationsInv' /\ Final
<1> USE DEF MutationsInv
<1>1. context_generation \in Nat
  BY BoundsAssumption DEF HistoryInv, HistoryTypeOK
<1>2. CASE ReceiveUpdate(m, ok)
  <2>1. /\ m.kind = "update" /\ mutations' = mutations \ {m}
        /\ Complete({m.id}, Outcome(ok /\ Current(m)))
        /\ UNCHANGED <<session, next_id, guards, views, verifications>>
    BY <1>2 DEF ReceiveUpdate
  <2>2. GuardsInv'
    BY <1>1, <2>1, OtherTasksKeepGuards DEF session
  <2>3. TabsInv'
    BY <2>1, OtherTasksKeepTabs DEF session, TabKinds
  <2>4. QED
    BY <2>1, <2>2, <2>3, ReceivingKeepsHistory
<1>3. CASE ReceiveDelete(m, ok)
  <2>1. /\ m.kind = "delete" /\ mutations' = mutations \ {m}
        /\ Complete({m.id}, Outcome(ok /\ Current(m) /\ delete_in_flight_id = m.id))
        /\ UNCHANGED <<session, next_id, views, verifications>>
    BY <1>3 DEF ReceiveDelete
  <2>2. TabsInv'
    BY <2>1, OtherTasksKeepTabs DEF session, TabKinds
  <2>3. QED
    BY <1>3, <2>1, <2>2, ReceivingKeepsHistory, ReceiveDeleteKeepsGuards
<1>4. CASE ReceiveNodeOp(m, ok)
  <2>1. /\ m.kind = "node" /\ mutations' = mutations \ {m}
        /\ Complete({m.id}, Outcome(ok /\ Current(m)))
        /\ UNCHANGED <<session, next_id, views, verifications>>
    BY <1>4 DEF ReceiveNodeOp
  <2>2. TabsInv'
    BY <2>1, OtherTasksKeepTabs DEF session, TabKinds
  <2>3. QED
    BY <1>4, <2>1, <2>2, ReceivingKeepsHistory, ReceiveNodeOpKeepsGuards
<1>5. CASE ReceiveReconcile(m, ok)
  <2>1. /\ m.kind = "flux" /\ mutations' = mutations \ {m}
        /\ UNCHANGED <<session, guards, views>>
    BY <1>5 DEF ReceiveReconcile
  <2>2. GuardsInv'
    BY <1>1, <2>1, OtherTasksKeepGuards DEF session
  <2>3. TabsInv'
    BY <2>1, OtherTasksKeepTabs DEF session, TabKinds
  <2>4. QED
    BY <1>5, <2>2, <2>3, ReconcileKeepsHistory
<1>6. CASE ReceiveRollout(m, ok)
  <2>1. /\ m.kind = "rollout" /\ mutations' = mutations \ {m}
        /\ Complete({m.id}, Outcome(ok /\ Current(m)))
        /\ UNCHANGED <<session, next_id, guards, verifications>>
    BY <1>6 DEF ReceiveRollout
  <2>2. GuardsInv'
    BY <1>1, <2>1, OtherTasksKeepGuards DEF session
  <2>3. QED
    BY <1>6, <2>1, <2>2, ReceivingKeepsHistory, ReceiveRolloutKeepsTabs
<1>7. CASE ReceiveRollback(m, ok)
  <2>1. /\ m.kind = "helm" /\ mutations' = mutations \ {m}
        /\ Complete({m.id}, Outcome(ok /\ Current(m)))
        /\ UNCHANGED <<session, next_id, guards, verifications>>
    BY <1>7 DEF ReceiveRollback
  <2>2. GuardsInv'
    BY <1>1, <2>1, OtherTasksKeepGuards DEF session
  <2>3. QED
    BY <1>7, <2>1, <2>2, ReceivingKeepsHistory, ReceiveRollbackKeepsTabs
<1>8. QED
  BY <1>2, <1>3, <1>4, <1>5, <1>6, <1>7 DEF Receives

LEMMA TabStepsKeepInv ==
    ASSUME MutationsInv,
           \/ \E key \in TabKey : OpenTab(key)
           \/ \E key \in DOMAIN tabs : CloseTab(key)
           \/ \E i \in inspections, ok \in BOOLEAN : ReceiveInspection(i, ok)
           \/ ApplyWorkspace
    PROVE  MutationsInv' /\ Final
<1> USE DEF MutationsInv
<1>1. UNCHANGED <<session, entries, next_id, mutations, guards, verifications>>
  BY DEF OpenTab, CloseTab, ReceiveInspection, ApplyWorkspace
<1>2. HistoryInv' /\ Final
  <2>1. context_generation' \in 0..MaxGeneration /\ switching' \in BOOLEAN
    BY <1>1 DEF HistoryInv, HistoryTypeOK, session
  <2>2. QED
    BY <1>1, <2>1, OtherStepsKeepHistory
<1>3. GuardsInv'
  BY <1>1, BoundsAssumption, OtherTasksKeepGuards
     DEF session, HistoryInv, HistoryTypeOK
<1>4. TabsInv'
  <2>1. CASE \E key \in TabKey : OpenTab(key)
    BY <2>1, OpenTabKeepsTabs
  <2>2. CASE \E key \in DOMAIN tabs : CloseTab(key)
    <3>1. \E key : tabs' = [k \in DOMAIN tabs \ {key} |-> tabs[k]]
      BY <2>2 DEF CloseTab
    <3>2. UNCHANGED <<mutations, next_request, inspections, context_generation>>
      BY <2>2 DEF CloseTab, session
    <3>3. QED
      BY <3>1, <3>2, ClosingKeepsTabs
  <2>3. CASE \E i \in inspections, ok \in BOOLEAN : ReceiveInspection(i, ok)
    BY <2>3, InspectionKeepsTabs
  <2>4. CASE ApplyWorkspace
    BY <2>4, ClosingKeepsTabs DEF ApplyWorkspace
  <2>5. QED
    BY <2>1, <2>2, <2>3, <2>4
<1>5. QED
  BY <1>2, <1>3, <1>4

\* Switches of the namespace or the context, and their end.
LEMMA SwitchesKeepInv ==
    ASSUME MutationsInv,
           \/ SelectNamespace
           \/ SelectContext
           \/ ContextSwitchSucceeds
           \/ ContextSwitchFails
    PROVE  MutationsInv' /\ Final
<1> USE DEF MutationsInv
<1>1. /\ UNCHANGED <<entries, next_id, mutations, next_request, inspections>>
      /\ verifications' \subseteq verifications
  BY DEF SelectNamespace, SelectContext, ContextSwitchSucceeds,
         ContextSwitchFails, views
<1>2. HistoryInv' /\ Final
  <2>1. /\ context_generation \in 0..MaxGeneration /\ MaxGeneration \in Nat
        /\ switching \in BOOLEAN
    BY BoundsAssumption DEF HistoryInv, HistoryTypeOK
  <2>2. context_generation' \in 0..MaxGeneration
    BY <2>1 DEF SelectNamespace, SelectContext, ContextSwitchSucceeds,
                ContextSwitchFails, Invalidate
  <2>3. switching' \in BOOLEAN
    BY <2>1, Zenon DEF SelectNamespace, SelectContext, ContextSwitchSucceeds,
                       ContextSwitchFails
  <2>4. QED
    BY <1>1, <2>2, <2>3, OtherStepsKeepHistory
<1>3. CASE ContextSwitchFails
  <2>1. UNCHANGED <<context_generation, guards, views>>
    BY <1>3 DEF ContextSwitchFails
  <2>2. context_generation \in Nat
    BY BoundsAssumption DEF HistoryInv, HistoryTypeOK
  <2>3. QED
    BY <1>1, <1>2, <2>1, <2>2, OtherTasksKeepGuards, OtherTasksKeepTabs
<1>4. CASE SelectNamespace \/ SelectContext \/ ContextSwitchSucceeds
  <2>1. /\ Invalidate
        /\ \/ UNCHANGED guards
           \/ delete_in_flight_id' = NIL /\ node_op_in_flight' = FALSE
        /\ tabs' = NoTabs \/ tabs' = tabs
    BY <1>4 DEF SelectNamespace, SelectContext, ContextSwitchSucceeds
  <2>2. GuardsInv'
    BY <1>1, <2>1, InvalidateKeepsGuards
  <2>3. TabsInv'
    BY <1>1, <2>1, ClosingKeepsTabs, NewGenerationKeepsTabs DEF views
  <2>4. QED
    BY <1>2, <2>2, <2>3
<1>5. QED
  BY <1>3, <1>4

LEMMA NextKeepsInv == MutationsInv /\ [Next]_vars => MutationsInv' /\ Final
<1> SUFFICES ASSUME MutationsInv, [Next]_vars PROVE MutationsInv' /\ Final
  OBVIOUS
<1>1. CASE \E r \in Resources : Starts(r)
  BY <1>1, StartsKeepInv
<1>2. CASE \E m \in mutations, ok \in BOOLEAN : Receives(m, ok)
  BY <1>2, ReceivesKeepInv
<1>3. CASE \E done \in SUBSET verifications : ProcessVerifications(done)
  <2>1. UNCHANGED <<session, mutations, guards, views>>
    BY <1>3 DEF ProcessVerifications
  <2>2. context_generation \in Nat
    BY BoundsAssumption DEF MutationsInv, HistoryInv, HistoryTypeOK
  <2>3. GuardsInv' /\ TabsInv'
    BY <2>1, <2>2, OtherTasksKeepGuards, OtherTasksKeepTabs DEF MutationsInv, session
  <2>4. QED
    BY <1>3, <2>3, VerifyingKeepsHistory DEF MutationsInv
<1>4. CASE \/ \E key \in TabKey : OpenTab(key)
           \/ \E key \in DOMAIN tabs : CloseTab(key)
           \/ \E i \in inspections, ok \in BOOLEAN : ReceiveInspection(i, ok)
           \/ ApplyWorkspace
  BY <1>4, TabStepsKeepInv
<1>5. CASE SelectNamespace \/ SelectContext \/ ContextSwitchSucceeds
           \/ ContextSwitchFails
  BY <1>5, SwitchesKeepInv
<1>6. CASE UNCHANGED vars
  <2>1. /\ UNCHANGED <<context_generation, switching, entries, next_id, mutations,
                       guards, views, verifications>>
    BY <1>6 DEF vars, guards, views
  <2>2. HistoryInv' /\ Final
    BY <2>1, OtherStepsKeepHistory DEF MutationsInv, HistoryInv, HistoryTypeOK
  <2>3. GuardsInv' /\ TabsInv'
    BY <2>1, BoundsAssumption, OtherTasksKeepGuards, OtherTasksKeepTabs
       DEF MutationsInv, HistoryInv, HistoryTypeOK
  <2>4. QED
    BY <2>2, <2>3 DEF MutationsInv
<1>7. QED
  BY <1>1, <1>2, <1>3, <1>4, <1>5, <1>6 DEF Next

LEMMA MutationsAreSound == Spec => []MutationsInv
BY InitEstablishes, NextKeepsInv, PTL DEF Spec

-----------------------------------------------------------------------------
\* The variables have their types: in particular the history keeps its limit.
THEOREM MutationsTypeCorrect == Spec => []MutationsTypeOK
<1>1. MutationsInv => MutationsTypeOK
  BY DEF MutationsInv, HistoryInv, HistoryTypeOK, GuardsInv, DeletesInv, TabsInv,
         TabsTypeOK, MutationsTypeOK
<1>2. QED
  BY <1>1, MutationsAreSound, PTL

\* A pending entry of the history always has a task that will settle it.
THEOREM PendingEntriesSettle == Spec => []EntriesAreCarried
<1>1. MutationsInv => EntriesAreCarried
  BY DEF MutationsInv, HistoryInv
<1>2. QED
  BY <1>1, MutationsAreSound, PTL

\* At most one delete runs in a generation.
THEOREM OneDeleteAtATime == Spec => []DeletesExclude
<1>1. MutationsInv => DeletesExclude
  BY DEF MutationsInv, GuardsInv
<1>2. QED
  BY <1>1, MutationsAreSound, PTL

\* The guard of the node operations is up only while one runs.
THEOREM NodeOpsAreNotBlocked == Spec => []NodeOpIsCarried
<1>1. MutationsInv => NodeOpIsCarried
  BY DEF MutationsInv, GuardsInv
<1>2. QED
  BY <1>1, MutationsAreSound, PTL

\* A locked tab waits for a mutation or an inspection that will unlock it.
THEOREM LocksAreServed == Spec => []LockedTabsAreServed
<1>1. MutationsInv => LockedTabsAreServed
  BY DEF MutationsInv, TabsInv
<1>2. QED
  BY <1>1, MutationsAreSound, PTL

\* An entry that is settled keeps its status.
THEOREM HistoryIsFinal == Spec => EntriesAreFinal
<1> DEFINE A == \A i \in DOMAIN entries, j \in DOMAIN entries' :
                   (entries[i].id = entries'[j].id /\ entries[i].status # "Pending")
                       => entries'[j] = entries[i]
<1>1. MutationsInv /\ [Next]_vars => A
  BY NextKeepsInv DEF Final
<1>2. MutationsInv /\ [Next]_vars => [A]_vars
  BY <1>1
<1>3. QED
  BY <1>2, MutationsAreSound, PTL DEF Spec, EntriesAreFinal

-----------------------------------------------------------------------------
(* The history keeps what ActionHistory promises.                          *)

\* What the abstract history says of the new one, for the entries as they are.
LEMMA PushedIsRecorded ==
    ASSUME HistoryTypeOK, NEW kind \in Kinds
    PROVE  Pushed([id |-> next_id, kind |-> kind, status |-> "Pending"])
              = Abstract!Recorded(kind)
<1> DEFINE e == [id |-> next_id, kind |-> kind, status |-> "Pending"]
           n == IF Len(entries) + 1 < MaxEntries THEN Len(entries) + 1 ELSE MaxEntries
<1>1. /\ entries \in Seq(Entry) /\ Len(entries) \in Nat /\ MaxEntries \in Nat \ {0}
      /\ e \in Entry /\ next_id \in Nat /\ next_id - 1 + 1 = next_id
  BY BoundsAssumption, EntriesAssumption DEF HistoryTypeOK, Entry
<1>2. Len(Pushed(e)) = n
  <2> DEFINE all == <<e>> \o entries
  <2>1. all \in Seq(Entry) /\ Len(all) = Len(entries) + 1
    BY <1>1
  <2>2. CASE Len(all) <= MaxEntries
    BY <1>1, <2>1, <2>2 DEF Pushed, Trim
  <2>3. CASE ~(Len(all) <= MaxEntries)
    <3>1. Pushed(e) = SubSeq(all, 1, MaxEntries)
      BY <2>3 DEF Pushed, Trim
    <3> HIDE DEF all
    <3>2. Len(SubSeq(all, 1, MaxEntries)) = MaxEntries
      BY <1>1, <2>1, <2>3
    <3>3. QED
      BY <1>1, <2>1, <2>3, <3>1, <3>2
  <2>4. QED
    BY <2>2, <2>3
<1>3. Abstract!Recorded(kind) = [i \in 1..n |-> IF i = 1 THEN e ELSE entries[i - 1]]
  BY <1>1 DEF Abstract!Recorded, Abstract!Shown
<1> HIDE DEF e
<1>4. /\ Pushed(e) \in Seq(Entry)
      /\ \A i \in 1..n : Pushed(e)[i] = IF i = 1 THEN e ELSE entries[i - 1]
  BY <1>1, <1>2, PushedEntries
<1>5. Pushed(e) = [i \in 1..n |-> IF i = 1 THEN e ELSE entries[i - 1]]
  BY <1>2, <1>4
<1>6. QED
  BY <1>3, <1>5 DEF e

LEMMA StartStarts ==
    ASSUME MutationsInv, NEW r \in Resources, Starts(r)
    PROVE  Abstract!Next
<1>1. PICK kind \in Kinds : Start(kind, r) /\ UNCHANGED session
  BY Zenon DEF Starts, Update, DeleteResource, NodeOp, FluxReconcile, RolloutMutation,
         HelmRollback, Kinds, TabKinds
<1>2. /\ next_id \in Nat /\ next_id' = next_id + 1
      /\ next_id - 1 + 1 = next_id /\ next_id' - 1 = next_id
  BY <1>1, BoundsAssumption DEF MutationsInv, HistoryInv, HistoryTypeOK, Start
<1>3. entries' = Abstract!Recorded(kind)
  BY <1>1, PushedIsRecorded DEF Start, MutationsInv, HistoryInv
<1>4. Tasks' = Tasks \cup {[id |-> next_id - 1 + 1, stale |-> FALSE]}
  <2>1. PICK new : new = [id |-> next_id, kind |-> kind, resource |-> r,
                          generation |-> context_generation]
    OBVIOUS
  <2>2. mutations' = mutations \cup {new} /\ context_generation' = context_generation
    BY <1>1, <2>1 DEF Start, session
  <2>3. new.id = next_id /\ new.generation = context_generation'
    BY <2>1, <2>2
  <2>4. Running(new)' = [id |-> next_id, stale |-> FALSE]
    <3>1. (~Current(new))' = FALSE
      BY <2>3 DEF Current
    <3>2. QED
      BY <2>3, <3>1, Zenon DEF Running
  <2>5. \A m : Running(m)' = Running(m)
    BY <2>2 DEF Running, Current
  <2>6. Tasks' = Tasks \cup {[id |-> next_id, stale |-> FALSE]}
    BY <2>2, <2>4, <2>5 DEF Tasks
  <2>7. QED
    BY <1>2, <2>6
<1>5. Abstract!Start
  BY <1>2, <1>3, <1>4 DEF Abstract!Start
<1>6. QED
  BY <1>5 DEF Abstract!Next

\* A task that leaves, for a result of which the histories agree.
LEMMA TaskLeaves ==
    ASSUME MutationsInv, NEW m \in mutations, mutations' = mutations \ {m},
           UNCHANGED <<session, next_id>>
    PROVE  /\ Running(m) \in Tasks
           /\ Tasks' = Tasks \ {Running(m)}
           /\ next_id' - 1 = next_id - 1
<1>1. \A n \in mutations : Running(n) = Running(m) => n = m
  BY DEF MutationsInv, HistoryInv, IdsInv, Running
<1>2. \A n : Running(n)' = Running(n)
  BY DEF Running, Current, session
<1>3. QED
  BY <1>1, <1>2 DEF Tasks

LEMMA ResultEnds ==
    ASSUME MutationsInv, NEW m \in mutations, mutations' = mutations \ {m},
           NEW ok, Complete({m.id}, Outcome(ok)), ok => Current(m),
           UNCHANGED <<session, next_id>>
    PROVE  Abstract!Next
<1> DEFINE r == Running(m)
<1>1. r.id = m.id /\ (r.stale <=> ~Current(m))
  BY DEF Running
<1>2. Outcome(ok) \in {"Succeeded", "Failed"} /\ (Outcome(ok) = "Succeeded" => ~r.stale)
  BY <1>1 DEF Outcome
<1>3. \A i \in DOMAIN entries : entries[i].id = r.id => entries[i].status = "Pending"
  BY <1>1 DEF MutationsInv, HistoryInv, EntriesInv
<1>4. entries' = [i \in DOMAIN entries |->
                     IF entries[i].id = r.id
                     THEN Abstract!Settled(entries[i], Outcome(ok)) ELSE entries[i]]
  BY <1>1 DEF Complete, Abstract!Settled
<1> HIDE DEF r
<1>5. Abstract!End(r, Outcome(ok))
  BY <1>2, <1>3, <1>4 DEF Abstract!End
<1>6. Abstract!Answer(r) /\ r \in Tasks
  BY <1>2, <1>5, TaskLeaves DEF Abstract!Answer, r
<1>7. QED
  BY <1>6 DEF Abstract!Next

LEMMA ReconcileIsAccepted ==
    ASSUME MutationsInv, NEW m \in mutations, m.kind = "flux", Current(m),
           mutations' = mutations \ {m}, UNCHANGED <<session, next_id, entries>>
    PROVE  Abstract!Next
<1>1. Running(m).id = m.id /\ ~Running(m).stale
  BY DEF Running
<1>2. \A i \in DOMAIN entries : entries[i].id = m.id => entries[i].kind \in {"flux"}
  BY DEF MutationsInv, HistoryInv, EntriesInv
<1>3. Abstract!Accept(Running(m))
  BY <1>1, <1>2 DEF Abstract!Accept
<1>4. Abstract!Answer(Running(m)) /\ Running(m) \in Tasks
  BY <1>3, TaskLeaves DEF Abstract!Answer
<1>5. QED
  BY <1>4 DEF Abstract!Next

LEMMA ReceiveAnswers ==
    ASSUME MutationsInv, NEW m \in mutations, NEW ok \in BOOLEAN, Receives(m, ok)
    PROVE  Abstract!Next
<1>1. CASE ReceiveUpdate(m, ok) \/ ReceiveNodeOp(m, ok)
  BY <1>1, ResultEnds DEF ReceiveUpdate, ReceiveNodeOp
<1>2. CASE ReceiveDelete(m, ok)
  <2>1. Complete({m.id}, Outcome(ok /\ Current(m) /\ delete_in_flight_id = m.id))
    BY <1>2 DEF ReceiveDelete
  <2>2. QED
    BY <1>2, <2>1, ResultEnds DEF ReceiveDelete
<1>3. CASE ReceiveRollout(m, ok) \/ ReceiveRollback(m, ok)
  BY <1>3, ResultEnds DEF ReceiveRollout, ReceiveRollback
<1>4. CASE ReceiveReconcile(m, ok)
  <2>1. CASE ok /\ Current(m)
    BY <1>4, <2>1, ReconcileIsAccepted DEF ReceiveReconcile
  <2>2. CASE ~(ok /\ Current(m))
    <3>1. Complete({m.id}, Outcome(FALSE))
      BY <1>4, <2>2 DEF ReceiveReconcile, Outcome
    <3>2. QED
      BY <1>4, <3>1, ResultEnds DEF ReceiveReconcile
  <2>3. QED
    BY <2>1, <2>2
<1>5. QED
  BY <1>1, <1>2, <1>3, <1>4 DEF Receives

\* Steps that leave the tasks and their generation alone.
LEMMA TasksStay ==
    ASSUME UNCHANGED <<mutations, context_generation>>
    PROVE  Tasks' = Tasks
<1>1. \A m : Running(m)' = Running(m)
  BY DEF Running, Current
<1>2. QED
  BY <1>1 DEF Tasks

LEMMA VerifyingFollows ==
    ASSUME MutationsInv, NEW done \in SUBSET verifications, ProcessVerifications(done)
    PROVE  Abstract!Next
<1> DEFINE ids == {v.id : v \in done}
<1>1. /\ Complete(ids, "Succeeded")
      /\ UNCHANGED <<mutations, session, next_id>>
  BY DEF ProcessVerifications
<1>2. \A id \in ids : \E v \in verifications : v.id = id
  OBVIOUS
<1> HIDE DEF ids
<1>3. Tasks' = Tasks
  BY <1>1, TasksStay DEF session
<1>4. ASSUME NEW i \in DOMAIN entries, entries[i].id \in ids
      PROVE  /\ entries[i].kind \in {"flux"} /\ entries[i].status = "Pending"
             /\ \A r \in Tasks : r.id # entries[i].id
  <2>1. PICK v \in verifications : v.id = entries[i].id
    BY <1>2, <1>4
  <2>2. \A m \in mutations : m.id # entries[i].id
    BY <2>1 DEF MutationsInv, HistoryInv, IdsInv
  <2>3. QED
    BY <2>1, <2>2 DEF MutationsInv, HistoryInv, EntriesInv, Tasks, Running
<1>5. /\ DOMAIN entries' = DOMAIN entries
      /\ \A i \in DOMAIN entries :
            entries'[i] = IF entries[i].id \in ids
                          THEN Abstract!Settled(entries[i], "Succeeded") ELSE entries[i]
  BY <1>1 DEF Complete, Abstract!Settled
<1>6. Abstract!Follow
  BY <1>1, <1>3, <1>4, <1>5 DEF Abstract!Follow
<1>7. QED
  BY <1>6 DEF Abstract!Next

LEMMA SwitchSwitches ==
    ASSUME MutationsInv, Invalidate, UNCHANGED <<entries, next_id, mutations>>
    PROVE  Abstract!Next
<1>1. context_generation \in Nat /\ context_generation' = context_generation + 1
  BY BoundsAssumption DEF MutationsInv, HistoryInv, HistoryTypeOK, Invalidate
<1>2. \A m \in mutations : m.generation \in Nat /\ m.generation <= context_generation
  BY DEF MutationsInv, HistoryInv, HistoryTypeOK, GuardsInv, DeletesInv, Mutation
<1>3. ASSUME NEW m \in mutations
      PROVE  Running(m)' = [id |-> m.id, stale |-> TRUE]
  <2>1. (~Current(m))' = TRUE
    BY <1>1, <1>2 DEF Current
  <2>2. QED
    BY <2>1, Zenon DEF Running
<1>4. \A m : Running(m).id = m.id
  BY DEF Running
<1>5. Tasks' = {[id |-> r.id, stale |-> TRUE] : r \in Tasks}
  <2>1. Tasks' = {[id |-> m.id, stale |-> TRUE] : m \in mutations}
    BY <1>3 DEF Tasks
  <2>2. {[id |-> r.id, stale |-> TRUE] : r \in Tasks}
           = {[id |-> m.id, stale |-> TRUE] : m \in mutations}
    BY <1>4 DEF Tasks
  <2>3. QED
    BY <2>1, <2>2
<1>6. Abstract!Switch
  BY <1>5 DEF Abstract!Switch
<1>7. QED
  BY <1>6 DEF Abstract!Next

LEMMA StepKeepsPromise ==
    ASSUME MutationsInv, [Next]_vars
    PROVE  [Abstract!Next]_(Abstract!vars)
<1>1. CASE \E r \in Resources : Starts(r)
  BY <1>1, StartStarts
<1>2. CASE \E m \in mutations, ok \in BOOLEAN : Receives(m, ok)
  BY <1>2, ReceiveAnswers
<1>3. CASE \E done \in SUBSET verifications : ProcessVerifications(done)
  BY <1>3, VerifyingFollows
<1>4. CASE SelectNamespace \/ SelectContext \/ ContextSwitchSucceeds
  BY <1>4, SwitchSwitches DEF SelectNamespace, SelectContext, ContextSwitchSucceeds
<1>5. CASE \/ \E key \in TabKey : OpenTab(key)
           \/ \E key \in DOMAIN tabs : CloseTab(key)
           \/ \E i \in inspections, ok \in BOOLEAN : ReceiveInspection(i, ok)
           \/ ApplyWorkspace
           \/ ContextSwitchFails
           \/ UNCHANGED vars
  <2>1. UNCHANGED <<entries, next_id, mutations, context_generation>>
    BY <1>5 DEF OpenTab, CloseTab, ReceiveInspection, ApplyWorkspace,
                ContextSwitchFails, session, vars
  <2>2. QED
    BY <2>1, TasksStay DEF Abstract!vars
<1>6. QED
  BY <1>1, <1>2, <1>3, <1>4, <1>5 DEF Next

\* Every behaviour of the mutations is one that ActionHistory allows: each is
\* settled once, by its own end, and none as a success after a switch.
THEOREM HistoryIsKept == Spec => HistoryKeepsPromise
<1>1. Init => Abstract!Init
  BY DEF Init, Abstract!Init, Tasks
<1>2. MutationsInv /\ [Next]_vars => [Abstract!Next]_(Abstract!vars)
  BY StepKeepsPromise
<1>3. QED
  BY <1>1, <1>2, MutationsAreSound, PTL DEF Spec, HistoryKeepsPromise, Abstract!Spec

=============================================================================
