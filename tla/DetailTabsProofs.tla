-------------------------- MODULE DetailTabsProofs --------------------------
(***************************************************************************)
(* What the detail panel and the tabs of a resource guarantee for any      *)
(* resources and bounds.  A holder is whatever waits for an answer: the    *)
(* panel, a tab, a decoded Secret.  All of them wait in the same way, so   *)
(* what keeps a holder served is stated once, of a holder and the part of  *)
(* the state that its wait depends on.                                     *)
(***************************************************************************)
EXTENDS DetailTabs, TLAPS

-----------------------------------------------------------------------------
(* Types                                                                   *)

\* A request of this generation is a task, if the bound allows it.
LEMMA RequestType ==
    ASSUME DetailTypeOK, NEW channel \in Channels, NEW r \in Resources,
           request_seq["detail"] + request_seq["diff"] < MaxRequest
    PROVE  /\ Request(channel, r) \in Task
           /\ Request(channel, r).id \in Requests
           /\ Request(channel, r).id = request_seq[channel] + 1
           /\ version[r] \in Versions
  <1>1. /\ request_seq["detail"] \in Requests \cup {0}
        /\ request_seq["diff"] \in Requests \cup {0}
    BY DEF DetailTypeOK, Channels
  <1>2. request_seq[channel] + 1 \in Requests
    BY <1>1, BoundsAssumption DEF Channels, Requests
  <1>. QED BY <1>2 DEF DetailTypeOK, Request, Task

\* Asking keeps the types of the counters and the tasks.
LEMMA AskType ==
    ASSUME DetailTypeOK, NEW channel \in Channels, NEW r \in Resources,
           Ask(Request(channel, r))
    PROVE  /\ request_seq' \in [Channels -> Requests \cup {0}]
           /\ tasks' \subseteq Task
           /\ Request(channel, r).id \in Requests
  <1>1. request_seq["detail"] + request_seq["diff"] < MaxRequest
    BY DEF Ask
  <1>. QED BY <1>1, RequestType DEF DetailTypeOK, Ask

\* What a YAML or an error makes of a tab that is not edited.
LEMMA DecodedType ==
    ASSUME NEW tab \in SecretTab, ~HasLocalEdits(tab),
           NEW yaml \in Yaml \cup {NIL}, NEW otherwise \in Versions \cup {NIL}
    PROVE  LET t == Decoded(tab, yaml, otherwise)
           IN  /\ t \in SecretTab
               /\ ~HasLocalEdits(t)
               /\ t.pending_request_id = NIL
               /\ t.source = yaml
               /\ t.asked = tab.asked
               /\ (yaml # NIL /\ yaml.readable) => t.entries = yaml.version
  BY DEF Decoded, SecretTab, HasLocalEdits, Yaml

\* What a Secret's tab may be.
SecretTabOK(tab) ==
    /\ tab \in SecretTab
    /\ HasLocalEdits(tab) => tab.entries # NIL
    /\ tab.source # NIL => tab.pending_request_id = NIL

\* The answer to a Secret's tab keeps it one.
LEMMA AnsweredSecretType ==
    ASSUME NEW tab, SecretTabOK(tab), NEW answer \in Answer
    PROVE  SecretTabOK(AnsweredSecret(tab, answer))
  <1>1. CASE HasLocalEdits(tab)
    BY <1>1 DEF SecretTabOK, SecretTab, AnsweredSecret, HasLocalEdits
  <1>2. CASE ~HasLocalEdits(tab)
    <2>1. answer.yaml \in Yaml \cup {NIL}
      BY DEF Answer
    <2>. QED BY <1>2, <2>1, DecodedType DEF SecretTabOK, AnsweredSecret
  <1>. QED BY <1>1, <1>2

\* Opening it as well; a tab without local edits need not have entries.
LEMMA OpenedType ==
    ASSUME DetailTypeOK, NEW s \in Secrets, NEW tab, SecretTabOK(tab),
           Loaded(s) \/ Request("detail", s).id \in Requests
    PROVE  SecretTabOK(Opened(tab, s))
  <1>. s \in Resources /\ version[s] \in Versions
    BY SecretsAssumption DEF DetailTypeOK
  <1>1. CASE HasLocalEdits(tab)
    BY <1>1 DEF Opened
  <1>2. CASE ~HasLocalEdits(tab) /\ Loaded(s)
    <2>1. detail_view.yaml \in Yaml \cup {NIL} /\ detail_view.asked \in Versions
      BY <1>2 DEF Loaded, DetailTypeOK, Panel
    <2>2. tab.entries \in Versions \cup {NIL} /\ tab \in SecretTab
      BY DEF SecretTabOK, SecretTab
    <2> DEFINE t == Decoded(tab, detail_view.yaml, tab.entries)
    <2>3. t \in SecretTab /\ ~HasLocalEdits(t) /\ t.pending_request_id = NIL
      BY <1>2, <2>1, <2>2, DecodedType
    <2>4. Opened(tab, s) = [t EXCEPT !.asked = detail_view.asked]
      BY <1>2 DEF Opened
    <2> HIDE DEF t
    <2>. QED BY <2>1, <2>3, <2>4 DEF SecretTabOK, SecretTab, HasLocalEdits
  <1>3. CASE ~HasLocalEdits(tab) /\ ~Loaded(s)
    BY <1>3 DEF Opened, SecretTabOK, SecretTab, HasLocalEdits
  <1>. QED BY <1>1, <1>2, <1>3

LEMMA NewSecretTabType ==
    ASSUME DetailTypeOK, NEW s \in Secrets
    PROVE  SecretTabOK(NewSecretTab(s)) /\ ~HasLocalEdits(NewSecretTab(s))
  BY SecretsAssumption
  DEF DetailTypeOK, NewSecretTab, SecretTabOK, SecretTab, HasLocalEdits

\* The Secrets' tabs, and that a change of one keeps them.
SecretsOK(f) ==
    /\ f \in [Secrets -> SecretTab \cup {NIL}]
    /\ \A s \in Secrets : f[s] # NIL => SecretTabOK(f[s])

LEMMA SecretsTyped ==
    ASSUME DetailTypeOK
    PROVE  SecretsOK(secrets)
  BY DEF DetailTypeOK, SecretsOK, SecretTabOK

LEMMA SecretChanges ==
    ASSUME DetailTypeOK, NEW s \in Secrets, NEW tab,
           tab = NIL \/ SecretTabOK(tab),
           secrets' = [secrets EXCEPT ![s] = tab]
    PROVE  SecretsOK(secrets')
  <1>1. SecretsOK(secrets)
    BY SecretsTyped
  <1>2. tab \in SecretTab \cup {NIL}
    BY DEF SecretTabOK
  <1>. QED BY <1>1, <1>2 DEF SecretsOK

\* The other variables.
OthersOK ==
    /\ context_generation \in 0 .. MaxGeneration
    /\ switching \in BOOLEAN
    /\ version \in [Resources -> Versions]
    /\ request_seq \in [Channels -> Requests \cup {0}]
    /\ tasks \subseteq Task
    /\ answers \subseteq Answer
    /\ detail_view \in Panel \cup {NIL}
    /\ tabs \in [Keys -> Tab \cup {NIL}]
    /\ stranded \in [Channels -> Requests \cup {0}]

LEMMA TypeParts == DetailTypeOK <=> OthersOK /\ SecretsOK(secrets)
  BY DEF DetailTypeOK, OthersOK, SecretsOK, SecretTabOK

\* What a tab takes from the panel or from an answer.
LEMMA PartType ==
    /\ \A details \in Panel \cup Answer, kind \in {"Yaml", "Diff", "Events"} :
          Part(kind, details) \in Versions \cup {NIL}
    /\ \A key \in Keys : /\ key[1] \in {"Yaml", "Diff", "Events"}
                         /\ key[2] \in Resources
                         /\ ChannelOf(key) \in Channels
  BY DEF Part, Panel, Answer, Yaml, Keys, ChannelOf, Channels

\* What a task reads was there after it was asked.
LEMMA ReadingsType ==
    ASSUME DetailTypeOK, NEW task \in tasks, NEW answer \in Readings(task)
    PROVE  /\ answer \in Answer
           /\ answer.task = task
           /\ answer.yaml # NIL => answer.yaml.version >= task.asked
           /\ answer.events # NIL => answer.events >= task.asked
  <1>1. task \in Task /\ version[task.resource] \in Versions
    BY DEF DetailTypeOK, Task
  <1> DEFINE read == task.asked .. version[task.resource]
  <1>2. read \subseteq Versions /\ \A v \in read : v >= task.asked
    BY <1>1, BoundsAssumption DEF Task, Versions
  <1> HIDE DEF read
  <1>3. /\ answer.task = task
        /\ answer.yaml \in {NIL} \cup [version : read, readable : BOOLEAN]
        /\ answer.events \in {NIL} \cup read
        /\ answer = [task |-> answer.task, yaml |-> answer.yaml,
                     events |-> answer.events]
    BY DEF Readings, read
  <1>4. answer.yaml \in Yaml \cup {NIL} /\ answer.events \in Versions \cup {NIL}
    BY <1>2, <1>3 DEF Yaml
  <1>. QED BY <1>1, <1>2, <1>3, <1>4 DEF Answer

\* Closing everything leaves no holder.
LEMMA ClosedType ==
    ASSUME CloseResources
    PROVE  /\ detail_view' = NIL
           /\ tabs' \in [Keys -> Tab \cup {NIL}]
           /\ SecretsOK(secrets')
           /\ \A key \in Keys : tabs'[key] = NIL
           /\ \A s \in Secrets : secrets'[s] = NIL
  BY DEF CloseResources, SecretsOK

\* Every step keeps the types.
LEMMA TypeStep ==
    ASSUME DetailTypeOK, [Next]_vars
    PROVE  DetailTypeOK'
  <1>. OthersOK /\ SecretsOK(secrets)
    BY TypeParts
  <1>. SUFFICES OthersOK' /\ SecretsOK(secrets')
    BY TypeParts DEF DetailTypeOK, OthersOK, SecretsOK, SecretTabOK
  <1>1. ASSUME NEW r \in Resources, OpenDetail(r) PROVE OthersOK' /\ SecretsOK(secrets')
    <2>1. Ask(Request("detail", r)) /\ "detail" \in Channels
      BY <1>1 DEF OpenDetail, Channels
    <2>2. /\ request_seq' \in [Channels -> Requests \cup {0}]
          /\ tasks' \subseteq Task
          /\ Request("detail", r).id \in Requests
      BY <2>1, AskType
    <2>3. detail_view' \in Panel
      BY <1>1, <2>2 DEF OpenDetail, Panel, OthersOK
    <2>. QED BY <1>1, <2>2, <2>3 DEF OpenDetail, OthersOK, selection
  <1>2. CASE CloseDetail
    BY <1>2 DEF CloseDetail, OthersOK, selection, asking
  <1>3. ASSUME NEW key \in Keys, OpenResource(key) PROVE OthersOK' /\ SecretsOK(secrets')
    <2> DEFINE r == key[2]
    <2>1. r \in Resources /\ key[1] \in {"Yaml", "Diff", "Events"}
      BY PartType
    <2>2. CASE Loaded(r)
      <3>1. detail_view \in Panel
        BY <2>2 DEF OthersOK, Loaded
      <3>2. Part(key[1], detail_view) \in Versions \cup {NIL} /\ detail_view.asked \in Versions
        BY <2>1, <3>1, PartType DEF Panel
      <3>3. /\ tabs' = [tabs EXCEPT ![key] =
                  [pending_request_id |-> NIL, content |-> Part(key[1], detail_view),
                   asked |-> detail_view.asked]]
            /\ UNCHANGED asking
        BY <1>3, <2>2 DEF OpenResource
      <3>4. tabs' \in [Keys -> Tab \cup {NIL}]
        BY <3>2, <3>3 DEF OthersOK, Tab
      <3>. QED BY <1>3, <3>3, <3>4 DEF OpenResource, OthersOK, selection, asking
    <2>3. CASE ~Loaded(r)
      <3>1. /\ Ask(Request("detail", r))
            /\ tabs' = [tabs EXCEPT ![key] =
                  [pending_request_id |-> Request("detail", r).id,
                   content |-> Content(key), asked |-> version[r]]]
        BY <1>3, <2>3 DEF OpenResource
      <3>2. /\ request_seq' \in [Channels -> Requests \cup {0}]
            /\ tasks' \subseteq Task
            /\ Request("detail", r).id \in Requests
        BY <2>1, <3>1, AskType DEF Channels
      <3>3. Content(key) \in Versions \cup {NIL} /\ version[r] \in Versions
        BY <2>1 DEF Content, OthersOK, Tab
      <3>4. tabs' \in [Keys -> Tab \cup {NIL}]
        BY <3>1, <3>2, <3>3 DEF OthersOK, Tab
      <3>. QED BY <1>3, <3>2, <3>4 DEF OpenResource, OthersOK, selection
    <2>. QED BY <2>2, <2>3
  <1>4. ASSUME NEW r \in Resources, OpenResourceDiff(r) PROVE OthersOK' /\ SecretsOK(secrets')
    <2>1. Ask(Request("diff", r)) /\ "diff" \in Channels /\ <<"Diff", r>> \in Keys
      BY <1>4 DEF OpenResourceDiff, Channels, Keys
    <2>2. /\ request_seq' \in [Channels -> Requests \cup {0}]
          /\ tasks' \subseteq Task
          /\ Request("diff", r).id \in Requests
      BY <2>1, AskType
    <2>3. tabs' \in [Keys -> Tab \cup {NIL}]
      BY <1>4, <2>2 DEF OpenResourceDiff, Tab, OthersOK
    <2>. QED BY <1>4, <2>2, <2>3 DEF OpenResourceDiff, OthersOK, selection
  <1>5. ASSUME NEW s \in Secrets, OpenDecodedSecret(s) PROVE OthersOK' /\ SecretsOK(secrets')
    <2>. s \in Resources
      BY SecretsAssumption
    <2> DEFINE old == IF secrets[s] = NIL THEN NewSecretTab(s) ELSE secrets[s]
    <2>1. SecretTabOK(old)
      BY NewSecretTabType DEF SecretsOK
    <2>2. /\ request_seq' \in [Channels -> Requests \cup {0}]
          /\ tasks' \subseteq Task
          /\ Loaded(s) \/ Request("detail", s).id \in Requests
      BY <1>5, AskType DEF OpenDecodedSecret, OthersOK, Channels, asking
    <2>3. SecretTabOK(Opened(old, s))
      BY <2>1, <2>2, OpenedType
    <2>4. secrets' = [secrets EXCEPT ![s] = Opened(old, s)]
      BY <1>5 DEF OpenDecodedSecret
    <2>5. SecretsOK(secrets')
      BY <2>3, <2>4, SecretChanges
    <2>. QED BY <1>5, <2>2, <2>5 DEF OpenDecodedSecret, OthersOK, selection
  <1>6. ASSUME NEW s \in Secrets, StartEdit(s) \/ CommitEdit(s) \/ CancelEdit(s)
        PROVE  OthersOK' /\ SecretsOK(secrets')
    <2>1. SecretTabOK(secrets[s]) /\ secrets[s].entries # NIL
      BY <1>6 DEF StartEdit, CommitEdit, CancelEdit, SecretsOK, SecretTabOK, HasLocalEdits
    <2>2. PICK editing \in BOOLEAN, dirty \in BOOLEAN :
             secrets' = [secrets EXCEPT ![s] =
                           [secrets[s] EXCEPT !.editing = editing, !.dirty = dirty]]
      <3>1. CASE StartEdit(s)
        <4>1. secrets' = [secrets EXCEPT ![s] =
                  [secrets[s] EXCEPT !.editing = TRUE, !.dirty = secrets[s].dirty]]
          BY <2>1, <3>1 DEF StartEdit, SecretTabOK, SecretTab, SecretsOK
        <4>. QED BY <2>1, <4>1 DEF SecretTabOK, SecretTab
      <3>2. CASE CommitEdit(s)
        <4>1. PICK dirty \in BOOLEAN :
                 secrets' = [secrets EXCEPT ![s].editing = FALSE, ![s].dirty = dirty]
          BY <3>2 DEF CommitEdit
        <4>2. secrets' = [secrets EXCEPT ![s] =
                  [secrets[s] EXCEPT !.editing = FALSE, !.dirty = dirty]]
          BY <2>1, <4>1 DEF SecretTabOK, SecretTab, SecretsOK
        <4>. QED BY <4>2
      <3>3. CASE CancelEdit(s)
        <4>1. secrets' = [secrets EXCEPT ![s] =
                  [secrets[s] EXCEPT !.editing = FALSE, !.dirty = secrets[s].dirty]]
          BY <2>1, <3>3 DEF CancelEdit, SecretTabOK, SecretTab, SecretsOK
        <4>. QED BY <2>1, <4>1 DEF SecretTabOK, SecretTab
      <3>. QED BY <1>6, <3>1, <3>2, <3>3
    <2>3. SecretTabOK([secrets[s] EXCEPT !.editing = editing, !.dirty = dirty])
      BY <2>1, <2>2 DEF SecretTabOK, SecretTab, HasLocalEdits
    <2>4. SecretsOK(secrets')
      BY <2>2, <2>3, SecretChanges
    <2>. QED BY <1>6, <2>4
      DEF StartEdit, CommitEdit, CancelEdit, OthersOK, selection, asking
  <1>7. ASSUME NEW s \in Secrets, SaveDecodedSecret(s) PROVE OthersOK' /\ SecretsOK(secrets')
    <2>. s \in Resources
      BY SecretsAssumption
    <2>1. SecretTabOK(secrets[s])
      BY <1>7 DEF SaveDecodedSecret, SecretsOK
    <2>2. version' \in [Resources -> Versions] /\ version'[s] \in Versions
      BY <1>7, BoundsAssumption DEF SaveDecodedSecret, OthersOK, Versions
    <2> DEFINE tab == [secrets[s] EXCEPT
                  !.source = [version |-> version'[s], readable |-> TRUE],
                  !.entries = version'[s], !.dirty = FALSE]
    <2>3. secrets' = [secrets EXCEPT ![s] = tab]
      BY <1>7, <2>1 DEF SaveDecodedSecret, SecretTabOK, SecretTab, SecretsOK
    <2>4. SecretTabOK(tab)
      <3>1. version'[s] # NIL
        BY <2>2, NilAssumption DEF Versions
      <3>2. secrets[s].pending_request_id = NIL
        BY <1>7, <2>1 DEF SaveDecodedSecret, SecretTabOK
      <3>. QED BY <2>1, <2>2, <3>1, <3>2 DEF SecretTabOK, SecretTab, Yaml, HasLocalEdits
    <2>5. SecretsOK(secrets')
      BY <2>3, <2>4, SecretChanges
    <2>. QED BY <1>7, <2>2, <2>5 DEF SaveDecodedSecret, OthersOK, selection, asking
  <1>8. ASSUME NEW r \in Resources, ResourceChanges(r) PROVE OthersOK' /\ SecretsOK(secrets')
    <2>1. version' \in [Resources -> Versions]
      BY <1>8, BoundsAssumption DEF ResourceChanges, OthersOK, Versions
    <2>. QED BY <1>8, <2>1 DEF ResourceChanges, OthersOK, selection, asking
  <1>9. ASSUME NEW task \in tasks, TaskAnswers(task) PROVE OthersOK' /\ SecretsOK(secrets')
    <2>1. answers' \subseteq Answer
      BY <1>9, ReadingsType DEF TaskAnswers, OthersOK
    <2>. QED BY <1>9, <2>1 DEF TaskAnswers, OthersOK, selection
  <1>10. ASSUME NEW answer \in answers, ReceiveDetail(answer)
         PROVE  OthersOK' /\ SecretsOK(secrets')
    <2>. answer \in Answer
      BY DEF OthersOK
    <2>1. CASE Current(answer)
      <3>1. AnsweredTabs(answer) \in [Keys -> Tab \cup {NIL}]
        <4>1. \A key \in Keys : /\ Part(key[1], answer) \in Versions \cup {NIL}
                                /\ tabs[key] # NIL => tabs[key] \in Tab
          BY PartType DEF OthersOK
        <4>. QED BY <4>1 DEF AnsweredTabs, Awaits, OthersOK, Tab
      <3>2. SecretsOK(secrets')
        <4>1. secrets' = [s \in Secrets |->
                  IF s = answer.task.resource /\ Awaits(secrets[s], answer)
                  THEN AnsweredSecret(secrets[s], answer) ELSE secrets[s]]
          BY <1>10, <2>1 DEF ReceiveDetail
        <4>2. \A s \in Secrets : Awaits(secrets[s], answer) =>
                 SecretTabOK(AnsweredSecret(secrets[s], answer))
          BY AnsweredSecretType DEF Awaits, SecretsOK
        <4>. QED BY <4>1, <4>2 DEF SecretsOK, SecretTabOK
      <3>3. detail_view' \in Panel \cup {NIL}
        <4>1. answer.yaml \in Yaml \cup {NIL} /\ answer.events \in Versions \cup {NIL}
          BY DEF Answer
        <4>. QED BY <1>10, <2>1, <4>1 DEF ReceiveDetail, Awaits, OthersOK, Panel
      <3>. QED BY <1>10, <2>1, <3>1, <3>2, <3>3
        DEF ReceiveDetail, OthersOK, selection, asking
    <2>2. CASE ~Current(answer)
      BY <1>10, <2>2 DEF ReceiveDetail, OthersOK, selection, asking
    <2>. QED BY <2>1, <2>2
  <1>11. ASSUME NEW answer \in answers, ReceiveDiff(answer)
         PROVE  OthersOK' /\ SecretsOK(secrets')
    <2>. answer \in Answer
      BY DEF OthersOK
    <2>1. AnsweredTabs(answer) \in [Keys -> Tab \cup {NIL}]
      <3>1. \A key \in Keys : /\ Part(key[1], answer) \in Versions \cup {NIL}
                              /\ tabs[key] # NIL => tabs[key] \in Tab
        BY PartType DEF OthersOK
      <3>. QED BY <3>1 DEF AnsweredTabs, Awaits, OthersOK, Tab
    <2>. QED BY <1>11, <2>1 DEF ReceiveDiff, OthersOK, selection, asking
  <1>12. ASSUME NEW key \in Keys, CloseTab(key) PROVE OthersOK' /\ SecretsOK(secrets')
    BY <1>12 DEF CloseTab, OthersOK, selection, asking
  <1>13. ASSUME NEW s \in Secrets, CloseSecretTab(s) PROVE OthersOK' /\ SecretsOK(secrets')
    BY <1>13 DEF CloseSecretTab, OthersOK, SecretsOK, selection, asking
  <1>14. CASE SelectNamespace
    BY <1>14, ClosedType, BoundsAssumption
    DEF SelectNamespace, NewGeneration, OthersOK, asking
  <1>15. CASE SelectContext
    BY <1>15, ClosedType, BoundsAssumption
    DEF SelectContext, NewGeneration, OthersOK, asking
  <1>16. ASSUME NEW restoring \in BOOLEAN, ContextSwitchSucceeds(restoring)
         PROVE  OthersOK' /\ SecretsOK(secrets')
    <2>1. /\ context_generation' \in 0 .. MaxGeneration
          /\ UNCHANGED <<version, request_seq, tasks, answers>>
          /\ switching' = FALSE /\ stranded' = request_seq
      BY <1>16, BoundsAssumption DEF ContextSwitchSucceeds, NewGeneration, OthersOK, asking
    <2>2. CASE CloseResources
      BY <2>1, <2>2, ClosedType DEF OthersOK
    <2>3. CASE UNCHANGED <<detail_view, tabs, secrets>>
      BY <2>1, <2>3 DEF OthersOK
    <2>. QED BY <1>16, <2>2, <2>3 DEF ContextSwitchSucceeds
  <1>17. CASE ContextSwitchFails
    BY <1>17 DEF ContextSwitchFails, OthersOK, asking
  <1>18. CASE UNCHANGED vars
    BY <1>18 DEF vars, OthersOK
  <1>. QED
    BY <1>1, <1>2, <1>3, <1>4, <1>5, <1>6, <1>7, <1>8, <1>9, <1>10, <1>11, <1>12,
       <1>13, <1>14, <1>15, <1>16, <1>17, <1>18
    DEF Next

-----------------------------------------------------------------------------
(* What can happen to a decoded Secret                                     *)

\* The keys of the editor touch nothing that was read.
Edited(s) ==
    /\ secrets[s] # NIL
    /\ StartEdit(s) \/ CommitEdit(s) \/ CancelEdit(s)
    /\ \E editing, dirty \in BOOLEAN :
          secrets'[s] = [secrets[s] EXCEPT !.editing = editing, !.dirty = dirty]

Saved(s) ==
    /\ SaveDecodedSecret(s)
    /\ secrets'[s] = [secrets[s] EXCEPT
          !.source = [version |-> version'[s], readable |-> TRUE],
          !.entries = version'[s], !.dirty = FALSE]

Reopened(s) ==
    /\ OpenDecodedSecret(s)
    /\ secrets'[s] = Opened(IF secrets[s] = NIL THEN NewSecretTab(s) ELSE secrets[s], s)

Answered(s, answer) ==
    /\ ReceiveDetail(answer)
    /\ answer.task.resource = s
    /\ Awaits(secrets[s], answer)
    /\ secrets'[s] = AnsweredSecret(secrets[s], answer)

\* A step closes the tab, leaves it, or is one of these.
LEMMA SecretSteps ==
    ASSUME DetailTypeOK, [Next]_vars, NEW s \in Secrets
    PROVE  \/ secrets'[s] \in {NIL, secrets[s]}
           \/ Edited(s) \/ Saved(s) \/ Reopened(s)
           \/ \E answer \in answers : Answered(s, answer)
  <1>. SecretsOK(secrets)
    BY SecretsTyped
  <1>1. ASSUME NEW t \in Secrets, OpenDecodedSecret(t)
        PROVE  secrets'[s] = secrets[s] \/ Reopened(s)
    BY <1>1 DEF OpenDecodedSecret, Reopened, SecretsOK
  <1>2. ASSUME NEW t \in Secrets, StartEdit(t) \/ CommitEdit(t) \/ CancelEdit(t)
        PROVE  secrets'[s] = secrets[s] \/ Edited(s)
    <2>1. CASE t # s
      BY <1>2, <2>1 DEF StartEdit, CommitEdit, CancelEdit, SecretsOK
    <2>2. CASE t = s
      <3>1. secrets[s] \in SecretTab /\ secrets[s] # NIL
        BY <1>2, <2>2 DEF StartEdit, CommitEdit, CancelEdit, SecretsOK
      <3>2. CASE StartEdit(s)
        <4>1. secrets'[s] = [secrets[s] EXCEPT !.editing = TRUE, !.dirty = secrets[s].dirty]
          BY <3>1, <3>2 DEF StartEdit, SecretTab, SecretsOK
        <4>. QED BY <3>1, <3>2, <4>1 DEF SecretTab, Edited
      <3>3. CASE CommitEdit(s)
        <4>1. PICK dirty \in BOOLEAN :
                 secrets' = [secrets EXCEPT ![s].editing = FALSE, ![s].dirty = dirty]
          BY <3>3 DEF CommitEdit
        <4>2. secrets'[s] = [secrets[s] EXCEPT !.editing = FALSE, !.dirty = dirty]
          BY <3>1, <4>1 DEF SecretTab, SecretsOK
        <4>. QED BY <3>1, <3>3, <4>2 DEF Edited
      <3>4. CASE CancelEdit(s)
        <4>1. secrets'[s] = [secrets[s] EXCEPT !.editing = FALSE, !.dirty = secrets[s].dirty]
          BY <3>1, <3>4 DEF CancelEdit, SecretTab, SecretsOK
        <4>. QED BY <3>1, <3>4, <4>1 DEF SecretTab, Edited
      <3>. QED BY <1>2, <2>2, <3>2, <3>3, <3>4
    <2>. QED BY <2>1, <2>2
  <1>3. ASSUME NEW t \in Secrets, SaveDecodedSecret(t)
        PROVE  secrets'[s] = secrets[s] \/ Saved(s)
    <2>1. CASE t # s
      BY <1>3, <2>1 DEF SaveDecodedSecret, SecretsOK
    <2>2. CASE t = s
      <3>1. secrets[s] \in SecretTab
        BY <1>3, <2>2 DEF SaveDecodedSecret, SecretsOK
      <3>. QED BY <1>3, <2>2, <3>1 DEF SaveDecodedSecret, Saved, SecretsOK, SecretTab
    <2>. QED BY <2>1, <2>2
  <1>4. ASSUME NEW answer \in answers, ReceiveDetail(answer)
        PROVE  secrets'[s] = secrets[s] \/ Answered(s, answer)
    BY <1>4 DEF ReceiveDetail, Answered
  <1>5. ASSUME NEW t \in Secrets, CloseSecretTab(t) PROVE secrets'[s] \in {NIL, secrets[s]}
    BY <1>5 DEF CloseSecretTab, SecretsOK
  <1>6. SelectNamespace \/ SelectContext => secrets'[s] = NIL
    BY DEF SelectNamespace, SelectContext, CloseResources
  <1>7. ASSUME NEW restoring \in BOOLEAN, ContextSwitchSucceeds(restoring)
        PROVE  secrets'[s] \in {NIL, secrets[s]}
    BY <1>7 DEF ContextSwitchSucceeds, CloseResources
  <1>8. ASSUME \/ \E r \in Resources : OpenDetail(r) \/ OpenResourceDiff(r) \/ ResourceChanges(r)
               \/ CloseDetail
               \/ \E key \in Keys : OpenResource(key) \/ CloseTab(key)
               \/ \E task \in tasks : TaskAnswers(task)
               \/ \E answer \in answers : ReceiveDiff(answer)
               \/ ContextSwitchFails \/ UNCHANGED vars
        PROVE  secrets' = secrets
    BY <1>8 DEF OpenDetail, OpenResourceDiff, ResourceChanges, CloseDetail, OpenResource,
                CloseTab, TaskAnswers, ReceiveDiff, ContextSwitchFails, vars
  <1>. QED BY <1>1, <1>2, <1>3, <1>4, <1>5, <1>6, <1>7, <1>8 DEF Next

\* The entries are those of the source.
Matches(tab) ==
    (tab.source # NIL /\ tab.source.readable) => tab.entries = tab.source.version

LEMMA DecodedMatches ==
    ASSUME NEW tab \in SecretTab, ~HasLocalEdits(tab),
           NEW yaml \in Yaml \cup {NIL}, NEW otherwise \in Versions \cup {NIL}
    PROVE  Matches(Decoded(tab, yaml, otherwise))
  BY DecodedType DEF Matches

\* Whatever happens to a tab, its entries stay those of its source.
LEMMA MatchStep ==
    ASSUME DetailTypeOK, EntriesMatchSource, [Next]_vars
    PROVE  EntriesMatchSource'
  <1>. SUFFICES ASSUME NEW s \in Secrets, secrets'[s] # NIL
                PROVE  Matches(secrets'[s])
    BY DEF EntriesMatchSource, Matches
  <1>. /\ SecretsOK(secrets)
       /\ secrets[s] # NIL => Matches(secrets[s])
    BY SecretsTyped DEF EntriesMatchSource, Matches
  <1>1. CASE secrets'[s] = secrets[s]
    BY <1>1
  <1>2. CASE Edited(s)
    BY <1>2 DEF Edited, Matches, SecretsOK, SecretTab
  <1>3. CASE Saved(s)
    BY <1>3 DEF Saved, SaveDecodedSecret, Matches, SecretsOK, SecretTab
  <1>4. CASE Reopened(s)
    <2> DEFINE tab == IF secrets[s] = NIL THEN NewSecretTab(s) ELSE secrets[s]
    <2>1. SecretTabOK(tab) /\ Matches(tab)
      BY NewSecretTabType DEF SecretsOK, NewSecretTab, Matches
    <2>2. secrets'[s] = Opened(tab, s)
      BY <1>4 DEF Reopened
    <2> HIDE DEF tab
    <2>3. CASE HasLocalEdits(tab)
      BY <2>1, <2>2, <2>3 DEF Opened
    <2>4. CASE ~HasLocalEdits(tab) /\ Loaded(s)
      <3>1. detail_view.yaml \in Yaml \cup {NIL}
        BY <2>4 DEF Loaded, DetailTypeOK, Panel
      <3>2. tab \in SecretTab /\ tab.entries \in Versions \cup {NIL}
        BY <2>1 DEF SecretTabOK, SecretTab
      <3> DEFINE t == Decoded(tab, detail_view.yaml, tab.entries)
      <3>3. Matches(t) /\ t \in SecretTab
        BY <2>4, <3>1, <3>2, DecodedMatches, DecodedType
      <3>4. secrets'[s] = [t EXCEPT !.asked = detail_view.asked]
        BY <2>2, <2>4 DEF Opened
      <3> HIDE DEF t
      <3>. QED BY <3>3, <3>4 DEF Matches, SecretTab
    <2>5. CASE ~HasLocalEdits(tab) /\ ~Loaded(s)
      BY <2>1, <2>2, <2>5 DEF Opened, Matches, SecretTabOK, SecretTab
    <2>. QED BY <2>3, <2>4, <2>5
  <1>5. ASSUME NEW answer \in answers, Answered(s, answer)
        PROVE  Matches(secrets'[s])
    <2>1. /\ secrets[s] # NIL /\ secrets[s] \in SecretTab
          /\ answer.yaml \in Yaml \cup {NIL}
          /\ secrets'[s] = AnsweredSecret(secrets[s], answer)
      BY <1>5 DEF Answered, Awaits, SecretsOK, DetailTypeOK, Answer
    <2>2. CASE HasLocalEdits(secrets[s])
      BY <2>1, <2>2 DEF AnsweredSecret, Matches, SecretTab
    <2>3. CASE ~HasLocalEdits(secrets[s])
      BY <2>1, <2>3, DecodedMatches DEF AnsweredSecret
    <2>. QED BY <2>2, <2>3
  <1>. QED BY <1>1, <1>2, <1>3, <1>4, <1>5, SecretSteps

\* The action property: what is edited stays, until it is saved or the user's
\* keys change it.
LEMMA EditStep ==
    ASSUME DetailTypeOK, [Next]_vars, NEW s \in Secrets,
           secrets[s] # NIL, HasLocalEdits(secrets[s]), secrets'[s] # NIL
    PROVE  \/ [secrets'[s] EXCEPT !.pending_request_id = NIL]
                 = [secrets[s] EXCEPT !.pending_request_id = NIL]
           \/ StartEdit(s) \/ CommitEdit(s) \/ CancelEdit(s)
           \/ SaveDecodedSecret(s)
  <1>1. secrets[s] \in SecretTab
    BY SecretsTyped DEF SecretsOK
  <1>2. Reopened(s) => secrets'[s] = secrets[s]
    BY DEF Reopened, Opened
  <1>3. ASSUME NEW answer \in answers, Answered(s, answer)
        PROVE  [secrets'[s] EXCEPT !.pending_request_id = NIL]
                  = [secrets[s] EXCEPT !.pending_request_id = NIL]
    <2>1. secrets'[s] = [secrets[s] EXCEPT !.pending_request_id = NIL]
      BY <1>3 DEF Answered, AnsweredSecret
    <2>. QED BY <1>1, <2>1 DEF SecretTab
  <1>. QED BY <1>2, <1>3, SecretSteps DEF Edited, Saved

-----------------------------------------------------------------------------
(* Waiting                                                                 *)

\* The requests that are under way, and all that a holder's wait depends on.
Requested == tasks \cup {answer.task : answer \in answers}

World == [seq |-> request_seq, version |-> version, requested |-> Requested,
          generation |-> context_generation, stranded |-> stranded]

SameRequest(task, id, channel, r) ==
    task.id = id /\ task.channel = channel /\ task.resource = r

\* A holder of resource r that asked when it had version asked, and waits for
\* the request id of the channel, or for none.  What is asked under this id was
\* asked then, so its answer is fresh, and it is under way.
Waits(id, asked, channel, r, w) ==
    /\ asked <= w.version[r]
    /\ id # NIL =>
          /\ id <= w.seq[channel]
          /\ \A task \in w.requested :
                SameRequest(task, id, channel, r) => task.asked = asked
          /\ \/ id <= w.stranded[channel]
             \/ \E task \in w.requested :
                   SameRequest(task, id, channel, r)
                   /\ task.context_generation = w.generation

\* No request has a number that is still to be given, and no answer is older
\* than its question.
RequestsKnown == \A task \in Requested : task.id <= request_seq[task.channel]

AnswersHonest ==
    \A answer \in answers :
        /\ answer.yaml # NIL => answer.yaml.version >= answer.task.asked
        /\ answer.events # NIL => answer.events >= answer.task.asked

HoldersWait ==
    /\ detail_view # NIL =>
          Waits(detail_view.pending_request_id, detail_view.asked, "detail",
                detail_view.resource, World)
    /\ \A key \in Keys : tabs[key] # NIL =>
          Waits(tabs[key].pending_request_id, tabs[key].asked, ChannelOf(key),
                key[2], World)
    /\ \A s \in Secrets : secrets[s] # NIL =>
          Waits(secrets[s].pending_request_id, secrets[s].asked, "detail", s, World)

\* The inductive invariant.
DetailInv ==
    /\ DetailTypeOK
    /\ RequestsKnown
    /\ AnswersHonest
    /\ HoldersWait
    /\ AnswersAreFresh
    /\ EntriesMatchSource

LEMMA RequestedType ==
    ASSUME DetailTypeOK
    PROVE  Requested \subseteq Task
  BY DEF DetailTypeOK, Requested, Answer

\* From one world to another in which requests are only added, under new numbers.
Grows(w, w2) ==
    /\ \A c \in Channels : w.seq[c] \in Nat /\ w2.seq[c] \in Nat /\ w.seq[c] <= w2.seq[c]
    /\ \A r \in Resources : /\ w.version[r] \in Nat /\ w2.version[r] \in Nat
                            /\ w.version[r] <= w2.version[r]
    /\ w.requested \subseteq w2.requested
    /\ \A task \in w2.requested \ w.requested :
          task.id \in Nat /\ task.id > w.seq[task.channel]
    /\ w2.generation = w.generation
    /\ w2.stranded = w.stranded

LEMMA GrowsKeeps ==
    ASSUME NEW w, NEW w2, Grows(w, w2), NEW channel \in Channels, NEW r \in Resources,
           NEW id \in Requests \cup {NIL}, NEW asked \in Versions,
           Waits(id, asked, channel, r, w)
    PROVE  Waits(id, asked, channel, r, w2)
  <1>1. asked <= w2.version[r]
    BY DEF Grows, Waits, Versions
  <1>2. ASSUME id # NIL
        PROVE  /\ id <= w2.seq[channel]
               /\ \A task \in w2.requested :
                     SameRequest(task, id, channel, r) => task.asked = asked
               /\ \/ id <= w2.stranded[channel]
                  \/ \E task \in w2.requested :
                        SameRequest(task, id, channel, r)
                        /\ task.context_generation = w2.generation
    <2>1. id \in Nat /\ id <= w.seq[channel]
      BY <1>2 DEF Waits, Requests
    <2>2. id <= w2.seq[channel]
      BY <2>1 DEF Grows
    <2>3. ASSUME NEW task \in w2.requested, SameRequest(task, id, channel, r)
          PROVE  task.asked = asked
      <3>1. task \in w.requested
        BY <2>1, <2>3 DEF Grows, SameRequest
      <3>. QED BY <1>2, <2>3, <3>1 DEF Waits
    <2>4. \/ id <= w2.stranded[channel]
          \/ \E task \in w2.requested :
                SameRequest(task, id, channel, r)
                /\ task.context_generation = w2.generation
      BY <1>2 DEF Waits, Grows
    <2>. QED BY <2>2, <2>3, <2>4
  <1>. QED BY <1>1, <1>2 DEF Waits

\* Asking adds a request under a new number, which the holder then waits for.
LEMMA AskGrows ==
    ASSUME DetailTypeOK, RequestsKnown, NEW channel \in Channels, NEW r \in Resources,
           Ask(Request(channel, r)),
           UNCHANGED <<version, answers, context_generation, stranded>>
    PROVE  /\ Grows(World, World')
           /\ Waits(Request(channel, r).id, version[r], channel, r, World')
           /\ RequestsKnown'
  <1> DEFINE request == Request(channel, r)
  <1>1. /\ request \in Task
        /\ request.id = request_seq[channel] + 1
        /\ request.channel = channel /\ request.resource = r
        /\ request.asked = version[r]
        /\ request.context_generation = context_generation
    BY RequestType DEF Ask, Request
  <1>2. /\ request_seq' = [request_seq EXCEPT ![channel] = request.id]
        /\ tasks' = tasks \cup {request}
        /\ Requested' = Requested \cup {request}
    BY <1>1 DEF Ask, Requested
  <1>3. /\ \A c \in Channels : request_seq[c] \in Nat
        /\ \A x \in Resources : version[x] \in Nat
    BY DEF DetailTypeOK, Requests, Versions
  <1>4. \A c \in Channels : request_seq'[c] \in Nat /\ request_seq[c] <= request_seq'[c]
    BY <1>1, <1>2, <1>3 DEF DetailTypeOK
  <1>5. request_seq'[channel] = request.id
    BY <1>2 DEF DetailTypeOK
  <1>6. \A task \in Requested : task \in Task /\ task.id <= request_seq[task.channel]
    BY RequestedType DEF RequestsKnown
  <1> HIDE DEF request
  <1>7. Grows(World, World')
    BY <1>1, <1>2, <1>3, <1>4 DEF Grows, World
  <1>8. Waits(request.id, version[r], channel, r, World')
    <2>1. version[r] <= World'.version[r]
      BY <1>3 DEF World
    <2>2. request.id <= World'.seq[channel]
      BY <1>1, <1>3, <1>5 DEF World
    <2>3. ASSUME NEW task \in World'.requested, SameRequest(task, request.id, channel, r)
          PROVE  task.asked = version[r]
      <3>1. task \notin Requested
        BY <1>1, <1>3, <1>6, <2>3 DEF SameRequest, Task, Requests
      <3>. QED BY <1>1, <1>2, <2>3, <3>1 DEF World
    <2>4. /\ request \in World'.requested
          /\ SameRequest(request, request.id, channel, r)
          /\ request.context_generation = World'.generation
      BY <1>1, <1>2 DEF World, SameRequest
    <2>. QED BY <2>1, <2>2, <2>3, <2>4 DEF Waits
  <1>9. RequestsKnown'
    <2>1. \A task \in Requested : task.id <= request_seq'[task.channel]
      BY <1>3, <1>4, <1>6 DEF Task, Requests
    <2>2. request.id <= request_seq'[request.channel]
      BY <1>1, <1>3, <1>5
    <2>. QED BY <1>2, <2>1, <2>2 DEF RequestsKnown
  <1>. QED BY <1>7, <1>8, <1>9 DEF request

Receives(answer) == ReceiveDetail(answer) \/ ReceiveDiff(answer)

\* The second half of a switch of context, when nothing is closed.
Strands ==
    /\ stranded' = request_seq
    /\ UNCHANGED <<version, request_seq, tasks, answers>>

\* Nothing that a wait depends on has changed, but for the resources.
LEMMA IdleGrows ==
    ASSUME DetailTypeOK, Requested' = Requested,
           UNCHANGED <<request_seq, context_generation, stranded>>,
           \A r \in Resources : version'[r] \in Nat /\ version[r] <= version'[r]
    PROVE  Grows(World, World')
  <1>1. /\ \A c \in Channels : request_seq[c] \in Nat
        /\ \A r \in Resources : version[r] \in Nat
    BY DEF DetailTypeOK, Requests, Versions
  <1>. QED BY <1>1 DEF Grows, World

\* What a step can do to the world; the requests stay known.
LEMMA WorldSteps ==
    ASSUME DetailTypeOK, RequestsKnown, [Next]_vars
    PROVE  /\ RequestsKnown'
           /\ \/ Grows(World, World')
              \/ \E answer \in answers : Receives(answer)
              \/ CloseResources
              \/ Strands
  <1>1. \A r \in Resources : version[r] \in Nat /\ version[r] <= version[r]
    BY DEF DetailTypeOK, Versions
  <1>2. ASSUME UNCHANGED <<request_seq, tasks, answers>>
        PROVE  RequestsKnown' /\ Requested' = Requested
    BY <1>2 DEF RequestsKnown, Requested
  <1>3. ASSUME UNCHANGED <<version, request_seq, tasks, answers, context_generation, stranded>>
        PROVE  RequestsKnown' /\ Grows(World, World')
    BY <1>1, <1>2, <1>3, IdleGrows
  <1>4. ASSUME NEW channel \in Channels, NEW r \in Resources, Ask(Request(channel, r)),
               UNCHANGED <<version, answers, context_generation, stranded>>
        PROVE  RequestsKnown' /\ Grows(World, World')
    BY <1>4, AskGrows
  <1>5. ASSUME NEW r \in Resources, OpenDetail(r)
        PROVE  RequestsKnown' /\ Grows(World, World')
    <2>1. /\ Ask(Request("detail", r)) /\ "detail" \in Channels
          /\ UNCHANGED <<version, answers, context_generation, stranded>>
      BY <1>5 DEF OpenDetail, Channels, selection
    <2>. QED BY <1>4, <2>1
  <1>6. ASSUME NEW key \in Keys, OpenResource(key)
        PROVE  RequestsKnown' /\ Grows(World, World')
    <2>1. /\ UNCHANGED asking \/ Ask(Request("detail", key[2]))
          /\ "detail" \in Channels /\ key[2] \in Resources
          /\ UNCHANGED <<version, answers, context_generation, stranded>>
      BY <1>6, PartType DEF OpenResource, Channels, selection
    <2>. QED BY <1>3, <1>4, <2>1 DEF asking
  <1>7. ASSUME NEW r \in Resources, OpenResourceDiff(r)
        PROVE  RequestsKnown' /\ Grows(World, World')
    <2>1. /\ Ask(Request("diff", r)) /\ "diff" \in Channels
          /\ UNCHANGED <<version, answers, context_generation, stranded>>
      BY <1>7 DEF OpenResourceDiff, Channels, selection
    <2>. QED BY <1>4, <2>1
  <1>8. ASSUME NEW s \in Secrets, OpenDecodedSecret(s)
        PROVE  RequestsKnown' /\ Grows(World, World')
    <2>1. /\ UNCHANGED asking \/ Ask(Request("detail", s))
          /\ "detail" \in Channels /\ s \in Resources
          /\ UNCHANGED <<version, answers, context_generation, stranded>>
      BY <1>8, SecretsAssumption DEF OpenDecodedSecret, Channels, selection
    <2>. QED BY <1>3, <1>4, <2>1 DEF asking
  <1>9. ASSUME NEW r \in Resources, version' = [version EXCEPT ![r] = @ + 1],
               UNCHANGED <<request_seq, tasks, answers, context_generation, stranded>>
        PROVE  RequestsKnown' /\ Grows(World, World')
    <2>1. \A x \in Resources : version'[x] \in Nat /\ version[x] <= version'[x]
      BY <1>1, <1>9 DEF DetailTypeOK
    <2>. QED BY <1>2, <1>9, <2>1, IdleGrows
  <1>10. ASSUME NEW s \in Secrets, SaveDecodedSecret(s)
         PROVE  RequestsKnown' /\ Grows(World, World')
    <2>1. s \in Resources
      BY SecretsAssumption
    <2>. QED BY <1>9, <1>10, <2>1 DEF SaveDecodedSecret, selection, asking
  <1>11. ASSUME NEW r \in Resources, ResourceChanges(r)
         PROVE  RequestsKnown' /\ Grows(World, World')
    BY <1>9, <1>11 DEF ResourceChanges, selection, asking
  <1>12. ASSUME NEW task \in tasks, TaskAnswers(task)
         PROVE  RequestsKnown' /\ Grows(World, World')
    <2>1. PICK answer \in Readings(task) : answers' = answers \cup {answer}
      BY <1>12 DEF TaskAnswers
    <2>2. answer.task = task
      BY ReadingsType
    <2>3. /\ Requested' = Requested
          /\ UNCHANGED <<version, request_seq, context_generation, stranded>>
      BY <1>12, <2>1, <2>2 DEF TaskAnswers, Requested, selection
    <2>. QED BY <1>1, <2>3, IdleGrows DEF RequestsKnown
  <1>13. ASSUME NEW answer \in answers, Receives(answer)
         PROVE  RequestsKnown'
    BY <1>13 DEF Receives, ReceiveDetail, ReceiveDiff, RequestsKnown, Requested, asking
  <1>14. SelectNamespace \/ SelectContext => CloseResources /\ RequestsKnown'
    BY <1>2 DEF SelectNamespace, SelectContext, asking
  <1>15. ASSUME NEW restoring \in BOOLEAN, ContextSwitchSucceeds(restoring)
         PROVE  Strands /\ RequestsKnown'
    BY <1>2, <1>15 DEF ContextSwitchSucceeds, Strands, asking
  <1>16. ASSUME \/ CloseDetail
                \/ \E s \in Secrets : StartEdit(s) \/ CommitEdit(s) \/ CancelEdit(s)
                                      \/ CloseSecretTab(s)
                \/ \E key \in Keys : CloseTab(key)
                \/ ContextSwitchFails \/ UNCHANGED vars
         PROVE  RequestsKnown' /\ Grows(World, World')
    BY <1>3, <1>16 DEF CloseDetail, StartEdit, CommitEdit, CancelEdit, CloseSecretTab,
       CloseTab, ContextSwitchFails, vars, selection, asking
  <1>. QED
    BY <1>5, <1>6, <1>7, <1>8, <1>10, <1>11, <1>12, <1>13, <1>14, <1>15, <1>16
    DEF Next, Receives

\* A holder that was served is still, unless it was closed or the answer it
\* waits for was taken.
LEMMA WaitsOn ==
    ASSUME DetailTypeOK, RequestsKnown, [Next]_vars, ~CloseResources,
           NEW channel \in Channels, NEW r \in Resources,
           NEW id \in Requests \cup {NIL}, NEW asked \in Versions,
           Waits(id, asked, channel, r, World),
           \A answer \in answers :
              (Receives(answer) /\ Current(answer)) =>
                  ~SameRequest(answer.task, id, channel, r)
    PROVE  Waits(id, asked, channel, r, World')
  <1>1. CASE Grows(World, World')
    BY <1>1, GrowsKeeps
  <1>2. ASSUME NEW answer \in answers, Receives(answer)
        PROVE  Waits(id, asked, channel, r, World')
    <2>1. /\ answers' = answers \ {answer}
          /\ UNCHANGED <<version, request_seq, tasks, context_generation, stranded>>
      BY <1>2 DEF Receives, ReceiveDetail, ReceiveDiff, selection, asking
    <2>2. \A task \in Requested :
             (SameRequest(task, id, channel, r) /\ task.context_generation = context_generation)
                => task \in Requested'
      BY <1>2, <2>1 DEF Requested, Current
    <2>3. Requested' \subseteq Requested
      BY <2>1 DEF Requested
    <2>. QED BY <2>1, <2>2, <2>3 DEF Waits, World
  <1>3. CASE Strands
    <2>1. Requested' = Requested
      BY <1>3 DEF Strands, Requested
    <2>. QED BY <1>3, <2>1 DEF Strands, Waits, World
  <1>. QED BY <1>1, <1>2, <1>3, WorldSteps

-----------------------------------------------------------------------------
(* What can happen to the panel and to a tab                               *)

ViewAnswered(answer) ==
    /\ ReceiveDetail(answer)
    /\ Awaits(detail_view, answer)
    /\ detail_view' = [detail_view EXCEPT !.pending_request_id = NIL,
                          !.yaml = answer.yaml, !.events = answer.events]
    /\ detail_view.resource = answer.task.resource

LEMMA ViewSteps ==
    ASSUME [Next]_vars
    PROVE  \/ detail_view' \in {NIL, detail_view}
           \/ \E r \in Resources : OpenDetail(r)
           \/ \E answer \in answers : ViewAnswered(answer)
  <1>1. ASSUME NEW answer \in answers, ReceiveDetail(answer)
        PROVE  detail_view' = detail_view \/ ViewAnswered(answer)
    BY <1>1 DEF ReceiveDetail, ViewAnswered
  <1>2. ASSUME NEW restoring \in BOOLEAN, ContextSwitchSucceeds(restoring)
        PROVE  detail_view' \in {NIL, detail_view}
    BY <1>2 DEF ContextSwitchSucceeds, CloseResources
  <1>3. ASSUME \/ \E key \in Keys : OpenResource(key) \/ CloseTab(key)
               \/ \E r \in Resources : OpenResourceDiff(r) \/ ResourceChanges(r)
               \/ \E s \in Secrets : \/ OpenDecodedSecret(s) \/ StartEdit(s)
                                     \/ CommitEdit(s) \/ CancelEdit(s)
                                     \/ SaveDecodedSecret(s) \/ CloseSecretTab(s)
               \/ \E task \in tasks : TaskAnswers(task)
               \/ \E answer \in answers : ReceiveDiff(answer)
               \/ CloseDetail \/ SelectNamespace \/ SelectContext
               \/ ContextSwitchFails \/ UNCHANGED vars
        PROVE  detail_view' \in {NIL, detail_view}
    BY <1>3 DEF OpenResource, CloseTab, OpenResourceDiff, ResourceChanges,
       OpenDecodedSecret, StartEdit, CommitEdit, CancelEdit, SaveDecodedSecret,
       CloseSecretTab, TaskAnswers, ReceiveDiff, CloseDetail, SelectNamespace,
       SelectContext, CloseResources, ContextSwitchFails, vars
  <1>. QED BY <1>1, <1>2, <1>3 DEF Next

\* From the panel.
TabShown(key) ==
    /\ Loaded(key[2])
    /\ key[1] # "Diff"
    /\ UNCHANGED <<version, request_seq, tasks, answers, context_generation, stranded>>
    /\ tabs'[key] = [pending_request_id |-> NIL, content |-> Part(key[1], detail_view),
                     asked |-> detail_view.asked]

TabAsked(key) ==
    LET request == Request(ChannelOf(key), key[2])
    IN  /\ Ask(request)
        /\ UNCHANGED <<version, answers, context_generation, stranded>>
        /\ tabs'[key].pending_request_id = request.id
        /\ tabs'[key].asked = version[key[2]]

TabAnswered(key, answer) ==
    /\ Receives(answer)
    /\ Current(answer)
    /\ key[2] = answer.task.resource
    /\ ChannelOf(key) = answer.task.channel
    /\ Awaits(tabs[key], answer)
    /\ tabs'[key] = [tabs[key] EXCEPT !.pending_request_id = NIL,
                                      !.content = Part(key[1], answer)]

LEMMA TabSteps ==
    ASSUME DetailTypeOK, [Next]_vars, NEW key \in Keys
    PROVE  \/ tabs'[key] \in {NIL, tabs[key]}
           \/ TabShown(key) \/ TabAsked(key)
           \/ \E answer \in answers : TabAnswered(key, answer)
  <1>. tabs \in [Keys -> Tab \cup {NIL}]
    BY DEF DetailTypeOK
  <1>1. ASSUME NEW k \in Keys, OpenResource(k)
        PROVE  tabs'[key] = tabs[key] \/ TabShown(key) \/ TabAsked(key)
    <2>1. CASE k # key
      BY <1>1, <2>1 DEF OpenResource
    <2>2. CASE k = key
      <3>1. ChannelOf(key) = "detail"
        BY <1>1, <2>2 DEF OpenResource, ChannelOf
      <3>. QED BY <1>1, <2>2, <3>1
        DEF OpenResource, TabShown, TabAsked, selection, asking
    <2>. QED BY <2>1, <2>2
  <1>2. ASSUME NEW r \in Resources, OpenResourceDiff(r)
        PROVE  tabs'[key] = tabs[key] \/ TabAsked(key)
    <2> DEFINE tab == [pending_request_id |-> Request("diff", r).id, content |-> NIL,
                       asked |-> version[r]]
    <2>1. /\ tabs' = [tabs EXCEPT ![<<"Diff", r>>] = tab]
          /\ Ask(Request("diff", r))
          /\ UNCHANGED <<version, answers, context_generation, stranded>>
      BY <1>2 DEF OpenResourceDiff, selection
    <2>2. CASE key # <<"Diff", r>>
      BY <2>1, <2>2
    <2>3. CASE key = <<"Diff", r>>
      <3>1. ChannelOf(key) = "diff" /\ key[2] = r
        BY <2>3 DEF ChannelOf
      <3>2. tabs'[key] = tab
        BY <2>1, <2>3
      <3>. QED BY <2>1, <3>1, <3>2 DEF TabAsked
    <2>. QED BY <2>2, <2>3
  <1>3. ASSUME NEW answer \in answers, Receives(answer)
        PROVE  tabs'[key] = tabs[key] \/ TabAnswered(key, answer)
    BY <1>3 DEF Receives, ReceiveDetail, ReceiveDiff, AnsweredTabs, TabAnswered
  <1>4. ASSUME NEW k \in Keys, CloseTab(k) PROVE tabs'[key] \in {NIL, tabs[key]}
    BY <1>4 DEF CloseTab
  <1>5. SelectNamespace \/ SelectContext => tabs'[key] = NIL
    BY DEF SelectNamespace, SelectContext, CloseResources
  <1>6. ASSUME NEW restoring \in BOOLEAN, ContextSwitchSucceeds(restoring)
        PROVE  tabs'[key] \in {NIL, tabs[key]}
    BY <1>6 DEF ContextSwitchSucceeds, CloseResources
  <1>7. ASSUME \/ \E r \in Resources : OpenDetail(r) \/ ResourceChanges(r)
               \/ \E s \in Secrets : \/ OpenDecodedSecret(s) \/ StartEdit(s)
                                     \/ CommitEdit(s) \/ CancelEdit(s)
                                     \/ SaveDecodedSecret(s) \/ CloseSecretTab(s)
               \/ \E task \in tasks : TaskAnswers(task)
               \/ CloseDetail \/ ContextSwitchFails \/ UNCHANGED vars
        PROVE  tabs' = tabs
    BY <1>7 DEF OpenDetail, ResourceChanges, OpenDecodedSecret, StartEdit, CommitEdit,
       CancelEdit, SaveDecodedSecret, CloseSecretTab, TaskAnswers, CloseDetail,
       ContextSwitchFails, vars
  <1>. QED BY <1>1, <1>2, <1>3, <1>4, <1>5, <1>6, <1>7 DEF Next, Receives

-----------------------------------------------------------------------------
(* Every holder stays served and is shown what is fresh                    *)

\* What the holders are made of.
LEMMA HolderTypes ==
    ASSUME DetailTypeOK
    PROVE  /\ detail_view # NIL =>
                 /\ detail_view.pending_request_id \in Requests \cup {NIL}
                 /\ detail_view.asked \in Versions
                 /\ detail_view.resource \in Resources
           /\ \A key \in Keys : tabs[key] # NIL =>
                 /\ tabs[key].pending_request_id \in Requests \cup {NIL}
                 /\ tabs[key].asked \in Versions
           /\ \A s \in Secrets : secrets[s] # NIL =>
                 /\ secrets[s].pending_request_id \in Requests \cup {NIL}
                 /\ secrets[s].asked \in Versions
           /\ \A r \in Resources : version[r] \in Versions
           /\ \A answer \in answers : answer \in Answer /\ answer.task \in Task
           /\ NIL \notin Requests
  BY NilAssumption DEF DetailTypeOK, Panel, Tab, SecretTab, Answer, Requests

\* A holder that waits for nothing only has to have asked before now.
LEMMA WaitsForNothing ==
    ASSUME NEW asked, NEW channel, NEW r, NEW w
    PROVE  Waits(NIL, asked, channel, r, w) <=> asked <= w.version[r]
  BY DEF Waits

LEMMA ViewWaits ==
    ASSUME DetailInv, [Next]_vars, detail_view' # NIL
    PROVE  Waits(detail_view'.pending_request_id, detail_view'.asked, "detail",
                 detail_view'.resource, World')
  <1>. DetailTypeOK /\ RequestsKnown /\ HoldersWait
    BY DEF DetailInv
  <1>. "detail" \in Channels
    BY DEF Channels
  <1>1. CASE detail_view' = detail_view
    <2>1. ASSUME NEW answer \in answers, Receives(answer), Current(answer),
                 SameRequest(answer.task, detail_view.pending_request_id, "detail",
                             detail_view.resource)
          PROVE  FALSE
      <3>1. answer.task.id # NIL
        BY HolderTypes DEF Task
      <3>2. CASE ReceiveDetail(answer)
        <4>1. Awaits(detail_view, answer) /\ detail_view.resource = answer.task.resource
          BY <1>1, <2>1 DEF SameRequest, Awaits
        <4>2. detail_view' = [detail_view EXCEPT !.pending_request_id = NIL,
                                  !.yaml = answer.yaml, !.events = answer.events]
          BY <2>1, <3>2, <4>1 DEF ReceiveDetail
        <4>3. detail_view \in Panel
          BY <1>1 DEF DetailTypeOK
        <4>4. detail_view'.pending_request_id = NIL
          BY <4>2, <4>3 DEF Panel
        <4>. QED BY <1>1, <2>1, <3>1, <4>4 DEF SameRequest
      <3>3. CASE ReceiveDiff(answer)
        BY <2>1, <3>3 DEF ReceiveDiff, SameRequest
      <3>. QED BY <2>1, <3>2, <3>3 DEF Receives
    <2>2. ~CloseResources
      BY DEF CloseResources
    <2>. QED BY <1>1, <2>1, <2>2, HolderTypes, WaitsOn DEF HoldersWait
  <1>2. ASSUME NEW r \in Resources, OpenDetail(r)
        PROVE  Waits(detail_view'.pending_request_id, detail_view'.asked, "detail",
                     detail_view'.resource, World')
    <2>1. /\ Ask(Request("detail", r))
          /\ UNCHANGED <<version, answers, context_generation, stranded>>
          /\ detail_view'.pending_request_id = Request("detail", r).id
          /\ detail_view'.asked = version[r]
          /\ detail_view'.resource = r
      BY <1>2 DEF OpenDetail, selection
    <2>. QED BY <2>1, AskGrows
  <1>3. ASSUME NEW answer \in answers, ViewAnswered(answer)
        PROVE  Waits(detail_view'.pending_request_id, detail_view'.asked, "detail",
                     detail_view'.resource, World')
    <2>1. detail_view # NIL /\ detail_view \in Panel
      BY <1>3 DEF ViewAnswered, Awaits, DetailTypeOK
    <2>2. /\ detail_view'.pending_request_id = NIL
          /\ detail_view'.asked = detail_view.asked
          /\ detail_view'.resource = detail_view.resource
          /\ version' = version
      BY <1>3, <2>1 DEF ViewAnswered, ReceiveDetail, Panel
    <2>3. detail_view.asked <= version[detail_view.resource]
      BY <2>1 DEF HoldersWait, Waits, World
    <2>. QED BY <2>2, <2>3, WaitsForNothing DEF World
  <1>. QED BY <1>1, <1>2, <1>3, ViewSteps

LEMMA TabWaits ==
    ASSUME DetailInv, [Next]_vars, NEW key \in Keys, tabs'[key] # NIL
    PROVE  Waits(tabs'[key].pending_request_id, tabs'[key].asked, ChannelOf(key),
                 key[2], World')
  <1>. DetailTypeOK /\ RequestsKnown /\ HoldersWait
    BY DEF DetailInv
  <1>. ChannelOf(key) \in Channels /\ key[2] \in Resources
    BY PartType
  <1>1. CASE tabs'[key] = tabs[key]
    <2>1. ASSUME NEW answer \in answers, Receives(answer), Current(answer),
                 SameRequest(answer.task, tabs[key].pending_request_id, ChannelOf(key), key[2])
          PROVE  FALSE
      <3>1. tabs'[key] = [tabs[key] EXCEPT !.pending_request_id = NIL,
                                           !.content = Part(key[1], answer)]
        BY <1>1, <2>1
        DEF Receives, ReceiveDetail, ReceiveDiff, AnsweredTabs, Awaits, SameRequest
      <3>2. tabs[key] \in Tab
        BY <1>1 DEF DetailTypeOK
      <3>3. tabs'[key].pending_request_id = NIL
        BY <3>1, <3>2 DEF Tab
      <3>. QED BY <1>1, <2>1, <3>3, HolderTypes DEF SameRequest, Task
    <2>2. ~CloseResources
      BY DEF CloseResources
    <2>. QED BY <1>1, <2>1, <2>2, HolderTypes, WaitsOn DEF HoldersWait
  <1>2. CASE TabShown(key)
    <2>1. /\ tabs'[key].pending_request_id = NIL
          /\ tabs'[key].asked = detail_view.asked
          /\ version' = version
      BY <1>2 DEF TabShown
    <2>2. detail_view.asked <= version[key[2]]
      BY <1>2 DEF TabShown, Loaded, HoldersWait, Waits, World
    <2>. QED BY <2>1, <2>2, WaitsForNothing DEF World
  <1>3. CASE TabAsked(key)
    BY <1>3, AskGrows DEF TabAsked
  <1>4. ASSUME NEW answer \in answers, TabAnswered(key, answer)
        PROVE  Waits(tabs'[key].pending_request_id, tabs'[key].asked, ChannelOf(key),
                     key[2], World')
    <2>1. tabs[key] # NIL /\ tabs[key] \in Tab
      BY <1>4 DEF TabAnswered, Awaits, DetailTypeOK
    <2>2. /\ tabs'[key].pending_request_id = NIL
          /\ tabs'[key].asked = tabs[key].asked
          /\ version' = version
      BY <1>4, <2>1 DEF TabAnswered, Receives, ReceiveDetail, ReceiveDiff, Tab
    <2>3. tabs[key].asked <= version[key[2]]
      BY <2>1 DEF HoldersWait, Waits, World
    <2>. QED BY <2>2, <2>3, WaitsForNothing DEF World
  <1>. QED BY <1>1, <1>2, <1>3, <1>4, TabSteps

LEMMA SecretWaits ==
    ASSUME DetailInv, [Next]_vars, NEW s \in Secrets, secrets'[s] # NIL
    PROVE  Waits(secrets'[s].pending_request_id, secrets'[s].asked, "detail", s, World')
  <1>. DetailTypeOK /\ RequestsKnown /\ HoldersWait /\ SecretsOK(secrets)
    BY SecretsTyped DEF DetailInv
  <1>. "detail" \in Channels /\ s \in Resources
    BY SecretsAssumption DEF Channels
  <1>1. ASSUME secrets[s] # NIL,
               secrets'[s].pending_request_id = secrets[s].pending_request_id,
               secrets'[s].asked = secrets[s].asked
        PROVE  Waits(secrets'[s].pending_request_id, secrets'[s].asked, "detail", s, World')
    <2>1. ASSUME NEW answer \in answers, Receives(answer), Current(answer),
                 SameRequest(answer.task, secrets[s].pending_request_id, "detail", s)
          PROVE  FALSE
      <3>1. CASE ReceiveDetail(answer)
        <4>1. secrets'[s] = AnsweredSecret(secrets[s], answer)
          BY <1>1, <2>1, <3>1 DEF ReceiveDetail, SameRequest, Awaits
        <4>2. secrets'[s].pending_request_id = NIL
          BY <1>1, <4>1 DEF AnsweredSecret, Decoded, SecretsOK, SecretTab
        <4>. QED BY <1>1, <2>1, <4>2, HolderTypes DEF SameRequest, Task
      <3>2. CASE ReceiveDiff(answer)
        BY <2>1, <3>2 DEF ReceiveDiff, SameRequest
      <3>. QED BY <2>1, <3>1, <3>2 DEF Receives
    <2>2. ~CloseResources
      BY DEF CloseResources
    <2>. QED BY <1>1, <2>1, <2>2, HolderTypes, WaitsOn DEF HoldersWait
  <1>2. CASE secrets'[s] = secrets[s]
    BY <1>1, <1>2
  <1>3. CASE Edited(s)
    <2>1. secrets[s] # NIL /\ secrets[s] \in SecretTab
      BY <1>3 DEF Edited, SecretsOK
    <2>. QED BY <1>1, <1>3, <2>1 DEF Edited, SecretTab
  <1>4. CASE Saved(s)
    <2>1. secrets[s] # NIL /\ secrets[s] \in SecretTab
      BY <1>4 DEF Saved, SaveDecodedSecret, SecretsOK
    <2>. QED BY <1>1, <1>4, <2>1 DEF Saved, SecretTab
  <1>5. CASE Reopened(s)
    <2> DEFINE tab == IF secrets[s] = NIL THEN NewSecretTab(s) ELSE secrets[s]
    <2>1. SecretTabOK(tab)
      BY NewSecretTabType DEF SecretsOK
    <2>2. /\ secrets'[s] = Opened(tab, s)
          /\ HasLocalEdits(tab) => secrets[s] # NIL /\ tab = secrets[s]
          /\ UNCHANGED <<version, answers, context_generation, stranded>>
          /\ ~Loaded(s) => Ask(Request("detail", s))
      BY <1>5, NewSecretTabType DEF Reopened, OpenDecodedSecret, selection
    <2> HIDE DEF tab
    <2>3. CASE HasLocalEdits(tab)
      BY <1>1, <2>2, <2>3 DEF Opened
    <2>4. CASE ~HasLocalEdits(tab) /\ Loaded(s)
      <3>1. /\ secrets'[s].pending_request_id = NIL
            /\ secrets'[s].asked = detail_view.asked
        BY <2>1, <2>2, <2>4 DEF Opened, Decoded, SecretTabOK, SecretTab
      <3>2. detail_view.asked <= version[s]
        BY <2>4 DEF Loaded, HoldersWait, Waits, World
      <3>. QED BY <2>2, <3>1, <3>2, WaitsForNothing DEF World
    <2>5. CASE ~HasLocalEdits(tab) /\ ~Loaded(s)
      <3>1. /\ secrets'[s].pending_request_id = Request("detail", s).id
            /\ secrets'[s].asked = version[s]
        BY <2>1, <2>2, <2>5 DEF Opened, SecretTabOK, SecretTab
      <3>. QED BY <2>2, <2>5, <3>1, AskGrows
    <2>. QED BY <2>3, <2>4, <2>5
  <1>6. ASSUME NEW answer \in answers, Answered(s, answer)
        PROVE  Waits(secrets'[s].pending_request_id, secrets'[s].asked, "detail", s, World')
    <2>1. secrets[s] # NIL /\ secrets[s] \in SecretTab
      BY <1>6 DEF Answered, Awaits, SecretsOK
    <2>2. /\ secrets'[s].pending_request_id = NIL
          /\ secrets'[s].asked = secrets[s].asked
          /\ version' = version
      BY <1>6, <2>1 DEF Answered, ReceiveDetail, AnsweredSecret, Decoded, SecretTab
    <2>3. secrets[s].asked <= version[s]
      BY <2>1 DEF HoldersWait, Waits, World
    <2>. QED BY <2>2, <2>3, WaitsForNothing DEF World
  <1>. QED BY <1>2, <1>3, <1>4, <1>5, <1>6, SecretSteps

\* What arrives was read after it was asked for.
LEMMA HonestStep ==
    ASSUME DetailTypeOK, AnswersHonest, [Next]_vars
    PROVE  AnswersHonest'
  <1>1. ASSUME NEW task \in tasks, TaskAnswers(task) PROVE AnswersHonest'
    BY <1>1, ReadingsType DEF TaskAnswers, AnswersHonest
  <1>2. ASSUME NEW answer \in answers, Receives(answer) PROVE answers' \subseteq answers
    BY <1>2 DEF Receives, ReceiveDetail, ReceiveDiff
  <1>3. ASSUME \/ \E r \in Resources : OpenDetail(r) \/ OpenResourceDiff(r) \/ ResourceChanges(r)
               \/ \E key \in Keys : OpenResource(key) \/ CloseTab(key)
               \/ \E s \in Secrets : \/ OpenDecodedSecret(s) \/ StartEdit(s)
                                     \/ CommitEdit(s) \/ CancelEdit(s)
                                     \/ SaveDecodedSecret(s) \/ CloseSecretTab(s)
               \/ \E restoring \in BOOLEAN : ContextSwitchSucceeds(restoring)
               \/ CloseDetail \/ SelectNamespace \/ SelectContext
               \/ ContextSwitchFails \/ UNCHANGED vars
        PROVE  answers' = answers
    BY <1>3 DEF OpenDetail, OpenResource, CloseTab, OpenResourceDiff, ResourceChanges,
       OpenDecodedSecret, StartEdit, CommitEdit, CancelEdit, SaveDecodedSecret,
       CloseSecretTab, ContextSwitchSucceeds, CloseDetail, SelectNamespace,
       SelectContext, ContextSwitchFails, vars
  <1>4. answers' \subseteq answers => AnswersHonest'
    BY DEF AnswersHonest
  <1>. QED BY <1>1, <1>2, <1>3, <1>4 DEF Next, Receives

\* The answer that a holder takes is to its own question.
LEMMA TakenIsFresh ==
    ASSUME DetailTypeOK, AnswersHonest, NEW answer \in answers,
           NEW channel, NEW r, NEW id, NEW asked, id # NIL,
           Waits(id, asked, channel, r, World),
           SameRequest(answer.task, id, channel, r)
    PROVE  /\ answer.yaml # NIL => answer.yaml.version >= asked
           /\ answer.events # NIL => answer.events >= asked
           /\ \A kind : Part(kind, answer) # NIL => Part(kind, answer) >= asked
  <1>1. answer.task \in World.requested
    BY DEF World, Requested
  <1>2. answer.task.asked = asked
    BY <1>1 DEF Waits
  <1>. QED BY <1>2 DEF AnswersHonest, Part

FreshView(view) ==
    /\ view.yaml # NIL => view.yaml.version >= view.asked
    /\ view.events # NIL => view.events >= view.asked

FreshTab(tab) ==
    (tab.pending_request_id = NIL /\ tab.content # NIL) => tab.content >= tab.asked

FreshSecret(tab) == tab.source # NIL => tab.source.version >= tab.asked

LEMMA FreshStep ==
    ASSUME DetailInv, [Next]_vars
    PROVE  AnswersAreFresh'
  <1>. DetailTypeOK /\ AnswersHonest /\ HoldersWait /\ SecretsOK(secrets)
    BY SecretsTyped DEF DetailInv
  <1>. /\ detail_view # NIL => FreshView(detail_view)
       /\ \A key \in Keys : tabs[key] # NIL => FreshTab(tabs[key])
       /\ \A s \in Secrets : secrets[s] # NIL => FreshSecret(secrets[s])
    BY DEF DetailInv, AnswersAreFresh, FreshView, FreshTab, FreshSecret
  <1>1. ASSUME detail_view' # NIL PROVE FreshView(detail_view')
    <2>1. CASE detail_view' = detail_view
      BY <1>1, <2>1
    <2>2. ASSUME NEW r \in Resources, OpenDetail(r) PROVE FreshView(detail_view')
      BY <2>2 DEF OpenDetail, FreshView
    <2>3. ASSUME NEW answer \in answers, ViewAnswered(answer) PROVE FreshView(detail_view')
      <3>1. /\ detail_view # NIL /\ detail_view \in Panel
            /\ detail_view.pending_request_id # NIL
            /\ SameRequest(answer.task, detail_view.pending_request_id, "detail",
                           detail_view.resource)
        BY <2>3, HolderTypes
        DEF ViewAnswered, ReceiveDetail, Awaits, SameRequest, DetailTypeOK, Task
      <3>2. /\ answer.yaml # NIL => answer.yaml.version >= detail_view.asked
            /\ answer.events # NIL => answer.events >= detail_view.asked
        BY <3>1, TakenIsFresh DEF HoldersWait
      <3>3. /\ detail_view'.yaml = answer.yaml /\ detail_view'.events = answer.events
            /\ detail_view'.asked = detail_view.asked
        BY <2>3, <3>1 DEF ViewAnswered, Panel
      <3>. QED BY <3>2, <3>3 DEF FreshView
    <2>. QED BY <1>1, <2>1, <2>2, <2>3, ViewSteps
  <1>2. ASSUME NEW key \in Keys, tabs'[key] # NIL PROVE FreshTab(tabs'[key])
    <2>1. CASE tabs'[key] = tabs[key]
      BY <1>2, <2>1
    <2>2. CASE TabShown(key)
      BY <2>2 DEF TabShown, Loaded, Part, FreshView, FreshTab
    <2>3. CASE TabAsked(key)
      <3>1. Request(ChannelOf(key), key[2]).id \in Requests
        BY <2>3, PartType, RequestType DEF TabAsked, Ask
      <3>. QED BY <2>3, <3>1, HolderTypes DEF TabAsked, FreshTab
    <2>4. ASSUME NEW answer \in answers, TabAnswered(key, answer) PROVE FreshTab(tabs'[key])
      <3>1. /\ tabs[key] # NIL /\ tabs[key] \in Tab
            /\ tabs[key].pending_request_id # NIL
            /\ SameRequest(answer.task, tabs[key].pending_request_id, ChannelOf(key), key[2])
        BY <2>4, HolderTypes DEF TabAnswered, Awaits, SameRequest, DetailTypeOK, Task
      <3>2. Part(key[1], answer) # NIL => Part(key[1], answer) >= tabs[key].asked
        BY <3>1, TakenIsFresh DEF HoldersWait
      <3>3. /\ tabs'[key].content = Part(key[1], answer)
            /\ tabs'[key].asked = tabs[key].asked
        BY <2>4, <3>1 DEF TabAnswered, Tab
      <3>. QED BY <3>2, <3>3 DEF FreshTab
    <2>. QED BY <1>2, <2>1, <2>2, <2>3, <2>4, TabSteps
  <1>3. ASSUME NEW s \in Secrets, secrets'[s] # NIL PROVE FreshSecret(secrets'[s])
    <2>. s \in Resources
      BY SecretsAssumption
    <2>1. CASE secrets'[s] = secrets[s]
      BY <1>3, <2>1
    <2>2. CASE Edited(s)
      BY <2>2 DEF Edited, FreshSecret, SecretsOK, SecretTab
    <2>3. CASE Saved(s)
      <3>1. /\ secrets[s] # NIL /\ secrets[s] \in SecretTab
            /\ version'[s] = version[s] + 1
        BY <2>3 DEF Saved, SaveDecodedSecret, SecretsOK, DetailTypeOK
      <3>2. /\ secrets[s].asked <= version[s]
            /\ secrets[s].asked \in Versions /\ version[s] \in Versions
        BY <3>1, HolderTypes DEF HoldersWait, Waits, World
      <3>3. secrets'[s].source.version = version'[s] /\ secrets'[s].asked = secrets[s].asked
        BY <2>3, <3>1 DEF Saved, SecretTab
      <3>. QED BY <3>1, <3>2, <3>3 DEF FreshSecret, Versions
    <2>4. CASE Reopened(s)
      <3> DEFINE tab == IF secrets[s] = NIL THEN NewSecretTab(s) ELSE secrets[s]
      <3>1. SecretTabOK(tab) /\ FreshSecret(tab)
        BY NewSecretTabType DEF SecretsOK, NewSecretTab, FreshSecret
      <3>2. secrets'[s] = Opened(tab, s)
        BY <2>4 DEF Reopened
      <3> HIDE DEF tab
      <3>3. CASE HasLocalEdits(tab)
        BY <3>1, <3>2, <3>3 DEF Opened
      <3>4. CASE ~HasLocalEdits(tab) /\ Loaded(s)
        <4>1. /\ secrets'[s].source = detail_view.yaml
              /\ secrets'[s].asked = detail_view.asked
          BY <3>1, <3>2, <3>4 DEF Opened, Decoded, SecretTabOK, SecretTab
        <4>. QED BY <3>4, <4>1 DEF Loaded, FreshView, FreshSecret
      <3>5. CASE ~HasLocalEdits(tab) /\ ~Loaded(s)
        BY <3>1, <3>2, <3>5 DEF Opened, SecretTabOK, SecretTab, FreshSecret
      <3>. QED BY <3>3, <3>4, <3>5
    <2>5. ASSUME NEW answer \in answers, Answered(s, answer) PROVE FreshSecret(secrets'[s])
      <3>1. /\ secrets[s] # NIL /\ secrets[s] \in SecretTab
            /\ secrets[s].pending_request_id # NIL
            /\ SameRequest(answer.task, secrets[s].pending_request_id, "detail", s)
        BY <2>5, HolderTypes
        DEF Answered, ReceiveDetail, Awaits, SameRequest, SecretsOK, Task
      <3>2. answer.yaml # NIL => answer.yaml.version >= secrets[s].asked
        BY <3>1, TakenIsFresh DEF HoldersWait
      <3>3. CASE HasLocalEdits(secrets[s])
        BY <2>5, <3>1, <3>3 DEF Answered, AnsweredSecret, FreshSecret, SecretTab
      <3>4. CASE ~HasLocalEdits(secrets[s])
        <4>1. /\ secrets'[s].source = answer.yaml
              /\ secrets'[s].asked = secrets[s].asked
          BY <2>5, <3>1, <3>4 DEF Answered, AnsweredSecret, Decoded, SecretTab
        <4>. QED BY <3>2, <4>1 DEF FreshSecret
      <3>. QED BY <3>3, <3>4
    <2>. QED BY <1>3, <2>1, <2>2, <2>3, <2>4, <2>5, SecretSteps
  <1>. QED BY <1>1, <1>2, <1>3 DEF AnswersAreFresh, FreshView, FreshTab, FreshSecret

-----------------------------------------------------------------------------
(* The theorems                                                            *)

LEMMA DetailInvInit == Init => DetailInv
  <1>. SUFFICES ASSUME Init PROVE DetailInv
    OBVIOUS
  <1>1. DetailTypeOK
    <2>1. 1 \in Versions /\ 0 \in 0 .. MaxGeneration
      BY BoundsAssumption DEF Versions
    <2>2. OthersOK
      BY <2>1 DEF Init, OthersOK
    <2>3. SecretsOK(secrets)
      BY DEF Init, SecretsOK
    <2>. QED BY <2>2, <2>3, TypeParts
  <1>2. RequestsKnown /\ AnswersHonest
    BY DEF Init, RequestsKnown, AnswersHonest, Requested
  <1>3. HoldersWait /\ AnswersAreFresh /\ EntriesMatchSource
    BY DEF Init, HoldersWait, AnswersAreFresh, EntriesMatchSource
  <1>. QED BY <1>1, <1>2, <1>3 DEF DetailInv

LEMMA DetailInvNext == DetailInv /\ [Next]_vars => DetailInv'
  <1>. SUFFICES ASSUME DetailInv, [Next]_vars PROVE DetailInv'
    OBVIOUS
  <1>1. DetailTypeOK'
    BY TypeStep DEF DetailInv
  <1>2. RequestsKnown' /\ AnswersHonest'
    BY WorldSteps, HonestStep DEF DetailInv
  <1>3. HoldersWait'
    BY ViewWaits, TabWaits, SecretWaits DEF HoldersWait
  <1>4. AnswersAreFresh' /\ EntriesMatchSource'
    BY FreshStep, MatchStep DEF DetailInv
  <1>. QED BY <1>1, <1>2, <1>3, <1>4 DEF DetailInv

\* The inductive invariant of the panel and the tabs.
THEOREM DetailsAreSound == Spec => []DetailInv
  BY DetailInvInit, DetailInvNext, PTL DEF Spec

\* The variables keep their types; edits always have the entries they change.
THEOREM DetailTypeCorrect == Spec => []DetailTypeOK
  <1>. DetailInv => DetailTypeOK
    BY DEF DetailInv
  <1>. QED BY DetailsAreSound, PTL

\* Nothing loads for ever, what was opened while a switch of context was pending
\* that then succeeded apart.
THEOREM NothingLoadsForEver == Spec => []LoadingIsCarried
  <1>1. DetailInv => LoadingIsCarried
    <2>. SUFFICES ASSUME DetailInv PROVE LoadingIsCarried
      OBVIOUS
    <2>. DetailTypeOK /\ HoldersWait
      BY DEF DetailInv
    <2>1. ASSUME NEW channel \in Channels, NEW r, NEW id \in Requests \cup {NIL}, NEW asked,
                 Waits(id, asked, channel, r, World)
          PROVE  id \in {NIL} \cup 1 .. stranded[channel] \/ Carried(channel, r, id)
      <3>1. CASE id = NIL
        BY <3>1
      <3>2. CASE id # NIL /\ id <= stranded[channel]
        BY <3>2 DEF Requests, DetailTypeOK
      <3>3. ASSUME NEW task \in Requested, SameRequest(task, id, channel, r),
                   task.context_generation = context_generation
            PROVE  Carried(channel, r, id)
        BY <3>3 DEF Carried, Requested, SameRequest
      <3>. QED BY <2>1, <3>1, <3>2, <3>3 DEF Waits, World
    <2>2. "detail" \in Channels /\ \A key \in Keys : ChannelOf(key) \in Channels
      BY PartType DEF Channels
    <2>. QED BY <2>1, <2>2, HolderTypes DEF LoadingIsCarried, HoldersWait
  <1>. QED BY <1>1, DetailsAreSound, PTL

\* What is shown as loaded was read after it was asked for.
THEOREM ShownIsFresh == Spec => []AnswersAreFresh
  <1>. DetailInv => AnswersAreFresh
    BY DEF DetailInv
  <1>. QED BY DetailsAreSound, PTL

\* The entries that a save writes were decoded from the YAML they go into.
THEOREM SavesAreOfOneRead == Spec => []EntriesMatchSource
  <1>. DetailInv => EntriesMatchSource
    BY DEF DetailInv
  <1>. QED BY DetailsAreSound, PTL

\* Edits go away only with a save, with their tab, or by the user's keys.
THEOREM EditsAreKept == Spec => EditsSurvive
  <1>1. DetailInv /\ [Next]_vars =>
           [\A s \in Secrets :
              (secrets[s] # NIL /\ HasLocalEdits(secrets[s]) /\ secrets'[s] # NIL) =>
                  \/ [secrets'[s] EXCEPT !.pending_request_id = NIL]
                        = [secrets[s] EXCEPT !.pending_request_id = NIL]
                  \/ StartEdit(s) \/ CommitEdit(s) \/ CancelEdit(s)
                  \/ SaveDecodedSecret(s)]_vars
    BY EditStep DEF DetailInv
  <1>. QED BY <1>1, DetailsAreSound, PTL DEF Spec, EditsSurvive

=============================================================================
