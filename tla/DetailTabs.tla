----------------------------- MODULE DetailTabs -----------------------------
(***************************************************************************)
(* The detail panel and the tabs that show one resource: its YAML, its     *)
(* events, the drift from what was applied, and the decoded Secret, which  *)
(* can be edited and saved.                                                *)
(*                                                                         *)
(* Each asks a task for what it shows and takes the answer whose request   *)
(* id it waits for; a tab opened from a loaded panel takes that panel's    *)
(* contents instead.  What is read of a resource is the version it had.    *)
(* The loop awaits a save, so it is one step.  Left out: access reviews,   *)
(* which open nothing; scrolling and masking; the other parts of the       *)
(* panel.  A fetch of details never fails as a whole: fetch_detail_view    *)
(* keeps the errors of its parts.                                          *)
(***************************************************************************)
EXTENDS Integers

CONSTANTS
    Resources,      \* the resources that can be opened
    Secrets,        \* those among them that are Secrets
    NIL,            \* nothing
    MaxVersion,     \* bound on the versions of a resource
    MaxRequest,     \* bound on the requests of both channels
    MaxGeneration   \* bound on the changes of namespace and context

ASSUME SecretsAssumption == Secrets \subseteq Resources
ASSUME NilAssumption == NIL \notin Nat
ASSUME BoundsAssumption ==
    MaxVersion \in Nat \ {0} /\ MaxRequest \in Nat /\ MaxGeneration \in Nat

VARIABLES
    context_generation, \* RefreshRuntimeState::context_generation
    switching,          \* pending_context_switch is some
    version,            \* of each resource in the cluster
    request_seq,        \* detail_request_seq, resource_diff_request_seq
    tasks,              \* the fetches that run
    answers,            \* what they have read, on its way to the loop
    detail_view,        \* AppState::detail_view, or NIL
    tabs,               \* ResourceYaml, ResourceEvents and ResourceDiff, or NIL
    secrets,            \* DecodedSecret, or NIL
    stranded            \* history: the requests before the last switch of context

vars == <<context_generation, switching, version, request_seq, tasks, answers,
          detail_view, tabs, secrets, stranded>>

asking == <<request_seq, tasks>>
selection == <<context_generation, switching, stranded>>

Channels == {"detail", "diff"}
Versions == 1 .. MaxVersion
Requests == 1 .. MaxRequest

\* Secrets have no events tab.
Keys == ({"Yaml", "Diff"} \X Resources) \cup ({"Events"} \X (Resources \ Secrets))

\* Where a tab's answer comes from.
ChannelOf(key) == IF key[1] = "Diff" THEN "diff" ELSE "detail"

Task == [channel : Channels, id : Requests, resource : Resources,
         context_generation : Nat, asked : Versions]

\* A YAML whose Secret cannot be decoded is truncated, or stands for a denial.
Yaml == [version : Versions, readable : BOOLEAN]

\* yaml = NIL is a YAML error, events = NIL an events error.
Answer == [task : Task, yaml : Yaml \cup {NIL}, events : Versions \cup {NIL}]

\* "loading" is to have a pending request.  asked, here and below, is the
\* version the resource had when what is shown was asked for: a history field.
Panel == [resource : Resources, pending_request_id : Requests \cup {NIL},
          yaml : Yaml \cup {NIL}, events : Versions \cup {NIL}, asked : Versions]

Tab == [pending_request_id : Requests \cup {NIL}, content : Versions \cup {NIL},
        asked : Versions]

\* entries is the version they were decoded from, NIL when there are none.
SecretTab == [pending_request_id : Requests \cup {NIL}, source : Yaml \cup {NIL},
              entries : Versions \cup {NIL}, dirty : BOOLEAN, editing : BOOLEAN,
              asked : Versions]

\* has_local_edit_state
HasLocalEdits(tab) == tab.editing \/ tab.dirty

DetailTypeOK ==
    /\ context_generation \in 0 .. MaxGeneration
    /\ switching \in BOOLEAN
    /\ version \in [Resources -> Versions]
    /\ request_seq \in [Channels -> Requests \cup {0}]
    /\ tasks \subseteq Task
    /\ answers \subseteq Answer
    /\ detail_view \in Panel \cup {NIL}
    /\ tabs \in [Keys -> Tab \cup {NIL}]
    /\ secrets \in [Secrets -> SecretTab \cup {NIL}]
    /\ \A s \in Secrets : secrets[s] # NIL =>
          /\ HasLocalEdits(secrets[s]) => secrets[s].entries # NIL
          /\ secrets[s].source # NIL => secrets[s].pending_request_id = NIL
    /\ stranded \in [Channels -> Requests \cup {0}]

Init ==
    /\ context_generation = 0
    /\ switching = FALSE
    /\ version = [r \in Resources |-> 1]
    /\ request_seq = [c \in Channels |-> 0]
    /\ tasks = {}
    /\ answers = {}
    /\ detail_view = NIL
    /\ tabs = [key \in Keys |-> NIL]
    /\ secrets = [s \in Secrets |-> NIL]
    /\ stranded = [c \in Channels |-> 0]

-----------------------------------------------------------------------------
(* Asking                                                                  *)

\* The request that would be made now.
Request(channel, r) ==
    [channel |-> channel, id |-> request_seq[channel] + 1, resource |-> r,
     context_generation |-> context_generation, asked |-> version[r]]

\* next_request_id, and the task that is spawned
Ask(request) ==
    /\ request_seq["detail"] + request_seq["diff"] < MaxRequest
    /\ request_seq' = [request_seq EXCEPT ![request.channel] = request.id]
    /\ tasks' = tasks \cup {request}

\* Keys of the list act on what is selected, those of the panel on its resource.
Opens(r) == detail_view # NIL => detail_view.resource = r

\* The panel has the details of the resource.
Loaded(r) ==
    /\ detail_view # NIL
    /\ detail_view.resource = r
    /\ detail_view.pending_request_id = NIL

\* open_detail_for_resource
OpenDetail(r) ==
    /\ Ask(Request("detail", r))
    /\ detail_view' =
          [resource |-> r, pending_request_id |-> Request("detail", r).id,
           yaml |-> NIL, events |-> NIL, asked |-> version[r]]
    /\ UNCHANGED <<selection, version, answers, tabs, secrets>>

\* A key, a mutation, or another selection
CloseDetail ==
    /\ detail_view # NIL
    /\ detail_view' = NIL
    /\ UNCHANGED <<selection, version, asking, answers, tabs, secrets>>

\* The part of a panel or of an answer that a tab shows.
Part(kind, details) ==
    IF kind = "Events" THEN details.events
    ELSE IF details.yaml = NIL THEN NIL ELSE details.yaml.version

Content(key) == IF tabs[key] = NIL THEN NIL ELSE tabs[key].content

\* handle_open_resource_yaml, handle_open_resource_events: from the panel if it
\* is loaded.  Otherwise an open tab shows what it had until the answer comes.
OpenResource(key) ==
    LET r == key[2]
    IN  /\ key[1] # "Diff"
        /\ Opens(r)
        /\ \/ /\ Loaded(r)
              /\ tabs' = [tabs EXCEPT ![key] =
                    [pending_request_id |-> NIL,
                     content |-> Part(key[1], detail_view),
                     asked |-> detail_view.asked]]
              /\ UNCHANGED asking
           \/ /\ ~Loaded(r)
              /\ Ask(Request("detail", r))
              /\ tabs' = [tabs EXCEPT ![key] =
                    [pending_request_id |-> Request("detail", r).id,
                     content |-> Content(key),
                     asked |-> version[r]]]
        /\ detail_view' = NIL
        /\ UNCHANGED <<selection, version, answers, secrets>>

\* handle_open_resource_diff: always asks, and clears an open tab.
OpenResourceDiff(r) ==
    /\ Opens(r)
    /\ Ask(Request("diff", r))
    /\ tabs' = [tabs EXCEPT ![<<"Diff", r>>] =
          [pending_request_id |-> Request("diff", r).id, content |-> NIL,
           asked |-> version[r]]]
    /\ detail_view' = NIL
    /\ UNCHANGED <<selection, version, answers, secrets>>

-----------------------------------------------------------------------------
(* Decoded Secrets                                                         *)

\* DecodedSecretTabState::new
NewSecretTab(s) ==
    [pending_request_id |-> NIL, source |-> NIL, entries |-> NIL,
     dirty |-> FALSE, editing |-> FALSE, asked |-> version[s]]

\* The tab with a YAML or an error.  A YAML that cannot be decoded leaves the
\* entries given.
Decoded(tab, yaml, otherwise) ==
    [tab EXCEPT
        !.pending_request_id = NIL,
        !.source = yaml,
        !.entries = IF yaml = NIL THEN NIL
                    ELSE IF yaml.readable THEN yaml.version ELSE otherwise]

\* Seeded bug: the source is replaced under the edits.
OpenOverEdits(tab, s) ==
    IF Loaded(s)
    THEN [(IF HasLocalEdits(tab) THEN [tab EXCEPT !.source = detail_view.yaml]
           ELSE Decoded(tab, detail_view.yaml, tab.entries))
          EXCEPT !.asked = detail_view.asked]
    ELSE [tab EXCEPT !.pending_request_id = Request("detail", s).id,
                     !.source = NIL, !.asked = version[s]]

\* open_decoded_secret_tab, and the decoding of the panel's YAML: local edits
\* keep the tab as it is, although a fetch may be spawned; otherwise the
\* entries stay until the answer comes.
Opened(tab, s) ==
    IF HasLocalEdits(tab) THEN tab
    ELSE IF Loaded(s)
    THEN [Decoded(tab, detail_view.yaml, tab.entries) EXCEPT !.asked = detail_view.asked]
    ELSE [tab EXCEPT !.pending_request_id = Request("detail", s).id,
                     !.source = NIL, !.asked = version[s]]

\* handle_open_decoded_secret
OpenDecodedSecret(s) ==
    /\ Opens(s)
    /\ IF Loaded(s) THEN UNCHANGED asking ELSE Ask(Request("detail", s))
    /\ secrets' = [secrets EXCEPT ![s] =
          Opened(IF @ = NIL THEN NewSecretTab(s) ELSE @, s)]
    /\ detail_view' = NIL
    /\ UNCHANGED <<selection, version, answers, tabs>>

\* An entry is opened in the editor, also while the tab is loading.
StartEdit(s) ==
    /\ secrets[s] # NIL
    /\ ~secrets[s].editing
    /\ secrets[s].entries # NIL
    /\ secrets' = [secrets EXCEPT ![s].editing = TRUE]
    /\ UNCHANGED <<selection, version, asking, answers, detail_view, tabs>>

\* commit_edit, which may also restore what the entry was; CancelEdit is Esc.
CommitEdit(s) ==
    /\ secrets[s] # NIL
    /\ secrets[s].editing
    /\ \E dirty \in BOOLEAN :
          secrets' = [secrets EXCEPT ![s].editing = FALSE, ![s].dirty = dirty]
    /\ UNCHANGED <<selection, version, asking, answers, detail_view, tabs>>

CancelEdit(s) ==
    /\ secrets[s] # NIL
    /\ secrets[s].editing
    /\ secrets' = [secrets EXCEPT ![s].editing = FALSE]
    /\ UNCHANGED <<selection, version, asking, answers, detail_view, tabs>>

\* SaveDecodedSecret, when the source is loaded and can be encoded and the
\* cluster takes it: the tab then shows what was applied.
SaveDecodedSecret(s) ==
    /\ secrets[s] # NIL
    /\ secrets[s].dirty
    /\ ~secrets[s].editing
    /\ secrets[s].source # NIL
    /\ secrets[s].source.readable
    /\ version[s] < MaxVersion
    /\ version' = [version EXCEPT ![s] = @ + 1]
    /\ secrets' = [secrets EXCEPT
          ![s].source = [version |-> version'[s], readable |-> TRUE],
          ![s].entries = version'[s],
          ![s].dirty = FALSE]
    /\ UNCHANGED <<selection, asking, answers, detail_view, tabs>>

-----------------------------------------------------------------------------
(* Answers                                                                 *)

\* The resource is changed by somebody else.
ResourceChanges(r) ==
    /\ version[r] < MaxVersion
    /\ version' = [version EXCEPT ![r] = @ + 1]
    /\ UNCHANGED <<selection, asking, answers, detail_view, tabs, secrets>>

\* What a task can have read by now.  The requests of fetch_detail_view run at
\* the same time, so each has its own version.
Readings(task) ==
    LET read == task.asked .. version[task.resource]
        yaml == {NIL} \cup
            [version : read,
             readable : IF task.resource \in Secrets /\ task.channel = "detail"
                        THEN BOOLEAN ELSE {TRUE}]
        events == IF task.resource \in Secrets \/ task.channel = "diff"
                  THEN {NIL} ELSE {NIL} \cup read
    IN  [task : {task}, yaml : yaml, events : events]

TaskAnswers(task) ==
    /\ tasks' = tasks \ {task}
    /\ \E answer \in Readings(task) : answers' = answers \cup {answer}
    /\ UNCHANGED <<selection, version, request_seq, detail_view, tabs, secrets>>

Current(answer) == answer.task.context_generation = context_generation

\* Seeded bug: the answer is taken for its resource.
AwaitsResource(tab, answer) == tab # NIL /\ tab.pending_request_id # NIL

\* What is open waits for this very request.
Awaits(tab, answer) ==
    tab # NIL /\ tab.pending_request_id = answer.task.id

\* apply_detail_state_to_workbench and apply_resource_diff_result_to_workbench
\* (or ..._error_...): the tabs of the answer's resource and channel.
AnsweredTabs(answer) ==
    [key \in Keys |->
        IF /\ key[2] = answer.task.resource
           /\ ChannelOf(key) = answer.task.channel
           /\ Awaits(tabs[key], answer)
        THEN [tabs[key] EXCEPT !.pending_request_id = NIL,
                               !.content = Part(key[1], answer)]
        ELSE tabs[key]]

\* Seeded bug: the answer replaces what is edited.
DecodeOverEdits(tab, answer) == Decoded(tab, answer.yaml, NIL)

\* Local edits are kept, and the source they need with them.
AnsweredSecret(tab, answer) ==
    IF HasLocalEdits(tab) THEN [tab EXCEPT !.pending_request_id = NIL]
    ELSE Decoded(tab, answer.yaml, NIL)

\* The arm of detail_rx; an answer of an earlier generation is dropped.
ReceiveDetail(answer) ==
    /\ answer.task.channel = "detail"
    /\ answers' = answers \ {answer}
    /\ LET r == answer.task.resource
       IN  IF Current(answer)
           THEN /\ tabs' = AnsweredTabs(answer)
                /\ secrets' = [s \in Secrets |->
                      IF s = r /\ Awaits(secrets[s], answer)
                      THEN AnsweredSecret(secrets[s], answer) ELSE secrets[s]]
                /\ detail_view' =
                      IF Awaits(detail_view, answer) /\ detail_view.resource = r
                      THEN [detail_view EXCEPT !.pending_request_id = NIL,
                               !.yaml = answer.yaml, !.events = answer.events]
                      ELSE detail_view
           ELSE UNCHANGED <<tabs, secrets, detail_view>>
    /\ UNCHANGED <<selection, version, asking>>

\* The arm of resource_diff_rx
ReceiveDiff(answer) ==
    /\ answer.task.channel = "diff"
    /\ answers' = answers \ {answer}
    /\ tabs' = IF Current(answer) THEN AnsweredTabs(answer) ELSE tabs
    /\ UNCHANGED <<selection, version, asking, detail_view, secrets>>

-----------------------------------------------------------------------------
(* Closing and switching                                                   *)

CloseTab(key) ==
    /\ tabs[key] # NIL
    /\ tabs' = [tabs EXCEPT ![key] = NIL]
    /\ UNCHANGED <<selection, version, asking, answers, detail_view, secrets>>

CloseSecretTab(s) ==
    /\ secrets[s] # NIL
    /\ secrets' = [secrets EXCEPT ![s] = NIL]
    /\ UNCHANGED <<selection, version, asking, answers, detail_view, tabs>>

NewGeneration ==
    /\ context_generation < MaxGeneration
    /\ context_generation' = context_generation + 1

\* Seeded bug: the panel and the tabs stay open.
KeepOpen == UNCHANGED <<detail_view, tabs, secrets>>

\* close_detail_runtime, close_resource_tabs
CloseResources ==
    /\ detail_view' = NIL
    /\ tabs' = [key \in Keys |-> NIL]
    /\ secrets' = [s \in Secrets |-> NIL]

SelectNamespace ==
    /\ NewGeneration
    /\ CloseResources
    /\ UNCHANGED <<switching, stranded, version, asking, answers>>

SelectContext ==
    /\ NewGeneration
    /\ switching' = TRUE
    /\ CloseResources
    /\ UNCHANGED <<stranded, version, asking, answers>>

\* What was opened since SelectContext stays, unless a workspace is restored.
\* The resources are those of the new cluster from here on.
ContextSwitchSucceeds(restoring) ==
    /\ switching
    /\ NewGeneration
    /\ switching' = FALSE
    /\ stranded' = request_seq
    /\ IF restoring THEN CloseResources ELSE UNCHANGED <<detail_view, tabs, secrets>>
    /\ UNCHANGED <<version, asking, answers>>

ContextSwitchFails ==
    /\ switching
    /\ switching' = FALSE
    /\ UNCHANGED <<context_generation, stranded, version, asking, answers,
                   detail_view, tabs, secrets>>

-----------------------------------------------------------------------------
Next ==
    \/ \E r \in Resources : OpenDetail(r)
    \/ CloseDetail
    \/ \E key \in Keys : OpenResource(key)
    \/ \E r \in Resources : OpenResourceDiff(r)
    \/ \E s \in Secrets : OpenDecodedSecret(s)
    \/ \E s \in Secrets : StartEdit(s)
    \/ \E s \in Secrets : CommitEdit(s)
    \/ \E s \in Secrets : CancelEdit(s)
    \/ \E s \in Secrets : SaveDecodedSecret(s)
    \/ \E r \in Resources : ResourceChanges(r)
    \/ \E task \in tasks : TaskAnswers(task)
    \/ \E answer \in answers : ReceiveDetail(answer)
    \/ \E answer \in answers : ReceiveDiff(answer)
    \/ \E key \in Keys : CloseTab(key)
    \/ \E s \in Secrets : CloseSecretTab(s)
    \/ SelectNamespace
    \/ SelectContext
    \/ \E restoring \in BOOLEAN : ContextSwitchSucceeds(restoring)
    \/ ContextSwitchFails

Spec == Init /\ [][Next]_vars

-----------------------------------------------------------------------------
(* Properties                                                              *)

\* A request of this generation is on its way to whoever waits for it.
Carried(channel, r, id) ==
    \E task \in tasks \cup {answer.task : answer \in answers} :
        /\ task.channel = channel
        /\ task.resource = r
        /\ task.id = id
        /\ task.context_generation = context_generation

\* Nothing loads for ever: the panel or the tab that shows "loading" waits for a
\* request whose answer will be taken, whatever was closed, opened again or
\* switched since.  The exception is what was opened while a switch of context
\* was pending that then succeeded: it stays open, and its answer is dropped.
LoadingIsCarried ==
    LET Served(channel, r, id) ==
            id \in {NIL} \cup 1 .. stranded[channel] \/ Carried(channel, r, id)
    IN  /\ detail_view # NIL =>
              Served("detail", detail_view.resource, detail_view.pending_request_id)
        /\ \A key \in Keys : tabs[key] # NIL =>
              Served(ChannelOf(key), key[2], tabs[key].pending_request_id)
        /\ \A s \in Secrets : secrets[s] # NIL =>
              Served("detail", s, secrets[s].pending_request_id)

\* What is shown as loaded was read after it was asked for: the late answer of
\* an earlier request never takes the place of the one that is waited for.
AnswersAreFresh ==
    /\ detail_view # NIL =>
          /\ detail_view.yaml # NIL => detail_view.yaml.version >= detail_view.asked
          /\ detail_view.events # NIL => detail_view.events >= detail_view.asked
    /\ \A key \in Keys :
          (/\ tabs[key] # NIL
           /\ tabs[key].pending_request_id = NIL
           /\ tabs[key].content # NIL) => tabs[key].content >= tabs[key].asked
    /\ \A s \in Secrets :
          (secrets[s] # NIL /\ secrets[s].source # NIL) =>
              secrets[s].source.version >= secrets[s].asked

\* A save writes all entries into the source: they were decoded from that very
\* source, so that it never takes back what others have changed between two
\* reads of the Secret.
EntriesMatchSource ==
    \A s \in Secrets :
        (/\ secrets[s] # NIL
         /\ secrets[s].source # NIL
         /\ secrets[s].source.readable) =>
            secrets[s].entries = secrets[s].source.version

\* Neither an answer nor another opening of the tab touches what is being edited
\* or the source it was decoded from: edits go away with a save, with their tab,
\* or by the user's keys.
EditsSurvive ==
    [][\A s \in Secrets :
          (secrets[s] # NIL /\ HasLocalEdits(secrets[s]) /\ secrets'[s] # NIL) =>
              \/ [secrets'[s] EXCEPT !.pending_request_id = NIL]
                    = [secrets[s] EXCEPT !.pending_request_id = NIL]
              \/ StartEdit(s) \/ CommitEdit(s) \/ CancelEdit(s)
              \/ SaveDecodedSecret(s)]_vars

=============================================================================
