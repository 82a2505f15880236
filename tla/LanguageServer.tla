--------------------------- MODULE LanguageServer ----------------------------
(***************************************************************************)
(* The running server of src/src/server.rs: the main thread that handles   *)
(* the client's messages one after the other, the validation worker, the   *)
(* RwLock<ServerState> they share, and the writer thread to which both     *)
(* hand messages over a rendezvous channel.                                *)
(*                                                                         *)
(* An action is one critical section, one blocking hand-over or one        *)
(* download.  The lock is not a variable: sections that hold it run within *)
(* one action, with a single exception.  A handler that answers while its  *)
(* read guard is alive is in step "replyLocked", and a write section of    *)
(* the other thread waits for it.                                          *)
(*                                                                         *)
(* A text is represented by the number of the client message that created  *)
(* it (its version), by whether it is free of syntax errors, and by the    *)
(* schema its "$schema" property names.                                    *)
(***************************************************************************)
EXTENDS SchemaStore

CONSTANTS
    Texts,      \* what a client may type: records [clean, inline]
    Settings,   \* association lists a client may configure
    Conformant, \* whether the client keeps to the order of didOpen ... didClose
    MaxMsgs     \* bound of the model: messages the client sends

ASSUME TextsType    == Texts \subseteq [clean : BOOLEAN, inline : SchemaUris \union {None}]
ASSUME SettingsType == Settings \subseteq Seq(Association)
ASSUME ConformantType == Conformant \in BOOLEAN
ASSUME FiniteUris   == IsFiniteSet(Uris)
ASSUME MsgsBound    == MaxMsgs \in Nat

Main == "main"
Validator == "validator"
Threads == {Main, Validator}

VARIABLES
    \* ServerState, under the lock
    docs,       \* open documents
    assocs,     \* schema associations, in the order of the configuration
    cache,      \* schema cache
    config,     \* number of the configuration in force, from 1
    \* the validation mailbox (LatestMailbox)
    slot,
    busy,
    last,
    \* the threads
    step,       \* where each thread is
    target,     \* document of the handler the main thread runs, or None
    inline,     \* per thread, the "$schema" read in its first section
    wanted,     \* per thread, the schema it must download, or None
    schema,     \* per thread, the schema requested or resolved: the configuration
                \* it dates from, 0 for none
    todo,       \* documents on_did_change_configuration has yet to schedule
    owed,       \* responses the running handler has yet to send
    job,        \* what the worker has computed about its document
    writing,    \* the writer thread is busy with a message
    \* the client
    shown,      \* diagnostics of each document in the order of the output stream
    issued,     \* messages sent by the client
    \* history, read by properties only
    late,       \* diagnostics sent for a closed document since it was cleared
    overtaken   \* schema whose download by the worker the last configuration change
                \* overtook, or None

store  == <<docs, assocs, cache, config>>
mailbox == <<slot, busy, last>>
thread == <<step, target, inline, wanted, schema, todo, owed, job>>
client == <<shown, issued>>
history == <<late, overtaken>>
vars   == <<store, mailbox, thread, writing, client, history>>

Mailbox == INSTANCE LatestMailbox

-----------------------------------------------------------------------------
(* Documents, diagnostics and the worker's results. *)

Document == [version : Nat, clean : BOOLEAN, inline : SchemaUris \union {None}]

Absent == [version |-> 0, clean |-> FALSE, inline |-> None]

Open(u) == docs[u].version # 0

\* Diagnostics: the version they carry, the version schema validation read (0:
\* it did not run), the configuration whose associations chose the schema, and
\* the configuration the content of that schema dates from (0: not used).
Diagnostics == [version : Nat, validated : Nat, config : Nat, content : Nat]

NoDiagnostics == [version |-> 0, validated |-> 0, config |-> 0, content |-> 0]

Job == [version : Nat, validated : Nat, config : Nat, content : Nat, clean : BOOLEAN]

NoJob == [version |-> 0, validated |-> 0, config |-> 0, content |-> 0, clean |-> FALSE]

\* Snapshot's results: the syntax diagnostics of a document.
SyntaxOf(doc) ==
    [version |-> doc.version, validated |-> 0, config |-> 0, content |-> 0,
     clean |-> doc.clean]

MainSteps ==
    {"idle", "schedule", "scheduleAll", "clear", "configure", "lookup", "agent",
     "fetch", "insert", "reread", "applyEdit", "reply", "replyLocked"}

ValidatorSteps ==
    {"idle", "snapshot", "lookup", "agent", "fetch", "insert", "validate",
     "publish", "sleep"}

\* Goto(t, s): thread t is at s next.
Goto(t, s) == step' = [step EXCEPT ![t] = s]

\* Thread t can take the lock for writing.
CanWrite(t) == t = Validator => step[Main] # "replyLocked"

\* The document a thread works on.
Subject(t) == IF t = Main THEN target ELSE busy

Init ==
    /\ docs = [u \in Uris |-> Absent]
    /\ assocs = <<>>
    /\ cache = EmptyCache
    /\ config = 1
    /\ Mailbox!Init
    /\ step = [t \in Threads |-> "idle"]
    /\ target = None
    /\ inline = [t \in Threads |-> None]
    /\ wanted = [t \in Threads |-> None]
    /\ schema = [t \in Threads |-> 0]
    /\ todo = {}
    /\ owed = 0
    /\ job = NoJob
    /\ writing = FALSE
    /\ shown = [u \in Uris |-> NoDiagnostics]
    /\ issued = 0
    /\ late = [u \in Uris |-> 0]
    /\ overtaken = None

-----------------------------------------------------------------------------
(* Document synchronisation.  A message is taken up only in step "idle":   *)
(* main_loop handles one message at a time.                                *)

Receive ==
    /\ step[Main] = "idle"
    /\ issued < MaxMsgs
    /\ issued' = issued + 1

\* A conformant client opens closed documents and changes, saves and closes
\* open ones; the server checks neither.
MayOpen(u) == Conformant => ~Open(u)
MayUse(u)  == Conformant => Open(u)

\* The text a client has just typed.
Typed(text) == [version |-> issued + 1, clean |-> text.clean, inline |-> text.inline]

\* on_did_open, write section.
DidOpen(u, text) ==
    /\ Receive
    /\ MayOpen(u)
    /\ docs' = [docs EXCEPT ![u] = Typed(text)]
    /\ target' = u
    /\ Goto(Main, "schedule")
    /\ UNCHANGED <<assocs, cache, config, mailbox, inline, wanted, schema, todo,
                   owed, job, writing, shown, history>>

\* Mutant of DidChange: the change is not scheduled for validation.
DidChangeUnscheduled(u, text) ==
    /\ Receive
    /\ MayUse(u)
    /\ docs' = IF Open(u) THEN [docs EXCEPT ![u] = Typed(text)] ELSE docs
    /\ UNCHANGED <<assocs, cache, config, mailbox, thread, writing, shown, history>>

\* on_did_change, write section: a document that is not open is left alone, but
\* its validation is scheduled all the same.
DidChange(u, text) ==
    /\ Receive
    /\ MayUse(u)
    /\ docs' = IF Open(u) THEN [docs EXCEPT ![u] = Typed(text)] ELSE docs
    /\ target' = u
    /\ Goto(Main, "schedule")
    /\ UNCHANGED <<assocs, cache, config, mailbox, inline, wanted, schema, todo,
                   owed, job, writing, shown, history>>

\* on_did_save; also on_did_change without content changes, which keeps the
\* text and the version.
DidSave(u) ==
    /\ Receive
    /\ MayUse(u)
    /\ target' = u
    /\ Goto(Main, "schedule")
    /\ UNCHANGED <<store, mailbox, inline, wanted, schema, todo, owed, job,
                   writing, shown, history>>

\* schedule_validate, after the write section.
Schedule ==
    /\ step[Main] = "schedule"
    /\ Mailbox!Post(target)
    /\ target' = None
    /\ Goto(Main, "idle")
    /\ UNCHANGED <<store, inline, wanted, schema, todo, owed, job, writing,
                   client, history>>

\* on_did_close, write section.
DidClose(u) ==
    /\ Receive
    /\ MayUse(u)
    /\ docs' = [docs EXCEPT ![u] = Absent]
    /\ target' = u
    /\ Goto(Main, "clear")
    /\ UNCHANGED <<assocs, cache, config, mailbox, inline, wanted, schema, todo,
                   owed, job, writing, shown, history>>

\* on_did_close, the empty diagnostics sent after the lock is released.
Clear ==
    /\ step[Main] = "clear"
    /\ ~writing
    /\ writing' = TRUE
    /\ shown' = [shown EXCEPT ![target] = NoDiagnostics]
    /\ late' = [late EXCEPT ![target] = 0]
    /\ target' = None
    /\ Goto(Main, "idle")
    /\ UNCHANGED <<store, mailbox, inline, wanted, schema, todo, owed, job,
                   issued, overtaken>>

-----------------------------------------------------------------------------
(* Configuration. *)

\* The schema the worker has sent for and not yet put into the cache.
InFlight == IF step[Validator] \in {"fetch", "insert"} THEN wanted[Validator] ELSE None

\* on_did_change_configuration logs the settings; without a json.schemas array
\* nothing else happens.
DidChangeConfiguration ==
    /\ Receive
    /\ ~writing
    /\ writing' = TRUE
    /\ \E s \in {"idle", "configure"} : Goto(Main, s)
    /\ UNCHANGED <<store, mailbox, target, inline, wanted, schema, todo, owed,
                   job, shown, history>>

\* Mutant of Configure: the schema cache is not cleared.
ConfigureKeepsCache(associations) ==
    /\ step[Main] = "configure"
    /\ assocs' = associations
    /\ config' = config + 1
    /\ todo' = {u \in Uris : Open(u)}
    /\ Goto(Main, IF todo' = {} THEN "idle" ELSE "scheduleAll")
    /\ overtaken' = InFlight
    /\ UNCHANGED <<docs, cache, mailbox, target, inline, wanted, schema, owed, job,
                   writing, client, late>>

\* The write section: forget the schemas, install the associations, collect
\* the open documents.
Configure(associations) ==
    /\ step[Main] = "configure"
    /\ cache' = EmptyCache
    /\ assocs' = associations
    /\ config' = config + 1
    /\ todo' = {u \in Uris : Open(u)}
    /\ Goto(Main, IF todo' = {} THEN "idle" ELSE "scheduleAll")
    /\ overtaken' = InFlight
    /\ UNCHANGED <<docs, mailbox, target, inline, wanted, schema, owed, job,
                   writing, client, late>>

\* One turn of the loop over the open documents, in the order of a HashMap.
ScheduleOne(u) ==
    /\ step[Main] = "scheduleAll"
    /\ u \in todo
    /\ Mailbox!Post(u)
    /\ todo' = todo \ {u}
    /\ Goto(Main, IF todo' = {} THEN "idle" ELSE "scheduleAll")
    /\ UNCHANGED <<store, target, inline, wanted, schema, owed, job, writing,
                   client, history>>

-----------------------------------------------------------------------------
(* Requests. *)

\* Mutant of SchemaRequest: no answer for a document that is not open.
SchemaRequestUnanswered(u) ==
    /\ Receive
    /\ owed' = 1
    /\ target' = u
    /\ inline' = [inline EXCEPT ![Main] = docs[u].inline]
    /\ Goto(Main, IF Open(u) THEN "lookup" ELSE "idle")
    /\ UNCHANGED <<store, mailbox, wanted, schema, todo, job, writing, shown, history>>

\* on_hover, on_completion, first section: without the document null is sent
\* at once, while the read guard is still alive.
SchemaRequest(u) ==
    /\ Receive
    /\ owed' = 1
    /\ target' = u
    /\ inline' = [inline EXCEPT ![Main] = docs[u].inline]
    /\ Goto(Main, IF Open(u) THEN "lookup" ELSE "replyLocked")
    /\ UNCHANGED <<store, mailbox, wanted, schema, todo, job, writing, shown,
                   history>>

\* on_hover, on_completion, second section: whether the document is there and
\* whether a schema was resolved only change the answer.
Reread ==
    /\ step[Main] = "reread"
    /\ Goto(Main, "replyLocked")
    /\ UNCHANGED <<store, mailbox, target, inline, wanted, schema, todo, owed,
                   job, writing, client, history>>

\* The handlers that read one document and answer with the guard alive:
\* symbols, formatting, colours, folding, selection, links, definition.
DocumentRequest ==
    /\ Receive
    /\ owed' = 1
    /\ Goto(Main, "replyLocked")
    /\ UNCHANGED <<store, mailbox, target, inline, wanted, schema, todo, job,
                   writing, shown, history>>

\* on_color_presentation and commands: answered without the lock; json.sort
\* sends a workspace/applyEdit request first when the document is open and
\* sorting changes it.
Command ==
    /\ Receive
    /\ owed' = 1
    /\ \/ Goto(Main, "reply")
       \/ (\E u \in Uris : Open(u)) /\ Goto(Main, "applyEdit")
    /\ UNCHANGED <<store, mailbox, target, inline, wanted, schema, todo, job,
                   writing, shown, history>>

ApplyEdit ==
    /\ step[Main] = "applyEdit"
    /\ ~writing
    /\ writing' = TRUE
    /\ Goto(Main, "reply")
    /\ UNCHANGED <<store, mailbox, target, inline, wanted, schema, todo, owed,
                   job, client, history>>

\* Responses, unknown methods and parameters that do not deserialise: nothing
\* happens, a request among them is never answered.
Ignore ==
    /\ Receive
    /\ UNCHANGED <<store, mailbox, thread, writing, shown, history>>

\* Mutant of Reply: a handler that answers with its guard alive answers again.
ReplyTwice ==
    /\ step[Main] \in {"reply", "replyLocked"}
    /\ ~writing
    /\ writing' = TRUE
    /\ owed' = owed - 1
    /\ Goto(Main, IF step[Main] = "replyLocked" THEN "reply" ELSE "idle")
    /\ UNCHANGED <<store, mailbox, target, inline, wanted, schema, todo, job,
                   client, history>>

\* send_response; the read guard, if any, is dropped once the writer thread
\* has taken the message.
Reply ==
    /\ step[Main] \in {"reply", "replyLocked"}
    /\ ~writing
    /\ writing' = TRUE
    /\ owed' = owed - 1
    /\ target' = None
    /\ inline' = [inline EXCEPT ![Main] = None]
    /\ schema' = [schema EXCEPT ![Main] = 0]
    /\ Goto(Main, "idle")
    /\ UNCHANGED <<store, mailbox, wanted, todo, job, client, history>>

-----------------------------------------------------------------------------
(* Schema resolution: resolve_schema on the main thread, the same sequence *)
(* written out in validate_and_publish on the worker.                      *)

AfterResolve(t) == IF t = Main THEN "reread" ELSE "validate"

\* Read section: schema_for_document.  The worker's results belong to the
\* configuration whose associations it has consulted.
Lookup(t) ==
    LET s == SchemaUriFor(assocs, Subject(t), inline[t])
    IN  /\ step[t] = "lookup"
        /\ \/ /\ s = None
              /\ Goto(t, AfterResolve(t))
              /\ UNCHANGED <<wanted, schema>>
           \/ /\ s # None /\ cache[s] # 0
              /\ schema' = [schema EXCEPT ![t] = cache[s]]
              /\ Goto(t, AfterResolve(t))
              /\ UNCHANGED wanted
           \/ /\ s # None /\ cache[s] = 0
              /\ wanted' = [wanted EXCEPT ![t] = s]
              /\ Goto(t, "agent")
              /\ UNCHANGED schema
        /\ job' = IF t = Validator THEN [job EXCEPT !.config = config] ELSE job
        /\ UNCHANGED <<store, mailbox, target, inline, todo, owed, writing,
                       client, history>>

\* http_agent: a write section that only creates the agent on first use.  The
\* request goes out: the content is what the other side serves from now on.
HttpAgent(t) ==
    /\ step[t] = "agent"
    /\ CanWrite(t)
    /\ schema' = [schema EXCEPT ![t] = config]
    /\ Goto(t, "fetch")
    /\ UNCHANGED <<store, mailbox, target, inline, wanted, todo, owed, job,
                   writing, client, history>>

\* fetch_schema, without the lock, has the answer.
FetchDone(t) ==
    /\ step[t] = "fetch"
    /\ Goto(t, "insert")
    /\ UNCHANGED <<store, mailbox, target, inline, wanted, schema, todo, owed,
                   job, writing, client, history>>

\* Mutant of FetchFailed: the worker gives up without publishing.
FetchFailedSilently(t) ==
    /\ step[t] = "fetch"
    /\ wanted' = [wanted EXCEPT ![t] = None]
    /\ schema' = [schema EXCEPT ![t] = 0]
    /\ Goto(t, IF t = Main THEN "reread" ELSE "sleep")
    /\ UNCHANGED <<store, mailbox, target, inline, todo, owed, job, writing,
                   client, history>>

\* fetch_schema returns None: network error, time-out of 10 s, invalid JSON,
\* unsupported scheme.  The caller goes on without a schema.
FetchFailed(t) ==
    /\ step[t] = "fetch"
    /\ wanted' = [wanted EXCEPT ![t] = None]
    /\ schema' = [schema EXCEPT ![t] = 0]
    /\ Goto(t, AfterResolve(t))
    /\ UNCHANGED <<store, mailbox, target, inline, todo, owed, job, writing,
                   client, history>>

\* Write section: insert_cache.
Insert(t) ==
    /\ step[t] = "insert"
    /\ CanWrite(t)
    /\ cache' = InsertCache(cache, wanted[t], schema[t])
    /\ wanted' = [wanted EXCEPT ![t] = None]
    /\ Goto(t, AfterResolve(t))
    /\ UNCHANGED <<docs, assocs, config, mailbox, target, inline, schema, todo,
                   owed, job, writing, client, history>>

Resolve(t) ==
    Lookup(t) \/ HttpAgent(t) \/ FetchDone(t) \/ FetchFailed(t) \/ Insert(t)

-----------------------------------------------------------------------------
(* The validation worker. *)

\* The drain ends: the newest request is taken up.
Take ==
    /\ step[Validator] = "idle"
    /\ Mailbox!Take
    /\ Goto(Validator, "snapshot")
    /\ UNCHANGED <<store, target, inline, wanted, schema, todo, owed, job,
                   writing, client, history>>

\* Mutant of Snapshot: a document closed meanwhile is validated all the same.
SnapshotUnchecked ==
    /\ step[Validator] = "snapshot"
    /\ job' = SyntaxOf(docs[busy])
    /\ inline' = [inline EXCEPT ![Validator] = docs[busy].inline]
    /\ Goto(Validator, "lookup")
    /\ UNCHANGED <<store, mailbox, target, wanted, schema, todo, owed, writing,
                   client, history>>

\* First read section of validate_and_publish: syntax diagnostics, version and
\* "$schema" of one text; a document closed meanwhile is dropped.
Snapshot ==
    /\ step[Validator] = "snapshot"
    /\ IF Open(busy)
       THEN /\ job' = SyntaxOf(docs[busy])
            /\ inline' = [inline EXCEPT ![Validator] = docs[busy].inline]
            /\ Goto(Validator, "lookup")
       ELSE /\ Goto(Validator, "sleep")
            /\ UNCHANGED <<job, inline>>
    /\ UNCHANGED <<store, mailbox, target, wanted, schema, todo, owed, writing,
                   client, history>>

\* Mutant of Validate: the text of the snapshot is validated and published with
\* the version the document has now.
ValidateSnapshot ==
    /\ step[Validator] = "validate"
    /\ job' = IF schema[Validator] # 0 /\ job.clean /\ Open(busy)
              THEN [job EXCEPT !.version = docs[busy].version, !.validated = job.version,
                               !.content = schema[Validator]]
              ELSE job
    /\ Goto(Validator, "publish")
    /\ UNCHANGED <<store, mailbox, target, inline, wanted, schema, todo, owed,
                   writing, client, history>>

\* Last read section: schema validation reads the text the document has now,
\* if it is still open; syntax errors of the snapshot suppress it.
Validate ==
    /\ step[Validator] = "validate"
    /\ job' = IF schema[Validator] # 0 /\ job.clean /\ Open(busy)
              THEN [job EXCEPT !.validated = docs[busy].version,
                               !.content = schema[Validator]]
              ELSE job
    /\ Goto(Validator, "publish")
    /\ UNCHANGED <<store, mailbox, target, inline, wanted, schema, todo, owed,
                   writing, client, history>>

\* The diagnostics are sent with the version of the snapshot.
Publish ==
    /\ step[Validator] = "publish"
    /\ ~writing
    /\ writing' = TRUE
    /\ shown' = [shown EXCEPT ![busy] =
                    [version |-> job.version, validated |-> job.validated,
                     config |-> job.config, content |-> job.content]]
    /\ late' = IF Open(busy) THEN late ELSE [late EXCEPT ![busy] = @ + 1]
    /\ job' = NoJob
    /\ inline' = [inline EXCEPT ![Validator] = None]
    /\ schema' = [schema EXCEPT ![Validator] = 0]
    /\ Goto(Validator, "sleep")
    /\ UNCHANGED <<store, mailbox, target, wanted, todo, owed, issued, overtaken>>

\* The 50 ms sleep is over.
Wake ==
    /\ step[Validator] = "sleep"
    /\ Mailbox!Done
    /\ Goto(Validator, "idle")
    /\ UNCHANGED <<store, target, inline, wanted, schema, todo, owed, job,
                   writing, client, history>>

\* The writer thread has written the message and waits for the next one.
Written ==
    /\ writing
    /\ writing' = FALSE
    /\ UNCHANGED <<store, mailbox, thread, client, history>>

-----------------------------------------------------------------------------
ClientMessage ==
    \/ \E u \in Uris, text \in Texts : DidOpen(u, text) \/ DidChange(u, text)
    \/ \E u \in Uris : DidSave(u) \/ DidClose(u) \/ SchemaRequest(u)
    \/ DidChangeConfiguration \/ DocumentRequest \/ Command \/ Ignore

MainStep ==
    \/ Schedule \/ Clear \/ Reread \/ ApplyEdit \/ Reply
    \/ \E associations \in Settings : Configure(associations)
    \/ \E u \in Uris : ScheduleOne(u)
    \/ Resolve(Main)

ValidatorStep ==
    Take \/ Snapshot \/ Resolve(Validator) \/ Validate \/ Publish \/ Wake

\* Nothing is left to do for the messages the client has sent.
Quiescent ==
    /\ step = [t \in Threads |-> "idle"]
    /\ slot = None
    /\ ~writing

\* The client has sent its last message and everything has settled.
Settled == Quiescent /\ issued = MaxMsgs /\ UNCHANGED vars

Next == ClientMessage \/ MainStep \/ ValidatorStep \/ Written \/ Settled

\* The threads are scheduled, a download ends (time-out) and the client reads
\* what the server writes; the client need not send anything.
Fairness == WF_vars(MainStep) /\ WF_vars(ValidatorStep) /\ WF_vars(Written)

Spec == Init /\ [][Next]_vars /\ Fairness
=============================================================================
