-------------------------- MODULE ServerProperties ---------------------------
(***************************************************************************)
(* What the server owes its client, stated over the state of               *)
(* LanguageServer.                                                         *)
(***************************************************************************)
EXTENDS LanguageServer

TypeOK ==
    /\ docs \in [Uris -> Document]
    /\ assocs \in Seq(Association)
    /\ cache \in Cache
    /\ config \in Nat \ {0}
    /\ Mailbox!TypeOK
    /\ step \in [Threads -> MainSteps \union ValidatorSteps]
    /\ step[Main] \in MainSteps
    /\ step[Validator] \in ValidatorSteps
    /\ target \in Uris \union {None}
    /\ inline \in [Threads -> SchemaUris \union {None}]
    /\ wanted \in [Threads -> SchemaUris \union {None}]
    /\ schema \in [Threads -> Nat]
    /\ todo \subseteq Uris
    /\ owed \in {0, 1}
    /\ job \in Job
    /\ writing \in BOOLEAN
    /\ shown \in [Uris -> Diagnostics]
    /\ issued \in 0..MaxMsgs
    /\ late \in [Uris -> Nat]
    /\ overtaken \in SchemaUris \union {None}

-----------------------------------------------------------------------------
\* The schema of a document is the one whose download was overtaken: its old
\* content may have entered the cache after the configuration change cleared it.
Overtaken(u) == overtaken # None /\ SchemaUriFor(assocs, u, docs[u].inline) = overtaken

\* The diagnostics of u are those of its present text, with a schema that the
\* present associations choose and whose content was asked for under the present
\* configuration, unless the configuration change overtook that very download.
Fresh(u) ==
    /\ shown[u].version = docs[u].version
    /\ shown[u].validated \in {0, docs[u].version}
    /\ shown[u].config = config
    /\ shown[u].content \in {0, config} \/ Overtaken(u)

\* Once everything has settled, the document whose validation was scheduled
\* last, if it is still open, shows the diagnostics of its present text under
\* the present configuration: whatever edits, closes, reopens and configuration
\* changes met the worker between its read sections, a result computed from two
\* different texts, with the associations of an earlier configuration or with
\* schema content that was in the cache before the last change never stays
\* (validation_worker, validate_and_publish and on_did_change_configuration).
\* Content of an earlier configuration can stay in one case only: its download
\* was on its way when the configuration changed, and the document uses that
\* schema (insert_cache after clear_cache).
LastScheduledFresh ==
    Quiescent => \A u \in Uris : last = u /\ Open(u) => Fresh(u)

\* Diagnostics of a document never go back to an older text, and never replace
\* a schema validation by one of an older text, unless the document was closed
\* and its diagnostics cleared (validate_and_publish reads the document up to
\* three times without holding the lock in between).
NeverBackwards ==
    [][\A u \in Uris :
          shown'[u] # NoDiagnostics =>
             /\ shown'[u].version >= shown[u].version
             /\ shown'[u].validated # 0 =>
                   /\ shown'[u].validated >= shown[u].validated
                   /\ shown'[u].validated >= shown'[u].version]_vars

\* After didClose has cleared a document at most one late result reaches the
\* client: the worker may have been past its first read section when the
\* document went away, but it never starts on a closed document.
AtMostOneLate ==
    \A u \in Uris : ~Open(u) /\ step[Main] # "clear" => late[u] <= 1

\* Schemas in the cache that were downloaded before the last configuration
\* change cleared it.
StaleSchemas == {s \in Cached(cache) : cache[s] < config}

\* A download in flight while on_did_change_configuration clears the cache puts
\* its old content back afterwards; it is the only one that can do so.
AtMostOneStaleSchema == Cardinality(StaleSchemas) <= 1

\* Both threads insert downloaded schemas without holding the lock since their
\* lookup; the cache never exceeds MAX_SCHEMA_CACHE.
CacheBounded == Cardinality(Cached(cache)) <= MaxSchemaCache

\* A supported request is answered, even when its handler downloads a schema,
\* waits for the worker's lock sections or for the writer thread.
RequestsAnswered == (owed = 1) ~> (owed = 0)

\* When the client has fallen silent, the document scheduled last ends up with
\* fresh diagnostics and keeps them.
EventuallyFresh ==
    <>[](Quiescent /\ \A u \in Uris : last = u /\ Open(u) => Fresh(u))

-----------------------------------------------------------------------------
(* A statement of the repository that the code does not keep. *)

\* on_did_change_configuration: "Re-validate all open documents so that files
\* opened before configuration arrived get schema diagnostics immediately."
\* Read: when the server has settled, no open document shows diagnostics
\* computed under a previous configuration.
ConfigurationRevalidatesAll ==
    Quiescent =>
        \A u \in Uris : Open(u) /\ shown[u] # NoDiagnostics => shown[u].config = config
=============================================================================
