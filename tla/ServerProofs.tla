---------------------------- MODULE ServerProofs -----------------------------
(***************************************************************************)
(* Theorems about LanguageServer, for every set of documents, schemas,     *)
(* texts and settings and any number of client messages: types, the limit  *)
(* of the schema cache, what survives a configuration change; and of the   *)
(* diagnostics the client is shown, which text they are of when everything *)
(* has settled, in which order they arrive, and how many arrive after a    *)
(* document was closed.                                                    *)
(***************************************************************************)
EXTENDS ServerProperties, FiniteSetTheorems, SequenceTheorems, TLAPS

-----------------------------------------------------------------------------
(* The schema store. *)

\* The schema of a document is one of the known ones, or there is none.
LEMMA SchemaUriForType ==
  ASSUME NEW as \in Seq(Association), NEW u, NEW in \in SchemaUris \union {None}
  PROVE  SchemaUriFor(as, u, in) \in SchemaUris \union {None}
<1>1. MatchAssociation(as, u) \in SchemaUris \union {None}
  <2> DEFINE first == {i \in 1..Len(as) :
                         /\ u \in as[i].fileMatch
                         /\ \A j \in 1..(i - 1) : u \notin as[j].fileMatch}
  <2>1. CASE first = {}
    BY <2>1 DEF MatchAssociation
  <2>2. CASE first # {}
    <3>1. (CHOOSE i \in first : TRUE) \in 1..Len(as)
      BY <2>2
    <3>2. \A i \in 1..Len(as) : as[i] \in Association
      BY ElementOfSeq
    <3>3. QED
      BY <2>2, <3>1, <3>2 DEF MatchAssociation, Association
  <2>3. QED
    BY <2>1, <2>2
<1>2. QED
  BY <1>1 DEF SchemaUriFor

\* An insertion yields a cache.
LEMMA InsertCacheType ==
  ASSUME NEW c \in Cache, NEW s, NEW content \in Nat
  PROVE  InsertCache(c, s, content) \in Cache
BY DEF InsertCache, Cache, EmptyCache

\* An insertion adds at most its own schema, and what it keeps keeps its content.
LEMMA InsertCacheKeeps ==
  ASSUME NEW c \in Cache, NEW s \in SchemaUris, NEW content \in Nat
  PROVE  /\ InsertCache(c, s, content)[s] = content
         /\ \A r \in SchemaUris \ {s} : InsertCache(c, s, content)[r] \in {0, c[r]}
BY DEF InsertCache, Cache, EmptyCache

\* An insertion never takes the cache beyond its capacity.
LEMMA InsertCacheBounded ==
  ASSUME NEW c \in Cache, NEW s \in SchemaUris, NEW content \in Nat,
         Cardinality(Cached(c)) <= MaxSchemaCache
  PROVE  Cardinality(Cached(InsertCache(c, s, content))) <= MaxSchemaCache
<1> DEFINE new == InsertCache(c, s, content)
<1>1. IsFiniteSet(Cached(c)) /\ Cardinality(Cached(c)) \in Nat
  BY FiniteSchemas, FS_Subset, FS_CardinalityType DEF Cached
<1>2. CASE Cardinality(Cached(c)) >= MaxSchemaCache /\ c[s] = 0
  <2>1. Cached(new) \subseteq {s}
    BY <1>2 DEF InsertCache, Cache, EmptyCache, Cached
  <2>2. IsFiniteSet({s}) /\ Cardinality({s}) = 1
    BY FS_Singleton
  <2>3. /\ Cardinality(Cached(new)) <= Cardinality({s})
        /\ Cardinality(Cached(new)) \in Nat
    BY <2>1, <2>2, FS_Subset, FS_CardinalityType
  <2>4. QED
    BY <2>2, <2>3, CacheCapacity
<1>3. CASE c[s] # 0
  <2>1. Cached(new) \subseteq Cached(c)
    BY <1>3 DEF InsertCache, Cache, EmptyCache, Cached
  <2>2. Cardinality(Cached(new)) <= Cardinality(Cached(c))
    BY <1>1, <2>1, FS_Subset
  <2>3. Cardinality(Cached(new)) \in Nat
    BY <1>1, <2>1, FS_Subset, FS_CardinalityType
  <2>4. QED
    BY <1>1, <2>2, <2>3, CacheCapacity
<1>4. CASE ~(Cardinality(Cached(c)) >= MaxSchemaCache)
  <2>1. Cached(new) \subseteq Cached(c) \union {s}
    BY <1>4 DEF InsertCache, Cache, EmptyCache, Cached
  <2>2. /\ IsFiniteSet(Cached(c) \union {s})
        /\ Cardinality(Cached(c) \union {s}) =
              IF s \in Cached(c) THEN Cardinality(Cached(c)) ELSE Cardinality(Cached(c)) + 1
    BY <1>1, FS_AddElement
  <2>3. /\ Cardinality(Cached(new)) <= Cardinality(Cached(c) \union {s})
        /\ Cardinality(Cached(new)) \in Nat
        /\ Cardinality(Cached(c) \union {s}) \in Nat
    BY <2>1, <2>2, FS_Subset, FS_CardinalityType
  <2>4. QED
    BY <1>1, <1>4, <2>2, <2>3, CacheCapacity
<1>5. QED
  BY <1>2, <1>3, <1>4

-----------------------------------------------------------------------------
(* Types, together with what ties the threads' steps to their variables.   *)

\* The steps of a handler that owes a response.
Answering ==
    {"lookup", "agent", "fetch", "insert", "reread", "applyEdit", "reply", "replyLocked"}

ThreadInv ==
    /\ step[Main] \in Answering <=> owed = 1
    /\ \A t \in Threads : step[t] \in {"agent", "fetch", "insert"} => wanted[t] # None
    /\ \A t \in Threads : step[t] \in {"fetch", "insert"} => schema[t] # 0
    /\ step[Validator] \in {"idle", "snapshot", "lookup", "agent", "sleep"} =>
          schema[Validator] = 0
    /\ busy = None <=> step[Validator] = "idle"
    /\ step[Main] \in {"schedule", "clear"} => target # None
    /\ step[Main] = "clear" => ~Open(target)

TypeInv == TypeOK /\ ThreadInv

\* The initial state is well typed.
LEMMA TypeInvInit == Init => TypeInv
<1> SUFFICES ASSUME Init
             PROVE  TypeInv
  OBVIOUS
<1>1. TypeOK
  <2>1. docs \in [Uris -> Document] /\ shown \in [Uris -> Diagnostics] /\ job \in Job
    BY DEF Init, Document, Absent, Diagnostics, NoDiagnostics, Job, NoJob
  <2>2. assocs \in Seq(Association) /\ cache \in Cache
    BY DEF Init, Cache, EmptyCache
  <2>3. step \in [Threads -> MainSteps \union ValidatorSteps]
    BY DEF Init, MainSteps, ValidatorSteps
  <2>4. step[Main] \in MainSteps /\ step[Validator] \in ValidatorSteps
    BY DEF Init, MainSteps, ValidatorSteps, Threads, Main, Validator
  <2>5. writing \in BOOLEAN
    BY DEF Init
  <2>6. QED
    BY MsgsBound, <2>1, <2>2, <2>3, <2>4, <2>5
    DEF Init, TypeOK, Mailbox!Init, Mailbox!TypeOK
<1>2. ThreadInv
  BY DEF Init, ThreadInv, Answering, Mailbox!Init, Main, Validator, Threads
<1>3. QED
  BY <1>1, <1>2 DEF TypeInv

\* Every action keeps the variables within their types.
LEMMA TypeOKStep == TypeInv /\ [Next]_vars => TypeOK'
<1> SUFFICES ASSUME TypeOK, ThreadInv, [Next]_vars
             PROVE  TypeOK'
  BY DEF TypeInv
<1> USE DEF TypeOK, Mailbox!TypeOK, Main, Validator, Threads, MainSteps, ValidatorSteps,
        Goto, store, mailbox, thread, client, history
<1>1. ASSUME NEW u \in Uris, NEW text \in Texts, DidOpen(u, text)
      PROVE  TypeOK'
  <2>1. Typed(text) \in Document
    BY TextsType, MsgsBound DEF Typed, Document
  <2>2. docs' \in [Uris -> Document]
    BY <1>1, <2>1 DEF DidOpen
  <2>3. QED
    BY <1>1, <2>2, MsgsBound DEF DidOpen, Receive
<1>2. ASSUME NEW u \in Uris, NEW text \in Texts, DidChange(u, text)
      PROVE  TypeOK'
  <2>1. Typed(text) \in Document
    BY TextsType, MsgsBound DEF Typed, Document
  <2>2. docs' \in [Uris -> Document]
    BY <1>2, <2>1 DEF DidChange
  <2>3. QED
    BY <1>2, <2>2, MsgsBound DEF DidChange, Receive
<1>3. ASSUME NEW u \in Uris, DidSave(u)
      PROVE  TypeOK'
  BY <1>3, MsgsBound DEF DidSave, Receive
<1>4. CASE Schedule
  BY <1>4 DEF Schedule, Mailbox!Post
<1>5. ASSUME NEW u \in Uris, DidClose(u)
      PROVE  TypeOK'
  BY SMTT(30), <1>5, MsgsBound DEF DidClose, Receive, Document, Absent
<1>6. CASE Clear
  BY <1>6 DEF Clear, Diagnostics, NoDiagnostics
<1>7. CASE DidChangeConfiguration
  BY <1>7, MsgsBound DEF DidChangeConfiguration, Receive
<1>8. ASSUME NEW as \in Settings, Configure(as)
      PROVE  TypeOK'
  <2>1. as \in Seq(Association)
    BY SettingsType
  <2>2. todo' \subseteq Uris /\ step'[Main] \in {"idle", "scheduleAll"}
    BY <1>8 DEF Configure
  <2>3. cache' \in Cache /\ config' \in Nat \ {0}
    BY <1>8 DEF Configure, EmptyCache, Cache
  <2>4. overtaken' \in SchemaUris \union {None}
    BY <1>8 DEF Configure, InFlight
  <2>5. QED
    BY <1>8, <2>1, <2>2, <2>3, <2>4 DEF Configure
<1>9. ASSUME NEW u \in Uris, ScheduleOne(u)
      PROVE  TypeOK'
  BY <1>9 DEF ScheduleOne, Mailbox!Post
<1>10. ASSUME NEW u \in Uris, SchemaRequest(u)
       PROVE  TypeOK'
  BY SMTT(30), <1>10, MsgsBound DEF SchemaRequest, Receive, Document
<1>11. CASE Reread
  BY <1>11 DEF Reread
<1>12. CASE DocumentRequest
  BY <1>12, MsgsBound DEF DocumentRequest, Receive
<1>13. CASE Command
  BY <1>13, MsgsBound DEF Command, Receive
<1>14. CASE ApplyEdit
  BY <1>14 DEF ApplyEdit
<1>15. CASE Ignore
  BY <1>15, MsgsBound DEF Ignore, Receive
<1>16. CASE Reply
  BY <1>16 DEF Reply, ThreadInv, Answering
<1>17. ASSUME NEW t \in Threads, Lookup(t)
       PROVE  TypeOK'
  <2> DEFINE s == SchemaUriFor(assocs, Subject(t), inline[t])
  <2>1. s \in SchemaUris \union {None}
    BY SchemaUriForType
  <2>2. s # None => s \in SchemaUris /\ cache[s] \in Nat
    BY <2>1 DEF Cache
  <2>3. job' \in Job
    BY <1>17 DEF Lookup, Job
  <2>4. wanted' \in [Threads -> SchemaUris \union {None}] /\ schema' \in [Threads -> Nat]
    BY <1>17, <2>2 DEF Lookup
  <2>5. /\ step' \in [Threads -> MainSteps \union ValidatorSteps]
        /\ step'[Main] \in MainSteps
        /\ step'[Validator] \in ValidatorSteps
    BY <1>17 DEF Lookup, AfterResolve
  <2>6. QED
    BY <1>17, <2>3, <2>4, <2>5 DEF Lookup
<1>18. ASSUME NEW t \in Threads, HttpAgent(t)
       PROVE  TypeOK'
  BY <1>18 DEF HttpAgent
<1>19. ASSUME NEW t \in Threads, FetchDone(t)
       PROVE  TypeOK'
  BY <1>19 DEF FetchDone
<1>20. ASSUME NEW t \in Threads, FetchFailed(t)
       PROVE  TypeOK'
  BY <1>20 DEF FetchFailed, AfterResolve
<1>21. ASSUME NEW t \in Threads, Insert(t)
       PROVE  TypeOK'
  BY <1>21, InsertCacheType DEF Insert, AfterResolve
<1>22. CASE Take
  BY <1>22 DEF Take, Mailbox!Take
<1>23. CASE Snapshot
  <2>1. busy \in Uris
    BY <1>23 DEF Snapshot, ThreadInv
  <2>2. docs[busy] \in Document
    BY <2>1
  <2>3. job' \in Job
    BY SMTT(30), <1>23, <2>2 DEF Snapshot, SyntaxOf, Document, Job
  <2>4. inline' \in [Threads -> SchemaUris \union {None}]
    BY <1>23, <2>2 DEF Snapshot, Document
  <2>5. QED
    BY <1>23, <2>3, <2>4 DEF Snapshot
<1>24. CASE Validate
  <2>1. busy \in Uris
    BY <1>24 DEF Validate, ThreadInv
  <2>2. docs[busy] \in Document
    BY <2>1
  <2>3. job' \in Job
    BY <1>24, <2>2 DEF Validate, Document, Job
  <2>4. QED
    BY <1>24, <2>3 DEF Validate
<1>25. CASE Publish
  <2>1. busy \in Uris
    BY <1>25 DEF Publish, ThreadInv
  <2>2. job' \in Job
    BY <1>25 DEF Publish, Job, NoJob
  <2>3. shown' \in [Uris -> Diagnostics]
    BY <1>25, <2>1 DEF Publish, Diagnostics, Job
  <2>4. late' \in [Uris -> Nat]
    BY <1>25, <2>1 DEF Publish
  <2>5. QED
    BY <1>25, <2>2, <2>3, <2>4 DEF Publish
<1>26. CASE Wake
  BY <1>26 DEF Wake, Mailbox!Done
<1>27. CASE Written
  <2> HIDE DEF Main, Validator, Threads, MainSteps, ValidatorSteps
  <2> QED
    BY <1>27 DEF Written
<1>28. CASE UNCHANGED vars
  BY <1>28 DEF vars
<1>29. QED
  BY <1>1, <1>2, <1>3, <1>4, <1>5, <1>6, <1>7, <1>8, <1>9, <1>10, <1>11,
     <1>12, <1>13, <1>14, <1>15, <1>16, <1>17, <1>18, <1>19, <1>20, <1>21,
     <1>22, <1>23, <1>24, <1>25, <1>26, <1>27, <1>28
  DEF Next, ClientMessage, MainStep, ValidatorStep, Resolve, Settled

\* Every action keeps the steps of the threads and their variables together.
LEMMA ThreadInvStep == TypeInv /\ [Next]_vars => ThreadInv'
<1> SUFFICES ASSUME TypeOK, ThreadInv, [Next]_vars
             PROVE  ThreadInv'
  BY DEF TypeInv
<1> USE NoneIsNoUri
    DEF TypeOK, Mailbox!TypeOK, ThreadInv, Answering, Open, Main, Validator, Threads,
        MainSteps, ValidatorSteps, Goto, store, mailbox, thread, client, history
<1>1. ASSUME NEW u \in Uris, NEW text \in Texts, DidOpen(u, text)
      PROVE  ThreadInv'
  BY <1>1 DEF DidOpen, Receive, Typed, Document
<1>2. ASSUME NEW u \in Uris, NEW text \in Texts, DidChange(u, text)
      PROVE  ThreadInv'
  BY <1>2 DEF DidChange, Receive, Typed, Document
<1>3. ASSUME NEW u \in Uris, DidSave(u)
      PROVE  ThreadInv'
  BY <1>3 DEF DidSave, Receive
<1>4. CASE Schedule
  BY <1>4 DEF Schedule, Mailbox!Post
<1>5. ASSUME NEW u \in Uris, DidClose(u)
      PROVE  ThreadInv'
  BY <1>5 DEF DidClose, Receive, Document, Absent
<1>6. CASE Clear
  BY <1>6 DEF Clear
<1>7. CASE DidChangeConfiguration
  BY <1>7 DEF DidChangeConfiguration, Receive
<1>8. ASSUME NEW as \in Settings, Configure(as)
      PROVE  ThreadInv'
  BY <1>8 DEF Configure
<1>9. ASSUME NEW u \in Uris, ScheduleOne(u)
      PROVE  ThreadInv'
  BY <1>9 DEF ScheduleOne, Mailbox!Post
<1>10. ASSUME NEW u \in Uris, SchemaRequest(u)
       PROVE  ThreadInv'
  BY <1>10 DEF SchemaRequest, Receive, Document
<1>11. CASE Reread
  BY <1>11 DEF Reread
<1>12. CASE DocumentRequest
  BY <1>12 DEF DocumentRequest, Receive
<1>13. CASE Command
  BY <1>13 DEF Command, Receive
<1>14. CASE ApplyEdit
  BY <1>14 DEF ApplyEdit
<1>15. CASE Ignore
  BY <1>15 DEF Ignore, Receive
<1>16. CASE Reply
  BY <1>16 DEF Reply
<1>17. ASSUME NEW t \in Threads, Lookup(t)
       PROVE  ThreadInv'
  BY <1>17, SchemaUriForType DEF Lookup, AfterResolve, Subject, Cache
<1>18. ASSUME NEW t \in Threads, HttpAgent(t)
       PROVE  ThreadInv'
  BY <1>18 DEF HttpAgent
<1>19. ASSUME NEW t \in Threads, FetchDone(t)
       PROVE  ThreadInv'
  BY <1>19 DEF FetchDone
<1>20. ASSUME NEW t \in Threads, FetchFailed(t)
       PROVE  ThreadInv'
  BY <1>20 DEF FetchFailed, AfterResolve
<1>21. ASSUME NEW t \in Threads, Insert(t)
       PROVE  ThreadInv'
  BY <1>21 DEF Insert, AfterResolve
<1>22. CASE Take
  BY <1>22 DEF Take, Mailbox!Take
<1>23. CASE Snapshot
  BY <1>23 DEF Snapshot
<1>24. CASE Validate
  BY <1>24 DEF Validate
<1>25. CASE Publish
  BY <1>25 DEF Publish
<1>26. CASE Wake
  BY <1>26 DEF Wake, Mailbox!Done
<1>27. CASE Written
  BY <1>27 DEF Written
<1>28. CASE UNCHANGED vars
  BY <1>28 DEF vars
<1>29. QED
  BY <1>1, <1>2, <1>3, <1>4, <1>5, <1>6, <1>7, <1>8, <1>9, <1>10, <1>11,
     <1>12, <1>13, <1>14, <1>15, <1>16, <1>17, <1>18, <1>19, <1>20, <1>21,
     <1>22, <1>23, <1>24, <1>25, <1>26, <1>27, <1>28
  DEF Next, ClientMessage, MainStep, ValidatorStep, Resolve, Settled

\* Both hold in every reachable state.
LEMMA TypeInvariant == Spec => []TypeInv
<1>1. TypeInv /\ [Next]_vars => TypeInv'
  BY TypeOKStep, ThreadInvStep DEF TypeInv
<1>2. QED
  BY <1>1, TypeInvInit, PTL DEF Spec

\* The variables keep their types.
THEOREM TypeCorrect == Spec => []TypeOK
<1>1. TypeInv => TypeOK
  BY DEF TypeInv
<1>2. QED
  BY <1>1, TypeInvariant, PTL

-----------------------------------------------------------------------------
(* The limit of the schema cache. *)

\* The cache is empty at first.
LEMMA CacheBoundedInit == Init => CacheBounded
<1> SUFFICES ASSUME Init
             PROVE  CacheBounded
  OBVIOUS
<1>1. Cached(cache) = {}
  BY DEF Init, Cached, EmptyCache
<1>2. QED
  BY <1>1, FS_EmptySet, CacheCapacity DEF CacheBounded

\* Only Configure, which empties it, and Insert change the cache.
LEMMA CacheBoundedStep == TypeInv /\ CacheBounded /\ [Next]_vars => CacheBounded'
<1> SUFFICES ASSUME TypeOK, ThreadInv, CacheBounded, [Next]_vars
             PROVE  CacheBounded'
  BY DEF TypeInv
<1> USE NoneIsNoUri
    DEF TypeOK, Mailbox!TypeOK, ThreadInv, Answering, Open, Main, Validator,
        Threads,
        Goto, store, mailbox, thread, client, history, CacheBounded
<1>1. ASSUME NEW u \in Uris, NEW text \in Texts, DidOpen(u, text)
      PROVE  CacheBounded'
  BY <1>1 DEF DidOpen, Receive, Typed
<1>2. ASSUME NEW u \in Uris, NEW text \in Texts, DidChange(u, text)
      PROVE  CacheBounded'
  BY <1>2 DEF DidChange, Receive, Typed
<1>3. ASSUME NEW u \in Uris, DidSave(u)
      PROVE  CacheBounded'
  BY <1>3 DEF DidSave, Receive
<1>4. CASE Schedule
  BY <1>4 DEF Schedule, Mailbox!Post
<1>5. ASSUME NEW u \in Uris, DidClose(u)
      PROVE  CacheBounded'
  BY <1>5 DEF DidClose, Receive
<1>6. CASE Clear
  BY <1>6 DEF Clear
<1>7. CASE DidChangeConfiguration
  BY <1>7 DEF DidChangeConfiguration, Receive
<1>8. ASSUME NEW as \in Settings, Configure(as)
      PROVE  CacheBounded'
  <2>1. Cached(cache') = {}
    BY <1>8 DEF Configure, Cached, EmptyCache
  <2>2. QED
    BY <2>1, FS_EmptySet, CacheCapacity DEF CacheBounded
<1>9. ASSUME NEW u \in Uris, ScheduleOne(u)
      PROVE  CacheBounded'
  BY <1>9 DEF ScheduleOne, Mailbox!Post
<1>10. ASSUME NEW u \in Uris, SchemaRequest(u)
       PROVE  CacheBounded'
  BY <1>10 DEF SchemaRequest, Receive
<1>11. CASE Reread
  BY <1>11 DEF Reread
<1>12. CASE DocumentRequest
  BY <1>12 DEF DocumentRequest, Receive
<1>13. CASE Command
  BY <1>13 DEF Command, Receive
<1>14. CASE ApplyEdit
  BY <1>14 DEF ApplyEdit
<1>15. CASE Ignore
  BY <1>15 DEF Ignore, Receive
<1>16. CASE Reply
  BY <1>16 DEF Reply
<1>17. ASSUME NEW t \in Threads, Lookup(t)
       PROVE  CacheBounded'
  BY <1>17 DEF Lookup, AfterResolve, Subject
<1>18. ASSUME NEW t \in Threads, HttpAgent(t)
       PROVE  CacheBounded'
  BY <1>18 DEF HttpAgent
<1>19. ASSUME NEW t \in Threads, FetchDone(t)
       PROVE  CacheBounded'
  BY <1>19 DEF FetchDone
<1>20. ASSUME NEW t \in Threads, FetchFailed(t)
       PROVE  CacheBounded'
  BY <1>20 DEF FetchFailed, AfterResolve
<1>21. ASSUME NEW t \in Threads, Insert(t)
       PROVE  CacheBounded'
  BY <1>21, InsertCacheBounded DEF Insert, AfterResolve
<1>22. CASE Take
  BY <1>22 DEF Take, Mailbox!Take
<1>23. CASE Snapshot
  BY <1>23 DEF Snapshot
<1>24. CASE Validate
  BY <1>24 DEF Validate
<1>25. CASE Publish
  BY <1>25 DEF Publish
<1>26. CASE Wake
  BY <1>26 DEF Wake, Mailbox!Done
<1>27. CASE Written
  BY <1>27 DEF Written
<1>28. CASE UNCHANGED vars
  BY <1>28 DEF vars
<1>29. QED
  BY <1>1, <1>2, <1>3, <1>4, <1>5, <1>6, <1>7, <1>8, <1>9, <1>10, <1>11,
     <1>12, <1>13, <1>14, <1>15, <1>16, <1>17, <1>18, <1>19, <1>20, <1>21,
     <1>22, <1>23, <1>24, <1>25, <1>26, <1>27, <1>28
  DEF Next, ClientMessage, MainStep, ValidatorStep, Resolve, Settled

\* The cache never exceeds MAX_SCHEMA_CACHE.
THEOREM CacheStaysBounded == Spec => []CacheBounded
<1>1. Init => CacheBounded
  BY CacheBoundedInit
<1>2. TypeInv /\ CacheBounded /\ [Next]_vars => CacheBounded'
  BY CacheBoundedStep
<1>3. QED
  BY <1>1, <1>2, TypeInvariant, PTL DEF Spec

-----------------------------------------------------------------------------
(* What survives a configuration change. *)

\* A stale schema in the cache came from the worker's only download in flight;
\* the main thread cannot download while it changes the configuration.
StaleInv ==
    /\ step[Main] \in {"fetch", "insert"} => schema[Main] = config
    /\ \A r, s \in StaleSchemas : r = s
    /\ \A s \in StaleSchemas :
          ~(step[Validator] \in {"fetch", "insert"} /\ schema[Validator] < config)

\* The cache is empty at first.
LEMMA StaleInvInit == Init => StaleInv
BY DEF Init, StaleInv, StaleSchemas, Cached, EmptyCache, Main, Validator, Threads

\* Only Configure and Insert touch the cache; a download is asked for under the
\* present configuration, and Configure makes it older than that.
LEMMA StaleInvStep == TypeInv /\ StaleInv /\ [Next]_vars => StaleInv'
<1> SUFFICES ASSUME TypeOK, ThreadInv, StaleInv, [Next]_vars
             PROVE  StaleInv'
  BY DEF TypeInv
<1> USE NoneIsNoUri
    DEF TypeOK, Mailbox!TypeOK, ThreadInv, Answering, Open, Main, Validator,
        Threads,
        Goto, store, mailbox, thread, client, history, StaleInv, StaleSchemas, Cached
<1>1. ASSUME NEW u \in Uris, NEW text \in Texts, DidOpen(u, text)
      PROVE  StaleInv'
  BY <1>1 DEF DidOpen, Receive, Typed
<1>2. ASSUME NEW u \in Uris, NEW text \in Texts, DidChange(u, text)
      PROVE  StaleInv'
  BY <1>2 DEF DidChange, Receive, Typed
<1>3. ASSUME NEW u \in Uris, DidSave(u)
      PROVE  StaleInv'
  BY <1>3 DEF DidSave, Receive
<1>4. CASE Schedule
  BY <1>4 DEF Schedule, Mailbox!Post
<1>5. ASSUME NEW u \in Uris, DidClose(u)
      PROVE  StaleInv'
  BY <1>5 DEF DidClose, Receive
<1>6. CASE Clear
  BY <1>6 DEF Clear
<1>7. CASE DidChangeConfiguration
  BY <1>7 DEF DidChangeConfiguration, Receive
<1>8. ASSUME NEW as \in Settings, Configure(as)
      PROVE  StaleInv'
  <2>1. StaleSchemas' = {}
    BY <1>8 DEF Configure, EmptyCache
  <2>2. step'["main"] \notin {"fetch", "insert"}
    BY <1>8 DEF Configure
  <2>3. QED
    BY <2>1, <2>2
<1>9. ASSUME NEW u \in Uris, ScheduleOne(u)
      PROVE  StaleInv'
  BY <1>9 DEF ScheduleOne, Mailbox!Post
<1>10. ASSUME NEW u \in Uris, SchemaRequest(u)
       PROVE  StaleInv'
  BY <1>10 DEF SchemaRequest, Receive
<1>11. CASE Reread
  BY <1>11 DEF Reread
<1>12. CASE DocumentRequest
  BY <1>12 DEF DocumentRequest, Receive
<1>13. CASE Command
  BY <1>13 DEF Command, Receive
<1>14. CASE ApplyEdit
  BY <1>14 DEF ApplyEdit
<1>15. CASE Ignore
  BY <1>15 DEF Ignore, Receive
<1>16. CASE Reply
  BY <1>16 DEF Reply
<1>17. ASSUME NEW t \in Threads, Lookup(t)
       PROVE  StaleInv'
  BY <1>17 DEF Lookup, AfterResolve, Subject
<1>18. ASSUME NEW t \in Threads, HttpAgent(t)
       PROVE  StaleInv'
  <2>1. schema'[t] = config
    BY <1>18 DEF HttpAgent
  <2>2. UNCHANGED StaleSchemas /\ config' = config
    BY <1>18 DEF HttpAgent
  <2>3. step'["main"] \in {"fetch", "insert"} => schema'["main"] = config
    BY <1>18, <2>1 DEF HttpAgent
  <2>4. step'["validator"] \in {"fetch", "insert"} /\ schema'["validator"] < config
          => t # "validator"
    BY <1>18, <2>1 DEF HttpAgent
  <2>5. QED
    BY <1>18, <2>1, <2>2, <2>3, <2>4 DEF HttpAgent
<1>19. ASSUME NEW t \in Threads, FetchDone(t)
       PROVE  StaleInv'
  BY <1>19 DEF FetchDone
<1>20. ASSUME NEW t \in Threads, FetchFailed(t)
       PROVE  StaleInv'
  BY <1>20 DEF FetchFailed, AfterResolve
<1>21. ASSUME NEW t \in Threads, Insert(t)
       PROVE  StaleInv'
  <2> DEFINE w == wanted[t]
  <2>1. /\ w \in SchemaUris /\ schema[t] \in Nat \ {0}
        /\ cache \in Cache /\ config \in Nat
    BY <1>21 DEF Insert
  <2>2. /\ cache'[w] = schema[t]
        /\ \A r \in SchemaUris \ {w} : cache'[r] \in {0, cache[r]}
    BY <1>21, <2>1, InsertCacheKeeps DEF Insert
  <2>3. UNCHANGED <<config, schema>>
    BY <1>21 DEF Insert
  <2>4. step'["main"] \in {"fetch", "insert"} => schema'["main"] = config'
    BY <1>21, <2>3 DEF Insert, AfterResolve
  <2>5. CASE schema[t] >= config
    <3>1. \A s \in StaleSchemas' : s \in StaleSchemas
      <4> SUFFICES ASSUME NEW s \in SchemaUris, cache'[s] # 0, cache'[s] < config'
                   PROVE  cache[s] # 0 /\ cache[s] < config
        OBVIOUS
      <4> HIDE DEF TypeOK, ThreadInv, StaleInv
      <4>1. s # w
        BY <2>1, <2>2, <2>3, <2>5
      <4>2. QED
        BY <2>2, <2>3, <4>1
    <3>2. /\ \A r, s \in StaleSchemas' : r = s
          /\ \A s \in StaleSchemas' :
                ~(step'["validator"] \in {"fetch", "insert"} /\ schema'["validator"] < config')
      <4>1. step'["validator"] \in {"fetch", "insert"} =>
              step["validator"] \in {"fetch", "insert"}
        BY <1>21 DEF Insert, AfterResolve
      <4> HIDE DEF StaleSchemas
      <4>2. QED
        BY <2>3, <3>1, <4>1
    <3> HIDE DEF StaleSchemas
    <3>3. QED
      BY <2>4, <3>2
  <2>6. CASE schema[t] < config
    <3>1. t = "validator" /\ StaleSchemas = {}
      BY <1>21, <2>1, <2>6 DEF Insert
    <3>2. \A s \in StaleSchemas' : s = w
      BY <2>1, <2>2, <2>3, <3>1
    <3>3. step'["validator"] \notin {"fetch", "insert"}
      BY <1>21, <3>1 DEF Insert, AfterResolve
    <3> HIDE DEF StaleSchemas
    <3>4. QED
      BY <2>4, <3>2, <3>3
  <2>7. QED
    BY <2>1, <2>5, <2>6
<1>22. CASE Take
  BY <1>22 DEF Take, Mailbox!Take
<1>23. CASE Snapshot
  BY <1>23 DEF Snapshot
<1>24. CASE Validate
  BY <1>24 DEF Validate
<1>25. CASE Publish
  BY <1>25 DEF Publish
<1>26. CASE Wake
  BY <1>26 DEF Wake, Mailbox!Done
<1>27. CASE Written
  BY <1>27 DEF Written
<1>28. CASE UNCHANGED vars
  BY <1>28 DEF vars
<1>29. QED
  BY <1>1, <1>2, <1>3, <1>4, <1>5, <1>6, <1>7, <1>8, <1>9, <1>10, <1>11,
     <1>12, <1>13, <1>14, <1>15, <1>16, <1>17, <1>18, <1>19, <1>20, <1>21,
     <1>22, <1>23, <1>24, <1>25, <1>26, <1>27, <1>28
  DEF Next, ClientMessage, MainStep, ValidatorStep, Resolve, Settled

\* A set whose elements are all equal has at most one.
LEMMA StaleInvImplies == TypeInv /\ StaleInv => AtMostOneStaleSchema
<1> SUFFICES ASSUME StaleInv
             PROVE  Cardinality(StaleSchemas) <= 1
  BY DEF AtMostOneStaleSchema
<1>1. CASE StaleSchemas = {}
  BY <1>1, FS_EmptySet
<1>2. ASSUME NEW s \in StaleSchemas
      PROVE  Cardinality(StaleSchemas) <= 1
  <2>1. StaleSchemas = {s}
    BY DEF StaleInv
  <2>2. Cardinality({s}) = 1
    BY FS_Singleton
  <2>3. QED
    BY <2>1, <2>2
<1>3. QED
  BY <1>1, <1>2

\* At most one schema of a previous configuration is in the cache.
THEOREM AtMostOneStale == Spec => []AtMostOneStaleSchema
<1>1. Init => StaleInv
  BY StaleInvInit
<1>2. TypeInv /\ StaleInv /\ [Next]_vars => StaleInv'
  BY StaleInvStep
<1>3. TypeInv /\ StaleInv => AtMostOneStaleSchema
  BY StaleInvImplies
<1>4. QED
  BY <1>1, <1>2, <1>3, TypeInvariant, PTL DEF Spec

-----------------------------------------------------------------------------
(* The document scheduled last.                                            *)

\* Content of an earlier configuration is on its way into the cache, or in it,
\* for one schema at most: the one whose download the last change overtook.
CurrentInv ==
    /\ \A s \in SchemaUris : cache[s] \in {0, config} \/ s = overtaken
    /\ step[Validator] \in {"fetch", "insert"} =>
          schema[Validator] = config \/ wanted[Validator] = overtaken

\* The cache is empty at first.
LEMMA CurrentInvInit == Init => CurrentInv
BY DEF Init, CurrentInv, EmptyCache, Main, Validator, Threads

\* Configure empties the cache and notes the download in flight; later requests
\* go out under the present configuration.
LEMMA CurrentInvStep == TypeInv /\ StaleInv /\ CurrentInv /\ [Next]_vars => CurrentInv'
<1> SUFFICES ASSUME TypeOK, ThreadInv, StaleInv, CurrentInv, [Next]_vars
             PROVE  CurrentInv'
  BY DEF TypeInv
<1> USE NoneIsNoUri
    DEF TypeOK, Mailbox!TypeOK, ThreadInv, Answering, Open, Main, Validator,
        Threads,
        Goto, store, mailbox, thread, client, history, CurrentInv
<1>1. ASSUME NEW u \in Uris, NEW text \in Texts, DidOpen(u, text)
      PROVE  CurrentInv'
  BY <1>1 DEF DidOpen, Receive, Typed
<1>2. ASSUME NEW u \in Uris, NEW text \in Texts, DidChange(u, text)
      PROVE  CurrentInv'
  BY <1>2 DEF DidChange, Receive, Typed
<1>3. ASSUME NEW u \in Uris, DidSave(u)
      PROVE  CurrentInv'
  BY <1>3 DEF DidSave, Receive
<1>4. CASE Schedule
  BY <1>4 DEF Schedule, Mailbox!Post
<1>5. ASSUME NEW u \in Uris, DidClose(u)
      PROVE  CurrentInv'
  BY <1>5 DEF DidClose, Receive
<1>6. CASE Clear
  BY <1>6 DEF Clear
<1>7. CASE DidChangeConfiguration
  BY <1>7 DEF DidChangeConfiguration, Receive
<1>8. ASSUME NEW as \in Settings, Configure(as)
      PROVE  CurrentInv'
  <2>1. \A s \in SchemaUris : cache'[s] = 0
    BY <1>8 DEF Configure, EmptyCache
  <2>2. UNCHANGED wanted /\ step'["validator"] = step["validator"]
    BY <1>8 DEF Configure
  <2>3. step["validator"] \in {"fetch", "insert"} => overtaken' = wanted["validator"]
    BY <1>8 DEF Configure, InFlight
  <2>4. QED
    BY <2>1, <2>2, <2>3
<1>9. ASSUME NEW u \in Uris, ScheduleOne(u)
      PROVE  CurrentInv'
  BY <1>9 DEF ScheduleOne, Mailbox!Post
<1>10. ASSUME NEW u \in Uris, SchemaRequest(u)
       PROVE  CurrentInv'
  BY <1>10 DEF SchemaRequest, Receive
<1>11. CASE Reread
  BY <1>11 DEF Reread
<1>12. CASE DocumentRequest
  BY <1>12 DEF DocumentRequest, Receive
<1>13. CASE Command
  BY <1>13 DEF Command, Receive
<1>14. CASE ApplyEdit
  BY <1>14 DEF ApplyEdit
<1>15. CASE Ignore
  BY <1>15 DEF Ignore, Receive
<1>16. CASE Reply
  BY <1>16 DEF Reply
<1>17. ASSUME NEW t \in Threads, Lookup(t)
       PROVE  CurrentInv'
  BY <1>17 DEF Lookup, AfterResolve, Subject
<1>18. ASSUME NEW t \in Threads, HttpAgent(t)
       PROVE  CurrentInv'
  BY <1>18 DEF HttpAgent
<1>19. ASSUME NEW t \in Threads, FetchDone(t)
       PROVE  CurrentInv'
  BY <1>19 DEF FetchDone
<1>20. ASSUME NEW t \in Threads, FetchFailed(t)
       PROVE  CurrentInv'
  BY <1>20 DEF FetchFailed, AfterResolve
<1>21. ASSUME NEW t \in Threads, Insert(t)
       PROVE  CurrentInv'
  <2> DEFINE w == wanted[t]
  <2>1. w \in SchemaUris /\ schema[t] \in Nat /\ cache \in Cache
    BY <1>21 DEF Insert
  <2>2. /\ cache'[w] = schema[t]
        /\ \A r \in SchemaUris \ {w} : cache'[r] \in {0, cache[r]}
    BY <1>21, <2>1, InsertCacheKeeps DEF Insert
  <2>3. schema[t] = config \/ w = overtaken
    BY <1>21 DEF Insert, StaleInv
  <2>4. UNCHANGED <<config, overtaken>>
    BY <1>21 DEF Insert
  <2>5. \A s \in SchemaUris : cache'[s] \in {0, config'} \/ s = overtaken'
    BY <2>2, <2>3, <2>4
  <2>6. step'["validator"] \in {"fetch", "insert"} =>
          schema'["validator"] = config' \/ wanted'["validator"] = overtaken'
    BY <1>21 DEF Insert, AfterResolve
  <2>7. QED
    BY <2>5, <2>6
<1>22. CASE Take
  BY <1>22 DEF Take, Mailbox!Take
<1>23. CASE Snapshot
  BY <1>23 DEF Snapshot
<1>24. CASE Validate
  BY <1>24 DEF Validate
<1>25. CASE Publish
  BY <1>25 DEF Publish
<1>26. CASE Wake
  BY <1>26 DEF Wake, Mailbox!Done
<1>27. CASE Written
  BY <1>27 DEF Written
<1>28. CASE UNCHANGED vars
  BY <1>28 DEF vars
<1>29. QED
  BY <1>1, <1>2, <1>3, <1>4, <1>5, <1>6, <1>7, <1>8, <1>9, <1>10, <1>11,
     <1>12, <1>13, <1>14, <1>15, <1>16, <1>17, <1>18, <1>19, <1>20, <1>21,
     <1>22, <1>23, <1>24, <1>25, <1>26, <1>27, <1>28
  DEF Next, ClientMessage, MainStep, ValidatorStep, Resolve, Settled


\* Content of the present configuration, or the one that overtaking excuses.
CurrentContent(u, content) == content \in {0, config} \/ Overtaken(u)

\* The worker's results so far are those of the present text of u under the
\* present configuration.
JobFresh(u) ==
    \/ step[Validator] = "snapshot"
    \/ /\ job.version = docs[u].version
       /\ job.validated = 0
       /\ job.content = 0
       /\ \/ /\ step[Validator] = "lookup"
             /\ inline[Validator] = docs[u].inline
          \/ /\ step[Validator] = "agent"
             /\ job.config = config
          \/ /\ step[Validator] \in {"fetch", "insert"}
             /\ job.config = config
             /\ schema[Validator] = config
          \/ /\ step[Validator] = "validate"
             /\ job.config = config
             /\ CurrentContent(u, schema[Validator])
    \/ /\ step[Validator] = "publish"
       /\ job.version = docs[u].version
       /\ job.config = config
       /\ job.validated \in {0, docs[u].version}
       /\ CurrentContent(u, job.content)

\* The document scheduled last is waiting, being validated from its present
\* text, or already shown as it is with no older result on the way.  The steps
\* between a handler's write section and its schedule_validate are exempt.
FreshInv ==
    \A u \in Uris :
        last = u /\ Open(u) /\ step[Main] \notin {"schedule", "scheduleAll"} =>
            \/ slot = u
            \/ busy = u /\ JobFresh(u)
            \/ Fresh(u) /\ (busy = u => step[Validator] = "sleep")

\* No document has been scheduled at first.
LEMMA FreshInvInit == Init => FreshInv
BY NoneIsNoUri DEF Init, FreshInv, Mailbox!Init

\* A text that changes under the worker is scheduled again by the same handler.
LEMMA FreshInvStep == TypeInv /\ CurrentInv /\ FreshInv /\ [Next]_vars => FreshInv'
<1> SUFFICES ASSUME TypeOK, ThreadInv, CurrentInv, FreshInv, [Next]_vars
             PROVE  FreshInv'
  BY DEF TypeInv
<1> USE NoneIsNoUri
    DEF TypeOK, Mailbox!TypeOK, ThreadInv, Answering, Open, Main, Validator,
        Threads,
        Goto, store, mailbox, thread, client, history, FreshInv, JobFresh, Fresh,
        CurrentContent, Overtaken
<1>1. ASSUME NEW u \in Uris, NEW text \in Texts, DidOpen(u, text)
      PROVE  FreshInv'
  BY <1>1 DEF DidOpen, Receive, Typed
<1>2. ASSUME NEW u \in Uris, NEW text \in Texts, DidChange(u, text)
      PROVE  FreshInv'
  BY <1>2 DEF DidChange, Receive, Typed
<1>3. ASSUME NEW u \in Uris, DidSave(u)
      PROVE  FreshInv'
  BY <1>3 DEF DidSave, Receive
<1>4. CASE Schedule
  BY <1>4 DEF Schedule, Mailbox!Post
<1>5. ASSUME NEW u \in Uris, DidClose(u)
      PROVE  FreshInv'
  BY <1>5 DEF DidClose, Receive, Absent
<1>6. CASE Clear
  BY <1>6 DEF Clear, NoDiagnostics
<1>7. CASE DidChangeConfiguration
  BY <1>7 DEF DidChangeConfiguration, Receive
<1>8. ASSUME NEW as \in Settings, Configure(as)
      PROVE  FreshInv'
  BY <1>8 DEF Configure
<1>9. ASSUME NEW u \in Uris, ScheduleOne(u)
      PROVE  FreshInv'
  BY <1>9 DEF ScheduleOne, Mailbox!Post
<1>10. ASSUME NEW u \in Uris, SchemaRequest(u)
       PROVE  FreshInv'
  BY <1>10 DEF SchemaRequest, Receive
<1>11. CASE Reread
  BY <1>11 DEF Reread
<1>12. CASE DocumentRequest
  BY <1>12 DEF DocumentRequest, Receive
<1>13. CASE Command
  BY <1>13 DEF Command, Receive
<1>14. CASE ApplyEdit
  BY <1>14 DEF ApplyEdit
<1>15. CASE Ignore
  BY <1>15 DEF Ignore, Receive
<1>16. CASE Reply
  BY <1>16 DEF Reply
<1>17. ASSUME NEW t \in Threads, Lookup(t)
       PROVE  FreshInv'
  <2>1. UNCHANGED <<docs, assocs, cache, config, slot, busy, last, shown, inline, overtaken>>
    BY <1>17 DEF Lookup
  <2>2. \A u \in Uris : (Fresh(u))' <=> Fresh(u)
    BY <2>1
  <2>3. CASE t = "main"
    <3>1. /\ job' = job /\ step'["validator"] = step["validator"]
          /\ schema'["validator"] = schema["validator"]
          /\ step["main"] \notin {"schedule", "scheduleAll"}
      BY <1>17, <2>3 DEF Lookup, AfterResolve
    <3>2. \A u \in Uris : JobFresh(u) => (JobFresh(u))'
      BY <2>1, <3>1
    <3> HIDE DEF JobFresh, Fresh, Open
    <3>3. \A u \in Uris : (Open(u))' <=> Open(u)
      BY <2>1 DEF Open
    <3> QED
      BY <2>1, <2>2, <3>1, <3>2, <3>3
  <2>4. CASE t = "validator"
    <3>1. /\ step["validator"] = "lookup" /\ step'["main"] = step["main"]
          /\ schema["validator"] = 0
          /\ busy \in Uris
      BY <1>17, <2>4 DEF Lookup, AfterResolve
    <3>2. /\ job'.version = job.version /\ job'.validated = job.validated
          /\ job'.content = job.content /\ job'.config = config
      BY <1>17, <2>4 DEF Lookup, Job
    <3>3. ASSUME NEW u \in Uris, busy = u, JobFresh(u)
          PROVE  (JobFresh(u))'
      <4> DEFINE s == SchemaUriFor(assocs, u, docs[u].inline)
      <4>1. /\ inline["validator"] = docs[u].inline
            /\ job.version = docs[u].version /\ job.validated = 0 /\ job.content = 0
        BY <3>1, <3>3
      <4>2. /\ job'.version = docs'[u].version /\ job'.validated = 0
            /\ job'.content = 0 /\ job'.config = config'
        BY <2>1, <3>2, <4>1
      <4>3. s \in SchemaUris \union {None}
        BY SchemaUriForType DEF Document
      <4> HIDE DEF s
      <4>4. \/ s = None /\ step'["validator"] = "validate" /\ schema'["validator"] = 0
            \/ s # None /\ step'["validator"] = "validate" /\ schema'["validator"] = cache[s]
            \/ step'["validator"] = "agent"
        <5>1. Subject(t) = u /\ inline[t] = docs[u].inline
          BY <2>4, <3>3, <4>1 DEF Subject
        <5>2. SchemaUriFor(assocs, Subject(t), inline[t]) = s
          BY <5>1 DEF s
        <5>3. \/ /\ s = None
                 /\ step' = [step EXCEPT ![t] = AfterResolve(t)]
                 /\ schema' = schema
              \/ /\ s # None
                 /\ schema' = [schema EXCEPT ![t] = cache[s]]
                 /\ step' = [step EXCEPT ![t] = AfterResolve(t)]
              \/ step' = [step EXCEPT ![t] = "agent"]
          <6> HIDE DEF TypeOK, ThreadInv, CurrentInv, FreshInv
          <6> QED
            BY <1>17, <5>2, Zenon DEF Lookup
        <5>4. AfterResolve(t) = "validate"
          BY <2>4 DEF AfterResolve
        <5> HIDE DEF JobFresh, Fresh, Overtaken
        <5>5. QED
          BY <2>4, <3>1, <5>3, <5>4
      <4>5. step'["validator"] = "validate" =>
              \/ schema'["validator"] \in {0, config'}
              \/ (Overtaken(u))'
        <5>1. s # None => cache[s] \in {0, config} \/ s = overtaken
          <6>1. \A r \in SchemaUris : cache[r] \in {0, config} \/ r = overtaken
            BY DEF CurrentInv
          <6> HIDE DEF TypeOK, ThreadInv, CurrentInv, FreshInv, JobFresh, Fresh
          <6>2. QED
            BY <4>3, <6>1
        <5>2. s # None /\ s = overtaken => (Overtaken(u))'
          BY <2>1 DEF s
        <5> HIDE DEF Overtaken
        <5>3. QED
          BY <2>1, <4>4, <5>1, <5>2
      <4>6. QED
        BY <4>2, <4>4, <4>5
    <3>4. busy = last => ~(step["validator"] = "sleep")
      BY <3>1
    <3> HIDE DEF JobFresh, Fresh, Open
    <3>5. \A u \in Uris : (Open(u))' <=> Open(u)
      BY <2>1 DEF Open
    <3> QED
      BY <2>1, <2>2, <3>1, <3>3, <3>5
  <2>5. QED
    BY <2>3, <2>4
<1>18. ASSUME NEW t \in Threads, HttpAgent(t)
       PROVE  FreshInv'
  BY <1>18 DEF HttpAgent
<1>19. ASSUME NEW t \in Threads, FetchDone(t)
       PROVE  FreshInv'
  BY <1>19 DEF FetchDone
<1>20. ASSUME NEW t \in Threads, FetchFailed(t)
       PROVE  FreshInv'
  BY <1>20 DEF FetchFailed, AfterResolve
<1>21. ASSUME NEW t \in Threads, Insert(t)
       PROVE  FreshInv'
  BY <1>21 DEF Insert, AfterResolve
<1>22. CASE Take
  BY <1>22 DEF Take, Mailbox!Take
<1>23. CASE Snapshot
  <2>1. UNCHANGED <<docs, assocs, config, slot, busy, last, shown, overtaken>>
    BY <1>23 DEF Snapshot
  <2>2. busy \in Uris /\ docs[busy] \in Document /\ step'["main"] = step["main"]
    BY <1>23 DEF Snapshot
  <2>3. CASE Open(busy)
    <3>1. /\ job' = SyntaxOf(docs[busy])
          /\ inline'["validator"] = docs[busy].inline
          /\ step'["validator"] = "lookup"
      BY <1>23, <2>3 DEF Snapshot
    <3>2. /\ job'.version = docs[busy].version
          /\ job'.validated = 0 /\ job'.content = 0
      BY <3>1 DEF SyntaxOf
    <3>3. (JobFresh(busy))'
      BY <2>1, <3>1, <3>2
    <3>4. QED
      BY <1>23, <2>1, <2>2, <3>3 DEF Snapshot
  <2>4. CASE ~Open(busy)
    BY <1>23, <2>4 DEF Snapshot
  <2>5. QED
    BY <2>3, <2>4
<1>24. CASE Validate
  BY <1>24 DEF Validate
<1>25. CASE Publish
  BY <1>25 DEF Publish, NoJob
<1>26. CASE Wake
  BY <1>26 DEF Wake, Mailbox!Done
<1>27. CASE Written
  BY <1>27 DEF Written
<1>28. CASE UNCHANGED vars
  BY <1>28 DEF vars
<1>29. QED
  BY <1>1, <1>2, <1>3, <1>4, <1>5, <1>6, <1>7, <1>8, <1>9, <1>10, <1>11,
     <1>12, <1>13, <1>14, <1>15, <1>16, <1>17, <1>18, <1>19, <1>20, <1>21,
     <1>22, <1>23, <1>24, <1>25, <1>26, <1>27, <1>28
  DEF Next, ClientMessage, MainStep, ValidatorStep, Resolve, Settled

\* Once everything has settled only the third case is left.
LEMMA FreshInvImplies == TypeInv /\ FreshInv => LastScheduledFresh
BY NoneIsNoUri
   DEF FreshInv, LastScheduledFresh, Quiescent, TypeInv, TypeOK, ThreadInv,
       Mailbox!TypeOK, Main, Validator, Threads

\* When everything has settled the document scheduled last shows the diagnostics
\* of its present text under the present configuration, with schema content of
\* that configuration unless the change overtook its download.
THEOREM LastDocumentFresh == Spec => []LastScheduledFresh
<1>1. Init => StaleInv /\ CurrentInv /\ FreshInv
  BY StaleInvInit, CurrentInvInit, FreshInvInit
<1>2. TypeInv /\ StaleInv /\ [Next]_vars => StaleInv'
  BY StaleInvStep
<1>3. TypeInv /\ StaleInv /\ CurrentInv /\ [Next]_vars => CurrentInv'
  BY CurrentInvStep
<1>4. TypeInv /\ CurrentInv /\ FreshInv /\ [Next]_vars => FreshInv'
  BY FreshInvStep
<1>5. TypeInv /\ FreshInv => LastScheduledFresh
  BY FreshInvImplies
<1>6. QED
  BY <1>1, <1>2, <1>3, <1>4, <1>5, TypeInvariant, PTL DEF Spec

-----------------------------------------------------------------------------
(* Order of the diagnostics. *)

\* The worker has read a document and not yet sent its results.
Working == {"lookup", "agent", "fetch", "insert", "validate", "publish"}

\* Versions are numbers of messages the client has sent.
IssuedBound ==
    /\ \A u \in Uris : /\ docs[u].version <= issued
                       /\ shown[u].version <= issued
                       /\ shown[u].validated <= issued
    /\ job.version <= issued
    /\ job.validated <= issued

\* What is shown of an open document does not run ahead of its text, and its
\* schema validation is not older than its syntax diagnostics.
ShownNotAhead ==
    \A u \in Uris :
        /\ Open(u) => /\ shown[u].version <= docs[u].version
                      /\ shown[u].validated <= docs[u].version
        /\ shown[u].validated # 0 => shown[u].version <= shown[u].validated

\* The worker's results lie between what is shown and the text.
JobNotBehind ==
    step[Validator] \in Working =>
        /\ shown[busy].version <= job.version
        /\ job.validated # 0 => /\ shown[busy].validated <= job.validated
                                /\ job.version <= job.validated
        /\ step[Validator] # "publish" => job.validated = 0
        /\ Open(busy) => /\ job.version <= docs[busy].version
                         /\ job.validated <= docs[busy].version

OrderInv == IssuedBound /\ ShownNotAhead /\ JobNotBehind

\* Versions are numbers.
LEMMA VersionsType ==
  TypeOK => /\ issued \in Nat
            /\ \A u \in Uris : /\ docs[u].version \in Nat
                               /\ shown[u].version \in Nat
                               /\ shown[u].validated \in Nat
            /\ job.version \in Nat
            /\ job.validated \in Nat
<1> SUFFICES ASSUME TypeOK
             PROVE  /\ issued \in Nat
                    /\ \A u \in Uris : /\ docs[u].version \in Nat
                                       /\ shown[u].version \in Nat
                                       /\ shown[u].validated \in Nat
                    /\ job.version \in Nat
                    /\ job.validated \in Nat
  OBVIOUS
<1>1. issued \in Nat
  BY MsgsBound DEF TypeOK
<1>2. \A u \in Uris : docs[u] \in Document /\ shown[u] \in Diagnostics
  BY DEF TypeOK
<1>3. job \in Job
  BY DEF TypeOK
<1>4. QED
  BY <1>1, <1>2, <1>3 DEF Document, Diagnostics, Job

\* A step that leaves documents, diagnostics and the worker alone.
LEMMA OrderFrame ==
  ASSUME TypeOK, OrderInv, UNCHANGED <<docs, shown, job, busy>>,
         step'[Validator] = step[Validator], issued' \in {issued, issued + 1}
  PROVE  OrderInv'
<1>1. IssuedBound'
  BY VersionsType DEF OrderInv, IssuedBound
<1>2. ShownNotAhead' /\ JobNotBehind'
  BY DEF OrderInv, ShownNotAhead, JobNotBehind, Open
<1>3. QED
  BY <1>1, <1>2 DEF OrderInv

\* A new text is newer than everything, a closed document constrains nothing.
LEMMA OrderText ==
  ASSUME TypeInv, OrderInv, NEW u \in Uris,
         docs'[u].version \in {0, issued + 1},
         \A w \in Uris \ {u} : docs'[w] = docs[w],
         UNCHANGED <<shown, job, busy>>,
         step'[Validator] = step[Validator], issued' = issued + 1
  PROVE  OrderInv'
<1>1. IssuedBound'
  BY VersionsType DEF OrderInv, IssuedBound, TypeInv
<1>2. ShownNotAhead'
  BY VersionsType DEF OrderInv, ShownNotAhead, IssuedBound, TypeInv, Open
<1>3. JobNotBehind'
  <2>1. step[Validator] \in Working => busy \in Uris
    BY DEF TypeInv, TypeOK, ThreadInv, Mailbox!TypeOK, Working
  <2>2. busy = u /\ step[Validator] \in Working =>
          ((Open(u))' => docs'[u].version = issued + 1)
    BY DEF Open
  <2>3. busy # u /\ step[Validator] \in Working => docs'[busy] = docs[busy]
    BY <2>1
  <2>4. QED
    BY <2>1, <2>2, <2>3, VersionsType
    DEF OrderInv, JobNotBehind, IssuedBound, TypeInv, Open
<1>4. QED
  BY <1>1, <1>2, <1>3 DEF OrderInv

\* Nothing has been sent or shown at first.
LEMMA OrderInvInit == Init => OrderInv
BY DEF Init, OrderInv, IssuedBound, ShownNotAhead, JobNotBehind, Working, Main,
       Validator, Threads, Absent, NoDiagnostics, NoJob, Open

\* Every action keeps texts, results and diagnostics in order.
LEMMA OrderInvStep == TypeInv /\ OrderInv /\ [Next]_vars => OrderInv'
<1> SUFFICES ASSUME TypeInv, OrderInv, [Next]_vars
             PROVE  OrderInv'
  OBVIOUS
<1>0. /\ step \in [Threads -> MainSteps \union ValidatorSteps]
      /\ TypeOK /\ TypeOK' /\ ThreadInv
  BY TypeOKStep DEF TypeInv, TypeOK
<1> USE DEF Goto, Main, Validator, Threads, store, mailbox, thread, client, history
<1>1. ASSUME NEW u \in Uris, NEW text \in Texts, DidOpen(u, text)
      PROVE  OrderInv'
  <2>1. /\ docs'[u].version = issued + 1
        /\ \A w \in Uris \ {u} : docs'[w] = docs[w]
    BY <1>1, <1>0 DEF DidOpen, Typed, TypeOK
  <2>2. /\ UNCHANGED <<shown, job, busy>>
        /\ step'[Validator] = step[Validator] /\ issued' = issued + 1
    BY <1>1, <1>0 DEF DidOpen, Receive
  <2>3. QED
    BY <2>1, <2>2, OrderText
<1>2. ASSUME NEW u \in Uris, NEW text \in Texts, DidChange(u, text)
      PROVE  OrderInv'
  <2>1. /\ UNCHANGED <<shown, job, busy>>
        /\ step'[Validator] = step[Validator] /\ issued' = issued + 1
    BY <1>2, <1>0 DEF DidChange, Receive
  <2>2. CASE Open(u)
    <3>1. /\ docs'[u].version = issued + 1
          /\ \A w \in Uris \ {u} : docs'[w] = docs[w]
      BY <1>2, <1>0, <2>2 DEF DidChange, Typed, TypeOK
    <3>2. QED
      BY <2>1, <3>1, OrderText
  <2>3. CASE ~Open(u)
    <3>1. docs' = docs
      BY <1>2, <2>3 DEF DidChange
    <3>2. QED
      BY <1>0, <2>1, <3>1, OrderFrame
  <2>4. QED
    BY <2>2, <2>3
<1>3. ASSUME NEW u \in Uris, DidSave(u)
      PROVE  OrderInv'
  BY <1>3, <1>0, VersionsType, OrderFrame DEF DidSave, Receive
<1>4. CASE Schedule
  BY <1>4, <1>0, VersionsType, OrderFrame DEF Schedule, Mailbox!Post
<1>5. ASSUME NEW u \in Uris, DidClose(u)
      PROVE  OrderInv'
  <2>1. /\ docs'[u].version = 0
        /\ \A w \in Uris \ {u} : docs'[w] = docs[w]
    BY <1>5, <1>0 DEF DidClose, Absent, TypeOK
  <2>2. /\ UNCHANGED <<shown, job, busy>>
        /\ step'[Validator] = step[Validator] /\ issued' = issued + 1
    BY <1>5, <1>0 DEF DidClose, Receive
  <2>3. QED
    BY <2>1, <2>2, OrderText
<1>6. CASE Clear
  <2>1. /\ target \in Uris
        /\ shown' = [shown EXCEPT ![target] = NoDiagnostics]
        /\ UNCHANGED <<docs, job, busy, issued>>
        /\ step'[Validator] = step[Validator]
    BY <1>6, <1>0 DEF Clear, ThreadInv, TypeOK
  <2>2. /\ shown'[target].version = 0 /\ shown'[target].validated = 0
        /\ \A w \in Uris \ {target} : shown'[w] = shown[w]
    BY <1>0, <2>1 DEF TypeOK, NoDiagnostics
  <2>3. IssuedBound' /\ ShownNotAhead'
    BY <1>0, <2>1, <2>2, VersionsType DEF OrderInv, IssuedBound, ShownNotAhead, Open
  <2>4. JobNotBehind'
    <3>1. step[Validator] \in Working => busy \in Uris
      BY <1>0 DEF TypeOK, ThreadInv, Mailbox!TypeOK, Working
    <3>2. busy \in Uris => /\ shown'[busy].version \in {0, shown[busy].version}
                           /\ shown'[busy].validated \in {0, shown[busy].validated}
      BY <2>2
    <3> QED
      BY <1>0, <2>1, <3>1, <3>2, VersionsType DEF OrderInv, JobNotBehind, Open
  <2>5. QED
    BY <2>3, <2>4 DEF OrderInv
<1>7. CASE DidChangeConfiguration
  BY <1>7, <1>0, VersionsType, OrderFrame DEF DidChangeConfiguration, Receive
<1>8. ASSUME NEW as \in Settings, Configure(as)
      PROVE  OrderInv'
  BY <1>8, <1>0, VersionsType, OrderFrame DEF Configure
<1>9. ASSUME NEW u \in Uris, ScheduleOne(u)
      PROVE  OrderInv'
  BY <1>9, <1>0, VersionsType, OrderFrame DEF ScheduleOne, Mailbox!Post
<1>10. ASSUME NEW u \in Uris, SchemaRequest(u)
       PROVE  OrderInv'
  BY <1>10, <1>0, VersionsType, OrderFrame DEF SchemaRequest, Receive
<1>11. CASE Reread
  BY <1>11, <1>0, VersionsType, OrderFrame DEF Reread
<1>12. CASE DocumentRequest
  BY <1>12, <1>0, VersionsType, OrderFrame DEF DocumentRequest, Receive
<1>13. CASE Command
  BY <1>13, <1>0, VersionsType, OrderFrame DEF Command, Receive
<1>14. CASE ApplyEdit
  BY <1>14, <1>0, VersionsType, OrderFrame DEF ApplyEdit
<1>15. CASE Ignore
  BY <1>15, <1>0, VersionsType, OrderFrame DEF Ignore, Receive
<1>16. CASE Reply
  BY <1>16, <1>0, VersionsType, OrderFrame DEF Reply
<1>17. ASSUME NEW t \in Threads, Lookup(t)
       PROVE  OrderInv'
  BY <1>17, <1>0
  DEF Lookup, AfterResolve, OrderInv, IssuedBound, ShownNotAhead,
      JobNotBehind, Working, Open,
      TypeOK, Job
<1>18. ASSUME NEW t \in Threads, HttpAgent(t)
       PROVE  OrderInv'
  BY <1>18, <1>0
  DEF HttpAgent, OrderInv, IssuedBound, ShownNotAhead, JobNotBehind, Working,
      Open
<1>19. ASSUME NEW t \in Threads, FetchDone(t)
       PROVE  OrderInv'
  BY <1>19, <1>0
  DEF FetchDone, OrderInv, IssuedBound, ShownNotAhead, JobNotBehind, Working,
      Open
<1>20. ASSUME NEW t \in Threads, FetchFailed(t)
       PROVE  OrderInv'
  BY <1>20, <1>0
  DEF FetchFailed, AfterResolve, OrderInv, IssuedBound, ShownNotAhead,
      JobNotBehind, Working, Open
<1>21. ASSUME NEW t \in Threads, Insert(t)
       PROVE  OrderInv'
  BY <1>21, <1>0
  DEF Insert, AfterResolve, OrderInv, IssuedBound, ShownNotAhead,
      JobNotBehind, Working, Open
<1>22. CASE Take
  BY <1>22, <1>0
  DEF Take, Mailbox!Take, OrderInv, IssuedBound, ShownNotAhead, JobNotBehind,
      Working, Open
<1>23. CASE Snapshot
  <2>1. busy \in Uris
    BY <1>23, <1>0 DEF Snapshot, ThreadInv, TypeOK, Mailbox!TypeOK
  <2>2. UNCHANGED <<docs, shown, busy, issued>>
    BY <1>23 DEF Snapshot
  <2>3. CASE Open(busy)
    <3>1. /\ job'.version = docs[busy].version /\ job'.validated = 0
          /\ step'[Validator] = "lookup"
      BY <1>23, <1>0, <2>3 DEF Snapshot, SyntaxOf
    <3>2. IssuedBound' /\ ShownNotAhead'
      BY <1>0, <2>1, <2>2, <3>1, VersionsType
      DEF OrderInv, IssuedBound, ShownNotAhead, Open
    <3>3. JobNotBehind'
      BY <1>0, <2>1, <2>2, <2>3, <3>1, VersionsType
      DEF OrderInv, ShownNotAhead, JobNotBehind, Open
    <3>4. QED
      BY <3>2, <3>3 DEF OrderInv
  <2>4. CASE ~Open(busy)
    BY <1>23, <1>0, <2>4
    DEF Snapshot, OrderInv, IssuedBound, ShownNotAhead, JobNotBehind, Working,
        Open
  <2>5. QED
    BY <2>3, <2>4
<1>24. CASE Validate
  <2>1. busy \in Uris
    BY <1>24, <1>0 DEF Validate, ThreadInv, TypeOK, Mailbox!TypeOK
  <2>2. UNCHANGED <<docs, shown, busy, issued>> /\ step'[Validator] = "publish"
    BY <1>24, <1>0 DEF Validate
  <2>3. job'.version = job.version /\ job'.validated \in {0, docs[busy].version}
    BY <1>24, <1>0 DEF Validate, TypeOK, Job, OrderInv, JobNotBehind, Working
  <2>4. IssuedBound' /\ ShownNotAhead'
    BY <1>0, <2>1, <2>2, <2>3, VersionsType
    DEF OrderInv, IssuedBound, ShownNotAhead, Open
  <2>5. JobNotBehind'
    BY <1>24, <1>0, <2>1, <2>2, <2>3, VersionsType
    DEF Validate, OrderInv, ShownNotAhead, JobNotBehind, Working, Open
  <2>6. QED
    BY <2>4, <2>5 DEF OrderInv
<1>25. CASE Publish
  <2>1. busy \in Uris
    BY <1>25, <1>0 DEF Publish, ThreadInv, TypeOK, Mailbox!TypeOK
  <2>2. /\ UNCHANGED <<docs, busy, issued>> /\ step'[Validator] = "sleep"
        /\ job'.version = 0 /\ job'.validated = 0
    BY <1>25, <1>0 DEF Publish, NoJob
  <2>3. /\ shown'[busy].version = job.version /\ shown'[busy].validated = job.validated
        /\ \A w \in Uris \ {busy} : shown'[w] = shown[w]
    BY <1>25, <1>0, <2>1 DEF Publish, TypeOK
  <2>4. IssuedBound'
    BY <1>0, <2>1, <2>2, <2>3, VersionsType DEF OrderInv, IssuedBound
  <2>5. ShownNotAhead'
    BY <1>25, <1>0, <2>1, <2>2, <2>3, VersionsType
    DEF Publish, OrderInv, ShownNotAhead, JobNotBehind, Working, Open
  <2>6. JobNotBehind'
    BY <2>2 DEF JobNotBehind, Working
  <2>7. QED
    BY <2>4, <2>5, <2>6 DEF OrderInv
<1>26. CASE Wake
  BY <1>26, <1>0
  DEF Wake, Mailbox!Done, OrderInv, IssuedBound, ShownNotAhead, JobNotBehind,
      Working, Open
<1>27. CASE Written
  BY <1>27, <1>0, VersionsType, OrderFrame DEF Written
<1>28. CASE UNCHANGED vars
  BY <1>28, <1>0, VersionsType, OrderFrame DEF vars
<1>29. QED
  BY <1>1, <1>2, <1>3, <1>4, <1>5, <1>6, <1>7, <1>8, <1>9, <1>10, <1>11,
     <1>12, <1>13, <1>14, <1>15, <1>16, <1>17, <1>18, <1>19, <1>20, <1>21,
     <1>22, <1>23, <1>24, <1>25, <1>26, <1>27, <1>28
  DEF Next, ClientMessage, MainStep, ValidatorStep, Resolve, Settled

\* Only Clear and Publish change what is shown.
LEMMA ShownChanges ==
  [Next]_vars => UNCHANGED shown \/ Clear \/ Publish
BY DEF Next, ClientMessage, MainStep, ValidatorStep, Resolve, Settled, vars, client,
       DidOpen, DidChange, DidSave, Schedule, DidClose, DidChangeConfiguration,
       Configure, ScheduleOne, SchemaRequest, Reread, DocumentRequest, Command,
       ApplyEdit, Ignore, Reply, Lookup, HttpAgent, FetchDone, FetchFailed, Insert,
       Take, Snapshot, Validate, Wake, Written

\* A step leaves the diagnostics of a document alone, clears them, or replaces
\* them by newer ones.
LEMMA NewerOrNone ==
  ASSUME TypeInv, OrderInv, [Next]_vars, NEW u \in Uris, shown'[u] # NoDiagnostics
  PROVE  /\ shown'[u].version >= shown[u].version
         /\ shown'[u].validated # 0 => /\ shown'[u].validated >= shown[u].validated
                                       /\ shown'[u].validated >= shown'[u].version
<1>0. TypeOK /\ ThreadInv
  BY DEF TypeInv
<1>1. CASE UNCHANGED shown
  BY <1>0, <1>1, VersionsType DEF OrderInv, ShownNotAhead
<1>2. CASE Clear
  <2>1. target \in Uris
    BY <1>0, <1>2 DEF Clear, ThreadInv, TypeOK
  <2>2. shown'[u] = IF u = target THEN NoDiagnostics ELSE shown[u]
    BY <1>0, <1>2, <2>1 DEF Clear, TypeOK
  <2>3. QED
    BY <1>0, <2>2, VersionsType DEF OrderInv, ShownNotAhead
<1>3. CASE Publish
  <2>1. busy \in Uris
    BY <1>0, <1>3 DEF Publish, ThreadInv, TypeOK, Mailbox!TypeOK
  <2>2. \/ shown'[u] = shown[u]
        \/ /\ u = busy
           /\ shown'[u].version = job.version
           /\ shown'[u].validated = job.validated
    BY <1>0, <1>3, <2>1 DEF Publish, TypeOK
  <2>3. QED
    BY <1>0, <1>3, <2>2, VersionsType
    DEF Publish, OrderInv, ShownNotAhead, JobNotBehind, Working
<1>4. QED
  BY <1>1, <1>2, <1>3, ShownChanges

\* Diagnostics never go back to an older text unless they were cleared.
THEOREM DiagnosticsNeverBackwards == Spec => NeverBackwards
<1>1. Init => OrderInv
  BY OrderInvInit
<1>2. TypeInv /\ OrderInv /\ [Next]_vars => OrderInv'
  BY OrderInvStep
<1>3. TypeInv /\ OrderInv /\ [Next]_vars =>
        [\A u \in Uris :
            shown'[u] # NoDiagnostics =>
               /\ shown'[u].version >= shown[u].version
               /\ shown'[u].validated # 0 =>
                     /\ shown'[u].validated >= shown[u].validated
                     /\ shown'[u].validated >= shown'[u].version]_vars
  BY NewerOrNone
<1>4. QED
  BY <1>1, <1>2, <1>3, TypeInvariant, PTL DEF Spec, NeverBackwards

-----------------------------------------------------------------------------
(* Late results. *)

\* While the worker has yet to send results for a closed and cleared document,
\* none has been sent.
LateInv ==
    \A u \in Uris :
        ~Open(u) /\ ~(step[Main] = "clear" /\ target = u) =>
            /\ late[u] <= 1
            /\ busy = u /\ step[Validator] \in Working => late[u] = 0


\* Nothing is open and nothing has been sent at first.
LEMMA LateInvInit == Init => LateInv
BY DEF Init, LateInv, Working, Main, Validator, Threads

\* Only Publish sends late results, and it ends the work on its document.
LEMMA LateInvStep == TypeInv /\ LateInv /\ [Next]_vars => LateInv'
<1> SUFFICES ASSUME TypeOK, ThreadInv, LateInv, [Next]_vars
             PROVE  LateInv'
  BY DEF TypeInv
<1> USE NoneIsNoUri
    DEF TypeOK, Mailbox!TypeOK, ThreadInv, Answering, Open, Main, Validator,
        Threads,
        Goto, store, mailbox, thread, client, history, LateInv, Working
<1>1. ASSUME NEW u \in Uris, NEW text \in Texts, DidOpen(u, text)
      PROVE  LateInv'
  BY <1>1 DEF DidOpen, Receive, Typed
<1>2. ASSUME NEW u \in Uris, NEW text \in Texts, DidChange(u, text)
      PROVE  LateInv'
  BY <1>2 DEF DidChange, Receive, Typed
<1>3. ASSUME NEW u \in Uris, DidSave(u)
      PROVE  LateInv'
  BY <1>3 DEF DidSave, Receive
<1>4. CASE Schedule
  BY <1>4 DEF Schedule, Mailbox!Post
<1>5. ASSUME NEW u \in Uris, DidClose(u)
      PROVE  LateInv'
  BY <1>5 DEF DidClose, Receive, Absent
<1>6. CASE Clear
  BY <1>6 DEF Clear
<1>7. CASE DidChangeConfiguration
  BY <1>7 DEF DidChangeConfiguration, Receive
<1>8. ASSUME NEW as \in Settings, Configure(as)
      PROVE  LateInv'
  BY <1>8 DEF Configure
<1>9. ASSUME NEW u \in Uris, ScheduleOne(u)
      PROVE  LateInv'
  BY <1>9 DEF ScheduleOne, Mailbox!Post
<1>10. ASSUME NEW u \in Uris, SchemaRequest(u)
       PROVE  LateInv'
  BY <1>10 DEF SchemaRequest, Receive
<1>11. CASE Reread
  BY <1>11 DEF Reread
<1>12. CASE DocumentRequest
  BY <1>12 DEF DocumentRequest, Receive
<1>13. CASE Command
  BY <1>13 DEF Command, Receive
<1>14. CASE ApplyEdit
  BY <1>14 DEF ApplyEdit
<1>15. CASE Ignore
  BY <1>15 DEF Ignore, Receive
<1>16. CASE Reply
  BY <1>16 DEF Reply
<1>17. ASSUME NEW t \in Threads, Lookup(t)
       PROVE  LateInv'
  BY <1>17 DEF Lookup, AfterResolve, Subject
<1>18. ASSUME NEW t \in Threads, HttpAgent(t)
       PROVE  LateInv'
  BY <1>18 DEF HttpAgent
<1>19. ASSUME NEW t \in Threads, FetchDone(t)
       PROVE  LateInv'
  BY <1>19 DEF FetchDone
<1>20. ASSUME NEW t \in Threads, FetchFailed(t)
       PROVE  LateInv'
  BY <1>20 DEF FetchFailed, AfterResolve
<1>21. ASSUME NEW t \in Threads, Insert(t)
       PROVE  LateInv'
  BY <1>21 DEF Insert, AfterResolve
<1>22. CASE Take
  BY <1>22 DEF Take, Mailbox!Take
<1>23. CASE Snapshot
  BY <1>23 DEF Snapshot
<1>24. CASE Validate
  BY <1>24 DEF Validate
<1>25. CASE Publish
  BY <1>25 DEF Publish
<1>26. CASE Wake
  BY <1>26 DEF Wake, Mailbox!Done
<1>27. CASE Written
  BY <1>27 DEF Written
<1>28. CASE UNCHANGED vars
  BY <1>28 DEF vars
<1>29. QED
  BY <1>1, <1>2, <1>3, <1>4, <1>5, <1>6, <1>7, <1>8, <1>9, <1>10, <1>11,
     <1>12, <1>13, <1>14, <1>15, <1>16, <1>17, <1>18, <1>19, <1>20, <1>21,
     <1>22, <1>23, <1>24, <1>25, <1>26, <1>27, <1>28
  DEF Next, ClientMessage, MainStep, ValidatorStep, Resolve, Settled

\* The first half of the invariant is the property.
LEMMA LateInvImplies == TypeInv /\ LateInv => AtMostOneLate
BY DEF LateInv, AtMostOneLate

\* At most one late result follows the clearing of a closed document.
THEOREM AtMostOneLateResult == Spec => []AtMostOneLate
<1>1. Init => LateInv
  BY LateInvInit
<1>2. TypeInv /\ LateInv /\ [Next]_vars => LateInv'
  BY LateInvStep
<1>3. TypeInv /\ LateInv => AtMostOneLate
  BY LateInvImplies
<1>4. QED
  BY <1>1, <1>2, <1>3, TypeInvariant, PTL DEF Spec
=============================================================================
