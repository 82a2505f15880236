----------------------------- MODULE SchemaStore -----------------------------
(***************************************************************************)
(* The decisions of SchemaStore (src/src/schema/resolver.rs): which schema *)
(* a document uses, whether it is cached, and what an insertion does to a  *)
(* full cache.                                                             *)
(*                                                                         *)
(* A cache maps every schema URI to the content cached for it.  The        *)
(* content is represented by the number of the configuration in force when *)
(* it was downloaded, 0 standing for "not cached".  An association is the  *)
(* set of documents its glob patterns match and the URI of its schema; its *)
(* in-memory schema is left out, because on_did_change_configuration, the  *)
(* only caller of set_associations, always stores None there.              *)
(***************************************************************************)
EXTENDS Naturals, Sequences, FiniteSets

CONSTANTS
    Uris,           \* document URIs
    SchemaUris,     \* URIs schemas are downloaded from
    None,           \* the absent URI
    MaxSchemaCache  \* MAX_SCHEMA_CACHE

ASSUME NoneIsNoUri   == None \notin Uris /\ None \notin SchemaUris
ASSUME FiniteSchemas == IsFiniteSet(SchemaUris)
ASSUME CacheCapacity == MaxSchemaCache \in Nat \ {0}

Association == [fileMatch : SUBSET Uris, uri : SchemaUris]

Cache == [SchemaUris -> Nat]

EmptyCache == [s \in SchemaUris |-> 0]

Cached(cache) == {s \in SchemaUris : cache[s] # 0}

\* match_association: the first association one of whose patterns matches.
MatchAssociation(assocs, u) ==
    LET first == {i \in 1..Len(assocs) :
                    /\ u \in assocs[i].fileMatch
                    /\ \A j \in 1..(i - 1) : u \notin assocs[j].fileMatch}
    IN  IF first = {} THEN None ELSE assocs[CHOOSE i \in first : TRUE].uri

\* schema_for_document up to the cache: "$schema" of the document wins.
SchemaUriFor(assocs, u, inline) ==
    IF inline # None THEN inline ELSE MatchAssociation(assocs, u)

\* Mutant of InsertCache: the limit is exceeded by one.
InsertBeyondLimit(cache, s, content) ==
    LET full == Cardinality(Cached(cache)) > MaxSchemaCache /\ cache[s] = 0
    IN  [(IF full THEN EmptyCache ELSE cache) EXCEPT ![s] = content]

\* insert_cache: a full cache is emptied before a new key enters.
InsertCache(cache, s, content) ==
    LET full == Cardinality(Cached(cache)) >= MaxSchemaCache /\ cache[s] = 0
    IN  [(IF full THEN EmptyCache ELSE cache) EXCEPT ![s] = content]
=============================================================================
