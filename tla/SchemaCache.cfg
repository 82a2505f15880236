SPECIFICATION Spec
CONSTANTS
    u1 = u1
    u2 = u2
    s1 = s1
    s2 = s2
    s3 = s3
    None = None
    Uris = {u1}
    SchemaUris = {s1, s2, s3}
    MaxSchemaCache = 2
    Texts <- CacheTexts
    Settings <- CacheSettings
    Conformant = FALSE
    MaxMsgs = 4
INVARIANT CacheBounded
INVARIANT AtMostOneStaleSchema
INVARIANT LastScheduledFresh
