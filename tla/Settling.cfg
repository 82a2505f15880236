SPECIFICATION Spec
CONSTANTS
    u1 = u1
    u2 = u2
    s1 = s1
    s2 = s2
    s3 = s3
    None = None
    Uris = {u1, u2}
    SchemaUris = {s1}
    MaxSchemaCache = 1
    Texts <- MCTexts
    Settings <- MCSettings
    Conformant = FALSE
    MaxMsgs = 3
PROPERTY RequestsAnswered
PROPERTY EventuallyFresh
