SPECIFICATION Spec
CONSTANTS
    Uris = {u1, u2, u3}
    None = None
    MaxSends = 5
INVARIANT TypeOK
PROPERTY ImplementsMailbox
