SPECIFICATION Spec
CONSTANTS
    Sources <- Siblings
    Values <- Flat
INVARIANT AllOfSiblingsKnown
