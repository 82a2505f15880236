SPECIFICATION Spec
CONSTANTS
    Sources <- MCSources
    Values <- MCValues
INVARIANT AgreesWithJsonSchema
INVARIANT BranchesDoNotInterfere
INVARIANT ResolvedIsKnown
INVARIANT OffersAccepted
