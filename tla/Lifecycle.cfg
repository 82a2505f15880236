SPECIFICATION Spec
CONSTANTS
    Workers = {"absent", "recv"}
    MaxReads = 5
INVARIANT TypeOK
INVARIANT NoPanicWithoutFault
INVARIANT SendsReceived
PROPERTY MessagesTaken
PROPERTY InputEndStopsService
PROPERTY ProcessEnds
CHECK_DEADLOCK FALSE
