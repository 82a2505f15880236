SPECIFICATION Spec
CONSTANTS
    Workers = {"recv"}
    MaxReads = 3
PROPERTY ExitEndsProcess
CHECK_DEADLOCK FALSE
