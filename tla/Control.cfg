\* Two callers, four numbers (three but for 0), two rounds of QMIReady.
CONSTANTS
    Users = {"u1", "u2"}
    Numbers = 4
    Rounds = 2
    MaxDraws = 7
    MaxSignals = 1
SPECIFICATION Spec
INVARIANTS NumbersDiffer OwnAnswer ReadyLeavesNothing
CHECK_DEADLOCK FALSE
