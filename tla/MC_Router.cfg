CONSTANTS
    i1 = i1
    i2 = i2
    i3 = i3
    t1 = t1
    t2 = t2
    NoParticipant = NoParticipant
    Ids <- MCIds
    Topics <- MCTopics
    Plans <- MCPlans
    MaxBuilt = 3
SPECIFICATION Spec
\* The router is destroyed at the end of its teardown (phase "done").
CHECK_DEADLOCK FALSE
INVARIANTS
    TypeOK
    NoLeakAtDestruction
PROPERTIES
    ShutdownCompletes
