CONSTANTS
    t1 = t1
    t2 = t2
    t3 = t3
    f1 = f1
    f2 = f2
    f3 = f3
    f4 = f4
    f5 = f5
    Topics <- MCTopics
    Filters <- MCFilters
    Match <- MCMatch
SPECIFICATION Spec
\* The reduction is a terminating loop: the call returns once pending = {}.
CHECK_DEADLOCK FALSE
INVARIANTS
    TypeOK
    NoRedundancy
    Coverage
    PreservesVerdict
