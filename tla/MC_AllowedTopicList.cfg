CONSTANTS
    t1 = t1
    t2 = t2
    f1 = f1
    f2 = f2
    f3 = f3
    e1 = e1
    e2 = e2
    NoThread = NoThread
    Topics <- MCTopics
    Filters <- MCFilters
    Match <- MCMatch
    Evaluators <- MCEvaluators
    Loaded <- MCLoaded
SPECIFICATION Spec
INVARIANTS
    TypeOK
    QuiescentVerdict
