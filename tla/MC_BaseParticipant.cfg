CONSTANTS
    t1 = t1
    t2 = t2
    NoEndpoint = NoEndpoint
    Topics <- MCTopics
    MaxEndpoints = 5
SPECIFICATION Spec
INVARIANTS
    TypeOK
    EndpointAccounting
