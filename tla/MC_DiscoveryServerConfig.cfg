CONSTANTS
    a1 = a1
    a2 = a2
    c1 = c1
    c2 = c2
    Addresses <- MCAddresses
    ValidAddresses <- MCValidAddresses
    Connections <- MCConnections
    ValidConnections <- MCValidConnections
SPECIFICATION Spec
\* Validation is one call: after it the configuration is decided.
CHECK_DEADLOCK FALSE
INVARIANTS
    AcceptsExactlyWellFormed
