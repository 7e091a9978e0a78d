------------------------ MODULE DiscoveryServerConfig ------------------------
(***************************************************************************)
(* DiscoveryServerParticipantConfiguration::is_valid and operator==.      *)
(*                                                                         *)
(* A configuration is a record: the verdicts of the checks this file      *)
(* delegates (SimpleParticipantConfiguration::is_valid, GuidPrefix::      *)
(* is_valid) as booleans, the listening and connection address sets, and  *)
(* the TLS configuration as the three queries is_valid uses.  An address  *)
(* is valid when it is in ValidAddresses / ValidConnections (the result   *)
(* of Address::is_valid and DiscoveryServerConnectionAddress::is_valid).  *)
(* The error message is abstracted to the check that wrote it.            *)
(***************************************************************************)
CONSTANTS Addresses,         \* listening Address values
          ValidAddresses,    \* those for which Address::is_valid holds
          Connections,       \* DiscoveryServerConnectionAddress values
          ValidConnections   \* those whose is_valid holds

ASSUME AddressAssumption ==
    ValidAddresses \subseteq Addresses /\ ValidConnections \subseteq Connections

TlsConfigs == [active : BOOLEAN, server : BOOLEAN, client : BOOLEAN]

Configs == [base_valid : BOOLEAN,
            guid_valid : BOOLEAN,
            listening_addresses : SUBSET Addresses,
            connection_addresses : SUBSET Connections,
            tls_configuration : TlsConfigs]

(* The check that rejected the configuration, or "valid".                  *)
Outcomes == {"base", "guid", "listening", "connection", "no_address",
             "tls_server", "tls_client", "valid"}

(* Mutant: the client check is left out (copy of the server branch only). *)
TlsOutcomeServerOnly(c) ==
    IF c.listening_addresses # {} /\ ~c.tls_configuration.server
    THEN "tls_server"
    ELSE "valid"

(* The TLS checks, run only when TLS is active.                            *)
TlsOutcome(c) ==
    IF c.listening_addresses # {} /\ ~c.tls_configuration.server
    THEN "tls_server"
    ELSE IF c.connection_addresses # {} /\ ~c.tls_configuration.client
    THEN "tls_client"
    ELSE "valid"

(* is_valid: the checks in the order of the code, returning at the first  *)
(* that fails.                                                             *)
IsValid(c) ==
    IF ~c.base_valid THEN "base"
    ELSE IF ~c.guid_valid THEN "guid"
    ELSE IF \E a \in c.listening_addresses : a \notin ValidAddresses
         THEN "listening"
    ELSE IF \E a \in c.connection_addresses : a \notin ValidConnections
         THEN "connection"
    ELSE IF c.listening_addresses = {} /\ c.connection_addresses = {}
         THEN "no_address"
    ELSE IF c.tls_configuration.active THEN TlsOutcome(c)
    ELSE "valid"

VARIABLES config,   \* the configuration a participant is built from
          outcome   \* what is_valid reported, "unchecked" before the call

vars == <<config, outcome>>

Init ==
    /\ config \in Configs
    /\ outcome = "unchecked"

(* The router validates the configuration before building the participant *)
Validate ==
    /\ outcome = "unchecked"
    /\ outcome' = IsValid(config)
    /\ UNCHANGED config

Spec == Init /\ [][Validate]_vars

-----------------------------------------------------------------------------
(* Spec 3 and 4.4: a configuration is accepted exactly when its fields are *)
(* valid, it has some address, and active TLS backs every role it takes:  *)
(* server material for listening, client material for connecting.         *)
AcceptsExactlyWellFormed ==
    outcome # "unchecked" =>
        ((outcome = "valid") <=>
            /\ config.base_valid /\ config.guid_valid
            /\ config.listening_addresses \subseteq ValidAddresses
            /\ config.connection_addresses \subseteq ValidConnections
            /\ config.listening_addresses \cup config.connection_addresses # {}
            /\ config.tls_configuration.active =>
                  /\ config.listening_addresses # {} => config.tls_configuration.server
                  /\ config.connection_addresses # {} => config.tls_configuration.client)
=============================================================================
