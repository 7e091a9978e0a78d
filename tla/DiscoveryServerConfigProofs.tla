-------------------- MODULE DiscoveryServerConfigProofs --------------------
(***************************************************************************)
(* Proof that DiscoveryServerParticipantConfiguration::is_valid accepts   *)
(* exactly the well-formed configurations, for every set of addresses and *)
(* every split of them into valid and invalid ones.                        *)
(*                                                                         *)
(* The property is about one call, so it is not a matter of induction:    *)
(* the work is the lemma that the chain of early returns computes "valid" *)
(* exactly when no check fails.                                            *)
(***************************************************************************)
EXTENDS DiscoveryServerConfig, TLAPS

(* What spec sections 3 and 4.4 call well formed.                          *)
WellFormed(c) ==
    /\ c.base_valid /\ c.guid_valid
    /\ c.listening_addresses \subseteq ValidAddresses
    /\ c.connection_addresses \subseteq ValidConnections
    /\ c.listening_addresses \cup c.connection_addresses # {}
    /\ c.tls_configuration.active =>
          /\ c.listening_addresses # {} => c.tls_configuration.server
          /\ c.connection_addresses # {} => c.tls_configuration.client

(* The TLS checks pass exactly when active TLS backs both roles.           *)
LEMMA TlsOutcomeValid ==
    ASSUME NEW c \in Configs
    PROVE  TlsOutcome(c) = "valid" <=>
               /\ c.listening_addresses # {} => c.tls_configuration.server
               /\ c.connection_addresses # {} => c.tls_configuration.client
BY DEF TlsOutcome

(* The chain of early returns ends in "valid" exactly on well-formed       *)
(* configurations: each return names a conjunct that fails, and the last  *)
(* one is reached only when all earlier ones held.                         *)
LEMMA IsValidCharacterised ==
    ASSUME NEW c \in Configs
    PROVE  IsValid(c) = "valid" <=> WellFormed(c)
<1>1. (\E a \in c.listening_addresses : a \notin ValidAddresses)
          <=> ~(c.listening_addresses \subseteq ValidAddresses)
  OBVIOUS
<1>2. (\E a \in c.connection_addresses : a \notin ValidConnections)
          <=> ~(c.connection_addresses \subseteq ValidConnections)
  OBVIOUS
<1>3. (c.listening_addresses = {} /\ c.connection_addresses = {})
          <=> ~(c.listening_addresses \cup c.connection_addresses # {})
  OBVIOUS
<1>4. "tls_server" # "valid" /\ "tls_client" # "valid" /\ "base" # "valid"
      /\ "guid" # "valid" /\ "listening" # "valid" /\ "connection" # "valid"
      /\ "no_address" # "valid"
  OBVIOUS
<1>. QED  BY <1>1, <1>2, <1>3, <1>4, TlsOutcomeValid DEF IsValid, WellFormed

(* The state of the validation: the configuration is one of Configs and  *)
(* the outcome, once reported, is what is_valid returns for it.            *)
VInv ==
    /\ config \in Configs
    /\ outcome \in {"unchecked"} \cup Outcomes
    /\ outcome # "unchecked" => outcome = IsValid(config)

LEMMA InitVInv == Init => VInv
BY DEF Init, VInv

LEMMA NextVInv == VInv /\ [Validate]_vars => VInv'
<1> SUFFICES ASSUME VInv, [Validate]_vars PROVE VInv'
  OBVIOUS
<1>1. IsValid(config) \in Outcomes
  BY DEF VInv, IsValid, TlsOutcome, Outcomes
<1>2. CASE Validate
  BY <1>1, <1>2 DEF Validate, VInv
<1>3. CASE UNCHANGED vars
  BY <1>3 DEF vars, VInv
<1>. QED  BY <1>2, <1>3

(* Spec 3 and 4.4: whenever is_valid has run on a configuration, it has   *)
(* accepted it exactly when the fields are valid, some address is given   *)
(* and active TLS backs every role, for every address universe.           *)
THEOREM AcceptsExactlyWellFormedHolds == Spec => []AcceptsExactlyWellFormed
<1>1. VInv => AcceptsExactlyWellFormed
  BY IsValidCharacterised DEF VInv, AcceptsExactlyWellFormed, WellFormed
<1>. QED  BY <1>1, InitVInv, NextVInv, PTL DEF Spec
=============================================================================
