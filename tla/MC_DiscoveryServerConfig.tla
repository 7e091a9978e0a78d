----------------------- MODULE MC_DiscoveryServerConfig -----------------------
EXTENDS DiscoveryServerConfig, TLC

CONSTANTS a1, a2, c1, c2

(* One valid and one invalid address of each kind, so that every check    *)
(* of is_valid can fail and every one can pass.                            *)
MCAddresses == {a1, a2}
MCValidAddresses == {a1}
MCConnections == {c1, c2}
MCValidConnections == {c1}
=============================================================================
