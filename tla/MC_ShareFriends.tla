-------------------------- MODULE MC_ShareFriends --------------------------
(* Two peers: whatever one peer keeps about another depends on no third.     *)
EXTENDS ShareFriends

CONSTANTS alice, bob

MCPeers == {alice, bob}
=============================================================================
