--------------------------- MODULE MCPeerManager ---------------------------
(* Instance of PeerManager: a peer that may be approved again under another  *)
(* address, and one behind our own NAT, reached by the relay, that can take  *)
(* over its first one.  The relay's host is a name of the server's own       *)
(* network.                                                                  *)
EXTENDS PeerManager

CONSTANTS p1, p2, k1, k2, x, y, a, own, svc, relay1

MCInfos == {
    [id |-> p1, key |-> k1, vip |-> x, public |-> a, lan |-> NONE],
    [id |-> p1, key |-> k1, vip |-> y, public |-> a, lan |-> NONE],
    [id |-> p2, key |-> k2, vip |-> x, public |-> own, lan |-> NONE]}

\* Without the other address.
MCFirstInfos == {i \in MCInfos : i.vip = x}
=============================================================================
