------------------------------- MODULE Tunnel -------------------------------
(***************************************************************************)
(* WGTunnel of client/internal/tunnel/wireguard.go on Linux, with the      *)
(* kernel's WireGuard device behind it (external: the wg and ip commands   *)
(* of platform_linux.go).  Every operation holds w.mu to its end, so each  *)
(* is one step; which command fails is the parameter of the operation.     *)
(***************************************************************************)
CONSTANTS
    Keys,   \* WireGuard public keys
    NONE

VARIABLES
    started,  \* w.started
    wgReady,  \* w.wgReady: wg is installed and accepted the private key
    wpeers,   \* w.peers: key -> [endpoint, ip] or NONE
    kernel    \* the device's peers: key -> [endpoint, ip] or NONE; ip is the allowed IP

tunnelVars == <<started, wgReady, wpeers, kernel>>

NoPeers == [k \in Keys |-> NONE]

\* Start has succeeded; the device is fresh and without peers.
TunnelInit ==
    /\ started = TRUE
    /\ wgReady \in BOOLEAN
    /\ wpeers = NoPeers
    /\ kernel = NoPeers

\* wg set peer ... allowed-ips: an address belongs to one peer, the last to claim it.
KernelAdd(k, endpoint, ip) ==
    [j \in Keys |->
        IF j = k THEN [endpoint |-> endpoint, ip |-> ip]
        ELSE IF kernel[j] # NONE /\ kernel[j].ip = ip THEN [kernel[j] EXCEPT !.ip = NONE]
        ELSE kernel[j]]

\* AddPeer returns nil, or an error of wg set, or one of ip route add, which comes
\* when the kernel already has the peer.
AddPeer(k, endpoint, ip, failing) ==
    /\ kernel' = IF wgReady /\ failing # "wg" THEN KernelAdd(k, endpoint, ip) ELSE kernel
    /\ wpeers' = IF failing = "none" THEN [wpeers EXCEPT ![k] = [endpoint |-> endpoint, ip |-> ip]]
                                     ELSE wpeers
    /\ UNCHANGED <<started, wgReady>>

\* Whether RemovePeer and UpdatePeerEndpoint get past their first checks.
Found(k) == started /\ wpeers[k] # NONE

\* Mutant: the peer stays in w.peers.
RemovePeer_KeepsEntry(k, failing) ==
    LET gone == Found(k) /\ ~failing
    IN  /\ kernel' = IF gone /\ wgReady THEN [kernel EXCEPT ![k] = NONE] ELSE kernel
        /\ UNCHANGED <<started, wgReady, wpeers>>

\* RemovePeer: nothing for an unknown peer, and nothing when wg fails.
RemovePeer(k, failing) ==
    LET gone == Found(k) /\ ~failing
    IN  /\ kernel' = IF gone /\ wgReady THEN [kernel EXCEPT ![k] = NONE] ELSE kernel
        /\ wpeers' = IF gone THEN [wpeers EXCEPT ![k] = NONE] ELSE wpeers
        /\ UNCHANGED <<started, wgReady>>

\* Mutant: the peer is set up again with its address, as AddWGPeer does on Windows.
UpdatePeerEndpoint_Readds(k, endpoint, failing) ==
    LET moved == Found(k) /\ ~failing
    IN  /\ kernel' = IF moved /\ wgReady THEN KernelAdd(k, endpoint, wpeers[k].ip) ELSE kernel
        /\ wpeers' = IF moved THEN [wpeers EXCEPT ![k].endpoint = endpoint] ELSE wpeers
        /\ UNCHANGED <<started, wgReady>>

\* UpdatePeerEndpoint, likewise.
UpdatePeerEndpoint(k, endpoint, failing) ==
    LET moved == Found(k) /\ ~failing
    IN  /\ kernel' = IF moved /\ wgReady THEN [kernel EXCEPT ![k].endpoint = endpoint] ELSE kernel
        /\ wpeers' = IF moved THEN [wpeers EXCEPT ![k].endpoint = endpoint] ELSE wpeers
        /\ UNCHANGED <<started, wgReady>>

\* Stop: deleting the device deletes its peers and routes; when that fails Stop
\* returns with w.started still set.
TunnelStop(failing) ==
    /\ started
    /\ IF failing
       THEN /\ kernel' = [k \in Keys |-> IF wpeers[k] # NONE THEN NONE ELSE kernel[k]]
            /\ UNCHANGED <<started, wgReady, wpeers>>
       ELSE /\ kernel' = NoPeers
            /\ wpeers' = NoPeers
            /\ started' = FALSE
            /\ wgReady' = FALSE
=============================================================================
