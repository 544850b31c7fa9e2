------------------------------ MODULE MCServer ------------------------------
(* Instance of Server: an old and a new release, a client and a proxy.        *)
EXTENDS Server

CONSTANTS old, new, c1, proxy

MCFiles == [s \in Servers |-> IF s = old THEN 2 ELSE 3]
=============================================================================
