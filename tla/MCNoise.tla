------------------------------ MODULE MCNoise ------------------------------
(* Instance of Noise: a dialler and one whose static key the responders do  *)
(* not expect; a responder state with the dialler's pre-shared key and one   *)
(* with another.                                                             *)
EXTENDS Noise, TLC

CONSTANTS i1, i2, r1, r2, I, X, R, k1, k2, MaxSent, MaxGen

MCs == (i1 :> I) @@ (i2 :> X) @@ (r1 :> R) @@ (r2 :> R)
MCrs == (i1 :> R) @@ (i2 :> R) @@ (r1 :> I) @@ (r2 :> I)
MCpsk == (i1 :> k1) @@ (i2 :> NoPSK) @@ (r1 :> k1) @@ (r2 :> k2)

\* Bounds on the traffic that follows a handshake.
TrafficBound ==
    /\ Len(sent) <= MaxSent
    /\ HasKey(snd) => snd.key.gen <= MaxGen /\ rcv.key.gen <= MaxGen
=============================================================================
