--------------------------- MODULE NoiseTransport ---------------------------
(***************************************************************************)
(* One direction of the traffic after a handshake: the sending end's and   *)
(* the receiving end's CipherState (pkg/noise/cipher_state.go) and a       *)
(* datagram network between them that loses, repeats and reorders.  The    *)
(* nonce is not on the wire: each end counts.                              *)
(***************************************************************************)
EXTENDS CipherState, Sequences

CONSTANT Origins  \* what the two ends' keys can be derived from

VARIABLES
    snd,     \* the sender's cipher
    rcv,     \* the receiver's cipher
    sent,    \* every ciphertext sent, in order; the plaintext is its number
    got,     \* history: the plaintexts the receiver's decryption returned
    sealed   \* history: everything sealed under any key

tvars == <<snd, rcv, sent, got, sealed>>

TInit ==
    /\ snd = Unkeyed
    /\ rcv = Unkeyed
    /\ sent = <<>>
    /\ got = <<>>
    /\ sealed = {}

\* Both ends have split their handshakes and take a cipher each.
Open(sendKey, receiveKey) ==
    /\ ~HasKey(snd) /\ ~HasKey(rcv)
    /\ snd' = InitializeKey(snd, sendKey)
    /\ rcv' = InitializeKey(rcv, receiveKey)
    /\ UNCHANGED <<sent, got, sealed>>

\* EncryptWithAd on the sending side; at MaxNonce it returns an error.
Send ==
    /\ NonceLeft(snd)
    /\ LET c == EncryptWithAd(snd, <<>>, Len(sent) + 1)
       IN  sent' = Append(sent, c) /\ sealed' = sealed \cup {c}
    /\ snd' = Advanced(snd)
    /\ UNCHANGED <<rcv, got>>

\* DecryptWithAd of any datagram ever sent; one it cannot open changes nothing.
Receive(i) ==
    /\ DecryptWithAd(rcv, <<>>, sent[i])
    /\ got' = Append(got, sent[i].plain)
    /\ rcv' = Advanced(rcv)
    /\ UNCHANGED <<snd, sent, sealed>>

\* Rekey on either end; the ends are not told of each other's.
RekeySender ==
    /\ HasKey(snd)
    /\ sealed' = sealed \cup {RekeyMaterial(snd)}
    /\ snd' = Rekeyed(snd)
    /\ UNCHANGED <<rcv, sent, got>>

RekeyReceiver ==
    /\ HasKey(rcv)
    /\ sealed' = sealed \cup {RekeyMaterial(rcv)}
    /\ rcv' = Rekeyed(rcv)
    /\ UNCHANGED <<snd, sent, got>>

TNext ==
    \/ \E a, b \in Origins : Open(Key(a), Key(b))
    \/ Send
    \/ \E i \in DOMAIN sent : Receive(i)
    \/ RekeySender
    \/ RekeyReceiver

TSpec == TInit /\ [][TNext]_tvars

-----------------------------------------------------------------------------
Keys == [origin : Origins, gen : Nat]
Ciphers == [key : Keys, nonce : 0 .. MaxNonce] \cup {Unkeyed}
Ciphertexts == [key : Keys, nonce : 0 .. MaxNonce, ad : {<<>>}, plain : Nat \cup {Zeros}]

\* The types of one direction's two cipher states and of its histories.
TTypeOK ==
    /\ snd \in Ciphers
    /\ rcv \in Ciphers
    /\ sent \in Seq([key : Keys, nonce : 0 .. MaxNonce, ad : {<<>>}, plain : Nat])
    /\ got \in Seq(Nat)
    /\ sealed \in SUBSET Ciphertexts

\* EncryptWithAd and Rekey: no key seals two different things under one nonce,
\* through any number of messages and of rekeys of either end in any order.
NonceOnce == \A c, d \in sealed : c.key = d.key /\ c.nonce = d.nonce => c = d

\* DecryptWithAd: whatever the network loses, repeats or reorders, what the receiver
\* accepts it accepts once and in the order it was sent.
InOrder ==
    \A i, j \in DOMAIN got : i < j => got[i] < got[j]

\* Within one key nothing is skipped: what was sealed before an accepted message
\* under the same key was accepted too (a lost datagram stops the direction until
\* both ends rekey; nothing sent after it gets through in the meantime).
NoGap ==
    \A i \in DOMAIN got : \A n \in 1 .. got[i] :
        sent[n].key = sent[got[i]].key => \E j \in 1 .. i : got[j] = n
=============================================================================
