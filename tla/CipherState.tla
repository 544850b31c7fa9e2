---------------------------- MODULE CipherState ----------------------------
(***************************************************************************)
(* The AEAD cipher of pkg/noise/cipher_state.go as operators on records.   *)
(* Cryptography is symbolic: a key is where it was derived from and how    *)
(* often it was rekeyed, a ciphertext is the record of what was sealed,    *)
(* and a ciphertext opens under exactly the key, the nonce and the         *)
(* associated data it was sealed with.                                     *)
(***************************************************************************)
EXTENDS Integers

CONSTANTS
    MaxNonce,  \* math.MaxUint64
    Zeros      \* the plaintext Rekey seals

ASSUME CipherAssumption == MaxNonce \in Nat \ {0}

\* A key derived from some origin, before any rekey, and the zero key of a cipher
\* without one (hasKey FALSE), which no derivation yields.
Key(origin) == [origin |-> origin, gen |-> 0]
NoKey == [origin |-> <<>>, gen |-> -1]

InitializeKey(cs, k) == [key |-> k, nonce |-> 0]

Unkeyed == [key |-> NoKey, nonce |-> 0]
HasKey(cs) == cs.key # NoKey

\* Mutant: the last nonce is used for a message too.
NonceLeft_All(cs) == HasKey(cs)

\* The guard of both directions: a key, and a nonce that is not the reserved one.
NonceLeft(cs) == HasKey(cs) /\ cs.nonce # MaxNonce

Sealed(k, n, ad, plain) == [key |-> k, nonce |-> n, ad |-> ad, plain |-> plain]

\* The ciphertext EncryptWithAd returns, and whether DecryptWithAd opens c.
EncryptWithAd(cs, ad, plain) == Sealed(cs.key, cs.nonce, ad, plain)

\* Mutant: the nonce of the ciphertext is not the receiver's.
DecryptWithAd_AnyNonce(cs, ad, c) == NonceLeft(cs) /\ c = [EncryptWithAd(cs, ad, c.plain) EXCEPT
                                                    !.nonce = c.nonce]

DecryptWithAd(cs, ad, c) == NonceLeft(cs) /\ c = EncryptWithAd(cs, ad, c.plain)

\* Mutant: the counter stays.
Advanced_Not(cs) == cs

\* The cipher after a successful encryption or decryption.
Advanced(cs) == [cs EXCEPT !.nonce = @ + 1]

\* What Rekey seals, and the cipher it leaves.
RekeyMaterial(cs) == Sealed(cs.key, MaxNonce, <<>>, Zeros)
Rekeyed(cs) == InitializeKey(cs, [cs.key EXCEPT !.gen = @ + 1])
=============================================================================
