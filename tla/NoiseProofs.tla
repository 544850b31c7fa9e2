---------------------------- MODULE NoiseProofs ----------------------------
(* Proofs about the Noise handshake and one direction of the traffic after    *)
(* it, for any number of handshake states and calls, any keys, any number of  *)
(* messages and rekeys, and any MaxNonce.                                     *)
(*                                                                            *)
(* The traffic comes first, for any two keys its ends start with (also        *)
(* different ones): key generation and nonce order everything; what was sent  *)
(* lies before the sender's cipher, what was accepted before the receiver's,  *)
(* and a receiver with the sender's key is not ahead of it.                   *)
EXTENDS Noise, SequenceTheorems, TLAPS

\* A ciphertext lies before a position (a cipher or another ciphertext).
Before(c, d) == c.key.gen < d.key.gen \/ (c.key.gen = d.key.gen /\ c.nonce < d.nonce)

\* Nothing happens without keys, and both ends get theirs at once.
Opened ==
    /\ HasKey(snd) <=> HasKey(rcv)
    /\ ~HasKey(snd) => snd = Unkeyed /\ rcv = Unkeyed /\ sent = <<>> /\ got = <<>>

\* What the keys of the two ends derive from, and the types this gives.
Ends == {snd.key.origin, rcv.key.origin}
EndKeys == [origin : Ends, gen : Nat]
EndCiphers == [key : EndKeys, nonce : 0 .. MaxNonce]
Messages == [key : EndKeys, nonce : 0 .. MaxNonce, ad : {<<>>}, plain : Nat]

EndTypes ==
    /\ HasKey(snd) => snd \in EndCiphers /\ rcv \in EndCiphers
    /\ sent \in Seq(Messages)
    /\ got \in Seq(Nat)

\* What is on the wire carries its number and is behind the sender.
SentBehind ==
    \A n \in DOMAIN sent :
        /\ sent[n].plain = n
        /\ sent[n].nonce < MaxNonce
        /\ sent[n].key.origin = snd.key.origin
        /\ Before(sent[n], snd)

SentOrdered == \A m, n \in DOMAIN sent : m < n => Before(sent[m], sent[n])

\* Under the keys of the ends only messages and rekeys are sealed, and rekeys only
\* with the reserved nonce.
SealedKinds ==
    \A c \in sealed : HasKey(snd) /\ c.key.origin \in Ends =>
        \/ c = Sealed(c.key, MaxNonce, <<>>, Zeros)
        \/ \E n \in DOMAIN sent : c = sent[n]

\* What was accepted was sent and is behind the receiver.
GotBehind ==
    \A i \in DOMAIN got :
        /\ got[i] \in DOMAIN sent
        /\ Before(sent[got[i]], rcv)

\* Under its present key the receiver has accepted all before its nonce.
GotAll ==
    \A n \in DOMAIN sent :
        sent[n].key = rcv.key /\ sent[n].nonce < rcv.nonce =>
            \E j \in DOMAIN got : got[j] = n

\* The receiver is not ahead of the sender within a key.
NotAhead ==
    HasKey(snd) /\ rcv.key.origin = snd.key.origin /\ rcv.key.gen >= snd.key.gen =>
        \/ rcv.nonce = 0
        \/ rcv.key.gen = snd.key.gen /\ rcv.nonce <= snd.nonce

TInv ==
    /\ EndTypes /\ Opened /\ SentBehind /\ SentOrdered /\ SealedKinds
    /\ GotBehind /\ GotAll /\ NotAhead /\ InOrder /\ NoGap

-----------------------------------------------------------------------------
\* What is derived is not the zero key.
LEMMA DerivedKey == ASSUME NEW k, k.gen \in Nat PROVE k # NoKey
BY DEF NoKey

\* The elements of a sequence.
LEMMA Elements == ASSUME NEW S, NEW q \in Seq(S) PROVE \A n \in DOMAIN q : q[n] \in S
OBVIOUS

\* The messages on the wire have generations and nonces that are numbers.
LEMMA SentTyped ==
    ASSUME EndTypes
    PROVE  \A n \in DOMAIN sent :
               /\ sent[n] \in Messages
               /\ sent[n].key.gen \in Nat /\ sent[n].nonce \in Nat
<1>1. \A n \in DOMAIN sent : sent[n] \in Messages
  BY Elements DEF EndTypes
<1>2. \A k \in EndKeys : k.gen \in Nat
  BY DEF EndKeys
<1> QED
  BY <1>1, <1>2, CipherAssumption DEF Messages

\* The invariant holds before the ends have keys.
LEMMA TInitInv == TInit => TInv
BY CipherAssumption DEF TInit, TInv, EndTypes, Opened, SentBehind, SentOrdered, SealedKinds,
   GotBehind, GotAll, NotAhead, InOrder, NoGap, Unkeyed, HasKey

\* Taking two keys under which nothing was sealed keeps the invariant.
LEMMA OpenInv ==
    ASSUME TInv, NEW a, NEW b, Open(Key(a), Key(b)),
           \A c \in sealed : c.key.origin \notin {a, b}
    PROVE  TInv' /\ HasKey(snd')
<1>1. /\ Key(a) = [origin |-> a, gen |-> 0] /\ Key(b) = [origin |-> b, gen |-> 0]
      /\ Key(a) # NoKey /\ Key(b) # NoKey
  BY DEF Key, NoKey
<1>2. sent' = <<>> /\ got' = <<>> /\ sealed' = sealed
  BY DEF TInv, Opened, Open
<1>3. snd' = [key |-> Key(a), nonce |-> 0] /\ rcv' = [key |-> Key(b), nonce |-> 0]
  BY DEF Open, InitializeKey
<1>4. HasKey(snd') /\ HasKey(rcv')
  BY <1>1, <1>3 DEF HasKey
<1>5. Ends' = {a, b}
  BY <1>1, <1>3 DEF Ends
<1>6. EndTypes'
  <2>1. 0 \in 0 .. MaxNonce
    BY CipherAssumption
  <2>2. snd' \in EndCiphers' /\ rcv' \in EndCiphers'
    BY <1>1, <1>3, <1>5, <2>1 DEF EndCiphers, EndKeys
  <2> QED
    BY <1>2, <2>2 DEF EndTypes
<1>7. SealedKinds'
  BY <1>2, <1>5 DEF SealedKinds
<1> QED
  BY <1>2, <1>3, <1>4, <1>6, <1>7 DEF TInv, Opened, SentBehind, SentOrdered,
     GotBehind, GotAll, NotAhead, InOrder, NoGap, HasKey

\* While the ends keep their origins they keep their types.
LEMMA SameEnds ==
    ASSUME snd'.key.origin = snd.key.origin, rcv'.key.origin = rcv.key.origin
    PROVE  Ends' = Ends /\ EndKeys' = EndKeys /\ EndCiphers' = EndCiphers /\ Messages' = Messages
BY DEF Ends, EndKeys, EndCiphers, Messages

\* Sending keeps the invariant.
LEMMA SendInv ==
    ASSUME TInv, Send
    PROVE  TInv'
<1> DEFINE c == EncryptWithAd(snd, <<>>, Len(sent) + 1)
<1> USE CipherAssumption
<1>1. HasKey(snd) /\ HasKey(rcv) /\ snd.nonce # MaxNonce
  BY DEF TInv, Opened, Send, NonceLeft
<1>2. snd \in EndCiphers /\ rcv \in EndCiphers
  BY <1>1 DEF TInv, EndTypes
<1>3. /\ c = [key |-> snd.key, nonce |-> snd.nonce, ad |-> <<>>, plain |-> Len(sent) + 1]
      /\ sent' = Append(sent, c) /\ sealed' = sealed \cup {c}
      /\ snd' = [snd EXCEPT !.nonce = @ + 1]
      /\ rcv' = rcv /\ got' = got
  BY DEF Send, EncryptWithAd, Sealed, Advanced
<1> HIDE DEF c
<1>4. sent \in Seq(Messages)
  BY DEF TInv, EndTypes
<1>5. c \in Messages
  BY <1>2, <1>3, <1>4 DEF Messages, EndCiphers
<1>6. /\ DOMAIN sent' = 1 .. Len(sent) + 1 /\ DOMAIN sent = 1 .. Len(sent) /\ Len(sent) \in Nat
      /\ \A n \in DOMAIN sent : sent'[n] = sent[n]
      /\ sent'[Len(sent) + 1] = c
  BY <1>3, <1>4, <1>5
<1>7. /\ snd'.key = snd.key /\ snd'.nonce = snd.nonce + 1 /\ snd.nonce \in 0 .. MaxNonce - 1
      /\ snd' \in EndCiphers
  BY <1>1, <1>2, <1>3 DEF EndCiphers
<1>8. Ends' = Ends /\ EndCiphers' = EndCiphers /\ Messages' = Messages
  BY <1>3, <1>7, SameEnds
<1>9. EndTypes'
  <2>1. sent' \in Seq(Messages)
    BY <1>3, <1>4, <1>5
  <2> QED
    BY <1>2, <1>3, <1>7, <1>8, <2>1 DEF TInv, EndTypes
<1>10. Opened'
  BY <1>1, <1>3, <1>7 DEF TInv, Opened, HasKey
<1>11. \A n \in DOMAIN sent : sent[n].key.gen \in Nat /\ sent[n].nonce \in Nat
  BY SentTyped DEF TInv
<1>12. snd.key.gen \in Nat /\ rcv.key.gen \in Nat /\ rcv.nonce \in Nat
  <2>1. \A cs \in EndCiphers : cs.key \in EndKeys /\ cs.nonce \in 0 .. MaxNonce
    BY DEF EndCiphers
  <2>2. \A k \in EndKeys : k.gen \in Nat
    BY DEF EndKeys
  <2> QED
    BY <1>2, <2>1, <2>2
<1>13. SentBehind'
  <2> SUFFICES ASSUME NEW n \in DOMAIN sent'
               PROVE  /\ sent'[n].plain = n /\ sent'[n].nonce < MaxNonce
                      /\ sent'[n].key.origin = snd'.key.origin /\ Before(sent'[n], snd')
    BY DEF SentBehind, Before
  <2>1. CASE n \in DOMAIN sent
    BY <2>1, <1>6, <1>7, <1>11, <1>12 DEF TInv, SentBehind, Before
  <2>2. CASE n = Len(sent) + 1
    BY <2>2, <1>3, <1>6, <1>7, <1>12 DEF Before
  <2> QED
    BY <2>1, <2>2, <1>6
<1>14. SentOrdered'
  BY <1>3, <1>6, <1>11, <1>12 DEF TInv, SentBehind, SentOrdered, Before
<1>15. SealedKinds'
  BY <1>1, <1>3, <1>6, <1>8 DEF TInv, SealedKinds
<1>16. GotBehind'
  BY <1>3, <1>6 DEF TInv, GotBehind, Before
<1>17. GotAll'
  <2>1. ~(c.key = rcv.key /\ c.nonce < rcv.nonce)
    BY <1>1, <1>3, <1>7, <1>12 DEF TInv, NotAhead
  <2> QED
    BY <1>3, <1>6, <2>1 DEF TInv, GotAll
<1>18. NotAhead'
  BY <1>1, <1>3, <1>7, <1>12 DEF TInv, NotAhead, HasKey
<1>19. InOrder'
  BY <1>3 DEF TInv, InOrder
<1>20. NoGap'
  <2>1. \A i \in DOMAIN got : got[i] \in DOMAIN sent /\ 1 .. got[i] \subseteq DOMAIN sent
    BY <1>6 DEF TInv, GotBehind
  <2> QED
    BY <1>3, <1>6, <2>1 DEF TInv, NoGap
<1> QED
  BY <1>9, <1>10, <1>13, <1>14, <1>15, <1>16, <1>17, <1>18, <1>19, <1>20 DEF TInv

\* Accepting a message keeps the invariant.
LEMMA ReceiveInv ==
    ASSUME TInv, NEW m \in DOMAIN sent, Receive(m)
    PROVE  TInv'
<1> USE CipherAssumption
<1>1. HasKey(snd) /\ HasKey(rcv) /\ rcv.nonce # MaxNonce
  BY DEF TInv, Opened, Receive, DecryptWithAd, NonceLeft
<1>2. snd \in EndCiphers /\ rcv \in EndCiphers
  BY <1>1 DEF TInv, EndTypes
<1>3. sent[m].key = rcv.key /\ sent[m].nonce = rcv.nonce
  BY DEF Receive, DecryptWithAd, EncryptWithAd, Sealed
<1>4. sent[m].plain = m
  BY DEF TInv, SentBehind
<1>5. /\ got' = Append(got, m)
      /\ rcv' = [rcv EXCEPT !.nonce = @ + 1]
      /\ snd' = snd /\ sent' = sent /\ sealed' = sealed
  BY <1>4 DEF Receive, Advanced
<1>6. m \in Nat /\ got \in Seq(Nat) /\ DOMAIN sent \subseteq Nat
  BY DEF TInv, EndTypes
<1>7. /\ DOMAIN got' = 1 .. Len(got) + 1 /\ DOMAIN got = 1 .. Len(got) /\ Len(got) \in Nat
      /\ \A i \in DOMAIN got : got'[i] = got[i]
      /\ got'[Len(got) + 1] = m
  BY <1>5, <1>6
<1>8. /\ rcv'.key = rcv.key /\ rcv'.nonce = rcv.nonce + 1 /\ rcv.nonce \in 0 .. MaxNonce - 1
      /\ rcv' \in EndCiphers
  BY <1>1, <1>2, <1>5 DEF EndCiphers
<1>9. Ends' = Ends /\ EndCiphers' = EndCiphers /\ Messages' = Messages
  BY <1>5, <1>8, SameEnds
<1>10. EndTypes'
  <2>1. got' \in Seq(Nat)
    BY <1>5, <1>6
  <2> QED
    BY <1>2, <1>5, <1>8, <1>9, <2>1 DEF TInv, EndTypes
<1>11. \A n \in DOMAIN sent : sent[n].key.gen \in Nat /\ sent[n].nonce \in Nat
  BY SentTyped DEF TInv
<1>12. snd.key.gen \in Nat /\ rcv.key.gen \in Nat /\ snd.nonce \in Nat /\ rcv.nonce \in Nat
  <2>1. \A cs \in EndCiphers : cs.key \in EndKeys /\ cs.nonce \in 0 .. MaxNonce
    BY DEF EndCiphers
  <2>2. \A k \in EndKeys : k.gen \in Nat
    BY DEF EndKeys
  <2> QED
    BY <1>2, <2>1, <2>2
<1>13. Opened'
  BY <1>1, <1>5, <1>8 DEF Opened, HasKey
<1>14. SentBehind' /\ SentOrdered' /\ SealedKinds'
  BY <1>1, <1>5, <1>9 DEF TInv, SentBehind, SentOrdered, SealedKinds, Before
<1>15. GotBehind'
  <2> SUFFICES ASSUME NEW i \in DOMAIN got'
               PROVE  got'[i] \in DOMAIN sent /\ Before(sent[got'[i]], rcv')
    BY <1>5 DEF GotBehind, Before
  <2>1. CASE i \in DOMAIN got
    BY <2>1, <1>7, <1>8, <1>11, <1>12 DEF TInv, GotBehind, Before
  <2>2. CASE i = Len(got) + 1
    BY <2>2, <1>3, <1>7, <1>8, <1>12 DEF Before
  <2> QED
    BY <2>1, <2>2, <1>7
<1>16. \A n \in DOMAIN sent : sent[n].key = rcv.key /\ sent[n].nonce = rcv.nonce => n = m
  BY <1>3, <1>6, <1>11 DEF TInv, SentOrdered, Before
<1>17. GotAll'
  <2> SUFFICES ASSUME NEW n \in DOMAIN sent, sent[n].key = rcv.key, sent[n].nonce < rcv.nonce + 1
               PROVE  \E j \in DOMAIN got' : got'[j] = n
    BY <1>5, <1>8 DEF GotAll
  <2>1. CASE sent[n].nonce < rcv.nonce
    BY <2>1, <1>7 DEF TInv, GotAll
  <2>2. CASE sent[n].nonce = rcv.nonce
    BY <2>2, <1>16, <1>7
  <2> QED
    BY <2>1, <2>2, <1>11, <1>12
<1>18. NotAhead'
  <2>1. Before(sent[m], snd) /\ sent[m].key.origin = snd.key.origin
    BY DEF TInv, SentBehind
  <2> QED
    BY <1>3, <1>5, <1>8, <1>12, <2>1 DEF NotAhead, Before
<1>19. \A i \in DOMAIN got : got[i] < m
  <2> SUFFICES ASSUME NEW i \in DOMAIN got PROVE got[i] < m
    OBVIOUS
  <2>1. got[i] \in DOMAIN sent /\ Before(sent[got[i]], sent[m])
    BY <1>3 DEF TInv, GotBehind, Before
  <2>2. ~Before(sent[m], sent[got[i]]) /\ got[i] # m
    BY <2>1, <1>11 DEF Before
  <2> QED
    BY <2>1, <2>2, <1>6 DEF TInv, SentOrdered
<1>20. InOrder'
  BY <1>7, <1>19 DEF TInv, InOrder
<1>21. NoGap'
  <2> SUFFICES ASSUME NEW i \in DOMAIN got', NEW n \in 1 .. got'[i],
                      sent[n].key = sent[got'[i]].key
               PROVE  \E j \in 1 .. i : got'[j] = n
    BY <1>5 DEF NoGap
  <2>1. CASE i \in DOMAIN got
    <3>1. \E j \in 1 .. i : got[j] = n
      BY <2>1, <1>7 DEF TInv, NoGap
    <3> QED
      BY <3>1, <2>1, <1>7
  <2>2. CASE i = Len(got) + 1
    <3>1. n \in DOMAIN sent /\ n \in 1 .. m
      BY <2>2, <1>7 DEF TInv, EndTypes
    <3>2. CASE n = m
      BY <3>2, <2>2, <1>7
    <3>3. CASE n < m
      <4>1. sent[n].key = rcv.key /\ sent[n].nonce < rcv.nonce
        BY <3>1, <3>3, <2>2, <1>3, <1>7, <1>11 DEF TInv, SentOrdered, Before
      <4> QED
        BY <4>1, <3>1, <2>2, <1>7 DEF TInv, GotAll
    <3> QED
      BY <3>1, <3>2, <3>3, <1>6
  <2> QED
    BY <2>1, <2>2, <1>7
<1> QED
  BY <1>10, <1>13, <1>14, <1>15, <1>17, <1>18, <1>20, <1>21 DEF TInv

\* A rekey of the sender keeps the invariant.
LEMMA RekeySenderInv ==
    ASSUME TInv, RekeySender
    PROVE  TInv'
<1> USE CipherAssumption
<1>1. HasKey(snd) /\ HasKey(rcv)
  BY DEF TInv, Opened, RekeySender
<1>2. snd \in EndCiphers /\ rcv \in EndCiphers
  BY <1>1 DEF TInv, EndTypes
<1>3. /\ snd' = [key |-> [snd.key EXCEPT !.gen = @ + 1], nonce |-> 0]
      /\ sealed' = sealed \cup {[key |-> snd.key, nonce |-> MaxNonce, ad |-> <<>>, plain |-> Zeros]}
      /\ rcv' = rcv /\ sent' = sent /\ got' = got
  BY DEF RekeySender, Rekeyed, InitializeKey, RekeyMaterial, Sealed
<1>4. /\ snd'.key.gen = snd.key.gen + 1 /\ snd'.key.origin = snd.key.origin /\ snd'.nonce = 0
      /\ snd' \in EndCiphers
      /\ snd.key.gen \in Nat
  BY <1>2, <1>3 DEF EndCiphers, EndKeys
<1>5. rcv.key.gen \in Nat /\ rcv.nonce \in Nat /\ snd.nonce \in Nat
  <2>1. \A cs \in EndCiphers : cs.key \in EndKeys /\ cs.nonce \in 0 .. MaxNonce
    BY DEF EndCiphers
  <2>2. \A k \in EndKeys : k.gen \in Nat
    BY DEF EndKeys
  <2> QED
    BY <1>2, <2>1, <2>2
<1>6. Ends' = Ends /\ EndCiphers' = EndCiphers /\ Messages' = Messages
  BY <1>3, <1>4, SameEnds
<1>7. EndTypes'
  BY <1>2, <1>3, <1>4, <1>6 DEF TInv, EndTypes
<1>8. HasKey(snd')
  BY <1>4, DerivedKey DEF HasKey
<1>9. Opened'
  BY <1>1, <1>3, <1>8 DEF Opened, HasKey
<1>10. SentBehind'
  BY <1>3, <1>4, SentTyped DEF TInv, SentBehind, Before
<1>11. SealedKinds'
  BY <1>1, <1>3, <1>6 DEF TInv, SealedKinds, Sealed
<1>12. SentOrdered' /\ GotBehind' /\ GotAll' /\ InOrder' /\ NoGap'
  BY <1>3 DEF TInv, SentOrdered, GotBehind, GotAll, InOrder, NoGap, Before
<1>13. NotAhead'
  BY <1>1, <1>3, <1>4, <1>5 DEF TInv, NotAhead
<1> QED
  BY <1>7, <1>9, <1>10, <1>11, <1>12, <1>13 DEF TInv

\* A rekey of the receiver keeps the invariant.
LEMMA RekeyReceiverInv ==
    ASSUME TInv, RekeyReceiver
    PROVE  TInv'
<1> USE CipherAssumption
<1>1. HasKey(snd) /\ HasKey(rcv)
  BY DEF TInv, Opened, RekeyReceiver
<1>2. snd \in EndCiphers /\ rcv \in EndCiphers
  BY <1>1 DEF TInv, EndTypes
<1>3. /\ rcv' = [key |-> [rcv.key EXCEPT !.gen = @ + 1], nonce |-> 0]
      /\ sealed' = sealed \cup {[key |-> rcv.key, nonce |-> MaxNonce, ad |-> <<>>, plain |-> Zeros]}
      /\ snd' = snd /\ sent' = sent /\ got' = got
  BY DEF RekeyReceiver, Rekeyed, InitializeKey, RekeyMaterial, Sealed
<1>4. /\ rcv'.key.gen = rcv.key.gen + 1 /\ rcv'.key.origin = rcv.key.origin /\ rcv'.nonce = 0
      /\ rcv' \in EndCiphers
      /\ rcv.key.gen \in Nat
  BY <1>2, <1>3 DEF EndCiphers, EndKeys
<1>5. Ends' = Ends /\ EndCiphers' = EndCiphers /\ Messages' = Messages
  BY <1>3, <1>4, SameEnds
<1>6. EndTypes'
  BY <1>2, <1>3, <1>4, <1>5 DEF TInv, EndTypes
<1>7. HasKey(rcv')
  BY <1>4, DerivedKey DEF HasKey
<1>8. Opened'
  BY <1>1, <1>3, <1>7 DEF Opened, HasKey
<1>9. SealedKinds'
  BY <1>1, <1>3, <1>5 DEF TInv, SealedKinds, Sealed
<1>10. SentBehind' /\ SentOrdered' /\ InOrder' /\ NoGap'
  BY <1>3 DEF TInv, SentBehind, SentOrdered, InOrder, NoGap, Before
<1>11. GotBehind'
  BY <1>3, <1>4, SentTyped DEF TInv, GotBehind, Before
<1>12. GotAll'
  BY <1>3, <1>4, SentTyped DEF TInv, GotAll
<1>13. NotAhead'
  BY <1>4 DEF NotAhead
<1> QED
  BY <1>6, <1>8, <1>9, <1>10, <1>11, <1>12, <1>13 DEF TInv

\* What leaves the traffic alone keeps its invariant, if it seals under other keys.
LEMMA TUnchanged ==
    ASSUME TInv, UNCHANGED <<snd, rcv, sent, got>>, sealed \subseteq sealed',
           \A c \in sealed' \ sealed : HasKey(snd) => c.key.origin \notin Ends
    PROVE  TInv'
<1>1. Ends' = Ends /\ EndCiphers' = EndCiphers /\ Messages' = Messages /\ HasKey(snd') = HasKey(snd)
  BY SameEnds DEF HasKey
<1>2. EndTypes' /\ SealedKinds'
  BY <1>1 DEF TInv, EndTypes, SealedKinds
<1> QED
  BY <1>2 DEF TInv, Opened, SentBehind, SentOrdered, GotBehind, GotAll, NotAhead, InOrder,
     NoGap, Before, HasKey

\* Under the keys of the two ends no nonce is used twice.
LEMMA TrafficNonceOnce ==
    ASSUME TInv, HasKey(snd), NEW c \in sealed, NEW d \in sealed, c.key.origin \in Ends,
           c.key = d.key, c.nonce = d.nonce
    PROVE  c = d
<1>1. \A n \in DOMAIN sent : sent[n].nonce # MaxNonce
  BY CipherAssumption, SentTyped DEF TInv, SentBehind
<1>2. CASE c.nonce = MaxNonce
  <2>1. ~(\E n \in DOMAIN sent : c = sent[n]) /\ ~(\E n \in DOMAIN sent : d = sent[n])
    BY <1>1, <1>2
  <2>2. c = Sealed(c.key, MaxNonce, <<>>, Zeros)
    BY <2>1 DEF TInv, SealedKinds
  <2>3. d = Sealed(d.key, MaxNonce, <<>>, Zeros)
    BY <2>1 DEF TInv, SealedKinds
  <2> QED
    BY <2>2, <2>3
<1>3. CASE c.nonce # MaxNonce
  <2>1. PICK m \in DOMAIN sent : c = sent[m]
    BY <1>3 DEF TInv, SealedKinds, Sealed
  <2>2. PICK n \in DOMAIN sent : d = sent[n]
    BY <1>3 DEF TInv, SealedKinds, Sealed
  <2>3. ~Before(sent[m], sent[n]) /\ ~Before(sent[n], sent[m])
    BY <2>1, <2>2, SentTyped DEF TInv, Before
  <2>4. m \in Nat /\ n \in Nat
    BY DEF TInv, EndTypes
  <2>5. m = n
    BY <2>3, <2>4 DEF TInv, SentOrdered
  <2> QED
    BY <2>1, <2>2, <2>5
<1> QED
  BY <1>2, <1>3

-----------------------------------------------------------------------------
(* One direction alone, between any two keys. *)

\* The invariant of TSpec: there is no handshake, so only the ends seal.
TSInv ==
    /\ TInv
    /\ TTypeOK
    /\ \A c \in sealed : HasKey(snd) /\ c.key.origin \in Ends

\* A cipher with a key is made of a key and a nonce.
LEMMA Keyed ==
    ASSUME NEW cs \in Ciphers, HasKey(cs)
    PROVE  cs \in [key : Keys, nonce : 0 .. MaxNonce]
BY DEF Ciphers, HasKey, Unkeyed

\* The invariant holds in every reachable state.
LEMMA TInvariant == TSpec => []TSInv
<1> USE CipherAssumption
<1>1. TInit => TSInv
  BY TInitInv DEF TInit, TSInv, TTypeOK, Ciphers
<1>2. ASSUME TSInv, NEW a \in Origins, NEW b \in Origins, Open(Key(a), Key(b)) PROVE TSInv'
  <2>1. sealed = {}
    BY <1>2 DEF TSInv, Open
  <2>2. TInv'
    BY <1>2, <2>1, OpenInv DEF TSInv
  <2>3. Key(a) \in Keys /\ Key(b) \in Keys
    BY DEF Key, Keys
  <2> QED
    BY <1>2, <2>1, <2>2, <2>3 DEF TSInv, TTypeOK, Open, InitializeKey, Ciphers
<1>3. ASSUME TSInv, Send PROVE TSInv'
  <2>1. snd \in [key : Keys, nonce : 0 .. MaxNonce] /\ snd.nonce # MaxNonce /\ HasKey(snd)
    BY <1>3, Keyed DEF TSInv, TTypeOK, Send, NonceLeft
  <2> DEFINE c == EncryptWithAd(snd, <<>>, Len(sent) + 1)
  <2>2. /\ snd' = [snd EXCEPT !.nonce = @ + 1] /\ sent' = Append(sent, c) /\ rcv' = rcv
        /\ sealed' = sealed \cup {c} /\ got' = got
    BY <1>3 DEF Send, Advanced
  <2>3. /\ c \in [key : Keys, nonce : 0 .. MaxNonce, ad : {<<>>}, plain : Nat]
        /\ c.key = snd.key
    BY <1>3, <2>1 DEF TSInv, TTypeOK, EncryptWithAd, Sealed
  <2> HIDE DEF c
  <2>4. c \in Ciphertexts
    BY <2>3 DEF Ciphertexts
  <2>5. snd' \in [key : Keys, nonce : 0 .. MaxNonce] /\ snd'.key = snd.key
    BY <2>1, <2>2
  <2>6. TTypeOK'
    BY <1>3, <2>2, <2>3, <2>4, <2>5 DEF TSInv, TTypeOK, Ciphers
  <2>7. TInv'
    BY <1>3, SendInv DEF TSInv
  <2> QED
    BY <1>3, <2>1, <2>2, <2>3, <2>5, <2>6, <2>7 DEF TSInv, Ends, HasKey
<1>4. ASSUME TSInv, NEW n \in DOMAIN sent, Receive(n) PROVE TSInv'
  <2>1. rcv \in [key : Keys, nonce : 0 .. MaxNonce] /\ rcv.nonce # MaxNonce
    BY <1>4, Keyed DEF TSInv, TTypeOK, Receive, DecryptWithAd, NonceLeft
  <2>2. /\ rcv' = [rcv EXCEPT !.nonce = @ + 1] /\ got' = Append(got, sent[n].plain)
        /\ snd' = snd /\ sent' = sent /\ sealed' = sealed
    BY <1>4 DEF Receive, Advanced
  <2>3. sent[n].plain \in Nat
    BY <1>4, SentTyped DEF TSInv, TInv, Messages
  <2>4. rcv' \in [key : Keys, nonce : 0 .. MaxNonce] /\ rcv'.key = rcv.key
    BY <2>1, <2>2
  <2>5. TTypeOK'
    BY <1>4, <2>2, <2>3, <2>4 DEF TSInv, TTypeOK, Ciphers
  <2>6. TInv'
    BY <1>4, ReceiveInv DEF TSInv
  <2> QED
    BY <1>4, <2>2, <2>4, <2>5, <2>6 DEF TSInv, Ends, HasKey
<1>5. ASSUME TSInv, RekeySender PROVE TSInv'
  <2>1. snd \in [key : Keys, nonce : 0 .. MaxNonce] /\ HasKey(snd)
    BY <1>5, Keyed DEF TSInv, TTypeOK, RekeySender
  <2>2. /\ snd' = [key |-> [snd.key EXCEPT !.gen = @ + 1], nonce |-> 0]
        /\ sealed' = sealed \cup {Sealed(snd.key, MaxNonce, <<>>, Zeros)}
        /\ rcv' = rcv /\ sent' = sent /\ got' = got
    BY <1>5 DEF RekeySender, Rekeyed, InitializeKey, RekeyMaterial
  <2>3. /\ snd' \in [key : Keys, nonce : 0 .. MaxNonce]
        /\ snd'.key.origin = snd.key.origin /\ snd'.key.gen \in Nat
    BY <2>1, <2>2 DEF Keys
  <2>4. Sealed(snd.key, MaxNonce, <<>>, Zeros) \in Ciphertexts
    BY <2>1 DEF Sealed, Ciphertexts
  <2>5. TTypeOK'
    BY <1>5, <2>2, <2>3, <2>4 DEF TSInv, TTypeOK, Ciphers
  <2>6. TInv'
    BY <1>5, RekeySenderInv DEF TSInv
  <2>7. HasKey(snd') /\ Ends' = Ends
    BY <2>2, <2>3, DerivedKey DEF HasKey, Ends
  <2>8. Sealed(snd.key, MaxNonce, <<>>, Zeros).key.origin \in Ends
    BY DEF Sealed, Ends
  <2>9. \A c \in sealed' : c.key.origin \in Ends
    BY <1>5, <2>2, <2>8 DEF TSInv
  <2> QED
    BY <2>5, <2>6, <2>7, <2>9 DEF TSInv
<1>6. ASSUME TSInv, RekeyReceiver PROVE TSInv'
  <2>1. rcv \in [key : Keys, nonce : 0 .. MaxNonce] /\ HasKey(rcv)
    BY <1>6, Keyed DEF TSInv, TTypeOK, RekeyReceiver
  <2>2. /\ rcv' = [key |-> [rcv.key EXCEPT !.gen = @ + 1], nonce |-> 0]
        /\ sealed' = sealed \cup {Sealed(rcv.key, MaxNonce, <<>>, Zeros)}
        /\ snd' = snd /\ sent' = sent /\ got' = got
    BY <1>6 DEF RekeyReceiver, Rekeyed, InitializeKey, RekeyMaterial
  <2>3. /\ rcv' \in [key : Keys, nonce : 0 .. MaxNonce]
        /\ rcv'.key.origin = rcv.key.origin
    BY <2>1, <2>2 DEF Keys
  <2>4. Sealed(rcv.key, MaxNonce, <<>>, Zeros) \in Ciphertexts
    BY <2>1 DEF Sealed, Ciphertexts
  <2>5. TTypeOK'
    BY <1>6, <2>2, <2>3, <2>4 DEF TSInv, TTypeOK, Ciphers
  <2>6. TInv'
    BY <1>6, RekeyReceiverInv DEF TSInv
  <2>7. HasKey(snd') /\ HasKey(snd) /\ Ends' = Ends
    BY <1>6, <2>1, <2>2, <2>3 DEF HasKey, Ends, TSInv, TInv, Opened
  <2>8. Sealed(rcv.key, MaxNonce, <<>>, Zeros).key.origin \in Ends
    BY DEF Sealed, Ends
  <2>9. \A c \in sealed' : c.key.origin \in Ends
    BY <1>6, <2>2, <2>8 DEF TSInv
  <2> QED
    BY <2>5, <2>6, <2>7, <2>9 DEF TSInv
<1>7. TSInv /\ UNCHANGED tvars => TSInv'
  BY TUnchanged DEF tvars, TSInv, TTypeOK, Ends, HasKey
<1>8. TSInv /\ [TNext]_tvars => TSInv'
  BY <1>2, <1>3, <1>4, <1>5, <1>6, <1>7 DEF TNext
<1> QED BY <1>1, <1>8, PTL DEF TSpec

-----------------------------------------------------------------------------
\* The cipher states and the histories keep their types; a nonce never passes MaxNonce.
THEOREM TransportTypes == TSpec => []TTypeOK
<1>1. TSInv => TTypeOK BY DEF TSInv
<1> QED BY <1>1, TInvariant, PTL

\* EncryptWithAd, Rekey: no key seals two things under one nonce, however often and
\* in whatever order the two ends send and rekey, also when their keys differ.
THEOREM TransportNonceOnce == TSpec => []NonceOnce
<1>1. TSInv => NonceOnce
  BY TrafficNonceOnce DEF TSInv, NonceOnce
<1> QED BY <1>1, TInvariant, PTL

\* DecryptWithAd: messages are accepted once and in the order they were sent, over a
\* network that loses, repeats and reorders.
THEOREM TransportInOrder == TSpec => []InOrder
<1>1. TSInv => InOrder BY DEF TSInv, TInv
<1> QED BY <1>1, TInvariant, PTL

\* DecryptWithAd: of the messages under one key none before an accepted one is skipped.
THEOREM TransportNoGap == TSpec => []NoGap
<1>1. TSInv => NoGap BY DEF TSInv, TInv
<1> QED BY <1>1, TInvariant, PTL

-----------------------------------------------------------------------------
(* The handshake.  Its keys are told apart by how they end: with the          *)
(* Diffie-Hellman results and the pre-shared key that only two states can     *)
(* have mixed.  What an initiator opens was therefore sealed by a responder   *)
(* with its transcript, and that transcript shows whether the responder had   *)
(* accepted message A: after a failure its ephemeral comes where the          *)
(* initiator's own transcript has a ciphertext.                               *)

\* A sequence of whatever was mixed.
IsSeq(q) == q \in Seq({q[n] : n \in DOMAIN q})

\* Block n of what is derived with the chaining key q.
Hkdf(q, n) == Key(<<q, n>>)

\* A SymmetricState.
IsState(st) ==
    /\ st = [h |-> st.h, ck |-> st.ck, cs |-> st.cs]
    /\ IsSeq(st.h) /\ IsSeq(st.ck)

\* What was mixed stays mixed.
Prefix(q, p) == Len(q) <= Len(p) /\ \A n \in 1 .. Len(q) : p[n] = q[n]

\* A transcript starts with the two statics, the initiator's first.
StartsWith(h, a, b) == Len(h) >= 2 /\ h[1] = PublicKey(a) /\ h[2] = PublicKey(b)

Domains ==
    /\ ss = [x \in States |-> ss[x]]
    /\ re = [x \in States |-> re[x]]
    /\ result = [x \in States |-> result[x]]

Transcripts ==
    \A x \in States :
        /\ IsState(ss[x])
        /\ x \in Initiators => StartsWith(ss[x].h, s[x], rs[x])
        /\ x \in Responders => StartsWith(ss[x].h, rs[x], s[x])

\* In its own transcript an initiator's ephemeral is followed by two ciphertexts.
Written(h, i) ==
    \A p \in 1 .. Len(h) : h[p] = PublicKey(i) =>
        /\ p + 2 <= Len(h)
        /\ \A x \in States : h[p + 1] # PublicKey(x) /\ h[p + 2] # PublicKey(x)

OwnWritten == \A i \in Initiators : Written(ss[i].h, i)

\* After a failed ReadMessageA the responder's own ephemeral comes too early.
TooEarly(h, e, r) ==
    \E p \in 1 .. Len(h) :
        /\ h[p] = PublicKey(e)
        /\ \/ p + 1 <= Len(h) /\ h[p + 1] = PublicKey(r)
           \/ p + 2 <= Len(h) /\ h[p + 2] = PublicKey(r)

AboutToBe(h, e, r) ==
    \/ TooEarly(h, e, r)
    \/ Len(h) >= 1 /\ h[Len(h)] = PublicKey(e)
    \/ Len(h) >= 2 /\ h[Len(h) - 1] = PublicKey(e)

Failures ==
    \A r \in Responders :
        /\ re[r] # Nil => result[r] \in {"accepted", "failed"}
        /\ result[r] = "failed" => AboutToBe(ss[r].h, re[r], r)

\* What both ends mix around message B, in the end of h and of ck and in the key: the
\* responder's ephemeral e, the results ee and se, and the pre-shared key.
MixedB(x, e, ee, se, h, ck, key) ==
    LET l == Len(ck)
        n == Len(h)
    IN  IF hasPSK(x)
        THEN /\ l >= 3 /\ ck[l] = psk[x] /\ ck[l - 1] = se /\ ck[l - 2] = ee
             /\ n >= 2 /\ h[n - 1] = PublicKey(e)
             /\ key = Hkdf(ck, 3)
        ELSE /\ l >= 2 /\ ck[l] = se /\ ck[l - 1] = ee
             /\ n >= 1 /\ h[n] = PublicKey(e)
             /\ key = Hkdf(ck, 2)

\* The payload of message B tells all about the state that sealed it.
Answer(a, c) ==
    /\ a.by \in Responders /\ a.read \in {"accepted", "failed"}
    /\ IsSeq(c.ad) /\ StartsWith(c.ad, rs[a.by], s[a.by])
    /\ MixedB(a.by, a.by, dh(a.by, a.to), dh(a.by, rs[a.by]), c.ad, a.ss.ck, c.key)
    /\ a.ss.h = Append(c.ad, c)
    /\ a.read = "failed" => TooEarly(c.ad, a.to, a.by)

Mail ==
    \A m \in mailB :
        /\ m = [e |-> m.e, payload |-> m.payload]
        /\ m.e \in Responders
        /\ \E a \in answers : a.by = m.e /\ Answer(a, m.payload)

\* The last entry of a completed transcript holds the chaining key.
Completed(st) ==
    /\ IsSeq(st.h) /\ Len(st.h) >= 1
    /\ st.h[Len(st.h)].key.origin[1] = st.ck

Complete ==
    /\ \A x \in accepts : x.by \in Initiators /\ Completed(x.ss)
    /\ \A a \in answers : a.by \in Responders /\ Completed(a.ss)

\* A key that seals in the handshake bears the mark of one handshake state.
Mark(x, q, n) ==
    LET l == Len(q)
    IN  \/ n = 2 /\ l >= 1 /\ q[l] = dh(x, rs[x])
        \/ n = 2 /\ l >= 2 /\ q[l] = dh(s[x], rs[x]) /\ q[l - 1] = dh(x, rs[x])
        \/ n = 3 /\ l >= 2 /\ q[l - 1] = dh(x, rs[x])

SealedBy(x, c) ==
    LET q == c.key.origin[1]
    IN  /\ IsSeq(q) /\ Len(q) <= Len(ss[x].ck)
        /\ Mark(x, q, c.key.origin[2])

HandSealed ==
    \A c \in sealed :
        \/ HasKey(snd) /\ c.key.origin \in Ends
        \/ \E x \in States : SealedBy(x, c)

\* A handshake key, block 2 or 3, seals one thing under one nonce.
HandNonces ==
    \A c, d \in sealed :
        c.key.origin[2] # 1 /\ c.key = d.key /\ c.nonce = d.nonce => c = d

\* Both ends derive from the first block of one Split.
SameOrigin ==
    HasKey(snd) => snd.key.origin = rcv.key.origin /\ snd.key.origin[2] = 1

\* Before any rekey the ends have one key, and nonces count the messages.
Matched ==
    HasKey(snd) /\ snd.key.gen = 0 /\ rcv.key.gen = 0 =>
        /\ rcv.key = snd.key
        /\ snd.nonce = Len(sent) /\ rcv.nonce = Len(got) /\ rcv.nonce <= snd.nonce
        /\ \A n \in 1 .. Len(sent) : sent[n] = Sealed(snd.key, n - 1, <<>>, n)

HInv ==
    /\ Domains /\ Transcripts /\ OwnWritten /\ Failures /\ Mail /\ Complete /\ Agreement

NInv == TInv /\ HInv /\ HandSealed /\ HandNonces /\ SameOrigin /\ Matched

-----------------------------------------------------------------------------
(* What the operators of SymmetricState do to h, ck and the key. *)

\* Appending to a sequence.
LEMMA Appended ==
    ASSUME NEW q, IsSeq(q), NEW x
    PROVE  /\ IsSeq(Append(q, x))
           /\ Len(q) \in Nat /\ DOMAIN q = 1 .. Len(q)
           /\ Len(Append(q, x)) = Len(q) + 1
           /\ Append(q, x)[Len(q) + 1] = x
           /\ \A n \in 1 .. Len(q) : Append(q, x)[n] = q[n]
<1> DEFINE S == {q[n] : n \in DOMAIN q} \cup {x}
           p == Append(q, x)
<1>1. q \in Seq(S) /\ x \in S
  <2>1. q \in Seq({q[n] : n \in DOMAIN q})
    BY DEF IsSeq
  <2>2. {q[n] : n \in DOMAIN q} \subseteq S /\ x \in S
    OBVIOUS
  <2> HIDE DEF S
  <2> QED
    BY <2>1, <2>2
<1> HIDE DEF S
<1>2. /\ p \in Seq(S) /\ Len(q) \in Nat /\ DOMAIN q = 1 .. Len(q) /\ Len(p) = Len(q) + 1
      /\ p[Len(q) + 1] = x /\ \A n \in 1 .. Len(q) : p[n] = q[n]
  BY <1>1
<1> HIDE DEF p
<1>3. Len(p) \in Nat /\ DOMAIN p = 1 .. Len(p)
  BY <1>2
<1>4. p \in Seq({p[n] : n \in DOMAIN p})
  <2>1. p = [n \in 1 .. Len(p) |-> p[n]]
    BY <1>2, <1>3
  <2>2. p \in [1 .. Len(p) -> {p[n] : n \in DOMAIN p}]
    BY <1>3, <2>1
  <2> QED
    BY <2>2, <1>3, SeqDef
<1> QED
  BY <1>2, <1>4 DEF IsSeq, p

\* A longer transcript keeps what it starts with.
LEMMA PrefixAppend ==
    ASSUME NEW q, NEW p, IsSeq(q), IsSeq(p), Prefix(q, p), NEW x
    PROVE  IsSeq(Append(p, x)) /\ Prefix(q, Append(p, x)) /\ Len(Append(p, x)) = Len(p) + 1
BY Appended DEF Prefix

\* A transcript is a prefix of itself.
LEMMA PrefixSelf == ASSUME NEW q, IsSeq(q) PROVE Prefix(q, q) /\ Len(q) \in Nat
BY Appended DEF Prefix

\* MixHash appends to h.
LEMMA MixHashed ==
    ASSUME NEW st, IsState(st), NEW d
    PROVE  /\ IsState(MixHash(st, d))
           /\ MixHash(st, d).h = Append(st.h, d)
           /\ MixHash(st, d).ck = st.ck /\ MixHash(st, d).cs = st.cs
<1>1. st = [h |-> st.h, ck |-> st.ck, cs |-> st.cs]
  BY DEF IsState
<1>2. MixHash(st, d) = [h |-> Append(st.h, d), ck |-> st.ck, cs |-> st.cs]
  BY <1>1 DEF MixHash
<1> QED
  BY <1>2, Appended DEF IsState

\* MixKey appends to ck and starts a key.
LEMMA MixKeyed ==
    ASSUME NEW st, IsState(st), NEW d
    PROVE  /\ IsState(MixKey(st, d))
           /\ MixKey(st, d).h = st.h /\ MixKey(st, d).ck = Append(st.ck, d)
           /\ MixKey(st, d).cs = [key |-> Hkdf(Append(st.ck, d), 2), nonce |-> 0]
<1>1. MixKey(st, d) = [h |-> st.h, ck |-> Append(st.ck, d),
                       cs |-> [key |-> Hkdf(Append(st.ck, d), 2), nonce |-> 0]]
  BY DEF MixKey, InitializeKey, Block, Hkdf
<1> QED
  BY <1>1, Appended DEF IsState

\* MixKeyAndHash appends to both.
LEMMA MixKeyAndHashed ==
    ASSUME NEW st, IsState(st), NEW d
    PROVE  /\ IsState(MixKeyAndHash(st, d))
           /\ MixKeyAndHash(st, d).h = Append(st.h, Hkdf(Append(st.ck, d), 2))
           /\ MixKeyAndHash(st, d).ck = Append(st.ck, d)
           /\ MixKeyAndHash(st, d).cs = [key |-> Hkdf(Append(st.ck, d), 3), nonce |-> 0]
<1>1. MixKeyAndHash(st, d) = [h |-> Append(st.h, Hkdf(Append(st.ck, d), 2)),
                              ck |-> Append(st.ck, d),
                              cs |-> [key |-> Hkdf(Append(st.ck, d), 3), nonce |-> 0]]
  BY MixHashed DEF MixKeyAndHash, InitializeKey, Block, Hkdf
<1> QED
  BY <1>1, Appended DEF IsState

\* EncryptAndHash and DecryptAndHash append the ciphertext to h.
LEMMA AndHashed ==
    ASSUME NEW st, IsState(st), NEW c
    PROVE  /\ IsState(AndHash(st, c))
           /\ AndHash(st, c).h = Append(st.h, c) /\ AndHash(st, c).ck = st.ck
<1>1. st = [h |-> st.h, ck |-> st.ck, cs |-> st.cs]
  BY DEF IsState
<1>2. [st EXCEPT !.cs = Advanced(@)] = [h |-> st.h, ck |-> st.ck, cs |-> Advanced(st.cs)]
  BY <1>1
<1>3. IsState([h |-> st.h, ck |-> st.ck, cs |-> Advanced(st.cs)])
  BY DEF IsState
<1> QED
  BY <1>2, <1>3, MixHashed DEF AndHash

\* An ephemeral is mixed into h, and into ck if there is a pre-shared key.
LEMMA EphemeralMixed ==
    ASSUME NEW x, NEW st, IsState(st), NEW e
    PROVE  LET mixed == MixEphemeral(x, st, e)
           IN  /\ IsState(mixed) /\ mixed.h = Append(st.h, PublicKey(e))
               /\ mixed.ck = IF hasPSK(x) THEN Append(st.ck, e) ELSE st.ck
<1>1. /\ IsState(MixHash(st, PublicKey(e)))
      /\ MixHash(st, PublicKey(e)).h = Append(st.h, PublicKey(e))
      /\ MixHash(st, PublicKey(e)).ck = st.ck
  BY MixHashed
<1>2. CASE hasPSK(x)
  BY <1>1, <1>2, MixKeyed DEF MixEphemeral
<1>3. CASE ~hasPSK(x)
  BY <1>1, <1>3 DEF MixEphemeral
<1> QED
  BY <1>2, <1>3

\* A symmetric state that continues another one, in its transcript and its chaining key.
Continued(st, z) ==
    /\ z = [h |-> z.h, ck |-> z.ck, cs |-> z.cs] /\ IsSeq(z.h) /\ IsSeq(z.ck)
    /\ Prefix(st.h, z.h)
    /\ Len(st.ck) \in Nat /\ Len(z.ck) \in Nat /\ Len(z.ck) >= Len(st.ck)

\* The same with something new in the chaining key.
Grown(st, z) == Continued(st, z) /\ Len(z.ck) > Len(st.ck)

\* An ephemeral continues a state, in the chaining key if there is a pre-shared key.
LEMMA EphemeralContinues ==
    ASSUME NEW x, NEW st, IsState(st), NEW e
    PROVE  /\ Continued(st, MixEphemeral(x, st, e))
           /\ MixEphemeral(x, st, e).h = Append(st.h, PublicKey(e))
<1> DEFINE mixed == MixEphemeral(x, st, e)
<1>1. /\ IsState(mixed) /\ mixed.h = Append(st.h, PublicKey(e))
      /\ mixed.ck = IF hasPSK(x) THEN Append(st.ck, e) ELSE st.ck
  BY EphemeralMixed
<1> HIDE DEF mixed
<1>2. IsSeq(st.h) /\ IsSeq(st.ck)
  BY DEF IsState
<1>3. Prefix(st.h, mixed.h)
  BY <1>1, <1>2, PrefixSelf, PrefixAppend
<1>4. Len(st.ck) \in Nat /\ Len(Append(st.ck, e)) = Len(st.ck) + 1
  BY <1>2, Appended
<1>5. Len(mixed.ck) \in Nat /\ Len(mixed.ck) >= Len(st.ck)
  BY <1>1, <1>4
<1>6. Continued(st, mixed)
  BY <1>1, <1>3, <1>4, <1>5 DEF Continued, IsState
<1> QED
  BY <1>1, <1>6 DEF mixed

\* What both ends mix before the payload of message B.
BeforePayload(x, st, e, ee, se) == mixPSK(x, MixKey(MixKey(MixEphemeral(x, st, e), ee), se))

\* It continues the state and shows at the end of all it mixes into.
LEMMA BeforePayloadFacts ==
    ASSUME NEW x, NEW st, IsState(st), NEW e, NEW ee, NEW se
    PROVE  LET b == BeforePayload(x, st, e, ee, se)
           IN  /\ Grown(st, b)
               /\ MixedB(x, e, ee, se, b.h, b.ck, b.cs.key)
               /\ b.cs.nonce = 0
               /\ Len(st.h) \in Nat /\ Len(b.h) \in Nat /\ Len(b.h) > Len(st.h)
               /\ b.h[Len(st.h) + 1] = PublicKey(e)
               /\ \A n \in 1 .. Len(b.h) :
                    n <= Len(st.h) \/ b.h[n] = PublicKey(e) \/ b.h[n] = Hkdf(b.ck, 2)
<1> DEFINE m1 == MixEphemeral(x, st, e)
           m2 == MixKey(m1, ee)
           m3 == MixKey(m2, se)
           h1 == Append(st.h, PublicKey(e))
<1>1. /\ IsState(m1) /\ m1.h = h1
      /\ m1.ck = IF hasPSK(x) THEN Append(st.ck, e) ELSE st.ck
  BY EphemeralMixed
<1>2. IsState(m2) /\ m2.h = m1.h /\ m2.ck = Append(m1.ck, ee)
  <2> HIDE DEF m1
  <2> QED BY <1>1, MixKeyed
<1>3. /\ IsState(m3) /\ m3.h = m2.h /\ m3.ck = Append(m2.ck, se)
      /\ m3.cs = [key |-> Hkdf(Append(m2.ck, se), 2), nonce |-> 0]
  <2> HIDE DEF m2
  <2> QED BY <1>2, MixKeyed
<1> DEFINE b == BeforePayload(x, st, e, ee, se)
<1>4. b = mixPSK(x, m3)
  BY DEF BeforePayload
<1> HIDE DEF m1, m2, m3, b
<1>5. m3.cs.key = Hkdf(m3.ck, 2) /\ m3.cs.nonce = 0
  BY <1>3
<1>6. IsSeq(st.h) /\ IsSeq(st.ck) /\ IsSeq(m1.ck) /\ IsSeq(m2.ck) /\ IsSeq(m3.ck)
  BY <1>1, <1>2, <1>3 DEF IsState
<1>7. /\ IsSeq(h1) /\ Prefix(st.h, h1) /\ Len(h1) = Len(st.h) + 1 /\ Len(st.h) \in Nat
      /\ h1[Len(st.h) + 1] = PublicKey(e)
  BY <1>6, Appended DEF Prefix
<1> HIDE DEF h1
<1>8. Len(st.ck) \in Nat /\ Len(m1.ck) \in Nat /\ Len(m1.ck) >= Len(st.ck)
  BY <1>1, <1>6, Appended
<1>9. /\ Len(m2.ck) = Len(m1.ck) + 1 /\ m2.ck[Len(m1.ck) + 1] = ee
      /\ Len(m3.ck) = Len(m2.ck) + 1 /\ m3.ck[Len(m2.ck) + 1] = se
      /\ m3.ck[Len(m2.ck)] = m2.ck[Len(m2.ck)]
  BY <1>2, <1>3, <1>6, <1>8, Appended
<1>10. CASE ~hasPSK(x)
  <2>1. b = m3
    BY <1>4, <1>10 DEF mixPSK
  <2>2. MixedB(x, e, ee, se, b.h, b.ck, b.cs.key)
    BY <2>1, <1>1, <1>2, <1>3, <1>7, <1>8, <1>9, <1>10, <1>5 DEF MixedB
  <2>3. \A n \in 1 .. Len(b.h) : n <= Len(st.h) \/ b.h[n] = PublicKey(e)
    BY <2>1, <1>1, <1>2, <1>3, <1>7
  <2>4. Grown(st, b)
    BY <2>1, <1>1, <1>2, <1>3, <1>7, <1>8, <1>9 DEF Grown, Continued, IsState
  <2> QED
    BY <2>1, <2>2, <2>3, <2>4, <1>1, <1>2, <1>3, <1>7, <1>5 DEF b
<1>11. CASE hasPSK(x)
  <2> DEFINE k == Hkdf(Append(m3.ck, psk[x]), 2)
  <2>1. b = MixKeyAndHash(m3, psk[x])
    BY <1>4, <1>11 DEF mixPSK
  <2>2. /\ IsState(b) /\ b.h = Append(m3.h, k) /\ b.ck = Append(m3.ck, psk[x])
        /\ b.cs = [key |-> Hkdf(Append(m3.ck, psk[x]), 3), nonce |-> 0]
    BY <2>1, <1>3, MixKeyAndHashed
  <2> HIDE DEF k
  <2>3. /\ IsState(b) /\ b.h = Append(h1, k) /\ b.ck = Append(m3.ck, psk[x])
        /\ b.cs.key = Hkdf(b.ck, 3) /\ b.cs.nonce = 0
    BY <2>2, <1>1, <1>2, <1>3
  <2>4. /\ Len(b.ck) = Len(m3.ck) + 1 /\ b.ck[Len(m3.ck) + 1] = psk[x]
        /\ b.ck[Len(m3.ck)] = m3.ck[Len(m3.ck)] /\ b.ck[Len(m2.ck)] = m3.ck[Len(m2.ck)]
    <3>1. /\ Len(Append(m3.ck, psk[x])) = Len(m3.ck) + 1
          /\ Append(m3.ck, psk[x])[Len(m3.ck) + 1] = psk[x]
          /\ \A n \in 1 .. Len(m3.ck) : Append(m3.ck, psk[x])[n] = m3.ck[n]
      BY <1>6, Appended
    <3>2. Len(m3.ck) \in 1 .. Len(m3.ck) /\ Len(m2.ck) \in 1 .. Len(m3.ck)
      BY <1>8, <1>9
    <3> QED
      BY <2>3, <3>1, <3>2
  <2>5. /\ Len(b.h) = Len(h1) + 1 /\ b.h[Len(h1) + 1] = k
        /\ b.h[Len(h1)] = h1[Len(h1)] /\ Prefix(st.h, b.h)
    BY <2>3, <1>7, Appended, PrefixAppend, <1>6
  <2>6. MixedB(x, e, ee, se, b.h, b.ck, b.cs.key)
    <3>1. /\ Len(b.ck) - 1 = Len(m3.ck) /\ Len(b.ck) - 2 = Len(m2.ck) /\ Len(b.ck) >= 3
          /\ Len(b.ck) = Len(m3.ck) + 1
      BY <2>4, <1>8, <1>9
    <3>2. b.ck[Len(m3.ck)] = se /\ b.ck[Len(m2.ck)] = ee
      BY <2>4, <1>9
    <3>3. Len(b.h) - 1 = Len(h1) /\ Len(b.h) >= 2 /\ b.h[Len(h1)] = PublicKey(e)
      BY <2>5, <1>7
    <3> QED
      BY <3>1, <3>2, <3>3, <2>3, <2>4, <1>11 DEF MixedB
  <2>7. \A n \in 1 .. Len(b.h) :
          n <= Len(st.h) \/ b.h[n] = PublicKey(e) \/ b.h[n] = Hkdf(b.ck, 2)
    <3>1. k = Hkdf(b.ck, 2)
      BY <2>2 DEF k
    <3>2. \A n \in 1 .. Len(b.h) : n <= Len(st.h) \/ n = Len(st.h) + 1 \/ n = Len(h1) + 1
      BY <2>5, <1>7
    <3> QED
      BY <3>1, <3>2, <2>5, <1>7
  <2>8. /\ Len(b.h) \in Nat /\ Len(b.h) > Len(st.h) /\ Len(b.ck) \in Nat /\ Len(b.ck) > Len(st.ck)
        /\ b.h[Len(st.h) + 1] = PublicKey(e)
    BY <2>4, <2>5, <1>7, <1>8, <1>9
  <2>9. Grown(st, b)
    BY <2>3, <2>5, <2>8, <1>8 DEF Grown, Continued, IsState
  <2> QED
    BY <2>3, <2>6, <2>7, <2>8, <2>9, <1>7 DEF b
<1> QED
  BY <1>10, <1>11

\* Two ends with one key and one transcript before the payload mixed the same.
LEMMA MixedBAgree ==
    ASSUME NEW h, NEW key, NEW x, NEW e, NEW ee, NEW se, NEW ck,
           NEW y, NEW f, NEW ff, NEW sf, NEW dk,
           MixedB(x, e, ee, se, h, ck, key), MixedB(y, f, ff, sf, h, dk, key)
    PROVE  psk[x] = psk[y] /\ e = f /\ ee = ff /\ se = sf /\ ck = dk
<1>1. \A q, n, p, k : Hkdf(q, n) = Hkdf(p, k) => q = p /\ n = k
  BY DEF Hkdf, Key
<1>2. ck = dk /\ (hasPSK(x) <=> hasPSK(y))
  BY <1>1 DEF MixedB
<1>3. PublicKey(e) = PublicKey(f) => e = f
  BY DEF PublicKey
<1>4. CASE hasPSK(x)
  BY <1>2, <1>3, <1>4 DEF MixedB
<1>5. CASE ~hasPSK(x)
  BY <1>2, <1>3, <1>5 DEF MixedB, hasPSK
<1> QED
  BY <1>4, <1>5

\* The mark of a sealing key names one handshake state.
LEMMA OneMark ==
    ASSUME NEW x \in States, NEW y \in States, NEW q, NEW n, Mark(x, q, n), Mark(y, q, n)
    PROVE  x = y
<1>1. rs[x] \notin States /\ rs[y] \notin States /\ s[x] \notin States /\ s[y] \notin States
  BY NoiseAssumption
<1>2. dh(x, rs[x]) = dh(y, rs[y]) => x = y
  BY <1>1 DEF dh
<1>3. dh(x, rs[x]) # dh(s[y], rs[y]) /\ dh(y, rs[y]) # dh(s[x], rs[x])
  BY <1>1 DEF dh
<1> QED
  BY <1>2, <1>3 DEF Mark

\* Ciphertexts and derived blocks are no public keys.
LEMMA Kinds ==
    /\ \A e, k, n, ad, p : PublicKey(e) # Sealed(k, n, ad, p)
    /\ \A e, o : PublicKey(e) # Key(o)
    /\ \A e, f : PublicKey(e) = PublicKey(f) => e = f
BY DEF PublicKey, Sealed, Key

\* The four states an end passes through around message A: e, es; the static; ss; the
\* payload.
AfterES(x, st, e, k) == MixKey(MixEphemeral(x, st, e), k)
AfterSS(x, st, e, k, c, l) == MixKey(AndHash(AfterES(x, st, e, k), c), l)

\* The last entry of a sequence.
Final(q) == q[Len(q)]

\* The first of them: the transcript is one longer, the chaining key ends with es.
LEMMA AfterESFacts ==
    ASSUME NEW x, NEW st, IsState(st), NEW e, NEW k
    PROVE  LET es == AfterES(x, st, e, k)
           IN  /\ Grown(st, es) /\ es.h = Append(st.h, PublicKey(e))
               /\ es.cs.key = Hkdf(es.ck, 2) /\ es.cs.nonce = 0
               /\ Final(es.ck) = k
<1> DEFINE m1 == MixEphemeral(x, st, e)
           es == AfterES(x, st, e, k)
<1>1. /\ IsState(m1) /\ m1.h = Append(st.h, PublicKey(e))
      /\ m1.ck = IF hasPSK(x) THEN Append(st.ck, e) ELSE st.ck
  BY EphemeralMixed
<1>2. IsSeq(st.ck) /\ IsSeq(m1.ck) /\ IsSeq(st.h)
  BY <1>1 DEF IsState
<1>3. Len(m1.ck) >= Len(st.ck) /\ Len(m1.ck) \in Nat /\ Len(st.ck) \in Nat
  BY <1>1, <1>2, Appended
<1>4. es = MixKey(m1, k)
  BY DEF AfterES
<1> HIDE DEF m1, es
<1>5. /\ IsState(es) /\ es.h = m1.h /\ es.ck = Append(m1.ck, k)
      /\ es.cs = [key |-> Hkdf(Append(m1.ck, k), 2), nonce |-> 0]
  BY <1>1, <1>4, MixKeyed
<1>6. Len(Append(m1.ck, k)) = Len(m1.ck) + 1 /\ Append(m1.ck, k)[Len(m1.ck) + 1] = k
  BY <1>2, Appended
<1>7. Len(es.ck) = Len(m1.ck) + 1 /\ es.ck[Len(es.ck)] = k
  BY <1>5, <1>6
<1>8. Prefix(st.h, Append(st.h, PublicKey(e)))
  BY <1>2, PrefixSelf, PrefixAppend
<1>9. Prefix(st.h, es.h) /\ es.h = Append(st.h, PublicKey(e))
  BY <1>1, <1>5, <1>8
<1>10. Grown(st, es)
  BY <1>3, <1>5, <1>7, <1>9 DEF Grown, Continued, IsState
<1>11. es.cs.key = Hkdf(es.ck, 2) /\ es.cs.nonce = 0
  BY <1>5
<1> QED
  BY <1>7, <1>9, <1>10, <1>11 DEF es, Final

\* A ciphertext is one more entry of the transcript.
LEMMA GrownHash ==
    ASSUME NEW st, NEW z, Grown(st, z), IsState(st), NEW c
    PROVE  Grown(st, AndHash(z, c)) /\ AndHash(z, c).h = Append(z.h, c) /\ AndHash(z, c).ck = z.ck
<1>1. IsState(z)
  BY DEF Grown, Continued, IsState
<1>2. IsState(AndHash(z, c)) /\ AndHash(z, c).h = Append(z.h, c) /\ AndHash(z, c).ck = z.ck
  BY <1>1, AndHashed
<1>3. Prefix(st.h, Append(z.h, c))
  <2>1. IsSeq(st.h) /\ IsSeq(z.h) /\ Prefix(st.h, z.h)
    BY DEF Grown, Continued, IsState
  <2> QED
    BY <2>1, PrefixAppend
<1>4. Prefix(st.h, AndHash(z, c).h)
  BY <1>2, <1>3
<1> QED
  BY <1>2, <1>4 DEF Grown, Continued, IsState

\* The third: after ss, on top of any ciphertext c.
LEMMA AfterSSFacts ==
    ASSUME NEW x, NEW st, IsState(st), NEW e, NEW k, NEW c, NEW l
    PROVE  LET es == AfterES(x, st, e, k)
               mixed == AfterSS(x, st, e, k, c, l)
           IN  /\ Grown(st, mixed) /\ mixed.h = Append(es.h, c)
               /\ mixed.cs.key = Hkdf(mixed.ck, 2) /\ mixed.cs.nonce = 0
               /\ Len(mixed.ck) = Len(es.ck) + 1
               /\ mixed.ck[Len(es.ck)] = k /\ mixed.ck[Len(es.ck) + 1] = l
<1> DEFINE es == AfterES(x, st, e, k)
           known == AndHash(es, c)
           mixed == AfterSS(x, st, e, k, c, l)
<1>1. Grown(st, es) /\ es.ck[Len(es.ck)] = k
  BY AfterESFacts DEF Final
<1>2. mixed = MixKey(known, l)
  BY DEF AfterSS
<1> HIDE DEF es
<1>3. Grown(st, known) /\ known.h = Append(es.h, c) /\ known.ck = es.ck
  BY <1>1, GrownHash
<1> HIDE DEF known, mixed
<1>4. IsState(known)
  BY <1>3 DEF Grown, Continued, IsState
<1>5. /\ IsState(mixed) /\ mixed.h = known.h /\ mixed.ck = Append(known.ck, l)
      /\ mixed.cs = [key |-> Hkdf(Append(known.ck, l), 2), nonce |-> 0]
  BY <1>2, <1>4, MixKeyed
<1>6. /\ Len(Append(es.ck, l)) = Len(es.ck) + 1 /\ Append(es.ck, l)[Len(es.ck) + 1] = l
      /\ \A n \in 1 .. Len(es.ck) : Append(es.ck, l)[n] = es.ck[n]
  BY <1>1, Appended DEF Grown, Continued
<1>7. mixed.ck = Append(es.ck, l) /\ Len(es.ck) \in 1 .. Len(es.ck) /\ Len(es.ck) \in Nat
  BY <1>1, <1>3, <1>5 DEF Grown, Continued
<1>8. /\ Len(mixed.ck) = Len(es.ck) + 1 /\ mixed.ck[Len(es.ck) + 1] = l
      /\ mixed.ck[Len(es.ck)] = k
  BY <1>1, <1>6, <1>7
<1>9. Grown(st, mixed)
  BY <1>1, <1>3, <1>5, <1>7, <1>8 DEF Grown, Continued, IsState
<1>10. mixed.cs.key = Hkdf(mixed.ck, 2) /\ mixed.cs.nonce = 0 /\ mixed.h = Append(es.h, c)
  BY <1>3, <1>5
<1> QED
  BY <1>8, <1>9, <1>10 DEF es, mixed

\* A transcript keeps its start.
LEMMA StartKept ==
    ASSUME NEW h, NEW g, NEW a, NEW b, Prefix(h, g), StartsWith(h, a, b), IsSeq(h), IsSeq(g)
    PROVE  StartsWith(g, a, b)
<1>1. Len(h) \in Nat /\ Len(g) \in Nat
  BY Appended
<1>2. 1 \in 1 .. Len(h) /\ 2 \in 1 .. Len(h)
  BY <1>1 DEF StartsWith
<1> QED
  BY <1>1, <1>2 DEF Prefix, StartsWith

\* A step of one handshake state that continues its transcript.
Continues(x) ==
    /\ ss' = [ss EXCEPT ![x] = ss'[x]]
    /\ Continued(ss[x], ss'[x])

\* Whatever continues a transcript keeps them all as they should be.
LEMMA TranscriptsContinue ==
    ASSUME Domains, Transcripts, NEW x \in States, Continues(x)
    PROVE  Transcripts' /\ ss' = [y \in States |-> ss'[y]]
<1>1. \A y \in States : y # x => ss'[y] = ss[y]
  BY DEF Domains, Continues
<1>2. DOMAIN ss' = States /\ ss' = [y \in States |-> ss'[y]]
  BY DEF Domains, Continues
<1>3. ASSUME NEW y \in States, y = x
      PROVE  /\ IsState(ss'[y])
             /\ y \in Initiators => StartsWith(ss'[y].h, s[y], rs[y])
             /\ y \in Responders => StartsWith(ss'[y].h, rs[y], s[y])
  BY <1>3, StartKept DEF Continues, Transcripts, Grown, Continued, IsState
<1> QED
  BY <1>1, <1>2, <1>3 DEF Transcripts

-----------------------------------------------------------------------------
(* What the four calls do. *)

\* The states and ciphertexts of WriteMessageA, WriteMessageB and ReadMessageB.
StateES(i) == AfterES(i, ss[i], i, dh(i, rs[i]))
StaticA(i) == Ciphertext(StateES(i), s[i])
StateSS(i) == AfterSS(i, ss[i], i, dh(i, rs[i]), StaticA(i), dh(s[i], rs[i]))
PayloadA(i) == Ciphertext(StateSS(i), i)
StateB(r) == BeforePayload(r, ss[r], r, dh(r, re[r]), dh(r, rs[r]))
PayloadB(r) == Ciphertext(StateB(r), r)
StateRead(i, m) == BeforePayload(i, ss[i], m.e, dh(i, m.e), dh(s[i], m.e))

\* WriteMessageA appends its ephemeral and two ciphertexts to the transcript.
LEMMA WroteA ==
    ASSUME Domains, Transcripts, NEW i \in Initiators, WriteMessageA(i)
    PROVE  /\ Continues(i)
           /\ ss'[i].h = Append(Append(Append(ss[i].h, PublicKey(i)), StaticA(i)), PayloadA(i))
           /\ ss'[i].ck = StateSS(i).ck
           /\ sealed' = sealed \cup {StaticA(i), PayloadA(i)}
           /\ UNCHANGED <<re, mailB, result, answers, accepts, snd, rcv, sent, got>>
<1>1. i \in States /\ IsState(ss[i])
  BY DEF States, Transcripts
<1>2. /\ ss' = [ss EXCEPT ![i] = AndHash(StateSS(i), PayloadA(i))]
      /\ sealed' = sealed \cup {StaticA(i), PayloadA(i)}
      /\ UNCHANGED <<re, mailB, result, answers, accepts, snd, rcv, sent, got>>
  BY DEF WriteMessageA, StateSS, PayloadA, StaticA, StateES, AfterES, AfterSS
<1>3. ss'[i] = AndHash(StateSS(i), PayloadA(i)) /\ ss' = [ss EXCEPT ![i] = ss'[i]]
  BY <1>1, <1>2 DEF Domains
<1>4. StateES(i).h = Append(ss[i].h, PublicKey(i))
  BY <1>1, AfterESFacts DEF StateES
<1>5. Grown(ss[i], StateSS(i)) /\ StateSS(i).h = Append(StateES(i).h, StaticA(i))
  BY <1>1, AfterSSFacts DEF StateSS, StateES
<1>6. /\ Grown(ss[i], AndHash(StateSS(i), PayloadA(i)))
      /\ AndHash(StateSS(i), PayloadA(i)).h = Append(StateSS(i).h, PayloadA(i))
      /\ AndHash(StateSS(i), PayloadA(i)).ck = StateSS(i).ck
  BY <1>1, <1>5, GrownHash
<1>7. Continues(i)
  BY <1>3, <1>6 DEF Continues, Grown
<1>8. ss'[i].h = Append(Append(Append(ss[i].h, PublicKey(i)), StaticA(i)), PayloadA(i))
  BY <1>3, <1>4, <1>5, <1>6
<1> QED
  BY <1>2, <1>3, <1>6, <1>7, <1>8

\* ReadMessageA ends with an accepted payload, or early: at most the remote ephemeral
\* and the static were mixed into the transcript.
LEMMA ReadA ==
    ASSUME Domains, Transcripts, NEW r \in Responders, NEW m, ReadMessageA(r, m)
    PROVE  /\ Continues(r)
           /\ re' = [re EXCEPT ![r] = m.e]
           /\ result' = [result EXCEPT ![r] = result'[r]]
           /\ \/ result'[r] = "accepted"
              \/ /\ result'[r] = "failed"
                 /\ \/ ss'[r].h = Append(ss[r].h, PublicKey(m.e))
                    \/ ss'[r].h = Append(Append(ss[r].h, PublicKey(m.e)), m.static)
           /\ UNCHANGED <<mailB, answers, accepts, tvars>>
<1> DEFINE es == AfterES(r, ss[r], m.e, dh(s[r], m.e))
           known == AndHash(es, m.static)
           mixed == AfterSS(r, ss[r], m.e, dh(s[r], m.e), m.static, dh(s[r], rs[r]))
           last == AndHash(mixed, m.payload)
<1>1. r \in States /\ IsState(ss[r])
  BY DEF States, Transcripts
<1>2. Grown(ss[r], es) /\ es.h = Append(ss[r].h, PublicKey(m.e))
  BY <1>1, AfterESFacts
<1>3. Grown(ss[r], mixed) /\ mixed.h = Append(es.h, m.static)
  BY <1>1, AfterSSFacts
<1>4. /\ re' = [re EXCEPT ![r] = m.e]
      /\ UNCHANGED <<mailB, answers, accepts, tvars>>
      /\ \/ Returned(r, es, FALSE) \/ Returned(r, known, FALSE)
         \/ Returned(r, mixed, FALSE) \/ Returned(r, last, TRUE)
  BY DEF ReadMessageA, AfterES, AfterSS
<1> HIDE DEF es, mixed
<1>5. Grown(ss[r], known) /\ known.h = Append(es.h, m.static)
  <2>1. IsState(es)
    BY <1>2 DEF Grown, Continued, IsState
  <2>2. known.h = Append(es.h, m.static)
    BY <2>1, AndHashed
  <2>3. Grown(ss[r], known)
    BY <1>1, <1>2, GrownHash
  <2> QED
    BY <2>2, <2>3
<1>6. Grown(ss[r], last)
  BY <1>1, <1>3, GrownHash
<1> HIDE DEF known, last
<1>7. ASSUME NEW st, NEW ok \in BOOLEAN, Returned(r, st, ok)
      PROVE  /\ ss'[r] = st /\ ss' = [ss EXCEPT ![r] = ss'[r]]
             /\ result'[r] = IF ok THEN "accepted" ELSE "failed"
             /\ result' = [result EXCEPT ![r] = result'[r]]
  BY <1>1, <1>7 DEF Returned, Domains
<1>8. CASE Returned(r, es, FALSE)
  BY <1>2, <1>4, <1>7, <1>8 DEF Continues, Grown
<1>9. CASE Returned(r, known, FALSE)
  BY <1>2, <1>4, <1>5, <1>7, <1>9 DEF Continues, Grown
<1>10. CASE Returned(r, mixed, FALSE)
  BY <1>2, <1>3, <1>4, <1>7, <1>10 DEF Continues, Grown
<1>11. CASE Returned(r, last, TRUE)
  BY <1>4, <1>6, <1>7, <1>11 DEF Continues, Grown
<1> QED
  BY <1>4, <1>8, <1>9, <1>10, <1>11

\* WriteMessageB leaves what it mixed, with the payload on top.
LEMMA WroteB ==
    ASSUME Domains, Transcripts, NEW r \in Responders, WriteMessageB(r)
    PROVE  /\ Continues(r)
           /\ ss'[r].h = Append(StateB(r).h, PayloadB(r)) /\ ss'[r].ck = StateB(r).ck
           /\ re[r] # Nil
           /\ mailB' = mailB \cup {[e |-> r, payload |-> PayloadB(r)]}
           /\ sealed' = sealed \cup {PayloadB(r)}
           /\ answers' = answers \cup
                {[by |-> r, read |-> result[r], to |-> re[r], ss |-> ss'[r]]}
           /\ UNCHANGED <<re, result, accepts, snd, rcv, sent, got>>
<1>1. r \in States /\ IsState(ss[r])
  BY DEF States, Transcripts
<1> DEFINE st == AndHash(StateB(r), PayloadB(r))
<1>2. /\ ss' = [ss EXCEPT ![r] = st] /\ re[r] # Nil
      /\ mailB' = mailB \cup {[e |-> r, payload |-> PayloadB(r)]}
      /\ sealed' = sealed \cup {PayloadB(r)}
      /\ answers' = answers \cup {[by |-> r, read |-> result[r], to |-> re[r], ss |-> st]}
      /\ UNCHANGED <<re, result, accepts, snd, rcv, sent, got>>
  BY DEF WriteMessageB, StateB, PayloadB, BeforePayload
<1>3. Grown(ss[r], StateB(r))
  BY <1>1, BeforePayloadFacts DEF StateB
<1>4. Grown(ss[r], st) /\ st.h = Append(StateB(r).h, PayloadB(r)) /\ st.ck = StateB(r).ck
  BY <1>1, <1>3, GrownHash
<1> HIDE DEF st
<1>5. ss'[r] = st /\ ss' = [ss EXCEPT ![r] = ss'[r]]
  BY <1>1, <1>2 DEF Domains
<1> QED
  BY <1>2, <1>4, <1>5 DEF Continues, Grown

\* ReadMessageB leaves what it mixed, with the payload on top if it opens.
LEMMA ReadB ==
    ASSUME Domains, Transcripts, NEW i \in Initiators, NEW m, ReadMessageB(i, m)
    PROVE  /\ Continues(i)
           /\ re' = [re EXCEPT ![i] = m.e]
           /\ result' = [result EXCEPT ![i] = result'[i]]
           /\ \/ /\ DecryptAndHash(StateRead(i, m), m.payload)
                 /\ ss'[i].h = Append(StateRead(i, m).h, m.payload)
                 /\ ss'[i].ck = StateRead(i, m).ck
                 /\ accepts' = accepts \cup {[by |-> i, from |-> m.e, ss |-> ss'[i]]}
              \/ ss'[i].h = StateRead(i, m).h /\ accepts' = accepts
           /\ UNCHANGED <<mailB, answers, tvars>>
<1>1. i \in States /\ IsState(ss[i])
  BY DEF States, Transcripts
<1> DEFINE mixed == StateRead(i, m)
           ok == DecryptAndHash(mixed, m.payload)
           last == AndHash(mixed, m.payload)
           st == IF ok THEN last ELSE mixed
<1>2. /\ re' = [re EXCEPT ![i] = m.e] /\ Returned(i, st, ok)
      /\ accepts' = IF ok THEN accepts \cup {[by |-> i, from |-> m.e, ss |-> st]} ELSE accepts
      /\ UNCHANGED <<mailB, answers, tvars>>
  BY DEF ReadMessageB, StateRead, BeforePayload
<1>3. Grown(ss[i], mixed)
  BY <1>1, BeforePayloadFacts DEF StateRead
<1> HIDE DEF mixed
<1>4. Grown(ss[i], last) /\ last.h = Append(mixed.h, m.payload) /\ last.ck = mixed.ck
  BY <1>1, <1>3, GrownHash
<1> HIDE DEF last
<1>5. /\ ss' = [ss EXCEPT ![i] = st]
      /\ result' = [result EXCEPT ![i] = IF ok THEN "accepted" ELSE "failed"]
  BY <1>2 DEF Returned
<1> HIDE DEF ok
<1>6. ss'[i] = st /\ ss' = [ss EXCEPT ![i] = ss'[i]]
  BY <1>1, <1>5 DEF Domains
<1>7. result' = [result EXCEPT ![i] = result'[i]]
  BY <1>1, <1>5 DEF Domains
<1>8. CASE ok
  BY <1>2, <1>4, <1>6, <1>7, <1>8 DEF Continues, Grown, ok, mixed
<1>9. CASE ~ok
  BY <1>2, <1>3, <1>6, <1>7, <1>9 DEF Continues, Grown, mixed
<1> QED
  BY <1>8, <1>9

\* A call that dh ends mixes an ephemeral and seals nothing.
LEMMA MixedOnly ==
    ASSUME Domains, Transcripts, NEW x \in States, NEW e,
           ss' = [ss EXCEPT ![x] = MixEphemeral(x, ss[x], e)]
    PROVE  Continues(x) /\ ss'[x].h = Append(ss[x].h, PublicKey(e))
<1> DEFINE mixed == MixEphemeral(x, ss[x], e)
<1>1. Continued(ss[x], mixed) /\ mixed.h = Append(ss[x].h, PublicKey(e))
  BY EphemeralContinues DEF Transcripts
<1> HIDE DEF mixed
<1>2. ss'[x] = mixed /\ ss' = [ss EXCEPT ![x] = ss'[x]]
  BY DEF Domains, mixed
<1>3. Continues(x)
  BY <1>1, <1>2 DEF Continues, Continued
<1> QED
  BY <1>1, <1>2, <1>3

-----------------------------------------------------------------------------
(* The invariant of the handshake: one lemma per call. *)

\* Initiators and responders are different states.
LEMMA Roles ==
    /\ \A i \in Initiators, r \in Responders : i # r
    /\ Initiators \subseteq States /\ Responders \subseteq States
BY NoiseAssumption DEF States

\* A call on one state keeps the other transcripts, and all of them in order.
LEMMA OthersKept ==
    ASSUME Domains, Transcripts, NEW x \in States, Continues(x)
    PROVE  \A y \in States : y # x => ss'[y] = ss[y]
BY DEF Domains, Continues

\* An initiator's transcript may grow by anything but its own ephemeral.
LEMMA WrittenGrows ==
    ASSUME NEW i, NEW h, NEW g, IsSeq(h), IsSeq(g), Prefix(h, g), Written(h, i),
           \A n \in 1 .. Len(g) : n > Len(h) => g[n] # PublicKey(i)
    PROVE  Written(g, i)
<1>1. Len(h) \in Nat /\ Len(g) \in Nat
  BY Appended
<1> SUFFICES ASSUME NEW p \in 1 .. Len(g), g[p] = PublicKey(i)
             PROVE  /\ p + 2 <= Len(g)
                    /\ \A x \in States : g[p + 1] # PublicKey(x) /\ g[p + 2] # PublicKey(x)
  BY DEF Written
<1>2. p \in 1 .. Len(h)
  BY <1>1
<1>3. h[p] = PublicKey(i)
  BY <1>2 DEF Prefix
<1>4. /\ p + 2 <= Len(h)
      /\ \A x \in States : h[p + 1] # PublicKey(x) /\ h[p + 2] # PublicKey(x)
  BY <1>2, <1>3 DEF Written
<1>5. p + 1 \in 1 .. Len(h) /\ p + 2 \in 1 .. Len(h)
  BY <1>1, <1>2, <1>4
<1>6. g[p + 1] = h[p + 1] /\ g[p + 2] = h[p + 2] /\ Len(h) <= Len(g)
  BY <1>5 DEF Prefix
<1> QED
  BY <1>1, <1>2, <1>4, <1>6

\* Or by its ephemeral with two ciphertexts after it.
LEMMA WrittenA ==
    ASSUME NEW i, NEW h, IsSeq(h), Written(h, i), NEW c, NEW d,
           \A x : c # PublicKey(x) /\ d # PublicKey(x)
    PROVE  Written(Append(Append(Append(h, PublicKey(i)), c), d), i)
<1> DEFINE h1 == Append(h, PublicKey(i))
           h2 == Append(h1, c)
           g == Append(h2, d)
<1>1. /\ IsSeq(h1) /\ Len(h) \in Nat /\ Len(h1) = Len(h) + 1 /\ h1[Len(h) + 1] = PublicKey(i)
      /\ \A n \in 1 .. Len(h) : h1[n] = h[n]
  BY Appended
<1> HIDE DEF h1
<1>2. /\ IsSeq(h2) /\ Len(h2) = Len(h1) + 1 /\ h2[Len(h1) + 1] = c
      /\ \A n \in 1 .. Len(h1) : h2[n] = h1[n]
  BY <1>1, Appended
<1> HIDE DEF h2
<1>3. /\ Len(g) = Len(h2) + 1 /\ g[Len(h2) + 1] = d
      /\ \A n \in 1 .. Len(h2) : g[n] = h2[n]
  BY <1>2, Appended
<1> HIDE DEF g
<1>4. /\ Len(g) = Len(h) + 3 /\ g[Len(h) + 1] = PublicKey(i) /\ g[Len(h) + 2] = c
      /\ g[Len(h) + 3] = d
      /\ \A n \in 1 .. Len(h) : g[n] = h[n]
  BY <1>1, <1>2, <1>3
<1>5. Written(g, i)
  <2> SUFFICES ASSUME NEW p \in 1 .. Len(g), g[p] = PublicKey(i)
               PROVE  /\ p + 2 <= Len(g)
                      /\ \A x \in States : g[p + 1] # PublicKey(x) /\ g[p + 2] # PublicKey(x)
    BY DEF Written
  <2>1. CASE p \in 1 .. Len(h)
    <3>1. /\ p + 2 <= Len(h)
          /\ \A x \in States : h[p + 1] # PublicKey(x) /\ h[p + 2] # PublicKey(x)
      BY <2>1, <1>4 DEF Written
    <3>2. g[p + 1] = h[p + 1] /\ g[p + 2] = h[p + 2]
      BY <3>1, <2>1, <1>1, <1>4
    <3> QED
      BY <3>1, <3>2, <2>1, <1>1, <1>4
  <2>2. CASE p = Len(h) + 1
    <3>1. p + 1 = Len(h) + 2 /\ p + 2 = Len(h) + 3
      BY <2>2, <1>1
    <3> QED
      BY <3>1, <1>1, <1>4
  <2>3. CASE p = Len(h) + 2 \/ p = Len(h) + 3
    BY <2>3, <1>4
  <2> QED
    BY <2>1, <2>2, <2>3, <1>1, <1>4
<1> QED
  BY <1>5 DEF g, h2, h1

\* Ciphertexts are sealed.
LEMMA IsSealed ==
    ASSUME NEW st, NEW plain
    PROVE  /\ Ciphertext(st, plain) = Sealed(st.cs.key, st.cs.nonce, st.h, plain)
           /\ \A x : Ciphertext(st, plain) # PublicKey(x)
BY Kinds DEF Ciphertext, EncryptWithAd

\* WriteMessageA keeps the invariant.
LEMMA WriteAInv ==
    ASSUME HInv, NEW i \in Initiators, WriteMessageA(i)
    PROVE  HInv'
<1>1. /\ Continues(i)
      /\ ss'[i].h = Append(Append(Append(ss[i].h, PublicKey(i)), StaticA(i)), PayloadA(i))
      /\ UNCHANGED <<re, mailB, result, answers, accepts>>
  BY WroteA DEF HInv
<1>2. i \in States /\ \A y \in States : y # i => ss'[y] = ss[y]
  BY <1>1, OthersKept, Roles DEF HInv
<1>3. Domains' /\ Transcripts'
  BY <1>1, <1>2, TranscriptsContinue DEF HInv, Domains
<1>4. OwnWritten'
  <2>1. Written(ss'[i].h, i)
    <3>1. IsSeq(ss[i].h) /\ Written(ss[i].h, i)
      BY <1>2 DEF HInv, OwnWritten, Transcripts, IsState
    <3>2. \A x : StaticA(i) # PublicKey(x) /\ PayloadA(i) # PublicKey(x)
      BY IsSealed DEF StaticA, PayloadA
    <3> QED
      BY <1>1, <3>1, <3>2, WrittenA
  <2>2. \A j \in Initiators : j # i => Written(ss'[j].h, j)
    BY <1>2, Roles DEF HInv, OwnWritten
  <2> QED
    BY <2>1, <2>2 DEF OwnWritten, Written
<1>5. Failures'
  BY <1>1, <1>2, Roles DEF HInv, Failures, AboutToBe, TooEarly
<1>6. Mail' /\ Complete' /\ Agreement'
  BY <1>1 DEF HInv, Mail, Complete, Agreement, Answer, TooEarly, Completed, MixedB
<1> QED
  BY <1>3, <1>4, <1>5, <1>6 DEF HInv

\* ReadMessageA keeps the invariant: after a failure nothing, or one entry, follows the
\* remote ephemeral.
LEMMA ReadAInv ==
    ASSUME HInv, NEW r \in Responders, NEW m, ReadMessageA(r, m)
    PROVE  HInv'
<1>1. /\ Continues(r)
      /\ re' = [re EXCEPT ![r] = m.e]
      /\ result' = [result EXCEPT ![r] = result'[r]]
      /\ \/ result'[r] = "accepted"
         \/ /\ result'[r] = "failed"
            /\ \/ ss'[r].h = Append(ss[r].h, PublicKey(m.e))
               \/ ss'[r].h = Append(Append(ss[r].h, PublicKey(m.e)), m.static)
      /\ UNCHANGED <<mailB, answers, accepts>>
  BY ReadA DEF HInv
<1>2. r \in States /\ \A y \in States : y # r => ss'[y] = ss[y]
  BY <1>1, OthersKept, Roles DEF HInv
<1>3. re'[r] = m.e /\ \A y \in States : y # r => re'[y] = re[y] /\ result'[y] = result[y]
  BY <1>1, <1>2 DEF HInv, Domains
<1>4. Domains' /\ Transcripts'
  BY <1>1, <1>2, TranscriptsContinue DEF HInv, Domains
<1>5. OwnWritten'
  BY <1>2, Roles DEF HInv, OwnWritten, Written
<1>6. result'[r] = "failed" => AboutToBe(ss'[r].h, m.e, r)
  <2> DEFINE h == ss[r].h
             h1 == Append(h, PublicKey(m.e))
             h2 == Append(h1, m.static)
  <2>1. IsSeq(h)
    BY <1>2 DEF HInv, Transcripts, IsState
  <2> HIDE DEF h
  <2>2. IsSeq(h1) /\ Len(h) \in Nat /\ Len(h1) = Len(h) + 1 /\ h1[Len(h) + 1] = PublicKey(m.e)
    BY <2>1, Appended
  <2>3. AboutToBe(h1, m.e, r)
    BY <2>2 DEF AboutToBe
  <2> HIDE DEF h1
  <2>4. Len(h2) = Len(h1) + 1 /\ \A n \in 1 .. Len(h1) : h2[n] = h1[n]
    BY <2>2, Appended
  <2>5. Len(h2) - 1 = Len(h) + 1 /\ h2[Len(h) + 1] = PublicKey(m.e) /\ Len(h2) >= 2
    BY <2>2, <2>4
  <2>6. AboutToBe(h2, m.e, r)
    <3> HIDE DEF h2
    <3> QED BY <2>5 DEF AboutToBe
  <2> QED
    BY <1>1, <2>3, <2>6 DEF h, h1
<1>7. Failures'
  <2>1. result'[r] \in {"accepted", "failed"}
    BY <1>1
  <2>2. \A y \in Responders : y # r =>
          /\ re'[y] # Nil => result'[y] \in {"accepted", "failed"}
          /\ result'[y] = "failed" => AboutToBe(ss'[y].h, re'[y], y)
    BY <1>2, <1>3, Roles DEF HInv, Failures
  <2> QED
    BY <1>3, <1>6, <2>1, <2>2 DEF Failures, AboutToBe, TooEarly
<1>8. Mail' /\ Complete' /\ Agreement'
  BY <1>1 DEF HInv, Mail, Complete, Agreement, Answer, TooEarly, Completed, MixedB
<1> QED
  BY <1>4, <1>5, <1>7, <1>8 DEF HInv

\* A read that dh ends keeps the invariant: the ephemeral it mixed is nobody's, and
\* nothing follows it.
LEMMA ReadLowOrderInv ==
    ASSUME HInv, NEW x \in States, ReadLowOrder(x)
    PROVE  HInv'
<1>1. /\ ss' = [ss EXCEPT ![x] = MixEphemeral(x, ss[x], LowOrder)]
      /\ re' = [re EXCEPT ![x] = LowOrder]
      /\ result' = [result EXCEPT ![x] = "failed"]
      /\ UNCHANGED <<mailB, answers, accepts>>
  BY DEF ReadLowOrder, Returned
<1>2. Continues(x) /\ ss'[x].h = Append(ss[x].h, PublicKey(LowOrder))
  BY <1>1, MixedOnly DEF HInv
<1>3. \A y \in States : y # x => ss'[y] = ss[y]
  BY <1>2, OthersKept DEF HInv
<1>4. /\ re'[x] = LowOrder /\ result'[x] = "failed"
      /\ \A y \in States : y # x => re'[y] = re[y] /\ result'[y] = result[y]
  BY <1>1 DEF HInv, Domains
<1>5. Domains' /\ Transcripts'
  BY <1>1, <1>2, TranscriptsContinue DEF HInv, Domains
<1> DEFINE h == ss[x].h
           g == Append(h, PublicKey(LowOrder))
<1>6. IsSeq(h)
  BY DEF HInv, Transcripts, IsState
<1> HIDE DEF h
<1>7. /\ IsSeq(g) /\ Len(h) \in Nat /\ Len(g) = Len(h) + 1 /\ g[Len(g)] = PublicKey(LowOrder)
      /\ Prefix(h, g)
  BY <1>6, Appended DEF Prefix
<1> HIDE DEF g
<1>8. OwnWritten'
  <2>1. ASSUME x \in Initiators PROVE Written(g, x)
    <3>1. PublicKey(LowOrder) # PublicKey(x)
      BY Kinds, NoiseAssumption
    <3>2. \A n \in 1 .. Len(g) : n > Len(h) => g[n] # PublicKey(x)
      BY <1>7, <3>1
    <3>3. Written(h, x)
      BY <2>1 DEF h, HInv, OwnWritten
    <3> QED
      BY <1>6, <1>7, <3>2, <3>3, WrittenGrows
  <2>2. ASSUME NEW i \in Initiators PROVE Written(ss'[i].h, i)
    <3>1. CASE i = x
      BY <1>2, <2>1, <3>1 DEF g, h
    <3>2. CASE i # x
      BY <1>3, <3>2, Roles DEF HInv, OwnWritten
    <3> QED
      BY <3>1, <3>2
  <2> QED
    BY <2>2 DEF OwnWritten, Written
<1>9. Failures'
  <2>1. AboutToBe(g, LowOrder, x)
    BY <1>7 DEF AboutToBe
  <2>2. AboutToBe(ss'[x].h, LowOrder, x)
    BY <1>2, <2>1 DEF g, h
  <2>3. \A y \in Responders : y # x =>
          /\ re'[y] # Nil => result'[y] \in {"accepted", "failed"}
          /\ result'[y] = "failed" => AboutToBe(ss'[y].h, re'[y], y)
    BY <1>3, <1>4, Roles DEF HInv, Failures
  <2> QED
    BY <1>4, <2>2, <2>3 DEF Failures, AboutToBe, TooEarly
<1>10. Mail' /\ Complete' /\ Agreement'
  BY <1>1 DEF HInv, Mail, Complete, Agreement, Answer, TooEarly, Completed, MixedB
<1> QED
  BY <1>5, <1>8, <1>9, <1>10 DEF HInv

\* An entry that comes too early stays where it is.
LEMMA EarlyKept ==
    ASSUME NEW h, NEW g, NEW e, NEW r, IsSeq(h), IsSeq(g), Prefix(h, g), TooEarly(h, e, r)
    PROVE  TooEarly(g, e, r)
<1>1. Len(h) \in Nat /\ Len(g) \in Nat /\ Len(h) <= Len(g)
  BY Appended DEF Prefix
<1>2. PICK p \in 1 .. Len(h) :
        /\ h[p] = PublicKey(e)
        /\ \/ p + 1 <= Len(h) /\ h[p + 1] = PublicKey(r)
           \/ p + 2 <= Len(h) /\ h[p + 2] = PublicKey(r)
  BY DEF TooEarly
<1>3. p \in 1 .. Len(g) /\ g[p] = PublicKey(e)
  BY <1>1, <1>2 DEF Prefix
<1>4. CASE p + 1 <= Len(h) /\ h[p + 1] = PublicKey(r)
  <2>1. g[p + 1] = PublicKey(r) /\ p + 1 <= Len(g)
    BY <1>1, <1>4 DEF Prefix
  <2> QED
    BY <1>3, <2>1 DEF TooEarly
<1>5. CASE p + 2 <= Len(h) /\ h[p + 2] = PublicKey(r)
  <2>1. g[p + 2] = PublicKey(r) /\ p + 2 <= Len(g)
    BY <1>1, <1>5 DEF Prefix
  <2> QED
    BY <1>3, <2>1 DEF TooEarly
<1> QED
  BY <1>2, <1>4, <1>5

\* The responder's ephemeral mixed right after a failure comes too early.
LEMMA EarlyNow ==
    ASSUME NEW h, NEW g, NEW e, NEW r, IsSeq(h), IsSeq(g), Prefix(h, g), AboutToBe(h, e, r),
           Len(g) > Len(h), g[Len(h) + 1] = PublicKey(r)
    PROVE  TooEarly(g, e, r)
<1>1. Len(h) \in Nat /\ Len(g) \in Nat /\ Len(h) + 1 <= Len(g)
  BY Appended
<1>2. CASE TooEarly(h, e, r)
  BY <1>2, EarlyKept
<1>3. CASE Len(h) >= 1 /\ h[Len(h)] = PublicKey(e)
  <2>1. Len(h) \in 1 .. Len(g) /\ g[Len(h)] = PublicKey(e)
    BY <1>1, <1>3 DEF Prefix
  <2> QED
    BY <1>1, <2>1 DEF TooEarly
<1>4. CASE Len(h) >= 2 /\ h[Len(h) - 1] = PublicKey(e)
  <2> DEFINE p == Len(h) - 1
  <2>1. /\ p \in 1 .. Len(g) /\ g[p] = PublicKey(e) /\ p + 2 <= Len(g)
        /\ g[p + 2] = PublicKey(r)
    <3>1. p \in 1 .. Len(h) /\ p \in 1 .. Len(g) /\ p + 2 = Len(h) + 1
      BY <1>1, <1>4
    <3>2. g[p] = h[p]
      BY <3>1 DEF Prefix
    <3> QED
      BY <3>1, <3>2, <1>1, <1>4
  <2> HIDE DEF p
  <2> QED
    BY <2>1 DEF TooEarly
<1> QED
  BY <1>2, <1>3, <1>4 DEF AboutToBe

\* WriteMessageB keeps the invariant, too, when dh ends it: after a failed read the
\* ephemeral it mixed comes too early.
LEMMA AnswerLowOrderInv ==
    ASSUME HInv, NEW r \in Responders, AnswerLowOrder(r)
    PROVE  HInv'
<1>1. /\ ss' = [ss EXCEPT ![r] = MixEphemeral(r, ss[r], r)]
      /\ UNCHANGED <<re, mailB, result, answers, accepts>>
  BY DEF AnswerLowOrder
<1>2. r \in States /\ Continues(r) /\ ss'[r].h = Append(ss[r].h, PublicKey(r))
  BY <1>1, MixedOnly, Roles DEF HInv
<1>3. \A y \in States : y # r => ss'[y] = ss[y]
  BY <1>2, OthersKept DEF HInv
<1>4. Domains' /\ Transcripts'
  BY <1>1, <1>2, TranscriptsContinue DEF HInv, Domains
<1>5. OwnWritten'
  BY <1>3, Roles DEF HInv, OwnWritten, Written
<1>6. Failures'
  <2>1. result[r] = "failed" => AboutToBe(ss'[r].h, re[r], r)
    <3> DEFINE h == ss[r].h
               g == Append(h, PublicKey(r))
    <3>1. IsSeq(h) /\ (result[r] = "failed" => AboutToBe(h, re[r], r))
      BY <1>2 DEF HInv, Transcripts, IsState, Failures
    <3> HIDE DEF h
    <3>2. /\ IsSeq(g) /\ Len(h) \in Nat /\ Len(g) > Len(h) /\ g[Len(h) + 1] = PublicKey(r)
          /\ Prefix(h, g)
      BY <3>1, Appended DEF Prefix
    <3>3. result[r] = "failed" => TooEarly(g, re[r], r)
      <4> HIDE DEF g
      <4> QED BY <3>1, <3>2, EarlyNow
    <3> QED
      BY <1>2, <3>3 DEF h, AboutToBe
  <2>2. \A y \in Responders : y # r => (result[y] = "failed" => AboutToBe(ss'[y].h, re[y], y))
    BY <1>3, Roles DEF HInv, Failures
  <2>3. \A y \in Responders : re[y] # Nil => result[y] \in {"accepted", "failed"}
    BY DEF HInv, Failures
  <2> QED
    BY <1>1, <2>1, <2>2, <2>3 DEF Failures, AboutToBe, TooEarly
<1>7. Mail' /\ Complete' /\ Agreement'
  BY <1>1 DEF HInv, Mail, Complete, Agreement, Answer, TooEarly, Completed, MixedB
<1> QED
  BY <1>4, <1>5, <1>6, <1>7 DEF HInv

\* What WriteMessageB seals and leaves.
LEMMA SealedB ==
    ASSUME Domains, Transcripts, NEW r \in Responders, WriteMessageB(r)
    PROVE  /\ PayloadB(r) = Sealed(PayloadB(r).key, 0, StateB(r).h, r)
           /\ PayloadB(r).ad = StateB(r).h /\ PayloadB(r).nonce = 0
           /\ MixedB(r, r, dh(r, re[r]), dh(r, rs[r]), StateB(r).h, ss'[r].ck, PayloadB(r).key)
           /\ IsSeq(StateB(r).h) /\ StartsWith(StateB(r).h, rs[r], s[r])
           /\ Completed(ss'[r])
           /\ \A e : AboutToBe(ss[r].h, e, r) =>
                TooEarly(StateB(r).h, e, r) /\ TooEarly(ss'[r].h, e, r)
<1> DEFINE b == StateB(r)
           c == PayloadB(r)
<1>1. IsState(ss[r]) /\ StartsWith(ss[r].h, rs[r], s[r])
  BY Roles DEF Transcripts
<1>2. IsSeq(ss[r].h)
  BY <1>1 DEF IsState
<1>3. /\ Grown(ss[r], b)
      /\ MixedB(r, r, dh(r, re[r]), dh(r, rs[r]), b.h, b.ck, b.cs.key)
      /\ b.cs.nonce = 0 /\ Len(b.h) > Len(ss[r].h)
      /\ b.h[Len(ss[r].h) + 1] = PublicKey(r)
  BY <1>1, BeforePayloadFacts DEF StateB
<1>4. ss'[r].h = Append(b.h, c) /\ ss'[r].ck = b.ck
  BY WroteB
<1>5. c = Sealed(b.cs.key, b.cs.nonce, b.h, r)
  BY IsSealed DEF PayloadB
<1> HIDE DEF b, c
<1>6. /\ c = Sealed(c.key, 0, b.h, r) /\ c.ad = b.h /\ c.nonce = 0 /\ c.key = b.cs.key
  BY <1>3, <1>5 DEF Sealed
<1>7. IsSeq(b.h) /\ Prefix(ss[r].h, b.h)
  BY <1>3 DEF Grown, Continued
<1>8. StartsWith(b.h, rs[r], s[r])
  BY <1>1, <1>2, <1>7, StartKept
<1>9. /\ IsSeq(ss'[r].h) /\ Len(ss'[r].h) = Len(b.h) + 1 /\ ss'[r].h[Len(b.h) + 1] = c
      /\ Len(b.h) \in Nat /\ Prefix(b.h, ss'[r].h)
  <2>1. /\ IsSeq(Append(b.h, c)) /\ Len(Append(b.h, c)) = Len(b.h) + 1
        /\ Append(b.h, c)[Len(b.h) + 1] = c /\ Len(b.h) \in Nat /\ Prefix(b.h, Append(b.h, c))
    BY <1>7, Appended DEF Prefix
  <2> QED
    BY <1>4, <2>1
<1>10. c.key.origin[1] = b.ck
  <2>1. c.key = Hkdf(b.ck, 2) \/ c.key = Hkdf(b.ck, 3)
    BY <1>3, <1>6 DEF MixedB
  <2>2. \A q, n : Hkdf(q, n).origin[1] = q
    BY DEF Hkdf, Key
  <2> QED
    BY <2>1, <2>2
<1>11. Completed(ss'[r])
  BY <1>4, <1>9, <1>10 DEF Completed
<1>12. ASSUME NEW e, AboutToBe(ss[r].h, e, r)
       PROVE  TooEarly(b.h, e, r) /\ TooEarly(ss'[r].h, e, r)
  <2>1. TooEarly(b.h, e, r)
    BY <1>2, <1>3, <1>7, <1>12, EarlyNow
  <2> QED
    BY <2>1, <1>7, <1>9, EarlyKept
<1> QED
  BY <1>3, <1>4, <1>6, <1>7, <1>8, <1>11, <1>12 DEF b, c

\* WriteMessageB keeps the invariant.
LEMMA WriteBInv ==
    ASSUME HInv, NEW r \in Responders, WriteMessageB(r)
    PROVE  HInv'
<1> DEFINE a0 == [by |-> r, read |-> result[r], to |-> re[r], ss |-> ss'[r]]
<1>1. /\ Continues(r) /\ re[r] # Nil
      /\ ss'[r].h = Append(StateB(r).h, PayloadB(r))
      /\ mailB' = mailB \cup {[e |-> r, payload |-> PayloadB(r)]}
      /\ answers' = answers \cup {a0}
      /\ UNCHANGED <<re, result, accepts>>
  BY WroteB DEF HInv
<1>2. r \in States /\ \A y \in States : y # r => ss'[y] = ss[y]
  BY <1>1, OthersKept, Roles DEF HInv
<1>3. Domains' /\ Transcripts'
  BY <1>1, <1>2, TranscriptsContinue DEF HInv, Domains
<1>4. OwnWritten'
  BY <1>2, Roles DEF HInv, OwnWritten, Written
<1>5. /\ PayloadB(r).ad = StateB(r).h
      /\ MixedB(r, r, dh(r, re[r]), dh(r, rs[r]), StateB(r).h, ss'[r].ck, PayloadB(r).key)
      /\ IsSeq(StateB(r).h) /\ StartsWith(StateB(r).h, rs[r], s[r])
      /\ Completed(ss'[r])
      /\ \A e : AboutToBe(ss[r].h, e, r) =>
           TooEarly(StateB(r).h, e, r) /\ TooEarly(ss'[r].h, e, r)
  BY SealedB DEF HInv
<1>6. result[r] \in {"accepted", "failed"} /\ (result[r] = "failed" => AboutToBe(ss[r].h, re[r], r))
  BY <1>1 DEF HInv, Failures
<1>7. Failures'
  <2>1. result[r] = "failed" => AboutToBe(ss'[r].h, re[r], r)
    BY <1>5, <1>6 DEF AboutToBe
  <2>2. \A y \in Responders : y # r => (result[y] = "failed" => AboutToBe(ss'[y].h, re[y], y))
    BY <1>2, Roles DEF HInv, Failures
  <2>3. \A y \in Responders : re[y] # Nil => result[y] \in {"accepted", "failed"}
    BY DEF HInv, Failures
  <2> QED
    BY <1>1, <2>1, <2>2, <2>3 DEF Failures, AboutToBe, TooEarly
<1>8. /\ a0.by = r /\ a0.read = result[r] /\ a0.to = re[r] /\ a0.ss = ss'[r]
      /\ a0 \in answers'
  BY <1>1
<1> HIDE DEF a0
<1>9. Answer(a0, PayloadB(r))
  BY <1>1, <1>5, <1>6, <1>8 DEF Answer
<1>10. Mail'
  <2>1. \A m \in mailB : /\ m = [e |-> m.e, payload |-> m.payload] /\ m.e \in Responders
                         /\ \E a \in answers' : a.by = m.e /\ Answer(a, m.payload)
    BY <1>1 DEF HInv, Mail
  <2>2. \A m \in {[e |-> r, payload |-> PayloadB(r)]} :
          /\ m = [e |-> m.e, payload |-> m.payload] /\ m.e \in Responders
          /\ \E a \in answers' : a.by = m.e /\ Answer(a, m.payload)
    BY <1>8, <1>9
  <2>3. \A m \in mailB' : /\ m = [e |-> m.e, payload |-> m.payload] /\ m.e \in Responders
                         /\ \E a \in answers' : a.by = m.e /\ Answer(a, m.payload)
    BY <1>1, <2>1, <2>2
  <2> QED
    BY <2>3 DEF Mail, Answer, MixedB, TooEarly
<1>11. Complete'
  BY <1>1, <1>5, <1>8 DEF HInv, Complete, Completed
<1>12. Agreement'
  BY <1>1 DEF HInv, Agreement
<1> QED
  BY <1>3, <1>4, <1>7, <1>10, <1>11, <1>12 DEF HInv

\* What the network hands over names a responder or nobody, and its payload was sealed
\* in a WriteMessageB or is damaged.
LEMMA FromMail ==
    ASSUME Mail, NEW m \in DeliveredB
    PROVE  /\ m.e \in Responders \cup {Damaged}
           /\ m.payload # Damaged => \E a \in answers : Answer(a, m.payload)
<1>1. CASE m \in mailB
  BY <1>1 DEF Mail
<1>2. CASE m \notin mailB
  <2>1. PICK m0 \in mailB, f \in {"e", "payload"} : m = [m0 EXCEPT ![f] = Damaged]
    BY <1>2 DEF DeliveredB, Delivered
  <2>2. /\ m0 = [e |-> m0.e, payload |-> m0.payload] /\ m0.e \in Responders
        /\ \E a \in answers : Answer(a, m0.payload)
    BY DEF Mail
  <2>3. CASE f = "e"
    <3>1. m = [e |-> Damaged, payload |-> m0.payload]
      BY <2>1, <2>2, <2>3
    <3> QED
      BY <2>2, <3>1
  <2>4. CASE f = "payload"
    <3>1. m = [e |-> m0.e, payload |-> Damaged]
      BY <2>1, <2>2, <2>4
    <3> QED
      BY <2>2, <3>1
  <2> QED
    BY <2>1, <2>3, <2>4
<1> QED
  BY <1>1, <1>2

\* What an initiator has mixed before the payload of message B.
LEMMA BeforeRead ==
    ASSUME HInv, NEW i \in Initiators, NEW m, m.e \in Responders \cup {Damaged}
    PROVE  LET b == StateRead(i, m)
           IN  /\ IsSeq(b.h) /\ StartsWith(b.h, s[i], rs[i]) /\ Written(b.h, i)
               /\ MixedB(i, m.e, dh(i, m.e), dh(s[i], m.e), b.h, b.ck, b.cs.key)
<1> DEFINE b == StateRead(i, m)
<1>1. IsState(ss[i]) /\ StartsWith(ss[i].h, s[i], rs[i]) /\ Written(ss[i].h, i)
  BY Roles DEF HInv, Transcripts, OwnWritten
<1>2. IsSeq(ss[i].h)
  BY <1>1 DEF IsState
<1>3. /\ Grown(ss[i], b)
      /\ MixedB(i, m.e, dh(i, m.e), dh(s[i], m.e), b.h, b.ck, b.cs.key)
      /\ \A n \in 1 .. Len(b.h) :
           n <= Len(ss[i].h) \/ b.h[n] = PublicKey(m.e) \/ b.h[n] = Hkdf(b.ck, 2)
      /\ Len(ss[i].h) \in Nat /\ Len(b.h) \in Nat
  BY <1>1, BeforePayloadFacts DEF StateRead
<1> HIDE DEF b
<1>4. IsSeq(b.h) /\ Prefix(ss[i].h, b.h)
  BY <1>3 DEF Grown, Continued
<1>5. m.e # i
  BY Roles, NoiseAssumption
<1>6. PublicKey(m.e) # PublicKey(i) /\ Hkdf(b.ck, 2) # PublicKey(i)
  BY <1>5, Kinds DEF Hkdf
<1>7. \A n \in 1 .. Len(b.h) : n > Len(ss[i].h) => b.h[n] # PublicKey(i)
  BY <1>3, <1>6
<1>8. Written(b.h, i)
  BY <1>1, <1>2, <1>4, <1>7, WrittenGrows
<1>9. StartsWith(b.h, s[i], rs[i])
  BY <1>1, <1>2, <1>4, StartKept
<1> QED
  BY <1>3, <1>4, <1>8, <1>9 DEF b

\* The end of an accepted transcript names its chaining key and is no public key.
LEMMA OpenedB ==
    ASSUME HInv, NEW i \in Initiators, NEW m, m.e \in Responders \cup {Damaged},
           DecryptAndHash(StateRead(i, m), m.payload)
    PROVE  LET b == StateRead(i, m)
               c == m.payload
           IN  /\ c # Damaged /\ c.key = b.cs.key /\ c.ad = b.h
               /\ c.key.origin[1] = b.ck
               /\ \A e : c # PublicKey(e)
<1> DEFINE b == StateRead(i, m)
           c == m.payload
<1>1. c # Damaged /\ c = Sealed(b.cs.key, b.cs.nonce, b.h, c.plain)
  BY DEF DecryptAndHash, DecryptWithAd, EncryptWithAd
<1>2. c.key = b.cs.key /\ c.ad = b.h
  BY <1>1 DEF Sealed
<1>3. \A e : c # PublicKey(e)
  BY <1>1, Kinds
<1>4. MixedB(i, m.e, dh(i, m.e), dh(s[i], m.e), b.h, b.ck, b.cs.key)
  BY BeforeRead
<1> HIDE DEF b, c
<1>5. b.cs.key = Hkdf(b.ck, 2) \/ b.cs.key = Hkdf(b.ck, 3)
  BY <1>4 DEF MixedB
<1>6. \A q, n : Hkdf(q, n).origin[1] = q
  BY DEF Hkdf, Key
<1> QED
  BY <1>1, <1>2, <1>3, <1>5, <1>6 DEF b, c

\* The initiator opens the payload of a WriteMessageB only if they agree: the key they
\* share holds both Diffie-Hellman results and the pre-shared key, and the transcript
\* the statics; a responder that had failed has its ephemeral where no transcript of the
\* initiator has one.
LEMMA Agreed ==
    ASSUME HInv, NEW i \in Initiators, NEW m, m.e \in Responders \cup {Damaged},
           DecryptAndHash(StateRead(i, m), m.payload),
           NEW a, Answer(a, m.payload)
    PROVE  /\ a.by = m.e /\ a.read = "accepted" /\ a.to = i
           /\ s[a.by] = rs[i] /\ rs[a.by] = s[i] /\ psk[a.by] = psk[i]
           /\ a.ss.h = Append(StateRead(i, m).h, m.payload)
           /\ a.ss.ck = StateRead(i, m).ck
<1> DEFINE b == StateRead(i, m)
           c == m.payload
           r == a.by
<1>1. /\ StartsWith(b.h, s[i], rs[i]) /\ Written(b.h, i)
      /\ MixedB(i, m.e, dh(i, m.e), dh(s[i], m.e), b.h, b.ck, b.cs.key)
  BY BeforeRead
<1>2. c.key = b.cs.key /\ c.ad = b.h
  BY OpenedB
<1>3. /\ r \in Responders /\ a.read \in {"accepted", "failed"}
      /\ StartsWith(c.ad, rs[r], s[r])
      /\ MixedB(r, r, dh(r, a.to), dh(r, rs[r]), c.ad, a.ss.ck, c.key)
      /\ a.ss.h = Append(c.ad, c)
      /\ a.read = "failed" => TooEarly(c.ad, a.to, r)
  BY DEF Answer
<1> HIDE DEF b, c, r
<1>4. MixedB(r, r, dh(r, a.to), dh(r, rs[r]), b.h, a.ss.ck, b.cs.key)
  BY <1>2, <1>3
<1>5. psk[r] = psk[i] /\ r = m.e /\ dh(r, a.to) = dh(i, m.e) /\ dh(r, rs[r]) = dh(s[i], m.e)
      /\ a.ss.ck = b.ck
  BY <1>1, <1>4, MixedBAgree
<1>6. r # i /\ r # s[i] /\ r \in States
  BY <1>3, Roles, NoiseAssumption
<1>7. a.to = i
  BY <1>5, <1>6 DEF dh
<1>8. rs[r] = s[i]
  BY <1>5, <1>6 DEF dh
<1>9. s[r] = rs[i]
  BY <1>1, <1>2, <1>3, Kinds DEF StartsWith
<1>10. a.read # "failed"
  <2> SUFFICES ASSUME TooEarly(b.h, i, r) PROVE FALSE
    BY <1>2, <1>3, <1>7
  <2>1. PICK p \in 1 .. Len(b.h) :
          /\ b.h[p] = PublicKey(i)
          /\ \/ p + 1 <= Len(b.h) /\ b.h[p + 1] = PublicKey(r)
             \/ p + 2 <= Len(b.h) /\ b.h[p + 2] = PublicKey(r)
    BY DEF TooEarly
  <2>2. b.h[p + 1] # PublicKey(r) /\ b.h[p + 2] # PublicKey(r)
    BY <1>1, <1>6, <2>1 DEF Written
  <2> QED
    BY <2>1, <2>2
<1> QED
  BY <1>2, <1>3, <1>5, <1>7, <1>8, <1>9, <1>10 DEF b, c, r

\* ReadMessageB keeps the invariant.
LEMMA ReadBInv ==
    ASSUME HInv, NEW i \in Initiators, NEW m \in DeliveredB, ReadMessageB(i, m)
    PROVE  HInv'
<1> DEFINE b == StateRead(i, m)
           c == m.payload
           ok == DecryptAndHash(b, c)
           x0 == [by |-> i, from |-> m.e, ss |-> ss'[i]]
<1>1. /\ Continues(i)
      /\ re' = [re EXCEPT ![i] = m.e]
      /\ result' = [result EXCEPT ![i] = result'[i]]
      /\ \/ /\ ok /\ ss'[i].h = Append(b.h, c) /\ ss'[i].ck = b.ck
            /\ accepts' = accepts \cup {x0}
         \/ ss'[i].h = b.h /\ accepts' = accepts
      /\ UNCHANGED <<mailB, answers>>
  BY ReadB DEF HInv
<1>2. i \in States /\ \A y \in States : y # i => ss'[y] = ss[y]
  BY <1>1, OthersKept, Roles DEF HInv
<1>3. \A y \in States : y # i => re'[y] = re[y] /\ result'[y] = result[y]
  BY <1>1, <1>2 DEF HInv, Domains
<1>4. Domains' /\ Transcripts'
  BY <1>1, <1>2, TranscriptsContinue DEF HInv, Domains
<1>5. m.e \in Responders \cup {Damaged}
  BY FromMail DEF HInv
<1>6. IsSeq(b.h) /\ Written(b.h, i)
  BY <1>5, BeforeRead
<1>7. ok => /\ c # Damaged /\ c.key.origin[1] = b.ck /\ \A e : c # PublicKey(e)
  BY <1>5, OpenedB
<1>8. ok => \E a \in answers :
        /\ a.by = m.e /\ a.read = "accepted" /\ a.to = i
        /\ s[a.by] = rs[i] /\ rs[a.by] = s[i] /\ psk[a.by] = psk[i]
        /\ a.ss.h = Append(b.h, c) /\ a.ss.ck = b.ck
  <2> SUFFICES ASSUME ok
               PROVE  \E a \in answers :
                        /\ a.by = m.e /\ a.read = "accepted" /\ a.to = i
                        /\ s[a.by] = rs[i] /\ rs[a.by] = s[i] /\ psk[a.by] = psk[i]
                        /\ a.ss.h = Append(b.h, c) /\ a.ss.ck = b.ck
    OBVIOUS
  <2>1. PICK a \in answers : Answer(a, m.payload)
    BY <1>7, FromMail DEF HInv
  <2> QED
    BY <1>5, <2>1, Agreed
<1> HIDE DEF b, c, ok
<1>9. /\ IsSeq(Append(b.h, c)) /\ Len(b.h) \in Nat /\ Len(Append(b.h, c)) = Len(b.h) + 1
      /\ Append(b.h, c)[Len(b.h) + 1] = c /\ Prefix(b.h, Append(b.h, c))
  BY <1>6, Appended DEF Prefix
<1>10. OwnWritten'
  <2>1. ok => Written(Append(b.h, c), i)
    <3> SUFFICES ASSUME ok PROVE Written(Append(b.h, c), i)
      OBVIOUS
    <3>1. \A n \in 1 .. Len(Append(b.h, c)) : n > Len(b.h) => Append(b.h, c)[n] # PublicKey(i)
      BY <1>7, <1>9
    <3> QED
      BY <1>6, <1>9, <3>1, WrittenGrows
  <2>2. Written(ss'[i].h, i)
    BY <1>1, <1>6, <2>1
  <2>3. \A j \in Initiators : j # i => Written(ss'[j].h, j)
    BY <1>2, Roles DEF HInv, OwnWritten
  <2> QED
    BY <2>2, <2>3 DEF OwnWritten, Written
<1>11. Failures'
  <2>1. \A y \in Responders : ss'[y] = ss[y] /\ re'[y] = re[y] /\ result'[y] = result[y]
    BY <1>2, <1>3, Roles
  <2>2. \A y \in Responders :
          /\ re'[y] # Nil => result'[y] \in {"accepted", "failed"}
          /\ result'[y] = "failed" => AboutToBe(ss'[y].h, re'[y], y)
    BY <2>1 DEF HInv, Failures
  <2> QED
    BY <2>2 DEF Failures, AboutToBe, TooEarly
<1>12. Mail'
  BY <1>1 DEF HInv, Mail, Answer, TooEarly, MixedB
<1>13. x0.by = i /\ x0.from = m.e /\ x0.ss = ss'[i]
  OBVIOUS
<1> HIDE DEF x0
<1>14. CASE accepts' = accepts
  BY <1>1, <1>4, <1>10, <1>11, <1>12, <1>14 DEF HInv, Complete, Completed, Agreement
<1>15. CASE /\ ok /\ ss'[i].h = Append(b.h, c) /\ ss'[i].ck = b.ck
            /\ accepts' = accepts \cup {x0}
  <2>1. Completed(x0.ss)
    BY <1>7, <1>9, <1>13, <1>15 DEF Completed
  <2>2. Complete'
    BY <1>1, <1>13, <1>15, <2>1 DEF HInv, Complete, Completed
  <2>3. PICK a \in answers :
        /\ a.by = m.e /\ a.read = "accepted" /\ a.to = i
        /\ s[a.by] = rs[i] /\ rs[a.by] = s[i] /\ psk[a.by] = psk[i]
        /\ a.ss.h = Append(b.h, c) /\ a.ss.ck = b.ck
    BY <1>8, <1>15
  <2>4. a.by \in Responders /\ a.by \notin Initiators
    BY Roles DEF HInv, Complete
  <2>5. Split(x0.ss) = Split(a.ss)
    BY <1>13, <1>15, <2>3 DEF Split
  <2>6. /\ Transport(i, x0.ss).send = Transport(a.by, a.ss).receive
        /\ Transport(i, x0.ss).receive = Transport(a.by, a.ss).send
    BY <2>4, <2>5 DEF Transport
  <2>7. Agreement'
    <3>1. \A x \in accepts : \E e \in answers :
            /\ e.by = x.from /\ e.read = "accepted" /\ e.to = x.by
            /\ s[e.by] = rs[x.by] /\ rs[e.by] = s[x.by] /\ psk[e.by] = psk[x.by]
            /\ e.ss.h = x.ss.h
            /\ Transport(x.by, x.ss).send = Transport(e.by, e.ss).receive
            /\ Transport(x.by, x.ss).receive = Transport(e.by, e.ss).send
      BY DEF HInv, Agreement
    <3>2. /\ a.by = x0.from /\ a.read = "accepted" /\ a.to = x0.by
          /\ s[a.by] = rs[x0.by] /\ rs[a.by] = s[x0.by] /\ psk[a.by] = psk[x0.by]
          /\ a.ss.h = x0.ss.h
          /\ Transport(x0.by, x0.ss).send = Transport(a.by, a.ss).receive
          /\ Transport(x0.by, x0.ss).receive = Transport(a.by, a.ss).send
      BY <1>13, <1>15, <2>3, <2>6
    <3>3. \A x \in accepts' : \E e \in answers :
            /\ e.by = x.from /\ e.read = "accepted" /\ e.to = x.by
            /\ s[e.by] = rs[x.by] /\ rs[e.by] = s[x.by] /\ psk[e.by] = psk[x.by]
            /\ e.ss.h = x.ss.h
            /\ Transport(x.by, x.ss).send = Transport(e.by, e.ss).receive
            /\ Transport(x.by, x.ss).receive = Transport(e.by, e.ss).send
      BY <1>15, <3>1, <3>2
    <3> QED
      BY <1>1, <3>3 DEF Agreement, Transport, Split
  <2> QED
    BY <1>4, <1>10, <1>11, <1>12, <2>2, <2>7 DEF HInv
<1> QED
  BY <1>1, <1>14, <1>15

\* What leaves the handshake alone keeps its invariant.
LEMMA HUnchanged == HInv /\ UNCHANGED hvars => HInv'
<1> SUFFICES ASSUME HInv, UNCHANGED hvars PROVE HInv'
  OBVIOUS
<1>1. UNCHANGED <<ss, re, mailB, result, answers, accepts>>
  BY DEF hvars
<1>2. Domains' /\ Transcripts' /\ OwnWritten' /\ Complete' /\ Agreement'
  BY <1>1 DEF HInv, Domains, Transcripts, OwnWritten, Written, Complete, Completed, Agreement
<1>3. Failures' /\ Mail'
  BY <1>1 DEF HInv, Failures, AboutToBe, TooEarly, Mail, Answer, MixedB
<1> QED
  BY <1>2, <1>3 DEF HInv

\* The empty sequence is one.
LEMMA NothingMixed == IsSeq(<<>>) /\ Len(<<>>) = 0
<1> DEFINE S == {<<>>[n] : n \in DOMAIN <<>>}
<1> HIDE DEF S
<1>1. <<>> \in Seq(S) /\ Len(<<>>) = 0
  OBVIOUS
<1> QED
  BY <1>1 DEF IsSeq, S

\* NewHandshakeState: the transcript is the two statics.
LEMMA PrologueFacts ==
    ASSUME NEW x \in States
    PROVE  /\ IsState(Prologue(x)) /\ Len(Prologue(x).h) = 2
           /\ x \in Initiators => StartsWith(Prologue(x).h, s[x], rs[x])
           /\ x \in Responders => StartsWith(Prologue(x).h, rs[x], s[x])
<1> DEFINE first == IF x \in Initiators THEN s[x] ELSE rs[x]
           second == IF x \in Initiators THEN rs[x] ELSE s[x]
           m0 == InitializeSymmetric
           m1 == MixHash(m0, PublicKey(first))
           m2 == MixHash(m1, PublicKey(second))
<1>1. Prologue(x) = m2
  BY DEF Prologue
<1>2. IsState(m0) /\ Len(m0.h) = 0
  BY NothingMixed DEF InitializeSymmetric, IsState
<1> HIDE DEF first, second, m0
<1>3. IsState(m1) /\ m1.h = Append(m0.h, PublicKey(first))
  BY <1>2, MixHashed
<1> HIDE DEF m1
<1>4. IsState(m2) /\ m2.h = Append(m1.h, PublicKey(second))
  BY <1>3, MixHashed
<1> HIDE DEF m2
<1>5. /\ IsSeq(Append(m0.h, PublicKey(first)))
      /\ Len(Append(m0.h, PublicKey(first))) = 1
      /\ Append(m0.h, PublicKey(first))[1] = PublicKey(first)
  BY <1>2, Appended DEF IsState
<1>6. IsSeq(m1.h) /\ Len(m1.h) = 1 /\ m1.h[1] = PublicKey(first)
  BY <1>3, <1>5
<1>7. /\ Len(Append(m1.h, PublicKey(second))) = 2
      /\ Append(m1.h, PublicKey(second))[2] = PublicKey(second)
      /\ Append(m1.h, PublicKey(second))[1] = PublicKey(first)
  BY <1>6, Appended
<1>8. Len(m2.h) = 2 /\ StartsWith(m2.h, first, second)
  BY <1>4, <1>7 DEF StartsWith
<1> QED
  BY <1>1, <1>4, <1>8, Roles DEF first, second

\* The invariant of the handshake holds at the start.
LEMMA HInitInv == HInit => HInv
<1> SUFFICES ASSUME HInit PROVE HInv
  OBVIOUS
<1>1. Domains /\ \A x \in States : ss[x] = Prologue(x) /\ re[x] = Nil /\ result[x] = "none"
  BY DEF HInit, Domains
<1>2. Transcripts
  BY <1>1, PrologueFacts DEF Transcripts
<1>3. OwnWritten
  <2> SUFFICES ASSUME NEW i \in Initiators, NEW p \in 1 .. Len(ss[i].h), ss[i].h[p] = PublicKey(i)
               PROVE  FALSE
    BY DEF OwnWritten, Written
  <2>1. i \in States
    BY Roles
  <2>2. Len(ss[i].h) = 2
    BY <1>1, <2>1, PrologueFacts
  <2>3. ss[i].h[1] = PublicKey(s[i]) /\ ss[i].h[2] = PublicKey(rs[i])
    BY <1>2, <2>1 DEF Transcripts, StartsWith
  <2>4. p = 1 \/ p = 2
    BY <2>2
  <2> QED
    BY <2>1, <2>3, <2>4, Kinds, NoiseAssumption
<1>4. Failures
  BY <1>1, Roles DEF Failures
<1>5. Mail /\ Complete /\ Agreement
  BY DEF HInit, Mail, Complete, Agreement
<1> QED
  BY <1>1, <1>2, <1>3, <1>4, <1>5 DEF HInv

-----------------------------------------------------------------------------
(* Which keys seal what. *)

\* Where a derived block comes from.
LEMMA HkdfOrigin ==
    \A q, n : Hkdf(q, n).origin[1] = q /\ Hkdf(q, n).origin[2] = n /\ Hkdf(q, n).gen = 0
BY DEF Hkdf, Key

\* A key that ends with a handshake state's own mark and is longer than its chaining key
\* has sealed nothing yet.
LEMMA FreshKey ==
    ASSUME Domains, Transcripts, HandSealed, ~HasKey(snd), NEW x \in States, NEW q, NEW n,
           Mark(x, q, n), Len(q) > Len(ss[x].ck), Len(q) \in Nat,
           NEW c \in sealed
    PROVE  c.key # Hkdf(q, n)
<1> SUFFICES ASSUME c.key = Hkdf(q, n) PROVE FALSE
  OBVIOUS
<1>1. c.key.origin[1] = q /\ c.key.origin[2] = n
  BY HkdfOrigin
<1>2. PICK y \in States : SealedBy(y, c)
  BY DEF HandSealed
<1>3. Mark(y, q, n) /\ Len(q) <= Len(ss[y].ck)
  BY <1>1, <1>2 DEF SealedBy
<1>4. y = x
  BY <1>3, OneMark
<1>5. Len(ss[x].ck) \in Nat
  BY Appended DEF Transcripts, IsState
<1> QED
  BY <1>3, <1>4, <1>5

\* What was sealed in the handshake was sealed with block 2 or 3.
LEMMA NotSplit ==
    ASSUME NEW x, NEW c, SealedBy(x, c)
    PROVE  c.key.origin[2] \in {2, 3}
BY DEF SealedBy, Mark

\* While a handshake state goes on, what it sealed stays marked.
LEMMA StillSealed ==
    ASSUME Domains, Transcripts, HandSealed, ~HasKey(snd), NEW x \in States, Continues(x),
           NEW c \in sealed
    PROVE  \E y \in States : SealedBy(y, c)'
<1>1. PICK y \in States : SealedBy(y, c)
  BY DEF HandSealed
<1>2. \A z \in States : z # x => ss'[z] = ss[z]
  BY OthersKept
<1>3. Len(ss[y].ck) \in Nat /\ Len(ss'[y].ck) \in Nat /\ Len(ss[y].ck) <= Len(ss'[y].ck)
  <2>1. CASE y = x
    BY <2>1 DEF Continues, Grown, Continued
  <2>2. CASE y # x
    BY <1>2, <2>2, Appended DEF Transcripts, IsState
  <2> QED
    BY <2>1, <2>2
<1> DEFINE q == c.key.origin[1]
<1>4. IsSeq(q) /\ Len(q) <= Len(ss[y].ck) /\ Mark(y, q, c.key.origin[2])
  BY <1>1 DEF SealedBy
<1> HIDE DEF q
<1>5. Len(q) \in Nat
  BY <1>4, Appended
<1>6. Len(q) <= Len(ss'[y].ck)
  BY <1>3, <1>4, <1>5
<1>7. SealedBy(y, c)'
  BY <1>4, <1>6 DEF SealedBy, Mark, q
<1> QED
  BY <1>7

\* The state WriteMessageA seals the static in: its chaining key ends with es.
LEMMA StateESFacts ==
    ASSUME NEW i, IsState(ss[i])
    PROVE  /\ Grown(ss[i], StateES(i)) /\ StateES(i).cs.key = Hkdf(StateES(i).ck, 2)
           /\ Final(StateES(i).ck) = dh(i, rs[i])
<1>1. Grown(ss[i], StateES(i))
  BY AfterESFacts DEF StateES
<1>2. StateES(i).cs.key = Hkdf(StateES(i).ck, 2)
  <2>1. ASSUME NEW k
        PROVE  AfterES(i, ss[i], i, k).cs.key = Hkdf(AfterES(i, ss[i], i, k).ck, 2)
    BY AfterESFacts
  <2> QED
    BY <2>1 DEF StateES
<1>3. Final(StateES(i).ck) = dh(i, rs[i])
  BY AfterESFacts DEF StateES
<1> QED
  BY <1>1, <1>2, <1>3

\* What WriteMessageA seals is new and marked.
LEMMA SealedA ==
    ASSUME NInv, ~HasKey(snd), NEW i \in Initiators, WriteMessageA(i)
    PROVE  HandSealed' /\ HandNonces'
<1> DEFINE es == StateES(i)
           mx == StateSS(i)
           c0 == StaticA(i)
           d0 == PayloadA(i)
<1>1. i \in States /\ IsState(ss[i]) /\ Domains /\ Transcripts /\ HandSealed
  BY Roles DEF NInv, HInv, Transcripts
<1>2. /\ Continues(i) /\ ss'[i].ck = mx.ck /\ sealed' = sealed \cup {c0, d0} /\ snd' = snd
  BY <1>1, WroteA
<1>3. Grown(ss[i], es) /\ es.cs.key = Hkdf(es.ck, 2) /\ Final(es.ck) = dh(i, rs[i])
  BY <1>1, StateESFacts
<1>4. /\ Grown(ss[i], mx) /\ mx.cs.key = Hkdf(mx.ck, 2) /\ mx.cs.nonce = 0
      /\ Len(mx.ck) = Len(es.ck) + 1
      /\ mx.ck[Len(es.ck)] = dh(i, rs[i]) /\ mx.ck[Len(es.ck) + 1] = dh(s[i], rs[i])
  BY <1>1, AfterSSFacts DEF StateSS, StateES
<1>5. c0.key = es.cs.key /\ d0.key = mx.cs.key
  <2>1. \A st, plain : Ciphertext(st, plain).key = st.cs.key
    BY DEF Ciphertext, EncryptWithAd, Sealed
  <2> QED
    BY <2>1 DEF StaticA, PayloadA
<1> HIDE DEF es, mx, c0, d0
<1>6. /\ IsSeq(es.ck) /\ Len(es.ck) \in Nat /\ Len(es.ck) > Len(ss[i].ck) /\ Len(ss[i].ck) \in Nat
      /\ IsSeq(mx.ck) /\ Len(mx.ck) \in Nat /\ Len(mx.ck) > Len(ss[i].ck)
  BY <1>3, <1>4 DEF Grown, Continued
<1>7. Mark(i, es.ck, 2)
  BY <1>3, <1>6 DEF Mark, Final
<1>8. Mark(i, mx.ck, 2)
  <2>1. Len(mx.ck) - 1 = Len(es.ck) /\ Len(mx.ck) >= 2
    BY <1>4, <1>6
  <2> QED
    BY <2>1, <1>4 DEF Mark
<1>9. /\ c0.key.origin[1] = es.ck /\ c0.key.origin[2] = 2
      /\ d0.key.origin[1] = mx.ck /\ d0.key.origin[2] = 2
  BY <1>3, <1>4, <1>5, HkdfOrigin
<1>10. HandSealed'
  <2>1. \A c \in {c0, d0} : SealedBy(i, c)'
    <3>1. Len(es.ck) <= Len(ss'[i].ck) /\ Len(mx.ck) <= Len(ss'[i].ck)
      BY <1>2, <1>4, <1>6
    <3> QED
      BY <3>1, <1>6, <1>7, <1>8, <1>9 DEF SealedBy, Mark
  <2>2. \A c \in sealed : \E y \in States : SealedBy(y, c)'
    BY <1>1, <1>2, StillSealed
  <2>3. \A c \in sealed' : \E y \in States : SealedBy(y, c)'
    BY <1>1, <1>2, <2>1, <2>2
  <2> QED
    BY <2>3 DEF HandSealed
<1>11. c0.key # d0.key
  BY <1>4, <1>6, <1>9
<1>12. \A c \in sealed : c.key # c0.key /\ c.key # d0.key
  BY <1>1, <1>3, <1>4, <1>5, <1>6, <1>7, <1>8, FreshKey
<1>13. HandNonces'
  BY <1>2, <1>11, <1>12 DEF NInv, HandNonces
<1> QED
  BY <1>10, <1>13

\* So is what WriteMessageB seals.
LEMMA SealedByB ==
    ASSUME NInv, ~HasKey(snd), NEW r \in Responders, WriteMessageB(r)
    PROVE  HandSealed' /\ HandNonces'
<1> DEFINE b == StateB(r)
           c0 == PayloadB(r)
<1>1. r \in States /\ IsState(ss[r]) /\ Domains /\ Transcripts /\ HandSealed
  BY Roles DEF NInv, HInv, Transcripts
<1>2. Continues(r) /\ ss'[r].ck = b.ck /\ sealed' = sealed \cup {c0} /\ snd' = snd
  BY <1>1, WroteB
<1>3. /\ Grown(ss[r], b)
      /\ MixedB(r, r, dh(r, re[r]), dh(r, rs[r]), b.h, b.ck, b.cs.key)
  BY <1>1, BeforePayloadFacts DEF StateB
<1>4. c0.key = b.cs.key
  BY IsSealed DEF PayloadB, Sealed
<1> HIDE DEF b, c0
<1>5. IsSeq(b.ck) /\ Len(b.ck) \in Nat /\ Len(b.ck) > Len(ss[r].ck)
  BY <1>3 DEF Grown, Continued
<1>6. PICK n \in {2, 3} : c0.key = Hkdf(b.ck, n) /\ Mark(r, b.ck, n)
  <2>1. CASE hasPSK(r)
    BY <1>3, <1>4, <1>5, <2>1 DEF MixedB, Mark
  <2>2. CASE ~hasPSK(r)
    BY <1>3, <1>4, <1>5, <2>2 DEF MixedB, Mark
  <2> QED
    BY <2>1, <2>2
<1>7. c0.key.origin[1] = b.ck /\ c0.key.origin[2] = n
  BY <1>6, HkdfOrigin
<1>8. HandSealed'
  <2>1. \A c \in {c0} : SealedBy(r, c)'
    <3>1. Len(b.ck) <= Len(ss'[r].ck)
      BY <1>2, <1>5
    <3> QED
      BY <3>1, <1>5, <1>6, <1>7 DEF SealedBy, Mark
  <2>2. \A c \in sealed : \E y \in States : SealedBy(y, c)'
    BY <1>1, <1>2, StillSealed
  <2>3. \A c \in sealed' : \E y \in States : SealedBy(y, c)'
    BY <1>1, <1>2, <2>1, <2>2
  <2> QED
    BY <2>3 DEF HandSealed
<1>9. \A c \in sealed : c.key # c0.key
  BY <1>1, <1>5, <1>6, FreshKey
<1>10. HandNonces'
  BY <1>2, <1>9 DEF NInv, HandNonces
<1> QED
  BY <1>8, <1>10

\* A call that seals nothing.
LEMMA SealedNothing ==
    ASSUME NInv, ~HasKey(snd), NEW x \in States, Continues(x), UNCHANGED tvars
    PROVE  HandSealed' /\ HandNonces'
<1>1. sealed' = sealed
  BY DEF tvars
<1>2. \A c \in sealed : \E y \in States : SealedBy(y, c)'
  BY StillSealed DEF NInv, HInv
<1> QED
  BY <1>1, <1>2 DEF NInv, HandSealed, HandNonces

\* A handshake call keeps what concerns the traffic, which has not started.
LEMMA QuietTraffic ==
    ASSUME NInv, ~HasKey(snd), UNCHANGED <<snd, rcv, sent, got>>, sealed \subseteq sealed'
    PROVE  TInv' /\ SameOrigin' /\ Matched'
<1>1. TInv'
  BY TUnchanged DEF NInv
<1> QED
  BY <1>1 DEF SameOrigin, Matched, HasKey

\* Handshake calls keep the invariant.
LEMMA CallInv ==
    ASSUME NInv, Handshaking,
           \/ \E i \in Initiators : WriteMessageA(i)
           \/ \E r \in Responders, m \in DeliveredA : ReadMessageA(r, m)
           \/ \E r \in Responders : WriteMessageB(r)
           \/ \E i \in Initiators, m \in DeliveredB : ReadMessageB(i, m)
           \/ \E x \in States : ReadLowOrder(x)
           \/ \E r \in Responders : AnswerLowOrder(r)
    PROVE  NInv'
<1> USE DEF Handshaking
<1>1. HInv /\ Domains /\ Transcripts
  BY DEF NInv, HInv
<1>2. ASSUME NEW i \in Initiators, WriteMessageA(i) PROVE NInv'
  <2>1. UNCHANGED <<snd, rcv, sent, got>> /\ sealed \subseteq sealed'
    BY <1>1, <1>2, WroteA
  <2> QED
    BY <1>1, <1>2, <2>1, WriteAInv, SealedA, QuietTraffic DEF NInv
<1>3. ASSUME NEW r \in Responders, NEW m \in DeliveredA, ReadMessageA(r, m) PROVE NInv'
  <2>1. UNCHANGED tvars /\ Continues(r) /\ r \in States
    BY <1>1, <1>3, ReadA, Roles
  <2>2. UNCHANGED <<snd, rcv, sent, got>> /\ sealed \subseteq sealed'
    BY <2>1 DEF tvars
  <2> QED
    BY <1>1, <1>3, <2>1, <2>2, ReadAInv, SealedNothing, QuietTraffic DEF NInv
<1>4. ASSUME NEW r \in Responders, WriteMessageB(r) PROVE NInv'
  <2>1. UNCHANGED <<snd, rcv, sent, got>> /\ sealed \subseteq sealed'
    BY <1>1, <1>4, WroteB
  <2> QED
    BY <1>1, <1>4, <2>1, WriteBInv, SealedByB, QuietTraffic DEF NInv
<1>5. ASSUME NEW i \in Initiators, NEW m \in DeliveredB, ReadMessageB(i, m) PROVE NInv'
  <2>1. UNCHANGED tvars /\ Continues(i) /\ i \in States
    BY <1>1, <1>5, ReadB, Roles
  <2>2. UNCHANGED <<snd, rcv, sent, got>> /\ sealed \subseteq sealed'
    BY <2>1 DEF tvars
  <2> QED
    BY <1>1, <1>5, <2>1, <2>2, ReadBInv, SealedNothing, QuietTraffic DEF NInv
<1>6. ASSUME NEW x \in States, ReadLowOrder(x) PROVE NInv'
  <2>1. UNCHANGED tvars /\ Continues(x)
    BY <1>1, <1>6, MixedOnly DEF ReadLowOrder, Returned
  <2>2. UNCHANGED <<snd, rcv, sent, got>> /\ sealed \subseteq sealed'
    BY <2>1 DEF tvars
  <2> QED
    BY <1>1, <1>6, <2>1, <2>2, ReadLowOrderInv, SealedNothing, QuietTraffic DEF NInv
<1>7. ASSUME NEW r \in Responders, AnswerLowOrder(r) PROVE NInv'
  <2>1. UNCHANGED tvars /\ Continues(r) /\ r \in States
    BY <1>1, <1>7, MixedOnly, Roles DEF AnswerLowOrder
  <2>2. UNCHANGED <<snd, rcv, sent, got>> /\ sealed \subseteq sealed'
    BY <2>1 DEF tvars
  <2> QED
    BY <1>1, <1>7, <2>1, <2>2, AnswerLowOrderInv, SealedNothing, QuietTraffic DEF NInv
<1> QED
  BY <1>2, <1>3, <1>4, <1>5, <1>6, <1>7

-----------------------------------------------------------------------------
(* The traffic after the handshake. *)

\* StartTraffic keeps the invariant: one transcript has one chaining key, and nothing
\* was sealed yet under the first block Split derives from it.
LEMMA StartInv ==
    ASSUME NInv, NEW x \in accepts, NEW a \in answers, StartTraffic(x, a)
    PROVE  NInv'
<1> DEFINE q == Append(x.ss.ck, Nil)
<1>1. /\ x.by \in Initiators /\ Completed(x.ss) /\ a.by \in Responders /\ Completed(a.ss)
      /\ a.ss.h = x.ss.h
  BY DEF NInv, HInv, Complete, StartTraffic
<1>2. a.ss.ck = x.ss.ck
  BY <1>1 DEF Completed
<1>3. Transport(x.by, x.ss).send = Hkdf(q, 1)
  BY <1>1 DEF Transport, Split, Block, Hkdf
<1>4. Transport(a.by, a.ss).receive = Hkdf(q, 1)
  BY <1>1, <1>2, Roles DEF Transport, Split, Block, Hkdf
<1>5. Open(Hkdf(q, 1), Hkdf(q, 1)) /\ UNCHANGED hvars
  BY <1>3, <1>4 DEF StartTraffic
<1> HIDE DEF q
<1> DEFINE o == <<q, 1>>
<1>6. Hkdf(q, 1) = Key(o) /\ o[2] = 1 /\ Key(o).origin = o
  BY DEF Hkdf, Key
<1> HIDE DEF o
<1>7. Open(Key(o), Key(o)) /\ ~HasKey(snd)
  BY <1>5, <1>6 DEF Open
<1>8. \A c \in sealed : \E y \in States : SealedBy(y, c)
  BY <1>7 DEF NInv, HandSealed
<1>9. \A c \in sealed : c.key.origin \notin {o, o}
  BY <1>6, <1>8, NotSplit
<1>10. TInv' /\ HasKey(snd')
  BY <1>7, <1>9, OpenInv DEF NInv
<1>11. HInv'
  BY <1>5, HUnchanged DEF NInv
<1>12. /\ snd' = [key |-> Key(o), nonce |-> 0] /\ rcv' = [key |-> Key(o), nonce |-> 0]
       /\ sent' = <<>> /\ got' = <<>> /\ sealed' = sealed
  BY <1>7 DEF Open, InitializeKey, NInv, TInv, Opened
<1>13. SameOrigin'
  BY <1>6, <1>12 DEF SameOrigin
<1>14. Matched'
  BY <1>12 DEF Matched
<1>15. HandSealed'
  BY <1>5, <1>8, <1>12 DEF HandSealed, SealedBy, hvars
<1>16. HandNonces'
  BY <1>12 DEF NInv, HandNonces
<1> QED
  BY <1>10, <1>11, <1>13, <1>14, <1>15, <1>16 DEF NInv

\* What a traffic step seals under the key of an end.
LEMMA SealedInTraffic ==
    ASSUME NInv, HasKey(snd), UNCHANGED hvars, HasKey(snd'),
           snd'.key.origin = snd.key.origin, rcv'.key.origin = rcv.key.origin,
           \A c \in sealed' \ sealed : c.key.origin = snd.key.origin
    PROVE  HandSealed' /\ HandNonces' /\ SameOrigin' /\ HInv'
<1>1. Ends' = Ends
  BY SameEnds
<1>2. snd.key.origin \in Ends /\ rcv.key.origin = snd.key.origin /\ snd.key.origin[2] = 1
  BY DEF Ends, NInv, SameOrigin
<1>3. HandSealed'
  <2>1. ss' = ss
    BY DEF hvars
  <2>2. \A c \in sealed' : c.key.origin \in Ends \/ \E y \in States : SealedBy(y, c)
    BY <1>2 DEF NInv, HandSealed
  <2> QED
    BY <1>1, <2>1, <2>2 DEF HandSealed, SealedBy
<1>4. HandNonces'
  <2> SUFFICES ASSUME NEW c \in sealed', NEW d \in sealed', c.key.origin[2] # 1, c.key = d.key,
                      c.nonce = d.nonce
               PROVE  c = d
    BY DEF HandNonces
  <2>1. c \in sealed /\ d \in sealed
    BY <1>2
  <2> QED
    BY <2>1 DEF NInv, HandNonces
<1>5. SameOrigin'
  BY <1>2 DEF SameOrigin
<1> QED
  BY <1>3, <1>4, <1>5, HUnchanged DEF NInv

\* Sending keeps the invariant.
LEMMA SendNInv ==
    ASSUME NInv, Send, UNCHANGED hvars
    PROVE  NInv'
<1> DEFINE c == EncryptWithAd(snd, <<>>, Len(sent) + 1)
<1>1. /\ TInv' /\ HasKey(snd) /\ snd \in EndCiphers /\ sent \in Seq(Messages)
  BY SendInv DEF NInv, TInv, EndTypes, Send, NonceLeft
<1>2. /\ snd' = [snd EXCEPT !.nonce = @ + 1] /\ sent' = Append(sent, c) /\ rcv' = rcv
      /\ sealed' = sealed \cup {c} /\ got' = got
  BY DEF Send, Advanced
<1>3. c = Sealed(snd.key, snd.nonce, <<>>, Len(sent) + 1) /\ c.key = snd.key
  BY DEF EncryptWithAd, Sealed
<1> HIDE DEF c
<1>4. snd'.key = snd.key /\ snd'.nonce = snd.nonce + 1 /\ snd.nonce \in Nat
  BY <1>1, <1>2 DEF EndCiphers
<1>5. HandSealed' /\ HandNonces' /\ SameOrigin' /\ HInv'
  BY <1>1, <1>2, <1>3, <1>4, SealedInTraffic DEF HasKey
<1>6. Matched'
  <2>1. /\ Len(sent') = Len(sent) + 1 /\ Len(sent) \in Nat /\ sent'[Len(sent) + 1] = c
        /\ \A n \in 1 .. Len(sent) : sent'[n] = sent[n]
    BY <1>1, <1>2
  <2> SUFFICES ASSUME snd.key.gen = 0, rcv.key.gen = 0
               PROVE  /\ rcv.key = snd.key
                      /\ snd'.nonce = Len(sent') /\ rcv.nonce = Len(got) /\ rcv.nonce <= snd'.nonce
                      /\ \A n \in 1 .. Len(sent') : sent'[n] = Sealed(snd.key, n - 1, <<>>, n)
    BY <1>2, <1>4 DEF Matched
  <2>2. /\ rcv.key = snd.key
        /\ snd.nonce = Len(sent) /\ rcv.nonce = Len(got) /\ rcv.nonce <= snd.nonce
        /\ \A n \in 1 .. Len(sent) : sent[n] = Sealed(snd.key, n - 1, <<>>, n)
    BY <1>1 DEF NInv, Matched
  <2>3. rcv.nonce <= snd'.nonce
    <3>1. Len(got) \in Nat
      BY DEF NInv, TInv, EndTypes
    <3> QED
      BY <2>2, <1>4, <3>1
  <2>4. c = Sealed(snd.key, (Len(sent) + 1) - 1, <<>>, Len(sent) + 1)
    BY <1>3, <2>1, <2>2
  <2>5. \A n \in 1 .. Len(sent') : sent'[n] = Sealed(snd.key, n - 1, <<>>, n)
    BY <2>1, <2>2, <2>4
  <2> QED
    BY <1>4, <2>1, <2>2, <2>3, <2>5
<1> QED
  BY <1>1, <1>5, <1>6 DEF NInv

\* Accepting a message keeps the invariant.
LEMMA ReceiveNInv ==
    ASSUME NInv, NEW m \in DOMAIN sent, Receive(m), UNCHANGED hvars
    PROVE  NInv'
<1>1. TInv' /\ HasKey(snd) /\ rcv \in EndCiphers /\ got \in Seq(Nat) /\ sent \in Seq(Messages)
  BY ReceiveInv DEF NInv, TInv, EndTypes, Opened, Receive, DecryptWithAd, NonceLeft
<1>2. /\ rcv' = [rcv EXCEPT !.nonce = @ + 1] /\ got' = Append(got, sent[m].plain)
      /\ snd' = snd /\ sent' = sent /\ sealed' = sealed
  BY DEF Receive, Advanced
<1>3. rcv'.key = rcv.key /\ rcv'.nonce = rcv.nonce + 1 /\ rcv.nonce \in Nat
  BY <1>1, <1>2 DEF EndCiphers
<1>4. HandSealed' /\ HandNonces' /\ SameOrigin' /\ HInv'
  BY <1>1, <1>2, <1>3, SealedInTraffic
<1>5. Matched'
  <2>1. Len(got') = Len(got) + 1 /\ Len(got) \in Nat
    <3>1. sent[m].plain \in Nat
      BY SentTyped DEF NInv, TInv, Messages
    <3> QED
      BY <1>1, <1>2, <3>1
  <2>2. sent[m].nonce = rcv.nonce
    BY DEF Receive, DecryptWithAd, EncryptWithAd, Sealed
  <2> SUFFICES ASSUME snd.key.gen = 0, rcv.key.gen = 0
               PROVE  /\ rcv.key = snd.key
                      /\ snd.nonce = Len(sent) /\ rcv'.nonce = Len(got') /\ rcv'.nonce <= snd.nonce
                      /\ \A n \in 1 .. Len(sent) : sent[n] = Sealed(snd.key, n - 1, <<>>, n)
    BY <1>2, <1>3 DEF Matched
  <2>3. /\ rcv.key = snd.key
        /\ snd.nonce = Len(sent) /\ rcv.nonce = Len(got) /\ rcv.nonce <= snd.nonce
        /\ \A n \in 1 .. Len(sent) : sent[n] = Sealed(snd.key, n - 1, <<>>, n)
    BY <1>1 DEF NInv, Matched
  <2>4. m \in 1 .. Len(sent) /\ Len(sent) \in Nat
    BY <1>1
  <2>5. sent[m].nonce = m - 1
    <3>1. sent[m] = Sealed(snd.key, m - 1, <<>>, m)
      BY <2>3, <2>4
    <3> QED
      BY <3>1 DEF Sealed
  <2> QED
    BY <1>3, <2>1, <2>2, <2>3, <2>4, <2>5
<1> QED
  BY <1>1, <1>4, <1>5 DEF NInv

\* So does a rekey of the sender.
LEMMA RekeySenderNInv ==
    ASSUME NInv, RekeySender, UNCHANGED hvars
    PROVE  NInv'
<1>1. TInv' /\ HasKey(snd) /\ snd \in EndCiphers
  BY RekeySenderInv DEF NInv, TInv, EndTypes, RekeySender
<1>2. /\ snd' = [key |-> [snd.key EXCEPT !.gen = @ + 1], nonce |-> 0]
      /\ sealed' = sealed \cup {Sealed(snd.key, MaxNonce, <<>>, Zeros)}
      /\ rcv' = rcv /\ sent' = sent /\ got' = got
  BY DEF RekeySender, Rekeyed, InitializeKey, RekeyMaterial
<1>3. snd'.key.origin = snd.key.origin /\ snd'.key.gen = snd.key.gen + 1 /\ snd.key.gen \in Nat
  BY <1>1, <1>2 DEF EndCiphers, EndKeys
<1>4. HasKey(snd')
  BY <1>3, DerivedKey DEF HasKey
<1>5. \A c \in sealed' \ sealed : c.key.origin = snd.key.origin
  BY <1>2 DEF Sealed
<1>6. HandSealed' /\ HandNonces' /\ SameOrigin' /\ HInv'
  BY <1>1, <1>2, <1>3, <1>4, <1>5, SealedInTraffic
<1>7. Matched'
  BY <1>3 DEF Matched
<1> QED
  BY <1>1, <1>6, <1>7 DEF NInv

\* And of the receiver.
LEMMA RekeyReceiverNInv ==
    ASSUME NInv, RekeyReceiver, UNCHANGED hvars
    PROVE  NInv'
<1>1. TInv' /\ HasKey(snd) /\ rcv \in EndCiphers
  BY RekeyReceiverInv DEF NInv, TInv, EndTypes, Opened, RekeyReceiver
<1>2. /\ rcv' = [key |-> [rcv.key EXCEPT !.gen = @ + 1], nonce |-> 0]
      /\ sealed' = sealed \cup {Sealed(rcv.key, MaxNonce, <<>>, Zeros)}
      /\ snd' = snd /\ sent' = sent /\ got' = got
  BY DEF RekeyReceiver, Rekeyed, InitializeKey, RekeyMaterial
<1>3. rcv'.key.origin = rcv.key.origin /\ rcv'.key.gen = rcv.key.gen + 1 /\ rcv.key.gen \in Nat
  BY <1>1, <1>2 DEF EndCiphers, EndKeys
<1>4. rcv.key.origin = snd.key.origin
  BY <1>1 DEF NInv, SameOrigin
<1>5. \A c \in sealed' \ sealed : c.key.origin = snd.key.origin
  BY <1>2, <1>4 DEF Sealed
<1>6. HandSealed' /\ HandNonces' /\ SameOrigin' /\ HInv'
  BY <1>1, <1>2, <1>3, <1>5, SealedInTraffic
<1>7. Matched'
  BY <1>3 DEF Matched
<1> QED
  BY <1>1, <1>6, <1>7 DEF NInv

\* The invariant of handshake and traffic holds in every reachable state.
LEMMA NInvariant == Spec => []NInv
<1>1. Init => NInv
  <2> SUFFICES ASSUME Init PROVE NInv
    OBVIOUS
  <2>1. TInv /\ HInv
    BY TInitInv, HInitInv DEF Init
  <2>2. ~HasKey(snd) /\ sealed = {}
    BY DEF Init, TInit, HasKey, Unkeyed
  <2> QED
    BY <2>1, <2>2 DEF NInv, HandSealed, HandNonces, SameOrigin, Matched
<1>2. NInv /\ UNCHANGED vars => NInv'
  <2> SUFFICES ASSUME NInv, UNCHANGED vars PROVE NInv'
    OBVIOUS
  <2>1. UNCHANGED hvars /\ UNCHANGED <<snd, rcv, sent, got, sealed>> /\ ss' = ss
    BY DEF vars, tvars, hvars
  <2>2. TInv' /\ HInv'
    BY <2>1, TUnchanged, HUnchanged DEF NInv
  <2> QED
    BY <2>1, <2>2 DEF NInv, HandSealed, SealedBy, HandNonces, SameOrigin, Matched, HasKey, Ends
<1>3. NInv /\ [Next]_vars => NInv'
  BY <1>2, CallInv, StartInv, SendNInv, ReceiveNInv, RekeySenderNInv, RekeyReceiverNInv
     DEF Next
<1> QED
  BY <1>1, <1>3, PTL DEF Spec

-----------------------------------------------------------------------------
\* ReadMessageB: an initiator that accepts an answer agrees on the transcript, on both
\* keys crosswise and on the pre-shared key with the responder it dialled, which expected
\* it and had accepted its message A: for any number of handshake states and of calls,
\* whatever the network loses, repeats, damages or misdelivers.
THEOREM NoiseAgreement == Spec => []Agreement
<1>1. NInv => Agreement
  BY DEF NInv, HInv
<1> QED
  BY <1>1, NInvariant, PTL

\* MixKey, EncryptWithAd, Rekey: no key of the handshake or of the traffic seals two
\* things under one nonce, also when calls are repeated after they failed.
THEOREM NoiseNonceOnce == Spec => []NonceOnce
<1>1. NInv => NonceOnce
  <2> SUFFICES ASSUME NInv, NEW c \in sealed, NEW d \in sealed, c.key = d.key, c.nonce = d.nonce
               PROVE  c = d
    BY DEF NonceOnce
  <2>1. CASE HasKey(snd) /\ c.key.origin \in Ends
    BY <2>1, TrafficNonceOnce DEF NInv
  <2>2. CASE \E x \in States : SealedBy(x, c)
    <3>1. c.key.origin[2] # 1
      BY <2>2, NotSplit
    <3> QED
      BY <3>1 DEF NInv, HandNonces
  <2> QED
    BY <2>1, <2>2 DEF NInv, HandSealed
<1> QED
  BY <1>1, NInvariant, PTL

\* DecryptWithAd, after any handshake: messages are accepted once and in the order they
\* were sent.
THEOREM NoiseInOrder == Spec => []InOrder
<1>1. NInv => InOrder
  BY DEF NInv, TInv
<1> QED
  BY <1>1, NInvariant, PTL

\* DecryptWithAd, after any handshake: under one key nothing before an accepted message
\* is skipped.
THEOREM NoiseNoGap == Spec => []NoGap
<1>1. NInv => NoGap
  BY DEF NInv, TInv
<1> QED
  BY <1>1, NInvariant, PTL

\* Transport, DecryptWithAd: after any handshake whose transcripts agree, the next
\* message opens as long as neither end has rekeyed.
THEOREM NoiseNextOpens == Spec => []NextOpens
<1>1. NInv => NextOpens
  <2> SUFFICES ASSUME NInv, Len(got) < Len(sent), snd.key.gen = 0, rcv.key.gen = 0
               PROVE  DecryptWithAd(rcv, <<>>, sent[Len(got) + 1])
    BY DEF NextOpens
  <2> DEFINE n == Len(got) + 1
  <2>1. sent \in Seq(Messages) /\ got \in Seq(Nat)
    BY DEF NInv, TInv, EndTypes
  <2>2. n \in DOMAIN sent /\ n \in 1 .. Len(sent) /\ n - 1 = Len(got) /\ sent # <<>>
    BY <2>1
  <2> HIDE DEF n
  <2>3. HasKey(snd) /\ HasKey(rcv)
    BY <2>2 DEF NInv, TInv, Opened
  <2>4. rcv.key = snd.key /\ rcv.nonce = n - 1 /\ sent[n] = Sealed(snd.key, n - 1, <<>>, n)
    BY <2>2, <2>3 DEF NInv, Matched
  <2>5. sent[n].nonce # MaxNonce
    BY <2>2, SentTyped, CipherAssumption DEF NInv, TInv, SentBehind
  <2>6. NonceLeft(rcv)
    BY <2>3, <2>4, <2>5 DEF NonceLeft, Sealed
  <2>7. sent[n] = EncryptWithAd(rcv, <<>>, sent[n].plain)
    BY <2>4 DEF EncryptWithAd, Sealed
  <2> QED
    BY <2>6, <2>7 DEF DecryptWithAd, n
<1> QED
  BY <1>1, NInvariant, PTL

=============================================================================
