------------------------------- MODULE Noise -------------------------------
(***************************************************************************)
(* The IK handshake of pkg/noise (handshake_state.go, symmetric_state.go)  *)
(* between any number of handshake states, over a network that loses,      *)
(* repeats, misdelivers and damages messages, and the traffic of two ends  *)
(* that have completed it (NoiseTransport).                                *)
(*                                                                         *)
(* The handshake hash h and the chaining key ck are the sequences of what  *)
(* was mixed into them; a Diffie-Hellman result is the set of the two keys *)
(* it is computed from, which is the same set at both ends.  A handshake   *)
(* state is named by its ephemeral key, a fresh one per state.  The code   *)
(* keeps no phase: any call its guards let through may come at any time.   *)
(***************************************************************************)
EXTENDS NoiseTransport

CONSTANTS
    Initiators, Responders,  \* handshake states of either role, and their ephemerals
    s,             \* handshake state -> its static key
    rs,            \* handshake state -> the remote static key it was given
    psk,           \* handshake state -> its pre-shared key, or NoPSK
    NoPSK, Nil, Damaged,
    LowOrder,      \* a point of low order, with which dh is an error
    MaxCalls       \* bound: read and write calls on handshake states

States == Initiators \cup Responders

ASSUME NoiseAssumption ==
    /\ Initiators \cap Responders = {}
    /\ \A x \in States : s[x] \notin States /\ rs[x] \notin States  \* no static is an ephemeral
    /\ {Damaged, LowOrder} \cap States = {}
    /\ \A x \in States : rs[x] # LowOrder
    /\ LowOrder # Nil
    /\ MaxCalls \in Nat

VARIABLES
    ss,       \* handshake state -> SymmetricState
    re,       \* handshake state -> remote ephemeral, Nil before one was read (hasRE)
    hasE,     \* handshake state -> an ephemeral was generated
    mailA,    \* every message A written
    mailB,    \* every message B written
    calls,    \* calls so far
    result,   \* handshake state -> what its last read call returned
    answers,  \* history: each WriteMessageB, by whom and with which state after it
    accepts   \* history: each ReadMessageB that returned a payload, likewise

hvars == <<ss, re, hasE, mailA, mailB, calls, result, answers, accepts>>
vars == <<hvars, tvars>>

-----------------------------------------------------------------------------
(* SymmetricState.  hkdfMaterial(ck, input, parts) yields blocks that only  *)
(* depend on ck, the input and the block's number; block 1 is the next ck.  *)

Block(ck, input, n) == Key(<<Append(ck, input), n>>)

InitializeSymmetric == [h |-> <<>>, ck |-> <<>>, cs |-> Unkeyed]

MixHash(st, data) == [st EXCEPT !.h = Append(@, data)]

MixKey(st, input) ==
    [h |-> st.h, ck |-> Append(st.ck, input),
     cs |-> InitializeKey(st.cs, Block(st.ck, input, 2))]

MixKeyAndHash(st, input) ==
    [h |-> MixHash(st, Block(st.ck, input, 2)).h, ck |-> Append(st.ck, input),
     cs |-> InitializeKey(st.cs, Block(st.ck, input, 3))]

\* The ciphertext of EncryptAndHash, the state after it, and the same for decryption.
Ciphertext(st, plain) == EncryptWithAd(st.cs, st.h, plain)
AndHash(st, c) == MixHash([st EXCEPT !.cs = Advanced(@)], c)
DecryptAndHash(st, c) == c # Damaged /\ DecryptWithAd(st.cs, st.h, c)

\* The two transport keys.
Split(st) == <<Block(st.ck, Nil, 1), Block(st.ck, Nil, 2)>>

-----------------------------------------------------------------------------
(* HandshakeState. *)

\* A public key as MixHash takes it; no ciphertext is one.
PublicKey(k) == [public |-> k]

dh(a, b) == {a, b}
hasPSK(x) == psk[x] # NoPSK

\* NewHandshakeState: the statics are mixed in the order initiator, responder.
Prologue(x) ==
    LET first == IF x \in Initiators THEN s[x] ELSE rs[x]
        second == IF x \in Initiators THEN rs[x] ELSE s[x]
    IN  MixHash(MixHash(InitializeSymmetric, PublicKey(first)), PublicKey(second))

HInit ==
    /\ ss = [x \in States |-> Prologue(x)]
    /\ re = [x \in States |-> Nil]
    /\ hasE = [x \in States |-> FALSE]
    /\ mailA = {}
    /\ mailB = {}
    /\ calls = 0
    /\ result = [x \in States |-> "none"]
    /\ answers = {}
    /\ accepts = {}

\* An ephemeral public key is mixed in, into the key too when there is a PSK.
MixEphemeral(x, st, e) ==
    LET mixed == MixHash(st, PublicKey(e))
    IN  IF hasPSK(x) THEN MixKey(mixed, e) ELSE mixed

\* Mutant: the pre-shared key is not mixed.
mixPSK_Not(x, st) == st

mixPSK(x, st) == IF hasPSK(x) THEN MixKeyAndHash(st, psk[x]) ELSE st

Call ==
    /\ calls < MaxCalls
    /\ calls' = calls + 1

\* WriteMessageA: e, es, s, ss, payload; the payload is the writer's name.
WriteMessageA(i) ==
    LET es == MixKey(MixEphemeral(i, ss[i], i), dh(i, rs[i]))
        encryptedStatic == Ciphertext(es, s[i])
        mixed == MixKey(AndHash(es, encryptedStatic), dh(s[i], rs[i]))
        encryptedPayload == Ciphertext(mixed, i)
    IN  /\ Call
        /\ ss' = [ss EXCEPT ![i] = AndHash(mixed, encryptedPayload)]
        /\ hasE' = [hasE EXCEPT ![i] = TRUE]
        /\ mailA' = mailA \cup {[e |-> i, static |-> encryptedStatic, payload |-> encryptedPayload]}
        /\ sealed' = sealed \cup {encryptedStatic, encryptedPayload}
        /\ UNCHANGED <<re, mailB, result, answers, accepts, snd, rcv, sent, got>>

\* A read call: the state it leaves and what it returned.  Nothing is undone
\* when it returns an error.
Returned(x, st, ok) ==
    /\ ss' = [ss EXCEPT ![x] = st]
    /\ result' = [result EXCEPT ![x] = IF ok THEN "accepted" ELSE "failed"]

\* ReadMessageA of message m, up to the step that fails.
ReadMessageA(r, m) ==
    LET es == MixKey(MixEphemeral(r, ss[r], m.e), dh(s[r], m.e))
        known == AndHash(es, m.static)
        mixed == MixKey(known, dh(s[r], rs[r]))
    IN  /\ Call
        /\ re' = [re EXCEPT ![r] = m.e]
        /\ \/ ~DecryptAndHash(es, m.static) /\ Returned(r, es, FALSE)
           \/ /\ DecryptAndHash(es, m.static)
              /\ IF m.static.plain # rs[r]
                 THEN Returned(r, known, FALSE)
                 ELSE IF DecryptAndHash(mixed, m.payload)
                      THEN Returned(r, AndHash(mixed, m.payload), TRUE)
                      ELSE Returned(r, mixed, FALSE)
        /\ UNCHANGED <<hasE, mailA, mailB, answers, accepts, tvars>>

\* WriteMessageB: e, ee, se, [psk], payload.  Only hasRE is asked for, which a
\* failed ReadMessageA sets too.
WriteMessageB(r) ==
    LET ee == MixKey(MixEphemeral(r, ss[r], r), dh(r, re[r]))
        mixed == mixPSK(r, MixKey(ee, dh(r, rs[r])))
        encryptedPayload == Ciphertext(mixed, r)
        st == AndHash(mixed, encryptedPayload)
    IN  /\ re[r] \notin {Nil, LowOrder}
        /\ Call
        /\ ss' = [ss EXCEPT ![r] = st]
        /\ hasE' = [hasE EXCEPT ![r] = TRUE]
        /\ mailB' = mailB \cup {[e |-> r, payload |-> encryptedPayload]}
        /\ sealed' = sealed \cup {encryptedPayload}
        /\ answers' = answers \cup {[by |-> r, read |-> result[r], to |-> re[r], ss |-> st]}
        /\ UNCHANGED <<re, mailA, result, accepts, snd, rcv, sent, got>>

ReadMessageB(i, m) ==
    LET ee == MixKey(MixEphemeral(i, ss[i], m.e), dh(i, m.e))
        mixed == mixPSK(i, MixKey(ee, dh(s[i], m.e)))
        ok == DecryptAndHash(mixed, m.payload)
        st == IF ok THEN AndHash(mixed, m.payload) ELSE mixed
    IN  /\ hasE[i]
        /\ Call
        /\ re' = [re EXCEPT ![i] = m.e]
        /\ Returned(i, st, ok)
        /\ accepts' = IF ok THEN accepts \cup {[by |-> i, from |-> m.e, ss |-> st]} ELSE accepts
        /\ UNCHANGED <<hasE, mailA, mailB, answers, tvars>>

\* ReadMessageA and ReadMessageB when dh returns an error for the ephemeral, a point of low order:
\* it has been mixed, and nothing else happens.
ReadLowOrder(x) ==
    /\ IF x \in Responders THEN mailA # {} ELSE hasE[x] /\ mailB # {}
    /\ Call
    /\ re' = [re EXCEPT ![x] = LowOrder]
    /\ Returned(x, MixEphemeral(x, ss[x], LowOrder), FALSE)
    /\ UNCHANGED <<hasE, mailA, mailB, answers, accepts, tvars>>

\* WriteMessageB after that: hasRE is set, and dh ends it at ee.
AnswerLowOrder(r) ==
    /\ re[r] = LowOrder
    /\ Call
    /\ ss' = [ss EXCEPT ![r] = MixEphemeral(r, ss[r], r)]
    /\ hasE' = [hasE EXCEPT ![r] = TRUE]
    /\ UNCHANGED <<re, mailA, mailB, result, answers, accepts, tvars>>

\* Mutant: the responder does not swap the two ciphers.
Transport_Unswapped(x, st) == [send |-> Split(st)[1], receive |-> Split(st)[2]]

\* The send and the receive key of a handshake state.
Transport(x, st) ==
    IF x \in Initiators THEN [send |-> Split(st)[1], receive |-> Split(st)[2]]
                        ELSE [send |-> Split(st)[2], receive |-> Split(st)[1]]

-----------------------------------------------------------------------------
\* What the network can hand over: a message as written, or with one part damaged.  (One
\* whose ephemeral became a point of low order is ReadLowOrder's.)
Delivered(box) == box \cup {[m EXCEPT ![f] = Damaged] : m \in box, f \in {"e", "payload"}}
DeliveredA == Delivered(mailA) \cup {[m EXCEPT !.static = Damaged] : m \in mailA}
DeliveredB == Delivered(mailB)

Init == HInit /\ TInit

\* The initiator accepted message B and the responder it came from starts
\* receiving: both call Transport.
StartTraffic(x, a) ==
    /\ a.ss.h = x.ss.h
    /\ Open(Transport(x.by, x.ss).send, Transport(a.by, a.ss).receive)
    /\ UNCHANGED hvars

Handshaking == ~HasKey(snd)

Next ==
    \/ /\ Handshaking
       /\ \/ \E i \in Initiators : WriteMessageA(i)
          \/ \E r \in Responders, m \in DeliveredA : ReadMessageA(r, m)
          \/ \E r \in Responders : WriteMessageB(r)
          \/ \E i \in Initiators, m \in DeliveredB : ReadMessageB(i, m)
          \/ \E x \in States : ReadLowOrder(x)
          \/ \E r \in Responders : AnswerLowOrder(r)
          \/ \E x \in accepts, a \in answers : StartTraffic(x, a)
    \/ Send /\ UNCHANGED hvars
    \/ \E n \in DOMAIN sent : Receive(n) /\ UNCHANGED hvars
    \/ RekeySender /\ UNCHANGED hvars
    \/ RekeyReceiver /\ UNCHANGED hvars

Spec == Init /\ [][Next]_vars

-----------------------------------------------------------------------------
\* ReadMessageB: an initiator that accepts an answer shares its whole transcript,
\* both keys, crosswise, and the pre-shared key with a responder that holds the
\* static key it dialled, that expected this initiator, and that had itself
\* accepted this initiator's message A -- whatever was lost, repeated, damaged or
\* misdelivered, and whatever calls went before.
Agreement ==
    \A x \in accepts : \E a \in answers :
        /\ a.by = x.from /\ a.read = "accepted" /\ a.to = x.by
        /\ s[a.by] = rs[x.by] /\ rs[a.by] = s[x.by] /\ psk[a.by] = psk[x.by]
        /\ a.ss.h = x.ss.h
        /\ Transport(x.by, x.ss).send = Transport(a.by, a.ss).receive
        /\ Transport(x.by, x.ss).receive = Transport(a.by, a.ss).send

\* Traffic that starts after an agreed handshake can flow: while neither end has
\* rekeyed, the oldest message the receiver has not accepted opens at once.
NextOpens ==
    Len(got) < Len(sent) /\ snd.key.gen = 0 /\ rcv.key.gen = 0 =>
        DecryptWithAd(rcv, <<>>, sent[Len(got) + 1])
=============================================================================
