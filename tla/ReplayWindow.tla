---------------------------- MODULE ReplayWindow ----------------------------
(***************************************************************************)
(* The sliding bitmap of pkg/noise/replay.go.  A word of the bitmap is the *)
(* set of its bits that are 1; the code has 32 words of 64 bits.  Accept   *)
(* runs under the mutex, so it is one action.                              *)
(***************************************************************************)
EXTENDS Naturals

CONSTANTS
    replayWindowWords,  \* words of the bitmap
    WordBits,           \* bits of a word
    MaxCounter          \* the largest counter, MaxUint64 in the code

ASSUME ReplayWindowAssumption ==
    /\ replayWindowWords \in Nat \ {0}
    /\ WordBits \in Nat \ {0}
    /\ MaxCounter \in Nat

replayWindowBits == replayWindowWords * WordBits
WordIndices == 0 .. replayWindowWords - 1
Bits == 0 .. WordBits - 1
Counters == 0 .. MaxCounter

VARIABLES
    highestSeen,
    initialized,
    bitmap,
    accepted,  \* history: the counters accepted so far
    answer     \* the last counter offered and what Accept returned

vars == <<highestSeen, initialized, bitmap, accepted, answer>>

Empty == [i \in WordIndices |-> {}]

Init ==
    /\ highestSeen = 0
    /\ initialized = FALSE
    /\ bitmap = Empty
    /\ accepted = {}
    /\ answer = <<>>

hasDelta(bm, delta) == (delta % WordBits) \in bm[delta \div WordBits]

markDelta(bm, delta) == [bm EXCEPT ![delta \div WordBits] = @ \cup {delta % WordBits}]

\* The bits of a word shifted towards the high end, and those a shift pushes out
\* of it, which the next word takes up.
ShiftedLeft(word, k) == {b \in Bits : b >= k /\ b - k \in word}
Carry(word, k) == {b \in Bits : b < k /\ b + WordBits - k \in word}

\* Mutant: the bit shift drops what it pushes out of a word.
BitShift_NoCarry(bm, k) == [i \in WordIndices |-> ShiftedLeft(bm[i], k)]

BitShift(bm, k) ==
    [i \in WordIndices |->
        ShiftedLeft(bm[i], k) \cup (IF i > 0 THEN Carry(bm[i - 1], k) ELSE {})]

\* Mutant: the words that move in keep their old value.
WordShift_NoClear(bm, k) ==
    [i \in WordIndices |-> IF i >= k THEN bm[i - k] ELSE bm[i]]

\* The loops run from the last word down, so each word is read before it is
\* overwritten.
WordShift(bm, k) == [i \in WordIndices |-> IF i >= k THEN bm[i - k] ELSE {}]

advance(bm, delta) ==
    IF delta >= replayWindowBits THEN Empty
    ELSE BitShift(WordShift(bm, delta \div WordBits), delta % WordBits)

AcceptFirst(c) ==
    /\ ~initialized
    /\ initialized' = TRUE
    /\ highestSeen' = c
    /\ bitmap' = markDelta(bitmap, 0)
    /\ accepted' = accepted \cup {c}
    /\ answer' = <<c, TRUE>>

AcceptAhead(c) ==
    /\ initialized
    /\ c > highestSeen
    /\ highestSeen' = c
    /\ bitmap' = markDelta(advance(bitmap, c - highestSeen), 0)
    /\ accepted' = accepted \cup {c}
    /\ answer' = <<c, TRUE>>
    /\ UNCHANGED initialized

InWindow(delta) == delta < replayWindowBits

AcceptBehind(c) ==
    LET delta == highestSeen - c
    IN  /\ initialized
        /\ c <= highestSeen
        /\ InWindow(delta) /\ ~hasDelta(bitmap, delta)
        /\ bitmap' = markDelta(bitmap, delta)
        /\ accepted' = accepted \cup {c}
        /\ answer' = <<c, TRUE>>
        /\ UNCHANGED <<highestSeen, initialized>>

Refuse(c) ==
    LET delta == highestSeen - c
    IN  /\ initialized
        /\ c <= highestSeen
        /\ InWindow(delta) => hasDelta(bitmap, delta)
        /\ answer' = <<c, FALSE>>
        /\ UNCHANGED <<highestSeen, initialized, bitmap, accepted>>

Next ==
    \E c \in Counters : AcceptFirst(c) \/ AcceptAhead(c) \/ AcceptBehind(c) \/ Refuse(c)

Spec == Init /\ [][Next]_vars

-----------------------------------------------------------------------------
(* Properties *)

\* The bitmap remembers exactly the accepted counters of the window, across every
\* combination of word shift, bit shift and carry: bit delta stands for the
\* counter delta below the highest one.
BitmapExact ==
    initialized =>
        \A delta \in 0 .. replayWindowBits - 1 :
            hasDelta(bitmap, delta) <=> (highestSeen >= delta /\ highestSeen - delta \in accepted)

\* Accept answers as the abstract filter does: no counter is accepted twice, and
\* none of the window that was not accepted is refused.
Filter == INSTANCE ReplayFilter WITH Window <- replayWindowBits
ImplementsFilter == Filter!Spec
=============================================================================
