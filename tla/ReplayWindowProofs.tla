------------------------- MODULE ReplayWindowProofs -------------------------
(* Proofs about ReplayWindow, for any number and width of words.             *)
EXTENDS ReplayWindow, Integers, TLAPS

-----------------------------------------------------------------------------
(* Words and bits *)

\* Division with remainder, as delta / 64 and delta % 64 are used.
LEMMA Division ==
    ASSUME NEW w \in Nat \ {0}, NEW n \in Nat
    PROVE  /\ n \div w \in Nat
           /\ n % w \in 0 .. w - 1
           /\ n = w * (n \div w) + (n % w)
<1>1. n \div w \in Nat
  OBVIOUS
<1>2. n % w \in 0 .. w - 1
  OBVIOUS
<1>3. n = w * (n \div w) + (n % w)
  OBVIOUS
<1> QED
  BY <1>1, <1>2, <1>3

\* Quotient and remainder are the only ones there are.
LEMMA Quotient ==
    ASSUME NEW w \in Nat \ {0}, NEW q \in Nat, NEW r \in 0 .. w - 1
    PROVE  (w * q + r) \div w = q /\ (w * q + r) % w = r
OBVIOUS

\* A smaller quotient makes a number smaller by a word at least.
LEMMA LowerWord ==
    ASSUME NEW w \in Nat \ {0}, NEW a \in Nat, NEW b \in Nat, a < b
    PROVE  w * a + w <= w * b
OBVIOUS

Bitmaps == [WordIndices -> SUBSET Bits]
Deltas == 0 .. replayWindowBits - 1

\* The bit of a delta of the window is in the bitmap.
LEMMA InBitmap ==
    ASSUME NEW delta \in Deltas
    PROVE  delta \div WordBits \in WordIndices /\ delta % WordBits \in Bits
<1> DEFINE q == delta \div WordBits
           r == delta % WordBits
<1>1. delta \in Nat /\ WordBits \in Nat \ {0}
  BY ReplayWindowAssumption DEF Deltas
<1>2. q \in Nat /\ r \in 0 .. WordBits - 1 /\ delta = WordBits * q + r
  BY <1>1, Division
<1> HIDE DEF q, r
<1>3. replayWindowBits \in Nat /\ replayWindowBits = WordBits * replayWindowWords
  BY ReplayWindowAssumption DEF replayWindowBits
<1>4. CASE q >= replayWindowWords
  <2>1. WordBits * q >= WordBits * replayWindowWords
    BY <1>1, <1>2, <1>4, ReplayWindowAssumption
  <2>2. delta >= WordBits * q
    BY <1>1, <1>2
  <2> QED
    BY <1>2, <1>3, <2>1, <2>2, ReplayWindowAssumption DEF Deltas
<1> QED
  BY <1>2, <1>4, ReplayWindowAssumption DEF WordIndices, Bits, q, r

\* hasDelta of a delta given by its word and its bit.
LEMMA BitOfWord ==
    ASSUME NEW bm, NEW i \in Nat, NEW b \in Bits
    PROVE  hasDelta(bm, WordBits * i + b) <=> b \in bm[i]
BY Quotient, ReplayWindowAssumption DEF hasDelta, Bits

\* markDelta sets one bit and no other.
LEMMA Marked ==
    ASSUME NEW bm \in Bitmaps, NEW delta \in Deltas
    PROVE  /\ markDelta(bm, delta) \in Bitmaps
           /\ \A e \in Deltas :
                 hasDelta(markDelta(bm, delta), e) <=> e = delta \/ hasDelta(bm, e)
<1>1. delta \div WordBits \in WordIndices /\ delta % WordBits \in Bits
  BY InBitmap
<1>2. markDelta(bm, delta) \in Bitmaps
  BY <1>1 DEF markDelta, Bitmaps
<1>3. ASSUME NEW e \in Deltas
      PROVE  hasDelta(markDelta(bm, delta), e) <=> e = delta \/ hasDelta(bm, e)
  <2>1. e \div WordBits \in WordIndices /\ e % WordBits \in Bits
    BY InBitmap
  <2>2. /\ e = WordBits * (e \div WordBits) + (e % WordBits)
        /\ delta = WordBits * (delta \div WordBits) + (delta % WordBits)
    BY Division, ReplayWindowAssumption DEF Deltas
  <2>3. e \div WordBits = delta \div WordBits /\ e % WordBits = delta % WordBits => e = delta
    BY <2>2
  <2> QED
    BY <1>1, <2>1, <2>3 DEF hasDelta, markDelta, Bitmaps
<1> QED
  BY <1>2, <1>3

\* Both shifts of advance together move every bit by d, across the words.
LEMMA Shifted ==
    ASSUME NEW bm \in Bitmaps, NEW d \in Deltas, NEW e \in Deltas
    PROVE  hasDelta(BitShift(WordShift(bm, d \div WordBits), d % WordBits), e)
             <=> e >= d /\ hasDelta(bm, e - d)
<1> DEFINE W == WordBits
           k == d \div WordBits
           s == d % WordBits
           i == e \div WordBits
           b == e % WordBits
           ws == WordShift(bm, k)
           bs == BitShift(ws, s)
<1>1. k \in WordIndices /\ i \in WordIndices /\ s \in Bits /\ b \in Bits
  BY InBitmap
<1>2. d = W * k + s /\ e = W * i + b
  BY Division, ReplayWindowAssumption DEF Deltas
<1>3. W \in Nat \ {0} /\ k \in Nat /\ i \in Nat /\ s \in 0 .. W - 1 /\ b \in 0 .. W - 1
  BY <1>1, ReplayWindowAssumption DEF WordIndices, Bits
<1>4. W * k \in Nat /\ W * i \in Nat
  BY <1>3
<1>5. \A j \in WordIndices : ws[j] = IF j >= k THEN bm[j - k] ELSE {}
  BY DEF WordShift
<1>6. hasDelta(bs, e) <=>
        \/ b >= s /\ b - s \in ws[i]
        \/ i > 0 /\ b < s /\ b + W - s \in ws[i - 1]
  BY <1>1 DEF hasDelta, BitShift, ShiftedLeft, Carry
<1> HIDE DEF W, k, s, i, b, ws, bs
<1>7. CASE b >= s
  <2>1. hasDelta(bs, e) <=> i >= k /\ b - s \in bm[i - k]
    BY <1>1, <1>3, <1>5, <1>6, <1>7
  <2>2. CASE i >= k
    <3>1. i - k \in Nat /\ b - s \in Bits /\ W * (i - k) = W * i - W * k
      BY <1>3, <1>7, <2>2 DEF Bits, W
    <3>2. W * (i - k) >= 0
      BY <1>3, <3>1
    <3>3. e >= d /\ e - d = W * (i - k) + (b - s)
      BY <1>2, <1>3, <1>4, <1>7, <3>1, <3>2
    <3>4. hasDelta(bm, e - d) <=> b - s \in bm[i - k]
      BY <3>1, <3>3, BitOfWord DEF W
    <3> QED
      BY <2>1, <2>2, <3>3, <3>4 DEF bs, ws, k, s
  <2>3. CASE i < k
    <3>1. W * i + W <= W * k
      BY <1>3, <2>3, LowerWord
    <3>2. e < d
      BY <1>2, <1>3, <1>4, <3>1
    <3> QED
      BY <1>3, <2>1, <2>3, <3>2 DEF bs, ws, k, s, Deltas
  <2> QED
    BY <1>3, <2>2, <2>3
<1>8. CASE b < s
  <2>1. hasDelta(bs, e) <=> i > k /\ b + W - s \in bm[i - 1 - k]
    <3>1. hasDelta(bs, e) <=> i > 0 /\ b + W - s \in ws[i - 1]
      BY <1>3, <1>6, <1>8
    <3>2. i > 0 => i - 1 \in WordIndices
      BY <1>1, <1>3, ReplayWindowAssumption DEF WordIndices
    <3>3. i > 0 => ws[i - 1] = IF i - 1 >= k THEN bm[i - 1 - k] ELSE {}
      BY <1>5, <3>2
    <3> QED
      BY <1>3, <3>1, <3>3
  <2>2. CASE i > k
    <3>1. i - 1 - k \in Nat /\ b + W - s \in Bits /\ W * (i - 1 - k) = W * i - W - W * k
      BY <1>3, <1>8, <2>2 DEF Bits, W
    <3>2. W * (i - 1 - k) >= 0
      BY <1>3, <3>1
    <3>3. e >= d /\ e - d = W * (i - 1 - k) + (b + W - s)
      BY <1>2, <1>3, <1>4, <1>8, <3>1, <3>2
    <3>4. hasDelta(bm, e - d) <=> b + W - s \in bm[i - 1 - k]
      BY <3>1, <3>3, BitOfWord DEF W
    <3> QED
      BY <2>1, <2>2, <3>3, <3>4 DEF bs, ws, k, s
  <2>3. CASE i <= k
    <3>1. W * i <= W * k
      BY <1>3, <2>3
    <3>2. e < d
      BY <1>2, <1>3, <1>4, <1>8, <3>1
    <3> QED
      BY <1>3, <2>1, <2>3, <3>2 DEF bs, ws, k, s, Deltas
  <2> QED
    BY <1>3, <2>2, <2>3
<1> QED
  BY <1>3, <1>7, <1>8

\* advance moves every bit by delta and drops what leaves the window.
LEMMA Advanced ==
    ASSUME NEW bm \in Bitmaps, NEW d \in Nat
    PROVE  /\ advance(bm, d) \in Bitmaps
           /\ \A e \in Deltas : hasDelta(advance(bm, d), e) <=> e >= d /\ hasDelta(bm, e - d)
<1>1. replayWindowBits \in Nat
  BY ReplayWindowAssumption DEF replayWindowBits
<1>2. CASE d >= replayWindowBits
  <2>1. advance(bm, d) = Empty
    BY <1>2 DEF advance
  <2>2. \A e \in Deltas : e < d /\ ~hasDelta(Empty, e)
    BY <1>1, <1>2, InBitmap DEF Deltas, hasDelta, Empty
  <2>3. Empty \in Bitmaps
    BY DEF Empty, Bitmaps
  <2> QED
    BY <1>1, <2>1, <2>2, <2>3 DEF Deltas
<1>3. CASE d < replayWindowBits
  <2>1. d \in Deltas
    BY <1>1, <1>3 DEF Deltas
  <2>2. advance(bm, d) = BitShift(WordShift(bm, d \div WordBits), d % WordBits)
    BY <1>1, <1>3 DEF advance
  <2>3. advance(bm, d) \in Bitmaps
    BY <2>2 DEF BitShift, ShiftedLeft, Carry, Bitmaps
  <2> QED
    BY <2>1, <2>2, <2>3, Shifted
<1> QED
  BY <1>1, <1>2, <1>3

-----------------------------------------------------------------------------
(* The inductive invariant: BitmapExact with the place of highestSeen among   *)
(* the accepted counters.                                                     *)

WTypeOK ==
    /\ highestSeen \in Counters
    /\ initialized \in BOOLEAN
    /\ bitmap \in Bitmaps
    /\ accepted \subseteq Counters

\* Before the first counter there is nothing, and highestSeen is the highest.
Highest ==
    /\ ~initialized => accepted = {} /\ bitmap = Empty
    /\ initialized => highestSeen \in accepted /\ \A a \in accepted : a <= highestSeen

WInv == WTypeOK /\ Highest /\ BitmapExact

\* The window is not empty.
LEMMA WindowSize == replayWindowBits \in Nat \ {0} /\ 0 \in Deltas
<1>1. replayWindowBits \in Nat \ {0}
  BY ReplayWindowAssumption DEF replayWindowBits
<1> QED
  BY <1>1 DEF Deltas

\* The invariant holds for the window NewReplayWindow makes.
LEMMA WInitInv == Init => WInv
<1>1. Empty \in Bitmaps
  BY DEF Empty, Bitmaps
<1>2. 0 \in Counters
  BY ReplayWindowAssumption DEF Counters
<1> QED
  BY <1>1, <1>2 DEF Init, WInv, WTypeOK, Highest, BitmapExact

\* Every answer of Accept keeps the invariant.
LEMMA WNextInv == WInv /\ [Next]_vars => WInv'
<1> SUFFICES ASSUME WInv, [Next]_vars PROVE WInv'
    OBVIOUS
<1>1. CASE UNCHANGED vars
  BY <1>1 DEF vars, WInv, WTypeOK, Highest, BitmapExact, hasDelta
<1>2. ASSUME NEW c \in Counters, AcceptFirst(c) PROVE WInv'
  <2>1. bitmap = Empty /\ bitmap \in Bitmaps /\ accepted' = {c}
    BY <1>2 DEF AcceptFirst, WInv, WTypeOK, Highest
  <2>2. /\ bitmap' \in Bitmaps
        /\ \A e \in Deltas : hasDelta(bitmap', e) <=> e = 0 \/ hasDelta(Empty, e)
    BY <1>2, <2>1, Marked, WindowSize DEF AcceptFirst
  <2>3. \A e \in Deltas : ~hasDelta(Empty, e)
    BY InBitmap DEF hasDelta, Empty
  <2>4. \A e \in Deltas : e = 0 <=> (c >= e /\ c - e \in {c})
    BY WindowSize, ReplayWindowAssumption DEF Counters, Deltas
  <2>5. BitmapExact'
    BY <1>2, <2>1, <2>2, <2>3, <2>4 DEF AcceptFirst, BitmapExact, Deltas
  <2> QED
    BY <1>2, <2>1, <2>2, <2>5, ReplayWindowAssumption
       DEF AcceptFirst, WInv, WTypeOK, Highest, Counters
<1>3. ASSUME NEW c \in Counters, AcceptAhead(c) PROVE WInv'
  <2> DEFINE h == highestSeen
             d == c - h
  <2>1. /\ initialized /\ h \in Nat /\ c \in Nat /\ h \in Counters /\ d \in Nat /\ d > 0
        /\ bitmap \in Bitmaps /\ accepted \subseteq Counters
        /\ h \in accepted /\ \A a \in accepted : a <= h /\ a \in Nat
    BY <1>3, ReplayWindowAssumption DEF AcceptAhead, WInv, WTypeOK, Highest, Counters
  <2>2. /\ advance(bitmap, d) \in Bitmaps
        /\ \A e \in Deltas :
              hasDelta(advance(bitmap, d), e) <=> e >= d /\ hasDelta(bitmap, e - d)
    BY <2>1, Advanced
  <2>3. /\ bitmap' \in Bitmaps
        /\ \A e \in Deltas :
              hasDelta(bitmap', e) <=> e = 0 \/ hasDelta(advance(bitmap, d), e)
    BY <1>3, <2>2, Marked, WindowSize DEF AcceptAhead
  <2>4. ASSUME NEW e \in Deltas
        PROVE  hasDelta(bitmap', e) <=> (c >= e /\ c - e \in accepted \cup {c})
    <3>1. e \in Nat
      BY WindowSize DEF Deltas
    <3>2. CASE e >= d
      <4>1. e - d \in Deltas
        BY <2>1, <3>1, <3>2, WindowSize DEF Deltas
      <4>2. hasDelta(bitmap, e - d) <=> (h >= e - d /\ h - (e - d) \in accepted)
        BY <2>1, <4>1 DEF WInv, BitmapExact, Deltas
      <4>3. h - (e - d) = c - e /\ (h >= e - d <=> c >= e) /\ e # 0 /\ c - e # c
        BY <2>1, <3>1, <3>2
      <4> QED
        BY <2>2, <2>3, <3>2, <4>2, <4>3
    <3>3. CASE e < d
      <4>1. ~(e >= d) /\ c - e \notin accepted /\ c >= e
        BY <2>1, <3>1, <3>3
      <4>2. e = 0 <=> c - e = c
        BY <2>1, <3>1
      <4> QED
        BY <2>2, <2>3, <4>1, <4>2
    <3> QED
      BY <2>1, <3>1, <3>2, <3>3
  <2>5. BitmapExact'
    BY <1>3, <2>4 DEF AcceptAhead, BitmapExact, Deltas
  <2> QED
    BY <1>3, <2>1, <2>3, <2>5 DEF AcceptAhead, WInv, WTypeOK, Highest
<1>4. ASSUME NEW c \in Counters, AcceptBehind(c) PROVE WInv'
  <2> DEFINE h == highestSeen
             d == h - c
  <2>1. /\ initialized /\ h \in Nat /\ c \in Nat /\ c <= h /\ d \in Deltas /\ d \in Nat
        /\ bitmap \in Bitmaps
    BY <1>4, ReplayWindowAssumption, WindowSize
       DEF AcceptBehind, InWindow, Deltas, WInv, WTypeOK, Counters
  <2>2. /\ bitmap' \in Bitmaps
        /\ \A e \in Deltas : hasDelta(bitmap', e) <=> e = d \/ hasDelta(bitmap, e)
    BY <1>4, <2>1, Marked DEF AcceptBehind
  <2>3. ASSUME NEW e \in Deltas
        PROVE  hasDelta(bitmap', e) <=> (h >= e /\ h - e \in accepted \cup {c})
    <3>1. e \in Nat /\ (e = d <=> (h >= e /\ h - e = c))
      BY <2>1, WindowSize DEF Deltas
    <3>2. hasDelta(bitmap, e) <=> (h >= e /\ h - e \in accepted)
      BY <2>1 DEF WInv, BitmapExact, Deltas
    <3> QED
      BY <2>2, <3>1, <3>2
  <2>4. BitmapExact'
    BY <1>4, <2>3 DEF AcceptBehind, BitmapExact, Deltas
  <2> QED
    BY <1>4, <2>1, <2>2, <2>4 DEF AcceptBehind, WInv, WTypeOK, Highest
<1>5. ASSUME NEW c \in Counters, Refuse(c) PROVE WInv'
  BY <1>5 DEF Refuse, WInv, WTypeOK, Highest, BitmapExact, hasDelta
<1> QED
  BY <1>1, <1>2, <1>3, <1>4, <1>5 DEF Next

\* The invariant holds in every reachable state.
LEMMA WInvariant == Spec => []WInv
<1>1. Init => WInv BY WInitInv
<1>2. WInv /\ [Next]_vars => WInv' BY WNextInv
<1> QED BY <1>1, <1>2, PTL DEF Spec

\* The bitmap remembers exactly the accepted counters of the window.
THEOREM ReplayBitmapExact == Spec => []BitmapExact
<1>1. WInv => BitmapExact BY DEF WInv
<1> QED BY <1>1, WInvariant, PTL

-----------------------------------------------------------------------------
(* Refinement *)

\* Every answer of Accept is the one the abstract filter gives.
LEMMA WStep == WInv /\ [Next]_vars => [Filter!Next]_<<accepted, answer>>
<1> SUFFICES ASSUME WInv, [Next]_vars PROVE [Filter!Next]_<<accepted, answer>>
    OBVIOUS
<1>1. /\ replayWindowBits \in Nat \ {0} /\ highestSeen \in Nat /\ accepted \subseteq Nat
      /\ Counters \subseteq Nat /\ Filter!Counters = Counters
  BY WindowSize, ReplayWindowAssumption DEF WInv, WTypeOK, Counters, Filter!Counters
<1>2. CASE UNCHANGED vars
  BY <1>2 DEF vars
<1>3. ASSUME NEW c \in Counters, AcceptFirst(c) PROVE Filter!Accept(c)
  <2>1. Filter!Fresh(c) = TRUE
    BY <1>3 DEF AcceptFirst, WInv, Highest, Filter!Fresh
  <2> QED
    BY <1>3, <2>1 DEF AcceptFirst, Filter!Accept
<1>4. ASSUME NEW c \in Counters, AcceptAhead(c) PROVE Filter!Accept(c)
  <2>1. \A a \in accepted : a < c /\ c + replayWindowBits > a
    BY <1>1, <1>4 DEF AcceptAhead, WInv, Highest
  <2>2. Filter!Fresh(c) = TRUE
    BY <1>1, <2>1 DEF Filter!Fresh
  <2> QED
    BY <1>4, <2>2 DEF AcceptAhead, Filter!Accept
<1>5. ASSUME NEW c \in Counters, AcceptBehind(c) PROVE Filter!Accept(c)
  <2>1. highestSeen - c \in Deltas /\ highestSeen - c \in Nat
    BY <1>1, <1>5 DEF AcceptBehind, InWindow, Deltas
  <2>2. c \notin accepted
    <3>1. highestSeen - (highestSeen - c) = c /\ highestSeen >= highestSeen - c
      BY <1>1
    <3> QED
      BY <1>5, <2>1, <3>1 DEF AcceptBehind, WInv, BitmapExact, Deltas
  <2>3. \A a \in accepted : c + replayWindowBits > a
    BY <1>1, <1>5 DEF AcceptBehind, InWindow, WInv, Highest
  <2>4. Filter!Fresh(c) = TRUE
    BY <2>2, <2>3 DEF Filter!Fresh
  <2> QED
    BY <1>5, <2>4 DEF AcceptBehind, Filter!Accept
<1>6. ASSUME NEW c \in Counters, Refuse(c) PROVE Filter!Accept(c)
  <2>1. CASE InWindow(highestSeen - c)
    <3>1. highestSeen - c \in Deltas
      BY <1>1, <1>6, <2>1 DEF Refuse, InWindow, Deltas
    <3>2. highestSeen - (highestSeen - c) = c
      BY <1>1
    <3>3. c \in accepted
      BY <1>6, <2>1, <3>1, <3>2 DEF Refuse, WInv, BitmapExact, Deltas
    <3> QED
      BY <1>6, <3>3 DEF Refuse, Filter!Accept, Filter!Fresh
  <2>2. CASE ~InWindow(highestSeen - c)
    <3>1. highestSeen \in accepted /\ ~(c + replayWindowBits > highestSeen)
      BY <1>1, <1>6, <2>2 DEF Refuse, InWindow, WInv, Highest
    <3>2. Filter!Fresh(c) = FALSE
      BY <3>1 DEF Filter!Fresh
    <3> QED
      BY <1>6, <3>2 DEF Refuse, Filter!Accept
  <2> QED
    BY <2>1, <2>2
<1> QED
  BY <1>1, <1>2, <1>3, <1>4, <1>5, <1>6 DEF Next, Filter!Next

\* Accept implements the abstract filter: nothing is accepted twice, and nothing fresh
\* of the window is refused.
THEOREM ReplayImplementsFilter == Spec => ImplementsFilter
<1>1. Init => Filter!Init BY DEF Init, Filter!Init
<1>2. WInv /\ [Next]_vars => [Filter!Next]_<<accepted, answer>> BY WStep
<1> QED BY <1>1, <1>2, WInvariant, PTL DEF Spec, ImplementsFilter, Filter!Spec
=============================================================================
