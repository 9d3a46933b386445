--------------------------- MODULE ModbusBusProof ---------------------------
(***************************************************************************)
(* Proofs about the Modbus bus and the codec: a slave is backed off if and *)
(* only if it missed that many requests in a row, and a value goes through *)
(* the codec to the register and back unchanged, for any slaves, delays,   *)
(* points, widths of a word and number of events.                          *)
(*                                                                         *)
(* BackoffEarned by itself is not inductive: before the delay starts the   *)
(* bus knows of the missed requests only what it counts in _timeouts, and  *)
(* once it has started the count is gone and the delay stands for it.      *)
(*                                                                         *)
(* The properties of values need less of the bus (ShownInv, RequestInv:    *)
(* what was shown and written came out of the codec) and more of the       *)
(* codec: reading undoes writing and writing reading, in two's complement  *)
(* and either word order, and rounding finds the only number within half   *)
(* a step.                                                                 *)
(*                                                                         *)
(* Last, that nothing but a lost answer keeps a slave from being heard.    *)
(***************************************************************************)
EXTENDS ModbusBus, FiniteSetTheorems, TLAPS

\* The strengthening of BackoffEarned that the steps preserve: until the delay
\* starts the count is the number of requests missed.
Counted ==
    /\ timeouts \in [Slaves -> Nat]
    /\ delay \in [Slaves -> 0..Limit]
    /\ silent \in [Slaves -> 0..AfterTimeouts]
    /\ \A s \in Slaves : delay[s] = 0 => timeouts[s] = silent[s]
    /\ BackoffEarned

LEMMA CountedInit == Init => Counted
  BY BusAssumption DEF Init, Counted, BackoffEarned

\* A request that timed out, whatever it was for: the third in a row starts the
\* delay, and a delay that has started never goes back to 0.
LEMMA TimeoutCounted ==
  ASSUME Counted, NEW s \in Slaves, NoteTimeout(s)
  PROVE  Counted'
<1> DEFINE d == IF delay[s] # 0 THEN (IF 2 * delay[s] < Limit THEN 2 * delay[s] ELSE Limit)
                ELSE IF timeouts[s] + 1 < AfterTimeouts THEN 0 ELSE Start
<1> USE BusAssumption
<1>1. /\ timeouts[s] \in Nat /\ delay[s] \in 0..Limit /\ silent[s] \in 0..AfterTimeouts
      /\ delay[s] = 0 => timeouts[s] = silent[s]
      /\ delay[s] # 0 <=> silent[s] = AfterTimeouts
  BY DEF Counted, BackoffEarned
<1>2. d \in 0..Limit
  BY <1>1
<1>3. d # 0 <=> silent[s] + 1 >= AfterTimeouts
  BY <1>1
<1> HIDE DEF d
<1>4. /\ timeouts' = [timeouts EXCEPT ![s] = IF d = 0 THEN @ + 1 ELSE 0]
      /\ delay' = [delay EXCEPT ![s] = d]
      /\ silent' = [silent EXCEPT ![s] = IF @ < AfterTimeouts THEN @ + 1 ELSE @]
  BY DEF NoteTimeout, d
<1>5. /\ timeouts' \in [Slaves -> Nat]
      /\ delay' \in [Slaves -> 0..Limit]
      /\ silent' \in [Slaves -> 0..AfterTimeouts]
  BY <1>1, <1>2, <1>4 DEF Counted
<1>6. \A r \in Slaves : /\ delay'[r] = 0 => timeouts'[r] = silent'[r]
                        /\ delay'[r] # 0 <=> silent'[r] = AfterTimeouts
  <2> TAKE r \in Slaves
  <2>1. CASE r = s
    BY <1>1, <1>2, <1>3, <1>4, <2>1 DEF Counted
  <2>2. CASE r # s
    BY <1>4, <2>2 DEF Counted, BackoffEarned
  <2> QED BY <2>1, <2>2
<1> QED BY <1>5, <1>6 DEF Counted, BackoffEarned

\* An answer, an exception reply included.
LEMMA AliveCounted ==
  ASSUME Counted, NEW s \in Slaves, NoteAlive(s)
  PROVE  Counted'
<1>1. \A r \in Slaves : /\ delay'[r] = 0 => timeouts'[r] = silent'[r]
                        /\ delay'[r] # 0 <=> silent'[r] = AfterTimeouts
  BY BusAssumption DEF NoteAlive, Counted, BackoffEarned
<1>2. /\ timeouts' \in [Slaves -> Nat]
      /\ delay' \in [Slaves -> 0..Limit]
      /\ silent' \in [Slaves -> 0..AfterTimeouts]
  BY BusAssumption DEF NoteAlive, Counted
<1> QED BY <1>1, <1>2 DEF Counted, BackoffEarned

\* What the count is made of.
Noted == <<timeouts, delay, silent>>

LEMMA NothingCounted == Counted /\ UNCHANGED Noted => Counted'
  BY DEF Counted, BackoffEarned, Noted

\* A poll that is skipped and a port that fails say nothing about the slave.
LEMMA TransactCounted ==
  ASSUME Counted, NEW s \in Slaves, NEW honors, NEW outcome, Transact(s, honors, outcome)
  PROVE  Counted'
<1>1. NoteTimeout(s) \/ NoteAlive(s) \/ UNCHANGED Noted
  BY DEF Transact, backoff, Noted
<1> QED BY <1>1, TimeoutCounted, AliveCounted, NothingCounted

LEMMA CountedNext == Counted /\ [Next]_vars => Counted'
<1> SUFFICES ASSUME Counted, [Next]_vars
             PROVE  Counted'
  OBVIOUS
<1>1. ASSUME NEW s \in Slaves, Poll(s) \/ Probe(s)
      PROVE  Counted'
  BY <1>1, TransactCounted DEF Poll, Probe
<1>2. ASSUME NEW value \in Asked, Write(value)
      PROVE  Counted'
  <2>1. (\E outcome \in Outcomes : Transact(Home, FALSE, outcome)) \/ UNCHANGED Noted
    BY <1>2 DEF Write, backoff, Noted
  <2> QED BY <2>1, BusAssumption, TransactCounted, NothingCounted
<1>3. CASE Configure \/ Tick \/ Unplugs \/ Plugs \/ RegisterChanges
  <2>1. UNCHANGED Noted
    BY <1>3 DEF Configure, Tick, Unplugs, Plugs, RegisterChanges, backoff, Noted
  <2> QED BY <2>1, NothingCounted
<1>4. ASSUME NEW s \in Slaves, SlaveDies(s) \/ SlaveReturns(s)
      PROVE  Counted'
  <2>1. UNCHANGED Noted
    BY <1>4 DEF SlaveDies, SlaveReturns, backoff, Noted
  <2> QED BY <2>1, NothingCounted
<1>5. CASE UNCHANGED vars
  BY <1>5, NothingCounted DEF vars, backoff, Noted
<1> QED BY <1>1, <1>2, <1>3, <1>4, <1>5 DEF Next

(* The polls of a slave are skipped if and only if its last requests, as   *)
(* many as BACKOFF_AFTER_TIMEOUTS, all timed out: what happens to other    *)
(* slaves, to the port or to the settings neither starts nor ends it.      *)
THEOREM EarnedBackoff == Spec => []BackoffEarned
<1>1. Init => Counted
  BY CountedInit
<1>2. Counted /\ [Next]_vars => Counted'
  BY CountedNext
<1>3. Counted => BackoffEarned
  BY DEF Counted
<1> QED BY <1>1, <1>2, <1>3, PTL DEF Spec

-----------------------------------------------------------------------------
\* The codec.

\* Two words make a number below Base * Base, and only those two make it.
LEMMA Joined ==
  ASSUME NEW a \in Word, NEW b \in Word
  PROVE  /\ a * Base + b \in 0..(Base * Base - 1)
         /\ (a * Base + b) \div Base = a
         /\ (a * Base + b) % Base = b
<1> USE CodecAssumption DEF Word
<1>1. a * Base \in Nat /\ a * Base <= (Base - 1) * Base
  OBVIOUS
<1>2. (Base - 1) * Base = Base * Base - Base
  OBVIOUS
<1> QED BY <1>1, <1>2

LEMMA Split ==
  ASSUME NEW n \in 0..(Base * Base - 1)
  PROVE  n \div Base \in Word /\ n % Base \in Word /\ (n \div Base) * Base + (n % Base) = n
<1> USE CodecAssumption DEF Word
<1>1. n \div Base \in Int /\ n % Base \in 0..(Base - 1) /\ n = Base * (n \div Base) + (n % Base)
  OBVIOUS
<1>2. n \div Base >= 0
  BY <1>1
<1>3. n \div Base < Base
  <2>1. ASSUME n \div Base >= Base PROVE FALSE
    <3>1. Base * (n \div Base) >= Base * Base
      BY <1>1, <2>1
    <3> QED BY <1>1, <3>1
  <2> QED BY <1>1, <2>1
<1> QED BY <1>1, <1>2, <1>3

\* Two's complement in a number of an even number of values.
LEMMA Complement ==
  ASSUME NEW size \in Nat \ {0}, size % 2 = 0, NEW raw \in -(size \div 2)..(size \div 2 - 1)
  PROVE  /\ raw % size \in 0..(size - 1)
         /\ (IF 2 * (raw % size) >= size THEN (raw % size) - size ELSE raw % size) = raw
<1>1. 2 * (size \div 2) = size
  OBVIOUS
<1>2. CASE raw >= 0
  <2>1. raw % size = raw
    BY <1>1, <1>2
  <2> QED BY <1>1, <1>2, <2>1
<1>3. CASE raw < 0
  <2>1. raw % size = raw + size
    BY <1>1, <1>3
  <2> QED BY <1>1, <1>3, <2>1
<1> QED BY <1>1, <1>2, <1>3

LEMMA Uncomplement ==
  ASSUME NEW size \in Nat \ {0}, size % 2 = 0, NEW n \in 0..(size - 1)
  PROVE  LET raw == IF 2 * n >= size THEN n - size ELSE n
         IN  raw \in -(size \div 2)..(size \div 2 - 1) /\ raw % size = n
<1>1. 2 * (size \div 2) = size
  OBVIOUS
<1>2. n % size = n
  OBVIOUS
<1>3. (n - size) % size = n
  OBVIOUS
<1> QED BY <1>1, <1>2, <1>3

LEMMA Plain ==
  ASSUME NEW size \in Nat \ {0}, NEW n \in 0..(size - 1)
  PROVE  n % size = n
OBVIOUS

LEMMA Sizes == /\ Base \in Nat \ {0} /\ Base % 2 = 0
               /\ Base * Base \in Nat \ {0} /\ (Base * Base) % 2 = 0
<1> USE CodecAssumption
<1>1. PICK h \in Nat : Base = 2 * h
  <2>1. Base = 2 * (Base \div 2) /\ Base \div 2 \in Nat
    OBVIOUS
  <2> QED BY <2>1
<1>2. Base * Base = 2 * (h * Base) /\ h * Base \in Nat
  BY <1>1
<1>3. (Base * Base) % 2 = 0
  <2> DEFINE k == h * Base
  <2>1. k \in Nat /\ Base * Base = 2 * k
    BY <1>2
  <2> HIDE DEF k
  <2> QED BY <2>1
<1> QED BY <1>3

(* codec.py: encode, then _raw_from_words.  Of a point that is not a       *)
(* single bit every number its register can hold goes into as many words   *)
(* as it has and comes back the same, whatever the width of a word.        *)
THEOREM WrittenRead ==
  ASSUME NEW p, Parsed(p), p.bit = NoBit, NEW raw \in RawRange(p)
  PROVE  /\ WordsFromRaw(p, raw) \in WordsOf(p)
         /\ RawFromWords(p, WordsFromRaw(p, raw)) = raw
<1>1. CASE Coil(p)
  <2>1. raw \in {0, 1} /\ ~Wide(p)
    BY <1>1 DEF RawRange, Wide
  <2>2. WordsFromRaw(p, raw) = <<raw>>
    BY <2>1, CodecAssumption DEF WordsFromRaw
  <2> QED BY <1>1, <2>1, <2>2 DEF WordsOf, RawFromWords, Wide
<1>2. CASE ~Coil(p) /\ ~Wide(p)
  <2>1. /\ Signed(p) => raw \in -(Base \div 2)..(Base \div 2 - 1)
        /\ ~Signed(p) => raw \in 0..(Base - 1)
    BY <1>2 DEF RawRange
  <2>2. raw % Base \in 0..(Base - 1)
    BY <2>1, Sizes, Complement, Plain
  <2>3. WordsFromRaw(p, raw) = <<raw % Base>>
    BY <1>2 DEF WordsFromRaw
  <2>4. RawFromWords(p, <<raw % Base>>)
          = IF Signed(p) /\ 2 * (raw % Base) >= Base THEN (raw % Base) - Base ELSE raw % Base
    BY <1>2 DEF RawFromWords
  <2>5. RawFromWords(p, <<raw % Base>>) = raw
    <3>1. CASE Signed(p)
      <4>1. (IF 2 * (raw % Base) >= Base THEN (raw % Base) - Base ELSE raw % Base) = raw
        BY <2>1, <3>1, Sizes, Complement
      <4> QED BY <2>4, <3>1, <4>1
    <3>2. CASE ~Signed(p)
      BY <2>1, <2>4, <3>2, Sizes, Plain
    <3> QED BY <3>1, <3>2
  <2> QED BY <1>2, <2>2, <2>3, <2>5 DEF WordsOf, Word
<1>3. CASE ~Coil(p) /\ Wide(p)
  <2> DEFINE size == Base * Base
             n == raw % size
  <2>1. /\ Signed(p) => raw \in -(size \div 2)..(size \div 2 - 1)
        /\ ~Signed(p) => raw \in 0..(size - 1)
    BY <1>3 DEF RawRange
  <2>2. size \in Nat \ {0} /\ size % 2 = 0
    BY Sizes
  <2> HIDE DEF size
  <2>3. /\ n \in 0..(size - 1)
        /\ (IF Signed(p) /\ 2 * n >= size THEN n - size ELSE n) = raw
    <3>1. CASE Signed(p)
      <4>1. n \in 0..(size - 1) /\ (IF 2 * n >= size THEN n - size ELSE n) = raw
        BY <2>1, <2>2, <3>1, Complement
      <4> QED BY <3>1, <4>1
    <3>2. CASE ~Signed(p)
      BY <2>1, <2>2, <3>2, Plain
    <3> QED BY <3>1, <3>2
  <2> HIDE DEF n
  <2> DEFINE a == n \div Base
             b == n % Base
  <2>4. a \in Word /\ b \in Word /\ a * Base + b = n
    BY <2>3, Split DEF size
  <2>5. WordsFromRaw(p, raw) = Ordered(p, <<a, b>>)
    BY <1>3 DEF WordsFromRaw, n, size
  <2> HIDE DEF a, b
  <2>6. /\ Ordered(p, <<a, b>>) \in Word \X Word
        /\ Ordered(p, Ordered(p, <<a, b>>)) = <<a, b>>
    BY <2>4 DEF Ordered
  <2> DEFINE w == Ordered(p, <<a, b>>)
  <2>7. RawFromWords(p, w) = IF Signed(p) /\ 2 * n >= size THEN n - size ELSE n
    <3>1. Ordered(p, w) = <<a, b>>
      BY <2>6
    <3> HIDE DEF w
    <3>2. Ordered(p, w)[1] * Base + Ordered(p, w)[2] = n
      BY <2>4, <3>1
    <3>3. p.bit = NoBit
      OBVIOUS
    <3> QED BY <1>3, <3>2, <3>3 DEF RawFromWords, size
  <2> QED BY <1>3, <2>3, <2>5, <2>6, <2>7 DEF WordsOf
<1> QED BY <1>1, <1>2, <1>3

(* The other way round: any words read from such a point are a number in   *)
(* its range, the one that would be written as these words.                *)
THEOREM ReadWritten ==
  ASSUME NEW p, Parsed(p), p.bit = NoBit, NEW words \in WordsOf(p)
  PROVE  /\ RawFromWords(p, words) \in RawRange(p)
         /\ WordsFromRaw(p, RawFromWords(p, words)) = words
<1>1. CASE Coil(p)
  <2>1. ~Wide(p)
    BY <1>1 DEF Wide
  <2>2. PICK n \in 0..1 : words = <<n>>
    BY <1>1, <2>1 DEF WordsOf
  <2>3. RawFromWords(p, words) = n
    BY <1>1, <2>1, <2>2 DEF RawFromWords
  <2>4. n % Base = n
    BY CodecAssumption
  <2> QED BY <1>1, <2>1, <2>2, <2>3, <2>4 DEF RawRange, WordsFromRaw
<1>2. CASE ~Coil(p) /\ ~Wide(p)
  <2>1. PICK n \in 0..(Base - 1) : words = <<n>>
    BY <1>2 DEF WordsOf, Word
  <2>2. RawFromWords(p, words) = IF Signed(p) /\ 2 * n >= Base THEN n - Base ELSE n
    BY <1>2, <2>1 DEF RawFromWords
  <2>3. /\ RawFromWords(p, words) \in RawRange(p)
        /\ RawFromWords(p, words) % Base = n
    <3>1. CASE Signed(p)
      <4>1. LET raw == IF 2 * n >= Base THEN n - Base ELSE n
            IN  raw \in -(Base \div 2)..(Base \div 2 - 1) /\ raw % Base = n
        BY Sizes, Uncomplement
      <4> QED BY <1>2, <2>2, <3>1, <4>1 DEF RawRange
    <3>2. CASE ~Signed(p)
      <4>1. n % Base = n
        BY Sizes, Plain
      <4> QED BY <1>2, <2>2, <3>2, <4>1 DEF RawRange
    <3> QED BY <3>1, <3>2
  <2> QED BY <1>2, <2>1, <2>3 DEF WordsFromRaw
<1>3. CASE ~Coil(p) /\ Wide(p)
  <2> DEFINE size == Base * Base
             w == Ordered(p, words)
             n == w[1] * Base + w[2]
             raw == RawFromWords(p, words)
  <2>1. words \in Word \X Word
    BY <1>3 DEF WordsOf
  <2>2. w \in Word \X Word /\ Ordered(p, w) = words /\ w = <<w[1], w[2]>>
    BY <2>1 DEF Ordered
  <2>3. w[1] \in Word /\ w[2] \in Word
    BY <2>2
  <2>4. raw = IF Signed(p) /\ 2 * n >= size THEN n - size ELSE n
    BY <1>3 DEF RawFromWords
  <2>5. /\ n \in 0..(size - 1)
        /\ n \div Base = w[1] /\ n % Base = w[2]
    <3> HIDE DEF w
    <3> QED BY <2>3, Joined
  <2>6. size \in Nat \ {0} /\ size % 2 = 0
    BY Sizes
  <2>7. RawRange(p) = IF Signed(p) THEN -(size \div 2)..(size \div 2 - 1) ELSE 0..(size - 1)
    BY <1>3 DEF RawRange
  <2>8. WordsFromRaw(p, raw) = LET m == raw % size IN Ordered(p, <<m \div Base, m % Base>>)
    BY <1>3 DEF WordsFromRaw
  <2> HIDE DEF n, size, raw, w
  <2>9. raw \in RawRange(p) /\ raw % size = n
    <3>1. CASE Signed(p)
      <4>1. LET r == IF 2 * n >= size THEN n - size ELSE n
            IN  r \in -(size \div 2)..(size \div 2 - 1) /\ r % size = n
        BY <2>5, <2>6, Uncomplement
      <4> QED BY <2>4, <2>7, <3>1, <4>1
    <3>2. CASE ~Signed(p)
      <4>1. n % size = n
        BY <2>5, <2>6, Plain
      <4> QED BY <2>4, <2>5, <2>7, <3>2, <4>1
    <3> QED BY <3>1, <3>2
  <2>10. WordsFromRaw(p, raw) = words
    BY <2>2, <2>5, <2>8, <2>9
  <2> QED BY <2>9, <2>10 DEF raw
<1> QED BY <1>1, <1>2, <1>3

\* Rounding goes at most half a step away, and is the only number so near.
LEMMA Rounded ==
  ASSUME NEW a \in Int, NEW b \in Int \ {0}
  PROVE  /\ RoundHalfAway(a, b) \in Int
         /\ 2 * Magnitude(RoundHalfAway(a, b) * b - a) <= Magnitude(b)
<1> DEFINE m == Magnitude(a)
           c == Magnitude(b)
           q == (2 * m + c) \div (2 * c)
<1>1. /\ m \in Nat /\ c \in Nat \ {0}
      /\ a = IF a < 0 THEN -m ELSE m
      /\ b = IF b < 0 THEN -c ELSE c
  BY DEF Magnitude
<1>2. RoundHalfAway(a, b) = IF (a < 0) = (b < 0) THEN q ELSE -q
  BY DEF RoundHalfAway
<1> HIDE DEF m, c
<1>3. q \in Nat /\ 2 * (c * q) <= 2 * m + c /\ 2 * m + c < 2 * (c * q) + 2 * c
  BY <1>1
<1> HIDE DEF q
<1>4. c * q \in Nat
  BY <1>1, <1>3
<1>5. RoundHalfAway(a, b) * b = IF a < 0 THEN -(c * q) ELSE c * q
  <2>1. /\ q * c = c * q /\ (-q) * c = -(c * q) /\ q * (-c) = -(c * q) /\ (-q) * (-c) = c * q
    BY <1>1, <1>3
  <2> QED BY <1>1, <1>2, <1>3, <2>1
<1> DEFINE k == c * q
<1> HIDE DEF k
<1>6. -c <= 2 * (k - m) /\ 2 * (k - m) <= c /\ k \in Nat
  BY <1>1, <1>3, <1>4 DEF k
<1>7. 2 * Magnitude(RoundHalfAway(a, b) * b - a) <= c
  <2>1. RoundHalfAway(a, b) * b - a = IF a < 0 THEN m - k ELSE k - m
    BY <1>1, <1>5, <1>6 DEF k
  <2> QED BY <1>1, <1>6, <2>1 DEF Magnitude
<1> QED BY <1>1, <1>2, <1>3, <1>7 DEF c

LEMMA OneNearest ==
  ASSUME NEW b \in Int \ {0}, NEW a \in Int, NEW q \in Int, NEW r \in Int,
         2 * Magnitude(q * b - a) <= Magnitude(b),
         2 * Magnitude(r * b - a) < Magnitude(b)
  PROVE  q = r
<1> DEFINE x == q * b
           y == r * b
           d == q - r
<1>1. x \in Int /\ y \in Int /\ x - y = d * b /\ d \in Int
  OBVIOUS
<1>2. Magnitude(d * b) < Magnitude(b)
  <2> HIDE DEF x, y, d
  <2>1. 2 * Magnitude(x - a) <= Magnitude(b) /\ 2 * Magnitude(y - a) < Magnitude(b)
    BY DEF x, y
  <2>2. Magnitude(x - y) < Magnitude(b)
    BY <1>1, <2>1 DEF Magnitude
  <2> QED BY <1>1, <2>2
<1>3. d = 0
  <2> HIDE DEF d
  <2>1. ASSUME d >= 1 PROVE FALSE
    <3>1. /\ b > 0 => d * b >= b
          /\ b < 0 => d * b <= b
      BY <1>1, <2>1
    <3>2. d * b \in Int
      BY <1>1
    <3> DEFINE z == d * b
    <3> HIDE DEF z
    <3> QED BY <1>2, <3>1, <3>2 DEF Magnitude, z
  <2>2. ASSUME d <= -1 PROVE FALSE
    <3>1. /\ b > 0 => d * b <= -b
          /\ b < 0 => d * b >= -b
      BY <1>1, <2>2
    <3>2. d * b \in Int
      BY <1>1
    <3> QED BY <1>2, <3>1, <3>2 DEF Magnitude
  <2> QED BY <1>1, <2>1, <2>2
<1> QED BY <1>3

\* A set of numbers has a least: otherwise the intervals up to its numbers had
\* no smallest.
LEMMA Least ==
  ASSUME NEW S \in SUBSET Nat, S # {}
  PROVE  Min(S) \in S
<1> DEFINE T == { 0..n : n \in S }
<1>1. T \subseteq FiniteSubsetsOf(Nat)
  <2>1. \A n \in S : IsFiniteSet(0..n) /\ 0..n \subseteq Nat
    BY FS_Interval
  <2> QED BY <2>1 DEF FiniteSubsetsOf
<1>2. T # {}
  OBVIOUS
<1>3. PICK x \in T : \A y \in T : ~ (<<y, x>> \in StrictSubsetOrdering(Nat))
  <2> HIDE DEF T
  <2> QED BY <1>1, <1>2, FS_StrictSubsetOrderingWellFounded, WFMin
<1>4. PICK m \in S : x = 0..m
  OBVIOUS
<1>5. ASSUME NEW n \in S, n < m
      PROVE  FALSE
  <2>1. 0..n \subseteq 0..m /\ 0..n # 0..m /\ 0..m \subseteq Nat
    BY <1>5
  <2>2. <<0..n, 0..m>> \in StrictSubsetOrdering(Nat)
    BY <2>1 DEF StrictSubsetOrdering
  <2> QED BY <1>3, <1>4, <2>2
<1>6. \A n \in S : m <= n
  BY <1>5
<1> QED BY <1>6 DEF Min

\* Of a map, an index and its key.
LEMMA Mapped ==
  ASSUME NEW p, Parsed(p), NEW i \in DOMAIN p.map
  PROVE  /\ i \in Nat /\ p.map[i] = <<p.map[i][1], p.map[i][2]>>
         /\ p.map[i][1] \in Value /\ p.map[i][2] \in RawRange(p)
<1>1. p.map \in Seq(Value \X RawRange(p))
  BY DEF Parsed
<1>2. p.map[i] \in Value \X RawRange(p) /\ i \in 1..Len(p.map) /\ Len(p.map) \in Nat
  <2> HIDE DEF Value, RawRange
  <2> QED BY <1>1
<1> QED BY <1>2

LEMMA Unmapped ==
  ASSUME NEW p, p.map = << >>, NEW raw
  PROVE  Keyed(p, raw) = {}
BY DEF Keyed

\* What a write asks of a point without a map.
LEMMA NumberAsked ==
  ASSUME NEW p, Parsed(p), p.map = << >>, NEW n \in Int
  PROVE  /\ RawAsked(p, <<n>>) = {RoundHalfAway(n - p.offset, p.scale)}
         /\ RoundHalfAway(n - p.offset, p.scale) \in Int
         /\ 2 * Magnitude(RoundHalfAway(n - p.offset, p.scale) * p.scale - (n - p.offset)) <= Magnitude(p.scale)
<1>1. p.scale \in Int \ {0} /\ p.offset \in Int
  BY DEF Parsed
<1>2. RawAsked(p, <<n>>) = {RoundHalfAway(n - p.offset, p.scale)}
  BY DEF RawAsked
<1> DEFINE a == n - p.offset
           b == p.scale
<1>3. a \in Int /\ b \in Int \ {0}
  BY <1>1
<1> HIDE DEF a, b
<1>4. /\ RoundHalfAway(a, b) \in Int
      /\ 2 * Magnitude(RoundHalfAway(a, b) * b - a) <= Magnitude(b)
  BY <1>3, Rounded
<1> QED BY <1>2, <1>4 DEF a, b

\* Encode refuses, or writes a value that is asked for and in range.
LEMMA Encoded ==
  ASSUME NEW p, Parsed(p), p.bit = NoBit, NEW value
  PROVE  \/ /\ Encode(p, value) = Refused
            /\ RawAsked(p, value) \intersect RawRange(p) = {}
         \/ /\ Encode(p, value) \in WordsOf(p) /\ Encode(p, value) # Refused
            /\ RawFromWords(p, Encode(p, value)) \in RawAsked(p, value)
<1> DEFINE raws == RawAsked(p, value) \intersect RawRange(p)
           r == CHOOSE x \in raws : TRUE
<1>1. CASE raws = {}
  BY <1>1 DEF Encode
<1>2. CASE raws # {}
  <2>1. r \in raws
    BY <1>2
  <2>2. Encode(p, value) = WordsFromRaw(p, r)
    BY <1>2 DEF Encode
  <2> HIDE DEF r
  <2>3. r \in RawRange(p) /\ r \in RawAsked(p, value)
    BY <2>1
  <2>4. /\ WordsFromRaw(p, r) \in WordsOf(p)
        /\ RawFromWords(p, WordsFromRaw(p, r)) = r
    BY <2>3, WrittenRead
  <2>5. Refused \notin WordsOf(p)
    BY DEF WordsOf, Refused
  <2> QED BY <2>2, <2>3, <2>4, <2>5
<1> QED BY <1>1, <1>2

\* A value that was shown is asked for again: the same words are written.
LEMMA ShownAgain ==
  ASSUME NEW p, Parsed(p), p.bit = NoBit, NEW words \in WordsOf(p), NEW raw,
         raw = RawFromWords(p, words),
         IF p.map # << >> THEN Keyed(p, raw) # {}
         ELSE \/ p.unit < Magnitude(p.scale)
              \/ p.scale % p.unit = 0 /\ p.offset % p.unit = 0
  PROVE  Encode(p, Decode(p, words)) = words
<1>1. raw \in RawRange(p) /\ WordsFromRaw(p, raw) = words
  BY ReadWritten
<1>2. SUFFICES RawAsked(p, Decode(p, words)) = {raw}
  <2>1. RawAsked(p, Decode(p, words)) \intersect RawRange(p) = {raw}
    BY <1>1, <1>2
  <2>2. (CHOOSE r \in {raw} : TRUE) = raw
    OBVIOUS
  <2> QED BY <1>1, <2>1, <2>2 DEF Encode
<1>3. CASE p.map # << >>
  <2> DEFINE i == Min(Keyed(p, raw))
             key == p.map[i][1]
  <2>1. i \in Keyed(p, raw)
    <3>1. Keyed(p, raw) \in SUBSET Nat
      BY Mapped DEF Keyed
    <3> QED BY <1>3, <3>1, Least
  <2>2. Decode(p, words) = key
    BY <1>3 DEF Decode
  <2> HIDE DEF i
  <2>3. i \in DOMAIN p.map /\ p.map[i][2] = raw
    BY <2>1 DEF Keyed
  <2>4. \A j \in DOMAIN p.map : p.map[j][1] = key => j = i
    BY <2>3 DEF Parsed
  <2> HIDE DEF key
  <2>5. { j \in DOMAIN p.map : p.map[j][1] = key } = {i}
    BY <2>3, <2>4 DEF key
  <2> QED BY <1>3, <2>2, <2>3, <2>5 DEF RawAsked
<1>4. CASE p.map = << >>
  <2> DEFINE x == raw * p.scale + p.offset
             k == RoundHalfAway(x, p.unit)
             v == k * p.unit
             q == RoundHalfAway(v - p.offset, p.scale)
  <2>1. /\ p.scale \in Int \ {0} /\ p.offset \in Int
        /\ p.unit \in Int \ {0} /\ p.unit > 0 /\ p.unit \in Nat \ {0}
    BY DEF Parsed
  <2>2. raw \in Int
    <3>1. Base \div 2 \in Int /\ (Base * Base) \div 2 \in Int /\ Base \in Int /\ Base * Base \in Int
      BY Sizes
    <3> QED BY <1>1, <3>1 DEF RawRange
  <2>3. raw * p.scale \in Int /\ x \in Int
    BY <2>1, <2>2
  <2>4. k \in Int /\ 2 * Magnitude(v - x) <= Magnitude(p.unit)
    <3> HIDE DEF x
    <3> QED BY <2>1, <2>3, Rounded
  <2>5. v \in Int
    <3> HIDE DEF k
    <3> QED BY <2>1, <2>4
  <2>6. Decode(p, words) = <<v>>
    BY <1>4, Unmapped DEF Decode
  <2>7. /\ RawAsked(p, <<v>>) = {q} /\ q \in Int
        /\ 2 * Magnitude(q * p.scale - (v - p.offset)) <= Magnitude(p.scale)
    <3> HIDE DEF v
    <3> QED BY <1>4, <2>5, NumberAsked
  <2> HIDE DEF q
  <2>8. 2 * Magnitude(raw * p.scale - (v - p.offset)) < Magnitude(p.scale)
    <3>1. CASE p.unit < Magnitude(p.scale)
      <4> HIDE DEF v
      <4> DEFINE y == raw * p.scale
      <4>1. y \in Int /\ x = y + p.offset
        BY <2>3
      <4> HIDE DEF x, y
      <4>2. Magnitude(y - (v - p.offset)) = Magnitude(v - x)
        BY <2>1, <2>3, <2>5, <4>1 DEF Magnitude
      <4>3. Magnitude(p.unit) = p.unit
        BY <2>1 DEF Magnitude
      <4>4. Magnitude(v - x) \in Int /\ Magnitude(p.scale) \in Int
        BY <2>1, <2>3, <2>5 DEF Magnitude
      <4> QED BY <2>1, <2>4, <3>1, <4>2, <4>3, <4>4 DEF y
    <3>2. CASE p.scale % p.unit = 0 /\ p.offset % p.unit = 0
      <4> DEFINE e == raw * (p.scale \div p.unit) + (p.offset \div p.unit)
      <4>1. e \in Int /\ x = e * p.unit
        <5> DEFINE s == p.scale \div p.unit
                   o == p.offset \div p.unit
                   u == p.unit
        <5>1. s \in Int /\ o \in Int /\ p.scale = u * s /\ p.offset = u * o
          BY <2>1, <3>2
        <5> HIDE DEF s, o, u
        <5>2. raw * (u * s) + u * o = (raw * s + o) * u
          BY <2>1, <2>2, <5>1 DEF u
        <5>3. raw * s + o \in Int
          BY <2>2, <5>1
        <5> QED BY <5>1, <5>2, <5>3 DEF s, o, u
      <4>2. k = e
        <5> HIDE DEF e, k, x
        <5>1. e * p.unit - x = 0
          BY <2>1, <2>3, <4>1
        <5>2. 2 * Magnitude(e * p.unit - x) < Magnitude(p.unit)
          BY <2>1, <5>1 DEF Magnitude
        <5>3. 2 * Magnitude(k * p.unit - x) <= Magnitude(p.unit)
          BY <2>4
        <5> QED BY <2>1, <2>3, <2>4, <4>1, <5>2, <5>3, OneNearest
      <4>3. v = x
        BY <4>1, <4>2
      <4>4. raw * p.scale - (v - p.offset) = 0
        <5> HIDE DEF v
        <5> QED BY <2>1, <2>3, <4>3
      <4> QED BY <2>1, <4>4 DEF Magnitude
    <3> QED BY <1>4, <3>1, <3>2
  <2>9. q = raw
    <3>1. v - p.offset \in Int
      <4> HIDE DEF v
      <4> QED BY <2>1, <2>5
    <3> HIDE DEF v
    <3> QED BY <2>1, <2>2, <2>7, <2>8, <3>1, OneNearest
  <2> QED BY <2>6, <2>7, <2>9
<1> QED BY <1>3, <1>4

-----------------------------------------------------------------------------
\* Types.

LEMMA PointParsed == point \in Points => Parsed(point)
  BY BusAssumption

LEMMA TypedInit == Init => TypeOK
<1> SUFFICES ASSUME Init
             PROVE  TypeOK
  OBVIOUS
<1>1. register \in WordsOf(point)
  <2>1. 0 \in Word
    BY CodecAssumption DEF Word
  <2>2. CASE Wide(point)
    <3>1. register = <<0, 0>>
      BY <2>2 DEF Init
    <3> QED BY <2>1, <2>2, <3>1 DEF WordsOf
  <2>3. CASE ~Wide(point)
    <3>1. register = <<0>>
      BY <2>3 DEF Init
    <3> QED BY <2>1, <2>3, <3>1 DEF WordsOf
  <2> QED BY <2>2, <2>3
<1>2. adapter \in BOOLEAN /\ current \in BOOLEAN
  BY DEF Init
<1> QED BY <1>1, <1>2, BusAssumption DEF Init, TypeOK, NoRequest

\* The parts of the type that a transaction touches, and the others.
BusTyped ==
    /\ settings \in Settings /\ client \in Settings \union {None, Broken}
    /\ timeouts \in [Slaves -> 0..(AfterTimeouts - 1)]
    /\ delay \in [Slaves -> 0..Limit] /\ left \in [Slaves -> 0..Limit]
    /\ \A s \in Slaves : left[s] <= delay[s]
    /\ silent \in [Slaves -> 0..AfterTimeouts]
    /\ events \in 0..MaxEvents

FieldTyped == adapter \in BOOLEAN /\ up \subseteq Slaves /\ heard \subseteq Slaves

ValuesTyped ==
    /\ point \in Points
    /\ register \in WordsOf(point)
    /\ request.words \in WordsOf(point) \union {Refused}
    /\ current \in BOOLEAN

LEMMA TypeParts == TypeOK <=> BusTyped /\ FieldTyped /\ ValuesTyped
  BY DEF TypeOK, BusTyped, FieldTyped, ValuesTyped

LEMMA HappensTyped == events \in 0..MaxEvents /\ Happens => events' \in 0..MaxEvents
  BY BusAssumption DEF Happens

LEMMA TimeoutTyped ==
  ASSUME BusTyped, NEW s \in Slaves, NoteTimeout(s)
  PROVE  /\ timeouts' \in [Slaves -> 0..(AfterTimeouts - 1)]
         /\ delay' \in [Slaves -> 0..Limit] /\ left' \in [Slaves -> 0..Limit]
         /\ \A r \in Slaves : left'[r] <= delay'[r]
         /\ silent' \in [Slaves -> 0..AfterTimeouts]
<1> DEFINE d == IF delay[s] # 0 THEN (IF 2 * delay[s] < Limit THEN 2 * delay[s] ELSE Limit)
                ELSE IF timeouts[s] + 1 < AfterTimeouts THEN 0 ELSE Start
           t == IF d = 0 THEN timeouts[s] + 1 ELSE 0
           m == IF silent[s] < AfterTimeouts THEN silent[s] + 1 ELSE silent[s]
<1>1. timeouts[s] \in 0..(AfterTimeouts - 1) /\ delay[s] \in 0..Limit /\ silent[s] \in 0..AfterTimeouts
  BY DEF BusTyped
<1>2. d \in 0..Limit
  BY <1>1, BusAssumption
<1>3. t \in 0..(AfterTimeouts - 1) /\ m \in 0..AfterTimeouts
  BY <1>1, BusAssumption
<1>4. /\ timeouts' = [timeouts EXCEPT ![s] = t]
      /\ delay' = [delay EXCEPT ![s] = d]
      /\ left' = [left EXCEPT ![s] = d]
      /\ silent' = [silent EXCEPT ![s] = m]
  BY DEF NoteTimeout, BusTyped
<1> HIDE DEF d, t, m
<1> QED BY <1>2, <1>3, <1>4 DEF BusTyped

LEMMA AliveTyped ==
  ASSUME BusTyped, NEW s \in Slaves, NoteAlive(s)
  PROVE  /\ timeouts' \in [Slaves -> 0..(AfterTimeouts - 1)]
         /\ delay' \in [Slaves -> 0..Limit] /\ left' \in [Slaves -> 0..Limit]
         /\ \A r \in Slaves : left'[r] <= delay'[r]
         /\ silent' \in [Slaves -> 0..AfterTimeouts]
BY BusAssumption DEF NoteAlive, BusTyped

LEMMA TransactTyped ==
  ASSUME BusTyped, NEW s \in Slaves, NEW honors, NEW outcome, Transact(s, honors, outcome),
         UNCHANGED settings
  PROVE  BusTyped'
<1>1. client' \in Settings \union {None, Broken}
  BY DEF Transact, BusTyped, Opened
<1>2. events' \in 0..MaxEvents
  BY HappensTyped DEF Transact, BusTyped
<1>3. NoteTimeout(s) \/ NoteAlive(s) \/ UNCHANGED <<timeouts, delay, left, silent>>
  BY DEF Transact, backoff
<1>4. /\ timeouts' \in [Slaves -> 0..(AfterTimeouts - 1)]
      /\ delay' \in [Slaves -> 0..Limit] /\ left' \in [Slaves -> 0..Limit]
      /\ \A r \in Slaves : left'[r] <= delay'[r]
      /\ silent' \in [Slaves -> 0..AfterTimeouts]
  BY <1>3, TimeoutTyped, AliveTyped DEF BusTyped
<1> QED BY <1>1, <1>2, <1>4 DEF BusTyped

LEMMA NoRequestTyped == request' = NoRequest => request'.words = Refused
  BY DEF NoRequest

LEMMA TypedNext == TypeOK /\ [Next]_vars => TypeOK'
<1> SUFFICES ASSUME BusTyped, FieldTyped, ValuesTyped, [Next]_vars
             PROVE  BusTyped' /\ FieldTyped' /\ ValuesTyped'
  BY TypeParts DEF TypeOK, BusTyped, FieldTyped, ValuesTyped
<1>1. ASSUME UNCHANGED <<point, register, current>>, request' = NoRequest
      PROVE  ValuesTyped'
  BY <1>1, NoRequestTyped DEF ValuesTyped
<1>2. CASE Configure
  <2>1. BusTyped'
    BY <1>2, HappensTyped DEF Configure, BusTyped, backoff
  <2>2. FieldTyped'
    BY <1>2 DEF Configure, FieldTyped, field
  <2> QED BY <1>1, <1>2, <2>1, <2>2 DEF Configure
<1>3. ASSUME NEW s \in Slaves, Poll(s)
      PROVE  BusTyped' /\ FieldTyped' /\ ValuesTyped'
  <2>1. BusTyped'
    BY <1>3, TransactTyped DEF Poll
  <2>2. FieldTyped'
    BY <1>3 DEF Poll, FieldTyped, field
  <2>3. ValuesTyped'
    BY <1>3, NoRequestTyped DEF Poll, ValuesTyped
  <2> QED BY <2>1, <2>2, <2>3
<1>4. ASSUME NEW s \in Slaves, Probe(s)
      PROVE  BusTyped' /\ FieldTyped' /\ ValuesTyped'
  <2>1. BusTyped'
    BY <1>4, TransactTyped DEF Probe
  <2>2. FieldTyped'
    BY <1>4 DEF Probe, FieldTyped, field
  <2> QED BY <1>1, <1>4, <2>1, <2>2 DEF Probe
<1>5. ASSUME NEW s \in Slaves, SlaveDies(s) \/ SlaveReturns(s)
      PROVE  BusTyped' /\ FieldTyped' /\ ValuesTyped'
  <2>1. BusTyped'
    BY <1>5, HappensTyped DEF SlaveDies, SlaveReturns, BusTyped, backoff
  <2>2. FieldTyped'
    BY <1>5 DEF SlaveDies, SlaveReturns, FieldTyped
  <2> QED BY <1>1, <1>5, <2>1, <2>2 DEF SlaveDies, SlaveReturns
<1>6. ASSUME NEW value \in Asked, Write(value)
      PROVE  BusTyped' /\ FieldTyped' /\ ValuesTyped'
  <2> DEFINE words == Encode(point, value)
  <2>1. Parsed(point) /\ point.bit = NoBit
    BY <1>6, PointParsed DEF Write, Writable, ValuesTyped
  <2>2. words \in WordsOf(point) \union {Refused}
    BY <2>1, Encoded
  <2>3. BusTyped'
    <3>1. CASE words = Refused
      BY <1>6, <3>1, HappensTyped DEF Write, BusTyped, backoff
    <3>2. CASE words # Refused
      <4>1. PICK outcome \in Outcomes : Transact(Home, FALSE, outcome)
        BY <1>6, <3>2 DEF Write
      <4>2. UNCHANGED settings
        BY <1>6 DEF Write
      <4> QED BY <4>1, <4>2, BusAssumption, TransactTyped
    <3> QED BY <3>1, <3>2
  <2>4. FieldTyped'
    BY <1>6 DEF Write, FieldTyped, field
  <2>5. request'.words = words /\ UNCHANGED point
    BY <1>6 DEF Write
  <2>6. register' \in {register, words} /\ (register' = register \/ words # Refused)
    BY <1>6 DEF Write
  <2>7. current' \in BOOLEAN
    BY <1>6 DEF Write, ValuesTyped
  <2> HIDE DEF words
  <2>8. ValuesTyped'
    BY <2>2, <2>5, <2>6, <2>7 DEF ValuesTyped
  <2> QED BY <2>3, <2>4, <2>8
<1>7. CASE Tick
  <2>1. left' \in [Slaves -> 0..Limit] /\ \A s \in Slaves : left'[s] <= delay[s]
    BY <1>7, BusAssumption DEF Tick, BusTyped
  <2>2. BusTyped'
    BY <1>7, <2>1 DEF Tick, BusTyped
  <2>3. FieldTyped'
    BY <1>7 DEF Tick, FieldTyped, field
  <2> QED BY <1>1, <1>7, <2>2, <2>3 DEF Tick
<1>8. CASE Unplugs \/ Plugs
  <2>1. BusTyped'
    BY <1>8, HappensTyped DEF Unplugs, Plugs, BusTyped, backoff
  <2>2. FieldTyped'
    BY <1>8 DEF Unplugs, Plugs, FieldTyped
  <2> QED BY <1>1, <1>8, <2>1, <2>2 DEF Unplugs, Plugs
<1>9. CASE RegisterChanges
  <2>1. BusTyped'
    BY <1>9, HappensTyped DEF RegisterChanges, BusTyped, backoff
  <2>2. FieldTyped'
    BY <1>9 DEF RegisterChanges, FieldTyped, field
  <2>3. ValuesTyped'
    BY <1>9, NoRequestTyped DEF RegisterChanges, ValuesTyped
  <2> QED BY <2>1, <2>2, <2>3
<1>10. CASE UNCHANGED vars
  BY <1>10 DEF vars, backoff, field, values, BusTyped, FieldTyped, ValuesTyped
<1> QED BY <1>2, <1>3, <1>4, <1>5, <1>6, <1>7, <1>8, <1>9, <1>10 DEF Next

(* Whatever is asked of the points that parse_config lets through and      *)
(* whatever happens on the bus, the counts stay below                      *)
(* BACKOFF_AFTER_TIMEOUTS, no delay exceeds BACKOFF_MAX_S, and the words   *)
(* that are written are as many as the point has, each a word.             *)
THEOREM TypeCorrect == Spec => []TypeOK
<1> QED BY TypedInit, TypedNext, PTL DEF Spec

-----------------------------------------------------------------------------
\* Values.

\* What is shown and what was written, by the codec's two directions.
ShownInv == current => shown = Decode(point, register)

RequestInv ==
    \/ request = NoRequest
    \/ /\ Writable /\ request.value \in Asked
       /\ request.words = Encode(point, request.value)

LEMMA ValuesInit == Init => ShownInv /\ RequestInv
  BY DEF Init, ShownInv, RequestInv

LEMMA ShownNext == ShownInv /\ [Next]_vars => ShownInv'
<1> SUFFICES ASSUME ShownInv, [Next]_vars
             PROVE  ShownInv'
  OBVIOUS
<1>1. ASSUME NEW s \in Slaves, Poll(s)
      PROVE  ShownInv'
  BY <1>1 DEF Poll, ShownInv
<1>2. ASSUME NEW value \in Asked, Write(value)
      PROVE  ShownInv'
  BY <1>2 DEF Write, ShownInv
<1>3. CASE RegisterChanges
  BY <1>3 DEF RegisterChanges, ShownInv
<1>4. ASSUME NEW s \in Slaves, Probe(s) \/ SlaveDies(s) \/ SlaveReturns(s)
      PROVE  ShownInv'
  BY <1>4 DEF Probe, SlaveDies, SlaveReturns, ShownInv
<1>5. CASE Configure \/ Tick \/ Unplugs \/ Plugs \/ UNCHANGED vars
  BY <1>5 DEF Configure, Tick, Unplugs, Plugs, vars, values, ShownInv
<1> QED BY <1>1, <1>2, <1>3, <1>4, <1>5 DEF Next

LEMMA RequestNext == RequestInv /\ [Next]_vars => RequestInv'
<1> SUFFICES ASSUME RequestInv, [Next]_vars
             PROVE  RequestInv'
  OBVIOUS
<1>1. ASSUME NEW value \in Asked, Write(value)
      PROVE  RequestInv'
  BY <1>1 DEF Write, Writable, RequestInv
<1>2. CASE UNCHANGED vars
  BY <1>2 DEF vars, values, Writable, RequestInv
<1>3. ASSUME request' = NoRequest
      PROVE  RequestInv'
  BY <1>3 DEF RequestInv
<1>4. CASE Configure \/ Tick \/ Unplugs \/ Plugs \/ RegisterChanges
  BY <1>3, <1>4 DEF Configure, Tick, Unplugs, Plugs, RegisterChanges
<1>5. ASSUME NEW s \in Slaves, Poll(s) \/ Probe(s) \/ SlaveDies(s) \/ SlaveReturns(s)
      PROVE  RequestInv'
  BY <1>3, <1>5 DEF Poll, Probe, SlaveDies, SlaveReturns
<1> QED BY <1>1, <1>2, <1>4, <1>5 DEF Next

LEMMA ShownFollows == TypeOK /\ ShownInv => ShownIsRegister
<1> SUFFICES ASSUME TypeOK, ShownInv, current
             PROVE  /\ shown = Decode(point, register)
                    /\ Writable /\ Exact => Encode(point, shown) = register
  BY DEF ShownIsRegister
<1>1. shown = Decode(point, register)
  BY DEF ShownInv
<1>2. ASSUME Writable, Exact
      PROVE  Encode(point, shown) = register
  <2>1. Parsed(point) /\ point.bit = NoBit /\ register \in WordsOf(point)
    BY <1>2, PointParsed DEF Writable, TypeOK
  <2>2. IF point.map # << >> THEN Keyed(point, RawFromWords(point, register)) # {}
        ELSE \/ point.unit < Magnitude(point.scale)
             \/ point.scale % point.unit = 0 /\ point.offset % point.unit = 0
    BY <1>2 DEF Exact, Register
  <2> QED BY <1>1, <2>1, <2>2, ShownAgain
<1> QED BY <1>1, <1>2

LEMMA NearestFollows == TypeOK /\ RequestInv => WriteIsNearest
<1> DEFINE value == request.value
           raw == RawFromWords(point, request.words)
<1> SUFFICES ASSUME TypeOK, RequestInv, request # NoRequest
             PROVE  IF point.map # << >>
                    THEN \/ request.words = Refused /\ \A i \in DOMAIN point.map : point.map[i][1] # value
                         \/ \E i \in DOMAIN point.map : point.map[i] = <<value, raw>>
                    ELSE IF request.words = Refused
                    THEN Len(value) # 1
                           \/ \A r \in RawRange(point) :
                                  Distance(value, r) >= Magnitude(point.scale)
                    ELSE Distance(value, raw) <= Magnitude(point.scale)
  BY DEF WriteIsNearest
<1>1. /\ Parsed(point) /\ point.bit = NoBit
      /\ value \in Value /\ request.words = Encode(point, value)
  BY PointParsed, BusAssumption DEF TypeOK, RequestInv, Writable
<1>2. \/ request.words = Refused /\ RawAsked(point, value) \intersect RawRange(point) = {}
      \/ request.words # Refused /\ raw \in RawAsked(point, value)
  BY <1>1, Encoded
<1>3. CASE point.map # << >>
  <2>1. RawAsked(point, value) = { point.map[i][2] : i \in { j \in DOMAIN point.map : point.map[j][1] = value } }
    BY <1>3 DEF RawAsked
  <2> HIDE DEF raw, value
  <2>2. CASE request.words = Refused
    <3>1. RawAsked(point, value) \intersect RawRange(point) = {}
      BY <1>2, <2>2
    <3>2. ASSUME NEW i \in DOMAIN point.map, point.map[i][1] = value
          PROVE  FALSE
      <4>1. point.map[i][2] \in RawAsked(point, value)
        BY <2>1, <3>2
      <4>2. point.map[i][2] \in RawRange(point)
        BY <1>1, <3>2, Mapped
      <4> QED BY <3>1, <4>1, <4>2
    <3> QED BY <1>3, <2>2, <3>2
  <2>3. CASE request.words # Refused
    <3>1. PICK i \in DOMAIN point.map : point.map[i][1] = value /\ point.map[i][2] = raw
      BY <1>2, <2>1, <2>3
    <3>2. point.map[i] = <<value, raw>>
      BY <1>1, <3>1, Mapped
    <3> QED BY <1>3, <3>2
  <2> QED BY <2>2, <2>3
<1>4. CASE point.map = << >> /\ Len(value) # 1
  <2>1. RawAsked(point, value) = {}
    BY <1>4 DEF RawAsked
  <2> QED BY <1>2, <1>4, <2>1
<1>5. CASE point.map = << >> /\ Len(value) = 1
  <2> DEFINE n == value[1]
             s == point.scale
             o == point.offset
             q == RoundHalfAway(n - o, s)
  <2>1. n \in Int /\ value = <<n>>
    BY <1>1, <1>5 DEF Value
  <2>2. s \in Int \ {0} /\ o \in Int
    BY <1>1 DEF Parsed
  <2>3. /\ RawAsked(point, value) = {q} /\ q \in Int
        /\ 2 * Magnitude(q * s - (n - o)) <= Magnitude(s)
    <3> HIDE DEF value
    <3> QED BY <1>1, <1>5, <2>1, NumberAsked
  <2> HIDE DEF raw, q
  <2>4. \A r \in Int : Distance(value, r) = 2 * Magnitude(r * s - (n - o))
    <3> TAKE r \in Int
    <3>1. r * s \in Int
      BY <2>2
    <3>2. r * s + o - n = r * s - (n - o)
      <4> HIDE DEF s, o, n
      <4> QED BY <2>1, <2>2, <3>1
    <3> QED BY <3>2 DEF Distance
  <2>5. CASE request.words # Refused
    <3>1. raw = q
      BY <1>2, <2>3, <2>5
    <3> QED BY <1>5, <2>3, <2>4, <2>5, <3>1
  <2>6. CASE request.words = Refused
    <3>1. q \notin RawRange(point)
      BY <1>2, <2>3, <2>6
    <3>2. ASSUME NEW r \in RawRange(point)
          PROVE  Distance(value, r) >= Magnitude(s)
      <4>1. r \in Int
        <5>1. Base \div 2 \in Int /\ (Base * Base) \div 2 \in Int /\ Base \in Int /\ Base * Base \in Int
          BY Sizes
        <5> QED BY <5>1 DEF RawRange
      <4>2. q # r
        BY <3>1
      <4> DEFINE a == n - o
      <4>3. a \in Int
        <5> HIDE DEF n, o
        <5> QED BY <2>1, <2>2
      <4>4. 2 * Magnitude(q * s - a) <= Magnitude(s)
        BY <2>3
      <4>5. Distance(value, r) = 2 * Magnitude(r * s - a)
        BY <2>4, <4>1
      <4> HIDE DEF a, s
      <4>6. ~ (2 * Magnitude(r * s - a) < Magnitude(s))
        BY <2>2, <2>3, <4>1, <4>2, <4>3, <4>4, OneNearest
      <4>7. r * s \in Int
        BY <2>2, <4>1
      <4>8. 2 * Magnitude(r * s - a) \in Int /\ Magnitude(s) \in Int
        BY <2>2, <4>3, <4>7 DEF Magnitude
      <4> QED BY <4>5, <4>6, <4>8
    <3> QED BY <1>5, <2>6, <3>2
  <2> QED BY <2>5, <2>6
<1> QED BY <1>3, <1>4, <1>5

(* After any polls, writes and failures, the value that was last published *)
(* is what the register stands for, unless it changed at the device since; *)
(* and asked for again it is written as the same words, for every width of *)
(* a word, type, word order, scale, offset, number of decimals that tells  *)
(* the values apart, and map (codec.py decode and encode).                 *)
THEOREM ShownRight == Spec => []ShownIsRegister
<1> QED BY TypedInit, TypedNext, ValuesInit, ShownNext, ShownFollows, PTL DEF Spec

(* Every write is of the number nearest to what was asked, and it is       *)
(* refused only if no number of the register's is within half a step: for  *)
(* every width, type, scale and offset, and by the map where there is one. *)
THEOREM NearestWritten == Spec => []WriteIsNearest
<1> QED BY TypedInit, TypedNext, ValuesInit, RequestNext, NearestFollows, PTL DEF Spec


-----------------------------------------------------------------------------
\* What keeps a slave from being heard.

\* An open client has the settings the bus was configured with last.
OpenFollows == client \in {None, Broken, settings}

\* Of a slave that is there, at the right settings, no wait gets longer and every
\* poll that is due is answered, or finds the port gone and has it opened anew for
\* the next, unless an answer is lost; that is what the count of events goes up for.
HeardUnlessLost ==
    [][\A s \in Slaves : s \in up /\ adapter /\ settings = Right =>
           /\ left'[s] <= left[s] \/ events' = events + 1
           /\ Poll(s) /\ ~BackingOff(s) =>
                  s \in heard' \/ (client = Broken /\ client' = None) \/ events' = events + 1]_vars

LEMMA TransactOpens ==
  ASSUME OpenFollows, NEW s \in Slaves, NEW honors, NEW outcome, Transact(s, honors, outcome),
         UNCHANGED settings
  PROVE  OpenFollows'
  BY DEF Transact, Opened, OpenFollows

LEMMA OpenNext == OpenFollows /\ [Next]_vars => OpenFollows'
<1> SUFFICES ASSUME OpenFollows, [Next]_vars
             PROVE  OpenFollows'
  OBVIOUS
<1>1. ASSUME NEW s \in Slaves, Poll(s) \/ Probe(s)
      PROVE  OpenFollows'
  BY <1>1, TransactOpens DEF Poll, Probe
<1>2. ASSUME NEW value \in Asked, Write(value)
      PROVE  OpenFollows'
  <2>1. /\ UNCHANGED settings
        /\ (\E outcome \in Outcomes : Transact(Home, FALSE, outcome)) \/ UNCHANGED client
    BY <1>2 DEF Write
  <2> QED BY <2>1, BusAssumption, TransactOpens DEF OpenFollows
<1>3. CASE Configure \/ Tick \/ Unplugs \/ Plugs \/ RegisterChanges
  BY <1>3 DEF Configure, Tick, Unplugs, Plugs, RegisterChanges, OpenFollows
<1>4. ASSUME NEW s \in Slaves, SlaveDies(s) \/ SlaveReturns(s)
      PROVE  OpenFollows'
  BY <1>4 DEF SlaveDies, SlaveReturns, OpenFollows
<1>5. CASE UNCHANGED vars
  BY <1>5 DEF vars, OpenFollows
<1> QED BY <1>1, <1>2, <1>3, <1>4, <1>5 DEF Next

\* A transaction with any slave lengthens no wait of one that is there.
LEMMA TransactWaits ==
  ASSUME OpenFollows, BusTyped, NEW r \in Slaves, NEW honors, NEW outcome, Transact(r, honors, outcome),
         NEW s \in Slaves, s \in up, adapter, settings = Right
  PROVE  left'[s] <= left[s] \/ events' = events + 1
<1>1. left \in [Slaves -> Nat]
  BY BusAssumption DEF BusTyped
<1>2. client # Broken => Opened = Right
  BY DEF OpenFollows, Opened
<1>3. CASE UNCHANGED left
  BY <1>1, <1>3
<1>4. CASE NoteAlive(r)
  BY <1>1, <1>4 DEF NoteAlive
<1>5. CASE NoteTimeout(r) /\ client # Broken /\ (IF r \in up /\ Opened = Right THEN Happens ELSE UNCHANGED events)
  <2>1. CASE r = s
    BY <1>2, <1>5, <2>1 DEF Happens
  <2>2. CASE r # s
    <3>1. left'[s] = left[s]
      BY <1>1, <1>5, <2>2 DEF NoteTimeout
    <3> QED BY <1>1, <3>1
  <2> QED BY <2>1, <2>2
<1>6. UNCHANGED left \/ NoteAlive(r)
        \/ (NoteTimeout(r) /\ client # Broken /\ (IF r \in up /\ Opened = Right THEN Happens ELSE UNCHANGED events))
  BY DEF Transact, backoff
<1> QED BY <1>3, <1>4, <1>5, <1>6

LEMMA WaitsNext ==
  ASSUME OpenFollows, BusTyped, [Next]_vars, NEW s \in Slaves, s \in up, adapter, settings = Right
  PROVE  left'[s] <= left[s] \/ events' = events + 1
<1>1. left \in [Slaves -> Nat]
  BY BusAssumption DEF BusTyped
<1>2. ASSUME NEW r \in Slaves, Poll(r) \/ Probe(r)
      PROVE  left'[s] <= left[s] \/ events' = events + 1
  BY <1>2, TransactWaits DEF Poll, Probe
<1>3. ASSUME NEW value \in Asked, Write(value)
      PROVE  left'[s] <= left[s] \/ events' = events + 1
  <2>1. (\E outcome \in Outcomes : Transact(Home, FALSE, outcome)) \/ UNCHANGED left
    BY <1>3 DEF Write, backoff
  <2>2. ASSUME NEW outcome \in Outcomes, Transact(Home, FALSE, outcome)
        PROVE  left'[s] <= left[s] \/ events' = events + 1
    BY <2>2, BusAssumption, TransactWaits
  <2>3. CASE UNCHANGED left
    BY <1>1, <2>3
  <2> QED BY <2>1, <2>2, <2>3
<1>4. CASE Tick
  <2>1. left'[s] = IF left[s] = 0 THEN 0 ELSE left[s] - 1
    BY <1>4 DEF Tick
  <2> QED BY <1>1, <2>1
<1>5. ASSUME UNCHANGED left
      PROVE  left'[s] <= left[s]
  BY <1>1, <1>5
<1>6. CASE Configure \/ Unplugs \/ Plugs \/ RegisterChanges
  BY <1>5, <1>6 DEF Configure, Unplugs, Plugs, RegisterChanges, backoff
<1>7. ASSUME NEW r \in Slaves, SlaveDies(r) \/ SlaveReturns(r)
      PROVE  left'[s] <= left[s]
  BY <1>5, <1>7 DEF SlaveDies, SlaveReturns, backoff
<1>8. CASE UNCHANGED vars
  BY <1>5, <1>8 DEF vars, backoff
<1> QED BY <1>2, <1>3, <1>4, <1>6, <1>7, <1>8 DEF Next

LEMMA DueHeard ==
  ASSUME OpenFollows, NEW s \in Slaves, s \in up, adapter, settings = Right, Poll(s), ~BackingOff(s)
  PROVE  s \in heard' \/ (client = Broken /\ client' = None) \/ events' = events + 1
<1>1. PICK outcome \in Outcomes :
          /\ Transact(s, TRUE, outcome)
          /\ heard' = IF outcome \in {"answer", "exception"} THEN heard \union {s} ELSE heard \ {s}
  BY DEF Poll
<1>2. client # Broken => Opened = Right
  BY DEF OpenFollows, Opened
<1>3. CASE outcome \in {"answer", "exception"}
  BY <1>1, <1>3
<1>4. CASE outcome \notin {"answer", "exception"}
  BY <1>1, <1>2, <1>4 DEF Transact, Happens
<1> QED BY <1>3, <1>4

(* An action property, the safety half of ReturnNoticed: the backoff that  *)
(* a slave earned while it was away, a client that was opened for other    *)
(* settings and a port that was unplugged do not keep its polls from it    *)
(* once it is back: each wait only runs down, however other slaves fare    *)
(* and whatever is written or probed, and the poll after it is answered.   *)
THEOREM NothingHoldsBack == Spec => []OpenFollows /\ HeardUnlessLost
<1>1. Init => OpenFollows
  BY DEF Init, OpenFollows
<1>2. OpenFollows /\ TypeOK /\ [Next]_vars =>
          [\A s \in Slaves : s \in up /\ adapter /\ settings = Right =>
               /\ left'[s] <= left[s] \/ events' = events + 1
               /\ Poll(s) /\ ~BackingOff(s) =>
                      s \in heard' \/ (client = Broken /\ client' = None) \/ events' = events + 1]_vars
  BY TypeParts, WaitsNext, DueHeard
<1> QED BY <1>1, <1>2, OpenNext, TypeCorrect, PTL DEF Spec, HeardUnlessLost
==============================================================================
