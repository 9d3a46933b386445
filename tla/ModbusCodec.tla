----------------------------- MODULE ModbusCodec -----------------------------
(***************************************************************************)
(* The Modbus gateway's codec (examples/modbus-gateway, codec.py): the     *)
(* words of a register to the value of its datastream and back.            *)
(*                                                                         *)
(* Decimal numbers are integers, counted in the smallest decimal that any  *)
(* point uses (One of them make 1): the code rounds away what binary       *)
(* floating point adds.  A value is a sequence of integers: a singleton    *)
(* stands for its number, any other for a text that is none.  A word has   *)
(* Base values, 2^16 in the code.  The type f32 is left out.               *)
(***************************************************************************)
EXTENDS Integers, Sequences, FiniteSetsExt

CONSTANTS
    Base, \* the number of values of a word
    One   \* the number 1

ASSUME CodecAssumption ==
    /\ Base \in Nat /\ Base > 1 /\ Base % 2 = 0
    /\ One \in Nat \ {0}

Word == 0..(Base - 1)
Value == Seq(Int)
NoBit == -1
NoNumber == << >>
Refused == << >>

Magnitude(x) == IF x < 0 THEN -x ELSE x

\* Points as parse_config lets them through: unit is the weight of the last
\* decimal that is shown (dp), map holds <<key, raw>> in the configuration's order.
Coil(point) == point.table \in {"co", "di"}
Wide(point) == ~Coil(point) /\ point.type \in {"u32", "i32"}
Signed(point) == point.type \in {"i16", "i32"}

\* INT_RANGES: the numbers a register of this type can hold.
RawRange(point) ==
    LET size == IF Wide(point) THEN Base * Base ELSE Base
    IN  IF Coil(point) \/ point.bit # NoBit THEN 0..1
        ELSE IF Signed(point) THEN -(size \div 2)..(size \div 2 - 1)
        ELSE 0..(size - 1)

\* _parse_point and _parse_map: a bit is one of a 16-bit register, a value in
\* the map one the register can hold, and no key is there twice.
Parsed(point) ==
    /\ point.table \in {"co", "di", "hr", "ir"}
    /\ point.type \in {"u16", "i16", "u32", "i32"} /\ point.wordOrder \in {"be", "le"}
    /\ \/ point.bit = NoBit
       \/ point.bit \in Nat /\ 2^point.bit < Base /\ ~Coil(point) /\ ~Wide(point)
    /\ point.scale \in Int \ {0} /\ point.offset \in Int /\ point.unit \in Nat \ {0}
    /\ point.map \in Seq(Value \X RawRange(point))
    /\ \A i, j \in DOMAIN point.map : point.map[i][1] = point.map[j][1] => i = j

\* a / b, rounded half away from zero
RoundHalfAway(a, b) ==
    LET q == (2 * Magnitude(a) + Magnitude(b)) \div (2 * Magnitude(b))
    IN  IF (a < 0) = (b < 0) THEN q ELSE -q

\* The most significant word first, or last.
Ordered(point, words) ==
    IF point.wordOrder = "le" THEN <<words[2], words[1]>> ELSE words

\* _raw_from_words
RawFromWords(point, words) ==
    LET size == IF Wide(point) THEN Base * Base ELSE Base
        w == Ordered(point, words)
        n == IF Wide(point) THEN w[1] * Base + w[2] ELSE words[1]
    IN  IF Coil(point) THEN (IF n = 0 THEN 0 ELSE 1)
        ELSE IF point.bit # NoBit THEN (n \div 2^point.bit) % 2
        ELSE IF Signed(point) /\ 2 * n >= size THEN n - size
        ELSE n

\* A slip: the word order is not looked at when writing.
WordsInOrder(point, raw) ==
    IF Wide(point)
    THEN LET n == raw % (Base * Base) IN <<n \div Base, n % Base>>
    ELSE <<raw % Base>>

\* The end of encode: two's complement, in one word or two.
WordsFromRaw(point, raw) ==
    IF Wide(point)
    THEN LET n == raw % (Base * Base) IN Ordered(point, <<n \div Base, n % Base>>)
    ELSE <<raw % Base>>

Keyed(point, raw) == { i \in DOMAIN point.map : point.map[i][2] = raw }

\* What a poll publishes: the first key of the register's value, or the number.
Decode(point, words) ==
    LET raw == RawFromWords(point, words)
    IN  IF Keyed(point, raw) # {} THEN point.map[Min(Keyed(point, raw))][1]
        ELSE <<RoundHalfAway(raw * point.scale + point.offset, point.unit) * point.unit>>

\* The register's value that is asked for, as a singleton, or none.
RawAsked(point, value) ==
    IF point.map # << >>
    THEN { point.map[i][2] : i \in { j \in DOMAIN point.map : point.map[j][1] = value } }
    ELSE IF Len(value) # 1 THEN {}
    ELSE {RoundHalfAway(value[1] - point.offset, point.scale)}

\* A slip: a value out of range is written as the nearest in range.
EncodeClamped(point, value) ==
    IF RawAsked(point, value) = {} THEN Refused
    ELSE LET raw == CHOOSE r \in RawAsked(point, value) : TRUE
             low == Min(RawRange(point))
             high == Max(RawRange(point))
         IN  WordsFromRaw(point, IF raw < low THEN low ELSE IF raw > high THEN high ELSE raw)

\* The words of a downlink value; never those of another value than was asked.
Encode(point, value) ==
    LET raws == RawAsked(point, value) \intersect RawRange(point)
    IN  IF raws = {} THEN Refused ELSE WordsFromRaw(point, CHOOSE r \in raws : TRUE)
=============================================================================
