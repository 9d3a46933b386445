----------------------------- MODULE MCModbusBus -----------------------------
EXTENDS ModbusBus

CONSTANTS relay, s1, s2

\* A point of a plain unsigned word, from which the others differ.
MCPlain == [table |-> "hr", type |-> "u16", wordOrder |-> "be", bit |-> NoBit,
            scale |-> One, offset |-> 0, unit |-> One, map |-> << >>]

\* A text that is no number.
MCOn == <<0, 1>>

\* With a scale of a half, and an offset; with a scale that turns it round; in
\* two words, with too few decimals or in the other order; a coil; and with names for some of its values.
MCPoints ==
    { [MCPlain EXCEPT !.scale = One \div 2, !.offset = 3, !.unit = 1],
      [MCPlain EXCEPT !.type = "i16", !.scale = -2 * One],
      [MCPlain EXCEPT !.type = "i32", !.unit = 2 * One],
      [MCPlain EXCEPT !.type = "u32", !.wordOrder = "le"],
      [MCPlain EXCEPT !.table = "co"],
      [MCPlain EXCEPT !.table = "ir", !.bit = 1],
      [MCPlain EXCEPT !.map = << <<<<One>>, 3>>, <<<<2 * One>>, 3>>, <<<<0>>, 0>>, <<MCOn, 1>> >>] }

MCAsked == {NoNumber, MCOn} \union { <<v>> : v \in {-33, -30, -4, -1, 0, 1, 4, 5, 6, 10, 14, 62} }
=============================================================================
