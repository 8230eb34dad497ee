----------------------------- MODULE Characters -----------------------------
(***************************************************************************)
(* The characters the lexer reads, by their codes, with the tests of       *)
(* ctype.h it makes in the C locale and the type char it keeps them in.    *)
(***************************************************************************)
EXTENDS Integers, Sequences, TLC

\* What getchar returns after the last character.
EOF == -1

LF == 10

Bytes == 0..255

\* The function whose pairs of an argument and its value are given.
Pairing(pairs) ==
  [x \in {p[1] : p \in pairs} |-> (CHOOSE p \in pairs : p[1] = x)[2]]

\* The codes of the characters the lexer tells apart.
CharacterCodes ==
  {<<"\t", 9>>, <<"space", 32>>, <<"!", 33>>, <<"quote", 34>>, <<"&", 38>>, <<"'", 39>>,
   <<"(", 40>>, <<")", 41>>, <<"*", 42>>, <<"+", 43>>, <<"comma", 44>>, <<"-", 45>>,
   <<".", 46>>, <<"/", 47>>, <<"0", 48>>, <<"1", 49>>, <<"7", 55>>, <<"semicolon", 59>>,
   <<"<", 60>>, <<"=", 61>>, <<">", 62>>, <<"backslash", 92>>, <<"underscore", 95>>, <<"a", 97>>,
   <<"b", 98>>, <<"e", 101>>, <<"f", 102>>, <<"h", 104>>, <<"n", 110>>,
   <<"o", 111>>, <<"t", 116>>}

Code == Pairing(CharacterCodes)

Blanks == (9..13) \cup {32}
Digits == 48..57
Uppers == 65..90
Letters == Uppers \cup (97..122)

ToLower(c) == IF c \in Uppers THEN c + 32 ELSE c

\* The cast to char, signed: the byte 255 becomes EOF.
CharOf(c) == IF c > 127 THEN c - 256 ELSE c

\* The digits of a base, by the letter after the ampersand.
DigitsOf == Pairing(
  {<<Code["b"], 48..49>>, <<Code["o"], 48..55>>,
   <<Code["h"], Digits \cup (65..70) \cup (97..102)>>})

BaseOf == Pairing({<<Code["b"], 2>>, <<Code["o"], 8>>, <<Code["h"], 16>>})

DigitValue(d) == IF d \in Digits THEN d - 48 ELSE ToLower(d) - 87
=============================================================================
