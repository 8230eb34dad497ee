------------------------------- MODULE MCLexer -------------------------------
(***************************************************************************)
(* Texts for Lexer: all short texts over the characters of one part of the *)
(* language at a time, and strings with their opening already read.        *)
(***************************************************************************)
EXTENDS Lexer

CONSTANT MaxLength   \* of a text over a part of the alphabet

LOCAL Codes(chars) == {Code[c] : c \in chars}
LOCAL Upto(chars, n) == UNION {[1..k -> chars] : k \in 0..n}

MCNumbers == Upto(Codes({"1", ".", "e", "-"}), MaxLength)
MCBases == {<<Code["&"]>> \o t : t \in Upto({66, 79, 72} \cup Codes({"1", "7", "f"}), MaxLength - 2)}
MCWords == Upto(Codes({"a", "underscore", "1"}) \cup {LF, 83, 200, 255}, MaxLength - 2)
MCComments == Upto(Codes({"/", "'", "a"}) \cup {LF}, MaxLength)
MCOperators == Upto(Codes({"<", ">", "=", "+", "-", "*", "/", "backslash", "(", ")", "semicolon", "comma", "&", "!"}), 2)
MCStrings ==
  {<<Code["!"], Code["quote"]>> \o t : t \in Upto(Codes({"quote", "backslash", "n", "1", "7"}), MaxLength)
                                                 \cup Upto({9, 200, Code["quote"]}, 2)}

MCSources == MCNumbers \cup MCBases \cup MCWords \cup MCComments \cup MCOperators \cup MCStrings

\* "as", and for its prefixes "a", stand for the 35 keywords.
MCKeywords == {<<97, 115>>, <<97>>}
=============================================================================
