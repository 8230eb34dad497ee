----------------------------- MODULE LexerProofs -----------------------------
(***************************************************************************)
(* Proofs about the lexer, for every set of texts, every set of reserved   *)
(* words and every width of an integer: its type invariant, in which the   *)
(* stack of characters given back never holds more than one, that the      *)
(* parser gets every token once and in order, whatever it gives back, and  *)
(* that only blanks and comments stand between two tokens.                 *)
(*                                                                         *)
(* TypeOK alone is not inductive. That one place of the stack is enough    *)
(* follows from the stack being empty inside a token, a line comment or a  *)
(* block comment: a character is given back only at their end. That the    *)
(* number of lines stays within the text follows from each end of a line   *)
(* having been read, and not given back, by its own character. That        *)
(* nothing is lost takes an account of the text passed over since the last *)
(* token, whole pieces of it and the part of a comment being read.         *)
(***************************************************************************)
EXTENDS Lexer, SequenceTheorems, WellFoundedInduction, TLAPS

\* Control is inside a token or a comment.
Inside == UnfinishedStates \ {"INIT"}

IsSequence(s) == \E S : s \in Seq(S)

(* What the automaton knows of the text: no more characters are given back *)
(* than were read, and no more lines were counted than characters read.    *)
Placed ==
  /\ stack # <<>> => position > 0
  /\ line <= position - Len(stack) + 1
  /\ state \in Inside =>
       stack = <<>> /\ start \in Nat /\ start < position /\ line <= start + 1
  /\ state = "STRING_NUMERIC_CHAR" => Len(numeric_char_value) \in 1..2

(* What the parser has: the token given back is the last one it had.       *)
Delivered ==
  /\ TokensInOrder
  /\ IsSequence(tokens) /\ IsSequence(taken)
  /\ is_token_rewind => state = "IDLE"

LexerInvariant == TypeOK /\ Placed /\ Delivered

-----------------------------------------------------------------------------
(* The tables of characters.                                               *)

LEMMA PairingValue ==
  ASSUME NEW pairs, NEW c \in DOMAIN Pairing(pairs)
  PROVE  \E p \in pairs : p[1] = c /\ p[2] = Pairing(pairs)[c]
<1>1. PICK p \in pairs : p[1] = c
  BY DEF Pairing
<1>2. Pairing(pairs)[c] = (CHOOSE q \in pairs : q[1] = c)[2]
  BY DEF Pairing
<1>3. QED
  BY <1>1, <1>2

LEMMA Codes == \A c \in DOMAIN Code : Code[c] \in 9..127
<1> SUFFICES ASSUME NEW c \in DOMAIN Code PROVE Code[c] \in 9..127
  OBVIOUS
<1>1. PICK p \in CharacterCodes : p[1] = c /\ p[2] = Code[c]
  BY PairingValue DEF Code
<1>2. p[2] \in 9..127
  BY DEF CharacterCodes
<1>3. QED
  BY <1>1, <1>2

\* The characters the automaton names have codes.
LEMMA Named ==
  {"!", "quote", "'", "(", ")", "*", "+", "comma", "-", "/", "semicolon", "<",
   "=", ">", "backslash", "&", "underscore", "n", "t", "\t"} \subseteq DOMAIN Code
BY DEF Code, Pairing, CharacterCodes

\* No character that is a token or begins one leads into the middle of a token
\* when it is the end of the text, and none begins the digits of an escape.
LEMMA LeadsLead ==
  \A lead \in Leads :
    /\ lead[2] \in UnfinishedStates \cup FinalStates
    /\ lead[2] # "STRING_NUMERIC_CHAR"
    /\ lead[1] = EOF => lead[2] \notin Inside
<1> SUFFICES ASSUME NEW lead \in Leads
             PROVE  /\ lead[2] \in UnfinishedStates \cup FinalStates
                    /\ lead[2] # "STRING_NUMERIC_CHAR"
                    /\ lead[1] = EOF => lead[2] \notin Inside
  OBVIOUS
<1>1. lead[2] \in {"STRING_EXC", "COMMENT_LINE", "SLASH", "INTEGER_DIVIDE_UNFINISHED",
                   "ADD_UNFINISHED", "SUBTRACT_UNFINISHED", "MULTIPLY_UNFINISHED",
                   "LEFT_BRACKET", "RIGHT_BRACKET", "LEFT_SHARP_BRACKET",
                   "RIGHT_SHARP_BRACKET", "EQUAL", "SEMICOLON", "COMMA", "AMP", "EOF"}
  BY DEF Leads
<1>2. lead[2] # "EOF" => \E c \in DOMAIN Code : lead[1] = Code[c]
  BY Named DEF Leads
<1>3. lead[1] = EOF => lead[2] = "EOF"
  BY <1>2, Codes DEF EOF
<1>4. QED
  BY <1>1, <1>3 DEF UnfinishedStates, FinalStates, Inside

LEMMA EscapesAreCharacters == \A escape \in Escapes : escape[2] \in 9..127
BY Named, Codes DEF Escapes, LF

-----------------------------------------------------------------------------
(* One character.                                                          *)

\* A sequence of at most one element is empty or has that one.
LEMMA AtMostOne ==
  ASSUME NEW S, NEW s \in Seq(S), Len(s) <= 1
  PROVE  s = <<>> \/ (Len(s) = 1 /\ s[Len(s)] \in S)
<1>1. s = <<>> \/ Len(s) \in Nat \ {0}
  BY EmptySeq
<1>2. s = <<>> \/ Len(s) = 1
  <2> DEFINE n == Len(s)
  <2>1. s = <<>> \/ n \in Nat \ {0}
    BY <1>1
  <2>2. n <= 1
    OBVIOUS
  <2> HIDE DEF n
  <2>3. n \in Nat \ {0} => n = 1
    BY <2>2
  <2>4. s = <<>> \/ n = 1
    BY <2>1, <2>3
  <2>5. QED
    BY <2>4 DEF n
<1>3. Len(s) = 1 => Len(s) \in 1..Len(s)
  OBVIOUS
<1>4. Len(s) = 1 => s[Len(s)] \in S
  BY <1>3, ElementOfSeq
<1>5. QED
  BY <1>2, <1>4

LEMMA CharType ==
  ASSUME TypeOK
  PROVE  /\ Char \in -128..255 /\ CharOf(Char) \in -128..127
         /\ Rest = <<>>
         /\ Read => position' \in 0..Len(source) /\ position' \in {position, position + 1}
<1>1. /\ source \in Seq(Bytes) /\ position \in 0..Len(source)
      /\ stack \in Seq(-128..127) /\ Len(stack) <= 1
  BY SourcesAssumption DEF TypeOK
<1>2. Popped \in -128..127
  <2>1. stack = <<>> \/ (Len(stack) = 1 /\ stack[Len(stack)] \in -128..127)
    BY <1>1, AtMostOne
  <2>2. QED
    BY <2>1 DEF Popped, EOF, Last
<1>3. position < Len(source) => source[position + 1] \in 0..255
  <2>1. position < Len(source) => position + 1 \in 1..Len(source)
    BY <1>1, LenProperties
  <2>2. QED
    BY <1>1, <2>1, ElementOfSeq, SMTT(60) DEF Bytes
<1>4. Char \in -128..255
  BY <1>2, <1>3 DEF Char, EOF
<1>5. Rest = <<>>
  BY <1>1 DEF Rest, Front
<1>6. QED
  BY <1>1, <1>4, <1>5 DEF CharOf, Read

LEMMA LowerType ==
  ASSUME NEW c \in -128..255
  PROVE  CharOf(ToLower(c)) \in -128..127
BY DEF CharOf, ToLower, Uppers

(* What a call of lexer_fsm_next_state does to the text and the stack.     *)
Moved ==
  /\ source' = source /\ Read
  /\ state' \in UnfinishedStates \cup FinalStates
  /\ stream_buffer' \in Seq(-128..127)
  /\ numeric_char_value' \in Seq(Digits) /\ Len(numeric_char_value') <= 3
  /\ lexer_error' \in LexerErrors
  /\ state' = "STRING_NUMERIC_CHAR" => Len(numeric_char_value') \in 1..2
  /\ \/ stack' = <<>>
     \/ state \in Inside /\ state' \notin Inside /\ stack' = <<CharOf(Char)>>
  /\ \/ line' = line
     \/ state = "INIT" /\ Char = LF /\ state' \notin Inside /\ line' = line + 1
  /\ state = "INIT" /\ Char = EOF => state' \notin Inside

LEMMA SkipMoves ==
  ASSUME TypeOK, Placed, NEW to \in UnfinishedStates \cup FinalStates, Skip(to),
         to # "STRING_NUMERIC_CHAR",
         state = "INIT" /\ Char = EOF => to \notin Inside
  PROVE  Moved
BY CharType DEF Skip, Moved, TypeOK

LEMMA FailMoves ==
  ASSUME TypeOK, Placed, NEW error \in LexerErrors, Fail(error)
  PROVE  Moved
<1>1. "ERROR" \in UnfinishedStates \cup FinalStates /\ "ERROR" \notin Inside
  BY DEF UnfinishedStates, FinalStates, Inside
<1>2. QED
  BY <1>1, CharType DEF Fail, Moved, TypeOK

LEMMA StoreMoves ==
  ASSUME TypeOK, Placed, NEW to \in UnfinishedStates \cup FinalStates,
         NEW c, CharOf(c) \in -128..127, Store(c, to),
         to # "STRING_NUMERIC_CHAR",
         state = "INIT" /\ Char = EOF => to \notin Inside
  PROVE  Moved
BY CharType DEF Store, Moved, TypeOK

LEMMA RewindMoves ==
  ASSUME TypeOK, Placed, NEW to \in UnfinishedStates \cup FinalStates, Rewind(to),
         to \notin Inside, state \in Inside
  PROVE  Moved
<1>1. GiveBack(Rest, Char) = <<CharOf(Char)>>
  BY CharType DEF GiveBack, CHAR_STACK_MAX_LENGTH
<1>2. to # "STRING_NUMERIC_CHAR"
  BY DEF Inside, UnfinishedStates
<1>3. QED
  BY <1>1, <1>2, CharType DEF Rewind, Moved, TypeOK

-----------------------------------------------------------------------------
(* The cases of the switch.                                                *)

LEMMA InitMoves == TypeOK /\ Placed /\ FromInit => Moved
<1> SUFFICES ASSUME TypeOK, Placed, FromInit PROVE Moved
  OBVIOUS
<1>1. state = "INIT"
  BY DEF FromInit
<1>2. CASE /\ Char = LF
           /\ Read /\ stack' = Rest /\ state' = "EOL" /\ line' = line + 1
           /\ UNCHANGED <<source, stream_buffer, numeric_char_value, lexer_error>>
  <2>1. "EOL" \in FinalStates /\ "EOL" \notin Inside
    BY DEF FinalStates, Inside, UnfinishedStates
  <2>2. QED
    BY <1>1, <1>2, <2>1, CharType DEF Moved, TypeOK
<1>3. CASE Skip("INIT")
  <2>1. "INIT" \in UnfinishedStates /\ "INIT" \notin Inside
    BY DEF Inside, UnfinishedStates
  <2>2. QED
    BY <1>3, <2>1, SkipMoves
<1>4. CASE /\ Char \in Letters \cup {Code["underscore"]}
           /\ Store(ToLower(Char), "IDENTIFIER_UNFINISHED")
  <2>1. Char # EOF
    BY <1>4, Named, Codes DEF Letters, Uppers, EOF
  <2>2. "IDENTIFIER_UNFINISHED" \in UnfinishedStates
    BY DEF UnfinishedStates
  <2>3. CharOf(ToLower(Char)) \in -128..127
    BY CharType, LowerType, Zenon
  <2>4. QED
    BY <1>4, <2>1, <2>2, <2>3, StoreMoves
<1>5. CASE Char \in Digits /\ Store(Char, "INTEGER_LITERAL_UNFINISHED")
  <2>1. Char # EOF
    BY <1>5 DEF Digits, EOF
  <2>2. "INTEGER_LITERAL_UNFINISHED" \in UnfinishedStates
    BY DEF UnfinishedStates
  <2>3. QED
    BY <1>5, <2>1, <2>2, CharType, StoreMoves
<1>6. CASE \E lead \in Leads : Char = lead[1] /\ Skip(lead[2])
  <2>1. PICK lead \in Leads : Char = lead[1] /\ Skip(lead[2])
    BY <1>6
  <2>2. QED
    BY <2>1, LeadsLead, SkipMoves
<1>7. CASE Fail("ERROR_LEXEM")
  BY <1>7, FailMoves DEF LexerErrors
<1>8. QED
  BY <1>2, <1>3, <1>4, <1>5, <1>6, <1>7 DEF FromInit

\* The states in the middle of a token.
LEMMA InsideStates ==
  /\ Inside = {"AMP", "BINARY_START", "BINARY_UNFINISHED", "OCTA_START",
       "OCTA_UNFINISHED", "HEXA_START", "HEXA_UNFINISHED", "ADD_UNFINISHED",
       "SUBTRACT_UNFINISHED", "MULTIPLY_UNFINISHED", "INTEGER_DIVIDE_UNFINISHED",
       "COMMENT_LINE", "SLASH", "COMMENT_BLOCK", "COMMENT_BLOCK_END",
       "LEFT_SHARP_BRACKET", "RIGHT_SHARP_BRACKET", "IDENTIFIER_UNFINISHED",
       "INTEGER_LITERAL_UNFINISHED", "DOUBLE_DOT", "DOUBLE_UNFINISHED", "DOUBLE_E",
       "DOUBLE_E_UNFINISHED", "DOUBLE_E_SIGN", "STRING_EXC", "STRING_LOAD",
       "STRING_SLASH", "STRING_NUMERIC_CHAR"}
  /\ "INIT" \notin Inside
  /\ FinalStates \cap Inside = {}
BY DEF Inside, UnfinishedStates, FinalStates

\* Inside a token the ways a case can end need no more than a state to go to.
LEMMA InsideMoves ==
  ASSUME TypeOK, Placed, state \in Inside
  PROVE  /\ \A to \in UnfinishedStates \cup FinalStates :
              to # "STRING_NUMERIC_CHAR" /\ Skip(to) => Moved
         /\ \A to \in UnfinishedStates \cup FinalStates :
              /\ to # "STRING_NUMERIC_CHAR"
              /\ Store(Char, to) \/ Store(ToLower(Char), to)
              => Moved
         /\ \A to \in FinalStates \cup {"INIT"} : Rewind(to) => Moved
         /\ \A error \in LexerErrors : Fail(error) => Moved
<1>1. state # "INIT"
  BY InsideStates
<1>2. CharOf(Char) \in -128..127 /\ CharOf(ToLower(Char)) \in -128..127
  BY CharType, LowerType, Zenon
<1>3. ASSUME NEW to \in FinalStates \cup {"INIT"}, Rewind(to) PROVE Moved
  <2>1. to \in UnfinishedStates \cup FinalStates /\ to \notin Inside
    BY InsideStates DEF UnfinishedStates
  <2>2. QED
    BY <1>3, <2>1, RewindMoves
<1>4. ASSUME NEW to \in UnfinishedStates \cup FinalStates, to # "STRING_NUMERIC_CHAR", Skip(to)
      PROVE  Moved
  BY <1>1, <1>4, SkipMoves
<1>5. ASSUME NEW to \in UnfinishedStates \cup FinalStates, to # "STRING_NUMERIC_CHAR",
             Store(Char, to) \/ Store(ToLower(Char), to)
      PROVE  Moved
  BY <1>1, <1>2, <1>5, StoreMoves
<1>6. QED
  BY <1>3, <1>4, <1>5, FailMoves

LEMMA FollowMoves ==
  ASSUME TypeOK, Placed, state \in Inside,
         NEW leads, \A lead \in leads : lead[2] \in FinalStates \cup {"COMMENT_BLOCK"},
         NEW otherwise \in FinalStates,
         Follow(leads, otherwise)
  PROVE  Moved
<1>1. FinalStates \cup {"COMMENT_BLOCK"} \subseteq UnfinishedStates \cup FinalStates
  BY DEF UnfinishedStates
<1>2. "STRING_NUMERIC_CHAR" \notin FinalStates \cup {"COMMENT_BLOCK"}
  BY DEF FinalStates
<1>3. CASE \E lead \in leads : Char = lead[1] /\ Skip(lead[2])
  BY <1>1, <1>2, <1>3, InsideMoves
<1>4. CASE Rewind(otherwise)
  BY <1>4, InsideMoves
<1>5. QED
  BY <1>3, <1>4 DEF Follow

LEMMA AmpMoves ==
  ASSUME TypeOK, Placed, FromAmp
  PROVE  Moved
<1>1. state \in Inside
  BY InsideStates DEF FromAmp
<1>2. /\ {"BINARY_START", "OCTA_START", "HEXA_START", "ERROR"}
           \subseteq UnfinishedStates \cup FinalStates
      /\ "STRING_NUMERIC_CHAR" \notin {"BINARY_START", "OCTA_START", "HEXA_START", "ERROR"}
  BY DEF UnfinishedStates, FinalStates
<1>3. QED
  BY <1>1, <1>2, InsideMoves DEF FromAmp

LEMMA RadixMoves ==
  ASSUME TypeOK, Placed, NEW letter,
         NEW first \in Inside, NEW unfinished \in Inside \ {"STRING_NUMERIC_CHAR"},
         FromRadix(letter, first, unfinished)
  PROVE  Moved
<1>1. state \in Inside
  BY DEF FromRadix
<1>2. /\ unfinished \in UnfinishedStates \cup FinalStates
      /\ "INTEGER_LITERAL" \in FinalStates \cup {"INIT"}
  BY DEF Inside, UnfinishedStates, FinalStates
<1>3. QED
  BY <1>1, <1>2, InsideMoves DEF FromRadix

LEMMA OperatorMoves ==
  ASSUME TypeOK, Placed, FromOperator \/ FromSharpBracket \/ FromSlash
  PROVE  Moved
<1>1. state \in Inside
  BY InsideStates DEF FromOperator, FromSharpBracket, FromSlash
<1>2. {"ADD", "SUBTRACT", "DIVIDE", "INTEGER_DIVIDE", "MULTIPLY", "SMALLER_BIGGER",
       "SMALLER", "BIGGER", "SMALLER_EQUAL", "BIGGER_EQUAL", "ASSIGN_ADD", "ASSIGN_SUB",
       "ASSIGN_MULTIPLY", "ASSIGN_INT_DIVIDE", "ASSIGN_DIVIDE"} \subseteq FinalStates
  BY DEF FinalStates
<1>3. ASSUME FromOperator PROVE Moved
  <2>1. CASE Follow({<<Code["="], "ASSIGN_ADD">>}, "ADD")
    BY <1>1, <1>2, <2>1, FollowMoves
  <2>2. CASE Follow({<<Code["="], "ASSIGN_SUB">>}, "SUBTRACT")
    BY <1>1, <1>2, <2>2, FollowMoves
  <2>3. CASE Follow({<<Code["="], "ASSIGN_MULTIPLY">>}, "MULTIPLY")
    BY <1>1, <1>2, <2>3, FollowMoves
  <2>4. CASE Follow({<<Code["="], "ASSIGN_INT_DIVIDE">>}, "INTEGER_DIVIDE")
    BY <1>1, <1>2, <2>4, FollowMoves
  <2>5. QED
    BY <1>3, <2>1, <2>2, <2>3, <2>4 DEF FromOperator
<1>4. ASSUME FromSharpBracket PROVE Moved
  <2>1. CASE Follow({<<Code["="], "SMALLER_EQUAL">>, <<Code[">"], "SMALLER_BIGGER">>}, "SMALLER")
    BY <1>1, <1>2, <2>1, FollowMoves
  <2>2. CASE Follow({<<Code["="], "BIGGER_EQUAL">>}, "BIGGER")
    BY <1>1, <1>2, <2>2, FollowMoves
  <2>3. QED
    BY <1>4, <2>1, <2>2 DEF FromSharpBracket
<1>5. ASSUME FromSlash PROVE Moved
  BY <1>1, <1>2, <1>5, FollowMoves DEF FromSlash
<1>6. QED
  BY <1>3, <1>4, <1>5

LEMMA StringMoves ==
  ASSUME TypeOK, Placed, FromStringExc \/ FromStringLoad
  PROVE  Moved
<1>1. state \in Inside
  BY InsideStates DEF FromStringExc, FromStringLoad
<1>2. /\ {"STRING_LOAD", "STRING_VALUE", "STRING_SLASH"} \subseteq UnfinishedStates \cup FinalStates
      /\ "STRING_FORMAT" \in LexerErrors
  BY DEF UnfinishedStates, FinalStates, LexerErrors
<1>3. QED
  BY <1>1, <1>2, InsideMoves DEF FromStringExc, FromStringLoad

LEMMA SlashMoves ==
  ASSUME TypeOK, Placed, FromStringSlash
  PROVE  Moved
<1>1. state \in Inside /\ state # "INIT"
  BY InsideStates DEF FromStringSlash
<1>2. /\ {"STRING_LOAD", "STRING_NUMERIC_CHAR"} \subseteq UnfinishedStates \cup FinalStates
      /\ "STRING_FORMAT" \in LexerErrors
  BY DEF UnfinishedStates, FinalStates, LexerErrors
<1>3. CASE /\ Char \in Digits
           /\ numeric_char_value' = <<Char>>
           /\ Read /\ stack' = Rest /\ state' = "STRING_NUMERIC_CHAR"
           /\ UNCHANGED <<source, stream_buffer, lexer_error, line>>
  <2>1. numeric_char_value' \in Seq(Digits) /\ Len(numeric_char_value') = 1
    BY <1>3
  <2>2. QED
    BY <1>1, <1>2, <1>3, <2>1, CharType DEF Moved, TypeOK
<1>4. CASE \E escape \in Escapes : Char = escape[1] /\ Store(escape[2], "STRING_LOAD")
  <2>1. PICK escape \in Escapes : Store(escape[2], "STRING_LOAD")
    BY <1>4
  <2>2. CharOf(escape[2]) \in -128..127
    BY EscapesAreCharacters DEF CharOf
  <2>3. QED
    BY <1>1, <1>2, <2>1, <2>2, StoreMoves
<1>5. CASE Fail("STRING_FORMAT")
  BY <1>1, <1>2, <1>5, InsideMoves
<1>6. QED
  BY <1>3, <1>4, <1>5 DEF FromStringSlash

\* Three digits at most, and a character of them all.
LEMMA NumericMoves ==
  ASSUME TypeOK, Placed, FromStringNumericChar
  PROVE  Moved
<1> DEFINE digits == Append(numeric_char_value, Char)
<1>1. state \in Inside /\ state # "INIT"
  BY InsideStates DEF FromStringNumericChar
<1>2. /\ {"STRING_LOAD", "STRING_NUMERIC_CHAR", "ERROR"} \subseteq UnfinishedStates \cup FinalStates
      /\ "STRING_FORMAT" \in LexerErrors
  BY DEF UnfinishedStates, FinalStates, LexerErrors
<1>3. CASE Fail("STRING_FORMAT")
  BY <1>1, <1>2, <1>3, InsideMoves
<1>4. ASSUME Char \in Digits, numeric_char_value' = digits,
             Read, stack' = Rest, UNCHANGED <<source, line>>,
             \/ /\ Len(digits) < 3
                /\ state' = "STRING_NUMERIC_CHAR"
                /\ UNCHANGED <<stream_buffer, lexer_error>>
             \/ /\ Len(digits) = 3 /\ EscapeValue(digits) \in 1..255
                /\ stream_buffer' = Append(stream_buffer, CharOf(EscapeValue(digits)))
                /\ state' = "STRING_LOAD"
                /\ UNCHANGED lexer_error
             \/ /\ Len(digits) = 3 /\ EscapeValue(digits) \notin 1..255
                /\ state' = "ERROR" /\ lexer_error' = "STRING_FORMAT"
                /\ UNCHANGED stream_buffer
      PROVE  Moved
  <2>1. numeric_char_value \in Seq(Digits) /\ Len(numeric_char_value) \in 1..2
    BY DEF TypeOK, Placed, FromStringNumericChar
  <2>2. digits \in Seq(Digits) /\ Len(digits) \in 2..3
    BY <1>4, <2>1
  <2>3. EscapeValue(digits) \in 1..255 => CharOf(EscapeValue(digits)) \in -128..127
    BY DEF CharOf
  <2>4. stream_buffer \in Seq(-128..127) /\ lexer_error \in LexerErrors
    BY DEF TypeOK
  <2> DEFINE value == EscapeValue(digits)
             long == Len(digits)
             char == CharOf(value)
  <2>5. /\ char \in -128..127 => Append(stream_buffer, char) \in Seq(-128..127)
        /\ value \in 1..255 => char \in -128..127
    <3> HIDE DEF char
    <3>1. char \in -128..127 => Append(stream_buffer, char) \in Seq(-128..127)
      BY <2>4
    <3>2. QED
      BY <2>3, <3>1 DEF char
  <2>6. \/ long < 3 /\ state' = "STRING_NUMERIC_CHAR" /\ UNCHANGED <<stream_buffer, lexer_error>>
        \/ /\ value \in 1..255 /\ state' = "STRING_LOAD"
           /\ stream_buffer' = Append(stream_buffer, char) /\ UNCHANGED lexer_error
        \/ /\ state' = "ERROR" /\ lexer_error' = "STRING_FORMAT"
           /\ UNCHANGED stream_buffer
    BY <1>4
  <2>7. long \in 2..3 /\ Len(numeric_char_value') = long /\ numeric_char_value' \in Seq(Digits)
    BY <1>4, <2>2
  <2> HIDE DEF value, char, digits, long
  <2>8. stream_buffer' \in Seq(-128..127)
    BY <2>4, <2>5, <2>6
  <2>9. lexer_error' \in LexerErrors
    BY <1>2, <2>4, <2>6
  <2>10. state' \in UnfinishedStates \cup FinalStates
    BY <1>2, <2>6
  <2>11. state' = "STRING_NUMERIC_CHAR" => Len(numeric_char_value') \in 1..2
    BY <2>6, <2>7
  <2>12. source' = source /\ line' = line /\ Read /\ stack' = <<>>
    BY <1>4, CharType
  <2>13. Len(numeric_char_value') <= 3
    BY <2>7
  <2>14. QED
    BY <1>1, <2>7, <2>8, <2>9, <2>10, <2>11, <2>12, <2>13 DEF Moved
<1>5. QED
  BY <1>3, <1>4 DEF FromStringNumericChar

LEMMA NumberMoves ==
  ASSUME TypeOK, Placed,
         FromIntegerLiteral \/ FromDoubleDot \/ FromDouble \/ FromDoubleE
  PROVE  Moved
<1>1. state \in Inside
  BY InsideStates DEF FromIntegerLiteral, FromDoubleDot, FromDouble, FromDoubleE
<1>2. /\ {"INTEGER_LITERAL_UNFINISHED", "DOUBLE_DOT", "DOUBLE_E", "DOUBLE_UNFINISHED",
          "DOUBLE_E_UNFINISHED", "DOUBLE_E_SIGN"} \subseteq UnfinishedStates \cup FinalStates
      /\ {"INTEGER_LITERAL", "DOUBLE_LITERAL"} \subseteq FinalStates
      /\ "DOUBLE_FORMAT" \in LexerErrors
  BY DEF UnfinishedStates, FinalStates, LexerErrors
<1>3. ASSUME FromIntegerLiteral PROVE Moved
  BY <1>1, <1>2, <1>3, InsideMoves DEF FromIntegerLiteral
<1>4. ASSUME FromDoubleDot \/ FromDouble PROVE Moved
  BY <1>1, <1>2, <1>4, InsideMoves DEF FromDoubleDot, FromDouble
<1>5. ASSUME FromDoubleE PROVE Moved
  BY <1>1, <1>2, <1>5, InsideMoves DEF FromDoubleE
<1>6. QED
  BY <1>3, <1>4, <1>5

LEMMA WordMoves ==
  ASSUME TypeOK, Placed, FromIdentifier
  PROVE  Moved
<1>1. state \in Inside
  BY InsideStates DEF FromIdentifier
<1>2. /\ "IDENTIFIER_UNFINISHED" \in UnfinishedStates
      /\ IdentifierState(stream_buffer) \in FinalStates
  BY DEF UnfinishedStates, FinalStates, IdentifierState
<1>3. QED
  BY <1>1, <1>2, InsideMoves DEF FromIdentifier

LEMMA CommentMoves ==
  ASSUME TypeOK, Placed, FromCommentLine \/ FromCommentBlock \/ FromCommentBlockEnd
  PROVE  Moved
<1>1. state \in Inside
  BY InsideStates DEF FromCommentLine, FromCommentBlock, FromCommentBlockEnd
<1>2. {"COMMENT_LINE", "INIT", "ERROR", "COMMENT_BLOCK", "COMMENT_BLOCK_END"}
        \subseteq UnfinishedStates \cup FinalStates
  BY DEF UnfinishedStates, FinalStates
<1>3. QED
  BY <1>1, <1>2, InsideMoves DEF FromCommentLine, FromCommentBlock, FromCommentBlockEnd

LEMMA EveryCaseMoves ==
  ASSUME TypeOK, Placed, NextState
  PROVE  Moved
<1>1. {"BINARY_START", "BINARY_UNFINISHED", "OCTA_START", "OCTA_UNFINISHED",
       "HEXA_START", "HEXA_UNFINISHED"} \subseteq Inside \ {"STRING_NUMERIC_CHAR"}
  BY InsideStates
<1>2. CASE \/ FromRadix("b", "BINARY_START", "BINARY_UNFINISHED")
           \/ FromRadix("o", "OCTA_START", "OCTA_UNFINISHED")
           \/ FromRadix("h", "HEXA_START", "HEXA_UNFINISHED")
  BY <1>1, <1>2, RadixMoves
<1>3. CASE FromInit \/ FromAmp \/ FromOperator \/ FromSharpBracket \/ FromSlash
  BY <1>3, InitMoves, AmpMoves, OperatorMoves
<1>4. CASE FromStringExc \/ FromStringLoad \/ FromStringSlash \/ FromStringNumericChar
  BY <1>4, StringMoves, SlashMoves, NumericMoves
<1>5. CASE FromIntegerLiteral \/ FromDoubleDot \/ FromDouble \/ FromDoubleE \/ FromIdentifier
  BY <1>5, NumberMoves, WordMoves
<1>6. CASE FromCommentLine \/ FromCommentBlock \/ FromCommentBlockEnd
  BY <1>6, CommentMoves
<1>7. QED
  BY <1>2, <1>3, <1>4, <1>5, <1>6 DEF NextState

-----------------------------------------------------------------------------
(* The operations.                                                         *)

LEMMA StatesApart ==
  /\ "IDLE" \notin UnfinishedStates \cup FinalStates
  /\ UnfinishedStates = Inside \cup {"INIT"}
  /\ UnfinishedStates \cap FinalStates = {}
  /\ "INIT" \notin Inside
BY DEF UnfinishedStates, FinalStates, Inside

LEMMA InitHolds == Init => LexerInvariant
<1> SUFFICES ASSUME Init PROVE LexerInvariant
  OBVIOUS
<1>1. source \in Sources /\ Len(source) \in Nat
  BY SourcesAssumption, LenProperties DEF Init, InitState
<1>2. TypeOK
  <2>1. /\ stack \in Seq(-128..127) /\ Len(stack) <= 1
        /\ stream_buffer \in Seq(-128..127)
        /\ numeric_char_value \in Seq(Digits) /\ Len(numeric_char_value) <= 3
    BY DEF Init, InitState
  <2>2. position \in 0..Len(source) /\ line \in 1..Len(source) + 1
    BY <1>1 DEF Init, InitState
  <2>3. start \in 0..Len(source) /\ end \in 0..Len(source) /\ start <= end
    BY <1>1 DEF Init
  <2>4. state = "IDLE" /\ lexer_error \in LexerErrors /\ is_token_rewind \in BOOLEAN
    BY DEF Init, InitState, LexerErrors
  <2>5. QED
    BY <1>1, <2>1, <2>2, <2>3, <2>4 DEF TypeOK
<1>3. Placed
  BY StatesApart DEF Init, InitState, Placed, Inside
<1>4. Delivered
  <2>1. <<>> \in Seq({})
    OBVIOUS
  <2>2. <<>> \o <<>> = <<>>
    OBVIOUS
  <2>3. QED
    BY <2>1, <2>2 DEF Init, Delivered, TokensInOrder, IsSequence
<1>5. QED
  BY <1>2, <1>3, <1>4 DEF LexerInvariant

(* Where a character leaves the automaton in a text of n characters: of    *)
(* these p were read before it and q are read after it, k and j are given  *)
(* back, l and m are the numbers of the line.                              *)
LEMMA FirstPlaces ==
  ASSUME NEW n \in Nat, NEW p \in 0..n, NEW q \in 0..n, q = p \/ q = p + 1,
         NEW k \in 0..1, k = 1 => p > 0,
         NEW l \in 1..n + 1, l <= p - k + 1
  PROVE  /\ l <= q + 1
         /\ k = 1 \/ q = p + 1 => /\ q - 1 \in 0..n
                                  /\ l <= q
                                  /\ l + 1 <= q + 1
OBVIOUS

LEMMA LaterPlaces ==
  ASSUME NEW n \in Nat, NEW p \in 0..n, NEW q \in 0..n, q = p \/ q = p + 1,
         NEW j \in 0..1,
         NEW l \in 1..n + 1, NEW s \in 0..n, s < p, l <= s + 1
  PROVE  /\ q > 0 /\ s < q /\ l <= q - j + 1 /\ s <= q
         /\ q = p + 1 => q - j \in 0..n /\ s <= q - j
OBVIOUS

LEMMA LengthsType ==
  ASSUME TypeOK
  PROVE  /\ Len(source) \in Nat /\ position \in 0..Len(source)
         /\ line \in 1..Len(source) + 1
         /\ Len(stack) \in 0..1 /\ (stack = <<>> <=> Len(stack) = 0)
         /\ start \in 0..Len(source) /\ end \in 0..Len(source)
<1>1. source \in Seq(Bytes) /\ stack \in Seq(-128..127) /\ Len(stack) <= 1
  BY SourcesAssumption DEF TypeOK
<1>2. Len(source) \in Nat /\ Len(stack) \in Nat
  BY <1>1, LenProperties
<1>3. Len(stack) \in 0..1
  <2> DEFINE k == Len(stack)
  <2>1. k \in Nat /\ k <= 1
    BY <1>1, <1>2
  <2> HIDE DEF k
  <2>2. k \in 0..1
    BY <2>1
  <2>3. QED
    BY <2>2 DEF k
<1>4. stack = <<>> <=> Len(stack) = 0
  BY <1>1, EmptySeq
<1>5. QED
  BY <1>2, <1>3, <1>4 DEF TypeOK

LEMMA MovedPlaces ==
  ASSUME TypeOK, Placed, state \in UnfinishedStates, Moved,
         start' = IF state # "INIT" THEN start
                  ELSE IF Char = EOF THEN position' ELSE position' - 1,
         end' = IF Char = EOF THEN position' ELSE position' - Len(stack')
  PROVE  /\ Placed'
         /\ start' \in 0..Len(source) /\ end' \in 0..Len(source) /\ start' <= end'
         /\ line' \in 1..Len(source) + 1 /\ position' \in 0..Len(source)
         /\ stack' \in Seq(-128..127) /\ Len(stack') <= 1
<1> DEFINE n == Len(source)
           p == position
           q == position'
           k == Len(stack)
           j == Len(stack')
           s == start'
           e == end'
           l == line'
<1>1. /\ n \in Nat /\ p \in 0..n /\ line \in 1..n + 1
      /\ k \in 0..1 /\ (stack = <<>> <=> k = 0) /\ start \in 0..n
  BY LengthsType
<1>2. q \in 0..n /\ (q = p \/ q = p + 1) /\ Char \in -128..255 /\ CharOf(Char) \in -128..127
  BY CharType DEF Moved
<1>3. /\ Char # EOF => k = 1 \/ q = p + 1
      /\ Char # EOF /\ stack = <<>> => q = p + 1
  BY <1>1 DEF Moved, Read, Char, Popped
<1>4. /\ stack' = <<>> \/ (stack' = <<CharOf(Char)>> /\ state \in Inside /\ state' \notin Inside)
      /\ stack' = <<>> <=> j = 0
      /\ stack' \in Seq(-128..127) /\ j \in 0..1
  <2>1. stack' = <<>> \/ (stack' = <<CharOf(Char)>> /\ state \in Inside /\ state' \notin Inside)
    BY DEF Moved
  <2> DEFINE c == CharOf(Char)
  <2>2. /\ Len(<<>>) = 0 /\ <<>> \in Seq(-128..127)
        /\ c \in -128..127 => /\ Len(<<c>>) = 1 /\ <<c>> \in Seq(-128..127)
                              /\ <<c>> # <<>>
    <3> HIDE DEF c
    <3>1. QED
      OBVIOUS
  <2>3. CASE stack' = <<>>
    BY <2>2, <2>3
  <2>4. CASE stack' = <<c>> /\ state \in Inside /\ state' \notin Inside
    <3>1. Len(stack') = 1 /\ stack' \in Seq(-128..127) /\ stack' # <<>>
      BY <1>2, <2>2, <2>4
    <3>2. QED
      BY <2>4, <3>1
  <2>5. QED
    BY <2>1, <2>3, <2>4
<1>5. /\ k = 1 => p > 0
      /\ line <= p - k + 1
  BY <1>1 DEF Placed
<1>6. /\ s = IF state # "INIT" THEN start ELSE IF Char = EOF THEN q ELSE q - 1
      /\ e = IF Char = EOF THEN q ELSE q - j
  OBVIOUS
<1>7. state' = "STRING_NUMERIC_CHAR" => Len(numeric_char_value') \in 1..2
  BY DEF Moved
<1>8. CASE state = "INIT"
  <2>1. j = 0 /\ stack' = <<>>
    BY <1>4, <1>8, StatesApart
  <2>2. l = line \/ (Char = LF /\ l = line + 1 /\ state' \notin Inside)
    BY DEF Moved
  <2>3. Char = EOF => state' \notin Inside
    BY <1>8 DEF Moved
  <2>4. LF # EOF
    BY DEF LF, EOF
  <2> HIDE DEF n, p, q, k, j, s, e, l
  <2>5. /\ line <= q + 1
        /\ Char # EOF => q - 1 \in 0..n /\ line <= q /\ line + 1 <= q + 1
    BY <1>1, <1>2, <1>3, <1>5, FirstPlaces
  <2>6. l \in 1..n + 1 /\ l <= q - j + 1
    BY <1>1, <1>2, <2>1, <2>2, <2>4, <2>5
  <2>7. s \in 0..n /\ e \in 0..n /\ s <= e
    BY <1>1, <1>2, <1>6, <1>8, <2>1, <2>5
  <2>8. state' \in Inside => s < q /\ l <= s + 1
    BY <1>1, <1>2, <1>6, <1>8, <2>2, <2>3, <2>5
  <2>9. QED
    <3>1. stack' # <<>> => position' > 0
      BY <2>1
    <3>2. line' <= position' - Len(stack') + 1
      BY <2>6 DEF l, q, j
    <3>3. state' \in Inside => /\ stack' = <<>> /\ start' \in Nat /\ start' < position'
                               /\ line' <= start' + 1
      BY <1>1, <1>4, <2>7, <2>8 DEF s, l, q, n
    <3>4. Placed'
      BY <1>7, <3>1, <3>2, <3>3 DEF Placed
    <3>5. start' \in 0..Len(source) /\ end' \in 0..Len(source) /\ start' <= end'
      BY <2>6, <2>7 DEF n, s, e
    <3>6. line' \in 1..Len(source) + 1 /\ position' \in 0..Len(source)
      BY <1>2, <2>6, <2>7 DEF n, q, l
    <3>7. j <= 1
      BY <1>4
    <3>8. stack' \in Seq(-128..127) /\ Len(stack') <= 1
      BY <1>4, <3>7 DEF j
    <3>9. QED
      BY <3>4, <3>5, <3>6, <3>8
<1>9. CASE state \in Inside
  <2>1. state # "INIT"
    BY <1>9, StatesApart
  <2>2. l = line /\ s = start
    BY <1>6, <2>1 DEF Moved
  <2>3. stack = <<>> /\ start < p /\ line <= start + 1
    BY <1>9 DEF Placed
  <2> HIDE DEF n, p, q, k, j, s, e, l
  <2>4. /\ q > 0 /\ start < q /\ line <= q - j + 1 /\ start <= q
        /\ q = p + 1 => q - j \in 0..n /\ start <= q - j
    BY <1>1, <1>2, <1>4, <2>3, LaterPlaces
  <2>5. s \in 0..n /\ e \in 0..n /\ s <= e
    BY <1>1, <1>2, <1>3, <1>6, <2>2, <2>3, <2>4
  <2>6. s < q /\ l <= s + 1 /\ l \in 1..n + 1 /\ l <= q - j + 1
    BY <1>1, <2>2, <2>3, <2>4
  <2>7. QED
    <3>1. stack' # <<>> => position' > 0
      BY <2>4 DEF q
    <3>2. line' <= position' - Len(stack') + 1
      BY <2>6 DEF l, q, j
    <3>3. state' \in Inside => /\ stack' = <<>> /\ start' \in Nat /\ start' < position'
                               /\ line' <= start' + 1
      BY <1>1, <1>4, <2>5, <2>6 DEF s, l, q, n
    <3>4. Placed'
      BY <1>7, <3>1, <3>2, <3>3 DEF Placed
    <3>5. start' \in 0..Len(source) /\ end' \in 0..Len(source) /\ start' <= end'
      BY <2>5, <2>6 DEF n, s, e
    <3>6. line' \in 1..Len(source) + 1 /\ position' \in 0..Len(source)
      BY <1>2, <2>5, <2>6 DEF n, q, l
    <3>7. j <= 1
      BY <1>4
    <3>8. stack' \in Seq(-128..127) /\ Len(stack') <= 1
      BY <1>4, <3>7 DEF j
    <3>9. QED
      BY <3>4, <3>5, <3>6, <3>8
<1>10. QED
  BY <1>8, <1>9, StatesApart

LEMMA CaseStates == NextState => state \in UnfinishedStates
<1> SUFFICES ASSUME NextState PROVE state \in UnfinishedStates
  OBVIOUS
<1>1. Inside \cup {"INIT"} = UnfinishedStates
  BY StatesApart
<1>2. state \in Inside \cup {"INIT"}
  BY InsideStates
     DEF NextState, FromInit, FromAmp, FromRadix, FromOperator, FromStringExc,
         FromStringLoad, FromStringSlash, FromStringNumericChar, FromIntegerLiteral,
         FromDoubleDot, FromDouble, FromDoubleE, FromSharpBracket, FromIdentifier,
         FromSlash, FromCommentLine, FromCommentBlock, FromCommentBlockEnd
<1>3. QED
  BY <1>1, <1>2

LEMMA LoopKeeps == LexerInvariant /\ NextTokenLoop => LexerInvariant'
<1> SUFFICES ASSUME LexerInvariant, NextTokenLoop PROVE LexerInvariant'
  OBVIOUS
<1>1. TypeOK /\ Placed /\ Delivered /\ NextState
  BY DEF LexerInvariant, NextTokenLoop
<1>2. Moved
  BY <1>1, EveryCaseMoves
<1>3. state \in UnfinishedStates
  BY <1>1, CaseStates
<1>4. /\ Placed'
      /\ start' \in 0..Len(source) /\ end' \in 0..Len(source) /\ start' <= end'
      /\ line' \in 1..Len(source) + 1 /\ position' \in 0..Len(source)
      /\ stack' \in Seq(-128..127) /\ Len(stack') <= 1
  BY <1>1, <1>2, <1>3, MovedPlaces DEF NextTokenLoop
<1>5. source' = source /\ is_token_rewind' = is_token_rewind
  BY <1>2 DEF Moved, NextTokenLoop
<1>6. TypeOK'
  BY <1>1, <1>2, <1>4, <1>5 DEF TypeOK, Moved
<1>7. ~ is_token_rewind
  BY <1>1, <1>3, StatesApart DEF Delivered
<1>8. Delivered'
  BY <1>1, <1>5, <1>7 DEF NextTokenLoop, Delivered, TokensInOrder
<1>9. QED
  BY <1>4, <1>6, <1>8 DEF LexerInvariant

\* What the parser has grows by a token.
LEMMA Grown ==
  ASSUME NEW s, IsSequence(s), NEW t
  PROVE  /\ IsSequence(Append(s, t))
         /\ Append(s, t) = s \o <<t>>
         /\ s \o <<>> = s
<1>1. PICK S : s \in Seq(S)
  BY DEF IsSequence
<1>2. s \in Seq(S \cup {t})
  BY <1>1, SeqMonotonic
<1> DEFINE T == S \cup {t}
<1>3. t \in T /\ s \in Seq(T)
  BY <1>2
<1> HIDE DEF T
<1>4. Append(s, t) \in Seq(T)
  BY <1>3, AppendProperties
<1>5. Append(s, t) = s \o <<t>>
  BY <1>3, AppendIsConcat
<1>6. s \o <<>> = s
  BY <1>1, ConcatEmptySeq
<1>7. QED
  BY <1>4, <1>5, <1>6 DEF IsSequence

\* What the parser has loses its last token.
LEMMA Shrunk ==
  ASSUME NEW s, IsSequence(s), s # <<>>
  PROVE  IsSequence(Front(s)) /\ Front(s) \o <<Last(s)>> = s
<1>1. PICK S : s \in Seq(S)
  BY DEF IsSequence
<1> DEFINE n == Len(s)
<1>2. n \in Nat \ {0}
  BY <1>1, EmptySeq
<1>3. Front(s) = SubSeq(s, 1, n - 1) /\ Last(s) = s[n]
  BY DEF Front, Last
<1>4. /\ SubSeq(s, 1, n - 1) \in Seq(S)
      /\ s = SubSeq(s, 1, n)
      /\ s[n] \in S
  BY <1>1, <1>2, SubSeqProperties, SubSeqFull, ElementOfSeq
<1>5. SubSeq(s, 1, n) = SubSeq(s, 1, n - 1) \o <<s[n]>>
  BY <1>1, <1>2, SubSeqRecursiveSecond
<1>6. QED
  BY <1>3, <1>4, <1>5, Zenon DEF IsSequence

\* The types and places depend on neither what the parser has nor the report.
LEMMA SameText ==
  ASSUME TypeOK, Placed,
         UNCHANGED <<source, position, stack, stream_buffer, numeric_char_value,
                     lexer_error, line, start, end>>,
         is_token_rewind' \in BOOLEAN,
         state' = state \/ state' = "INIT"
  PROVE  TypeOK' /\ Placed'
<1>1. state' \in {"IDLE"} \cup UnfinishedStates \cup FinalStates
  BY DEF TypeOK, UnfinishedStates
<1>2. TypeOK'
  BY <1>1 DEF TypeOK
<1>3. /\ state' \in Inside => state \in Inside
      /\ state' = "STRING_NUMERIC_CHAR" => state = "STRING_NUMERIC_CHAR"
  BY StatesApart
<1>4. QED
  BY <1>2, <1>3 DEF Placed

LEMMA RewoundKeeps == LexerInvariant /\ NextTokenRewound => LexerInvariant'
<1> SUFFICES ASSUME LexerInvariant, NextTokenRewound PROVE LexerInvariant'
  OBVIOUS
<1>1. TypeOK' /\ Placed'
  BY SameText DEF LexerInvariant, NextTokenRewound, fsmVars
<1>2. /\ is_token_rewind /\ ~ is_token_rewind' /\ tokens' = tokens
      /\ tokens = taken \o <<rewind_token>> /\ IsSequence(tokens) /\ IsSequence(taken)
      /\ taken' = Append(taken, rewind_token)
  BY DEF LexerInvariant, Delivered, TokensInOrder, NextTokenRewound
<1>3. taken' = tokens
  BY <1>2, Grown
<1>4. tokens \o <<>> = tokens
  BY <1>2, Grown
<1>5. Delivered'
  BY <1>2, <1>3, <1>4 DEF Delivered, TokensInOrder
<1>6. QED
  BY <1>1, <1>5 DEF LexerInvariant

LEMMA StartKeeps == LexerInvariant /\ NextTokenStart => LexerInvariant'
<1> SUFFICES ASSUME LexerInvariant, NextTokenStart PROVE LexerInvariant'
  OBVIOUS
<1>1. is_token_rewind' \in BOOLEAN
  BY DEF LexerInvariant, TypeOK, NextTokenStart
<1>2. TypeOK' /\ Placed'
  BY <1>1, SameText DEF LexerInvariant, NextTokenStart
<1>3. Delivered'
  BY DEF LexerInvariant, Delivered, TokensInOrder, NextTokenStart
<1>4. QED
  BY <1>2, <1>3 DEF LexerInvariant

LEMMA EndKeeps == LexerInvariant /\ NextTokenEnd => LexerInvariant'
<1> SUFFICES ASSUME LexerInvariant, NextTokenEnd PROVE LexerInvariant'
  OBVIOUS
<1>1. TypeOK /\ Placed /\ Delivered /\ state \in FinalStates /\ state' = "IDLE"
  BY DEF LexerInvariant, NextTokenEnd
<1>2. state # "IDLE"
  BY <1>1, StatesApart
<1>3. TypeOK'
  <2>1. stream_buffer' \in Seq(-128..127)
    BY DEF NextTokenEnd
  <2>2. UNCHANGED <<source, position, stack, numeric_char_value, lexer_error, line,
                    is_token_rewind, start, end>>
    BY DEF NextTokenEnd
  <2>3. QED
    BY <1>1, <2>1, <2>2 DEF TypeOK
<1>4. Placed'
  <2>1. "IDLE" \notin Inside
    BY DEF Inside, UnfinishedStates
  <2>2. QED
    BY <1>1, <2>1 DEF Placed, NextTokenEnd
<1>5. ~ is_token_rewind /\ ~ is_token_rewind'
  BY <1>1, <1>2 DEF Delivered, NextTokenEnd
<1>6. PICK t : tokens' = Append(tokens, t) /\ taken' = Append(taken, t)
  BY DEF NextTokenEnd
<1>7. tokens = taken /\ IsSequence(taken)
  BY <1>1, <1>5, Grown DEF Delivered, TokensInOrder
<1>8. IsSequence(taken') /\ taken' \o <<>> = taken' /\ tokens' = taken'
  BY <1>6, <1>7, Grown
<1>9. Delivered'
  BY <1>5, <1>8 DEF Delivered, TokensInOrder
<1>10. QED
  BY <1>3, <1>4, <1>9 DEF LexerInvariant

LEMMA RewindKeeps == LexerInvariant /\ RewindToken => LexerInvariant'
<1> SUFFICES ASSUME LexerInvariant, RewindToken PROVE LexerInvariant'
  OBVIOUS
<1>1. TypeOK' /\ Placed'
  BY SameText DEF LexerInvariant, RewindToken, fsmVars
<1>2. /\ ~ is_token_rewind /\ is_token_rewind' /\ state' = "IDLE"
      /\ taken # <<>> /\ tokens' = tokens
      /\ rewind_token' = Last(taken) /\ taken' = Front(taken)
  BY DEF RewindToken, fsmVars
<1>3. tokens = taken /\ IsSequence(taken)
  BY <1>2, Grown DEF LexerInvariant, Delivered, TokensInOrder
<1>4. IsSequence(taken') /\ taken' \o <<rewind_token'>> = taken
  BY <1>2, <1>3, Shrunk
<1>5. Delivered'
  BY <1>2, <1>3, <1>4 DEF Delivered, TokensInOrder
<1>6. QED
  BY <1>1, <1>5 DEF LexerInvariant

-----------------------------------------------------------------------------
(* Texts cut into pieces. The grammar looks for the pieces of a text with a *)
(* recursive function; a set of places to cut at shows that it finds them.  *)

(* C holds the places where a text is cut from one place to another, each  *)
(* piece of it being in R.                                                 *)
Cuts(C, R, from, to) ==
  /\ from \in C /\ to \in C
  /\ \A c \in C \ {from} : \E b \in C : b < c /\ <<b, c>> \in R

CutUp(R, from, to) == \E C \in SUBSET (from..to) : Cuts(C, R, from, to)

LEMMA CutNowhere ==
  ASSUME NEW R, NEW n \in Nat
  PROVE  CutUp(R, n, n)
<1>1. {n} \in SUBSET (n..n) /\ Cuts({n}, R, n, n)
  BY DEF Cuts
<1>2. QED
  BY <1>1, Zenon DEF CutUp

LEMMA CutOnceMore ==
  ASSUME NEW R, NEW from \in Nat, NEW to \in Nat, NEW next \in Nat, CutUp(R, from, to),
         to < next, <<to, next>> \in R
  PROVE  CutUp(R, from, next)
<1>1. PICK C \in SUBSET (from..to) : Cuts(C, R, from, to)
  BY DEF CutUp
<1> DEFINE D == C \cup {next}
<1>2. D \in SUBSET (from..next)
  BY <1>1 DEF Cuts
<1>3. from \in D /\ next \in D
  BY <1>1 DEF Cuts
<1>4. \A c \in D \ {from} : \E b \in D : b < c /\ <<b, c>> \in R
  <2> SUFFICES ASSUME NEW c \in D, c # from PROVE \E b \in D : b < c /\ <<b, c>> \in R
    OBVIOUS
  <2>1. CASE c = next
    BY <1>1, <2>1 DEF Cuts
  <2>2. CASE c \in C
    BY <1>1, <2>2 DEF Cuts
  <2>3. QED
    BY <2>1, <2>2
<1> HIDE DEF D
<1>5. QED
  BY <1>2, <1>3, <1>4, Zenon DEF CutUp, Cuts

LEMMA CutMoved ==
  ASSUME NEW R, NEW S, NEW from \in Nat, NEW to \in Nat, CutUp(R, from, to), from <= to,
         \A i, j \in 0..to - from : <<from + i, from + j>> \in R => <<i, j>> \in S
  PROVE  CutUp(S, 0, to - from)
<1>1. PICK C \in SUBSET (from..to) : Cuts(C, R, from, to)
  BY DEF CutUp
<1> DEFINE D == {i \in 0..to - from : from + i \in C}
<1>2. 0 \in D /\ to - from \in D
  BY <1>1 DEF Cuts
<1>3. \A c \in D \ {0} : \E b \in D : b < c /\ <<b, c>> \in S
  <2> SUFFICES ASSUME NEW c \in D, c # 0 PROVE \E b \in D : b < c /\ <<b, c>> \in S
    OBVIOUS
  <2>1. from + c \in C \ {from}
    OBVIOUS
  <2>2. PICK d \in C : d < from + c /\ <<d, from + c>> \in R
    BY <1>1, <2>1 DEF Cuts
  <2>3. d - from \in D /\ d - from < c /\ from + (d - from) = d
    BY <2>2
  <2>4. QED
    BY <2>2, <2>3
<1>4. D \in SUBSET (0..to - from)
  OBVIOUS
<1> HIDE DEF D
<1>5. QED
  BY <1>2, <1>3, <1>4, Zenon DEF CutUp, Cuts

\* The recursive function of LexicalGrammar that looks for the pieces of a text
\* is one that says yes wherever the text can be cut up.
LEMMA PiecesAreFound ==
  ASSUME NEW R, NEW n \in Nat, CutUp(R, 0, n)
  PROVE  LET f == CHOOSE f : f = [i \in 0..n |->
                    i = 0 \/ \E j \in 0..i - 1 : f[j] /\ <<j, i>> \in R]
         IN  f[n]
<1> DEFINE E == {j \in 0..n : CutUp(R, 0, j)}
           g == [i \in 0..n |-> i = 0 \/ \E j \in 0..i - 1 : j \in E /\ <<j, i>> \in R]
           F(h) == [i \in 0..n |-> i = 0 \/ \E j \in 0..i - 1 : h[j] /\ <<j, i>> \in R]
           f == CHOOSE h : h = F(h)
<1>1. \A i \in 0..n : CutUp(R, 0, i) <=> i = 0 \/ \E j \in 0..i - 1 : CutUp(R, 0, j) /\ <<j, i>> \in R
  <2> SUFFICES ASSUME NEW i \in 0..n
               PROVE  CutUp(R, 0, i) <=> i = 0 \/ \E j \in 0..i - 1 : CutUp(R, 0, j) /\ <<j, i>> \in R
    OBVIOUS
  <2>1. CutUp(R, 0, 0)
    BY CutNowhere
  <2>2. ASSUME NEW j \in 0..i - 1, CutUp(R, 0, j), <<j, i>> \in R PROVE CutUp(R, 0, i)
    BY <2>2, CutOnceMore
  <2>3. ASSUME CutUp(R, 0, i), i # 0 PROVE \E j \in 0..i - 1 : CutUp(R, 0, j) /\ <<j, i>> \in R
    <3>1. PICK C \in SUBSET (0..i) : Cuts(C, R, 0, i)
      BY <2>3 DEF CutUp
    <3>2. PICK j \in C : j < i /\ <<j, i>> \in R
      BY <2>3, <3>1 DEF Cuts
    <3> DEFINE D == C \cap 0..j
    <3>3. D \in SUBSET (0..j) /\ Cuts(D, R, 0, j)
      <4>1. 0 \in D /\ j \in D
        BY <3>1, <3>2 DEF Cuts
      <4>2. ASSUME NEW c \in D, c # 0 PROVE \E b \in D : b < c /\ <<b, c>> \in R
        BY <3>1, <4>2 DEF Cuts
      <4>3. QED
        BY <4>1, <4>2 DEF Cuts
    <3>4. CutUp(R, 0, j)
      BY <3>3, Zenon DEF CutUp
    <3>5. QED
      BY <3>2, <3>4
  <2>4. QED
    BY <2>1, <2>2, <2>3
<1>2. g = F(g)
  <2>1. \A i \in 0..n : g[i] <=> i \in E
    <3>1. \A i \in 0..n : i \in E <=> i = 0 \/ \E j \in 0..i - 1 : j \in E /\ <<j, i>> \in R
      BY <1>1
    <3> HIDE DEF E
    <3>2. QED
      BY <3>1
  <2>2. \A i \in 0..n : (\E j \in 0..i - 1 : j \in E /\ <<j, i>> \in R)
                         <=> (\E j \in 0..i - 1 : g[j] /\ <<j, i>> \in R)
    <3> HIDE DEF E, g
    <3>1. \A i \in 0..n : \A j \in 0..i - 1 : j \in 0..n
      OBVIOUS
    <3>2. QED
      BY <2>1, <3>1, Zenon
  <2> DEFINE h == g
  <2>3. \A i \in 0..n : (\E j \in 0..i - 1 : j \in E /\ <<j, i>> \in R)
                         <=> (\E j \in 0..i - 1 : h[j] /\ <<j, i>> \in R)
    BY <2>2
  <2> HIDE DEF h, E
  <2>4. [i \in 0..n |-> i = 0 \/ \E j \in 0..i - 1 : j \in E /\ <<j, i>> \in R] = F(h)
    BY <2>3
  <2>5. QED
    BY <2>4 DEF h
<1>3. f = F(f)
  <2> HIDE DEF g, F
  <2>1. \E h : h = F(h)
    BY <1>2
  <2>2. QED
    BY <2>1, Zenon
<1> DEFINE Told == {i \in 0..n : CutUp(R, 0, i) /\ ~ f[i]}
<1>4. Told = {}
  <2> HIDE DEF f
  <2> SUFFICES ASSUME Told # {} PROVE FALSE
    OBVIOUS
  <2>1. PICK m \in Told : \A i \in Told : ~ (i < m)
    <3>1. Told \subseteq Nat
      OBVIOUS
    <3>2. IsWellFoundedOn(OpToRel(<, Nat), Nat)
      BY NatLessThanWellFounded
    <3>3. PICK m \in Told : \A y \in Told : ~ (<<y, m>> \in OpToRel(<, Nat))
      BY <3>1, <3>2, WFMin
    <3>4. QED
      BY <3>1, <3>3 DEF OpToRel
  <2>2. m \in 0..n /\ CutUp(R, 0, m)
    BY <2>1
  <2>3. m = 0 \/ \E j \in 0..m - 1 : CutUp(R, 0, j) /\ <<j, m>> \in R
    BY <1>1, <2>2
  <2>4. f[m] = (m = 0 \/ \E j \in 0..m - 1 : f[j] /\ <<j, m>> \in R)
    BY <1>3, <2>2, Zenon
  <2>5. ~ f[m]
    BY <2>1
  <2>6. PICK j \in 0..m - 1 : CutUp(R, 0, j) /\ <<j, m>> \in R
    BY <2>3, <2>4, <2>5, Zenon
  <2>7. j \in 0..n /\ j < m
    BY <2>2
  <2>8. ~ f[j]
    BY <2>4, <2>5, <2>6, Zenon
  <2>9. j \in Told
    BY <2>6, <2>7, <2>8, Zenon
  <2>10. QED
    BY <2>1, <2>7, <2>9, Zenon
<1>5. f[n]
  <2>1. n \in 0..n
    OBVIOUS
  <2> HIDE DEF f
  <2>2. QED
    BY <1>4, <2>1, Zenon
<1>6. QED
  BY <1>5, Zenon

\* What may stand between two tokens, and inside a block comment, cut up.
BlankTexts ==
  {p \in Seq(Bytes) : p = <<>> \/ G!Comment(p) \/ (Len(p) = 1 /\ p[1] \in Blanks \ {LF})}

CommentTexts == {p \in Seq(Bytes) : G!CommentPiece(p)}

\* Where a piece of a text that is one of those accepted begins and ends.
PiecesIn(s, accepted) ==
  {p \in (0..Len(s)) \X (0..Len(s)) : p[1] < p[2] /\ SubSeq(s, p[1] + 1, p[2]) \in accepted}

LEMMA PiecesMoved ==
  ASSUME NEW S, NEW s \in Seq(S), NEW from \in 0..Len(s), NEW to \in from..Len(s)
  PROVE  /\ SubSeq(s, from + 1, to) \in Seq(S)
         /\ Len(SubSeq(s, from + 1, to)) = to - from
         /\ \A i \in 1..to - from : SubSeq(s, from + 1, to)[i] = s[from + i]
         /\ \A j \in 0..to - from, i \in 0..to - from :
              j < i => SubSeq(SubSeq(s, from + 1, to), j + 1, i) = SubSeq(s, from + j + 1, from + i)
<1> DEFINE t == SubSeq(s, from + 1, to)
           n == Len(s)
<1>0. n \in Nat /\ from \in 0..n /\ to \in from..n
  BY LenProperties
<1>1. \A i \in from + 1..to : s[i] \in S
  <2>1. \A i \in from + 1..to : i \in 1..n
    BY <1>0
  <2>2. QED
    BY <2>1, ElementOfSeq
<1>2. /\ t \in Seq(S)
      /\ Len(t) = IF from + 1 <= to THEN to - (from + 1) + 1 ELSE 0
      /\ \A i \in 1..to - (from + 1) + 1 : t[i] = s[(from + 1) + i - 1]
  <2>1. from + 1 \in Int /\ to \in Int
    BY <1>0
  <2>2. QED
    BY <1>1, <2>1, SubSeqProperties
<1>3. to - (from + 1) + 1 = to - from /\ \A i \in Int : (from + 1) + i - 1 = from + i
  BY <1>0
<1>4. Len(t) = to - from /\ \A i \in 1..to - from : t[i] = s[from + i]
  BY <1>0, <1>2, <1>3
<1>5. ASSUME NEW j \in 0..to - from, NEW i \in 0..to - from, j < i
      PROVE  SubSeq(t, j + 1, i) = SubSeq(s, from + j + 1, from + i)
  <2>1. /\ from + 1 \in 1..n /\ to \in 1..n
        /\ j + 1 \in 1..to - (from + 1) + 1 /\ i \in 1..to - (from + 1) + 1
        /\ (from + 1) + (j + 1) - 1 = from + j + 1
        /\ (from + 1) + i - 1 = from + i
    BY <1>0, <1>5
  <2>2. SubSeq(t, j + 1, i) = SubSeq(s, (from + 1) + (j + 1) - 1, (from + 1) + i - 1)
    BY <2>1, SubSeqOfSubSeq
  <2>3. QED
    BY <2>1, <2>2
<1>6. QED
  BY <1>2, <1>4, <1>5

\* What the recursive function of the grammar finds: whether t is a sequence of texts accepted.
Found(t, accepted) ==
  LET f == CHOOSE f : f = [i \in 0..Len(t) |->
             i = 0 \/ \E j \in 0..i - 1 : f[j] /\ SubSeq(t, j + 1, i) \in accepted]
  IN  f[Len(t)]

\* The recursive function of the grammar finds the pieces of a part of a text.
LEMMA FoundWhenCut ==
  ASSUME NEW S, NEW s \in Seq(S), NEW from \in 0..Len(s), NEW to \in from..Len(s), NEW accepted,
         CutUp(PiecesIn(s, accepted), from, to)
  PROVE  Found(SubSeq(s, from + 1, to), accepted)
<1> DEFINE t == SubSeq(s, from + 1, to)
           n == Len(t)
           R == PiecesIn(t, accepted)
           f == CHOOSE h : h = [i \in 0..n |-> i = 0 \/ \E j \in 0..i - 1 : h[j] /\ <<j, i>> \in R]
           g == CHOOSE h : h = [i \in 0..n |->
                  i = 0 \/ \E j \in 0..i - 1 : h[j] /\ SubSeq(t, j + 1, i) \in accepted]
<1>0. Len(s) \in Nat /\ from \in Nat /\ to \in Nat /\ from <= to
  BY LenProperties
<1>1. n = to - from /\ n \in Nat
  BY <1>0, PiecesMoved
<1>2. \A i, j \in 0..to - from : <<from + i, from + j>> \in PiecesIn(s, accepted) => <<i, j>> \in R
  <2> SUFFICES ASSUME NEW i \in 0..to - from, NEW j \in 0..to - from,
                      <<from + i, from + j>> \in PiecesIn(s, accepted)
               PROVE  <<i, j>> \in R
    OBVIOUS
  <2>1. from + i < from + j /\ SubSeq(s, from + i + 1, from + j) \in accepted
    BY DEF PiecesIn
  <2>2. i < j
    BY <1>0, <2>1
  <2>3. SubSeq(t, i + 1, j) = SubSeq(s, from + i + 1, from + j)
    BY <2>2, PiecesMoved
  <2>4. i \in 0..n /\ j \in 0..n
    BY <1>1
  <2>5. QED
    BY <2>1, <2>2, <2>3, <2>4 DEF PiecesIn
<1>3. CutUp(R, 0, n)
  <2> HIDE DEF R, n
  <2>1. CutUp(R, 0, to - from)
    BY <1>0, <1>2, CutMoved
  <2>2. QED
    BY <1>1, <2>1
<1>4. f[n]
  <2> HIDE DEF R, n
  <2>1. QED
    BY <1>1, <1>3, PiecesAreFound
<1>5. f = g
  <2>1. \A i \in 0..n : \A j \in 0..i - 1 : <<j, i>> \in R <=> SubSeq(t, j + 1, i) \in accepted
    BY <1>1 DEF PiecesIn
  <2> HIDE DEF R, t, n
  <2>2. \A h : [i \in 0..n |-> i = 0 \/ \E j \in 0..i - 1 : h[j] /\ <<j, i>> \in R]
             = [i \in 0..n |-> i = 0 \/ \E j \in 0..i - 1 : h[j] /\ SubSeq(t, j + 1, i) \in accepted]
    <3> SUFFICES ASSUME NEW h
                 PROVE  [i \in 0..n |-> i = 0 \/ \E j \in 0..i - 1 : h[j] /\ <<j, i>> \in R]
                      = [i \in 0..n |->
                           i = 0 \/ \E j \in 0..i - 1 : h[j] /\ SubSeq(t, j + 1, i) \in accepted]
      OBVIOUS
    <3>1. \A i \in 0..n : (\E j \in 0..i - 1 : h[j] /\ <<j, i>> \in R)
                      <=> (\E j \in 0..i - 1 : h[j] /\ SubSeq(t, j + 1, i) \in accepted)
      BY <2>1, Zenon
    <3>2. QED
      BY <3>1, Zenon
  <2>3. QED
    BY <2>2, Zenon
<1>6. QED
  BY <1>4, <1>5, Zenon DEF Found

\* A text that can be cut into blanks and comments may stand between two tokens.
LEMMA BlankWhenCut ==
  ASSUME NEW s \in Seq(Bytes), NEW from \in 0..Len(s), NEW to \in from..Len(s),
         CutUp(PiecesIn(s, BlankTexts), from, to)
  PROVE  G!Blank(SubSeq(s, from + 1, to))
<1> DEFINE t == SubSeq(s, from + 1, to)
           n == Len(t)
           g == CHOOSE f : f = [i \in 0..n |->
                  i = 0 \/ \E j \in 0..i - 1 : f[j] /\ SubSeq(t, j + 1, i) \in BlankTexts]
           P(p) == p = <<>> \/ G!Comment(p) \/ (Len(p) = 1 /\ p[1] \in Blanks \ {LF})
           h == CHOOSE f : f = [i \in 0..n |->
                  i = 0 \/ \E j \in 0..i - 1 : f[j] /\ P(SubSeq(t, j + 1, i))]
<1>1. g[n]
  <2>1. Found(t, BlankTexts)
    BY FoundWhenCut
  <2>2. QED
    BY <2>1, Zenon DEF Found
<1>2. \A i \in 0..n : \A j \in 0..i - 1 : SubSeq(t, j + 1, i) \in BlankTexts <=> P(SubSeq(t, j + 1, i))
  <2>1. t \in Seq(Bytes) /\ n \in Nat
    BY PiecesMoved, LenProperties
  <2> HIDE DEF t
  <2>2. \A i \in 0..n : \A j \in 0..i - 1 : SubSeq(t, j + 1, i) \in Seq(Bytes)
    <3> SUFFICES ASSUME NEW i \in 0..n, NEW j \in 0..i - 1 PROVE SubSeq(t, j + 1, i) \in Seq(Bytes)
      OBVIOUS
    <3>1. j \in 0..n /\ i \in j..n
      BY <2>1
    <3>2. QED
      BY <2>1, <3>1, PiecesMoved
  <2>3. QED
    BY <2>2, Zenon DEF BlankTexts
<1>3. g = h
  <2> HIDE DEF t, n, P
  <2>1. \A f : [i \in 0..n |-> i = 0 \/ \E j \in 0..i - 1 : f[j] /\ SubSeq(t, j + 1, i) \in BlankTexts]
             = [i \in 0..n |-> i = 0 \/ \E j \in 0..i - 1 : f[j] /\ P(SubSeq(t, j + 1, i))]
    <3> SUFFICES ASSUME NEW f
                 PROVE  [i \in 0..n |->
                           i = 0 \/ \E j \in 0..i - 1 : f[j] /\ SubSeq(t, j + 1, i) \in BlankTexts]
                      = [i \in 0..n |-> i = 0 \/ \E j \in 0..i - 1 : f[j] /\ P(SubSeq(t, j + 1, i))]
      OBVIOUS
    <3>1. \A i \in 0..n : (\E j \in 0..i - 1 : f[j] /\ SubSeq(t, j + 1, i) \in BlankTexts)
                      <=> (\E j \in 0..i - 1 : f[j] /\ P(SubSeq(t, j + 1, i)))
      BY <1>2, Zenon
    <3>2. QED
      BY <3>1, Zenon
  <2>2. QED
    BY <2>1, Zenon
<1>4. G!Blank(t) = h[n]
  BY Zenon DEF G!Blank, G!Pieces, G!Blanks, G!LF, Blanks, LF
<1>5. QED
  BY <1>1, <1>3, <1>4, Zenon

\* A text that can be cut into what a block comment consists of is one inside.
LEMMA InsideWhenCut ==
  ASSUME NEW s \in Seq(Bytes), NEW from \in 0..Len(s), NEW to \in from..Len(s),
         CutUp(PiecesIn(s, CommentTexts), from, to)
  PROVE  G!Pieces(SubSeq(s, from + 1, to), G!CommentPiece)
<1> DEFINE t == SubSeq(s, from + 1, to)
           n == Len(t)
           g == CHOOSE f : f = [i \in 0..n |->
                  i = 0 \/ \E j \in 0..i - 1 : f[j] /\ SubSeq(t, j + 1, i) \in CommentTexts]
           h == CHOOSE f : f = [i \in 0..n |->
                  i = 0 \/ \E j \in 0..i - 1 : f[j] /\ G!CommentPiece(SubSeq(t, j + 1, i))]
<1>1. g[n]
  <2>1. Found(t, CommentTexts)
    BY FoundWhenCut
  <2>2. QED
    BY <2>1, Zenon DEF Found
<1>2. \A i \in 0..n : \A j \in 0..i - 1 :
        SubSeq(t, j + 1, i) \in CommentTexts <=> G!CommentPiece(SubSeq(t, j + 1, i))
  <2>1. t \in Seq(Bytes) /\ n \in Nat
    BY PiecesMoved, LenProperties
  <2> HIDE DEF t
  <2>2. \A i \in 0..n : \A j \in 0..i - 1 : SubSeq(t, j + 1, i) \in Seq(Bytes)
    <3> SUFFICES ASSUME NEW i \in 0..n, NEW j \in 0..i - 1 PROVE SubSeq(t, j + 1, i) \in Seq(Bytes)
      OBVIOUS
    <3>1. j \in 0..n /\ i \in j..n
      BY <2>1
    <3>2. QED
      BY <2>1, <3>1, PiecesMoved
  <2>3. QED
    BY <2>2, Zenon DEF CommentTexts
<1>3. g = h
  <2> HIDE DEF t, n
  <2>1. \A f : [i \in 0..n |-> i = 0 \/ \E j \in 0..i - 1 : f[j] /\ SubSeq(t, j + 1, i) \in CommentTexts]
             = [i \in 0..n |-> i = 0 \/ \E j \in 0..i - 1 : f[j] /\ G!CommentPiece(SubSeq(t, j + 1, i))]
    <3> SUFFICES ASSUME NEW f
                 PROVE  [i \in 0..n |->
                           i = 0 \/ \E j \in 0..i - 1 : f[j] /\ SubSeq(t, j + 1, i) \in CommentTexts]
                      = [i \in 0..n |->
                           i = 0 \/ \E j \in 0..i - 1 : f[j] /\ G!CommentPiece(SubSeq(t, j + 1, i))]
      OBVIOUS
    <3>1. \A i \in 0..n : (\E j \in 0..i - 1 : f[j] /\ SubSeq(t, j + 1, i) \in CommentTexts)
                      <=> (\E j \in 0..i - 1 : f[j] /\ G!CommentPiece(SubSeq(t, j + 1, i)))
      BY <1>2, Zenon
    <3>2. QED
      BY <3>1, Zenon
  <2>2. QED
    BY <2>1, Zenon
<1>4. G!Pieces(t, G!CommentPiece) = h[n]
  BY Zenon DEF G!Pieces
<1>5. QED
  BY <1>1, <1>3, <1>4, Zenon

LEMMA SameTables == G!Code = Code /\ G!LF = LF
BY Zenon DEF G!Code, Code, G!Pairing, Pairing, G!CharacterCodes, CharacterCodes, G!LF, LF

LEMMA BlankIsBlank ==
  ASSUME NEW s \in Seq(Bytes), NEW a \in Nat, a + 1 <= Len(s), s[a + 1] \in Blanks \ {LF}
  PROVE  SubSeq(s, a + 1, a + 1) \in BlankTexts
<1>1. a \in 0..Len(s) /\ a + 1 \in a..Len(s) /\ (a + 1) - a = 1
  BY LenProperties
<1> DEFINE t == SubSeq(s, a + 1, a + 1)
<1>2. t \in Seq(Bytes) /\ Len(t) = 1 /\ t[1] = s[a + 1]
  BY <1>1, PiecesMoved
<1> HIDE DEF t
<1>3. QED
  BY <1>2 DEF BlankTexts, t

LEMMA LineCommentIsBlank ==
  ASSUME NEW s \in Seq(Bytes), NEW a \in Nat, NEW b \in Nat, a < b, b <= Len(s),
         s[a + 1] = Code["'"], \A i \in a + 1..b : s[i] # LF
  PROVE  SubSeq(s, a + 1, b) \in BlankTexts
<1>1. a \in 0..Len(s) /\ b \in a..Len(s)
  BY LenProperties
<1> DEFINE t == SubSeq(s, a + 1, b)
<1>2. t \in Seq(Bytes) /\ Len(t) = b - a /\ \A i \in 1..b - a : t[i] = s[a + i]
  BY <1>1, PiecesMoved
<1> HIDE DEF t
<1>3. Len(t) >= 1 /\ t[1] = Code["'"]
  BY <1>2
<1>4. \A i \in 1..Len(t) : t[i] # LF
  BY <1>2
<1>5. G!Comment(t)
  BY <1>3, <1>4, SameTables, Zenon DEF G!Comment
<1>6. QED
  BY <1>2, <1>5, Zenon DEF BlankTexts, t

LEMMA PairOfText ==
  ASSUME NEW s \in Seq(Bytes), NEW a \in Nat, a + 2 <= Len(s)
  PROVE  SubSeq(s, a + 1, a + 2) = <<s[a + 1], s[a + 2]>>
<1>1. a \in 0..Len(s) /\ a + 2 \in a..Len(s) /\ (a + 2) - a = 2
  BY LenProperties
<1> DEFINE t == SubSeq(s, a + 1, a + 2)
<1>2. t \in Seq(Bytes) /\ Len(t) = 2 /\ \A i \in 1..2 : t[i] = s[a + i]
  BY <1>1, PiecesMoved
<1>3. s[a + 1] \in Bytes /\ s[a + 2] \in Bytes
  BY LenProperties, ElementOfSeq
<1> HIDE DEF t
<1>4. t[1] = s[a + 1] /\ t[2] = s[a + 2]
  BY <1>2
<1> DEFINE u == <<s[a + 1], s[a + 2]>>
<1>5. u \in Seq(Bytes) /\ Len(u) = 2 /\ u[1] = s[a + 1] /\ u[2] = s[a + 2]
  BY <1>3
<1> HIDE DEF u
<1>6. \A i \in 1..Len(t) : t[i] = u[i]
  BY <1>2, <1>4, <1>5
<1>7. t = u
  BY <1>2, <1>5, <1>6, SeqEqual
<1>8. QED
  BY <1>7 DEF t, u

LEMMA BlockCommentIsBlank ==
  ASSUME NEW s \in Seq(Bytes), NEW a \in Nat, NEW b \in Nat, a + 4 <= b, b <= Len(s),
         s[a + 1] = Code["/"], s[a + 2] = Code["'"], s[b - 1] = Code["'"], s[b] = Code["/"],
         CutUp(PiecesIn(s, CommentTexts), a + 2, b - 2)
  PROVE  SubSeq(s, a + 1, b) \in BlankTexts
<1>1. /\ a \in 0..Len(s) /\ b \in a..Len(s)
      /\ 0 \in 0..b - a /\ 2 \in 0..b - a /\ b - a - 2 \in 2..b - a /\ b - a - 2 \in 0..b - a
      /\ a + (b - a - 2) = b - 2 /\ a + (b - a) = b /\ b - a >= 4 /\ b - a \in Nat
      /\ a + 0 + 1 = a + 1
  BY LenProperties
<1> DEFINE t == SubSeq(s, a + 1, b)
           n == b - a
<1>2. t \in Seq(Bytes) /\ Len(t) = n /\ \A i \in 1..n : t[i] = s[a + i]
  BY <1>1, PiecesMoved
<1>3. \A j \in 0..n, i \in 0..n : j < i => SubSeq(t, j + 1, i) = SubSeq(s, a + j + 1, a + i)
  BY <1>1, PiecesMoved
<1>4. SubSeq(t, 3, n - 2) = SubSeq(s, a + 2 + 1, b - 2)
  <2>1. CASE n - 2 > 2
    <3>1. SubSeq(t, 2 + 1, n - 2) = SubSeq(s, a + 2 + 1, a + (n - 2))
      BY <1>1, <1>3, <2>1
    <3>2. QED
      BY <1>1, <3>1
  <2>2. CASE n - 2 = 2
    <3>1. n - 2 < 3 /\ b - 2 < a + 2 + 1
      BY <1>1, <2>2
    <3>2. SubSeq(t, 3, n - 2) = <<>>
      BY <1>1, <3>1, SubSeqEmpty
    <3>3. SubSeq(s, a + 2 + 1, b - 2) = <<>>
      BY <1>1, <3>1, SubSeqEmpty
    <3>4. QED
      BY <3>2, <3>3
  <2>3. n - 2 > 2 \/ n - 2 = 2
    BY <1>1
  <2> HIDE DEF t, n
  <2>4. QED
    BY <2>1, <2>2, <2>3
<1>5. G!Pieces(SubSeq(t, 3, n - 2), G!CommentPiece)
  <2>1. a + 2 \in 0..Len(s) /\ b - 2 \in a + 2..Len(s)
    BY <1>1, LenProperties
  <2>2. G!Pieces(SubSeq(s, a + 2 + 1, b - 2), G!CommentPiece)
    BY <2>1, InsideWhenCut
  <2>3. QED
    BY <1>4, <2>2, Zenon
<1> HIDE DEF t, n
<1>6. n >= 4 /\ n \in Nat
  BY <1>1 DEF n
<1>7. SubSeq(t, 1, 2) = <<Code["/"], Code["'"]>>
  <2>1. SubSeq(t, 0 + 1, 0 + 2) = <<t[0 + 1], t[0 + 2]>>
    <3>1. 0 \in Nat /\ 0 + 2 <= Len(t)
      BY <1>2, <1>6
    <3>2. QED
      BY <1>2, <3>1, PairOfText
  <2>2. t[1] = s[a + 1] /\ t[2] = s[a + 2]
    BY <1>2, <1>6
  <2>3. QED
    BY <2>1, <2>2
<1>8. SubSeq(t, n - 1, n) = <<Code["'"], Code["/"]>>
  <2>1. SubSeq(t, (n - 2) + 1, (n - 2) + 2) = <<t[(n - 2) + 1], t[(n - 2) + 2]>>
    <3>1. n - 2 \in Nat /\ (n - 2) + 2 <= Len(t)
      BY <1>2, <1>6
    <3>2. QED
      BY <1>2, <3>1, PairOfText
  <2>2. (n - 2) + 1 = n - 1 /\ (n - 2) + 2 = n
    BY <1>6
  <2>3. t[n - 1] = s[a + (n - 1)] /\ t[n] = s[a + n]
    BY <1>2, <1>6
  <2>4. a + (n - 1) = b - 1 /\ a + n = b
    BY DEF n
  <2>5. QED
    BY <2>1, <2>2, <2>3, <2>4
<1>9. G!Comment(t)
  <2>1. Len(t) >= 4
    BY <1>2, <1>6
  <2>2. G!From(t, Len(t) - 1) = <<G!Code["'"], G!Code["/"]>>
    BY <1>2, <1>8, SameTables, Zenon DEF G!From
  <2>3. SubSeq(t, 1, 2) = <<G!Code["/"], G!Code["'"]>>
    BY <1>7, SameTables, Zenon
  <2>4. G!Pieces(SubSeq(t, 3, Len(t) - 2), G!CommentPiece)
    BY <1>2, <1>5, Zenon
  <2>5. QED
    BY <2>1, <2>2, <2>3, <2>4, Zenon DEF G!Comment
<1>10. QED
  BY <1>2, <1>9, Zenon DEF BlankTexts, t

-----------------------------------------------------------------------------
(* What has been read is accounted for.                                    *)

\* How many characters have been read and not given back. The byte 255 given
\* back is taken for nothing given back: it has been passed over.
Passed == IF stack = <<>> \/ stack = <<EOF>> THEN position ELSE position - 1

\* Where the tokens end that have been made, or the byte 255 after them.
LastEnd == IF tokens = <<>> THEN 0 ELSE tokens[Len(tokens)].end

Ends ==
  {LastEnd} \cup
  {i \in {LastEnd + 1} : tokens # <<>> /\ i <= Len(source) /\ source[i] = 255}

\* From one of these places on the text is blanks and comments up to another.
Clear(s, ends, to) ==
  \E from \in ends : from <= to /\ CutUp(PiecesIn(s, BlankTexts), from, to)

\* What is known of the text inside a comment.
Commented ==
  /\ state = "COMMENT_LINE" =>
       source[start + 1] = Code["'"] /\ \A i \in start + 1..position : source[i] # LF
  /\ state = "SLASH" => position = start + 1 /\ source[start + 1] = Code["/"]
  /\ state \in {"COMMENT_BLOCK", "COMMENT_BLOCK_END"} =>
       start + 2 <= position /\ source[start + 1] = Code["/"] /\ source[start + 2] = Code["'"]
  /\ state = "COMMENT_BLOCK" =>
       position = Len(source) \/ CutUp(PiecesIn(source, CommentTexts), start + 2, position)
  /\ state = "COMMENT_BLOCK_END" =>
       /\ start + 2 < position /\ source[position] = Code["'"]
       /\ CutUp(PiecesIn(source, CommentTexts), start + 2, position - 1)

\* Every character up to the place of the automaton is in a token, in a blank
\* or in a comment.
Accounted ==
  /\ LastEnd \in 0..Len(source)
  /\ stack # <<>> => stack = <<EOF>> \/ stack = <<CharOf(source[position])>>
  /\ state \in FinalStates =>
       \/ end = position /\ (stack = <<>> \/ stack = <<EOF>>)
       \/ end = position - 1 /\ stack = <<CharOf(source[position])>>
  /\ state \in {"IDLE", "INIT"} => Clear(source, Ends, Passed)
  /\ state \in Inside \cup FinalStates => Clear(source, Ends, start)
  /\ Commented
  /\ NothingIsLost

\* The next character of the text, given back or not, and where it leaves the automaton.
LEMMA CharRead ==
  ASSUME TypeOK, Placed, Read,
         stack # <<>> => stack = <<EOF>> \/ stack = <<CharOf(source[position])>>
  PROVE  /\ Passed \in 0..Len(source)
         /\ Char = EOF => position' = Passed /\ Passed = Len(source)
         /\ Char # EOF => /\ position' = Passed + 1 /\ position' <= Len(source)
                          /\ CharOf(source[position']) = CharOf(Char)
                          /\ Char >= 0 => source[position'] = Char
         /\ stack = <<>> => Passed = position
<1> DEFINE n == Len(source)
<1>1. n \in Nat /\ position \in 0..n /\ (stack = <<>> <=> Len(stack) = 0) /\ Len(stack) \in 0..1
  BY LengthsType
<1>2. \A i \in 1..n : source[i] \in 0..255
  <2>1. source \in Seq(Bytes)
    BY SourcesAssumption DEF TypeOK
  <2>2. QED
    BY <2>1, ElementOfSeq DEF Bytes
<1>3. stack # <<>> => position > 0
  BY DEF Placed
<1>4. CASE stack = <<>> \/ stack = <<EOF>>
  <2>1. Popped = EOF
    BY <1>4 DEF Popped, Last, EOF
  <2>2. Passed = position
    BY <1>4 DEF Passed
  <2>3. CASE position < n
    <3>1. Char = source[position + 1] /\ position' = position + 1
      BY <2>1, <2>3 DEF Char, Read
    <3>2. position + 1 \in 1..n
      BY <1>1, <2>3
    <3>3. source[position + 1] \in 0..255
      BY <1>2, <3>2
    <3>4. Char # EOF
      <4>1. EOF \notin 0..255
        BY DEF EOF
      <4>2. QED
        BY <3>1, <3>3, <4>1, Zenon
    <3> HIDE DEF n
    <3>5. QED
      BY <1>1, <2>2, <3>1, <3>2, <3>4 DEF n
  <2>4. CASE ~ position < n
    <3>1. Char = EOF /\ position' = position
      BY <2>1, <2>4 DEF Char, Read
    <3>2. position = n
      BY <1>1, <2>4
    <3>3. QED
      BY <1>1, <2>2, <3>1, <3>2
  <2>5. QED
    BY <2>3, <2>4
<1>5. CASE stack # <<>> /\ stack # <<EOF>>
  <2>1. stack = <<CharOf(source[position])>>
    BY <1>5
  <2> DEFINE b == source[position]
  <2>2. position \in 1..n
    BY <1>1, <1>3, <1>5
  <2>3. b \in 0..255
    BY <1>2, <2>2
  <2>4. Popped = CharOf(b)
    BY <2>1 DEF Popped, Last
  <2>5. CharOf(b) # EOF
    BY <1>5, <2>1
  <2>6. Char = CharOf(b) /\ position' = position /\ Passed = position - 1
    BY <1>5, <2>4, <2>5 DEF Char, Read, Passed
  <2>7. CharOf(CharOf(b)) = CharOf(b) /\ (CharOf(b) >= 0 => CharOf(b) = b)
    <3> HIDE DEF b
    <3>1. QED
      BY <2>3 DEF CharOf
  <2>8. CharOf(source[position']) = CharOf(Char) /\ (Char >= 0 => source[position'] = Char)
    BY <2>6, <2>7
  <2> HIDE DEF b
  <2>9. QED
    BY <1>1, <1>5, <2>2, <2>5, <2>6, <2>8
<1>6. QED
  BY <1>4, <1>5

(* Where a call of lexer_fsm_next_state goes when it leaves a blank behind *)
(* or is inside a comment.                                                 *)
Turned ==
  /\ state' = "INIT" =>
       \/ state = "INIT" /\ Char \in Blanks \ {LF} /\ stack' = <<>>
       \/ state = "COMMENT_LINE" /\ Char \in {LF, EOF} /\ stack' = <<CharOf(Char)>>
       \/ state = "COMMENT_BLOCK_END" /\ Char = Code["/"] /\ stack' = <<>>
  /\ state' = "COMMENT_LINE" =>
       \/ state = "INIT" /\ Char = Code["'"]
       \/ state = "COMMENT_LINE" /\ Char \notin {LF, EOF}
  /\ state' = "SLASH" => state = "INIT" /\ Char = Code["/"]
  /\ state' = "COMMENT_BLOCK" =>
       \/ state = "SLASH" /\ Char = Code["'"]
       \/ state = "COMMENT_BLOCK" /\ Char \notin {EOF, Code["'"]}
       \/ state = "COMMENT_BLOCK_END" /\ Char # Code["/"]
  /\ state' = "COMMENT_BLOCK_END" => state = "COMMENT_BLOCK" /\ Char = Code["'"]
  /\ state' # "IDLE"

\* The states around which Turned has something to say.
Turning == {"INIT", "COMMENT_LINE", "SLASH", "COMMENT_BLOCK", "COMMENT_BLOCK_END", "IDLE"}

LEMMA PlainTurns == ASSUME state' \notin Turning PROVE Turned
BY DEF Turned, Turning

LEMMA InitTurns == ASSUME TypeOK, FromInit PROVE Turned
<1>1. state = "INIT"
  BY DEF FromInit
<1>2. CASE state' = "EOL"
  BY <1>2, PlainTurns DEF Turning
<1>3. CASE Char \in Blanks \ {LF} /\ Skip("INIT")
  BY <1>1, <1>3, CharType DEF Turned, Skip
<1>4. CASE state' \in {"IDENTIFIER_UNFINISHED", "INTEGER_LITERAL_UNFINISHED", "ERROR"}
  BY <1>4, PlainTurns DEF Turning
<1>5. CASE \E lead \in Leads : Char = lead[1] /\ Skip(lead[2])
  <2>1. PICK lead \in Leads : Char = lead[1] /\ state' = lead[2]
    BY <1>5 DEF Skip
  <2>2. \/ lead[2] = "COMMENT_LINE" /\ lead[1] = Code["'"]
        \/ lead[2] = "SLASH" /\ lead[1] = Code["/"]
        \/ lead[2] \notin Turning
    BY <2>1 DEF Leads, Turning
  <2>3. QED
    BY <1>1, <2>1, <2>2, PlainTurns DEF Turned, Turning
<1>6. QED
  BY <1>2, <1>3, <1>4, <1>5 DEF FromInit, Store, Fail

LEMMA FollowTurns ==
  ASSUME NEW leads, NEW otherwise, Follow(leads, otherwise), otherwise \notin Turning,
         \A lead \in leads : lead[2] \notin Turning
  PROVE  Turned
BY PlainTurns DEF Follow, Skip, Rewind

LEMMA OperatorTurns == ASSUME FromOperator \/ FromSharpBracket PROVE Turned
<1>1. /\ Turning \cap {"ASSIGN_ADD", "ASSIGN_SUB", "ASSIGN_MULTIPLY", "ASSIGN_INT_DIVIDE", "ADD",
                       "SUBTRACT", "MULTIPLY", "INTEGER_DIVIDE"} = {}
      /\ Turning \cap {"SMALLER_EQUAL", "SMALLER_BIGGER", "BIGGER_EQUAL", "SMALLER", "BIGGER"} = {}
  BY DEF Turning
<1>2. CASE FromOperator
  BY <1>1, <1>2, FollowTurns DEF FromOperator
<1>3. CASE FromSharpBracket
  BY <1>1, <1>3, FollowTurns DEF FromSharpBracket
<1>4. QED
  BY <1>2, <1>3

LEMMA SlashTurns == ASSUME FromSlash PROVE Turned
<1>1. state = "SLASH"
  BY DEF FromSlash
<1>2. \/ state' \in {"DIVIDE", "ASSIGN_DIVIDE"}
      \/ state' = "COMMENT_BLOCK" /\ Char = Code["'"]
  BY DEF FromSlash, Follow, Skip, Rewind
<1>3. QED
  BY <1>1, <1>2 DEF Turned

LEMMA CommentTurns ==
  ASSUME TypeOK, FromCommentLine \/ FromCommentBlock \/ FromCommentBlockEnd
  PROVE  Turned
<1>1. Rest = <<>> /\ GiveBack(Rest, Char) = <<CharOf(Char)>>
  BY CharType DEF GiveBack, CHAR_STACK_MAX_LENGTH
<1>2. CASE FromCommentLine
  BY <1>1, <1>2 DEF FromCommentLine, Turned, Skip, Rewind
<1>3. CASE FromCommentBlock
  BY <1>1, <1>3 DEF FromCommentBlock, Turned, Skip
<1>4. CASE FromCommentBlockEnd
  BY <1>1, <1>4 DEF FromCommentBlockEnd, Turned, Skip
<1>5. QED
  BY <1>2, <1>3, <1>4

LEMMA EveryCaseTurns ==
  ASSUME TypeOK, NextState
  PROVE  Turned
<1>1. CASE FromInit
  BY <1>1, InitTurns
<1>2. CASE FromOperator \/ FromSharpBracket
  BY <1>2, OperatorTurns
<1>3. CASE FromSlash \/ FromCommentLine \/ FromCommentBlock \/ FromCommentBlockEnd
  BY <1>3, SlashTurns, CommentTurns
<1>4. CASE \/ FromAmp
           \/ FromRadix("b", "BINARY_START", "BINARY_UNFINISHED")
           \/ FromRadix("o", "OCTA_START", "OCTA_UNFINISHED")
           \/ FromRadix("h", "HEXA_START", "HEXA_UNFINISHED")
  <2>1. state' \in {"BINARY_START", "OCTA_START", "HEXA_START", "ERROR", "BINARY_UNFINISHED",
                    "OCTA_UNFINISHED", "HEXA_UNFINISHED", "INTEGER_LITERAL"}
    BY <1>4 DEF FromAmp, FromRadix, Skip, Store, Rewind
  <2>2. QED
    BY <2>1, PlainTurns DEF Turning
<1>5. CASE FromStringExc \/ FromStringLoad \/ FromStringSlash \/ FromStringNumericChar
  <2>1. state' \in {"STRING_LOAD", "ERROR", "STRING_VALUE", "STRING_SLASH", "STRING_NUMERIC_CHAR"}
    BY <1>5 DEF FromStringExc, FromStringLoad, FromStringSlash, FromStringNumericChar, Skip,
                Store, Fail
  <2>2. QED
    BY <2>1, PlainTurns DEF Turning
<1>6. CASE FromIntegerLiteral \/ FromDoubleDot \/ FromDouble \/ FromDoubleE \/ FromIdentifier
  <2>1. state' \in {"INTEGER_LITERAL_UNFINISHED", "DOUBLE_DOT", "DOUBLE_E", "INTEGER_LITERAL",
                    "DOUBLE_UNFINISHED", "ERROR", "DOUBLE_LITERAL", "DOUBLE_E_UNFINISHED",
                    "DOUBLE_E_SIGN", "IDENTIFIER_UNFINISHED", "KEYWORD", "IDENTIFIER"}
    BY <1>6 DEF FromIntegerLiteral, FromDoubleDot, FromDouble, FromDoubleE, FromIdentifier,
                IdentifierState, Store, Fail, Rewind
  <2>2. QED
    BY <2>1, PlainTurns DEF Turning
<1>7. QED
  BY <1>1, <1>2, <1>3, <1>4, <1>5, <1>6 DEF NextState

LEMMA ClearFurther ==
  ASSUME NEW s \in Seq(Bytes), NEW ends \in SUBSET Nat, NEW a \in Nat, NEW b \in Nat,
         Clear(s, ends, a), a < b, b <= Len(s), SubSeq(s, a + 1, b) \in BlankTexts
  PROVE  Clear(s, ends, b)
<1>1. PICK from \in ends : from <= a /\ CutUp(PiecesIn(s, BlankTexts), from, a)
  BY DEF Clear
<1>2. <<a, b>> \in PiecesIn(s, BlankTexts)
  <2>1. a \in 0..Len(s) /\ b \in 0..Len(s)
    BY LenProperties
  <2>2. QED
    BY <2>1 DEF PiecesIn
<1>3. from \in Nat /\ from <= b
  BY <1>1
<1>4. CutUp(PiecesIn(s, BlankTexts), from, b)
  BY <1>1, <1>2, <1>3, CutOnceMore
<1>5. QED
  BY <1>3, <1>4 DEF Clear

LEMMA ClearAtOnce ==
  ASSUME NEW s, NEW ends, NEW a \in Nat, a \in ends
  PROVE  Clear(s, ends, a)
<1>1. CutUp(PiecesIn(s, BlankTexts), a, a)
  BY CutNowhere
<1>2. a <= a
  OBVIOUS
<1>3. QED
  BY <1>1, <1>2, Zenon DEF Clear

\* A character inside a block comment that begins no end of it.
LEMMA CommentFurther ==
  ASSUME NEW s \in Seq(Bytes), NEW from \in Nat, NEW a \in Nat, NEW b \in Nat,
         CutUp(PiecesIn(s, CommentTexts), from, a), b <= Len(s),
         \/ b = a + 1 /\ s[b] # Code["'"]
         \/ b = a + 2 /\ s[a + 1] = Code["'"] /\ s[b] # Code["/"]
  PROVE  CutUp(PiecesIn(s, CommentTexts), from, b)
<1>1. a \in 0..Len(s) /\ b \in a..Len(s) /\ a < b /\ b \in 0..Len(s)
  BY LenProperties
<1> DEFINE t == SubSeq(s, a + 1, b)
<1>2. t \in Seq(Bytes) /\ Len(t) = b - a /\ \A i \in 1..b - a : t[i] = s[a + i]
  BY <1>1, PiecesMoved
<1> HIDE DEF t
<1>3. G!CommentPiece(t)
  <2>1. CASE b = a + 1 /\ s[b] # Code["'"]
    <3>1. Len(t) = 1 /\ t[1] # Code["'"]
      BY <1>2, <2>1
    <3>2. QED
      BY <3>1, SameTables, Zenon DEF G!CommentPiece
  <2>2. CASE b = a + 2 /\ s[a + 1] = Code["'"] /\ s[b] # Code["/"]
    <3>1. Len(t) = 2 /\ t[1] = Code["'"] /\ t[2] # Code["/"]
      BY <1>2, <2>2
    <3>2. QED
      BY <3>1, SameTables, Zenon DEF G!CommentPiece
  <2>3. QED
    BY <2>1, <2>2
<1>4. t \in CommentTexts
  BY <1>2, <1>3 DEF CommentTexts
<1>5. <<a, b>> \in PiecesIn(s, CommentTexts)
  BY <1>1, <1>4 DEF PiecesIn, t
<1>6. QED
  BY <1>1, <1>5, CutOnceMore

\* The codes of the characters comments begin and end with.
LEMMA CommentCodes ==
  /\ Code["'"] \in 9..127 /\ Code["/"] \in 9..127
  /\ Code["'"] >= 0 /\ Code["/"] >= 0
  /\ Code["'"] # EOF /\ Code["/"] # EOF /\ LF # EOF /\ LF >= 0
BY Named, Codes DEF EOF, LF

LEMMA NewlineIsNotAQuote == Code["'"] # LF
<1>1. PICK p \in CharacterCodes : p[1] = "'" /\ p[2] = Code["'"]
  BY Named, PairingValue DEF Code
<1>2. QED
  BY <1>1 DEF CharacterCodes, LF

\* What is known of the text inside a comment still is after a character.
LEMMA CommentedKept ==
  ASSUME TypeOK, Placed, Accounted, Moved, Turned, NextTokenLoop
  PROVE  Commented'
<1> DEFINE n == Len(source)
           p == position
           q == position'
           a == start
           b == start'
           R == PiecesIn(source, CommentTexts)
<1>0. source \in Seq(Bytes) /\ source' = source
  BY SourcesAssumption DEF TypeOK, Moved
<1>1. n \in Nat /\ p \in 0..n /\ a \in 0..n /\ Char \in -128..255
  BY LengthsType, CharType
<1>2. /\ Passed \in 0..n
      /\ Char = EOF => q = Passed /\ Passed = n
      /\ Char # EOF => /\ q = Passed + 1 /\ q <= n
                       /\ Char >= 0 => source[q] = Char
      /\ stack = <<>> => Passed = p
  BY CharRead DEF Accounted, Moved
<1>3. state \in Inside => stack = <<>> /\ a < p /\ Passed = p
  BY <1>2 DEF Placed
<1>4. b = IF state # "INIT" THEN a ELSE IF Char = EOF THEN q ELSE q - 1
  BY DEF NextTokenLoop
<1>5. /\ state = "COMMENT_LINE" =>
           source[a + 1] = Code["'"] /\ \A i \in a + 1..p : source[i] # LF
      /\ state = "SLASH" => p = a + 1 /\ source[a + 1] = Code["/"]
      /\ state \in {"COMMENT_BLOCK", "COMMENT_BLOCK_END"} =>
           a + 2 <= p /\ source[a + 1] = Code["/"] /\ source[a + 2] = Code["'"]
      /\ state = "COMMENT_BLOCK" => p = n \/ CutUp(R, a + 2, p)
      /\ state = "COMMENT_BLOCK_END" =>
           a + 2 < p /\ source[p] = Code["'"] /\ CutUp(R, a + 2, p - 1)
  BY DEF Accounted, Commented
<1>6. {"COMMENT_LINE", "SLASH", "COMMENT_BLOCK", "COMMENT_BLOCK_END"} \subseteq Inside
  BY DEF Inside, UnfinishedStates
<1>7. Char # EOF /\ Char # LF => source[q] # LF
  <2>1. Char >= 0 => source[q] = Char \/ Char = EOF
    BY <1>2
  <2>2. Char # EOF => CharOf(source[q]) = CharOf(Char)
    BY CharRead DEF Accounted, Moved
  <2>3. CharOf(LF) = LF
    BY DEF CharOf, LF
  <2>4. CharOf(Char) = LF => Char = LF
    BY <1>1 DEF CharOf, LF
  <2>5. QED
    BY <2>2, <2>3, <2>4
<1>8. ASSUME state' = "COMMENT_LINE"
      PROVE  source[b + 1] = Code["'"] /\ \A i \in b + 1..q : source[i] # LF
  <2>1. CASE state = "INIT" /\ Char = Code["'"]
    <3>1. q \in 1..n /\ source[q] = Code["'"] /\ b = q - 1
      BY <1>2, <1>4, <2>1, CommentCodes
    <3> HIDE DEF q, b, n
    <3>2. b + 1 = q /\ \A i \in b + 1..q : i = q
      BY <3>1
    <3>3. QED
      BY <3>1, <3>2, NewlineIsNotAQuote
  <2>2. CASE state = "COMMENT_LINE" /\ Char \notin {LF, EOF}
    <3>1. b = a /\ q = p + 1 /\ source[q] # LF
      BY <1>2, <1>3, <1>4, <1>6, <1>7, <2>2
    <3>2. source[a + 1] = Code["'"] /\ \A i \in a + 1..p : source[i] # LF
      BY <1>5, <2>2
    <3>3. a \in Nat /\ p \in Nat
      BY <1>1
    <3> HIDE DEF a, b, p, q, n
    <3>4. \A i \in b + 1..q : i \in a + 1..p \/ i = q
      BY <3>1, <3>3
    <3>5. QED
      BY <3>1, <3>2, <3>4
  <2>3. QED
    BY <1>8, <2>1, <2>2 DEF Turned
<1>9. ASSUME state' = "SLASH"
      PROVE  q = b + 1 /\ source[b + 1] = Code["/"]
  <2>1. state = "INIT" /\ Char = Code["/"]
    BY <1>9 DEF Turned
  <2>2. q \in 1..n /\ source[q] = Code["/"] /\ b = q - 1
    BY <1>2, <1>4, <2>1, CommentCodes
  <2> HIDE DEF q, b, n
  <2>3. b + 1 = q
    BY <2>2
  <2>4. QED
    BY <2>2, <2>3
<1>10. ASSUME state' = "COMMENT_BLOCK"
       PROVE  /\ b + 2 <= q /\ source[b + 1] = Code["/"] /\ source[b + 2] = Code["'"]
              /\ q = n \/ CutUp(R, b + 2, q)
  <2>1. CASE state = "SLASH" /\ Char = Code["'"]
    <3>1. b = a /\ q = a + 2 /\ source[q] = Code["'"] /\ source[a + 1] = Code["/"]
      BY <1>1, <1>2, <1>3, <1>4, <1>5, <1>6, <2>1, CommentCodes
    <3>2. a + 2 \in Nat
      BY <1>1
    <3> HIDE DEF a, b, q, n, R
    <3>3. CutUp(R, a + 2, a + 2)
      BY <3>2, CutNowhere
    <3>4. QED
      BY <3>1, <3>2, <3>3
  <2>2. CASE state = "COMMENT_BLOCK" /\ Char \notin {EOF, Code["'"]}
    <3>1. b = a /\ q = p + 1 /\ q <= n /\ p \in Nat /\ a + 2 \in Nat /\ q \in Nat
      BY <1>1, <1>2, <1>3, <1>4, <1>6, <2>2
    <3>2. a + 2 <= p /\ source[a + 1] = Code["/"] /\ source[a + 2] = Code["'"]
      BY <1>5, <2>2
    <3>3. CutUp(R, a + 2, p)
      <4>1. p # n
        BY <1>1, <3>1
      <4>2. QED
        BY <1>5, <2>2, <4>1
    <3>4. source[q] # Code["'"]
      <4>1. CharOf(source[q]) = CharOf(Char)
        BY <2>2, CharRead DEF Accounted, Moved
      <4>2. CharOf(Code["'"]) = Code["'"]
        BY CommentCodes DEF CharOf
      <4>3. CharOf(Char) = Code["'"] => Char = Code["'"]
        BY <1>1, CommentCodes DEF CharOf
      <4>4. QED
        BY <2>2, <4>1, <4>2, <4>3
    <3>5. CutUp(R, a + 2, q)
      <4> HIDE DEF a, b, q, n, p
      <4>1. QED
        BY <1>0, <3>1, <3>3, <3>4, CommentFurther DEF n
    <3> HIDE DEF R
    <3>6. b + 2 <= q
      BY <3>1, <3>2
    <3>7. QED
      BY <3>1, <3>2, <3>5, <3>6, Zenon
  <2>3. CASE state = "COMMENT_BLOCK_END" /\ Char # Code["/"]
    <3>1. b = a /\ p \in Nat /\ a + 2 \in Nat
      BY <1>1, <1>4, <2>3
    <3>2. /\ a + 2 < p /\ source[a + 1] = Code["/"] /\ source[a + 2] = Code["'"]
          /\ source[p] = Code["'"] /\ CutUp(R, a + 2, p - 1)
      BY <1>5, <2>3
    <3>3. Passed = p
      BY <1>3, <1>6, <2>3
    <3>4. CASE Char = EOF
      <4>1. q = n /\ q = p
        BY <1>2, <3>3, <3>4
      <4>2. b + 2 <= q
        BY <3>1, <3>2, <4>1
      <4>3. QED
        BY <3>1, <3>2, <4>1, <4>2, Zenon
    <3>5. CASE Char # EOF
      <4>1. q = p + 1 /\ q <= n
        BY <1>2, <3>3, <3>5
      <4>2. source[q] # Code["/"]
        <5>1. CharOf(source[q]) = CharOf(Char)
          BY <3>5, CharRead DEF Accounted, Moved
        <5>2. CharOf(Code["/"]) = Code["/"]
          BY CommentCodes DEF CharOf
        <5>3. CharOf(Char) = Code["/"] => Char = Code["/"]
          BY <1>1, CommentCodes DEF CharOf
        <5>4. QED
          BY <2>3, <5>1, <5>2, <5>3
      <4>3. p - 1 \in Nat /\ q \in Nat /\ q = (p - 1) + 2 /\ (p - 1) + 1 = p /\ b + 2 <= q
        BY <3>1, <3>2, <4>1
      <4>4. CutUp(R, a + 2, q)
        <5> HIDE DEF a, b, q, n, p
        <5>1. QED
          BY <1>0, <3>1, <3>2, <4>1, <4>2, <4>3, CommentFurther DEF n
      <4>5. QED
        BY <3>1, <3>2, <4>3, <4>4, Zenon
    <3>6. QED
      BY <3>4, <3>5
  <2>4. QED
    BY <1>10, <2>1, <2>2, <2>3 DEF Turned
<1>11. ASSUME state' = "COMMENT_BLOCK_END"
       PROVE  /\ b + 2 <= q /\ source[b + 1] = Code["/"] /\ source[b + 2] = Code["'"]
              /\ b + 2 < q /\ source[q] = Code["'"] /\ CutUp(R, b + 2, q - 1)
  <2>1. state = "COMMENT_BLOCK" /\ Char = Code["'"]
    BY <1>11 DEF Turned
  <2>2. b = a /\ q = p + 1 /\ q <= n /\ source[q] = Code["'"] /\ p \in Nat /\ a \in Nat
    BY <1>1, <1>2, <1>3, <1>4, <1>6, <2>1, CommentCodes
  <2>3. a + 2 <= p /\ source[a + 1] = Code["/"] /\ source[a + 2] = Code["'"]
    BY <1>5, <2>1
  <2>4. p # n
    BY <1>1, <2>2
  <2>5. CutUp(R, a + 2, p)
    BY <1>5, <2>1, <2>4
  <2> HIDE DEF R
  <2>6. b + 2 <= q /\ b + 2 < q /\ q - 1 = p
    BY <2>2, <2>3
  <2>7. QED
    BY <2>2, <2>3, <2>5, <2>6, Zenon
<1>12. QED
  <2> HIDE DEF R
  <2>1. R' = R
    BY <1>0 DEF R
  <2>2. QED
    BY <1>0, <1>8, <1>9, <1>10, <1>11, <2>1, Zenon DEF Commented, R

\* Which characters the automaton has passed over depends on nothing but what
\* it has given back, and where the tokens end on nothing but the tokens.
LEMMA EndsType ==
  ASSUME Accounted, TypeOK
  PROVE  LastEnd \in Ends /\ Ends \in SUBSET Nat
<1>1. LastEnd \in Nat
  BY LengthsType DEF Accounted
<1>2. QED
  BY <1>1 DEF Ends

LEMMA LoopAccounts ==
  ASSUME LexerInvariant, Accounted, NextTokenLoop, Moved, Turned, state \in UnfinishedStates
  PROVE  Accounted'
<1> DEFINE n == Len(source)
           p == position
           q == position'
           a == start
           b == start'
<1>0. TypeOK /\ Placed /\ source \in Seq(Bytes) /\ source' = source /\ tokens' = tokens
  BY SourcesAssumption DEF LexerInvariant, TypeOK, Moved, NextTokenLoop
<1>1. n \in Nat /\ p \in 0..n /\ a \in 0..n /\ Char \in -128..255
  BY <1>0, LengthsType, CharType
<1>2. /\ Passed \in 0..n
      /\ Char = EOF => q = Passed /\ Passed = n
      /\ Char # EOF => /\ q = Passed + 1 /\ q <= n
                       /\ CharOf(source[q]) = CharOf(Char)
                       /\ Char >= 0 => source[q] = Char
      /\ stack = <<>> => Passed = p
  BY <1>0, CharRead DEF Accounted, Moved
<1>3. state \in Inside => stack = <<>> /\ a < p /\ Passed = p
  BY <1>0, <1>2 DEF Placed
<1>4. /\ b = IF state # "INIT" THEN a ELSE IF Char = EOF THEN q ELSE q - 1
      /\ end' = IF Char = EOF THEN q ELSE q - Len(stack')
  BY DEF NextTokenLoop
<1>5. state = "INIT" \/ state \in Inside
  BY StatesApart
<1>6. Ends' = Ends /\ LastEnd' = LastEnd
  BY <1>0 DEF Ends, LastEnd
<1>7. LastEnd' \in 0..Len(source')
  BY <1>0, <1>6 DEF Accounted
<1>8. stack' = <<>> \/ stack' = <<CharOf(Char)>>
  BY DEF Moved
<1>9. Char = EOF => CharOf(Char) = EOF
  BY DEF CharOf, EOF
<1>10. stack' # <<>> => stack' = <<EOF>> \/ stack' = <<CharOf(source'[position'])>>
  BY <1>0, <1>2, <1>8, <1>9
<1>11. state' \in FinalStates =>
         \/ end' = position' /\ (stack' = <<>> \/ stack' = <<EOF>>)
         \/ end' = position' - 1 /\ stack' = <<CharOf(source'[position'])>>
  <2>1. CASE stack' = <<>>
    <3>1. end' = q
      <4>1. Len(stack') = 0
        BY <2>1
      <4>2. q \in Int
        BY <1>1, <1>2
      <4> HIDE DEF q
      <4>3. q - 0 = q
        BY <4>2
      <4>4. QED
        BY <1>4, <4>1, <4>3, Zenon
    <3>2. QED
      BY <2>1, <3>1
  <2>2. CASE stack' = <<CharOf(Char)>> /\ Char = EOF
    BY <1>4, <1>9, <2>2
  <2>3. CASE stack' = <<CharOf(Char)>> /\ Char # EOF
    <3>1. Len(stack') = 1
      BY <2>3
    <3>2. end' = q - 1
      BY <1>4, <2>3, <3>1
    <3>3. QED
      BY <1>0, <1>2, <2>3, <3>2
  <2>4. QED
    BY <1>8, <2>1, <2>2, <2>3
<1>12. b = IF state = "INIT" THEN Passed ELSE a
  BY <1>1, <1>2, <1>4
<1>13. state' \in Inside \cup FinalStates => Clear(source, Ends, b)
  BY <1>5, <1>12 DEF Accounted
<1>14. Ends \in SUBSET Nat
  BY <1>0, EndsType
<1>15. state' = "INIT" => Clear(source, Ends, Passed')
  <2> SUFFICES ASSUME state' = "INIT" PROVE Clear(source, Ends, Passed')
    OBVIOUS
  <2>1. CASE state = "INIT" /\ Char \in Blanks \ {LF} /\ stack' = <<>>
    <3>1. Char # EOF /\ Char >= 0
      BY <2>1 DEF Blanks, EOF
    <3>2. Passed' = q /\ q = Passed + 1 /\ q <= n /\ source[q] \in Blanks \ {LF}
      BY <1>2, <2>1, <3>1 DEF Passed
    <3>3. Passed \in Nat
      BY <1>1, <1>2
    <3>4. Clear(source, Ends, Passed)
      BY <2>1 DEF Accounted
    <3> DEFINE c == Passed
    <3>5. c \in Nat /\ c + 1 \in Nat /\ c < c + 1 /\ c + 1 <= n /\ source[c + 1] \in Blanks \ {LF}
      BY <3>2, <3>3
    <3>6. Clear(source, Ends, c)
      BY <3>4
    <3> HIDE DEF c
    <3>7. SubSeq(source, c + 1, c + 1) \in BlankTexts
      BY <1>0, <3>5, BlankIsBlank
    <3>8. Clear(source, Ends, c + 1)
      BY <1>0, <1>14, <3>5, <3>6, <3>7, ClearFurther
    <3>9. QED
      BY <3>2, <3>8 DEF c
  <2>2. CASE state = "COMMENT_LINE" /\ Char \in {LF, EOF} /\ stack' = <<CharOf(Char)>>
    <3>1. state \in Inside
      BY <2>2 DEF Inside, UnfinishedStates
    <3>2. Passed' = p
      <4>1. CASE Char = EOF
        <5>1. stack' = <<EOF>>
          BY <1>9, <2>2, <4>1
        <5>2. Passed' = q
          BY <5>1 DEF Passed
        <5>3. QED
          BY <1>2, <1>3, <3>1, <4>1, <5>2
      <4>2. CASE Char = LF
        <5>1. CharOf(Char) = LF /\ LF # EOF /\ Char # EOF
          BY <4>2 DEF CharOf, LF, EOF
        <5>2. stack' # <<>> /\ stack' # <<EOF>>
          BY <2>2, <5>1
        <5>3. Passed' = q - 1
          BY <5>2 DEF Passed
        <5>4. q = p + 1
          BY <1>2, <1>3, <3>1, <5>1
        <5>5. QED
          BY <1>1, <5>3, <5>4
      <4>3. QED
        BY <2>2, <4>1, <4>2
    <3>3. source[a + 1] = Code["'"] /\ \A i \in a + 1..p : source[i] # LF
      BY <2>2 DEF Accounted, Commented
    <3>4. Clear(source, Ends, a)
      BY <3>1 DEF Accounted
    <3>5. a \in Nat /\ p \in Nat /\ a < p /\ p <= n
      BY <1>1, <1>3, <3>1
    <3> HIDE DEF a, p, n
    <3>6. SubSeq(source, a + 1, p) \in BlankTexts
      BY <1>0, <3>3, <3>5, LineCommentIsBlank DEF n
    <3>7. Clear(source, Ends, p)
      BY <1>0, <1>14, <3>4, <3>5, <3>6, ClearFurther DEF n
    <3>8. QED
      BY <3>2, <3>7, Zenon
  <2>3. CASE state = "COMMENT_BLOCK_END" /\ Char = Code["/"] /\ stack' = <<>>
    <3>1. state \in Inside
      BY <2>3 DEF Inside, UnfinishedStates
    <3>2. Passed' = q /\ q = p + 1 /\ q <= n /\ source[q] = Code["/"]
      BY <1>2, <1>3, <2>3, <3>1, CommentCodes DEF Passed
    <3>3. /\ a + 2 < p /\ source[a + 1] = Code["/"] /\ source[a + 2] = Code["'"]
          /\ source[p] = Code["'"]
          /\ CutUp(PiecesIn(source, CommentTexts), a + 2, p - 1)
      BY <2>3 DEF Accounted, Commented
    <3>4. Clear(source, Ends, a)
      BY <3>1 DEF Accounted
    <3>5. a \in Nat /\ p \in Nat
      BY <1>1
    <3> HIDE DEF a, p, q, n
    <3>6. q \in Nat /\ a + 4 <= q /\ q - 1 = p /\ q - 2 = p - 1 /\ a < q
      BY <3>2, <3>3, <3>5
    <3>7. SubSeq(source, a + 1, q) \in BlankTexts
      BY <1>0, <3>2, <3>3, <3>5, <3>6, BlockCommentIsBlank DEF n
    <3>8. Clear(source, Ends, q)
      BY <1>0, <1>14, <3>2, <3>4, <3>5, <3>6, <3>7, ClearFurther DEF n
    <3>9. QED
      BY <3>2, <3>8, Zenon
  <2>4. QED
    BY <2>1, <2>2, <2>3 DEF Turned
<1>16. state' # "IDLE"
  BY DEF Turned
<1>17. Commented'
  BY <1>0, CommentedKept
<1>18. NothingIsLost'
  BY <1>0 DEF Accounted, NothingIsLost, Between
<1>19. state' \in {"IDLE", "INIT"} => Clear(source', Ends', Passed')
  BY <1>0, <1>6, <1>15, <1>16
<1>20. state' \in Inside \cup FinalStates => Clear(source', Ends', start')
  BY <1>0, <1>6, <1>13
<1>21. QED
  BY <1>7, <1>10, <1>11, <1>17, <1>18, <1>19, <1>20 DEF Accounted

LEMMA BeginsAccounted == Init => Accounted
<1> SUFFICES ASSUME Init PROVE Accounted
  OBVIOUS
<1>1. /\ state = "IDLE" /\ stack = <<>> /\ tokens = <<>> /\ position = 0
      /\ source \in Sources /\ Len(source) \in Nat
  BY SourcesAssumption, LenProperties DEF Init, InitState
<1>2. LastEnd = 0 /\ Passed = 0 /\ Ends = {0}
  BY <1>1 DEF LastEnd, Passed, Ends
<1>3. Clear(source, Ends, Passed)
  BY <1>2, ClearAtOnce
<1>4. "IDLE" \notin Inside \cup FinalStates
  BY StatesApart
<1>5. Commented
  BY <1>1 DEF Commented
<1>6. NothingIsLost
  BY <1>1 DEF NothingIsLost
<1>7. QED
  BY <1>1, <1>2, <1>3, <1>4, <1>5, <1>6 DEF Accounted

\* A call that makes no token and reads no character.
LEMMA SameAccounts ==
  ASSUME Accounted, UNCHANGED <<source, position, stack, start, end, tokens>>,
         state' = state \/ (state = "IDLE" /\ state' = "INIT")
  PROVE  Accounted'
<1>1. Passed' = Passed /\ LastEnd' = LastEnd /\ Ends' = Ends
  BY DEF Passed, LastEnd, Ends
<1>2. NothingIsLost'
  BY DEF Accounted, NothingIsLost, Between
<1>3. Commented'
  BY DEF Accounted, Commented
<1>4. /\ state' \in {"IDLE", "INIT"} => state \in {"IDLE", "INIT"}
      /\ state' \in Inside \cup FinalStates => state \in Inside \cup FinalStates
      /\ state' \in FinalStates => state \in FinalStates
  BY StatesApart DEF UnfinishedStates, FinalStates
<1>5. QED
  BY <1>1, <1>2, <1>3, <1>4 DEF Accounted

\* A place from which the text is clear is the end of the last token or the
\* byte 255 behind it.
LEMMA ClearIsBetween ==
  ASSUME TypeOK, NEW to \in 0..Len(source), LastEnd \in 0..Len(source), Clear(source, Ends, to)
  PROVE  LET between == SubSeq(source, LastEnd + 1, to)
         IN  \/ G!Blank(between)
             \/ tokens # <<>> /\ between # <<>> /\ Head(between) = 255 /\ G!Blank(Tail(between))
<1> DEFINE e == LastEnd
           n == Len(source)
           between == SubSeq(source, e + 1, to)
<1>0. source \in Seq(Bytes) /\ n \in Nat /\ e \in 0..n
  BY SourcesAssumption, LengthsType DEF TypeOK
<1>1. PICK from \in Ends : from <= to /\ CutUp(PiecesIn(source, BlankTexts), from, to)
  BY DEF Clear
<1>2. CASE from = e
  <2>1. from \in 0..n /\ to \in from..n
    BY <1>0, <1>1, <1>2
  <2>2. G!Blank(SubSeq(source, from + 1, to))
    BY <1>0, <1>1, <2>1, BlankWhenCut
  <2>3. QED
    BY <1>2, <2>2, Zenon
<1>3. CASE from = e + 1 /\ tokens # <<>> /\ source[from] = 255
  <2>1. from \in 0..n /\ to \in from..n /\ e + 1 \in 1..n /\ to \in e + 1..n /\ e + 1 <= to
    BY <1>0, <1>1, <1>3
  <2>2. G!Blank(SubSeq(source, from + 1, to))
    BY <1>0, <1>1, <2>1, BlankWhenCut
  <2>3. Head(between) = source[e + 1] /\ Tail(between) = SubSeq(source, (e + 1) + 1, to)
    BY <1>0, <2>1, HeadTailOfSubSeq
  <2>4. between # <<>>
    <3>1. e \in 0..n /\ to \in e..n
      BY <1>0, <2>1
    <3>2. between \in Seq(Bytes) /\ Len(between) = to - e
      BY <1>0, <3>1, PiecesMoved
    <3>3. to - e # 0
      BY <1>0, <2>1
    <3> HIDE DEF between, e
    <3>4. QED
      BY <3>2, <3>3, EmptySeq
  <2> HIDE DEF between, e
  <2>5. QED
    BY <1>3, <2>2, <2>3, <2>4 DEF between, e
<1>4. from = e \/ (from = e + 1 /\ tokens # <<>> /\ source[from] = 255)
  BY <1>1 DEF Ends
<1>5. QED
  BY <1>2, <1>3, <1>4

LEMMA EndAccounts ==
  ASSUME LexerInvariant, Accounted, NextTokenEnd
  PROVE  Accounted'
<1> DEFINE n == Len(source)
           m == Len(tokens)
<1>0. TypeOK /\ Placed /\ source \in Seq(Bytes) /\ source' = source /\ state \in FinalStates
  BY SourcesAssumption DEF LexerInvariant, TypeOK, NextTokenEnd
<1>1. n \in Nat /\ position \in 0..n /\ start \in 0..n /\ end \in 0..n
  BY <1>0, LengthsType
<1>2. PICK token : tokens' = Append(tokens, token) /\ token.start = start /\ token.end = end
  BY DEF NextTokenEnd
<1>3. PICK S : tokens \in Seq(S)
  BY DEF LexerInvariant, Delivered, IsSequence
<1>4. /\ m \in Nat /\ Len(tokens') = m + 1 /\ tokens' # <<>>
      /\ tokens'[m + 1] = token
      /\ \A k \in 1..m : tokens'[k] = tokens[k]
  <2>1. tokens \in Seq(S \cup {token}) /\ token \in S \cup {token}
    BY <1>3, SeqMonotonic, Zenon
  <2>2. m \in Nat
    BY <1>3, LenProperties
  <2> DEFINE T == S \cup {token}
             u == Append(tokens, token)
  <2>3. u \in Seq(T) /\ u # <<>> /\ Len(u) = m + 1 /\ u[m + 1] = token
        /\ \A k \in 1..m : u[k] = tokens[k]
    <3> HIDE DEF T
    <3>1. tokens \in Seq(T) /\ token \in T
      BY <2>1 DEF T
    <3>2. QED
      BY <2>2, <3>1, AppendProperties
  <2>4. QED
    BY <1>2, <2>2, <2>3
<1>5. LastEnd' = end
  BY <1>2, <1>4 DEF LastEnd
<1>6. UNCHANGED <<source, position, stack, start, end>> /\ state' = "IDLE"
  BY DEF NextTokenEnd
<1>7. Clear(source', Ends', Passed')
  <2>1. LastEnd' \in Ends' /\ end \in Nat /\ end + 1 \in Nat
    BY <1>1 DEF Ends
  <2>2. CASE end = position /\ (stack = <<>> \/ stack = <<EOF>>)
    <3>1. Passed' = end
      BY <1>6, <2>2 DEF Passed
    <3>2. QED
      BY <1>5, <2>1, <3>1, ClearAtOnce
  <2>3. CASE end = position - 1 /\ stack = <<CharOf(source[position])>>
    <3>1. end + 1 = position
      BY <1>1, <2>3
    <3>2. CASE stack = <<EOF>>
      <4>1. CharOf(source[position]) = EOF
        BY <2>3, <3>2
      <4>2. position \in 1..n
        BY <1>1, <3>1
      <4>3. source[position] \in 0..255
        BY <1>0, <4>2, ElementOfSeq DEF Bytes
      <4>4. source[position] = 255
        BY <4>1, <4>3 DEF CharOf, EOF
      <4>5. Passed' = end + 1
        BY <1>6, <3>1, <3>2 DEF Passed
      <4>6. end + 1 \in Ends'
        <5>1. LastEnd' + 1 = end + 1 /\ end + 1 <= Len(source') /\ source'[end + 1] = 255
          BY <1>5, <1>6, <3>1, <4>2, <4>4
        <5>2. QED
          BY <1>4, <5>1 DEF Ends
      <4>7. QED
        BY <2>1, <4>5, <4>6, ClearAtOnce
    <3>3. CASE stack # <<EOF>>
      <4>1. stack # <<>>
        BY <2>3
      <4>2. Passed' = end
        BY <1>6, <2>3, <3>3, <4>1 DEF Passed
      <4>3. QED
        BY <1>5, <2>1, <4>2, ClearAtOnce
    <3>4. QED
      BY <3>2, <3>3
  <2>4. QED
    BY <1>0, <2>2, <2>3 DEF Accounted
<1>8. NothingIsLost'
  <2> SUFFICES ASSUME NEW k \in 1..Len(tokens')
               PROVE  (\/ G!Blank(Between(k))
                       \/ /\ k > 1 /\ Between(k) # <<>>
                          /\ Head(Between(k)) = 255 /\ G!Blank(Tail(Between(k))))'
    BY DEF NothingIsLost
  <2>1. CASE k \in 1..m
    <3>1. Between(k)' = Between(k)
      <4>1. tokens'[k] = tokens[k]
        BY <1>4, <2>1
      <4>2. k # 1 => tokens'[k - 1] = tokens[k - 1]
        <5>1. k # 1 => k - 1 \in 1..m
          BY <1>4, <2>1
        <5>2. QED
          BY <1>4, <5>1
      <4>3. QED
        BY <1>6, <4>1, <4>2 DEF Between
    <3>2. \/ G!Blank(Between(k))
          \/ k > 1 /\ Between(k) # <<>> /\ Head(Between(k)) = 255 /\ G!Blank(Tail(Between(k)))
      BY <2>1 DEF Accounted, NothingIsLost
    <3>3. QED
      BY <3>1, <3>2
  <2>2. CASE k = m + 1
    <3>1. Clear(source, Ends, start) /\ LastEnd \in 0..Len(source)
      BY <1>0 DEF Accounted
    <3>2. Between(k)' = SubSeq(source, LastEnd + 1, start)
      <4>1. tokens'[k].start = start
        BY <1>2, <1>4, <2>2
      <4>2. CASE m = 0
        <5>1. k = 1 /\ LastEnd + 1 = 1
          <6>1. tokens = <<>>
            BY <1>3, <4>2, EmptySeq
          <6>2. QED
            BY <2>2, <4>2, <6>1 DEF LastEnd
        <5>2. QED
          BY <1>6, <4>1, <5>1 DEF Between
      <4>3. CASE m # 0
        <5>1. tokens # <<>> /\ k # 1 /\ k - 1 = m /\ m \in 1..m
          BY <1>4, <2>2, <4>3
        <5>2. tokens'[k - 1].end = LastEnd
          BY <1>4, <5>1 DEF LastEnd
        <5>3. QED
          BY <1>6, <4>1, <5>1, <5>2 DEF Between
      <4>4. QED
        BY <4>2, <4>3
    <3>3. tokens # <<>> => k > 1
      <4>1. tokens # <<>> => m # 0
        BY <1>3, EmptySeq
      <4>2. QED
        BY <1>4, <2>2, <4>1
    <3> DEFINE between == SubSeq(source, LastEnd + 1, start)
    <3>4. \/ G!Blank(between)
          \/ tokens # <<>> /\ between # <<>> /\ Head(between) = 255 /\ G!Blank(Tail(between))
      BY <1>0, <1>1, <3>1, ClearIsBetween
    <3> HIDE DEF between
    <3>5. Between(k)' = between
      BY <3>2 DEF between
    <3>6. QED
      BY <3>3, <3>4, <3>5
  <2>3. QED
    BY <1>4, <2>1, <2>2
<1>9. LastEnd' \in 0..Len(source')
  BY <1>1, <1>5, <1>6
<1>10. stack' # <<>> => stack' = <<EOF>> \/ stack' = <<CharOf(source'[position'])>>
  BY <1>6 DEF Accounted
<1>11. state' \notin Inside \cup FinalStates
  BY <1>6, StatesApart
<1>12. Commented'
  BY <1>6 DEF Commented
<1>13. QED
  BY <1>6, <1>7, <1>8, <1>9, <1>10, <1>11, <1>12 DEF Accounted

LEMMA StepAccounts == LexerInvariant /\ Accounted /\ [Next]_vars => Accounted'
<1> SUFFICES ASSUME LexerInvariant, Accounted, [Next]_vars PROVE Accounted'
  OBVIOUS
<1>1. CASE UNCHANGED vars
  BY <1>1, SameAccounts DEF vars, fsmVars
<1>2. CASE NextTokenRewound \/ NextTokenStart \/ RewindToken
  BY <1>2, SameAccounts DEF NextTokenRewound, NextTokenStart, RewindToken, fsmVars
<1>3. CASE NextTokenLoop
  <2>1. TypeOK /\ Placed /\ NextState
    BY <1>3 DEF LexerInvariant, NextTokenLoop
  <2>2. Moved /\ Turned
    BY <2>1, EveryCaseMoves, EveryCaseTurns
  <2>3. state \in UnfinishedStates
    BY <2>1, CaseStates
  <2>4. QED
    BY <1>3, <2>2, <2>3, LoopAccounts
<1>4. CASE NextTokenEnd
  BY <1>4, EndAccounts
<1>5. QED
  BY <1>1, <1>2, <1>3, <1>4 DEF Next

-----------------------------------------------------------------------------
(* The theorems.                                                           *)

\* The inductive invariant: what the automaton and the caller know of the text
\* and of each other holds after every character and every token.
THEOREM LexerInvariantHolds == Spec => []LexerInvariant
<1>1. LexerInvariant /\ [Next]_vars => LexerInvariant'
  <2> SUFFICES ASSUME LexerInvariant, [Next]_vars PROVE LexerInvariant'
    OBVIOUS
  <2>1. CASE UNCHANGED vars
    BY <2>1 DEF vars, fsmVars, LexerInvariant, TypeOK, Placed, Delivered, TokensInOrder
  <2>2. QED
    BY <2>1, RewoundKeeps, StartKeeps, LoopKeeps, EndKeeps, RewindKeeps DEF Next
<1>2. QED
  BY <1>1, InitHolds, PTL DEF Spec

\* The automaton stays within its types on every text: of the sixteen places of
\* the stack of characters (char_stack.h) one is ever used, an escape has three
\* digits at most (lexer_fsm.c), and a token is a piece of the text.
THEOREM LexerTypes == Spec => []TypeOK
<1>1. LexerInvariant => TypeOK
  BY DEF LexerInvariant
<1>2. QED
  BY <1>1, LexerInvariantHolds, PTL

\* The parser gets every token once and in order, however often it gives one
\* back (lexer_rewind_token).
THEOREM RewindKeepsTheOrder == Spec => []TokensInOrder
<1>1. LexerInvariant => TokensInOrder
  BY DEF LexerInvariant, Delivered
<1>2. QED
  BY <1>1, LexerInvariantHolds, PTL

\* Between two tokens stand only blanks and comments (lexer_next_token): what
\* the automaton gives back with REWIND_CHAR it reads again, but for the byte
\* 255, which char_stack_pop takes for an empty stack.
THEOREM NothingIsPassedOver == Spec => []NothingIsLost
<1>1. Accounted => NothingIsLost
  BY DEF Accounted
<1>2. QED
  BY <1>1, BeginsAccounted, StepAccounts, LexerInvariantHolds, PTL DEF Spec
=============================================================================
