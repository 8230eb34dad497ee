------------------------------ MODULE LexerFSM ------------------------------
(***************************************************************************)
(* The automaton of the lexer (lexer_fsm.c): each call of                  *)
(* lexer_fsm_next_state takes one character, the one given back before it  *)
(* or the next one of the stream, and moves from one state to another.     *)
(* There is an action for each case, or run of like cases, of the switch.  *)
(* A type of token is the name of its final state; the 35 keywords share   *)
(* one, KEYWORD.                                                           *)
(***************************************************************************)
EXTENDS Characters, SequencesExt

CONSTANTS
  Sources,   \* the texts the stream may hold
  Keywords   \* the reserved words that may be spelled with their characters

ASSUME SourcesAssumption == \A s \in Sources : s \in Seq(Bytes)

\* The capacity of the stack of characters given back.
CHAR_STACK_MAX_LENGTH == 16

VARIABLES
  source,               \* what the stream holds
  position,             \* how many of its characters have been read
  state,                \* actual_state, "IDLE" between two calls for a token
  stack,                \* the characters given back
  stream_buffer,        \* the text of the token so far
  numeric_char_value,   \* the digits of a numeric escape so far
  lexer_error,
  line

fsmVars == <<source, position, state, stack, stream_buffer,
             numeric_char_value, lexer_error, line>>

UnfinishedStates ==
  {"INIT", "AMP", "BINARY_START", "BINARY_UNFINISHED", "OCTA_START",
   "OCTA_UNFINISHED", "HEXA_START", "HEXA_UNFINISHED", "ADD_UNFINISHED",
   "SUBTRACT_UNFINISHED", "MULTIPLY_UNFINISHED", "INTEGER_DIVIDE_UNFINISHED",
   "COMMENT_LINE", "SLASH", "COMMENT_BLOCK", "COMMENT_BLOCK_END",
   "LEFT_SHARP_BRACKET", "RIGHT_SHARP_BRACKET", "IDENTIFIER_UNFINISHED",
   "INTEGER_LITERAL_UNFINISHED", "DOUBLE_DOT", "DOUBLE_UNFINISHED", "DOUBLE_E",
   "DOUBLE_E_UNFINISHED", "DOUBLE_E_SIGN", "STRING_EXC", "STRING_LOAD",
   "STRING_SLASH", "STRING_NUMERIC_CHAR"}

FinalStates ==
  {"ADD", "SUBTRACT", "DIVIDE", "INTEGER_DIVIDE", "MULTIPLY",
   "INTEGER_LITERAL", "DOUBLE_LITERAL", "STRING_VALUE", "SMALLER_BIGGER",
   "EOL", "SMALLER", "BIGGER", "SMALLER_EQUAL", "BIGGER_EQUAL", "IDENTIFIER",
   "EQUAL", "SEMICOLON", "COMMA", "LEFT_BRACKET", "RIGHT_BRACKET", "KEYWORD",
   "EOF", "ERROR", "ASSIGN_ADD", "ASSIGN_SUB", "ASSIGN_MULTIPLY",
   "ASSIGN_INT_DIVIDE", "ASSIGN_DIVIDE"}

LexerErrors == {"NO_ERROR", "STRING_FORMAT", "DOUBLE_FORMAT", "ERROR_LEXEM"}

-----------------------------------------------------------------------------
(* One character.                                                          *)

\* What char_stack_pop returns: EOF stands for an empty stack too.
Popped == IF stack = <<>> THEN EOF ELSE Last(stack)

\* Wrong on purpose (a mutant of Rest): the character stays on the stack.
RestKept == stack

\* The stack after the pop.
Rest == IF stack = <<>> THEN stack ELSE Front(stack)

\* The character of this call. A byte above 127 given back comes out negative,
\* and the tests of ctype.h, undefined there, answer no with the C library.
Char ==
  IF Popped # EOF THEN Popped
  ELSE IF position < Len(source) THEN source[position + 1] ELSE EOF

Read ==
  position' = IF Popped = EOF /\ position < Len(source)
              THEN position + 1 ELSE position

\* REWIND_CHAR: a full stack refuses the character and nobody asks.
GiveBack(chars, c) ==
  IF Len(chars) < CHAR_STACK_MAX_LENGTH THEN Append(chars, CharOf(c)) ELSE chars

(* The ways a case can end.                                                *)

Skip(to) ==
  /\ Read /\ stack' = Rest /\ state' = to
  /\ UNCHANGED <<source, stream_buffer, numeric_char_value, lexer_error, line>>

Store(c, to) ==
  /\ Read /\ stack' = Rest /\ state' = to
  /\ stream_buffer' = Append(stream_buffer, CharOf(c))
  /\ UNCHANGED <<source, numeric_char_value, lexer_error, line>>

Rewind(to) ==
  /\ Read /\ stack' = GiveBack(Rest, Char) /\ state' = to
  /\ UNCHANGED <<source, stream_buffer, numeric_char_value, lexer_error, line>>

Fail(error) ==
  /\ Read /\ stack' = Rest /\ state' = "ERROR" /\ lexer_error' = error
  /\ UNCHANGED <<source, stream_buffer, numeric_char_value, line>>

\* Nothing in a set of pairs, of a character and what it leads to, is for this one.
Unlisted(leads) == \A lead \in leads : Char # lead[1]

\* Wrong on purpose (a mutant of Follow): the character after a token is dropped.
FollowSwallowing(leads, otherwise) ==
  \/ \E lead \in leads : Char = lead[1] /\ Skip(lead[2])
  \/ Unlisted(leads) /\ Skip(otherwise)

\* The character leads on as `leads` says, or is given back after the token `otherwise`.
Follow(leads, otherwise) ==
  \/ \E lead \in leads : Char = lead[1] /\ Skip(lead[2])
  \/ Unlisted(leads) /\ Rewind(otherwise)

-----------------------------------------------------------------------------
(* The cases of the switch.                                                *)

InitState ==
  /\ source \in Sources
  /\ position = 0 /\ state = "IDLE" /\ stack = <<>>
  /\ stream_buffer = <<>> /\ numeric_char_value = <<>>
  /\ lexer_error = "NO_ERROR" /\ line = 1

\* The characters that are a token, or surely begin one, and the end.
Leads ==
  {<<Code["!"], "STRING_EXC">>, <<Code["'"], "COMMENT_LINE">>, <<Code["/"], "SLASH">>,
   <<Code["backslash"], "INTEGER_DIVIDE_UNFINISHED">>, <<Code["+"], "ADD_UNFINISHED">>,
   <<Code["-"], "SUBTRACT_UNFINISHED">>, <<Code["*"], "MULTIPLY_UNFINISHED">>,
   <<Code["("], "LEFT_BRACKET">>, <<Code[")"], "RIGHT_BRACKET">>,
   <<Code["<"], "LEFT_SHARP_BRACKET">>, <<Code[">"], "RIGHT_SHARP_BRACKET">>,
   <<Code["="], "EQUAL">>, <<Code["semicolon"], "SEMICOLON">>, <<Code["comma"], "COMMA">>,
   <<Code["&"], "AMP">>, <<EOF, "EOF">>}

FromInit ==
  /\ state = "INIT"
  /\ \/ /\ Char = LF
        /\ Read /\ stack' = Rest /\ state' = "EOL" /\ line' = line + 1
        /\ UNCHANGED <<source, stream_buffer, numeric_char_value, lexer_error>>
     \/ Char \in Blanks \ {LF} /\ Skip("INIT")
     \/ /\ Char \in Letters \cup {Code["underscore"]}
        /\ Store(ToLower(Char), "IDENTIFIER_UNFINISHED")
     \/ Char \in Digits /\ Store(Char, "INTEGER_LITERAL_UNFINISHED")
     \/ \E lead \in Leads : Char = lead[1] /\ Skip(lead[2])
     \/ /\ Char \notin Blanks \cup Letters \cup {Code["underscore"]} \cup Digits
        /\ Unlisted(Leads)
        /\ Fail("ERROR_LEXEM")

\* After an ampersand; the error keeps whatever detail was there before.
FromAmp ==
  /\ state = "AMP"
  /\ \/ ToLower(Char) = Code["b"] /\ Store(ToLower(Char), "BINARY_START")
     \/ ToLower(Char) = Code["o"] /\ Store(ToLower(Char), "OCTA_START")
     \/ ToLower(Char) = Code["h"] /\ Store(ToLower(Char), "HEXA_START")
     \/ ToLower(Char) \notin DOMAIN DigitsOf /\ Skip("ERROR")

\* The states before and after the first digit do the same.
FromRadix(letter, start, unfinished) ==
  /\ state \in {start, unfinished}
  /\ \/ Char \in DigitsOf[Code[letter]] /\ Store(ToLower(Char), unfinished)
     \/ Char \notin DigitsOf[Code[letter]] /\ Rewind("INTEGER_LITERAL")

FromOperator ==
  \/ state = "ADD_UNFINISHED" /\ Follow({<<Code["="], "ASSIGN_ADD">>}, "ADD")
  \/ state = "SUBTRACT_UNFINISHED" /\ Follow({<<Code["="], "ASSIGN_SUB">>}, "SUBTRACT")
  \/ state = "MULTIPLY_UNFINISHED" /\ Follow({<<Code["="], "ASSIGN_MULTIPLY">>}, "MULTIPLY")
  \/ /\ state = "INTEGER_DIVIDE_UNFINISHED"
     /\ Follow({<<Code["="], "ASSIGN_INT_DIVIDE">>}, "INTEGER_DIVIDE")

FromStringExc ==
  /\ state = "STRING_EXC"
  /\ \/ Char = Code["quote"] /\ Skip("STRING_LOAD")
     \/ Char # Code["quote"] /\ Fail("STRING_FORMAT")

FromStringLoad ==
  /\ state = "STRING_LOAD"
  /\ \/ Char < 32 /\ Fail("STRING_FORMAT")
     \/ Char = Code["quote"] /\ Skip("STRING_VALUE")
     \/ Char = Code["backslash"] /\ Skip("STRING_SLASH")
     \/ Char >= 32 /\ Char \notin {Code["quote"], Code["backslash"]} /\ Store(Char, "STRING_LOAD")

Escapes ==
  {<<Code["quote"], Code["quote"]>>, <<Code["backslash"], Code["backslash"]>>, <<Code["n"], LF>>,
   <<Code["t"], Code["\t"]>>}

FromStringSlash ==
  /\ state = "STRING_SLASH"
  /\ \/ /\ Char \in Digits
        /\ numeric_char_value' = <<Char>>
        /\ Read /\ stack' = Rest /\ state' = "STRING_NUMERIC_CHAR"
        /\ UNCHANGED <<source, stream_buffer, lexer_error, line>>
     \/ \E escape \in Escapes : Char = escape[1] /\ Store(escape[2], "STRING_LOAD")
     \/ Char \notin Digits /\ Unlisted(Escapes) /\ Fail("STRING_FORMAT")

\* atoi of the three digits.
EscapeValue(digits) ==
  100 * DigitValue(digits[1]) + 10 * DigitValue(digits[2]) + DigitValue(digits[3])

FromStringNumericChar ==
  /\ state = "STRING_NUMERIC_CHAR"
  /\ LET digits == Append(numeric_char_value, Char) IN
     \/ Char \notin Digits /\ Fail("STRING_FORMAT")
     \/ /\ Char \in Digits
        /\ numeric_char_value' = digits
        /\ Read /\ stack' = Rest
        /\ \/ /\ Len(digits) < 3
              /\ state' = "STRING_NUMERIC_CHAR"
              /\ UNCHANGED <<stream_buffer, lexer_error>>
           \/ /\ Len(digits) = 3 /\ EscapeValue(digits) \in 1..255
              /\ stream_buffer' = Append(stream_buffer, CharOf(EscapeValue(digits)))
              /\ state' = "STRING_LOAD"
              /\ UNCHANGED lexer_error
           \/ /\ Len(digits) = 3 /\ EscapeValue(digits) \notin 1..255
              /\ state' = "ERROR" /\ lexer_error' = "STRING_FORMAT"
              /\ UNCHANGED stream_buffer
        /\ UNCHANGED <<source, line>>

FromIntegerLiteral ==
  /\ state = "INTEGER_LITERAL_UNFINISHED"
  /\ \/ Char \in Digits /\ Store(Char, "INTEGER_LITERAL_UNFINISHED")
     \/ Char = Code["."] /\ Store(Char, "DOUBLE_DOT")
     \/ ToLower(Char) = Code["e"] /\ Store(Char, "DOUBLE_E")
     \/ /\ Char \notin Digits \cup {Code["."]} /\ ToLower(Char) # Code["e"]
        /\ Rewind("INTEGER_LITERAL")

FromDoubleDot ==
  /\ state = "DOUBLE_DOT"
  /\ \/ Char \in Digits /\ Store(Char, "DOUBLE_UNFINISHED")
     \/ Char \notin Digits /\ Fail("DOUBLE_FORMAT")

FromDouble ==
  /\ state = "DOUBLE_UNFINISHED"
  /\ \/ Char \in Digits /\ Store(Char, "DOUBLE_UNFINISHED")
     \/ ToLower(Char) = Code["e"] /\ Store(Char, "DOUBLE_E")
     \/ /\ Char \notin Digits /\ ToLower(Char) # Code["e"]
        /\ Rewind("DOUBLE_LITERAL")

FromDoubleE ==
  \/ /\ state = "DOUBLE_E"
     /\ \/ Char \in Digits /\ Store(Char, "DOUBLE_E_UNFINISHED")
        \/ Char \in {Code["-"], Code["+"]} /\ Store(Char, "DOUBLE_E_SIGN")
        \/ /\ Char \notin Digits \cup {Code["-"], Code["+"]}
           /\ Fail("DOUBLE_FORMAT")
  \/ /\ state = "DOUBLE_E_SIGN"
     /\ \/ Char \in Digits /\ Store(Char, "DOUBLE_E_UNFINISHED")
        \/ Char \notin Digits /\ Fail("DOUBLE_FORMAT")
  \/ /\ state = "DOUBLE_E_UNFINISHED"
     /\ \/ Char \in Digits /\ Store(Char, "DOUBLE_E_UNFINISHED")
        \/ Char \notin Digits /\ Rewind("DOUBLE_LITERAL")

FromSharpBracket ==
  \/ /\ state = "LEFT_SHARP_BRACKET"
     /\ Follow({<<Code["="], "SMALLER_EQUAL">>, <<Code[">"], "SMALLER_BIGGER">>}, "SMALLER")
  \/ /\ state = "RIGHT_SHARP_BRACKET"
     /\ Follow({<<Code["="], "BIGGER_EQUAL">>}, "BIGGER")

IdentifierState(name) == IF name \in Keywords THEN "KEYWORD" ELSE "IDENTIFIER"

FromIdentifier ==
  /\ state = "IDENTIFIER_UNFINISHED"
  /\ LET word == Letters \cup Digits \cup {Code["underscore"]} IN
     \/ Char \in word /\ Store(ToLower(Char), "IDENTIFIER_UNFINISHED")
     \/ Char \notin word /\ Rewind(IdentifierState(stream_buffer))

FromSlash ==
  /\ state = "SLASH"
  /\ Follow({<<Code["="], "ASSIGN_DIVIDE">>, <<Code["'"], "COMMENT_BLOCK">>}, "DIVIDE")

\* Wrong on purpose (a mutant of FromCommentLine): the comment takes the end of its line.
FromCommentLineToEnd ==
  /\ state = "COMMENT_LINE"
  /\ \/ Char \notin {LF, EOF} /\ Skip("COMMENT_LINE")
     \/ Char \in {LF, EOF} /\ Skip("INIT")

FromCommentLine ==
  /\ state = "COMMENT_LINE"
  /\ \/ Char \notin {LF, EOF} /\ Skip("COMMENT_LINE")
     \/ Char \in {LF, EOF} /\ Rewind("INIT")

\* Wrong on purpose (a mutant of FromCommentBlock): the end of the text is not looked for.
FromCommentBlockUnended ==
  /\ state = "COMMENT_BLOCK"
  /\ \/ Char = Code["'"] /\ Skip("COMMENT_BLOCK_END")
     \/ Char # Code["'"] /\ Skip("COMMENT_BLOCK")

FromCommentBlock ==
  /\ state = "COMMENT_BLOCK"
  /\ \/ Char = EOF /\ Skip("ERROR")
     \/ Char = Code["'"] /\ Skip("COMMENT_BLOCK_END")
     \/ Char \notin {EOF, Code["'"]} /\ Skip("COMMENT_BLOCK")

\* A second quote does not count as the first of the end.
FromCommentBlockEnd ==
  /\ state = "COMMENT_BLOCK_END"
  /\ \/ Char = Code["/"] /\ Skip("INIT")
     \/ Char # Code["/"] /\ Skip("COMMENT_BLOCK")

\* One call of lexer_fsm_next_state.
NextState ==
  \/ FromInit \/ FromAmp
  \/ FromRadix("b", "BINARY_START", "BINARY_UNFINISHED")
  \/ FromRadix("o", "OCTA_START", "OCTA_UNFINISHED")
  \/ FromRadix("h", "HEXA_START", "HEXA_UNFINISHED")
  \/ FromOperator \/ FromStringExc \/ FromStringLoad \/ FromStringSlash
  \/ FromStringNumericChar \/ FromIntegerLiteral \/ FromDoubleDot
  \/ FromDouble \/ FromDoubleE \/ FromSharpBracket \/ FromIdentifier
  \/ FromSlash \/ FromCommentLine \/ FromCommentBlock \/ FromCommentBlockEnd
=============================================================================
