-------------------------------- MODULE Lexer --------------------------------
(***************************************************************************)
(* The lexer (lexer.c) around the automaton: a call for a token runs the   *)
(* automaton to a final state, and the parser may give the last token back *)
(* once. The parser is any caller that asks for tokens up to the end or    *)
(* the first error, and gives back the one it has just taken.              *)
(***************************************************************************)
EXTENDS LexerFSM

CONSTANTS
  IntBits,    \* the width of int
  LongBits    \* the width of long, which strtol saturates at

ASSUME WidthAssumption == IntBits \in Nat \ {0} /\ LongBits \in Nat /\ LongBits >= IntBits

NoToken == [type |-> "UNKNOWN", data |-> <<>>, start |-> 0, end |-> 0, line |-> 0]

VARIABLES
  is_token_rewind,
  rewind_token,
  error_report,
  tokens,      \* history: every token the automaton has made
  taken,       \* history: the tokens the parser has and has not given back
  start, end   \* history: the characters of the token being read are start + 1 .. end

vars == <<fsmVars, is_token_rewind, rewind_token, error_report,
          tokens, taken, start, end>>

-----------------------------------------------------------------------------
(* The data of a token.                                                    *)

LongMax == 2 ^ (LongBits - 1) - 1

\* strtol
StrToL(digits, base) ==
  FoldLeft(LAMBDA value, d : IF value * base + DigitValue(d) > LongMax THEN LongMax
                             ELSE value * base + DigitValue(d),
           0, digits)

\* The cast of a long to int.
ToInt(value) == ((value + 2 ^ (IntBits - 1)) % 2 ^ IntBits) - 2 ^ (IntBits - 1)

\* Wrong on purpose (a mutant of TransformIntegerValue): the letter of the base
\* is not passed over, and strtol stops at it.
TransformIntegerValueAtLetter(text) ==
  IF text[1] \in DOMAIN BaseOf THEN 0 ELSE ToInt(StrToL(text, 10))

TransformIntegerValue(text) ==
  IF text[1] \in DOMAIN BaseOf
  THEN ToInt(StrToL(Tail(text), BaseOf[text[1]]))
  ELSE ToInt(StrToL(text, 10))

\* The text, the number it stands for, or nothing.
StoreTokenData(type) ==
  IF type = "INTEGER_LITERAL" THEN <<TransformIntegerValue(stream_buffer)>>
  ELSE IF type \in {"IDENTIFIER", "STRING_VALUE", "DOUBLE_LITERAL"} THEN stream_buffer
  ELSE <<>>

-----------------------------------------------------------------------------
(* The operations.                                                         *)

Init ==
  /\ InitState
  /\ is_token_rewind = FALSE /\ rewind_token = NoToken
  /\ error_report = [error_code |-> "ERROR_NONE", detail_information |-> "NO_ERROR"]
  /\ tokens = <<>> /\ taken = <<>>
  /\ start = 0 /\ end = 0

\* The parser asks for no token after the last one or a wrong one.
WantsMore == \A k \in 1..Len(taken) : taken[k].type \notin {"EOF", "ERROR"}

\* Wrong on purpose (a mutant of NextTokenRewound): the token stays given back.
NextTokenRewoundAgain ==
  /\ state = "IDLE" /\ is_token_rewind
  /\ taken' = Append(taken, rewind_token)
  /\ UNCHANGED <<fsmVars, is_token_rewind, rewind_token, error_report,
                 tokens, start, end>>

\* lexer_next_token with a token given back
NextTokenRewound ==
  /\ state = "IDLE" /\ is_token_rewind
  /\ is_token_rewind' = FALSE
  /\ rewind_token' = NoToken
  /\ taken' = Append(taken, rewind_token)
  /\ UNCHANGED <<fsmVars, error_report, tokens, start, end>>

\* lexer_next_token up to its loop
NextTokenStart ==
  /\ state = "IDLE" /\ ~is_token_rewind /\ WantsMore
  /\ state' = "INIT"
  /\ UNCHANGED <<source, position, stack, stream_buffer, numeric_char_value,
                 lexer_error, line, is_token_rewind, rewind_token, error_report,
                 tokens, taken, start, end>>

\* The body of its loop. A character given back belongs to the next token.
NextTokenLoop ==
  /\ NextState
  /\ start' = IF state # "INIT" THEN start
              ELSE IF Char = EOF THEN position' ELSE position' - 1
  /\ end' = IF Char = EOF THEN position' ELSE position' - Len(stack')
  /\ UNCHANGED <<is_token_rewind, rewind_token, error_report, tokens, taken>>

\* The rest of it, with the token made
NextTokenEnd ==
  /\ state \in FinalStates
  /\ LET token == [type |-> state, data |-> StoreTokenData(state),
                   start |-> start, end |-> end, line |-> line]
     IN  tokens' = Append(tokens, token) /\ taken' = Append(taken, token)
  /\ stream_buffer' = <<>>
  /\ error_report' = IF state = "ERROR"
                     THEN [error_code |-> "ERROR_LEXER", detail_information |-> lexer_error]
                     ELSE error_report
  /\ state' = "IDLE"
  /\ UNCHANGED <<source, position, stack, numeric_char_value, lexer_error, line,
                 is_token_rewind, rewind_token, start, end>>

\* lexer_rewind_token of the token just taken
RewindToken ==
  /\ state = "IDLE" /\ ~is_token_rewind /\ taken # <<>>
  /\ is_token_rewind' = TRUE
  /\ rewind_token' = Last(taken)
  /\ taken' = Front(taken)
  /\ UNCHANGED <<fsmVars, error_report, tokens, start, end>>

Next ==
  \/ NextTokenRewound \/ NextTokenStart \/ NextTokenLoop \/ NextTokenEnd
  \/ RewindToken

\* A call that has begun runs on: there is one thread and nothing blocks
\* but the stream, which gives a character or its end.
Spec == Init /\ [][Next]_vars /\ WF_vars(NextTokenLoop) /\ WF_vars(NextTokenEnd)

-----------------------------------------------------------------------------
(* Properties.                                                             *)

G == INSTANCE LexicalGrammar

Text(token) == SubSeq(source, token.start + 1, token.end)

\* What stands before token k.
Between(k) ==
  SubSeq(source, IF k = 1 THEN 1 ELSE tokens[k - 1].end + 1, tokens[k].start)

\* Types. Of the sixteen places of the stack (char_stack.h) one is ever used.
TypeOK ==
  /\ source \in Sources /\ position \in 0..Len(source)
  /\ state \in {"IDLE"} \cup UnfinishedStates \cup FinalStates
  /\ stack \in Seq(-128..127) /\ Len(stack) <= 1
  /\ stream_buffer \in Seq(-128..127)
  /\ numeric_char_value \in Seq(Digits) /\ Len(numeric_char_value) <= 3
  /\ lexer_error \in LexerErrors /\ line \in 1..Len(source) + 1
  /\ is_token_rewind \in BOOLEAN
  /\ start <= end \/ state \in {"IDLE", "INIT"}
  /\ start \in 0..Len(source) /\ end \in 0..Len(source)

\* Each token is the longest text from its first character on that the
\* grammar has, and is of its type; an error is reported only for a text that
\* no token or comment begins with, or that the end of the file cuts short.
TokensAreLongest ==
  \A k \in 1..Len(tokens) :
    LET token == tokens[k]
        text == Text(token)
        more == SubSeq(source, token.start + 1, token.end + 1)
    IN  IF token.type # "ERROR"
        THEN /\ G!Lexeme(token.type, text)
             /\ token.end < Len(source) => ~G!Viable(more)
        ELSE \/ ~G!Viable(text)
             \/ token.end = Len(source) /\ ~G!Whole(text)

\* What the parser gets with a token is what its text says: an identifier in
\* lower case, a string without its escapes, a number as an int that agrees
\* with it up to the width of int, or with the largest long when it is larger.
DataSaysTheText ==
  \A k \in 1..Len(tokens) :
    LET token == tokens[k]
        text == Text(token)
        number == G!NumberNamed(text)
    IN  CASE token.type = "IDENTIFIER" -> token.data = G!Lower(text)
          [] token.type = "STRING_VALUE" -> token.data = G!StringNamed(text)
          [] token.type = "DOUBLE_LITERAL" -> token.data = text
          [] token.type = "INTEGER_LITERAL" ->
               /\ Len(token.data) = 1
               /\ token.data[1] \in -(2 ^ (IntBits - 1))..2 ^ (IntBits - 1) - 1
               /\ IF number <= LongMax
                  THEN (token.data[1] - number) % 2 ^ IntBits = 0
                  ELSE (token.data[1] - LongMax) % 2 ^ IntBits = 0
          [] OTHER -> token.data = <<>>

\* Between two tokens stand only blanks and comments: a character given back
\* is read again, except the byte 255, which the stack of char cannot tell
\* from its own emptiness (char_stack_pop).
NothingIsLost ==
  \A k \in 1..Len(tokens) :
    LET between == Between(k)
    IN  \/ G!Blank(between)
        \/ k > 1 /\ between # <<>> /\ Head(between) = 255 /\ G!Blank(Tail(between))

\* The parser gets the tokens in the order of the text, each of them once
\* however often it gives one back (lexer_rewind_token).
TokensInOrder ==
  tokens = taken \o (IF is_token_rewind THEN <<rewind_token>> ELSE <<>>)

\* Each token but the end of a line is on the line lexer_fsm->line says: one
\* more than the lines that end before it.
LineIsTheActualLine ==
  \A k \in 1..Len(tokens) :
    tokens[k].type # "EOL" =>
      tokens[k].line =
        1 + Cardinality({i \in 1..tokens[k].start : source[i] = LF})

\* A call for a token returns: the automaton reaches a final state on every
\* text, the end of the file included.
CallsReturn == state # "IDLE" ~> state = "IDLE"
=============================================================================
