--------------------------- MODULE LexicalGrammar ---------------------------
(***************************************************************************)
(* What the lexer promises: which texts are tokens, and what each of them  *)
(* says. It is stated on whole texts, with no automaton, so that the runs  *)
(* compare two different accounts of the same language.                    *)
(***************************************************************************)
EXTENDS Characters, SequencesExt

CONSTANT Keywords

From(s, i) == SubSeq(s, i, Len(s))
AllIn(s, chars) == \A i \in 1..Len(s) : s[i] \in chars

\* s is a sequence of pieces that P accepts.
Pieces(s, P(_)) ==
  LET upto[i \in 0..Len(s)] ==
        i = 0 \/ \E j \in 0..i - 1 : upto[j] /\ P(SubSeq(s, j + 1, i))
  IN  upto[Len(s)]

Lower(s) == [i \in 1..Len(s) |-> CharOf(ToLower(s[i]))]

-----------------------------------------------------------------------------
(* Numbers.                                                                *)

Decimal(s) == s # <<>> /\ AllIn(s, Digits)

InBase(s) ==
  /\ Len(s) >= 2 /\ s[1] = Code["&"] /\ ToLower(s[2]) \in DOMAIN DigitsOf
  /\ AllIn(From(s, 3), DigitsOf[ToLower(s[2])])

Fraction(s) == Len(s) >= 2 /\ s[1] = Code["."] /\ Decimal(Tail(s))

Exponent(s) ==
  /\ Len(s) >= 2 /\ ToLower(s[1]) = Code["e"]
  /\ \/ Decimal(Tail(s))
     \/ s[2] \in {Code["+"], Code["-"]} /\ Decimal(From(s, 3))

Double(s) ==
  \E i \in 1..Len(s) - 1, j \in 1..Len(s) :
    /\ i <= j
    /\ Decimal(SubSeq(s, 1, i))
    /\ i = j \/ Fraction(SubSeq(s, i + 1, j))
    /\ j = Len(s) \/ Exponent(From(s, j + 1))

\* The number a text names, whatever its size.
NumberNamed(s) ==
  LET base == IF InBase(s) THEN BaseOf[ToLower(s[2])] ELSE 10
      first == IF InBase(s) THEN 3 ELSE 1
      upto[i \in 0..Len(s)] ==
        IF i < first THEN 0
        ELSE upto[i - 1] + DigitValue(s[i]) * base ^ (Len(s) - i)
  IN  upto[Len(s)]

-----------------------------------------------------------------------------
(* Strings.                                                                *)

NumericEscape(s) ==
  /\ Len(s) = 4 /\ s[1] = Code["backslash"] /\ AllIn(Tail(s), Digits)
  /\ NumberNamed(Tail(s)) \in 1..255

\* The letter escapes: a quote, a backslash, n and t.
LetterEscape(s) ==
  Len(s) = 2 /\ s[1] = Code["backslash"]
    /\ s[2] \in {Code["quote"], Code["backslash"], Code["n"], Code["t"]}

StringPiece(s) ==
  \/ Len(s) = 1 /\ s[1] >= 32 /\ s[1] \notin {Code["quote"], Code["backslash"]}
  \/ LetterEscape(s)
  \/ NumericEscape(s)

Body(s) == SubSeq(s, 3, Len(s) - 1)

StringLiteral(s) ==
  /\ Len(s) >= 3 /\ s[1] = Code["!"] /\ s[2] = Code["quote"]
  /\ s[Len(s)] = Code["quote"] /\ Pieces(Body(s), StringPiece)

CharNamed(piece) ==
  IF Len(piece) = 1 THEN piece[1]
  ELSE IF Len(piece) = 4
  THEN NumberNamed(Tail(piece))
  ELSE IF piece[2] = Code["n"] THEN LF
  ELSE IF piece[2] = Code["t"] THEN Code["\t"]
  ELSE piece[2]

\* The characters the body of a string stands for.
StringNamed(s) ==
  LET body == Body(s)
      upto[i \in 0..Len(body)] ==
        IF i = 0 THEN <<>>
        ELSE LET j == CHOOSE j \in 0..i - 1 :
                        /\ StringPiece(SubSeq(body, j + 1, i))
                        /\ Pieces(SubSeq(body, 1, j), StringPiece)
             IN  Append(upto[j], CharOf(CharNamed(SubSeq(body, j + 1, i))))
  IN  upto[Len(body)]

-----------------------------------------------------------------------------
(* Words, operators, comments.                                             *)

Word(s) ==
  /\ s # <<>> /\ s[1] \in Letters \cup {Code["underscore"]}
  /\ AllIn(s, Letters \cup Digits \cup {Code["underscore"]})

Operators ==
  LET c == Code IN
  (<<c["+"]>> :> "ADD") @@ (<<c["-"]>> :> "SUBTRACT") @@
  (<<c["*"]>> :> "MULTIPLY") @@ (<<c["/"]>> :> "DIVIDE") @@
  (<<c["backslash"]>> :> "INTEGER_DIVIDE") @@ (<<c["<"]>> :> "SMALLER") @@
  (<<c[">"]>> :> "BIGGER") @@ (<<c["="]>> :> "EQUAL") @@
  (<<c["<"], c["="]>> :> "SMALLER_EQUAL") @@
  (<<c[">"], c["="]>> :> "BIGGER_EQUAL") @@
  (<<c["<"], c[">"]>> :> "SMALLER_BIGGER") @@
  (<<c["+"], c["="]>> :> "ASSIGN_ADD") @@
  (<<c["-"], c["="]>> :> "ASSIGN_SUB") @@
  (<<c["*"], c["="]>> :> "ASSIGN_MULTIPLY") @@
  (<<c["/"], c["="]>> :> "ASSIGN_DIVIDE") @@
  (<<c["backslash"], c["="]>> :> "ASSIGN_INT_DIVIDE") @@
  (<<c["("]>> :> "LEFT_BRACKET") @@ (<<c[")"]>> :> "RIGHT_BRACKET") @@
  (<<c["semicolon"]>> :> "SEMICOLON") @@ (<<c["comma"]>> :> "COMMA") @@ (<<LF>> :> "EOL")

\* In a block comment a quote that ends nothing takes the next character with it.
CommentPiece(s) ==
  \/ Len(s) = 1 /\ s[1] # Code["'"]
  \/ Len(s) = 2 /\ s[1] = Code["'"] /\ s[2] # Code["/"]

Comment(s) ==
  \/ /\ Len(s) >= 1 /\ s[1] = Code["'"] /\ \A i \in 1..Len(s) : s[i] # LF
  \/ /\ Len(s) >= 4
     /\ SubSeq(s, 1, 2) = <<Code["/"], Code["'"]>>
     /\ From(s, Len(s) - 1) = <<Code["'"], Code["/"]>>
     /\ Pieces(SubSeq(s, 3, Len(s) - 2), CommentPiece)

-----------------------------------------------------------------------------
(* The language.                                                           *)

\* The text s is a token of the type.
Lexeme(type, s) ==
  \/ type = "INTEGER_LITERAL" /\ (Decimal(s) \/ InBase(s))
  \/ type = "DOUBLE_LITERAL" /\ Double(s)
  \/ type = "STRING_VALUE" /\ StringLiteral(s)
  \/ type = "KEYWORD" /\ Word(s) /\ Lower(s) \in Keywords
  \/ type = "IDENTIFIER" /\ Word(s) /\ Lower(s) \notin Keywords
  \/ type = "EOF" /\ s = <<>>
  \/ s \in DOMAIN Operators /\ type = Operators[s]

Whole(s) ==
  \/ Decimal(s) \/ InBase(s) \/ Double(s) \/ StringLiteral(s) \/ Word(s)
  \/ s \in DOMAIN Operators \/ Comment(s)

\* What is missing at the end of a token or a comment cut short.
Endings ==
  LET c == Code IN
  {<<>>, <<c["0"]>>, <<c["b"]>>, <<c["quote"]>>, <<c["quote"], c["quote"]>>,
   <<c["n"], c["quote"]>>, <<c["0"], c["1"], c["quote"]>>, <<c["1"], c["quote"]>>,
   <<c["0"], c["quote"]>>, <<c["/"]>>, <<c["'"], c["/"]>>}

\* s is a token, a comment, or the beginning of one.
Viable(s) == \E e \in Endings : Whole(s \o e)

\* What may stand between two tokens.
Blank(s) == Pieces(s, LAMBDA p : p = <<>> \/ Comment(p) \/ (Len(p) = 1 /\ p[1] \in Blanks \ {LF}))
=============================================================================
