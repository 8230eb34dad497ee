-------------------------- MODULE PrecedenceParser --------------------------
(***************************************************************************)
(* parser_parse_expression: the buffer of terminals, expressions and marks *)
(* where a reduction begins, the precedence table, and the shapes of the   *)
(* rules.  What a rule emits is in ExpressionRules and TypedExpressions;   *)
(* here it leaves a step in the output.                                    *)
(*                                                                         *)
(* A token that is not one of expressions has a type as well, 133, which   *)
(* the test for terminals lets through and the table has no column for:    *)
(* what is found there is another place of the table, or memory after it.  *)
(***************************************************************************)
EXTENDS ExpressionGrammar

CONSTANTS Sources,  \* the sequences of tokens that may come
          MaxRest   \* how many tokens after its end are asked for

VARIABLES source, read,   \* the tokens, and how many of them were taken
          buffer, token, state,
          output,         \* the reductions so far
          given_back,     \* history: calls of lexer_rewind_token
          misread         \* history: memory after the table looked like a precedence

vars == <<source, read, buffer, token, state, output, given_back, misread>>

-----------------------------------------------------------------------------
\* ExprTokenType
Terminals ==
  <<"unary_minus", "multiply", "divide", "integer_divide", "plus", "minus", "equal",
    "not_equal", "lesser", "lesser_or_equal", "greater_or_equal", "greater", "not",
    "and", "or", "left_bracket", "right_bracket", "comma", "identifier", "end",
    "boolean_literal", "integer_literal", "double_literal", "string_literal",
    "length", "substr", "asc", "chr">>
Code ==
  [t \in ToSet(Terminals) |-> CHOOSE i \in DOMAIN Terminals : Terminals[i] = t]
  @@ ("expression" :> 128) @@ ("shift" :> 129) @@ ("reduce" :> 130)
  @@ ("unknown" :> 133)

\* What the lexer may give: no minus is unary yet, and the end is not a token.
SourceTokens == (ToSet(Terminals) \ {"unary_minus", "end"}) \cup {"unknown"}

ASSUME SourcesAssumption == /\ \A s \in Sources : ToSet(s) \subseteq SourceTokens
                            /\ MaxRest \in Nat

\* The mask is 127.
IsTerminal(type) == Code[type] % 128 # 0

PrecTable ==
  LET L == "shift"
      R == "reduce"
      S == "same"
      x == "unknown"
  IN  << L,R,R,R,R,R,R,R,R,R,R,R,x,R,R,L,R,R,L,R,
         L,R,R,R,R,R,R,R,R,R,R,R,L,R,R,L,R,R,L,R,
         L,R,R,R,R,R,R,R,R,R,R,R,L,R,R,L,R,R,L,R,
         L,L,L,R,R,R,R,R,R,R,R,R,L,R,R,L,R,R,L,R,
         L,L,L,L,R,R,R,R,R,R,R,R,L,R,R,L,R,R,L,R,
         L,L,L,L,R,R,R,R,R,R,R,R,L,R,R,L,R,R,L,R,
         L,L,L,L,L,L,x,x,x,x,x,x,L,R,R,L,R,R,L,R,
         L,L,L,L,L,L,x,x,x,x,x,x,L,R,R,L,R,R,L,R,
         L,L,L,L,L,L,x,x,x,x,x,x,L,R,R,L,R,R,L,R,
         L,L,L,L,L,L,x,x,x,x,x,x,L,R,R,L,R,R,L,R,
         L,L,L,L,L,L,x,x,x,x,x,x,L,R,R,L,R,R,L,R,
         L,L,L,L,L,L,x,x,x,x,x,x,L,R,R,L,R,R,L,R,
         x,R,R,R,R,R,R,R,R,R,R,R,L,R,R,L,R,R,L,R,
         L,L,L,L,L,L,L,L,L,L,L,L,L,R,R,L,R,R,L,R,
         L,L,L,L,L,L,L,L,L,L,L,L,L,L,R,L,R,R,L,R,
         L,L,L,L,L,L,L,L,L,L,L,L,L,L,L,L,S,S,L,x,
         R,R,R,R,R,R,R,R,R,R,R,R,R,R,R,x,R,R,x,R,
         L,L,L,L,L,L,L,L,L,L,L,L,L,L,L,L,S,S,L,x,
         x,R,R,R,R,R,R,R,R,R,R,R,x,R,R,S,R,R,x,R,
         L,L,L,L,L,L,L,L,L,L,L,L,L,L,L,L,x,x,L,x >>

PrecTableSize == 20

\* Wrong on purpose (a mutant of PlaceOf): both divisions have one place.
PlaceOfDivisions(type) ==
  CASE Code[type] \in 21..28    -> Code["identifier"] - 1
    [] type = "integer_divide" -> Code["divide"] - 1
    [] OTHER                   -> Code[type] - 1

\* Literals and functions have the place of an identifier.
PlaceOf(type) == (IF Code[type] \in 21..28 THEN Code["identifier"] ELSE Code[type]) - 1
Place(a, b) == PlaceOf(a) * PrecTableSize + PlaceOf(b)
Beyond(a, b) == Place(a, b) >= Len(PrecTable)

\* _expr_get_precedence; of memory after the table nothing is known.
Precedences(a, b) ==
  IF Beyond(a, b) THEN {"shift", "reduce", "same", "token_change", "unknown"}
  ELSE {PrecTable[Place(a, b) + 1]}

\* Wrong on purpose (a mutant of UpdatedMinus): a bracket is not the end of an operand.
MinusAfterBracketIsUnary(previous) ==
  IF previous \in Operands \cup {"expression"} THEN "minus" ELSE "unary_minus"

\* expr_token_update_unary
UpdatedMinus(previous) ==
  IF previous \in Operands \cup {"expression", "right_bracket"} THEN "minus"
  ELSE "unary_minus"

LastTerminalAt == SelectLastInSeq(buffer, IsTerminal)

-----------------------------------------------------------------------------
(* The rules, by what is between the mark and the end of the buffer.       *)
Bracketed(count) ==
  <<"left_bracket">>
  \o [i \in 1..2 * count - 1 |-> IF i % 2 = 1 THEN "expression" ELSE "comma"]
  \o <<"right_bracket">>

\* E -> i, for identifiers and literals
IdRule(body) == {Step(t, 0) : t \in {u \in Operands : body = <<u>>}}

\* E -> id ( E, E, ... )
FnRule(body) ==
  {Step("identifier", n) : n \in {k \in 0..Len(body) : body = <<"identifier">> \o Bracketed(k)}}

\* E -> length ( E ) and the other three
BuiltInRule(body) ==
  {Step(f, Arity[f]) : f \in {g \in DOMAIN Arity : body = <<g>> \o Bracketed(Arity[g])}}

\* E -> E + E and the other operations of two operands
BinaryRule(body) ==
  {Step(op, 2) : op \in {x \in DOMAIN Tightness : body = <<"expression", x, "expression">>}}

\* E -> - E, E -> NOT E
UnaryRule(body) ==
  {Step(op, 1) : op \in {x \in {"unary_minus", "not"} : body = <<x, "expression">>}}

Rules(body) ==
  IdRule(body) \cup FnRule(body) \cup BuiltInRule(body) \cup BinaryRule(body)
  \cup UnaryRule(body)

\* E -> ( E )
IsBrackets(body) == body = Bracketed(1)

MarkAt == SelectLastInSeq(buffer, LAMBDA x : x = "shift")
Body == SubSeq(buffer, MarkAt + 1, Len(buffer))
HasRule == MarkAt > 0 /\ (IsBrackets(Body) \/ Rules(Body) # {})

\* Wrong on purpose (a mutant of Replaced): the mark stays.
ReplacedAfterMark == Append(SubSeq(buffer, 1, MarkAt), "expression")

\* expr_replace
Replaced == Append(SubSeq(buffer, 1, MarkAt - 1), "expression")

-----------------------------------------------------------------------------
Init ==
  /\ source \in Sources /\ read = 0
  /\ buffer = <<"end">> /\ token = "end" /\ state = "load"
  /\ output = << >>
  /\ given_back = 0 /\ misread = FALSE

TokenAt(n) == IF n <= Len(source) THEN source[n] ELSE "unknown"

\* load_expr_token, and a minus takes its kind from what is before it.
LoadToken ==
  /\ state = "load" /\ read < Len(source) + MaxRest
  /\ read' = read + 1 /\ state' = "compare"
  /\ token' = IF TokenAt(read + 1) = "minus" THEN UpdatedMinus(Last(buffer))
              ELSE TokenAt(read + 1)
  /\ UNCHANGED <<source, buffer, output, given_back, misread>>

\* What a look into the table for the token t may find.
Looks(t) ==
  LET last == buffer[LastTerminalAt]
  IN  {[token |-> t, precedence |-> p, misread |-> Beyond(last, t) /\ p # "unknown"] :
         p \in Precedences(last, t)}

(* A token without a precedence delimits the expression: it is given back  *)
(* and the end of the expression is looked up instead.                     *)
Compared ==
  LET Delimits(look) == look.token # "end" /\ look.precedence = "unknown"
  IN  {look \in Looks(token) : ~ Delimits(look)}
      \cup (IF \E look \in Looks(token) : Delimits(look) THEN Looks("end") ELSE {})

IsComplete(look) == look.token = "end" /\ buffer = <<"end", "expression">>

\* The rest of the loop after a comparison.
Taken(look) ==
  /\ state = "compare"
  /\ token' = look.token
  /\ given_back' = given_back + (IF look.token # token THEN 1 ELSE 0)
  /\ misread' = (misread \/ look.misread)
  /\ UNCHANGED <<source, read>>

Accept ==
  \E look \in Compared :
    /\ IsComplete(look) /\ Taken(look)
    /\ state' = "accepted" /\ UNCHANGED <<buffer, output>>

\* The loop over the tokens ends with the end of the expression, unfinished.
Shift ==
  \E look \in Compared :
    /\ ~ IsComplete(look) /\ look.precedence \in {"shift", "same"} /\ Taken(look)
    /\ buffer' = Append(IF look.precedence = "shift"
                        THEN InsertAt(buffer, LastTerminalAt + 1, "shift") ELSE buffer,
                        look.token)
    /\ state' = IF look.token = "end" THEN "refused" ELSE "load"
    /\ UNCHANGED output

\* expression_reduce, and the same token is compared again.
Reduce ==
  \E look \in Compared :
    /\ ~ IsComplete(look) /\ look.precedence = "reduce" /\ HasRule /\ Taken(look)
    /\ buffer' = Replaced
    /\ output' = output \o SetToSeq(Rules(Body))
    /\ UNCHANGED state

\* A rule but that of brackets may find names or types wrong.
ReduceWrongly ==
  \E look \in Compared :
    /\ ~ IsComplete(look) /\ look.precedence = "reduce" /\ HasRule /\ Taken(look)
    /\ \E step \in Rules(Body) : step.name \notin Literals
    /\ state' = "wrong" /\ UNCHANGED <<buffer, output>>

Refuse ==
  \E look \in Compared :
    /\ ~ IsComplete(look) /\ Taken(look)
    /\ \/ look.precedence \in {"unknown", "token_change"}
       \/ look.precedence = "reduce" /\ ~ HasRule
    /\ state' = "refused" /\ UNCHANGED <<buffer, output>>

Next == LoadToken \/ Accept \/ Shift \/ Reduce \/ ReduceWrongly \/ Refuse

Spec == Init /\ [][Next]_vars

-----------------------------------------------------------------------------
(* In the buffer a mark is followed by the terminal, or the expression and *)
(* the terminal, a reduction begins with, and there is an end below.       *)
TypeOK ==
  /\ state \in {"load", "compare", "accepted", "refused", "wrong"}
  /\ token \in DOMAIN Code /\ given_back \in {0, 1} /\ misread \in BOOLEAN
  /\ read \in 0..Len(source) + MaxRest
  /\ buffer[1] = "end" /\ ToSet(buffer) \subseteq DOMAIN Code \ {"reduce"}
  /\ \A i \in DOMAIN buffer : buffer[i] = "shift" =>
       /\ i < Len(buffer) /\ buffer[i + 1] # "shift"
       /\ buffer[i + 1] = "expression" => i + 1 < Len(buffer)

TokensTaken == [n \in 1..read - 1 |-> TokenAt(n)]

(* Whatever is in memory after the table, what is accepted is an           *)
(* expression, its reductions are in the order of its meaning, and the     *)
(* token after it is given back, once.                                     *)
AcceptedAsMeant ==
  state = "accepted" => given_back = 1 /\ output \in Meanings(TokensTaken)

\* The tokens before the first that no expression has.
Statement == SubSeq(source, 1, SelectInSeq(source \o <<"unknown">>, LAMBDA t : t = "unknown") - 1)

(* An expression is taken as a whole and never refused, as long as memory  *)
(* after the table does not look like a precedence.                        *)
ExpressionsAreTaken ==
  state \in {"accepted", "refused"} /\ ~ misread /\ IsExpression(Statement) =>
    state = "accepted" /\ read = Len(Statement) + 1

=============================================================================
