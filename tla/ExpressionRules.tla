--------------------------- MODULE ExpressionRules ---------------------------
(***************************************************************************)
(* What the rules of parser_expr_rules.c emit.  The precedence parser      *)
(* reduces an expression from the inside out, so that an expression is the *)
(* sequence of its reductions, a postfix form.  Three rules stand for all: *)
(* an identifier or a literal, a binary operation, a call of a function of *)
(* the source program.  Data types are left out, so that every argument    *)
(* has the type of its parameter.                                          *)
(***************************************************************************)
EXTENDS CodeConstructor

Reduction(rule, name, count) == [rule |-> rule, name |-> name, count |-> count]

LiteralToken == Reduction("literal", NoName, 0)
IdentifierToken(n) == Reduction("identifier", n, 0)
Operation == Reduction("operation", NoName, 2)
CallOf(f, count) == Reduction("call", f, count)

Reductions == [rule : {"literal", "identifier", "operation", "call"},
               name : Names \cup {NoName}, count : Nat]

IsReduction(r) ==
  \/ r \in {LiteralToken, Operation}
  \/ \E n \in Names : r = IdentifierToken(n)
  \/ \E f \in Names : r.count \in Nat /\ r = CallOf(f, r.count)

\* What the precedence parser gives the rules: a reduction takes "count"
\* expressions, which are on its stack, and leaves one there; the last leaves
\* the expression itself.
IsPostfix(reductions) ==
  /\ reductions \in Seq(Reductions)
  /\ \A i \in DOMAIN reductions : IsReduction(reductions[i])
  /\ \E height \in [0..Len(reductions) -> 0..Len(reductions)] :
       /\ height[0] = 0 /\ height[Len(reductions)] = 1
       /\ \A i \in 1..Len(reductions) :
            /\ height[i - 1] >= reductions[i].count
            /\ height[i] = height[i - 1] - reductions[i].count + 1

-----------------------------------------------------------------------------
\* The state of the parser between two reductions: the code emitted so far, the
\* expressions on its stack (each with the place of the instruction that pushes
\* it, when one does), and whether it has refused the expression.
NoExpression == [code |-> << >>, tokens |-> << >>, refused |-> FALSE]

Refuse(s) == [s EXCEPT !.refused = TRUE]

Pushed(s, kind, instruction) ==
  [s EXCEPT !.code = Append(@, instruction),
            !.tokens = Append(@, [kind |-> kind, at |-> Len(s.code) + 1])]

Other == [kind |-> "other", at |-> 0]

\* code_generator_remove_instruction for each instruction of a set of places.
RemovePlaces(code, places) ==
  LET kept[i \in 0..Len(code)] ==
        IF i = 0 THEN << >>
        ELSE IF i \in places THEN kept[i - 1] ELSE Append(kept[i - 1], code[i])
  IN  kept[Len(code)]

Places(tokens) == {tokens[i].at : i \in DOMAIN tokens}

(* expression_rule_add with code_optimizer_expr_eval: two constants become *)
(* one, anything else is computed on the stack.                            *)
ReduceOperation(s) ==
  LET operands == SubSeq(s.tokens, Len(s.tokens) - 1, Len(s.tokens))
      below == SubSeq(s.tokens, 1, Len(s.tokens) - 2)
  IN  IF \A i \in 1..2 : operands[i].kind = "constant"
      THEN Pushed([s EXCEPT !.code = RemovePlaces(@, Places(operands)),
                            !.tokens = below],
                  "constant", PushS(Literal))
      ELSE [s EXCEPT !.code = Append(@, Plain("ADDS")),
                     !.tokens = Append(below, Other)]

\* symbol_variable_from_function_param: the cell of a parameter is its alias
\* under the function's name, in the temporary frame of the caller.
ParameterOperand(f, params, i) ==
  Operand("TF", Cell(Identity(Parameter(0, f, params, params[i], 0)), FALSE))

\* A constant or a variable is moved to the parameter, and the instruction that
\* pushed it is removed; anything else is popped from the stack.
PassArgument(operand, token, code) ==
  <<DefVar(operand),
    IF token.kind = "other" THEN PopS(operand)
                            ELSE Move(operand, code[token.at].source)>>

(* expression_rule_fn: the arguments are passed from the last to the first *)
ReduceCall(s, functions, f, count) ==
  LET params == functions[f].params
      below == SubSeq(s.tokens, 1, Len(s.tokens) - count)
      arguments == SubSeq(s.tokens, Len(s.tokens) - count + 1, Len(s.tokens))
      Passing(i) ==
        PassArgument(ParameterOperand(f, params, i), arguments[i], s.code)
      passed[k \in 0..count] ==
        IF k = 0 THEN <<Plain("CREATEFRAME")>>
                 ELSE passed[k - 1] \o Passing(count + 1 - k)
  IN  IF functions[f].status = "none" \/ Len(params) # count
      THEN Refuse(s)
      ELSE [s EXCEPT !.code = RemovePlaces(@, Places(arguments)) \o passed[count]
                                \o <<Plain("PUSHFRAME"), Call(f), Plain("POPFRAME")>>,
                     !.tokens = Append(below, Other)]

(* expression_rule_id: the variable is the one the tables give its name;   *)
(* its frame is global or local.                                           *)
VariableOperand(variable, globals) ==
  Operand(IF Identity(variable) \in globals THEN "GF" ELSE "LF",
          Cell(Identity(variable), FALSE))

ReduceIdentifier(s, stack, globals, name) ==
  IF Find(stack, name) = NoVariable
  THEN Refuse(s)
  ELSE Pushed(s, "variable", PushS(VariableOperand(Find(stack, name), globals)))

Reduce(s, stack, globals, functions, r) ==
  IF s.refused THEN s
  ELSE CASE r.rule = "literal"    -> Pushed(s, "constant", PushS(Literal))
         [] r.rule = "identifier" -> ReduceIdentifier(s, stack, globals, r.name)
         [] r.rule = "operation"  -> ReduceOperation(s)
         [] r.rule = "call"       -> ReduceCall(s, functions, r.name, r.count)

(* parser_parse_expression *)
Expression(reductions, stack, globals, functions) ==
  LET after[i \in 0..Len(reductions)] ==
        IF i = 0 THEN NoExpression
        ELSE Reduce(after[i - 1], stack, globals, functions, reductions[i])
  IN  after[Len(reductions)]

\* parser_semantic.expression_result is NULL or is_constant.
IsConstant(s) == \A i \in DOMAIN s.tokens : s.tokens[i].kind = "constant"

=============================================================================
