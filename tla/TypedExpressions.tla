-------------------------- MODULE TypedExpressions --------------------------
(***************************************************************************)
(* The code of one expression: parser_expr_rules.c with the types of its   *)
(* operands, the folding of constants (code_optimizer_expr_eval) and the   *)
(* implicit conversions of code_constructor.c.                             *)
(*                                                                         *)
(* An expression is the sequence of its reductions in the order the        *)
(* bottom-up parser makes them.  The reduced operands form a stack, and as *)
(* code is only ever appended each of them owns a stretch of the code:     *)
(* removing the PUSHS of a constant empties the stretch of its operand.    *)
(***************************************************************************)
EXTENDS ConstantArithmetic

Plain(op) == Instruction(op, << >>)
Push(operand) == Instruction("PUSHS", <<operand>>)
Pop(variable) == Instruction("POPS", <<variable>>)
Move(variable, operand) == Instruction("MOVE", <<variable, operand>>)
Define(variable) == Instruction("DEFVAR", <<variable>>)

\* The reductions an expression is made of.
Literal(constant) == [rule |-> "constant", operand |-> constant]
VariableOf(variable, type) ==
  [rule |-> "variable", operand |-> variable, type |-> type]
Binary(operation) == [rule |-> "binary", operation |-> operation]
Minus == [rule |-> "minus"]
Not == [rule |-> "not"]
CallOf(function) == [rule |-> "call", function |-> function]
BuiltIn(name) == [rule |-> "built in", name |-> name]
Arity == ("length" :> 1) @@ ("chr" :> 1) @@ ("asc" :> 2) @@ ("substr" :> 3)

\* An operand of the parser: its type, its code, and what it is known to be.
Reduced(type, code, known) == [type |-> type, code |-> code, known |-> known]
IsConstant(e) == e.known = "constant"
TheOperand(e) == e.code[1].operands[1]

-----------------------------------------------------------------------------
(* code_constructor_unary_operation_stack_type_conversion                  *)
Conversion(from, to) ==
  CASE from = to -> << >>
    [] from = "integer" /\ to = "double" -> <<Plain("INT2FLOATS")>>
    [] from = "double" /\ to = "integer" -> <<Plain("FLOAT2R2EINTS")>>

LabelAt(label) == Instruction("LABEL", <<LabelOperand(label)>>)
JumpTo(label) == Instruction("JUMP", <<LabelOperand(label)>>)
JumpIfEqual(label, one, other) ==
  Instruction("JUMPIFEQ", <<LabelOperand(label), one, other>>)

(* Every label an expression generates is placed in its code once, so that *)
(* the labels of a stretch of code are how far it moved the counter.       *)
LabelsIn(code) == Len(SelectSeq(code, LAMBDA i : i.op = "LABEL"))

(* code_constructor_binary_operation_stack_type_conversion                 *)
ConversionsOfBoth(lower, higher, to) ==
  (IF lower = to THEN << >>
   ELSE <<Pop(Temp1)>> \o Conversion(lower, to) \o <<Push(Temp1)>>)
    \o Conversion(higher, to)

(* The signatures of parser_semantic_init: the type both operands are      *)
(* converted to and the type of the result.                                *)
Relational == {"greater", "greater_or_equal", "equal", "not_equal",
               "lesser_or_equal", "lesser"}
OperationSignature(operation, one, other) ==
  LET wider == IF one = other THEN one ELSE "double"
      target == IF operation \in {"divide", "int_divide"} THEN "double" ELSE wider
  IN  [target |-> target,
       result |-> CASE operation \in Relational   -> "boolean"
                    [] operation = "int_divide" -> "integer"
                    [] OTHER                    -> target]

(* The instructions that compute an operation on two converted operands,   *)
(* as the rules for the operators of each kind have them.                  *)
ArithmeticCode ==
  ("add" :> <<"ADDS">>) @@ ("sub" :> <<"SUBS">>) @@ ("multiply" :> <<"MULS">>)
  @@ ("divide" :> <<"DIVS">>) @@ ("int_divide" :> <<"DIVS", "FLOAT2INTS">>)
EqualityCode == ("equal" :> <<"EQS">>) @@ ("not_equal" :> <<"EQS", "NOTS">>)
AboveCode == ("greater" :> <<"GTS">>) @@ ("greater_or_equal" :> <<"LTS", "NOTS">>)
BelowCode == ("lesser" :> <<"LTS">>) @@ ("lesser_or_equal" :> <<"GTS", "NOTS">>)
LogicCode == ("and" :> <<"ANDS">>) @@ ("or" :> <<"ORS">>)

Computing == ArithmeticCode @@ EqualityCode @@ AboveCode @@ BelowCode @@ LogicCode

-----------------------------------------------------------------------------
InHalves(constant) ==
  IF constant.type = "integer" THEN 2 * ValueOf(constant) ELSE ValueOf(constant)

Rounded(constant) ==
  IF constant.type = "integer" THEN ValueOf(constant)
  ELSE RoundEven(ValueOf(constant))

\* is_rounded_zero_integer
IsRoundedZero(constant) == Rounded(constant) = 0

(* code_optimizer_expr_eval of two constants: the value of the operation,  *)
(* or the empty set where the function gives up.                           *)
FoldedCalculation(operation, one, other) ==
  LET type == OperationSignature(operation, one.type, other.type).result
      Result(op) == IF type = "double"
                     THEN Computed(op, type, InHalves(one), InHalves(other))
                     ELSE Computed(op, type, ValueOf(one), ValueOf(other))
      Folding(op) == {Number(type, Result(op))}
  IN  CASE operation \in {"divide", "int_divide"} /\ IsRoundedZero(other) -> {}
        [] operation = "add" ->
             IF type = "string" THEN {Text(one.atoms \o other.atoms)} ELSE Folding("ADD")
        [] operation = "sub"      -> Folding("SUB")
        [] operation = "multiply" -> Folding("MUL")
        [] operation = "and"      -> Folding("AND")
        [] operation = "or"       -> Folding("OR")
        [] operation = "divide" /\ ~IsRoundedZero(other) -> Folding("DIV")
        [] operation = "int_divide" /\ ~IsRoundedZero(other) ->
             {IntegerOf(Quotient(Rounded(one), Rounded(other)))}

(* Comparisons: an order of two strings is not computed, the result stays  *)
(* 0, which is False.                                                      *)
FoldedComparison(operation, one, other) ==
  LET strings == one.type = "string"
      equal == IF strings THEN one = other ELSE InHalves(one) = InHalves(other)
      greater == InHalves(one) > InHalves(other)
      lesser == InHalves(one) < InHalves(other)
  IN  {BooleanOf(
         CASE operation = "equal"     -> equal
           [] operation = "not_equal" -> ~equal
           [] operation = "greater"   -> ~strings /\ greater
           [] operation = "lesser"    -> ~strings /\ lesser
           [] operation = "greater_or_equal" -> ~strings /\ ~lesser
           [] operation = "lesser_or_equal"  -> ~strings /\ ~greater)}

Folded(operation, one, other) ==
  IF operation \in Relational THEN FoldedComparison(operation, one, other)
  ELSE FoldedCalculation(operation, one, other)

-----------------------------------------------------------------------------
\* The code of an expression whose value is to be of a type.
CodeAs(type, e) == e.code \o Conversion(e.type, type)

ConstantOperand(constant) == Reduced(constant.type, <<Push(constant)>>, "constant")

\* The rules E -> E op E.
BinaryReduction(operation, lower, higher) ==
  LET signature == OperationSignature(operation, lower.type, higher.type)
      operands == lower.code \o higher.code
      concatenation == <<Pop(Temp1), Pop(Temp2),
                         Instruction("CONCAT", <<Temp1, Temp2, Temp1>>), Push(Temp1)>>
      conversions ==
        IF operation = "int_divide"
        THEN ConversionsOfBoth(lower.type, higher.type, "integer")
               \o ConversionsOfBoth("integer", "integer", "double")
        ELSE ConversionsOfBoth(lower.type, higher.type, signature.target)
      computed ==
        Reduced(signature.result,
          operands \o
            IF operation = "add" /\ signature.target = "string" THEN concatenation
            ELSE conversions \o [i \in DOMAIN Computing[operation] |->
                                   Plain(Computing[operation][i])],
          "computed")
      Unless(values) == IF values = {} THEN computed
                        ELSE ConstantOperand(CHOOSE c \in values : TRUE)
  IN  IF IsConstant(lower) /\ IsConstant(higher)
      THEN Unless(Folded(operation, TheOperand(lower), TheOperand(higher)))
      ELSE computed

\* The rule E -> - E.
MinusReduction(e) ==
  IF IsConstant(e) THEN ConstantOperand(Number(e.type, -ValueOf(TheOperand(e))))
  ELSE Reduced(e.type,
         e.code \o <<Push(Number(e.type, IF e.type = "double" THEN -2 ELSE -1)),
                     Plain("MULS")>>, "computed")

(* The rule E -> NOT E.  The folding is asked of the operand before NOT,   *)
(* which is never a constant: NOT is computed when the program runs.       *)
NotReduction(e) == Reduced("boolean", e.code \o <<Plain("NOTS")>>, "computed")

(* How an argument reaches its parameter: a constant or a variable of the  *)
(* parameter's type is moved there and its PUSHS removed, the rest is      *)
(* converted and popped once the frame is created.                         *)
Passed(parameter, argument) ==
  LET target == Variable("TF", parameter.name)
      constant == TheOperand(argument)
      moved == CASE IsConstant(argument) /\ argument.type = parameter.type -> {constant}
                 [] IsConstant(argument) /\ argument.type # parameter.type ->
                      {IF parameter.type = "double" THEN Halves(2 * ValueOf(constant))
                       ELSE IntegerOf(RoundEven(ValueOf(constant)))}
                 [] argument.known = "variable" /\ argument.type = parameter.type -> {constant}
                 [] OTHER -> {}
  IN  [pushed |-> IF moved = {} THEN argument.code ELSE << >>,
       filled |-> <<Define(target)>> \o
         IF moved = {} THEN Conversion(argument.type, parameter.type) \o <<Pop(target)>>
         ELSE <<Move(target, CHOOSE m \in moved : TRUE)>>]

\* The rule E -> identifier ( arguments ): arguments are filled from the last.
CallReduction(function, arguments) ==
  LET passed == [i \in DOMAIN arguments |-> Passed(function.parameters[i], arguments[i])]
      pushed == [i \in DOMAIN passed |-> passed[i].pushed]
      filled == [i \in DOMAIN passed |-> passed[i].filled]
  IN  Reduced(function.type,
        FlattenSeq(pushed) \o <<Plain("CREATEFRAME")>> \o FlattenSeq(Reverse(filled))
          \o <<Plain("PUSHFRAME"), Instruction("CALL", <<LabelOperand(function.label)>>),
               Plain("POPFRAME")>>, "computed")

-----------------------------------------------------------------------------
\* The temporaries of the built-in functions.
T(i) == Temporaries[i]
AsInteger(e) == CodeAs("integer", e)

\* The rule E -> length ( E ).
LengthCode == <<Pop(T(1)), Instruction("STRLEN", <<T(1), T(1)>>), Push(T(1))>>
LengthReduction(text) ==
  IF IsConstant(text) THEN ConstantOperand(IntegerOf(Len(TheOperand(text).atoms)))
  ELSE Reduced("integer", text.code \o LengthCode, "computed")

\* The rule E -> chr ( E ): a constant is cut to the width of a character.
ChrReduction(e) ==
  IF IsConstant(e) THEN ConstantOperand(Text(<<Character(Rounded(TheOperand(e)) % 256)>>))
  ELSE Reduced("string", AsInteger(e) \o <<Plain("INT2CHARS")>>, "computed")

(* code_constructor_fn_asc: 0 unless the place is one of the string's.     *)
AscCode(next) ==
  LET zero == <<"asc_zero", next>>
      end == <<"asc_end", next + 1>>
      Unless(truth) == JumpIfEqual(zero, truth, BooleanOf(FALSE))
  IN  <<Push(IntegerOf(-1)), Plain("ADDS"), Pop(T(2)), Pop(T(1)),
        Instruction("STRLEN", <<T(3), T(1)>>),
        Instruction("LT", <<T(3), T(2), T(3)>>), Unless(T(3)),
        Instruction("GT", <<T(3), T(2), IntegerOf(-1)>>), Unless(T(3)),
        Instruction("STRI2INT", <<T(3), T(1), T(2)>>), Push(T(3)), JumpTo(end),
        LabelAt(zero), Push(IntegerOf(0)), LabelAt(end)>>

\* The rule E -> asc ( E, E ).
AscReduction(text, index, next) ==
  LET atoms == TheOperand(text).atoms
      place == Rounded(TheOperand(index))
  IN  IF IsConstant(text) /\ IsConstant(index)
      THEN ConstantOperand(IntegerOf(IF place \in DOMAIN atoms THEN atoms[place][2] ELSE 0))
      ELSE Reduced("integer", text.code \o AsInteger(index) \o AscCode(next), "computed")

(* code_constructor_fn_substr, once the arguments are in the temporaries:  *)
(* characters are joined one by one until the end or the length is reached.*)
SubstrCode(next) ==
  LET continue == <<"substr_continue", next>>
      loop == <<"substr_loop", next + 1>>
      break == <<"substr_break", next + 2>>
      empty == <<"substr_empty", next + 3>>
      end == <<"substr_end", next + 4>>
      Three(op, target, one, other) == Instruction(op, <<target, one, other>>)
  IN  <<Three("LT", T(4), T(2), IntegerOf(1)), JumpIfEqual(empty, T(4), BooleanOf(TRUE)),
        Instruction("STRLEN", <<T(4), T(1)>>), JumpIfEqual(empty, T(4), IntegerOf(0)),
        Three("SUB", T(2), T(2), IntegerOf(1)), Three("SUB", T(4), T(4), T(2)),
        Push(T(3)), Push(IntegerOf(0)), Plain("LTS"),
        Push(T(3)), Push(T(4)), Plain("GTS"), Plain("ORS"), Push(BooleanOf(FALSE)),
        Instruction("JUMPIFEQS", <<LabelOperand(continue)>>),
        Move(T(3), T(4)),
        LabelAt(continue), Three("ADD", T(3), T(3), T(2)),
        Three("GT", T(4), T(2), T(3)), JumpIfEqual(empty, T(4), BooleanOf(TRUE)),
        Move(T(4), Text(<< >>)),
        LabelAt(loop), JumpIfEqual(break, T(2), T(3)),
        Three("GETCHAR", T(5), T(1), T(2)), Three("CONCAT", T(4), T(4), T(5)),
        Three("ADD", T(2), T(2), IntegerOf(1)), JumpTo(loop),
        LabelAt(break), Push(T(4)), JumpTo(end),
        LabelAt(empty), Push(Text(<< >>)), LabelAt(end)>>

(* code_constructor_fn_substr: the arguments go to the temporaries from    *)
(* the last one.  A constant or a variable of the type is moved there and  *)
(* its PUSHS removed, so that it is read after the others are computed.    *)
SubstrCall(arguments, next) ==
  LET types == <<"string", "integer", "integer">>
      Moved(i) == arguments[i].known # "computed" /\ arguments[i].type = types[i]
      Taken(i) == IF Moved(i) THEN <<Move(T(i), TheOperand(arguments[i]))>>
                  ELSE Conversion(arguments[i].type, types[i]) \o <<Pop(T(i))>>
      pushed == [i \in 1..3 |-> IF Moved(i) THEN << >> ELSE arguments[i].code]
  IN  FlattenSeq(pushed) \o Taken(3) \o Taken(2) \o Taken(1) \o SubstrCode(next)

(* What the rule makes of constants; the place asked for is at least 1.    *)
FoldedSubstr(atoms, place, length) ==
  LET rest == Len(atoms) - place + 1
  IN  Text(SubSeq(atoms, place,
             place - 1 + IF length < 0 \/ length > rest THEN rest ELSE length))

\* The rule E -> substr ( E, E, E ).
SubstrReduction(arguments, next) ==
  LET Fixed(i) == TheOperand(arguments[i])
  IN  IF \A i \in 1..3 : IsConstant(arguments[i])
      THEN ConstantOperand(FoldedSubstr(Fixed(1).atoms, Rounded(Fixed(2)),
                                        Rounded(Fixed(3))))
      ELSE Reduced("string", SubstrCall(arguments, next), "computed")

(* The rules of the built-in functions; next numbers their labels.         *)
BuiltInReduction(name, arguments, next) ==
  CASE name = "length" -> LengthReduction(arguments[1])
    [] name = "chr"    -> ChrReduction(arguments[1])
    [] name = "asc"    -> AscReduction(arguments[1], arguments[2], next)
    [] name = "substr" -> SubstrReduction(arguments, next)

-----------------------------------------------------------------------------
\* One reduction; the counter of labels was this before the expression.
Reduction(counter, stack, r) ==
  LET n == Len(stack)
      Below(k) == SubSeq(stack, 1, n - k)
      Top(k) == SubSeq(stack, n - k + 1, n)
      next == counter + LabelsIn(FlattenSeq([i \in 1..n |-> stack[i].code]))
  IN  CASE r.rule = "constant" -> Append(stack, ConstantOperand(r.operand))
        [] r.rule = "variable" ->
             Append(stack, Reduced(r.type, <<Push(r.operand)>>, "variable"))
        [] r.rule = "binary" ->
             Append(Below(2), BinaryReduction(r.operation, stack[n - 1], stack[n]))
        [] r.rule = "minus" -> Append(Below(1), MinusReduction(stack[n]))
        [] r.rule = "not"   -> Append(Below(1), NotReduction(stack[n]))
        [] r.rule = "call" ->
             LET k == Len(r.function.parameters)
             IN  Append(Below(k), CallReduction(r.function, Top(k)))
        [] r.rule = "built in" ->
             LET k == Arity[r.name]
             IN  Append(Below(k), BuiltInReduction(r.name, Top(k), next))

\* The operand a whole expression is reduced to.
Expression(counter, reductions) ==
  Walk(LAMBDA stack, r : Reduction(counter, stack, r), << >>, reductions)[1]

\* The same expression when nothing is known when it is compiled, so that the
\* program computes all of it.
Unfolded(reductions) ==
  [i \in DOMAIN reductions |->
     IF reductions[i].rule = "constant"
     THEN VariableOf(reductions[i].operand, reductions[i].operand.type)
     ELSE reductions[i]]

=============================================================================
