------------------------- MODULE ConstantEvaluation -------------------------
(***************************************************************************)
(* The interpreter of constant expressions (interpreter.c) and the passes  *)
(* that compute at compile time what does not depend on the input          *)
(* (code_optimizer_expr.c, code_optimizer_literal_expression_eval_...).    *)
(*                                                                         *)
(* There is one interpreter for all the evaluations: what an evaluation    *)
(* that fails leaves on its stack and in its buffer stays there.           *)
(***************************************************************************)
EXTENDS OptimizerMetaData

NewInterpreter == [stack |-> << >>, buffer |-> << >>]

\* What the pop of an empty stack returns: DATA_TYPE_NONE.
NoData == Constant("none", << >>)

\* The n-th value from the top, and the stack without the first n.
Peek(stack, n) == IF n <= Len(stack) THEN stack[n] ELSE NoData
Dropped(stack, n) == SubSeq(stack, n + 1, Len(stack))

-----------------------------------------------------------------------------
(* The value of an operation on the two topmost values, the empty set when *)
(* the interpreter gives up.                                               *)
BinaryValue(op, one, other) ==
  LET numbers == one.type \in {"integer", "double"}
  IN  CASE one.type # other.type -> {}
        [] one.type = other.type /\ op \in Comparisons ->
             IF numbers THEN {BooleanOf(Compared(op, ValueOf(one), ValueOf(other)))}
             ELSE {}
        [] one.type = other.type /\ op \notin Comparisons ->
             IF \/ ~numbers /\ one.type # "boolean"
                \/ numbers /\ op = "DIV" /\ ValueOf(other) = 0
             THEN {}
             ELSE {Number(one.type,
                          Computed(op, one.type, ValueOf(one), ValueOf(other)))}

UnaryValue(op, operand) ==
  CASE op = "NOTS" ->
         IF operand.type = "boolean" THEN {BooleanOf(ValueOf(operand) = 0)} ELSE {}
    [] op \in Conversions ->
         IF operand.type = ConversionSource(op) THEN {Converted(op, operand)} ELSE {}

\* The value a PUSHS puts on the stack, from the buffer for the cast buffer.
PushedValue(s, operand) ==
  CASE operand = Temp1            -> ToSet(s.buffer)
    [] IsConstantOperand(operand) -> {operand}
    [] OTHER                      -> {}

\* n values leave the stack; the result is pushed, or the interpreter fails.
Result(s, n, value) ==
  LET left == Dropped(s.stack, n)
  IN  IF value = {} THEN [s EXCEPT !.stack = left, !.failed = TRUE]
      ELSE [s EXCEPT !.stack = <<CHOOSE v \in value : TRUE>> \o left]

(* One instruction of interpreter_evaluate_instruction_block.              *)
Interpreted(s, instruction) ==
  LET op == instruction.op
  IN  CASE s.failed -> s
        [] ~s.failed /\ op \in StackOperations ->
             Result(s, 2, BinaryValue(OperationOf(op), Peek(s.stack, 2), Peek(s.stack, 1)))
        [] ~s.failed /\ op \in {"NOTS"} \cup Conversions ->
             Result(s, 1, UnaryValue(op, Peek(s.stack, 1)))
        [] ~s.failed /\ op = "PUSHS" ->
             LET operand == instruction.operands[1]
                 pushed == Result(s, 0, PushedValue(s, operand))
             IN  IF operand = Temp1 THEN [pushed EXCEPT !.buffer = << >>] ELSE pushed
        [] ~s.failed /\ op = "POPS" ->
             IF s.buffer # << >> THEN [s EXCEPT !.failed = TRUE]
             ELSE [s EXCEPT !.stack = Dropped(@, 1), !.buffer = <<Peek(s.stack, 1)>>]
        [] ~s.failed /\ ~Interpretable(op) -> [s EXCEPT !.failed = TRUE]

\* The value a run leaves, if it has one, and the interpreter afterwards.
Outcome(ran) ==
  LET top == Peek(ran.stack, 1)
  IN  [interpreter |-> [stack |-> IF ran.failed THEN ran.stack ELSE Dropped(ran.stack, 1),
                        buffer |-> ran.buffer],
       value |-> IF ~ran.failed /\ top.type \in {"integer", "double", "boolean"}
                 THEN <<top>> ELSE << >>]

Evaluation(interpreter, block) ==
  Outcome(Walk(Interpreted, [stack |-> interpreter.stack,
                             buffer |-> interpreter.buffer, failed |-> FALSE], block))

-----------------------------------------------------------------------------
(* What becomes of an expression that ends with an instruction, given what *)
(* it evaluates to.                                                        *)
ExpressionValued(last, s, instruction, evaluated) ==
  LET new == IF instruction.op = "POPS"
             THEN Instruction("MOVE", instruction.operands \o evaluated.value)
             ELSE Instruction("PUSHS", evaluated.value)
      begins == SelectLastInSeq(s.code, LAMBDA i : i.mark = {"expression_start"})
      left == SubSeq(s.code, 1, begins - 1)
      expression == Append(SubSeq(s.code, begins, Len(s.code)), instruction)
  IN  IF evaluated.value = << >>
      THEN [s EXCEPT !.code = Append(@, instruction), !.start = 0,
                     !.interpreter = evaluated.interpreter]
      ELSE [code |-> IF s.done + 1 = last THEN <<new>> \o left ELSE Append(left, new),
            start |-> 0, interpreter |-> evaluated.interpreter, changed |-> TRUE,
            meta |-> RemovingAll(Adding(s.meta, new), expression), done |-> s.done]

(* code_optimizer_literal_expression_eval_optimization                     *)
LiteralStep(last, s, instruction) ==
  LET start == IF instruction.mark = {"expression_start"} /\ instruction.interpretable
               THEN Len(s.code) + 1 ELSE s.start
      block == SubSeq(s.code, start, Len(s.code)) \o
                 IF instruction.op = "POPS" THEN << >> ELSE <<instruction>>
  IN  IF instruction.mark = {"expression_end"} /\ start # 0
      THEN ExpressionValued(last, s, instruction, Evaluation(s.interpreter, block))
      ELSE [s EXCEPT !.code = Append(@, instruction), !.start = start]

LiteralsEvaluated(code, meta, interpreter) ==
  Walk(LAMBDA s, instruction :
         [LiteralStep(Len(code), s, instruction) EXCEPT !.done = @ + 1],
       [code |-> << >>, start |-> 0, interpreter |-> interpreter, changed |-> FALSE,
        meta |-> meta, done |-> 0], code)

-----------------------------------------------------------------------------
(* is_literal_push                                                         *)
IsLiteralPush(instruction) ==
  instruction.op = "PUSHS" /\ IsConstantOperand(instruction.operands[1])

EndsWithLiterals(code, n) ==
  /\ Len(code) >= n
  /\ \A i \in (Len(code) - n + 1)..Len(code) : IsLiteralPush(code[i])

\* Wrong on purpose (a mutant of CastStep): the new PUSHS begins no expression.
CastStepUnmarked(code, instruction) ==
  IF instruction.op \in Conversions /\ EndsWithLiterals(code, 1)
  THEN Append(Front(code),
         Instruction("PUSHS", <<Converted(instruction.op, Last(code).operands[1])>>))
  ELSE Append(code, instruction)

(* code_optimizer_optimize_type_casts: a conversion of a constant is made, *)
(* the meta data of the PUSHS staying.  A constant of another type than    *)
(* the conversion takes would keep the loop at its instruction for ever.   *)
CastStep(code, instruction) ==
  IF instruction.op \in Conversions /\ EndsWithLiterals(code, 1)
  THEN [code EXCEPT ![Len(code)].operands = <<Converted(instruction.op, @[1])>>]
  ELSE Append(code, instruction)

CastsOptimized(code) == Walk(CastStep, << >>, code)

CastsFit(code) ==
  \A i \in 2..Len(code) :
     code[i].op \in Conversions /\ IsLiteralPush(code[i - 1]) =>
        code[i - 1].operands[1].type = ConversionSource(code[i].op)

\* What becomes of an operation on so many constants.
OperationValued(s, arity, instruction, evaluated) ==
  IF evaluated.value = << >>
  THEN [code |-> Append(s.code, instruction), stopped |-> TRUE,
        interpreter |-> evaluated.interpreter]
  ELSE [s EXCEPT !.code = Append(SubSeq(@, 1, Len(@) - arity),
                                 Instruction("PUSHS", evaluated.value)),
                 !.interpreter = evaluated.interpreter]

(* code_optimizer_optimize_partial_expression_eval: operations on constants *)
(* wherever they are, up to the first one that cannot be computed.          *)
PartialStep(s, instruction) ==
  LET arity == CASE instruction.op \in StackOperations -> 2
                 [] instruction.op \in {"NOTS"} \cup Conversions -> 1
                 [] OTHER -> 0
      block == Append(SubSeq(s.code, Len(s.code) - arity + 1, Len(s.code)), instruction)
  IN  IF arity > 0 /\ ~s.stopped /\ EndsWithLiterals(s.code, arity)
      THEN OperationValued(s, arity, instruction, Evaluation(s.interpreter, block))
      ELSE [s EXCEPT !.code = Append(@, instruction)]

\* The last instruction of the program is never looked at.
AllButLast(Step(_, _), start, code) ==
  IF code = << >> THEN start ELSE Walk(Step, start, Front(code))
TheLast(code) == IF code = << >> THEN << >> ELSE <<Last(code)>>

PartiallyEvaluated(code, interpreter) ==
  LET Rejoined(s) == [s EXCEPT !.code = @ \o TheLast(code)]
  IN  Rejoined(AllButLast(PartialStep, [code |-> << >>, stopped |-> FALSE,
                                        interpreter |-> interpreter], code))

-----------------------------------------------------------------------------
OnConstants(instruction) ==
  IsConstantOperand(instruction.operands[2]) /\ IsConstantOperand(instruction.operands[3])

\* Wrong on purpose (a mutant of JumpStep): the JUMP keeps what was compared.
JumpStepKeeping(code, instruction) ==
  LET same == SameOperand(instruction.operands[2], instruction.operands[3])
  IN  IF instruction.op \in ComparingJumps /\ OnConstants(instruction)
      THEN IF same = (instruction.op = "JUMPIFEQ")
           THEN Append(code, Instruction("JUMP", instruction.operands)) ELSE code
      ELSE Append(code, instruction)

(* code_optimizer_optimize_jumps                                           *)
JumpStep(code, instruction) ==
  LET same == SameOperand(instruction.operands[2], instruction.operands[3])
  IN  IF instruction.op \in ComparingJumps /\ OnConstants(instruction)
      THEN IF same = (instruction.op = "JUMPIFEQ")
           THEN Append(code, Instruction("JUMP", <<instruction.operands[1]>>)) ELSE code
      ELSE Append(code, instruction)

JumpsOptimized(code) == AllButLast(JumpStep, << >>, code) \o TheLast(code)

(* code_optimizer_optimize_comparisons                                     *)
ComparisonStep(code, instruction) ==
  LET one == instruction.operands[2]
      other == instruction.operands[3]
      value == IF one.type = "string"
               THEN TextCompared(instruction.op, one.atoms, other.atoms)
               ELSE Compared(instruction.op, ValueOf(one), ValueOf(other))
  IN  IF /\ instruction.op \in {"GT", "LT"}
         /\ OnConstants(instruction)
         /\ one.type # "boolean"
      THEN Append(code, Instruction("MOVE", <<instruction.operands[1], BooleanOf(value)>>))
      ELSE Append(code, instruction)

ComparisonsOptimized(code) == AllButLast(ComparisonStep, << >>, code) \o TheLast(code)

(* code_optimizer_multi_write: constants printed one after another become  *)
(* one string.                                                             *)
PrintsConstant(instruction) ==
  instruction.op = "WRITE" /\ IsConstantOperand(instruction.operands[1])

WriteStep(code, instruction) ==
  IF code # << >> /\ PrintsConstant(instruction) /\ PrintsConstant(Last(code))
  THEN [code EXCEPT ![Len(code)].operands =
          <<Text(@[1].atoms \o instruction.operands[1].atoms)>>]
  ELSE Append(code, instruction)

WritesMerged(code) == Walk(WriteStep, << >>, code)

=============================================================================
