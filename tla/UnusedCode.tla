----------------------------- MODULE UnusedCode -----------------------------
(***************************************************************************)
(* The passes that remove what nobody uses: code_optimizer_remove_unused_  *)
(* variables, code_optimizer_remove_unused_functions and code_optimizer_   *)
(* remove_instructions_without_effect_optimization.                        *)
(***************************************************************************)
EXTENDS OptimizerMetaData

ExpressionStart == {"expression_start"}
ExpressionEnd == {"expression_end"}

\* Where the expression that ends with a list of instructions begins, or 0.
BeginningOf(instructions) ==
  SelectLastInSeq(instructions, LAMBDA instruction : instruction.mark = ExpressionStart)

-----------------------------------------------------------------------------
(* The variables of an instruction nobody uses, in the order of its        *)
(* operands.  Those of a temporary frame are parameters of a call.         *)
UnusedOperands(meta, instruction) ==
  SelectSeq(instruction.operands,
            LAMBDA operand : /\ IsVariableOperand(operand)
                             /\ operand.frame # "TF"
                             /\ UsesOf(meta, operand) = 0)

(* One turn of the loop.  "before" has been looked at, "rest" has not; the *)
(* last temporary is kept unless remove_special says otherwise.            *)
UnusedStep(hard, remove_special, s) ==
  LET instruction == Head(s.rest)
      purity == s.purity \cup (IF instruction.mark = ExpressionStart
                               THEN instruction.purity ELSE Pure)
      unused == UnusedOperands(s.meta, instruction)
      spared == unused = << >> \/ (~remove_special /\ unused[1] = Temp6)
      whole == /\ hard
               /\ instruction.op = "POPS"
               /\ instruction.mark = ExpressionEnd
               /\ purity = Pure
      start == BeginningOf(s.before)
      expression == SubSeq(s.before, start, Len(s.before))
      left == SubSeq(s.before, 1, start - 1)
  IN  CASE spared ->
             [s EXCEPT !.purity = purity, !.before = Append(@, instruction),
                       !.rest = Tail(@)]
        [] ~spared /\ ~whole ->
             [s EXCEPT !.purity = purity, !.removed = TRUE, !.rest = Tail(@),
                       !.meta = Removing(@, instruction)]
        [] ~spared /\ whole ->
             [purity |-> purity, removed |-> TRUE,
              before |-> Front(left), rest |-> <<Last(left)>> \o Tail(s.rest),
              meta |-> RemovingAll(s.meta, Append(expression, instruction))]

(* code_optimizer_remove_unused_variables; after an expression is removed  *)
(* the instruction before it is looked at again.                           *)
UnusedVariablesRemoved(code, meta, hard, remove_special) ==
  LET Turn(s, k) == IF s.rest = << >> THEN s ELSE UnusedStep(hard, remove_special, s)
  IN  Walk(Turn, [before |-> << >>, rest |-> code, meta |-> meta, purity |-> Pure,
                  removed |-> FALSE],
           [k \in 1..(2 * Len(code)) |-> k])

-----------------------------------------------------------------------------
(* Wrong on purpose (a mutant of FunctionStep): a function called once is  *)
(* taken for unused.                                                       *)
FunctionStepOnce(functions, s, instruction) ==
  LET removing == \/ s.removing
                  \/ /\ instruction.op = "LABEL"
                     /\ instruction.mark = {"function_start"}
                     /\ FunctionIn(functions, Labelled(instruction)).calls <= 1
  IN  IF removing
      THEN [s EXCEPT !.removing = instruction.mark # {"function_end"}, !.removed = TRUE]
      ELSE [s EXCEPT !.code = Append(@, instruction)]

(* code_optimizer_remove_unused_functions, after it has taken the counts   *)
(* anew.  The counts do not follow.                                        *)
FunctionStep(functions, s, instruction) ==
  LET removing == \/ s.removing
                  \/ /\ instruction.op = "LABEL"
                     /\ instruction.mark = {"function_start"}
                     /\ FunctionIn(functions, Labelled(instruction)).calls = 0
  IN  IF removing
      THEN [s EXCEPT !.removing = instruction.mark # {"function_end"}, !.removed = TRUE]
      ELSE [s EXCEPT !.code = Append(@, instruction)]

UnusedFunctionsRemoved(code, functions) ==
  Walk(LAMBDA s, instruction : FunctionStep(functions, s, instruction),
       [code |-> << >>, removing |-> FALSE, removed |-> FALSE], code)

(* code_optimizer_remove_instructions_without_effect_optimization          *)
WithoutEffectRemoved(code, meta) ==
  LET Useless(instruction) == instruction.without_effect
  IN  [code |-> SelectSeq(code, LAMBDA instruction : ~Useless(instruction)),
       meta |-> RemovingAll(meta, SelectSeq(code, Useless))]

=============================================================================
