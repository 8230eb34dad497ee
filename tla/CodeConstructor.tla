--------------------------- MODULE CodeConstructor ---------------------------
(***************************************************************************)
(* code_constructor.c: the instructions each construct of the source       *)
(* language leaves, as operators from a constructor to the next one.       *)
(*                                                                         *)
(* A constructor is a record with the fields of CodeConstructor and of its *)
(* CodeGenerator: the instructions of the main part and of the buffer that *)
(* collects the functions, and the stacks of labels (the top is last).     *)
(* Data types, conversions and the value of a literal are left out; the    *)
(* values an instruction can leave in a variable are only told apart as    *)
(* far as jumps depend on them.                                            *)
(***************************************************************************)
EXTENDS ScopeStack, SequencesExt

-----------------------------------------------------------------------------
(* Operands and instructions. *)

\* A cell of a frame of the target program: a variable by its Identity, or the
\* flag that says whether a static variable was declared.
Cell(id, flag) == [id |-> id, flag |-> flag]

Operand(frame, cell) == [frame |-> frame, cell |-> cell]

NoCell == Cell(Identity(NoVariable), FALSE)
Literal == Operand("literal", NoCell)
False == Operand("false", NoCell)
True == Operand("true", NoCell)
Nothing == Operand("nothing", NoCell)

\* symbol_variable_init_flag_for_static_variable: a global variable named after
\* the function, the static variable and the number of its table.
FlagOf(variable, function) ==
  Operand("GF", Cell([depth |-> variable.depth, alias |-> function,
                      name |-> variable.name, param |-> 0], TRUE))

\* The global temporaries &1..&6 of parser_semantic_setup_temp_variables.  One
\* stands for all six: none of the code modelled keeps a value in two of them.
Temporary == Operand("GF", NoCell)

NoLabel == [number |-> 0, depth |-> 0, type |-> "none", function |-> NoName]

FunctionLabel(f) == [NoLabel EXCEPT !.type = "function", !.function = f]

Instruction(op, target, source, label) ==
  [op |-> op, target |-> target, source |-> source, label |-> label]

DefVar(operand) == Instruction("DEFVAR", operand, Nothing, NoLabel)
Move(operand, source) == Instruction("MOVE", operand, source, NoLabel)
PushS(source) == Instruction("PUSHS", Nothing, source, NoLabel)
PopS(operand) == Instruction("POPS", operand, Nothing, NoLabel)
Read(operand) == Instruction("READ", operand, Nothing, NoLabel)
Write(source) == Instruction("WRITE", Nothing, source, NoLabel)
AtLabel(label) == Instruction("LABEL", Nothing, Nothing, label)
Jump(label) == Instruction("JUMP", Nothing, Nothing, label)
JumpIfEqualS(label) == Instruction("JUMPIFEQS", Nothing, Nothing, label)
JumpIfTrue(label, flag) == Instruction("JUMPIFEQ", Nothing, flag, label)
Call(f) == Instruction("CALL", Nothing, Nothing, FunctionLabel(f))
Plain(op) == Instruction(op, Nothing, Nothing, NoLabel)

-----------------------------------------------------------------------------
(* The constructor and its generator. *)

(* code_constructor_init *)
NewConstructor ==
  [main |-> << >>, buffer |-> << >>, to_buffer |-> FALSE,
   label_counter |-> 0, control_statement_depth |-> 0, scope_depth |-> 0,
   code_labels |-> << >>, conditions |-> << >>, loops |-> << >>,
   loops_depth |-> 0, loops_initial |-> NoLabel]

(* code_generator_instruction, for one instruction after the other *)
Emit(c, instructions) ==
  IF c.to_buffer THEN [c EXCEPT !.buffer = @ \o instructions]
                 ELSE [c EXCEPT !.main = @ \o instructions]

Before(code, label, instruction) ==
  LET at == CHOOSE i \in DOMAIN code : code[i] = AtLabel(label)
  IN  InsertAt(code, at, instruction)

(* code_generator_insert_instruction_before: an instruction to insert      *)
(* before is known by its label; none is the start of the main part.       *)
InsertBefore(c, label, instruction) ==
  IF label = NoLabel
  THEN [c EXCEPT !.main = <<instruction>> \o @]
  ELSE IF Contains(c.buffer, AtLabel(label))
       THEN [c EXCEPT !.buffer = Before(@, label, instruction)]
       ELSE [c EXCEPT !.main = Before(@, label, instruction)]

Label(c, type) ==
  [number |-> c.label_counter, depth |-> c.control_statement_depth,
   type |-> type, function |-> NoName]

\* Wrong on purpose (a mutant of TakeLabel): the number is not used up.
TakeLabelAgain(c) == c

(* code_constructor_generate_label returns Label(c, type) and counts on. *)
TakeLabel(c) == [c EXCEPT !.label_counter = @ + 1]

PushLabel(stack, label) == Append(stack, label)
HeadLabel(stack) == Last(stack)
PopLabel(stack) == Front(stack)

\* stack_code_label_get_by_index(stack, 1): the one below the top.
SecondLabel(stack) == stack[Len(stack) - 1]

-----------------------------------------------------------------------------
(* Declarations. *)

\* Wrong on purpose (a mutant of VariableDeclaration): the declaration stays in
\* the loop.
VariableDeclarationInPlace(c, operand) ==
  Emit(c, <<DefVar(operand), Move(operand, Literal)>>)

\* Wrong on purpose (a mutant of VariableDeclaration): no default value.
VariableDeclarationBare(c, operand) ==
  IF c.loops_initial = NoLabel
  THEN Emit(c, <<DefVar(operand)>>)
  ELSE InsertBefore(c, c.loops_initial, DefVar(operand))

(* code_constructor_variable_declaration: inside a loop the declaration    *)
(* goes before the outermost loop, the default value stays where it is.    *)
VariableDeclaration(c, operand) ==
  Emit(IF c.loops_initial = NoLabel
       THEN Emit(c, <<DefVar(operand)>>)
       ELSE InsertBefore(c, c.loops_initial, DefVar(operand)),
       <<Move(operand, Literal)>>)

(* code_constructor_shared_variable_declaration *)
SharedVariableDeclaration(c, operand) ==
  Emit(c, <<DefVar(operand), Move(operand, Literal)>>)

(* code_constructor_static_variable_declaration: the flag is declared and  *)
(* set to false at the start of the main part, and jumps over what follows *)
(* once the variable has been declared.                                    *)
StaticVariableDeclaration(c, operand, flag) ==
  LET skip == Label(c, "declared")
      labelled == [TakeLabel(c) EXCEPT !.code_labels = PushLabel(@, skip)]
      flagged == InsertBefore(InsertBefore(labelled, NoLabel, Move(flag, False)),
                              NoLabel, DefVar(flag))
  IN  Emit(flagged, <<JumpIfTrue(HeadLabel(flagged.code_labels), flag),
                      DefVar(operand), Move(operand, Literal)>>)

(* code_constructor_static_variable_declaration_end *)
StaticVariableDeclarationEnd(c, flag) ==
  Emit([c EXCEPT !.code_labels = PopLabel(@)],
       <<Move(flag, True), AtLabel(HeadLabel(c.code_labels))>>)

-----------------------------------------------------------------------------
(* IF, ELSEIF, ELSE, END IF.  An open condition keeps two labels on its    *)
(* stack: where it ends and, on top, where the next branch begins.         *)

BranchUnlessTrue(c) ==
  LET next == Label(c, "if_else")
  IN  [Emit(TakeLabel(c), <<PushS(False), JumpIfEqualS(next)>>)
         EXCEPT !.conditions = PushLabel(@, next)]

\* The branch before is over: leave the condition, and the next one begins.
LeaveBranch(c) ==
  [Emit(c, <<Jump(SecondLabel(c.conditions)), AtLabel(HeadLabel(c.conditions))>>)
     EXCEPT !.conditions = PopLabel(@)]

\* Wrong on purpose (a mutant of IfAfterExpression): the depth is not counted.
IfAfterExpressionShallow(c) ==
  BranchUnlessTrue([TakeLabel(c) EXCEPT
                      !.conditions = PushLabel(@, Label(c, "if_end"))])

(* code_constructor_if_after_expression *)
IfAfterExpression(c) ==
  LET deeper == [c EXCEPT !.control_statement_depth = @ + 1]
  IN  BranchUnlessTrue([TakeLabel(deeper) EXCEPT
                          !.conditions = PushLabel(@, Label(deeper, "if_end"))])

(* code_constructor_if_end_if_block *)
IfEndIfBlock(c) == Emit(c, <<Jump(SecondLabel(c.conditions))>>)

(* code_constructor_if_after_end_if *)
IfAfterEndIf(c) ==
  [Emit(c, <<AtLabel(HeadLabel(c.conditions)),
             AtLabel(HeadLabel(PopLabel(c.conditions)))>>)
     EXCEPT !.conditions = PopLabel(PopLabel(@)),
            !.control_statement_depth = @ - 1]

(* code_constructor_if_else_if_before_expression *)
ElseIfBeforeExpression(c) == LeaveBranch(c)

(* code_constructor_if_else_if_after_expression *)
ElseIfAfterExpression(c) == BranchUnlessTrue(c)

(* code_constructor_if_else_block: a fresh label takes the place of the    *)
(* one just placed, for END IF to place although nothing jumps to it.      *)
IfElseBlock(c) ==
  LET left == LeaveBranch(c)
  IN  [TakeLabel(left) EXCEPT
         !.conditions = PushLabel(@, Label(left, "if_else"))]

-----------------------------------------------------------------------------
(* DO WHILE, LOOP. *)

(* code_constructor_while_before_condition: the label of the outermost     *)
(* loop is where declarations inside it go.                                *)
WhileBeforeCondition(c) ==
  LET deeper == [c EXCEPT !.control_statement_depth = @ + 1]
      start == Label(deeper, "while_start")
  IN  [Emit(TakeLabel(deeper), <<AtLabel(start)>>) EXCEPT
         !.loops = PushLabel(@, start),
         !.loops_depth = @ + 1,
         !.loops_initial = IF c.loops_depth = 0 THEN start ELSE @]

\* Wrong on purpose (a mutant of WhileAfterCondition): nothing to compare with.
WhileAfterConditionBare(c) ==
  LET end == Label(c, "while_end")
  IN  [Emit(TakeLabel(c), <<JumpIfEqualS(end)>>) EXCEPT
         !.loops = PushLabel(@, end)]

(* code_constructor_while_after_condition *)
WhileAfterCondition(c) ==
  LET end == Label(c, "while_end")
  IN  [Emit(TakeLabel(c), <<PushS(False), JumpIfEqualS(end)>>) EXCEPT
         !.loops = PushLabel(@, end)]

\* Wrong on purpose (a mutant of WhileEnd): the outermost loop is not forgotten.
WhileEndRemembers(c) ==
  [Emit(c, <<Jump(SecondLabel(c.loops)), AtLabel(HeadLabel(c.loops))>>) EXCEPT
     !.loops = PopLabel(PopLabel(@)),
     !.control_statement_depth = @ - 1,
     !.loops_depth = @ - 1]

(* code_constructor_while_end *)
WhileEnd(c) ==
  [Emit(c, <<Jump(SecondLabel(c.loops)), AtLabel(HeadLabel(c.loops))>>) EXCEPT
     !.loops = PopLabel(PopLabel(@)),
     !.control_statement_depth = @ - 1,
     !.loops_depth = @ - 1,
     !.loops_initial = IF c.loops_depth = 1 THEN NoLabel ELSE @]

-----------------------------------------------------------------------------
(* The rest. *)

(* code_constructor_scope_start, code_constructor_scope_end *)
ScopeStart(c) == [c EXCEPT !.scope_depth = @ + 1]
ScopeEnd(c) == [c EXCEPT !.scope_depth = @ - 1]

(* code_constructor_variable_expression_assignment *)
Assignment(c, operand) == Emit(c, <<PopS(operand)>>)

(* code_constructor_input *)
Input(c, operand) == Emit(c, <<Write(Literal), Read(operand)>>)

(* code_constructor_print_expression *)
PrintExpression(c) == Emit(c, <<PopS(Temporary), Write(Temporary)>>)

(* code_constructor_function_header *)
FunctionHeader(c, f) ==
  Emit([c EXCEPT !.to_buffer = TRUE], <<AtLabel(FunctionLabel(f))>>)

(* code_constructor_function_end *)
FunctionEnd(c) ==
  [Emit(c, <<PushS(Literal), Plain("RETURN")>>) EXCEPT !.to_buffer = FALSE]

(* code_constructor_return *)
Return(c) == Emit(c, <<Plain("RETURN")>>)

(* code_constructor_end_code: main jumps over the functions to its end,    *)
(* and code_generator_flush_buffer puts them where the jump is.            *)
EndCode(c) ==
  LET end == Label(c, "main_scope")
      jumped == Emit(TakeLabel(c), <<Jump(end)>>)
      flushed == [jumped EXCEPT !.main = @ \o c.buffer, !.buffer = << >>]
  IN  Emit(flushed, <<AtLabel(end)>>)

=============================================================================
