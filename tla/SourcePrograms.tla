--------------------------- MODULE SourcePrograms ---------------------------
(***************************************************************************)
(* The code the parser generates for a whole program, with the marks of    *)
(* expressions and functions the optimizer relies on: the statements of    *)
(* parser.c over code_constructor.c.                                       *)
(*                                                                         *)
(* A program is a flat sequence of statements.  The generator has a list   *)
(* for the program and a buffer for the functions, which the end of the    *)
(* program appends after a jump over them.                                 *)
(***************************************************************************)
EXTENDS TypedExpressions

\* Statements.  A variable carries its frame, a function its label and types.
Named(variable, type) == [variable |-> variable, type |-> type]
Reads(name) == VariableOf(name.variable, name.type)

Dim(name) == [do |-> "dim", name |-> name]
Shared(name) == [do |-> "shared", name |-> name]
Assign(name, e) == [do |-> "assign", name |-> name, e |-> e]
Augment(operation, name, e) ==
  [do |-> "augment", operation |-> operation, name |-> name, e |-> e]
PrintOf(e) == [do |-> "print", e |-> e]
Input(name) == [do |-> "input", name |-> name]
If(e) == [do |-> "if", e |-> e]
EndThen == [do |-> "end then"]
ElseIf(e) == [do |-> "else if", e |-> e]
Else == [do |-> "else"]
EndIf == [do |-> "end if"]
While(e) == [do |-> "while", e |-> e]
Loop == [do |-> "loop"]
Function(function) == [do |-> "function", function |-> function]
Return(e) == [do |-> "return", e |-> e]
EndFunction == [do |-> "end function"]

FunctionOf(name, parameters, type) ==
  [label |-> <<name, 0>>, parameters |-> parameters, type |-> type]
Parameter(name, type) == [name |-> name, type |-> type]

-----------------------------------------------------------------------------
(* The state of the generator and the constructor: the two lists, whether  *)
(* code goes to the buffer, the function being defined, the label counter, *)
(* the stacks of labels, and where the outermost loop begins (0 if none).  *)
Started ==
  [code |-> [i \in 1..6 |-> Define(Temporaries[i])], buffer |-> << >>,
   function |-> << >>, counter |-> 0, conditions |-> << >>, loops |-> << >>,
   depth |-> 0, loop_start |-> 0]

Emitting(s) == IF s.function = << >> THEN s.code ELSE s.buffer

Emitted(s, instructions) ==
  IF s.function = << >> THEN [s EXCEPT !.code = @ \o instructions]
  ELSE [s EXCEPT !.buffer = @ \o instructions]

(* code_constructor_generate_label                                         *)
NewLabel(s, kind) == <<kind, s.counter>>
Counted(s) == [s EXCEPT !.counter = @ + 1]

\* The labels an expression takes.
Past(s, e) == [s EXCEPT !.counter = @ + LabelsIn(e.code)]
UnlessTrue(label) ==
  <<Push(BooleanOf(FALSE)), Instruction("JUMPIFEQS", <<LabelOperand(label)>>)>>

\* An expression with the mark of its beginning on its first instruction.
Begun(code) == [code EXCEPT ![1] = Marked(@, "expression_start")]
Ended(code) == [code EXCEPT ![Len(code)] = Marked(@, "expression_end")]

-----------------------------------------------------------------------------
(* code_constructor_variable_declaration: inside a loop the DEFVAR goes    *)
(* before the label of the outermost one.                                  *)
DimCode(s, name) ==
  LET default == <<Move(name.variable, ImplicitValue(name.type))>>
      Hoisted(list) == InsertAt(list, s.loop_start, Define(name.variable)) \o default
  IN  IF s.loop_start = 0 THEN Emitted(s, <<Define(name.variable)>> \o default)
      ELSE IF s.function = << >>
           THEN [s EXCEPT !.code = Hoisted(@), !.loop_start = @ + 1]
           ELSE [s EXCEPT !.buffer = Hoisted(@), !.loop_start = @ + 1]

(* parser_parse_assignment: the whole of value, conversion and POPS is the *)
(* expression.                                                             *)
AssignCode(s, name, e) ==
  Emitted(s, Ended(Begun(CodeAs(name.type, e) \o <<Pop(name.variable)>>)))

(* parser_parse_modify_assignment: appending to a string leaves the        *)
(* expression without a mark of its end.                                   *)
AugmentCode(s, operation, name, e) ==
  LET signature == OperationSignature(operation, name.type, e.type)
  IN  IF operation = "add" /\ name.type = "string"
      THEN Emitted(s, Begun(e.code \o
             <<Pop(Temp1), Instruction("CONCAT", <<name.variable, name.variable, Temp1>>)>>))
      ELSE Emitted(s, Ended(Begun(
             CodeAs(signature.target, e)
               \o <<Pop(Temp1), Push(name.variable)>>
               \o Conversion(name.type, signature.target)
               \o <<Push(Temp1), Plain(Computing[operation][1])>>
               \o Conversion(signature.result, name.type)
               \o <<Pop(name.variable)>>)))

(* parser_parse_print_expression, code_constructor_print_expression        *)
PrintCode(s, e) ==
  Emitted(s, Ended(Begun(e.code)) \o <<Pop(Temp1), Instruction("WRITE", <<Temp1>>)>>)

\* code_constructor_input; the prompt is one character here.
InputCode(s, name) ==
  Emitted(s, <<Instruction("WRITE", <<Text(<<Character(63)>>)>>),
               Instruction("READ", <<name.variable, DataType(name.type)>>)>>)

(* parser_parse_if_condition, code_constructor_if_after_expression         *)
IfCode(s, e) ==
  LET end == NewLabel(s, "if_end")
      else == NewLabel(Counted(s), "if_else")
      opened == [Counted(Counted(s)) EXCEPT !.conditions = <<else, end>> \o @]
  IN  Emitted(opened, Ended(Begun(e.code)) \o UnlessTrue(else))

(* code_constructor_if_end_if_block: the end of the block after THEN.      *)
EndThenCode(s) == Emitted(s, <<JumpTo(s.conditions[2])>>)

(* parser_parse_condition_elseif, code_constructor_if_else_if_...          *)
ElseIfCode(s, e) ==
  LET else == NewLabel(s, "if_else")
      moved == [Counted(s) EXCEPT !.conditions = <<else>> \o Tail(@)]
  IN  Emitted(moved, <<JumpTo(s.conditions[2]), LabelAt(s.conditions[1])>>
                       \o Ended(Begun(e.code)) \o UnlessTrue(else))

(* code_constructor_if_else_block                                          *)
ElseCode(s) ==
  LET else == NewLabel(s, "if_else")
      moved == [Counted(s) EXCEPT !.conditions = <<else>> \o Tail(@)]
  IN  Emitted(moved, <<JumpTo(s.conditions[2]), LabelAt(s.conditions[1])>>)

(* code_constructor_if_after_end_if                                        *)
EndIfCode(s) ==
  LET closed == [s EXCEPT !.conditions = Tail(Tail(@))]
  IN  Emitted(closed, <<LabelAt(s.conditions[1]), LabelAt(s.conditions[2])>>)

(* code_constructor_while_before_condition                                 *)
WhileStartCode(s) ==
  LET start == NewLabel(s, "while_start")
      opened == [Counted(s) EXCEPT
                   !.loops = <<start>> \o @, !.depth = @ + 1,
                   !.loop_start = IF s.depth = 0 THEN Len(Emitting(s)) + 1 ELSE @]
  IN  Emitted(opened, <<LabelAt(start)>>)

(* code_constructor_while_after_condition                                  *)
WhileCode(s, e) ==
  LET end == NewLabel(s, "while_end")
      opened == [Counted(s) EXCEPT !.loops = <<end>> \o @]
  IN  Emitted(opened, Ended(Begun(e.code)) \o UnlessTrue(end))

(* code_constructor_while_end                                              *)
LoopCode(s) ==
  LET closed == [s EXCEPT !.loops = Tail(Tail(@)), !.depth = @ - 1,
                          !.loop_start = IF s.depth = 1 THEN 0 ELSE @]
  IN  Emitted(closed, <<JumpTo(s.loops[2]), LabelAt(s.loops[1])>>)

(* parser_parse_function_definition: the header starts the buffer, the     *)
(* implicit return ends it, and the two are marked.                        *)
FunctionCode(s, function) ==
  [s EXCEPT !.function = <<function>>,
            !.buffer = Append(@, Marked(LabelAt(function.label), "function_start"))]

EndFunctionCode(s) ==
  [s EXCEPT !.function = << >>,
            !.buffer = @ \o <<Push(ImplicitValue(s.function[1].type)),
                              Marked(Plain("RETURN"), "function_end")>>]

(* parser_parse_return                                                     *)
ReturnCode(s, e) ==
  Emitted(s, Ended(Begun(CodeAs(s.function[1].type, e))) \o <<Plain("RETURN")>>)

-----------------------------------------------------------------------------
\* A statement once its expression is reduced to e.
CompiledWith(s, statement, e) ==
  CASE statement.do = "assign"  -> AssignCode(s, statement.name, e)
    [] statement.do = "augment" -> AugmentCode(s, statement.operation, statement.name, e)
    [] statement.do = "print"   -> PrintCode(s, e)
    [] statement.do = "if"      -> IfCode(s, e)
    [] statement.do = "else if" -> ElseIfCode(s, e)
    [] statement.do = "while"   -> WhileCode(s, e)
    [] statement.do = "return"  -> ReturnCode(s, e)

\* A statement without an expression.
CompiledAlone(s, statement) ==
  CASE statement.do \in {"dim", "shared"} -> DimCode(s, statement.name)
    [] statement.do = "input"    -> InputCode(s, statement.name)
    [] statement.do = "end then" -> EndThenCode(s)
    [] statement.do = "else"     -> ElseCode(s)
    [] statement.do = "end if"   -> EndIfCode(s)
    [] statement.do = "loop"     -> LoopCode(s)
    [] statement.do = "function" -> FunctionCode(s, statement.function)
    [] statement.do = "end function" -> EndFunctionCode(s)

Compiled(s, statement) ==
  LET before == IF statement.do = "while" THEN WhileStartCode(s) ELSE s
      e == Expression(before.counter, statement.e)
  IN  IF "e" \in DOMAIN statement THEN CompiledWith(Past(before, e), statement, e)
      ELSE CompiledAlone(s, statement)

\* Statements that go together.
IfThen(e, body) == <<If(e)>> \o body \o <<EndThen, EndIf>>
IfElse(e, then, else) == <<If(e)>> \o then \o <<EndThen, Else>> \o else \o <<EndIf>>
WhileLoop(e, body) == <<While(e)>> \o body \o <<Loop>>
FunctionBody(function, body) == <<Function(function)>> \o body \o <<EndFunction>>

(* code_constructor_end_code                                               *)
Joined(s) ==
  LET main == NewLabel(s, "main_scope")
  IN  s.code \o <<JumpTo(main)>> \o s.buffer \o <<LabelAt(main)>>

ProgramCode(statements) == Joined(Walk(Compiled, Started, statements))

\* The same program without a constant folded by the parser.
UnfoldedProgram(statements) ==
  [i \in DOMAIN statements |->
     IF "e" \in DOMAIN statements[i]
     THEN [statements[i] EXCEPT !.e = Unfolded(@)] ELSE statements[i]]

=============================================================================
