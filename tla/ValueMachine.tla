---------------------------- MODULE ValueMachine ----------------------------
(***************************************************************************)
(* The machine the code is for, with the values it computes: the           *)
(* interpreter of IFJcode17, which is not part of the repository.  It is   *)
(* modelled from the instructions the compiler generates and how           *)
(* doc/src and the optimizer use them.  A run prints atoms and ends        *)
(* "finished", or "fault" where the interpreter stops with an error, or    *)
(* still "running" when the steps it was given are used up.                *)
(***************************************************************************)
EXTENDS ConstantArithmetic

\* Frames are functions from variables to their value, << >> if not stored yet.
MachineStart(input) ==
  [pc |-> 1, end |-> "running", stack |-> << >>, calls |-> << >>, input |-> input,
   output |-> << >>, global |-> << >>, temporary |-> << >>, locals |-> << >>]

Faulted(m) == [m EXCEPT !.end = "fault"]
Stepped(m) == [m EXCEPT !.pc = @ + 1]

\* The frame of a variable, as a sequence that is empty if there is none.
FrameOf(m, variable) ==
  CASE variable.frame = "GF" -> <<m.global>>
    [] variable.frame = "TF" -> m.temporary
    [] variable.frame = "LF" -> IF m.locals = << >> THEN << >> ELSE <<m.locals[1]>>

WithFrame(m, variable, frame) ==
  CASE variable.frame = "GF" -> [m EXCEPT !.global = frame]
    [] variable.frame = "TF" -> [m EXCEPT !.temporary = <<frame>>]
    [] variable.frame = "LF" -> [m EXCEPT !.locals[1] = frame]

Defined(m, variable) ==
  LET frame == FrameOf(m, variable)
  IN  frame # << >> /\ variable.name \in DOMAIN frame[1]

\* The value of a symbol, as a sequence that is empty if it has none.
SymbolValue(m, operand) ==
  IF IsConstantOperand(operand) THEN <<operand>>
  ELSE IF Defined(m, operand) THEN FrameOf(m, operand)[1][operand.name] ELSE << >>

Stored(m, variable, value) ==
  IF ~Defined(m, variable) THEN Faulted(m)
  ELSE Stepped(WithFrame(m, variable,
         [FrameOf(m, variable)[1] EXCEPT ![variable.name] = <<value>>]))

-----------------------------------------------------------------------------
(* A character of a string, counted from 0, or its code.                   *)
CharacterValue(op, x, y) ==
  IF x.type # "string" \/ y.type # "integer" \/ ValueOf(y) + 1 \notin DOMAIN x.atoms
  THEN << >>
  ELSE LET character == x.atoms[ValueOf(y) + 1]
       IN  <<IF op = "GETCHAR" THEN Text(<<character>>) ELSE IntegerOf(character[2])>>

(* The value of an operation, none where the interpreter reports an error. *)
OperationValue(op, x, y) ==
  LET numbers == x.type \in {"integer", "double"}
  IN  CASE op \in {"GETCHAR", "STRI2INT"} -> CharacterValue(op, x, y)
        [] op \notin {"GETCHAR", "STRI2INT"} /\ x.type # y.type -> << >>
        [] x.type = y.type /\ op \in Comparisons ->
             <<BooleanOf(IF x.type = "string" THEN TextCompared(op, x.atoms, y.atoms)
                         ELSE Compared(op, ValueOf(x), ValueOf(y)))>>
        [] x.type = y.type /\ op \in {"AND", "OR"} ->
             IF x.type = "boolean"
             THEN <<Number("boolean", Computed(op, "boolean", ValueOf(x), ValueOf(y)))>>
             ELSE << >>
        [] x.type = y.type /\ op \in {"ADD", "SUB", "MUL", "DIV"} ->
             IF ~numbers \/ (op = "DIV" /\ ValueOf(y) = 0) THEN << >>
             ELSE <<Number(x.type, Computed(op, x.type, ValueOf(x), ValueOf(y)))>>
        [] x.type = y.type /\ op = "CONCAT" ->
             IF x.type = "string" THEN <<Text(x.atoms \o y.atoms)>> ELSE << >>

UnaryOperationValue(op, x) ==
  CASE op \in {"NOT", "NOTS"} ->
         IF x.type = "boolean" THEN <<BooleanOf(ValueOf(x) = 0)>> ELSE << >>
    [] op \in Conversions ->
         IF x.type = ConversionSource(op) THEN <<Converted(op, x)>> ELSE << >>
    [] op = "STRLEN" ->
         IF x.type = "string" THEN <<IntegerOf(Len(x.atoms))>> ELSE << >>
    [] op = "INT2CHARS" ->
         IF x.type = "integer" /\ ValueOf(x) \in 0..255
         THEN <<Text(<<Character(ValueOf(x))>>)>> ELSE << >>

\* n values leave the stack and a result comes on it.
Replaced(m, n, result) ==
  IF result = << >> THEN Faulted(m)
  ELSE Stepped([m EXCEPT !.stack = result \o SubSeq(@, n + 1, Len(@))])

StoredIfAny(m, variable, result) ==
  IF result = << >> THEN Faulted(m) ELSE Stored(m, variable, result[1])

Known(m, operands) == \A i \in DOMAIN operands : SymbolValue(m, operands[i]) # << >>

-----------------------------------------------------------------------------
\* Where a label is; a program that jumps to none is rejected before it runs.
PlaceOfLabel(code, label) ==
  SelectInSeq(code, LAMBDA i : i.op = "LABEL" /\ Labelled(i) = label)

\* A string that is read has as many letters as the number given says.
ReadValue(m, type) ==
  IF m.input = << >> THEN ImplicitValue(type)
  ELSE IF type = "string" THEN Text([i \in 1..m.input[1] |-> Character(96 + i)])
  ELSE Number(type, IF type = "double" THEN 2 * m.input[1] ELSE m.input[1])

FrameStep(m, op) ==
  CASE op = "CREATEFRAME" -> Stepped([m EXCEPT !.temporary = <<<< >>>>])
    [] op = "PUSHFRAME" ->
         IF m.temporary = << >> THEN Faulted(m)
         ELSE Stepped([m EXCEPT !.locals = m.temporary \o @, !.temporary = << >>])
    [] op = "POPFRAME" ->
         IF m.locals = << >> THEN Faulted(m)
         ELSE Stepped([m EXCEPT !.temporary = <<m.locals[1]>>, !.locals = Tail(@)])

JumpStepOf(m, code, op, operands) ==
  LET Goto(x) == [x EXCEPT !.pc = PlaceOfLabel(code, operands[1].name)]
      values == IF op \in ComparingJumps
                THEN SymbolValue(m, operands[2]) \o SymbolValue(m, operands[3])
                ELSE SubSeq(m.stack, 1, 2)
      popped == IF op \in ComparingJumps THEN m ELSE [m EXCEPT !.stack = SubSeq(@, 3, Len(@))]
      equal == values[1] = values[2]
  IN  CASE op = "JUMP" -> Goto(m)
        [] op = "CALL" -> Goto([m EXCEPT !.calls = <<m.pc + 1>> \o @])
        [] op \in ConditionalJumps ->
             IF Len(values) < 2 \/ values[1].type # values[2].type THEN Faulted(m)
             ELSE IF equal = (op \in {"JUMPIFEQ", "JUMPIFEQS"}) THEN Goto(popped)
             ELSE Stepped(popped)

DataStep(m, op, operands) ==
  LET n == Len(m.stack)
      Value(i) == SymbolValue(m, operands[i])[1]
  IN  CASE op = "LABEL" -> Stepped(m)
        [] op = "DEFVAR" ->
             LET v == operands[1]
                 frame == FrameOf(m, v)
             IN  IF frame = << >> \/ Defined(m, v) THEN Faulted(m)
                 ELSE Stepped(WithFrame(m, v, (v.name :> << >>) @@ frame[1]))
        [] op = "READ" ->
             Stored([m EXCEPT !.input = IF @ = << >> THEN @ ELSE Tail(@)], operands[1],
                    ReadValue(m, operands[2].type))
        [] op = "POPS" ->
             IF n = 0 THEN Faulted(m)
             ELSE Stored([m EXCEPT !.stack = Tail(@)], operands[1], m.stack[1])
        [] op = "PUSHS" -> Replaced(m, 0, SymbolValue(m, operands[1]))
        [] op = "MOVE" -> StoredIfAny(m, operands[1], SymbolValue(m, operands[2]))
        [] op = "WRITE" ->
             IF ~Known(m, operands) THEN Faulted(m)
             ELSE Stepped([m EXCEPT !.output = @ \o Value(1).atoms])
        [] op \in {"NOT", "STRLEN"} ->
             IF ~Known(m, Tail(operands)) THEN Faulted(m)
             ELSE StoredIfAny(m, operands[1], UnaryOperationValue(op, Value(2)))
        [] op \in ThreeAddress ->
             IF ~Known(m, Tail(operands)) THEN Faulted(m)
             ELSE StoredIfAny(m, operands[1], OperationValue(op, Value(2), Value(3)))
        [] op \in StackOperations ->
             IF n < 2 THEN Faulted(m)
             ELSE Replaced(m, 2, OperationValue(OperationOf(op), m.stack[2], m.stack[1]))
        [] op \in {"NOTS", "INT2CHARS"} \cup Conversions ->
             IF n < 1 THEN Faulted(m) ELSE Replaced(m, 1, UnaryOperationValue(op, m.stack[1]))

MachineStep(code, m) ==
  LET instruction == code[m.pc]
      op == instruction.op
  IN  CASE m.end # "running" -> m
        [] m.end = "running" /\ m.pc > Len(code) -> [m EXCEPT !.end = "finished"]
        [] m.end = "running" /\ m.pc <= Len(code) ->
             CASE op \in {"CREATEFRAME", "PUSHFRAME", "POPFRAME"} -> FrameStep(m, op)
               [] op \in {"JUMP", "CALL"} \cup ConditionalJumps ->
                    JumpStepOf(m, code, op, instruction.operands)
               [] op = "RETURN" ->
                    IF m.calls = << >> THEN Faulted(m)
                    ELSE [m EXCEPT !.pc = m.calls[1], !.calls = Tail(@)]
               [] OTHER -> DataStep(m, op, instruction.operands)

HasItsLabels(code) ==
  \A i \in DOMAIN code : Jumps(code[i]) => PlaceOfLabel(code, Labelled(code[i])) # 0

(* What a run prints and how it ends.  It is followed for some rounds of   *)
(* RoundLength steps each.                                                 *)
RoundLength == 20

Behaviour(code, input, rounds) ==
  LET Round(m) == Walk(LAMBDA x, k : MachineStep(code, x), m,
                       [k \in 1..RoundLength |-> k])
      Shown(m) == [output |-> m.output, end |-> m.end]
  IN  IF HasItsLabels(code)
      THEN Shown(Walk(LAMBDA m, k : Round(m), MachineStart(input), [k \in 1..rounds |-> k]))
      ELSE [output |-> << >>, end |-> "fault"]

=============================================================================
