--------------------------- MODULE TargetMachine ---------------------------
(***************************************************************************)
(* The interpreter of IFJcode17, which runs what the compiler emits.  It   *)
(* is no part of the repository: what it does is taken from the            *)
(* instructions code_constructor.c and parser_expr_rules.c emit and from   *)
(* how they rely on the frames.  Of a value it knows whether it is there   *)
(* and, for the flags of static variables, whether it is true; a condition *)
(* on the stack may turn out either way.                                   *)
(***************************************************************************)
EXTENDS CodeConstructor

CONSTANT MaxCalls   \* bound: how deep calls may nest

(***************************************************************************)
(* A machine: the place of the next instruction; the global frame, the     *)
(* stack of local frames, and the temporary frame (a sequence of one or    *)
(* none); the height of the data stack; for each call under way the place  *)
(* to return to and the height it began with; the fault that stopped it.   *)
(* A frame maps the cells declared in it to their contents.                *)
(***************************************************************************)
EmptyFrame == << >>

StartMachine ==
  [pc |-> 1, gf |-> EmptyFrame, lf |-> << >>, tf |-> << >>,
   height |-> 0, calls |-> << >>, fault |-> "none"]

Advance(m) == [m EXCEPT !.pc = @ + 1]
Fail(m, fault) == [m EXCEPT !.fault = fault]

\* The frame an operand is in, when that frame is there.
Frames(m, operand) ==
  CASE operand.frame = "GF" -> <<m.gf>>
    [] operand.frame = "LF" -> IF m.lf = << >> THEN << >> ELSE <<Last(m.lf)>>
    [] operand.frame = "TF" -> m.tf

IsVariable(operand) == operand.frame \in {"GF", "LF", "TF"}

InFrame(m, operand, frame) ==
  CASE operand.frame = "GF" -> [m EXCEPT !.gf = frame]
    [] operand.frame = "LF" -> [m EXCEPT !.lf[Len(m.lf)] = frame]
    [] operand.frame = "TF" -> [m EXCEPT !.tf = <<frame>>]

DeclaredIn(m, operand) ==
  Frames(m, operand) # << >> /\ operand.cell \in DOMAIN Frames(m, operand)[1]

Contents(m, operand) ==
  IF IsVariable(operand)
  THEN IF DeclaredIn(m, operand) THEN Frames(m, operand)[1][operand.cell]
                                 ELSE "undeclared"
  ELSE operand.frame

WithVariable(m, operand, value) ==
  InFrame(m, operand, (operand.cell :> value) @@ Frames(m, operand)[1])

Declaration(m, operand) ==
  CASE Frames(m, operand) = << >> -> Fail(m, "no frame")
    [] DeclaredIn(m, operand)     -> Fail(m, "redeclared")
    [] OTHER                      -> WithVariable(Advance(m), operand, "unset")

Storing(m, operand, value) ==
  IF DeclaredIn(m, operand) THEN WithVariable(Advance(m), operand, value)
                            ELSE Fail(m, "undeclared")

\* A source must be there before what is done with it.
Reading(m, source, next) ==
  CASE Contents(m, source) = "undeclared" -> Fail(m, "undeclared")
    [] Contents(m, source) = "unset"      -> Fail(m, "unset")
    [] OTHER                              -> next

\* A function may not take from the stack what its caller left there.
Floor(m) == IF m.calls = << >> THEN 0 ELSE Last(m.calls).height

Popping(m, count, next) ==
  IF m.height < Floor(m) + count THEN Fail(m, "stack") ELSE next

JumpTo(m, code, label) ==
  IF Contains(code, AtLabel(label))
  THEN [m EXCEPT !.pc = CHOOSE i \in DOMAIN code : code[i] = AtLabel(label)]
  ELSE Fail(m, "label")

Calling(m, code, label) ==
  JumpTo([m EXCEPT !.calls = Append(@, [back |-> m.pc + 1, height |-> m.height])],
         code, label)

\* A function leaves one value on the stack.
Returning(m) ==
  CASE m.calls = << >>            -> Fail(m, "return")
    [] m.height # Floor(m) + 1    -> Fail(m, "stack")
    [] OTHER -> [m EXCEPT !.pc = Last(m.calls).back, !.calls = Front(@)]

(* The machines one instruction may lead to; none beyond MaxCalls. *)
Executions(m, code) ==
  LET i == code[m.pc]
      popped == [m EXCEPT !.height = @ - 1]
  IN  CASE i.op = "DEFVAR" -> {Declaration(m, i.target)}
        [] i.op = "MOVE" ->
             {Reading(m, i.source, Storing(m, i.target, Contents(m, i.source)))}
        [] i.op = "PUSHS" ->
             {Reading(m, i.source, Advance([m EXCEPT !.height = @ + 1]))}
        [] i.op = "POPS" -> {Popping(m, 1, Storing(popped, i.target, "literal"))}
        [] i.op = "READ" -> {Storing(m, i.target, "literal")}
        [] i.op = "WRITE" -> {Reading(m, i.source, Advance(m))}
        [] i.op = "ADDS" -> {Popping(m, 2, Advance(popped))}
        [] i.op = "LABEL" -> {Advance(m)}
        [] i.op = "JUMP" -> {JumpTo(m, code, i.label)}
        [] i.op = "JUMPIFEQS" ->
             LET compared == [m EXCEPT !.height = @ - 2]
             IN  {Popping(m, 2, Advance(compared)),
                  Popping(m, 2, JumpTo(compared, code, i.label))}
        [] i.op = "JUMPIFEQ" ->
             {Reading(m, i.source,
                      IF Contents(m, i.source) = "true" THEN JumpTo(m, code, i.label)
                                                        ELSE Advance(m))}
        [] i.op = "CREATEFRAME" -> {Advance([m EXCEPT !.tf = <<EmptyFrame>>])}
        [] i.op = "PUSHFRAME" ->
             {IF m.tf = << >> THEN Fail(m, "no frame")
              ELSE Advance([m EXCEPT !.lf = Append(@, m.tf[1]), !.tf = << >>])}
        [] i.op = "POPFRAME" ->
             {IF m.lf = << >> THEN Fail(m, "no frame")
              ELSE Advance([m EXCEPT !.lf = Front(@), !.tf = <<Last(m.lf)>>])}
        [] i.op = "CALL" ->
             IF Len(m.calls) = MaxCalls THEN {} ELSE {Calling(m, code, i.label)}
        [] i.op = "RETURN" -> {Returning(m)}

Finished(m, code) == m.pc > Len(code)

=============================================================================
