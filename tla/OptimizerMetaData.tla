------------------------- MODULE OptimizerMetaData -------------------------
(***************************************************************************)
(* What the optimizer knows about the code: how often every variable is    *)
(* used and every label jumped to, and what every function reads, changes  *)
(* and is (variables_meta_data, labels_meta_data, functions_meta_data).    *)
(* The counts are kept up to date by hand when instructions come and go,   *)
(* and taken anew by code_optimizer_update_meta_data.                      *)
(***************************************************************************)
EXTENDS ConstantArithmetic

Multiset == INSTANCE BagsExt

\* Pure is META_TYPE_PURE, the absence of flags.
Pure == {}
UnknownFunction == [calls |-> 0, purity |-> Pure, modified |-> {}, read |-> {}]
NoMetaData == [uses |-> EmptyBag, jumps |-> EmptyBag, functions |-> << >>]

\* The getters create an item of zeros for a name not met before.
Copies(x, counts) == IF x \in DOMAIN counts THEN counts[x] ELSE 0
UsesOf(meta, variable) == Copies(variable, meta.uses)
JumpsTo(meta, label) == Copies(label, meta.jumps)
FunctionIn(functions, label) ==
  IF label \in DOMAIN functions THEN functions[label] ELSE UnknownFunction

-----------------------------------------------------------------------------
(* The operands that count as uses: all variables but what DEFVAR, POPS    *)
(* and MOVE write.                                                         *)
CountedUses(instruction) ==
  IF instruction.op \in {"DEFVAR", "POPS"} THEN << >>
  ELSE SelectSeq(IF instruction.op = "MOVE" THEN Tail(instruction.operands)
                 ELSE instruction.operands, IsVariableOperand)

(* code_optimizer_adding_instruction, code_optimizer_update_label_meta_data *)
Adding(meta, instruction) ==
  [meta EXCEPT
     !.jumps = IF Jumps(instruction) THEN Multiset!BagAdd(@, Labelled(instruction)) ELSE @,
     !.uses = Walk(Multiset!BagAdd, @, CountedUses(instruction))]

\* Wrong on purpose (a mutant of Removing): what is written was never counted.
RemovingWritten(meta, instruction) ==
  IF Jumps(instruction)
  THEN [meta EXCEPT !.jumps = Multiset!BagRemove(@, Labelled(instruction))]
  ELSE [meta EXCEPT !.uses =
          Walk(Multiset!BagRemove, @, SelectSeq(instruction.operands, IsVariableOperand))]

(* code_optimizer_removing_instruction: a count stops at zero, and the     *)
(* variables of a conditional jump stay counted.                           *)
Removing(meta, instruction) ==
  IF Jumps(instruction)
  THEN [meta EXCEPT !.jumps = Multiset!BagRemove(@, Labelled(instruction))]
  ELSE [meta EXCEPT !.uses = Walk(Multiset!BagRemove, @, CountedUses(instruction))]

\* Several instructions removed, one after another.
RemovingAll(meta, instructions) == Walk(Removing, meta, instructions)

-----------------------------------------------------------------------------
Global(variables) == {v \in variables : v.frame = "GF"}

(* code_optimizer_update_function_meta_data                                *)
Effects(instruction) ==
  LET written == IF Stores(instruction) THEN Global({Target(instruction)}) ELSE {}
  IN  [purity |-> (IF instruction.op = "READ" THEN {"dynamic_dependent"} ELSE {})
                    \cup (IF instruction.op = "WRITE" THEN {"outputted"} ELSE {})
                    \cup (IF written # {} THEN {"with_side_effect"} ELSE {}),
       modified |-> written,
       read |-> Global(Sources(instruction))]

FunctionUpdated(functions, instruction, current) ==
  LET label == Labelled(instruction)
      callee == FunctionIn(functions, label)
      called == IF instruction.op # "CALL" THEN functions
                ELSE (label :> [callee EXCEPT !.calls = @ + 1]) @@ functions
      effects == Effects(instruction)
      known == FunctionIn(called, current[1])
  IN  IF current = << >> THEN called
      ELSE (current[1] :> [known EXCEPT !.purity = @ \cup effects.purity,
                                        !.modified = @ \cup effects.modified,
                                        !.read = @ \cup effects.read]) @@ called

\* The function an instruction is in, given the one the last was in.
CurrentFunction(instruction, current) ==
  CASE instruction.mark = {"function_start"} -> <<Labelled(instruction)>>
    [] instruction.mark = {"function_end"}   -> << >>
    [] OTHER                                 -> current

Observed(s, instruction) ==
  LET current == CurrentFunction(instruction, s.current)
      counted == Adding(s.meta, instruction)
  IN  [current |-> current,
       meta |-> [counted EXCEPT !.functions =
                   FunctionUpdated(@, instruction, current)]]

\* The first loop of code_optimizer_update_meta_data.
CountedAnew(code) ==
  Walk(Observed, [current |-> << >>, meta |-> NoMetaData], code).meta

-----------------------------------------------------------------------------
(* interpreter_supported_instruction                                       *)
Interpretable(op) ==
  op \in StackOperations \cup Conversions \cup {"NOTS", "PUSHS", "POPS"}

\* An instruction the interpreter cannot run as part of an expression.
NotForInterpreter(instruction) ==
  \/ ~Interpretable(instruction.op)
  \/ \E i \in DOMAIN instruction.operands :
       IsVariableOperand(instruction.operands[i]) /\ instruction.operands[i] # Temp1

(* The second loop: an expression begun by a pure instruction is assumed   *)
(* interpretable until one of its instructions shows it is not, and takes  *)
(* over the purity of the functions it calls.  The instruction that ends   *)
(* it is no longer looked at.                                              *)
Spread(functions, s, place) ==
  LET instruction == s.code[place]
      begins == "expression_start" \in instruction.mark /\ instruction.purity = Pure
      start == CASE "expression_end" \in instruction.mark -> 0
                 [] begins /\ "expression_end" \notin instruction.mark -> place
                 [] OTHER -> s.start
      assumed == IF begins THEN [s.code EXCEPT ![place].interpretable = TRUE] ELSE s.code
      called == IF start # 0 /\ instruction.op = "CALL"
                THEN [assumed EXCEPT ![start].purity =
                        @ \cup FunctionIn(functions, Labelled(instruction)).purity]
                ELSE assumed
  IN  [start |-> start,
       code |-> IF start # 0 /\ NotForInterpreter(instruction)
                THEN [called EXCEPT ![start].interpretable = FALSE] ELSE called]

WithExpressionsMarked(code, functions) ==
  Walk(LAMBDA s, place : Spread(functions, s, place), [start |-> 0, code |-> code],
       [i \in DOMAIN code |-> i]).code

(* code_optimizer_update_meta_data                                         *)
Updated(code) ==
  LET meta == CountedAnew(code)
  IN  [meta |-> meta, code |-> WithExpressionsMarked(code, meta.functions)]

=============================================================================
