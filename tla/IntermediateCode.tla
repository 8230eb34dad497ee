-------------------------- MODULE IntermediateCode --------------------------
(***************************************************************************)
(* The instructions the optimizer works on: code_instruction.c,            *)
(* code_instruction_operand.c and the signatures of code_generator.c.      *)
(*                                                                         *)
(* A constant is its data type and the sequence of atoms its text is made  *)
(* of.  An integer is one atom, and so are a boolean (0 or 1) and a double *)
(* (counted in halves); a string has any number of them.  What WRITE       *)
(* prints of a constant is its atoms, whatever its type.                   *)
(***************************************************************************)
EXTENDS Integers, SequencesExt

Operand(kind, frame, name, type, atoms) ==
  [kind |-> kind, frame |-> frame, name |-> name, type |-> type, atoms |-> atoms]

Variable(frame, name) == Operand("variable", frame, name, "none", << >>)
LabelOperand(label) == Operand("label", "none", label, "none", << >>)
DataType(type) == Operand("data_type", "none", "none", type, << >>)
Constant(type, atoms) == Operand("constant", "none", "none", type, atoms)

Number(type, n) == Constant(type, <<<<type, n>>>>)
IntegerOf(n) == Number("integer", n)
Halves(h) == Number("double", h)
BooleanOf(b) == Number("boolean", IF b THEN 1 ELSE 0)
Character(c) == <<"character", c>>
Text(atoms) == Constant("string", atoms)

ValueOf(constant) == constant.atoms[1][2]

(* code_instruction_operand_implicit_value *)
ImplicitValue(type) ==
  IF type = "string" THEN Text(<< >>) ELSE Number(type, 0)

IsVariableOperand(operand) == operand.kind = "variable"
IsConstantOperand(operand) == operand.kind = "constant"

(* code_instruction_operand_cmp: operands are the same when they are equal *)
(* as records, symbol_variable_cmp telling variables apart by their name.  *)
SameOperand(one, other) == one = other

\* The global temporaries of parser_semantic_setup_temp_variables.
Temp1 == Variable("GF", "&1")
Temp2 == Variable("GF", "&2")
Temp6 == Variable("GF", "&6")
Temporaries == [i \in 1..6 |->
  Variable("GF", <<"&1", "&2", "&3", "&4", "&5", "&6">>[i])]

-----------------------------------------------------------------------------
(* An instruction with its meta data: the marks of parser.c, the purity of *)
(* the expression it begins, whether that expression is interpretable, and *)
(* whether the value it stores is overwritten unread.                      *)
Instruction(op, operands) ==
  [op |-> op, operands |-> operands, mark |-> {}, purity |-> {},
   interpretable |-> FALSE, without_effect |-> FALSE]

Marked(instruction, flag) == [instruction EXCEPT !.mark = @ \cup {flag}]

Operations == {"ADD", "SUB", "MUL", "DIV", "LT", "GT", "EQ", "AND", "OR"}
ThreeAddress == Operations \cup {"CONCAT", "GETCHAR", "STRI2INT"}
TwoAddress == {"MOVE", "NOT", "STRLEN"}
ComparingJumps == {"JUMPIFEQ", "JUMPIFNEQ"}
LabelOnly == {"LABEL", "JUMP", "CALL", "JUMPIFEQS", "JUMPIFNEQS"}
ConditionalJumps == ComparingJumps \cup {"JUMPIFEQS", "JUMPIFNEQS"}

(* code_generator_register_signatures *)
Signature(op) ==
  CASE op \in ThreeAddress     -> <<"variable", "symbol", "symbol">>
    [] op \in TwoAddress       -> <<"variable", "symbol">>
    [] op \in ComparingJumps   -> <<"label", "symbol", "symbol">>
    [] op \in LabelOnly        -> <<"label">>
    [] op \in {"PUSHS", "WRITE"}  -> <<"symbol">>
    [] op \in {"POPS", "DEFVAR"}  -> <<"variable">>
    [] op = "READ"             -> <<"variable", "data_type">>
    [] OTHER                   -> << >>

(* instruction_class *)
Class(op) ==
  CASE op \in {"READ", "MOVE", "POPS"}      -> "write"
    [] op = "JUMP"                          -> "direct_jump"
    [] op \in ConditionalJumps              -> "conditional_jump"
    [] op \in ThreeAddress \cup {"NOT", "STRLEN"} -> "var_modifiers"
    [] OTHER                                -> "other"

Stores(instruction) == Class(instruction.op) \in {"write", "var_modifiers"}

\* The variable an instruction that stores something stores it in.
Target(instruction) == instruction.operands[1]

\* The variables an instruction reads: those its signature has a symbol for.
Sources(instruction) ==
  {instruction.operands[i] : i \in
     {j \in DOMAIN instruction.operands :
        /\ Signature(instruction.op)[j] = "symbol"
        /\ IsVariableOperand(instruction.operands[j])}}

Jumps(instruction) ==
  instruction.op \in {"CALL", "JUMP"} \cup ConditionalJumps

Labelled(instruction) == instruction.operands[1].name

(* FoldLeft of the community modules, as a recursive function of the place. *)
(* What a step starts from is bound, which makes TLC compute it once only.  *)
Walk(Step(_, _), start, list) ==
  LET Over(items) ==
        LET after[i \in 0..Len(items)] ==
              IF i = 0 THEN start
              ELSE CHOOSE s \in {Step(before, items[i]) : before \in {after[i - 1]}} : TRUE
        IN  after[Len(items)]
  IN  CHOOSE end \in {Over(items) : items \in {list}} : TRUE

=============================================================================
