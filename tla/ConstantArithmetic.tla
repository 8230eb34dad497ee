------------------------- MODULE ConstantArithmetic -------------------------
(***************************************************************************)
(* The arithmetic of constants, shared by the constant folding of          *)
(* code_optimizer_expr.c, the interpreter of constant expressions and the  *)
(* machine the code is for.  A double is counted in halves: the programs   *)
(* of the models keep every quotient and product a whole number of them.   *)
(***************************************************************************)
EXTENDS IntermediateCode

\* The quotient of C, which truncates towards zero.
Quotient(n, d) ==
  LET Magnitude(x) == IF x < 0 THEN -x ELSE x
      q == Magnitude(n) \div Magnitude(d)
  IN  IF (n < 0) = (d < 0) THEN q ELSE -q

\* round_even: a double to the nearest integer, a tie to the even one.
RoundEven(halves) ==
  LET floor == halves \div 2
  IN  IF halves % 2 = 0 \/ floor % 2 = 0 THEN floor ELSE floor + 1

\* The cast (int) of C.
Truncated(halves) == Quotient(halves, 2)

(* The conversions the three instructions make of a constant.              *)
Conversions == {"INT2FLOATS", "FLOAT2R2EINTS", "FLOAT2INTS"}

ConversionSource(op) == IF op = "INT2FLOATS" THEN "integer" ELSE "double"

Converted(op, constant) ==
  CASE op = "INT2FLOATS"    -> Halves(2 * ValueOf(constant))
    [] op = "FLOAT2R2EINTS" -> IntegerOf(RoundEven(ValueOf(constant)))
    [] op = "FLOAT2INTS"    -> IntegerOf(Truncated(ValueOf(constant)))

(* What an operation makes of two numbers or booleans of one type; op is   *)
(* the name of the instruction without the S of the stack.                 *)
Computed(op, type, x, y) ==
  LET double == type = "double"
  IN  CASE op = "ADD" -> x + y
        [] op = "SUB" -> x - y
        [] op = "MUL" -> IF double THEN (x * y) \div 2 ELSE x * y
        [] op = "DIV" -> IF double THEN Quotient(2 * x, y) ELSE Quotient(x, y)
        [] op = "AND" -> IF x # 0 /\ y # 0 THEN 1 ELSE 0
        [] op = "OR"  -> IF x # 0 \/ y # 0 THEN 1 ELSE 0

Compared(op, x, y) ==
  CASE op = "EQ" -> x = y
    [] op = "GT" -> x > y
    [] op = "LT" -> x < y

Comparisons == {"EQ", "GT", "LT"}

\* strcmp: how two strings compare, by the code of their characters.
TextLess(one, other) ==
  \E i \in DOMAIN other :
     /\ \A j \in 1..(i - 1) : j \in DOMAIN one /\ one[j] = other[j]
     /\ i \in DOMAIN one => one[i][2] < other[i][2]

TextCompared(op, one, other) ==
  CASE op = "EQ" -> one = other
    [] op = "GT" -> TextLess(other, one)
    [] op = "LT" -> TextLess(one, other)

(* The instructions that take their operands from the stack.               *)
OnStack(op) == op \o "S"
StackOperations == {OnStack(op) : op \in Operations}
OperationOf(stackOp) == CHOOSE op \in Operations : OnStack(op) = stackOp

=============================================================================
