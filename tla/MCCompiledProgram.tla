------------------------- MODULE MCCompiledProgram -------------------------
EXTENDS CompiledProgram

CONSTANTS f, x, y

AllNames == {f, x, y}

Nowhere == [c \in {"dim", "shared", "static", "declare", "function", "return",
                   "scope", "while", "if", "elseif", "else", "assign", "input",
                   "print"} |-> 0]

Constant == <<LiteralToken>>
Value == <<IdentifierToken(x)>>

\* Conditions are constants, values are printed; no initialisers.
Plainly == [c \in DOMAIN Nowhere |->
              CASE c \in {"dim", "shared", "static"} -> {<< >>}
                [] c = "print"                       -> {Value}
                [] OTHER                             -> {Constant}]

NoParameters == {<< >>}

Program(names, parameters, expressions, allowance) ==
  [names |-> names, parameters |-> parameters, expressions |-> expressions,
   allowance |-> allowance]

(* Loops around and inside each other and a condition, with up to three     *)
(* declarations of one name in any of their blocks.                        *)
LoopAllowance ==
  [Nowhere EXCEPT !["while"] = 2, !["if"] = 1, !["dim"] = 2, !["static"] = 1,
                  !["print"] = 1]

(* Names declared again in nested and in following blocks, and for all of   *)
(* them; written to as well as read.                                       *)
ReadingOther == [Plainly EXCEPT !["assign"] = {<<IdentifierToken(y)>>}]
ScopeAllowance ==
  [Nowhere EXCEPT !["scope"] = 2, !["dim"] = 2, !["shared"] = 2,
                  !["assign"] = 1, !["input"] = 1]

(* Every shape of a condition, two of them with a loop, without variables.  *)
BranchAllowance ==
  [Nowhere EXCEPT !["if"] = 2, !["elseif"] = 2, !["else"] = 2, !["while"] = 1]

(* A function of one parameter that may call itself, and its callers: an    *)
(* argument is a constant, a variable, a sum, or another call.              *)
CallOfVariable == Append(Value, CallOf(f, 1))
CallOfSum == Append(<<IdentifierToken(x), LiteralToken, Operation>>, CallOf(f, 1))
CallOfCall == <<LiteralToken, CallOf(f, 1), CallOf(f, 1)>>
WithCalls == [Plainly EXCEPT
  !["print"] = {CallOfVariable, CallOfSum, CallOfCall},
  !["return"] = {Value, CallOfVariable}]
FunctionAllowance ==
  [Nowhere EXCEPT !["declare"] = 1, !["function"] = 1, !["return"] = 1,
                  !["while"] = 1, !["static"] = 1, !["dim"] = 1, !["shared"] = 1,
                  !["print"] = 1]

(* A variable declared after THEN, read after ELSE. *)
ElseAllowance ==
  [Nowhere EXCEPT !["if"] = 1, !["else"] = 1, !["dim"] = 1, !["print"] = 1]

(* A variable declared after ELSEIF. *)
ElseIfAllowance ==
  [Nowhere EXCEPT !["if"] = 1, !["elseif"] = 1, !["dim"] = 1, !["print"] = 1]

(* A declared function whose definition renames its parameters. *)
Renaming == [Plainly EXCEPT !["print"] = {<<LiteralToken, LiteralToken, CallOf(f, 2)>>}]
RenameAllowance ==
  [Nowhere EXCEPT !["declare"] = 1, !["function"] = 1, !["print"] = 1]

-----------------------------------------------------------------------------
AllKinds ==
  [loops     |-> Program({x}, NoParameters, Plainly, LoopAllowance),
   scopes    |-> Program({x, y}, NoParameters, ReadingOther, ScopeAllowance),
   branches  |-> Program({x}, NoParameters, Plainly, BranchAllowance),
   functions |-> Program({f, x}, {<< >>, <<x>>}, WithCalls, FunctionAllowance)]

BranchNameKinds ==
  [else   |-> Program({x}, NoParameters, Plainly, ElseAllowance),
   elseif |-> Program({x}, NoParameters, Plainly, ElseIfAllowance)]

RenameKind ==
  [rename |-> Program({f, x, y}, {<<x, y>>, <<x, x>>}, Renaming, RenameAllowance)]

=============================================================================
