-------------------------- MODULE ExpressionGrammar --------------------------
(***************************************************************************)
(* What an expression is and what it means, said of its tokens and without *)
(* a table: the loosest operator outside of brackets is applied last, and  *)
(* of several equally loose ones the last.                                 *)
(***************************************************************************)
EXTENDS Integers, FiniteSets, SequencesExt

Literals == {"boolean_literal", "integer_literal", "double_literal", "string_literal"}
Operands == Literals \cup {"identifier"}
Comparisons == {"equal", "not_equal", "lesser", "lesser_or_equal", "greater",
                "greater_or_equal"}
Tightness == ("or" :> 1) @@ ("and" :> 2) @@ [c \in Comparisons |-> 3]
             @@ [op \in {"plus", "minus"} |-> 4] @@ ("integer_divide" :> 5)
             @@ [op \in {"multiply", "divide"} |-> 6]

\* The functions of the language, with their numbers of arguments.
Arity == ("length" :> 1) @@ ("substr" :> 3) @@ ("asc" :> 2) @@ ("chr" :> 1)

\* What is done with the values before it.
Step(name, arity) == [name |-> name, arity |-> arity]

-----------------------------------------------------------------------------
Depth(s, i) ==
  LET Count(bracket) == Cardinality({j \in 1..i - 1 : s[j] = bracket})
  IN  Count("left_bracket") - Count("right_bracket")

Outside(s, names) == {i \in DOMAIN s : s[i] \in names /\ Depth(s, i) = 0}

\* A minus after what can be an operand has two operands.
BinaryPlaces(s) ==
  {i \in Outside(s, DOMAIN Tightness) :
     i > 1 /\ s[i - 1] \in Operands \cup {"right_bracket"}}

Before(s, i) == SubSeq(s, 1, i - 1)
After(s, i) == SubSeq(s, i + 1, Len(s))
Inside(s, i) == SubSeq(s, i + 1, Len(s) - 1)

(* The steps that compute the expression s, in their order: one sequence,  *)
(* or none when s is not an expression.  Comparisons do not associate, and *)
(* of the two prefix operators neither is applied to the other.            *)
RECURSIVE Meanings(_), Arguments(_)
Meanings(s) ==
  LET places == BinaryPlaces(s)
      loosest == Min({Tightness[s[i]] : i \in places})
      last == {i \in places : Tightness[s[i]] = loosest}
      Prefixed(name, other) ==
        IF Len(s) > 1 /\ s[2] = other THEN {}
        ELSE {steps \o <<Step(name, 1)>> : steps \in Meanings(Tail(s))}
      Called(arities) ==
        {list.steps \o <<Step(s[1], list.count)>> :
           list \in {l \in Arguments(Inside(s, 2)) : l.count \in arities}}
  IN  CASE s = << >> -> {}
        [] places # {} ->
             IF loosest = Tightness["equal"] /\ Cardinality(last) > 1 THEN {}
             ELSE {left \o right \o <<Step(s[Max(last)], 2)>> :
                     left \in Meanings(Before(s, Max(last))),
                     right \in Meanings(After(s, Max(last)))}
        [] s[1] = "minus" -> Prefixed("unary_minus", "not")
        [] s[1] = "not" -> Prefixed("not", "minus")
        [] Len(s) = 1 -> IF s[1] \in Operands THEN {<<Step(s[1], 0)>>} ELSE {}
        [] Last(s) # "right_bracket" -> {}
        [] s[1] = "left_bracket" -> Meanings(Inside(s, 1))
        [] s[2] # "left_bracket" -> {}
        [] s[1] = "identifier" -> Called(0..Len(s))
        [] s[1] \in DOMAIN Arity -> Called({Arity[s[1]]})
        [] OTHER -> {}

\* How many expressions between commas s is, and their steps.
Arguments(s) ==
  LET commas == Outside(s, {"comma"})
      One(steps) == [count |-> 1, steps |-> steps]
  IN  CASE s = << >> -> {[count |-> 0, steps |-> << >>]}
        [] commas = {} -> {One(steps) : steps \in Meanings(s)}
        [] OTHER ->
             {[count |-> list.count + 1, steps |-> list.steps \o steps] :
                list \in {l \in Arguments(Before(s, Max(commas))) : l.count > 0},
                steps \in Meanings(After(s, Max(commas)))}

IsExpression(s) == Meanings(s) # {}

=============================================================================
