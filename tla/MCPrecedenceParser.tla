------------------------- MODULE MCPrecedenceParser -------------------------
(***************************************************************************)
(* Every sequence of up to three tokens of thirteen, and of four of seven; *)
(* longer ones built from operands and operators: three operators in a     *)
(* row, operators around prefixes, brackets and calls, and calls in calls. *)
(***************************************************************************)
EXTENDS PrecedenceParser

Tokens == {"identifier", "integer_literal", "minus", "multiply", "integer_divide",
           "equal", "not", "and", "left_bracket", "right_bracket", "comma",
           "chr", "unknown"}
FewTokens == {"identifier", "minus", "equal", "left_bracket", "right_bracket", "comma",
              "unknown"}

Operators == DOMAIN Tightness
SomeOperators == {"multiply", "divide", "integer_divide", "plus", "minus", "equal",
                  "lesser", "and", "or"}

Name == <<"identifier">>
Value == <<"integer_literal">>
Joined(left, op, right) == left \o <<op>> \o right
InBrackets(s) == <<"left_bracket">> \o s \o <<"right_bracket">>
ListOf(s, t) == InBrackets(s \o <<"comma">> \o t)

Units == {Name, <<"minus">> \o Name, <<"minus", "minus">> \o Name, <<"not">> \o Value,
          InBrackets(Value), <<"chr">> \o InBrackets(Name), Name \o InBrackets(<< >>),
          Name \o ListOf(Name, Value), <<"minus">> \o InBrackets(Name)}

Pairs == {Joined(Name, op, Value) : op \in SomeOperators}
Triples == {Joined(Joined(Name, o, Value), p, Name) : o, p \in Operators}

MCSources ==
  UNION {[1..n -> Tokens] : n \in 0..3} \cup [1..4 -> FewTokens]
  \cup {Joined(t, op, Value) : t \in Triples, op \in SomeOperators}
  \cup {Joined(s, op, t) : s, t \in Units, op \in SomeOperators}
  \cup {Joined(InBrackets(s), op, Name) : s \in Pairs, op \in Operators}
  \cup {Joined(Name, op, InBrackets(s)) : s \in Pairs, op \in Operators}
  \cup {Name \o ListOf(s, t) : s, t \in Pairs}
  \cup {<<"asc">> \o ListOf(s, Name \o InBrackets(t)) : s, t \in Pairs}
  \cup {<<"substr">> \o ListOf(Name, s \o <<"comma">> \o Name) : s \in Pairs}

=============================================================================
