----------------------------- MODULE ScopeStack -----------------------------
(***************************************************************************)
(* The stack of variable tables of symbol_register.c, as values and the    *)
(* operators that compute one stack from another.  The parser keeps one    *)
(* table per open block; the innermost one is the last of the sequence.    *)
(*                                                                         *)
(* Names are model values: of a name the register only asks whether two of *)
(* them are equal.  The hash table inside one scope is a function of the   *)
(* names, with NoVariable for those it does not hold.                      *)
(***************************************************************************)
EXTENDS Integers, Sequences

CONSTANTS
  Names,   \* the identifiers of the source language
  NoName   \* the NULL of a name: no alias, no variable name

ASSUME NamesAssumption == NoName \notin Names

(***************************************************************************)
(* A variable: the identifier of the table it was created in (scope_depth),*)
(* that table's scope_alias, its own name or, for a parameter, the index   *)
(* its alias_name carries (1 for the leftmost; 0 is no parameter).  "born" *)
(* counts the variables created before it: it orders creations and is not  *)
(* in the code.                                                            *)
(***************************************************************************)
Variable == [depth : Nat, alias : Names \cup {NoName}, name : Names,
             param : Nat, born : Nat]

NoVariable == [depth |-> 0, alias |-> NoName, name |-> NoName,
               param |-> 0, born |-> 0]

\* What two variables are told apart by in the target program
\* (symbol_variable_cmp and the rendered identifier): the alias of the scope
\* when it has one and its number otherwise, and the alias of the parameter
\* when it has one and the name otherwise.  The frame is the parser's.
Identity(v) ==
  [depth |-> IF v.alias = NoName THEN v.depth ELSE 0,
   alias |-> v.alias,
   name  |-> IF v.param = 0 THEN v.name ELSE NoName,
   param |-> v.param]

Identities == [depth : Nat, alias : Names \cup {NoName},
               name : Names \cup {NoName}, param : Nat]

Table == [id : Nat, alias : Names \cup {NoName},
          vars : [Names -> Variable \cup {NoVariable}]]

EmptyTable(id, alias) ==
  [id |-> id, alias |-> alias, vars |-> [n \in Names |-> NoVariable]]

Top(stack) == stack[Len(stack)]

-----------------------------------------------------------------------------
(* symbol_register_find_variable: the innermost table only. *)
Holds(table, name) == table.vars[name] # NoVariable

(* symbol_register_find_variable_recursive: from the innermost table       *)
(* outwards, the first table that holds the name.                          *)
Holders(stack, name) == {i \in 1..Len(stack) : Holds(stack[i], name)}

\* Wrong on purpose (a mutant of Find): the search starts at the outside.
FindFromOutside(stack, name) ==
  IF Holders(stack, name) = {}
  THEN NoVariable
  ELSE LET outermost == CHOOSE i \in Holders(stack, name) :
                          \A j \in Holders(stack, name) : i <= j
       IN  stack[outermost].vars[name]

Find(stack, name) ==
  IF Holders(stack, name) = {}
  THEN NoVariable
  ELSE LET innermost == CHOOSE i \in Holders(stack, name) :
                          \A j \in Holders(stack, name) : j <= i
       IN  stack[innermost].vars[name]

-----------------------------------------------------------------------------
(* The variable symbol_register_new_variable creates in a table: it takes  *)
(* the number and the alias of that table.                                 *)
NewVariable(table, name, param, born) ==
  [depth |-> table.id, alias |-> table.alias, name |-> name,
   param |-> param, born |-> born]

\* Wrong on purpose (a mutant of AddVariable): the variable goes to the table
\* around the innermost one.
AddVariableOutside(stack, name, param, born) ==
  IF Holds(Top(stack), name)
  THEN stack
  ELSE LET i == IF Len(stack) = 1 THEN 1 ELSE Len(stack) - 1
       IN  [stack EXCEPT ![i].vars[name] =
              NewVariable(Top(stack), name, param, born)]

(* symbol_register_new_variable: a name the innermost table already holds  *)
(* gives the variable it had, and the stack stays as it was.               *)
AddVariable(stack, name, param, born) ==
  IF Holds(Top(stack), name)
  THEN stack
  ELSE [stack EXCEPT ![Len(stack)].vars[name] =
          NewVariable(Top(stack), name, param, born)]

(* symbol_register_push_variables_table *)
PushTable(stack, id, alias) == Append(stack, EmptyTable(id, alias))

\* Wrong on purpose (a mutant of PopTable): no fresh table after the last one.
PopTableToNothing(stack) == SubSeq(stack, 1, Len(stack) - 1)

\* Wrong on purpose (a mutant of PopTable): the block's table stays.
PopTableForgotten(stack) == stack

(* symbol_register_pop_variables_table: popping the last table leaves a    *)
(* fresh one numbered 0, so that the stack is never empty.                 *)
PopTable(stack) ==
  IF Len(stack) = 1
  THEN <<EmptyTable(0, NoName)>>
  ELSE SubSeq(stack, 1, Len(stack) - 1)

\* parser_semantic_function_start walks the parameters of the function and
\* creates one variable for each, in a table that has the function's name.
\* The alias of a parameter carries the index of the first parameter of that
\* name, and the same name twice is one variable.
ParameterIndex(params, name) ==
  CHOOSE i \in DOMAIN params :
    params[i] = name /\ \A j \in DOMAIN params : params[j] = name => i <= j

ParameterNames(params) == {params[i] : i \in DOMAIN params}

Parameter(id, f, params, name, born) ==
  NewVariable(EmptyTable(id, f), name, ParameterIndex(params, name), born)

FunctionTable(id, f, params, born) ==
  [EmptyTable(id, f) EXCEPT !.vars =
     [n \in Names |-> IF n \in ParameterNames(params)
                      THEN Parameter(id, f, params, n, born) ELSE NoVariable]]

=============================================================================
