--------------------------- MODULE SymbolRegister ---------------------------
(***************************************************************************)
(* The register of symbols (symbol_register.c) with the calls              *)
(* parser_semantic.c makes of it while a source program is read: tables    *)
(* are pushed and popped, variables are created in the innermost table,    *)
(* and the table of a function takes the function's name as its alias, with*)
(* the parameters already in it.                                           *)
(*                                                                         *)
(* The target program knows a variable by its Identity alone.  What the    *)
(* register owes its callers is therefore that no two variables that exist *)
(* ever share one, and that a name finds the variable declared last among  *)
(* those still visible.                                                    *)
(***************************************************************************)
EXTENDS ScopeStack

CONSTANTS
  ParameterLists,  \* the lists of parameter names a function may have
  MaxTables,       \* bound: how many tables may be pushed
  MaxBorn          \* bound: how many times variables may be created

ASSUME BoundsAssumption == MaxTables \in Nat /\ MaxBorn \in Nat

ASSUME ParameterListsAssumption == ParameterLists \subseteq Seq(Names)

VARIABLES
  variables,                \* SymbolRegister.variables, innermost table last
  variables_table_counter,  \* SymbolRegister.variables_table_counter
  functions,                \* SymbolRegister.functions: what each name is there
  born,                     \* history: how many times variables were created
  declared,                 \* history: the identities of all of them
  redeclared,               \* history: the identities created more than once
  outside                   \* history: what names meant when a table was pushed

vars == <<variables, variables_table_counter, functions,
          born, declared, redeclared, outside>>

TypeOK ==
  /\ variables \in Seq(Table) /\ Len(variables) > 0
  /\ variables_table_counter \in Nat
  /\ functions \in [Names -> {"none", "declared", "defined"}]
  /\ born \in Nat
  /\ declared \subseteq Identities
  /\ redeclared \subseteq Identities
  /\ outside \in Seq([Names -> Variable \cup {NoVariable}])

-----------------------------------------------------------------------------
(* symbol_register_init.  The build without NDEBUG clears what it          *)
(* allocates, which makes the scope_alias of the first table NULL; the     *)
(* function does not assign it.                                            *)
Init ==
  /\ variables = <<EmptyTable(0, NoName)>>
  /\ variables_table_counter = 0
  /\ functions = [n \in Names |-> "none"]
  /\ born = 0
  /\ declared = {}
  /\ redeclared = {}
  /\ outside = << >>

Meaning == [n \in Names |-> Find(variables, n)]

Remember(ids) ==
  /\ declared' = declared \cup ids
  /\ redeclared' = redeclared \cup (declared \cap ids)

\* Wrong on purpose (a mutant of PushVariablesTable): the number of a table is
\* its depth, taken again by the next block of that depth.
PushVariablesTableByDepth ==
  /\ variables_table_counter < MaxTables
  /\ variables_table_counter' = variables_table_counter + 1
  /\ variables' = PushTable(variables, Len(variables), NoName)
  /\ outside' = Append(outside, Meaning)
  /\ UNCHANGED <<functions, born, declared, redeclared>>

(* SCOPE, IF ... THEN, ELSE and DO push a table with a number of its own. *)
PushVariablesTable ==
  /\ variables_table_counter < MaxTables
  /\ variables_table_counter' = variables_table_counter + 1
  /\ variables' = PushTable(variables, variables_table_counter + 1, NoName)
  /\ outside' = Append(outside, Meaning)
  /\ UNCHANGED <<functions, born, declared, redeclared>>

(* END SCOPE, END IF, LOOP and END FUNCTION (parser_semantic_function_end) *)
PopVariablesTable ==
  /\ variables' = PopTable(variables)
  /\ outside' = SubSeq(outside, 1, Len(outside) - 1)
  /\ UNCHANGED <<variables_table_counter, functions, born, declared, redeclared>>

(* parser_semantic_add_variable: DIM, DIM SHARED and STATIC.  The name of  *)
(* a function and a name of the innermost table are refused, with the      *)
(* register as it was.                                                     *)
DeclareVariable(name) ==
  /\ functions[name] = "none"
  /\ ~Holds(Top(variables), name)
  /\ born < MaxBorn
  /\ variables' = AddVariable(variables, name, 0, born)
  /\ born' = born + 1
  /\ Remember({Identity(NewVariable(Top(variables), name, 0, born))})
  /\ UNCHANGED <<variables_table_counter, functions, outside>>

(* parser_semantic_set_function_name of a DECLARE: once for each name. *)
DeclareFunction(f) ==
  /\ functions[f] = "none"
  /\ functions' = [functions EXCEPT ![f] = "declared"]
  /\ UNCHANGED <<variables, variables_table_counter,
                 born, declared, redeclared, outside>>

ParameterIdentities(id, f, params) ==
  {Identity(Parameter(id, f, params, n, born)) : n \in ParameterNames(params)}

\* parser_semantic_add_function_parameter: a function that was not declared
\* before takes no parameter twice and none with the name of a function, its
\* own included.  The definition of a declared function puts its names in the
\* place of the declaration's without looking at them.
AcceptedParameters(f, params) ==
  functions[f] = "declared" \/
    /\ \A i, j \in DOMAIN params : params[i] = params[j] => i = j
    /\ \A i \in DOMAIN params : params[i] # f /\ functions[params[i]] = "none"

(* parser_semantic_set_function_name of a definition refuses a function    *)
(* defined before; parser_semantic_function_start opens its table.  A      *)
(* definition stands at the top level of the program.                      *)
FunctionStart(f, params) ==
  /\ functions[f] # "defined"
  /\ AcceptedParameters(f, params)
  /\ Len(variables) = 1
  /\ variables_table_counter < MaxTables
  /\ born < MaxBorn
  /\ variables_table_counter' = variables_table_counter + 1
  /\ variables' =
       Append(variables, FunctionTable(variables_table_counter + 1, f, params, born))
  /\ functions' = [functions EXCEPT ![f] = "defined"]
  /\ outside' = Append(outside, Meaning)
  /\ born' = born + 1
  /\ Remember(ParameterIdentities(variables_table_counter + 1, f, params))

Next ==
  \/ PushVariablesTable
  \/ PopVariablesTable
  \/ \E name \in Names : DeclareVariable(name)
  \/ \E f \in Names : DeclareFunction(f)
  \/ \E f \in Names, params \in ParameterLists : FunctionStart(f, params)

Spec == Init /\ [][Next]_vars

-----------------------------------------------------------------------------
(* The variables that exist: those of the tables on the stack. *)
Live == {variables[i].vars[n] : i \in 1..Len(variables), n \in Names}
          \ {NoVariable}

\* A table that was popped never comes back under the same number, and a
\* function's alias is taken once, so no variable is created under the identity
\* of one created before it, dead or alive.  Code already emitted for the dead
\* one would otherwise read and write the new one.  The first table is the
\* exception: popping it starts number 0 again, which the grammar never does.
NoIdentityReuse ==
  \A id \in redeclared : id.depth = 0 /\ id.alias = NoName

\* Shadowing: a name finds the variable declared last among those of that name
\* that exist, and finds one whenever one exists.
LastDeclarationWins ==
  \A n \in Names :
    LET found == Find(variables, n)
    IN  IF found = NoVariable
        THEN \A v \in Live : v.name # n
        ELSE /\ found \in Live /\ found.name = n
             /\ \A v \in Live : v.name = n => v.born <= found.born

\* Whatever is declared in a block ends with it: while a block is open, the
\* tables around it go on giving every name the meaning it had when the block
\* began, and that is the meaning the name has again when the block is popped.
OuterMeaningKept ==
  \A i \in 1..Len(variables) - 1 : \A n \in Names :
    Find(SubSeq(variables, 1, i), n) = outside[i][n]

-----------------------------------------------------------------------------
(* What the proofs of the four invariants above induct on. *)

\* Tables are numbered upwards from the first, which alone has the number 0.
NumbersGrow ==
  /\ variables[1].id = 0 /\ variables[1].alias = NoName
  /\ \A i \in 1..Len(variables) : variables[i].id <= variables_table_counter
  /\ \A i, j \in 1..Len(variables) : i < j => variables[i].id < variables[j].id

\* Only the second table can be a function's, and the function is defined.
FunctionTableIsSecond ==
  \A i \in 1..Len(variables) :
    variables[i].alias # NoName =>
      i = 2 /\ functions[variables[i].alias] = "defined"

\* An identity was taken from a table numbered so far or a function defined so
\* far.
IdentitiesAreOld ==
  \A id \in declared :
    IF id.alias = NoName THEN id.depth <= variables_table_counter
                         ELSE functions[id.alias] = "defined"

\* A table still on the stack holds the name of every variable created in it
\* since; the first table is left out, because popping it starts it afresh.
Owns(table, id) ==
  /\ id.alias = table.alias /\ id.param = 0 /\ id.name # NoName
  /\ table.alias = NoName => id.depth = table.id

OpenTablesHoldTheirs ==
  \A i \in 1..Len(variables), id \in declared :
    variables[i].id # 0 /\ Owns(variables[i], id) =>
      Holds(variables[i], id.name)

\* A table files a variable under its name, and variables are older the farther
\* out their table is.
OuterIsOlder ==
  /\ \A i \in 1..Len(variables), n \in Names :
       Holds(variables[i], n) =>
         variables[i].vars[n].name = n /\ variables[i].vars[n].born < born
  /\ \A i, j \in 1..Len(variables), m, n \in Names :
       i < j /\ Holds(variables[i], m) /\ Holds(variables[j], n) =>
         variables[i].vars[m].born < variables[j].vars[n].born

\* One remembered meaning for each table but the first.
OutsidePairsTables == Len(outside) = Len(variables) - 1

RegisterInvariant ==
  /\ TypeOK
  /\ NumbersGrow
  /\ FunctionTableIsSecond
  /\ IdentitiesAreOld
  /\ OpenTablesHoldTheirs
  /\ NoIdentityReuse
  /\ OuterIsOlder
  /\ OutsidePairsTables
  /\ OuterMeaningKept

=============================================================================
