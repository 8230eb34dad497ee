-------------------------- MODULE ParserStatements --------------------------
(***************************************************************************)
(* The parser of programs (parser.c) with the semantic checks of           *)
(* parser_semantic.c: one action per construct of the source language.     *)
(* Each one checks names against the stack of tables, declares what it     *)
(* declares there, and hands the constructor what it emits.  A construct   *)
(* with a body is two actions, where it begins and where it ends; "blocks" *)
(* are the rules still open between the two.                               *)
(*                                                                         *)
(* Tokens, the order of tokens inside one construct, data types and the    *)
(* kinds of error are left out: a program is refused or it is not.         *)
(***************************************************************************)
EXTENDS ExpressionRules

(***************************************************************************)
(* Bound: the kinds of programs there are.  Each kind has the names its    *)
(* programs use, the lists of parameters of their functions, the           *)
(* expressions each construct may have (no initialiser is << >>), and how  *)
(* often each construct may occur.                                         *)
(***************************************************************************)
CONSTANT Programs

Constructs == {"dim", "shared", "static", "declare", "function", "return", "scope",
               "while", "if", "elseif", "else", "assign", "input", "print"}

ASSUME ProgramsAssumption ==
  \A k \in DOMAIN Programs :
    /\ Programs[k].names \subseteq Names
    /\ Programs[k].parameters \subseteq Seq(Names)
    /\ \A c \in Constructs : \A e \in Programs[k].expressions[c] :
         \/ IsPostfix(e)
         \/ e = << >> /\ c \in {"dim", "shared", "static"}
    /\ Programs[k].allowance \in [Constructs -> Nat]

VARIABLES
  part,             \* where the parser is in <prog>, or how parsing ended
  variables,        \* SymbolRegister.variables
  variables_table_counter,
  functions,        \* SymbolRegister.functions
  actual_function,  \* ParserSemantic.actual_function
  was_actual_function_declared,
  globals,          \* the identities of variables with VARIABLE_FRAME_GLOBAL
  constructor,      \* Parser.code_constructor
  blocks,           \* the open rules, each with the declarations of its block
  kind,             \* the kind of program this one is
  left              \* what remains of its allowance

parser == <<part, variables, variables_table_counter, functions, actual_function,
            was_actual_function_declared, globals, constructor, blocks, kind, left>>

Block(rule) == [rule |-> rule, table |-> EmptyTable(0, NoName)]

NoFunction == [status |-> "none", params |-> << >>]

(* parser_init, and the declarations of the temporaries with which         *)
(* parser_parse_program begins: they have no default value.                *)
ParserInit ==
  /\ part = "definitions"
  /\ variables = <<EmptyTable(0, NoName)>>
  /\ variables_table_counter = 0
  /\ functions = [n \in Names |-> NoFunction]
  /\ actual_function = NoName
  /\ was_actual_function_declared = FALSE
  /\ globals = {}
  /\ constructor = Emit(NewConstructor, <<DefVar(Temporary)>>)
  /\ blocks = <<Block("program")>>
  /\ kind \in DOMAIN Programs
  /\ left = Programs[kind].allowance

Spend(construct) ==
  /\ left[construct] > 0
  /\ left' = [left EXCEPT ![construct] = @ - 1]

Rule == Last(blocks).rule

AtTopLevel == Len(blocks) = 1
InStatements == part \in {"definitions", "scope"} /\ ~AtTopLevel

(* A rule returns false: parser_parse reports the error and that is all.   *)
RefuseProgram ==
  /\ part' = "refused"
  /\ UNCHANGED <<variables, variables_table_counter, functions, actual_function,
                 was_actual_function_declared, globals, constructor, blocks>>

Evaluate(e) == Expression(e, variables, globals, functions)

-----------------------------------------------------------------------------
(* Declarations of variables. *)

(* parser_semantic_add_variable *)
Declarable(name) ==
  functions[name].status = "none" /\ ~Holds(Top(variables), name)

\* The variable gets its place in the innermost table and in the block that
\* declares it, its frame, and its code; its initialiser (none is << >>) can
\* already see it.
Declare(name, frames, declared, value) ==
  /\ ~value.refused
  /\ variables' = AddVariable(variables, name, 0, 0)
  /\ blocks' = [blocks EXCEPT ![Len(blocks)].table.vars[name] =
                  Find(variables', name)]
  /\ globals' = frames
  /\ constructor' = declared
  /\ UNCHANGED <<part, variables_table_counter, functions, actual_function,
                 was_actual_function_declared>>

New(name) == NewVariable(Top(variables), name, 0, 0)

\* parser_parse_declaration_assignment
Initialised(c, operand, value) ==
  IF value.code = << >> THEN c ELSE Assignment(Emit(c, value.code), operand)

WithNew(name, frames, e) ==
  Expression(e, AddVariable(variables, name, 0, 0), frames, functions)

Global(name) == globals \cup {Identity(New(name))}

(* parser_parse_variable_declaration: DIM in a function is local. *)
Dim(name, e) ==
  LET frames == IF actual_function = NoName THEN Global(name) ELSE globals
      operand == VariableOperand(New(name), frames)
      value == WithNew(name, frames, e)
  IN  /\ InStatements /\ Spend("dim")
      /\ \/ /\ Declarable(name)
            /\ Declare(name, frames,
                       Initialised(VariableDeclaration(constructor, operand),
                                   operand, value), value)
         \/ /\ ~Declarable(name) \/ value.refused
            /\ RefuseProgram

(* parser_parse_shared_variable_declaration: before the main scope and     *)
(* after it.                                                               *)
DimShared(name, e) ==
  LET operand == VariableOperand(New(name), Global(name))
      value == WithNew(name, Global(name), e)
  IN  /\ part \in {"definitions", "shared"} /\ AtTopLevel /\ Spend("shared")
      /\ \/ /\ Declarable(name)
            /\ Declare(name, Global(name),
                       Initialised(SharedVariableDeclaration(constructor, operand),
                                   operand, value), value)
         \/ /\ ~Declarable(name) \/ value.refused
            /\ RefuseProgram

(* parser_parse_static_variable_declaration: the initialiser is constant.  *)
Static(name, e) ==
  LET operand == VariableOperand(New(name), Global(name))
      flag == FlagOf(New(name), actual_function)
      value == WithNew(name, Global(name), e)
      constant == ~value.refused /\ IsConstant(value)
      declared == StaticVariableDeclaration(constructor, operand, flag)
  IN  /\ InStatements /\ Spend("static")
      /\ \/ /\ Declarable(name) /\ constant
            /\ Declare(name, Global(name),
                       StaticVariableDeclarationEnd(
                         Initialised(declared, operand, value), flag), value)
         \/ /\ ~Declarable(name) \/ ~constant
            /\ RefuseProgram

-----------------------------------------------------------------------------
(* Functions. *)

Distinct(params) == \A i, j \in DOMAIN params : params[i] = params[j] => i = j

NoFunctionNames(f, params) ==
  \A i \in DOMAIN params : params[i] # f /\ functions[params[i]].status = "none"

(* parser_parse_function_declaration.  The names of functions are only     *)
(* looked up when the function defined before had not been declared.       *)
DeclareFunction(f, params) ==
  /\ part = "definitions" /\ AtTopLevel /\ Spend("declare")
  /\ LET accepted ==
           /\ functions[f].status = "none"
           /\ Distinct(params)
           /\ was_actual_function_declared \/ NoFunctionNames(f, params)
     IN  \/ /\ accepted
            /\ functions' =
                 [functions EXCEPT ![f] = [status |-> "declared", params |-> params]]
            /\ actual_function' = f
            /\ UNCHANGED <<part, variables, variables_table_counter, globals,
                           was_actual_function_declared, constructor, blocks>>
         \/ ~accepted /\ RefuseProgram

\* parser_semantic_set_function_name and parser_semantic_add_function_parameter
\* of a definition: one that was declared may rename its parameters.
AcceptedDefinition(f, params) ==
  \/ /\ functions[f].status = "declared"
     /\ Len(params) = Len(functions[f].params)
  \/ /\ functions[f].status = "none"
     /\ Distinct(params) /\ NoFunctionNames(f, params)

(* parser_parse_function_definition, up to its statements: the header, its *)
(* label and parser_semantic_function_start.                               *)
StartFunction(f, params) ==
  /\ part = "definitions" /\ AtTopLevel /\ Spend("function")
  /\ \/ /\ AcceptedDefinition(f, params)
        /\ functions' =
             [functions EXCEPT ![f] = [status |-> "defined", params |-> params]]
        /\ was_actual_function_declared' = (functions[f].status = "declared")
        /\ actual_function' = f
        /\ constructor' = FunctionHeader(constructor, f)
        /\ variables_table_counter' = variables_table_counter + 1
        /\ LET table == FunctionTable(variables_table_counter + 1, f, params, 0)
           IN  /\ variables' = Append(variables, table)
               /\ blocks' = Append(blocks, [rule |-> "function", table |-> table])
        /\ UNCHANGED <<part, globals>>
     \/ ~AcceptedDefinition(f, params) /\ RefuseProgram

\* Wrong on purpose (a mutant of LeaveFunction).
StayInFunction == UNCHANGED actual_function

LeaveFunction == actual_function' = NoName

(* parser_parse_function_definition, END FUNCTION *)
EndFunction ==
  /\ Rule = "function"
  /\ variables' = PopTable(variables)
  /\ constructor' = FunctionEnd(constructor)
  /\ LeaveFunction
  /\ blocks' = Front(blocks)
  /\ UNCHANGED <<part, variables_table_counter, functions,
                 was_actual_function_declared, globals, left>>

(* parser_parse_return_: only among the statements of a function. *)
ReturnValue(e) ==
  /\ InStatements /\ part = "definitions" /\ Spend("return")
  /\ \/ /\ ~Evaluate(e).refused
        /\ constructor' = Return(Emit(constructor, Evaluate(e).code))
        /\ UNCHANGED <<part, variables, variables_table_counter, functions,
                       actual_function, was_actual_function_declared, globals,
                       blocks>>
     \/ Evaluate(e).refused /\ RefuseProgram

-----------------------------------------------------------------------------
(* Blocks. *)

\* What every construct with a block leaves alone.
BlockFrame == UNCHANGED <<functions, actual_function, was_actual_function_declared,
                          globals>>

OpenTable ==
  /\ variables' = PushTable(variables, variables_table_counter + 1, NoName)
  /\ variables_table_counter' = variables_table_counter + 1

\* parser_semantic_check_function_definitions
AllDefined == \A f \in Names : functions[f].status # "declared"

(* parser_parse_scope, after the definitions (parser_parse_body).  *)
MainScope ==
  /\ part = "definitions" /\ AtTopLevel
  /\ \/ /\ AllDefined
        /\ part' = "scope"
        /\ OpenTable
        /\ constructor' = ScopeStart(constructor)
        /\ blocks' = Append(blocks, Block("scope"))
        /\ BlockFrame
     \/ ~AllDefined /\ RefuseProgram
  /\ UNCHANGED left

(* parser_parse_scope among statements *)
Scope ==
  /\ InStatements /\ Spend("scope")
  /\ OpenTable
  /\ constructor' = ScopeStart(constructor)
  /\ blocks' = Append(blocks, Block("scope"))
  /\ UNCHANGED part
  /\ BlockFrame

EndScope ==
  /\ Rule = "scope"
  /\ part' = IF part = "scope" /\ Len(blocks) = 2 THEN "shared" ELSE part
  /\ variables' = PopTable(variables)
  /\ constructor' = ScopeEnd(constructor)
  /\ blocks' = Front(blocks)
  /\ UNCHANGED <<variables_table_counter, left>>
  /\ BlockFrame

(* parser_parse_while_: its table is there before its condition. *)
While(e) ==
  LET tables == PushTable(variables, variables_table_counter + 1, NoName)
      value == Expression(e, tables, globals, functions)
  IN  /\ InStatements /\ Spend("while")
      /\ \/ /\ ~value.refused
            /\ OpenTable
            /\ constructor' = WhileAfterCondition(
                                Emit(WhileBeforeCondition(constructor), value.code))
            /\ blocks' = Append(blocks, Block("while"))
            /\ UNCHANGED part
            /\ BlockFrame
         \/ value.refused /\ RefuseProgram

Loop ==
  /\ Rule = "while"
  /\ variables' = PopTable(variables)
  /\ constructor' = WhileEnd(constructor)
  /\ blocks' = Front(blocks)
  /\ UNCHANGED <<part, variables_table_counter, left>>
  /\ BlockFrame

(* parser_parse_condition, up to the statements of THEN *)
If(e) ==
  /\ InStatements /\ Spend("if")
  /\ \/ /\ ~Evaluate(e).refused
        /\ OpenTable
        /\ constructor' = IfAfterExpression(Emit(constructor, Evaluate(e).code))
        /\ blocks' = Append(blocks, Block("then"))
        /\ UNCHANGED part
        /\ BlockFrame
     \/ Evaluate(e).refused /\ RefuseProgram

\* What the end of a branch leaves: after THEN the jump to the end of the
\* condition; after the statements of an ELSEIF, which had no table of their
\* own, an empty table for the ELSEIF, ELSE or END IF that comes next to pop.
AfterBranch == IF Rule = "then" THEN IfEndIfBlock(constructor) ELSE constructor

TablesAfterBranch ==
  IF Rule = "elseif"
  THEN PushTable(variables, variables_table_counter + 1, NoName)
  ELSE variables

CounterAfterBranch ==
  variables_table_counter + (IF Rule = "elseif" THEN 1 ELSE 0)

(* parser_parse_condition_elseif: the table of the branch before is popped *)
(* and the statements get none.                                            *)
ElseIf(e) ==
  LET tables == PopTable(TablesAfterBranch)
      value == Expression(e, tables, globals, functions)
  IN  /\ Rule \in {"then", "elseif"} /\ Spend("elseif")
      /\ \/ /\ ~value.refused
            /\ variables' = tables
            /\ variables_table_counter' = CounterAfterBranch
            /\ constructor' = ElseIfAfterExpression(
                                Emit(ElseIfBeforeExpression(AfterBranch), value.code))
            /\ blocks' = Append(Front(blocks), Block("elseif"))
            /\ UNCHANGED part
            /\ BlockFrame
         \/ value.refused /\ RefuseProgram

(* parser_parse_condition_else: a table on top of that of the branch       *)
(* before, which END IF pops.                                              *)
Else ==
  /\ Rule \in {"then", "elseif"} /\ Spend("else")
  /\ variables' = PushTable(TablesAfterBranch, CounterAfterBranch + 1, NoName)
  /\ variables_table_counter' = CounterAfterBranch + 1
  /\ constructor' = IfElseBlock(AfterBranch)
  /\ blocks' = Append(Front(blocks), Block("else"))
  /\ UNCHANGED part
  /\ BlockFrame

(* parser_parse_condition, END IF *)
EndIf ==
  /\ Rule \in {"then", "elseif", "else"}
  /\ variables' = IF Rule = "else" THEN PopTable(PopTable(variables))
                                   ELSE PopTable(TablesAfterBranch)
  /\ variables_table_counter' = CounterAfterBranch
  /\ constructor' = IfAfterEndIf(AfterBranch)
  /\ blocks' = Front(blocks)
  /\ UNCHANGED <<part, left>>
  /\ BlockFrame

-----------------------------------------------------------------------------
(* Simple statements, and the end of the program. *)

OnlyCode == UNCHANGED <<part, variables, variables_table_counter, functions,
                        actual_function, was_actual_function_declared, globals,
                        blocks>>

(* parser_parse_identifier_assignment: an unknown name is refused, though  *)
(* only after the expression.                                              *)
Assign(name, e) ==
  LET known == Find(variables, name) # NoVariable /\ ~Evaluate(e).refused
  IN  /\ InStatements /\ Spend("assign")
      /\ \/ /\ known
            /\ constructor' =
                 Assignment(Emit(constructor, Evaluate(e).code),
                            VariableOperand(Find(variables, name), globals))
            /\ OnlyCode
         \/ ~known /\ RefuseProgram

(* parser_parse_input *)
InputTo(name) ==
  LET known == Find(variables, name) # NoVariable
  IN  /\ InStatements /\ Spend("input")
      /\ \/ /\ known
            /\ constructor' =
                 Input(constructor, VariableOperand(Find(variables, name), globals))
            /\ OnlyCode
         \/ ~known /\ RefuseProgram

(* parser_parse_print_expression *)
PrintValue(e) ==
  /\ InStatements /\ Spend("print")
  /\ \/ /\ ~Evaluate(e).refused
        /\ constructor' = PrintExpression(Emit(constructor, Evaluate(e).code))
        /\ OnlyCode
     \/ Evaluate(e).refused /\ RefuseProgram

(* parser_parse_program, after the end of the file *)
EndProgram ==
  /\ part = "shared"
  /\ part' = "parsed"
  /\ constructor' = EndCode(constructor)
  /\ UNCHANGED <<variables, variables_table_counter, functions, actual_function,
                 was_actual_function_declared, globals, blocks, left>>

ParserNext ==
  LET names == Programs[kind].names
      expressions == Programs[kind].expressions
  IN  /\ part \notin {"parsed", "refused"}
      /\ \/ \E name \in names :
              \/ \E e \in expressions["dim"] : Dim(name, e)
              \/ \E e \in expressions["shared"] : DimShared(name, e)
              \/ \E e \in expressions["static"] : Static(name, e)
              \/ \E e \in expressions["assign"] : Assign(name, e)
              \/ InputTo(name)
         \/ \E f \in names, params \in Programs[kind].parameters :
              DeclareFunction(f, params) \/ StartFunction(f, params)
         \/ \E e \in expressions["return"] : ReturnValue(e)
         \/ \E e \in expressions["while"] : While(e)
         \/ \E e \in expressions["if"] : If(e)
         \/ \E e \in expressions["elseif"] : ElseIf(e)
         \/ \E e \in expressions["print"] : PrintValue(e)
         \/ EndFunction \/ MainScope \/ Scope \/ EndScope \/ Loop
         \/ Else \/ EndIf \/ EndProgram
      /\ UNCHANGED kind

=============================================================================
