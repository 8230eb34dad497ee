-------------------------- MODULE CompiledProgram --------------------------
(***************************************************************************)
(* The compiler and what it compiles: a source program is read, construct  *)
(* by construct, and once it is accepted the code it became is run.  What  *)
(* the compiler owes is that a program it accepts never stops on an error  *)
(* the source program did not make.                                        *)
(***************************************************************************)
EXTENDS ParserStatements, TargetMachine

VARIABLE machine

vars == <<parser, machine>>

Init == ParserInit /\ machine = StartMachine

Parse == ParserNext /\ UNCHANGED machine

\* The code the optimizer is handed; here it is run as it is.
Code == constructor.main

Run ==
  /\ part = "parsed"
  /\ machine.fault = "none" /\ ~Finished(machine, Code)
  /\ machine' \in Executions(machine, Code)
  /\ UNCHANGED parser

Next == Parse \/ Run

Spec == Init /\ [][Next]_vars

-----------------------------------------------------------------------------
Statuses == {"none", "declared", "defined"}
Faults == {"none", "undeclared", "redeclared", "unset", "no frame", "stack",
           "label", "return"}

TypeOK ==
  /\ part \in {"definitions", "scope", "shared", "parsed", "refused"}
  /\ variables \in Seq(Table) /\ Len(variables) > 0
  /\ variables_table_counter \in Nat
  /\ \A f \in Names : functions[f].status \in Statuses
  /\ actual_function \in Names \cup {NoName}
  /\ was_actual_function_declared \in BOOLEAN
  /\ globals \subseteq Identities
  /\ constructor.control_statement_depth \in Nat
  /\ constructor.loops_depth \in Nat
  /\ Len(blocks) > 0
  /\ machine.pc \in 1..Len(Code) + 1
  /\ machine.height \in Nat
  /\ machine.fault \in Faults

\* A frame that is not there, or a variable that is not in it: every access of
\* the emitted code comes after the DEFVAR of what it names, on every path.
NoUndeclaredAccess == machine.fault \notin {"undeclared", "no frame"}

\* No path executes two DEFVARs of one variable of a frame: the declarations in
\* a loop are not part of the loop, a static variable is declared once however
\* often its function runs, two parameters of a call are two variables.
NoRedeclaration == machine.fault # "redeclared"

\* No path reads a variable between its DEFVAR, which may have moved before a
\* loop, and the default value, which stayed where the source declares it.
NoUninitialisedRead == machine.fault # "unset"

\* Every instruction finds its operands on the stack, a function takes none of
\* its caller's and leaves exactly one, and a program that runs to its end
\* leaves nothing there, no call under way and no local frame.
StackDiscipline ==
  /\ machine.fault \notin {"stack", "return"}
  /\ part = "parsed" /\ machine.fault = "none" /\ Finished(machine, Code) =>
       machine.height = 0 /\ machine.calls = << >> /\ machine.lf = << >>

\* Labels placed and labels jumped to: no label is placed twice, and every jump
\* and call has its label in the code of the program it is part of.
PlacesOf(label) == {i \in DOMAIN Code : Code[i] = AtLabel(label)}

\* What concerns the code alone is looked at once, before it runs.
Compiled == part = "parsed" /\ machine = StartMachine

JumpsResolve ==
  Compiled =>
    \A i \in DOMAIN Code :
      Code[i].label # NoLabel => Cardinality(PlacesOf(Code[i].label)) = 1

\* The assertions with which parser_parse ends: every label pushed for a
\* construct was popped, and every depth is back at zero.
ParseAssertions ==
  Compiled =>
    /\ constructor.code_labels = << >>
    /\ constructor.loops_initial = NoLabel
    /\ constructor.conditions = << >>
    /\ constructor.loops = << >>
    /\ constructor.control_statement_depth = 0
    /\ constructor.loops_depth = 0
    /\ constructor.scope_depth = 0

\* Where declarations of a loop go is in the list being written and not its
\* first instruction: only then is an instruction inserted before it put where
\* the list goes on (what InstructionLists asks of its callers).
DeclarationsHaveAPlace ==
  part \notin {"parsed", "refused"} /\ constructor.loops_initial # NoLabel =>
    LET list == IF constructor.to_buffer THEN constructor.buffer
                                         ELSE constructor.main
    IN  \E at \in 2..Len(list) : list[at] = AtLabel(constructor.loops_initial)

\* A name means what the innermost block of the source program that declares it
\* says: the tables the parser looks into are those of the blocks still open.
EveryNameMeansItsBlock ==
  part \notin {"parsed", "refused"} =>
    \A n \in Names :
      Find(variables, n) = Find([i \in DOMAIN blocks |-> blocks[i].table], n)

\* A variable is global or local by where it was declared: outside functions
\* there is no local frame, so nothing there is local.
MainHasNoLocals == part \in {"scope", "shared"} => actual_function = NoName

=============================================================================
