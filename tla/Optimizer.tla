------------------------------ MODULE Optimizer ------------------------------
(***************************************************************************)
(* The optimizer of a compiled program: the passes of code_optimizer.c and *)
(* code_optimizer_expr.c in the order main (ifj2017.c) runs them, one      *)
(* action for each run of a pass.                                          *)
(***************************************************************************)
EXTENDS UnusedCode, PeepHole, ConstantEvaluation, ConstantPropagation, ValueMachine

CONSTANTS Parsed,      \* the code of the programs, as the parser leaves it
          Meant,       \* the same programs with nothing folded by the parser
          Inputs,      \* what the programs may be given to read
          MaxRounds     \* how far a run of a program is followed

VARIABLES program,      \* which program it is
          at,           \* the position in the schedule of main
          code,         \* generator->first and what follows
          meta,         \* the tables of counts and of functions
          graph,        \* code_graph
          interpreter,  \* its stack and its buffer
          evaluated,    \* expr_interpreted
          advanced,     \* whether the advanced patterns are in the list
          knowledge     \* what holds of the others, observed after every pass

vars == <<program, at, code, meta, graph, interpreter, evaluated, advanced, knowledge>>

-----------------------------------------------------------------------------
(* No count is below what the code has: what is dropped because nobody     *)
(* uses it is not used.                                                    *)
CountsCover(instructions, data) ==
  LET Covers(real) == real.uses \sqsubseteq data.uses /\ real.jumps \sqsubseteq data.jumps
  IN  Covers(CountedAnew(instructions))

(* The mark nearest before the end of an expression is that of its start.  *)
MarksPaired(instructions) ==
  \A i \in DOMAIN instructions : instructions[i].mark = ExpressionEnd =>
     LET before == SubSeq(instructions, 1, i - 1)
         nearest == SelectLastInSeq(before, LAMBDA x :
                      x.mark \cap {"expression_start", "expression_end"} # {})
     IN  nearest # 0 /\ before[nearest].mark = ExpressionStart

\* What the passes rely on.
KnowledgeOf(instructions, data, blocks) ==
  [graph_fresh |-> blocks \in GraphsOf(instructions),
   counts_cover |-> CountsCover(instructions, data),
   marks_paired |-> MarksPaired(instructions)]

\* No pass looks at this variable; TLC computes it once for every state.
KnowledgeObserved ==
  \E new \in {<<code', meta', graph'>>} :
    knowledge' = KnowledgeOf(new[1], new[2], new[3])

\* The order of the passes, and what they may do to what the optimizer knows.
Passes == INSTANCE PassSchedule WITH
  graph_fresh <- knowledge.graph_fresh,
  counts_cover <- knowledge.counts_cover,
  marks_paired <- knowledge.marks_paired

At(pass) == Passes!At(pass)
Proceed == at' = at + 1

Init ==
  /\ program \in DOMAIN Parsed
  /\ at = 1
  /\ code = Parsed[program]
  /\ meta = NoMetaData
  /\ graph = NoGraph
  /\ interpreter = NewInterpreter
  /\ evaluated = FALSE
  /\ advanced = FALSE
  /\ knowledge = KnowledgeOf(code, meta, graph)

-----------------------------------------------------------------------------
OptimizeTypeCasts ==
  /\ At("casts") /\ CastsFit(code)
  /\ code' = CastsOptimized(code)
  /\ Proceed
  /\ UNCHANGED <<program, meta, graph, interpreter, evaluated, advanced>>
  /\ KnowledgeObserved

UpdateMetaData ==
  /\ At("update")
  /\ \E result \in {Updated(code)} : code' = result.code /\ meta' = result.meta
  /\ Proceed
  /\ UNCHANGED <<program, graph, interpreter, evaluated, advanced>>
  /\ KnowledgeObserved

PeepHoleOptimization ==
  /\ At("peephole")
  /\ \E result \in {PeepHoleOptimized(IF advanced THEN AllBy ELSE BasicBy, code, meta)} :
       /\ code' = result.code
       /\ meta' = result.meta
       /\ at' = IF result.removed THEN at ELSE at + 1
  /\ UNCHANGED <<program, graph, interpreter, evaluated, advanced>>
  /\ KnowledgeObserved

\* Wrong on purpose (a mutant of SplitCodeToGraph): the flag is never reset.
SplitWithoutReset ==
  /\ At("split")
  /\ graph' \in GraphsOf(code)
  /\ Proceed
  /\ UNCHANGED <<program, code, meta, interpreter, evaluated, advanced>>
  /\ KnowledgeObserved

\* The flag of the loop over the constants is reset where the loop begins.
SplitCodeToGraph ==
  /\ At("split")
  /\ graph' \in GraphsOf(code)
  /\ evaluated' = IF at = Passes!LoopStart THEN FALSE ELSE evaluated
  /\ Proceed
  /\ UNCHANGED <<program, code, meta, interpreter, advanced>>
  /\ KnowledgeObserved

PropagateConstants ==
  /\ At("propagate")
  /\ \E cycles \in {StronglyConnected(graph)} :
     \E result \in {ConstantsPropagated(code, graph, cycles, meta.functions)} :
       /\ code' = result.code
       /\ evaluated' = (evaluated \/ result.changed)
  /\ Proceed
  /\ UNCHANGED <<program, meta, graph, interpreter, advanced>>
  /\ KnowledgeObserved

EvaluateLiterals ==
  /\ At("literals")
  /\ \E result \in {LiteralsEvaluated(code, meta, interpreter)} :
       /\ code' = result.code
       /\ meta' = result.meta
       /\ interpreter' = result.interpreter
       /\ evaluated' = (evaluated \/ result.changed)
  /\ at' = IF evaluated' THEN Passes!LoopStart ELSE at + 1
  /\ UNCHANGED <<program, graph, advanced>>
  /\ KnowledgeObserved

RemoveWithoutEffect ==
  /\ At("without_effect")
  /\ \E result \in {WithoutEffectRemoved(code, meta)} :
       code' = result.code /\ meta' = result.meta
  /\ Proceed
  /\ UNCHANGED <<program, graph, interpreter, evaluated, advanced>>
  /\ KnowledgeObserved

RemoveUnusedVariables ==
  /\ At("unused_variables")
  /\ \E result \in {UnusedVariablesRemoved(code, meta, TRUE, FALSE)} :
       /\ code' = result.before
       /\ meta' = result.meta
       /\ at' = IF result.removed THEN at ELSE at + 1
  /\ UNCHANGED <<program, graph, interpreter, evaluated, advanced>>
  /\ KnowledgeObserved

RemoveUnusedFunctions ==
  /\ At("unused_functions")
  /\ \E updated \in {Updated(code)} :
     \E result \in {UnusedFunctionsRemoved(updated.code, updated.meta.functions)} :
       /\ code' = result.code
       /\ meta' = updated.meta
       /\ at' = IF result.removed THEN Passes!RemovalStart ELSE at + 1
  /\ UNCHANGED <<program, graph, interpreter, evaluated, advanced>>
  /\ KnowledgeObserved

AddAdvancedPatterns ==
  /\ At("patterns")
  /\ advanced' = TRUE
  /\ Proceed
  /\ UNCHANGED <<program, code, meta, graph, interpreter, evaluated>>
  /\ KnowledgeObserved

RemoveUnusedRest ==
  /\ At("unused_rest")
  /\ \E result \in {UnusedVariablesRemoved(code, meta, FALSE, TRUE)} :
       code' = result.before /\ meta' = result.meta
  /\ Proceed
  /\ UNCHANGED <<program, graph, interpreter, evaluated, advanced>>
  /\ KnowledgeObserved

PartialEvaluation ==
  /\ At("partial")
  /\ \E result \in {PartiallyEvaluated(code, interpreter)} :
       code' = result.code /\ interpreter' = result.interpreter
  /\ Proceed
  /\ UNCHANGED <<program, meta, graph, evaluated, advanced>>
  /\ KnowledgeObserved

\* The passes that touch nothing but the code.
CodePass(pass, result) ==
  /\ At(pass)
  /\ code' = result
  /\ Proceed
  /\ UNCHANGED <<program, meta, graph, interpreter, evaluated, advanced>>
  /\ KnowledgeObserved

OptimizeJumps == CodePass("jumps", JumpsOptimized(code))
OptimizeComparisons == CodePass("comparisons", ComparisonsOptimized(code))
MultiWrite == CodePass("writes", WritesMerged(code))

Next ==
  \/ OptimizeTypeCasts \/ UpdateMetaData \/ PeepHoleOptimization \/ SplitCodeToGraph
  \/ PropagateConstants \/ EvaluateLiterals \/ RemoveWithoutEffect
  \/ RemoveUnusedVariables \/ RemoveUnusedFunctions \/ AddAdvancedPatterns
  \/ RemoveUnusedRest \/ PartialEvaluation
  \/ OptimizeJumps \/ OptimizeComparisons \/ MultiWrite

(* main runs one pass after another: the only process there is never stops *)
(* between two of them.                                                    *)
Fairness == WF_vars(Next)
Spec == Init /\ [][Next]_vars /\ Fairness

-----------------------------------------------------------------------------
(* The state is always one the passes can work on: a position of the       *)
(* schedule, instructions with the operands of their signatures and marks  *)
(* of the known kinds, and counts.                                         *)
WellFormed(instruction) ==
  LET signature == Signature(instruction.op)
      Fits(operand, kind) == \/ operand.kind = kind
                             \/ kind = "symbol" /\ operand.kind \in {"variable", "constant"}
  IN  /\ DOMAIN instruction = DOMAIN Instruction(instruction.op, instruction.operands)
      /\ Len(instruction.operands) = Len(signature)
      /\ \A j \in DOMAIN signature : Fits(instruction.operands[j], signature[j])
      /\ instruction.mark \subseteq {"expression_start", "expression_end",
                                     "function_start", "function_end"}
      /\ instruction.purity \subseteq {"dynamic_dependent", "outputted", "with_side_effect"}

TypeOK ==
  /\ program \in DOMAIN Parsed
  /\ at \in DOMAIN Passes!Schedule
  /\ code \in Seq(ToSet(code)) /\ \A i \in DOMAIN code : WellFormed(code[i])
  /\ \A counts \in {meta.uses, meta.jumps} : \A x \in DOMAIN counts : counts[x] > 0
  /\ evaluated \in BOOLEAN /\ advanced \in BOOLEAN

(* Whatever pass comes next finds what it relies on: a graph of the code   *)
(* as it is, counts that are not too low, marks that delimit expressions.  *)
PassesFindWhatTheyNeed == Passes!PassesFindWhatTheyNeed

(* The passes change the graph, the counts and the marks only as the       *)
(* schedule of main allows: this optimizer implements PassSchedule.        *)
RefinesSchedule == Passes!Spec

-----------------------------------------------------------------------------
\* Where control may go from an instruction, calls being followed by their return.
Successors(place) ==
  LET instruction == code[place]
      After == {place + 1} \cap DOMAIN code
      There == {PlaceOfLabel(code, Labelled(instruction))} \ {0}
  IN  CASE instruction.op = "RETURN"             -> {}
        [] instruction.op = "JUMP"               -> There
        [] instruction.op \in ConditionalJumps   -> After \cup There
        [] OTHER                                 -> After

BlockOf(place) == CHOOSE b \in Nodes(graph) : place \in PlacesOf(graph, b)

(* When constants are propagated, control never leaves a block but from    *)
(* its last instruction to the first of a block there is an edge to, so    *)
(* what is known at the end of a block is passed on to wherever it goes.   *)
BlocksFollowControl ==
  At("propagate") =>
    \A place \in DOMAIN code : \A next \in Successors(place) :
      \/ next = place + 1 /\ BlockOf(next) = BlockOf(place)
      \/ /\ place = graph.last[BlockOf(place)]
         /\ next = graph.first[BlockOf(next)]
         /\ Contains(graph.out[BlockOf(place)], BlockOf(next))

(* The components Tarjan's algorithm finds are the cycles of the graph:    *)
(* the largest sets of several blocks each of which reaches the others, so *)
(* every variable a cycle changes is known to be changed by it.            *)
CyclesAreMutual ==
  At("propagate") => StronglyConnected(graph) = Cycles(graph)

-----------------------------------------------------------------------------
(* The same is shown of a run; of one that has not ended yet, as much as   *)
(* both have printed.                                                      *)
SameBehaviour(shown, before) ==
  \/ shown = before
  \/ /\ before.end = "running"
     /\ IsPrefix(shown.output, before.output) \/ IsPrefix(before.output, shown.output)

\* What the programs do when everything is computed as they run.
Expected == [p \in DOMAIN Meant |->
               [input \in Inputs |-> Behaviour(Meant[p], input, MaxRounds)]]

(* Neither folding nor a pass changes what a program prints, whatever it   *)
(* is given to read: "... so that no functionally inequivalent changes of  *)
(* the program happen" (doc/src/_project_structure.tex).                   *)
MeaningKept ==
  \A input \in Inputs :
    SameBehaviour(Behaviour(code, input, MaxRounds), Expected[program][input])

(* The program that is written out prints what the source program means.   *)
ResultMeansTheSame == At("done") => MeaningKept

LabelsPlacedOnce(instructions) ==
  LET labels == {i \in DOMAIN instructions : instructions[i].op = "LABEL"}
  IN  \A i, j \in labels : Labelled(instructions[i]) = Labelled(instructions[j]) => i = j

(* Every label jumped to is in the code, once, and every global variable   *)
(* used is declared there, after every pass.                               *)
NamesResolve ==
  /\ HasItsLabels(code)
  /\ LabelsPlacedOnce(code)
  /\ LET declared == {Target(i) : i \in {x \in ToSet(code) : x.op = "DEFVAR"}}
         Globals(i) == SelectSeq(i.operands, LAMBDA x : x.kind = "variable" /\ x.frame = "GF")
     IN  \A i \in ToSet(code) : ToSet(Globals(i)) \subseteq declared

(* The optimizer comes to its end: the loops over the peephole, over the   *)
(* constants and over what is unused all stop.                             *)
Terminates == <>At("done")

=============================================================================
