---------------------------- MODULE PassSchedule ----------------------------
(***************************************************************************)
(* The order of the optimizer's passes (main of ifj2017.c), without the    *)
(* code they change: which passes may take which knowledge away, and       *)
(* whether every pass finds the knowledge it relies on.                    *)
(*                                                                         *)
(* The knowledge: the graph is that of the code as it is, no count of uses *)
(* is below what the code has, and the marks of expressions are in pairs.  *)
(***************************************************************************)
EXTENDS Integers, Sequences

VARIABLES at,            \* the position in Schedule
          evaluated,     \* expr_interpreted
          advanced,      \* whether the advanced patterns have been added
          graph_fresh, counts_cover, marks_paired

control == <<at, evaluated, advanced>>
knowledge == <<graph_fresh, counts_cover, marks_paired>>
vars == <<control, knowledge>>

(* The calls of main, in order.  A peephole stands for a loop around it.   *)
Schedule == <<
  "casts", "update", "peephole",
  "split", "update", "propagate", "update", "literals",
  "without_effect", "unused_variables", "unused_functions",
  "patterns", "peephole", "unused_rest", "partial", "peephole",
  "update", "split", "update", "propagate", "jumps", "peephole", "comparisons",
  "update", "split", "update", "propagate", "jumps", "peephole",
  "update", "unused_rest", "writes", "done">>

At(pass) == Schedule[at] = pass
LoopStart == 4          \* the do ... while over the constants
RemovalStart == 10      \* the while over unused variables and functions

Next1 == at' = at + 1
Stay == at' = at

\* What a pass that puts in or takes out instructions may do to the graph.
GraphMayAge == graph_fresh' \in BOOLEAN /\ (graph_fresh' => graph_fresh)
MarksMayBreak == marks_paired' \in BOOLEAN
Keeps == UNCHANGED <<counts_cover, marks_paired>>

-----------------------------------------------------------------------------
Init == /\ at = 1 /\ evaluated = FALSE /\ advanced = FALSE
        /\ graph_fresh \in BOOLEAN /\ counts_cover \in BOOLEAN
        /\ marks_paired = TRUE

OptimizeTypeCasts ==
  /\ At("casts") /\ Next1
  /\ graph_fresh' \in BOOLEAN /\ counts_cover' \in BOOLEAN
  /\ UNCHANGED <<evaluated, advanced, marks_paired>>

UpdateMetaData ==
  /\ At("update") /\ Next1
  /\ counts_cover' = TRUE
  /\ UNCHANGED <<evaluated, advanced, graph_fresh, marks_paired>>

\* The flag of the loop is reset where the loop begins.
SplitCode ==
  /\ At("split") /\ Next1
  /\ graph_fresh' = TRUE
  /\ evaluated' = IF at = LoopStart THEN FALSE ELSE evaluated
  /\ UNCHANGED <<advanced, counts_cover, marks_paired>>

PropagateConstants ==
  /\ At("propagate") /\ Next1
  /\ \E changed \in BOOLEAN : evaluated' = (evaluated \/ changed)
  /\ UNCHANGED <<advanced, knowledge>>

EvaluateLiterals ==
  /\ At("literals")
  /\ \E changed \in BOOLEAN :
       /\ evaluated' = (evaluated \/ changed)
       /\ at' = IF evaluated' THEN LoopStart ELSE at + 1
  /\ GraphMayAge /\ Keeps /\ UNCHANGED advanced

RemoveWithoutEffect ==
  /\ At("without_effect") /\ Next1
  /\ GraphMayAge /\ Keeps /\ UNCHANGED <<evaluated, advanced>>

RemoveUnusedVariables ==
  /\ At("unused_variables") /\ (Stay \/ Next1)
  /\ GraphMayAge /\ Keeps /\ UNCHANGED <<evaluated, advanced>>

RemoveUnusedFunctions ==
  /\ At("unused_functions") /\ (at' = RemovalStart \/ Next1)
  /\ GraphMayAge /\ Keeps /\ UNCHANGED <<evaluated, advanced>>

AddAdvancedPatterns ==
  /\ At("patterns") /\ Next1
  /\ advanced' = TRUE
  /\ UNCHANGED <<evaluated, knowledge>>

(* The advanced patterns drop the marks of the instructions they replace.  *)
PeepHole ==
  /\ At("peephole") /\ (Stay \/ Next1)
  /\ GraphMayAge
  /\ IF advanced THEN MarksMayBreak ELSE UNCHANGED marks_paired
  /\ UNCHANGED <<evaluated, advanced, counts_cover>>

\* The passes after the last one that looks at marks.
LatePass ==
  /\ \/ At("unused_rest") \/ At("partial") \/ At("jumps")
     \/ At("comparisons") \/ At("writes")
  /\ Next1
  /\ GraphMayAge /\ MarksMayBreak
  /\ UNCHANGED <<evaluated, advanced, counts_cover>>

Next ==
  \/ OptimizeTypeCasts \/ UpdateMetaData \/ SplitCode \/ PropagateConstants
  \/ EvaluateLiterals \/ RemoveWithoutEffect \/ RemoveUnusedVariables
  \/ RemoveUnusedFunctions \/ AddAdvancedPatterns \/ PeepHole \/ LatePass

Spec == Init /\ [][Next]_vars

-----------------------------------------------------------------------------
(* What a pass relies on.                                                  *)
NeedsGraph == {"propagate"}
NeedsCounts == {"peephole", "propagate", "literals", "unused_variables", "unused_rest"}
NeedsMarks == {"literals", "unused_variables"}

(* Every pass of main finds what it relies on, however the passes before   *)
(* it changed the code and however often the loops ran: the blocks of the  *)
(* graph are those of the code when constants are propagated, the counts   *)
(* are not too low when instructions are dropped because of them, and the  *)
(* marks delimit expressions where whole expressions are removed.          *)
PassesFindWhatTheyNeed ==
  /\ Schedule[at] \in NeedsGraph  => graph_fresh
  /\ Schedule[at] \in NeedsCounts => counts_cover
  /\ Schedule[at] \in NeedsMarks  => marks_paired

=============================================================================
