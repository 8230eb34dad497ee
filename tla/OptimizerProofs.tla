--------------------------- MODULE OptimizerProofs ---------------------------
(***************************************************************************)
(* What is proved of the optimizer, for every program:                     *)
(*                                                                         *)
(* 1. The schedule of the passes is sound: whatever a pass does to the     *)
(*    code within its contract in PassSchedule, the next one finds what it *)
(*    relies on.                                                           *)
(* 2. The search for strongly connected components finds the cycles of     *)
(*    every graph, so that a propagation of constants knows of every       *)
(*    variable that a loop changes.                                        *)
(* 3. The graph of any code has an edge for every way control may leave a  *)
(*    block, so that what is known at the end of a block is passed on.     *)
(***************************************************************************)
EXTENDS Optimizer, FiniteSetTheorems, SequenceTheorems, WellFoundedInduction, TLAPS

(***************************************************************************)
(* The schedule.                                                           *)
(***************************************************************************)
Positions == 1..33

\* Between a split and the propagation that follows it.
SplitDone == {5, 6, 19, 20, 26, 27}

ScheduleTypeOK ==
  /\ at \in Positions
  /\ evaluated \in BOOLEAN /\ advanced \in BOOLEAN
  /\ knowledge.graph_fresh \in BOOLEAN /\ knowledge.counts_cover \in BOOLEAN
  /\ knowledge.marks_paired \in BOOLEAN

(* The graph is fresh from the split to the propagation, the counts cover  *)
(* the code once they were taken, and the marks are in pairs as long as    *)
(* there are only the basic patterns.                                      *)
GraphInv == at \in SplitDone => knowledge.graph_fresh
CountsInv == at > 2 => knowledge.counts_cover
MarksInv == /\ advanced <=> at > 12
            /\ ~advanced => knowledge.marks_paired

ScheduleInv == ScheduleTypeOK /\ GraphInv /\ CountsInv /\ MarksInv

-----------------------------------------------------------------------------
(* What every position of the schedule stands for.                         *)
LEMMA Places ==
  /\ Passes!Schedule[1] = "casts"
  /\ Passes!Schedule[2] = "update"
  /\ Passes!Schedule[3] = "peephole"
  /\ Passes!Schedule[4] = "split"
  /\ Passes!Schedule[5] = "update"
  /\ Passes!Schedule[6] = "propagate"
  /\ Passes!Schedule[7] = "update"
  /\ Passes!Schedule[8] = "literals"
  /\ Passes!Schedule[9] = "without_effect"
  /\ Passes!Schedule[10] = "unused_variables"
  /\ Passes!Schedule[11] = "unused_functions"
  /\ Passes!Schedule[12] = "patterns"
  /\ Passes!Schedule[13] = "peephole"
  /\ Passes!Schedule[14] = "unused_rest"
  /\ Passes!Schedule[15] = "partial"
  /\ Passes!Schedule[16] = "peephole"
  /\ Passes!Schedule[17] = "update"
  /\ Passes!Schedule[18] = "split"
  /\ Passes!Schedule[19] = "update"
  /\ Passes!Schedule[20] = "propagate"
  /\ Passes!Schedule[21] = "jumps"
  /\ Passes!Schedule[22] = "peephole"
  /\ Passes!Schedule[23] = "comparisons"
  /\ Passes!Schedule[24] = "update"
  /\ Passes!Schedule[25] = "split"
  /\ Passes!Schedule[26] = "update"
  /\ Passes!Schedule[27] = "propagate"
  /\ Passes!Schedule[28] = "jumps"
  /\ Passes!Schedule[29] = "peephole"
  /\ Passes!Schedule[30] = "update"
  /\ Passes!Schedule[31] = "unused_rest"
  /\ Passes!Schedule[32] = "writes"
  /\ Passes!Schedule[33] = "done"
BY DEF Passes!Schedule

(* Where the passes are that need something, or change where main goes on. *)
LEMMA PlacesOfPasses ==
  ASSUME NEW i \in Positions
  PROVE  /\ Passes!Schedule[i] = "casts" => i = 1
         /\ Passes!Schedule[i] = "update" => i \in {2, 5, 7, 17, 19, 24, 26, 30}
         /\ Passes!Schedule[i] = "peephole" => i \in {3, 13, 16, 22, 29}
         /\ Passes!Schedule[i] = "split" => i \in {4, 18, 25}
         /\ Passes!Schedule[i] = "propagate" => i \in {6, 20, 27}
         /\ Passes!Schedule[i] = "literals" => i = 8
         /\ Passes!Schedule[i] = "without_effect" => i = 9
         /\ Passes!Schedule[i] = "unused_variables" => i = 10
         /\ Passes!Schedule[i] = "unused_functions" => i = 11
         /\ Passes!Schedule[i] = "patterns" => i = 12
         /\ Passes!Schedule[i] = "unused_rest" => i \in {14, 31}
         /\ Passes!Schedule[i] = "partial" => i = 15
         /\ Passes!Schedule[i] = "jumps" => i \in {21, 28}
         /\ Passes!Schedule[i] = "comparisons" => i = 23
         /\ Passes!Schedule[i] = "writes" => i = 32
BY Places, SMTT(60) DEF Positions

-----------------------------------------------------------------------------
LEMMA ScheduleStarts == Passes!Init => ScheduleInv
<1> SUFFICES ASSUME Passes!Init PROVE ScheduleInv
  OBVIOUS
<1>1. at \in Positions /\ GraphInv /\ CountsInv /\ ~(at > 12)
  BY SMT DEF Passes!Init, GraphInv, CountsInv, Positions, SplitDone
<1>2. ScheduleTypeOK
  BY <1>1, Zenon DEF Passes!Init, ScheduleTypeOK
<1>3. MarksInv
  BY <1>1, Zenon DEF Passes!Init, MarksInv
<1> QED
  BY <1>1, <1>2, <1>3 DEF ScheduleInv

(* No pass breaks what later ones rely on.  Each of them has its places in *)
(* the schedule, so each step is about the positions that follow those.    *)
LEMMA ScheduleGoesOn == ScheduleInv /\ [Passes!Next]_(Passes!vars) => ScheduleInv'
<1> SUFFICES ASSUME ScheduleInv, [Passes!Next]_(Passes!vars) PROVE ScheduleInv'
  OBVIOUS
<1> at \in Positions
  BY DEF ScheduleInv, ScheduleTypeOK
<1>1. CASE Passes!OptimizeTypeCasts
  <2>1. at = 1
    BY <1>1, PlacesOfPasses DEF Passes!OptimizeTypeCasts, Passes!At
  <2>2. ScheduleTypeOK'
    BY <1>1, <2>1
       DEF Passes!OptimizeTypeCasts, ScheduleInv, ScheduleTypeOK, Positions,
           Passes!Next1
  <2>3. GraphInv' /\ CountsInv'
    BY <1>1, <2>1
       DEF Passes!OptimizeTypeCasts, ScheduleInv, ScheduleTypeOK, GraphInv,
           CountsInv, SplitDone, Positions, Passes!Next1
  <2>4. MarksInv'
    BY <1>1, <2>1
       DEF Passes!OptimizeTypeCasts, ScheduleInv, ScheduleTypeOK, MarksInv,
           Positions, Passes!Next1
  <2> QED
    BY <2>2, <2>3, <2>4 DEF ScheduleInv
<1>2. CASE Passes!UpdateMetaData
  <2>1. at \in {2, 5, 7, 17, 19, 24, 26, 30}
    BY <1>2, PlacesOfPasses DEF Passes!UpdateMetaData, Passes!At
  <2>2. ScheduleTypeOK'
    <3>1. at' \in Positions
      BY <1>2, <2>1 DEF Passes!UpdateMetaData, Positions, Passes!Next1
    <3> QED
      BY <1>2, <3>1, Zenon DEF Passes!UpdateMetaData, ScheduleInv, ScheduleTypeOK
  <2>3. GraphInv' /\ CountsInv'
    BY <1>2, <2>1
       DEF Passes!UpdateMetaData, ScheduleInv, ScheduleTypeOK, GraphInv, CountsInv,
           SplitDone, Positions, Passes!Next1
  <2>4. MarksInv'
    BY <1>2, <2>1
       DEF Passes!UpdateMetaData, ScheduleInv, ScheduleTypeOK, MarksInv, Positions,
           Passes!Next1
  <2> QED
    BY <2>2, <2>3, <2>4 DEF ScheduleInv
<1>3. CASE Passes!SplitCode
  <2>1. at \in {4, 18, 25}
    BY <1>3, PlacesOfPasses DEF Passes!SplitCode, Passes!At
  <2>2. ScheduleTypeOK'
    <3>1. at' \in Positions
      BY <1>3, <2>1 DEF Passes!SplitCode, Positions, Passes!Next1
    <3>2. evaluated' \in BOOLEAN
      BY <1>3, Zenon DEF Passes!SplitCode, ScheduleInv, ScheduleTypeOK
    <3> QED
      BY <1>3, <3>1, <3>2, Zenon DEF Passes!SplitCode, ScheduleInv, ScheduleTypeOK
  <2>3. GraphInv' /\ CountsInv'
    BY <1>3, <2>1
       DEF Passes!SplitCode, ScheduleInv, ScheduleTypeOK, GraphInv, CountsInv,
           SplitDone, Positions, Passes!Next1, Passes!LoopStart
  <2>4. MarksInv'
    BY <1>3, <2>1
       DEF Passes!SplitCode, ScheduleInv, ScheduleTypeOK, MarksInv, Positions,
           Passes!Next1, Passes!LoopStart
  <2> QED
    BY <2>2, <2>3, <2>4 DEF ScheduleInv
<1>4. CASE Passes!PropagateConstants
  <2>1. at \in {6, 20, 27}
    BY <1>4, PlacesOfPasses DEF Passes!PropagateConstants, Passes!At
  <2>2. ScheduleTypeOK'
    BY <1>4, <2>1
       DEF Passes!PropagateConstants, ScheduleInv, ScheduleTypeOK, Positions,
           Passes!Next1, Passes!knowledge
  <2>3. GraphInv' /\ CountsInv'
    BY <1>4, <2>1
       DEF Passes!PropagateConstants, ScheduleInv, ScheduleTypeOK, GraphInv,
           CountsInv, SplitDone, Positions, Passes!Next1, Passes!knowledge
  <2>4. MarksInv'
    BY <1>4, <2>1
       DEF Passes!PropagateConstants, ScheduleInv, ScheduleTypeOK, MarksInv,
           Positions, Passes!Next1, Passes!knowledge
  <2> QED
    BY <2>2, <2>3, <2>4 DEF ScheduleInv
<1>5. CASE Passes!EvaluateLiterals
  <2>1. at = 8
    BY <1>5, PlacesOfPasses DEF Passes!EvaluateLiterals, Passes!At
  <2>2. ScheduleTypeOK'
    BY <1>5, <2>1
       DEF Passes!EvaluateLiterals, ScheduleInv, ScheduleTypeOK, Positions,
           Passes!Next1, Passes!LoopStart, Passes!GraphMayAge, Passes!Keeps
  <2>3. GraphInv' /\ CountsInv'
    BY <1>5, <2>1
       DEF Passes!EvaluateLiterals, ScheduleInv, ScheduleTypeOK, GraphInv,
           CountsInv, SplitDone, Positions, Passes!Next1, Passes!LoopStart,
           Passes!GraphMayAge, Passes!Keeps
  <2>4. MarksInv'
    BY <1>5, <2>1
       DEF Passes!EvaluateLiterals, ScheduleInv, ScheduleTypeOK, MarksInv,
           Positions, Passes!Next1, Passes!LoopStart, Passes!GraphMayAge,
           Passes!Keeps
  <2> QED
    BY <2>2, <2>3, <2>4 DEF ScheduleInv
<1>6. CASE Passes!RemoveWithoutEffect
  <2>1. at = 9
    BY <1>6, PlacesOfPasses DEF Passes!RemoveWithoutEffect, Passes!At
  <2>2. ScheduleTypeOK'
    BY <1>6, <2>1
       DEF Passes!RemoveWithoutEffect, ScheduleInv, ScheduleTypeOK, Positions,
           Passes!Next1, Passes!GraphMayAge, Passes!Keeps
  <2>3. GraphInv' /\ CountsInv'
    BY <1>6, <2>1
       DEF Passes!RemoveWithoutEffect, ScheduleInv, ScheduleTypeOK, GraphInv,
           CountsInv, SplitDone, Positions, Passes!Next1, Passes!GraphMayAge,
           Passes!Keeps
  <2>4. MarksInv'
    BY <1>6, <2>1
       DEF Passes!RemoveWithoutEffect, ScheduleInv, ScheduleTypeOK, MarksInv,
           Positions, Passes!Next1, Passes!GraphMayAge, Passes!Keeps
  <2> QED
    BY <2>2, <2>3, <2>4 DEF ScheduleInv
<1>7. CASE Passes!RemoveUnusedVariables
  <2>1. at = 10
    BY <1>7, PlacesOfPasses DEF Passes!RemoveUnusedVariables, Passes!At
  <2>2. ScheduleTypeOK'
    BY <1>7, <2>1
       DEF Passes!RemoveUnusedVariables, ScheduleInv, ScheduleTypeOK, Positions,
           Passes!Next1, Passes!Stay, Passes!GraphMayAge, Passes!Keeps
  <2>3. GraphInv' /\ CountsInv'
    BY <1>7, <2>1
       DEF Passes!RemoveUnusedVariables, ScheduleInv, ScheduleTypeOK, GraphInv,
           CountsInv, SplitDone, Positions, Passes!Next1, Passes!Stay,
           Passes!GraphMayAge, Passes!Keeps
  <2>4. MarksInv'
    BY <1>7, <2>1
       DEF Passes!RemoveUnusedVariables, ScheduleInv, ScheduleTypeOK, MarksInv,
           Positions, Passes!Next1, Passes!Stay, Passes!GraphMayAge, Passes!Keeps
  <2> QED
    BY <2>2, <2>3, <2>4 DEF ScheduleInv
<1>8. CASE Passes!RemoveUnusedFunctions
  <2>1. at = 11
    BY <1>8, PlacesOfPasses DEF Passes!RemoveUnusedFunctions, Passes!At
  <2>2. ScheduleTypeOK'
    BY <1>8, <2>1
       DEF Passes!RemoveUnusedFunctions, ScheduleInv, ScheduleTypeOK, Positions,
           Passes!Next1, Passes!RemovalStart, Passes!GraphMayAge, Passes!Keeps
  <2>3. GraphInv' /\ CountsInv'
    BY <1>8, <2>1
       DEF Passes!RemoveUnusedFunctions, ScheduleInv, ScheduleTypeOK, GraphInv,
           CountsInv, SplitDone, Positions, Passes!Next1, Passes!RemovalStart,
           Passes!GraphMayAge, Passes!Keeps
  <2>4. MarksInv'
    BY <1>8, <2>1
       DEF Passes!RemoveUnusedFunctions, ScheduleInv, ScheduleTypeOK, MarksInv,
           Positions, Passes!Next1, Passes!RemovalStart, Passes!GraphMayAge,
           Passes!Keeps
  <2> QED
    BY <2>2, <2>3, <2>4 DEF ScheduleInv
<1>9. CASE Passes!AddAdvancedPatterns
  <2>1. at = 12
    BY <1>9, PlacesOfPasses DEF Passes!AddAdvancedPatterns, Passes!At
  <2>2. ScheduleTypeOK'
    BY <1>9, <2>1
       DEF Passes!AddAdvancedPatterns, ScheduleInv, ScheduleTypeOK, Positions,
           Passes!Next1, Passes!knowledge
  <2>3. GraphInv' /\ CountsInv'
    BY <1>9, <2>1
       DEF Passes!AddAdvancedPatterns, ScheduleInv, ScheduleTypeOK, GraphInv,
           CountsInv, SplitDone, Positions, Passes!Next1, Passes!knowledge
  <2>4. MarksInv'
    BY <1>9, <2>1
       DEF Passes!AddAdvancedPatterns, ScheduleInv, ScheduleTypeOK, MarksInv,
           Positions, Passes!Next1, Passes!knowledge
  <2> QED
    BY <2>2, <2>3, <2>4 DEF ScheduleInv
<1>10. CASE Passes!PeepHole
  <2>1. at \in {3, 13, 16, 22, 29}
    BY <1>10, PlacesOfPasses DEF Passes!PeepHole, Passes!At
  <2>2. ScheduleTypeOK'
    BY <1>10, <2>1
       DEF Passes!PeepHole, ScheduleInv, ScheduleTypeOK, Positions, Passes!Next1,
           Passes!Stay, Passes!GraphMayAge, Passes!MarksMayBreak
  <2>3. GraphInv' /\ CountsInv'
    BY <1>10, <2>1
       DEF Passes!PeepHole, ScheduleInv, ScheduleTypeOK, GraphInv, CountsInv,
           SplitDone, Positions, Passes!Next1, Passes!Stay, Passes!GraphMayAge,
           Passes!MarksMayBreak
  <2>4. MarksInv'
    BY <1>10, <2>1
       DEF Passes!PeepHole, ScheduleInv, ScheduleTypeOK, MarksInv, Positions,
           Passes!Next1, Passes!Stay, Passes!GraphMayAge, Passes!MarksMayBreak
  <2> QED
    BY <2>2, <2>3, <2>4 DEF ScheduleInv
<1>11. CASE Passes!LatePass
  <2>1. at \in {14, 15, 21, 23, 28, 31, 32}
    BY <1>11, PlacesOfPasses DEF Passes!LatePass, Passes!At
  <2>2. ScheduleTypeOK'
    BY <1>11, <2>1
       DEF Passes!LatePass, ScheduleInv, ScheduleTypeOK, Positions, Passes!Next1,
           Passes!GraphMayAge, Passes!MarksMayBreak
  <2>3. GraphInv' /\ CountsInv'
    BY <1>11, <2>1
       DEF Passes!LatePass, ScheduleInv, ScheduleTypeOK, GraphInv, CountsInv,
           SplitDone, Positions, Passes!Next1, Passes!GraphMayAge,
           Passes!MarksMayBreak
  <2>4. MarksInv'
    BY <1>11, <2>1
       DEF Passes!LatePass, ScheduleInv, ScheduleTypeOK, MarksInv, Positions,
           Passes!Next1, Passes!GraphMayAge, Passes!MarksMayBreak
  <2> QED
    BY <2>2, <2>3, <2>4 DEF ScheduleInv
<1>12. CASE UNCHANGED Passes!vars
  BY <1>12
     DEF Passes!vars, Passes!control, Passes!knowledge, ScheduleInv, ScheduleTypeOK,
         GraphInv, CountsInv, MarksInv
<1> QED
  BY <1>1, <1>2, <1>3, <1>4, <1>5, <1>6, <1>7, <1>8, <1>9, <1>10, <1>11, <1>12
     DEF Passes!Next

(* What the positions of the schedule guarantee is what the passes need.   *)
LEMMA ScheduleSuffices == ScheduleInv => Passes!PassesFindWhatTheyNeed
<1> SUFFICES ASSUME ScheduleInv PROVE Passes!PassesFindWhatTheyNeed
  OBVIOUS
<1> at \in Positions
  BY DEF ScheduleInv, ScheduleTypeOK
<1>1. Passes!Schedule[at] \in Passes!NeedsGraph => knowledge.graph_fresh
  BY PlacesOfPasses DEF Passes!NeedsGraph, ScheduleInv, GraphInv, SplitDone
<1>2. Passes!Schedule[at] \in Passes!NeedsCounts => knowledge.counts_cover
  BY PlacesOfPasses DEF Passes!NeedsCounts, ScheduleInv, CountsInv
<1>3. Passes!Schedule[at] \in Passes!NeedsMarks => knowledge.marks_paired
  BY PlacesOfPasses DEF Passes!NeedsMarks, ScheduleInv, MarksInv
<1> QED
  BY <1>1, <1>2, <1>3 DEF Passes!PassesFindWhatTheyNeed

-----------------------------------------------------------------------------
(* main (ifj2017.c) always is somewhere in its schedule.                   *)
THEOREM ScheduleTypeCorrect == RefinesSchedule => []ScheduleTypeOK
<1>1. ScheduleInv => ScheduleTypeOK
  BY DEF ScheduleInv
<1> QED
  BY ScheduleStarts, ScheduleGoesOn, <1>1, PTL DEF RefinesSchedule, Passes!Spec

(* However often the loops of main run and whatever the passes do to the   *)
(* code within what PassSchedule allows, constants are propagated along a  *)
(* graph of the code as it is, nothing is dropped on a count that is too   *)
(* low, and expressions are removed only while their marks are in pairs.   *)
THEOREM ScheduleSound == RefinesSchedule => []PassesFindWhatTheyNeed
BY ScheduleStarts, ScheduleGoesOn, ScheduleSuffices, PTL
   DEF RefinesSchedule, PassesFindWhatTheyNeed, Passes!Spec

-----------------------------------------------------------------------------
(***************************************************************************)
(* Numbers, and what a graph's edges lead to: the nodes that are in every  *)
(* set that holds a node and is closed under the edges. ReachableFrom,     *)
(* which grows a set as often as there are nodes, computes the same.       *)
(***************************************************************************)

\* A set of naturals has a least element,
LEMMA LeastNatural ==
  ASSUME NEW T, T \subseteq Nat, T # {}
  PROVE  \E x \in T : \A y \in T : x <= y
<1> DEFINE R == {p \in Nat \X Nat : p[1] < p[2]}
<1>1. IsWellFoundedOn(R, Nat)
  <2>1. R = OpToRel(<, Nat)
    BY Zenon DEF OpToRel
  <2>2. QED
    BY <2>1, NatLessThanWellFounded, Zenon
<1>2. PICK x \in T : \A y \in T : ~ (<<y, x>> \in R)
  <2> HIDE DEF R
  <2>1. QED
    BY <1>1, WFMin
<1>3. \A y \in T : ~ (y < x)
  BY <1>2
<1>4. QED
  BY <1>3

(* and what holds of 0 and of each number after one it holds of, holds up  *)
(* to n.                                                                   *)
LEMMA StepByStep ==
  ASSUME NEW n \in Nat, NEW T, 0 \in T, \A i \in 1..n : i - 1 \in T => i \in T
  PROVE  \A i \in 0..n : i \in T
<1> DEFINE Missing == {i \in 0..n : i \notin T}
<1>1. Missing \subseteq Nat /\ 0 \notin Missing
  OBVIOUS
<1>2. SUFFICES ASSUME Missing # {} PROVE FALSE
  OBVIOUS
<1>3. PICK i \in Missing : \A j \in Missing : i <= j
  <2> HIDE DEF Missing
  <2>1. QED
    BY <1>1, <1>2, LeastNatural
<1>4. i \in 1..n /\ i - 1 \in 0..n /\ ~ (i <= i - 1) /\ i \notin T
  BY <1>1
<1>5. i - 1 \in T
  BY <1>3, <1>4
<1>6. QED
  BY <1>4, <1>5

(* Edges, sets of nodes no edge leads out of, and the nodes that are in    *)
(* each such set that holds x: those x reaches.                            *)
HasEdge(out, x, y) == \E i \in DOMAIN out[x] : out[x][i] = y
ClosedUnder(out, C) == \A x \in C : \A y : HasEdge(out, x, y) => y \in C
Reaches(out, x) ==
  {y \in DOMAIN out : \A C \in SUBSET DOMAIN out : x \in C /\ ClosedUnder(out, C) => y \in C}

\* The nodes that reach x and that x reaches: its component.
Mutual(out, x) == {y \in Reaches(out, x) : x \in Reaches(out, y)}

\* The edges of the graphs of n nodes.
Out(n) == [1..n -> Seq(1..n)]

\* An edge leads to a node.
LEMMA EdgeStays ==
  ASSUME NEW n \in Nat, NEW out \in Out(n), NEW x \in 1..n, NEW y, HasEdge(out, x, y)
  PROVE  y \in 1..n
BY DEF HasEdge, Out

\* What a node reaches is the least closed set it is in.
LEMMA ReachesRules ==
  ASSUME NEW n \in Nat, NEW out \in Out(n), NEW x \in 1..n
  PROVE  /\ Reaches(out, x) \subseteq 1..n
         /\ x \in Reaches(out, x)
         /\ ClosedUnder(out, Reaches(out, x))
         /\ \A C \in SUBSET (1..n) : x \in C /\ ClosedUnder(out, C) => Reaches(out, x) \subseteq C
         /\ \A y \in Reaches(out, x) : Reaches(out, y) \subseteq Reaches(out, x)
         /\ \A y : HasEdge(out, x, y) => y \in Reaches(out, x)
<1>1. DOMAIN out = 1..n
  BY DEF Out
<1>2. Reaches(out, x) \subseteq 1..n /\ x \in Reaches(out, x)
  BY <1>1 DEF Reaches
<1>3. \A C \in SUBSET (1..n) : x \in C /\ ClosedUnder(out, C) => Reaches(out, x) \subseteq C
  BY <1>1 DEF Reaches
<1>4. ClosedUnder(out, Reaches(out, x))
  <2>1. SUFFICES ASSUME NEW y \in Reaches(out, x), NEW z, HasEdge(out, y, z)
                 PROVE  z \in Reaches(out, x)
    BY DEF ClosedUnder
  <2>2. z \in DOMAIN out
    BY <1>1, <1>2, <2>1, EdgeStays
  <2>3. ASSUME NEW C \in SUBSET DOMAIN out, x \in C, ClosedUnder(out, C) PROVE z \in C
    <3>1. y \in C
      BY <1>1, <1>3, <2>3
    <3>2. QED
      BY <2>1, <2>3, <3>1 DEF ClosedUnder
  <2>4. QED
    BY <2>2, <2>3 DEF Reaches
<1>5. \A y \in Reaches(out, x) : Reaches(out, y) \subseteq Reaches(out, x)
  BY <1>1, <1>2, <1>4 DEF Reaches
<1>6. \A y : HasEdge(out, x, y) => y \in Reaches(out, x)
  BY <1>2, <1>4 DEF ClosedUnder
<1>7. QED
  BY <1>2, <1>3, <1>4, <1>5, <1>6

\* A set that is grown along the edges, i times.
Grown(reached, x, n, out) ==
  reached = [i \in 0..n |-> IF i = 0 THEN {x}
               ELSE reached[i - 1] \cup UNION {ToSet(out[m]) : m \in reached[i - 1]}]

\* A set can be grown any number of times.
LEMMA GrownExists ==
  ASSUME NEW n \in Nat, NEW out, NEW x
  PROVE  \E reached : Grown(reached, x, n, out)
<1> DEFINE T == {m \in 0..n : \E reached : Grown(reached, x, m, out)}
<1>1. 0 \in T
  <2> DEFINE h == [i \in 0..0 |-> {x}]
  <2>1. Grown(h, x, 0, out)
    BY DEF Grown
  <2>2. QED
    BY <2>1
<1>2. ASSUME NEW m \in 1..n, m - 1 \in T PROVE m \in T
  <2>1. PICK g : Grown(g, x, m - 1, out)
    BY <1>2
  <2> DEFINE h == [i \in 0..m |-> IF i = m
                     THEN g[m - 1] \cup UNION {ToSet(out[j]) : j \in g[m - 1]} ELSE g[i]]
  <2>2. \A i \in 0..m - 1 : h[i] = g[i]
    OBVIOUS
  <2>3. h[m] = h[m - 1] \cup UNION {ToSet(out[j]) : j \in h[m - 1]}
    BY <2>2
  <2>4. \A i \in 0..m - 1 : g[i] = IF i = 0 THEN {x}
               ELSE g[i - 1] \cup UNION {ToSet(out[j]) : j \in g[i - 1]}
    BY <2>1 DEF Grown
  <2>5. h = [i \in 0..m |-> h[i]]
    OBVIOUS
  <2> HIDE DEF h
  <2>6. ASSUME NEW i \in 0..m
        PROVE  h[i] = IF i = 0 THEN {x}
               ELSE h[i - 1] \cup UNION {ToSet(out[j]) : j \in h[i - 1]}
    <3>1. CASE i = m
      BY <3>1, <2>3
    <3>2. CASE i # m
      <4>1. i \in 0..m - 1 /\ (i # 0 => i - 1 \in 0..m - 1)
        BY <3>2
      <4>2. QED
        BY <4>1, <2>2, <2>4
    <3>3. QED
      BY <3>1, <3>2
  <2>7. Grown(h, x, m, out)
    BY <2>5, <2>6 DEF Grown
  <2>8. QED
    BY <2>7
<1>3. \A i \in 0..n : i \in T
  <2> HIDE DEF T
  <2>1. QED
    BY <1>1, <1>2, StepByStep
<1>4. QED
  BY <1>3

\* What ReachableFrom gives is a set grown as often as there are nodes.
LEMMA ReachableIsGrown ==
  ASSUME NEW blocks, NEW n \in Nat, blocks.out \in Out(n), NEW x
  PROVE  \E reached : Grown(reached, x, n, blocks.out) /\ ReachableFrom(blocks, x) = reached[n]
<1> DEFINE out == blocks.out
           after == CHOOSE reached : reached =
                      [i \in 0..Len(out) |-> IF i = 0 THEN {x}
                         ELSE CHOOSE s \in {before \cup UNION {ToSet(out[m]) : m \in before} :
                                             before \in {reached[i - 1]}} : TRUE]
<1>1. Len(out) = n
  BY DEF Out
<1>2. ReachableFrom(blocks, x) = after[Len(out)]
  BY DEF ReachableFrom, Walk
<1> DEFINE Taken(g) == [i \in 0..Len(out) |-> IF i = 0 THEN {x}
                         ELSE CHOOSE s \in {before \cup UNION {ToSet(out[m]) : m \in before} :
                                             before \in {g[i - 1]}} : TRUE]
<1>3. ASSUME NEW g PROVE Taken(g) = [i \in 0..n |-> IF i = 0 THEN {x}
               ELSE g[i - 1] \cup UNION {ToSet(out[m]) : m \in g[i - 1]}]
  BY <1>1
<1>4. \E g : g = Taken(g)
  <2>1. PICK g : Grown(g, x, n, out)
    BY GrownExists
  <2>2. Taken(g) = g
    BY <1>3, <2>1, Zenon DEF Grown
  <2> HIDE DEF Taken
  <2>3. QED
    BY <2>2
<1>5. after = Taken(after)
  BY <1>4, Zenon
<1>6. Grown(after, x, n, out)
  BY <1>3, <1>5, Zenon DEF Grown
<1>7. QED
  BY <1>1, <1>2, <1>6

(* A set that grows by more than nothing at every step outgrows 1..n.      *)
LEMMA ReachableIsReaches ==
  ASSUME NEW blocks, NEW n \in Nat, blocks.out \in Out(n), NEW x \in 1..n
  PROVE  ReachableFrom(blocks, x) = Reaches(blocks.out, x)
<1> DEFINE out == blocks.out
<1>1. PICK reached : Grown(reached, x, n, out) /\ ReachableFrom(blocks, x) = reached[n]
  BY ReachableIsGrown
<1>2. /\ reached[0] = {x}
      /\ \A i \in 1..n : reached[i] = reached[i - 1]
                                       \cup UNION {ToSet(out[m]) : m \in reached[i - 1]}
  BY <1>1 DEF Grown
<1>3. \A m \in 1..n : \A y : y \in ToSet(out[m]) <=> HasEdge(out, m, y)
  BY DEF ToSet, HasEdge
<1> HIDE DEF out
<1>4. /\ x \in Reaches(out, x) /\ ClosedUnder(out, Reaches(out, x))
      /\ Reaches(out, x) \subseteq 1..n
      /\ \A C \in SUBSET (1..n) : x \in C /\ ClosedUnder(out, C) => Reaches(out, x) \subseteq C
  BY ReachesRules DEF out
<1> DEFINE R == Reaches(out, x)
           T == {i \in 0..n : /\ reached[i] \subseteq R
                              /\ x \in reached[i]
                              /\ \/ ClosedUnder(out, reached[i])
                                 \/ Cardinality(reached[i]) >= i + 1}
<1>5. 0 \in T
  <2>1. Cardinality({x}) = 1
    BY FS_Singleton
  <2>2. Cardinality(reached[0]) = 1 /\ reached[0] \subseteq R /\ x \in reached[0]
    BY <1>2, <1>4, <2>1
  <2>3. 0 \in 0..n /\ 1 >= 0 + 1
    OBVIOUS
  <2> HIDE DEF R
  <2>4. QED
    BY <2>2, <2>3
<1>6. ASSUME NEW i \in 1..n, i - 1 \in T PROVE i \in T
  <2> DEFINE old == reached[i - 1]
             new == reached[i]
  <2>1. old \subseteq R /\ x \in old /\ (ClosedUnder(out, old) \/ Cardinality(old) >= i)
    BY <1>6
  <2>2. i \in 0..n
    OBVIOUS
  <2>2a. new = old \cup UNION {ToSet(out[m]) : m \in old}
    BY <1>2, Zenon
  <2> HIDE DEF old, new
  <2>3. \A y : y \in new <=> y \in old \/ \E m \in old : HasEdge(out, m, y)
    <3>1. \A m \in old : m \in 1..n
      BY <1>4, <2>1
    <3>2. \A y : y \in UNION {ToSet(out[m]) : m \in old} <=> \E m \in old : y \in ToSet(out[m])
      OBVIOUS
    <3>3. QED
      BY <1>3, <2>2a, <3>1, <3>2
  <2>4. new \subseteq R /\ x \in new
    BY <1>4, <2>1, <2>3 DEF ClosedUnder
  <2>5. CASE ClosedUnder(out, old)
    <3>1. new = old
      BY <2>3, <2>5 DEF ClosedUnder
    <3>2. QED
      BY <2>2, <2>4, <2>5, <3>1 DEF new
  <2>6. CASE ~ ClosedUnder(out, old)
    <3>1. PICK y : y \in new /\ y \notin old
      BY <2>3, <2>6 DEF ClosedUnder
    <3>2. IsFiniteSet(1..n) /\ IsFiniteSet(new) /\ IsFiniteSet(old)
      <4>1. IsFiniteSet(1..n)
        BY FS_Interval
      <4>2. new \subseteq 1..n /\ old \subseteq 1..n
        BY <1>4, <2>1, <2>4
      <4>3. QED
        BY <4>1, <4>2, FS_Subset
    <3>3. old \subseteq new /\ old # new
      BY <2>3, <3>1
    <3>4. Cardinality(old) < Cardinality(new) /\ Cardinality(old) \in Nat /\ Cardinality(new) \in Nat
      BY <3>2, <3>3, FS_Subset, FS_CardinalityType
    <3>5. Cardinality(old) >= i
      BY <2>1, <2>6
    <3>6. Cardinality(new) >= i + 1
      BY <3>4, <3>5
    <3>7. QED
      BY <2>2, <2>4, <3>6 DEF new
  <2>7. QED
    BY <2>5, <2>6
<1>7. n \in T
  <2> HIDE DEF T
  <2>1. \A i \in 0..n : i \in T
    BY <1>5, <1>6, StepByStep
  <2>2. QED
    BY <2>1
<1>8. ClosedUnder(out, reached[n])
  <2>1. SUFFICES ASSUME Cardinality(reached[n]) >= n + 1 PROVE FALSE
    BY <1>7
  <2>2. reached[n] \subseteq 1..n
    BY <1>4, <1>7
  <2>3. IsFiniteSet(1..n) /\ Cardinality(1..n) = n
    BY FS_Interval
  <2>4. Cardinality(reached[n]) <= n /\ Cardinality(reached[n]) \in Nat
    BY <2>2, <2>3, FS_Subset, FS_CardinalityType
  <2>5. QED
    BY <2>1, <2>4
<1>9. reached[n] = R
  BY <1>4, <1>7, <1>8
<1>10. QED
  BY <1>1, <1>9 DEF out

-----------------------------------------------------------------------------
(***************************************************************************)
(* The search, seen from outside: what a step (ComponentStep) does is one  *)
(* of four things, and each keeps the types.                               *)
(***************************************************************************)

\* What is left to do, and what the search has found so far.
TaskSet(n) == [do : {"edge", "back", "close"}, from : 0..n, to : 1..n]
States(n) ==
  [time : Nat, disc : [1..n -> Int], low : [1..n -> Int], stack : Seq(1..n),
   components : SUBSET SUBSET (1..n), tasks : Seq(TaskSet(n))]

\* The fields of a state, all of them; and that nothing new is discovered.
Shaped(t) ==
  t = [time |-> t.time, disc |-> t.disc, low |-> t.low, stack |-> t.stack,
       components |-> t.components, tasks |-> t.tasks]

SameFinds(s, t) == t.time = s.time /\ t.disc = s.disc

\* A task is done that changes nothing,
Keeps(s, t) ==
  /\ Shaped(t)
  /\ SameFinds(s, t) /\ t.low = s.low
  /\ t.stack = s.stack /\ t.components = s.components
  /\ t.tasks = Tail(s.tasks)

\* takes a component from the stack,
Pops(s, t, v) ==
  /\ Shaped(t)
  /\ SameFinds(s, t) /\ t.low = s.low
  /\ t.tasks = Tail(s.tasks)
  /\ \E k \in DOMAIN s.stack :
       /\ s.stack[k] = v
       /\ t.stack = SubSeq(s.stack, k + 1, Len(s.stack))
       /\ t.components = s.components \cup {ToSet(SubSeq(s.stack, 1, k))}

\* lowers what a node reaches,
Lowers(s, t, u, value) ==
  /\ Shaped(t)
  /\ SameFinds(s, t)
  /\ t.low = [s.low EXCEPT ![u] = IF value < s.low[u] THEN value ELSE s.low[u]]
  /\ t.stack = s.stack /\ t.components = s.components
  /\ t.tasks = Tail(s.tasks)

\* or enters a node, whose edges come first.
EntryTasks(out, v) == [i \in DOMAIN out[v] |-> Edge(v, out[v][i])]
Enters(out, s, t, u, v) ==
  /\ Shaped(t)
  /\ t.time = s.time + 1
  /\ t.disc = [s.disc EXCEPT ![v] = s.time + 1]
  /\ t.low = [s.low EXCEPT ![v] = s.time + 1]
  /\ t.stack = <<v>> \o s.stack /\ t.components = s.components
  /\ t.tasks = EntryTasks(out, v) \o <<Close(v)>>
                 \o IF u = 0 THEN Tail(s.tasks) ELSE <<Back(u, v)>> \o Tail(s.tasks)

\* Min of a set of naturals is its least element.
LEMMA TheLeast ==
  ASSUME NEW I, I \subseteq Nat, I # {}
  PROVE  Min(I) \in I /\ \A x \in I : Min(I) <= x
BY LeastNatural DEF Min

\* The fields of a state.
LEMMA StateParts ==
  ASSUME NEW n \in Nat, NEW s \in States(n)
  PROVE  /\ s.time \in Nat /\ s.disc \in [1..n -> Int] /\ s.low \in [1..n -> Int]
         /\ s.stack \in Seq(1..n) /\ s.components \subseteq SUBSET (1..n)
         /\ s.tasks \in Seq(TaskSet(n))
         /\ s = [time |-> s.time, disc |-> s.disc, low |-> s.low, stack |-> s.stack,
                 components |-> s.components, tasks |-> s.tasks]
BY DEF States

\* What is replaced, and what is not.
LEMMA EntryReplaced ==
  ASSUME NEW n \in Nat, NEW f \in [1..n -> Int], NEW v \in 1..n, NEW e \in Int,
         NEW g, g = [f EXCEPT ![v] = e]
  PROVE  /\ g \in [1..n -> Int]
         /\ g[v] = e
         /\ \A x \in 1..n : x # v => g[x] = f[x]
OBVIOUS

\* Contains, ToSet and the places of a sequence say the same.
LEMMA OnTheStack ==
  ASSUME NEW n \in Nat, NEW stack \in Seq(1..n), NEW v
  PROVE  /\ v \in ToSet(stack) <=> Contains(stack, v)
         /\ v \in ToSet(stack) <=> \E i \in 1..Len(stack) : stack[i] = v
         /\ DOMAIN stack = 1..Len(stack)
<1>1. DOMAIN stack = 1..Len(stack)
  OBVIOUS
<1>2. QED
  BY <1>1, Zenon DEF ToSet, Contains

\* A state with other tasks.
LEMMA RestParts ==
  ASSUME NEW n \in Nat, NEW s \in States(n), NEW todo
  PROVE  [s EXCEPT !.tasks = todo] =
           [time |-> s.time, disc |-> s.disc, low |-> s.low, stack |-> s.stack,
            components |-> s.components, tasks |-> todo]
<1>1. s = [time |-> s.time, disc |-> s.disc, low |-> s.low, stack |-> s.stack,
           components |-> s.components, tasks |-> s.tasks]
  BY StateParts
<1>2. QED
  BY <1>1

\* Closing a node takes its component from the stack, or changes nothing.
LEMMA ClosedDoes ==
  ASSUME NEW n \in Nat, NEW s \in States(n), s.tasks # << >>, NEW blocks,
         Head(s.tasks).do = "close"
  PROVE  LET v == Head(s.tasks).to
             t == ComponentStep(blocks, s)
         IN  /\ s.low[v] # s.disc[v] => Keeps(s, t)
             /\ s.low[v] = s.disc[v] /\ v \in ToSet(s.stack) => Pops(s, t, v)
<1> DEFINE v == Head(s.tasks).to
           t == ComponentStep(blocks, s)
           rest == [s EXCEPT !.tasks = Tail(@)]
<1>1. t = Closed(rest, v)
  BY DEF ComponentStep
<1>9. rest = [time |-> s.time, disc |-> s.disc, low |-> s.low, stack |-> s.stack,
              components |-> s.components, tasks |-> Tail(s.tasks)]
  BY RestParts
<1> HIDE DEF rest
<1>2. /\ rest.time = s.time /\ rest.disc = s.disc /\ rest.low = s.low
      /\ rest.stack = s.stack /\ rest.components = s.components
      /\ rest.tasks = Tail(s.tasks)
  BY <1>9
<1>3. CASE s.low[v] # s.disc[v]
  <2>1. t = rest
    BY <1>1, <1>2, <1>3 DEF Closed
  <2>2. QED
    BY <1>9, <1>2, <1>3, <2>1 DEF Keeps, SameFinds, Shaped
<1>4. CASE s.low[v] = s.disc[v] /\ v \in ToSet(s.stack)
  <2> DEFINE I == {i \in 1..Len(rest.stack) : rest.stack[i] = v}
             k == SelectInSeq(rest.stack, LAMBDA w : w = v)
  <2>1. s.stack \in Seq(1..n)
    BY StateParts
  <2>2. I \subseteq Nat /\ I # {}
    <3>1. \E i \in 1..Len(s.stack) : s.stack[i] = v
      BY <1>4, <2>1, OnTheStack
    <3>2. QED
      BY <1>2, <3>1
  <2>3. k = Min(I)
    BY <2>2, Zenon DEF SelectInSeq
  <2>4. k \in DOMAIN s.stack /\ s.stack[k] = v
    <3>1. k \in I
      BY <2>2, <2>3, TheLeast
    <3>2. QED
      BY <1>2, <2>1, <3>1
  <2> HIDE DEF k
  <2>5. t = [rest EXCEPT !.stack = SubSeq(@, k + 1, Len(@)),
                         !.components = @ \cup {ToSet(SubSeq(rest.stack, 1, k))}]
    BY <1>1, <1>2, <1>4 DEF Closed, k
  <2> HIDE DEF rest, t, v
  <2>6. /\ t.time = rest.time /\ t.disc = rest.disc /\ t.low = rest.low
        /\ t.tasks = rest.tasks
        /\ t.stack = SubSeq(rest.stack, k + 1, Len(rest.stack))
        /\ t.components = rest.components \cup {ToSet(SubSeq(rest.stack, 1, k))}
        /\ Shaped(t)
    <3>1. rest = [time |-> rest.time, disc |-> rest.disc, low |-> rest.low,
                  stack |-> rest.stack, components |-> rest.components, tasks |-> rest.tasks]
      BY <1>9
    <3>2. QED
      BY <2>5, <3>1 DEF Shaped
  <2>7. Pops(s, t, v)
    BY <1>2, <2>4, <2>6 DEF Pops, SameFinds
  <2>8. QED
    BY <1>4, <2>7 DEF t, v
<1>5. QED
  BY <1>3, <1>4

\* What the visit of a node found lowers what its parent reaches.
LEMMA BackDoes ==
  ASSUME NEW n \in Nat, NEW s \in States(n), s.tasks # << >>, NEW blocks,
         Head(s.tasks).do = "back"
  PROVE  Lowers(s, ComponentStep(blocks, s), Head(s.tasks).from, s.low[Head(s.tasks).to])
<1> DEFINE u == Head(s.tasks).from
           value == s.low[Head(s.tasks).to]
           t == ComponentStep(blocks, s)
           rest == [s EXCEPT !.tasks = Tail(@)]
<1>1. t = Lowered(rest, u, value)
  BY DEF ComponentStep
<1>9. rest = [time |-> s.time, disc |-> s.disc, low |-> s.low, stack |-> s.stack,
              components |-> s.components, tasks |-> Tail(s.tasks)]
  BY RestParts
<1> HIDE DEF rest
<1>2. /\ rest.time = s.time /\ rest.disc = s.disc /\ rest.low = s.low
      /\ rest.stack = s.stack /\ rest.components = s.components
      /\ rest.tasks = Tail(s.tasks)
      /\ rest = [time |-> rest.time, disc |-> rest.disc, low |-> rest.low,
                  stack |-> rest.stack, components |-> rest.components, tasks |-> rest.tasks]
  BY <1>9
<1> HIDE DEF rest, t, u, value
<1>3. t = [rest EXCEPT !.low = [rest.low EXCEPT ![u] = IF value < rest.low[u] THEN value ELSE rest.low[u]]]
  BY <1>1, <1>2 DEF Lowered
<1>4. Lowers(s, t, u, value)
  BY <1>2, <1>3 DEF Lowers, SameFinds, Shaped
<1>5. QED
  BY <1>4 DEF t, u, value

\* Along an edge a node is entered, or one that is on the stack is seen.
LEMMA EdgeDoes ==
  ASSUME NEW n \in Nat, NEW s \in States(n), s.tasks # << >>, NEW blocks, blocks.out \in Out(n),
         Head(s.tasks).do = "edge"
  PROVE  LET u == Head(s.tasks).from
             v == Head(s.tasks).to
             t == ComponentStep(blocks, s)
         IN  /\ s.disc[v] = -1 => Enters(blocks.out, s, t, u, v)
             /\ s.disc[v] # -1 /\ u # 0 /\ v \in ToSet(s.stack) => Lowers(s, t, u, s.disc[v])
             /\ s.disc[v] # -1 /\ ~ (u # 0 /\ v \in ToSet(s.stack)) => Keeps(s, t)
<1> DEFINE u == Head(s.tasks).from
           v == Head(s.tasks).to
           t == ComponentStep(blocks, s)
           rest == [s EXCEPT !.tasks = Tail(@)]
<1>9. rest = [time |-> s.time, disc |-> s.disc, low |-> s.low, stack |-> s.stack,
              components |-> s.components, tasks |-> Tail(s.tasks)]
  BY RestParts
<1>1. /\ rest.time = s.time /\ rest.disc = s.disc /\ rest.low = s.low
      /\ rest.stack = s.stack /\ rest.components = s.components
      /\ rest.tasks = Tail(s.tasks)
      /\ rest = [time |-> rest.time, disc |-> rest.disc, low |-> rest.low,
                  stack |-> rest.stack, components |-> rest.components, tasks |-> rest.tasks]
  BY <1>9
<1>2. v \in ToSet(s.stack) <=> Contains(s.stack, v)
  BY StateParts, OnTheStack
<1>3. CASE s.disc[v] # -1 /\ u # 0 /\ v \in ToSet(s.stack)
  <2>1. t = Lowered(rest, u, s.disc[v])
    BY <1>2, <1>3 DEF ComponentStep
  <2> HIDE DEF rest, t, u
  <2>2. t = [rest EXCEPT !.low = [rest.low EXCEPT ![u] =
                            IF s.disc[v] < rest.low[u] THEN s.disc[v] ELSE rest.low[u]]]
    BY <1>1, <2>1 DEF Lowered
  <2>3. Lowers(s, t, u, s.disc[v])
    BY <1>1, <2>2 DEF Lowers, SameFinds, Shaped
  <2>4. QED
    BY <1>3, <2>3 DEF t, u
<1>4. CASE s.disc[v] # -1 /\ ~ (u # 0 /\ v \in ToSet(s.stack))
  <2>1. t = rest
    BY <1>2, <1>4 DEF ComponentStep
  <2>2. QED
    BY <1>1, <1>4, <2>1 DEF Keeps, SameFinds, Shaped
<1>5. CASE s.disc[v] = -1
  <2> DEFINE entering == IF u = 0 THEN rest ELSE [rest EXCEPT !.tasks = <<Back(u, v)>> \o @]
             todo == IF u = 0 THEN Tail(s.tasks) ELSE <<Back(u, v)>> \o Tail(s.tasks)
  <2>1. t = Entered(blocks, entering, v)
    BY <1>5 DEF ComponentStep
  <2>2. /\ entering.time = s.time /\ entering.disc = s.disc /\ entering.low = s.low
        /\ entering.stack = s.stack /\ entering.components = s.components
        /\ entering.tasks = todo
        /\ entering = [time |-> s.time, disc |-> s.disc, low |-> s.low,
                  stack |-> s.stack, components |-> s.components, tasks |-> todo]
    <3> HIDE DEF rest, u, v
    <3>1. QED
      BY <1>1
  <2> HIDE DEF entering, todo, t, u, v
  <2>3. t = [entering EXCEPT !.time = @ + 1, !.disc[v] = entering.time + 1,
              !.low[v] = entering.time + 1, !.stack = <<v>> \o @,
              !.tasks = [i \in DOMAIN blocks.out[v] |-> Edge(v, blocks.out[v][i])]
                          \o <<Close(v)>> \o @]
    BY <2>1, Zenon DEF Entered
  <2>4. Enters(blocks.out, s, t, u, v)
    BY <2>2, <2>3 DEF Enters, EntryTasks, todo, Shaped
  <2>5. QED
    BY <1>5, <2>4 DEF t, u, v
<1>6. QED
  BY <1>3, <1>4, <1>5

\* The tasks after a node is entered, place by place.
EntryPlaces(out, s, t, u, v) ==
  LET m == Len(out[v])
      o == IF u = 0 THEN m ELSE m + 1
  IN  /\ Len(t.tasks) = o + Len(s.tasks)
      /\ \A i \in 1..m : t.tasks[i] = Edge(v, out[v][i])
      /\ t.tasks[m + 1] = Close(v)
      /\ u # 0 => t.tasks[m + 2] = Back(u, v)
      /\ \A j \in 2..Len(s.tasks) : t.tasks[o + j] = s.tasks[j]

\* The three kinds of tasks, made
LEMMA TaskKinds ==
  ASSUME NEW n \in Nat, NEW u \in 0..n, NEW v \in 1..n
  PROVE  /\ Edge(u, v) \in TaskSet(n) /\ Back(u, v) \in TaskSet(n) /\ Close(v) \in TaskSet(n)
         /\ Edge(u, v).do = "edge" /\ Edge(u, v).from = u /\ Edge(u, v).to = v
         /\ Back(u, v).do = "back" /\ Back(u, v).from = u /\ Back(u, v).to = v
         /\ Close(v).do = "close" /\ Close(v).from = v /\ Close(v).to = v
BY DEF Edge, Back, Close, TaskSet

\* and taken apart.
LEMMA TaskIs ==
  ASSUME NEW n \in Nat, NEW task \in TaskSet(n)
  PROVE  /\ task.do \in {"edge", "back", "close"} /\ task.from \in 0..n /\ task.to \in 1..n
         /\ task.do = "edge" => task = Edge(task.from, task.to)
         /\ task.do = "back" => task = Back(task.from, task.to)
         /\ task.do = "close" /\ task.from = task.to => task = Close(task.to)
BY DEF Edge, Back, Close, TaskSet

\* The places of what is left when the first task is taken,
LEMMA TailPlaces ==
  ASSUME NEW n \in Nat, NEW tasks \in Seq(TaskSet(n)), tasks # << >>
  PROVE  /\ Tail(tasks) \in Seq(TaskSet(n)) /\ Head(tasks) = tasks[1] /\ tasks[1] \in TaskSet(n)
         /\ Len(tasks) \in Nat /\ Len(tasks) >= 1 /\ Len(Tail(tasks)) = Len(tasks) - 1
         /\ \A i \in 1..Len(tasks) - 1 : Tail(tasks)[i] = tasks[i + 1]
         /\ DOMAIN tasks = 1..Len(tasks) /\ DOMAIN Tail(tasks) = 1..Len(tasks) - 1
         /\ \A i \in 1..Len(tasks) : tasks[i] \in TaskSet(n)
OBVIOUS

\* of two sequences put together,
LEMMA JoinedPlaces ==
  ASSUME NEW S, NEW a \in Seq(S), NEW b \in Seq(S)
  PROVE  /\ a \o b \in Seq(S) /\ Len(a \o b) = Len(a) + Len(b)
         /\ \A i \in 1..Len(a) : (a \o b)[i] = a[i]
         /\ \A j \in 1..Len(b) : (a \o b)[Len(a) + j] = b[j]
<1>1. a \o b \in Seq(S) /\ Len(a \o b) = Len(a) + Len(b) /\ Len(a) \in Nat /\ Len(b) \in Nat
  OBVIOUS
<1>2. \A i \in 1..Len(a) + Len(b) : (a \o b)[i] = IF i <= Len(a) THEN a[i] ELSE b[i - Len(a)]
  OBVIOUS
<1>3. ASSUME NEW j \in 1..Len(b) PROVE (a \o b)[Len(a) + j] = b[j]
  <2>1. Len(a) + j \in 1..Len(a) + Len(b) /\ ~ (Len(a) + j <= Len(a)) /\ Len(a) + j - Len(a) = j
    BY <1>1
  <2>2. QED
    BY <1>2, <2>1
<1>4. ASSUME NEW i \in 1..Len(a) PROVE (a \o b)[i] = a[i]
  <2>1. i \in 1..Len(a) + Len(b) /\ i <= Len(a)
    BY <1>1
  <2>2. QED
    BY <1>2, <2>1
<1>5. QED
  BY <1>1, <1>3, <1>4

\* of a sequence cut in two,
LEMMA PiecePlaces ==
  ASSUME NEW S, NEW q \in Seq(S), NEW k \in 1..Len(q)
  PROVE  /\ SubSeq(q, k + 1, Len(q)) \in Seq(S) /\ Len(SubSeq(q, k + 1, Len(q))) = Len(q) - k
         /\ \A i \in 1..Len(q) - k : SubSeq(q, k + 1, Len(q))[i] = q[k + i]
         /\ SubSeq(q, 1, k) \in Seq(S) /\ Len(SubSeq(q, 1, k)) = k
         /\ \A i \in 1..k : SubSeq(q, 1, k)[i] = q[i]
<1>1. Len(q) \in Nat /\ k \in Nat /\ 1 <= k /\ k <= Len(q) /\ \A i \in 1..Len(q) : q[i] \in S
  OBVIOUS
<1> DEFINE l == Len(q)
<1>2. SubSeq(q, k + 1, l) = [i \in 1..l - k |-> q[k + i]]
  <2>1. SubSeq(q, k + 1, l) = [i \in 1..(1 + l - (k + 1)) |-> q[i + (k + 1) - 1]]
    OBVIOUS
  <2>2. 1 + l - (k + 1) = l - k /\ \A i \in 1..l - k : i + (k + 1) - 1 = k + i
    BY <1>1
  <2> HIDE DEF l
  <2>3. QED
    BY <2>1, <2>2
<1>3. SubSeq(q, 1, k) = [i \in 1..k |-> q[i]]
  <2>1. SubSeq(q, 1, k) = [i \in 1..(1 + k - 1) |-> q[i + 1 - 1]]
    OBVIOUS
  <2>2. 1 + k - 1 = k /\ \A i \in 1..k : i + 1 - 1 = i
    BY <1>1
  <2>3. QED
    BY <2>1, <2>2
<1>4. l - k \in Nat /\ \A i \in 1..l - k : q[k + i] \in S
  <2>1. l - k \in Nat /\ \A i \in 1..l - k : k + i \in 1..l
    BY <1>1
  <2>2. QED
    BY <1>1, <2>1
<1>5. \A i \in 1..k : q[i] \in S
  <2>1. \A i \in 1..k : i \in 1..Len(q)
    BY <1>1
  <2>2. QED
    BY <1>1, <2>1
<1> HIDE DEF l
<1>6. [i \in 1..l - k |-> q[k + i]] \in Seq(S) /\ Len([i \in 1..l - k |-> q[k + i]]) = l - k
  BY <1>4
<1>7. [i \in 1..k |-> q[i]] \in Seq(S) /\ Len([i \in 1..k |-> q[i]]) = k
  BY <1>1, <1>5
<1>8. QED
  BY <1>2, <1>3, <1>6, <1>7 DEF l

\* and of the tasks once a node is entered.
LEMMA EntersPlaces ==
  ASSUME NEW n \in Nat, NEW s \in States(n), s.tasks # << >>, NEW out \in Out(n),
         NEW t, NEW u \in 0..n, NEW v \in 1..n, Enters(out, s, t, u, v)
  PROVE  EntryPlaces(out, s, t, u, v) /\ t.tasks \in Seq(TaskSet(n))
<1> DEFINE S == TaskSet(n)
           m == Len(out[v])
           first == EntryTasks(out, v)
           rest == Tail(s.tasks)
           l == Len(s.tasks)
<1>1. out[v] \in Seq(1..n) /\ m \in Nat /\ DOMAIN out[v] = 1..m
  BY DEF Out
<1>2. \A i \in 1..m : out[v][i] \in 1..n
  BY <1>1, SMTT(30)
<1>3. /\ Close(v) \in S /\ Back(u, v) \in S /\ \A w \in 1..n : Edge(v, w) \in S
  BY TaskKinds
<1>4. first = [i \in 1..m |-> Edge(v, out[v][i])]
  BY <1>1 DEF EntryTasks
<1> HIDE DEF S, m, first
<1>5. first \in Seq(S) /\ Len(first) = m /\ \A i \in 1..m : first[i] = Edge(v, out[v][i])
  <2>1. \A i \in 1..m : Edge(v, out[v][i]) \in S
    BY <1>2, <1>3
  <2>2. QED
    BY ONLY <1>1, <1>4, <2>1, SMTT(30)
<1>6. /\ rest \in Seq(S) /\ Len(rest) = l - 1 /\ l \in Nat
      /\ l >= 1
      /\ \A i \in 1..l - 1 : rest[i] = s.tasks[i + 1]
  BY StateParts, TailPlaces DEF S
<1>7. t.tasks = first \o <<Close(v)>> \o IF u = 0 THEN rest ELSE <<Back(u, v)>> \o rest
  BY DEF Enters, first
<1> HIDE DEF rest, l
<1>8. CASE u = 0
  <2>1. t.tasks = first \o <<Close(v)>> \o rest
    BY <1>7, <1>8
  <2>2. first \o <<Close(v)>> \in Seq(S) /\ Len(first \o <<Close(v)>>) = m + 1
    BY <1>1, <1>3, <1>5
  <2>3. /\ \A i \in 1..m : (first \o <<Close(v)>>)[i] = first[i]
        /\ (first \o <<Close(v)>>)[m + 1] = Close(v)
    BY <1>1, <1>3, <1>5, SMTT(30)
  <2> DEFINE begin == first \o <<Close(v)>>
  <2>4. t.tasks = begin \o rest /\ begin \in Seq(S) /\ Len(begin) = m + 1
    BY <2>1, <2>2
  <2> HIDE DEF begin
  <2>5. /\ t.tasks \in Seq(S) /\ Len(t.tasks) = m + l
        /\ \A i \in 1..m + 1 : t.tasks[i] = begin[i]
        /\ \A j \in 1..l - 1 : t.tasks[m + 1 + j] = rest[j]
    <3>4. begin \in Seq(S) /\ rest \in Seq(S)
      BY <1>6, <2>4, Zenon
    <3>1. /\ begin \o rest \in Seq(S) /\ Len(begin \o rest) = Len(begin) + Len(rest)
          /\ \A i \in 1..Len(begin) : (begin \o rest)[i] = begin[i]
          /\ \A j \in 1..Len(rest) : (begin \o rest)[Len(begin) + j] = rest[j]
      BY <3>4, JoinedPlaces
    <3>5. m \in Nat /\ l \in Nat /\ Len(rest) = l - 1 /\ Len(begin) = m + 1
      BY <1>1, <1>6, <2>4, Zenon
    <3>2. m + 1 + (l - 1) = m + l
      BY <3>5
    <3>3. QED
      BY <2>4, <3>1, <3>2, <3>5
  <2>6. \A j \in 2..l : t.tasks[m + j] = s.tasks[j]
    <3>1. ASSUME NEW j \in 2..l PROVE t.tasks[m + j] = s.tasks[j]
      <4>1. j - 1 \in 1..l - 1 /\ m + 1 + (j - 1) = m + j /\ (j - 1) + 1 = j
        BY <1>1, <1>6
      <4>2. t.tasks[m + 1 + (j - 1)] = rest[j - 1] /\ rest[j - 1] = s.tasks[(j - 1) + 1]
        BY <1>6, <2>5, <4>1
      <4>3. QED
        BY <4>1, <4>2
    <3>2. QED
      BY <3>1
  <2>7. (\A i \in 1..m : i \in 1..m + 1) /\ m + 1 \in 1..m + 1
    BY <1>1
  <2>8. /\ \A i \in 1..m : t.tasks[i] = Edge(v, out[v][i])
        /\ t.tasks[m + 1] = Close(v)
    BY <1>5, <2>3, <2>5, <2>7 DEF begin
  <2>9. QED
    BY <1>8, <2>5, <2>6, <2>8 DEF EntryPlaces, m, S, l
<1>9. CASE u # 0
  <2> DEFINE begin == first \o <<Close(v)>>
             end == <<Back(u, v)>> \o rest
  <2>1. t.tasks = begin \o end
    BY <1>7, <1>9
  <2>2. begin \in Seq(S) /\ Len(begin) = m + 1
    BY <1>1, <1>3, <1>5
  <2>3. /\ \A i \in 1..m : begin[i] = first[i]
        /\ begin[m + 1] = Close(v)
    BY <1>1, <1>3, <1>5
  <2>4. end \in Seq(S) /\ Len(end) = l /\ end[1] = Back(u, v)
    BY <1>3, <1>6
  <2>5. \A j \in 2..l : end[j] = rest[j - 1]
    BY <1>3, <1>6
  <2> HIDE DEF begin, end
  <2>6. /\ t.tasks \in Seq(S) /\ Len(t.tasks) = m + 1 + l
        /\ \A i \in 1..m + 1 : t.tasks[i] = begin[i]
        /\ \A j \in 1..l : t.tasks[m + 1 + j] = end[j]
    <3>1. begin \in Seq(S) /\ end \in Seq(S)
      BY <2>2, <2>4, Zenon
    <3>2. /\ begin \o end \in Seq(S) /\ Len(begin \o end) = Len(begin) + Len(end)
          /\ \A i \in 1..Len(begin) : (begin \o end)[i] = begin[i]
          /\ \A j \in 1..Len(end) : (begin \o end)[Len(begin) + j] = end[j]
      BY <3>1, JoinedPlaces
    <3>3. Len(begin) = m + 1 /\ Len(end) = l
      BY <2>2, <2>4, Zenon
    <3>4. QED
      BY <2>1, <3>2, <3>3
  <2>7. /\ (\A i \in 1..m : i \in 1..m + 1) /\ m + 1 \in 1..m + 1
        /\ 1 \in 1..l /\ m + 1 + 1 = m + 2
        /\ \A j \in 2..l : /\ j \in 1..l /\ (j - 1) + 1 = j
                                      /\ j - 1 \in 1..l - 1
    BY <1>1, <1>6
  <2>8. /\ \A i \in 1..m : t.tasks[i] = Edge(v, out[v][i])
        /\ t.tasks[m + 1] = Close(v) /\ t.tasks[m + 2] = Back(u, v)
    BY <1>5, <2>3, <2>4, <2>6, <2>7
  <2>9. \A j \in 2..l : t.tasks[m + 1 + j] = s.tasks[j]
    BY ONLY <1>6, <2>5, <2>6, <2>7
  <2>10. QED
    BY <1>9, <2>6, <2>8, <2>9 DEF EntryPlaces, m, S, l
<1>10. QED
  BY <1>8, <1>9

\* Whatever a step does, the types stay.
LEMMA StepTyped ==
  ASSUME NEW n \in Nat, NEW s \in States(n), s.tasks # << >>, NEW out \in Out(n), NEW t,
         \/ Keeps(s, t)
         \/ \E v \in 1..n : Pops(s, t, v)
         \/ \E u \in 1..n, value \in Int : Lowers(s, t, u, value)
         \/ \E u \in 0..n, v \in 1..n : Enters(out, s, t, u, v)
  PROVE  t \in States(n)
<1>7. SUFFICES /\ Shaped(t)
               /\ t.time \in Nat /\ t.disc \in [1..n -> Int] /\ t.low \in [1..n -> Int]
               /\ t.stack \in Seq(1..n) /\ t.components \subseteq SUBSET (1..n)
               /\ t.tasks \in Seq(TaskSet(n))
  BY DEF States, Shaped
<1>1. /\ s.time \in Nat /\ s.disc \in [1..n -> Int] /\ s.low \in [1..n -> Int]
      /\ s.stack \in Seq(1..n) /\ s.components \subseteq SUBSET (1..n)
      /\ s.tasks \in Seq(TaskSet(n)) /\ Tail(s.tasks) \in Seq(TaskSet(n))
  BY StateParts, TailPlaces
<1>2. CASE Keeps(s, t)
  BY <1>1, <1>2, Zenon DEF Keeps, SameFinds
<1>3. CASE \E v \in 1..n : Pops(s, t, v)
  <2>1. PICK v \in 1..n : Pops(s, t, v)
    BY <1>3
  <2>2. PICK k \in DOMAIN s.stack :
           /\ t.stack = SubSeq(s.stack, k + 1, Len(s.stack))
           /\ t.components = s.components \cup {ToSet(SubSeq(s.stack, 1, k))}
    BY <2>1 DEF Pops
  <2>6. k \in 1..Len(s.stack)
    <3>1. DOMAIN s.stack = 1..Len(s.stack)
      BY <1>1, OnTheStack
    <3>2. QED
      BY <3>1, Zenon
  <2>3. t.stack \in Seq(1..n)
    <3>1. SubSeq(s.stack, k + 1, Len(s.stack)) \in Seq(1..n)
      BY <1>1, <2>6, PiecePlaces
    <3>2. t.stack = SubSeq(s.stack, k + 1, Len(s.stack))
      BY <2>2
    <3>3. QED
      BY <3>1, <3>2, Zenon
  <2>4. ToSet(SubSeq(s.stack, 1, k)) \subseteq 1..n
    <3>1. SubSeq(s.stack, 1, k) \in Seq(1..n)
      BY <1>1, <2>6, PiecePlaces
    <3> DEFINE q == SubSeq(s.stack, 1, k)
    <3> HIDE DEF q
    <3>2. q \in Seq(1..n) => ToSet(q) \subseteq 1..n
      BY DEF ToSet
    <3>3. QED
      BY <3>1, <3>2 DEF q
  <2>5. QED
    <3>1. t.components \subseteq SUBSET (1..n)
      BY <1>1, <2>2, <2>4
    <3>2. QED
      BY <1>1, <2>1, <2>3, <3>1, Zenon DEF Pops, SameFinds
<1>4. CASE \E u \in 1..n, value \in Int : Lowers(s, t, u, value)
  <2>1. PICK u \in 1..n, value \in Int : Lowers(s, t, u, value)
    BY <1>4
  <2>2. t.low \in [1..n -> Int]
    BY <1>1, <2>1 DEF Lowers
  <2>3. QED
    BY <1>1, <2>1, <2>2, Zenon DEF Lowers, SameFinds
<1>5. CASE \E u \in 0..n, v \in 1..n : Enters(out, s, t, u, v)
  <2>1. PICK u \in 0..n, v \in 1..n : Enters(out, s, t, u, v)
    BY <1>5
  <2>2. t.time \in Nat /\ t.disc \in [1..n -> Int] /\ t.low \in [1..n -> Int]
    <3>1. s.time + 1 \in Nat /\ s.time + 1 \in Int
      BY <1>1
    <3>2. /\ t.time = s.time + 1
          /\ t.disc = [s.disc EXCEPT ![v] = s.time + 1]
          /\ t.low = [s.low EXCEPT ![v] = s.time + 1]
      BY <2>1, Zenon DEF Enters
    <3>3. t.disc \in [1..n -> Int]
      BY <1>1, <3>1, <3>2, EntryReplaced
    <3>4. t.low \in [1..n -> Int]
      BY <1>1, <3>1, <3>2, EntryReplaced
    <3>5. QED
      BY <3>1, <3>2, <3>3, <3>4, Zenon
  <2>3. t.stack \in Seq(1..n)
    <3>1. t.stack = <<v>> \o s.stack /\ s.stack \in Seq(1..n)
      BY <1>1, <2>1, Zenon DEF Enters
    <3>2. <<v>> \in Seq(1..n)
      OBVIOUS
    <3>3. QED
      BY <3>1, <3>2, JoinedPlaces
  <2>4. QED
    <3>1. t.tasks \in Seq(TaskSet(n))
      BY <2>1, EntersPlaces
    <3>2. t.components = s.components /\ Shaped(t)
      BY <2>1, Zenon DEF Enters
    <3>3. QED
      BY <1>1, <2>2, <2>3, <3>1, <3>2
<1>6. QED
  BY <1>2, <1>3, <1>4, <1>5

-----------------------------------------------------------------------------
(***************************************************************************)
(* What the search knows after every step. The nodes on the stack are      *)
(* those of the components that are not complete; every one of them        *)
(* reaches an open one and all younger ones. What low says of a node is    *)
(* true, and of an open node it says enough once no younger one is open    *)
(* and its edges are followed.                                             *)
(***************************************************************************)

(* The nodes that were discovered, those on the stack, those still open    *)
(* (they are to be closed), the edges still to be followed, and when a     *)
(* node was discovered, 0 standing for the root of all.                    *)
Discovered(s) == {v \in DOMAIN s.disc : s.disc[v] # -1}
On(s) == ToSet(s.stack)
Open(tasks) ==
  {v \in {task.to : task \in ToSet(tasks)} : \E i \in DOMAIN tasks : tasks[i] = Close(v)}
Pending(tasks, u, v) == \E i \in DOMAIN tasks : tasks[i] = Edge(u, v)
Depth(disc, u) == IF u = 0 THEN 0 ELSE disc[u]

\* Every node is discovered at a time of its own.
Times(s) ==
  \A v \in Discovered(s) : /\ s.disc[v] \in 1..s.time
                        /\ \A w \in Discovered(s) : s.disc[v] = s.disc[w] => v = w

\* The stack holds nodes in the order they were discovered in.
Stacked(s) ==
  \A i \in DOMAIN s.stack :
    /\ s.stack[i] \in Discovered(s)
    /\ \A j \in DOMAIN s.stack : i < j => s.disc[s.stack[j]] < s.disc[s.stack[i]]

\* The tasks go along edges,
Legit(out, tasks) ==
  \A i \in DOMAIN tasks :
    /\ tasks[i].do # "close" /\ tasks[i].from # 0 => HasEdge(out, tasks[i].from, tasks[i].to)
    /\ tasks[i].do = "back" => tasks[i].from # 0
    /\ tasks[i].do = "close" => tasks[i].from = tasks[i].to

\* from nodes that are still open,
Owned(tasks) == \A i \in DOMAIN tasks : tasks[i].from # 0 => tasks[i].from \in Open(tasks)

\* those of the last one entered first,
Deepest(disc, tasks) ==
  \A i, j \in DOMAIN tasks : i < j =>
    /\ Depth(disc, tasks[j].from) <= Depth(disc, tasks[i].from)
    /\ tasks[i].do = "close" => Depth(disc, tasks[j].from) < Depth(disc, tasks[i].from)

\* and what a node found is taken over as soon as it is closed.
Returns(s) ==
  \A i \in DOMAIN s.tasks : s.tasks[i].do = "back" =>
    LET u == s.tasks[i].from
        v == s.tasks[i].to
    IN  /\ v \in Discovered(s) /\ s.disc[u] < s.disc[v]
        /\ i > 1 => s.tasks[i - 1] = Close(v)
        /\ i = 1 => v \in On(s) \/ s.low[v] = s.disc[v]

\* After a node is closed comes what hands its result on.
Follows(tasks) ==
  \A i \in DOMAIN tasks : tasks[i].do = "close" /\ i + 1 \in DOMAIN tasks =>
    \/ tasks[i + 1].from = 0
    \/ tasks[i + 1].do = "back" /\ tasks[i + 1].to = tasks[i].from

\* The list of tasks, as the calls of the recursion leave it.
TasksStand(out, s) ==
  /\ Legit(out, s.tasks) /\ Owned(s.tasks) /\ Deepest(s.disc, s.tasks)
  /\ Returns(s) /\ Follows(s.tasks) /\ Open(s.tasks) \subseteq On(s)

\* Every node on the stack reaches one that is open and not younger,
Anchored(out, s) ==
  \A x \in On(s) : \E g \in Open(s.tasks) : s.disc[g] <= s.disc[x] /\ g \in Reaches(out, x)

\* and all that are younger.
Ordered(out, s) ==
  \A x, y \in On(s) : s.disc[x] <= s.disc[y] => y \in Reaches(out, x)

\* low[x] is when some node x reaches was discovered,
LowSound(out, s) ==
  \A x \in On(s) : \E y \in On(s) :
    s.low[x] = s.disc[y] /\ s.disc[y] <= s.disc[x] /\ y \in Reaches(out, x)

(* and no edge from a node that is closed, or is no longer looked at, goes *)
(* further down than the open node below it knows.                         *)
LowComplete(out, s) ==
  \A g \in Open(s.tasks) : \A x, y \in On(s) :
    HasEdge(out, x, y) /\ s.disc[g] <= s.disc[x] =>
      \/ s.low[g] <= s.disc[y]
      \/ \E h \in Open(s.tasks) : s.disc[g] < s.disc[h] /\ s.disc[h] <= s.disc[x]
      \/ x = g /\ Pending(s.tasks, x, y)
      \/ \E c \in Discovered(s) : s.tasks[1] = Back(g, c) /\ s.low[c] <= s.disc[y]

\* Edges that are not followed yet are among the tasks,
Explored(out, s) ==
  /\ \A x \in Discovered(s) : \A y : HasEdge(out, x, y) => y \in Discovered(s) \/ Pending(s.tasks, x, y)
  /\ \A v \in DOMAIN s.disc : v \in Discovered(s) \/ Pending(s.tasks, 0, v)

\* and what was taken from the stack is in the component it belongs to.
Taken(s) == Discovered(s) \ On(s)

(* A component that was taken is complete: no edge leaves what was taken,  *)
(* and each is the component of every node in it.                          *)
Components(out, s) ==
  /\ \A x \in Taken(s) : \A y : HasEdge(out, x, y) => y \in Taken(s)
  /\ UNION s.components = Taken(s)
  /\ \A c \in s.components : c # {} /\ \A x \in c : c = Mutual(out, x)

\* All of it: the invariant of the search.
Searching(out, s) ==
  /\ Times(s) /\ Stacked(s) /\ TasksStand(out, s)
  /\ Anchored(out, s) /\ Ordered(out, s)
  /\ LowSound(out, s) /\ LowComplete(out, s)
  /\ Explored(out, s) /\ Components(out, s)

-----------------------------------------------------------------------------
(***************************************************************************)
(* How the list of tasks changes when its first task is taken.             *)
(***************************************************************************)

\* Open nodes are those a close is a task for.
LEMMA OpenIs ==
  ASSUME NEW n \in Nat, NEW tasks \in Seq(TaskSet(n)), NEW v
  PROVE  /\ v \in Open(tasks) <=> \E i \in 1..Len(tasks) : tasks[i] = Close(v)
         /\ v \in Open(tasks) => v \in 1..n
         /\ DOMAIN tasks = 1..Len(tasks) /\ \A i \in 1..Len(tasks) : tasks[i] \in TaskSet(n)
<1>1. DOMAIN tasks = 1..Len(tasks) /\ \A i \in 1..Len(tasks) : tasks[i] \in TaskSet(n)
  OBVIOUS
<1>2. Close(v).to = v
  BY DEF Close
<1>3. v \in Open(tasks) <=> \E i \in 1..Len(tasks) : tasks[i] = Close(v)
  BY <1>1, <1>2, Zenon DEF Open, ToSet
<1>4. v \in Open(tasks) => v \in 1..n
  BY <1>1, <1>2, <1>3 DEF TaskSet
<1>5. QED
  BY <1>1, <1>3, <1>4

\* A close is of one node only.
LEMMA CloseIs ==
  ASSUME NEW n \in Nat, NEW out, NEW tasks \in Seq(TaskSet(n)), Legit(out, tasks),
         NEW i \in 1..Len(tasks), tasks[i].do = "close"
  PROVE  tasks[i] = Close(tasks[i].from) /\ tasks[i].from \in 1..n /\ tasks[i].from = tasks[i].to
<1>1. tasks[i] \in TaskSet(n) /\ i \in DOMAIN tasks
  OBVIOUS
<1>2. tasks[i].from = tasks[i].to
  BY <1>1, Zenon DEF Legit
<1>3. QED
  BY <1>1, <1>2 DEF TaskSet, Close

\* What is needed of the tasks, and what remains when the first is gone.
Standing(n, out, disc, tasks) ==
  /\ tasks \in Seq(TaskSet(n)) /\ tasks # << >> /\ disc \in [1..n -> Int]
  /\ Legit(out, tasks) /\ Owned(tasks) /\ Deepest(disc, tasks) /\ Follows(tasks)
Remaining(tasks, rest) ==
  /\ tasks[1].do # "close" => Open(rest) = Open(tasks)
  /\ tasks[1].do = "close" => Open(rest) = Open(tasks) \ {tasks[1].from}
  /\ \A x, y : Pending(tasks, x, y) <=> Pending(rest, x, y) \/ tasks[1] = Edge(x, y)

\* The rest of the tasks stands as they did.
LEMMA TailTasks ==
  ASSUME NEW n \in Nat, NEW out, NEW disc, NEW tasks, Standing(n, out, disc, tasks),
         NEW rest, rest = Tail(tasks)
  PROVE  /\ Legit(out, rest) /\ Owned(rest) /\ Deepest(disc, rest) /\ Follows(rest)
         /\ Remaining(tasks, rest)
<1>0. /\ tasks \in Seq(TaskSet(n)) /\ tasks # << >> /\ disc \in [1..n -> Int]
      /\ Legit(out, tasks) /\ Owned(tasks) /\ Deepest(disc, tasks) /\ Follows(tasks)
  BY DEF Standing
<1> DEFINE l == Len(tasks)
<1>1. /\ rest \in Seq(TaskSet(n)) /\ tasks[1] \in TaskSet(n)
      /\ l \in Nat /\ l >= 1 /\ Len(rest) = l - 1
      /\ \A i \in 1..l - 1 : rest[i] = tasks[i + 1]
      /\ DOMAIN tasks = 1..l /\ DOMAIN rest = 1..l - 1
      /\ \A i \in 1..l : tasks[i] \in TaskSet(n)
  BY <1>0, TailPlaces
<1> HIDE DEF l
<1>2. \A i \in 1..l - 1 : i + 1 \in 1..l /\ i + 1 # 1
  BY <1>1
<1>3. \A i \in 1..l : i # 1 => i - 1 \in 1..l - 1 /\ rest[i - 1] = tasks[i] /\ 1 < i
  <2>1. \A i \in 1..l : i # 1 => i - 1 \in 1..l - 1 /\ i - 1 + 1 = i /\ 1 < i
    BY <1>1
  <2>2. QED
    BY <1>1, <2>1
<1>4. \A v : /\ v \in Open(tasks) <=> \E i \in 1..l : tasks[i] = Close(v)
             /\ v \in Open(rest) <=> \E i \in 1..l - 1 : rest[i] = Close(v)
  BY <1>0, <1>1, OpenIs DEF l
<1>5. Legit(out, rest)
  <2>1. \A i \in 1..l - 1 : rest[i] = tasks[i + 1] /\ i + 1 \in DOMAIN tasks /\ i + 1 \in 1..l
    BY <1>1, <1>2
  <2>2. QED
    <3>1. SUFFICES ASSUME NEW i \in 1..l - 1
                   PROVE  /\ rest[i].do # "close" /\ rest[i].from # 0
                             => HasEdge(out, rest[i].from, rest[i].to)
                          /\ rest[i].do = "back" => rest[i].from # 0
                          /\ rest[i].do = "close" => rest[i].from = rest[i].to
      BY <1>1, Zenon DEF Legit
    <3>2. rest[i] = tasks[i + 1] /\ i + 1 \in DOMAIN tasks
      BY <2>1, Zenon
    <3>3. QED
      BY <1>0, <3>2, Zenon DEF Legit
<1>6. Follows(rest)
  <2>1. SUFFICES ASSUME NEW i \in 1..l - 1, rest[i].do = "close", i + 1 \in 1..l - 1
                 PROVE  \/ rest[i + 1].from = 0
                        \/ rest[i + 1].do = "back" /\ rest[i + 1].to = rest[i].from
    BY <1>1 DEF Follows
  <2>2. rest[i] = tasks[i + 1] /\ rest[i + 1] = tasks[i + 1 + 1] /\ i + 1 \in DOMAIN tasks
        /\ i + 1 + 1 \in DOMAIN tasks
    BY <1>1, <1>2, <2>1
  <2>3. QED
    BY <1>0, <2>1, <2>2 DEF Follows
<1>7. Deepest(disc, rest)
  <2>1. SUFFICES ASSUME NEW i \in 1..l - 1, NEW j \in 1..l - 1, i < j
                 PROVE  /\ Depth(disc, rest[j].from) <= Depth(disc, rest[i].from)
                        /\ rest[i].do = "close" => Depth(disc, rest[j].from) < Depth(disc, rest[i].from)
    BY <1>1 DEF Deepest
  <2>2. rest[i] = tasks[i + 1] /\ rest[j] = tasks[j + 1] /\ i + 1 \in DOMAIN tasks
        /\ j + 1 \in DOMAIN tasks /\ i + 1 < j + 1
    BY <1>1, <1>2, <2>1
  <2>3. QED
    BY <1>0, <2>2 DEF Deepest
\* The node closed first is not that of a later task.
<1>8. ASSUME NEW i \in 1..l - 1, tasks[1].do = "close" PROVE rest[i].from # tasks[1].from
  <2>1. rest[i] = tasks[i + 1] /\ i + 1 \in DOMAIN tasks /\ 1 \in DOMAIN tasks /\ 1 < i + 1
    BY <1>1, <1>2
  <2>2. Depth(disc, tasks[i + 1].from) < Depth(disc, tasks[1].from)
    BY <1>0, <1>8, <2>1 DEF Deepest
  <2>3. Depth(disc, tasks[1].from) \in Int
    <3>1. tasks[1].from \in 0..n
      BY <1>1, TaskIs
    <3>2. QED
      BY <1>0, <3>1 DEF Depth
  <2> DEFINE d == Depth(disc, tasks[1].from)
  <2>4. rest[i].from = tasks[1].from => d < d
    BY <2>1, <2>2
  <2>5. d \in Int
    BY <2>3
  <2> HIDE DEF d
  <2>6. ~ (d < d)
    BY ONLY <2>5
  <2>7. QED
    BY <2>4, <2>6
<1>9. ASSUME tasks[1].do = "close"
      PROVE  tasks[1] = Close(tasks[1].from)
  <2>1. 1 \in 1..Len(tasks)
    BY <1>1 DEF l
  <2>2. QED
    BY <1>0, <1>9, <2>1, CloseIs
<1>10. \A v : Close(v).from = v /\ Close(v).do = "close"
  BY DEF Close
<1>11. Open(rest) \subseteq Open(tasks)
  BY <1>1, <1>2, <1>4
<1>12. ASSUME NEW v \in Open(tasks), v \notin Open(rest) PROVE tasks[1] = Close(v)
  <2>1. PICK i \in 1..l : tasks[i] = Close(v)
    BY <1>4
  <2>2. i = 1
    BY <1>3, <1>4, <1>12, <2>1
  <2>3. QED
    BY <2>1, <2>2
<1>13. Owned(rest)
  <2>1. SUFFICES ASSUME NEW i \in 1..l - 1, rest[i].from # 0 PROVE rest[i].from \in Open(rest)
    BY <1>1 DEF Owned
  <2>2. rest[i].from \in Open(tasks)
    BY <1>0, <1>1, <1>2, <2>1 DEF Owned
  <2>3. SUFFICES ASSUME rest[i].from \notin Open(rest) PROVE FALSE
    OBVIOUS
  <2>4. tasks[1] = Close(rest[i].from)
    BY <1>12, <2>2, <2>3
  <2>5. tasks[1].do = "close" /\ tasks[1].from = rest[i].from
    BY <1>10, <2>4
  <2>6. QED
    BY <1>8, <2>5
<1>14. tasks[1].do # "close" => Open(rest) = Open(tasks)
  BY <1>10, <1>11, <1>12
<1>15. tasks[1].do = "close" => Open(rest) = Open(tasks) \ {tasks[1].from}
  <2>1. SUFFICES ASSUME tasks[1].do = "close" PROVE Open(rest) = Open(tasks) \ {tasks[1].from}
    OBVIOUS
  <2>2. tasks[1].from \notin Open(rest)
    <3>1. SUFFICES ASSUME NEW i \in 1..l - 1, rest[i] = Close(tasks[1].from) PROVE FALSE
      BY <1>4
    <3>2. QED
      BY <1>8, <1>10, <2>1, <3>1
  <2>3. \A v \in Open(tasks) : v \notin Open(rest) => v = tasks[1].from
    BY <1>10, <1>12
  <2>4. QED
    BY <1>11, <2>2, <2>3
<1>16. \A x, y : Pending(tasks, x, y) <=> Pending(rest, x, y) \/ tasks[1] = Edge(x, y)
  <2>1. 1 \in 1..l
    BY <1>1
  <2>2. QED
    <3>1. ASSUME NEW x, NEW y, Pending(tasks, x, y), tasks[1] # Edge(x, y)
          PROVE  Pending(rest, x, y)
      <4>1. PICK i \in 1..l : tasks[i] = Edge(x, y)
        BY <1>1, <3>1, Zenon DEF Pending
      <4>2. i # 1
        BY <3>1, <4>1
      <4>3. i - 1 \in DOMAIN rest /\ rest[i - 1] = Edge(x, y)
        BY <1>1, <1>3, <4>1, <4>2
      <4>4. QED
        BY <4>3, Zenon DEF Pending
    <3>2. ASSUME NEW x, NEW y, Pending(rest, x, y) PROVE Pending(tasks, x, y)
      <4>1. PICK i \in 1..l - 1 : rest[i] = Edge(x, y)
        BY <1>1, <3>2, Zenon DEF Pending
      <4>2. i + 1 \in DOMAIN tasks /\ tasks[i + 1] = Edge(x, y)
        BY <1>1, <1>2, <4>1
      <4>3. QED
        BY <4>2, Zenon DEF Pending
    <3>3. \A x, y : tasks[1] = Edge(x, y) => Pending(tasks, x, y)
      BY <1>1, <2>1, Zenon DEF Pending
    <3>4. QED
      BY <3>1, <3>2, <3>3, Zenon
<1>17. QED
  BY <1>5, <1>6, <1>7, <1>13, <1>14, <1>15, <1>16, Zenon DEF Remaining

\* Nodes on the stack were discovered, each at a time of its own.
LEMMA OnDiscovered ==
  ASSUME NEW n \in Nat, NEW s \in States(n), Times(s), Stacked(s)
  PROVE  /\ On(s) \subseteq Discovered(s) /\ Discovered(s) \subseteq 1..n
         /\ \A v \in Discovered(s) : s.disc[v] \in 1..s.time /\ s.disc[v] \in Int
         /\ \A v, w \in Discovered(s) : s.disc[v] = s.disc[w] => v = w
<1>1. s.disc \in [1..n -> Int] /\ s.stack \in Seq(1..n) /\ s.time \in Nat
  BY StateParts
<1>2. Discovered(s) \subseteq 1..n
  BY <1>1 DEF Discovered
<1>3. On(s) \subseteq Discovered(s)
  BY Zenon DEF On, Stacked, ToSet
<1>4. \A v \in Discovered(s) : s.disc[v] \in 1..s.time
  BY Zenon DEF Times
<1>5. \A v, w \in Discovered(s) : s.disc[v] = s.disc[w] => v = w
  BY Zenon DEF Times
<1>6. \A v \in Discovered(s) : s.disc[v] \in Int
  BY <1>1, <1>2
<1>7. QED
  BY <1>2, <1>3, <1>4, <1>5, <1>6

\* The first task belongs to the open node discovered last.
LEMMA HeadFacts ==
  ASSUME NEW n \in Nat, NEW out \in Out(n), NEW s \in States(n), s.tasks # << >>,
         Times(s), Stacked(s), TasksStand(out, s), Anchored(out, s)
  PROVE  LET task == s.tasks[1]
         IN  /\ Head(s.tasks) = task /\ task \in TaskSet(n)
             /\ task.from \in 0..n /\ task.to \in 1..n
             /\ \A g \in Open(s.tasks) : s.disc[g] <= Depth(s.disc, task.from)
             /\ task.from = 0 => Open(s.tasks) = {} /\ On(s) = {}
             /\ task.from # 0 => task.from \in Open(s.tasks)
             /\ task.do # "close" /\ task.from # 0 => HasEdge(out, task.from, task.to)
             /\ task.do = "back" => task.from # 0
             /\ task.do = "close" => task.from = task.to /\ task = Close(task.from)
<1> DEFINE tasks == s.tasks
           task == s.tasks[1]
<1>1. /\ s.disc \in [1..n -> Int] /\ tasks \in Seq(TaskSet(n))
      /\ Legit(out, tasks) /\ Owned(tasks) /\ Deepest(s.disc, tasks) /\ Open(tasks) \subseteq On(s)
  BY StateParts DEF TasksStand
<1>2. /\ Head(tasks) = task /\ task \in TaskSet(n) /\ 1 \in DOMAIN tasks
      /\ DOMAIN tasks = 1..Len(tasks) /\ 1 \in 1..Len(tasks)
  BY <1>1, TailPlaces
<1>3. task.from \in 0..n /\ task.to \in 1..n
  BY <1>2, TaskIs
<1> HIDE DEF task, tasks
<1>4. /\ On(s) \subseteq Discovered(s) /\ Discovered(s) \subseteq 1..n
      /\ \A v \in Discovered(s) : s.disc[v] \in 1..s.time /\ s.disc[v] \in Int
  BY OnDiscovered
<1>5. ASSUME NEW g \in Open(tasks) PROVE s.disc[g] <= Depth(s.disc, task.from)
  <2>1. PICK i \in 1..Len(tasks) : tasks[i] = Close(g)
    BY <1>1, OpenIs
  <2>2. g \in 1..n /\ g # 0 /\ s.disc[g] \in Int
    BY <1>1, <1>4
  <2>3. Depth(s.disc, tasks[i].from) = s.disc[g]
    BY <2>1, <2>2 DEF Depth, Close
  <2>4. CASE i = 1
    BY <2>2, <2>3, <2>4 DEF task, tasks
  <2>5. CASE i # 1
    <3>1. 1 < i /\ i \in DOMAIN tasks
      BY <1>2, <2>5
    <3>2. QED
      BY <1>1, <1>2, <2>3, <3>1 DEF Deepest, task, tasks
  <2>6. QED
    BY <2>4, <2>5
<1>6. task.from = 0 => Open(tasks) = {}
  <2>1. ASSUME NEW g \in Open(tasks), task.from = 0 PROVE FALSE
    <3>1. s.disc[g] <= 0
      BY <1>5, <2>1 DEF Depth
    <3>2. s.disc[g] \in 1..s.time
      BY <1>1, <1>4
    <3>3. QED
      BY <3>1, <3>2
  <2>2. QED
    BY <2>1
<1>7. task.from = 0 => On(s) = {}
  BY <1>6, Zenon DEF Anchored, tasks
<1>8. task.from # 0 => task.from \in Open(tasks)
  BY <1>1, <1>2 DEF Owned, task, tasks
<1>9. /\ task.do # "close" /\ task.from # 0 => HasEdge(out, task.from, task.to)
      /\ task.do = "back" => task.from # 0
      /\ task.do = "close" => task.from = task.to
  BY <1>1, <1>2, Zenon DEF Legit, task, tasks
<1>10. task.do = "close" => task = Close(task.from)
  BY <1>2, <1>9, TaskIs
<1>11. QED
  BY <1>2, <1>3, <1>5, <1>6, <1>7, <1>8, <1>9, <1>10 DEF task, tasks

\* What does not touch the stack keeps what is known of it.
LEMMA SameStack ==
  ASSUME NEW out, NEW s, NEW t, SameFinds(s, t), t.stack = s.stack, t.components = s.components,
         Times(s), Stacked(s), Ordered(out, s), Components(out, s)
  PROVE  /\ Discovered(t) = Discovered(s) /\ On(t) = On(s)
         /\ Times(t) /\ Stacked(t) /\ Ordered(out, t) /\ Components(out, t)
<1>1. Discovered(t) = Discovered(s) /\ On(t) = On(s) /\ t.disc = s.disc /\ t.time = s.time
  BY DEF SameFinds, Discovered, On
<1>2. Taken(t) = Taken(s)
  BY <1>1 DEF Taken
<1>3. Times(t) /\ Stacked(t)
  BY <1>1, Zenon DEF Times, Stacked
<1>4. Ordered(out, t)
  BY <1>1, Zenon DEF Ordered
<1>5. Components(out, t)
  BY <1>2, Zenon DEF Components
<1>6. QED
  BY <1>1, <1>3, <1>4, <1>5

(* The tasks stand after the first is taken, when the nodes left open are  *)
(* on the stack.                                                           *)
LEMMA TasksAfter ==
  ASSUME NEW n \in Nat, NEW out \in Out(n), NEW s \in States(n), s.tasks # << >>,
         NEW t, t.disc = s.disc, t.tasks = Tail(s.tasks),
         Times(s), Stacked(s), TasksStand(out, s),
         Open(t.tasks) \subseteq On(t),
         \A v : s.tasks[1] = Close(v) => v \in On(t) \/ t.low[v] = t.disc[v]
  PROVE  TasksStand(out, t)
<1> DEFINE tasks == s.tasks
           rest == Tail(tasks)
<1>1. /\ s.disc \in [1..n -> Int] /\ tasks \in Seq(TaskSet(n)) /\ tasks # << >>
      /\ Legit(out, tasks) /\ Owned(tasks) /\ Deepest(s.disc, tasks) /\ Follows(tasks)
  BY StateParts DEF TasksStand
<1>2. Legit(out, rest) /\ Owned(rest) /\ Deepest(s.disc, rest) /\ Follows(rest)
  <2>1. Standing(n, out, s.disc, tasks)
    BY <1>1 DEF Standing
  <2>2. QED
    BY <2>1, TailTasks
<1>3. /\ DOMAIN tasks = 1..Len(tasks) /\ DOMAIN rest = 1..Len(tasks) - 1 /\ Len(tasks) \in Nat
      /\ \A i \in 1..Len(tasks) - 1 : rest[i] = tasks[i + 1]
  BY <1>1, TailPlaces
<1> HIDE DEF tasks, rest
<1>4. ASSUME NEW i \in DOMAIN rest, rest[i].do = "back"
      PROVE  LET u == rest[i].from
                 v == rest[i].to
             IN  /\ v \in Discovered(t) /\ t.disc[u] < t.disc[v]
                 /\ i > 1 => rest[i - 1] = Close(v)
                 /\ i = 1 => v \in On(t) \/ t.low[v] = t.disc[v]
  <2>1. /\ i \in Nat /\ i >= 1 /\ i + 1 \in DOMAIN tasks /\ rest[i] = tasks[i + 1] /\ i + 1 > 1
        /\ i + 1 - 1 = i
        /\ i > 1 => i - 1 \in 1..Len(tasks) - 1 /\ i - 1 + 1 = i
    BY <1>3
  <2>2. /\ tasks[i + 1].to \in Discovered(s)
        /\ s.disc[tasks[i + 1].from] < s.disc[tasks[i + 1].to]
        /\ tasks[i] = Close(tasks[i + 1].to)
    <3>1. Returns(s)
      BY DEF TasksStand
    <3> DEFINE j == i + 1
    <3>2. tasks[j].do = "back" /\ j \in DOMAIN tasks /\ j > 1
      BY <1>4, <2>1
    <3> HIDE DEF j
    <3>3. /\ tasks[j].to \in Discovered(s) /\ s.disc[tasks[j].from] < s.disc[tasks[j].to]
          /\ tasks[j - 1] = Close(tasks[j].to)
      BY <3>1, <3>2, Zenon DEF Returns, tasks
    <3>4. j - 1 = i
      BY <2>1 DEF j
    <3>5. QED
      BY <3>3, <3>4 DEF j
  <2>3. tasks[i] = Close(rest[i].to)
    BY <2>1, <2>2
  <2>4. i > 1 => rest[i - 1] = tasks[i]
    BY <1>3, <2>1
  <2>5. i = 1 => rest[i].to \in On(t) \/ t.low[rest[i].to] = t.disc[rest[i].to]
    BY <2>3 DEF tasks
  <2>6. Discovered(t) = Discovered(s)
    BY DEF Discovered
  <2>7. QED
    BY <2>1, <2>2, <2>3, <2>4, <2>5, <2>6
<1>5. Returns(t)
  BY <1>4, Zenon DEF Returns, rest, tasks
<1>6. QED
  BY <1>2, <1>5 DEF TasksStand, rest, tasks

\* What is open once the first task is taken.
LEMMA AfterOpen ==
  ASSUME NEW n \in Nat, NEW out, NEW s \in States(n), s.tasks # << >>,
         TasksStand(out, s), NEW t, t.tasks = Tail(s.tasks)
  PROVE  Remaining(s.tasks, t.tasks)
<1>1. Standing(n, out, s.disc, s.tasks)
  BY StateParts DEF TasksStand, Standing
<1>2. QED
  BY <1>1, TailTasks

-----------------------------------------------------------------------------
(***************************************************************************)
(* Looking along an edge to a node that was discovered, and taking over    *)
(* what a visit found.                                                     *)
(***************************************************************************)

(* A step that only lowers keeps the invariant, when what low says stays   *)
(* right.                                                                  *)
LEMMA OpenKept ==
  ASSUME NEW n \in Nat, NEW out \in Out(n), NEW s \in States(n), s.tasks # << >>,
         Searching(out, s), NEW t,
         SameFinds(s, t), t.stack = s.stack, t.components = s.components, t.tasks = Tail(s.tasks),
         s.tasks[1].do # "close", s.tasks[1].do = "edge" => s.tasks[1].to \in Discovered(s),
         LowSound(out, t), LowComplete(out, t)
  PROVE  Searching(out, t)
<1> DEFINE tasks == s.tasks
           rest == Tail(tasks)
<1>1. /\ Times(s) /\ Stacked(s) /\ TasksStand(out, s)
      /\ Anchored(out, s) /\ Ordered(out, s)
      /\ Explored(out, s) /\ Components(out, s)
  BY DEF Searching
<1>2. /\ Discovered(t) = Discovered(s) /\ On(t) = On(s) /\ t.disc = s.disc
      /\ Times(t) /\ Stacked(t) /\ Ordered(out, t) /\ Components(out, t)
  BY <1>1, SameStack DEF SameFinds
<1>3. /\ Open(rest) = Open(tasks)
      /\ \A x, y : Pending(tasks, x, y) <=> Pending(rest, x, y) \/ tasks[1] = Edge(x, y)
  BY <1>1, AfterOpen DEF Remaining
<1>4. t.tasks = rest
  OBVIOUS
<1>5. TasksStand(out, t)
  <2>1. Open(t.tasks) \subseteq On(t)
    BY <1>1, <1>2, <1>3, <1>4 DEF TasksStand
  <2>2. \A v : s.tasks[1] # Close(v)
    BY DEF Close
  <2>3. QED
    BY <1>1, <1>2, <2>1, <2>2, TasksAfter
<1> HIDE DEF tasks, rest
<1>6. Anchored(out, t)
  BY <1>1, <1>2, <1>3, <1>4, Zenon DEF Anchored, tasks
<1>7. Explored(out, t)
  <2>1. \A x, y : Pending(tasks, x, y) => y \in Discovered(s) \/ Pending(rest, x, y)
    <3>1. ASSUME NEW x, NEW y, tasks[1] = Edge(x, y) PROVE y \in Discovered(s)
      <4>1. tasks[1].do = "edge" /\ tasks[1].to = y
        BY <3>1 DEF Edge
      <4>2. QED
        BY <4>1 DEF tasks
    <3>2. QED
      BY <1>3, <3>1
  <2>2. QED
    BY <1>1, <1>2, <1>4, <2>1 DEF Explored, tasks
<1>8. QED
  BY <1>2, <1>5, <1>6, <1>7 DEF Searching

\* What is lowered to a node on the stack that u reaches is right.
LEMMA LowerSound ==
  ASSUME NEW n \in Nat, NEW out \in Out(n), NEW s \in States(n), NEW t,
         Times(s), Stacked(s), LowSound(out, s),
         NEW u \in On(s), NEW value \in Int, Lowers(s, t, u, value),
         value < s.low[u] => \E y \in On(s) : value = s.disc[y] /\ y \in Reaches(out, u)
  PROVE  /\ LowSound(out, t)
         /\ \A x \in 1..n : t.low[x] \in Int /\ t.low[x] <= s.low[x]
         /\ t.low[u] <= value
<1>1. /\ s.disc \in [1..n -> Int] /\ s.low \in [1..n -> Int]
      /\ On(s) \subseteq 1..n
  BY StateParts, OnDiscovered
<1>2. /\ t.low = [s.low EXCEPT ![u] = IF value < s.low[u] THEN value ELSE s.low[u]]
      /\ t.disc = s.disc /\ On(t) = On(s)
  BY DEF Lowers, SameFinds, On
<1>3. u \in 1..n
  BY <1>1
<1>4. /\ \A x \in 1..n : x # u => t.low[x] = s.low[x]
      /\ t.low[u] = IF value < s.low[u] THEN value ELSE s.low[u]
      /\ \A x \in 1..n : s.low[x] \in Int /\ s.disc[x] \in Int
  BY <1>1, <1>2, <1>3
<1>5. (\A x \in 1..n : t.low[x] \in Int /\ t.low[x] <= s.low[x]) /\ t.low[u] <= value
  <2>1. ASSUME NEW x \in 1..n PROVE t.low[x] \in Int /\ t.low[x] <= s.low[x]
    <3>1. CASE x = u
      BY <1>4, <3>1
    <3>2. CASE x # u
      BY <1>4, <3>2
    <3>3. QED
      BY <3>1, <3>2
  <2>2. t.low[u] <= value
    BY <1>3, <1>4
  <2>3. QED
    BY <2>1, <2>2
<1>6. ASSUME NEW x \in On(s)
      PROVE  \E y \in On(s) : t.low[x] = s.disc[y] /\ s.disc[y] <= s.disc[x] /\ y \in Reaches(out, x)
  <2>1. PICK y \in On(s) : s.low[x] = s.disc[y] /\ s.disc[y] <= s.disc[x] /\ y \in Reaches(out, x)
    BY DEF LowSound
  <2>2. CASE x = u /\ value < s.low[u]
    <3>1. PICK z \in On(s) : value = s.disc[z] /\ z \in Reaches(out, u)
      BY <2>2
    <3>2. s.disc[z] <= s.disc[x] /\ t.low[x] = s.disc[z]
      <4>1. s.disc[x] \in Int /\ s.disc[y] \in Int /\ s.disc[z] \in Int
        BY <1>1, <1>4
      <4>2. QED
        BY <1>4, <2>1, <2>2, <3>1, <4>1
    <3>3. QED
      BY <2>2, <3>1, <3>2
  <2>3. CASE ~ (x = u /\ value < s.low[u])
    <3>1. t.low[x] = s.low[x]
      BY <1>1, <1>4, <2>3
    <3>2. QED
      BY <2>1, <3>1
  <2>4. QED
    BY <2>2, <2>3
<1>7. QED
  BY <1>2, <1>5, <1>6 DEF LowSound

\* An edge to a node that was discovered keeps the invariant,
LEMMA EdgeSeen ==
  ASSUME NEW n \in Nat, NEW out \in Out(n), NEW s \in States(n), s.tasks # << >>,
         Searching(out, s), NEW t,
         s.tasks[1].do = "edge", s.disc[s.tasks[1].to] # -1,
         \/ Lowers(s, t, s.tasks[1].from, s.disc[s.tasks[1].to])
              /\ s.tasks[1].from # 0 /\ s.tasks[1].to \in On(s)
         \/ Keeps(s, t) /\ ~ (s.tasks[1].from # 0 /\ s.tasks[1].to \in On(s))
  PROVE  Searching(out, t)
<1> DEFINE u == s.tasks[1].from
           v == s.tasks[1].to
<1>1. /\ Times(s) /\ Stacked(s) /\ TasksStand(out, s) /\ Anchored(out, s)
      /\ LowSound(out, s) /\ LowComplete(out, s)
  BY DEF Searching
<1>2. /\ s.tasks[1] \in TaskSet(n) /\ u \in 0..n /\ v \in 1..n
      /\ u # 0 => u \in Open(s.tasks) /\ HasEdge(out, u, v)
  BY <1>1, HeadFacts
<1>3. /\ On(s) \subseteq Discovered(s) /\ Discovered(s) \subseteq 1..n
      /\ \A x \in Discovered(s) : s.disc[x] \in Int
      /\ s.low \in [1..n -> Int] /\ s.disc \in [1..n -> Int]
      /\ Open(s.tasks) \subseteq On(s)
  BY <1>1, OnDiscovered, StateParts DEF TasksStand
<1>4. v \in Discovered(s)
  BY <1>2, <1>3 DEF Discovered
<1>5. s.tasks[1] = Edge(u, v)
  BY <1>2, TaskIs
<1>6. /\ SameFinds(s, t) /\ t.stack = s.stack /\ t.components = s.components
      /\ t.tasks = Tail(s.tasks)
  BY DEF Lowers, Keeps
<1>7. /\ LowSound(out, t)
      /\ \A x \in On(s) : t.low[x] \in Int /\ t.low[x] <= s.low[x]
      /\ u # 0 /\ v \in On(s) => t.low[u] <= s.disc[v]
  <2>1. CASE Lowers(s, t, u, s.disc[v]) /\ u # 0 /\ v \in On(s)
    <3>1. u \in On(s) /\ s.disc[v] \in Int /\ u \in 1..n
      BY <1>2, <1>3, <1>4, <2>1
    <3>2. v \in Reaches(out, u)
      BY <1>2, <2>1, <3>1, ReachesRules
    <3>3. \E y \in On(s) : s.disc[v] = s.disc[y] /\ y \in Reaches(out, u)
      BY <2>1, <3>2
    <3>4. LowSound(out, t) /\ (\A x \in 1..n : t.low[x] \in Int /\ t.low[x] <= s.low[x])
          /\ t.low[u] <= s.disc[v]
      BY <1>1, <2>1, <3>1, <3>3, LowerSound
    <3>5. QED
      BY <1>3, <3>4
  <2>2. CASE Keeps(s, t) /\ ~ (u # 0 /\ v \in On(s))
    <3>1. t.low = s.low /\ t.disc = s.disc /\ On(t) = On(s)
      BY <2>2 DEF Keeps, SameFinds, On
    <3>2. LowSound(out, t)
      BY <1>1, <3>1, Zenon DEF LowSound
    <3>3. \A x \in On(s) : t.low[x] \in Int /\ t.low[x] <= s.low[x]
      BY <1>3, <3>1, SMTT(30)
    <3>4. QED
      BY <2>2, <3>2, <3>3
  <2>3. QED
    BY <2>1, <2>2
<1>8. /\ Open(t.tasks) = Open(s.tasks)
      /\ \A x, y : Pending(s.tasks, x, y) <=> Pending(t.tasks, x, y) \/ s.tasks[1] = Edge(x, y)
  <2>1. s.tasks[1].do # "close"
    OBVIOUS
  <2>2. QED
    BY <1>1, <1>6, <2>1, AfterOpen DEF Remaining
<1>9. On(t) = On(s) /\ t.disc = s.disc
  BY <1>6 DEF On, SameFinds
<1> HIDE DEF u, v
<1>10. LowComplete(out, t)
  <2>1. SUFFICES ASSUME NEW g \in Open(s.tasks), NEW x \in On(s), NEW y \in On(s),
                        HasEdge(out, x, y), s.disc[g] <= s.disc[x]
                 PROVE  \/ t.low[g] <= s.disc[y]
                        \/ \E h \in Open(s.tasks) : s.disc[g] < s.disc[h] /\ s.disc[h] <= s.disc[x]
                        \/ x = g /\ Pending(t.tasks, x, y)
    BY <1>8, <1>9, Zenon DEF LowComplete
  <2>2. \/ s.low[g] <= s.disc[y]
        \/ \E h \in Open(s.tasks) : s.disc[g] < s.disc[h] /\ s.disc[h] <= s.disc[x]
        \/ x = g /\ Pending(s.tasks, x, y)
        \/ \E c \in Discovered(s) : s.tasks[1] = Back(g, c) /\ s.low[c] <= s.disc[y]
    BY <1>1, <2>1, Zenon DEF LowComplete
  <2>3. CASE s.low[g] <= s.disc[y]
    <3>1. g \in On(s) /\ g \in 1..n /\ y \in Discovered(s)
      BY <1>3
    <3>2. t.low[g] <= s.low[g] /\ t.low[g] \in Int /\ s.low[g] \in Int /\ s.disc[y] \in Int
      BY <1>3, <1>7, <3>1
    <3>3. t.low[g] <= s.disc[y]
      BY <2>3, <3>2
    <3>4. QED
      BY <3>3
  <2>4. CASE x = g /\ Pending(s.tasks, x, y)
    <3>1. CASE s.tasks[1] = Edge(x, y)
      <4>1. x = u /\ y = v
        BY <1>5, <3>1 DEF Edge
      <4>2. u # 0
        BY <1>3, <4>1
      <4>3. t.low[g] <= s.disc[y]
        BY <1>7, <2>4, <4>1, <4>2
      <4>4. QED
        BY <4>3
    <3>2. CASE s.tasks[1] # Edge(x, y)
      BY <1>8, <2>4, <3>2
    <3>3. QED
      BY <3>1, <3>2
  <2>5. \A c : s.tasks[1] # Back(g, c)
    BY DEF Back
  <2>6. QED
    BY <2>2, <2>3, <2>4, <2>5
<1>11. QED
  BY <1>4, <1>6, <1>7, <1>10, OpenKept DEF v

\* and so does taking over what a visit found.
LEMMA BackTaken ==
  ASSUME NEW n \in Nat, NEW out \in Out(n), NEW s \in States(n), s.tasks # << >>,
         Searching(out, s), NEW t,
         s.tasks[1].do = "back",
         Lowers(s, t, s.tasks[1].from, s.low[s.tasks[1].to])
  PROVE  Searching(out, t)
<1> DEFINE u == s.tasks[1].from
           c == s.tasks[1].to
<1>1. /\ Times(s) /\ Stacked(s) /\ TasksStand(out, s) /\ Anchored(out, s)
      /\ LowSound(out, s) /\ LowComplete(out, s)
  BY DEF Searching
<1>2. /\ s.tasks[1] \in TaskSet(n) /\ u # 0 /\ u \in 0..n /\ c \in 1..n
      /\ u \in Open(s.tasks) /\ HasEdge(out, u, c)
  BY <1>1, HeadFacts
<1>3. /\ On(s) \subseteq Discovered(s) /\ Discovered(s) \subseteq 1..n
      /\ \A x \in Discovered(s) : s.disc[x] \in Int
      /\ s.low \in [1..n -> Int] /\ s.disc \in [1..n -> Int]
      /\ Open(s.tasks) \subseteq On(s)
  BY <1>1, OnDiscovered, StateParts DEF TasksStand
<1>4. /\ c \in Discovered(s) /\ s.disc[u] < s.disc[c]
      /\ c \in On(s) \/ s.low[c] = s.disc[c]
  <2>1. 1 \in DOMAIN s.tasks
    BY StateParts, TailPlaces
  <2>2. Returns(s)
    BY <1>1 DEF TasksStand
  <2>3. QED
    BY <2>1, <2>2 DEF Returns
<1>5. s.tasks[1] = Back(u, c)
  BY <1>2, TaskIs
<1>6. /\ SameFinds(s, t) /\ t.stack = s.stack /\ t.components = s.components
      /\ t.tasks = Tail(s.tasks)
  BY DEF Lowers
<1>7. u \in On(s) /\ u \in 1..n /\ s.low[c] \in Int /\ s.low[u] \in Int
      /\ s.disc[u] \in Int /\ s.disc[c] \in Int
  BY <1>2, <1>3
<1>8. s.low[u] <= s.disc[u]
  <2>1. PICK y \in On(s) : s.low[u] = s.disc[y] /\ s.disc[y] <= s.disc[u]
    BY <1>1, <1>7 DEF LowSound
  <2>2. QED
    BY <2>1
<1> HIDE DEF u, c
<1>9. s.low[c] < s.low[u] => \E y \in On(s) : s.low[c] = s.disc[y] /\ y \in Reaches(out, u)
  <2>1. SUFFICES ASSUME s.low[c] < s.low[u]
                 PROVE  \E y \in On(s) : s.low[c] = s.disc[y] /\ y \in Reaches(out, u)
    OBVIOUS
  <2>2. c \in On(s)
    BY <1>4, <1>7, <1>8, <2>1
  <2>3. PICK y \in On(s) : s.low[c] = s.disc[y] /\ y \in Reaches(out, c)
    BY <1>1, <2>2 DEF LowSound
  <2>4. Reaches(out, c) \subseteq Reaches(out, u)
    BY <1>2, <1>7, ReachesRules
  <2>5. QED
    BY <2>3, <2>4
<1>10. /\ LowSound(out, t) /\ (\A x \in 1..n : t.low[x] \in Int /\ t.low[x] <= s.low[x])
       /\ t.low[u] <= s.low[c]
  BY <1>1, <1>7, <1>9, LowerSound DEF u, c
<1>11. /\ Open(t.tasks) = Open(s.tasks)
       /\ \A x, y : Pending(s.tasks, x, y) <=> Pending(t.tasks, x, y) \/ s.tasks[1] = Edge(x, y)
  <2>1. s.tasks[1].do # "close"
    OBVIOUS
  <2>2. QED
    BY <1>1, <1>6, <2>1, AfterOpen DEF Remaining
<1>12. On(t) = On(s) /\ t.disc = s.disc
  BY <1>6 DEF On, SameFinds
<1>13. LowComplete(out, t)
  <2>1. SUFFICES ASSUME NEW g \in Open(s.tasks), NEW x \in On(s), NEW y \in On(s),
                        HasEdge(out, x, y), s.disc[g] <= s.disc[x]
                 PROVE  \/ t.low[g] <= s.disc[y]
                        \/ \E h \in Open(s.tasks) : s.disc[g] < s.disc[h] /\ s.disc[h] <= s.disc[x]
                        \/ x = g /\ Pending(t.tasks, x, y)
    BY <1>11, <1>12, Zenon DEF LowComplete
  <2>2. \/ s.low[g] <= s.disc[y]
        \/ \E h \in Open(s.tasks) : s.disc[g] < s.disc[h] /\ s.disc[h] <= s.disc[x]
        \/ x = g /\ Pending(s.tasks, x, y)
        \/ \E d \in Discovered(s) : s.tasks[1] = Back(g, d) /\ s.low[d] <= s.disc[y]
    BY <1>1, <2>1, Zenon DEF LowComplete
  <2>3. g \in On(s) /\ g \in 1..n /\ y \in Discovered(s) /\ s.disc[y] \in Int /\ s.low[g] \in Int
    BY <1>3
  <2>4. CASE s.low[g] <= s.disc[y]
    <3>1. t.low[g] <= s.low[g] /\ t.low[g] \in Int
      BY <1>10, <2>3
    <3>2. t.low[g] <= s.disc[y]
      BY <2>3, <2>4, <3>1
    <3>3. QED
      BY <3>2
  <2>5. CASE x = g /\ Pending(s.tasks, x, y)
    <3>1. s.tasks[1] # Edge(x, y)
      BY DEF Edge
    <3>2. QED
      BY <1>11, <2>5, <3>1
  <2>6. ASSUME NEW d \in Discovered(s), s.tasks[1] = Back(g, d), s.low[d] <= s.disc[y]
        PROVE  t.low[g] <= s.disc[y]
    <3>1. g = u /\ d = c
      BY <1>5, <2>6 DEF Back
    <3>2. t.low[u] \in Int
      BY <1>7, <1>10
    <3>3. QED
      BY <1>7, <1>10, <2>3, <2>6, <3>1, <3>2
  <2>7. QED
    BY <2>2, <2>4, <2>5, <2>6
<1>14. QED
  BY <1>6, <1>10, <1>13, OpenKept

-----------------------------------------------------------------------------
(***************************************************************************)
(* Closing a node: what low says of it is now all there is to say, and it  *)
(* is the root of a component exactly if that is when it was discovered.   *)
(***************************************************************************)

\* No edge is forgotten when a task that is none is taken.
LEMMA ExploredAfter ==
  ASSUME NEW n \in Nat, NEW out \in Out(n), NEW s \in States(n), s.tasks # << >>,
         TasksStand(out, s), NEW t, t.tasks = Tail(s.tasks), t.disc = s.disc,
         s.tasks[1].do # "edge", Explored(out, s)
  PROVE  Explored(out, t) /\ \A x, y : Pending(t.tasks, x, y) <=> Pending(s.tasks, x, y)
<1>1. \A x, y : Pending(s.tasks, x, y) <=> Pending(t.tasks, x, y) \/ s.tasks[1] = Edge(x, y)
  BY AfterOpen DEF Remaining
<1>2. \A x, y : s.tasks[1] # Edge(x, y)
  BY DEF Edge
<1>3. \A x, y : Pending(t.tasks, x, y) <=> Pending(s.tasks, x, y)
  BY <1>1, <1>2
<1>4. Discovered(t) = Discovered(s)
  BY DEF Discovered
<1>5. Explored(out, t)
  BY <1>3, <1>4, Zenon DEF Explored
<1>6. QED
  BY <1>3, <1>5

\* No edge of the node that is closed is left,
LEMMA ClosedIsDone ==
  ASSUME NEW n \in Nat, NEW out \in Out(n), NEW s \in States(n), s.tasks # << >>,
         Searching(out, s), s.tasks[1].do = "close",
         NEW v, v = s.tasks[1].to, NEW x \in On(s), NEW y \in On(s),
         HasEdge(out, x, y), s.disc[v] <= s.disc[x]
  PROVE  s.low[v] <= s.disc[y]
<1>1. /\ Times(s) /\ Stacked(s) /\ TasksStand(out, s) /\ Anchored(out, s) /\ LowComplete(out, s)
  BY DEF Searching
<1>2. /\ s.tasks[1] \in TaskSet(n) /\ v \in 1..n /\ s.tasks[1] = Close(v) /\ s.tasks[1].from = v
      /\ v \in Open(s.tasks)
      /\ \A g \in Open(s.tasks) : s.disc[g] <= Depth(s.disc, s.tasks[1].from)
  BY <1>1, HeadFacts
<1>3. /\ s.disc \in [1..n -> Int] /\ s.tasks \in Seq(TaskSet(n)) /\ Open(s.tasks) \subseteq 1..n
      /\ Deepest(s.disc, s.tasks)
  BY <1>1, StateParts, OpenIs DEF TasksStand
<1>4. Depth(s.disc, v) = s.disc[v] /\ s.disc[v] \in Int
  BY <1>2, <1>3 DEF Depth
<1>5. \A h \in Open(s.tasks) : ~ (s.disc[v] < s.disc[h])
  <2>1. ASSUME NEW h \in Open(s.tasks) PROVE s.disc[h] \in Int /\ s.disc[h] <= s.disc[v]
    BY <1>2, <1>3, <1>4
  <2>2. QED
    BY <1>4, <2>1
<1>6. ~ Pending(s.tasks, v, y)
  <2>1. SUFFICES ASSUME Pending(s.tasks, v, y) PROVE FALSE
    OBVIOUS
  <2>2. PICK i \in DOMAIN s.tasks : s.tasks[i] = Edge(v, y)
    BY <2>1 DEF Pending
  <2>3. i # 1
    <3>1. s.tasks[i].do = "edge"
      BY <2>2 DEF Edge
    <3>2. QED
      BY <3>1
  <2>4. 1 \in DOMAIN s.tasks /\ 1 < i
    <3>1. DOMAIN s.tasks = 1..Len(s.tasks) /\ Len(s.tasks) \in Nat
      BY <1>3
    <3> DEFINE l == Len(s.tasks)
    <3> HIDE DEF l
    <3>2. DOMAIN s.tasks = 1..l /\ l \in Nat
      BY <3>1 DEF l
    <3>3. QED
      BY <2>2, <2>3, <3>2
  <2>5. Depth(s.disc, s.tasks[i].from) < Depth(s.disc, s.tasks[1].from)
    BY <1>3, <2>4 DEF Deepest
  <2>6. s.tasks[i].from = v
    BY <2>2 DEF Edge
  <2>7. s.disc[v] < s.disc[v]
    BY <1>2, <1>4, <2>5, <2>6
  <2>8. QED
    BY ONLY <1>4, <2>7
<1>7. \A g, c : s.tasks[1] # Back(g, c)
  BY DEF Back
<1>8. QED
  BY <1>1, <1>2, <1>5, <1>6, <1>7 DEF LowComplete

\* and what it found is handed to the open node before it.
LEMMA CloseHandsBack ==
  ASSUME NEW n \in Nat, NEW out \in Out(n), NEW s \in States(n), s.tasks # << >>,
         TasksStand(out, s), Times(s), Stacked(s),
         s.tasks[1].do = "close", NEW v, v = s.tasks[1].from,
         NEW g \in Open(s.tasks), g # v
  PROVE  /\ 2 \in DOMAIN s.tasks /\ 1 \in DOMAIN s.tasks
         /\ s.tasks[2] = Back(s.tasks[2].from, v) /\ s.tasks[2].from \in Open(s.tasks)
         /\ s.disc[s.tasks[2].from] < s.disc[v] /\ v \in Discovered(s)
         /\ s.tasks[2].from # v
         /\ s.disc[g] <= s.disc[s.tasks[2].from]
<1> DEFINE tasks == s.tasks
           l == Len(tasks)
<1>1. /\ s.disc \in [1..n -> Int] /\ tasks \in Seq(TaskSet(n))
      /\ Legit(out, tasks) /\ Owned(tasks) /\ Deepest(s.disc, tasks) /\ Follows(tasks)
      /\ Returns(s) /\ Open(tasks) \subseteq On(s)
  BY StateParts DEF TasksStand
<1>2. /\ On(s) \subseteq Discovered(s) /\ Discovered(s) \subseteq 1..n
      /\ \A x \in Discovered(s) : s.disc[x] \in 1..s.time /\ s.disc[x] \in Int
  BY OnDiscovered
<1>3. /\ l \in Nat /\ l >= 1 /\ DOMAIN tasks = 1..l /\ \A i \in 1..l : tasks[i] \in TaskSet(n)
  BY <1>1, TailPlaces
<1> HIDE DEF tasks, l
<1>4. PICK k \in 1..l : tasks[k] = Close(g)
  BY <1>1, OpenIs DEF tasks, l
<1>5. k # 1
  BY <1>4 DEF Close, tasks
<1>6. 2 \in 1..l /\ 1 \in 1..l /\ k >= 2
  BY <1>3, <1>4, <1>5
<1>7. g \in 1..n /\ Depth(s.disc, tasks[k].from) = s.disc[g] /\ s.disc[g] >= 1 /\ s.disc[g] \in Int
  <2>1. g \in Discovered(s) /\ g \in 1..n /\ g # 0
    BY <1>1, <1>2 DEF tasks
  <2>2. tasks[k].from = g
    BY <1>4 DEF Close
  <2>3. QED
    BY <1>2, <2>1, <2>2 DEF Depth
<1> DEFINE u == tasks[2].from
<1>8. u \in 0..n /\ tasks[2].to \in 1..n /\ tasks[2] \in TaskSet(n)
  BY <1>3, <1>6, TaskIs
<1> HIDE DEF u
<1>9. Depth(s.disc, u) \in Int
  BY <1>1, <1>8 DEF Depth
<1>10. s.disc[g] <= Depth(s.disc, u)
  <2>1. CASE k = 2
    BY <1>7, <1>9, <2>1 DEF u
  <2>2. CASE k # 2
    <3>1. 2 < k /\ 2 \in DOMAIN tasks /\ k \in DOMAIN tasks
      BY <1>3, <1>4, <1>6, <2>2
    <3>2. Depth(s.disc, tasks[k].from) <= Depth(s.disc, tasks[2].from)
      BY <1>1, <3>1 DEF Deepest
    <3>3. QED
      BY <1>7, <3>2 DEF u
  <2>3. QED
    BY <2>1, <2>2
<1>11. u # 0
  <2>1. SUFFICES ASSUME u = 0 PROVE FALSE
    OBVIOUS
  <2>2. Depth(s.disc, u) = 0
    BY <2>1 DEF Depth
  <2>3. QED
    BY <1>7, <1>10, <2>2
<1>12. tasks[2].do = "back" /\ tasks[2].to = v
  <2>1. 1 \in DOMAIN tasks /\ 1 + 1 \in DOMAIN tasks /\ tasks[1].do = "close" /\ tasks[1].from = v
    BY <1>3, <1>6 DEF tasks
  <2>2. \/ tasks[1 + 1].from = 0
        \/ tasks[1 + 1].do = "back" /\ tasks[1 + 1].to = tasks[1].from
    BY <1>1, <2>1, Zenon DEF Follows
  <2>3. 1 + 1 = 2
    OBVIOUS
  <2>4. QED
    BY <1>11, <2>1, <2>2, <2>3 DEF u
<1>13. tasks[2] = Back(u, v)
  BY <1>8, <1>12, TaskIs DEF u
<1>14. u \in Open(tasks)
  BY <1>1, <1>3, <1>6, <1>11 DEF Owned, u
<1>15. v \in Discovered(s) /\ s.disc[u] < s.disc[v]
  BY <1>1, <1>3, <1>6, <1>12 DEF Returns, tasks, u
<1>16. Depth(s.disc, u) = s.disc[u] /\ s.disc[v] \in Int
  BY <1>1, <1>2, <1>11, <1>15 DEF Depth
<1>17. u # v
  BY <1>15, <1>16
<1>18. QED
  BY <1>3, <1>6, <1>10, <1>13, <1>14, <1>15, <1>16, <1>17 DEF tasks, u

\* A node that is no root stays on the stack.
LEMMA ClosedKept ==
  ASSUME NEW n \in Nat, NEW out \in Out(n), NEW s \in States(n), s.tasks # << >>,
         Searching(out, s), NEW t, Keeps(s, t),
         s.tasks[1].do = "close", s.low[s.tasks[1].to] # s.disc[s.tasks[1].to]
  PROVE  Searching(out, t)
<1> DEFINE v == s.tasks[1].from
<1>1. /\ Times(s) /\ Stacked(s) /\ TasksStand(out, s) /\ Anchored(out, s) /\ Ordered(out, s)
      /\ LowSound(out, s) /\ LowComplete(out, s) /\ Explored(out, s) /\ Components(out, s)
  BY DEF Searching
<1>2. /\ s.tasks[1] \in TaskSet(n) /\ v \in 1..n /\ s.tasks[1] = Close(v) /\ s.tasks[1].to = v
      /\ v \in Open(s.tasks)
  BY <1>1, HeadFacts
<1>3. /\ On(s) \subseteq Discovered(s) /\ Discovered(s) \subseteq 1..n
      /\ \A x \in Discovered(s) : s.disc[x] \in Int
      /\ \A x, y \in Discovered(s) : s.disc[x] = s.disc[y] => x = y
      /\ s.low \in [1..n -> Int] /\ s.disc \in [1..n -> Int]
      /\ Open(s.tasks) \subseteq On(s)
  BY <1>1, OnDiscovered, StateParts DEF TasksStand
<1>4. /\ SameFinds(s, t) /\ t.stack = s.stack /\ t.components = s.components
      /\ t.tasks = Tail(s.tasks) /\ t.low = s.low /\ t.disc = s.disc
  BY DEF Keeps, SameFinds
<1>5. /\ Discovered(t) = Discovered(s) /\ On(t) = On(s)
      /\ Times(t) /\ Stacked(t) /\ Ordered(out, t) /\ Components(out, t)
  BY <1>1, <1>4, SameStack
<1>6. Open(t.tasks) = Open(s.tasks) \ {v}
  BY <1>1, <1>4, AfterOpen DEF Remaining
<1>7. Explored(out, t) /\ \A x, y : Pending(t.tasks, x, y) <=> Pending(s.tasks, x, y)
  BY <1>1, <1>4, ExploredAfter
<1>8. TasksStand(out, t)
  <2>1. Open(t.tasks) \subseteq On(t)
    BY <1>3, <1>5, <1>6
  <2>2. ASSUME NEW w, s.tasks[1] = Close(w) PROVE w \in On(t)
    <3>1. w = v
      BY <2>2 DEF Close
    <3>2. QED
      BY <1>2, <1>3, <1>5, <3>1
  <2>3. QED
    BY <1>1, <1>4, <2>1, <2>2, TasksAfter
<1>9. s.low[v] # s.disc[v]
  BY <1>2
<1> HIDE DEF v
<1>10. Anchored(out, t)
  <2>1. SUFFICES ASSUME NEW x \in On(s)
                 PROVE  \E g \in Open(t.tasks) : s.disc[g] <= s.disc[x] /\ g \in Reaches(out, x)
    BY <1>4, <1>5 DEF Anchored
  <2>2. PICK g \in Open(s.tasks) : s.disc[g] <= s.disc[x] /\ g \in Reaches(out, x)
    BY <1>1 DEF Anchored
  <2>3. CASE g # v
    BY <1>6, <2>2, <2>3
  <2>4. CASE g = v
    <3>1. v \in On(s)
      BY <1>2, <1>3
    <3>2. PICK y \in On(s) : s.low[v] = s.disc[y] /\ s.disc[y] <= s.disc[v] /\ y \in Reaches(out, v)
      BY <1>1, <3>1 DEF LowSound
    <3>3. PICK h \in Open(s.tasks) : s.disc[h] <= s.disc[y] /\ h \in Reaches(out, y)
      BY <1>1 DEF Anchored
    <3>4. s.disc[x] \in Int /\ s.disc[y] \in Int /\ s.disc[v] \in Int /\ s.disc[h] \in Int
          /\ s.disc[v] <= s.disc[x]
      BY <1>3, <2>2, <2>4, <3>1
    <3>5. s.disc[h] < s.disc[v] /\ s.disc[h] <= s.disc[x]
      BY <1>9, <3>2, <3>3, <3>4
    <3>6. h # v
      BY <3>4, <3>5
    <3>7. h \in Reaches(out, x)
      <4>1. x \in 1..n /\ v \in Reaches(out, x)
        BY <1>3, <2>2, <2>4
      <4>2. Reaches(out, v) \subseteq Reaches(out, x)
        BY <4>1, ReachesRules
      <4>3. Reaches(out, y) \subseteq Reaches(out, v)
        BY <1>2, <3>2, ReachesRules
      <4>4. QED
        BY <3>3, <4>2, <4>3
    <3>8. QED
      BY <1>6, <3>5, <3>6, <3>7
  <2>5. QED
    BY <2>3, <2>4
<1>11. LowSound(out, t)
  BY <1>1, <1>4, <1>5, Zenon DEF LowSound
<1>12. LowComplete(out, t)
  <2>1. SUFFICES ASSUME NEW g \in Open(t.tasks), NEW x \in On(s), NEW y \in On(s),
                        HasEdge(out, x, y), s.disc[g] <= s.disc[x]
                 PROVE  \/ s.low[g] <= s.disc[y]
                        \/ \E h \in Open(t.tasks) : s.disc[g] < s.disc[h] /\ s.disc[h] <= s.disc[x]
                        \/ x = g /\ Pending(s.tasks, x, y)
                        \/ \E c \in Discovered(s) : t.tasks[1] = Back(g, c) /\ s.low[c] <= s.disc[y]
    BY <1>4, <1>5, <1>7, Zenon DEF LowComplete
  <2>2. g \in Open(s.tasks) /\ g # v /\ g \in On(s)
    BY <1>3, <1>6, <2>1
  <2>3. \/ s.low[g] <= s.disc[y]
        \/ \E h \in Open(s.tasks) : s.disc[g] < s.disc[h] /\ s.disc[h] <= s.disc[x]
        \/ x = g /\ Pending(s.tasks, x, y)
        \/ \E c \in Discovered(s) : s.tasks[1] = Back(g, c) /\ s.low[c] <= s.disc[y]
    BY <1>1, <2>1, <2>2, Zenon DEF LowComplete
  <2>4. \A c : s.tasks[1] # Back(g, c)
    BY DEF Back
  <2>5. ASSUME NEW h \in Open(s.tasks), s.disc[g] < s.disc[h], s.disc[h] <= s.disc[x]
        PROVE  \/ \E k \in Open(t.tasks) : s.disc[g] < s.disc[k] /\ s.disc[k] <= s.disc[x]
               \/ \E c \in Discovered(s) : t.tasks[1] = Back(g, c) /\ s.low[c] <= s.disc[y]
    <3>1. CASE h # v
      BY <1>6, <2>5, <3>1
    <3>2. CASE h = v
      <4> DEFINE u == s.tasks[2].from
      <4>1. s.low[v] <= s.disc[y]
        BY <1>2, <2>1, <2>5, <3>2, ClosedIsDone
      <4>2. /\ 2 \in DOMAIN s.tasks /\ s.tasks[2] = Back(u, v) /\ u \in Open(s.tasks)
            /\ s.disc[u] < s.disc[v] /\ v \in Discovered(s) /\ u # v
            /\ s.disc[g] <= s.disc[u]
        BY <1>1, <2>2, CloseHandsBack DEF v
      <4>3. t.tasks[1] = s.tasks[2]
        <5>1. s.tasks \in Seq(TaskSet(n))
          BY StateParts
        <5> DEFINE tasks == s.tasks
                   l == Len(tasks)
        <5>2. l \in Nat /\ DOMAIN tasks = 1..l /\ \A i \in 1..l - 1 : Tail(tasks)[i] = tasks[i + 1]
          BY <5>1, TailPlaces
        <5> HIDE DEF tasks, l
        <5>3. 2 \in 1..l
          BY <4>2, <5>2 DEF tasks
        <5>4. 1 \in 1..l - 1 /\ 1 + 1 = 2
          BY <5>2, <5>3
        <5>5. Tail(tasks)[1] = tasks[2]
          BY <5>2, <5>4
        <5>6. QED
          BY <1>4, <5>5 DEF tasks
      <4> HIDE DEF u
      <4>4. CASE u = g
        BY <4>1, <4>2, <4>3, <4>4
      <4>5. CASE u # g
        <5>1. /\ s.disc[u] \in Int /\ s.disc[g] \in Int /\ s.disc[v] \in Int /\ s.disc[x] \in Int
              /\ s.disc[u] # s.disc[g]
          BY <1>3, <2>2, <4>2, <4>5
        <5>2. s.disc[g] < s.disc[u] /\ s.disc[u] <= s.disc[x]
          BY <2>5, <3>2, <4>2, <5>1
        <5>3. QED
          BY <1>6, <4>2, <5>2
      <4>6. QED
        BY <4>4, <4>5
    <3>3. QED
      BY <3>1, <3>2
  <2>6. QED
    BY <2>3, <2>4, <2>5
<1>13. QED
  BY <1>5, <1>7, <1>8, <1>10, <1>11, <1>12 DEF Searching

\* The stack is cut at the node that is closed.
LEMMA CutStack ==
  ASSUME NEW n \in Nat, NEW s \in States(n), Times(s), Stacked(s), NEW v, NEW k \in DOMAIN s.stack,
         s.stack[k] = v, NEW t, SameFinds(s, t), t.stack = SubSeq(s.stack, k + 1, Len(s.stack))
  PROVE  /\ v \in On(s)
         /\ On(t) = {x \in On(s) : s.disc[x] < s.disc[v]}
         /\ ToSet(SubSeq(s.stack, 1, k)) = {x \in On(s) : s.disc[v] <= s.disc[x]}
         /\ Stacked(t)
<1> DEFINE q == s.stack
           l == Len(q)
           top == SubSeq(q, 1, k)
           under == SubSeq(q, k + 1, l)
           disc == s.disc
<1>1. q \in Seq(1..n) /\ disc \in [1..n -> Int]
  BY StateParts
<1>2. l \in Nat /\ DOMAIN q = 1..l /\ k \in 1..l
  <2>1. k \in DOMAIN q
    OBVIOUS
  <2> HIDE DEF q
  <2>2. QED
    BY ONLY <1>1, <2>1, SMTT(30)
<1>3. /\ under \in Seq(1..n) /\ Len(under) = l - k
      /\ \A i \in 1..l - k : under[i] = q[k + i]
      /\ top \in Seq(1..n) /\ Len(top) = k
      /\ \A i \in 1..k : top[i] = q[i]
  BY <1>1, <1>2, PiecePlaces
<1>4. DOMAIN under = 1..l - k /\ DOMAIN top = 1..k
  BY <1>2, <1>3, SMTT(30)
<1>5. /\ \A x : x \in On(s) <=> \E i \in 1..l : q[i] = x
      /\ \A x : x \in ToSet(top) <=> \E i \in 1..k : top[i] = x
      /\ \A x : x \in ToSet(under) <=> \E i \in 1..l - k : under[i] = x
  <2>1. \A x : x \in On(s) <=> \E i \in 1..l : q[i] = x
    BY <1>1, OnTheStack DEF On
  <2> HIDE DEF top, under, q, l
  <2>2. \A x : x \in ToSet(top) <=> \E i \in 1..k : top[i] = x
    BY <1>3, OnTheStack
  <2>3. \A x : x \in ToSet(under) <=> \E i \in 1..l - k : under[i] = x
    BY <1>3, OnTheStack
  <2>4. QED
    BY <2>1, <2>2, <2>3
<1>6. \A i \in 1..l : /\ q[i] \in Discovered(s) /\ disc[q[i]] \in Int
                      /\ \A j \in 1..l : i < j => disc[q[j]] < disc[q[i]]
  <2>1. \A i \in 1..l : /\ q[i] \in Discovered(s)
                        /\ \A j \in 1..l : i < j => disc[q[j]] < disc[q[i]]
    BY <1>2 DEF Stacked
  <2>2. \A x \in Discovered(s) : disc[x] \in Int
    BY OnDiscovered
  <2>3. QED
    BY <2>1, <2>2
<1>7. On(t) = ToSet(under) /\ t.stack = under /\ t.disc = disc /\ Discovered(t) = Discovered(s)
  BY DEF On, SameFinds, Discovered
<1>8. q[k] = v
  OBVIOUS
<1> HIDE DEF q, l, top, under, disc
<1>9. \A i \in 1..l - k : k + i \in 1..l /\ k < k + i
  BY <1>2
<1>10. \A i \in 1..l : i <= k \/ (i - k \in 1..l - k /\ k + (i - k) = i /\ k < i)
  BY <1>2
<1>11. \A i \in 1..k : i \in 1..l /\ i <= k
  BY <1>2
<1>12. ASSUME NEW i \in 1..l PROVE i <= k <=> disc[v] <= disc[q[i]]
  <2>1. disc[v] \in Int /\ disc[q[i]] \in Int
    BY <1>2, <1>6, <1>8
  <2>2. CASE i < k
    <3>1. disc[v] < disc[q[i]]
      BY <1>2, <1>6, <1>8, <2>2
    <3>2. QED
      BY <2>1, <2>2, <3>1, <1>2
  <2>3. CASE i = k
    BY <1>2, <1>8, <2>1, <2>3
  <2>4. CASE k < i
    <3>1. disc[q[i]] < disc[v]
      BY <1>2, <1>6, <1>8, <2>4
    <3>2. QED
      BY <2>1, <2>4, <3>1, <1>2
  <2>5. QED
    BY <1>2, <2>2, <2>3, <2>4
<1>13. ToSet(top) = {x \in On(s) : disc[v] <= disc[x]}
  <2>1. ASSUME NEW x \in ToSet(top) PROVE x \in On(s) /\ disc[v] <= disc[x]
    <3>1. PICK i \in 1..k : top[i] = x
      BY <1>5, <2>1
    <3>2. q[i] = x /\ i \in 1..l /\ i <= k
      BY <1>3, <1>11, <3>1
    <3>3. QED
      BY <1>5, <1>12, <3>2
  <2>2. ASSUME NEW x \in On(s), disc[v] <= disc[x] PROVE x \in ToSet(top)
    <3>1. PICK i \in 1..l : q[i] = x
      BY <1>5
    <3>2. i <= k
      BY <1>12, <2>2, <3>1
    <3>3. i \in 1..k
      BY <1>2, <3>2
    <3>4. QED
      BY <1>3, <1>5, <3>1, <3>3
  <2>3. QED
    BY <2>1, <2>2
<1>14. \A x \in On(s) : disc[x] \in Int
  BY <1>5, <1>6
<1>15. v \in On(s) /\ disc[v] \in Int
  BY <1>2, <1>5, <1>6, <1>8
<1>16. ToSet(under) = {x \in On(s) : disc[x] < disc[v]}
  <2>1. ASSUME NEW x \in ToSet(under) PROVE x \in On(s) /\ disc[x] < disc[v]
    <3>0. PICK i \in 1..l - k : under[i] = x
      BY <1>5, <2>1
    <3>1. q[k + i] = x
      BY <1>3, <3>0
    <3>2. k + i \in 1..l /\ k < k + i
      BY <1>9
    <3>3. QED
      BY <1>2, <1>5, <1>6, <1>8, <3>1, <3>2
  <2>2. ASSUME NEW x \in On(s), disc[x] < disc[v] PROVE x \in ToSet(under)
    <3>1. PICK i \in 1..l : q[i] = x
      BY <1>5
    <3>2. ~ (disc[v] <= disc[x])
      BY <1>14, <1>15, <2>2
    <3>3. ~ (i <= k)
      BY <1>12, <3>1, <3>2
    <3>4. i - k \in 1..l - k /\ k + (i - k) = i
      BY <1>10, <3>3
    <3>5. under[i - k] = x
      <4> DEFINE j == i - k
      <4>1. j \in 1..l - k /\ k + j = i
        BY <3>4
      <4> HIDE DEF j
      <4>2. under[j] = x
        BY <1>3, <3>1, <4>1
      <4>3. QED
        BY <4>2 DEF j
    <3>6. QED
      BY <1>5, <3>4, <3>5
  <2>3. QED
    BY <2>1, <2>2
<1>17. Stacked(t)
  <2>1. SUFFICES ASSUME NEW i \in 1..l - k
                 PROVE  /\ under[i] \in Discovered(s)
                        /\ \A j \in 1..l - k : i < j => disc[under[j]] < disc[under[i]]
    BY <1>4, <1>7 DEF Stacked
  <2>2. under[i] = q[k + i] /\ k + i \in 1..l
    BY <1>3, <1>9
  <2>3. ASSUME NEW j \in 1..l - k, i < j PROVE disc[under[j]] < disc[under[i]]
    <3>1. under[j] = q[k + j] /\ k + j \in 1..l /\ k + i < k + j
      BY <1>2, <1>3, <1>9, <2>3
    <3>2. QED
      BY <1>6, <2>2, <3>1
  <2>4. QED
    BY <1>6, <2>2, <2>3
<1>18. QED
  BY <1>7, <1>13, <1>15, <1>16, <1>17 DEF q, l, top, under, disc

\* An open node that is not older than the one closed is that one.
LEMMA NothingPending ==
  ASSUME NEW n \in Nat, NEW out \in Out(n), NEW s \in States(n), s.tasks # << >>,
         Searching(out, s), s.tasks[1].do = "close",
         NEW v, v = s.tasks[1].to, NEW x \in On(s), s.disc[v] <= s.disc[x], NEW y
  PROVE  ~ Pending(s.tasks, x, y)
<1>1. /\ Times(s) /\ Stacked(s) /\ TasksStand(out, s) /\ Anchored(out, s)
  BY DEF Searching
<1>2. /\ s.tasks[1] \in TaskSet(n) /\ v \in 1..n /\ s.tasks[1] = Close(v) /\ s.tasks[1].from = v
      /\ v \in Open(s.tasks)
  BY <1>1, HeadFacts
<1>3. /\ s.disc \in [1..n -> Int] /\ s.tasks \in Seq(TaskSet(n)) /\ On(s) \subseteq 1..n
      /\ Deepest(s.disc, s.tasks)
  BY <1>1, OnDiscovered, StateParts DEF TasksStand
<1>4. /\ Depth(s.disc, v) = s.disc[v] /\ s.disc[v] \in Int
      /\ Depth(s.disc, x) = s.disc[x] /\ s.disc[x] \in Int
  BY <1>2, <1>3, SMTT(30) DEF Depth
<1>5. SUFFICES ASSUME Pending(s.tasks, x, y) PROVE FALSE
  OBVIOUS
<1>6. PICK i \in DOMAIN s.tasks : s.tasks[i] = Edge(x, y)
  BY <1>5 DEF Pending
<1>7. s.tasks[i].do = "edge" /\ s.tasks[i].from = x
  BY <1>6 DEF Edge
<1>8. i # 1
  BY <1>7
<1>9. 1 \in DOMAIN s.tasks /\ 1 < i
  <2>1. DOMAIN s.tasks = 1..Len(s.tasks) /\ Len(s.tasks) \in Nat
    BY <1>3
  <2> DEFINE l == Len(s.tasks)
  <2> HIDE DEF l
  <2>2. DOMAIN s.tasks = 1..l /\ l \in Nat
    BY <2>1 DEF l
  <2>3. QED
    BY <1>6, <1>8, <2>2
<1>10. Depth(s.disc, s.tasks[i].from) < Depth(s.disc, s.tasks[1].from)
  BY <1>3, <1>9 DEF Deepest
<1>11. s.disc[x] < s.disc[v]
  BY <1>2, <1>4, <1>7, <1>10
<1>12. QED
  BY ONLY s.disc[v] <= s.disc[x], <1>4, <1>11

\* The nodes that are not older than the root of a component are one.
LEMMA RootedComponent ==
  ASSUME NEW n \in Nat, NEW out \in Out(n), NEW s \in States(n), s.tasks # << >>,
         Searching(out, s), s.tasks[1].do = "close",
         NEW v, v = s.tasks[1].to, s.low[v] = s.disc[v],
         NEW C, C = {x \in On(s) : s.disc[v] <= s.disc[x]}
  PROVE  /\ v \in C
         /\ \A x \in Taken(s) \cup C : \A y : HasEdge(out, x, y) => y \in Taken(s) \cup C
         /\ \A x \in C : C = Mutual(out, x)
<1>1. /\ Times(s) /\ Stacked(s) /\ TasksStand(out, s) /\ Anchored(out, s) /\ Ordered(out, s)
      /\ Explored(out, s) /\ Components(out, s)
  BY DEF Searching
<1>2. /\ s.tasks[1] \in TaskSet(n) /\ v \in 1..n /\ s.tasks[1].from = v
      /\ v \in Open(s.tasks)
      /\ \A g \in Open(s.tasks) : s.disc[g] <= Depth(s.disc, s.tasks[1].from)
  BY <1>1, HeadFacts
<1>3. /\ On(s) \subseteq Discovered(s) /\ Discovered(s) \subseteq 1..n
      /\ \A x \in Discovered(s) : s.disc[x] \in Int
      /\ Open(s.tasks) \subseteq On(s) /\ s.disc \in [1..n -> Int] /\ s.low \in [1..n -> Int]
  BY <1>1, OnDiscovered, StateParts DEF TasksStand
<1>4. v \in On(s) /\ s.disc[v] \in Int /\ v \in C
  BY <1>2, <1>3
<1>5. \A g \in Open(s.tasks) : s.disc[g] <= s.disc[v]
  <2>1. Depth(s.disc, v) = s.disc[v]
    BY <1>2 DEF Depth
  <2>2. QED
    BY <1>2, <2>1
<1>6. ASSUME NEW x \in C, NEW y, HasEdge(out, x, y) PROVE y \in Taken(s) \cup C
  <2>1. x \in On(s) /\ s.disc[v] <= s.disc[x] /\ x \in Discovered(s)
    BY <1>3
  <2>2. ~ Pending(s.tasks, x, y)
    BY <2>1, NothingPending
  <2>3. y \in Discovered(s)
    BY <1>1, <1>6, <2>1, <2>2 DEF Explored
  <2>4. CASE y \notin On(s)
    BY <2>3, <2>4 DEF Taken
  <2>5. CASE y \in On(s)
    <3>1. s.low[v] <= s.disc[y]
      BY <1>6, <2>1, <2>5, ClosedIsDone
    <3>2. QED
      BY <2>5, <3>1
  <2>6. QED
    BY <2>4, <2>5
<1>7. \A x \in Taken(s) : \A y : HasEdge(out, x, y) => y \in Taken(s)
  BY <1>1 DEF Components
<1>8. \A x \in Taken(s) \cup C : \A y : HasEdge(out, x, y) => y \in Taken(s) \cup C
  BY <1>6, <1>7
<1>9. Taken(s) \subseteq 1..n /\ C \subseteq 1..n /\ C \cap Taken(s) = {}
  BY <1>3 DEF Taken
<1>10. ASSUME NEW y \in C PROVE v \in Reaches(out, y) /\ y \in Reaches(out, v)
  <2>1. PICK g \in Open(s.tasks) : s.disc[g] <= s.disc[y] /\ g \in Reaches(out, y)
    BY <1>1 DEF Anchored
  <2>2. g \in On(s) /\ s.disc[g] <= s.disc[v]
    BY <1>3, <1>5, <2>1
  <2>3. v \in Reaches(out, g)
    BY <1>1, <1>4, <2>2 DEF Ordered
  <2>4. Reaches(out, g) \subseteq Reaches(out, y)
    BY <1>9, <2>1, ReachesRules
  <2>5. y \in Reaches(out, v)
    BY <1>1, <1>4 DEF Ordered
  <2>6. QED
    BY <2>3, <2>4, <2>5
<1>11. ASSUME NEW x \in C PROVE C = Mutual(out, x)
  <2>1. x \in 1..n /\ x \notin Taken(s)
    BY <1>9
  <2>2. ASSUME NEW y \in C PROVE y \in Mutual(out, x)
    <3>1. Reaches(out, v) \subseteq Reaches(out, x) /\ Reaches(out, v) \subseteq Reaches(out, y)
      BY <1>9, <1>10, ReachesRules
    <3>2. y \in Reaches(out, x) /\ x \in Reaches(out, y)
      BY <1>10, <3>1
    <3>3. QED
      BY <3>2 DEF Mutual
  <2>3. ASSUME NEW y \in Mutual(out, x) PROVE y \in C
    <3>1. y \in Reaches(out, x) /\ x \in Reaches(out, y)
      BY <2>3 DEF Mutual
    <3>2. Reaches(out, x) \subseteq Taken(s) \cup C
      <4> DEFINE D == Taken(s) \cup C
      <4>1. D \in SUBSET (1..n) /\ x \in D /\ ClosedUnder(out, D)
        BY <1>8, <1>9 DEF ClosedUnder
      <4> HIDE DEF D
      <4>2. Reaches(out, x) \subseteq D
        BY <2>1, <4>1, ReachesRules
      <4>3. QED
        BY <4>2 DEF D
    <3>3. CASE y \in Taken(s)
      <4> DEFINE D == Taken(s)
      <4>1. D \in SUBSET (1..n) /\ y \in D /\ ClosedUnder(out, D) /\ y \in 1..n
        BY <1>7, <1>9, <3>3 DEF ClosedUnder
      <4> HIDE DEF D
      <4>2. Reaches(out, y) \subseteq D
        BY <4>1, ReachesRules
      <4>3. QED
        BY <2>1, <3>1, <4>2 DEF D
    <3>4. QED
      BY <3>1, <3>2, <3>3
  <2>4. QED
    BY <2>2, <2>3
<1>12. QED
  BY <1>4, <1>8, <1>11

\* Taking the component of a root from the stack keeps the invariant.
LEMMA ComponentTaken ==
  ASSUME NEW n \in Nat, NEW out \in Out(n), NEW s \in States(n), s.tasks # << >>,
         Searching(out, s), NEW t, s.tasks[1].do = "close", NEW v, v = s.tasks[1].to,
         s.low[v] = s.disc[v], Pops(s, t, v)
  PROVE  Searching(out, t)
<1>1. /\ Times(s) /\ Stacked(s) /\ TasksStand(out, s) /\ Anchored(out, s) /\ Ordered(out, s)
      /\ LowSound(out, s) /\ LowComplete(out, s) /\ Explored(out, s) /\ Components(out, s)
  BY DEF Searching
<1>2. /\ s.tasks[1] \in TaskSet(n) /\ v \in 1..n /\ s.tasks[1] = Close(v) /\ s.tasks[1].from = v
      /\ v \in Open(s.tasks)
      /\ \A g \in Open(s.tasks) : s.disc[g] <= Depth(s.disc, s.tasks[1].from)
  BY <1>1, HeadFacts
<1>3. /\ On(s) \subseteq Discovered(s) /\ Discovered(s) \subseteq 1..n
      /\ \A x \in Discovered(s) : s.disc[x] \in Int
      /\ \A x, y \in Discovered(s) : s.disc[x] = s.disc[y] => x = y
      /\ Open(s.tasks) \subseteq On(s)
  BY <1>1, OnDiscovered DEF TasksStand
<1>4. \A g \in Open(s.tasks) : s.disc[g] <= s.disc[v]
  <2>1. Depth(s.disc, v) = s.disc[v]
    BY <1>2, SMTT(30) DEF Depth
  <2>2. QED
    BY <1>2, <2>1
<1> DEFINE C == {x \in On(s) : s.disc[v] <= s.disc[x]}
<1>5. /\ SameFinds(s, t) /\ t.low = s.low /\ t.disc = s.disc /\ t.time = s.time
      /\ t.tasks = Tail(s.tasks)
  BY DEF Pops, SameFinds
<1>6. /\ On(t) = {x \in On(s) : s.disc[x] < s.disc[v]}
      /\ t.components = s.components \cup {C}
      /\ Stacked(t)
  <2>1. PICK k \in DOMAIN s.stack :
          /\ s.stack[k] = v
          /\ t.stack = SubSeq(s.stack, k + 1, Len(s.stack))
          /\ t.components = s.components \cup {ToSet(SubSeq(s.stack, 1, k))}
    BY DEF Pops
  <2>2. /\ On(t) = {x \in On(s) : s.disc[x] < s.disc[v]}
        /\ ToSet(SubSeq(s.stack, 1, k)) = C
        /\ Stacked(t)
    BY <1>1, <1>5, <2>1, CutStack
  <2>3. QED
    BY <2>1, <2>2
<1>7. /\ v \in C
      /\ \A x \in Taken(s) \cup C : \A y : HasEdge(out, x, y) => y \in Taken(s) \cup C
      /\ \A x \in C : C = Mutual(out, x)
  <2>1. C = {x \in On(s) : s.disc[v] <= s.disc[x]}
    OBVIOUS
  <2> HIDE DEF C
  <2>2. QED
    BY <2>1, RootedComponent, SMTT(30)
<1>8. Discovered(t) = Discovered(s)
  BY <1>5 DEF Discovered
<1>9. On(t) \subseteq On(s) /\ \A x \in On(s) : x \in On(t) <=> s.disc[x] < s.disc[v]
  BY <1>6
<1>10. Taken(t) = Taken(s) \cup C
  <2>1. \A x \in On(s) : x \in C <=> ~ (x \in On(t))
    <3>1. s.disc[v] \in Int /\ \A x \in On(s) : s.disc[x] \in Int
      BY <1>2, <1>3
    <3>2. QED
      BY <1>9, <3>1
  <2>2. C \subseteq On(s)
    OBVIOUS
  <2> HIDE DEF C
  <2>3. QED
    BY <1>3, <1>8, <1>9, <2>1, <2>2 DEF Taken
<1> HIDE DEF C
<1>11. Components(out, t)
  <2>1. \A x \in Taken(t) : \A y : HasEdge(out, x, y) => y \in Taken(t)
    BY <1>7, <1>10
  <2>2. UNION t.components = Taken(t)
    <3>1. UNION s.components = Taken(s)
      BY <1>1 DEF Components
    <3>2. QED
      BY <1>6, <1>10, <3>1
  <2>3. \A c \in t.components : c # {} /\ \A x \in c : c = Mutual(out, x)
    BY <1>1, <1>6, <1>7 DEF Components
  <2>4. QED
    BY <2>1, <2>2, <2>3 DEF Components
<1>12. Open(t.tasks) = Open(s.tasks) \ {v}
  <2>1. Remaining(s.tasks, t.tasks)
    BY <1>1, <1>5, AfterOpen
  <2>2. QED
    BY <1>2, <2>1 DEF Remaining
<1>13. Explored(out, t) /\ \A x, y : Pending(t.tasks, x, y) <=> Pending(s.tasks, x, y)
  BY <1>1, <1>5, ExploredAfter
<1>14. TasksStand(out, t)
  <2>1. ASSUME NEW g \in Open(t.tasks) PROVE g \in On(t)
    <3>1. g \in Open(s.tasks) /\ g # v /\ g \in On(s) /\ v \in On(s)
      BY <1>2, <1>3, <1>12
    <3>2. s.disc[g] \in Int /\ s.disc[v] \in Int /\ s.disc[g] <= s.disc[v] /\ s.disc[g] # s.disc[v]
      BY <1>3, <1>4, <3>1
    <3>3. s.disc[g] < s.disc[v]
      BY <3>2
    <3>4. QED
      BY <1>9, <3>1, <3>3
  <2>2. ASSUME NEW w, s.tasks[1] = Close(w) PROVE t.low[w] = t.disc[w]
    <3>1. w = v
      BY <1>2, <2>2 DEF Close
    <3>2. QED
      BY <1>5, <3>1
  <2>3. QED
    BY <1>1, <1>5, <2>1, <2>2, TasksAfter
<1>15. Times(t)
  BY <1>1, <1>5, <1>8, Zenon DEF Times
<1>16. /\ s.disc[v] \in Int /\ \A x \in On(s) : s.disc[x] \in Int
       /\ \A x \in On(s) : \A y \in On(t) : s.disc[x] <= s.disc[y] => x \in On(t) /\ x # v
  <2>1. s.disc[v] \in Int /\ \A x \in On(s) : s.disc[x] \in Int
    BY <1>2, <1>3
  <2>2. ASSUME NEW x \in On(s), NEW y \in On(t), s.disc[x] <= s.disc[y] PROVE x \in On(t) /\ x # v
    <3>1. y \in On(s) /\ s.disc[y] < s.disc[v]
      BY <1>9
    <3>2. s.disc[x] < s.disc[v]
      BY <2>1, <2>2, <3>1
    <3>3. QED
      BY <1>9, <2>1, <3>2
  <2>3. QED
    BY <2>1, <2>2
<1>17. Anchored(out, t)
  <2>1. SUFFICES ASSUME NEW x \in On(t)
                 PROVE  \E g \in Open(t.tasks) : s.disc[g] <= s.disc[x] /\ g \in Reaches(out, x)
    BY <1>5 DEF Anchored
  <2>2. PICK g \in Open(s.tasks) : s.disc[g] <= s.disc[x] /\ g \in Reaches(out, x)
    BY <1>1, <1>9 DEF Anchored
  <2>3. g # v
    BY <1>3, <1>16, <2>1, <2>2
  <2>4. QED
    BY <1>12, <2>2, <2>3
<1>18. Ordered(out, t)
  BY <1>1, <1>5, <1>9, Zenon DEF Ordered
<1>19. LowSound(out, t)
  <2>1. SUFFICES ASSUME NEW x \in On(t)
                 PROVE  \E y \in On(t) : s.low[x] = s.disc[y] /\ s.disc[y] <= s.disc[x]
                                         /\ y \in Reaches(out, x)
    BY <1>5 DEF LowSound
  <2>2. PICK y \in On(s) : s.low[x] = s.disc[y] /\ s.disc[y] <= s.disc[x] /\ y \in Reaches(out, x)
    BY <1>1, <1>9 DEF LowSound
  <2>3. QED
    BY <1>16, <2>2
<1>20. LowComplete(out, t)
  <2>1. SUFFICES ASSUME NEW g \in Open(t.tasks), NEW x \in On(t), NEW y \in On(t),
                        HasEdge(out, x, y), s.disc[g] <= s.disc[x]
                 PROVE  \/ s.low[g] <= s.disc[y]
                        \/ \E h \in Open(t.tasks) : s.disc[g] < s.disc[h] /\ s.disc[h] <= s.disc[x]
                        \/ x = g /\ Pending(s.tasks, x, y)
    BY <1>5, <1>13, Zenon DEF LowComplete
  <2>2. \/ s.low[g] <= s.disc[y]
        \/ \E h \in Open(s.tasks) : s.disc[g] < s.disc[h] /\ s.disc[h] <= s.disc[x]
        \/ x = g /\ Pending(s.tasks, x, y)
        \/ \E c \in Discovered(s) : s.tasks[1] = Back(g, c) /\ s.low[c] <= s.disc[y]
    BY <1>1, <1>9, <1>12, <2>1 DEF LowComplete
  <2>3. \A c : s.tasks[1] # Back(g, c)
    BY DEF Back
  <2>4. \A h \in Open(s.tasks) : s.disc[h] <= s.disc[x] => h \in Open(t.tasks)
    BY <1>3, <1>12, <1>16
  <2>5. QED
    BY <2>2, <2>3, <2>4
<1>21. QED
  BY <1>6, <1>11, <1>13, <1>14, <1>15, <1>17, <1>18, <1>19, <1>20 DEF Searching

-----------------------------------------------------------------------------
(***************************************************************************)
(* Entering a node: it is on the stack, open, with all its edges to        *)
(* follow.                                                                 *)
(***************************************************************************)

\* What is known of the edge along which a node is entered.
ComesFrom(n, out, s, u, v) ==
  /\ u \in 0..n /\ v \in 1..n /\ v # 0 /\ u # v /\ s.tasks[1] = Edge(u, v)
  /\ v \notin Discovered(s)
  /\ u # 0 => u \in Open(s.tasks) /\ u \in On(s) /\ HasEdge(out, u, v)
  /\ u = 0 => Open(s.tasks) = {} /\ On(s) = {}
  /\ \A g \in Open(s.tasks) : s.disc[g] <= s.disc[u]

\* The edge comes from the open node discovered last.
LEMMA EnteredFrom ==
  ASSUME NEW n \in Nat, NEW out \in Out(n), NEW s \in States(n), s.tasks # << >>,
         Searching(out, s), s.tasks[1].do = "edge",
         NEW u, u = s.tasks[1].from, NEW v, v = s.tasks[1].to, s.disc[v] = -1
  PROVE  ComesFrom(n, out, s, u, v)
<1>1. /\ Times(s) /\ Stacked(s) /\ TasksStand(out, s) /\ Anchored(out, s)
  BY DEF Searching
<1>2. /\ s.tasks[1] \in TaskSet(n) /\ u \in 0..n /\ v \in 1..n
      /\ \A g \in Open(s.tasks) : s.disc[g] <= Depth(s.disc, u)
      /\ u = 0 => Open(s.tasks) = {} /\ On(s) = {}
      /\ u # 0 => u \in Open(s.tasks) /\ HasEdge(out, u, v)
  <2>1. s.tasks[1].do # "close"
    OBVIOUS
  <2>2. QED
    BY <1>1, <2>1, HeadFacts
<1>3. s.tasks[1] = Edge(u, v)
  BY <1>2, TaskIs
<1>4. On(s) \subseteq Discovered(s) /\ Open(s.tasks) \subseteq On(s)
  BY <1>1, OnDiscovered DEF TasksStand
<1>5. v \notin Discovered(s)
  BY DEF Discovered
<1>6. u # v
  BY <1>2, <1>4, <1>5
<1>7. \A g \in Open(s.tasks) : s.disc[g] <= s.disc[u]
  BY <1>2 DEF Depth
<1>8. v # 0
  BY <1>2
<1>9. QED
  BY <1>2, <1>3, <1>4, <1>5, <1>6, <1>7, <1>8, Zenon DEF ComesFrom

\* What a node that is entered changes.
Finds(n, s, t, v) ==
  /\ t.disc \in [1..n -> Int] /\ t.low \in [1..n -> Int]
  /\ t.disc[v] = s.time + 1 /\ t.low[v] = s.time + 1
  /\ \A x \in 1..n : x # v => t.disc[x] = s.disc[x] /\ t.low[x] = s.low[x]
  /\ Discovered(t) = Discovered(s) \cup {v} /\ On(t) = On(s) \cup {v} /\ Taken(t) = Taken(s)
  /\ \A x \in Discovered(s) : t.disc[x] = s.disc[x] /\ s.disc[x] < s.time + 1
  /\ Times(t) /\ Stacked(t)

\* The node is discovered later than all others.
LEMMA EnteredFinds ==
  ASSUME NEW n \in Nat, NEW out \in Out(n), NEW s \in States(n), NEW t,
         Times(s), Stacked(s), NEW u, NEW v \in 1..n, v \notin Discovered(s), Enters(out, s, t, u, v)
  PROVE  Finds(n, s, t, v)
<1>1. /\ s.time \in Nat /\ s.disc \in [1..n -> Int] /\ s.low \in [1..n -> Int] /\ s.stack \in Seq(1..n)
  BY StateParts
<1>2. /\ t.time = s.time + 1
      /\ t.disc = [s.disc EXCEPT ![v] = s.time + 1]
      /\ t.low = [s.low EXCEPT ![v] = s.time + 1]
      /\ t.stack = <<v>> \o s.stack
  BY DEF Enters
<1>3. /\ t.disc \in [1..n -> Int] /\ t.low \in [1..n -> Int]
      /\ t.disc[v] = s.time + 1 /\ t.low[v] = s.time + 1
      /\ \A x \in 1..n : x # v => t.disc[x] = s.disc[x] /\ t.low[x] = s.low[x]
  <2>1. s.time + 1 \in Int
    BY <1>1
  <2>2. /\ t.disc \in [1..n -> Int] /\ t.disc[v] = s.time + 1
        /\ \A x \in 1..n : x # v => t.disc[x] = s.disc[x]
    <3>1. s.disc \in [1..n -> Int] /\ t.disc = [s.disc EXCEPT ![v] = s.time + 1]
      BY <1>1, <1>2, Zenon
    <3>2. QED
      BY ONLY <3>1, <2>1, n \in Nat, v \in 1..n, EntryReplaced
  <2>3. /\ t.low \in [1..n -> Int] /\ t.low[v] = s.time + 1
        /\ \A x \in 1..n : x # v => t.low[x] = s.low[x]
    <3>1. s.low \in [1..n -> Int] /\ t.low = [s.low EXCEPT ![v] = s.time + 1]
      BY <1>1, <1>2, Zenon
    <3>2. QED
      BY ONLY <3>1, <2>1, n \in Nat, v \in 1..n, EntryReplaced
  <2>4. QED
    BY <2>2, <2>3, Zenon
<1>4. Discovered(t) = Discovered(s) \cup {v}
  <2>1. s.time + 1 # -1
    BY <1>1
  <2>2. DOMAIN t.disc = 1..n /\ DOMAIN s.disc = 1..n
    BY <1>1, <1>3
  <2>3. QED
    BY <1>3, <2>1, <2>2 DEF Discovered
<1>5. /\ On(s) \subseteq Discovered(s) /\ Discovered(s) \subseteq 1..n
      /\ \A x \in Discovered(s) : s.disc[x] \in 1..s.time
      /\ \A x, y \in Discovered(s) : s.disc[x] = s.disc[y] => x = y
  BY OnDiscovered
<1>6. \A x \in Discovered(s) : t.disc[x] = s.disc[x] /\ s.disc[x] < s.time + 1
  <2>1. ASSUME NEW x \in Discovered(s) PROVE t.disc[x] = s.disc[x] /\ s.disc[x] < s.time + 1
    <3>1. x \in 1..n /\ x # v /\ s.disc[x] \in 1..s.time
      BY <1>5
    <3>2. t.disc[x] = s.disc[x]
      BY <1>3, <3>1
    <3>3. \A d \in 1..s.time : d < s.time + 1
      BY <1>1
    <3>4. QED
      BY <3>1, <3>2, <3>3
  <2>2. QED
    BY <2>1
<1> DEFINE q == s.stack
           l == Len(q)
           r == t.stack
<1>7. /\ l \in Nat /\ Len(r) = l + 1 /\ r \in Seq(1..n)
      /\ r[1] = v /\ \A j \in 1..l : r[1 + j] = q[j]
      /\ DOMAIN r = 1..l + 1 /\ DOMAIN q = 1..l
  <2> DEFINE a == <<v>>
  <2>1. a \in Seq(1..n) /\ Len(a) = 1 /\ a[1] = v /\ q \in Seq(1..n) /\ r = a \o q /\ 1 \in 1..1
    BY <1>1, <1>2
  <2>2. l \in Nat /\ DOMAIN q = 1..l
    BY <2>1
  <2> HIDE DEF a, q, r
  <2> DEFINE S == 1..n
  <2>9. a \in Seq(S) /\ q \in Seq(S)
    BY <2>1
  <2> HIDE DEF S
  <2>8. /\ a \o q \in Seq(S) /\ Len(a \o q) = Len(a) + Len(q)
        /\ \A i \in 1..Len(a) : (a \o q)[i] = a[i]
        /\ \A j \in 1..Len(q) : (a \o q)[Len(a) + j] = q[j]
    BY <2>9, JoinedPlaces
  <2>3. /\ a \o q \in Seq(1..n) /\ Len(a \o q) = Len(a) + Len(q)
        /\ \A i \in 1..Len(a) : (a \o q)[i] = a[i]
        /\ \A j \in 1..Len(q) : (a \o q)[Len(a) + j] = q[j]
    BY <2>8 DEF S
  <2>4. r \in Seq(1..n) /\ Len(r) = 1 + l /\ r[1] = v /\ \A j \in 1..l : r[1 + j] = q[j]
    BY <2>1, <2>3
  <2>5. DOMAIN r = 1..Len(r)
    BY <2>4
  <2>6. Len(r) = l + 1
    BY <2>2, <2>4
  <2>7. QED
    BY <2>2, <2>4, <2>5, <2>6
<1>8. /\ \A x : x \in On(s) <=> \E i \in 1..l : q[i] = x
      /\ \A x : x \in On(t) <=> \E i \in 1..l + 1 : r[i] = x
  <2>1. \A x : x \in On(s) <=> \E i \in 1..l : q[i] = x
    BY <1>1, OnTheStack DEF On
  <2>2. \A x : x \in On(t) <=> \E i \in 1..Len(r) : r[i] = x
    BY <1>7, OnTheStack DEF On
  <2>3. QED
    BY <1>7, <2>1, <2>2
<1>9. \A i \in 1..l : /\ q[i] \in Discovered(s)
                      /\ \A j \in 1..l : i < j => s.disc[q[j]] < s.disc[q[i]]
  BY <1>7 DEF Stacked
<1> HIDE DEF q, l, r
<1>10. \A i \in 1..l + 1 : i = 1 \/ \E j \in 1..l : i = 1 + j
  <2>1. ASSUME NEW i \in 1..l + 1, i # 1 PROVE i - 1 \in 1..l /\ i = 1 + (i - 1)
    BY <1>7, <2>1
  <2>2. QED
    BY <2>1
<1>11. 1 \in 1..l + 1 /\ \A j \in 1..l : 1 + j \in 1..l + 1
  BY <1>7
<1>12. On(t) = On(s) \cup {v}
  <2>1. ASSUME NEW x \in On(t) PROVE x \in On(s) \/ x = v
    <3>1. PICK i \in 1..l + 1 : r[i] = x
      BY <1>8, <2>1
    <3>2. CASE i = 1
      BY <1>7, <3>1, <3>2
    <3>3. ASSUME NEW j \in 1..l, i = 1 + j PROVE x \in On(s)
      BY <1>7, <1>8, <3>1, <3>3
    <3>4. QED
      BY <1>10, <3>2, <3>3
  <2>2. v \in On(t)
    BY <1>7, <1>8, <1>11
  <2>3. ASSUME NEW x \in On(s) PROVE x \in On(t)
    <3>1. PICK j \in 1..l : q[j] = x
      BY <1>8, <2>3
    <3>2. r[1 + j] = x /\ 1 + j \in 1..l + 1
      BY <1>7, <1>11, <3>1
    <3>3. QED
      BY <1>8, <3>2
  <2>4. QED
    BY <2>1, <2>2, <2>3
<1>13. Taken(t) = Taken(s)
  BY <1>4, <1>5, <1>12 DEF Taken
<1>14. Times(t)
  <2>1. ASSUME NEW x \in Discovered(t) PROVE t.disc[x] \in 1..t.time
    <3>1. CASE x = v
      BY <1>1, <1>2, <1>3, <3>1
    <3>2. CASE x # v
      <4>1. x \in Discovered(s) /\ s.disc[x] \in 1..s.time /\ t.disc[x] = s.disc[x]
        BY <1>4, <1>5, <1>6, <2>1, <3>2
      <4>2. QED
        BY <1>1, <1>2, <4>1
    <3>3. QED
      BY <3>1, <3>2
  <2>2. ASSUME NEW x \in Discovered(t), NEW y \in Discovered(t), t.disc[x] = t.disc[y] PROVE x = y
    <3>1. \A w \in Discovered(t) : w # v => w \in Discovered(s) /\ t.disc[w] = s.disc[w]
                                        /\ t.disc[w] # t.disc[v]
      <4>1. ASSUME NEW w \in Discovered(s) PROVE t.disc[w] # t.disc[v]
        <5>1. s.disc[w] \in 1..s.time /\ t.disc[w] = s.disc[w] /\ t.disc[v] = s.time + 1
          BY <1>3, <1>5, <1>6, <4>1
        <5>2. QED
          BY <1>1, <5>1
      <4>2. QED
        BY <1>4, <1>6, <4>1
    <3>2. QED
      BY <1>5, <2>2, <3>1
  <2>3. QED
    BY <2>1, <2>2 DEF Times
<1>15. Stacked(t)
  <2>1. SUFFICES ASSUME NEW i \in 1..l + 1
                 PROVE  /\ r[i] \in Discovered(t)
                        /\ \A j \in 1..l + 1 : i < j => t.disc[r[j]] < t.disc[r[i]]
    BY <1>7, Zenon DEF Stacked, r
  <2>2. CASE i = 1
    <3>1. r[i] = v /\ v \in Discovered(t)
      BY <1>4, <1>7, <2>2
    <3>2. ASSUME NEW j \in 1..l + 1, i < j PROVE t.disc[r[j]] < t.disc[r[i]]
      <4>1. PICK k \in 1..l : j = 1 + k
        BY <1>10, <2>2, <3>2
      <4>2. r[j] = q[k] /\ q[k] \in Discovered(s)
        BY <1>7, <1>9, <4>1
      <4>3. QED
        BY <1>3, <1>6, <3>1, <4>2
    <3>3. QED
      BY <3>1, <3>2
  <2>3. CASE i # 1
    <3>1. PICK m \in 1..l : i = 1 + m
      BY <1>10, <2>3
    <3>2. r[i] = q[m] /\ q[m] \in Discovered(s)
      BY <1>7, <1>9, <3>1
    <3>3. ASSUME NEW j \in 1..l + 1, i < j PROVE t.disc[r[j]] < t.disc[r[i]]
      <4>1. j # 1
        BY <1>7, <2>3, <3>3
      <4>2. PICK k \in 1..l : j = 1 + k
        BY <1>10, <4>1
      <4>3. r[j] = q[k] /\ q[k] \in Discovered(s) /\ m < k
        BY <1>7, <1>9, <3>1, <3>3, <4>2
      <4>4. s.disc[q[k]] < s.disc[q[m]]
        BY <1>9, <4>3
      <4>5. QED
        BY <1>6, <3>2, <4>3, <4>4
    <3>4. QED
      BY <1>4, <3>2, <3>3
  <2>4. QED
    BY <2>2, <2>3
<1>16. QED
  BY <1>3, <1>4, <1>6, <1>12, <1>13, <1>14, <1>15, Zenon DEF Finds

\* Each task after a node is entered is one of the node's or was there before.
EntryMap(n, out, s, t, u, v, m, o, l) ==
  /\ m \in Nat /\ l \in Nat /\ l >= 1 /\ o \in Nat /\ m <= o
  /\ DOMAIN t.tasks = 1..o + l /\ DOMAIN s.tasks = 1..l /\ DOMAIN out[v] = 1..m
  /\ \A i \in 1..o + l : i \in 1..m \/ i = m + 1 \/ (u # 0 /\ i = m + 2)
                         \/ \E j \in 2..l : i = o + j
  /\ \A i \in 1..m : i \in 1..o + l /\ t.tasks[i] = Edge(v, out[v][i])
  /\ m + 1 \in 1..o + l /\ t.tasks[m + 1] = Close(v)
  /\ u # 0 => m + 2 \in 1..o + l /\ t.tasks[m + 2] = Back(u, v) /\ o = m + 1
  /\ u = 0 => o = m
  /\ \A j \in 2..l : o + j \in 1..o + l /\ m + 1 < o + j
                     /\ (u # 0 => m + 2 < o + j) /\ t.tasks[o + j] = s.tasks[j]
  /\ t.tasks \in Seq(TaskSet(n)) /\ s.tasks \in Seq(TaskSet(n))

\* So it is.
LEMMA EntryKinds ==
  ASSUME NEW n \in Nat, NEW out \in Out(n), NEW s \in States(n), s.tasks # << >>, NEW t,
         NEW u \in 0..n, NEW v \in 1..n, Enters(out, s, t, u, v)
  PROVE  \E m, o, l : EntryMap(n, out, s, t, u, v, m, o, l)
<1> DEFINE m == Len(out[v])
           o == IF u = 0 THEN m ELSE m + 1
           l == Len(s.tasks)
<1>1. EntryPlaces(out, s, t, u, v) /\ t.tasks \in Seq(TaskSet(n))
  BY EntersPlaces
<1>2. s.tasks \in Seq(TaskSet(n)) /\ out[v] \in Seq(1..n)
  BY StateParts DEF Out
<1>3. l \in Nat /\ l >= 1 /\ DOMAIN s.tasks = 1..l
  BY <1>2, TailPlaces
<1>4. m \in Nat /\ DOMAIN out[v] = 1..m
  BY <1>2
<1>5. /\ Len(t.tasks) = o + l
      /\ \A i \in 1..m : t.tasks[i] = Edge(v, out[v][i])
      /\ t.tasks[m + 1] = Close(v)
      /\ u # 0 => t.tasks[m + 2] = Back(u, v)
      /\ \A j \in 2..l : t.tasks[o + j] = s.tasks[j]
  BY <1>1 DEF EntryPlaces
<1>6. DOMAIN t.tasks = 1..o + l
  <2>1. DOMAIN t.tasks = 1..Len(t.tasks)
    BY <1>1
  <2>2. QED
    BY <1>5, <2>1, Zenon
<1>11. (u # 0 => o = m + 1) /\ (u = 0 => o = m)
  OBVIOUS
<1> HIDE DEF m, o, l
<1>7. /\ o \in Nat /\ m <= o
      /\ \A i \in 1..o + l : i \in 1..m \/ i = m + 1 \/ (u # 0 /\ i = m + 2) \/ i - o \in 2..l
      /\ \A i \in 1..m : i \in 1..o + l
      /\ m + 1 \in 1..o + l
      /\ u # 0 => m + 2 \in 1..o + l
      /\ \A j \in 2..l : o + j \in 1..o + l /\ m + 1 < o + j /\ (u # 0 => m + 2 < o + j)
  <2>1. CASE u = 0
    <3>1. o = m
      BY <1>11, <2>1
    <3>2. QED
      BY ONLY u = 0, <3>1, <1>3, <1>4
  <2>2. CASE u # 0
    <3>1. o = m + 1
      BY <1>11, <2>2
    <3>2. QED
      BY ONLY u # 0, <3>1, <1>3, <1>4
  <2>3. QED
    BY <2>1, <2>2
<1>8. \A i \in 1..o + l : i - o \in 2..l => \E j \in 2..l : i = o + j
  BY <1>3, <1>7
<1>9. \A i \in 1..o + l : i \in 1..m \/ i = m + 1 \/ (u # 0 /\ i = m + 2) \/ \E j \in 2..l : i = o + j
  BY <1>7, <1>8
<1>10. EntryMap(n, out, s, t, u, v, m, o, l)
  BY <1>1, <1>2, <1>3, <1>4, <1>5, <1>6, <1>7, <1>9, <1>11, Zenon DEF EntryMap
<1>12. QED
  BY <1>10

\* The node is open, the edge to it followed, and its own are not.
Opens(out, s, t, u, v) ==
  /\ Open(t.tasks) = Open(s.tasks) \cup {v}
  /\ \A x, y : Pending(s.tasks, x, y) => Pending(t.tasks, x, y) \/ (x = u /\ y = v)
  /\ \A y : HasEdge(out, v, y) => Pending(t.tasks, v, y)

\* So it is.
LEMMA EnteredOpen ==
  ASSUME NEW n \in Nat, NEW out \in Out(n), NEW s \in States(n), s.tasks # << >>, NEW t,
         NEW u \in 0..n, NEW v \in 1..n, s.tasks[1] = Edge(u, v), Enters(out, s, t, u, v)
  PROVE  Opens(out, s, t, u, v)
<1> DEFINE tasks == s.tasks
           todo == t.tasks
<1>0. PICK m, o, l : EntryMap(n, out, s, t, u, v, m, o, l)
  BY EntryKinds
<1>1. /\ m \in Nat /\ l \in Nat /\ l >= 1 /\ o \in Nat
      /\ DOMAIN todo = 1..o + l /\ DOMAIN tasks = 1..l /\ DOMAIN out[v] = 1..m
      /\ \A i \in 1..o + l : i \in 1..m \/ i = m + 1 \/ (u # 0 /\ i = m + 2)
                             \/ \E j \in 2..l : i = o + j
      /\ \A i \in 1..m : i \in 1..o + l /\ todo[i] = Edge(v, out[v][i])
      /\ m + 1 \in 1..o + l /\ todo[m + 1] = Close(v)
      /\ u # 0 => m + 2 \in 1..o + l /\ todo[m + 2] = Back(u, v)
      /\ \A j \in 2..l : o + j \in 1..o + l /\ todo[o + j] = tasks[j]
      /\ todo \in Seq(TaskSet(n)) /\ tasks \in Seq(TaskSet(n))
  BY <1>0, Zenon DEF EntryMap
<1>2. tasks[1] = Edge(u, v)
  OBVIOUS
<1> HIDE DEF tasks, todo
<1>3. /\ \A x : x \in Open(tasks) <=> \E i \in 1..l : tasks[i] = Close(x)
      /\ \A x : x \in Open(todo) <=> \E i \in 1..o + l : todo[i] = Close(x)
  <2>1. \A x : x \in Open(tasks) <=> \E i \in 1..Len(tasks) : tasks[i] = Close(x)
    BY <1>1, OpenIs
  <2>2. \A x : x \in Open(todo) <=> \E i \in 1..Len(todo) : todo[i] = Close(x)
    BY <1>1, OpenIs
  <2>3. 1..Len(tasks) = 1..l /\ 1..Len(todo) = 1..o + l
    <3>1. DOMAIN tasks = 1..Len(tasks) /\ DOMAIN todo = 1..Len(todo)
      BY <1>1
    <3>2. QED
      BY <1>1, <3>1, Zenon
  <2>4. QED
    BY <2>1, <2>2, <2>3, Zenon
<1>4. \A j \in 1..l : j = 1 \/ j \in 2..l
  BY <1>1
<1>5. \A x, y, z : Edge(x, y).do = "edge" /\ Back(x, y).do = "back" /\ Close(z).do = "close"
                   /\ Close(z).from = z
  BY DEF Edge, Back, Close
<1>6. Open(todo) = Open(tasks) \cup {v}
  <2>1. ASSUME NEW x \in Open(todo) PROVE x \in Open(tasks) \/ x = v
    <3>1. PICK i \in 1..o + l : todo[i] = Close(x)
      BY <1>3, <2>1
    <3>2. ~ (i \in 1..m)
      BY <1>1, <1>5, <3>1
    <3>3. ~ (u # 0 /\ i = m + 2)
      BY <1>1, <1>5, <3>1
    <3>4. CASE i = m + 1
      <4>1. Close(x) = Close(v)
        BY <1>1, <3>1, <3>4
      <4>2. QED
        BY <1>5, <4>1
    <3>5. ASSUME NEW j \in 2..l, i = o + j PROVE x \in Open(tasks)
      <4>1. tasks[j] = Close(x) /\ j \in 1..l
        BY <1>1, <3>1, <3>5
      <4>2. QED
        BY <1>3, <4>1
    <3>6. QED
      BY <1>1, <3>2, <3>3, <3>4, <3>5
  <2>2. v \in Open(todo)
    BY <1>1, <1>3
  <2>3. ASSUME NEW x \in Open(tasks) PROVE x \in Open(todo)
    <3>1. PICK j \in 1..l : tasks[j] = Close(x)
      BY <1>3, <2>3
    <3>2. j # 1
      BY <1>2, <1>5, <3>1
    <3>3. todo[o + j] = Close(x) /\ o + j \in 1..o + l
      BY <1>1, <1>4, <3>1, <3>2
    <3>4. QED
      BY <1>3, <3>3
  <2>4. QED
    BY <2>1, <2>2, <2>3
<1>7. ASSUME NEW x, NEW y, Pending(tasks, x, y) PROVE Pending(todo, x, y) \/ (x = u /\ y = v)
  <2>1. PICK j \in 1..l : tasks[j] = Edge(x, y)
    BY <1>1, <1>7, Zenon DEF Pending
  <2>2. CASE j = 1
    BY <1>2, <2>1, <2>2 DEF Edge
  <2>3. CASE j # 1
    <3>1. todo[o + j] = Edge(x, y) /\ o + j \in DOMAIN todo
      BY <1>1, <1>4, <2>1, <2>3
    <3>2. QED
      BY <3>1, Zenon DEF Pending
  <2>4. QED
    BY <2>2, <2>3
<1>8. ASSUME NEW y, HasEdge(out, v, y) PROVE Pending(todo, v, y)
  <2>1. PICK i \in 1..m : out[v][i] = y
    BY <1>1, <1>8 DEF HasEdge
  <2>2. i \in DOMAIN todo /\ todo[i] = Edge(v, y)
    BY <1>1, <2>1
  <2>3. QED
    BY <2>2, Zenon DEF Pending
<1>9. QED
  BY <1>6, <1>7, <1>8, Zenon DEF tasks, todo, Opens

\* The tasks stand when a node is entered,
LEMMA TasksEntered ==
  ASSUME NEW n \in Nat, NEW out \in Out(n), NEW s \in States(n), s.tasks # << >>,
         Searching(out, s), s.tasks[1].do = "edge",
         NEW u, u = s.tasks[1].from, NEW v, v = s.tasks[1].to, s.disc[v] = -1,
         NEW t, Enters(out, s, t, u, v)
  PROVE  TasksStand(out, t)
<1> DEFINE tasks == s.tasks
           todo == t.tasks
           disc == s.disc
           late == t.disc
<1>1. /\ Times(s) /\ Stacked(s)
      /\ Legit(out, tasks) /\ Owned(tasks) /\ Deepest(disc, tasks)
      /\ Returns(s) /\ Follows(tasks) /\ Open(tasks) \subseteq On(s)
  BY DEF Searching, TasksStand
<1>2. /\ u \in 0..n /\ v \in 1..n /\ v # 0 /\ u # v /\ tasks[1] = Edge(u, v)
      /\ v \notin Discovered(s)
      /\ u # 0 => u \in Open(tasks) /\ u \in On(s) /\ HasEdge(out, u, v)
      /\ u = 0 => Open(tasks) = {} /\ On(s) = {}
      /\ \A g \in Open(tasks) : disc[g] <= disc[u]
  <2>1. ComesFrom(n, out, s, u, v)
    BY EnteredFrom
  <2>2. QED
    BY <2>1, Zenon DEF ComesFrom
<1>3. /\ late \in [1..n -> Int] /\ late[v] = s.time + 1
      /\ Discovered(t) = Discovered(s) \cup {v} /\ On(t) = On(s) \cup {v}
      /\ \A x \in Discovered(s) : late[x] = disc[x] /\ disc[x] < s.time + 1
  <2>1. Times(s) /\ Stacked(s) /\ v \in 1..n /\ v \notin Discovered(s)
    BY <1>1, <1>2
  <2>2. Finds(n, s, t, v)
    BY <2>1, EnteredFinds
  <2>3. QED
    BY <2>2, Zenon DEF Finds
<1>4. /\ On(s) \subseteq Discovered(s) /\ Discovered(s) \subseteq 1..n
      /\ \A x \in Discovered(s) : disc[x] \in 1..s.time /\ disc[x] \in Int
      /\ s.time \in Nat
  BY <1>1, OnDiscovered, StateParts
<1>5. Open(todo) = Open(tasks) \cup {v}
  <2>1. /\ u \in 0..n /\ v \in 1..n /\ s.tasks[1] = Edge(u, v)
    BY <1>2
  <2>2. Opens(out, s, t, u, v)
    BY <2>1, EnteredOpen
  <2>3. QED
    BY <2>2, Zenon DEF Opens
<1>6. PICK m, o, l : EntryMap(n, out, s, t, u, v, m, o, l)
  BY <1>2, EntryKinds
<1>7. /\ m \in Nat /\ l \in Nat /\ l >= 1 /\ o \in Nat /\ m <= o
      /\ DOMAIN todo = 1..o + l /\ DOMAIN tasks = 1..l /\ DOMAIN out[v] = 1..m
      /\ \A i \in 1..o + l : i \in 1..m \/ i = m + 1 \/ (u # 0 /\ i = m + 2)
                             \/ \E j \in 2..l : i = o + j
      /\ \A i \in 1..m : i \in 1..o + l /\ todo[i] = Edge(v, out[v][i])
      /\ m + 1 \in 1..o + l /\ todo[m + 1] = Close(v)
      /\ u # 0 => m + 2 \in 1..o + l /\ todo[m + 2] = Back(u, v) /\ o = m + 1
      /\ u = 0 => o = m
      /\ \A j \in 2..l : o + j \in 1..o + l /\ m + 1 < o + j
                         /\ (u # 0 => m + 2 < o + j) /\ todo[o + j] = tasks[j]
      /\ todo \in Seq(TaskSet(n)) /\ tasks \in Seq(TaskSet(n))
  BY <1>6, Zenon DEF EntryMap
<1> HIDE DEF tasks, todo, disc, late
<1>8. \A j \in 2..l : j \in 1..l /\ 1 < j /\ 1 \in 1..l /\ j - 1 \in 1..l
  BY <1>7
\* What was open before the node is not older than the node it is entered from.
<1>9. ASSUME NEW j \in 2..l
      PROVE  /\ tasks[j].from = 0 \/ tasks[j].from \in Open(tasks)
             /\ Depth(disc, tasks[j].from) = Depth(late, tasks[j].from)
             /\ Depth(disc, tasks[j].from) <= Depth(disc, u)
             /\ Depth(disc, tasks[j].from) \in Int
  <2>1. tasks[j].from = 0 \/ tasks[j].from \in Open(tasks)
    BY <1>1, <1>7, <1>8 DEF Owned
  <2>2. Depth(disc, tasks[j].from) <= Depth(disc, tasks[1].from)
    BY <1>1, <1>7, <1>8 DEF Deepest
  <2>3. tasks[1].from = u
    BY <1>2 DEF Edge
  <2>4. Depth(disc, tasks[j].from) = Depth(late, tasks[j].from)
        /\ Depth(disc, tasks[j].from) \in Int
    <3>1. CASE tasks[j].from = 0
      BY <3>1 DEF Depth
    <3>2. CASE tasks[j].from \in Open(tasks)
      <4>1. tasks[j].from \in Discovered(s)
        BY <1>1, <1>4, <3>2
      <4>2. late[tasks[j].from] = disc[tasks[j].from] /\ disc[tasks[j].from] \in Int
        BY <1>3, <1>4, <4>1
      <4>3. QED
        BY <4>2 DEF Depth
    <3>3. QED
      BY <2>1, <3>1, <3>2
  <2>5. QED
    BY <2>1, <2>2, <2>3, <2>4
<1>10. /\ Depth(late, v) = s.time + 1
       /\ Depth(late, u) = Depth(disc, u) /\ Depth(disc, u) \in Int /\ Depth(disc, u) < s.time + 1
  <2>1. CASE u = 0
    <3>1. 0 < s.time + 1
      BY <1>4
    <3>2. QED
      BY <1>2, <1>3, <2>1, <3>1 DEF Depth
  <2>2. CASE u # 0
    <3>1. u \in Discovered(s)
      BY <1>2, <1>4, <2>2
    <3>2. QED
      BY <1>2, <1>3, <1>4, <2>2, <3>1 DEF Depth
  <2>3. QED
    BY <2>1, <2>2
<1>11. \A x, y : /\ Edge(x, y).do = "edge" /\ Edge(x, y).from = x /\ Edge(x, y).to = y
                 /\ Back(x, y).do = "back" /\ Back(x, y).from = x /\ Back(x, y).to = y
                 /\ Close(x).do = "close" /\ Close(x).from = x /\ Close(x).to = x
  BY DEF Edge, Back, Close
<1>12. Legit(out, todo)
  <2> DEFINE P(task) == /\ task.do # "close" /\ task.from # 0 => HasEdge(out, task.from, task.to)
                        /\ task.do = "back" => task.from # 0
                        /\ task.do = "close" => task.from = task.to
  <2>1. SUFFICES ASSUME NEW i \in 1..o + l PROVE P(todo[i])
    BY <1>7, Zenon DEF Legit
  <2>2. CASE i \in 1..m
    <3>1. HasEdge(out, v, out[v][i])
      BY <1>7, <2>2, Zenon DEF HasEdge
    <3>2. QED
      BY <1>7, <1>11, <2>2, <3>1
  <2>3. CASE i = m + 1
    BY <1>7, <1>11, <2>3
  <2>4. CASE u # 0 /\ i = m + 2
    BY <1>2, <1>7, <1>11, <2>4
  <2>5. ASSUME NEW j \in 2..l, i = o + j PROVE P(todo[i])
    <3>1. P(tasks[j])
      BY <1>1, <1>7, <1>8, Zenon DEF Legit
    <3>2. QED
      BY <1>7, <2>5, <3>1
  <2> HIDE DEF P
  <2>6. QED
    BY <1>7, <2>2, <2>3, <2>4, <2>5
<1>13. Owned(todo)
  <2>1. SUFFICES ASSUME NEW i \in 1..o + l, todo[i].from # 0 PROVE todo[i].from \in Open(todo)
    BY <1>7, Zenon DEF Owned
  <2>2. CASE i \in 1..m
    BY <1>5, <1>7, <1>11, <2>2
  <2>3. CASE i = m + 1
    BY <1>5, <1>7, <1>11, <2>3
  <2>4. CASE u # 0 /\ i = m + 2
    BY <1>2, <1>5, <1>7, <1>11, <2>4
  <2>5. ASSUME NEW j \in 2..l, i = o + j PROVE todo[i].from \in Open(todo)
    BY <1>5, <1>7, <1>9, <2>1, <2>5
  <2>6. QED
    BY <1>7, <2>2, <2>3, <2>4, <2>5
<1>14. Deepest(late, todo)
  <2> DEFINE D(i) == Depth(late, todo[i].from)
  <2>1. SUFFICES ASSUME NEW i \in 1..o + l, NEW j \in 1..o + l, i < j
                 PROVE  D(j) <= D(i) /\ (todo[i].do = "close" => D(j) < D(i))
    BY <1>7, Zenon DEF Deepest
  <2>2. \A k \in 1..m + 1 : D(k) = s.time + 1
    <3>1. ASSUME NEW k \in 1..m PROVE D(k) = s.time + 1
      BY <1>7, <1>10, <1>11, SMTT(30)
    <3>2. D(m + 1) = s.time + 1
      BY <1>7, <1>10, <1>11
    <3>3. \A k \in 1..m + 1 : k \in 1..m \/ k = m + 1
      BY <1>7
    <3> HIDE DEF D
    <3>4. QED
      BY <3>1, <3>2, <3>3
  <2>3. u # 0 => D(m + 2) = Depth(disc, u)
    BY <1>7, <1>10, <1>11
  <2>4. \A k \in 2..l : D(o + k) <= Depth(disc, u) /\ D(o + k) \in Int /\ D(o + k) = Depth(disc, tasks[k].from)
    BY <1>7, <1>9
  <2>5. \A k \in 1..m : todo[k].do # "close"
    BY <1>7, <1>11
  <2>6. u # 0 => todo[m + 2].do # "close"
    BY <1>7, <1>11
  <2> HIDE DEF D
  <2>7. s.time + 1 \in Int
    BY <1>4
  <2>8. CASE i \in 1..m + 1
    <3>1. D(i) = s.time + 1
      BY <2>2, <2>8
    <3>2. CASE j \in 1..m + 1
      <4>1. i \in 1..m
        BY <1>7, <2>1, <2>8, <3>2
      <4>2. D(j) = s.time + 1
        BY <2>2, <3>2
      <4>3. QED
        BY <2>5, <2>7, <3>1, <4>1, <4>2
    <3>3. CASE ~ (j \in 1..m + 1)
      <4>1. (u # 0 /\ j = m + 2) \/ \E k \in 2..l : j = o + k
        <5>1. \A k \in 1..m : k \in 1..m + 1
          BY <1>7
        <5>2. m + 1 \in 1..m + 1
          BY <1>7
        <5>3. QED
          BY <1>7, <3>3, <5>1, <5>2
      <4>2. D(j) <= Depth(disc, u) /\ D(j) \in Int
        BY <1>10, <2>3, <2>4, <4>1
      <4>3. D(j) < s.time + 1
        BY <1>10, <2>7, <4>2
      <4>4. QED
        BY <2>7, <3>1, <4>2, <4>3
    <3>4. QED
      BY <3>2, <3>3
  <2>9. CASE u # 0 /\ i = m + 2
    <3>0. j \notin 1..m /\ j # m + 1 /\ ~ (u # 0 /\ j = m + 2)
      BY <1>7, <2>1, <2>9
    <3>1. PICK k \in 2..l : j = o + k
      BY <1>7, <3>0, Zenon
    <3>2. QED
      BY <2>3, <2>4, <2>6, <2>9, <3>1
  <2>10. ASSUME NEW a \in 2..l, i = o + a
         PROVE D(j) <= D(i) /\ (todo[i].do = "close" => D(j) < D(i))
    <3>1. m + 1 < j /\ (u # 0 => m + 2 < j)
      BY <1>7, <2>1, <2>10
    <3>2. PICK b \in 2..l : j = o + b
      BY <1>7, <3>1
    <3>3. a < b /\ a \in DOMAIN tasks /\ b \in DOMAIN tasks
      BY <1>7, <1>8, <2>1, <2>10, <3>2
    <3>4. /\ Depth(disc, tasks[b].from) <= Depth(disc, tasks[a].from)
          /\ tasks[a].do = "close" => Depth(disc, tasks[b].from) < Depth(disc, tasks[a].from)
      BY <1>1, <3>3 DEF Deepest
    <3>5. todo[i] = tasks[a] /\ D(i) = Depth(disc, tasks[a].from) /\ D(j) = Depth(disc, tasks[b].from)
      BY <1>7, <2>4, <2>10, <3>2
    <3>6. QED
      BY <3>4, <3>5
  <2>11. QED
    <3>1. \A k \in 1..m : k \in 1..m + 1
      BY <1>7
    <3>2. m + 1 \in 1..m + 1
      BY <1>7
    <3>3. QED
      BY <1>7, <2>8, <2>9, <2>10, <3>1, <3>2
<1>15. Returns(t)
  <2>1. SUFFICES ASSUME NEW i \in 1..o + l, todo[i].do = "back"
                 PROVE  /\ todo[i].to \in Discovered(t) /\ late[todo[i].from] < late[todo[i].to]
                        /\ i > 1 => todo[i - 1] = Close(todo[i].to)
                        /\ i # 1
    BY <1>7, Zenon DEF Returns, todo, late
  <2>2. ~ (i \in 1..m) /\ i # m + 1
    BY <1>7, <1>11, <2>1
  <2>3. CASE u # 0 /\ i = m + 2
    <3>1. todo[i].to = v /\ todo[i].from = u
      BY <1>7, <1>11, <2>3
    <3>2. u \in Discovered(s)
      BY <1>2, <1>4, <2>3
    <3>3. late[u] < late[v]
      BY <1>3, <3>2
    <3>4. i - 1 = m + 1 /\ i # 1
      BY <1>7, <2>3
    <3>5. QED
      BY <1>3, <1>7, <3>1, <3>3, <3>4
  <2>4. ASSUME NEW j \in 2..l, i = o + j
        PROVE  /\ todo[i].to \in Discovered(t) /\ late[todo[i].from] < late[todo[i].to]
               /\ i > 1 => todo[i - 1] = Close(todo[i].to)
               /\ i # 1
    <3>1. todo[i] = tasks[j] /\ j \in DOMAIN tasks /\ tasks[j].do = "back" /\ j > 1
      BY <1>7, <1>8, <2>1, <2>4
    <3>2. /\ tasks[j].to \in Discovered(s) /\ disc[tasks[j].from] < disc[tasks[j].to]
          /\ tasks[j - 1] = Close(tasks[j].to)
      BY <1>1, <3>1, Zenon DEF Returns, tasks, disc
    <3>3. tasks[j].from \in Discovered(s)
      <4>1. tasks[j].from # 0
        BY <1>1, <3>1, Zenon DEF Legit
      <4>2. QED
        BY <1>1, <1>4, <1>9, <4>1
    <3>4. j # 2
      <4>1. SUFFICES ASSUME j = 2 PROVE FALSE
        OBVIOUS
      <4>2. tasks[1] = Close(tasks[j].to)
        <5>1. j - 1 = 1
          BY <4>1
        <5>2. QED
          BY <3>2, <5>1
      <4>3. tasks[1].do = "close"
        BY <1>11, <4>2
      <4>4. tasks[1].do = "edge"
        BY <1>2, <1>11
      <4>5. QED
        BY <4>3, <4>4
    <3>5. j - 1 \in 2..l /\ i - 1 = o + (j - 1) /\ i # 1
      BY <1>7, <2>4, <3>4
    <3>6. todo[i - 1] = tasks[j - 1]
      <4> DEFINE k == j - 1
      <4>1. k \in 2..l /\ i - 1 = o + k
        BY <3>5
      <4> HIDE DEF k
      <4>2. todo[i - 1] = tasks[k]
        BY <1>7, <4>1
      <4>3. QED
        BY <4>2 DEF k
    <3>7. late[tasks[j].from] < late[tasks[j].to]
      BY <1>3, <3>2, <3>3
    <3>8. QED
      BY <1>3, <3>1, <3>2, <3>5, <3>6, <3>7
  <2>5. QED
    BY <1>7, <2>2, <2>3, <2>4
<1>16. Follows(todo)
  <2>1. SUFFICES ASSUME NEW i \in 1..o + l, todo[i].do = "close", i + 1 \in 1..o + l
                 PROVE  \/ todo[i + 1].from = 0
                        \/ todo[i + 1].do = "back" /\ todo[i + 1].to = todo[i].from
    BY <1>7, Zenon DEF Follows
  <2>2. ~ (i \in 1..m) /\ ~ (u # 0 /\ i = m + 2)
    BY <1>7, <1>11, <2>1
  <2>3. CASE i = m + 1
    <3>1. i + 1 = m + 2 /\ todo[i].from = v
      BY <1>7, <1>11, <2>3
    <3>2. CASE u # 0
      BY <1>7, <1>11, <3>1, <3>2
    <3>3. CASE u = 0
      <4>1. o = m
        BY <1>7, <3>3
      <4>2. 2 \in 2..l /\ i + 1 = o + 2
        BY <1>7, <2>1, <2>3, <3>1, <4>1
      <4>3. todo[i + 1] = tasks[2]
        BY <1>7, <4>2
      <4>4. tasks[2].from = 0
        BY <1>2, <1>9, <3>3, <4>2
      <4>5. QED
        BY <4>3, <4>4
    <3>4. QED
      BY <3>2, <3>3
  <2>4. ASSUME NEW j \in 2..l, i = o + j
        PROVE  \/ todo[i + 1].from = 0
               \/ todo[i + 1].do = "back" /\ todo[i + 1].to = todo[i].from
    <3>0. i + 1 \in 1..o + l /\ o \in Nat /\ l \in Nat
      BY <1>7, <2>1, Zenon
    <3>1. j + 1 \in 2..l /\ i + 1 = o + (j + 1)
      BY ONLY <3>0, <2>4
    <3>2. todo[i + 1] = tasks[j + 1]
      <4> DEFINE k == j + 1
      <4>1. k \in 2..l /\ i + 1 = o + k
        BY <3>1
      <4> HIDE DEF k
      <4>2. todo[i + 1] = tasks[k]
        BY <1>7, <4>1
      <4>3. QED
        BY <4>2 DEF k
    <3>3. todo[i] = tasks[j] /\ j \in DOMAIN tasks /\ j + 1 \in DOMAIN tasks
      BY <1>7, <1>8, <2>4, <3>1
    <3>4. QED
      BY <1>1, <2>1, <3>2, <3>3 DEF Follows
  <2>5. QED
    BY <1>7, <2>2, <2>3, <2>4
<1>17. Open(todo) \subseteq On(t)
  BY <1>1, <1>3, <1>5
<1>18. QED
  BY <1>12, <1>13, <1>14, <1>15, <1>16, <1>17 DEF TasksStand, todo, late

\* and the invariant holds.
LEMMA NodeEntered ==
  ASSUME NEW n \in Nat, NEW out \in Out(n), NEW s \in States(n), s.tasks # << >>,
         Searching(out, s), s.tasks[1].do = "edge",
         NEW u, u = s.tasks[1].from, NEW v, v = s.tasks[1].to, s.disc[v] = -1,
         NEW t, Enters(out, s, t, u, v)
  PROVE  Searching(out, t)
<1>1. /\ Times(s) /\ Stacked(s) /\ TasksStand(out, s) /\ Anchored(out, s) /\ Ordered(out, s)
      /\ LowSound(out, s) /\ LowComplete(out, s) /\ Explored(out, s) /\ Components(out, s)
  BY DEF Searching
<1>2. /\ u \in 0..n /\ v \in 1..n /\ v # 0 /\ u # v /\ s.tasks[1] = Edge(u, v)
      /\ v \notin Discovered(s)
      /\ u # 0 => u \in Open(s.tasks) /\ u \in On(s) /\ HasEdge(out, u, v)
      /\ u = 0 => Open(s.tasks) = {} /\ On(s) = {}
      /\ \A g \in Open(s.tasks) : s.disc[g] <= s.disc[u]
  <2>1. ComesFrom(n, out, s, u, v)
    BY EnteredFrom
  <2>2. QED
    BY <2>1, Zenon DEF ComesFrom
<1>3. /\ t.disc \in [1..n -> Int] /\ t.low \in [1..n -> Int]
      /\ t.disc[v] = s.time + 1 /\ t.low[v] = s.time + 1
      /\ \A x \in 1..n : x # v => t.disc[x] = s.disc[x] /\ t.low[x] = s.low[x]
      /\ Discovered(t) = Discovered(s) \cup {v} /\ On(t) = On(s) \cup {v} /\ Taken(t) = Taken(s)
      /\ \A x \in Discovered(s) : t.disc[x] = s.disc[x] /\ s.disc[x] < s.time + 1
      /\ Times(t) /\ Stacked(t)
  <2>1. Times(s) /\ Stacked(s) /\ v \in 1..n /\ v \notin Discovered(s)
    BY <1>1, <1>2, Zenon
  <2>2. Finds(n, s, t, v)
    BY <2>1, EnteredFinds
  <2>3. QED
    BY <2>2, Zenon DEF Finds
<1>4. /\ On(s) \subseteq Discovered(s) /\ Discovered(s) \subseteq 1..n
      /\ \A x \in Discovered(s) : s.disc[x] \in 1..s.time /\ s.disc[x] \in Int
      /\ s.time \in Nat /\ Open(s.tasks) \subseteq On(s)
  BY <1>1, OnDiscovered, StateParts DEF TasksStand
<1>5. /\ Open(t.tasks) = Open(s.tasks) \cup {v}
      /\ \A x, y : Pending(s.tasks, x, y) => Pending(t.tasks, x, y) \/ (x = u /\ y = v)
      /\ \A y : HasEdge(out, v, y) => Pending(t.tasks, v, y)
  <2>1. /\ u \in 0..n /\ v \in 1..n /\ s.tasks[1] = Edge(u, v)
    BY <1>2, Zenon
  <2>2. Opens(out, s, t, u, v)
    BY <2>1, EnteredOpen
  <2>3. QED
    BY <2>2, Zenon DEF Opens
<1>6. TasksStand(out, t)
  BY TasksEntered
<1>7. \A x \in On(s) : /\ x \in 1..n /\ x # v /\ x \in Discovered(s)
                       /\ t.disc[x] = s.disc[x] /\ t.low[x] = s.low[x]
                       /\ s.disc[x] < s.time + 1 /\ s.disc[x] \in Int
  <2>1. ASSUME NEW x \in On(s) PROVE x \in 1..n /\ x # v /\ x \in Discovered(s)
    BY <1>2, <1>4, Zenon
  <2>2. QED
    BY <1>3, <1>4, <2>1
<1>8. v \in Reaches(out, v) /\ s.time + 1 \in Int
  <2>1. v \in Reaches(out, v)
    <3>1. v \in 1..n
      BY <1>2, Zenon
    <3>2. QED
      BY ONLY n \in Nat, out \in Out(n), <3>1, ReachesRules
  <2>2. QED
    BY <1>4, <2>1
<1>9. Anchored(out, t)
  <2>1. SUFFICES ASSUME NEW x \in On(s) \cup {v}
                 PROVE  \E g \in Open(t.tasks) : t.disc[g] <= t.disc[x] /\ g \in Reaches(out, x)
    BY <1>3 DEF Anchored
  <2>2. CASE x = v
    <3>1. v \in Open(t.tasks) /\ t.disc[v] <= t.disc[v]
      BY <1>3, <1>5, <1>8
    <3>2. QED
      BY <1>8, <2>2, <3>1
  <2>3. CASE x # v
    <3>1. PICK g \in Open(s.tasks) : s.disc[g] <= s.disc[x] /\ g \in Reaches(out, x)
      BY <1>1, <2>1, <2>3 DEF Anchored
    <3>2. g \in On(s) /\ x \in On(s)
      BY <1>4, <2>1, <2>3
    <3>3. QED
      BY <1>5, <1>7, <3>1, <3>2
  <2>4. QED
    BY <2>2, <2>3
<1>10. ASSUME NEW x \in On(s) PROVE v \in Reaches(out, x)
  <2>1. u \in On(s) /\ u \in Open(s.tasks) /\ HasEdge(out, u, v)
    BY <1>2, Zenon
  <2>2. PICK g \in Open(s.tasks) : s.disc[g] <= s.disc[x] /\ g \in Reaches(out, x)
    BY <1>1 DEF Anchored
  <2>3. u \in Reaches(out, g)
    BY <1>1, <1>2, <1>4, <2>1, Zenon DEF Ordered
  <2>4. Reaches(out, g) \subseteq Reaches(out, x)
    BY <1>7, <2>2, ReachesRules
  <2>5. ClosedUnder(out, Reaches(out, x))
    BY <1>7, ReachesRules
  <2>6. QED
    BY <2>1, <2>3, <2>4, <2>5 DEF ClosedUnder
<1>11. Ordered(out, t)
  <2>1. SUFFICES ASSUME NEW x \in On(s) \cup {v}, NEW y \in On(s) \cup {v}, t.disc[x] <= t.disc[y]
                 PROVE  y \in Reaches(out, x)
    BY <1>3 DEF Ordered
  <2>2. CASE y = v
    BY <1>8, <1>10, <2>1, <2>2
  <2>3. CASE y # v
    <3>1. y \in On(s)
      BY <2>1, <2>3
    <3>2. x # v
      <4>1. SUFFICES ASSUME x = v PROVE FALSE
        OBVIOUS
      <4>2. s.time + 1 <= s.disc[y] /\ s.disc[y] < s.time + 1 /\ s.disc[y] \in Int
        BY <1>3, <1>7, <2>1, <3>1, <4>1
      <4>3. QED
        BY <1>8, <4>2
    <3>3. x \in On(s)
      BY <2>1, <3>2
    <3>4. QED
      BY <1>1, <1>7, <2>1, <3>1, <3>3 DEF Ordered
  <2>4. QED
    BY <2>2, <2>3
<1>12. LowSound(out, t)
  <2>1. SUFFICES ASSUME NEW x \in On(s) \cup {v}
                 PROVE  \E y \in On(s) \cup {v} :
                          t.low[x] = t.disc[y] /\ t.disc[y] <= t.disc[x] /\ y \in Reaches(out, x)
    BY <1>3 DEF LowSound
  <2>2. CASE x = v
    BY <1>3, <1>8, <2>2
  <2>3. CASE x # v
    <3>1. x \in On(s)
      BY <2>1, <2>3
    <3>2. PICK y \in On(s) : s.low[x] = s.disc[y] /\ s.disc[y] <= s.disc[x] /\ y \in Reaches(out, x)
      BY <1>1, <3>1 DEF LowSound
    <3>3. QED
      BY <1>7, <3>1, <3>2
  <2>4. QED
    BY <2>2, <2>3
<1>13. LowComplete(out, t)
  <2>1. SUFFICES ASSUME NEW g \in Open(t.tasks), NEW x \in On(t), NEW y \in On(t),
                        HasEdge(out, x, y), t.disc[g] <= t.disc[x]
                 PROVE  \/ t.low[g] <= t.disc[y]
                        \/ \E h \in Open(t.tasks) : t.disc[g] < t.disc[h] /\ t.disc[h] <= t.disc[x]
                        \/ x = g /\ Pending(t.tasks, x, y)
    BY Zenon DEF LowComplete
  <2>2. CASE x = v
    <3>1. CASE g = v
      BY <1>5, <2>1, <2>2, <3>1
    <3>2. CASE g # v
      <4>1. g \in On(s)
        BY <1>4, <1>5, <2>1, <3>2
      <4>2. t.disc[g] < t.disc[v] /\ t.disc[v] <= t.disc[x] /\ v \in Open(t.tasks)
        BY <1>3, <1>5, <1>7, <1>8, <2>2, <4>1
      <4>3. QED
        BY <4>2
    <3>3. QED
      BY <3>1, <3>2
  <2>3. CASE x # v
    <3>1. x \in On(s)
      BY <1>3, <2>1, <2>3
    <3>2. g # v
      <4>1. SUFFICES ASSUME g = v PROVE FALSE
        OBVIOUS
      <4>2. s.time + 1 <= s.disc[x] /\ s.disc[x] < s.time + 1 /\ s.disc[x] \in Int
        BY <1>3, <1>7, <2>1, <3>1, <4>1
      <4>3. QED
        BY <1>8, <4>2
    <3>3. g \in Open(s.tasks) /\ g \in On(s)
      BY <1>4, <1>5, <2>1, <3>2
    <3>4. CASE y = v
      <4>1. PICK z \in On(s) : s.low[g] = s.disc[z]
        BY <1>1, <3>3 DEF LowSound
      <4>2. t.low[g] = s.disc[z] /\ s.disc[z] < s.time + 1 /\ s.disc[z] \in Int
        BY <1>7, <3>3, <4>1
      <4>3. t.low[g] <= t.disc[y]
        BY <1>3, <1>8, <3>4, <4>2
      <4>4. QED
        BY <4>3
    <3>5. CASE y # v
      <4>1. y \in On(s)
        BY <1>3, <2>1, <3>5
      <4>2. s.disc[g] <= s.disc[x]
        BY <1>7, <2>1, <3>1, <3>3
      <4>3. \/ s.low[g] <= s.disc[y]
            \/ \E h \in Open(s.tasks) : s.disc[g] < s.disc[h] /\ s.disc[h] <= s.disc[x]
            \/ x = g /\ Pending(s.tasks, x, y)
            \/ \E c \in Discovered(s) : s.tasks[1] = Back(g, c) /\ s.low[c] <= s.disc[y]
        BY <1>1, <2>1, <3>1, <3>3, <4>1, <4>2, Zenon DEF LowComplete
      <4>4. CASE s.low[g] <= s.disc[y]
        <5>1. t.low[g] <= t.disc[y]
          BY <1>7, <3>3, <4>1, <4>4
        <5>2. QED
          BY <5>1
      <4>5. ASSUME NEW h \in Open(s.tasks), s.disc[g] < s.disc[h], s.disc[h] <= s.disc[x]
            PROVE  \E k \in Open(t.tasks) : t.disc[g] < t.disc[k] /\ t.disc[k] <= t.disc[x]
        <5>1. h \in On(s) /\ h \in Open(t.tasks)
          BY <1>4, <1>5
        <5>2. t.disc[g] < t.disc[h] /\ t.disc[h] <= t.disc[x]
          BY <1>7, <3>1, <3>3, <4>5, <5>1
        <5>3. QED
          BY <5>1, <5>2
      <4>6. CASE x = g /\ Pending(s.tasks, x, y)
        BY <1>5, <3>5, <4>6
      <4>7. \A c : s.tasks[1] # Back(g, c)
        BY DEF Back
      <4>8. QED
        BY <4>3, <4>4, <4>5, <4>6, <4>7
    <3>6. QED
      BY <3>4, <3>5
  <2>4. QED
    BY <2>2, <2>3
<1>14. Explored(out, t)
  <2>1. ASSUME NEW x \in Discovered(s) \cup {v}, NEW y, HasEdge(out, x, y)
        PROVE  y \in Discovered(t) \/ Pending(t.tasks, x, y)
    <3>1. CASE x = v
      BY <1>5, <2>1, <3>1
    <3>2. CASE x # v
      <4>1. y \in Discovered(s) \/ Pending(s.tasks, x, y)
        BY <1>1, <2>1, <3>2 DEF Explored
      <4>2. QED
        BY <1>3, <1>5, <4>1
    <3>3. QED
      BY <3>1, <3>2
  <2>2. ASSUME NEW w \in DOMAIN t.disc PROVE w \in Discovered(t) \/ Pending(t.tasks, 0, w)
    <3>1. w \in DOMAIN s.disc
      <4>1. s.disc \in [1..n -> Int]
        BY StateParts
      <4>2. QED
        BY <1>3, <2>2, <4>1
    <3>2. w \in Discovered(s) \/ Pending(s.tasks, 0, w)
      BY <1>1, <3>1 DEF Explored
    <3>3. QED
      BY <1>3, <1>5, <3>2
  <2>3. QED
    BY <1>3, <2>1, <2>2 DEF Explored
<1>15. Components(out, t)
  <2>1. t.components = s.components
    BY DEF Enters
  <2>2. QED
    BY <1>1, <1>3, <2>1, Zenon DEF Components
<1>16. QED
  BY <1>3, <1>6, <1>9, <1>11, <1>12, <1>13, <1>14, <1>15 DEF Searching

\* A step of the search keeps what is known of it.
LEMMA SearchStep ==
  ASSUME NEW n \in Nat, NEW blocks, blocks.out \in Out(n), NEW s \in States(n), s.tasks # << >>,
         Searching(blocks.out, s), NEW t, t = ComponentStep(blocks, s)
  PROVE  t \in States(n) /\ Searching(blocks.out, t)
<1> DEFINE out == blocks.out
           u == s.tasks[1].from
           v == s.tasks[1].to
<1>1. out \in Out(n)
  OBVIOUS
<1>2. Times(s) /\ Stacked(s) /\ TasksStand(out, s) /\ Anchored(out, s)
  BY DEF Searching
<1>3. /\ Head(s.tasks) = s.tasks[1] /\ s.tasks[1] \in TaskSet(n)
      /\ u \in 0..n /\ v \in 1..n
      /\ u # 0 => u \in Open(s.tasks)
      /\ s.tasks[1].do = "back" => u # 0
      /\ s.tasks[1].do = "close" => u = v
  BY <1>1, <1>2, HeadFacts
<1>4. s.tasks[1].do \in {"edge", "back", "close"}
  BY <1>3, TaskIs
<1>5. Open(s.tasks) \subseteq On(s) /\ s.low \in [1..n -> Int] /\ s.disc \in [1..n -> Int]
  BY <1>2, StateParts DEF TasksStand
<1>6. CASE s.tasks[1].do = "close"
  <2>1. u # 0 /\ v \in On(s)
    BY <1>3, <1>5, <1>6
  <2>2. /\ s.low[v] # s.disc[v] => Keeps(s, t)
        /\ s.low[v] = s.disc[v] => Pops(s, t, v)
    BY <1>3, <1>6, <2>1, ClosedDoes DEF On
  <2>3. CASE s.low[v] # s.disc[v]
    <3>1. Keeps(s, t)
      BY <2>2, <2>3
    <3>2. t \in States(n)
      BY <1>1, <3>1, StepTyped
    <3>3. Searching(out, t)
      BY <1>1, <1>6, <2>3, <3>1, ClosedKept
    <3>4. QED
      BY <3>2, <3>3
  <2>4. CASE s.low[v] = s.disc[v]
    <3>1. Pops(s, t, v)
      BY <2>2, <2>4
    <3>2. t \in States(n)
      BY <1>1, <1>3, <3>1, StepTyped
    <3>3. Searching(out, t)
      BY <1>1, <1>6, <2>4, <3>1, ComponentTaken
    <3>4. QED
      BY <3>2, <3>3
  <2>5. QED
    BY <2>3, <2>4
<1>7. CASE s.tasks[1].do = "back"
  <2>1. Lowers(s, t, u, s.low[v])
    BY <1>3, <1>7, BackDoes
  <2>2. s.low[v] \in Int /\ u \in 1..n
    BY <1>3, <1>5, <1>7, SMTT(30)
  <2>3. t \in States(n)
    BY <1>1, <2>1, <2>2, StepTyped
  <2>4. Searching(out, t)
    BY <1>1, <1>7, <2>1, BackTaken
  <2>5. QED
    BY <2>3, <2>4
<1>8. CASE s.tasks[1].do = "edge"
  <2>1. /\ s.disc[v] = -1 => Enters(out, s, t, u, v)
        /\ s.disc[v] # -1 /\ u # 0 /\ v \in On(s) => Lowers(s, t, u, s.disc[v])
        /\ s.disc[v] # -1 /\ ~ (u # 0 /\ v \in On(s)) => Keeps(s, t)
    BY <1>3, <1>8, EdgeDoes DEF On
  <2>2. CASE s.disc[v] = -1
    <3>1. Enters(out, s, t, u, v)
      BY <2>1, <2>2
    <3>2. t \in States(n)
      BY <1>1, <1>3, <3>1, StepTyped
    <3>3. Searching(out, t)
      BY <1>1, <1>8, <2>2, <3>1, NodeEntered
    <3>4. QED
      BY <3>2, <3>3
  <2>3. CASE s.disc[v] # -1
    <3>1. \/ Lowers(s, t, u, s.disc[v]) /\ u # 0 /\ v \in On(s)
          \/ Keeps(s, t) /\ ~ (u # 0 /\ v \in On(s))
      BY <2>1, <2>3
    <3>2. t \in States(n)
      <4>1. u # 0 => u \in 1..n
        BY <1>3
      <4>2. s.disc[v] \in Int
        BY <1>3, <1>5
      <4>3. QED
        BY <1>1, <3>1, <4>1, <4>2, StepTyped
    <3>3. Searching(out, t)
      BY <1>1, <1>8, <2>3, <3>1, EdgeSeen
    <3>4. QED
      BY <3>2, <3>3
  <2>4. QED
    BY <2>2, <2>3
<1>9. QED
  BY <1>4, <1>6, <1>7, <1>8

-----------------------------------------------------------------------------
(***************************************************************************)
(* The search ends: TasksOf steps are enough. Every step takes one off     *)
(* what the tasks and the nodes not yet discovered may cost.               *)
(***************************************************************************)

(* The steps the tasks take, those of an edge and of handing its result    *)
(* back together,                                                          *)
Weight(task) == IF task.do = "edge" /\ task.from # 0 THEN 2 ELSE 1
Weights(tasks, l, w) ==
  /\ w \in [1..l + 1 -> Nat] /\ w[l + 1] = 0
  /\ \A i \in 1..l : w[i] = Weight(tasks[i]) + w[i + 1]

\* and those the nodes take that were not discovered.
Charges(n, out, s) == [v \in 1..n |-> IF s.disc[v] = -1 THEN 2 * Len(out[v]) + 1 ELSE 0]

\* The sums of the first i of n numbers.
Sums(n, f, c) ==
  /\ c \in [0..n -> Nat] /\ c[0] = 0
  /\ \A i \in 1..n : c[i] = c[i - 1] + f[i]

\* k steps are enough to do all of it.
Fuel(n, out, s, k) ==
  \E w, c : /\ Weights(s.tasks, Len(s.tasks), w) /\ Sums(n, Charges(n, out, s), c)
            /\ w[1] + c[n] <= k

\* The sums exist,
LEMMA SumExists ==
  ASSUME NEW n \in Nat, NEW f \in [1..n -> Nat]
  PROVE  \E c : Sums(n, f, c)
<1> DEFINE T == {m \in 0..n : \E c : Sums(m, f, c)}
<1>1. 0 \in T
  <2> DEFINE h == [i \in 0..0 |-> 0]
  <2>1. Sums(0, f, h)
    BY DEF Sums
  <2>2. QED
    BY <2>1
<1>2. ASSUME NEW m \in 1..n, m - 1 \in T PROVE m \in T
  <2>1. PICK c : Sums(m - 1, f, c)
    BY <1>2
  <2>2. /\ c \in [0..m - 1 -> Nat] /\ c[0] = 0
        /\ \A i \in 1..m - 1 : c[i] = c[i - 1] + f[i]
    BY <2>1 DEF Sums
  <2> DEFINE h == [i \in 0..m |-> IF i = m THEN c[m - 1] + f[m] ELSE c[i]]
  <2>3. \A i \in 0..m - 1 : h[i] = c[i]
    OBVIOUS
  <2>4. h[m] = h[m - 1] + f[m]
    BY <2>3
  <2>5. h \in [0..m -> Nat] /\ h[0] = 0
    BY <2>2
  <2> HIDE DEF h
  <2>6. \A i \in 1..m : i = m \/ (i \in 1..m - 1 /\ i \in 0..m - 1 /\ i - 1 \in 0..m - 1)
    OBVIOUS
  <2>7. \A i \in 1..m : h[i] = h[i - 1] + f[i]
    BY <2>2, <2>3, <2>4, <2>6
  <2>8. Sums(m, f, h)
    BY <2>5, <2>7 DEF Sums
  <2>9. QED
    BY <2>8
<1>3. \A i \in 0..n : i \in T
  <2> HIDE DEF T
  <2>1. QED
    BY <1>1, <1>2, StepByStep
<1>4. QED
  BY <1>3

\* The difference that one of the numbers makes.
Moved(n, f, v, a, c, d) == d[n] + f[v] = c[n] + a

\* When one of the numbers is set, the sum changes by as much.
LEMMA SumChanges ==
  ASSUME NEW n \in Nat, NEW f \in [1..n -> Nat], NEW v \in 1..n, NEW a \in Nat,
         NEW g, g = [f EXCEPT ![v] = a], NEW c, Sums(n, f, c), NEW d, Sums(n, g, d)
  PROVE  Moved(n, f, v, a, c, d)
<1> DEFINE T == {i \in 0..n : d[i] + (IF i < v THEN 0 ELSE f[v]) = c[i] + (IF i < v THEN 0 ELSE a)}
<1>1. /\ c \in [0..n -> Nat] /\ c[0] = 0 /\ \A i \in 1..n : c[i] = c[i - 1] + f[i]
      /\ d \in [0..n -> Nat] /\ d[0] = 0 /\ \A i \in 1..n : d[i] = d[i - 1] + g[i]
  BY DEF Sums
<1>2. g[v] = a /\ \A i \in 1..n : i # v => g[i] = f[i]
  OBVIOUS
<1>3. 0 \in T
  BY <1>1
<1>4. ASSUME NEW i \in 1..n, i - 1 \in T PROVE i \in T
  <2>1. c[i] = c[i - 1] + f[i] /\ d[i] = d[i - 1] + g[i]
    BY <1>1
  <2>2. /\ c[i] \in Nat /\ c[i - 1] \in Nat /\ d[i] \in Nat /\ d[i - 1] \in Nat
        /\ f[i] \in Nat /\ f[v] \in Nat
    <3>1. i - 1 \in 0..n /\ i \in 0..n
      OBVIOUS
    <3>2. QED
      BY <1>1, <3>1
  <2>3. d[i - 1] + (IF i - 1 < v THEN 0 ELSE f[v]) = c[i - 1] + (IF i - 1 < v THEN 0 ELSE a)
    BY <1>4
  <2>4. CASE i = v
    <3>1. i - 1 < v /\ ~ (i < v) /\ g[i] = a /\ f[i] = f[v]
      BY <1>2, <2>4
    <3>2. d[i - 1] = c[i - 1]
      BY <2>2, <2>3, <3>1
    <3>3. d[i] + f[v] = c[i] + a
      BY ONLY <2>1, <2>2, <3>1, <3>2, a \in Nat, SMTT(30)
    <3>4. QED
      BY <3>1, <3>3
  <2>5. CASE i # v
    <3>1. (i - 1 < v <=> i < v) /\ g[i] = f[i]
      BY <1>2, <2>5
    <3>2. CASE i < v
      <4>1. d[i - 1] = c[i - 1]
        BY <2>2, <2>3, <3>1, <3>2
      <4>2. d[i] = c[i]
        BY ONLY <2>1, <2>2, <3>1, <4>1
      <4>3. QED
        BY <3>2, <4>2
    <3>3. CASE ~ (i < v)
      <4>1. d[i - 1] + f[v] = c[i - 1] + a
        BY <2>2, <2>3, <3>1, <3>3
      <4>2. d[i] + f[v] = c[i] + a
        <5> DEFINE p == d[i - 1]
                   q == c[i - 1]
                   x == f[i]
                   b == f[v]
        <5>1. p \in Nat /\ q \in Nat /\ x \in Nat /\ b \in Nat /\ p + b = q + a
          BY <2>2, <4>1
        <5>2. d[i] = p + x /\ c[i] = q + x
          BY <2>1, <3>1
        <5> HIDE DEF p, q, x, b
        <5>3. (p + x) + b = (q + x) + a
          BY <5>1
        <5>4. QED
          BY <5>2, <5>3 DEF b
      <4>3. QED
        BY <3>3, <4>2
    <3>4. QED
      BY <3>2, <3>3
  <2>6. QED
    BY <2>4, <2>5
<1>5. n \in T
  <2> HIDE DEF T
  <2>1. \A i \in 0..n : i \in T
    BY <1>3, <1>4, StepByStep
  <2>2. QED
    BY <2>1
<1>6. QED
  BY <1>5 DEF Moved

\* The charges are numbers.
LEMMA ChargesKind ==
  ASSUME NEW n \in Nat, NEW out \in Out(n), NEW s
  PROVE  Charges(n, out, s) \in [1..n -> Nat]
<1>1. \A v \in 1..n : Len(out[v]) \in Nat
  BY DEF Out
<1>2. \A v \in 1..n : (IF s.disc[v] = -1 THEN 2 * Len(out[v]) + 1 ELSE 0) \in Nat
  BY <1>1
<1>3. QED
  BY <1>2 DEF Charges

\* One task less takes a step less.
LEMMA WeightTail ==
  ASSUME NEW n \in Nat, NEW tasks \in Seq(TaskSet(n)), tasks # << >>,
         NEW w, Weights(tasks, Len(tasks), w)
  PROVE  /\ w[1] >= 1 /\ w[1] \in Nat /\ w[2] \in Nat /\ w[1] = Weight(tasks[1]) + w[2]
         /\ \E x : Weights(Tail(tasks), Len(Tail(tasks)), x) /\ x[1] = w[2]
<1> DEFINE l == Len(tasks)
           rest == Tail(tasks)
<1>1. /\ l \in Nat /\ l >= 1 /\ Len(rest) = l - 1 /\ \A i \in 1..l - 1 : rest[i] = tasks[i + 1]
  BY TailPlaces
<1>2. /\ w \in [1..l + 1 -> Nat] /\ w[l + 1] = 0
      /\ \A i \in 1..l : w[i] = Weight(tasks[i]) + w[i + 1]
  BY DEF Weights
<1> HIDE DEF l, rest
<1>3. 1 \in 1..l /\ 1 \in 1..l + 1 /\ 2 \in 1..l + 1 /\ 1 + 1 = 2
  BY <1>1
<1>4. Weight(tasks[1]) \in Nat /\ Weight(tasks[1]) >= 1
  BY DEF Weight
<1>5. w[1] = Weight(tasks[1]) + w[2] /\ w[2] \in Nat /\ w[1] \in Nat
  <2>1. w[1] = Weight(tasks[1]) + w[1 + 1]
    BY <1>2, <1>3
  <2>2. QED
    BY <1>2, <1>3, <2>1
<1> DEFINE x == [i \in 1..l |-> w[i + 1]]
<1>6. x[1] = w[2]
  BY <1>3
<1>7. x \in [1..l -> Nat] /\ x[l] = 0
  <2>1. \A i \in 1..l : i + 1 \in 1..l + 1
    BY <1>1
  <2>2. l \in 1..l
    BY <1>1
  <2>3. QED
    BY <1>2, <2>1, <2>2
<1>8. ASSUME NEW i \in 1..l - 1 PROVE x[i] = Weight(rest[i]) + x[i + 1]
  <2>1. i + 1 \in 1..l /\ i \in 1..l
    BY <1>1
  <2>2. w[i + 1] = Weight(tasks[i + 1]) + w[(i + 1) + 1]
    BY <1>2, <2>1
  <2>3. x[i] = w[i + 1] /\ x[i + 1] = w[(i + 1) + 1]
    BY <2>1
  <2> HIDE DEF x
  <2>4. QED
    BY <1>1, <2>2, <2>3
<1> HIDE DEF x
<1>9. Weights(rest, l - 1, x)
  <2>1. l - 1 + 1 = l
    BY <1>1
  <2>2. QED
    BY <1>7, <1>8, <2>1 DEF Weights
<1>10. QED
  BY <1>1, <1>4, <1>5, <1>6, <1>9 DEF rest

\* Entering a node costs what its charge was.
Weighs(out, t, u, v, w) ==
  \E x : /\ Weights(t.tasks, Len(t.tasks), x)
         /\ x[1] = 2 * Len(out[v]) + (IF u = 0 THEN 1 ELSE 2) + w[2]

\* So it is.
LEMMA WeightEntered ==
  ASSUME NEW n \in Nat, NEW out \in Out(n), NEW s \in States(n), s.tasks # << >>, NEW t,
         NEW u \in 0..n, NEW v \in 1..n, Enters(out, s, t, u, v),
         NEW w, Weights(s.tasks, Len(s.tasks), w)
  PROVE  Weighs(out, t, u, v, w)
<1> DEFINE tasks == s.tasks
           todo == t.tasks
<1>1. PICK m, o, l : EntryMap(n, out, s, t, u, v, m, o, l)
  BY EntryKinds
<1>2. /\ m \in Nat /\ l \in Nat /\ l >= 1 /\ o \in Nat /\ m <= o
      /\ DOMAIN todo = 1..o + l /\ DOMAIN tasks = 1..l /\ DOMAIN out[v] = 1..m
      /\ \A i \in 1..o + l : i \in 1..m \/ i = m + 1 \/ (u # 0 /\ i = m + 2)
                             \/ \E j \in 2..l : i = o + j
      /\ \A i \in 1..m : i \in 1..o + l /\ todo[i] = Edge(v, out[v][i])
      /\ m + 1 \in 1..o + l /\ todo[m + 1] = Close(v)
      /\ u # 0 => m + 2 \in 1..o + l /\ todo[m + 2] = Back(u, v) /\ o = m + 1
      /\ u = 0 => o = m
      /\ \A j \in 2..l : o + j \in 1..o + l /\ m + 1 < o + j
                         /\ (u # 0 => m + 2 < o + j) /\ todo[o + j] = tasks[j]
      /\ todo \in Seq(TaskSet(n)) /\ tasks \in Seq(TaskSet(n))
  BY <1>1, Zenon DEF EntryMap
<1>3. Len(todo) = o + l /\ Len(tasks) = l /\ Len(out[v]) = m
  <2>1. DOMAIN todo = 1..Len(todo) /\ DOMAIN tasks = 1..Len(tasks) /\ Len(todo) \in Nat /\ Len(tasks) \in Nat
    <3>1. todo \in Seq(TaskSet(n)) /\ tasks \in Seq(TaskSet(n))
      BY <1>2
    <3> DEFINE S == TaskSet(n)
    <3> HIDE DEF todo, tasks, S
    <3>2. todo \in Seq(S) /\ tasks \in Seq(S)
      BY <3>1 DEF S
    <3>3. QED
      BY <3>2
  <2>2. out[v] \in Seq(1..n)
    BY DEF Out
  <2>3. DOMAIN out[v] = 1..Len(out[v]) /\ Len(out[v]) \in Nat
    BY <2>2
  <2> DEFINE a == Len(todo)
             b == Len(tasks)
             c == Len(out[v])
  <2> HIDE DEF a, b, c
  <2>4. 1..a = 1..o + l /\ 1..b = 1..l /\ 1..c = 1..m
    BY <1>2, <2>1, <2>3 DEF a, b, c
  <2>5. a \in Nat /\ b \in Nat /\ c \in Nat
    BY <2>1, <2>3 DEF a, b, c
  <2>6. \A p, q \in Nat : 1..p = 1..q => p = q
    OBVIOUS
  <2>7. o + l \in Nat
    BY <1>2
  <2>8. QED
    BY <1>2, <2>4, <2>5, <2>6, <2>7 DEF a, b, c
<1>4. /\ w \in [1..l + 1 -> Nat] /\ w[l + 1] = 0
      /\ \A i \in 1..l : w[i] = Weight(tasks[i]) + w[i + 1]
  BY <1>3 DEF Weights
<1> HIDE DEF tasks, todo
<1>5. /\ \A i \in 1..m : Weight(todo[i]) = 2
      /\ Weight(todo[m + 1]) = 1
      /\ u # 0 => Weight(todo[m + 2]) = 1
      /\ \A j \in 2..l : Weight(todo[o + j]) = Weight(tasks[j])
  <2>1. \A x, y : /\ Edge(x, y).do = "edge" /\ Edge(x, y).from = x
                  /\ Back(x, y).do = "back" /\ Close(x).do = "close"
    BY DEF Edge, Back, Close
  <2>2. v # 0
    OBVIOUS
  <2>3. ASSUME NEW i \in 1..m PROVE Weight(todo[i]) = 2
    <3>1. todo[i].do = "edge" /\ todo[i].from = v
      BY <1>2, <2>1
    <3>2. QED
      BY <2>2, <3>1 DEF Weight
  <2>4. Weight(todo[m + 1]) = 1
    BY <1>2, <2>1 DEF Weight
  <2>5. u # 0 => Weight(todo[m + 2]) = 1
    BY <1>2, <2>1 DEF Weight
  <2>6. \A j \in 2..l : Weight(todo[o + j]) = Weight(tasks[j])
    BY <1>2
  <2>7. QED
    BY <2>3, <2>4, <2>5, <2>6
<1> DEFINE top == 1 + (o - m) + w[2]
           x == [i \in 1..o + l + 1 |->
                   IF i <= m + 1 THEN 2 * (m + 1 - i) + top
                   ELSE IF i <= o + 1 THEN 1 + w[2] ELSE w[i - o]]
<1>6. w[2] \in Nat /\ top \in Nat
  <2>1. 2 \in 1..l + 1
    BY <1>2
  <2>2. w[2] \in Nat
    BY <1>4, <2>1
  <2> DEFINE e == w[2]
  <2> HIDE DEF e
  <2>3. 1 + (o - m) + e \in Nat
    BY <1>2, <2>2 DEF e
  <2>4. QED
    BY <2>2, <2>3 DEF e
<1> HIDE DEF top
<1>7. /\ \A i \in 1..m + 1 : x[i] = 2 * (m + 1 - i) + top
      /\ u # 0 => x[m + 2] = 1 + w[2]
      /\ \A j \in 2..l + 1 : x[o + j] = w[j]
  <2>1. \A i \in 1..m + 1 : i \in 1..o + l + 1 /\ i <= m + 1
    BY <1>2
  <2>2. u # 0 => m + 2 \in 1..o + l + 1 /\ ~ (m + 2 <= m + 1) /\ m + 2 <= o + 1
    BY <1>2
  <2>3. \A j \in 2..l + 1 : /\ o + j \in 1..o + l + 1 /\ ~ (o + j <= m + 1) /\ ~ (o + j <= o + 1)
                            /\ o + j - o = j
    BY <1>2
  <2>4. \A i \in 1..m + 1 : x[i] = 2 * (m + 1 - i) + top
    BY <2>1
  <2>5. u # 0 => x[m + 2] = 1 + w[2]
    BY <2>2
  <2>6. ASSUME NEW j \in 2..l + 1 PROVE x[o + j] = w[j]
    <3> DEFINE i == o + j
    <3>0. m \in Nat /\ l \in Nat /\ o \in Nat /\ m <= o
      BY <1>2
    <3>1. i \in 1..o + l + 1 /\ ~ (i <= m + 1) /\ ~ (i <= o + 1) /\ i - o = j
      BY ONLY <3>0, j \in 2..l + 1
    <3> HIDE DEF i
    <3>2. x[i] = w[j]
      BY <3>1
    <3>3. QED
      BY <3>2 DEF i
  <2>7. QED
    BY <2>4, <2>5, <2>6
<1>8. x \in [1..o + l + 1 -> Nat]
  <2>1. ASSUME NEW i \in 1..o + l + 1
        PROVE  (IF i <= m + 1 THEN 2 * (m + 1 - i) + top
                ELSE IF i <= o + 1 THEN 1 + w[2] ELSE w[i - o]) \in Nat
    <3>1. CASE i <= m + 1
      BY <1>2, <1>6, <3>1
    <3>2. CASE ~ (i <= m + 1) /\ i <= o + 1
      BY <1>6, <3>2
    <3>3. CASE ~ (i <= m + 1) /\ ~ (i <= o + 1)
      <4>1. i - o \in 1..l + 1
        BY ONLY <1>2, <3>3, i \in 1..o + l + 1
      <4>2. w[i - o] \in Nat
        BY <1>4, <4>1
      <4>3. QED
        BY <3>3, <4>2
    <3>4. QED
      BY <3>1, <3>2, <3>3
  <2>2. QED
    BY <2>1
<1> HIDE DEF x
<1>9. x[o + l + 1] = 0
  <2>1. l + 1 \in 2..l + 1 /\ o + (l + 1) = o + l + 1
    BY <1>2
  <2>2. QED
    BY <1>4, <1>7, <2>1
<1>10. ASSUME NEW i \in 1..o + l PROVE x[i] = Weight(todo[i]) + x[i + 1]
  <2>1. CASE i \in 1..m
    <3>1. i \in 1..m + 1 /\ i + 1 \in 1..m + 1
      BY ONLY <1>2, <2>1
    <3>2. x[i] = 2 * (m + 1 - i) + top /\ x[i + 1] = 2 * (m + 1 - (i + 1)) + top
      BY <1>7, <3>1
    <3>3. 2 * (m + 1 - i) + top = 2 + (2 * (m + 1 - (i + 1)) + top)
      BY <1>2, <1>6, <2>1
    <3>4. QED
      BY <1>5, <2>1, <3>2, <3>3
  <2>2. CASE i = m + 1
    <3>1. i \in 1..m + 1 /\ i + 1 = m + 2
      BY <1>2, <2>2
    <3>2. x[i] = top
      <4>1. x[i] = 2 * (m + 1 - i) + top
        BY <1>7, <3>1
      <4>2. m + 1 - i = 0
        BY <1>2, <2>2
      <4>3. QED
        BY <1>6, <4>1, <4>2
    <3>3. CASE u # 0
      <4>1. x[m + 2] = 1 + w[2] /\ o - m = 1
        BY <1>2, <1>7, <3>3
      <4>2. top = 1 + (1 + w[2])
        BY <1>6, <4>1 DEF top
      <4>3. QED
        BY <1>5, <2>2, <3>1, <3>2, <4>1, <4>2
    <3>4. CASE u = 0
      <4>1. o = m /\ o - m = 0 /\ 2 \in 2..l + 1
        BY <1>2, <3>4
      <4>2. x[m + 2] = w[2]
        BY <1>7, <4>1
      <4>3. top = 1 + w[2]
        BY <1>6, <4>1 DEF top
      <4>4. QED
        BY <1>5, <2>2, <3>1, <3>2, <4>2, <4>3
    <3>5. QED
      BY <3>3, <3>4
  <2>3. CASE u # 0 /\ i = m + 2
    <3>1. i + 1 = o + 2 /\ 2 \in 2..l + 1
      BY <1>2, <2>3
    <3>2. x[i + 1] = w[2]
      BY <1>7, <3>1
    <3>3. QED
      BY <1>5, <1>7, <2>3, <3>2
  <2>4. ASSUME NEW j \in 2..l, i = o + j PROVE x[i] = Weight(todo[i]) + x[i + 1]
    <3>1. j \in 2..l + 1 /\ j + 1 \in 2..l + 1 /\ i + 1 = o + (j + 1) /\ j \in 1..l
      BY <1>2, <2>4
    <3> DEFINE k == j + 1
    <3>2. k \in 2..l + 1 /\ i + 1 = o + k
      BY <3>1
    <3> HIDE DEF k
    <3>3. x[i + 1] = w[k] /\ x[i] = w[j]
      BY <1>7, <2>4, <3>1, <3>2
    <3>4. w[j] = Weight(tasks[j]) + w[k]
      BY <1>4, <3>1 DEF k
    <3>5. QED
      BY <1>5, <2>4, <3>3, <3>4
  <2>5. QED
    BY <1>2, <2>1, <2>2, <2>3, <2>4
<1>11. x[1] = 2 * m + (IF u = 0 THEN 1 ELSE 2) + w[2]
  <2>1. 1 \in 1..m + 1
    BY <1>2
  <2>2. x[1] = 2 * (m + 1 - 1) + top
    BY <1>7, <2>1
  <2>3. m + 1 - 1 = m
    BY <1>2
  <2>4. top = (IF u = 0 THEN 1 ELSE 2) + w[2]
    <3>1. o - m = IF u = 0 THEN 0 ELSE 1
      BY <1>2
    <3>2. QED
      BY <1>6, <3>1 DEF top
  <2> DEFINE e == w[2]
  <2> HIDE DEF e
  <2> DEFINE b == IF u = 0 THEN 1 ELSE 2
  <2>7. b \in Nat /\ e \in Nat
    BY <1>6 DEF e
  <2> HIDE DEF b
  <2>8. 2 * m + (b + e) = 2 * m + b + e
    BY <1>2, <2>7
  <2>5. 2 * m + ((IF u = 0 THEN 1 ELSE 2) + e) = 2 * m + (IF u = 0 THEN 1 ELSE 2) + e
    BY <2>8 DEF b
  <2>6. QED
    BY <2>2, <2>3, <2>4, <2>5 DEF e
<1>12. Weights(todo, o + l, x)
  BY <1>8, <1>9, <1>10 DEF Weights
<1>13. QED
  BY <1>3, <1>11, <1>12 DEF todo, Weighs

\* A task that is done takes one step off,
LEMMA FuelTail ==
  ASSUME NEW n \in Nat, NEW out \in Out(n), NEW s \in States(n), s.tasks # << >>,
         NEW t, t.disc = s.disc, t.tasks = Tail(s.tasks), NEW k \in Int, Fuel(n, out, s, k)
  PROVE  Fuel(n, out, t, k - 1)
<1>1. s.tasks \in Seq(TaskSet(n))
  BY StateParts
<1>2. PICK w, c : /\ Weights(s.tasks, Len(s.tasks), w) /\ Sums(n, Charges(n, out, s), c)
                  /\ w[1] + c[n] <= k
  BY Zenon DEF Fuel
<1>3. /\ w[1] \in Nat /\ w[2] \in Nat /\ w[1] = Weight(s.tasks[1]) + w[2]
      /\ \E x : Weights(Tail(s.tasks), Len(Tail(s.tasks)), x) /\ x[1] = w[2]
  BY <1>1, <1>2, WeightTail
<1>4. PICK x : Weights(t.tasks, Len(t.tasks), x) /\ x[1] = w[2]
  BY <1>3
<1>5. Weight(s.tasks[1]) \in {1, 2}
  BY DEF Weight
<1>6. Charges(n, out, t) = Charges(n, out, s)
  BY DEF Charges
<1>7. c[n] \in Nat
  BY <1>2 DEF Sums
<1>8. x[1] + c[n] <= k - 1
  <2> DEFINE a == w[1]
             b == w[2]
             e == Weight(s.tasks[1])
             d == c[n]
             y == x[1]
  <2>1. a \in Nat /\ b \in Nat /\ d \in Nat /\ a = e + b /\ y = b /\ a + d <= k /\ e \in {1, 2}
    BY <1>2, <1>3, <1>4, <1>5, <1>7
  <2> HIDE DEF a, b, e, d, y
  <2>2. y + d <= k - 1
    BY ONLY <2>1, k \in Int
  <2>3. QED
    BY <2>2 DEF y, d
<1>9. QED
  BY <1>2, <1>4, <1>6, <1>8, Zenon DEF Fuel

\* and so does entering a node, which was paid for.
LEMMA FuelEntered ==
  ASSUME NEW n \in Nat, NEW out \in Out(n), NEW s \in States(n), s.tasks # << >>, NEW t,
         NEW u \in 0..n, NEW v \in 1..n, s.tasks[1] = Edge(u, v), Times(s), Stacked(s),
         s.disc[v] = -1, Enters(out, s, t, u, v), NEW k \in Int, Fuel(n, out, s, k)
  PROVE  Fuel(n, out, t, k - 1)
<1>1. s.tasks \in Seq(TaskSet(n)) /\ s.time \in Nat /\ s.disc \in [1..n -> Int]
  BY StateParts
<1>2. PICK w, c : /\ Weights(s.tasks, Len(s.tasks), w) /\ Sums(n, Charges(n, out, s), c)
                  /\ w[1] + c[n] <= k
  BY Zenon DEF Fuel
<1>3. w[1] \in Nat /\ w[2] \in Nat /\ w[1] = Weight(s.tasks[1]) + w[2]
  BY <1>1, <1>2, WeightTail
<1>4. PICK x : /\ Weights(t.tasks, Len(t.tasks), x)
               /\ x[1] = 2 * Len(out[v]) + (IF u = 0 THEN 1 ELSE 2) + w[2]
  <2>1. Weights(s.tasks, Len(s.tasks), w)
    BY <1>2
  <2>2. Weighs(out, t, u, v, w)
    BY <2>1, WeightEntered
  <2>3. QED
    BY <2>2, Zenon DEF Weighs
<1>5. Weight(s.tasks[1]) = IF u = 0 THEN 1 ELSE 2
  BY DEF Weight, Edge
<1> DEFINE f == Charges(n, out, s)
           g == Charges(n, out, t)
<1>6. f \in [1..n -> Nat] /\ g \in [1..n -> Nat]
  BY ChargesKind
<1>7. f[v] = 2 * Len(out[v]) + 1 /\ g = [f EXCEPT ![v] = 0]
  <2>1. t.disc = [s.disc EXCEPT ![v] = s.time + 1]
    BY DEF Enters
  <2>2. t.disc[v] # -1 /\ \A i \in 1..n : i # v => t.disc[i] = s.disc[i]
    <3>1. s.time + 1 \in Int /\ s.time + 1 # -1
      BY ONLY <1>1
    <3>2. t.disc[v] = s.time + 1 /\ \A i \in 1..n : i # v => t.disc[i] = s.disc[i]
      BY ONLY <1>1, <2>1, <3>1, n \in Nat, v \in 1..n, EntryReplaced
    <3>3. QED
      BY <3>1, <3>2, Zenon
  <2>3. f[v] = 2 * Len(out[v]) + 1
    BY DEF Charges
  <2>4. g[v] = 0 /\ \A i \in 1..n : i # v => g[i] = f[i]
    BY <2>2 DEF Charges
  <2> HIDE DEF f, g
  <2>5. QED
    BY <1>6, <2>3, <2>4
<1> HIDE DEF f, g
<1>8. PICK d : Sums(n, g, d)
  BY <1>6, SumExists
<1>9. d[n] + f[v] = c[n] + 0
  <2>1. Sums(n, f, c)
    BY <1>2 DEF f
  <2>2. /\ f \in [1..n -> Nat] /\ 0 \in Nat /\ g = [f EXCEPT ![v] = 0] /\ Sums(n, g, d)
    BY <1>6, <1>7, <1>8
  <2>3. Moved(n, f, v, 0, c, d)
    BY <2>1, <2>2, SumChanges
  <2>4. QED
    BY <2>3 DEF Moved
<1>10. c[n] \in Nat /\ d[n] \in Nat /\ Len(out[v]) \in Nat
  <2>1. out[v] \in Seq(1..n)
    BY DEF Out
  <2>2. Len(out[v]) \in Nat
    BY <2>1
  <2>3. QED
    BY <1>2, <1>8, <2>2 DEF Sums
<1>11. x[1] + d[n] <= k - 1
  <2> DEFINE a == w[1]
             b == w[2]
             e == IF u = 0 THEN 1 ELSE 2
             y == x[1]
             p == c[n]
             q == d[n]
             m == Len(out[v])
  <2>1. /\ a \in Nat /\ b \in Nat /\ e \in Nat /\ p \in Nat /\ q \in Nat /\ m \in Nat
        /\ a = e + b /\ y = 2 * m + e + b /\ q + (2 * m + 1) = p + 0 /\ a + p <= k
    BY <1>2, <1>3, <1>4, <1>5, <1>7, <1>9, <1>10
  <2> HIDE DEF a, b, e, y, p, q, m
  <2>2. y + q <= k - 1
    BY ONLY <2>1, k \in Int
  <2>3. QED
    BY <2>2 DEF y, q
<1>12. QED
  BY <1>4, <1>8, <1>11, Zenon DEF Fuel, g

\* With nothing left to pay there is nothing left to do.
LEMMA FuelEnds ==
  ASSUME NEW n \in Nat, NEW out \in Out(n), NEW s \in States(n), Fuel(n, out, s, 0)
  PROVE  s.tasks = << >>
<1>1. SUFFICES ASSUME s.tasks # << >> PROVE FALSE
  OBVIOUS
<1>2. s.tasks \in Seq(TaskSet(n))
  BY StateParts
<1>3. PICK w, c : /\ Weights(s.tasks, Len(s.tasks), w) /\ Sums(n, Charges(n, out, s), c)
                  /\ w[1] + c[n] <= 0
  BY Zenon DEF Fuel
<1>4. w[1] >= 1 /\ w[1] \in Nat
  BY <1>1, <1>2, <1>3, WeightTail
<1>5. c[n] \in Nat
  BY <1>3 DEF Sums
<1>6. QED
  BY <1>3, <1>4, <1>5

\* A step of the search takes one off the steps that are left.
LEMMA FuelStep ==
  ASSUME NEW n \in Nat, NEW blocks, blocks.out \in Out(n), NEW s \in States(n), s.tasks # << >>,
         Searching(blocks.out, s), NEW t, t = ComponentStep(blocks, s),
         NEW k \in Int, Fuel(n, blocks.out, s, k)
  PROVE  Fuel(n, blocks.out, t, k - 1)
<1> DEFINE out == blocks.out
           u == s.tasks[1].from
           v == s.tasks[1].to
<1>1. out \in Out(n)
  OBVIOUS
<1>2. Times(s) /\ Stacked(s) /\ TasksStand(out, s) /\ Anchored(out, s)
  BY DEF Searching
<1>3. /\ Head(s.tasks) = s.tasks[1] /\ s.tasks[1] \in TaskSet(n)
      /\ u \in 0..n /\ v \in 1..n
      /\ u # 0 => u \in Open(s.tasks)
      /\ s.tasks[1].do = "close" => u = v
  BY <1>1, <1>2, HeadFacts
<1>4. /\ s.tasks[1].do \in {"edge", "back", "close"}
      /\ s.tasks[1].do = "edge" => s.tasks[1] = Edge(u, v)
  BY <1>3, TaskIs
<1>5. Open(s.tasks) \subseteq On(s)
  BY <1>2 DEF TasksStand
<1>6. CASE s.tasks[1].do = "close"
  <2>1. u # 0 /\ v \in On(s)
    BY <1>3, <1>5, <1>6
  <2>2. /\ s.low[v] # s.disc[v] => Keeps(s, t)
        /\ s.low[v] = s.disc[v] => Pops(s, t, v)
    BY <1>3, <1>6, <2>1, ClosedDoes DEF On
  <2>3. t.disc = s.disc /\ t.tasks = Tail(s.tasks)
    BY <2>2 DEF Keeps, Pops, SameFinds
  <2>4. QED
    BY <1>1, <2>3, FuelTail
<1>7. CASE s.tasks[1].do = "back"
  <2>1. Lowers(s, t, u, s.low[v])
    BY <1>3, <1>7, BackDoes
  <2>2. t.disc = s.disc /\ t.tasks = Tail(s.tasks)
    BY <2>1 DEF Lowers, SameFinds
  <2>3. QED
    BY <1>1, <2>2, FuelTail
<1>8. CASE s.tasks[1].do = "edge"
  <2>1. /\ s.disc[v] = -1 => Enters(out, s, t, u, v)
        /\ s.disc[v] # -1 /\ u # 0 /\ v \in On(s) => Lowers(s, t, u, s.disc[v])
        /\ s.disc[v] # -1 /\ ~ (u # 0 /\ v \in On(s)) => Keeps(s, t)
    BY <1>3, <1>8, EdgeDoes DEF On
  <2>2. CASE s.disc[v] = -1
    BY <1>1, <1>2, <1>3, <1>4, <1>8, <2>1, <2>2, FuelEntered
  <2>3. CASE s.disc[v] # -1
    <3>1. t.disc = s.disc /\ t.tasks = Tail(s.tasks)
      BY <2>1, <2>3 DEF Keeps, Lowers, SameFinds
    <3>2. QED
      BY <1>1, <3>1, FuelTail
  <2>4. QED
    BY <2>2, <2>3
<1>9. QED
  BY <1>4, <1>6, <1>7, <1>8

\* The walk along the nodes that counts the edges.
LEMMA EdgesWalked ==
  ASSUME NEW out
  PROVE  Walk(LAMBDA k, edges : k + Len(edges), 0, out)
           = (CHOOSE c : c =
                [i \in 0..Len(out) |-> IF i = 0 THEN 0
                   ELSE CHOOSE s \in {before + Len(out[i]) : before \in {c[i - 1]}} : TRUE])[Len(out)]
BY DEF Walk

\* The steps TasksOf allows are those the nodes and their edges take.
LEMMA LengthsAdd ==
  ASSUME NEW blocks, NEW n \in Nat, blocks.out \in Out(n)
  PROVE  \E c : /\ Sums(n, [i \in 1..n |-> Len(blocks.out[i])], c)
                /\ TasksOf(blocks) = 2 * (n + c[n])
<1> DEFINE out == blocks.out
           f == [i \in 1..n |-> Len(out[i])]
           after == CHOOSE c : c =
                      [i \in 0..Len(out) |-> IF i = 0 THEN 0
                         ELSE CHOOSE s \in {before + Len(out[i]) : before \in {c[i - 1]}} : TRUE]
<1>1. Len(out) = n
  BY DEF Out
<1>2. TasksOf(blocks) = 2 * (n + after[n])
  <2> DEFINE sum == Walk(LAMBDA k, edges : k + Len(edges), 0, blocks.out)
  <2>1. TasksOf(blocks) = 2 * (Len(blocks.out) + sum)
    BY Zenon DEF TasksOf
  <2>2. sum = after[Len(out)]
    BY EdgesWalked, Zenon
  <2> HIDE DEF after, out, sum
  <2>3. QED
    BY <1>1, <2>1, <2>2 DEF out
<1>3. f \in [1..n -> Nat]
  BY DEF Out
<1> DEFINE Taking(c) == [i \in 0..Len(out) |-> IF i = 0 THEN 0
                         ELSE CHOOSE s \in {before + Len(out[i]) : before \in {c[i - 1]}} : TRUE]
<1>4. ASSUME NEW c PROVE Taking(c) = [i \in 0..n |-> IF i = 0 THEN 0 ELSE c[i - 1] + f[i]]
  <2>1. \A i \in 0..n : i # 0 => i \in 1..n
    OBVIOUS
  <2>2. QED
    BY <1>1, <2>1
<1>5. ASSUME NEW c, Sums(n, f, c) PROVE Taking(c) = c
  <2>1. /\ c \in [0..n -> Nat] /\ c[0] = 0 /\ \A i \in 1..n : c[i] = c[i - 1] + f[i]
    BY <1>5 DEF Sums
  <2>2. \A i \in 0..n : c[i] = IF i = 0 THEN 0 ELSE c[i - 1] + f[i]
    <3>1. \A i \in 0..n : i # 0 => i \in 1..n
      OBVIOUS
    <3> HIDE DEF f
    <3>2. QED
      BY <2>1, <3>1
  <2>3. c = [i \in 0..n |-> c[i]]
    BY <2>1
  <2> HIDE DEF Taking, f
  <2>4. QED
    BY <1>4, <2>2, <2>3
<1>6. PICK c : Sums(n, f, c)
  BY <1>3, SumExists
<1>7. \E g : g = Taking(g)
  <2> HIDE DEF Taking
  <2>1. QED
    BY <1>5, <1>6
<1>8. after = Taking(after)
  BY <1>7, Zenon
<1> HIDE DEF after, Taking, f
<1>9. after = [i \in 0..n |-> IF i = 0 THEN 0 ELSE after[i - 1] + f[i]]
  BY <1>4, <1>8
<1>10. Sums(n, f, after)
  <2> DEFINE T == {i \in 0..n : after[i] \in Nat}
  <2>1. after[0] = 0 /\ \A i \in 1..n : after[i] = after[i - 1] + f[i]
    <3>1. \A i \in 1..n : i \in 0..n /\ i # 0
      OBVIOUS
    <3>2. 0 \in 0..n
      OBVIOUS
    <3>3. QED
      BY <1>9, <3>1, <3>2
  <2>2. 0 \in T
    BY <2>1
  <2>3. \A i \in 1..n : i - 1 \in T => i \in T
    BY <1>3, <2>1
  <2>4. \A i \in 0..n : i \in T
    <3> HIDE DEF T
    <3>1. QED
      BY <2>2, <2>3, StepByStep
  <2>5. after \in [0..n -> Nat]
    <3>1. after = [i \in 0..n |-> after[i]]
      BY <1>9
    <3>2. \A i \in 0..n : after[i] \in Nat
      BY <2>4
    <3>3. QED
      BY <3>1, <3>2
  <2>6. QED
    BY <2>1, <2>5 DEF Sums
<1>11. QED
  BY <1>2, <1>10 DEF f

-----------------------------------------------------------------------------
(***************************************************************************)
(* The search from its start to its end, and the theorem.                  *)
(***************************************************************************)

\* The search before its first step.
Start(n) ==
  [time |-> 0, disc |-> [v \in 1..n |-> -1], low |-> [v \in 1..n |-> -1], stack |-> << >>,
   components |-> {}, tasks |-> [v \in 1..n |-> Edge(0, v)]]

\* The invariant holds when the search starts.
LEMMA StartSearches ==
  ASSUME NEW n \in Nat, NEW out \in Out(n)
  PROVE  Start(n) \in States(n) /\ Searching(out, Start(n))
<1> DEFINE s == Start(n)
           todo == [v \in 1..n |-> Edge(0, v)]
<1>1. /\ s.time = 0 /\ s.disc = [v \in 1..n |-> -1] /\ s.low = [v \in 1..n |-> -1]
      /\ s.stack = << >> /\ s.components = {} /\ s.tasks = todo
  BY DEF Start
<1>2. \A v \in 1..n : Edge(0, v) \in TaskSet(n)
  BY DEF Edge, TaskSet
<1>3. todo \in Seq(TaskSet(n)) /\ DOMAIN todo = 1..n
  BY <1>2
<1>4. s \in States(n)
  <2>1. << >> \in Seq(1..n) /\ {} \in SUBSET SUBSET (1..n) /\ 0 \in Nat
    OBVIOUS
  <2>2. [v \in 1..n |-> -1] \in [1..n -> Int]
    OBVIOUS
  <2> HIDE DEF todo
  <2>3. QED
    BY <1>1, <1>3, <2>1, <2>2 DEF Start, States, todo
<1> HIDE DEF s
<1>5. Discovered(s) = {}
  BY <1>1 DEF Discovered
<1>6. On(s) = {} /\ Taken(s) = {}
  BY <1>1, <1>5 DEF On, Taken, ToSet
<1>7. \A i \in DOMAIN s.tasks : s.tasks[i].do = "edge" /\ s.tasks[i].from = 0 /\ s.tasks[i] = Edge(0, i)
  BY <1>1 DEF Edge
<1>8. Open(s.tasks) = {}
  <2>1. \A v : Close(v).do = "close"
    BY DEF Close
  <2>2. QED
    BY <1>7, <2>1 DEF Open
<1>9. Times(s) /\ Stacked(s)
  BY <1>1, <1>5 DEF Times, Stacked
<1>10. TasksStand(out, s)
  <2>1. Legit(out, s.tasks) /\ Owned(s.tasks)
    BY <1>7 DEF Legit, Owned
  <2>2. Deepest(s.disc, s.tasks)
    BY <1>7 DEF Deepest, Depth
  <2>3. Returns(s) /\ Follows(s.tasks)
    BY <1>7 DEF Returns, Follows
  <2>4. QED
    BY <1>8, <2>1, <2>2, <2>3 DEF TasksStand
<1>11. Anchored(out, s) /\ Ordered(out, s) /\ LowSound(out, s) /\ LowComplete(out, s)
  BY <1>6, <1>8 DEF Anchored, Ordered, LowSound, LowComplete
<1>12. Explored(out, s)
  <2>1. \A v \in DOMAIN s.disc : Pending(s.tasks, 0, v)
    BY <1>1, <1>3, <1>7 DEF Pending
  <2>2. QED
    BY <1>5, <2>1 DEF Explored
<1>13. Components(out, s)
  BY <1>1, <1>6 DEF Components
<1>14. QED
  BY <1>4, <1>9, <1>10, <1>11, <1>12, <1>13 DEF Searching, s

\* The search, step by step.
Further(blocks, s) == IF s.tasks = << >> THEN s ELSE ComponentStep(blocks, s)
Searched(g, blocks, start, m) ==
  g = [i \in 0..m |-> IF i = 0 THEN start ELSE Further(blocks, g[i - 1])]

\* The search can be followed as far as one likes.
LEMMA SearchedExists ==
  ASSUME NEW n \in Nat, NEW blocks, NEW start
  PROVE  \E g : Searched(g, blocks, start, n)
<1> DEFINE T == {m \in 0..n : \E g : Searched(g, blocks, start, m)}
<1>1. 0 \in T
  <2> DEFINE h == [i \in 0..0 |-> start]
  <2>1. Searched(h, blocks, start, 0)
    BY DEF Searched
  <2>2. QED
    BY <2>1
<1>2. ASSUME NEW m \in 1..n, m - 1 \in T PROVE m \in T
  <2>1. PICK g : Searched(g, blocks, start, m - 1)
    BY <1>2
  <2> DEFINE h == [i \in 0..m |-> IF i = m THEN Further(blocks, g[m - 1]) ELSE g[i]]
  <2>2. \A i \in 0..m - 1 : h[i] = g[i]
    OBVIOUS
  <2>3. h[m] = Further(blocks, h[m - 1])
    BY <2>2
  <2>4. \A i \in 0..m - 1 : g[i] = IF i = 0 THEN start ELSE Further(blocks, g[i - 1])
    BY <2>1 DEF Searched
  <2>5. h = [i \in 0..m |-> h[i]]
    OBVIOUS
  <2> HIDE DEF h
  <2>6. ASSUME NEW i \in 0..m
        PROVE  h[i] = IF i = 0 THEN start ELSE Further(blocks, h[i - 1])
    <3>1. CASE i = m
      BY <3>1, <2>3
    <3>2. CASE i # m
      <4>1. i \in 0..m - 1 /\ (i # 0 => i - 1 \in 0..m - 1)
        BY <3>2
      <4>2. QED
        BY <4>1, <2>2, <2>4
    <3>3. QED
      BY <3>1, <3>2
  <2>7. Searched(h, blocks, start, m)
    BY <2>5, <2>6 DEF Searched
  <2>8. QED
    BY <2>7
<1>3. \A i \in 0..n : i \in T
  <2> HIDE DEF T
  <2>1. QED
    BY <1>1, <1>2, StepByStep
<1>4. QED
  BY <1>3

\* What StronglyConnected gives is found by following it.
LEMMA StronglyConnectedIsSearched ==
  ASSUME NEW blocks, NEW n \in Nat, blocks.out \in Out(n), NEW F \in Nat, TasksOf(blocks) = F
  PROVE  \E g : /\ Searched(g, blocks, Start(n), F)
                /\ StronglyConnected(blocks) = {c \in g[F].components : Cardinality(c) > 1}
<1> DEFINE steps == [k \in 1..F |-> k]
           after == CHOOSE g : g =
                      [i \in 0..Len(steps) |-> IF i = 0 THEN Start(n)
                         ELSE CHOOSE r \in {(IF s.tasks = << >> THEN s ELSE ComponentStep(blocks, s)) :
                                             s \in {g[i - 1]}} : TRUE]
<1>1. Len(steps) = F /\ Nodes(blocks) = 1..n
  BY DEF Nodes, Out
<1> DEFINE none == [v \in Nodes(blocks) |-> -1]
           start == [time |-> 0, disc |-> none, low |-> none, stack |-> << >>,
                     components |-> {}, tasks |-> [v \in Nodes(blocks) |-> Edge(0, v)]]
           end == Walk(LAMBDA s, k : IF s.tasks = << >> THEN s ELSE ComponentStep(blocks, s),
                       start, [k \in 1..TasksOf(blocks) |-> k])
<1>2. StronglyConnected(blocks) = {c \in end.components : Cardinality(c) > 1}
  BY Zenon DEF StronglyConnected
<1>3. start = Start(n)
  BY <1>1, Zenon DEF Start
<1>4. end = after[F]
  <2>1. [k \in 1..TasksOf(blocks) |-> k] = steps
    OBVIOUS
  <2> HIDE DEF start, steps
  <2>2. end = Walk(LAMBDA s, k : IF s.tasks = << >> THEN s ELSE ComponentStep(blocks, s),
                   Start(n), steps)
    BY <1>3, <2>1, Zenon
  <2>3. Walk(LAMBDA s, k : IF s.tasks = << >> THEN s ELSE ComponentStep(blocks, s),
             Start(n), steps) = after[Len(steps)]
    BY Zenon DEF Walk
  <2>4. QED
    BY <1>1, <2>2, <2>3, Zenon
<1> DEFINE Taking(g) == [i \in 0..Len(steps) |-> IF i = 0 THEN Start(n)
                         ELSE CHOOSE r \in {(IF s.tasks = << >> THEN s ELSE ComponentStep(blocks, s)) :
                                             s \in {g[i - 1]}} : TRUE]
<1>5. ASSUME NEW g
      PROVE  Taking(g) = [i \in 0..F |-> IF i = 0 THEN Start(n) ELSE Further(blocks, g[i - 1])]
  <2>1. ASSUME NEW s
        PROVE  (CHOOSE r \in {(IF q.tasks = << >> THEN q ELSE ComponentStep(blocks, q)) : q \in {s}} : TRUE)
                 = Further(blocks, s)
    <3>1. {(IF q.tasks = << >> THEN q ELSE ComponentStep(blocks, q)) : q \in {s}} = {Further(blocks, s)}
      BY DEF Further
    <3>2. QED
      BY <3>1
  <2> HIDE DEF steps
  <2>2. QED
    BY <1>1, <2>1, Zenon
<1>6. \E g : g = Taking(g)
  <2>1. PICK g : Searched(g, blocks, Start(n), F)
    BY SearchedExists
  <2>2. Taking(g) = g
    BY <1>5, <2>1, Zenon DEF Searched
  <2> HIDE DEF Taking
  <2>3. QED
    BY <2>2
<1>7. after = Taking(after)
  BY <1>6, Zenon
<1>8. Searched(after, blocks, Start(n), F)
  BY <1>5, <1>7, Zenon DEF Searched
<1> HIDE DEF after, end
<1>9. QED
  BY <1>2, <1>4, <1>8

\* The search of every graph ends, with the component of every node.
LEMMA SearchEnds ==
  ASSUME NEW blocks, NEW n \in Nat, blocks.out \in Out(n)
  PROVE  StronglyConnected(blocks) =
           {c \in {Mutual(blocks.out, x) : x \in 1..n} : Cardinality(c) > 1}
<1> DEFINE out == blocks.out
           f == [i \in 1..n |-> Len(out[i])]
<1>1. out \in Out(n)
  OBVIOUS
<1>2. PICK c : Sums(n, f, c) /\ TasksOf(blocks) = 2 * (n + c[n])
  BY LengthsAdd
<1> HIDE DEF f
<1>3. /\ c \in [0..n -> Nat] /\ c[0] = 0 /\ \A i \in 1..n : c[i] = c[i - 1] + f[i]
      /\ c[n] \in Nat
  BY <1>2 DEF Sums
<1> DEFINE F == 2 * (n + c[n])
<1>4. F \in Nat
  BY <1>3
<1>5. Fuel(n, out, Start(n), F)
  <2> DEFINE s == Start(n)
             w == [i \in 1..n + 1 |-> n + 1 - i]
             d == [i \in 0..n |-> 2 * c[i] + i]
  <2>1. s.disc = [v \in 1..n |-> -1] /\ s.tasks = [v \in 1..n |-> Edge(0, v)]
    BY DEF Start
  <2>2. Len(s.tasks) = n
    BY <2>1
  <2>3. \A i \in 1..n : Weight(s.tasks[i]) = 1
    BY <2>1 DEF Weight, Edge
  <2> HIDE DEF s
  <2>4. Weights(s.tasks, Len(s.tasks), w)
    <3>1. w \in [1..n + 1 -> Nat] /\ w[n + 1] = 0
      OBVIOUS
    <3>2. ASSUME NEW i \in 1..n PROVE w[i] = 1 + w[i + 1]
      OBVIOUS
    <3> HIDE DEF w
    <3>3. QED
      BY <2>2, <2>3, <3>1, <3>2 DEF Weights
  <2>5. \A i \in 1..n : Charges(n, out, s)[i] = 2 * f[i] + 1
    BY <2>1 DEF Charges, f
  <2>6. Sums(n, Charges(n, out, s), d)
    <3>1. \A i \in 0..n : 2 * c[i] + i \in Nat
      BY <1>3
    <3>2. d \in [0..n -> Nat] /\ d[0] = 0
      <4>1. d \in [0..n -> Nat]
        BY <3>1
      <4>2. 0 \in 0..n
        OBVIOUS
      <4>3. d[0] = 2 * c[0] + 0
        BY <4>2
      <4>4. c[0] = 0
        BY <1>3
      <4> HIDE DEF d
      <4>5. d[0] = 0
        BY <4>3, <4>4
      <4>6. QED
        BY <4>1, <4>5
    <3>3. ASSUME NEW i \in 1..n PROVE d[i] = d[i - 1] + (2 * f[i] + 1)
      <4>1. i \in 0..n /\ i - 1 \in 0..n
        OBVIOUS
      <4>2. d[i] = 2 * c[i] + i /\ d[i - 1] = 2 * c[i - 1] + (i - 1)
        BY <4>1
      <4>3. c[i] = c[i - 1] + f[i] /\ c[i - 1] \in Nat /\ f[i] \in Nat
        <5>1. f[i] = Len(out[i]) /\ out[i] \in Seq(1..n)
          BY <1>1 DEF f, Out
        <5>2. f[i] \in Nat
          BY <5>1
        <5>3. QED
          BY <1>3, <4>1, <5>2
      <4> DEFINE p == c[i - 1]
                 q == f[i]
      <4> HIDE DEF d
      <4>4. d[i] = 2 * (p + q) + i /\ d[i - 1] = 2 * p + (i - 1) /\ p \in Nat /\ q \in Nat
        BY <4>2, <4>3
      <4> HIDE DEF p, q
      <4>5. 2 * (p + q) + i = 2 * p + (i - 1) + (2 * q + 1)
        BY <4>4
      <4>6. QED
        BY <4>4, <4>5 DEF q
    <3> HIDE DEF d
    <3>4. QED
      BY <2>5, <3>2, <3>3 DEF Sums
  <2>7. w[1] + d[n] <= F
    <3>1. w[1] = n /\ d[n] = 2 * c[n] + n
      OBVIOUS
    <3> HIDE DEF w, d
    <3>2. QED
      BY <1>3, <3>1
  <2> HIDE DEF w, d, F
  <2>8. QED
    BY <2>4, <2>6, <2>7, Zenon DEF Fuel, s
<1>6. PICK g : /\ Searched(g, blocks, Start(n), F)
               /\ StronglyConnected(blocks) = {e \in g[F].components : Cardinality(e) > 1}
  <2>1. TasksOf(blocks) = F
    BY <1>2
  <2> HIDE DEF F, out
  <2>2. QED
    BY <1>4, <2>1, StronglyConnectedIsSearched
<1> HIDE DEF F
<1>7. g[0] = Start(n) /\ \A i \in 1..F : g[i] = Further(blocks, g[i - 1])
  <2>1. \A i \in 0..F : g[i] = IF i = 0 THEN Start(n) ELSE Further(blocks, g[i - 1])
    BY <1>4, <1>6 DEF Searched
  <2>2. 0 \in 0..F /\ \A i \in 1..F : i \in 0..F /\ i # 0
    BY <1>4
  <2>3. QED
    BY <2>1, <2>2
<1> DEFINE T == {i \in 0..F : /\ g[i] \in States(n) /\ Searching(out, g[i])
                              /\ g[i].tasks = << >> \/ Fuel(n, out, g[i], F - i)}
<1>8. 0 \in T
  <2>1. F - 0 = F /\ 0 \in 0..F
    BY <1>4
  <2>2. QED
    BY <1>1, <1>5, <1>7, <2>1, StartSearches
<1>9. ASSUME NEW i \in 1..F, i - 1 \in T PROVE i \in T
  <2> DEFINE s == g[i - 1]
             k == F - (i - 1)
  <2>1. /\ s \in States(n) /\ Searching(out, s)
        /\ s.tasks = << >> \/ Fuel(n, out, s, k)
    BY <1>9
  <2>2. g[i] = Further(blocks, s)
    BY <1>7
  <2>3. k \in Int /\ k - 1 = F - i /\ i \in 0..F
    BY <1>4
  <2> HIDE DEF s, k
  <2>4. CASE s.tasks = << >>
    BY <2>1, <2>2, <2>3, <2>4 DEF Further
  <2>5. CASE s.tasks # << >>
    <3>1. g[i] = ComponentStep(blocks, s)
      BY <2>2, <2>5 DEF Further
    <3>2. g[i] \in States(n) /\ Searching(out, g[i])
      BY <2>1, <2>5, <3>1, SearchStep
    <3>3. Fuel(n, out, g[i], k - 1)
      BY <2>1, <2>3, <2>5, <3>1, FuelStep
    <3>4. QED
      BY <2>3, <3>2, <3>3
  <2>6. QED
    BY <2>4, <2>5
<1>10. F \in T
  <2> HIDE DEF T
  <2>1. \A i \in 0..F : i \in T
    BY <1>4, <1>8, <1>9, StepByStep
  <2>2. QED
    BY <1>4, <2>1
<1> DEFINE end == g[F]
<1>11. end \in States(n) /\ Searching(out, end) /\ end.tasks = << >>
  <2>1. F - F = 0
    BY <1>4
  <2>2. end \in States(n) /\ Searching(out, end) /\ (end.tasks = << >> \/ Fuel(n, out, end, 0))
    BY <1>10, <2>1
  <2> HIDE DEF end
  <2>3. QED
    BY <1>1, <2>2, FuelEnds
<1> HIDE DEF end, out
<1>12. (\A x, y : ~ Pending(end.tasks, x, y)) /\ Open(end.tasks) = {}
  BY <1>11 DEF Pending, Open
<1>13. Discovered(end) = 1..n
  <2>1. end.disc \in [1..n -> Int]
    BY <1>11, StateParts
  <2>2. \A v \in DOMAIN end.disc : v \in Discovered(end)
    BY <1>11, <1>12 DEF Searching, Explored
  <2>3. QED
    BY <2>1, <2>2 DEF Discovered
<1>14. On(end) = {}
  BY <1>11, <1>12 DEF Searching, Anchored
<1>15. /\ UNION end.components = 1..n
       /\ \A e \in end.components : e # {} /\ \A x \in e : e = Mutual(out, x)
  BY <1>11, <1>13, <1>14 DEF Searching, Components, Taken
<1>16. end.components = {Mutual(out, x) : x \in 1..n}
  <2>1. ASSUME NEW e \in end.components PROVE \E x \in 1..n : e = Mutual(out, x)
    BY <1>15
  <2>2. ASSUME NEW x \in 1..n PROVE Mutual(out, x) \in end.components
    <3>1. PICK e \in end.components : x \in e
      BY <1>15
    <3>2. QED
      BY <1>15, <3>1
  <2>3. QED
    BY <2>1, <2>2
<1>17. QED
  BY <1>6, <1>16 DEF end, out

(* oriented_graph_scc (oriented_graph.c) finds the cycles of every graph:  *)
(* the components its one pass over the nodes takes from the stack are     *)
(* those of mutual reachability, and it is done when the steps it is given *)
(* are.                                                                    *)
THEOREM CyclesAreFound ==
  ASSUME NEW blocks, IsGraph(blocks)
  PROVE  StronglyConnected(blocks) = Cycles(blocks)
<1> DEFINE n == Len(blocks.out)
<1>1. n \in Nat /\ blocks.out \in Out(n)
  <2>1. blocks.out \in Seq(Seq(Nodes(blocks))) /\ Nodes(blocks) = DOMAIN blocks.out
    BY DEF IsGraph, Nodes
  <2>2. n \in Nat /\ Nodes(blocks) = 1..n /\ blocks.out \in [1..n -> Seq(Nodes(blocks))]
    BY <2>1
  <2>3. QED
    BY <2>2 DEF Out
<1> HIDE DEF n
<1>2. Nodes(blocks) = 1..n
  BY <1>1 DEF Nodes, Out
<1> DEFINE out == blocks.out
           reach == [x \in Nodes(blocks) |-> ReachableFrom(blocks, x)]
           Component(x) == {m \in reach[x] : x \in reach[m]}
<1>3. \A x \in 1..n : reach[x] = Reaches(out, x)
  BY <1>1, <1>2, ReachableIsReaches
<1>4. \A x \in 1..n : Reaches(out, x) \subseteq 1..n
  BY <1>1, ReachesRules
<1> HIDE DEF reach, out
<1>5. ASSUME NEW x \in 1..n PROVE Component(x) = Mutual(out, x)
  BY <1>3, <1>4 DEF Mutual
<1>6. Cycles(blocks) = {c \in {Component(x) : x \in Nodes(blocks)} : Cardinality(c) > 1}
  BY Zenon DEF Cycles, reach
<1> HIDE DEF Component
<1>7. {Component(x) : x \in Nodes(blocks)} = {Mutual(out, x) : x \in 1..n}
  BY <1>2, <1>5
<1>8. StronglyConnected(blocks) = {c \in {Mutual(out, x) : x \in 1..n} : Cardinality(c) > 1}
  BY <1>1, SearchEnds DEF out
<1>9. QED
  BY <1>6, <1>7, <1>8

-----------------------------------------------------------------------------
(***************************************************************************)
(* The blocks of the code. Every place is in one block, a block begins     *)
(* where control may come from elsewhere or was bent, and there is an edge *)
(* for every way control may leave it.                                     *)
(***************************************************************************)

\* The places of blocks after each of the first n instructions was looked at.
Begins(places, instructions, n) ==
  places = [i \in 0..n |-> IF i = 0 THEN <<1>> ELSE BlockBegun(instructions, places[i - 1], i)]

\* There are such places,
LEMMA BeginsExists ==
  ASSUME NEW n \in Nat, NEW instructions
  PROVE  \E places : Begins(places, instructions, n)
<1> DEFINE T == {m \in 0..n : \E g : Begins(g, instructions, m)}
<1>1. 0 \in T
  <2> DEFINE h == [i \in 0..0 |-> <<1>>]
  <2>1. Begins(h, instructions, 0)
    BY DEF Begins
  <2>2. QED
    BY <2>1
<1>2. ASSUME NEW m \in 1..n, m - 1 \in T PROVE m \in T
  <2>1. PICK g : Begins(g, instructions, m - 1)
    BY <1>2
  <2> DEFINE h == [i \in 0..m |-> IF i = m THEN BlockBegun(instructions, g[m - 1], m) ELSE g[i]]
  <2>2. \A i \in 0..m - 1 : h[i] = g[i]
    OBVIOUS
  <2>3. h[m] = BlockBegun(instructions, h[m - 1], m)
    BY <2>2
  <2>4. \A i \in 0..m - 1 : g[i] = IF i = 0 THEN <<1>> ELSE BlockBegun(instructions, g[i - 1], i)
    BY <2>1 DEF Begins
  <2>5. h = [i \in 0..m |-> h[i]]
    OBVIOUS
  <2> HIDE DEF h
  <2>6. ASSUME NEW i \in 0..m
        PROVE  h[i] = IF i = 0 THEN <<1>> ELSE BlockBegun(instructions, h[i - 1], i)
    <3>1. CASE i = m
      BY <3>1, <2>3
    <3>2. CASE i # m
      <4>1. i \in 0..m - 1 /\ (i # 0 => i - 1 \in 0..m - 1)
        BY <3>2
      <4>2. QED
        BY <4>1, <2>2, <2>4
    <3>3. QED
      BY <3>1, <3>2
  <2>7. Begins(h, instructions, m)
    BY <2>5, <2>6 DEF Begins
  <2>8. QED
    BY <2>7
<1>3. \A i \in 0..n : i \in T
  <2> HIDE DEF T
  <2>1. QED
    BY <1>1, <1>2, StepByStep
<1>4. QED
  BY <1>3

\* and FirstPlaces ends with them.
LEMMA FirstPlacesIsBegun ==
  ASSUME NEW S, NEW instructions \in Seq(S), NEW n, n = Len(instructions)
  PROVE  \E places : Begins(places, instructions, n) /\ FirstPlaces(instructions) = places[n]
<1> DEFINE list == [place \in DOMAIN instructions |-> place]
           after == CHOOSE g : g =
                      [i \in 0..Len(list) |-> IF i = 0 THEN <<1>>
                         ELSE CHOOSE r \in {BlockBegun(instructions, s, list[i]) : s \in {g[i - 1]}} : TRUE]
<1>1. Len(list) = n /\ n \in Nat /\ DOMAIN list = 1..n /\ \A i \in 1..n : list[i] = i
  OBVIOUS
<1>2. FirstPlaces(instructions) = after[n]
  <2>1. FirstPlaces(instructions) =
          Walk(LAMBDA first, place : BlockBegun(instructions, first, place), <<1>>, list)
    BY Zenon DEF FirstPlaces
  <2> HIDE DEF list
  <2>2. Walk(LAMBDA first, place : BlockBegun(instructions, first, place), <<1>>, list) = after[Len(list)]
    BY DEF Walk
  <2>3. QED
    BY <1>1, <2>1, <2>2, Zenon
<1> DEFINE Taking(g) ==
             [i \in 0..Len(list) |-> IF i = 0 THEN <<1>>
                ELSE CHOOSE r \in {BlockBegun(instructions, s, list[i]) : s \in {g[i - 1]}} : TRUE]
<1> HIDE DEF list
<1>3. ASSUME NEW g
      PROVE  Taking(g) = [i \in 0..n |-> IF i = 0 THEN <<1>> ELSE BlockBegun(instructions, g[i - 1], i)]
  <2>1. ASSUME NEW s, NEW i
        PROVE  (CHOOSE r \in {BlockBegun(instructions, q, i) : q \in {s}} : TRUE)
                 = BlockBegun(instructions, s, i)
    OBVIOUS
  <2>2. \A i \in 0..n : i # 0 => list[i] = i
    BY <1>1
  <2>3. QED
    BY <1>1, <2>1, <2>2, Zenon
<1>4. \E g : g = Taking(g)
  <2>1. PICK g : Begins(g, instructions, n)
    BY <1>1, BeginsExists
  <2>2. Taking(g) = g
    BY <1>3, <2>1, Zenon DEF Begins
  <2> HIDE DEF Taking
  <2>3. QED
    BY <2>2
<1>5. after = Taking(after)
  BY <1>4, Zenon
<1>6. Begins(after, instructions, n)
  BY <1>3, <1>5, Zenon DEF Begins
<1> HIDE DEF after
<1>7. QED
  BY <1>2, <1>6

\* Where the blocks of the first m instructions begin.
Starts(instructions, m, first) ==
  /\ first \in Seq(Nat) /\ Len(first) >= 1 /\ first[1] = 1
  /\ \A b \in 2..Len(first) : first[b] \in 1..m /\ BeginsBlock(instructions, first[b])
  /\ \A b, c \in 2..Len(first) : b < c => first[b] < first[c]
  /\ \A p \in 1..m : BeginsBlock(instructions, p) => \E b \in 2..Len(first) : first[b] = p

\* It stays so with one instruction more,
LEMMA StartsGrow ==
  ASSUME NEW instructions, NEW i \in Nat, i >= 1, NEW first, Starts(instructions, i - 1, first)
  PROVE  Starts(instructions, i, BlockBegun(instructions, first, i))
<1> DEFINE l == Len(first)
<1>1. /\ first \in Seq(Nat) /\ l \in Nat /\ l >= 1 /\ first[1] = 1
      /\ \A b \in 2..l : first[b] \in 1..i - 1 /\ BeginsBlock(instructions, first[b])
      /\ \A b, c \in 2..l : b < c => first[b] < first[c]
      /\ \A p \in 1..i - 1 : BeginsBlock(instructions, p) => \E b \in 2..l : first[b] = p
  BY DEF Starts
<1>2. CASE ~ BeginsBlock(instructions, i)
  <2>1. BlockBegun(instructions, first, i) = first
    BY <1>2 DEF BlockBegun
  <2>2. \A b \in 2..l : first[b] \in 1..i /\ BeginsBlock(instructions, first[b])
    BY <1>1
  <2>3. \A p \in 1..i : p = i \/ p \in 1..i - 1
    OBVIOUS
  <2>4. \A p \in 1..i : BeginsBlock(instructions, p) => \E b \in 2..l : first[b] = p
    BY <1>1, <1>2, <2>3
  <2>5. QED
    BY <1>1, <2>1, <2>2, <2>4 DEF Starts
<1>3. CASE BeginsBlock(instructions, i)
  <2> DEFINE more == Append(first, i)
             k == l + 1
  <2>1. BlockBegun(instructions, first, i) = more
    BY <1>3 DEF BlockBegun
  <2>2. more \in Seq(Nat) /\ Len(more) = k /\ more[k] = i /\ \A b \in 1..l : more[b] = first[b]
    BY <1>1
  <2>3. \A b \in 2..k : b = k \/ (b \in 2..l /\ b \in 1..l)
    BY <1>1
  <2>4. k \in Nat /\ k >= 2 /\ k \in 2..k /\ 1 \in 1..l /\ l < k
    BY <1>1
  <2> HIDE DEF more, k
  <2>5. more[1] = 1
    BY <1>1, <2>2, <2>4
  <2>6. \A b \in 2..k : more[b] \in 1..i /\ BeginsBlock(instructions, more[b])
    <3>1. TAKE b \in 2..k
    <3>2. CASE b = k
      BY <3>2, <2>2, <1>3
    <3>3. CASE b \in 2..l /\ b \in 1..l
      <4>1. more[b] = first[b] /\ first[b] \in 1..i - 1
        BY <3>3, <1>1, <2>2
      <4>2. QED
        BY <4>1, <3>3, <1>1
    <3>4. QED
      BY <2>3, <3>2, <3>3
  <2>7. ASSUME NEW b \in 2..k, NEW c \in 2..k, b < c PROVE more[b] < more[c]
    <3>1. b # k
      BY <2>7, <2>4
    <3>2. b \in 2..l /\ b \in 1..l /\ more[b] = first[b] /\ first[b] \in 1..i - 1
      BY <3>1, <2>3, <1>1, <2>2
    <3>3. CASE c = k
      BY <3>2, <3>3, <2>2
    <3>4. CASE c \in 2..l /\ c \in 1..l
      BY <3>2, <3>4, <2>2, <1>1, <2>7
    <3>5. QED
      BY <2>3, <3>3, <3>4
  <2>8. ASSUME NEW p \in 1..i, BeginsBlock(instructions, p) PROVE \E b \in 2..k : more[b] = p
    <3>1. CASE p = i
      BY <3>1, <2>2, <2>4
    <3>2. CASE p # i
      <4>1. p \in 1..i - 1
        BY <3>2
      <4>2. PICK b \in 2..l : first[b] = p
        BY <4>1, <1>1, <2>8
      <4>3. b \in 1..l /\ b \in 2..k
        BY <1>1, <2>4
      <4>4. QED
        BY <4>2, <4>3, <2>2
    <3>3. QED
      BY <3>1, <3>2
  <2>9. Starts(instructions, i, more)
    <3>1. Len(more) >= 1
      BY <2>2, <2>4
    <3>2. \A b, c \in 2..Len(more) : b < c => more[b] < more[c]
      BY <2>2, <2>7
    <3>3. QED
      BY <2>2, <2>5, <2>6, <2>8, <3>1, <3>2, Zenon DEF Starts
  <2>10. QED
    BY <2>1, <2>9
<1>4. QED
  BY <1>2, <1>3

\* and is so of all of them.
LEMMA FirstPlacesStart ==
  ASSUME NEW S, NEW instructions \in Seq(S)
  PROVE  Starts(instructions, Len(instructions), FirstPlaces(instructions))
<1> DEFINE n == Len(instructions)
<1>1. PICK places : Begins(places, instructions, n) /\ FirstPlaces(instructions) = places[n]
  BY FirstPlacesIsBegun
<1>2. n \in Nat
  OBVIOUS
<1> HIDE DEF n
<1>3. /\ places[0] = <<1>>
      /\ \A i \in 1..n : places[i] = BlockBegun(instructions, places[i - 1], i)
  <2>1. 0 \in 0..n /\ \A i \in 1..n : i \in 0..n /\ i # 0
    BY <1>2
  <2>2. QED
    BY <1>1, <2>1 DEF Begins
<1> DEFINE T == {i \in 0..n : Starts(instructions, i, places[i])}
<1>4. 0 \in T
  <2>1. Starts(instructions, 0, <<1>>)
    BY DEF Starts
  <2>2. QED
    BY <1>2, <1>3, <2>1
<1>5. ASSUME NEW i \in 1..n, i - 1 \in T PROVE i \in T
  <2>1. Starts(instructions, i - 1, places[i - 1]) /\ i \in Nat /\ i >= 1 /\ i \in 0..n
    BY <1>5, <1>2
  <2>2. Starts(instructions, i, places[i])
    BY <2>1, <1>3, StartsGrow
  <2>3. QED
    BY <2>1, <2>2
<1>6. n \in T
  <2> HIDE DEF T
  <2>1. \A i \in 0..n : i \in T
    BY <1>2, <1>4, <1>5, StepByStep
  <2>2. QED
    BY <1>2, <2>1
<1>7. QED
  BY <1>1, <1>6 DEF n

\* The counterpart of LeastNatural, of numbers up to n.
LEMMA GreatestBelow ==
  ASSUME NEW n \in Nat, NEW T, T \subseteq 1..n, T # {}
  PROVE  \E x \in T : \A y \in T : y <= x
<1> DEFINE Gaps == {n - x : x \in T}
<1>0. \A x \in T : x \in 1..n /\ x \in Int /\ n - x \in Nat
  <2>1. \A x \in 1..n : x \in Int /\ n - x \in Nat
    OBVIOUS
  <2>2. QED
    BY <2>1
<1>1. Gaps \subseteq Nat /\ Gaps # {}
  BY <1>0
<1>2. PICK g \in Gaps : \A h \in Gaps : g <= h
  <2> HIDE DEF Gaps
  <2>1. QED
    BY <1>1, LeastNatural
<1>3. PICK x \in T : g = n - x
  OBVIOUS
<1>4. \A y \in T : n - x <= n - y
  <2>1. \A y \in T : n - y \in Gaps
    OBVIOUS
  <2>2. QED
    BY <1>2, <1>3, <2>1, Zenon
<1>5. \A y \in T : y <= x
  <2>1. \A y, z \in Int : n - z <= n - y => y <= z
    OBVIOUS
  <2>2. QED
    BY <1>0, <1>4, <2>1, Zenon
<1>6. QED
  BY <1>5

\* The blocks lie side by side, and nothing begins one inside another.
Blocks(instructions, n, first, last) ==
  LET l == Len(first)
      In(p, b) == first[b] <= p /\ p <= last[b]
  IN  /\ l \in Nat /\ l >= 1 /\ DOMAIN first = 1..l
      /\ \A b \in 1..l : first[b] \in Nat /\ first[b] >= 1 /\ last[b] \in Int /\ last[b] <= n
      /\ \A b \in 1..l : b < l => last[b] = first[b + 1] - 1 /\ b + 1 \in 1..l /\ first[b + 1] \in 1..n
      /\ last[l] = n
      /\ \A p \in 1..n : \E b \in 1..l : In(p, b)
      /\ \A b, c \in 1..l : \A p \in Int : In(p, b) /\ In(p, c) => b = c
      /\ \A b \in 1..l : \A p \in Int : In(p, b) => p \in 1..n
      /\ \A b \in 1..l : \A p \in Int : In(p, b) /\ BeginsBlock(instructions, p) => first[b] = p
      /\ \A b \in 2..l : BeginsBlock(instructions, first[b]) /\ first[b] <= last[b]

\* LastPlaces ends each block before the next one begins.
LEMMA BlocksLie ==
  ASSUME NEW S, NEW instructions \in Seq(S), NEW n, n = Len(instructions),
         NEW first, Starts(instructions, n, first)
  PROVE  Blocks(instructions, n, first, LastPlaces(instructions, first))
<1> DEFINE l == Len(first)
           last == LastPlaces(instructions, first)
           In(p, b) == first[b] <= p /\ p <= last[b]
<1>1. /\ first \in Seq(Nat) /\ l \in Nat /\ l >= 1 /\ first[1] = 1 /\ n \in Nat
      /\ \A b \in 2..l : first[b] \in 1..n /\ BeginsBlock(instructions, first[b])
      /\ \A b, c \in 2..l : b < c => first[b] < first[c]
      /\ \A p \in 1..n : BeginsBlock(instructions, p) => \E b \in 2..l : first[b] = p
  BY DEF Starts
<1>2. DOMAIN first = 1..l /\ \A b \in 1..l : first[b] \in Nat
  BY <1>1
<1>3. \A b \in 1..l : last[b] = IF b = l THEN n ELSE first[b + 1] - 1
  BY <1>2 DEF LastPlaces
<1> HIDE DEF l, last
<1>4. \A b \in 1..l : b < l => b + 1 \in 2..l /\ b + 1 \in 1..l
  BY <1>1
<1>5. \A b \in 1..l : b = 1 \/ b \in 2..l
  BY <1>1
<1>6. \A b \in 1..l : first[b] >= 1
  BY <1>1, <1>5
<1>7. last[l] = n /\ \A b \in 1..l : b < l => last[b] = first[b + 1] - 1 /\ b + 1 \in 1..l /\ first[b + 1] \in 1..n
  <2>1. l \in 1..l /\ \A b \in 1..l : b < l => b # l
    BY <1>1
  <2>2. QED
    BY <1>1, <1>3, <1>4, <2>1
<1>8. \A b \in 1..l : last[b] \in Int /\ last[b] <= n
  <2>1. ASSUME NEW b \in 1..l PROVE last[b] \in Int /\ last[b] <= n
    <3>1. CASE b = l
      BY <3>1, <1>7, <1>1
    <3>2. CASE b < l
      <4>1. last[b] = first[b + 1] - 1 /\ first[b + 1] \in 1..n
        BY <3>2, <1>7, Zenon
      <4>2. QED
        BY ONLY <4>1, n \in Nat
    <3>3. QED
      BY <3>1, <3>2, <1>1
  <2>2. QED
    BY <2>1
<1>9. ASSUME NEW b \in 1..l, NEW c \in 1..l, b <= c
      PROVE  first[b] <= first[c] /\ (b \in 2..l /\ b < c => first[b] < first[c])
  <2>1. CASE b = c
    BY <2>1, <1>2
  <2>2. CASE b < c /\ b = 1
    BY <2>2, <1>1, <1>6, <1>2
  <2>3. CASE b < c /\ b \in 2..l
    <3>1. c \in 2..l
      BY <2>3
    <3>2. QED
      BY <2>3, <3>1, <1>1, <1>2
  <2>4. QED
    BY <1>9, <1>5, <2>1, <2>2, <2>3
<1>10. ASSUME NEW p \in 1..n PROVE \E b \in 1..l : In(p, b)
  <2> DEFINE T == {b \in 1..l : first[b] <= p}
  <2>1. 1 \in T
    BY <1>1
  <2>2. PICK b \in T : \A c \in T : c <= b
    <3>1. T \subseteq 1..l /\ T # {}
      BY <2>1
    <3> HIDE DEF T
    <3>2. QED
      BY <3>1, <1>1, GreatestBelow
  <2>3. p <= last[b]
    <3>1. CASE b = l
      BY <3>1, <1>7
    <3>2. CASE b < l
      <4>1. b + 1 \in 1..l /\ b + 1 \notin T
        BY <1>7, <2>2, <3>2
      <4>2. ~ (first[b + 1] <= p) /\ first[b + 1] \in Nat
        BY <4>1, <1>2
      <4>3. last[b] = first[b + 1] - 1
        BY <1>7, <3>2
      <4> DEFINE f == first[b + 1]
      <4> HIDE DEF f, T
      <4>4. QED
        BY <4>2, <4>3 DEF f
    <3>3. QED
      BY <3>1, <3>2, <1>1
  <2>4. QED
    BY <2>2, <2>3
<1>11. ASSUME NEW b \in 1..l, NEW c \in 1..l, NEW p \in Int, In(p, b), In(p, c), b < c PROVE FALSE
  <2>1. b < l /\ b + 1 <= c /\ b + 1 \in 1..l
    BY <1>11, <1>1
  <2>2. last[b] = first[b + 1] - 1 /\ first[b + 1] <= first[c]
    BY <2>1, <1>7, <1>9
  <2>3. first[b + 1] \in Nat /\ first[c] \in Nat
    BY <1>2, <2>1
  <2> DEFINE f == first[b + 1]
             g == first[c]
  <2> HIDE DEF f, g
  <2>4. f <= g /\ f \in Nat /\ g \in Nat /\ p <= f - 1 /\ g <= p
    BY <1>11, <2>2, <2>3 DEF f, g
  <2>5. QED
    BY ONLY <2>4, p \in Int
<1>12. \A b, c \in 1..l : \A p \in Int : In(p, b) /\ In(p, c) => b = c
  <2>1. \A b, c \in 1..l : b = c \/ b < c \/ c < b
    BY <1>1
  <2>2. QED
    BY <2>1, <1>11
<1>13. \A b \in 1..l : \A p \in Int : In(p, b) => p \in 1..n
  <2>1. ASSUME NEW b \in 1..l, NEW p \in Int, In(p, b) PROVE p \in 1..n
    <3>1. first[b] >= 1 /\ first[b] \in Nat /\ last[b] \in Int /\ last[b] <= n
      BY <1>2, <1>6, <1>8
    <3> DEFINE f == first[b]
               g == last[b]
    <3> HIDE DEF f, g
    <3>2. f >= 1 /\ f \in Nat /\ g \in Int /\ g <= n /\ f <= p /\ p <= g
      BY <2>1, <3>1 DEF f, g
    <3>3. QED
      BY <3>2, <1>1
  <2>2. QED
    BY <2>1
<1>14. \A c \in 2..l : first[c] <= last[c]
  <2>0. TAKE c \in 2..l
  <2>1. c \in 1..l /\ first[c] \in 1..n
    BY <1>1
  <2>2. CASE c = l
    BY <2>2, <1>7, <2>1
  <2>3. CASE c < l
    <3>1. last[c] = first[c + 1] - 1 /\ c + 1 \in 1..l
      BY <2>1, <2>3, <1>7
    <3>2. c <= c + 1 /\ c < c + 1
      OBVIOUS
    <3>3. first[c] < first[c + 1]
      BY <2>1, <3>1, <3>2, <1>9
    <3>4. first[c + 1] \in Nat
      BY <3>1, <1>2
    <3> DEFINE f == first[c + 1]
               e == first[c]
    <3> HIDE DEF f, e
    <3>5. e < f /\ e \in 1..n /\ f \in Nat /\ last[c] = f - 1
      BY <2>1, <3>1, <3>3, <3>4 DEF f, e
    <3>6. QED
      BY <3>5 DEF e
  <2>4. QED
    BY <2>1, <2>2, <2>3, <1>1
<1>15. ASSUME NEW b \in 1..l, NEW p \in Int, In(p, b), BeginsBlock(instructions, p) PROVE first[b] = p
  <2>1. p \in 1..n
    BY <1>13, <1>15
  <2>2. PICK c \in 2..l : first[c] = p
    BY <1>1, <1>15, <2>1
  <2>3. c \in 1..l /\ p <= last[c]
    BY <1>1, <2>2, <1>14
  <2>4. In(p, c)
    BY <2>1, <2>2, <2>3
  <2>5. b = c
    BY <1>12, <1>15, <2>3, <2>4
  <2>6. QED
    BY <2>2, <2>5
<1> HIDE DEF In
<1>16. QED
  BY <1>1, <1>2, <1>6, <1>7, <1>8, <1>10, <1>12, <1>13, <1>14, <1>15, Zenon DEF Blocks, In, l, last

\* A list made by adding the first n items one by one.
Adds(sets, items, n) ==
  sets = [i \in 0..n |-> IF i = 0 THEN << >> ELSE Added(sets[i - 1], items[i])]

\* There is such a list,
LEMMA AddsExists ==
  ASSUME NEW n \in Nat, NEW items
  PROVE  \E sets : Adds(sets, items, n)
<1> DEFINE T == {m \in 0..n : \E g : Adds(g, items, m)}
<1>1. 0 \in T
  <2> DEFINE h == [i \in 0..0 |-> << >>]
  <2>1. Adds(h, items, 0)
    BY DEF Adds
  <2>2. QED
    BY <2>1
<1>2. ASSUME NEW m \in 1..n, m - 1 \in T PROVE m \in T
  <2>1. PICK g : Adds(g, items, m - 1)
    BY <1>2
  <2> DEFINE h == [i \in 0..m |-> IF i = m THEN Added(g[m - 1], items[m]) ELSE g[i]]
  <2>2. \A i \in 0..m - 1 : h[i] = g[i]
    OBVIOUS
  <2>3. h[m] = Added(h[m - 1], items[m])
    BY <2>2
  <2>4. \A i \in 0..m - 1 : g[i] = IF i = 0 THEN << >> ELSE Added(g[i - 1], items[i])
    BY <2>1 DEF Adds
  <2>5. h = [i \in 0..m |-> h[i]]
    OBVIOUS
  <2> HIDE DEF h
  <2>6. ASSUME NEW i \in 0..m
        PROVE  h[i] = IF i = 0 THEN << >> ELSE Added(h[i - 1], items[i])
    <3>1. CASE i = m
      BY <3>1, <2>3
    <3>2. CASE i # m
      <4>1. i \in 0..m - 1 /\ (i # 0 => i - 1 \in 0..m - 1)
        BY <3>2
      <4>2. QED
        BY <4>1, <2>2, <2>4
    <3>3. QED
      BY <3>1, <3>2
  <2>7. Adds(h, items, m)
    BY <2>5, <2>6 DEF Adds
  <2>8. QED
    BY <2>7
<1>3. \A i \in 0..n : i \in T
  <2> HIDE DEF T
  <2>1. QED
    BY <1>1, <1>2, StepByStep
<1>4. QED
  BY <1>3

\* AddedInOrder is the one with all of them,
LEMMA AddedInOrderAdds ==
  ASSUME NEW S, NEW items \in Seq(S), NEW n, n = Len(items)
  PROVE  \E sets : Adds(sets, items, n) /\ AddedInOrder(items) = sets[n]
<1> DEFINE after == CHOOSE g : g =
                      [i \in 0..Len(items) |-> IF i = 0 THEN << >>
                         ELSE CHOOSE r \in {Added(s, items[i]) : s \in {g[i - 1]}} : TRUE]
<1>1. n \in Nat
  OBVIOUS
<1>2. AddedInOrder(items) = after[n]
  <2>1. AddedInOrder(items) = Walk(LAMBDA set, item : Added(set, item), << >>, items)
    BY Zenon DEF AddedInOrder
  <2>2. Walk(LAMBDA set, item : Added(set, item), << >>, items) = after[Len(items)]
    BY DEF Walk
  <2>3. QED
    BY <2>1, <2>2, Zenon
<1> DEFINE Taking(g) ==
             [i \in 0..Len(items) |-> IF i = 0 THEN << >>
                ELSE CHOOSE r \in {Added(s, items[i]) : s \in {g[i - 1]}} : TRUE]
<1>3. ASSUME NEW g
      PROVE  Taking(g) = [i \in 0..n |-> IF i = 0 THEN << >> ELSE Added(g[i - 1], items[i])]
  <2>1. ASSUME NEW s, NEW item
        PROVE  (CHOOSE r \in {Added(q, item) : q \in {s}} : TRUE) = Added(s, item)
    OBVIOUS
  <2>2. QED
    BY <2>1, Zenon
<1>4. \E g : g = Taking(g)
  <2>1. PICK g : Adds(g, items, n)
    BY <1>1, AddsExists
  <2>2. Taking(g) = g
    BY <1>3, <2>1, Zenon DEF Adds
  <2> HIDE DEF Taking
  <2>3. QED
    BY <2>2
<1>5. after = Taking(after)
  BY <1>4, Zenon
<1>6. Adds(after, items, n)
  BY <1>3, <1>5, Zenon DEF Adds
<1> HIDE DEF after
<1>7. QED
  BY <1>2, <1>6

\* The set has what was added, all of it of S.
Holds(S, set, items, m) ==
  set \in Seq(S) /\ \A i \in 1..m : Contains(set, items[i])

\* set_int_add adds one item and drops none,
LEMMA AddedKeeps ==
  ASSUME NEW S, NEW set \in Seq(S), NEW item \in S
  PROVE  /\ Added(set, item) \in Seq(S)
         /\ Contains(Added(set, item), item)
         /\ \A x : Contains(set, x) => Contains(Added(set, item), x)
<1> DEFINE l == Len(set)
           more == Append(set, item)
<1>1. CASE Contains(set, item)
  BY <1>1 DEF Added
<1>2. CASE ~ Contains(set, item)
  <2>1. Added(set, item) = more
    BY <1>2 DEF Added
  <2>2. /\ more \in Seq(S) /\ Len(more) = l + 1 /\ l \in Nat /\ more[l + 1] = item
        /\ \A i \in 1..l : more[i] = set[i]
    OBVIOUS
  <2> HIDE DEF more
  <2>3. \A x : Contains(set, x) <=> \E i \in 1..l : set[i] = x
    BY DEF Contains
  <2>4. \A x : Contains(more, x) <=> \E i \in 1..l + 1 : more[i] = x
    BY <2>2, Zenon DEF Contains
  <2> HIDE DEF l
  <2>5. l + 1 \in 1..l + 1 /\ \A i \in 1..l : i \in 1..l + 1
    BY <2>2
  <2>6. Contains(more, item)
    BY <2>2, <2>4, <2>5
  <2>7. \A x : Contains(set, x) => Contains(more, x)
    BY <2>2, <2>3, <2>4, <2>5
  <2>8. QED
    BY <2>1, <2>2, <2>6, <2>7, Zenon
<1>3. QED
  BY <1>1, <1>2

\* so that all items are there in the end.
LEMMA AddedInOrderHolds ==
  ASSUME NEW S, NEW items \in Seq(S)
  PROVE  /\ AddedInOrder(items) \in Seq(S)
         /\ \A i \in 1..Len(items) : Contains(AddedInOrder(items), items[i])
<1> DEFINE n == Len(items)
<1>1. PICK sets : Adds(sets, items, n) /\ AddedInOrder(items) = sets[n]
  BY AddedInOrderAdds
<1>2. n \in Nat /\ \A i \in 1..n : items[i] \in S
  OBVIOUS
<1> HIDE DEF n
<1>3. sets[0] = << >> /\ \A i \in 1..n : sets[i] = Added(sets[i - 1], items[i])
  <2>1. 0 \in 0..n /\ \A i \in 1..n : i \in 0..n /\ i # 0
    BY <1>2
  <2>2. QED
    BY <1>1, <2>1 DEF Adds
<1> DEFINE T == {i \in 0..n : Holds(S, sets[i], items, i)}
<1>4. 0 \in T
  <2>1. << >> \in Seq(S) /\ 0 \in 0..n /\ \A i : i \notin 1..0
    BY <1>2
  <2>2. Holds(S, sets[0], items, 0)
    BY <1>3, <2>1, Zenon DEF Holds
  <2>3. QED
    BY <2>1, <2>2
<1>5. ASSUME NEW i \in 1..n, i - 1 \in T PROVE i \in T
  <2>1. Holds(S, sets[i - 1], items, i - 1)
    BY <1>5
  <2>2. items[i] \in S /\ i \in 0..n
    BY <1>2
  <2>3. /\ sets[i] \in Seq(S) /\ Contains(sets[i], items[i])
        /\ \A x : Contains(sets[i - 1], x) => Contains(sets[i], x)
    <3>1. sets[i - 1] \in Seq(S) /\ sets[i] = Added(sets[i - 1], items[i])
      BY <1>3, <2>1, Zenon DEF Holds
    <3>2. QED
      BY <2>2, <3>1, AddedKeeps
  <2>4. \A j \in 1..i : j = i \/ j \in 1..i - 1
    OBVIOUS
  <2>5. \A j \in 1..i : Contains(sets[i], items[j])
    BY <2>1, <2>3, <2>4, Zenon DEF Holds
  <2>6. Holds(S, sets[i], items, i)
    BY <2>3, <2>5, Zenon DEF Holds
  <2>7. QED
    BY <2>2, <2>6
<1>6. n \in T
  <2> HIDE DEF T
  <2>1. \A i \in 0..n : i \in T
    BY <1>2, <1>4, <1>5, StepByStep
  <2>2. n \in 0..n
    BY <1>2
  <2>3. QED
    BY <2>1, <2>2
<1>7. Holds(S, sets[n], items, n)
  BY <1>6
<1>8. QED
  BY <1>1, <1>7, Zenon DEF Holds, n

\* Two lists of one item make a list of two.
LEMMA TwoJoined ==
  ASSUME NEW S, NEW a \in Seq(S), NEW b \in Seq(S), Len(a) = 1, Len(b) = 1
  PROVE  a \o b \in Seq(S) /\ Len(a \o b) = 2 /\ (a \o b)[1] = a[1] /\ (a \o b)[2] = b[1]
<1>1. 1 \in 1..Len(a) /\ 1 \in 1..Len(b)
  OBVIOUS
<1>2. (a \o b)[1] = a[1] /\ (a \o b)[Len(a) + 1] = b[1]
  <2>1. /\ \A i \in 1..Len(a) : (a \o b)[i] = a[i]
        /\ \A j \in 1..Len(b) : (a \o b)[Len(a) + j] = b[j]
    BY ONLY JoinedPlaces
  <2>2. QED
    BY <1>1, <2>1, Zenon
<1>3. a \o b \in Seq(S) /\ Len(a \o b) = Len(a) + Len(b)
  BY ONLY JoinedPlaces
<1>4. QED
  BY <1>2, <1>3

\* The same of the items.
LEMMA PairJoined ==
  ASSUME NEW S, NEW x \in S, NEW y \in S, NEW list, list = <<x>> \o <<y>>
  PROVE  list \in Seq(S) /\ Len(list) = 2 /\ list[1] = x /\ list[2] = y
<1>1. <<x>> \in Seq(S) /\ <<y>> \in Seq(S)
  OBVIOUS
<1>2. Len(<<x>>) = 1 /\ Len(<<y>>) = 1 /\ <<x>>[1] = x /\ <<y>>[1] = y
  OBVIOUS
<1>3. \A a, b \in Seq(S) : Len(a) = 1 /\ Len(b) = 1 =>
        a \o b \in Seq(S) /\ Len(a \o b) = 2 /\ (a \o b)[1] = a[1] /\ (a \o b)[2] = b[1]
  BY TwoJoined
<1>4. QED
  BY <1>1, <1>2, <1>3, Zenon

\* The instructions that may jump are those of the two classes.
LEMMA ClassesOfJumps ==
  ASSUME NEW op
  PROVE  /\ Class(op) = "direct_jump" <=> op = "JUMP"
         /\ Class(op) = "conditional_jump" <=> op \in ConditionalJumps
         /\ op \in ConditionalJumps => op # "RETURN" /\ op # "JUMP"
BY DEF Class, ConditionalJumps, ComparingJumps, ThreeAddress, Operations

(* A jump leads to the block that begins with its label; if there is no     *)
(* label, wherever the number that was never set says.                      *)
LEMMA MappedLeads ==
  ASSUME NEW S, NEW instructions \in Seq(S), NEW n, n = Len(instructions),
         NEW first, Starts(instructions, n, first),
         NEW last, last = LastPlaces(instructions, first),
         NEW stray \in Strays(instructions, first),
         NEW p \in 1..n, LeadsToLabel(instructions[p]),
         NEW label, label = Labelled(instructions[p]),
         NEW goal, goal = MappedBlock(instructions, first, last, stray, label)
  PROVE  /\ goal \in 0..Len(first)
         /\ \A q \in 1..n :
              LabelsPlacedOnce(instructions)
                /\ instructions[q].op = "LABEL" /\ Labelled(instructions[q]) = label
              => goal \in 1..Len(first) /\ first[goal] = q /\ q <= last[goal]
<1> DEFINE l == Len(first)
           Labels == {Labelled(i) : i \in {x \in ToSet(instructions) : x.op = "LABEL"}}
           Heads == {b \in DOMAIN first : /\ HasCode(first, last, b)
                                          /\ instructions[first[b]].op = "LABEL"
                                          /\ Labelled(instructions[first[b]]) = label}
<1>1. Blocks(instructions, n, first, last)
  BY BlocksLie
<1>2. /\ l \in Nat /\ DOMAIN first = 1..l
      /\ \A b \in 1..l : first[b] \in Nat /\ last[b] \in Int
      /\ \A q \in 1..n : \E b \in 1..l : first[b] <= q /\ q <= last[b]
      /\ \A b \in 1..l : \A q \in Int : first[b] <= q /\ q <= last[b] => q \in 1..n
      /\ \A b \in 1..l : \A q \in Int :
           first[b] <= q /\ q <= last[b] /\ BeginsBlock(instructions, q) => first[b] = q
  BY <1>1 DEF Blocks
<1>3. n \in Nat /\ DOMAIN instructions = 1..n /\ ToSet(instructions) = {instructions[i] : i \in 1..n}
  BY DEF ToSet
<1>4. Labels = {Labelled(instructions[q]) : q \in {i \in 1..n : instructions[i].op = "LABEL"}}
  BY <1>3
<1>5. stray \in [UnmappedLabels(instructions) -> 0..l]
  BY Zenon DEF Strays
<1>6. UnmappedLabels(instructions)
        = {Labelled(i) : i \in {x \in ToSet(instructions) : LeadsToLabel(x)}} \ Labels
  BY Zenon DEF UnmappedLabels
<1>7. label \in {Labelled(i) : i \in {x \in ToSet(instructions) : LeadsToLabel(x)}}
  BY <1>3
<1> HIDE DEF l
<1>8. CASE label \in DOMAIN stray
  <2>1. goal = stray[label]
    BY <1>8, Zenon DEF MappedBlock
  <2>2. goal \in 0..l
    BY <1>5, <1>8, <2>1
  <2>3. label \notin Labels
    BY <1>5, <1>6, <1>8
  <2>4. \A q \in 1..n : ~ (instructions[q].op = "LABEL" /\ Labelled(instructions[q]) = label)
    <3> HIDE DEF Labels
    <3>1. QED
      BY <1>4, <2>3
  <2>5. QED
    BY <2>2, <2>4 DEF l
<1>9. CASE label \notin DOMAIN stray
  <2>1. goal = Max(Heads)
    BY <1>9, Zenon DEF MappedBlock
  <2>2. label \in Labels
    <3> HIDE DEF Labels
    <3>1. QED
      BY <1>5, <1>6, <1>7, <1>9
  <2>3. PICK q0 \in 1..n : instructions[q0].op = "LABEL" /\ Labelled(instructions[q0]) = label
    <3> HIDE DEF Labels
    <3>1. QED
      BY <1>4, <2>2
  <2>4. PICK b \in 1..l : first[b] <= q0 /\ q0 <= last[b]
    BY <1>2
  <2>5. first[b] = q0
    <3>1. BeginsBlock(instructions, q0) /\ q0 \in Int
      BY <2>3 DEF BeginsBlock
    <3>2. QED
      BY <1>2, <2>4, <3>1
  <2>6. b \in Heads
    BY <1>2, <2>3, <2>4, <2>5 DEF HasCode
  <2>7. Heads \subseteq 1..l /\ Heads # {}
    BY <1>2, <2>6
  <2>8. goal \in Heads
    <3> HIDE DEF Heads
    <3>1. PICK x \in Heads : \A y \in Heads : y <= x
      BY <1>2, <2>7, GreatestBelow
    <3>2. \A y \in Heads : x >= y
      BY <1>2, <2>7, <3>1
    <3>3. QED
      BY <2>1, <3>1, <3>2 DEF Max
  <2>9. /\ goal \in 1..l /\ first[goal] <= last[goal]
        /\ instructions[first[goal]].op = "LABEL" /\ Labelled(instructions[first[goal]]) = label
    BY <1>2, <2>8 DEF HasCode
  <2>10. first[goal] \in 1..n
    <3>1. first[goal] \in Int /\ first[goal] <= first[goal]
      BY <1>2, <2>9
    <3>2. QED
      BY <1>2, <2>9, <3>1
  <2>11. \A q \in 1..n : LabelsPlacedOnce(instructions)
           /\ instructions[q].op = "LABEL" /\ Labelled(instructions[q]) = label
         => first[goal] = q
    BY <1>3, <2>9, <2>10 DEF LabelsPlacedOnce
  <2>12. goal \in 0..l
    BY <1>2, <2>9
  <2>13. QED
    BY <2>9, <2>11, <2>12 DEF l
<1>10. QED
  BY <1>8, <1>9

\* What the end of a block leads to.
Leads(instructions, n, first, last, stray, b) ==
  LET edges == EdgesFrom(instructions, first, last, stray, b)
      goal == JumpedTo(instructions, first, last, stray, b)
  IN  /\ edges \in Seq(1..Len(first))
      /\ FallsThrough(instructions, first, last, b) => Contains(edges, b + 1)
      /\ goal # 0 => Contains(edges, goal)

\* EdgesFrom adds both edges.
LEMMA EdgesLead ==
  ASSUME NEW S, NEW instructions \in Seq(S), NEW n, n = Len(instructions),
         NEW first, Starts(instructions, n, first),
         NEW last, last = LastPlaces(instructions, first),
         NEW stray \in Strays(instructions, first),
         NEW b \in 1..Len(first)
  PROVE  Leads(instructions, n, first, last, stray, b)
<1> DEFINE l == Len(first)
           falls == FallsThrough(instructions, first, last, b)
           next == IF falls THEN <<b + 1>> ELSE << >>
           goal == JumpedTo(instructions, first, last, stray, b)
           jump == IF goal = 0 THEN << >> ELSE <<goal>>
           items == next \o jump
<1>1. Blocks(instructions, n, first, last)
  BY BlocksLie
<1>2. /\ l \in Nat
      /\ \A p \in Int : first[b] <= p /\ p <= last[b] => p \in 1..n
      /\ first[b] \in Nat /\ last[b] \in Int
  BY <1>1 DEF Blocks
<1>3. falls => b + 1 \in 1..l
  BY <1>2 DEF FallsThrough
<1>4. goal \in 0..l
  <2>1. CASE HasCode(first, last, b) /\ LeadsToLabel(instructions[last[b]])
    <3>1. last[b] \in 1..n
      <4>1. first[b] <= last[b] /\ last[b] <= last[b]
        BY <1>2, <2>1 DEF HasCode
      <4>2. QED
        BY <1>2, <4>1
    <3>2. goal = MappedBlock(instructions, first, last, stray, Labelled(instructions[last[b]]))
      BY <2>1, Zenon DEF JumpedTo
    <3> HIDE DEF goal
    <3>3. QED
      BY <2>1, <3>1, <3>2, MappedLeads
  <2>2. CASE ~ (HasCode(first, last, b) /\ LeadsToLabel(instructions[last[b]]))
    <3>1. goal = 0
      BY <2>2, Zenon DEF JumpedTo
    <3>2. QED
      BY <1>2, <3>1
  <2>3. QED
    BY <2>1, <2>2
<1>5. EdgesFrom(instructions, first, last, stray, b) = AddedInOrder(items)
  BY Zenon DEF EdgesFrom
<1> HIDE DEF falls, goal, l
<1>6. /\ items \in Seq(1..l)
      /\ falls => \E i \in 1..Len(items) : items[i] = b + 1
      /\ goal # 0 => \E i \in 1..Len(items) : items[i] = goal
  <2>1. CASE falls /\ goal # 0
    <3>1. next = <<b + 1>> /\ jump = <<goal>>
      BY <2>1
    <3>2. b + 1 \in 1..l /\ goal \in 1..l
      BY <1>2, <1>3, <1>4, <2>1
    <3> DEFINE k == b + 1
    <3> HIDE DEF k, next, jump
    <3>3. items = <<k>> \o <<goal>>
      BY <3>1, Zenon DEF k
    <3> HIDE DEF items
    <3>4. items \in Seq(1..l) /\ Len(items) = 2 /\ items[1] = k /\ items[2] = goal
      BY <3>2, <3>3, PairJoined DEF k
    <3>5. 1 \in 1..2 /\ 2 \in 1..2
      OBVIOUS
    <3>6. QED
      BY <3>4, <3>5, Zenon DEF k
  <2>2. CASE falls /\ goal = 0
    <3>1. items = <<b + 1>>
      BY <2>2
    <3>2. b + 1 \in 1..l
      BY <1>3, <2>2
    <3> HIDE DEF items
    <3> DEFINE k == b + 1
    <3> HIDE DEF k
    <3>3. items = <<k>> /\ k \in 1..l
      BY <3>1, <3>2 DEF k
    <3>4. items \in Seq(1..l) /\ Len(items) = 1 /\ items[1] = k
      BY <3>3
    <3>5. 1 \in 1..1
      OBVIOUS
    <3>6. QED
      BY <2>2, <3>4, <3>5, Zenon DEF k
  <2>3. CASE ~ falls /\ goal # 0
    <3>1. items = <<goal>>
      BY <2>3
    <3>2. goal \in 1..l
      BY <1>2, <1>4, <2>3
    <3> HIDE DEF items
    <3>4. items \in Seq(1..l) /\ Len(items) = 1 /\ items[1] = goal
      BY <3>1, <3>2
    <3>5. 1 \in 1..1
      OBVIOUS
    <3>6. QED
      BY <2>3, <3>4, <3>5, Zenon
  <2>4. CASE ~ falls /\ goal = 0
    <3>1. items = << >>
      BY <2>4
    <3> HIDE DEF items
    <3>2. QED
      BY <2>4, <3>1
  <2>5. QED
    BY <2>1, <2>2, <2>3, <2>4
<1> HIDE DEF items
<1>7. /\ AddedInOrder(items) \in Seq(1..l)
      /\ \A i \in 1..Len(items) : Contains(AddedInOrder(items), items[i])
  BY <1>6, AddedInOrderHolds
<1>8. /\ falls => Contains(AddedInOrder(items), b + 1)
      /\ goal # 0 => Contains(AddedInOrder(items), goal)
  BY <1>6, <1>7, Zenon
<1>9. QED
  BY <1>5, <1>7, <1>8, Zenon DEF Leads, falls, goal, l

\* A split graph has the blocks and the edges that were shown above.
Split(instructions, n, first, last, stray, blocks) ==
  /\ n = Len(instructions) /\ n \in Nat /\ DOMAIN instructions = 1..n
  /\ Starts(instructions, n, first) /\ last = LastPlaces(instructions, first)
  /\ stray \in Strays(instructions, first)
  /\ Blocks(instructions, n, first, last)
  /\ blocks.first = first /\ blocks.last = last
  /\ DOMAIN blocks.out = 1..Len(first)
  /\ blocks.out = [b \in 1..Len(first) |-> EdgesFrom(instructions, first, last, stray, b)]
  /\ \A b \in 1..Len(first) : Leads(instructions, n, first, last, stray, b)

\* Every graph of the code is one.
LEMMA GraphIsSplit ==
  ASSUME NEW S, NEW instructions \in Seq(S), NEW blocks \in GraphsOf(instructions)
  PROVE  \E first, last, stray : Split(instructions, Len(instructions), first, last, stray, blocks)
<1> DEFINE n == Len(instructions)
           first == FirstPlaces(instructions)
           last == LastPlaces(instructions, first)
<1>1. PICK stray \in Strays(instructions, first) : blocks = SplitToGraph(instructions, first, stray)
  <2>1. GraphsOf(instructions)
          = UNION {{SplitToGraph(instructions, f, stray) : stray \in Strays(instructions, f)} :
                     f \in {first}}
    BY Zenon DEF GraphsOf
  <2> HIDE DEF first
  <2>2. QED
    BY <2>1
<1>2. n \in Nat /\ DOMAIN instructions = 1..n
  OBVIOUS
<1>3. Starts(instructions, n, first)
  BY FirstPlacesStart
<1> HIDE DEF n, first
<1>4. Blocks(instructions, n, first, last)
  BY <1>3, BlocksLie DEF n
<1>5. DOMAIN first = 1..Len(first)
  BY <1>4, Zenon DEF Blocks
<1> HIDE DEF last
<1>6. /\ blocks.first = first /\ blocks.last = last
      /\ blocks.out = [b \in DOMAIN first |-> EdgesFrom(instructions, first, last, stray, b)]
  BY <1>1 DEF SplitToGraph, last
<1>7. DOMAIN blocks.out = 1..Len(first)
  BY <1>5, <1>6
<1>8. \A b \in 1..Len(first) : Leads(instructions, n, first, last, stray, b)
  BY <1>3, EdgesLead DEF n, last
<1>9. Split(instructions, n, first, last, stray, blocks)
  BY <1>2, <1>3, <1>4, <1>5, <1>6, <1>7, <1>8, Zenon DEF Split, n, last
<1>10. QED
  BY <1>9, Zenon DEF n

\* Its edges lead to blocks.
LEMMA SplitIsGraph ==
  ASSUME NEW S, NEW instructions \in Seq(S), NEW blocks \in GraphsOf(instructions)
  PROVE  IsGraph(blocks)
<1> DEFINE n == Len(instructions)
<1>1. PICK first, last, stray : Split(instructions, n, first, last, stray, blocks)
  BY GraphIsSplit, Zenon
<1> DEFINE l == Len(first)
           Edges(b) == EdgesFrom(instructions, first, last, stray, b)
<1>2. /\ l \in Nat /\ DOMAIN blocks.out = 1..l
      /\ blocks.out = [b \in 1..l |-> Edges(b)]
  BY <1>1, Zenon DEF Split, Blocks
<1>3. \A b \in 1..l : Edges(b) \in Seq(1..l)
  BY <1>1, Zenon DEF Split, Leads
<1> HIDE DEF l, Edges
<1>4. blocks.out \in Seq(Seq(1..l))
  <2> DEFINE Q == Seq(1..l)
  <2>1. \A b \in 1..l : Edges(b) \in Q
    BY <1>3
  <2> HIDE DEF Q
  <2>2. [b \in 1..l |-> Edges(b)] \in Seq(Q)
    BY <1>2, <2>1
  <2>3. QED
    BY <1>2, <2>2 DEF Q
<1>5. QED
  BY <1>2, <1>4 DEF IsGraph, Nodes

-----------------------------------------------------------------------------
(***************************************************************************)
(* An update of the meta data changes neither operations nor operands.     *)
(***************************************************************************)
SameControl(one, other) ==
  /\ DOMAIN one = DOMAIN other
  /\ \A i \in DOMAIN one : one[i].op = other[i].op /\ one[i].operands = other[i].operands

\* Instructions have both.
WithOperands(instructions) ==
  \A i \in DOMAIN instructions : {"op", "operands"} \subseteq DOMAIN instructions[i]

\* What may be written to an instruction instead,
LEMMA FieldsKept ==
  ASSUME NEW instruction, {"op", "operands"} \subseteq DOMAIN instruction,
         NEW value, NEW new,
         \/ new = [instruction EXCEPT !.interpretable = value]
         \/ new = [instruction EXCEPT !.purity = value]
  PROVE  /\ {"op", "operands"} \subseteq DOMAIN new
         /\ new.op = instruction.op /\ new.operands = instruction.operands
<1>1. CASE new = [instruction EXCEPT !.interpretable = value]
  BY <1>1
<1>2. CASE new = [instruction EXCEPT !.purity = value]
  BY <1>2
<1>3. QED
  BY <1>1, <1>2

\* and in its place in the code.
LEMMA PlaceKept ==
  ASSUME NEW instructions, WithOperands(instructions), NEW k \in DOMAIN instructions, NEW value,
         NEW new, \/ new = [instructions[k] EXCEPT !.interpretable = value]
                  \/ new = [instructions[k] EXCEPT !.purity = value],
         NEW after, after = [instructions EXCEPT ![k] = new]
  PROVE  SameControl(instructions, after) /\ WithOperands(after)
<1>1. {"op", "operands"} \subseteq DOMAIN instructions[k]
  BY Zenon DEF WithOperands
<1>2. /\ {"op", "operands"} \subseteq DOMAIN new
      /\ new.op = instructions[k].op /\ new.operands = instructions[k].operands
  BY <1>1, FieldsKept
<1>3. /\ DOMAIN after = DOMAIN instructions
      /\ after[k] = new /\ \A i \in DOMAIN instructions : i # k => after[i] = instructions[i]
  OBVIOUS
<1>4. ASSUME NEW i \in DOMAIN instructions
      PROVE  /\ {"op", "operands"} \subseteq DOMAIN after[i]
             /\ instructions[i].op = after[i].op /\ instructions[i].operands = after[i].operands
  <2>1. CASE i = k
    BY <1>2, <1>3, <2>1, Zenon
  <2>2. CASE i # k
    BY <1>3, <2>2, Zenon DEF WithOperands
  <2>3. QED
    BY <2>1, <2>2
<1>5. QED
  BY <1>3, <1>4, Zenon DEF SameControl, WithOperands

LEMMA ControlChained ==
  ASSUME NEW a, NEW b, NEW c, SameControl(a, b), SameControl(b, c)
  PROVE  SameControl(a, c)
BY Zenon DEF SameControl

\* What the second loop of the update keeps,
SpreadInv(instructions, s) ==
  /\ s.start \in {0} \cup DOMAIN instructions
  /\ SameControl(instructions, s.code) /\ WithOperands(s.code)

\* each time it looks at an instruction.
LEMMA SpreadKeeps ==
  ASSUME NEW instructions, 0 \notin DOMAIN instructions,
         NEW functions, NEW s, SpreadInv(instructions, s), NEW place \in DOMAIN instructions
  PROVE  SpreadInv(instructions, Spread(functions, s, place))
<1> DEFINE instruction == s.code[place]
           begins == "expression_start" \in instruction.mark /\ instruction.purity = Pure
           start == CASE "expression_end" \in instruction.mark -> 0
                      [] begins /\ "expression_end" \notin instruction.mark -> place
                      [] OTHER -> s.start
           assumed == IF begins THEN [s.code EXCEPT ![place].interpretable = TRUE] ELSE s.code
           union == assumed[start].purity \cup FunctionIn(functions, Labelled(instruction)).purity
           called == IF start # 0 /\ instruction.op = "CALL"
                     THEN [assumed EXCEPT ![start].purity =
                             @ \cup FunctionIn(functions, Labelled(instruction)).purity]
                     ELSE assumed
           after == IF start # 0 /\ NotForInterpreter(instruction)
                    THEN [called EXCEPT ![start].interpretable = FALSE] ELSE called
<1>1. Spread(functions, s, place) = [start |-> start, code |-> after]
  BY Zenon DEF Spread
<1>2. s.start \in {0} \cup DOMAIN instructions
      /\ SameControl(instructions, s.code) /\ WithOperands(s.code)
  BY Zenon DEF SpreadInv
<1>3. start \in {0} \cup DOMAIN instructions
  <2> HIDE DEF begins, instruction
  <2>1. CASE "expression_end" \in instruction.mark
    BY <2>1
  <2>2. CASE "expression_end" \notin instruction.mark /\ begins
    BY <2>2
  <2>3. CASE "expression_end" \notin instruction.mark /\ ~ begins
    BY <1>2, <2>3
  <2>4. QED
    BY <2>1, <2>2, <2>3
<1> HIDE DEF instruction, start, begins
<1>4. SameControl(instructions, assumed) /\ WithOperands(assumed)
  <2>1. CASE ~ begins
    BY <1>2, <2>1
  <2>2. CASE begins
    <3>1. assumed = [s.code EXCEPT ![place] = [s.code[place] EXCEPT !.interpretable = TRUE]]
      BY <2>2
    <3>2. place \in DOMAIN s.code
      BY <1>2, Zenon DEF SameControl
    <3> HIDE DEF assumed
    <3> DEFINE c == s.code
               new == [c[place] EXCEPT !.interpretable = TRUE]
    <3>3. assumed = [c EXCEPT ![place] = new]
      BY <3>1
    <3>4. WithOperands(c) /\ place \in DOMAIN c /\ SameControl(instructions, c)
      BY <1>2, <3>2, Zenon
    <3> HIDE DEF c
    <3>5. new = [c[place] EXCEPT !.interpretable = TRUE]
      OBVIOUS
    <3> HIDE DEF new
    <3>6. SameControl(c, assumed) /\ WithOperands(assumed)
      BY <3>3, <3>4, <3>5, PlaceKept, Zenon
    <3>7. QED
      BY <3>4, <3>6, ControlChained, Zenon
  <2>3. QED
    BY <2>1, <2>2
<1> HIDE DEF assumed
<1>5. SameControl(instructions, called) /\ WithOperands(called)
  <2>1. CASE ~ (start # 0 /\ instruction.op = "CALL")
    BY <1>4, <2>1
  <2>2. CASE start # 0 /\ instruction.op = "CALL"
    <3> DEFINE new == [assumed[start] EXCEPT !.purity = union]
    <3>1. called = [assumed EXCEPT ![start] = new]
      BY <2>2
    <3>2. start \in DOMAIN assumed
      BY <1>3, <1>4, <2>2 DEF SameControl
    <3> HIDE DEF called, union
    <3>3. new = [assumed[start] EXCEPT !.purity = union]
      OBVIOUS
    <3> HIDE DEF new
    <3>4. SameControl(assumed, called) /\ WithOperands(called)
      BY <1>4, <3>1, <3>2, <3>3, PlaceKept, Zenon
    <3>5. QED
      BY <1>4, <3>4, ControlChained, Zenon
  <2>3. QED
    BY <2>1, <2>2
<1> HIDE DEF called
<1>6. SameControl(instructions, after) /\ WithOperands(after)
  <2>1. CASE ~ (start # 0 /\ NotForInterpreter(instruction))
    BY <1>5, <2>1
  <2>2. CASE start # 0 /\ NotForInterpreter(instruction)
    <3> DEFINE new == [called[start] EXCEPT !.interpretable = FALSE]
    <3>1. after = [called EXCEPT ![start] = new]
      BY <2>2
    <3>2. start \in DOMAIN called
      BY <1>3, <1>5, <2>2 DEF SameControl
    <3> HIDE DEF after
    <3>3. new = [called[start] EXCEPT !.interpretable = FALSE]
      OBVIOUS
    <3> HIDE DEF new
    <3>4. SameControl(called, after) /\ WithOperands(after)
      BY <1>5, <3>1, <3>2, <3>3, PlaceKept, Zenon
    <3>5. QED
      BY <1>5, <3>4, ControlChained, Zenon
  <2>3. QED
    BY <2>1, <2>2
<1> HIDE DEF after
<1>7. QED
  <2> DEFINE t == Spread(functions, s, place)
  <2>1. t.start = start /\ t.code = after
    BY <1>1
  <2> HIDE DEF t
  <2>2. SpreadInv(instructions, t)
    BY <1>3, <1>6, <2>1, Zenon DEF SpreadInv
  <2>3. QED
    BY <2>2 DEF t

\* The states of the second loop, up to the n-th instruction.
Spreads(states, functions, instructions, n) ==
  states = [i \in 0..n |-> IF i = 0 THEN [start |-> 0, code |-> instructions]
                           ELSE Spread(functions, states[i - 1], i)]

\* There are such states,
LEMMA SpreadsExist ==
  ASSUME NEW n \in Nat, NEW functions, NEW instructions
  PROVE  \E states : Spreads(states, functions, instructions, n)
<1> DEFINE start == [start |-> 0, code |-> instructions]
           T == {m \in 0..n : \E g : Spreads(g, functions, instructions, m)}
<1>1. 0 \in T
  <2> DEFINE h == [i \in 0..0 |-> start]
  <2> HIDE DEF start
  <2>1. h = [i \in 0..0 |-> IF i = 0 THEN start ELSE Spread(functions, h[i - 1], i)]
    OBVIOUS
  <2> HIDE DEF h
  <2>2. Spreads(h, functions, instructions, 0)
    BY <2>1, Zenon DEF Spreads, start
  <2>3. 0 \in 0..n
    OBVIOUS
  <2>4. QED
    BY <2>2, <2>3, Zenon
<1>2. ASSUME NEW m \in 1..n, m - 1 \in T PROVE m \in T
  <2>1. PICK g : Spreads(g, functions, instructions, m - 1)
    BY <1>2, Zenon
  <2> HIDE DEF T
  <2> DEFINE h == [i \in 0..m |-> IF i = m THEN Spread(functions, g[m - 1], m) ELSE g[i]]
  <2>2. \A i \in 0..m - 1 : h[i] = g[i]
    OBVIOUS
  <2>3. h[m] = Spread(functions, h[m - 1], m)
    BY <2>2
  <2>4. g = [i \in 0..m - 1 |-> IF i = 0 THEN start ELSE Spread(functions, g[i - 1], i)]
    BY <2>1, Zenon DEF Spreads
  <2> HIDE DEF start
  <2>5. \A i \in 0..m - 1 : g[i] = IF i = 0 THEN start ELSE Spread(functions, g[i - 1], i)
    BY <2>4
  <2>6. h = [i \in 0..m |-> h[i]]
    OBVIOUS
  <2> HIDE DEF h
  <2>7. ASSUME NEW i \in 0..m
        PROVE  h[i] = IF i = 0 THEN start ELSE Spread(functions, h[i - 1], i)
    <3>1. CASE i = m
      BY <3>1, <2>3
    <3>2. CASE i # m
      <4>1. i \in 0..m - 1 /\ (i # 0 => i - 1 \in 0..m - 1)
        BY <3>2
      <4>2. QED
        BY <4>1, <2>2, <2>5
    <3>3. QED
      BY <3>1, <3>2
  <2>8. h = [i \in 0..m |-> IF i = 0 THEN start ELSE Spread(functions, h[i - 1], i)]
    BY <2>6, <2>7
  <2>9. Spreads(h, functions, instructions, m)
    BY <2>8, Zenon DEF Spreads, start
  <2>10. QED
    BY <2>9 DEF T
<1>3. \A i \in 0..n : i \in T
  <2> HIDE DEF T
  <2>1. QED
    BY <1>1, <1>2, StepByStep
<1>4. n \in 0..n
  OBVIOUS
<1>5. QED
  BY <1>3, <1>4, Zenon

\* and the loop ends with the last of them.
LEMMA MarkingIsSpread ==
  ASSUME NEW S, NEW instructions \in Seq(S), NEW n, n = Len(instructions), NEW functions
  PROVE  \E states : /\ Spreads(states, functions, instructions, n)
                     /\ WithExpressionsMarked(instructions, functions) = states[n].code
<1> DEFINE start == [start |-> 0, code |-> instructions]
           list == [i \in DOMAIN instructions |-> i]
           after == CHOOSE g : g =
                      [i \in 0..Len(list) |-> IF i = 0 THEN start
                         ELSE CHOOSE r \in {Spread(functions, s, list[i]) : s \in {g[i - 1]}} : TRUE]
<1>1. Len(list) = n /\ n \in Nat /\ DOMAIN list = 1..n /\ \A i \in 1..n : list[i] = i
  OBVIOUS
<1>2. WithExpressionsMarked(instructions, functions) = after[n].code
  <2>1. WithExpressionsMarked(instructions, functions) =
          Walk(LAMBDA s, place : Spread(functions, s, place), start, list).code
    BY Zenon DEF WithExpressionsMarked
  <2> HIDE DEF list, start
  <2>2. Walk(LAMBDA s, place : Spread(functions, s, place), start, list) = after[Len(list)]
    BY DEF Walk
  <2>3. QED
    BY <1>1, <2>1, <2>2, Zenon
<1> DEFINE Taking(g) ==
             [i \in 0..Len(list) |-> IF i = 0 THEN start
                ELSE CHOOSE r \in {Spread(functions, s, list[i]) : s \in {g[i - 1]}} : TRUE]
<1> HIDE DEF list, start
<1>3. ASSUME NEW g
      PROVE  Taking(g) = [i \in 0..n |-> IF i = 0 THEN start ELSE Spread(functions, g[i - 1], i)]
  <2>1. ASSUME NEW s, NEW i
        PROVE  (CHOOSE r \in {Spread(functions, q, i) : q \in {s}} : TRUE) = Spread(functions, s, i)
    OBVIOUS
  <2>2. \A i \in 0..n : i # 0 => list[i] = i
    BY <1>1
  <2>3. QED
    BY <1>1, <2>1, <2>2, Zenon
<1>4. \E g : g = Taking(g)
  <2>1. PICK g : Spreads(g, functions, instructions, n)
    BY <1>1, SpreadsExist
  <2>2. Taking(g) = g
    BY <1>3, <2>1, Zenon DEF Spreads, start
  <2> HIDE DEF Taking
  <2>3. QED
    BY <2>2
<1>5. after = Taking(after)
  BY <1>4, Zenon
<1>6. Spreads(after, functions, instructions, n)
  BY <1>3, <1>5, Zenon DEF Spreads, start
<1> HIDE DEF after
<1>7. QED
  BY <1>2, <1>6

\* So an update leaves where control goes as it was.
LEMMA UpdateKeepsControl ==
  ASSUME NEW S, NEW instructions \in Seq(S), WithOperands(instructions)
  PROVE  SameControl(instructions, Updated(instructions).code)
<1> DEFINE n == Len(instructions)
           functions == CountedAnew(instructions).functions
           marked == WithExpressionsMarked(instructions, functions)
<1>1. n \in Nat /\ DOMAIN instructions = 1..n /\ 0 \notin DOMAIN instructions
  OBVIOUS
<1>2. Updated(instructions).code = marked
  BY DEF Updated
<1>3. PICK states : Spreads(states, functions, instructions, n) /\ marked = states[n].code
  BY MarkingIsSpread
<1> HIDE DEF n, functions, marked
<1> DEFINE begun == [start |-> 0, code |-> instructions]
<1>4. states = [i \in 0..n |-> IF i = 0 THEN begun ELSE Spread(functions, states[i - 1], i)]
  BY <1>3, Zenon DEF Spreads
<1>5. begun.start = 0 /\ begun.code = instructions
  OBVIOUS
<1> HIDE DEF begun
<1>6. /\ states[0] = begun
      /\ \A i \in 1..n : states[i] = Spread(functions, states[i - 1], i)
  <2>1. 0 \in 0..n /\ \A i \in 1..n : i \in 0..n /\ i # 0
    BY <1>1
  <2>2. QED
    BY <1>4, <2>1
<1> DEFINE T == {i \in 0..n : SpreadInv(instructions, states[i])}
<1>7. 0 \in T
  <2>1. SameControl(instructions, instructions)
    BY Zenon DEF SameControl
  <2>2. SpreadInv(instructions, begun)
    BY <1>5, <2>1 DEF SpreadInv
  <2>3. QED
    BY <1>1, <1>6, <2>2
<1>8. ASSUME NEW i \in 1..n, i - 1 \in T PROVE i \in T
  <2>1. SpreadInv(instructions, states[i - 1]) /\ i \in DOMAIN instructions /\ i \in 0..n
    BY <1>1, <1>8
  <2>2. SpreadInv(instructions, Spread(functions, states[i - 1], i))
    BY <1>1, <2>1, SpreadKeeps
  <2>3. QED
    BY <1>6, <2>1, <2>2
<1>9. n \in T
  <2> HIDE DEF T
  <2>1. \A i \in 0..n : i \in T
    BY <1>1, <1>7, <1>8, StepByStep
  <2>2. QED
    BY <1>1, <2>1
<1>10. SameControl(instructions, states[n].code)
  BY <1>9, Zenon DEF SpreadInv
<1>11. QED
  BY <1>2, <1>3, <1>10

-----------------------------------------------------------------------------
(***************************************************************************)
(* The steps of control: of the code itself, or of one that differs in its *)
(* meta data from the one that was split.                                  *)
(***************************************************************************)

\* A place is in one block.
LEMMA BlockIs ==
  ASSUME NEW instructions, NEW first, NEW last, NEW stray, NEW n,
         Split(instructions, n, first, last, stray, graph),
         NEW p \in 1..n, NEW b \in 1..Len(first), first[b] <= p, p <= last[b]
  PROVE  BlockOf(p) = b
<1> DEFINE l == Len(first)
           Here(x) == p \in PlacesOf(graph, x)
<1>1. /\ \A x \in 1..l : first[x] \in Nat /\ last[x] \in Int
      /\ \A x, y \in 1..l : \A q \in Int :
           first[x] <= q /\ q <= last[x] /\ first[y] <= q /\ q <= last[y] => x = y
      /\ n \in Nat
  BY DEF Split, Blocks
<1>2. Nodes(graph) = 1..l /\ graph.first = first /\ graph.last = last
  BY Zenon DEF Split, Nodes
<1>3. \A x : Here(x) <=> p \in first[x]..last[x]
  BY <1>2, Zenon DEF PlacesOf
<1> HIDE DEF l, Here
<1>4. Here(b)
  BY <1>1, <1>3 DEF l
<1>5. ASSUME NEW x \in 1..l, Here(x) PROVE x = b
  <2>1. first[x] <= p /\ p <= last[x] /\ p \in Int
    BY <1>1, <1>3, <1>5
  <2>2. b \in 1..l
    BY DEF l
  <2>3. QED
    BY <1>1, <2>1, <2>2
<1>6. (CHOOSE x \in 1..l : Here(x)) = b
  BY <1>4, <1>5 DEF l
<1>7. BlockOf(p) = CHOOSE x \in 1..l : Here(x)
  BY <1>2, Zenon DEF BlockOf, Here
<1>8. QED
  BY <1>6, <1>7

\* The place after the end of a block is the first of the next one.
LEMMA NextBlock ==
  ASSUME NEW instructions, NEW first, NEW last, NEW stray, NEW n,
         Split(instructions, n, first, last, stray, graph),
         NEW p \in 1..n, p + 1 \in 1..n,
         NEW b \in 1..Len(first), first[b] <= p, p = last[b]
  PROVE  b < Len(first) /\ b + 1 \in 1..Len(first)
           /\ first[b + 1] = p + 1 /\ p + 1 <= last[b + 1] /\ BeginsBlock(instructions, p + 1)
<1> DEFINE l == Len(first)
<1>1. /\ l \in Nat /\ l >= 1 /\ n \in Nat
      /\ last[l] = n
      /\ \A x \in 1..l : x < l => last[x] = first[x + 1] - 1 /\ x + 1 \in 1..l /\ first[x + 1] \in 1..n
      /\ \A x \in 2..l : BeginsBlock(instructions, first[x]) /\ first[x] <= last[x]
  BY Zenon DEF Split, Blocks
<1>2. b \in 1..l
  OBVIOUS
<1> HIDE DEF l
<1>3. b # l
  BY <1>1
<1>4. b < l /\ b + 1 \in 2..l
  BY <1>1, <1>2, <1>3
<1>5. last[b] = first[b + 1] - 1 /\ b + 1 \in 1..l /\ first[b + 1] \in 1..n
  BY <1>1, <1>2, <1>4
<1>6. BeginsBlock(instructions, first[b + 1]) /\ first[b + 1] <= last[b + 1]
  BY <1>1, <1>4
<1> DEFINE f == first[b + 1]
<1> HIDE DEF f
<1>7. f = p + 1
  <2>1. last[b] = f - 1 /\ f \in 1..n
    BY <1>5 DEF f
  <2>2. QED
    BY <2>1, <1>1
<1>8. QED
  BY <1>4, <1>5, <1>6, <1>7 DEF f, l

\* An instruction that may jump is the last of its block.
LEMMA JumpsEndBlocks ==
  ASSUME NEW instructions, NEW first, NEW last, NEW stray, NEW n,
         Split(instructions, n, first, last, stray, graph),
         NEW p \in 1..n, LeadsToLabel(instructions[p]),
         NEW b \in 1..Len(first), first[b] <= p, p <= last[b]
  PROVE  p = last[b]
<1> DEFINE l == Len(first)
           f == first[b]
           g == last[b]
<1>1. /\ n \in Nat
      /\ \A x \in 1..l : first[x] \in Nat /\ last[x] \in Int
      /\ \A x \in 1..l : \A q \in Int :
           first[x] <= q /\ q <= last[x] /\ BeginsBlock(instructions, q) => first[x] = q
  BY DEF Split, Blocks
<1>2. f \in Nat /\ g \in Int /\ f <= p /\ p <= g /\ p \in Int
  BY <1>1
<1>3. \A q \in Int : f <= q /\ q <= g /\ BeginsBlock(instructions, q) => f = q
  BY <1>1
<1>4. BeginsBlock(instructions, p + 1)
  <2>1. p + 1 > 1 /\ p + 1 - 1 = p
    BY <1>1
  <2>2. QED
    BY <2>1 DEF BeginsBlock, LeadsToLabel
<1> HIDE DEF f, g
<1>5. ~ (p + 1 <= g)
  <2>1. p + 1 \in Int /\ f <= p + 1 /\ f # p + 1
    BY <1>2
  <2>2. QED
    BY <1>3, <1>4, <2>1
<1>6. p = g
  BY <1>2, <1>5
<1>7. QED
  BY <1>6 DEF g

\* Where the same operations have the same operands, the labels are at the same places.
LEMMA LabelsStay ==
  ASSUME NEW S, NEW one \in Seq(S), NEW other \in Seq(S), SameControl(one, other),
         NEW p \in DOMAIN one
  PROVE  /\ other[p].op = one[p].op /\ Labelled(other[p]) = Labelled(one[p])
         /\ DOMAIN other = DOMAIN one
         /\ \A label : PlaceOfLabel(other, label) = PlaceOfLabel(one, label)
         /\ LabelsPlacedOnce(other) => LabelsPlacedOnce(one)
<1>1. DOMAIN one = 1..Len(one) /\ DOMAIN other = 1..Len(other) /\ Len(one) \in Nat /\ Len(other) \in Nat
  OBVIOUS
<1>2. Len(one) = Len(other)
  <2>1. 1..Len(one) = 1..Len(other)
    BY <1>1, Zenon DEF SameControl
  <2>2. \A a, b \in Nat : 1..a = 1..b => a <= b
    <3>1. SUFFICES ASSUME NEW a \in Nat, NEW b \in Nat, 1..a = 1..b PROVE ~ (b < a)
      OBVIOUS
    <3>2. b < a => a \in 1..a /\ a \notin 1..b
      OBVIOUS
    <3>3. QED
      BY <3>1, <3>2
  <2>3. \A a, b \in Nat : 1..a = 1..b => a = b
    <3>1. \A a, b \in Nat : a <= b /\ b <= a => a = b
      OBVIOUS
    <3>2. QED
      BY <2>2, <3>1, Zenon
  <2>4. QED
    BY <1>1, <2>1, <2>3, Zenon
<1>3. /\ DOMAIN other = DOMAIN one
      /\ \A i \in DOMAIN one : other[i].op = one[i].op /\ Labelled(other[i]) = Labelled(one[i])
  BY Zenon DEF SameControl, Labelled
<1>4. ASSUME NEW label PROVE PlaceOfLabel(other, label) = PlaceOfLabel(one, label)
  <2> DEFINE In(list) == {i \in 1..Len(list) : list[i].op = "LABEL" /\ Labelled(list[i]) = label}
  <2>1. PlaceOfLabel(other, label) = IF In(other) # {} THEN Min(In(other)) ELSE 0
    BY DEF PlaceOfLabel, SelectInSeq
  <2>2. PlaceOfLabel(one, label) = IF In(one) # {} THEN Min(In(one)) ELSE 0
    BY DEF PlaceOfLabel, SelectInSeq
  <2>3. In(one) = In(other)
    BY <1>1, <1>2, <1>3, Zenon
  <2> HIDE DEF In
  <2>4. QED
    BY <2>1, <2>2, <2>3
<1>5. LabelsPlacedOnce(other) => LabelsPlacedOnce(one)
  <2>1. {i \in DOMAIN other : other[i].op = "LABEL"} = {i \in DOMAIN one : one[i].op = "LABEL"}
    BY <1>3, Zenon
  <2>2. QED
    BY <1>3, <2>1, Zenon DEF LabelsPlacedOnce
<1>6. QED
  BY <1>3, <1>4, <1>5

\* Every step of control stays in its block or follows an edge.
LEMMA ControlFollows ==
  ASSUME NEW instructions, NEW first, NEW last, NEW stray, NEW n,
         Split(instructions, n, first, last, stray, graph), LabelsPlacedOnce(instructions),
         NEW S, code \in Seq(S), SameControl(instructions, code), instructions \in Seq(S),
         NEW p \in 1..n, NEW next \in Successors(p)
  PROVE  \/ next = p + 1 /\ BlockOf(next) = BlockOf(p)
         \/ /\ p = graph.last[BlockOf(p)]
            /\ next = graph.first[BlockOf(next)]
            /\ Contains(graph.out[BlockOf(p)], BlockOf(next))
<1> DEFINE l == Len(first)
           op == instructions[p].op
           label == Labelled(instructions[p])
           There == PlaceOfLabel(instructions, label)
<1>1. /\ n \in Nat /\ l \in Nat /\ DOMAIN instructions = 1..n
      /\ \A q \in 1..n : \E b \in 1..l : first[b] <= q /\ q <= last[b]
      /\ \A b \in 1..l : first[b] \in Nat /\ last[b] \in Int
  BY Zenon DEF Split, Blocks
<1>2. PICK b \in 1..l : first[b] <= p /\ p <= last[b]
  BY <1>1
<1> DEFINE Block(q, x) == q \in 1..n /\ x \in 1..l /\ first[x] <= q /\ q <= last[x]
<1>2a. \A q, x : Block(q, x) => BlockOf(q) = x
  BY BlockIs
<1> HIDE DEF Block
<1>3. BlockOf(p) = b
  BY <1>2, BlockIs
<1>4. /\ graph.first = first /\ graph.last = last
      /\ graph.out[b] = EdgesFrom(instructions, first, last, stray, b)
  BY DEF Split
<1>5. Leads(instructions, n, first, last, stray, b)
  BY Zenon DEF Split
<1>6. \/ next = p + 1 /\ next \in 1..n /\ op # "JUMP" /\ op # "RETURN"
      \/ next = There /\ There # 0 /\ op \in {"JUMP"} \cup ConditionalJumps
  <2> HIDE DEF There
  <2>1. Successors(p) = CASE op = "RETURN"             -> {}
                          [] op = "JUMP"               -> {There} \ {0}
                          [] op \in ConditionalJumps   -> ({p + 1} \cap DOMAIN instructions) \cup ({There} \ {0})
                          [] OTHER                     -> {p + 1} \cap DOMAIN instructions
    <3>1. /\ code[p].op = op /\ Labelled(code[p]) = label /\ DOMAIN code = DOMAIN instructions
          /\ PlaceOfLabel(code, label) = There
      BY <1>1, LabelsStay DEF There
    <3>2. Successors(p) =
            LET After == {p + 1} \cap DOMAIN code
                Goal == {PlaceOfLabel(code, Labelled(code[p]))} \ {0}
            IN  CASE code[p].op = "RETURN"             -> {}
                  [] code[p].op = "JUMP"               -> Goal
                  [] code[p].op \in ConditionalJumps   -> After \cup Goal
                  [] OTHER                             -> After
      BY Zenon DEF Successors
    <3> HIDE DEF op, label
    <3>3. QED
      BY <3>1, <3>2, Zenon
  <2>2. op \in ConditionalJumps => op # "RETURN" /\ op # "JUMP"
    BY ClassesOfJumps
  <2> HIDE DEF op
  <2>3. CASE op = "RETURN"
    BY <2>1, <2>2, <2>3
  <2>4. CASE op = "JUMP"
    BY <2>1, <2>2, <2>4
  <2>5. CASE op \in ConditionalJumps
    BY <1>1, <2>1, <2>2, <2>5
  <2>6. CASE op \notin {"RETURN", "JUMP"} \cup ConditionalJumps
    BY <1>1, <2>1, <2>6
  <2>7. QED
    BY <2>3, <2>4, <2>5, <2>6
<1>7. CASE next = p + 1 /\ next \in 1..n /\ op # "JUMP" /\ op # "RETURN"
  <2>1. CASE p < last[b]
    <3>1. first[b] <= next /\ next <= last[b]
      BY <1>1, <1>2, <1>7, <2>1, SMTT(30)
    <3>2. BlockOf(next) = b
      <4>1. Block(next, b)
        BY <1>7, <3>1 DEF Block
      <4>2. QED
        BY <1>2a, <4>1, Zenon
    <3>3. QED
      BY <1>3, <1>7, <3>2
  <2>2. CASE p = last[b]
    <3>1. /\ b < l /\ b + 1 \in 1..l /\ first[b + 1] = next /\ next <= last[b + 1]
          /\ BeginsBlock(instructions, next)
      BY <1>2, <1>7, <2>2, NextBlock
    <3>2. BlockOf(next) = b + 1
      <4>1. first[b + 1] <= next
        BY <1>1, <3>1
      <4>2. QED
        <5>1. Block(next, b + 1)
          BY <1>7, <3>1, <4>1 DEF Block
        <5>2. QED
          BY <1>2a, <5>1, Zenon
    <3>3. FallsThrough(instructions, first, last, b)
      <4>1. HasCode(first, last, b)
        BY <1>2, <2>2 DEF HasCode
      <4>2. Class(op) # "direct_jump"
        BY <1>7, ClassesOfJumps
      <4>3. instructions[next].op = "LABEL" \/ Class(op) = "conditional_jump"
        <5>1. next - 1 = p
          BY <1>7
        <5>2. QED
          BY <3>1, <4>2, <5>1 DEF BeginsBlock
      <4>4. QED
        BY <1>7, <2>2, <3>1, <4>1, <4>2, <4>3 DEF FallsThrough, EndsConditionally
    <3>4. Contains(graph.out[b], b + 1)
      BY <1>4, <1>5, <3>3, Zenon DEF Leads
    <3>5. QED
      BY <1>3, <1>4, <2>2, <3>1, <3>2, <3>4
  <2>3. QED
    BY <1>1, <1>2, <2>1, <2>2
<1>8. CASE next = There /\ There # 0 /\ op \in {"JUMP"} \cup ConditionalJumps
  <2>1. LeadsToLabel(instructions[p])
    BY <1>8, ClassesOfJumps DEF LeadsToLabel
  <2>2. p = last[b]
    BY <1>2, <2>1, JumpsEndBlocks
  <2>3. next \in 1..n /\ instructions[next].op = "LABEL" /\ Labelled(instructions[next]) = label
    <3> DEFINE I == {i \in 1..Len(instructions) : instructions[i].op = "LABEL" /\ Labelled(instructions[i]) = label}
    <3>1. There = IF I # {} THEN Min(I) ELSE 0
      BY DEF PlaceOfLabel, SelectInSeq
    <3>2. n = Len(instructions)
      BY Zenon DEF Split
    <3>3. I # {} /\ next = Min(I)
      BY <1>8, <3>1
    <3>4. I \subseteq Nat
      BY <1>1, <3>2
    <3>5. next \in I
      <4> HIDE DEF I
      <4>1. QED
        BY <3>3, <3>4, TheLeast
    <3>6. QED
      BY <3>2, <3>5
  <2> DEFINE goal == MappedBlock(instructions, first, last, stray, label)
  <2>4. goal \in 1..l /\ first[goal] = next /\ next <= last[goal]
    <3>1. /\ n = Len(instructions) /\ Starts(instructions, n, first)
          /\ last = LastPlaces(instructions, first) /\ stray \in Strays(instructions, first)
      BY Zenon DEF Split
    <3>2. /\ goal \in 0..l
          /\ \A q \in 1..n : LabelsPlacedOnce(instructions)
                /\ instructions[q].op = "LABEL" /\ Labelled(instructions[q]) = label
              => goal \in 1..l /\ first[goal] = q /\ q <= last[goal]
      BY <2>1, <3>1, MappedLeads
    <3> HIDE DEF goal
    <3>3. QED
      BY <2>3, <3>2
  <2>5. JumpedTo(instructions, first, last, stray, b) = goal
    <3>1. HasCode(first, last, b) /\ LeadsToLabel(instructions[last[b]])
      BY <1>2, <2>1, <2>2 DEF HasCode
    <3>2. QED
      BY <2>2, <3>1, Zenon DEF JumpedTo
  <2> HIDE DEF goal
  <2>6. BlockOf(next) = goal
    <3>1. first[goal] <= next
      BY <1>1, <2>3, <2>4
    <3>2. QED
      <4>1. Block(next, goal)
        BY <2>3, <2>4, <3>1 DEF Block
      <4>2. QED
        BY <1>2a, <4>1, Zenon
  <2>7. Contains(graph.out[b], goal)
    <3>1. goal # 0
      BY <2>4
    <3>2. QED
      BY <1>4, <1>5, <2>5, <3>1, Zenon DEF Leads
  <2>8. QED
    BY <1>3, <1>4, <2>2, <2>4, <2>6, <2>7
<1>9. QED
  BY <1>6, <1>7, <1>8

-----------------------------------------------------------------------------
(* From a split to the propagation that follows it the graph stays one of  *)
(* the code, but for what an update of the meta data noted in between.     *)
GraphMade ==
  at \in SplitDone =>
    \E other : /\ other \in Seq(ToSet(other)) /\ SameControl(other, code)
               /\ graph \in GraphsOf(other)

\* The positions are those of the schedule.
LEMMA PositionsAre == DOMAIN Passes!Schedule = Positions
BY DEF Passes!Schedule, Positions

\* What the types of Optimizer say of the code.
LEMMA CodeTyped ==
  ASSUME TypeOK
  PROVE  at \in Positions /\ code \in Seq(ToSet(code)) /\ WithOperands(code)
<1>1. at \in Positions
  BY PositionsAre, Zenon DEF TypeOK
<1>2. code \in Seq(ToSet(code)) /\ \A i \in DOMAIN code : WellFormed(code[i])
  BY Zenon DEF TypeOK
<1>3. ASSUME NEW instruction, WellFormed(instruction)
      PROVE  {"op", "operands"} \subseteq DOMAIN instruction
  <2>1. DOMAIN instruction = DOMAIN Instruction(instruction.op, instruction.operands)
    BY <1>3, Zenon DEF WellFormed
  <2>2. \A op, operands : {"op", "operands"} \subseteq DOMAIN Instruction(op, operands)
    BY DEF Instruction
  <2>3. QED
    BY <2>1, <2>2
<1>4. QED
  BY <1>1, <1>2, <1>3, Zenon DEF WithOperands

(* The positions between a split and a propagation are reached by a split  *)
(* or by an update at one of them; the other passes do not lead there.     *)
LEMMA WhoGetsThere ==
  ASSUME TypeOK, [Next]_vars, at' \in SplitDone
  PROVE  \/ SplitCodeToGraph
         \/ UpdateMetaData /\ at \in SplitDone
         \/ UNCHANGED <<at, code, graph>>
<1>1. at \in Positions
  BY CodeTyped
<1>2. CASE UNCHANGED vars
  BY <1>2 DEF vars
<1> DEFINE pass == Passes!Schedule[at]
<1>3. ASSUME NEW x, At(x) PROVE Passes!Schedule[at] = x
  BY <1>3, Zenon DEF At, Passes!At
<1>4. CASE At("update") /\ at' = at + 1 /\ UpdateMetaData
  <2>1. at \in {2, 5, 7, 17, 19, 24, 26, 30}
    BY <1>1, <1>3, <1>4, PlacesOfPasses
  <2>2. QED
    BY <1>4, <2>1 DEF SplitDone
<1>5. CASE At("peephole") /\ (at' = at \/ at' = at + 1)
  <2>1. at \in {3, 13, 16, 22, 29}
    BY <1>1, <1>3, <1>5, PlacesOfPasses
  <2>2. QED
    BY <1>5, <2>1 DEF SplitDone
<1>6. CASE At("propagate") /\ at' = at + 1
  <2>1. at \in {6, 20, 27}
    BY <1>1, <1>3, <1>6, PlacesOfPasses
  <2>2. QED
    BY <1>6, <2>1 DEF SplitDone
<1>7. CASE /\ At("casts") \/ At("without_effect") \/ At("patterns")
              \/ At("unused_rest") \/ At("partial") \/ At("jumps")
              \/ At("comparisons") \/ At("writes")
           /\ at' = at + 1
  <2>1. at \in {1, 9, 12, 14, 31, 15, 21, 28, 23, 32}
    BY <1>1, <1>3, <1>7, PlacesOfPasses
  <2>2. QED
    BY <1>7, <2>1 DEF SplitDone
<1>8. CASE At("literals") /\ (at' = 4 \/ at' = at + 1)
  <2>1. at = 8
    BY <1>1, <1>3, <1>8, PlacesOfPasses
  <2>2. QED
    BY <1>8, <2>1 DEF SplitDone
<1>9. CASE At("unused_variables") /\ (at' = at \/ at' = at + 1)
  <2>1. at = 10
    BY <1>1, <1>3, <1>9, PlacesOfPasses
  <2>2. QED
    BY <1>9, <2>1 DEF SplitDone
<1>10. CASE At("unused_functions") /\ (at' = 10 \/ at' = at + 1)
  <2>1. at = 11
    BY <1>1, <1>3, <1>10, PlacesOfPasses
  <2>2. QED
    BY <1>10, <2>1 DEF SplitDone
<1>11. CASE SplitCodeToGraph
  BY <1>11
<1>12. CASE Next
  <2>1. CASE OptimizeTypeCasts \/ RemoveWithoutEffect \/ AddAdvancedPatterns
             \/ RemoveUnusedRest \/ PartialEvaluation
    BY <1>7, <2>1, Zenon
       DEF OptimizeTypeCasts, RemoveWithoutEffect, AddAdvancedPatterns, RemoveUnusedRest,
           PartialEvaluation, Proceed
  <2>2. CASE OptimizeJumps \/ OptimizeComparisons \/ MultiWrite
    BY <1>7, <2>2, Zenon DEF OptimizeJumps, OptimizeComparisons, MultiWrite, CodePass, Proceed
  <2>3. CASE UpdateMetaData
    BY <1>4, <2>3, Zenon DEF UpdateMetaData, Proceed
  <2>4. CASE PeepHoleOptimization
    <3>1. At("peephole") /\ (at' = at \/ at' = at + 1)
      BY <2>4, Zenon DEF PeepHoleOptimization
    <3>2. QED
      BY <1>5, <3>1
  <2>5. CASE PropagateConstants
    BY <1>6, <2>5, Zenon DEF PropagateConstants, Proceed
  <2>6. CASE EvaluateLiterals
    <3>1. At("literals") /\ (at' = 4 \/ at' = at + 1)
      BY <2>6, Zenon DEF EvaluateLiterals, Passes!LoopStart
    <3>2. QED
      BY <1>8, <3>1
  <2>7. CASE RemoveUnusedVariables
    <3>1. At("unused_variables") /\ (at' = at \/ at' = at + 1)
      BY <2>7, Zenon DEF RemoveUnusedVariables
    <3>2. QED
      BY <1>9, <3>1
  <2>8. CASE RemoveUnusedFunctions
    <3>1. At("unused_functions") /\ (at' = 10 \/ at' = at + 1)
      BY <2>8, Zenon DEF RemoveUnusedFunctions, Passes!RemovalStart
    <3>2. QED
      BY <1>10, <3>1
  <2>9. QED
    BY <1>11, <1>12, <2>1, <2>2, <2>3, <2>4, <2>5, <2>6, <2>7, <2>8, Zenon DEF Next
<1>13. QED
  BY <1>2, <1>12

\* So it stays made.
LEMMA GraphStaysMade == TypeOK /\ GraphMade /\ [Next]_vars => GraphMade'
<1> SUFFICES ASSUME TypeOK, GraphMade, [Next]_vars, at' \in SplitDone
             PROVE  \E other : /\ other \in Seq(ToSet(other)) /\ SameControl(other, code')
                               /\ graph' \in GraphsOf(other)
  BY Zenon DEF GraphMade
<1>1. code \in Seq(ToSet(code)) /\ WithOperands(code)
  BY CodeTyped
<1>2. CASE SplitCodeToGraph
  <2>1. graph' \in GraphsOf(code) /\ code' = code
    BY <1>2, Zenon DEF SplitCodeToGraph
  <2>2. SameControl(code, code')
    BY <2>1, Zenon DEF SameControl
  <2>3. QED
    BY <1>1, <2>1, <2>2, Zenon
<1>3. CASE UpdateMetaData /\ at \in SplitDone
  <2>1. PICK other : /\ other \in Seq(ToSet(other)) /\ SameControl(other, code)
                     /\ graph \in GraphsOf(other)
    BY <1>3, Zenon DEF GraphMade
  <2>2. code' = Updated(code).code /\ graph' = graph
    BY <1>3, Zenon DEF UpdateMetaData
  <2>3. SameControl(code, code')
    BY <1>1, <2>2, UpdateKeepsControl
  <2>4. SameControl(other, code')
    BY <2>1, <2>3, ControlChained, Zenon
  <2>5. QED
    BY <2>1, <2>2, <2>4, Zenon
<1>4. CASE UNCHANGED <<at, code, graph>>
  <2>1. at' = at /\ code' = code /\ graph' = graph
    BY <1>4
  <2>2. QED
    BY <2>1, Zenon DEF GraphMade
<1>5. QED
  BY <1>2, <1>3, <1>4, WhoGetsThere

LEMMA GraphIsMade == Spec /\ []TypeOK => []GraphMade
<1>1. Init => GraphMade
  BY DEF Init, GraphMade, SplitDone
<1>2. QED
  BY <1>1, GraphStaysMade, PTL DEF Spec

\* When constants are propagated, the graph is one of code that goes where this goes.
LEMMA MadeWhenPropagated ==
  ASSUME TypeOK, GraphMade, At("propagate")
  PROVE  \E other : /\ other \in Seq(ToSet(other)) /\ SameControl(other, code)
                    /\ graph \in GraphsOf(other)
<1>1. Passes!Schedule[at] = "propagate" /\ at \in Positions
  BY CodeTyped, Zenon DEF At, Passes!At
<1>2. at \in SplitDone
  BY <1>1, PlacesOfPasses DEF SplitDone
<1>3. QED
  BY <1>2, Zenon DEF GraphMade

\* A sequence of some elements is one of more.
LEMMA LargerSet ==
  ASSUME NEW S, NEW T, NEW list, list \in Seq(S) \/ list \in Seq(T)
  PROVE  list \in Seq(S \cup T)
OBVIOUS

(* When constants are propagated, control never leaves a block of the graph *)
(* but from its last instruction to the first of a block there is an edge   *)
(* to (BlocksFollowControl), whatever the code is and whatever was done to  *)
(* it: since code_optimizer_split_code_to_graph made an edge of every way   *)
(* out of a block, only the meta data was updated.                          *)
THEOREM BlocksAreThoseOfControl ==
  Spec /\ []TypeOK /\ []NamesResolve => []BlocksFollowControl
<1>1. ASSUME TypeOK, NamesResolve, GraphMade PROVE BlocksFollowControl
  <2>1. SUFFICES ASSUME At("propagate"), NEW p \in DOMAIN code, NEW next \in Successors(p)
                 PROVE  \/ next = p + 1 /\ BlockOf(next) = BlockOf(p)
                        \/ /\ p = graph.last[BlockOf(p)]
                           /\ next = graph.first[BlockOf(next)]
                           /\ Contains(graph.out[BlockOf(p)], BlockOf(next))
    BY Zenon DEF BlocksFollowControl
  <2>2. PICK other : /\ other \in Seq(ToSet(other)) /\ SameControl(other, code)
                     /\ graph \in GraphsOf(other)
    BY <1>1, <2>1, MadeWhenPropagated
  <2>3. code \in Seq(ToSet(code)) /\ LabelsPlacedOnce(code)
    BY <1>1, Zenon DEF TypeOK, NamesResolve
  <2> DEFINE S == ToSet(other) \cup ToSet(code)
  <2>4. other \in Seq(S) /\ code \in Seq(S)
    BY <2>2, <2>3, LargerSet
  <2> HIDE DEF S
  <2>5. p \in DOMAIN other
    BY <2>2, Zenon DEF SameControl
  <2>6. LabelsPlacedOnce(other)
    BY <2>2, <2>3, <2>4, <2>5, LabelsStay
  <2>7. PICK first, last, stray : Split(other, Len(other), first, last, stray, graph)
    BY <2>2, GraphIsSplit, Zenon
  <2>8. p \in 1..Len(other)
    BY <2>5, <2>7, Zenon DEF Split
  <2>9. QED
    BY <2>1, <2>2, <2>4, <2>6, <2>7, <2>8, ControlFollows
<1>2. QED
  BY <1>1, GraphIsMade, PTL

(* The cycles a propagation of constants is told of are those of the graph  *)
(* (CyclesAreMutual): the graph is one that code was split to, and of every *)
(* graph oriented_graph_scc finds the cycles.                               *)
THEOREM CyclesAreThoseOfTheGraph == Spec /\ []TypeOK => []CyclesAreMutual
<1>1. ASSUME TypeOK, GraphMade PROVE CyclesAreMutual
  <2>1. At("propagate") => IsGraph(graph)
    <3>1. SUFFICES ASSUME At("propagate") PROVE IsGraph(graph)
      OBVIOUS
    <3>2. PICK other : other \in Seq(ToSet(other)) /\ graph \in GraphsOf(other)
      BY <1>1, <3>1, MadeWhenPropagated
    <3>3. QED
      BY <3>2, SplitIsGraph
  <2>2. QED
    BY <2>1, CyclesAreFound DEF CyclesAreMutual
<1>2. QED
  BY <1>1, GraphIsMade, PTL

=============================================================================
