------------------------ MODULE ConstantPropagation ------------------------
(***************************************************************************)
(* code_optimizer_propagate_constants_optimization: constants flow along   *)
(* the graph of blocks, a depth-first walk that carries a stack of tables  *)
(* of what every variable is known to hold.                                *)
(***************************************************************************)
EXTENDS OptimizerMetaData, CodeGraph

(* A table's entry (MappedOperand): the constant, if any, the place of the *)
(* instruction of this block that stored it, and whether a cycle changes   *)
(* the variable.                                                           *)
UnknownValue == [operand |-> << >>, setter |-> 0, blocked |-> FALSE]
EntryOf(table, variable) ==
  IF variable \in DOMAIN table THEN table[variable] ELSE UnknownValue
Changed(table, variable, entry) == (variable :> entry) @@ table

\* Tables on the stack, the last pushed first.
Table(constants, direct) == [constants |-> constants, direct |-> direct]
FreshTable == Table(<< >>, TRUE)
NearestDirect(tables) == SelectInSeq(tables, LAMBDA table : table.direct)

\* Wrong on purpose (a mutant of ModifiedIn): calculations change nothing.
ModifiedByWrites(code, graph, blocks) ==
  {Target(code[p]) : p \in {q \in UNION {PlacesOf(graph, b) : b \in blocks} :
                              Class(code[q].op) = "write"}}

(* code_optimizer_modified_vars_in_blocks                                  *)
ModifiedIn(code, graph, blocks) ==
  {Target(code[p]) : p \in {q \in UNION {PlacesOf(graph, b) : b \in blocks} :
                              Stores(code[q])}}

-----------------------------------------------------------------------------
(* A call: what the function changes is no longer known, and what it reads *)
(* makes the store it would read worth keeping.                            *)
AfterCall(function, s) ==
  LET forgotten == [v \in DOMAIN s.table |->
        IF v \in function.modified THEN [s.table[v] EXCEPT !.operand = << >>]
        ELSE s.table[v]]
      kept == {forgotten[v].setter : v \in
                 {w \in function.read \cap DOMAIN forgotten :
                    forgotten[w].operand # << >> /\ forgotten[w].setter # 0}}
  IN  [s EXCEPT !.table = forgotten,
                !.code = Walk(LAMBDA code, p : [code EXCEPT ![p].without_effect = FALSE],
                              @, SetToSeq(kept))]

\* What a variable an instruction reads is replaced by.
KnownOperand(table, instruction, j) ==
  LET operand == instruction.operands[j]
      entry == EntryOf(table, operand)
  IN  IF /\ Signature(instruction.op)[j] = "symbol" /\ IsVariableOperand(operand)
         /\ entry.operand # << >> /\ ~entry.blocked
      THEN entry.operand[1] ELSE operand

\* The constants replace the variables an instruction reads.
WithConstants(place, s) ==
  LET instruction == s.code[place]
      known == [j \in DOMAIN instruction.operands |-> KnownOperand(s.table, instruction, j)]
  IN  [s EXCEPT !.code[place].operands = known,
                !.changed = @ \/ known # instruction.operands]

(* A store: the constant it overwrites had no effect if nobody can have    *)
(* read it, and a new one becomes known unless it is a global variable's   *)
(* inside a function.  The table a join's copy was made of forgets it too. *)
AfterStore(globals, place, s) ==
  LET instruction == s.code[place]
      variable == Target(instruction)
      entry == EntryOf(s.table, variable)
      overwrites == /\ entry.operand # << >> /\ entry.setter # 0
                    /\ ~entry.blocked /\ variable.frame # "TF"
      learns == /\ globals \/ variable.frame # "GF"
                /\ ~entry.blocked
                /\ instruction.op = "MOVE" /\ IsConstantOperand(instruction.operands[2])
      forgotten == IF entry.operand = << >> THEN entry
                   ELSE [entry EXCEPT !.operand = << >>, !.setter = 0]
      new == IF learns
             THEN [forgotten EXCEPT !.operand = <<instruction.operands[2]>>, !.setter = place]
             ELSE forgotten
      Forgetting(table) ==
        IF EntryOf(table, variable).operand = << >> THEN table
        ELSE Changed(table, variable, [table[variable] EXCEPT !.operand = << >>, !.setter = 0])
  IN  [s EXCEPT !.table = Changed(@, variable, new),
                !.origin = [i \in DOMAIN @ |-> Forgetting(@[i])],
                !.code = IF overwrites THEN [@ EXCEPT ![entry.setter].without_effect = TRUE]
                         ELSE @]

(* One instruction of a block.                                             *)
Propagated(functions, globals, s, place) ==
  LET called == IF s.code[place].op = "CALL"
                THEN AfterCall(FunctionIn(functions, Labelled(s.code[place])), s) ELSE s
      replaced == WithConstants(place, called)
  IN  IF Stores(s.code[place]) THEN AfterStore(globals, place, replaced) ELSE replaced

-----------------------------------------------------------------------------
\* What is left to do of the depth-first walk.
Visit(block, conditional, globals) ==
  [do |-> "visit", block |-> block, conditional |-> conditional, globals |-> globals]
OpenTable == [do |-> "open"]
CloseTable == [do |-> "close"]

\* The parents from which control reaches a block without a condition.
DirectParents(graph, block) ==
  {p \in Parents(graph, block) : block \notin graph.conditional[p]}

(* code_optimizer_propagate_constants_in_block: a block entered on a       *)
(* condition or by several ways starts from the nearest direct table.      *)
Visited(graph, cycles, functions, s, task) ==
  LET block == task.block
      own == ~task.conditional /\ Cardinality(DirectParents(graph, block)) <= 1
      from == IF own THEN 1 ELSE NearestDirect(s.tables)
      copied == s.tables[from].constants
      blocked == UNION {ModifiedIn(s.code, graph, c) : c \in {d \in cycles : block \in d}}
      table == [v \in DOMAIN copied \cup blocked |->
                  [EntryOf(copied, v) EXCEPT !.setter = 0, !.blocked = @ \/ v \in blocked]]
      next == graph.out[block]
      After(done) ==
        [code |-> done.code, changed |-> done.changed,
         processed |-> s.processed \cup {block},
         tables |-> <<Table(done.table, ~task.conditional)>> \o
                      IF own THEN s.tables
                      ELSE [s.tables EXCEPT ![from].constants = done.origin[1]],
         tasks |-> [i \in DOMAIN next |->
                      Visit(next[i], next[i] \in graph.conditional[block], task.globals)]
                     \o <<CloseTable>> \o Tail(s.tasks)]
  IN  After(Walk(LAMBDA x, place : Propagated(functions, task.globals, x, place),
                 [code |-> s.code, table |-> table, changed |-> s.changed,
                  origin |-> IF own THEN << >> ELSE <<copied>>],
                 [i \in 1..(graph.last[block] - graph.first[block] + 1) |->
                    graph.first[block] + i - 1]))

PropagationStep(graph, cycles, functions, s) ==
  LET task == Head(s.tasks)
      rest == [s EXCEPT !.tasks = Tail(@)]
  IN  CASE task.do = "open"  -> [rest EXCEPT !.tables = <<FreshTable>> \o @]
        [] task.do = "close" -> [rest EXCEPT !.tables = Tail(@)]
        [] task.do = "visit" ->
             IF task.block \in s.processed THEN rest
             ELSE Visited(graph, cycles, functions, s, task)

(* Functions come first, each with a table of its own, then the program.   *)
ConstantsPropagated(code, graph, cycles, functions) ==
  LET entries == SelectSeq([b \in Nodes(graph) |-> b],
                   LAMBDA b : /\ graph.first[b] <= graph.last[b]
                              /\ "function_start" \in code[graph.first[b]].mark)
      tasks == FlattenSeq([i \in DOMAIN entries |->
                             <<OpenTable, Visit(entries[i], FALSE, FALSE), CloseTable>>])
                 \o <<OpenTable, Visit(1, FALSE, TRUE), CloseTable>>
      start == [code |-> code, tables |-> << >>, processed |-> {}, changed |-> FALSE,
                tasks |-> tasks]
      end == Walk(LAMBDA s, k : IF s.tasks = << >> THEN s
                                ELSE PropagationStep(graph, cycles, functions, s),
                  start, [k \in 1..(Len(tasks) + TasksOf(graph)) |-> k])
  IN  [code |-> end.code, changed |-> end.changed]

=============================================================================
