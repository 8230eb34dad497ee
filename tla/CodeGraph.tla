------------------------------ MODULE CodeGraph ------------------------------
(***************************************************************************)
(* The graph of the code's blocks (code_optimizer_split_code_to_graph) and *)
(* its strongly connected components (oriented_graph.c).                   *)
(*                                                                         *)
(* Nodes are numbered from 1 in the order they are made.  A block is a     *)
(* stretch of places of the code; the edges of a node keep the order they  *)
(* were added in, and the blocks entered after or by a conditional jump    *)
(* are those of conditional_jump.                                          *)
(***************************************************************************)
EXTENDS IntermediateCode

\* Wrong on purpose (a mutant of BeginsBlock): not after a jump.
BeginsBlockAtLabels(code, place) == code[place].op = "LABEL"

\* A new block begins at a label and after a jump.
BeginsBlock(code, place) ==
  \/ code[place].op = "LABEL"
  \/ place > 1 /\ Class(code[place - 1].op) \in {"direct_jump", "conditional_jump"}

(* Where the blocks begin.  The first one is made before any instruction   *)
(* is looked at; it has none if the program begins with a label.           *)
BlockBegun(code, first, place) == IF BeginsBlock(code, place) THEN Append(first, place) ELSE first
FirstPlaces(code) ==
  Walk(LAMBDA first, place : BlockBegun(code, first, place), <<1>>, [place \in DOMAIN code |-> place])

\* set_int_add, and a list added item by item.
Added(set, item) == IF Contains(set, item) THEN set ELSE Append(set, item)
AddedInOrder(items) == Walk(LAMBDA set, item : Added(set, item), << >>, items)

\* What decides whether the last instruction of a block leads to a label.
LeadsToLabel(instruction) == Class(instruction.op) \in {"direct_jump", "conditional_jump"}

(* The value the table of labels gives for a label that has no block is    *)
(* never set: any number, of a block or not (0).                           *)
UnmappedLabels(code) ==
  LET labels == {Labelled(i) : i \in {x \in ToSet(code) : x.op = "LABEL"}}
  IN  {Labelled(i) : i \in {x \in ToSet(code) : LeadsToLabel(x)}} \ labels

Strays(code, first) == [UnmappedLabels(code) -> 0..Len(first)]

\* A block ends where the next one begins.
LastPlaces(code, first) ==
  [b \in DOMAIN first |-> IF b = Len(first) THEN Len(code) ELSE first[b + 1] - 1]

HasCode(first, last, b) == first[b] <= last[b]

EndsConditionally(code, first, last, b) ==
  HasCode(first, last, b) /\ Class(code[last[b]].op) = "conditional_jump"

\* Whether control may go from the end of a block to the next one.
FallsThrough(code, first, last, b) ==
  /\ b < Len(first) /\ HasCode(first, last, b)
  /\ code[last[b]].op # "RETURN"
  /\ \/ EndsConditionally(code, first, last, b)
     \/ /\ code[first[b + 1]].op = "LABEL"
        /\ Class(code[last[b]].op) # "direct_jump"

\* The block of a label, for a jump; of labels of one name the last one's.
MappedBlock(code, first, last, stray, label) ==
  IF label \in DOMAIN stray THEN stray[label]
  ELSE Max({b \in DOMAIN first : /\ HasCode(first, last, b)
                                 /\ code[first[b]].op = "LABEL"
                                 /\ Labelled(code[first[b]]) = label})

\* The block the end of a block jumps to, or 0.
JumpedTo(code, first, last, stray, b) ==
  IF HasCode(first, last, b) /\ LeadsToLabel(code[last[b]])
  THEN MappedBlock(code, first, last, stray, Labelled(code[last[b]])) ELSE 0

\* The edges to the next block are added first, those of the jumps in a second loop.
EdgesFrom(code, first, last, stray, b) ==
  LET next == IF FallsThrough(code, first, last, b) THEN <<b + 1>> ELSE << >>
      goal == JumpedTo(code, first, last, stray, b)
  IN  AddedInOrder(next \o IF goal = 0 THEN << >> ELSE <<goal>>)

\* code_optimizer_split_code_to_graph
SplitToGraph(code, first, stray) ==
  LET last == LastPlaces(code, first)
      Out(b) == EdgesFrom(code, first, last, stray, b)
  IN  [first |-> first, last |-> last,
       out |-> [b \in DOMAIN first |-> Out(b)],
       conditional |-> [b \in DOMAIN first |->
                          IF EndsConditionally(code, first, last, b) THEN ToSet(Out(b)) ELSE {}]]

\* The graphs the code may be split to.
GraphsOf(code) ==
  UNION {{SplitToGraph(code, first, stray) : stray \in Strays(code, first)} :
           first \in {FirstPlaces(code)}}

NoGraph == [first |-> << >>, last |-> << >>, out |-> << >>, conditional |-> << >>]

Nodes(graph) == DOMAIN graph.out
Parents(graph, b) == {p \in Nodes(graph) : Contains(graph.out[p], b)}
PlacesOf(graph, b) == graph.first[b]..graph.last[b]

-----------------------------------------------------------------------------
(* oriented_graph_scc.  The recursion is a list of what is left to do:     *)
(* look along an edge, take over what the visit of a node found, and close *)
(* a node.  A root is an edge from nowhere, node 0.                        *)
Edge(from, to) == [do |-> "edge", from |-> from, to |-> to]
Back(from, to) == [do |-> "back", from |-> from, to |-> to]
Close(node) == [do |-> "close", from |-> node, to |-> node]

\* oriented_graph_scc_util until the loop over the edges of v.
Entered(graph, s, v) ==
  [s EXCEPT !.time = @ + 1, !.disc[v] = s.time + 1, !.low[v] = s.time + 1,
            !.stack = <<v>> \o @,
            !.tasks = [i \in DOMAIN graph.out[v] |-> Edge(v, graph.out[v][i])]
                        \o <<Close(v)>> \o @]

Lowered(s, u, value) ==
  [s EXCEPT !.low[u] = IF value < @ THEN value ELSE @]

\* Wrong on purpose (a mutant of Closed): the root of a component stays.
ClosedLeavingRoot(s, v) ==
  LET n == SelectInSeq(s.stack, LAMBDA w : w = v)
  IN  IF s.low[v] # s.disc[v] THEN s
      ELSE [s EXCEPT !.stack = SubSeq(@, n, Len(@)),
                     !.components = @ \cup {ToSet(SubSeq(s.stack, 1, n))}]

\* The nodes above v on the stack are a component with it.
Closed(s, v) ==
  LET n == SelectInSeq(s.stack, LAMBDA w : w = v)
  IN  IF s.low[v] # s.disc[v] THEN s
      ELSE [s EXCEPT !.stack = SubSeq(@, n + 1, Len(@)),
                     !.components = @ \cup {ToSet(SubSeq(s.stack, 1, n))}]

ComponentStep(graph, s) ==
  LET task == Head(s.tasks)
      u == task.from
      v == task.to
      rest == [s EXCEPT !.tasks = Tail(@)]
  IN  CASE task.do = "close" -> Closed(rest, v)
        [] task.do = "back"  -> Lowered(rest, u, s.low[v])
        [] task.do = "edge" /\ s.disc[v] = -1 ->
             LET entering == IF u = 0 THEN rest
                             ELSE [rest EXCEPT !.tasks = <<Back(u, v)>> \o @]
             IN  Entered(graph, entering, v)
        [] task.do = "edge" /\ s.disc[v] # -1 ->
             IF u # 0 /\ Contains(s.stack, v) THEN Lowered(rest, u, s.disc[v]) ELSE rest

\* Every node is a root, entered and closed, every edge at most twice a task.
TasksOf(graph) ==
  2 * (Len(graph.out) + Walk(LAMBDA n, edges : n + Len(edges), 0, graph.out))

(* The components of more than one node: what the optimizer calls cycles.  *)
StronglyConnected(graph) ==
  LET none == [v \in Nodes(graph) |-> -1]
      start == [time |-> 0, disc |-> none, low |-> none, stack |-> << >>,
                components |-> {}, tasks |-> [v \in Nodes(graph) |-> Edge(0, v)]]
      end == Walk(LAMBDA s, k : IF s.tasks = << >> THEN s ELSE ComponentStep(graph, s),
                  start, [k \in 1..TasksOf(graph) |-> k])
  IN  {component \in end.components : Cardinality(component) > 1}

-----------------------------------------------------------------------------
\* The edges lead from nodes to nodes.
IsGraph(graph) == graph.out \in Seq(Seq(Nodes(graph)))

\* The nodes that can be reached from a node.
ReachableFrom(graph, node) ==
  Walk(LAMBDA reached, k : reached \cup UNION {ToSet(graph.out[n]) : n \in reached},
       {node}, graph.out)

(* The largest sets of several nodes each of which reaches the others.     *)
Cycles(graph) ==
  LET reach == [n \in Nodes(graph) |-> ReachableFrom(graph, n)]
      Component(n) == {m \in reach[n] : n \in reach[m]}
  IN  {c \in {Component(n) : n \in Nodes(graph)} : Cardinality(c) > 1}

=============================================================================
