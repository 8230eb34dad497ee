----------------------- MODULE CompiledProgramProofs -----------------------
(***************************************************************************)
(* What the parser of programs owes, for every set of names and every kind *)
(* of program: its stacks of labels hold what the open blocks need and     *)
(* nothing else, labels are placed once, what is left at the end of the    *)
(* program is closed, and the machine that runs its code never takes from  *)
(* an empty stack.  The facts about the operators of the constructor are   *)
(* those of CodeConstructorProofs.                                         *)
(***************************************************************************)
EXTENDS CompiledProgram, CodeConstructorProofs, FiniteSetTheorems

-----------------------------------------------------------------------------
(* The invariant. *)

Branches == {"then", "elseif", "else"}

OpenRules == {"program", "function", "scope", "while"} \cup Branches

Blocks == [rule : OpenRules, table : Table]

ParserTypes ==
  /\ part \in {"definitions", "scope", "shared", "parsed", "refused"}
  /\ variables \in Seq(Table) /\ Len(variables) > 0
  /\ variables_table_counter \in Nat
  /\ functions \in Functions
  /\ actual_function \in Names \cup {NoName}
  /\ was_actual_function_declared \in BOOLEAN
  /\ globals \subseteq Identities
  /\ constructor \in Constructors
  /\ blocks \in Seq(Blocks) /\ Len(blocks) > 0
  /\ kind \in DOMAIN Programs
  /\ left \in [Constructs -> Nat]

\* Where the parser is and which blocks are open: functions only in the
\* definitions, their code in the buffer; one scope for the main part.
Placement(p, b, buffered, fs, actual) ==
  /\ b[1].rule = "program"
  /\ \A i \in 2..Len(b) :
       b[i].rule # "program" /\ (b[i].rule = "function" => i = 2)
  /\ p = "definitions" /\ Len(b) > 1 => b[2].rule = "function"
  /\ p = "scope" => Len(b) > 1 /\ b[2].rule = "scope"
  /\ p = "shared" => Len(b) = 1
  /\ buffered <=> Len(b) > 1 /\ b[2].rule = "function"
  /\ p = "definitions" /\ Len(b) = 1 /\ actual # NoName =>
       fs[actual].status = "declared"
  /\ p \in {"scope", "shared"} =>
       actual = NoName /\ \A f \in Names : fs[f].status # "declared"

Shape == Placement(part, blocks, constructor.to_buffer, functions, actual_function)

-----------------------------------------------------------------------------
(* How many blocks of some rules are open. *)

Count(b, rules) == Cardinality({i \in 1..Len(b) : b[i].rule \in rules})

LEMMA CountType ==
  ASSUME NEW b, Len(b) \in Nat, NEW rules
  PROVE  Count(b, rules) \in Nat
<1> DEFINE S == {i \in 1..Len(b) : b[i].rule \in rules}
<1>1. IsFiniteSet(1..Len(b))
  BY FS_Interval
<1>2. S \subseteq 1..Len(b)
  OBVIOUS
<1> HIDE DEF S
<1>3. IsFiniteSet(S)
  BY <1>1, <1>2, FS_Subset
<1>4. Cardinality(S) \in Nat
  BY <1>3, FS_CardinalityType
<1>5. QED
  BY <1>4 DEF S, Count

LEMMA CountSame ==
  ASSUME NEW b, NEW d, Len(b) = Len(d), NEW rules,
         \A i \in 1..Len(b) : b[i].rule = d[i].rule
  PROVE  Count(b, rules) = Count(d, rules)
<1>1. {i \in 1..Len(b) : b[i].rule \in rules} = {i \in 1..Len(d) : d[i].rule \in rules}
  OBVIOUS
<1>2. QED
  BY <1>1 DEF Count

\* One block more, and none.
LEMMA CountMore ==
  ASSUME NEW b, Len(b) \in Nat, NEW d, Len(d) = Len(b) + 1, NEW rules,
         \A i \in 1..Len(b) : b[i].rule = d[i].rule
  PROVE  Count(d, rules) =
           Count(b, rules) + (IF d[Len(b) + 1].rule \in rules THEN 1 ELSE 0)
<1>1. IsFiniteSet(1..Len(b))
  <2> DEFINE n == Len(b)
  <2>1. 1 \in Int /\ n \in Int
    OBVIOUS
  <2> HIDE DEF n
  <2>2. IsFiniteSet(1..n)
    BY <2>1, FS_Interval
  <2>3. QED
    BY <2>2 DEF n
<1> DEFINE S == {i \in 1..Len(b) : b[i].rule \in rules}
           T == {i \in 1..Len(d) : d[i].rule \in rules}
           n == Len(b) + 1
<1>2. S \subseteq 1..Len(b) /\ n \notin S
  OBVIOUS
<1>3. /\ d[n].rule \in rules => T = S \cup {n}
      /\ d[n].rule \notin rules => T = S
  OBVIOUS
<1> HIDE DEF S, T, n
<1>4. IsFiniteSet(S)
  BY <1>1, <1>2, FS_Subset
<1>5. Cardinality(S \cup {n}) = Cardinality(S) + 1 /\ Cardinality(S) \in Nat
  BY <1>2, <1>4, FS_AddElement, FS_CardinalityType
<1>6. Cardinality(T) = Cardinality(S) + (IF d[n].rule \in rules THEN 1 ELSE 0)
  <2>1. CASE d[n].rule \in rules
    BY <1>3, <1>5, <2>1
  <2>2. CASE d[n].rule \notin rules
    BY <1>3, <1>5, <2>2
  <2>3. QED
    BY <2>1, <2>2
<1>7. QED
  BY <1>6 DEF S, T, n, Count

LEMMA CountOne ==
  ASSUME NEW b, Len(b) = 1, NEW rules, b[1].rule \notin rules
  PROVE  Count(b, rules) = 0
<1>1. {i \in 1..Len(b) : b[i].rule \in rules} = {}
  OBVIOUS
<1>2. QED
  BY <1>1, FS_EmptySet DEF Count

-----------------------------------------------------------------------------
(* What the constructor holds for the open blocks.                         *)

Balanced(c, b) ==
  /\ c.code_labels = << >>
  /\ Len(c.conditions) = 2 * Count(b, Branches)
  /\ Len(c.loops) = 2 * Count(b, {"while"})
  /\ c.loops_depth = Count(b, {"while"})
  /\ c.scope_depth = Count(b, {"scope"})
  /\ c.control_statement_depth = Count(b, Branches) + Count(b, {"while"})

(* The labels.  Those on the stacks are still to be placed, except that of *)
(* the start of a loop; everything an instruction mentions has its place,  *)
(* is on a stack or is a function that was declared.                       *)

FunctionLabels(fs) == {FunctionLabel(f) : f \in {g \in Names : fs[g].status # "none"}}

Elements(s) == {s[i] : i \in 1..Len(s)}

AllDifferent(s) == \A i, j \in 1..Len(s) : s[i] = s[j] => i = j

OnStacks(c) == Elements(c.conditions) \cup Elements(c.loops)

\* A label with the next number is new.
Numbered(c) ==
  \A l \in Placed(c) \cup OnStacks(c) :
    l.type # "none" /\ (l.type = "function" \/ l.number < c.label_counter)

OpenConditions(c) ==
  /\ \A l \in Elements(c.conditions) :
       l.type \in {"if_end", "if_else"} /\ l \notin Placed(c)
  /\ AllDifferent(c.conditions)

OpenLoops(c) ==
  /\ \A l \in Elements(c.loops) : l.type \in {"while_start", "while_end"}
  /\ \A k \in 1..Len(c.loops) : 2 * k <= Len(c.loops) =>
       c.loops[2 * k - 1] \in Placed(c) /\ c.loops[2 * k] \notin Placed(c)
  /\ AllDifferent(c.loops)

FunctionsPlaced(c, fs) ==
  \A f \in Names : FunctionLabel(f) \in Placed(c) <=> fs[f].status = "defined"

MentionsKnown(c, fs) ==
  Mentioned(c) \subseteq Placed(c) \cup OnStacks(c) \cup FunctionLabels(fs)

\* The outermost loop is where declarations go.
OutermostLoop(c) ==
  IF Len(c.loops) = 0
  THEN c.loops_initial = NoLabel
  ELSE c.loops_initial = c.loops[1] /\ HasPlace(c, c.loops[1])

\* The list being written has a first instruction.
Begun(c) == Len(c.main) > 0 /\ (c.to_buffer => Len(c.buffer) > 0)

Ordered(c, fs) ==
  /\ AllPlacedOnce(c) /\ Numbered(c)
  /\ OpenConditions(c) /\ OpenLoops(c)
  /\ FunctionsPlaced(c, fs) /\ MentionsKnown(c, fs)
  /\ OutermostLoop(c) /\ Begun(c)

LEMMA FreshLabel ==
  ASSUME NEW c \in Constructors, NEW fs, Ordered(c, fs), NEW l \in Labels,
         l.number >= c.label_counter, l.type # "function"
  PROVE  l \notin Placed(c) /\ l \notin OnStacks(c)
<1>1. c.label_counter \in Nat /\ l.number \in Nat
  BY ConstructorFields DEF Labels
<1>2. Numbered(c)
  BY DEF Ordered
<1>3. QED
  BY <1>1, <1>2 DEF Numbered

LEMMA PlacedAreLabels ==
  ASSUME NEW c \in Constructors
  PROVE  /\ Placed(c) \subseteq Labels /\ OnStacks(c) \subseteq Labels
         /\ Mentioned(c) \subseteq Labels
<1>1. /\ c.main \in Seq(Instructions) /\ c.buffer \in Seq(Instructions)
      /\ c.conditions \in Seq(Labels) /\ c.loops \in Seq(Labels)
  BY ConstructorFields
<1>2. Placed(c) \subseteq Labels
  BY DEF Placed, PlacedIn
<1>3. OnStacks(c) \subseteq Labels
  BY <1>1 DEF OnStacks, Elements
<1>4. ASSUME NEW code \in Seq(Instructions) PROVE MentionedIn(code) \subseteq Labels
  <2>1. \A i \in DOMAIN code : code[i] \in Instructions
    OBVIOUS
  <2>2. \A i \in DOMAIN code : code[i].label \in Labels
    BY <2>1 DEF Instructions
  <2>3. QED
    BY <2>2 DEF MentionedIn
<1>5. QED
  BY <1>1, <1>2, <1>3, <1>4 DEF Mentioned

\* What two more labels on top of a stack do to it.
LEMMA TwoMore ==
  ASSUME NEW below \in Seq(Labels), NEW k \in Labels, NEW l \in Labels,
         NEW s, OnTop(s, below, k, l)
  PROVE  /\ Elements(s) = Elements(below) \cup {k, l}
         /\ AllDifferent(s) <=> /\ AllDifferent(below) /\ k # l
                                /\ k \notin Elements(below) /\ l \notin Elements(below)
<1> DEFINE n == Len(below)
<1>1. /\ n \in Nat /\ Len(s) = n + 2
      /\ \A i \in 1..n : s[i] = below[i]
      /\ s[n + 1] = k /\ s[n + 2] = l
  BY TopTwo
<1>2. Elements(below) = {below[i] : i \in 1..n}
  BY DEF Elements
<1>3. AllDifferent(below) <=> \A i, j \in 1..n : below[i] = below[j] => i = j
  BY DEF AllDifferent
<1> HIDE DEF n
<1>4. \A i \in 1..n + 2 : i \in 1..n \/ i = n + 1 \/ i = n + 2
  BY <1>1
<1>5. 1..n \subseteq 1..n + 2 /\ n + 1 \in 1..n + 2 /\ n + 2 \in 1..n + 2
  BY <1>1
<1>6. Elements(s) = {s[i] : i \in 1..n + 2}
  BY <1>1 DEF Elements
<1>7. ASSUME NEW m PROVE m \in Elements(s) <=> m \in Elements(below) \/ m = k \/ m = l
  BY <1>1, <1>2, <1>4, <1>5, <1>6
<1>8. ASSUME AllDifferent(s)
      PROVE  /\ AllDifferent(below) /\ k # l
             /\ k \notin Elements(below) /\ l \notin Elements(below)
  <2>1. \A i, j \in 1..n + 2 : s[i] = s[j] => i = j
    BY <1>1, <1>8 DEF AllDifferent
  <2>2. QED
    BY <1>1, <1>2, <1>3, <1>5, <2>1
<1>9. ASSUME /\ AllDifferent(below) /\ k # l
             /\ k \notin Elements(below) /\ l \notin Elements(below),
             NEW i \in 1..n + 2, NEW j \in 1..n + 2, s[i] = s[j]
      PROVE  i = j
  BY <1>1, <1>2, <1>3, <1>4, <1>9
<1>10. (/\ AllDifferent(below) /\ k # l
        /\ k \notin Elements(below) /\ l \notin Elements(below)) => AllDifferent(s)
  BY <1>1, <1>9 DEF AllDifferent
<1>11. QED
  BY <1>7, <1>8, <1>10

\* Loops and conditions stay open when other labels are placed.
LEMMA LoopsStay ==
  ASSUME NEW c \in Constructors, OpenLoops(c), NEW r, r.loops = c.loops, NEW P,
         Placed(r) = Placed(c) \cup P,
         \A l \in P : l.type \notin {"while_start", "while_end"}
  PROVE  OpenLoops(r)
<1>1. c.loops \in Seq(Labels) /\ Len(c.loops) \in Nat
  BY ConstructorFields
<1>2. \A k \in 1..Len(c.loops) : 2 * k <= Len(c.loops) => c.loops[2 * k] \in Elements(c.loops)
  BY <1>1 DEF Elements
<1>3. ASSUME NEW k \in 1..Len(c.loops), 2 * k <= Len(c.loops)
      PROVE  c.loops[2 * k - 1] \in Placed(r) /\ c.loops[2 * k] \notin Placed(r)
  <2>1. c.loops[2 * k] \notin P
    BY <1>2, <1>3 DEF OpenLoops
  <2>2. QED
    BY <1>3, <2>1 DEF OpenLoops
<1>4. QED
  BY <1>3 DEF OpenLoops

LEMMA ConditionsStay ==
  ASSUME NEW c, OpenConditions(c), NEW r, r.conditions = c.conditions, NEW P,
         Placed(r) = Placed(c) \cup P,
         \A l \in P : l.type \notin {"if_end", "if_else"}
  PROVE  OpenConditions(r)
BY DEF OpenConditions

\* More code, with labels of its own that are new, and the stacks as they were.
LEMMA OrderedGrows ==
  ASSUME NEW c \in Constructors, NEW fs, Ordered(c, fs), NEW r, NEW P, NEW M,
         Grows(c, r, P, M), r.label_counter >= c.label_counter,
         r.conditions = c.conditions, r.loops = c.loops,
         r.loops_initial = c.loops_initial,
         \A l \in P : /\ l \in Labels /\ l.type = "declared"
                      /\ l.number >= c.label_counter /\ l.number < r.label_counter,
         M \subseteq P \cup FunctionLabels(fs)
  PROVE  Ordered(r, fs)
<1>1. /\ r \in Constructors /\ c.label_counter \in Nat /\ r.label_counter \in Nat
      /\ c.loops \in Seq(Labels) /\ c.conditions \in Seq(Labels)
  BY ConstructorFields DEF Grows
<1>2. OnStacks(r) = OnStacks(c) /\ Placed(r) = Placed(c) \cup P
      /\ Mentioned(r) \subseteq Mentioned(c) \cup M
  BY DEF OnStacks, Grows
<1>3. Placed(c) \subseteq Labels /\ OnStacks(c) \subseteq Labels /\ P \subseteq Labels
  BY PlacedAreLabels
<1>4. \A l \in P : l \notin Placed(c) /\ l \notin OnStacks(c)
  <2>1. ASSUME NEW l \in P PROVE l \notin Placed(c) /\ l \notin OnStacks(c)
    <3>1. l \in Labels /\ l.number >= c.label_counter /\ l.type # "function"
      OBVIOUS
    <3>2. QED
      BY <3>1, FreshLabel
  <2>2. QED
    BY <2>1
<1>5. AllPlacedOnce(r)
  BY <1>4 DEF Ordered, Grows
<1>6. Numbered(r)
  <2>1. Numbered(c)
    BY DEF Ordered
  <2>2. \A l \in Placed(c) \cup OnStacks(c) : l.number \in Nat
    BY <1>3 DEF Labels
  <2>3. QED
    BY <1>1, <1>2, <2>1, <2>2 DEF Numbered
<1>7. OpenConditions(r)
  <2>1. OpenConditions(c)
    BY DEF Ordered
  <2>2. QED
    BY <1>2, <2>1 DEF OpenConditions
<1>8. OpenLoops(r)
  <2>1. OpenLoops(c)
    BY DEF Ordered
  <2>2. QED
    BY <1>2, <2>1, LoopsStay
<1>9. FunctionsPlaced(r, fs)
  <2>1. FunctionsPlaced(c, fs)
    BY DEF Ordered
  <2>2. QED
    BY <1>2, <2>1, LabelTypes DEF FunctionsPlaced
<1>10. MentionsKnown(r, fs)
  <2>1. MentionsKnown(c, fs)
    BY DEF Ordered
  <2>2. QED
    BY <1>2, <2>1 DEF MentionsKnown
<1>11. OutermostLoop(r)
  <2>1. OutermostLoop(c)
    BY DEF Ordered
  <2>2. Len(c.loops) > 0 => c.loops[1] \in Labels
    BY <1>1
  <2>3. QED
    BY <1>1, <2>1, <2>2 DEF OutermostLoop, Grows
<1>12. Begun(r)
  <2>1. Begun(c)
    BY DEF Ordered
  <2>2. /\ Len(c.main) \in Nat /\ Len(c.buffer) \in Nat
        /\ Len(r.main) \in Nat /\ Len(r.buffer) \in Nat
    BY SMTT(90), <1>1, ConstructorFields
  <2>3. QED
    BY <2>1, <2>2 DEF Begun, Grows
<1>13. QED
  BY <1>5, <1>6, <1>7, <1>8, <1>9, <1>10, <1>11, <1>12 DEF Ordered

\* A statement without labels of its own: the code of the functions it calls is
\* there or will be.
LEMMA OrderedStatement ==
  ASSUME NEW c \in Constructors, NEW fs, Ordered(c, fs), NEW r, NEW M,
         Statement(c, r, M), M \subseteq FunctionLabels(fs)
  PROVE  Ordered(r, fs)
<1>1. Grows(c, r, {}, M) /\ SameStacks(c, r) /\ c.label_counter \in Nat
  BY ConstructorFields DEF Statement
<1>2. QED
  BY <1>1, OrderedGrows DEF SameStacks

\* IF: two fresh labels for the end and the next branch.
LEMMA OrderedIf ==
  ASSUME NEW c \in Constructors, NEW fs, Ordered(c, fs), NEW r,
         NEW end \in Labels, NEW next \in Labels,
         end.type = "if_end", end.number = c.label_counter,
         next.type = "if_else", next.number = c.label_counter + 1,
         Grows(c, r, {}, {next}), r.label_counter = c.label_counter + 2,
         OnTop(r.conditions, c.conditions, end, next), r.loops = c.loops,
         r.loops_initial = c.loops_initial
  PROVE  Ordered(r, fs)
<1>1. /\ r \in Constructors /\ c.label_counter \in Nat /\ r.label_counter \in Nat
      /\ c.loops \in Seq(Labels) /\ c.conditions \in Seq(Labels)
      /\ Len(c.conditions) \in Nat
  BY ConstructorFields DEF Grows
<1>2. Placed(r) = Placed(c) /\ Mentioned(r) \subseteq Mentioned(c) \cup {next}
  BY DEF Grows
<1>3. /\ Elements(r.conditions) = Elements(c.conditions) \cup {end, next}
      /\ AllDifferent(r.conditions) <=>
           /\ AllDifferent(c.conditions) /\ end # next
           /\ end \notin Elements(c.conditions) /\ next \notin Elements(c.conditions)
  BY <1>1, TwoMore
<1>4. /\ end \notin Placed(c) /\ end \notin OnStacks(c)
      /\ next \notin Placed(c) /\ next \notin OnStacks(c) /\ end # next
  BY <1>1, FreshLabel
<1>5. OnStacks(r) = OnStacks(c) \cup {end, next}
  BY <1>3 DEF OnStacks
<1>7. Placed(c) \subseteq Labels /\ OnStacks(c) \subseteq Labels
  BY PlacedAreLabels
<1>8. AllPlacedOnce(r)
  BY DEF Ordered, Grows
<1>9. Numbered(r)
  <2>1. Numbered(c)
    BY DEF Ordered
  <2>2. \A l \in Placed(c) \cup OnStacks(c) : l.number \in Nat
    BY <1>7 DEF Labels
  <2>3. QED
    BY <1>1, <1>2, <1>5, <2>1, <2>2 DEF Numbered
<1>10. OpenConditions(r)
  <2>1. OpenConditions(c)
    BY DEF Ordered
  <2>2. QED
    BY <1>2, <1>3, <1>4, <2>1 DEF OpenConditions, OnStacks
<1>11. OpenLoops(r)
  <2>1. OpenLoops(c)
    BY DEF Ordered
  <2>2. QED
    BY <1>2, <2>1, LoopsStay
<1>12. FunctionsPlaced(r, fs)
  BY <1>2 DEF Ordered, FunctionsPlaced
<1>13. MentionsKnown(r, fs)
  <2>1. MentionsKnown(c, fs)
    BY DEF Ordered
  <2>2. QED
    BY <1>2, <1>5, <2>1 DEF MentionsKnown
<1>14. OutermostLoop(r)
  <2>1. OutermostLoop(c)
    BY DEF Ordered
  <2>2. Len(c.loops) > 0 => c.loops[1] \in Labels
    BY <1>1
  <2>3. QED
    BY <1>1, <2>1, <2>2 DEF OutermostLoop, Grows
<1>15. Begun(r)
  <2>1. Begun(c)
    BY DEF Ordered
  <2>2. /\ Len(c.main) \in Nat /\ Len(c.buffer) \in Nat
        /\ Len(r.main) \in Nat /\ Len(r.buffer) \in Nat
    BY SMTT(90), <1>1, ConstructorFields
  <2>3. QED
    BY <2>1, <2>2 DEF Begun, Grows
<1>16. QED
  BY <1>8, <1>9, <1>10, <1>11, <1>12, <1>13, <1>14, <1>15 DEF Ordered

\* What does not depend on the stacks of labels.
Pairs(stack, n) == Len(stack) = 2 * n

LEMMA BegunStays ==
  ASSUME NEW c \in Constructors, Begun(c), NEW r, NEW P, NEW M, Grows(c, r, P, M)
  PROVE  Begun(r)
<1>1. r \in Constructors
  BY DEF Grows
<1>2. /\ c.main \in Seq(Instructions) /\ c.buffer \in Seq(Instructions)
      /\ r.main \in Seq(Instructions) /\ r.buffer \in Seq(Instructions)
  BY <1>1, ConstructorFields
<1>3. /\ Len(c.main) \in Nat /\ Len(c.buffer) \in Nat
      /\ Len(r.main) \in Nat /\ Len(r.buffer) \in Nat
  BY <1>2
<1>4. QED
  BY <1>3 DEF Begun, Grows

LEMMA OutermostStays ==
  ASSUME NEW c \in Constructors, OutermostLoop(c), NEW r, NEW P, NEW M,
         Grows(c, r, P, M), r.loops_initial = c.loops_initial, r.loops = c.loops
  PROVE  OutermostLoop(r)
<1>1. r \in Constructors /\ c.loops \in Seq(Labels)
  BY ConstructorFields DEF Grows
<1>2. Len(c.loops) > 0 => c.loops[1] \in Labels
  BY <1>1
<1>3. QED
  BY <1>1, <1>2 DEF OutermostLoop, Grows

\* ELSEIF and ELSE: the label of the branch is placed, a fresh one takes its
\* place on the stack.
LEMMA OrderedNextBranch ==
  ASSUME NEW c \in Constructors, NEW fs, Ordered(c, fs), NEW r,
         NEW below \in Seq(Labels), NEW end \in Labels, NEW next \in Labels,
         OnTop(c.conditions, below, end, next),
         NEW fresh \in Labels, fresh.type = "if_else", fresh.number = c.label_counter,
         Grows(c, r, {next}, {end, next, fresh} \cup FunctionLabels(fs)),
         r.label_counter = c.label_counter + 1,
         OnTop(r.conditions, below, end, fresh), r.loops = c.loops,
         r.loops_initial = c.loops_initial
  PROVE  Ordered(r, fs)
<1>1. /\ r \in Constructors /\ c.label_counter \in Nat /\ r.label_counter \in Nat
  BY ConstructorFields DEF Grows
<1>2. /\ Placed(r) = Placed(c) \cup {next}
      /\ Mentioned(r) \subseteq Mentioned(c) \cup {end, next, fresh} \cup FunctionLabels(fs)
  BY DEF Grows
<1>3. /\ Elements(c.conditions) = Elements(below) \cup {end, next}
      /\ AllDifferent(c.conditions) <=>
           /\ AllDifferent(below) /\ end # next
           /\ end \notin Elements(below) /\ next \notin Elements(below)
  BY TwoMore
<1>4. /\ Elements(r.conditions) = Elements(below) \cup {end, fresh}
      /\ AllDifferent(r.conditions) <=>
           /\ AllDifferent(below) /\ end # fresh
           /\ end \notin Elements(below) /\ fresh \notin Elements(below)
  BY TwoMore
<1>5. /\ fresh \notin Placed(c) /\ fresh \notin OnStacks(c)
  BY <1>1, FreshLabel
<1>6. OnStacks(r) \subseteq OnStacks(c) \cup {fresh}
      /\ OnStacks(c) \subseteq OnStacks(r) \cup {next}
  BY <1>3, <1>4 DEF OnStacks
<1>7. Placed(c) \subseteq Labels /\ OnStacks(c) \subseteq Labels
  BY PlacedAreLabels
<1>8. OpenConditions(c) /\ Numbered(c) /\ OpenLoops(c) /\ FunctionsPlaced(c, fs)
      /\ MentionsKnown(c, fs) /\ OutermostLoop(c) /\ Begun(c) /\ AllPlacedOnce(c)
  BY DEF Ordered
<1>9. next \notin Placed(c) /\ next.type \in {"if_end", "if_else"}
      /\ end \notin Placed(c) /\ end # next
  BY <1>3, <1>8 DEF OpenConditions
<1>10. AllPlacedOnce(r)
  BY <1>8, <1>9 DEF Grows
<1>11. Numbered(r)
  <2>1. \A l \in Placed(c) \cup OnStacks(c) : l.number \in Nat
    BY <1>7 DEF Labels
  <2>2. next \in OnStacks(c)
    BY <1>3 DEF OnStacks
  <2>3. QED
    BY <1>1, <1>2, <1>6, <1>8, <2>1, <2>2 DEF Numbered
<1>12. OpenConditions(r)
  <2>1. AllDifferent(r.conditions)
    BY <1>3, <1>4, <1>5, <1>8 DEF OpenConditions, OnStacks
  <2>2. \A l \in Elements(r.conditions) :
          l.type \in {"if_end", "if_else"} /\ l \notin Placed(r)
    BY <1>2, <1>3, <1>4, <1>5, <1>8, <1>9 DEF OpenConditions, OnStacks
  <2>3. QED
    BY <2>1, <2>2 DEF OpenConditions
<1>13. OpenLoops(r)
  BY <1>2, <1>8, <1>9, LoopsStay
<1>14. FunctionsPlaced(r, fs)
  BY <1>2, <1>8, <1>9, LabelTypes DEF FunctionsPlaced
<1>15. MentionsKnown(r, fs)
  <2>1. end \in OnStacks(r) /\ fresh \in OnStacks(r)
    BY <1>4 DEF OnStacks
  <2>2. QED
    BY <1>2, <1>6, <1>8, <2>1 DEF MentionsKnown
<1>16. OutermostLoop(r) /\ Begun(r)
  BY <1>8, OutermostStays, BegunStays
<1>17. QED
  BY <1>10, <1>11, <1>12, <1>13, <1>14, <1>15, <1>16 DEF Ordered

\* END IF places both labels of the condition.
LEMMA OrderedEndIf ==
  ASSUME NEW c \in Constructors, NEW fs, Ordered(c, fs), NEW r,
         NEW below \in Seq(Labels), NEW end \in Labels, NEW next \in Labels,
         OnTop(c.conditions, below, end, next),
         Grows(c, r, {end, next}, {end, next}),
         r.label_counter = c.label_counter,
         r.conditions = below, r.loops = c.loops,
         r.loops_initial = c.loops_initial
  PROVE  Ordered(r, fs)
<1>1. /\ r \in Constructors /\ c.label_counter \in Nat
  BY ConstructorFields DEF Grows
<1>2. /\ Placed(r) = Placed(c) \cup {end, next}
      /\ Mentioned(r) \subseteq Mentioned(c) \cup {end, next}
  BY DEF Grows
<1>3. /\ Elements(c.conditions) = Elements(below) \cup {end, next}
      /\ AllDifferent(c.conditions) <=>
           /\ AllDifferent(below) /\ end # next
           /\ end \notin Elements(below) /\ next \notin Elements(below)
  BY TwoMore
<1>4. OnStacks(r) \subseteq OnStacks(c) /\ OnStacks(c) \subseteq OnStacks(r) \cup {end, next}
      /\ {end, next} \subseteq OnStacks(c)
  BY <1>3 DEF OnStacks
<1>5. OpenConditions(c) /\ Numbered(c) /\ OpenLoops(c) /\ FunctionsPlaced(c, fs)
      /\ MentionsKnown(c, fs) /\ OutermostLoop(c) /\ Begun(c) /\ AllPlacedOnce(c)
  BY DEF Ordered
<1>6. /\ next \notin Placed(c) /\ next.type \in {"if_end", "if_else"}
      /\ end \notin Placed(c) /\ end.type \in {"if_end", "if_else"}
  BY <1>3, <1>5 DEF OpenConditions
<1>7. AllPlacedOnce(r)
  BY <1>5, <1>6 DEF Grows
<1>8. Numbered(r)
  BY <1>1, <1>2, <1>4, <1>5 DEF Numbered
<1>9. OpenConditions(r)
  BY <1>2, <1>3, <1>5 DEF OpenConditions
<1>10. OpenLoops(r)
  BY <1>2, <1>5, <1>6, LoopsStay
<1>11. FunctionsPlaced(r, fs)
  BY <1>2, <1>5, <1>6, LabelTypes DEF FunctionsPlaced
<1>12. MentionsKnown(r, fs)
  BY <1>2, <1>4, <1>5 DEF MentionsKnown
<1>13. OutermostLoop(r) /\ Begun(r)
  BY <1>5, OutermostStays, BegunStays
<1>14. QED
  BY <1>7, <1>8, <1>9, <1>10, <1>11, <1>12, <1>13 DEF Ordered

\* DO WHILE: the label of its start is placed, that of its end will be.
LEMMA OrderedWhile ==
  ASSUME NEW c \in Constructors, NEW fs, Ordered(c, fs), NEW r,
         NEW start \in Labels, start.type = "while_start", start.number = c.label_counter,
         NEW end \in Labels, end.type = "while_end", end.number = c.label_counter + 1,
         Grows(c, r, {start}, {start, end} \cup FunctionLabels(fs)),
         HasPlace(r, start), r.label_counter = c.label_counter + 2,
         r.conditions = c.conditions, OnTop(r.loops, c.loops, start, end),
         NEW n \in Nat, Pairs(c.loops, n),
         r.loops_initial = IF n = 0 THEN start ELSE c.loops_initial
  PROVE  Ordered(r, fs)
<1>1. /\ r \in Constructors /\ c.label_counter \in Nat /\ r.label_counter \in Nat
      /\ c.loops \in Seq(Labels)
  BY ConstructorFields DEF Grows
<1>2. /\ Placed(r) = Placed(c) \cup {start}
      /\ Mentioned(r) \subseteq Mentioned(c) \cup {start, end} \cup FunctionLabels(fs)
  BY DEF Grows
<1>3. /\ Elements(r.loops) = Elements(c.loops) \cup {start, end}
      /\ AllDifferent(r.loops) <=>
           /\ AllDifferent(c.loops) /\ start # end
           /\ start \notin Elements(c.loops) /\ end \notin Elements(c.loops)
  BY <1>1, TwoMore
<1>4. /\ start \notin Placed(c) /\ start \notin OnStacks(c)
      /\ end \notin Placed(c) /\ end \notin OnStacks(c) /\ start # end
  BY <1>1, FreshLabel
<1>5. OnStacks(r) = OnStacks(c) \cup {start, end}
  BY <1>3 DEF OnStacks
<1>6. OpenConditions(c) /\ Numbered(c) /\ OpenLoops(c) /\ FunctionsPlaced(c, fs)
      /\ MentionsKnown(c, fs) /\ OutermostLoop(c) /\ Begun(c) /\ AllPlacedOnce(c)
  BY DEF Ordered
<1>7. Placed(c) \subseteq Labels /\ OnStacks(c) \subseteq Labels
  BY PlacedAreLabels
<1>8. AllPlacedOnce(r)
  BY <1>4, <1>6 DEF Grows
<1>9. Numbered(r)
  <2>1. \A l \in Placed(c) \cup OnStacks(c) : l.number \in Nat
    BY <1>7 DEF Labels
  <2>2. QED
    BY <1>1, <1>2, <1>5, <1>6, <2>1 DEF Numbered
<1>10. OpenConditions(r)
  BY <1>2, <1>6, ConditionsStay
<1>11. /\ Len(r.loops) = 2 * n + 2
       /\ \A i \in 1..2 * n : r.loops[i] = c.loops[i]
       /\ r.loops[2 * n + 1] = start /\ r.loops[2 * n + 2] = end
  <2>1. /\ Len(r.loops) = Len(c.loops) + 2
        /\ \A i \in 1..Len(c.loops) : r.loops[i] = c.loops[i]
        /\ r.loops[Len(c.loops) + 1] = start /\ r.loops[Len(c.loops) + 2] = end
    BY SMTT(90), <1>1, TopTwo
  <2>2. QED
    BY <2>1 DEF Pairs
<1>12. OpenLoops(r)
  <2>1. AllDifferent(r.loops)
    BY <1>3, <1>4, <1>6 DEF OpenLoops, OnStacks
  <2>2. \A l \in Elements(r.loops) : l.type \in {"while_start", "while_end"}
    BY <1>3, <1>6 DEF OpenLoops
  <2>3. ASSUME NEW k \in 1..Len(r.loops), 2 * k <= Len(r.loops)
        PROVE  r.loops[2 * k - 1] \in Placed(r) /\ r.loops[2 * k] \notin Placed(r)
    <3>1. CASE k = n + 1
      BY <1>2, <1>4, <1>11, <3>1
    <3>2. CASE k <= n
      <4>1. k \in 1..2 * n /\ 2 * k <= 2 * n /\ 2 * k \in 1..2 * n /\ 2 * k - 1 \in 1..2 * n
        BY <1>11, <3>2
      <4>2. c.loops[2 * k - 1] \in Placed(c) /\ c.loops[2 * k] \notin Placed(c)
        BY <1>6, <4>1 DEF OpenLoops, Pairs
      <4>3. c.loops[2 * k] \in OnStacks(c)
        BY <4>1 DEF OnStacks, Elements, Pairs
      <4>4. r.loops[2 * k - 1] = c.loops[2 * k - 1] /\ r.loops[2 * k] = c.loops[2 * k]
        BY <1>11, <4>1
      <4>5. QED
        BY <1>2, <1>4, <4>2, <4>3, <4>4
    <3>3. QED
      BY <1>11, <2>3, <3>1, <3>2
  <2>4. QED
    BY <2>1, <2>2, <2>3 DEF OpenLoops
<1>13. FunctionsPlaced(r, fs)
  BY <1>2, <1>6, LabelTypes DEF FunctionsPlaced
<1>14. MentionsKnown(r, fs)
  BY <1>2, <1>5, <1>6 DEF MentionsKnown
<1>15. OutermostLoop(r)
  <2>1. CASE n = 0
    BY <1>11, <2>1 DEF OutermostLoop, Pairs
  <2>2. CASE n > 0
    <3>1. 1 \in 1..2 * n /\ Len(c.loops) # 0 /\ Len(r.loops) # 0
      BY <1>11, <2>2 DEF Pairs
    <3>2. r.loops[1] = c.loops[1] /\ c.loops[1] \in Labels
      BY <1>1, <1>11, <3>1
    <3>3. c.loops_initial = c.loops[1] /\ HasPlace(c, c.loops[1])
      BY <1>6, <3>1 DEF OutermostLoop
    <3>4. r.loops_initial = c.loops_initial /\ HasPlace(r, c.loops[1])
      BY <2>2, <3>2, <3>3 DEF Grows
    <3>5. QED
      BY <3>1, <3>2, <3>3, <3>4 DEF OutermostLoop
  <2>3. QED
    BY <2>1, <2>2
<1>16. Begun(r)
  BY <1>6, BegunStays
<1>17. QED
  BY <1>8, <1>9, <1>10, <1>12, <1>13, <1>14, <1>15, <1>16 DEF Ordered

\* LOOP places the label of the loop's end and forgets both.
LEMMA OrderedLoop ==
  ASSUME NEW c \in Constructors, NEW fs, Ordered(c, fs), NEW r,
         NEW below \in Seq(Labels), NEW start \in Labels, NEW end \in Labels,
         OnTop(c.loops, below, start, end),
         Grows(c, r, {end}, {start, end}),
         r.label_counter = c.label_counter,
         r.conditions = c.conditions, r.loops = below,
         NEW n \in Nat, Pairs(below, n),
         r.loops_initial = IF n = 0 THEN NoLabel ELSE c.loops_initial
  PROVE  Ordered(r, fs)
<1>1. /\ r \in Constructors /\ c.label_counter \in Nat
  BY ConstructorFields DEF Grows
<1>2. /\ Placed(r) = Placed(c) \cup {end}
      /\ Mentioned(r) \subseteq Mentioned(c) \cup {start, end}
  BY DEF Grows
<1>3. /\ Elements(c.loops) = Elements(below) \cup {start, end}
      /\ AllDifferent(c.loops) <=>
           /\ AllDifferent(below) /\ start # end
           /\ start \notin Elements(below) /\ end \notin Elements(below)
  BY TwoMore
<1>4. /\ Len(c.loops) = 2 * n + 2
      /\ \A i \in 1..2 * n : c.loops[i] = below[i]
      /\ c.loops[2 * n + 1] = start /\ c.loops[2 * n + 2] = end
  <2>1. /\ Len(c.loops) = Len(below) + 2
        /\ \A i \in 1..Len(below) : c.loops[i] = below[i]
        /\ c.loops[Len(below) + 1] = start /\ c.loops[Len(below) + 2] = end
    BY TopTwo
  <2>2. QED
    BY <2>1 DEF Pairs
<1>5. OpenConditions(c) /\ Numbered(c) /\ OpenLoops(c) /\ FunctionsPlaced(c, fs)
      /\ MentionsKnown(c, fs) /\ OutermostLoop(c) /\ Begun(c) /\ AllPlacedOnce(c)
  BY DEF Ordered
<1>6. start \in Placed(c) /\ end \notin Placed(c) /\ end.type \in {"while_start", "while_end"}
  <2>1. n + 1 \in 1..Len(c.loops) /\ 2 * (n + 1) <= Len(c.loops)
    <3> DEFINE m == Len(c.loops)
    <3>1. m = 2 * n + 2
      BY <1>4
    <3> HIDE DEF m
    <3>2. n + 1 \in 1..m /\ 2 * (n + 1) <= m
      BY <3>1
    <3>3. QED
      BY <3>2 DEF m
  <2>4. 2 * (n + 1) - 1 = 2 * n + 1 /\ 2 * (n + 1) = 2 * n + 2
    OBVIOUS
  <2>2. c.loops[2 * (n + 1) - 1] \in Placed(c) /\ c.loops[2 * (n + 1)] \notin Placed(c)
    BY <1>5, <2>1 DEF OpenLoops
  <2>3. QED
    BY <1>3, <1>4, <1>5, <2>4, <2>2 DEF OpenLoops
<1>7. OnStacks(r) \subseteq OnStacks(c) /\ OnStacks(c) \subseteq OnStacks(r) \cup {start, end}
      /\ {start, end} \subseteq OnStacks(c)
  BY <1>3 DEF OnStacks
<1>8. AllPlacedOnce(r)
  BY <1>5, <1>6 DEF Grows
<1>9. Numbered(r)
  BY <1>1, <1>2, <1>5, <1>7 DEF Numbered
<1>10. OpenConditions(r)
  BY <1>2, <1>5, <1>6, ConditionsStay
<1>11. OpenLoops(r)
  <2>1. AllDifferent(r.loops)
    BY <1>3, <1>5 DEF OpenLoops
  <2>2. \A l \in Elements(r.loops) : l.type \in {"while_start", "while_end"}
    BY <1>3, <1>5 DEF OpenLoops
  <2>3. ASSUME NEW k \in 1..Len(r.loops), 2 * k <= Len(r.loops)
        PROVE  r.loops[2 * k - 1] \in Placed(r) /\ r.loops[2 * k] \notin Placed(r)
    <3>1. k \in 1..Len(c.loops) /\ 2 * k <= Len(c.loops)
          /\ 2 * k \in 1..2 * n /\ 2 * k - 1 \in 1..2 * n
      BY <1>4, <2>3, SMTT(90) DEF Pairs
    <3>2. c.loops[2 * k - 1] \in Placed(c) /\ c.loops[2 * k] \notin Placed(c)
      BY <1>5, <3>1 DEF OpenLoops
    <3>3. r.loops[2 * k - 1] = c.loops[2 * k - 1] /\ r.loops[2 * k] = c.loops[2 * k]
      BY <1>4, <3>1
    <3>4. r.loops[2 * k] \in Elements(below)
      BY <3>1 DEF Elements, Pairs
    <3>5. QED
      BY <1>2, <1>3, <1>5, <3>2, <3>3, <3>4 DEF OpenLoops
  <2>4. QED
    BY <2>1, <2>2, <2>3 DEF OpenLoops
<1>12. FunctionsPlaced(r, fs)
  BY <1>2, <1>5, <1>6, LabelTypes DEF FunctionsPlaced
<1>13. MentionsKnown(r, fs)
  BY <1>2, <1>5, <1>6, <1>7 DEF MentionsKnown
<1>14. OutermostLoop(r)
  <2>1. CASE n = 0
    BY <2>1 DEF OutermostLoop, Pairs
  <2>2. CASE n > 0
    <3>1. 1 \in 1..2 * n /\ Len(c.loops) # 0 /\ Len(r.loops) # 0
      BY <1>4, <2>2 DEF Pairs
    <3>2. r.loops[1] = c.loops[1] /\ c.loops[1] \in Labels
      BY <1>4, <3>1
    <3>3. c.loops_initial = c.loops[1] /\ HasPlace(c, c.loops[1])
      BY <1>5, <3>1 DEF OutermostLoop
    <3>4. r.loops_initial = c.loops_initial /\ HasPlace(r, c.loops[1])
      BY <2>2, <3>2, <3>3 DEF Grows
    <3>5. QED
      BY <3>1, <3>2, <3>3, <3>4 DEF OutermostLoop
  <2>3. QED
    BY <2>1, <2>2
<1>15. Begun(r)
  BY <1>5, BegunStays
<1>16. QED
  BY <1>8, <1>9, <1>10, <1>11, <1>12, <1>13, <1>14, <1>15 DEF Ordered

\* A function is declared: its label may be mentioned from here.
LEMMA OrderedDeclared ==
  ASSUME NEW c, NEW fs, Ordered(c, fs), NEW gs,
         \A f \in Names : /\ fs[f].status # "none" => gs[f].status # "none"
                          /\ gs[f].status = "defined" <=> fs[f].status = "defined"
  PROVE  Ordered(c, gs)
<1>1. FunctionLabels(fs) \subseteq FunctionLabels(gs)
  BY DEF FunctionLabels
<1>2. MentionsKnown(c, gs)
  BY <1>1 DEF Ordered, MentionsKnown
<1>3. FunctionsPlaced(c, gs)
  BY DEF Ordered, FunctionsPlaced
<1>4. QED
  BY <1>2, <1>3 DEF Ordered

\* Nothing is open: what holds when the parser goes from one list to the other.
NothingOpen(c) == Len(c.conditions) = 0 /\ Len(c.loops) = 0

LEMMA OrderedElsewhere ==
  ASSUME NEW c \in Constructors, NEW fs, Ordered(c, fs), NothingOpen(c),
         NEW r \in Constructors, SameStacks(c, r), NEW P, NEW M, NEW gs,
         Placed(r) = Placed(c) \cup P, Mentioned(r) \subseteq Mentioned(c) \cup M,
         M \subseteq P, \A l \in P : l.type = "function",
         AllPlacedOnce(r), Len(r.main) >= Len(c.main),
         r.to_buffer => Len(r.buffer) > 0,
         FunctionsPlaced(r, gs), FunctionLabels(fs) \subseteq FunctionLabels(gs)
  PROVE  Ordered(r, gs) /\ NothingOpen(r)
<1>1. r.conditions = c.conditions /\ r.loops = c.loops
      /\ r.label_counter = c.label_counter /\ r.loops_initial = c.loops_initial
  BY DEF SameStacks
<1>2. NothingOpen(r) /\ OnStacks(r) = OnStacks(c)
  BY <1>1 DEF NothingOpen, OnStacks
<1>3. /\ Elements(r.conditions) = {} /\ Elements(r.loops) = {}
      /\ AllDifferent(r.conditions) /\ AllDifferent(r.loops)
  BY <1>2 DEF NothingOpen, Elements, AllDifferent
<1>4. OpenConditions(c) /\ Numbered(c) /\ OpenLoops(c) /\ FunctionsPlaced(c, fs)
      /\ MentionsKnown(c, fs) /\ OutermostLoop(c) /\ Begun(c) /\ AllPlacedOnce(c)
  BY DEF Ordered
<1>5. Numbered(r)
  BY <1>1, <1>2, <1>4 DEF Numbered
<1>6. OpenConditions(r)
  BY <1>3 DEF OpenConditions
<1>7. OpenLoops(r)
  BY <1>2, <1>3 DEF OpenLoops, NothingOpen
<1>8. MentionsKnown(r, gs)
  BY <1>2, <1>4 DEF MentionsKnown
<1>9. OutermostLoop(r)
  BY <1>1, <1>4, <1>2 DEF OutermostLoop, NothingOpen
<1>10. Begun(r)
  <2>1. c.main \in Seq(Instructions) /\ r.main \in Seq(Instructions)
    BY ConstructorFields
  <2>2. Len(c.main) \in Nat /\ Len(r.main) \in Nat
    BY <2>1
  <2>3. QED
    BY <1>4, <2>2 DEF Begun
<1>11. QED
  BY <1>2, <1>5, <1>6, <1>7, <1>8, <1>9, <1>10 DEF Ordered

\* The definition of a function: its label is placed, at most once.
LEMMA OrderedHeader ==
  ASSUME NEW c \in Constructors, NEW fs, Ordered(c, fs), NothingOpen(c),
         NEW f \in Names, fs[f].status # "defined", NEW gs,
         gs[f].status = "defined", \A g \in Names \ {f} : gs[g] = fs[g],
         NEW r, r = FunctionHeader(c, f)
  PROVE  /\ Ordered(r, gs) /\ NothingOpen(r) /\ SameStacks(c, r)
         /\ r \in Constructors /\ r.to_buffer
<1>1. /\ r \in Constructors /\ SameStacks(c, r) /\ r.to_buffer
      /\ Len(r.main) >= Len(c.main) /\ Len(r.buffer) > 0
      /\ Placed(r) = Placed(c) \cup {FunctionLabel(f)}
      /\ Mentioned(r) \subseteq Mentioned(c) \cup {FunctionLabel(f)}
      /\ AllPlacedOnce(c) /\ FunctionLabel(f) \notin Placed(c) => AllPlacedOnce(r)
  BY HeaderEffect
<1>2. FunctionsPlaced(c, fs) /\ AllPlacedOnce(c)
  BY DEF Ordered
<1>3. AllPlacedOnce(r)
  BY <1>1, <1>2 DEF FunctionsPlaced
<1>4. FunctionsPlaced(r, gs)
  <2>1. ASSUME NEW g \in Names
        PROVE  FunctionLabel(g) \in Placed(r) <=> gs[g].status = "defined"
    <3>1. CASE g = f
      BY <1>1, <3>1
    <3>2. CASE g # f
      BY <1>1, <1>2, <3>2, LabelTypes DEF FunctionsPlaced
    <3>3. QED
      BY <3>1, <3>2
  <2>2. QED
    BY <2>1 DEF FunctionsPlaced
<1>5. FunctionLabels(fs) \subseteq FunctionLabels(gs)
  <2>1. \A g \in Names : fs[g].status # "none" => gs[g].status # "none"
    OBVIOUS
  <2>2. QED
    BY <2>1 DEF FunctionLabels
<1>6. FunctionLabel(f).type = "function"
  BY LabelTypes
<1>7. Ordered(r, gs) /\ NothingOpen(r)
  BY <1>1, <1>3, <1>4, <1>5, <1>6, OrderedElsewhere
<1>8. QED
  BY <1>1, <1>7

LEMMA OrderedFunctionEnd ==
  ASSUME NEW c \in Constructors, NEW fs, Ordered(c, fs), NothingOpen(c),
         NEW r, r = FunctionEnd(c)
  PROVE  /\ Ordered(r, fs) /\ NothingOpen(r) /\ SameStacks(c, r)
         /\ r \in Constructors /\ ~r.to_buffer
<1>1. /\ r \in Constructors /\ SameStacks(c, r) /\ ~r.to_buffer
      /\ Len(r.main) >= Len(c.main)
      /\ Placed(r) = Placed(c) /\ Mentioned(r) \subseteq Mentioned(c)
      /\ AllPlacedOnce(c) => AllPlacedOnce(r)
  BY FunctionEndEffect
<1>2. FunctionsPlaced(c, fs) /\ AllPlacedOnce(c)
  BY DEF Ordered
<1>3. FunctionsPlaced(r, fs)
  BY <1>1, <1>2 DEF FunctionsPlaced
<1> DEFINE none == {}
<1>4. /\ Placed(r) = Placed(c) \cup none /\ Mentioned(r) \subseteq Mentioned(c) \cup none
      /\ none \subseteq none /\ \A l \in none : l.type = "function"
      /\ FunctionLabels(fs) \subseteq FunctionLabels(fs)
  BY <1>1
<1> HIDE DEF none
<1>5. Ordered(r, fs) /\ NothingOpen(r)
  BY <1>1, <1>2, <1>3, <1>4, OrderedElsewhere
<1>6. QED
  BY <1>1, <1>5

\* The end of the program: what is mentioned is placed, once, in one list.
Resolved(code) ==
  /\ PlacedOnce(code)
  /\ MentionedIn(code) \subseteq PlacedIn(code)

LEMMA EndCodeResolved ==
  ASSUME NEW c \in Constructors, NEW fs, Ordered(c, fs), NothingOpen(c),
         ~c.to_buffer, \A f \in Names : fs[f].status \in {"none", "defined"},
         NEW r, r = EndCode(c)
  PROVE  /\ r \in Constructors /\ Resolved(r.main) /\ NothingOpen(r)
         /\ r.loops_initial = NoLabel
         /\ r.control_statement_depth = c.control_statement_depth
         /\ r.scope_depth = c.scope_depth /\ r.code_labels = c.code_labels
         /\ r.loops_depth = c.loops_depth
<1> DEFINE end == Label(c, "main_scope")
<1>1. end \in Labels /\ end.type = "main_scope" /\ end.number = c.label_counter
      /\ c.label_counter \in Nat
  BY LabelType, ConstructorFields
<1>2. end \notin Placed(c)
  <2> HIDE DEF end
  <2>1. QED
    BY <1>1, FreshLabel
<1>3. AllPlacedOnce(c) /\ MentionsKnown(c, fs) /\ FunctionsPlaced(c, fs) /\ OutermostLoop(c)
  BY DEF Ordered
<1>4. /\ r \in Constructors
      /\ PlacedIn(r.main) = Placed(c) \cup {end} /\ PlacedOnce(r.main)
      /\ MentionedIn(r.main) \subseteq Mentioned(c) \cup {end}
      /\ r.control_statement_depth = c.control_statement_depth
      /\ r.scope_depth = c.scope_depth /\ r.code_labels = c.code_labels
      /\ r.conditions = c.conditions /\ r.loops = c.loops
      /\ r.loops_depth = c.loops_depth /\ r.loops_initial = c.loops_initial
  BY <1>2, <1>3, EndCodeEffect
<1> HIDE DEF end
<1>5. OnStacks(c) = {}
  BY DEF OnStacks, Elements, NothingOpen
<1>6. FunctionLabels(fs) \subseteq Placed(c)
  BY <1>3 DEF FunctionLabels, FunctionsPlaced
<1>7. MentionedIn(r.main) \subseteq PlacedIn(r.main)
  BY <1>3, <1>4, <1>5, <1>6 DEF MentionsKnown
<1>8. r.loops_initial = NoLabel
  BY <1>3, <1>4 DEF OutermostLoop, NothingOpen
<1>9. QED
  BY <1>4, <1>7, <1>8 DEF Resolved, NothingOpen

-----------------------------------------------------------------------------
(* What each construct does to the blocks and to what is held for them.    *)

Sound(c, b, fs) == c \in Constructors /\ Balanced(c, b) /\ Ordered(c, fs)

SameRules(b, d) == Len(b) = Len(d) /\ \A i \in 1..Len(b) : b[i].rule = d[i].rule

\* One block more than b.
Adds(b, d, rule) ==
  /\ Len(b) \in Nat /\ Len(d) = Len(b) + 1
  /\ \A i \in 1..Len(b) : b[i].rule = d[i].rule
  /\ d[Len(b) + 1].rule = rule

LEMMA CountAdds ==
  ASSUME NEW b, NEW d, NEW rule, Adds(b, d, rule)
  PROVE  /\ Count(b, Branches) \in Nat /\ Count(b, {"while"}) \in Nat
         /\ Count(b, {"scope"}) \in Nat
         /\ Count(d, Branches) = Count(b, Branches) + (IF rule \in Branches THEN 1 ELSE 0)
         /\ Count(d, {"while"}) = Count(b, {"while"}) + (IF rule = "while" THEN 1 ELSE 0)
         /\ Count(d, {"scope"}) = Count(b, {"scope"}) + (IF rule = "scope" THEN 1 ELSE 0)
<1>1. Len(b) \in Nat /\ Len(d) = Len(b) + 1 /\ d[Len(b) + 1].rule = rule
      /\ \A i \in 1..Len(b) : b[i].rule = d[i].rule
  BY DEF Adds
<1>2. \A rules : Count(b, rules) \in Nat
  BY <1>1, CountType
<1>3. \A rules : Count(d, rules) =
           Count(b, rules) + (IF d[Len(b) + 1].rule \in rules THEN 1 ELSE 0)
  BY <1>1, CountMore
<1>4. \A x : rule \in {x} <=> rule = x
  OBVIOUS
<1>5. QED
  BY <1>1, <1>2, <1>3, <1>4

LEMMA BalancedSame ==
  ASSUME NEW c, NEW b, Balanced(c, b), NEW d, SameRules(b, d),
         NEW r, r.code_labels = c.code_labels, r.conditions = c.conditions,
         r.loops = c.loops, r.loops_depth = c.loops_depth,
         r.scope_depth = c.scope_depth,
         r.control_statement_depth = c.control_statement_depth
  PROVE  Balanced(r, d)
<1>1. \A rules : Count(b, rules) = Count(d, rules)
  BY CountSame DEF SameRules
<1>2. QED
  BY <1>1 DEF Balanced

LEMMA StatementSound ==
  ASSUME NEW b, NEW fs, NEW c, Sound(c, b, fs), NEW d, SameRules(b, d),
         NEW r, NEW M, Statement(c, r, M), M \subseteq FunctionLabels(fs)
  PROVE  Sound(r, d, fs) /\ r.to_buffer = c.to_buffer
<1>1. c \in Constructors /\ Balanced(c, b) /\ Ordered(c, fs)
  BY DEF Sound
<1>2. r \in Constructors /\ r.to_buffer = c.to_buffer /\ SameStacks(c, r)
  BY DEF Statement, Grows
<1>3. Ordered(r, fs)
  BY <1>1, OrderedStatement
<1>4. Balanced(r, d)
  BY <1>1, <1>2, BalancedSame DEF SameStacks
<1>5. QED
  BY <1>2, <1>3, <1>4 DEF Sound

\* The code of an expression.
LEMMA EmitExpression ==
  ASSUME NEW c \in Constructors, NEW fs, NEW code \in Seq(ExpressionCode(fs))
  PROVE  Statement(c, Emit(c, code), FunctionLabels(fs))
<1>1. code \in Seq(Instructions)
  BY DEF ExpressionCode
<1>2. \A i \in DOMAIN code : code[i] \in ExpressionCode(fs)
  OBVIOUS
<1>3. \A i \in DOMAIN code : code[i].op # "LABEL"
  BY <1>2 DEF ExpressionCode, JumpOps
<1>4. MentionedIn(code) \subseteq FunctionLabels(fs)
  BY <1>2 DEF ExpressionCode, MentionedIn, FunctionLabels
<1>5. Statement(c, Emit(c, code), MentionedIn(code))
  BY <1>1, <1>3, EmitStatement
<1>6. QED
  BY <1>4, <1>5 DEF Statement, Grows

\* A declaration without an initialiser has an expression of no reductions.
LEMMA NoInitialiser ==
  ASSUME NEW stack, NEW frames, NEW fs
  PROVE  Expression(<< >>, stack, frames, fs) = NoExpression
<1> DEFINE Law(h) == [i \in 0..Len(<< >>) |->
                        IF i = 0 THEN NoExpression
                        ELSE Reduce(h[i - 1], stack, frames, fs, (<< >>)[i])]
           after == CHOOSE h : h = Law(h)
           only == [i \in {0} |-> NoExpression]
<1>1. Expression(<< >>, stack, frames, fs) = after[Len(<< >>)]
  BY DEF Expression
<1>2. 0..Len(<< >>) = {0}
  OBVIOUS
<1>3. only = Law(only)
  BY <1>2, Zenon
<1>4. after = Law(after)
  BY <1>3
<1> HIDE DEF after
<1>5. after[0] = NoExpression
  <2>1. after[0] = Law(after)[0]
    BY <1>4
  <2>2. 0 \in 0..Len(<< >>)
    BY <1>2
  <2>3. Law(after)[0] = NoExpression
    BY <2>2, Zenon
  <2>4. QED
    BY <2>1, <2>3
<1>6. QED
  BY <1>1, <1>5

\* What the evaluation of an expression may come to: nothing, where none is
\* asked for, or code that puts one value on the stack.
Puts(code) ==
  Carries(code, Ground, Level(1, 0)) /\ Wired(code) = {} /\ NoReturn(code)

Fits(value, construct) ==
  ~value.refused => \/ value.code = << >> /\ construct \in {"dim", "shared", "static"}
                    \/ Puts(value.code)

\* The value of an expression a program of this kind may contain.
LEMMA ExpressionOf ==
  ASSUME NEW k \in DOMAIN Programs, NEW construct \in Constructs,
         NEW e \in Programs[k].expressions[construct],
         NEW stack \in Seq(Table), NEW frames, NEW fs \in Functions
  PROVE  /\ Expression(e, stack, frames, fs).code \in Seq(ExpressionCode(fs))
         /\ Fits(Expression(e, stack, frames, fs), construct)
<1> DEFINE value == Expression(e, stack, frames, fs)
<1>1. IsPostfix(e) \/ (e = << >> /\ construct \in {"dim", "shared", "static"})
  BY ProgramsAssumption
<1>2. CASE IsPostfix(e)
  <2>1. /\ value \in States(fs) /\ Stacked(value.code, value.tokens)
        /\ ~value.refused => Len(value.tokens) = 1
    BY <1>2, ExpressionStacked
  <2> HIDE DEF value
  <2>2. ~value.refused => Puts(value.code)
    BY <2>1, ValueCarries DEF Puts
  <2>3. value.code \in Seq(ExpressionCode(fs))
    BY <2>1 DEF States
  <2>4. QED
    BY <2>2, <2>3 DEF value, Fits
<1>3. CASE e = << >> /\ construct \in {"dim", "shared", "static"}
  <2>1. value = NoExpression
    BY <1>3, NoInitialiser
  <2>2. NoExpression.code = << >> /\ << >> \in Seq(ExpressionCode(fs))
    BY DEF NoExpression
  <2> HIDE DEF value
  <2>3. value.code \in Seq(ExpressionCode(fs)) /\ Fits(value, construct)
    BY <1>3, <2>1, <2>2 DEF Fits
  <2>4. QED
    BY <2>3 DEF value
<1>4. QED
  BY <1>1, <1>2, <1>3

LEMMA NoChange ==
  ASSUME NEW c \in Constructors, NEW M
  PROVE  Statement(c, c, M)
<1>1. Grows(c, c, {}, {})
  BY SameLists
<1>2. QED
  BY <1>1 DEF Statement, Grows, SameStacks

LEMMA StatementWider ==
  ASSUME NEW c, NEW r, NEW m, NEW M, Statement(c, r, m), m \subseteq M
  PROVE  Statement(c, r, M)
BY DEF Statement, Grows

LEMMA StatementsOn ==
  ASSUME NEW c \in Constructors, NEW d, NEW r, NEW M,
         Statement(c, d, M), Statement(d, r, M)
  PROVE  Statement(c, r, M)
<1>1. Statement(c, r, M \cup M) /\ M \cup M = M
  BY StatementOn
<1>2. QED
  BY <1>1

\* The code of an initialiser, when there is one.
LEMMA InitialisedStatement ==
  ASSUME NEW c \in Constructors, NEW o \in Targets, NEW fs, NEW value,
         value.code \in Seq(ExpressionCode(fs))
  PROVE  Statement(c, Initialised(c, o, value), FunctionLabels(fs))
<1>1. CASE value.code = << >>
  BY <1>1, NoChange DEF Initialised
<1>2. CASE value.code # << >>
  <2> DEFINE d == Emit(c, value.code)
  <2>1. Statement(c, d, FunctionLabels(fs))
    BY EmitExpression
  <2>2. d \in Constructors
    BY <2>1 DEF Statement, Grows
  <2>3. Statement(d, Assignment(d, o), {})
    BY <2>2, SimpleStatements
  <2>4. Initialised(c, o, value) = Assignment(d, o)
    BY <1>2 DEF Initialised
  <2> HIDE DEF d
  <2>5. Statement(d, Assignment(d, o), FunctionLabels(fs))
    BY <2>3, StatementWider
  <2>6. QED
    BY <2>1, <2>4, <2>5, StatementsOn
<1>3. QED
  BY <1>1, <1>2

\* A static variable: its label is taken and placed within the statement.
LEMMA StaticSound ==
  ASSUME NEW b, NEW fs, NEW c, Sound(c, b, fs), NEW d, SameRules(b, d),
         NEW o \in Targets, NEW flag \in Targets, NEW value,
         value.code \in Seq(ExpressionCode(fs)),
         NEW declared, declared = StaticVariableDeclaration(c, o, flag),
         NEW filled, filled = Initialised(declared, o, value),
         NEW r, r = StaticVariableDeclarationEnd(filled, flag)
  PROVE  Sound(r, d, fs) /\ r.to_buffer = c.to_buffer
<1> DEFINE skip == Label(c, "declared")
           F == FunctionLabels(fs)
<1>1. c \in Constructors /\ Balanced(c, b) /\ Ordered(c, fs)
  BY DEF Sound
<1>2. skip \in Labels /\ skip.type = "declared" /\ skip.number = c.label_counter
      /\ c.label_counter \in Nat /\ c.code_labels \in Seq(Labels)
  BY <1>1, LabelType, ConstructorFields
<1>3. /\ Grows(c, declared, {}, {skip})
      /\ declared.label_counter = c.label_counter + 1
      /\ declared.control_statement_depth = c.control_statement_depth
      /\ declared.scope_depth = c.scope_depth
      /\ OneOnTop(declared.code_labels, c.code_labels, skip)
      /\ declared.conditions = c.conditions /\ declared.loops = c.loops
      /\ declared.loops_depth = c.loops_depth
      /\ declared.loops_initial = c.loops_initial
  <2>1. skip = Label(c, "declared")
    OBVIOUS
  <2> HIDE DEF skip
  <2>2. QED
    BY <1>1, <2>1, StaticEffect
<1> HIDE DEF skip
<1>5. declared \in Constructors
  BY <1>3 DEF Grows
<1>6. Statement(declared, filled, F)
  BY <1>5, InitialisedStatement
<1> HIDE DEF F
<1>7. Grows(declared, filled, {}, F) /\ SameStacks(declared, filled)
      /\ filled \in Constructors
  BY <1>6 DEF Statement, Grows
<1>8. OneOnTop(filled.code_labels, c.code_labels, skip)
  BY <1>3, <1>7 DEF SameStacks
<1>9. /\ Grows(filled, r, {skip}, {skip})
      /\ r.label_counter = filled.label_counter
      /\ r.control_statement_depth = filled.control_statement_depth
      /\ r.scope_depth = filled.scope_depth
      /\ r.code_labels = c.code_labels
      /\ r.conditions = filled.conditions /\ r.loops = filled.loops
      /\ r.loops_depth = filled.loops_depth
      /\ r.loops_initial = filled.loops_initial
  <2>1. StaticClosed(filled, r, c.code_labels, skip)
    BY <1>2, <1>7, <1>8, StaticEndEffect
  <2>2. QED
    BY <2>1 DEF StaticClosed
<1>10. Grows(c, r, {skip}, {skip} \cup F)
  <2>1. Grows(c, filled, {} \cup {}, {skip} \cup F)
    BY <1>1, <1>3, <1>7, GrowsOn
  <2>2. {} \cup {} = {}
    OBVIOUS
  <2>3. Grows(c, filled, {}, {skip} \cup F)
    BY <2>1, <2>2
  <2>4. Grows(c, r, {} \cup {skip}, ({skip} \cup F) \cup {skip})
    BY <1>1, <1>9, <2>3, GrowsOn
  <2>5. {} \cup {skip} = {skip} /\ ({skip} \cup F) \cup {skip} = {skip} \cup F
    OBVIOUS
  <2>6. QED
    BY <2>4, <2>5
<1>11. /\ r.label_counter = c.label_counter + 1
       /\ r.control_statement_depth = c.control_statement_depth
       /\ r.scope_depth = c.scope_depth /\ r.code_labels = c.code_labels
       /\ r.conditions = c.conditions /\ r.loops = c.loops
       /\ r.loops_depth = c.loops_depth /\ r.loops_initial = c.loops_initial
  BY <1>3, <1>7, <1>9 DEF SameStacks
<1>12. Ordered(r, fs)
  <2>1. \A l \in {skip} : /\ l \in Labels /\ l.type = "declared"
                          /\ l.number >= c.label_counter /\ l.number < r.label_counter
    BY <1>2, <1>11
  <2>2. {skip} \cup F \subseteq {skip} \cup FunctionLabels(fs)
        /\ r.label_counter >= c.label_counter
    BY <1>2, <1>11 DEF F
  <2>3. QED
    BY <1>1, <1>10, <1>11, <2>1, <2>2, OrderedGrows
<1>13. Balanced(r, d)
  BY <1>1, <1>11, BalancedSame
<1>14. r \in Constructors /\ r.to_buffer = c.to_buffer
  BY <1>10 DEF Grows
<1>15. QED
  BY <1>12, <1>13, <1>14 DEF Sound

-----------------------------------------------------------------------------
(* Blocks opened and closed.                                               *)

\* From c to r one more block of that rule is held for.
Deeper(c, r, rule) ==
  /\ r.code_labels = c.code_labels
  /\ Len(r.conditions) = Len(c.conditions) + (IF rule \in Branches THEN 2 ELSE 0)
  /\ Len(r.loops) = Len(c.loops) + (IF rule = "while" THEN 2 ELSE 0)
  /\ r.loops_depth = c.loops_depth + (IF rule = "while" THEN 1 ELSE 0)
  /\ r.scope_depth = c.scope_depth + (IF rule = "scope" THEN 1 ELSE 0)
  /\ r.control_statement_depth =
       c.control_statement_depth +
         (IF rule \in Branches \/ rule = "while" THEN 1 ELSE 0)

LEMMA StackLengths ==
  ASSUME NEW c \in Constructors
  PROVE  /\ Len(c.conditions) \in Nat /\ Len(c.loops) \in Nat
         /\ c.loops_depth \in Int /\ c.scope_depth \in Int
         /\ c.control_statement_depth \in Int
BY ConstructorFields

LEMMA BalancedDeeper ==
  ASSUME NEW b, NEW d, NEW rule \in OpenRules, Adds(b, d, rule),
         NEW c \in Constructors, NEW r \in Constructors, Deeper(c, r, rule)
  PROVE  Balanced(c, b) <=> Balanced(r, d)
<1> DEFINE n == Count(b, Branches)
           w == Count(b, {"while"})
           s == Count(b, {"scope"})
           branch == IF rule \in Branches THEN 1 ELSE 0
           while == IF rule = "while" THEN 1 ELSE 0
           scope == IF rule = "scope" THEN 1 ELSE 0
<1>1. n \in Nat /\ w \in Nat /\ s \in Nat
  BY CountAdds
<1>2. /\ Count(d, Branches) = n + branch /\ Count(d, {"while"}) = w + while
      /\ Count(d, {"scope"}) = s + scope
  BY CountAdds
<1>3. branch \in {0, 1} /\ while \in {0, 1} /\ scope \in {0, 1}
      /\ (branch = 1 => while = 0)
  BY DEF Branches
<1>4. /\ r.code_labels = c.code_labels
      /\ Len(r.conditions) = Len(c.conditions) + 2 * branch
      /\ Len(r.loops) = Len(c.loops) + 2 * while
      /\ r.loops_depth = c.loops_depth + while
      /\ r.scope_depth = c.scope_depth + scope
      /\ r.control_statement_depth = c.control_statement_depth + branch + while
  <2>1. /\ Len(c.conditions) \in Nat /\ Len(c.loops) \in Nat
        /\ c.loops_depth \in Int /\ c.scope_depth \in Int
        /\ c.control_statement_depth \in Int
    BY StackLengths
  <2>2. CASE rule \in Branches
    BY <2>1, <2>2 DEF Deeper, Branches
  <2>3. CASE rule \notin Branches
    BY <2>1, <2>3 DEF Deeper
  <2>4. QED
    BY <2>2, <2>3
<1>5. /\ Len(c.conditions) \in Nat /\ Len(c.loops) \in Nat
      /\ c.loops_depth \in Int /\ c.scope_depth \in Int
      /\ c.control_statement_depth \in Int
  BY StackLengths
<1>6. Balanced(c, b) <=> /\ c.code_labels = << >>
                         /\ Len(c.conditions) = 2 * n /\ Len(c.loops) = 2 * w
                         /\ c.loops_depth = w /\ c.scope_depth = s
                         /\ c.control_statement_depth = n + w
  BY DEF Balanced
<1>7. Balanced(r, d) <=> /\ r.code_labels = << >>
                         /\ Len(r.conditions) = 2 * (n + branch)
                         /\ Len(r.loops) = 2 * (w + while)
                         /\ r.loops_depth = w + while /\ r.scope_depth = s + scope
                         /\ r.control_statement_depth = (n + branch) + (w + while)
  BY <1>2 DEF Balanced
<1> HIDE DEF n, w, s, branch, while, scope
<1> DEFINE x == Len(c.conditions)
           y == Len(c.loops)
<1>8. branch \in Int /\ while \in Int /\ scope \in Int /\ x \in Int /\ y \in Int
  BY <1>3, <1>5
<1> HIDE DEF x, y
<1>9. x + 2 * branch = 2 * (n + branch) <=> x = 2 * n
  BY <1>1, <1>8
<1>10. y + 2 * while = 2 * (w + while) <=> y = 2 * w
  BY <1>1, <1>8
<1> DEFINE ld == c.loops_depth
           sd == c.scope_depth
           cd == c.control_statement_depth
<1>11. ld \in Int /\ sd \in Int /\ cd \in Int
  BY <1>5
<1> HIDE DEF ld, sd, cd
<1>12. (ld + while = w + while <=> ld = w) /\ (sd + scope = s + scope <=> sd = s)
  BY <1>1, <1>8, <1>11
<1>13. cd + branch + while = (n + branch) + (w + while) <=> cd = n + w
  BY <1>1, <1>8, <1>11
<1>14. QED
  BY <1>4, <1>6, <1>7, <1>9, <1>10, <1>12, <1>13 DEF x, y, ld, sd, cd

\* One branch of a condition takes the place of another.
LEMMA BalancedReplaced ==
  ASSUME NEW below, NEW b, NEW d, NEW one \in Branches, NEW other \in Branches,
         Adds(below, b, one), Adds(below, d, other),
         NEW c, Balanced(c, b), NEW r,
         r.code_labels = c.code_labels, Len(r.conditions) = Len(c.conditions),
         r.loops = c.loops, r.loops_depth = c.loops_depth,
         r.scope_depth = c.scope_depth,
         r.control_statement_depth = c.control_statement_depth
  PROVE  Balanced(r, d)
<1>1. /\ Count(b, Branches) = Count(d, Branches)
      /\ Count(b, {"while"}) = Count(d, {"while"})
      /\ Count(b, {"scope"}) = Count(d, {"scope"})
  <2>1. /\ Count(b, Branches) = Count(below, Branches) + 1
        /\ Count(d, Branches) = Count(below, Branches) + 1
    BY CountAdds
  <2>2. one # "while" /\ other # "while" /\ one # "scope" /\ other # "scope"
    BY DEF Branches
  <2>3. QED
    BY <2>1, <2>2, CountAdds
<1>2. QED
  BY <1>1 DEF Balanced

\* The labels of the innermost condition and of the innermost loop.
LEMMA InnermostCondition ==
  ASSUME NEW below, NEW b, NEW rule \in Branches, Adds(below, b, rule),
         NEW c \in Constructors, Balanced(c, b)
  PROVE  \E rest \in Seq(Labels), end, next \in Labels :
           OnTop(c.conditions, rest, end, next)
<1>1. Count(below, Branches) \in Nat /\ Count(b, Branches) = Count(below, Branches) + 1
  BY CountAdds
<1>2. Len(c.conditions) = 2 * Count(b, Branches)
  BY DEF Balanced
<1>3. Len(c.conditions) >= 2 /\ c.conditions \in Seq(Labels)
  BY <1>1, <1>2, ConstructorFields
<1>4. QED
  BY <1>3, SplitTopTwo

LEMMA InnermostLoop ==
  ASSUME NEW below, NEW b, Adds(below, b, "while"),
         NEW c \in Constructors, Balanced(c, b)
  PROVE  \E rest \in Seq(Labels), start, end \in Labels :
           /\ OnTop(c.loops, rest, start, end)
           /\ Pairs(rest, Count(below, {"while"}))
<1> DEFINE w == Count(below, {"while"})
<1>1. w \in Nat /\ Count(b, {"while"}) = w + 1
  BY CountAdds
<1>2. Len(c.loops) = 2 * (w + 1)
  BY <1>1 DEF Balanced
<1> HIDE DEF w
<1>3. Len(c.loops) >= 2 /\ c.loops \in Seq(Labels) /\ Len(c.loops) \in Nat
  BY <1>1, <1>2, ConstructorFields
<1>4. PICK rest \in Seq(Labels), start \in Labels, end \in Labels :
        OnTop(c.loops, rest, start, end)
  BY <1>3, SplitTopTwo
<1>5. Len(c.loops) = Len(rest) + 2 /\ Len(rest) \in Nat
  BY <1>4, TopTwo
<1>6. Pairs(rest, w)
  BY <1>1, <1>2, <1>5 DEF Pairs
<1>7. QED
  BY <1>4, <1>6 DEF w

\* The code of an expression leaves a sound constructor sound.
LEMMA ExpressionSound ==
  ASSUME NEW b, NEW fs, NEW c, Sound(c, b, fs), Len(b) \in Nat,
         NEW code \in Seq(ExpressionCode(fs)), NEW r, r = Emit(c, code)
  PROVE  Sound(r, b, fs) /\ r.to_buffer = c.to_buffer /\ r \in Constructors
<1>1. c \in Constructors
  BY DEF Sound
<1>2. Statement(c, r, FunctionLabels(fs))
  BY <1>1, EmitExpression
<1>3. SameRules(b, b)
  BY DEF SameRules
<1>4. QED
  BY <1>2, <1>3, StatementSound DEF Sound

LEMMA IfSound ==
  ASSUME NEW b, NEW fs, NEW c, Sound(c, b, fs), NEW d, Adds(b, d, "then"),
         NEW r, r = IfAfterExpression(c)
  PROVE  Sound(r, d, fs) /\ r.to_buffer = c.to_buffer
<1>1. c \in Constructors /\ Balanced(c, b) /\ Ordered(c, fs)
  BY DEF Sound
<1>2. PICK end \in Labels, next \in Labels :
        /\ end.type = "if_end" /\ end.number = c.label_counter
        /\ next.type = "if_else" /\ next.number = c.label_counter + 1
        /\ Grows(c, r, {}, {next})
        /\ r.label_counter = c.label_counter + 2
        /\ r.control_statement_depth = c.control_statement_depth + 1
        /\ r.scope_depth = c.scope_depth /\ r.code_labels = c.code_labels
        /\ OnTop(r.conditions, c.conditions, end, next)
        /\ r.loops = c.loops
        /\ r.loops_depth = c.loops_depth /\ r.loops_initial = c.loops_initial
  BY ZenonT(90), <1>1, IfEffect
<1>3. Ordered(r, fs)
  BY <1>1, <1>2, OrderedIf
<1>4. r \in Constructors /\ r.to_buffer = c.to_buffer
  BY <1>2 DEF Grows
<1>5. Len(r.conditions) = Len(c.conditions) + 2
  BY SMTT(90), <1>1, <1>2, TopTwo, ConstructorFields
<1>6. c.loops_depth \in Int /\ c.scope_depth \in Int /\ Len(c.loops) \in Int
  BY <1>1, StackLengths
<1>7. Deeper(c, r, "then")
  <2>1. "then" \in Branches /\ "then" # "while" /\ "then" # "scope"
    BY DEF Branches
  <2>2. QED
    BY <1>2, <1>5, <1>6, <2>1 DEF Deeper
<1>8. Balanced(r, d)
  <2>1. "then" \in OpenRules
    BY DEF OpenRules, Branches
  <2>2. QED
    BY <1>1, <1>4, <1>7, <2>1, BalancedDeeper
<1>9. QED
  BY <1>3, <1>4, <1>8 DEF Sound

\* What a branch ends with: after THEN the jump to the end of the condition.
Left(c, after, rule) ==
  after = IF rule = "then" THEN IfEndIfBlock(c) ELSE c

LEMMA BranchEnds ==
  ASSUME NEW c \in Constructors, NEW rule, NEW after, Left(c, after, rule),
         NEW rest \in Seq(Labels), NEW end \in Labels, NEW next \in Labels,
         OnTop(c.conditions, rest, end, next)
  PROVE  /\ Statement(c, after, {end})
         /\ after \in Constructors /\ OnTop(after.conditions, rest, end, next)
<1>1. Statement(c, after, {end})
  <2>1. CASE rule = "then"
    <3>1. after = IfEndIfBlock(c)
      BY <2>1 DEF Left
    <3>2. QED
      BY <3>1, EndIfBlockEffect
  <2>2. CASE rule # "then"
    BY <2>2, NoChange DEF Left
  <2>3. QED
    BY <2>1, <2>2
<1>2. QED
  BY <1>1 DEF Statement, Grows, SameStacks

LEMMA ElseIfSound ==
  ASSUME NEW below, NEW b, NEW fs, NEW c, Sound(c, b, fs),
         NEW rule \in Branches, Adds(below, b, rule),
         NEW d, Adds(below, d, "elseif"),
         NEW after, Left(c, after, rule),
         NEW before, before = ElseIfBeforeExpression(after),
         NEW code \in Seq(ExpressionCode(fs)), NEW filled, filled = Emit(before, code),
         NEW r, r = ElseIfAfterExpression(filled)
  PROVE  Sound(r, d, fs) /\ r.to_buffer = c.to_buffer
<1> DEFINE F == FunctionLabels(fs)
           fresh == Label(filled, "if_else")
<1>1. c \in Constructors /\ Balanced(c, b) /\ Ordered(c, fs)
  BY DEF Sound
<1>2. PICK rest \in Seq(Labels), end \in Labels, next \in Labels :
        OnTop(c.conditions, rest, end, next)
  BY <1>1, InnermostCondition
<1>3. /\ Grows(c, after, {}, {end}) /\ SameStacks(c, after)
      /\ after \in Constructors /\ OnTop(after.conditions, rest, end, next)
  BY <1>1, <1>2, BranchEnds DEF Statement
<1>4. /\ Grows(after, before, {next}, {end, next})
      /\ before.label_counter = after.label_counter
      /\ before.control_statement_depth = after.control_statement_depth
      /\ before.scope_depth = after.scope_depth /\ before.code_labels = after.code_labels
      /\ before.conditions = Append(rest, end) /\ before.loops = after.loops
      /\ before.loops_depth = after.loops_depth
      /\ before.loops_initial = after.loops_initial
  <2>1. before = LeaveBranch(after)
    BY DEF ElseIfBeforeExpression
  <2>2. BranchLeft(after, before, rest, end, next)
    BY <1>2, <1>3, <2>1, LeaveBranchEffect
  <2>3. QED
    BY <2>2 DEF BranchLeft
<1>5. before \in Constructors
  BY <1>4 DEF Grows
<1>6. Grows(before, filled, {}, F) /\ SameStacks(before, filled) /\ filled \in Constructors
  BY <1>5, EmitExpression DEF Statement, Grows
<1>7. fresh \in Labels /\ fresh.type = "if_else" /\ fresh.number = filled.label_counter
  BY <1>6, LabelType
<1>8. /\ Grows(filled, r, {}, {fresh})
      /\ r.label_counter = filled.label_counter + 1
      /\ r.control_statement_depth = filled.control_statement_depth
      /\ r.scope_depth = filled.scope_depth /\ r.code_labels = filled.code_labels
      /\ r.conditions = Append(filled.conditions, fresh) /\ r.loops = filled.loops
      /\ r.loops_depth = filled.loops_depth
      /\ r.loops_initial = filled.loops_initial
  <2>1. fresh = Label(filled, "if_else")
    OBVIOUS
  <2>2. r = BranchUnlessTrue(filled)
    BY DEF ElseIfAfterExpression
  <2> HIDE DEF fresh
  <2>3. Branched(filled, r, fresh)
    BY <1>6, <2>1, <2>2, BranchEffect
  <2>4. QED
    BY <2>3 DEF Branched
<1> HIDE DEF fresh, F
<1>9. Grows(c, r, {next}, {end, next, fresh} \cup F)
  <2>1. Grows(c, before, {} \cup {next}, {end} \cup {end, next})
    BY <1>1, <1>3, <1>4, GrowsOn
  <2>2. {} \cup {next} = {next} /\ {next} \cap {} = {} /\ {next} \cup {} = {next}
    OBVIOUS
  <2>3. Grows(c, before, {next}, {end} \cup {end, next})
    BY <2>1, <2>2
  <2>4. Grows(c, filled, {next} \cup {}, ({end} \cup {end, next}) \cup F)
    BY <1>1, <1>6, <2>2, <2>3, GrowsOn
  <2>5. Grows(c, filled, {next}, ({end} \cup {end, next}) \cup F)
    BY <2>2, <2>4
  <2>6. Grows(c, r, {next} \cup {}, (({end} \cup {end, next}) \cup F) \cup {fresh})
    BY <1>1, <1>8, <2>2, <2>5, GrowsOn
  <2>7. (({end} \cup {end, next}) \cup F) \cup {fresh} = {end, next, fresh} \cup F
    OBVIOUS
  <2>8. QED
    BY <2>2, <2>6, <2>7
<1>10. /\ r.label_counter = c.label_counter + 1
       /\ fresh.number = c.label_counter
       /\ r.control_statement_depth = c.control_statement_depth
       /\ r.scope_depth = c.scope_depth /\ r.code_labels = c.code_labels
       /\ r.loops = c.loops
       /\ r.loops_depth = c.loops_depth /\ r.loops_initial = c.loops_initial
  BY <1>3, <1>4, <1>6, <1>7, <1>8 DEF SameStacks
<1>11. OnTop(r.conditions, rest, end, fresh)
  BY <1>4, <1>6, <1>8 DEF SameStacks, OnTop
<1>12. Ordered(r, fs)
  BY <1>1, <1>2, <1>7, <1>9, <1>10, <1>11, OrderedNextBranch DEF F
<1>13. r \in Constructors /\ r.to_buffer = c.to_buffer
  BY <1>9 DEF Grows
<1>14. Len(r.conditions) = Len(c.conditions)
  BY <1>2, <1>7, <1>11, TopTwo
<1>15. Balanced(r, d)
  <2>1. "elseif" \in Branches
    BY DEF Branches
  <2>2. QED
    BY <1>1, <1>10, <1>14, <2>1, BalancedReplaced
<1>16. QED
  BY <1>12, <1>13, <1>15 DEF Sound

LEMMA ElseSound ==
  ASSUME NEW below, NEW b, NEW fs, NEW c, Sound(c, b, fs),
         NEW rule \in Branches, Adds(below, b, rule),
         NEW d, Adds(below, d, "else"),
         NEW after, Left(c, after, rule),
         NEW r, r = IfElseBlock(after)
  PROVE  Sound(r, d, fs) /\ r.to_buffer = c.to_buffer
<1> DEFINE F == FunctionLabels(fs)
<1>1. c \in Constructors /\ Balanced(c, b) /\ Ordered(c, fs)
  BY DEF Sound
<1>2. PICK rest \in Seq(Labels), end \in Labels, next \in Labels :
        OnTop(c.conditions, rest, end, next)
  BY <1>1, InnermostCondition
<1>3. /\ Grows(c, after, {}, {end}) /\ SameStacks(c, after)
      /\ after \in Constructors /\ OnTop(after.conditions, rest, end, next)
  BY <1>1, <1>2, BranchEnds DEF Statement
<1>4. PICK fresh \in Labels :
        /\ fresh.type = "if_else" /\ fresh.number = after.label_counter
        /\ Grows(after, r, {next}, {end, next})
        /\ r.label_counter = after.label_counter + 1
        /\ r.control_statement_depth = after.control_statement_depth
        /\ r.scope_depth = after.scope_depth /\ r.code_labels = after.code_labels
        /\ OnTop(r.conditions, rest, end, fresh) /\ r.loops = after.loops
        /\ r.loops_depth = after.loops_depth /\ r.loops_initial = after.loops_initial
  <2>1. \E fresh \in Labels : Elsed(after, r, rest, end, next, fresh)
    BY <1>2, <1>3, ElseEffect
  <2>2. QED
    BY <2>1 DEF Elsed
<1> HIDE DEF F
<1>5. Grows(c, r, {next}, {end, next, fresh} \cup F)
  <2>1. Grows(c, r, {} \cup {next}, {end} \cup {end, next})
    BY <1>1, <1>3, <1>4, GrowsOn
  <2>2. {} \cup {next} = {next}
        /\ {end} \cup {end, next} \subseteq {end, next, fresh} \cup F
    OBVIOUS
  <2>3. QED
    BY <2>1, <2>2 DEF Grows
<1>6. /\ r.label_counter = c.label_counter + 1
      /\ fresh.number = c.label_counter
      /\ r.control_statement_depth = c.control_statement_depth
      /\ r.scope_depth = c.scope_depth /\ r.code_labels = c.code_labels
      /\ r.loops = c.loops
      /\ r.loops_depth = c.loops_depth /\ r.loops_initial = c.loops_initial
  BY <1>3, <1>4 DEF SameStacks
<1>7. Ordered(r, fs)
  BY <1>1, <1>2, <1>4, <1>5, <1>6, OrderedNextBranch DEF F
<1>8. r \in Constructors /\ r.to_buffer = c.to_buffer
  BY <1>5 DEF Grows
<1>9. Len(r.conditions) = Len(c.conditions)
  BY <1>2, <1>4, TopTwo
<1>10. Balanced(r, d)
  <2>1. "else" \in Branches
    BY DEF Branches
  <2>2. QED
    BY <1>1, <1>6, <1>9, <2>1, BalancedReplaced
<1>11. QED
  BY <1>7, <1>8, <1>10 DEF Sound

LEMMA EndIfSound ==
  ASSUME NEW below, NEW b, NEW fs, NEW c, Sound(c, b, fs),
         NEW rule \in Branches, Adds(below, b, rule),
         NEW after, Left(c, after, rule),
         NEW r, r = IfAfterEndIf(after)
  PROVE  Sound(r, below, fs) /\ r.to_buffer = c.to_buffer
<1>1. c \in Constructors /\ Balanced(c, b) /\ Ordered(c, fs)
  BY DEF Sound
<1>2. PICK rest \in Seq(Labels), end \in Labels, next \in Labels :
        OnTop(c.conditions, rest, end, next)
  BY <1>1, InnermostCondition
<1>3. /\ Grows(c, after, {}, {end}) /\ SameStacks(c, after)
      /\ after \in Constructors /\ OnTop(after.conditions, rest, end, next)
  BY <1>1, <1>2, BranchEnds DEF Statement
<1>4. end # next
  <2>1. AllDifferent(c.conditions)
    BY <1>1 DEF Ordered, OpenConditions
  <2>2. QED
    BY <1>2, <2>1, TwoMore
<1>5. /\ Grows(after, r, {end, next}, {end, next})
      /\ r.label_counter = after.label_counter
      /\ r.control_statement_depth = after.control_statement_depth - 1
      /\ r.scope_depth = after.scope_depth /\ r.code_labels = after.code_labels
      /\ r.conditions = rest /\ r.loops = after.loops
      /\ r.loops_depth = after.loops_depth /\ r.loops_initial = after.loops_initial
  <2>1. ConditionEnded(after, r, rest, end, next)
    BY <1>2, <1>3, <1>4, AfterEndIfEffect
  <2>2. QED
    BY <2>1 DEF ConditionEnded
<1>6. Grows(c, r, {end, next}, {end, next})
  <2>1. Grows(c, r, {} \cup {end, next}, {end} \cup {end, next})
    BY <1>1, <1>3, <1>5, GrowsOn
  <2>2. {} \cup {end, next} = {end, next} /\ {end} \cup {end, next} = {end, next}
    OBVIOUS
  <2>3. QED
    BY <2>1, <2>2
<1>7. /\ r.label_counter = c.label_counter
      /\ r.control_statement_depth = c.control_statement_depth - 1
      /\ r.scope_depth = c.scope_depth /\ r.code_labels = c.code_labels
      /\ r.conditions = rest /\ r.loops = c.loops
      /\ r.loops_depth = c.loops_depth /\ r.loops_initial = c.loops_initial
  BY <1>3, <1>5 DEF SameStacks
<1>8. Ordered(r, fs)
  BY <1>1, <1>2, <1>6, <1>7, OrderedEndIf
<1>9. r \in Constructors /\ r.to_buffer = c.to_buffer
  BY <1>6 DEF Grows
<1>10. Len(c.conditions) = Len(rest) + 2
  BY <1>2, TopTwo
<1>11. Deeper(r, c, rule)
  <2>1. rule # "while" /\ rule # "scope"
    BY DEF Branches
  <2>2. /\ r.loops_depth \in Int /\ r.scope_depth \in Int /\ Len(r.loops) \in Int
        /\ c.control_statement_depth \in Int
    BY <1>1, <1>9, StackLengths
  <2>3. c.control_statement_depth = r.control_statement_depth + 1
    BY <1>7, <2>2
  <2>4. QED
    BY <1>7, <1>10, <2>1, <2>2, <2>3 DEF Deeper
<1>12. Balanced(r, below)
  <2>1. rule \in OpenRules
    BY DEF OpenRules
  <2>2. QED
    BY <1>1, <1>9, <1>11, <2>1, BalancedDeeper
<1>13. QED
  BY <1>8, <1>9, <1>12 DEF Sound

LEMMA WhileSound ==
  ASSUME NEW b, NEW fs, NEW c, Sound(c, b, fs), NEW d, Adds(b, d, "while"),
         NEW begun, begun = WhileBeforeCondition(c),
         NEW code \in Seq(ExpressionCode(fs)), NEW filled, filled = Emit(begun, code),
         NEW r, r = WhileAfterCondition(filled)
  PROVE  Sound(r, d, fs) /\ r.to_buffer = c.to_buffer
<1> DEFINE F == FunctionLabels(fs)
           end == Label(filled, "while_end")
           n == Count(b, {"while"})
<1>1. c \in Constructors /\ Balanced(c, b) /\ Ordered(c, fs)
  BY DEF Sound
<1>2. Len(Writing(c)) > 0
  BY <1>1 DEF Ordered, Begun, Writing
<1>3. PICK start \in Labels : LoopBegun(c, begun, start)
  BY <1>1, <1>2, WhileEffect
<1>4. /\ start.type = "while_start" /\ start.number = c.label_counter
      /\ Grows(c, begun, {start}, {start}) /\ HasPlace(begun, start)
      /\ begun.label_counter = c.label_counter + 1
      /\ begun.control_statement_depth = c.control_statement_depth + 1
      /\ begun.scope_depth = c.scope_depth /\ begun.code_labels = c.code_labels
      /\ begun.conditions = c.conditions
      /\ begun.loops = Append(c.loops, start)
      /\ begun.loops_depth = c.loops_depth + 1
      /\ begun.loops_initial = IF c.loops_depth = 0 THEN start ELSE c.loops_initial
  BY <1>3 DEF LoopBegun
<1>5. begun \in Constructors
  BY <1>4 DEF Grows
<1>6. Grows(begun, filled, {}, F) /\ SameStacks(begun, filled)
      /\ filled \in Constructors
  BY <1>5, EmitExpression DEF Statement, Grows
<1>7. end \in Labels /\ end.type = "while_end" /\ end.number = filled.label_counter
  BY <1>6, LabelType
<1>8. LoopTested(filled, r, end)
  <2>1. end = Label(filled, "while_end")
    OBVIOUS
  <2> HIDE DEF end
  <2>2. QED
    BY <1>6, <2>1, ConditionEffect
<1>9. /\ Grows(filled, r, {}, {end})
      /\ r.label_counter = filled.label_counter + 1
      /\ r.control_statement_depth = filled.control_statement_depth
      /\ r.scope_depth = filled.scope_depth /\ r.code_labels = filled.code_labels
      /\ r.conditions = filled.conditions /\ r.loops = Append(filled.loops, end)
      /\ r.loops_depth = filled.loops_depth
      /\ r.loops_initial = filled.loops_initial
  BY <1>8 DEF LoopTested
<1> HIDE DEF end, F, n
<1>10. Grows(c, filled, {start}, {start} \cup F)
  <2>1. Grows(c, filled, {start} \cup {}, {start} \cup F)
    BY <1>1, <1>4, <1>6, GrowsOn
  <2>2. {start} \cup {} = {start}
    OBVIOUS
  <2>3. QED
    BY <2>1, <2>2
<1>11. Grows(c, r, {start}, {start, end} \cup F)
  <2>1. Grows(c, r, {start} \cup {}, ({start} \cup F) \cup {end})
    BY <1>1, <1>9, <1>10, GrowsOn
  <2>2. {start} \cup {} = {start} /\ ({start} \cup F) \cup {end} = {start, end} \cup F
    OBVIOUS
  <2>3. QED
    BY <2>1, <2>2
<1>12. HasPlace(r, start)
  BY <1>4, <1>6, <1>9 DEF Grows
<1>13. c.label_counter \in Nat /\ c.loops_depth \in Int /\ c.loops \in Seq(Labels)
  BY <1>1, ConstructorFields
<1>14. /\ r.label_counter = c.label_counter + 2 /\ end.number = c.label_counter + 1
       /\ r.control_statement_depth = c.control_statement_depth + 1
       /\ r.scope_depth = c.scope_depth /\ r.code_labels = c.code_labels
       /\ r.conditions = c.conditions
       /\ r.loops_depth = c.loops_depth + 1
       /\ r.loops_initial = IF c.loops_depth = 0 THEN start ELSE c.loops_initial
  BY <1>4, <1>6, <1>7, <1>9, <1>13 DEF SameStacks
<1>15. OnTop(r.loops, c.loops, start, end)
  BY <1>4, <1>6, <1>9 DEF SameStacks, OnTop
<1>16. n \in Nat /\ Pairs(c.loops, n) /\ c.loops_depth = n
  BY <1>1, CountAdds DEF Balanced, Pairs, n
<1>17. Ordered(r, fs)
  <2>1. r.loops_initial = IF n = 0 THEN start ELSE c.loops_initial
    BY <1>14, <1>16
  <2>2. Grows(c, r, {start}, {start, end} \cup FunctionLabels(fs))
    BY <1>11 DEF F
  <2>3. QED
    BY <1>1, <1>4, <1>7, <1>12, <1>13, <1>14, <1>15, <1>16, <2>1, <2>2, OrderedWhile
<1>18. r \in Constructors /\ r.to_buffer = c.to_buffer
  BY <1>11 DEF Grows
<1>19. Len(r.loops) = Len(c.loops) + 2
  BY <1>7, <1>13, <1>15, TopTwo
<1>20. Deeper(c, r, "while")
  <2>1. "while" \notin Branches
    BY DEF Branches
  <2>2. c.scope_depth \in Int /\ Len(c.conditions) \in Int
    BY <1>1, StackLengths
  <2>3. QED
    BY <1>14, <1>19, <2>1, <2>2 DEF Deeper
<1>21. Balanced(r, d)
  <2>1. "while" \in OpenRules
    BY DEF OpenRules
  <2>2. QED
    BY <1>1, <1>18, <1>20, <2>1, BalancedDeeper
<1>22. QED
  BY <1>17, <1>18, <1>21 DEF Sound

LEMMA LoopSound ==
  ASSUME NEW below, NEW b, NEW fs, NEW c, Sound(c, b, fs),
         Adds(below, b, "while"), NEW r, r = WhileEnd(c)
  PROVE  Sound(r, below, fs) /\ r.to_buffer = c.to_buffer
<1> DEFINE n == Count(below, {"while"})
<1>1. c \in Constructors /\ Balanced(c, b) /\ Ordered(c, fs)
  BY DEF Sound
<1>2. PICK rest \in Seq(Labels), start \in Labels, end \in Labels :
        OnTop(c.loops, rest, start, end) /\ Pairs(rest, n)
  BY <1>1, InnermostLoop
<1>3. LoopEnded(c, r, rest, start, end)
  BY <1>1, <1>2, LoopEffect
<1>4. /\ Grows(c, r, {end}, {start, end})
      /\ r.label_counter = c.label_counter
      /\ r.control_statement_depth = c.control_statement_depth - 1
      /\ r.scope_depth = c.scope_depth /\ r.code_labels = c.code_labels
      /\ r.conditions = c.conditions /\ r.loops = rest
      /\ r.loops_depth = c.loops_depth - 1
      /\ r.loops_initial = IF c.loops_depth = 1 THEN NoLabel ELSE c.loops_initial
  BY <1>3 DEF LoopEnded
<1>5. n \in Nat /\ c.loops_depth = n + 1
  BY <1>1, CountAdds DEF Balanced
<1> HIDE DEF n
<1>6. Ordered(r, fs)
  <2>1. c.loops_depth = 1 <=> n = 0
    BY <1>5
  <2>2. r.loops_initial = IF n = 0 THEN NoLabel ELSE c.loops_initial
    BY <1>4, <2>1
  <2>3. QED
    BY <1>1, <1>2, <1>4, <1>5, <2>2, OrderedLoop
<1>7. r \in Constructors /\ r.to_buffer = c.to_buffer
  BY <1>4 DEF Grows
<1>8. Len(c.loops) = Len(r.loops) + 2
  BY <1>2, <1>4, TopTwo
<1>9. Deeper(r, c, "while")
  <2>1. "while" \notin Branches
    BY DEF Branches
  <2>2. /\ c.loops_depth \in Int /\ c.scope_depth \in Int /\ Len(r.conditions) \in Int
        /\ c.control_statement_depth \in Int
    BY <1>1, <1>7, StackLengths
  <2>3. /\ c.control_statement_depth = r.control_statement_depth + 1
        /\ c.loops_depth = r.loops_depth + 1
        /\ c.scope_depth = r.scope_depth + 0
    BY SMTT(90), <1>4, <2>2
  <2>4. Len(c.conditions) = Len(r.conditions) + 0
    BY <1>4, <2>2
  <2>5. QED
    BY <1>4, <1>8, <2>1, <2>3, <2>4 DEF Deeper
<1>10. Balanced(r, below)
  <2>1. "while" \in OpenRules
    BY DEF OpenRules
  <2>2. QED
    BY <1>1, <1>7, <1>9, <2>1, BalancedDeeper
<1>11. QED
  BY <1>6, <1>7, <1>10 DEF Sound

\* A scope begins or ends: only its depth changes.
LEMMA ScopedOrdered ==
  ASSUME NEW c \in Constructors, NEW fs, Ordered(c, fs), NEW r, NEW n, Scoped(c, r, n)
  PROVE  Ordered(r, fs) /\ r \in Constructors /\ r.to_buffer = c.to_buffer
<1> DEFINE none == {}
<1>1. /\ Grows(c, r, none, none) /\ r.label_counter = c.label_counter
      /\ r.conditions = c.conditions /\ r.loops = c.loops
      /\ r.loops_initial = c.loops_initial
  BY DEF Scoped
<1>2. none \subseteq none \cup FunctionLabels(fs)
      /\ \A l \in none : /\ l \in Labels /\ l.type = "declared"
                         /\ l.number >= c.label_counter /\ l.number < r.label_counter
  OBVIOUS
<1> HIDE DEF none
<1>3. c.label_counter \in Nat /\ r.label_counter >= c.label_counter
  BY <1>1, ConstructorFields
<1>4. Ordered(r, fs)
  BY <1>1, <1>2, <1>3, OrderedGrows
<1>5. QED
  BY <1>1, <1>4 DEF Grows

LEMMA ScopeSound ==
  ASSUME NEW b, NEW fs, NEW c, Sound(c, b, fs), NEW d, Adds(b, d, "scope"),
         NEW r, r = ScopeStart(c)
  PROVE  Sound(r, d, fs) /\ r.to_buffer = c.to_buffer
<1> DEFINE n == c.scope_depth + 1
<1>1. c \in Constructors /\ Balanced(c, b) /\ Ordered(c, fs)
  BY DEF Sound
<1>2. n \in Int /\ Len(c.conditions) \in Int /\ Len(c.loops) \in Int
      /\ c.loops_depth \in Int /\ c.control_statement_depth \in Int
  BY <1>1, StackLengths
<1>3. r = [c EXCEPT !.scope_depth = n]
  BY DEF ScopeStart
<1> HIDE DEF n
<1>4. Scoped(c, r, n)
  BY <1>1, <1>2, <1>3, ScopeEffect
<1>5. Ordered(r, fs) /\ r \in Constructors /\ r.to_buffer = c.to_buffer
  BY <1>1, <1>4, ScopedOrdered
<1>6. Deeper(c, r, "scope")
  <2>1. "scope" \notin Branches
    BY DEF Branches
  <2>2. QED
    BY <1>2, <1>4, <2>1 DEF Scoped, Deeper, n
<1>7. Balanced(r, d)
  <2>1. "scope" \in OpenRules
    BY DEF OpenRules
  <2>2. QED
    BY <1>1, <1>5, <1>6, <2>1, BalancedDeeper
<1>8. QED
  BY <1>5, <1>7 DEF Sound

LEMMA ScopeEndSound ==
  ASSUME NEW below, NEW b, NEW fs, NEW c, Sound(c, b, fs),
         Adds(below, b, "scope"), NEW r, r = ScopeEnd(c)
  PROVE  Sound(r, below, fs) /\ r.to_buffer = c.to_buffer
<1> DEFINE n == c.scope_depth - 1
<1>1. c \in Constructors /\ Balanced(c, b) /\ Ordered(c, fs)
  BY DEF Sound
<1>2. n \in Int /\ Len(c.conditions) \in Int /\ Len(c.loops) \in Int
      /\ c.loops_depth \in Int /\ c.control_statement_depth \in Int
      /\ c.scope_depth = n + 1
  BY <1>1, StackLengths
<1>3. r = [c EXCEPT !.scope_depth = n]
  BY DEF ScopeEnd
<1> HIDE DEF n
<1>4. Scoped(c, r, n)
  BY <1>1, <1>2, <1>3, ScopeEffect
<1>5. Ordered(r, fs) /\ r \in Constructors /\ r.to_buffer = c.to_buffer
  BY <1>1, <1>4, ScopedOrdered
<1>6. Deeper(r, c, "scope")
  <2>1. "scope" \notin Branches
    BY DEF Branches
  <2>2. QED
    BY <1>2, <1>4, <2>1 DEF Scoped, Deeper
<1>7. Balanced(r, below)
  <2>1. "scope" \in OpenRules
    BY DEF OpenRules
  <2>2. QED
    BY <1>1, <1>5, <1>6, <2>1, BalancedDeeper
<1>8. QED
  BY <1>5, <1>7 DEF Sound

\* Outside functions and the main part nothing is open.
LEMMA ProgramOnly ==
  ASSUME NEW b, Len(b) = 1, b[1].rule = "program",
         NEW c \in Constructors, Balanced(c, b)
  PROVE  /\ NothingOpen(c) /\ c.code_labels = << >>
         /\ c.conditions = << >> /\ c.loops = << >>
         /\ c.loops_depth = 0 /\ c.scope_depth = 0
         /\ c.control_statement_depth = 0
<1>1. b[1].rule \notin Branches /\ b[1].rule \notin {"while"} /\ b[1].rule \notin {"scope"}
  BY DEF Branches
<1>2. /\ Count(b, Branches) = 0 /\ Count(b, {"while"}) = 0 /\ Count(b, {"scope"}) = 0
  BY <1>1, CountOne
<1>3. /\ Len(c.conditions) = 0 /\ Len(c.loops) = 0 /\ c.code_labels = << >>
      /\ c.loops_depth = 0 /\ c.scope_depth = 0 /\ c.control_statement_depth = 0
  BY <1>2 DEF Balanced
<1>4. c.conditions \in Seq(Labels) /\ c.loops \in Seq(Labels)
  BY ConstructorFields
<1>5. QED
  BY <1>3, <1>4, EmptySeq DEF NothingOpen

\* A function's block holds nothing in the constructor.
LEMMA BalancedFunction ==
  ASSUME NEW below, NEW b, Adds(below, b, "function"),
         NEW c \in Constructors, NEW r \in Constructors, SameStacks(c, r)
  PROVE  Balanced(c, below) <=> Balanced(r, b)
<1>1. Deeper(c, r, "function")
  <2>1. "function" \notin Branches
    BY DEF Branches
  <2>2. /\ c.conditions = r.conditions /\ c.loops = r.loops
        /\ c.loops_depth = r.loops_depth /\ c.scope_depth = r.scope_depth
        /\ c.control_statement_depth = r.control_statement_depth
        /\ c.code_labels = r.code_labels
    BY DEF SameStacks
  <2>3. /\ Len(c.conditions) \in Nat /\ Len(c.loops) \in Nat
        /\ c.loops_depth \in Int /\ c.scope_depth \in Int
        /\ c.control_statement_depth \in Int
    BY StackLengths
  <2>4. QED
    BY <2>1, <2>2, <2>3 DEF Deeper
<1>2. "function" \in OpenRules
  BY DEF OpenRules
<1>3. QED
  BY <1>1, <1>2, BalancedDeeper

LEMMA HeaderSound ==
  ASSUME NEW b, Len(b) = 1, b[1].rule = "program",
         NEW fs, NEW c, Sound(c, b, fs), NEW d, Adds(b, d, "function"),
         NEW f \in Names, fs[f].status # "defined", NEW gs,
         gs[f].status = "defined", \A g \in Names \ {f} : gs[g] = fs[g],
         NEW r, r = FunctionHeader(c, f)
  PROVE  Sound(r, d, gs) /\ r.to_buffer
<1>1. c \in Constructors /\ Balanced(c, b) /\ Ordered(c, fs)
  BY DEF Sound
<1>2. NothingOpen(c)
  BY <1>1, ProgramOnly
<1>3. /\ Ordered(r, gs) /\ SameStacks(c, r) /\ r \in Constructors /\ r.to_buffer
  BY <1>1, <1>2, OrderedHeader
<1>4. Balanced(r, d)
  BY <1>1, <1>3, BalancedFunction
<1>5. QED
  BY <1>3, <1>4 DEF Sound

LEMMA FunctionEndSound ==
  ASSUME NEW below, NEW b, Adds(below, b, "function"),
         Len(below) = 1, below[1].rule = "program",
         NEW fs, NEW c, Sound(c, b, fs), NEW r, r = FunctionEnd(c)
  PROVE  Sound(r, below, fs) /\ ~r.to_buffer
<1>1. c \in Constructors /\ Balanced(c, b) /\ Ordered(c, fs)
  BY DEF Sound
<1>2. SameStacks(c, c)
  BY DEF SameStacks
<1>3. Balanced(c, below)
  BY <1>1, <1>2, BalancedFunction
<1>4. NothingOpen(c)
  BY <1>1, <1>3, ProgramOnly
<1>5. /\ Ordered(r, fs) /\ SameStacks(c, r) /\ r \in Constructors /\ ~r.to_buffer
  BY <1>1, <1>4, OrderedFunctionEnd
<1>6. Balanced(r, b) /\ SameStacks(r, r)
  <2>1. SameRules(b, b)
    BY DEF SameRules
  <2>2. QED
    BY <1>1, <1>5, <2>1, BalancedSame DEF SameStacks
<1>7. Balanced(r, below)
  BY <1>5, <1>6, BalancedFunction
<1>8. QED
  BY <1>5, <1>7 DEF Sound

-----------------------------------------------------------------------------
(* The sequence of open blocks.                                            *)

LEMMA BlockAdded ==
  ASSUME NEW b \in Seq(Blocks), Len(b) > 0, NEW k \in Blocks
  PROVE  /\ Append(b, k) \in Seq(Blocks) /\ Len(Append(b, k)) = Len(b) + 1
         /\ Adds(b, Append(b, k), k.rule)
         /\ \A i \in 1..Len(b) : Append(b, k)[i] = b[i]
<1>1. Len(b) \in Nat
  BY LenProperties
<1>2. /\ Append(b, k) \in Seq(Blocks) /\ Len(Append(b, k)) = Len(b) + 1
      /\ \A i \in 1..Len(b) : Append(b, k)[i] = b[i]
      /\ Append(b, k)[Len(b) + 1] = k
  BY AppendProperties
<1>3. QED
  BY <1>1, <1>2 DEF Adds

LEMMA BlockRemoved ==
  ASSUME NEW b \in Seq(Blocks), Len(b) > 1
  PROVE  /\ Front(b) \in Seq(Blocks) /\ Len(Front(b)) = Len(b) - 1
         /\ Adds(Front(b), b, Last(b).rule)
         /\ \A i \in 1..Len(b) - 1 : Front(b)[i] = b[i]
         /\ Last(b) = b[Len(b)]
<1>1. Len(b) \in Nat
  BY LenProperties
<1>2. /\ Front(b) \in Seq(Blocks) /\ Len(Front(b)) = Len(b) - 1
      /\ \A i \in 1..Len(b) - 1 : Front(b)[i] = b[i]
      /\ Last(b) = b[Len(b)]
  BY <1>1, SplitLast
<1> DEFINE n == Len(b) - 1
           front == Front(b)
<1>3. n \in Nat /\ Len(b) = n + 1 /\ Len(front) = n
      /\ (\A i \in 1..n : front[i] = b[i]) /\ Last(b) = b[n + 1]
  BY <1>1, <1>2
<1> HIDE DEF n, front
<1>4. Adds(front, b, Last(b).rule)
  BY <1>3 DEF Adds
<1>5. QED
  BY <1>2, <1>4 DEF front

\* The last block replaced by one of another rule.
LEMMA BlockReplaced ==
  ASSUME NEW b \in Seq(Blocks), Len(b) > 1, NEW k \in Blocks,
         NEW d, d = Append(Front(b), k)
  PROVE  /\ d \in Seq(Blocks) /\ Len(d) = Len(b)
         /\ Adds(Front(b), d, k.rule)
         /\ \A i \in 1..Len(b) - 1 : d[i] = b[i]
         /\ d[Len(b)] = k
<1> DEFINE f == Front(b)
<1>1. f \in Seq(Blocks) /\ Len(f) = Len(b) - 1 /\ Len(b) \in Nat
      /\ \A i \in 1..Len(b) - 1 : f[i] = b[i]
  BY BlockRemoved, LenProperties
<1>2. d = Append(f, k)
  OBVIOUS
<1> HIDE DEF f
<1>3. Len(f) > 0
  BY <1>1
<1>4. /\ d \in Seq(Blocks) /\ Len(d) = Len(f) + 1
      /\ Adds(f, d, k.rule)
      /\ \A i \in 1..Len(f) : d[i] = f[i]
  BY <1>1, <1>2, <1>3, BlockAdded
<1>5. d[Len(f) + 1] = k
  BY <1>1, <1>2, AppendProperties
<1>6. Len(f) + 1 = Len(b)
  BY <1>1
<1>7. QED
  BY <1>1, <1>4, <1>5, <1>6 DEF f

\* A variable declared in the innermost block.
LEMMA BlockChanged ==
  ASSUME NEW b \in Seq(Blocks), Len(b) > 0, NEW name \in Names,
         NEW v \in Variable \cup {NoVariable},
         NEW d, d = [b EXCEPT ![Len(b)].table.vars[name] = v]
  PROVE  d \in Seq(Blocks) /\ SameRules(b, d)
<1> DEFINE n == Len(b)
           old == b[n]
           vars_ == [old.table.vars EXCEPT ![name] = v]
           table_ == [old.table EXCEPT !.vars = vars_]
           new == [old EXCEPT !.table = table_]
<1>1. n \in Nat /\ n \in 1..n /\ old \in Blocks
  BY LenProperties, ElementOfSeq
<1>2. old.rule \in OpenRules /\ old.table \in Table
  BY <1>1 DEF Blocks
<1>3. vars_ \in [Names -> Variable \cup {NoVariable}]
  BY <1>2 DEF Table
<1> HIDE DEF vars_
<1>4. table_ \in Table
  BY <1>2, <1>3 DEF Table
<1> HIDE DEF table_
<1>5. new \in Blocks /\ new.rule = old.rule
  BY <1>1, <1>4 DEF Blocks
<1>6. d = [b EXCEPT ![n] = new]
  BY DEF table_, vars_
<1> HIDE DEF n, new, old
<1>7. d \in Seq(Blocks) /\ Len(d) = Len(b)
      /\ \A i \in 1..Len(b) : d[i] = IF i = n THEN new ELSE b[i]
  <2>1. n \in 1..Len(b) /\ new \in Blocks
    BY <1>1, <1>5 DEF n
  <2>2. d \in Seq(Blocks) /\ Len(d) = Len(b)
    BY SMTT(90), <1>6, <2>1, ExceptSeq
  <2>3. \A i \in 1..Len(b) : d[i] = IF i = n THEN new ELSE b[i]
    BY <1>6, <2>1, ExceptSeq
  <2>4. QED
    BY <2>2, <2>3
<1>8. \A i \in 1..Len(b) : b[i].rule = d[i].rule
  BY <1>5, <1>7 DEF old
<1>9. QED
  BY <1>7, <1>8 DEF SameRules

LEMMA BlockType ==
  ASSUME NEW rule \in OpenRules
  PROVE  Block(rule) \in Blocks /\ Block(rule).rule = rule
<1>1. EmptyTable(0, NoName) \in Table
  BY EmptyTableType
<1>2. QED
  BY <1>1 DEF Block, Blocks

-----------------------------------------------------------------------------
(* Where the parser is, when blocks come and go.                           *)

LEMMA PlacementSame ==
  ASSUME NEW p, NEW b, NEW buffered, NEW fs, NEW actual,
         Placement(p, b, buffered, fs, actual),
         Len(b) \in Nat, Len(b) > 0, NEW d, SameRules(b, d)
  PROVE  Placement(p, d, buffered, fs, actual)
<1>1. Len(d) = Len(b) /\ \A i \in 1..Len(b) : d[i].rule = b[i].rule
  BY DEF SameRules
<1>2. d[1].rule = b[1].rule
  BY <1>1
<1>3. Len(b) > 1 => d[2].rule = b[2].rule
  BY <1>1
<1>4. \A i \in 2..Len(b) : d[i].rule = b[i].rule
  BY <1>1
<1>5. QED
  BY <1>1, <1>2, <1>3, <1>4 DEF Placement

LEMMA PlacementOpened ==
  ASSUME NEW p, NEW b, NEW buffered, NEW fs, NEW actual,
         Placement(p, b, buffered, fs, actual), Len(b) > 1,
         NEW d, NEW rule \in OpenRules \ {"program", "function"}, Adds(b, d, rule),
         p # "shared"
  PROVE  Placement(p, d, buffered, fs, actual)
<1>1. /\ Len(b) \in Nat /\ Len(d) = Len(b) + 1
      /\ \A i \in 1..Len(b) : d[i].rule = b[i].rule
      /\ d[Len(b) + 1].rule = rule
  BY DEF Adds
<1>2. d[1].rule = b[1].rule /\ d[2].rule = b[2].rule
  BY <1>1
<1>3. \A i \in 2..Len(d) : i \in 2..Len(b) \/ i = Len(b) + 1
  BY <1>1
<1>4. \A i \in 2..Len(d) :
        d[i].rule # "program" /\ (d[i].rule = "function" => i = 2)
  <2>1. \A i \in 2..Len(b) : d[i].rule = b[i].rule
    BY <1>1
  <2>2. QED
    BY <1>1, <1>3, <2>1 DEF Placement
<1>5. Len(d) > 1 /\ Len(d) # 1 /\ Len(b) # 1
  BY <1>1
<1>6. QED
  BY <1>2, <1>4, <1>5 DEF Placement

LEMMA PlacementClosed ==
  ASSUME NEW p, NEW b, NEW buffered, NEW fs, NEW actual,
         Placement(p, b, buffered, fs, actual),
         NEW d, NEW rule, Adds(d, b, rule), Len(d) > 1
  PROVE  Placement(p, d, buffered, fs, actual)
<1>1. /\ Len(d) \in Nat /\ Len(b) = Len(d) + 1
      /\ \A i \in 1..Len(d) : d[i].rule = b[i].rule
  BY DEF Adds
<1>2. d[1].rule = b[1].rule /\ d[2].rule = b[2].rule
  BY <1>1
<1>3. \A i \in 2..Len(d) : i \in 2..Len(b) /\ d[i].rule = b[i].rule
  BY <1>1
<1>4. Len(b) > 1 /\ Len(d) # 1 /\ Len(b) # 1
  BY <1>1
<1>5. QED
  BY <1>2, <1>3, <1>4 DEF Placement

\* Branches and loops are inside a function or inside the main part.
LEMMA Nested ==
  ASSUME NEW p \in {"definitions", "scope", "shared"}, NEW b, NEW buffered, NEW fs,
         NEW actual, Placement(p, b, buffered, fs, actual),
         Len(b) \in Nat, Len(b) > 0
  PROVE  /\ b[Len(b)].rule \in Branches \cup {"while"} => Len(b) > 2
         /\ b[Len(b)].rule = "scope" /\ ~(p = "scope" /\ Len(b) = 2) => Len(b) > 2
         /\ b[Len(b)].rule = "function" => Len(b) = 2 /\ p = "definitions"
<1> DEFINE n == Len(b)
<1>1. n \in Nat /\ n > 0
  OBVIOUS
<1> HIDE DEF n
<1>2. n = 1 \/ n = 2 \/ (n > 2 /\ n \in 2..n /\ n # 2)
  BY <1>1
<1>3. CASE n = 1
  BY <1>3 DEF Placement, Branches, n
<1>4. CASE n = 2
  BY <1>4 DEF Placement, Branches, n
<1>5. CASE n > 2 /\ n \in 2..n /\ n # 2
  <2>1. b[n].rule # "function"
    BY <1>5 DEF Placement, n
  <2>2. QED
    BY <1>5, <2>1 DEF n
<1>6. QED
  BY <1>2, <1>3, <1>4, <1>5

-----------------------------------------------------------------------------
(* The constructs that only emit code.                                     *)

LEMMA DeclarationPlaced ==
  ASSUME NEW c \in Constructors, NEW fs, Ordered(c, fs)
  PROVE  c.loops_initial = NoLabel \/ c.loops_initial \in Placed(c)
<1>1. OutermostLoop(c)
  BY DEF Ordered
<1>2. CASE Len(c.loops) = 0
  BY <1>1, <1>2 DEF OutermostLoop
<1>3. CASE Len(c.loops) # 0
  <2>1. c.loops_initial = c.loops[1] /\ HasPlace(c, c.loops_initial)
    BY <1>1, <1>3 DEF OutermostLoop
  <2>2. c.loops_initial \in Labels /\ Len(Writing(c)) \in Nat
    BY ConstructorFields
  <2>3. PICK i \in 2..Len(Writing(c)) : Writing(c)[i] = AtLabel(c.loops_initial)
    BY <2>1 DEF HasPlace
  <2>4. i \in DOMAIN Writing(c)
    BY <2>2, ConstructorFields
  <2>5. c.loops_initial \in PlacedIn(Writing(c))
    BY <2>2, <2>3, <2>4 DEF PlacedIn
  <2>6. QED
    BY <2>5 DEF Writing, Placed
<1>4. QED
  BY <1>2, <1>3

LEMMA DeclarationSound ==
  ASSUME NEW b, NEW fs, NEW c, Sound(c, b, fs), NEW d, SameRules(b, d),
         NEW o \in Targets, NEW value, value.code \in Seq(ExpressionCode(fs)),
         NEW declared, NEW r, r = Initialised(declared, o, value),
         \/ declared = VariableDeclaration(c, o)
         \/ declared = SharedVariableDeclaration(c, o)
  PROVE  Sound(r, d, fs) /\ r.to_buffer = c.to_buffer
<1> DEFINE F == FunctionLabels(fs)
           none == {}
<1>1. c \in Constructors /\ Ordered(c, fs)
  BY DEF Sound
<1>2. Statement(c, declared, none)
  BY <1>1, DeclarationPlaced, DeclarationStatement
<1>3. declared \in Constructors
  BY <1>2 DEF Statement, Grows
<1>4. Statement(declared, r, F)
  BY <1>3, InitialisedStatement
<1>5. none \subseteq F /\ F \subseteq FunctionLabels(fs)
  OBVIOUS
<1> HIDE DEF none, F
<1>6. Statement(c, declared, F)
  BY <1>2, <1>5, StatementWider
<1>7. Statement(c, r, F)
  BY <1>1, <1>4, <1>6, StatementsOn
<1>8. QED
  BY <1>5, <1>7, StatementSound

\* The code of an expression and what is done with its value.
LEMMA UseSound ==
  ASSUME NEW b, NEW fs, NEW c, Sound(c, b, fs), Len(b) \in Nat,
         NEW code \in Seq(ExpressionCode(fs)), NEW filled, filled = Emit(c, code),
         NEW o \in Targets, NEW r,
         \/ r = Assignment(filled, o)
         \/ r = PrintExpression(filled)
         \/ r = Return(filled)
  PROVE  Sound(r, b, fs) /\ r.to_buffer = c.to_buffer
<1> DEFINE none == {}
<1>1. Sound(filled, b, fs) /\ filled.to_buffer = c.to_buffer /\ filled \in Constructors
  BY ExpressionSound
<1>2. Statement(filled, r, none)
  BY <1>1, SimpleStatements
<1>3. none \subseteq FunctionLabels(fs) /\ SameRules(b, b)
  BY DEF SameRules
<1> HIDE DEF none
<1>4. Sound(r, b, fs) /\ r.to_buffer = filled.to_buffer
  BY <1>1, <1>2, <1>3, StatementSound
<1>5. QED
  BY <1>1, <1>4

LEMMA InputSound ==
  ASSUME NEW b, NEW fs, NEW c, Sound(c, b, fs), Len(b) \in Nat,
         NEW o \in Targets, NEW r, r = Input(c, o)
  PROVE  Sound(r, b, fs) /\ r.to_buffer = c.to_buffer
<1> DEFINE none == {}
<1>1. Statement(c, r, none)
  BY SimpleStatements DEF Sound
<1>2. none \subseteq FunctionLabels(fs) /\ SameRules(b, b)
  BY DEF SameRules
<1> HIDE DEF none
<1>3. QED
  BY <1>1, <1>2, StatementSound

-----------------------------------------------------------------------------
(* One lemma for each action of the parser.                                *)

\* What holds while the program is read, and after it was refused.
Parsing == ParserTypes /\ Shape /\ Sound(constructor, blocks, functions)

StillParsing == Parsing /\ part \in {"definitions", "scope", "shared"}

\* The constructor and the blocks that come next, and nothing else but the
\* tables: what most constructs do.
LEMMA ParsingOn ==
  ASSUME StillParsing, kind' = kind, left' \in [Constructs -> Nat],
         part' = part, functions' = functions, actual_function' = actual_function,
         was_actual_function_declared' = was_actual_function_declared,
         variables' \in Seq(Table), Len(variables') > 0,
         variables_table_counter' \in Nat, globals' \subseteq Identities,
         blocks' \in Seq(Blocks), Len(blocks') > 0,
         Sound(constructor', blocks', functions),
         constructor'.to_buffer = constructor.to_buffer,
         Placement(part, blocks', constructor.to_buffer, functions, actual_function)
  PROVE  Parsing'
<1>1. constructor' \in Constructors
  BY DEF Sound
<1>2. ParserTypes'
  BY <1>1 DEF StillParsing, Parsing, ParserTypes
<1>3. Shape'
  BY DEF Shape
<1>4. QED
  BY <1>2, <1>3 DEF Parsing

LEMMA Spent ==
  ASSUME left \in [Constructs -> Nat], NEW construct \in Constructs, Spend(construct)
  PROVE  left' \in [Constructs -> Nat]
<1> DEFINE n == left[construct] - 1
<1>1. left[construct] \in Nat /\ left[construct] > 0
  BY DEF Spend
<1>2. n \in Nat
  BY <1>1
<1>3. left' = [left EXCEPT ![construct] = n]
  BY DEF Spend
<1> HIDE DEF n
<1>4. QED
  BY <1>2, <1>3

LEMMA RefusedParsing ==
  ASSUME StillParsing, kind' = kind, left' \in [Constructs -> Nat], RefuseProgram
  PROVE  Parsing' /\ part' = "refused"
<1>1. ParserTypes'
  BY DEF StillParsing, Parsing, ParserTypes, RefuseProgram
<1>2. Shape'
  BY DEF StillParsing, Parsing, Shape, Placement, RefuseProgram
<1>3. Sound(constructor, blocks, functions)'
  BY DEF StillParsing, Parsing, RefuseProgram
<1>4. QED
  BY <1>1, <1>2, <1>3 DEF Parsing, RefuseProgram

\* Only code.
LEMMA OnlyCodeParsing ==
  ASSUME StillParsing, kind' = kind, left' \in [Constructs -> Nat], OnlyCode,
         Sound(constructor', blocks, functions),
         constructor'.to_buffer = constructor.to_buffer
  PROVE  Parsing'
<1>1. /\ part' = part /\ functions' = functions /\ actual_function' = actual_function
      /\ was_actual_function_declared' = was_actual_function_declared
      /\ variables' = variables /\ globals' = globals /\ blocks' = blocks
      /\ variables_table_counter' = variables_table_counter
  BY DEF OnlyCode
<1>2. /\ variables \in Seq(Table) /\ Len(variables) > 0
      /\ variables_table_counter \in Nat /\ globals \subseteq Identities
      /\ blocks \in Seq(Blocks) /\ Len(blocks) > 0
  BY DEF StillParsing, Parsing, ParserTypes
<1>3. Placement(part, blocks, constructor.to_buffer, functions, actual_function)
  BY DEF StillParsing, Parsing, Shape
<1>4. QED
  BY <1>1, <1>2, <1>3, ParsingOn

\* What an expression of a construct of this kind of program becomes.
LEMMA Evaluated ==
  ASSUME StillParsing, NEW construct \in Constructs,
         NEW e \in Programs[kind].expressions[construct],
         NEW stack \in Seq(Table), NEW frames
  PROVE  /\ Expression(e, stack, frames, functions).code \in Seq(ExpressionCode(functions))
         /\ Fits(Expression(e, stack, frames, functions), construct)
<1>1. kind \in DOMAIN Programs /\ functions \in Functions
  BY DEF StillParsing, Parsing, ParserTypes
<1>2. QED
  BY <1>1, ExpressionOf

LEMMA EvaluatedHere ==
  ASSUME StillParsing, NEW construct \in Constructs,
         NEW e \in Programs[kind].expressions[construct]
  PROVE  /\ Evaluate(e).code \in Seq(ExpressionCode(functions))
         /\ Fits(Evaluate(e), construct)
         /\ Sound(constructor, blocks, functions) /\ Len(blocks) \in Nat
<1>1. variables \in Seq(Table) /\ blocks \in Seq(Blocks)
  BY DEF StillParsing, Parsing, ParserTypes
<1>2. /\ Expression(e, variables, globals, functions).code \in Seq(ExpressionCode(functions))
      /\ Fits(Expression(e, variables, globals, functions), construct)
  BY <1>1, Evaluated
<1>3. QED
  BY <1>1, <1>2, LenProperties DEF Evaluate, StillParsing, Parsing

LEMMA AssignParsing ==
  ASSUME StillParsing, kind' = kind, NEW name \in Names,
         NEW e \in Programs[kind].expressions["assign"], Assign(name, e)
  PROVE  Parsing' /\ part' # "parsed"
<1> DEFINE c == Emit(constructor, Evaluate(e).code)
           o == VariableOperand(Find(variables, name), globals)
<1>1. left' \in [Constructs -> Nat]
  BY Spent DEF Assign, StillParsing, Parsing, ParserTypes, Constructs
<1>2. CASE RefuseProgram
  BY <1>1, <1>2, RefusedParsing
<1>3. CASE /\ Find(variables, name) # NoVariable
           /\ constructor' = Assignment(c, o)
           /\ OnlyCode
  <2>1. variables \in Seq(Table)
    BY DEF StillParsing, Parsing, ParserTypes
  <2>2. Find(variables, name) \in Variable
    BY <1>3, <2>1, FindType
  <2>3. o \in Targets
    BY <2>2, OperandTypes
  <2>4. /\ Evaluate(e).code \in Seq(ExpressionCode(functions))
        /\ Sound(constructor, blocks, functions) /\ Len(blocks) \in Nat
    BY EvaluatedHere DEF Constructs
  <2> HIDE DEF o
  <2>5. Sound(constructor', blocks, functions)
        /\ constructor'.to_buffer = constructor.to_buffer
    BY <1>3, <2>3, <2>4, UseSound
  <2>6. part' = part
    BY <1>3 DEF OnlyCode
  <2>7. QED
    BY <1>1, <1>3, <2>5, <2>6, OnlyCodeParsing DEF StillParsing
<1>4. QED
  BY <1>2, <1>3 DEF Assign

LEMMA InputParsing ==
  ASSUME StillParsing, kind' = kind, NEW name \in Names, InputTo(name)
  PROVE  Parsing' /\ part' # "parsed"
<1> DEFINE o == VariableOperand(Find(variables, name), globals)
<1>1. left' \in [Constructs -> Nat]
  BY Spent DEF InputTo, StillParsing, Parsing, ParserTypes, Constructs
<1>2. CASE RefuseProgram
  BY <1>1, <1>2, RefusedParsing
<1>3. CASE /\ Find(variables, name) # NoVariable
           /\ constructor' = Input(constructor, o)
           /\ OnlyCode
  <2>1. variables \in Seq(Table) /\ blocks \in Seq(Blocks)
    BY DEF StillParsing, Parsing, ParserTypes
  <2>2. Find(variables, name) \in Variable
    BY <1>3, <2>1, FindType
  <2>3. o \in Targets
    BY <2>2, OperandTypes
  <2>4. Sound(constructor, blocks, functions) /\ Len(blocks) \in Nat
    BY <2>1, LenProperties DEF StillParsing, Parsing
  <2> HIDE DEF o
  <2>5. Sound(constructor', blocks, functions)
        /\ constructor'.to_buffer = constructor.to_buffer
    BY <1>3, <2>3, <2>4, InputSound
  <2>6. part' = part
    BY <1>3 DEF OnlyCode
  <2>7. QED
    BY <1>1, <1>3, <2>5, <2>6, OnlyCodeParsing DEF StillParsing
<1>4. QED
  BY <1>2, <1>3 DEF InputTo

LEMMA ReturnParsing ==
  ASSUME StillParsing, kind' = kind,
         NEW e \in Programs[kind].expressions["return"], ReturnValue(e)
  PROVE  Parsing' /\ part' # "parsed"
<1> DEFINE c == Emit(constructor, Evaluate(e).code)
<1>1. left' \in [Constructs -> Nat]
  BY Spent DEF ReturnValue, StillParsing, Parsing, ParserTypes, Constructs
<1>2. CASE RefuseProgram
  BY <1>1, <1>2, RefusedParsing
<1>3. CASE constructor' = Return(c) /\ OnlyCode
  <2>1. /\ Evaluate(e).code \in Seq(ExpressionCode(functions))
        /\ Sound(constructor, blocks, functions) /\ Len(blocks) \in Nat
    BY EvaluatedHere DEF Constructs
  <2>2. Temporary \in Targets
    BY OperandTypes
  <2>3. Sound(constructor', blocks, functions)
        /\ constructor'.to_buffer = constructor.to_buffer
    BY <1>3, <2>1, <2>2, UseSound
  <2>4. part' = part
    BY <1>3 DEF OnlyCode
  <2>5. QED
    BY <1>1, <1>3, <2>3, <2>4, OnlyCodeParsing DEF StillParsing
<1>4. QED
  BY <1>2, <1>3 DEF ReturnValue, OnlyCode

LEMMA PrintParsing ==
  ASSUME StillParsing, kind' = kind,
         NEW e \in Programs[kind].expressions["print"], PrintValue(e)
  PROVE  Parsing' /\ part' # "parsed"
<1> DEFINE c == Emit(constructor, Evaluate(e).code)
<1>1. left' \in [Constructs -> Nat]
  BY Spent DEF PrintValue, StillParsing, Parsing, ParserTypes, Constructs
<1>2. CASE RefuseProgram
  BY <1>1, <1>2, RefusedParsing
<1>3. CASE constructor' = PrintExpression(c) /\ OnlyCode
  <2>1. /\ Evaluate(e).code \in Seq(ExpressionCode(functions))
        /\ Sound(constructor, blocks, functions) /\ Len(blocks) \in Nat
    BY EvaluatedHere DEF Constructs
  <2>2. Temporary \in Targets
    BY OperandTypes
  <2>3. Sound(constructor', blocks, functions)
        /\ constructor'.to_buffer = constructor.to_buffer
    BY <1>3, <2>1, <2>2, UseSound
  <2>4. part' = part
    BY <1>3 DEF OnlyCode
  <2>5. QED
    BY <1>1, <1>3, <2>3, <2>4, OnlyCodeParsing DEF StillParsing
<1>4. QED
  BY <1>2, <1>3 DEF PrintValue

\* A variable is declared: its block and its table hold it.
LEMMA DeclareParsing ==
  ASSUME StillParsing, kind' = kind, left' \in [Constructs -> Nat],
         NEW name \in Names, Declarable(name), NEW frames, frames \subseteq Identities,
         NEW declared, NEW value, Declare(name, frames, declared, value),
         declared.to_buffer = constructor.to_buffer,
         \A d : SameRules(blocks, d) => Sound(declared, d, functions)
  PROVE  Parsing' /\ part' # "parsed"
<1>1. /\ variables \in Seq(Table) /\ Len(variables) > 0
      /\ variables_table_counter \in Nat
      /\ blocks \in Seq(Blocks) /\ Len(blocks) > 0
  BY DEF StillParsing, Parsing, ParserTypes
<1>2. /\ part' = part /\ functions' = functions /\ actual_function' = actual_function
      /\ was_actual_function_declared' = was_actual_function_declared
      /\ variables_table_counter' = variables_table_counter
      /\ globals' = frames /\ constructor' = declared
      /\ variables' = AddVariable(variables, name, 0, 0)
      /\ blocks' = [blocks EXCEPT ![Len(blocks)].table.vars[name] =
                      Find(variables', name)]
  BY DEF Declare
<1>3. ~Holds(Top(variables), name)
  BY DEF Declarable
<1>4. variables' \in Seq(Table) /\ Len(variables') = Len(variables)
  <2> DEFINE s == AddVariable(variables, name, 0, 0)
             v == NewVariable(Top(variables), name, 0, 0)
  <2>1. s \in Seq(Table) /\ Len(s) = Len(variables)
    <3>1. 0 \in Nat
      OBVIOUS
    <3>2. s = AddVariable(variables, name, 0, 0)
          /\ v = NewVariable(Top(variables), name, 0, 0)
      OBVIOUS
    <3> HIDE DEF s, v
    <3>3. QED
      BY <1>1, <1>3, <3>1, <3>2, AddVariableEffect
  <2>2. QED
    BY <1>2, <2>1
<1>5. Find(variables', name) \in Variable \cup {NoVariable}
  BY <1>4, FindType
<1>6. blocks' \in Seq(Blocks) /\ SameRules(blocks, blocks')
  BY <1>1, <1>2, <1>5, BlockChanged
<1>7. Len(variables') > 0 /\ Len(blocks') > 0
  BY <1>1, <1>4, <1>6 DEF SameRules
<1>8. Sound(constructor', blocks', functions)
      /\ constructor'.to_buffer = constructor.to_buffer
  BY <1>2, <1>6
<1>9. Placement(part, blocks', constructor.to_buffer, functions, actual_function)
  BY <1>1, <1>6, LenProperties, PlacementSame DEF StillParsing, Parsing, Shape
<1>10. Parsing'
  BY <1>1, <1>2, <1>4, <1>6, <1>7, <1>8, <1>9, ParsingOn
<1>11. QED
  BY <1>2, <1>10 DEF StillParsing

\* The variable to declare and the value it may begin with.
LEMMA Declaring ==
  ASSUME StillParsing, NEW name \in Names, Declarable(name),
         NEW construct \in Constructs, NEW e \in Programs[kind].expressions[construct],
         NEW frames
  PROVE  /\ New(name) \in Variable
         /\ WithNew(name, frames, e).code \in Seq(ExpressionCode(functions))
         /\ globals \subseteq Identities /\ Global(name) \subseteq Identities
<1>1. /\ variables \in Seq(Table) /\ Len(variables) > 0 /\ globals \subseteq Identities
  BY DEF StillParsing, Parsing, ParserTypes
<1>2. ~Holds(Top(variables), name) /\ 0 \in Nat
  BY DEF Declarable
<1> DEFINE s == AddVariable(variables, name, 0, 0)
           v == NewVariable(Top(variables), name, 0, 0)
<1>3. s \in Seq(Table) /\ v \in Variable
  BY <1>1, <1>2, AddVariableEffect
<1>4. New(name) = v /\ WithNew(name, frames, e) = Expression(e, s, frames, functions)
  BY DEF New, WithNew
<1> HIDE DEF s, v
<1>5. Expression(e, s, frames, functions).code \in Seq(ExpressionCode(functions))
  BY <1>3, Evaluated
<1>6. Global(name) \subseteq Identities
  BY <1>1, <1>3, <1>4, IdentityType DEF Global
<1>7. QED
  BY <1>1, <1>3, <1>4, <1>5, <1>6

LEMMA DimParsing ==
  ASSUME StillParsing, kind' = kind, NEW name \in Names,
         NEW e \in Programs[kind].expressions["dim"], Dim(name, e)
  PROVE  Parsing' /\ part' # "parsed"
<1> DEFINE frames == IF actual_function = NoName THEN Global(name) ELSE globals
           o == VariableOperand(New(name), frames)
           value == WithNew(name, frames, e)
           d == VariableDeclaration(constructor, o)
           r == Initialised(d, o, value)
<1>1. left' \in [Constructs -> Nat]
  BY Spent DEF Dim, StillParsing, Parsing, ParserTypes, Constructs
<1>2. CASE RefuseProgram
  BY <1>1, <1>2, RefusedParsing
<1>3. CASE Declarable(name) /\ Declare(name, frames, r, value)
  <2>1. "dim" \in Constructs
    BY DEF Constructs
  <2>2. /\ New(name) \in Variable /\ value.code \in Seq(ExpressionCode(functions))
        /\ globals \subseteq Identities /\ Global(name) \subseteq Identities
    BY <1>3, <2>1, Declaring
  <2>3. o \in Targets
    BY <2>2, OperandTypes
  <2>4. frames \subseteq Identities
    BY <2>2
  <2>5. Sound(constructor, blocks, functions) /\ SameRules(blocks, blocks)
    BY DEF StillParsing, Parsing, SameRules
  <2> HIDE DEF frames, o, value
  <2>6. r = Initialised(d, o, value) /\ d = VariableDeclaration(constructor, o)
    OBVIOUS
  <2> HIDE DEF d, r
  <2>7. /\ r.to_buffer = constructor.to_buffer
        /\ \A b : SameRules(blocks, b) => Sound(r, b, functions)
    BY <2>2, <2>3, <2>5, <2>6, DeclarationSound
  <2>8. QED
    BY <1>1, <1>3, <2>4, <2>7, DeclareParsing
<1>4. QED
  BY <1>2, <1>3 DEF Dim

LEMMA DimSharedParsing ==
  ASSUME StillParsing, kind' = kind, NEW name \in Names,
         NEW e \in Programs[kind].expressions["shared"], DimShared(name, e)
  PROVE  Parsing' /\ part' # "parsed"
<1> DEFINE frames == Global(name)
           o == VariableOperand(New(name), frames)
           value == WithNew(name, frames, e)
           d == SharedVariableDeclaration(constructor, o)
           r == Initialised(d, o, value)
<1>1. left' \in [Constructs -> Nat]
  BY Spent DEF DimShared, StillParsing, Parsing, ParserTypes, Constructs
<1>2. CASE RefuseProgram
  BY <1>1, <1>2, RefusedParsing
<1>3. CASE Declarable(name) /\ Declare(name, frames, r, value)
  <2>1. "shared" \in Constructs
    BY DEF Constructs
  <2>2. /\ New(name) \in Variable /\ value.code \in Seq(ExpressionCode(functions))
        /\ frames \subseteq Identities
    BY <1>3, <2>1, Declaring
  <2>3. o \in Targets
    BY <2>2, OperandTypes
  <2>4. Sound(constructor, blocks, functions) /\ SameRules(blocks, blocks)
    BY DEF StillParsing, Parsing, SameRules
  <2> HIDE DEF frames, o, value
  <2>5. r = Initialised(d, o, value) /\ d = SharedVariableDeclaration(constructor, o)
    OBVIOUS
  <2> HIDE DEF d, r
  <2>6. /\ r.to_buffer = constructor.to_buffer
        /\ \A b : SameRules(blocks, b) => Sound(r, b, functions)
    BY <2>2, <2>3, <2>4, <2>5, DeclarationSound
  <2>7. QED
    BY <1>1, <1>3, <2>2, <2>6, DeclareParsing
<1>4. QED
  BY <1>2, <1>3 DEF DimShared

LEMMA StaticParsing ==
  ASSUME StillParsing, kind' = kind, NEW name \in Names,
         NEW e \in Programs[kind].expressions["static"], Static(name, e)
  PROVE  Parsing' /\ part' # "parsed"
<1> DEFINE frames == Global(name)
           o == VariableOperand(New(name), frames)
           flag == FlagOf(New(name), actual_function)
           value == WithNew(name, frames, e)
           d == StaticVariableDeclaration(constructor, o, flag)
           filled == Initialised(d, o, value)
           r == StaticVariableDeclarationEnd(filled, flag)
<1>1. left' \in [Constructs -> Nat]
  BY Spent DEF Static, StillParsing, Parsing, ParserTypes, Constructs
<1>2. CASE RefuseProgram
  BY <1>1, <1>2, RefusedParsing
<1>3. CASE Declarable(name) /\ Declare(name, frames, r, value)
  <2>1. "static" \in Constructs
    BY DEF Constructs
  <2>2. /\ New(name) \in Variable /\ value.code \in Seq(ExpressionCode(functions))
        /\ frames \subseteq Identities
    BY <1>3, <2>1, Declaring
  <2>3. actual_function \in Names \cup {NoName}
    BY DEF StillParsing, Parsing, ParserTypes
  <2>4. o \in Targets /\ flag \in Targets
    BY <2>2, <2>3, OperandTypes
  <2>5. Sound(constructor, blocks, functions) /\ SameRules(blocks, blocks)
    BY DEF StillParsing, Parsing, SameRules
  <2> HIDE DEF frames, o, flag, value
  <2>6. /\ r = StaticVariableDeclarationEnd(filled, flag)
        /\ filled = Initialised(d, o, value)
        /\ d = StaticVariableDeclaration(constructor, o, flag)
    OBVIOUS
  <2> HIDE DEF d, filled, r
  <2>7. /\ r.to_buffer = constructor.to_buffer
        /\ \A b : SameRules(blocks, b) => Sound(r, b, functions)
    BY <2>2, <2>4, <2>5, <2>6, StaticSound
  <2>8. QED
    BY <1>1, <1>3, <2>2, <2>7, DeclareParsing
<1>4. QED
  BY <1>2, <1>3 DEF Static

\* The stack of tables is never empty.
LEMMA PoppedTables ==
  ASSUME NEW stack \in Seq(Table), Len(stack) > 0
  PROVE  PopTable(stack) \in Seq(Table) /\ Len(PopTable(stack)) > 0
<1> DEFINE n == Len(stack)
<1>1. n \in Nat /\ n > 0
  BY LenProperties
<1> HIDE DEF n
<1>2. n = 1 \/ n > 1
  BY <1>1
<1>3. CASE n = 1
  <2>1. EmptyTable(0, NoName) \in Table
    BY EmptyTableType
  <2> DEFINE t == EmptyTable(0, NoName)
  <2> HIDE DEF t
  <2>2. <<t>> \in Seq(Table) /\ Len(<<t>>) > 0
    BY <2>1 DEF t
  <2>3. PopTable(stack) = <<t>>
    BY <1>3, PopLastTable DEF t, n
  <2>4. QED
    BY <2>2, <2>3
<1>4. CASE n > 1
  <2>1. PopTable(stack) \in Seq(Table) /\ Len(PopTable(stack)) = n - 1
    BY <1>4, PopTableEffect DEF n
  <2>2. n - 1 > 0
    BY <1>1, <1>4
  <2>3. QED
    BY <2>1, <2>2
<1>5. QED
  BY <1>2, <1>3, <1>4

LEMMA PushedTables ==
  ASSUME NEW stack \in Seq(Table), Len(stack) > 0, NEW id \in Nat
  PROVE  PushTable(stack, id, NoName) \in Seq(Table)
         /\ Len(PushTable(stack, id, NoName)) > 0
<1> DEFINE t == EmptyTable(id, NoName)
<1>1. t \in Table
  BY EmptyTableType
<1>2. PushTable(stack, id, NoName) = Append(stack, t)
  BY DEF PushTable
<1> HIDE DEF t
<1>3. Append(stack, t) \in Seq(Table) /\ Len(Append(stack, t)) = Len(stack) + 1
      /\ Len(stack) \in Nat
  BY <1>1, AppendProperties, LenProperties
<1>4. QED
  BY <1>2, <1>3

LEMMA DeclareFunctionParsing ==
  ASSUME StillParsing, kind' = kind, NEW f \in Names, NEW params \in Seq(Names),
         DeclareFunction(f, params)
  PROVE  Parsing' /\ part' # "parsed"
<1>1. left' \in [Constructs -> Nat]
  BY Spent DEF DeclareFunction, StillParsing, Parsing, ParserTypes, Constructs
<1>2. CASE RefuseProgram
  BY <1>1, <1>2, RefusedParsing
<1>3. CASE /\ functions[f].status = "none"
           /\ functions' = [functions EXCEPT ![f] =
                              [status |-> "declared", params |-> params]]
           /\ actual_function' = f
           /\ UNCHANGED <<part, variables, variables_table_counter, globals,
                          was_actual_function_declared, constructor, blocks>>
  <2>1. functions \in Functions
    BY DEF StillParsing, Parsing, ParserTypes
  <2>2. functions' \in Functions
        /\ functions'[f].status = "declared"
        /\ \A g \in Names \ {f} : functions'[g] = functions[g]
    <3> DEFINE new == [status |-> "declared", params |-> params]
    <3>1. new \in [status : {"none", "declared", "defined"}, params : Seq(Names)]
          /\ new.status = "declared"
      OBVIOUS
    <3>2. functions' = [functions EXCEPT ![f] = new]
      BY <1>3
    <3> HIDE DEF new
    <3>3. QED
      BY <2>1, <3>1, <3>2 DEF Functions
  <2>3. ParserTypes'
    BY <1>1, <1>3, <2>2 DEF StillParsing, Parsing, ParserTypes
  <2>4. Ordered(constructor, functions')
    <3>1. Ordered(constructor, functions)
      BY DEF StillParsing, Parsing, Sound
    <3>2. \A g \in Names :
            /\ functions[g].status # "none" => functions'[g].status # "none"
            /\ functions'[g].status = "defined" <=> functions[g].status = "defined"
      BY <1>3, <2>2
    <3>3. QED
      BY <3>1, <3>2, OrderedDeclared
  <2>5. Sound(constructor', blocks', functions')
    BY <1>3, <2>4 DEF StillParsing, Parsing, Sound
  <2>6. part = "definitions"
    BY DEF DeclareFunction
  <2>7. Shape'
    BY <1>3, <2>2, <2>6 DEF StillParsing, Parsing, Shape, Placement
  <2>8. QED
    BY <1>3, <2>3, <2>5, <2>6, <2>7 DEF Parsing
<1>4. QED
  BY <1>2, <1>3 DEF DeclareFunction

LEMMA StartFunctionParsing ==
  ASSUME StillParsing, kind' = kind, NEW f \in Names, NEW params \in Seq(Names),
         StartFunction(f, params)
  PROVE  Parsing' /\ part' # "parsed"
<1> DEFINE table == FunctionTable(variables_table_counter + 1, f, params, 0)
           block == [rule |-> "function", table |-> table]
<1>1. left' \in [Constructs -> Nat]
  BY Spent DEF StartFunction, StillParsing, Parsing, ParserTypes, Constructs
<1>2. CASE RefuseProgram
  BY <1>1, <1>2, RefusedParsing
<1>3. CASE ~RefuseProgram
  <2>1. /\ AcceptedDefinition(f, params)
        /\ functions' = [functions EXCEPT ![f] =
                           [status |-> "defined", params |-> params]]
        /\ was_actual_function_declared' = (functions[f].status = "declared")
        /\ actual_function' = f
        /\ constructor' = FunctionHeader(constructor, f)
        /\ variables_table_counter' = variables_table_counter + 1
        /\ variables' = Append(variables, table)
        /\ blocks' = Append(blocks, block)
        /\ UNCHANGED <<part, globals>>
    BY <1>3 DEF StartFunction
  <2>2. /\ part = "definitions" /\ Len(blocks) = 1
        /\ functions[f].status # "defined"
    BY <2>1 DEF StartFunction, AtTopLevel, AcceptedDefinition
  <2>3. /\ functions \in Functions /\ blocks \in Seq(Blocks)
        /\ variables \in Seq(Table) /\ Len(variables) > 0
        /\ variables_table_counter \in Nat
        /\ Sound(constructor, blocks, functions)
        /\ blocks[1].rule = "program"
    BY DEF StillParsing, Parsing, ParserTypes, Shape, Placement
  <2>4. table \in Table
    <3> DEFINE id == variables_table_counter + 1
               none == 0
    <3>1. id \in Nat /\ none \in Nat
      BY <2>3
    <3>2. table = FunctionTable(id, f, params, none)
      OBVIOUS
    <3> HIDE DEF id, none, table
    <3>3. QED
      BY <3>1, <3>2, FunctionTableType
  <2> HIDE DEF table
  <2>5. block \in Blocks /\ block.rule = "function"
    BY <2>4 DEF Blocks, OpenRules
  <2> HIDE DEF block
  <2>6. /\ functions' \in Functions /\ functions'[f].status = "defined"
        /\ \A g \in Names \ {f} : functions'[g] = functions[g]
    <3> DEFINE new == [status |-> "defined", params |-> params]
    <3>1. new \in [status : {"none", "declared", "defined"}, params : Seq(Names)]
          /\ new.status = "defined"
      OBVIOUS
    <3>2. functions' = [functions EXCEPT ![f] = new]
      BY <2>1
    <3> HIDE DEF new
    <3>3. QED
      BY <2>3, <3>1, <3>2 DEF Functions
  <2>7. blocks' \in Seq(Blocks) /\ Len(blocks') = Len(blocks) + 1
        /\ Adds(blocks, blocks', "function")
    <3>1. /\ Append(blocks, block) \in Seq(Blocks)
          /\ Len(Append(blocks, block)) = Len(blocks) + 1
          /\ Adds(blocks, Append(blocks, block), block.rule)
      <4>1. Len(blocks) > 0
        BY <2>2
      <4>2. QED
        BY <2>3, <2>5, <4>1, BlockAdded
    <3>2. QED
      BY <2>1, <2>5, <3>1
  <2>8. Len(blocks') = 2 /\ blocks'[1].rule = "program" /\ blocks'[2].rule = "function"
    BY <2>2, <2>3, <2>7 DEF Adds
  <2>9. Sound(constructor', blocks', functions') /\ constructor'.to_buffer
    <3>1. constructor' = FunctionHeader(constructor, f)
      BY <2>1
    <3>2. Len(blocks) = 1 /\ functions[f].status # "defined"
      BY <2>2
    <3>3. Sound(constructor, blocks, functions) /\ blocks[1].rule = "program"
      BY <2>3
    <3>4. Adds(blocks, blocks', "function")
      BY <2>7
    <3>5. QED
      BY <2>6, <3>1, <3>2, <3>3, <3>4, HeaderSound
  <2>10. variables' \in Seq(Table) /\ Len(variables') > 0
    <3>1. variables' \in Seq(Table) /\ Len(variables') = Len(variables) + 1
          /\ Len(variables) \in Nat
      BY <2>1, <2>3, <2>4, AppendProperties, LenProperties
    <3>2. QED
      BY <3>1
  <2>11. ParserTypes'
    <3>1. constructor' \in Constructors
      BY <2>9 DEF Sound
    <3>2. variables_table_counter' \in Nat
      BY <2>1, <2>3
    <3>3. Len(blocks') > 0
      BY <2>8
    <3>4. /\ part' = part /\ globals' = globals /\ actual_function' = f
          /\ was_actual_function_declared' \in BOOLEAN
      BY <2>1
    <3>5. QED
      BY <1>1, <2>6, <2>7, <2>10, <3>1, <3>2, <3>3, <3>4
         DEF StillParsing, Parsing, ParserTypes
  <2>12. Shape'
    <3>1. \A i \in 2..Len(blocks') : i = 2
      BY <2>8
    <3>2. Len(blocks') > 1 /\ Len(blocks') # 1 /\ part' = "definitions"
      BY <2>1, <2>2, <2>8
    <3>3. QED
      BY <2>8, <2>9, <3>1, <3>2 DEF Shape, Placement
  <2>13. QED
    BY <2>1, <2>2, <2>9, <2>11, <2>12 DEF Parsing
<1>4. QED
  BY <1>2, <1>3

LEMMA EndFunctionParsing ==
  ASSUME StillParsing, kind' = kind, EndFunction
  PROVE  Parsing' /\ part' # "parsed"
<1>1. /\ blocks \in Seq(Blocks) /\ Len(blocks) > 0
      /\ variables \in Seq(Table) /\ Len(variables) > 0
      /\ Sound(constructor, blocks, functions)
      /\ Placement(part, blocks, constructor.to_buffer, functions, actual_function)
      /\ part \in {"definitions", "scope", "shared"}
  BY DEF StillParsing, Parsing, ParserTypes, Shape
<1>2. Len(blocks) \in Nat /\ Last(blocks) = blocks[Len(blocks)]
      /\ Last(blocks).rule = "function"
  BY <1>1, LenProperties, SplitLast DEF EndFunction, Rule
<1>3. Len(blocks) = 2 /\ part = "definitions"
  BY <1>1, <1>2, Nested
<1>4. /\ blocks' \in Seq(Blocks) /\ Len(blocks') = Len(blocks) - 1
      /\ Adds(blocks', blocks, "function")
      /\ \A i \in 1..Len(blocks) - 1 : blocks'[i] = blocks[i]
  <2>1. blocks' = Front(blocks) /\ Len(blocks) > 1
    BY <1>2, <1>3 DEF EndFunction
  <2>2. QED
    BY <1>1, <1>2, <2>1, BlockRemoved
<1>5. Len(blocks') = 1 /\ blocks'[1].rule = "program"
  BY <1>1, <1>3, <1>4 DEF Placement
<1>6. constructor' = FunctionEnd(constructor)
  BY DEF EndFunction
<1>7. Sound(constructor', blocks', functions) /\ ~constructor'.to_buffer
  BY <1>1, <1>4, <1>5, <1>6, FunctionEndSound
<1>8. variables' \in Seq(Table) /\ Len(variables') > 0
  BY <1>1, PoppedTables DEF EndFunction
<1>9. /\ part' = part /\ functions' = functions /\ actual_function' = NoName
      /\ globals' = globals /\ left' = left
      /\ variables_table_counter' = variables_table_counter
      /\ was_actual_function_declared' = was_actual_function_declared
  BY DEF EndFunction, LeaveFunction
<1>10. ParserTypes'
  <2>1. constructor' \in Constructors
    BY <1>7 DEF Sound
  <2>2. QED
    BY <1>4, <1>5, <1>8, <1>9, <2>1 DEF StillParsing, Parsing, ParserTypes
<1>11. Shape'
  <2>1. \A i \in 2..Len(blocks') : FALSE
    BY <1>5
  <2>2. ~(Len(blocks') > 1) /\ part' = "definitions" /\ actual_function' = NoName
    BY <1>3, <1>5, <1>9
  <2>3. QED
    BY <1>5, <1>7, <2>1, <2>2 DEF Shape, Placement
<1>12. QED
  BY <1>3, <1>7, <1>9, <1>10, <1>11 DEF Parsing

\* A block opened among statements, with a table of its own.
InnerRules == {"scope", "while"} \cup Branches

LEMMA OpenedBlocks ==
  ASSUME StillParsing, NEW rule \in InnerRules
  PROVE  /\ Append(blocks, Block(rule)) \in Seq(Blocks)
         /\ Len(Append(blocks, Block(rule))) = Len(blocks) + 1
         /\ Adds(blocks, Append(blocks, Block(rule)), rule)
         /\ \A i \in 1..Len(blocks) : Append(blocks, Block(rule))[i] = blocks[i]
         /\ Len(blocks) \in Nat /\ Sound(constructor, blocks, functions)
         /\ rule \in OpenRules \ {"program", "function"}
<1>1. blocks \in Seq(Blocks) /\ Len(blocks) > 0 /\ Sound(constructor, blocks, functions)
  BY DEF StillParsing, Parsing, ParserTypes
<1>2. rule \in OpenRules \ {"program", "function"}
  BY DEF InnerRules, OpenRules, Branches
<1> DEFINE k == Block(rule)
<1>3. k \in Blocks /\ k.rule = rule
  BY <1>2, BlockType
<1> HIDE DEF k
<1>4. /\ Append(blocks, k) \in Seq(Blocks) /\ Len(Append(blocks, k)) = Len(blocks) + 1
      /\ Adds(blocks, Append(blocks, k), k.rule)
      /\ \A i \in 1..Len(blocks) : Append(blocks, k)[i] = blocks[i]
  BY <1>1, <1>3, BlockAdded
<1>5. Len(blocks) \in Nat
  BY <1>1, LenProperties
<1>6. QED
  BY <1>1, <1>2, <1>3, <1>4, <1>5 DEF k

LEMMA OpenedParsing ==
  ASSUME StillParsing, kind' = kind, left' \in [Constructs -> Nat],
         InStatements, OpenTable, BlockFrame, part' = part,
         NEW rule \in InnerRules, blocks' = Append(blocks, Block(rule)),
         Sound(constructor', blocks', functions),
         constructor'.to_buffer = constructor.to_buffer
  PROVE  Parsing' /\ part' # "parsed"
<1>1. /\ blocks' \in Seq(Blocks) /\ Len(blocks') = Len(blocks) + 1
      /\ Adds(blocks, blocks', rule) /\ Len(blocks) \in Nat
      /\ rule \in OpenRules \ {"program", "function"}
  BY OpenedBlocks
<1>2. /\ variables \in Seq(Table) /\ Len(variables) > 0
      /\ variables_table_counter \in Nat /\ globals \subseteq Identities
      /\ Placement(part, blocks, constructor.to_buffer, functions, actual_function)
      /\ blocks \in Seq(Blocks) /\ Len(blocks) > 0
  BY DEF StillParsing, Parsing, ParserTypes, Shape
<1>3. Len(blocks) > 1 /\ part # "shared"
  <2> DEFINE n == Len(blocks)
  <2>1. n # 1 /\ part # "shared"
    BY DEF InStatements, AtTopLevel
  <2>2. n \in Nat /\ n > 0
    BY <1>1, <1>2
  <2> HIDE DEF n
  <2>3. n > 1
    BY <2>1, <2>2
  <2>4. QED
    BY <2>1, <2>3 DEF n
<1>4. Placement(part, blocks', constructor.to_buffer, functions, actual_function)
  BY <1>1, <1>2, <1>3, PlacementOpened
<1>5. variables_table_counter' \in Nat
      /\ variables' \in Seq(Table) /\ Len(variables') > 0
  <2> DEFINE id == variables_table_counter + 1
  <2>1. id \in Nat /\ variables_table_counter' = id
        /\ variables' = PushTable(variables, id, NoName)
    BY <1>2 DEF OpenTable
  <2> HIDE DEF id
  <2>2. QED
    BY <1>2, <2>1, PushedTables
<1>6. /\ functions' = functions /\ actual_function' = actual_function
      /\ was_actual_function_declared' = was_actual_function_declared
      /\ globals' = globals
  BY DEF BlockFrame
<1>7. Len(blocks') > 0
  BY <1>1
<1>8. Parsing'
  BY <1>1, <1>2, <1>4, <1>5, <1>6, <1>7, ParsingOn
<1>9. QED
  BY <1>8 DEF StillParsing

LEMMA ScopeParsing ==
  ASSUME StillParsing, kind' = kind, Scope
  PROVE  Parsing' /\ part' # "parsed"
<1>1. left' \in [Constructs -> Nat]
  BY Spent DEF Scope, StillParsing, Parsing, ParserTypes, Constructs
<1>2. "scope" \in InnerRules
  BY DEF InnerRules
<1>3. blocks' = Append(blocks, Block("scope"))
      /\ constructor' = ScopeStart(constructor)
  BY DEF Scope
<1>4. Adds(blocks, blocks', "scope") /\ Sound(constructor, blocks, functions)
  BY <1>2, <1>3, OpenedBlocks
<1>5. Sound(constructor', blocks', functions)
      /\ constructor'.to_buffer = constructor.to_buffer
  BY <1>3, <1>4, ScopeSound
<1>6. InStatements /\ OpenTable /\ BlockFrame /\ part' = part
  BY DEF Scope
<1>7. QED
  BY <1>1, <1>2, <1>3, <1>5, <1>6, OpenedParsing

LEMMA IfParsing ==
  ASSUME StillParsing, kind' = kind,
         NEW e \in Programs[kind].expressions["if"], If(e)
  PROVE  Parsing' /\ part' # "parsed"
<1> DEFINE c == Emit(constructor, Evaluate(e).code)
<1>1. left' \in [Constructs -> Nat]
  BY Spent DEF If, StillParsing, Parsing, ParserTypes, Constructs
<1>2. CASE RefuseProgram
  BY <1>1, <1>2, RefusedParsing
<1>3. CASE ~RefuseProgram
  <2>1. /\ InStatements /\ OpenTable /\ BlockFrame /\ part' = part
        /\ blocks' = Append(blocks, Block("then"))
        /\ constructor' = IfAfterExpression(c)
    BY <1>3 DEF If
  <2>2. "then" \in InnerRules
    BY DEF InnerRules, Branches
  <2>3. Adds(blocks, blocks', "then")
    BY <2>1, <2>2, OpenedBlocks
  <2>4. /\ Evaluate(e).code \in Seq(ExpressionCode(functions))
        /\ Sound(constructor, blocks, functions) /\ Len(blocks) \in Nat
    BY EvaluatedHere DEF Constructs
  <2>5. Sound(c, blocks, functions) /\ c.to_buffer = constructor.to_buffer
    BY <2>4, ExpressionSound
  <2> HIDE DEF c
  <2>6. Sound(constructor', blocks', functions)
        /\ constructor'.to_buffer = constructor.to_buffer
    BY <2>1, <2>3, <2>5, IfSound
  <2>7. QED
    BY <1>1, <2>1, <2>2, <2>6, OpenedParsing
<1>4. QED
  BY <1>2, <1>3

LEMMA WhileParsing ==
  ASSUME StillParsing, kind' = kind,
         NEW e \in Programs[kind].expressions["while"], While(e)
  PROVE  Parsing' /\ part' # "parsed"
<1> DEFINE tables == PushTable(variables, variables_table_counter + 1, NoName)
           value == Expression(e, tables, globals, functions)
           begun == WhileBeforeCondition(constructor)
           filled == Emit(begun, value.code)
<1>1. left' \in [Constructs -> Nat]
  BY Spent DEF While, StillParsing, Parsing, ParserTypes, Constructs
<1>2. CASE RefuseProgram
  BY <1>1, <1>2, RefusedParsing
<1>3. CASE ~RefuseProgram
  <2>1. /\ InStatements /\ OpenTable /\ BlockFrame /\ part' = part
        /\ blocks' = Append(blocks, Block("while"))
        /\ constructor' = WhileAfterCondition(filled)
    BY <1>3 DEF While
  <2>2. "while" \in InnerRules /\ "while" \in Constructs
    BY DEF InnerRules, Constructs
  <2>3. Adds(blocks, blocks', "while") /\ Sound(constructor, blocks, functions)
    BY <2>1, <2>2, OpenedBlocks
  <2>4. tables \in Seq(Table)
    <3>1. variables \in Seq(Table) /\ Len(variables) > 0
          /\ variables_table_counter + 1 \in Nat
      BY DEF StillParsing, Parsing, ParserTypes
    <3>2. QED
      BY <3>1, PushedTables
  <2> HIDE DEF tables
  <2>5. value.code \in Seq(ExpressionCode(functions))
    BY <2>2, <2>4, Evaluated
  <2> HIDE DEF value
  <2>6. begun = WhileBeforeCondition(constructor) /\ filled = Emit(begun, value.code)
    OBVIOUS
  <2> HIDE DEF begun, filled
  <2>7. Sound(constructor', blocks', functions)
        /\ constructor'.to_buffer = constructor.to_buffer
    BY <2>1, <2>3, <2>5, <2>6, WhileSound
  <2>8. QED
    BY <1>1, <2>1, <2>2, <2>7, OpenedParsing
<1>4. QED
  BY <1>2, <1>3

LEMMA MainScopeParsing ==
  ASSUME StillParsing, kind' = kind, MainScope
  PROVE  Parsing' /\ part' # "parsed"
<1>1. left' \in [Constructs -> Nat]
  BY DEF MainScope, StillParsing, Parsing, ParserTypes
<1>2. CASE RefuseProgram
  BY <1>1, <1>2, RefusedParsing
<1>3. CASE ~RefuseProgram
  <2>1. /\ AllDefined /\ part' = "scope" /\ OpenTable /\ BlockFrame
        /\ constructor' = ScopeStart(constructor)
        /\ blocks' = Append(blocks, Block("scope"))
        /\ part = "definitions" /\ Len(blocks) = 1
    BY <1>3 DEF MainScope, AtTopLevel
  <2>2. "scope" \in InnerRules
    BY DEF InnerRules
  <2>3. /\ blocks' \in Seq(Blocks) /\ Len(blocks') = Len(blocks) + 1
        /\ Adds(blocks, blocks', "scope") /\ Sound(constructor, blocks, functions)
    BY <2>1, <2>2, OpenedBlocks
  <2>4. Sound(constructor', blocks', functions)
        /\ constructor'.to_buffer = constructor.to_buffer
    BY <2>1, <2>3, ScopeSound
  <2>5. /\ variables \in Seq(Table) /\ Len(variables) > 0
        /\ variables_table_counter \in Nat
        /\ Placement(part, blocks, constructor.to_buffer, functions, actual_function)
        /\ actual_function \in Names \cup {NoName}
    BY DEF StillParsing, Parsing, ParserTypes, Shape
  <2>6. variables_table_counter' \in Nat
        /\ variables' \in Seq(Table) /\ Len(variables') > 0
    <3> DEFINE id == variables_table_counter + 1
    <3>1. id \in Nat /\ variables_table_counter' = id
          /\ variables' = PushTable(variables, id, NoName)
      BY <2>1, <2>5 DEF OpenTable
    <3> HIDE DEF id
    <3>2. QED
      BY <2>5, <3>1, PushedTables
  <2>7. /\ functions' = functions /\ actual_function' = actual_function
        /\ was_actual_function_declared' = was_actual_function_declared
        /\ globals' = globals
    BY <2>1 DEF BlockFrame
  <2>8. actual_function = NoName /\ \A f \in Names : functions[f].status # "declared"
    BY <2>1, <2>5 DEF Placement, AllDefined
  <2>9. /\ Len(blocks') = 2 /\ blocks'[1].rule = "program"
        /\ blocks'[2].rule = "scope"
    BY <2>1, <2>3, <2>5 DEF Adds, Placement
  <2>10. ParserTypes'
    <3>1. constructor' \in Constructors
      BY <2>4 DEF Sound
    <3>2. Len(blocks') > 0
      BY <2>9
    <3>3. QED
      BY <1>1, <2>1, <2>3, <2>6, <2>7, <3>1, <3>2 DEF StillParsing, Parsing, ParserTypes
  <2>11. Shape'
    <3>1. ~constructor.to_buffer /\ ~constructor'.to_buffer
      BY <2>1, <2>4, <2>5 DEF Placement
    <3>2. \A i \in 2..Len(blocks') : i = 2
      BY <2>9
    <3>3. Len(blocks') > 1
      BY <2>9
    <3>4. QED
      BY <2>1, <2>7, <2>8, <2>9, <3>1, <3>2, <3>3 DEF Shape, Placement
  <2>12. QED
    BY <2>1, <2>4, <2>7, <2>10, <2>11 DEF Parsing
<1>4. QED
  BY <1>2, <1>3

\* The innermost block, when it is inside a function or the main part.
LEMMA InnermostBlock ==
  ASSUME StillParsing, Rule \in InnerRules, ~(part = "scope" /\ Len(blocks) = 2)
  PROVE  /\ Front(blocks) \in Seq(Blocks) /\ Len(Front(blocks)) > 1
         /\ Adds(Front(blocks), blocks, Rule)
         /\ Placement(part, Front(blocks), constructor.to_buffer, functions,
                      actual_function)
         /\ Len(blocks) > 1 /\ Sound(constructor, blocks, functions)
<1>1. /\ blocks \in Seq(Blocks) /\ Len(blocks) > 0
      /\ Sound(constructor, blocks, functions)
      /\ Placement(part, blocks, constructor.to_buffer, functions, actual_function)
      /\ part \in {"definitions", "scope", "shared"}
  BY DEF StillParsing, Parsing, ParserTypes, Shape
<1>2. Len(blocks) \in Nat /\ Last(blocks) = blocks[Len(blocks)]
      /\ Last(blocks).rule = Rule
  BY <1>1, LenProperties, SplitLast DEF Rule
<1> DEFINE n == Len(blocks)
           b == Front(blocks)
<1>3. n > 2
  <2>1. /\ blocks[n].rule \in Branches \cup {"while"} => n > 2
        /\ blocks[n].rule = "scope" /\ ~(part = "scope" /\ n = 2) => n > 2
    BY <1>1, <1>2, Nested
  <2>2. blocks[n].rule \in Branches \cup {"while"} \/ blocks[n].rule = "scope"
    BY <1>2 DEF InnerRules
  <2>3. QED
    BY <2>1, <2>2
<1>4. n > 1 /\ n - 1 > 1
  <2>1. n \in Nat
    BY <1>2
  <2> HIDE DEF n
  <2>2. QED
    BY <1>3, <2>1
<1>5. b \in Seq(Blocks) /\ Len(b) = n - 1 /\ Adds(b, blocks, Rule)
  BY <1>1, <1>2, <1>4, BlockRemoved
<1> HIDE DEF b, n
<1>6. Len(b) > 1
  BY <1>4, <1>5
<1>7. Placement(part, b, constructor.to_buffer, functions, actual_function)
  BY <1>1, <1>5, <1>6, PlacementClosed
<1>8. QED
  BY <1>1, <1>4, <1>5, <1>6, <1>7 DEF b, n

LEMMA ClosedParsing ==
  ASSUME StillParsing, kind' = kind, left' = left, BlockFrame, part' = part,
         Rule \in InnerRules, ~(part = "scope" /\ Len(blocks) = 2),
         blocks' = Front(blocks),
         variables' \in Seq(Table), Len(variables') > 0, variables_table_counter' \in Nat,
         Sound(constructor', blocks', functions),
         constructor'.to_buffer = constructor.to_buffer
  PROVE  Parsing' /\ part' # "parsed"
<1>1. /\ blocks' \in Seq(Blocks) /\ Len(blocks') > 1
      /\ Placement(part, blocks', constructor.to_buffer, functions, actual_function)
  BY InnermostBlock
<1>2. Len(blocks') > 0
  BY <1>1, LenProperties
<1>3. left' \in [Constructs -> Nat] /\ globals \subseteq Identities
  BY DEF StillParsing, Parsing, ParserTypes
<1>4. /\ functions' = functions /\ actual_function' = actual_function
      /\ was_actual_function_declared' = was_actual_function_declared
      /\ globals' = globals
  BY DEF BlockFrame
<1>5. Parsing'
  BY <1>1, <1>2, <1>3, <1>4, ParsingOn
<1>6. QED
  BY <1>5 DEF StillParsing

LEMMA LoopParsing ==
  ASSUME StillParsing, kind' = kind, Loop
  PROVE  Parsing' /\ part' # "parsed"
<1>1. /\ Rule = "while" /\ BlockFrame /\ part' = part /\ left' = left
      /\ blocks' = Front(blocks) /\ constructor' = WhileEnd(constructor)
      /\ variables' = PopTable(variables)
      /\ variables_table_counter' = variables_table_counter
  BY DEF Loop
<1>2. Rule \in InnerRules
  BY <1>1 DEF InnerRules
<1>3. ~(part = "scope" /\ Len(blocks) = 2)
  <2>1. blocks \in Seq(Blocks) /\ Len(blocks) > 0
        /\ Placement(part, blocks, constructor.to_buffer, functions, actual_function)
    BY DEF StillParsing, Parsing, ParserTypes, Shape
  <2>2. Last(blocks) = blocks[Len(blocks)]
    BY <2>1, SplitLast
  <2>3. QED
    BY <1>1, <2>1, <2>2 DEF Rule, Placement
<1>4. Adds(blocks', blocks, "while") /\ Sound(constructor, blocks, functions)
  BY <1>1, <1>2, <1>3, InnermostBlock
<1>5. Sound(constructor', blocks', functions)
      /\ constructor'.to_buffer = constructor.to_buffer
  BY <1>1, <1>4, LoopSound
<1>6. /\ variables \in Seq(Table) /\ Len(variables) > 0
      /\ variables_table_counter \in Nat
  BY DEF StillParsing, Parsing, ParserTypes
<1>7. /\ variables' \in Seq(Table) /\ Len(variables') > 0
      /\ variables_table_counter' \in Nat
  BY <1>1, <1>6, PoppedTables
<1>8. QED
  BY <1>1, <1>2, <1>3, <1>5, <1>7, ClosedParsing

LEMMA EndScopeParsing ==
  ASSUME StillParsing, kind' = kind, EndScope
  PROVE  Parsing' /\ part' # "parsed"
<1>1. /\ Rule = "scope" /\ BlockFrame /\ left' = left
      /\ part' = IF part = "scope" /\ Len(blocks) = 2 THEN "shared" ELSE part
      /\ blocks' = Front(blocks) /\ constructor' = ScopeEnd(constructor)
      /\ variables' = PopTable(variables)
      /\ variables_table_counter' = variables_table_counter
  BY DEF EndScope
<1>2. Rule \in InnerRules
  BY <1>1 DEF InnerRules
<1>3. /\ variables \in Seq(Table) /\ Len(variables) > 0
      /\ variables_table_counter \in Nat
  BY DEF StillParsing, Parsing, ParserTypes
<1>4. /\ variables' \in Seq(Table) /\ Len(variables') > 0
      /\ variables_table_counter' \in Nat
  BY <1>1, <1>3, PoppedTables
<1>5. CASE ~(part = "scope" /\ Len(blocks) = 2)
  <2>1. Adds(blocks', blocks, "scope") /\ Sound(constructor, blocks, functions)
    BY <1>1, <1>2, <1>5, InnermostBlock
  <2>2. Sound(constructor', blocks', functions)
        /\ constructor'.to_buffer = constructor.to_buffer
    BY <1>1, <2>1, ScopeEndSound
  <2>3. part' = part
    BY <1>1, <1>5
  <2>4. QED
    BY <1>1, <1>2, <1>4, <1>5, <2>2, <2>3, ClosedParsing
<1>6. CASE part = "scope" /\ Len(blocks) = 2
  <2>1. /\ blocks \in Seq(Blocks) /\ Sound(constructor, blocks, functions)
        /\ Placement(part, blocks, constructor.to_buffer, functions, actual_function)
    BY DEF StillParsing, Parsing, ParserTypes, Shape
  <2>2. Len(blocks) > 1 /\ Last(blocks).rule = "scope"
    BY <1>1, <1>6 DEF Rule
  <2>3. /\ blocks' \in Seq(Blocks) /\ Len(blocks') = Len(blocks) - 1
        /\ Adds(blocks', blocks, "scope")
        /\ \A i \in 1..Len(blocks) - 1 : blocks'[i] = blocks[i]
    BY <1>1, <2>1, <2>2, BlockRemoved
  <2>4. Len(blocks') = 1 /\ blocks'[1].rule = "program"
    BY <1>6, <2>1, <2>3 DEF Placement
  <2>5. Sound(constructor', blocks', functions)
        /\ constructor'.to_buffer = constructor.to_buffer
    BY <1>1, <2>1, <2>3, ScopeEndSound
  <2>6. /\ functions' = functions /\ actual_function' = actual_function
        /\ was_actual_function_declared' = was_actual_function_declared
        /\ globals' = globals
    BY <1>1 DEF BlockFrame
  <2>7. part' = "shared"
    BY <1>1, <1>6
  <2>8. ParserTypes'
    <3>1. constructor' \in Constructors
      BY <2>5 DEF Sound
    <3>2. QED
      BY <1>1, <1>4, <2>3, <2>4, <2>6, <2>7, <3>1 DEF StillParsing, Parsing, ParserTypes
  <2>9. Shape'
    <3>1. ~constructor.to_buffer /\ ~constructor'.to_buffer
      BY <1>6, <2>1, <2>5 DEF Placement
    <3>2. \A i \in 2..Len(blocks') : FALSE
      BY <2>4
    <3>3. ~(Len(blocks') > 1)
      BY <2>4
    <3>4. actual_function = NoName /\ \A f \in Names : functions[f].status # "declared"
      BY <1>6, <2>1 DEF Placement
    <3>5. QED
      BY <2>4, <2>6, <2>7, <3>1, <3>2, <3>3, <3>4 DEF Shape, Placement
  <2>10. QED
    BY <2>5, <2>6, <2>7, <2>8, <2>9 DEF Parsing
<1>7. QED
  BY <1>5, <1>6

\* The tables at the end of a branch.
LEMMA BranchTables ==
  ASSUME StillParsing
  PROVE  /\ TablesAfterBranch \in Seq(Table) /\ Len(TablesAfterBranch) > 0
         /\ CounterAfterBranch \in Nat
         /\ Left(constructor, AfterBranch, Rule)
<1>1. /\ variables \in Seq(Table) /\ Len(variables) > 0
      /\ variables_table_counter \in Nat
  BY DEF StillParsing, Parsing, ParserTypes
<1> DEFINE id == variables_table_counter + 1
<1>2. id \in Nat /\ variables_table_counter + 0 \in Nat
  BY <1>1
<1>3. PushTable(variables, id, NoName) \in Seq(Table)
      /\ Len(PushTable(variables, id, NoName)) > 0
  BY <1>1, <1>2, PushedTables
<1>4. TablesAfterBranch \in Seq(Table) /\ Len(TablesAfterBranch) > 0
  BY <1>1, <1>3 DEF TablesAfterBranch
<1>5. CounterAfterBranch \in Nat
  BY <1>1, <1>2 DEF CounterAfterBranch
<1>6. Left(constructor, AfterBranch, Rule)
  BY DEF Left, AfterBranch
<1>7. QED
  BY <1>4, <1>5, <1>6

\* A branch is never the block of the main part.
LEMMA BranchInside ==
  ASSUME StillParsing, Rule \in Branches
  PROVE  Rule \in InnerRules /\ ~(part = "scope" /\ Len(blocks) = 2)
<1>1. blocks \in Seq(Blocks) /\ Len(blocks) > 0
      /\ Placement(part, blocks, constructor.to_buffer, functions, actual_function)
  BY DEF StillParsing, Parsing, ParserTypes, Shape
<1>2. Last(blocks) = blocks[Len(blocks)]
  BY <1>1, SplitLast
<1>3. Rule # "scope"
  BY DEF Branches
<1>4. QED
  BY <1>1, <1>2, <1>3 DEF Rule, Placement, InnerRules

\* The next branch takes the place of the one before.
LEMMA ReplacedParsing ==
  ASSUME StillParsing, kind' = kind, left' \in [Constructs -> Nat], BlockFrame,
         part' = part, Rule \in Branches, NEW rule \in Branches,
         blocks' = Append(Front(blocks), Block(rule)),
         variables' \in Seq(Table), Len(variables') > 0, variables_table_counter' \in Nat,
         Adds(Front(blocks), blocks', rule) => Sound(constructor', blocks', functions),
         constructor'.to_buffer = constructor.to_buffer
  PROVE  Parsing' /\ part' # "parsed"
<1>1. Rule \in InnerRules /\ ~(part = "scope" /\ Len(blocks) = 2)
  BY BranchInside
<1>2. /\ Len(Front(blocks)) > 1 /\ Len(blocks) > 1
      /\ Placement(part, Front(blocks), constructor.to_buffer, functions,
                   actual_function)
  BY <1>1, InnermostBlock
<1>3. blocks \in Seq(Blocks) /\ globals \subseteq Identities /\ Len(blocks) \in Nat
      /\ part # "shared"
  <2>1. blocks \in Seq(Blocks) /\ globals \subseteq Identities
        /\ Placement(part, blocks, constructor.to_buffer, functions, actual_function)
    BY DEF StillParsing, Parsing, ParserTypes, Shape
  <2> DEFINE n == Len(blocks)
  <2>2. n \in Nat /\ n > 1
    BY <1>2, <2>1, LenProperties
  <2> HIDE DEF n
  <2>3. n # 1
    BY <2>2
  <2>4. part # "shared"
    BY <2>1, <2>3 DEF Placement, n
  <2>5. QED
    BY <2>1, <2>2, <2>4 DEF n
<1>4. rule \in OpenRules \ {"program", "function"}
  BY DEF OpenRules, Branches
<1>5. /\ blocks' \in Seq(Blocks) /\ Len(blocks') = Len(blocks)
      /\ Adds(Front(blocks), blocks', rule)
  <2> DEFINE k == Block(rule)
  <2>1. k \in Blocks /\ k.rule = rule
    BY <1>4, BlockType
  <2> HIDE DEF k
  <2>2. blocks' = Append(Front(blocks), k)
    BY DEF k
  <2>3. /\ blocks' \in Seq(Blocks) /\ Len(blocks') = Len(blocks)
        /\ Adds(Front(blocks), blocks', k.rule)
    BY <1>2, <1>3, <2>1, <2>2, BlockReplaced
  <2>4. QED
    BY <2>1, <2>3
<1>6. Placement(part, blocks', constructor.to_buffer, functions, actual_function)
  BY <1>2, <1>3, <1>4, <1>5, PlacementOpened
<1>7. /\ functions' = functions /\ actual_function' = actual_function
      /\ was_actual_function_declared' = was_actual_function_declared
      /\ globals' = globals
  BY DEF BlockFrame
<1>8. Len(blocks') > 0
  BY <1>2, <1>3, <1>5
<1>9. Parsing'
  BY <1>3, <1>5, <1>6, <1>7, <1>8, ParsingOn
<1>10. QED
  BY <1>9 DEF StillParsing

LEMMA ElseIfParsing ==
  ASSUME StillParsing, kind' = kind,
         NEW e \in Programs[kind].expressions["elseif"], ElseIf(e)
  PROVE  Parsing' /\ part' # "parsed"
<1> DEFINE tables == PopTable(TablesAfterBranch)
           value == Expression(e, tables, globals, functions)
           before == ElseIfBeforeExpression(AfterBranch)
           filled == Emit(before, value.code)
<1>1. left' \in [Constructs -> Nat]
  BY Spent DEF ElseIf, StillParsing, Parsing, ParserTypes, Constructs
<1>2. CASE RefuseProgram
  BY <1>1, <1>2, RefusedParsing
<1>3. CASE ~RefuseProgram
  <2>1. /\ Rule \in {"then", "elseif"} /\ BlockFrame /\ part' = part
        /\ variables' = tables /\ variables_table_counter' = CounterAfterBranch
        /\ blocks' = Append(Front(blocks), Block("elseif"))
        /\ constructor' = ElseIfAfterExpression(filled)
    BY <1>3 DEF ElseIf
  <2>2. Rule \in Branches /\ "elseif" \in Branches /\ "elseif" \in Constructs
    BY <2>1 DEF Branches, Constructs
  <2>3. Rule \in InnerRules /\ ~(part = "scope" /\ Len(blocks) = 2)
    BY <2>2, BranchInside
  <2>4. Adds(Front(blocks), blocks, Rule) /\ Sound(constructor, blocks, functions)
    BY <2>3, InnermostBlock
  <2>5. /\ TablesAfterBranch \in Seq(Table) /\ Len(TablesAfterBranch) > 0
        /\ CounterAfterBranch \in Nat
        /\ Left(constructor, AfterBranch, Rule)
    BY BranchTables
  <2>6. tables \in Seq(Table) /\ Len(tables) > 0
    BY <2>5, PoppedTables
  <2> HIDE DEF tables
  <2>7. value.code \in Seq(ExpressionCode(functions))
    BY <2>2, <2>6, Evaluated
  <2> HIDE DEF value
  <2>8. before = ElseIfBeforeExpression(AfterBranch) /\ filled = Emit(before, value.code)
    OBVIOUS
  <2> HIDE DEF before, filled
  <2>9. /\ constructor'.to_buffer = constructor.to_buffer
        /\ Adds(Front(blocks), blocks', "elseif") =>
             Sound(constructor', blocks', functions)
    <3> DEFINE d == Append(Front(blocks), Block("elseif"))
    <3>1. Adds(Front(blocks), d, "elseif")
      <4>1. Len(blocks) > 1 /\ blocks \in Seq(Blocks)
        BY <2>3, InnermostBlock DEF StillParsing, Parsing, ParserTypes
      <4>2. "elseif" \in OpenRules
        BY DEF OpenRules, Branches
      <4> DEFINE k == Block("elseif")
      <4>3. k \in Blocks /\ k.rule = "elseif"
        BY <4>2, BlockType
      <4> HIDE DEF k
      <4>4. d = Append(Front(blocks), k)
        BY DEF k
      <4> HIDE DEF d
      <4>5. Adds(Front(blocks), d, k.rule)
        BY <4>1, <4>3, <4>4, BlockReplaced
      <4>6. QED
        BY <4>3, <4>5
    <3> HIDE DEF d
    <3>2. Sound(constructor', d, functions) /\ constructor'.to_buffer = constructor.to_buffer
      <4>1. constructor' = ElseIfAfterExpression(filled)
        BY <2>1
      <4>2. Left(constructor, AfterBranch, Rule) /\ Rule \in Branches
        BY <2>2, <2>5
      <4>3. QED
        BY <2>4, <2>7, <2>8, <3>1, <4>1, <4>2, ElseIfSound
    <3>3. QED
      BY <2>1, <3>2 DEF d
  <2>10. /\ variables' \in Seq(Table) /\ Len(variables') > 0
         /\ variables_table_counter' \in Nat
    BY <2>1, <2>5, <2>6
  <2>11. QED
    BY <1>1, <2>1, <2>2, <2>9, <2>10, ReplacedParsing
<1>4. QED
  BY <1>2, <1>3

LEMMA ElseParsing ==
  ASSUME StillParsing, kind' = kind, Else
  PROVE  Parsing' /\ part' # "parsed"
<1> DEFINE id == CounterAfterBranch + 1
           d == Append(Front(blocks), Block("else"))
<1>1. /\ Rule \in {"then", "elseif"} /\ BlockFrame /\ part' = part
      /\ variables' = PushTable(TablesAfterBranch, id, NoName)
      /\ variables_table_counter' = id
      /\ constructor' = IfElseBlock(AfterBranch) /\ blocks' = d
  BY DEF Else
<1>2. left' \in [Constructs -> Nat]
  BY Spent DEF Else, StillParsing, Parsing, ParserTypes, Constructs
<1>3. Rule \in Branches /\ "else" \in Branches
  BY <1>1 DEF Branches
<1>4. Rule \in InnerRules /\ ~(part = "scope" /\ Len(blocks) = 2)
  BY <1>3, BranchInside
<1>5. /\ Adds(Front(blocks), blocks, Rule) /\ Sound(constructor, blocks, functions)
      /\ Len(blocks) > 1
  BY <1>4, InnermostBlock
<1>6. /\ TablesAfterBranch \in Seq(Table) /\ Len(TablesAfterBranch) > 0
      /\ CounterAfterBranch \in Nat /\ Left(constructor, AfterBranch, Rule)
  BY BranchTables
<1>7. id \in Nat
  BY <1>6
<1> HIDE DEF id
<1>8. /\ variables' \in Seq(Table) /\ Len(variables') > 0
      /\ variables_table_counter' \in Nat
  BY <1>1, <1>6, <1>7, PushedTables
<1>9. Adds(Front(blocks), d, "else")
  <2> DEFINE k == Block("else")
  <2>1. blocks \in Seq(Blocks) /\ "else" \in OpenRules
    BY <1>3 DEF StillParsing, Parsing, ParserTypes, OpenRules
  <2>2. k \in Blocks /\ k.rule = "else"
    BY <2>1, BlockType
  <2> HIDE DEF k
  <2>3. d = Append(Front(blocks), k)
    BY DEF k
  <2> HIDE DEF d
  <2>4. Adds(Front(blocks), d, k.rule)
    BY <1>5, <2>1, <2>2, <2>3, BlockReplaced
  <2>5. QED
    BY <2>2, <2>4
<1> HIDE DEF d
<1>10. Sound(constructor', d, functions) /\ constructor'.to_buffer = constructor.to_buffer
  <2>1. constructor' = IfElseBlock(AfterBranch)
    BY <1>1
  <2>2. Left(constructor, AfterBranch, Rule)
    BY <1>6
  <2>3. QED
    BY <1>3, <1>5, <1>9, <2>1, <2>2, ElseSound
<1>11. Sound(constructor', blocks', functions)
  BY <1>1, <1>10
<1>12. blocks' = Append(Front(blocks), Block("else")) /\ BlockFrame /\ part' = part
  BY <1>1 DEF d
<1>13. QED
  BY <1>2, <1>3, <1>8, <1>10, <1>11, <1>12, ReplacedParsing

LEMMA EndIfParsing ==
  ASSUME StillParsing, kind' = kind, EndIf
  PROVE  Parsing' /\ part' # "parsed"
<1>1. /\ Rule \in Branches /\ BlockFrame /\ part' = part /\ left' = left
      /\ variables' = IF Rule = "else" THEN PopTable(PopTable(variables))
                                       ELSE PopTable(TablesAfterBranch)
      /\ variables_table_counter' = CounterAfterBranch
      /\ constructor' = IfAfterEndIf(AfterBranch)
      /\ blocks' = Front(blocks)
  BY DEF EndIf, Branches
<1>2. Rule \in InnerRules /\ ~(part = "scope" /\ Len(blocks) = 2)
  BY <1>1, BranchInside
<1>3. Adds(blocks', blocks, Rule) /\ Sound(constructor, blocks, functions)
  BY <1>1, <1>2, InnermostBlock
<1>4. /\ TablesAfterBranch \in Seq(Table) /\ Len(TablesAfterBranch) > 0
      /\ CounterAfterBranch \in Nat /\ Left(constructor, AfterBranch, Rule)
  BY BranchTables
<1>5. variables' \in Seq(Table) /\ Len(variables') > 0
  <2> DEFINE once == PopTable(variables)
  <2>1. variables \in Seq(Table) /\ Len(variables) > 0
    BY DEF StillParsing, Parsing, ParserTypes
  <2>2. once \in Seq(Table) /\ Len(once) > 0
    BY <2>1, PoppedTables
  <2>3. PopTable(TablesAfterBranch) \in Seq(Table) /\ Len(PopTable(TablesAfterBranch)) > 0
    BY <1>4, PoppedTables
  <2> HIDE DEF once
  <2>4. PopTable(once) \in Seq(Table) /\ Len(PopTable(once)) > 0
    BY <2>2, PoppedTables
  <2>5. QED
    BY <1>1, <2>3, <2>4 DEF once
<1>6. Sound(constructor', blocks', functions)
      /\ constructor'.to_buffer = constructor.to_buffer
  <2>1. constructor' = IfAfterEndIf(AfterBranch) /\ Rule \in Branches
    BY <1>1
  <2>2. Left(constructor, AfterBranch, Rule)
    BY <1>4
  <2>3. QED
    BY <1>3, <2>1, <2>2, EndIfSound
<1>7. variables_table_counter' \in Nat
  BY <1>1, <1>4
<1>8. BlockFrame /\ part' = part /\ left' = left /\ blocks' = Front(blocks)
  BY <1>1
<1>9. QED
  BY <1>2, <1>5, <1>6, <1>7, <1>8, ClosedParsing

-----------------------------------------------------------------------------
(* The invariant, through the last step of the parser as well: what is     *)
(* left of the constructor when a program is accepted.                     *)

Result ==
  /\ Resolved(constructor.main)
  /\ NothingOpen(constructor)
  /\ constructor.conditions = << >> /\ constructor.loops = << >>
  /\ constructor.code_labels = << >> /\ constructor.loops_initial = NoLabel
  /\ constructor.control_statement_depth = 0
  /\ constructor.loops_depth = 0 /\ constructor.scope_depth = 0

ParserInvariant ==
  /\ ParserTypes
  /\ part = "parsed" => Result
  /\ part # "parsed" => Shape /\ Sound(constructor, blocks, functions)

LEMMA EndProgramParsing ==
  ASSUME StillParsing, kind' = kind, EndProgram
  PROVE  ParserInvariant'
<1>1. /\ ParserTypes /\ Sound(constructor, blocks, functions)
      /\ Placement(part, blocks, constructor.to_buffer, functions, actual_function)
  BY DEF StillParsing, Parsing, Shape
<1>2. /\ part = "shared" /\ part' = "parsed" /\ constructor' = EndCode(constructor)
      /\ UNCHANGED <<variables, variables_table_counter, functions, actual_function,
                     was_actual_function_declared, globals, blocks, left>>
  BY DEF EndProgram
<1>3. /\ Len(blocks) = 1 /\ blocks[1].rule = "program" /\ ~constructor.to_buffer
      /\ \A f \in Names : functions[f].status # "declared"
  <2>1. Len(blocks) = 1 /\ blocks[1].rule = "program"
    BY <1>1, <1>2 DEF Placement
  <2>2. ~(Len(blocks) > 1)
    BY <2>1
  <2>3. /\ constructor.to_buffer <=> Len(blocks) > 1 /\ blocks[2].rule = "function"
        /\ \A f \in Names : functions[f].status # "declared"
    BY <1>1, <1>2 DEF Placement
  <2>4. ~constructor.to_buffer
    BY <2>2, <2>3
  <2>5. QED
    BY <2>1, <2>3, <2>4
<1>4. \A f \in Names : functions[f].status \in {"none", "defined"}
  <2>1. functions \in Functions
    BY <1>1 DEF ParserTypes
  <2>2. QED
    BY <1>3, <2>1 DEF Functions
<1>5. constructor \in Constructors /\ Balanced(constructor, blocks)
      /\ Ordered(constructor, functions)
  BY <1>1 DEF Sound
<1>6. /\ NothingOpen(constructor) /\ constructor.code_labels = << >>
      /\ constructor.loops_depth = 0 /\ constructor.scope_depth = 0
      /\ constructor.control_statement_depth = 0
  BY <1>3, <1>5, ProgramOnly
<1>7. /\ constructor' \in Constructors /\ Resolved(constructor'.main)
      /\ NothingOpen(constructor') /\ constructor'.loops_initial = NoLabel
      /\ constructor'.control_statement_depth = constructor.control_statement_depth
      /\ constructor'.scope_depth = constructor.scope_depth
      /\ constructor'.code_labels = constructor.code_labels
      /\ constructor'.loops_depth = constructor.loops_depth
  BY <1>2, <1>3, <1>4, <1>5, <1>6, EndCodeResolved
<1>8. constructor'.conditions = << >> /\ constructor'.loops = << >>
  <2>1. constructor'.conditions \in Seq(Labels) /\ constructor'.loops \in Seq(Labels)
    BY <1>7, ConstructorFields
  <2>2. QED
    BY <1>7, <2>1, EmptySeq DEF NothingOpen
<1>9. Result'
  BY <1>6, <1>7, <1>8 DEF Result, NothingOpen
<1>10. ParserTypes'
  BY <1>1, <1>2, <1>7 DEF ParserTypes
<1>11. QED
  BY <1>2, <1>9, <1>10 DEF ParserInvariant

\* The constructor with which a program is begun: one declaration, no labels.
LEMMA FirstCode ==
  ASSUME NEW c, c = Emit(NewConstructor, <<DefVar(Temporary)>>)
  PROVE  /\ c \in Constructors
         /\ Len(c.main) = 1 /\ ~c.to_buffer
         /\ Placed(c) = {} /\ Mentioned(c) = {} /\ AllPlacedOnce(c)
         /\ c.code_labels = << >> /\ c.conditions = << >> /\ c.loops = << >>
         /\ c.loops_depth = 0 /\ c.scope_depth = 0
         /\ c.control_statement_depth = 0 /\ c.loops_initial = NoLabel
<1> DEFINE i == DefVar(Temporary)
<1>1. /\ i \in Instructions /\ i.op # "LABEL" /\ i.label = NoLabel
  <2>1. /\ Temporary \in Operands /\ Temporary \in Targets
        /\ Nothing \in Operands /\ NoLabel \in Labels
    BY OperandTypes, LabelTypes
  <2>2. QED
    BY <2>1 DEF DefVar, Instruction, Instructions
<1> HIDE DEF i
<1>2. c = Emit(NewConstructor, <<i>>)
  BY DEF i
<1> DEFINE chunk == <<i>>
<1>3. /\ chunk \in Seq(Instructions) /\ Len(chunk) = 1 /\ << >> \o chunk = chunk
      /\ \A k \in DOMAIN chunk : chunk[k] = i
  BY <1>1
<1>4. /\ c.main = chunk /\ c.buffer = << >> /\ c.to_buffer = FALSE
      /\ c.control_statement_depth = 0 /\ c.scope_depth = 0
      /\ c.code_labels = << >> /\ c.conditions = << >> /\ c.loops = << >>
      /\ c.loops_depth = 0 /\ c.loops_initial = NoLabel
  <2> DEFINE n == NewConstructor
             m == n.main \o chunk
  <2>1. /\ n.main = << >> /\ n.buffer = << >> /\ n.to_buffer = FALSE
        /\ n.control_statement_depth = 0 /\ n.scope_depth = 0
        /\ n.code_labels = << >> /\ n.conditions = << >> /\ n.loops = << >>
        /\ n.loops_depth = 0 /\ n.loops_initial = NoLabel
    BY DEF NewConstructor
  <2>2. m = chunk
    BY <1>3, <2>1
  <2>3. c = [n EXCEPT !.main = m]
    BY <1>2, <2>1 DEF Emit
  <2>4. n = [main |-> << >>, buffer |-> << >>, to_buffer |-> FALSE,
             label_counter |-> 0, control_statement_depth |-> 0, scope_depth |-> 0,
             code_labels |-> << >>, conditions |-> << >>, loops |-> << >>,
             loops_depth |-> 0, loops_initial |-> NoLabel]
    BY DEF NewConstructor
  <2> HIDE DEF n, m, chunk
  <2>5. c = [main |-> m, buffer |-> << >>, to_buffer |-> FALSE,
             label_counter |-> 0, control_statement_depth |-> 0, scope_depth |-> 0,
             code_labels |-> << >>, conditions |-> << >>, loops |-> << >>,
             loops_depth |-> 0, loops_initial |-> NoLabel]
    BY <2>3, <2>4
  <2>6. QED
    BY <2>2, <2>5
<1>5. PlacedOnce(chunk) /\ PlacedIn(chunk) = {} /\ MentionedIn(chunk) = {}
  <2>1. \A k \in DOMAIN chunk : chunk[k].op # "LABEL" /\ chunk[k].label = NoLabel
    BY <1>1, <1>3
  <2>2. MentionedIn(chunk) = {}
    BY <2>1 DEF MentionedIn
  <2>3. QED
    BY <1>3, <2>1, <2>2, NothingPlaced
<1>6. PlacedOnce(<< >>) /\ PlacedIn(<< >>) = {} /\ MentionedIn(<< >>) = {}
  BY DEF PlacedOnce, PlacedIn, MentionedIn
<1>7. c \in Constructors
  <2>1. NewConstructor \in Constructors
    <3>1. NoLabel \in Labels
      BY LabelTypes
    <3>2. QED
      BY <3>1 DEF NewConstructor, Constructors
  <2>2. c = Emit(NewConstructor, chunk)
    BY <1>2
  <2> HIDE DEF chunk
  <2>3. Grows(NewConstructor, c, PlacedIn(chunk), MentionedIn(chunk))
    BY <1>3, <1>5, <2>1, <2>2, EmitEffect
  <2>4. QED
    BY <2>3 DEF Grows
<1>8. Placed(c) = {} /\ Mentioned(c) = {} /\ AllPlacedOnce(c)
  BY <1>4, <1>5, <1>6 DEF Placed, Mentioned, AllPlacedOnce
<1>9. QED
  BY <1>3, <1>4, <1>7, <1>8

LEMMA ParserStarts ==
  ASSUME ParserInit
  PROVE  ParserInvariant
<1>1. /\ part = "definitions" /\ variables = <<EmptyTable(0, NoName)>>
      /\ variables_table_counter = 0 /\ functions = [n \in Names |-> NoFunction]
      /\ actual_function = NoName /\ was_actual_function_declared = FALSE
      /\ globals = {} /\ blocks = <<Block("program")>>
      /\ kind \in DOMAIN Programs /\ left = Programs[kind].allowance
  BY DEF ParserInit
<1>2. /\ constructor \in Constructors
      /\ Len(constructor.main) = 1 /\ ~constructor.to_buffer
      /\ Placed(constructor) = {} /\ Mentioned(constructor) = {}
      /\ AllPlacedOnce(constructor)
      /\ constructor.code_labels = << >> /\ constructor.conditions = << >>
      /\ constructor.loops = << >>
      /\ constructor.loops_depth = 0 /\ constructor.scope_depth = 0
      /\ constructor.control_statement_depth = 0
      /\ constructor.loops_initial = NoLabel
  BY FirstCode DEF ParserInit
<1>3. Block("program") \in Blocks /\ Block("program").rule = "program"
  BY BlockType DEF OpenRules
<1>4. blocks \in Seq(Blocks) /\ Len(blocks) = 1 /\ blocks[1].rule = "program"
  <2> DEFINE k == Block("program")
  <2>1. blocks = <<k>> /\ k \in Blocks /\ k.rule = "program"
    BY <1>1, <1>3
  <2> HIDE DEF k
  <2>2. QED
    BY <2>1
<1>5. ParserTypes
  <2>1. EmptyTable(0, NoName) \in Table
    BY EmptyTableType
  <2>2. variables \in Seq(Table) /\ Len(variables) > 0
    <3> DEFINE t == EmptyTable(0, NoName)
    <3>1. variables = <<t>> /\ t \in Table
      BY <1>1, <2>1
    <3> HIDE DEF t
    <3>2. QED
      BY <3>1
  <2>3. functions \in Functions
    BY <1>1 DEF Functions, NoFunction
  <2>4. left \in [Constructs -> Nat]
    BY <1>1, ProgramsAssumption
  <2>5. QED
    BY <1>1, <1>2, <1>4, <2>2, <2>3, <2>4 DEF ParserTypes
<1>6. Shape
  <2>1. ~(Len(blocks) > 1) /\ \A i \in 2..Len(blocks) : FALSE
    BY <1>4
  <2>2. part = "definitions" /\ actual_function = NoName
    BY <1>1
  <2>3. QED
    BY <1>2, <1>4, <2>1, <2>2 DEF Shape, Placement
<1>7. Balanced(constructor, blocks)
  <2>1. blocks[1].rule \notin Branches /\ blocks[1].rule \notin {"while"}
        /\ blocks[1].rule \notin {"scope"}
    BY <1>4 DEF Branches
  <2>2. /\ Count(blocks, Branches) = 0 /\ Count(blocks, {"while"}) = 0
        /\ Count(blocks, {"scope"}) = 0
    BY <1>4, <2>1, CountOne
  <2>3. Len(constructor.conditions) = 0 /\ Len(constructor.loops) = 0
    BY <1>2
  <2>4. QED
    BY <1>2, <2>2, <2>3 DEF Balanced
<1>8. Ordered(constructor, functions)
  <2>1. Elements(constructor.conditions) = {} /\ Elements(constructor.loops) = {}
        /\ Len(constructor.conditions) = 0 /\ Len(constructor.loops) = 0
    BY <1>2 DEF Elements
  <2>2. Numbered(constructor)
    BY <1>2, <2>1 DEF Numbered, OnStacks
  <2>3. OpenConditions(constructor)
    BY <2>1 DEF OpenConditions, AllDifferent
  <2>4. OpenLoops(constructor)
    BY <2>1 DEF OpenLoops, AllDifferent
  <2>5. FunctionsPlaced(constructor, functions)
    BY <1>1, <1>2 DEF FunctionsPlaced, NoFunction
  <2>6. MentionsKnown(constructor, functions)
    BY <1>2 DEF MentionsKnown
  <2>7. OutermostLoop(constructor)
    BY <1>2, <2>1 DEF OutermostLoop
  <2>8. Begun(constructor)
    BY <1>2 DEF Begun
  <2>9. QED
    BY <1>2, <2>2, <2>3, <2>4, <2>5, <2>6, <2>7, <2>8 DEF Ordered
<1>9. QED
  BY <1>1, <1>2, <1>5, <1>6, <1>7, <1>8 DEF ParserInvariant, Sound

\* Every action of the parser, and what it leaves.
LEMMA ParserSteps ==
  ASSUME ParserInvariant, ParserNext
  PROVE  ParserInvariant'
<1>1. part \notin {"parsed", "refused"} /\ kind' = kind
  BY DEF ParserNext
<1>2. StillParsing
  BY <1>1 DEF ParserInvariant, ParserTypes, StillParsing, Parsing
<1>3. /\ kind \in DOMAIN Programs
      /\ Programs[kind].names \subseteq Names
      /\ Programs[kind].parameters \subseteq Seq(Names)
  BY <1>2, ProgramsAssumption DEF StillParsing, Parsing, ParserTypes
<1>4. ASSUME Parsing' /\ part' # "parsed"
      PROVE  ParserInvariant'
  BY <1>4 DEF ParserInvariant, Parsing
<1>5. ASSUME NEW name \in Programs[kind].names,
             NEW e \in Programs[kind].expressions["dim"], Dim(name, e)
      PROVE  ParserInvariant'
  BY <1>1, <1>2, <1>3, <1>4, <1>5, DimParsing
<1>6. ASSUME NEW name \in Programs[kind].names,
             NEW e \in Programs[kind].expressions["shared"], DimShared(name, e)
      PROVE  ParserInvariant'
  BY <1>1, <1>2, <1>3, <1>4, <1>6, DimSharedParsing
<1>7. ASSUME NEW name \in Programs[kind].names,
             NEW e \in Programs[kind].expressions["static"], Static(name, e)
      PROVE  ParserInvariant'
  BY <1>1, <1>2, <1>3, <1>4, <1>7, StaticParsing
<1>8. ASSUME NEW name \in Programs[kind].names,
             NEW e \in Programs[kind].expressions["assign"], Assign(name, e)
      PROVE  ParserInvariant'
  BY <1>1, <1>2, <1>3, <1>4, <1>8, AssignParsing
<1>9. ASSUME NEW name \in Programs[kind].names, InputTo(name)
      PROVE  ParserInvariant'
  BY <1>1, <1>2, <1>3, <1>4, <1>9, InputParsing
<1>10. ASSUME NEW f \in Programs[kind].names,
              NEW params \in Programs[kind].parameters, DeclareFunction(f, params)
       PROVE  ParserInvariant'
  BY <1>1, <1>2, <1>3, <1>4, <1>10, DeclareFunctionParsing
<1>11. ASSUME NEW f \in Programs[kind].names,
              NEW params \in Programs[kind].parameters, StartFunction(f, params)
       PROVE  ParserInvariant'
  BY <1>1, <1>2, <1>3, <1>4, <1>11, StartFunctionParsing
<1>12. ASSUME NEW e \in Programs[kind].expressions["return"], ReturnValue(e)
       PROVE  ParserInvariant'
  BY <1>1, <1>2, <1>4, <1>12, ReturnParsing
<1>13. ASSUME NEW e \in Programs[kind].expressions["while"], While(e)
       PROVE  ParserInvariant'
  BY <1>1, <1>2, <1>4, <1>13, WhileParsing
<1>14. ASSUME NEW e \in Programs[kind].expressions["if"], If(e)
       PROVE  ParserInvariant'
  BY <1>1, <1>2, <1>4, <1>14, IfParsing
<1>15. ASSUME NEW e \in Programs[kind].expressions["elseif"], ElseIf(e)
       PROVE  ParserInvariant'
  BY <1>1, <1>2, <1>4, <1>15, ElseIfParsing
<1>16. ASSUME NEW e \in Programs[kind].expressions["print"], PrintValue(e)
       PROVE  ParserInvariant'
  BY <1>1, <1>2, <1>4, <1>16, PrintParsing
<1>17. CASE EndFunction
  BY <1>1, <1>2, <1>4, <1>17, EndFunctionParsing
<1>18. CASE MainScope
  BY <1>1, <1>2, <1>4, <1>18, MainScopeParsing
<1>19. CASE Scope
  BY <1>1, <1>2, <1>4, <1>19, ScopeParsing
<1>20. CASE EndScope
  BY <1>1, <1>2, <1>4, <1>20, EndScopeParsing
<1>21. CASE Loop
  BY <1>1, <1>2, <1>4, <1>21, LoopParsing
<1>22. CASE Else
  BY <1>1, <1>2, <1>4, <1>22, ElseParsing
<1>23. CASE EndIf
  BY <1>1, <1>2, <1>4, <1>23, EndIfParsing
<1>24. CASE EndProgram
  BY <1>1, <1>2, <1>24, EndProgramParsing
<1>25. QED
  BY <1>5, <1>6, <1>7, <1>8, <1>9, <1>10, <1>11, <1>12, <1>13, <1>14, <1>15, <1>16,
     <1>17, <1>18, <1>19, <1>20, <1>21, <1>22, <1>23, <1>24 DEF ParserNext

LEMMA ParserStays ==
  ASSUME ParserInvariant, UNCHANGED parser
  PROVE  ParserInvariant'
<1>1. /\ part' = part /\ variables' = variables /\ functions' = functions
      /\ variables_table_counter' = variables_table_counter
      /\ actual_function' = actual_function
      /\ was_actual_function_declared' = was_actual_function_declared
      /\ globals' = globals /\ constructor' = constructor /\ blocks' = blocks
      /\ kind' = kind /\ left' = left
  BY DEF parser
<1>2. ParserTypes'
  BY <1>1 DEF ParserInvariant, ParserTypes
<1>3. Result => Result'
  BY <1>1 DEF Result
<1>4. Shape => Shape'
  BY <1>1 DEF Shape
<1>5. QED
  BY <1>1, <1>2, <1>3, <1>4 DEF ParserInvariant

THEOREM ParserInvariantHolds == Spec => []ParserInvariant
<1>1. Init => ParserInvariant
  BY ParserStarts DEF Init
<1>2. ParserInvariant /\ [Next]_vars => ParserInvariant'
  <2>1. CASE Parse
    BY <2>1, ParserSteps DEF Parse
  <2>2. CASE Run
    BY <2>2, ParserStays DEF Run
  <2>3. CASE UNCHANGED vars
    BY <2>3, ParserStays DEF vars
  <2>4. QED
    BY <2>1, <2>2, <2>3 DEF Next
<1>3. QED
  BY <1>1, <1>2, PTL DEF Spec

-----------------------------------------------------------------------------
(* What the invariant is for.                                              *)

\* Outside functions and after them nothing is local: the function that was
\* being read (parser_semantic.c) is forgotten at its end.
THEOREM MainIsGlobal == Spec => []MainHasNoLocals
<1>1. ParserInvariant => MainHasNoLocals
  BY DEF ParserInvariant, Shape, Placement, MainHasNoLocals
<1>2. QED
  BY <1>1, ParserInvariantHolds, PTL

\* The assertions at the end of parser_parse: every label pushed for a
\* construct was popped and every depth counter is back at zero.
THEOREM AssertionsHold == Spec => []ParseAssertions
<1>1. ParserInvariant => ParseAssertions
  BY DEF ParserInvariant, Result, ParseAssertions, Compiled
<1>2. QED
  BY <1>1, ParserInvariantHolds, PTL

\* The label declarations of a loop are moved before is in the list being
\* written, and not as its first instruction.
THEOREM DeclarationsPlaced == Spec => []DeclarationsHaveAPlace
<1>1. ParserInvariant => DeclarationsHaveAPlace
  <2> SUFFICES ASSUME ParserInvariant, part \notin {"parsed", "refused"},
                      constructor.loops_initial # NoLabel
               PROVE  HasPlace(constructor, constructor.loops_initial)
    BY DEF DeclarationsHaveAPlace, HasPlace, Writing
  <2>1. OutermostLoop(constructor)
    BY DEF ParserInvariant, Sound, Ordered
  <2>2. QED
    BY <2>1 DEF OutermostLoop
<1>2. QED
  BY <1>1, ParserInvariantHolds, PTL

\* Every jump and call of a program that is accepted has its label in the
\* code, and has it once.
THEOREM JumpsHaveTheirLabels == Spec => []JumpsResolve
<1>1. ParserInvariant => JumpsResolve
  <2> SUFFICES ASSUME ParserInvariant, part = "parsed",
                      NEW i \in DOMAIN Code, Code[i].label # NoLabel
               PROVE  Cardinality(PlacesOf(Code[i].label)) = 1
    BY DEF JumpsResolve, Compiled
  <2> DEFINE l == Code[i].label
  <2>1. PlacedOnce(Code) /\ MentionedIn(Code) \subseteq PlacedIn(Code)
    BY DEF ParserInvariant, Result, Resolved, Code
  <2>2. l \in PlacedIn(Code)
    BY <2>1 DEF MentionedIn
  <2> HIDE DEF l
  <2>3. l \in Labels
    BY <2>2 DEF PlacedIn
  <2>4. PICK k \in DOMAIN Code : Code[k] = AtLabel(l)
    BY <2>2 DEF PlacedIn
  <2>5. \A j \in DOMAIN Code : Code[j] = AtLabel(l) => j = k
    BY <2>1, <2>3, <2>4 DEF PlacedOnce
  <2>6. PlacesOf(l) = {k}
    BY <2>4, <2>5 DEF PlacesOf
  <2>7. Cardinality(PlacesOf(l)) = 1
    BY <2>6, FS_Singleton
  <2>8. QED
    BY <2>7 DEF l
<1>2. QED
  BY <1>1, ParserInvariantHolds, PTL

-----------------------------------------------------------------------------
(* Names.  While no condition has an ELSEIF or an ELSE, there is one table *)
(* for each open block, and it holds what the block declares.  (With them  *)
(* there is not: the table of an ELSEIF is missing, that of a THEN stays   *)
(* until END IF.)                                                          *)

NoElse(allowed) == allowed["elseif"] = 0 /\ allowed["else"] = 0

Unbranched(b) == \A i \in 1..Len(b) : b[i].rule \notin {"elseif", "else"}

SameNames(tables, b) ==
  /\ Len(tables) = Len(b)
  /\ \A i \in 1..Len(b) : tables[i].vars = b[i].table.vars

Lexical ==
  /\ NoElse(left) /\ Unbranched(blocks)
  /\ part \notin {"parsed", "refused"} => SameNames(variables, blocks)

LEMMA NamesPushed ==
  ASSUME NEW stack \in Seq(Table), NEW b \in Seq(Blocks), SameNames(stack, b),
         NEW t \in Table, NEW k \in Blocks, t.vars = k.table.vars
  PROVE  SameNames(Append(stack, t), Append(b, k))
<1> DEFINE n == Len(b)
<1>1. n \in Nat /\ Len(stack) = n
  BY LenProperties DEF SameNames
<1>2. /\ Len(Append(stack, t)) = n + 1 /\ Append(stack, t)[n + 1] = t
      /\ \A i \in 1..n : Append(stack, t)[i] = stack[i]
  BY <1>1, AppendProperties
<1>3. /\ Len(Append(b, k)) = n + 1 /\ Append(b, k)[n + 1] = k
      /\ \A i \in 1..n : Append(b, k)[i] = b[i]
  BY AppendProperties
<1>4. \A i \in 1..n : stack[i].vars = b[i].table.vars
  BY DEF SameNames
<1> DEFINE s == Append(stack, t)
           d == Append(b, k)
<1> HIDE DEF n, s, d
<1>5. ASSUME NEW i \in 1..n + 1 PROVE s[i].vars = d[i].table.vars
  <2>1. CASE i = n + 1
    BY <1>2, <1>3, <2>1 DEF s, d
  <2>2. CASE i # n + 1
    <3>1. i \in 1..n
      BY <1>1, <2>2
    <3>2. QED
      BY <1>2, <1>3, <1>4, <3>1 DEF s, d
  <2>3. QED
    BY <2>1, <2>2
<1>6. QED
  BY <1>2, <1>3, <1>5 DEF SameNames, s, d

LEMMA NamesPopped ==
  ASSUME NEW stack \in Seq(Table), NEW b \in Seq(Blocks), SameNames(stack, b),
         Len(b) > 1
  PROVE  SameNames(PopTable(stack), Front(b))
<1> DEFINE n == Len(b) - 1
           s == PopTable(stack)
           d == Front(b)
<1>1. /\ Len(d) = n /\ (\A i \in 1..n : d[i] = b[i])
  BY BlockRemoved
<1>2. Len(b) = Len(stack) /\ \A i \in 1..Len(b) : stack[i].vars = b[i].table.vars
  BY DEF SameNames
<1>3. /\ Len(s) = n /\ (\A i \in 1..n : s[i] = stack[i])
  BY <1>2, PopTableEffect
<1>4. \A i \in 1..n : i \in 1..Len(b)
  BY LenProperties
<1> HIDE DEF n, s, d
<1>5. QED
  BY <1>1, <1>2, <1>3, <1>4 DEF SameNames, s, d

\* The variable just created is the one its name means.
LEMMA NamesDeclared ==
  ASSUME NEW stack \in Seq(Table), NEW b \in Seq(Blocks), SameNames(stack, b),
         Len(b) > 0, NEW name \in Names, ~Holds(Top(stack), name),
         NEW s, s = AddVariable(stack, name, 0, 0),
         NEW d, d = [b EXCEPT ![Len(b)].table.vars[name] = Find(s, name)]
  PROVE  SameNames(s, d)
<1> DEFINE n == Len(b)
           v == NewVariable(Top(stack), name, 0, 0)
<1>1. n \in Nat /\ Len(stack) = n /\ n \in 1..n /\ b[n] \in Blocks
  BY LenProperties, ElementOfSeq DEF SameNames
<1>2. \A i \in 1..n : stack[i].vars = b[i].table.vars
  BY DEF SameNames
<1>3. /\ s \in Seq(Table) /\ Len(s) = n /\ v # NoVariable
      /\ \A i \in 1..n : i # n => s[i] = stack[i]
      /\ \A m \in Names : s[n].vars[m] = IF m = name THEN v ELSE stack[n].vars[m]
  <2>1. 0 \in Nat /\ Len(stack) > 0 /\ v = NewVariable(Top(stack), name, 0, 0)
    BY <1>1
  <2> HIDE DEF v
  <2>2. /\ s \in Seq(Table) /\ Len(s) = Len(stack) /\ v # NoVariable
        /\ \A i \in 1..Len(stack) : i # Len(stack) => s[i] = stack[i]
        /\ \A i \in 1..Len(stack), m \in Names :
             s[i].vars[m] = IF i = Len(stack) /\ m = name
                            THEN v ELSE stack[i].vars[m]
    BY <2>1, AddVariableEffect
  <2>3. QED
    BY <1>1, <2>2
<1> HIDE DEF v
<1>4. Find(s, name) = v
  <2>1. s[n].vars[name] = v
    BY <1>3
  <2>2. n \in Holders(s, name)
    BY <1>1, <1>3, <2>1 DEF Holders, Holds
  <2>3. PICK i \in Holders(s, name) :
          /\ \A j \in Holders(s, name) : j <= i
          /\ Find(s, name) = s[i].vars[name]
    BY <1>3, <2>2, FindInnermost
  <2>4. i \in 1..n /\ n <= i
    BY <1>3, <2>2, <2>3 DEF Holders
  <2>5. i = n
    BY <1>1, <2>4
  <2>6. QED
    BY <2>1, <2>3, <2>5
<1> DEFINE old == b[n]
           vars_ == [old.table.vars EXCEPT ![name] = v]
           table_ == [old.table EXCEPT !.vars = vars_]
           new == [old EXCEPT !.table = table_]
<1>5. old.table \in Table /\ old \in Blocks
  BY <1>1 DEF Blocks
<1>6. vars_ \in [Names -> Variable \cup {NoVariable}]
      /\ \A m \in Names : vars_[m] = IF m = name THEN v ELSE old.table.vars[m]
  <2>1. v \in Variable \cup {NoVariable}
    BY <1>3, <1>4, FindType
  <2>2. QED
    BY <1>5, <2>1 DEF Table
<1>7. s[n].vars \in [Names -> Variable \cup {NoVariable}]
  <2>1. s[n] \in Table
    BY <1>1, <1>3, ElementOfSeq
  <2>2. QED
    BY <2>1 DEF Table
<1>8. s[n].vars = vars_
  BY ZenonT(90), <1>1, <1>2, <1>3, <1>6, <1>7
<1>9. table_ \in Table /\ table_.vars = vars_
  BY <1>5, <1>6 DEF Table
<1>10. new \in Blocks /\ new.table = table_
  <2> HIDE DEF table_
  <2>1. QED
    BY <1>5, <1>9 DEF Blocks
<1>11. d = [b EXCEPT ![n] = new]
  BY <1>4
<1> HIDE DEF new, table_, vars_, old
<1>12. Len(d) = Len(b) /\ \A i \in 1..Len(b) : d[i] = IF i = n THEN new ELSE b[i]
  <2>1. n \in 1..Len(b)
    BY <1>1
  <2>2. Len(d) = Len(b)
    BY <1>10, <1>11, <2>1, ExceptSeq
  <2>3. \A i \in 1..Len(b) : d[i] = IF i = n THEN new ELSE b[i]
    BY SMTT(90), <1>10, <1>11, <2>1, ExceptSeq
  <2>4. QED
    BY <2>2, <2>3
<1> HIDE DEF n
<1>13. Len(b) = n
  BY DEF n
<1>14. ASSUME NEW i \in 1..n PROVE s[i].vars = d[i].table.vars
  <2>1. CASE i = n
    BY <1>8, <1>9, <1>10, <1>12, <1>13, <2>1
  <2>2. CASE i # n
    BY <1>2, <1>3, <1>12, <1>13, <2>2
  <2>3. QED
    BY <2>1, <2>2
<1>15. QED
  BY <1>3, <1>12, <1>13, <1>14 DEF SameNames

\* Where the tables agree, a name means the same.
LEMMA FindSame ==
  ASSUME NEW stack \in Seq(Table), NEW b \in Seq(Blocks), SameNames(stack, b),
         NEW name
  PROVE  Find(stack, name) = Find([i \in DOMAIN b |-> b[i].table], name)
<1> DEFINE t == [i \in DOMAIN b |-> b[i].table]
           n == Len(b)
<1>1. n \in Nat /\ DOMAIN b = 1..n
  BY LenProperties
<1>2. Len(t) = n /\ \A i \in 1..n : t[i] = b[i].table
  <2>1. ASSUME NEW i \in 1..n PROVE b[i].table \in Table
    <3>1. b[i] \in Blocks
      BY ElementOfSeq
    <3>2. QED
      BY <3>1 DEF Blocks
  <2>2. t \in [1..n -> Table]
    BY <1>1, <2>1
  <2>3. t \in Seq(Table) /\ DOMAIN t = 1..n
    BY <1>1, <2>2
  <2>4. QED
    BY <1>1, <2>3
<1>3. Len(stack) = n /\ \A i \in 1..n : stack[i].vars = t[i].vars
  BY <1>2 DEF SameNames
<1> HIDE DEF n, t
<1> DEFINE H == Holders(stack, name)
<1>4. Holders(t, name) = H /\ H \subseteq 1..n
  BY <1>2, <1>3 DEF Holders, Holds
<1> HIDE DEF H
<1>5. CASE H = {}
  BY <1>4, <1>5 DEF Find, H, t
<1>6. CASE H # {}
  <2> DEFINE i == CHOOSE k \in H : \A j \in H : j <= k
  <2>1. \E k \in H : \A j \in H : j <= k
    BY <1>1, <1>4, <1>6, GreatestIndex
  <2>2. i \in H
    BY <2>1
  <2> HIDE DEF i
  <2>3. Find(stack, name) = stack[i].vars[name]
    BY <1>6 DEF Find, H, i
  <2>4. Find(t, name) = t[i].vars[name]
    BY <1>4, <1>6 DEF Find, i
  <2>5. QED
    BY <1>3, <1>4, <2>2, <2>3, <2>4 DEF t
<1>7. QED
  BY <1>5, <1>6

LEMMA SpentElsewhere ==
  ASSUME left \in [Constructs -> Nat], NoElse(left),
         NEW construct \in Constructs, Spend(construct)
  PROVE  NoElse(left') /\ construct # "elseif" /\ construct # "else"
<1>1. left[construct] > 0 /\ left' = [left EXCEPT ![construct] = @ - 1]
  BY DEF Spend
<1>2. left[construct] # 0
  BY <1>1
<1>3. construct # "elseif" /\ construct # "else"
  BY <1>2 DEF NoElse
<1>4. QED
  BY <1>1, <1>3 DEF NoElse, Constructs

\* What a step may do to the tables and the blocks: nothing, a declaration in
\* the innermost, one of each more, one of each less.
LEMMA NamesAsBefore ==
  ASSUME StillParsing, Lexical, NoElse(left'),
         variables' = variables, blocks' = blocks
  PROVE  Lexical'
<1>1. SameNames(variables, blocks)
  BY DEF StillParsing, Lexical
<1>2. QED
  BY <1>1 DEF Lexical

LEMMA NamesOfDeclaration ==
  ASSUME StillParsing, Lexical, NoElse(left'), NEW name \in Names, Declarable(name),
         NEW frames, NEW declared, NEW value, Declare(name, frames, declared, value)
  PROVE  Lexical'
<1>1. SameNames(variables, blocks)
  BY DEF StillParsing, Lexical
<1>2. variables \in Seq(Table) /\ blocks \in Seq(Blocks) /\ Len(blocks) > 0
      /\ Len(variables) > 0
  BY DEF StillParsing, Parsing, ParserTypes
<1>3. ~Holds(Top(variables), name)
  BY DEF Declarable
<1>4. variables' = AddVariable(variables, name, 0, 0)
      /\ blocks' = [blocks EXCEPT ![Len(blocks)].table.vars[name] =
                      Find(variables', name)]
  BY DEF Declare
<1>5. SameNames(variables', blocks')
  BY <1>1, <1>2, <1>3, <1>4, NamesDeclared
<1>6. variables' \in Seq(Table)
  <2> DEFINE v == NewVariable(Top(variables), name, 0, 0)
  <2>1. 0 \in Nat /\ v = NewVariable(Top(variables), name, 0, 0)
    OBVIOUS
  <2> HIDE DEF v
  <2>2. QED
    BY <1>2, <1>3, <1>4, <2>1, AddVariableEffect
<1>7. Find(variables', name) \in Variable \cup {NoVariable}
  BY <1>6, FindType
<1>8. SameRules(blocks, blocks')
  BY <1>2, <1>4, <1>7, BlockChanged
<1>9. Unbranched(blocks')
  BY <1>8 DEF SameRules, Lexical, Unbranched
<1>10. QED
  BY <1>5, <1>9 DEF Lexical

LEMMA NamesOpened ==
  ASSUME StillParsing, Lexical, NoElse(left'), NEW t \in Table, NEW k \in Blocks,
         t.vars = k.table.vars, k.rule \notin {"elseif", "else"},
         variables' = Append(variables, t), blocks' = Append(blocks, k)
  PROVE  Lexical'
<1>1. SameNames(variables, blocks)
  BY DEF StillParsing, Lexical
<1>2. variables \in Seq(Table) /\ blocks \in Seq(Blocks) /\ Len(blocks) > 0
  BY DEF StillParsing, Parsing, ParserTypes
<1>3. SameNames(variables', blocks')
  BY <1>1, <1>2, NamesPushed
<1>4. Adds(blocks, blocks', k.rule)
  BY <1>2, BlockAdded
<1>5. Unbranched(blocks')
  <2> DEFINE n == Len(blocks)
  <2>1. n \in Nat /\ Len(blocks') = n + 1
        /\ (\A i \in 1..n : blocks[i].rule = blocks'[i].rule)
        /\ blocks'[n + 1].rule = k.rule
    BY <1>2, <1>4, LenProperties DEF Adds
  <2>2. \A i \in 1..n : blocks[i].rule \notin {"elseif", "else"}
    BY DEF Lexical, Unbranched
  <2> HIDE DEF n
  <2>3. QED
    BY <2>1, <2>2 DEF Unbranched
<1>6. QED
  BY <1>3, <1>5 DEF Lexical

LEMMA NamesClosed ==
  ASSUME StillParsing, Lexical, NoElse(left'), Rule # "program",
         variables' = PopTable(variables), blocks' = Front(blocks)
  PROVE  Lexical'
<1>1. SameNames(variables, blocks)
  BY DEF StillParsing, Lexical
<1>2. variables \in Seq(Table) /\ blocks \in Seq(Blocks) /\ Len(blocks) > 0
      /\ blocks[1].rule = "program"
  BY DEF StillParsing, Parsing, ParserTypes, Shape, Placement
<1>3. Len(blocks) > 1
  <2>1. Last(blocks) = blocks[Len(blocks)] /\ Len(blocks) \in Nat
    BY <1>2, SplitLast, LenProperties
  <2>2. Len(blocks) # 1
    BY <1>2, <2>1 DEF Rule
  <2> DEFINE n == Len(blocks)
  <2>3. n \in Nat /\ n > 0 /\ n # 1
    BY <1>2, <2>1, <2>2
  <2> HIDE DEF n
  <2>4. n > 1
    BY <2>3
  <2>5. QED
    BY <2>4 DEF n
<1>4. SameNames(variables', blocks')
  BY <1>1, <1>2, <1>3, NamesPopped
<1>5. Unbranched(blocks')
  <2> DEFINE n == Len(blocks) - 1
  <2>1. /\ Len(Front(blocks)) = n
        /\ \A i \in 1..n : Front(blocks)[i] = blocks[i] /\ i \in 1..Len(blocks)
    BY <1>2, <1>3, BlockRemoved, LenProperties
  <2>2. \A i \in 1..Len(blocks) : blocks[i].rule \notin {"elseif", "else"}
    BY DEF Lexical, Unbranched
  <2> HIDE DEF n
  <2>3. QED
    BY <2>1, <2>2 DEF Unbranched
<1>6. QED
  BY <1>4, <1>5 DEF Lexical

\* A block with an empty table.
LEMMA NamesOfBlock ==
  ASSUME StillParsing, Lexical, NoElse(left'), OpenTable,
         NEW rule \in {"scope", "while", "then"},
         blocks' = Append(blocks, Block(rule))
  PROVE  Lexical'
<1> DEFINE t == EmptyTable(variables_table_counter + 1, NoName)
           k == Block(rule)
<1>1. t \in Table
  <2>1. variables_table_counter + 1 \in Nat
    BY DEF StillParsing, Parsing, ParserTypes
  <2>2. QED
    BY <2>1, EmptyTableType
<1>2. k \in Blocks /\ k.rule = rule
  BY BlockType DEF OpenRules, Branches
<1>3. t.vars = k.table.vars
  BY DEF EmptyTable, Block
<1>4. variables' = Append(variables, t) /\ blocks' = Append(blocks, k)
  BY DEF OpenTable, PushTable
<1>5. rule \notin {"elseif", "else"}
  OBVIOUS
<1> HIDE DEF t, k
<1>6. QED
  BY <1>1, <1>2, <1>3, <1>4, <1>5, NamesOpened

LEMMA NamesSteps ==
  ASSUME ParserInvariant, Lexical, ParserNext
  PROVE  Lexical'
<1>1. StillParsing
  BY DEF ParserInvariant, ParserTypes, StillParsing, Parsing, ParserNext
<1>2. /\ left \in [Constructs -> Nat] /\ NoElse(left) /\ Unbranched(blocks)
      /\ variables_table_counter \in Nat
      /\ blocks \in Seq(Blocks) /\ Len(blocks) > 0 /\ kind \in DOMAIN Programs
  BY <1>1 DEF StillParsing, Parsing, ParserTypes, Lexical
<1>3. Programs[kind].names \subseteq Names /\ Programs[kind].parameters \subseteq Seq(Names)
  BY <1>2, ProgramsAssumption
<1>4. ASSUME NEW construct \in Constructs, Spend(construct)
      PROVE  NoElse(left') /\ construct # "elseif" /\ construct # "else"
  BY <1>2, <1>4, SpentElsewhere
<1>5. /\ "dim" \in Constructs /\ "shared" \in Constructs /\ "static" \in Constructs
      /\ "declare" \in Constructs /\ "function" \in Constructs
      /\ "return" \in Constructs /\ "scope" \in Constructs /\ "while" \in Constructs
      /\ "if" \in Constructs /\ "elseif" \in Constructs /\ "else" \in Constructs
      /\ "assign" \in Constructs /\ "input" \in Constructs /\ "print" \in Constructs
  BY DEF Constructs
<1>6. Rule \notin {"elseif", "else"}
  <2>1. Last(blocks) = blocks[Len(blocks)] /\ Len(blocks) \in 1..Len(blocks)
    <3> DEFINE n == Len(blocks)
    <3>1. n \in Nat /\ n > 0 /\ Last(blocks) = blocks[n]
      BY <1>2, SplitLast, LenProperties
    <3> HIDE DEF n
    <3>2. n \in 1..n
      BY <3>1
    <3>3. QED
      BY <3>1, <3>2 DEF n
  <2>2. QED
    BY <1>2, <2>1 DEF Rule, Unbranched
<1>7. ASSUME RefuseProgram, NoElse(left') PROVE Lexical'
  <2>1. variables' = variables /\ blocks' = blocks
    BY <1>7 DEF RefuseProgram
  <2>2. QED
    BY <1>1, <1>7, <2>1, NamesAsBefore
<1>8. ASSUME OnlyCode, NoElse(left') PROVE Lexical'
  <2>1. variables' = variables /\ blocks' = blocks
    BY <1>8 DEF OnlyCode
  <2>2. QED
    BY <1>1, <1>8, <2>1, NamesAsBefore
<1>9. ASSUME NEW name \in Programs[kind].names,
             NEW e \in Programs[kind].expressions["dim"], Dim(name, e)
      PROVE  Lexical'
  <2>1. NoElse(left')
    BY <1>4, <1>5, <1>9 DEF Dim
  <2>2. CASE RefuseProgram
    BY <1>7, <2>1, <2>2
  <2>3. CASE ~RefuseProgram
    <3>1. Declarable(name) /\ \E frames, declared, value :
            Declare(name, frames, declared, value)
      BY <1>9, <2>3 DEF Dim
    <3>2. QED
      BY <1>1, <1>3, <2>1, <3>1, NamesOfDeclaration
  <2>4. QED
    BY <2>2, <2>3
<1>10. ASSUME NEW name \in Programs[kind].names,
              NEW e \in Programs[kind].expressions["shared"], DimShared(name, e)
       PROVE  Lexical'
  <2>1. NoElse(left')
    BY <1>4, <1>5, <1>10 DEF DimShared
  <2>2. CASE RefuseProgram
    BY <1>7, <2>1, <2>2
  <2>3. CASE ~RefuseProgram
    <3>1. Declarable(name) /\ \E frames, declared, value :
            Declare(name, frames, declared, value)
      BY <1>10, <2>3 DEF DimShared
    <3>2. QED
      BY <1>1, <1>3, <2>1, <3>1, NamesOfDeclaration
  <2>4. QED
    BY <2>2, <2>3
<1>11. ASSUME NEW name \in Programs[kind].names,
              NEW e \in Programs[kind].expressions["static"], Static(name, e)
       PROVE  Lexical'
  <2>1. NoElse(left')
    BY <1>4, <1>5, <1>11 DEF Static
  <2>2. CASE RefuseProgram
    BY <1>7, <2>1, <2>2
  <2>3. CASE ~RefuseProgram
    <3>1. Declarable(name) /\ \E frames, declared, value :
            Declare(name, frames, declared, value)
      BY <1>11, <2>3 DEF Static
    <3>2. QED
      BY <1>1, <1>3, <2>1, <3>1, NamesOfDeclaration
  <2>4. QED
    BY <2>2, <2>3
<1>12. ASSUME NEW name \in Programs[kind].names,
              NEW e \in Programs[kind].expressions["assign"], Assign(name, e)
       PROVE  Lexical'
  BY <1>4, <1>5, <1>7, <1>8, <1>12 DEF Assign
<1>13. ASSUME NEW name \in Programs[kind].names, InputTo(name)
       PROVE  Lexical'
  BY <1>4, <1>5, <1>7, <1>8, <1>13 DEF InputTo
<1>14. ASSUME NEW f \in Programs[kind].names,
              NEW params \in Programs[kind].parameters, DeclareFunction(f, params)
       PROVE  Lexical'
  <2>1. NoElse(left')
    BY <1>4, <1>5, <1>14 DEF DeclareFunction
  <2>2. variables' = variables /\ blocks' = blocks
    BY <1>14 DEF DeclareFunction, RefuseProgram
  <2>3. QED
    BY <1>1, <2>1, <2>2, NamesAsBefore
<1>15. ASSUME NEW f \in Programs[kind].names,
              NEW params \in Programs[kind].parameters, StartFunction(f, params)
       PROVE  Lexical'
  <2>1. NoElse(left')
    BY <1>4, <1>5, <1>15 DEF StartFunction
  <2>2. CASE RefuseProgram
    BY <1>7, <2>1, <2>2
  <2>3. CASE ~RefuseProgram
    <3> DEFINE id == variables_table_counter + 1
               t == FunctionTable(id, f, params, 0)
               k == [rule |-> "function", table |-> t]
    <3>1. variables' = Append(variables, t) /\ blocks' = Append(blocks, k)
      BY <1>15, <2>3 DEF StartFunction
    <3>2. t \in Table
      <4>1. id \in Nat /\ 0 \in Nat /\ f \in Names /\ params \in Seq(Names)
        BY <1>2, <1>3
      <4> HIDE DEF id
      <4>2. QED
        BY <4>1, FunctionTableType
    <3> HIDE DEF t
    <3>3. k \in Blocks /\ k.rule = "function" /\ k.table = t
      BY <3>2 DEF Blocks, OpenRules
    <3> HIDE DEF k
    <3>4. t.vars = k.table.vars /\ k.rule \notin {"elseif", "else"}
      BY <3>3
    <3>5. QED
      BY <1>1, <2>1, <3>1, <3>2, <3>3, <3>4, NamesOpened
  <2>4. QED
    BY <2>2, <2>3
<1>16. ASSUME NEW e \in Programs[kind].expressions["return"], ReturnValue(e)
       PROVE  Lexical'
  <2>1. NoElse(left')
    BY <1>4, <1>5, <1>16 DEF ReturnValue
  <2>2. variables' = variables /\ blocks' = blocks
    BY <1>16 DEF ReturnValue, RefuseProgram
  <2>3. QED
    BY <1>1, <2>1, <2>2, NamesAsBefore
<1>17. ASSUME NEW e \in Programs[kind].expressions["while"], While(e)
       PROVE  Lexical'
  <2>1. NoElse(left')
    BY <1>4, <1>5, <1>17 DEF While
  <2>2. CASE RefuseProgram
    BY <1>7, <2>1, <2>2
  <2>3. CASE ~RefuseProgram
    <3>1. OpenTable /\ blocks' = Append(blocks, Block("while"))
      BY <1>17, <2>3 DEF While
    <3>2. QED
      BY <1>1, <2>1, <3>1, NamesOfBlock
  <2>4. QED
    BY <2>2, <2>3
<1>18. ASSUME NEW e \in Programs[kind].expressions["if"], If(e)
       PROVE  Lexical'
  <2>1. NoElse(left')
    BY <1>4, <1>5, <1>18 DEF If
  <2>2. CASE RefuseProgram
    BY <1>7, <2>1, <2>2
  <2>3. CASE ~RefuseProgram
    <3>1. OpenTable /\ blocks' = Append(blocks, Block("then"))
      BY <1>18, <2>3 DEF If
    <3>2. QED
      BY <1>1, <2>1, <3>1, NamesOfBlock
  <2>4. QED
    BY <2>2, <2>3
<1>19. ASSUME NEW e \in Programs[kind].expressions["elseif"], ElseIf(e)
       PROVE  FALSE
  <2>1. Spend("elseif")
    BY <1>19 DEF ElseIf
  <2>2. QED
    BY <1>4, <1>5, <2>1
<1>20. ASSUME NEW e \in Programs[kind].expressions["print"], PrintValue(e)
       PROVE  Lexical'
  BY <1>4, <1>5, <1>7, <1>8, <1>20 DEF PrintValue
<1>21. CASE EndFunction
  <2>1. /\ Rule # "program" /\ variables' = PopTable(variables)
        /\ blocks' = Front(blocks) /\ left' = left
    BY <1>21 DEF EndFunction
  <2>2. QED
    BY <1>1, <1>2, <2>1, NamesClosed
<1>22. CASE MainScope
  <2>1. left' = left
    BY <1>22 DEF MainScope
  <2>2. CASE RefuseProgram
    BY <1>2, <1>7, <2>1, <2>2
  <2>3. CASE ~RefuseProgram
    <3>1. OpenTable /\ blocks' = Append(blocks, Block("scope"))
      BY <1>22, <2>3 DEF MainScope
    <3>2. QED
      BY <1>1, <1>2, <2>1, <3>1, NamesOfBlock
  <2>4. QED
    BY <2>2, <2>3
<1>23. CASE Scope
  <2>1. OpenTable /\ blocks' = Append(blocks, Block("scope")) /\ NoElse(left')
    BY <1>4, <1>5, <1>23 DEF Scope
  <2>2. QED
    BY <1>1, <2>1, NamesOfBlock
<1>24. CASE EndScope
  <2>1. /\ Rule # "program" /\ variables' = PopTable(variables)
        /\ blocks' = Front(blocks) /\ left' = left
    BY <1>24 DEF EndScope
  <2>2. QED
    BY <1>1, <1>2, <2>1, NamesClosed
<1>25. CASE Loop
  <2>1. /\ Rule # "program" /\ variables' = PopTable(variables)
        /\ blocks' = Front(blocks) /\ left' = left
    BY <1>25 DEF Loop
  <2>2. QED
    BY <1>1, <1>2, <2>1, NamesClosed
<1>26. CASE Else
  <2>1. Spend("else")
    BY <1>26 DEF Else
  <2>2. QED
    BY <1>4, <1>5, <2>1
<1>27. CASE EndIf
  <2>1. /\ Rule # "program" /\ variables' = PopTable(variables)
        /\ blocks' = Front(blocks) /\ left' = left
    BY <1>6, <1>27 DEF EndIf, TablesAfterBranch
  <2>2. QED
    BY <1>1, <1>2, <2>1, NamesClosed
<1>28. CASE EndProgram
  <2>1. variables' = variables /\ blocks' = blocks /\ left' = left
    BY <1>28 DEF EndProgram
  <2>2. QED
    BY <1>1, <1>2, <2>1, NamesAsBefore
<1>29. QED
  BY <1>9, <1>10, <1>11, <1>12, <1>13, <1>14, <1>15, <1>16, <1>17, <1>18, <1>19, <1>20,
     <1>21, <1>22, <1>23, <1>24, <1>25, <1>26, <1>27, <1>28 DEF ParserNext

\* In programs whose conditions have no ELSEIF and no ELSE a name means what
\* the innermost block that declares it says.
THEOREM NamesAreLexical ==
  ASSUME \A k \in DOMAIN Programs : NoElse(Programs[k].allowance)
  PROVE  Spec => []EveryNameMeansItsBlock
<1>1. Init => Lexical
  <2> SUFFICES ASSUME Init PROVE Lexical
    OBVIOUS
  <2>1. /\ part = "definitions" /\ variables = <<EmptyTable(0, NoName)>>
        /\ blocks = <<Block("program")>>
        /\ kind \in DOMAIN Programs /\ left = Programs[kind].allowance
    BY DEF Init, ParserInit
  <2> DEFINE t == EmptyTable(0, NoName)
             k == Block("program")
  <2>2. k.rule = "program" /\ t.vars = k.table.vars
    BY DEF Block
  <2>3. variables = <<t>> /\ blocks = <<k>>
    BY <2>1
  <2> HIDE DEF t, k
  <2>4. Unbranched(blocks) /\ SameNames(variables, blocks)
    BY <2>2, <2>3 DEF Unbranched, SameNames
  <2>5. QED
    BY <2>1, <2>4 DEF Lexical
<1>2. ParserInvariant /\ Lexical /\ [Next]_vars => Lexical'
  <2> SUFFICES ASSUME ParserInvariant, Lexical, [Next]_vars PROVE Lexical'
    OBVIOUS
  <2>1. CASE Parse
    BY <2>1, NamesSteps DEF Parse
  <2>2. CASE UNCHANGED parser
    BY <2>2 DEF parser, Lexical
  <2>3. QED
    BY <2>1, <2>2 DEF Next, Run, vars
<1>3. ParserInvariant /\ Lexical => EveryNameMeansItsBlock
  <2> SUFFICES ASSUME ParserInvariant, Lexical, part \notin {"parsed", "refused"},
                      NEW n \in Names
               PROVE  Find(variables, n) =
                        Find([i \in DOMAIN blocks |-> blocks[i].table], n)
    BY DEF EveryNameMeansItsBlock
  <2>1. SameNames(variables, blocks)
    BY DEF Lexical
  <2>2. variables \in Seq(Table) /\ blocks \in Seq(Blocks)
    BY DEF ParserInvariant, ParserTypes
  <2>3. QED
    BY <2>1, <2>2, FindSame
<1>4. QED
  BY <1>1, <1>2, <1>3, ParserInvariantHolds, PTL DEF Spec

-----------------------------------------------------------------------------
(* The machine that runs the code: what one instruction leaves of its type. *)

Calls(n) == [back : 1..n + 1, height : Nat]

Machine(m, n) ==
  /\ m = [pc |-> m.pc, gf |-> m.gf, lf |-> m.lf, tf |-> m.tf,
          height |-> m.height, calls |-> m.calls, fault |-> m.fault]
  /\ m.pc \in 1..n + 1 /\ m.height \in Nat /\ m.fault \in Faults
  /\ m.calls \in Seq(Calls(n))

LEMMA MachineStarts ==
  ASSUME NEW n \in Nat
  PROVE  Machine(StartMachine, n)
<1>1. 1 \in 1..n + 1 /\ "none" \in Faults /\ << >> \in Seq(Calls(n))
  BY DEF Faults
<1>2. QED
  BY <1>1 DEF Machine, StartMachine

LEMMA MachineFails ==
  ASSUME NEW n \in Nat, NEW m, Machine(m, n), NEW fault \in Faults
  PROVE  Machine(Fail(m, fault), n)
BY DEF Machine, Fail

LEMMA MachineAdvances ==
  ASSUME NEW n \in Nat, NEW m, Machine(m, n), m.pc \in 1..n
  PROVE  Machine(Advance(m), n)
<1>1. m.pc + 1 \in 1..n + 1
  OBVIOUS
<1>2. QED
  BY <1>1 DEF Machine, Advance

LEMMA MachineLifts ==
  ASSUME NEW n \in Nat, NEW m, Machine(m, n), NEW h \in Nat
  PROVE  /\ Machine([m EXCEPT !.height = h], n)
         /\ [m EXCEPT !.height = h].pc = m.pc
BY DEF Machine

Reframed(m, r, lf, tf) == r = [m EXCEPT !.lf = lf, !.tf = tf]

LEMMA MachineFrames ==
  ASSUME NEW n \in Nat, NEW m, Machine(m, n), NEW lf, NEW tf,
         NEW r, Reframed(m, r, lf, tf)
  PROVE  Machine(r, n) /\ r.pc = m.pc
<1> DEFINE locals == [m EXCEPT !.lf = lf]
<1>1. Machine(locals, n) /\ locals.pc = m.pc
  BY DEF Machine
<1>2. r = [locals EXCEPT !.tf = tf]
  BY DEF Reframed
<1> HIDE DEF locals
<1>3. Machine(r, n) /\ r.pc = locals.pc
  BY <1>1, <1>2 DEF Machine
<1>4. QED
  BY <1>1, <1>3

LEMMA MachineWrites ==
  ASSUME NEW n \in Nat, NEW m, Machine(m, n), NEW o \in Targets, NEW value
  PROVE  Machine(WithVariable(m, o, value), n)
<1> DEFINE frame == (o.cell :> value) @@ Frames(m, o)[1]
<1>1. WithVariable(m, o, value) = InFrame(m, o, frame)
  BY DEF WithVariable
<1> HIDE DEF frame
<1>2. o.frame \in {"GF", "LF", "TF"}
  BY DEF Targets
<1>3. CASE o.frame = "GF"
  <2>1. InFrame(m, o, frame) = [m EXCEPT !.gf = frame]
    BY <1>3 DEF InFrame
  <2>2. QED
    BY <1>1, <2>1 DEF Machine
<1>4. CASE o.frame = "LF"
  <2> DEFINE frames == [m.lf EXCEPT ![Len(m.lf)] = frame]
  <2>1. InFrame(m, o, frame) = [m EXCEPT !.lf = frames]
    BY <1>4 DEF InFrame
  <2> HIDE DEF frames
  <2>2. QED
    BY <1>1, <2>1 DEF Machine
<1>5. CASE o.frame = "TF"
  <2> DEFINE frames == <<frame>>
  <2>1. InFrame(m, o, frame) = [m EXCEPT !.tf = frames]
    BY <1>5 DEF InFrame
  <2> HIDE DEF frames
  <2>2. QED
    BY <1>1, <2>1 DEF Machine
<1>6. QED
  BY <1>2, <1>3, <1>4, <1>5

LEMMA MachineDeclares ==
  ASSUME NEW n \in Nat, NEW m, Machine(m, n), m.pc \in 1..n, NEW o \in Targets
  PROVE  Machine(Declaration(m, o), n)
<1>1. Machine(Fail(m, "no frame"), n) /\ Machine(Fail(m, "redeclared"), n)
  BY MachineFails DEF Faults
<1> DEFINE next == Advance(m)
<1>2. Machine(next, n)
  BY MachineAdvances
<1> HIDE DEF next
<1>3. Machine(WithVariable(next, o, "unset"), n)
  BY <1>2, MachineWrites
<1>4. QED
  BY <1>1, <1>3 DEF Declaration, next

LEMMA MachineStores ==
  ASSUME NEW n \in Nat, NEW m, Machine(m, n), m.pc \in 1..n, NEW o \in Targets,
         NEW value
  PROVE  Machine(Storing(m, o, value), n)
<1>1. Machine(Fail(m, "undeclared"), n)
  BY MachineFails DEF Faults
<1> DEFINE next == Advance(m)
<1>2. Machine(next, n)
  BY MachineAdvances
<1> HIDE DEF next
<1>3. Machine(WithVariable(next, o, value), n)
  BY <1>2, MachineWrites
<1>4. QED
  BY <1>1, <1>3 DEF Storing, next

LEMMA MachineReads ==
  ASSUME NEW n \in Nat, NEW m, Machine(m, n), NEW source,
         NEW next, Machine(next, n)
  PROVE  Machine(Reading(m, source, next), n)
<1>1. Machine(Fail(m, "undeclared"), n) /\ Machine(Fail(m, "unset"), n)
  BY MachineFails DEF Faults
<1>2. QED
  BY <1>1 DEF Reading

LEMMA MachineJumps ==
  ASSUME NEW code, Len(code) \in Nat, DOMAIN code = 1..Len(code),
         NEW m, Machine(m, Len(code)), NEW label
  PROVE  Machine(JumpTo(m, code, label), Len(code))
<1> DEFINE n == Len(code)
           at == CHOOSE i \in DOMAIN code : code[i] = AtLabel(label)
<1>1. Machine(Fail(m, "label"), n)
  BY MachineFails DEF Faults
<1>2. ASSUME Contains(code, AtLabel(label))
      PROVE  Machine(JumpTo(m, code, label), n)
  <2>1. \E i \in DOMAIN code : code[i] = AtLabel(label)
    BY <1>2 DEF Contains
  <2>2. at \in 1..n
    BY <2>1
  <2>3. at \in 1..n + 1
    BY <2>2
  <2>4. JumpTo(m, code, label) = [m EXCEPT !.pc = at]
    BY <1>2 DEF JumpTo
  <2> HIDE DEF at
  <2>5. QED
    BY <2>3, <2>4 DEF Machine
<1>3. QED
  BY <1>1, <1>2 DEF JumpTo

\* A function takes nothing its caller left on the stack.
LEMMA MachinePops ==
  ASSUME NEW n \in Nat, NEW m, Machine(m, n), NEW count \in Nat, NEW next,
         m.height >= count => Machine(next, n)
  PROVE  Machine(Popping(m, count, next), n)
<1>1. Machine(Fail(m, "stack"), n)
  BY MachineFails DEF Faults
<1>2. Floor(m) \in Nat
  <2>1. CASE m.calls = << >>
    BY <2>1 DEF Floor
  <2>2. CASE m.calls # << >>
    <3>1. m.calls \in Seq(Calls(n))
      BY DEF Machine
    <3>2. Len(m.calls) > 0
      BY <2>2, <3>1, EmptySeq, LenProperties
    <3>3. Last(m.calls) \in Calls(n)
      BY <3>1, <3>2, SplitLast
    <3>4. QED
      BY <2>2, <3>3 DEF Floor, Calls
  <2>3. QED
    BY <2>1, <2>2
<1>3. m.height \in Nat
  BY DEF Machine
<1> DEFINE floor == Floor(m)
           height == m.height
<1>4. floor \in Nat /\ height \in Nat
  BY <1>2, <1>3
<1> HIDE DEF floor, height
<1>5. ~(height < floor + count) => height >= count
  BY <1>4
<1>6. QED
  BY <1>1, <1>5 DEF Popping, floor, height

\* A call under way: where it returns to is in the code or right behind it.
LEMMA MachineCalls ==
  ASSUME NEW code, Len(code) \in Nat, DOMAIN code = 1..Len(code),
         NEW m, Machine(m, Len(code)), m.pc \in 1..Len(code), NEW label
  PROVE  Machine(Calling(m, code, label), Len(code))
<1> DEFINE n == Len(code)
           call == [back |-> m.pc + 1, height |-> m.height]
           calls == Append(m.calls, call)
           called == [m EXCEPT !.calls = calls]
<1>1. m.pc + 1 \in 1..n + 1
  OBVIOUS
<1>2. call \in Calls(n)
  BY <1>1 DEF Calls, Machine
<1>3. calls \in Seq(Calls(n))
  <2> HIDE DEF call
  <2>1. QED
    BY <1>2 DEF Machine
<1> HIDE DEF calls
<1>4. Machine(called, n)
  BY <1>3, SMTT(90) DEF Machine
<1>5. Calling(m, code, label) = JumpTo(called, code, label)
  BY DEF Calling, calls
<1> HIDE DEF called
<1>6. QED
  BY <1>4, <1>5, MachineJumps

LEMMA MachineReturns ==
  ASSUME NEW n \in Nat, NEW m, Machine(m, n)
  PROVE  Machine(Returning(m), n)
<1>1. Machine(Fail(m, "return"), n) /\ Machine(Fail(m, "stack"), n)
  BY MachineFails DEF Faults
<1>2. ASSUME m.calls # << >>
      PROVE  Machine([m EXCEPT !.pc = Last(m.calls).back, !.calls = Front(@)], n)
  <2> DEFINE pc == Last(m.calls).back
             calls == Front(m.calls)
  <2>1. m.calls \in Seq(Calls(n))
    BY DEF Machine
  <2>2. Len(m.calls) > 0
    BY <1>2, <2>1, EmptySeq, LenProperties
  <2>3. Last(m.calls) \in Calls(n) /\ calls \in Seq(Calls(n))
    BY <2>1, <2>2, SplitLast
  <2>4. pc \in 1..n + 1
    BY <2>3 DEF Calls
  <2> HIDE DEF pc, calls
  <2> DEFINE moved == [m EXCEPT !.pc = pc]
  <2>5. Machine(moved, n)
    BY <2>4 DEF Machine
  <2>6. [m EXCEPT !.pc = pc, !.calls = calls] = [moved EXCEPT !.calls = calls]
    OBVIOUS
  <2> HIDE DEF moved
  <2>7. Machine([moved EXCEPT !.calls = calls], n)
    <3>1. calls \in Seq(Calls(n))
      BY <2>3
    <3>2. QED
      BY <3>1, <2>5, SMTT(60) DEF Machine
  <2>8. QED
    BY <2>6, <2>7 DEF pc, calls
<1>3. QED
  BY <1>1, <1>2 DEF Returning

\* One instruction, whatever it is.
LEMMA MachineRuns ==
  ASSUME NEW code \in Seq(Instructions), NEW m, Machine(m, Len(code)),
         ~Finished(m, code), NEW r \in Executions(m, code)
  PROVE  Machine(r, Len(code))
<1> DEFINE n == Len(code)
           i == code[m.pc]
           popped == [m EXCEPT !.height = @ - 1]
           pushed == [m EXCEPT !.height = @ + 1]
           compared == [m EXCEPT !.height = @ - 2]
           framed == [m EXCEPT !.tf = <<EmptyFrame>>]
<1>1. n \in Nat /\ DOMAIN code = 1..n
  BY LenProperties
<1>2. m.pc \in 1..n
  BY <1>1 DEF Machine, Finished
<1>3. i \in Instructions
  BY <1>1, <1>2, ElementOfSeq
<1>4. /\ i.op \in {"DEFVAR", "MOVE", "PUSHS", "POPS", "READ", "WRITE", "ADDS", "LABEL",
                   "JUMP", "JUMPIFEQS", "JUMPIFEQ", "CREATEFRAME", "PUSHFRAME",
                   "POPFRAME", "CALL", "RETURN"}
      /\ i.op \in {"DEFVAR", "MOVE", "POPS", "READ"} => i.target \in Targets
  BY <1>3 DEF Instructions
<1> DEFINE height == m.height
           lower == height - 1
           lowest == height - 2
           higher == height + 1
<1>5. height \in Nat /\ higher \in Nat
      /\ (height >= 1 => lower \in Nat) /\ (height >= 2 => lowest \in Nat)
      /\ 1 \in Nat /\ 2 \in Nat /\ (height >= 2 => height >= 1)
  BY DEF Machine
<1>6. popped = [m EXCEPT !.height = lower] /\ compared = [m EXCEPT !.height = lowest]
      /\ pushed = [m EXCEPT !.height = higher]
  OBVIOUS
<1> HIDE DEF lower, lowest, higher
<1>7. /\ height >= 1 => Machine(popped, n) /\ popped.pc = m.pc
      /\ height >= 2 => Machine(compared, n) /\ compared.pc = m.pc
      /\ Machine(pushed, n) /\ pushed.pc = m.pc
  BY <1>1, <1>5, <1>6, MachineLifts
<1>8. Machine(framed, n) /\ framed.pc = m.pc
  <2> DEFINE tf == <<EmptyFrame>>
  <2> HIDE DEF tf
  <2>1. Machine([m EXCEPT !.tf = tf], n) /\ [m EXCEPT !.tf = tf].pc = m.pc
    BY DEF Machine
  <2>2. QED
    BY <2>1 DEF tf
<1>9. CASE i.op = "DEFVAR"
  <2>1. r = Declaration(m, i.target)
    BY <1>9 DEF Executions
  <2>2. QED
    BY <1>1, <1>2, <1>4, <1>9, <2>1, MachineDeclares
<1>10. CASE i.op = "MOVE"
  <2> DEFINE stored == Storing(m, i.target, Contents(m, i.source))
  <2>1. r = Reading(m, i.source, stored)
    BY <1>10 DEF Executions
  <2>2. Machine(stored, n)
    BY <1>1, <1>2, <1>4, <1>10, MachineStores
  <2> HIDE DEF stored
  <2>3. QED
    BY <1>1, <2>1, <2>2, MachineReads
<1>11. CASE i.op = "PUSHS"
  <2> DEFINE next == Advance(pushed)
  <2>1. r = Reading(m, i.source, next)
    BY <1>11 DEF Executions
  <2> HIDE DEF pushed
  <2>2. Machine(next, n)
    BY <1>1, <1>2, <1>7, MachineAdvances
  <2> HIDE DEF next
  <2>3. QED
    BY <1>1, <2>1, <2>2, MachineReads
<1>12. CASE i.op = "POPS"
  <2> DEFINE next == Storing(popped, i.target, "literal")
  <2>1. r = Popping(m, 1, next)
    BY <1>12 DEF Executions
  <2> HIDE DEF popped
  <2>2. height >= 1 => Machine(next, n)
    BY <1>1, <1>2, <1>4, <1>7, <1>12, MachineStores
  <2> HIDE DEF next
  <2>3. QED
    BY <1>1, <1>5, <2>1, <2>2, MachinePops
<1>13. CASE i.op = "READ"
  <2>1. r = Storing(m, i.target, "literal")
    BY <1>13 DEF Executions
  <2>2. QED
    BY <1>1, <1>2, <1>4, <1>13, <2>1, MachineStores
<1>14. CASE i.op = "WRITE"
  <2> DEFINE next == Advance(m)
  <2>1. r = Reading(m, i.source, next)
    BY <1>14 DEF Executions
  <2>2. Machine(next, n)
    BY <1>1, <1>2, MachineAdvances
  <2> HIDE DEF next
  <2>3. QED
    BY <1>1, <2>1, <2>2, MachineReads
<1>15. CASE i.op = "ADDS"
  <2> DEFINE next == Advance(popped)
  <2>1. r = Popping(m, 2, next)
    BY <1>15 DEF Executions
  <2> HIDE DEF popped
  <2>2. height >= 2 => Machine(next, n)
    BY <1>1, <1>2, <1>5, <1>7, MachineAdvances
  <2> HIDE DEF next
  <2>3. QED
    BY <1>1, <1>5, <2>1, <2>2, MachinePops
<1>16. CASE i.op = "LABEL"
  <2>1. r = Advance(m)
    BY <1>16 DEF Executions
  <2>2. QED
    BY <1>1, <1>2, <2>1, MachineAdvances
<1>17. CASE i.op = "JUMP"
  <2>1. r = JumpTo(m, code, i.label)
    BY <1>17 DEF Executions
  <2>2. QED
    BY <1>1, <2>1, MachineJumps
<1>18. CASE i.op = "JUMPIFEQS"
  <2> DEFINE next == Advance(compared)
             there == JumpTo(compared, code, i.label)
  <2>1. r = Popping(m, 2, next) \/ r = Popping(m, 2, there)
    BY <1>18 DEF Executions
  <2> HIDE DEF compared
  <2>2. height >= 2 => Machine(next, n)
    BY <1>1, <1>2, <1>7, MachineAdvances
  <2>3. height >= 2 => Machine(there, n)
    BY <1>1, <1>7, MachineJumps
  <2> HIDE DEF next, there
  <2>4. QED
    BY <1>1, <1>5, <2>1, <2>2, <2>3, MachinePops
<1>19. CASE i.op = "JUMPIFEQ"
  <2> DEFINE next == IF Contents(m, i.source) = "true" THEN JumpTo(m, code, i.label)
                                                       ELSE Advance(m)
  <2>1. r = Reading(m, i.source, next)
    BY <1>19 DEF Executions
  <2>2. Machine(next, n)
    <3>1. Machine(JumpTo(m, code, i.label), n)
      BY <1>1, MachineJumps
    <3>2. Machine(Advance(m), n)
      BY <1>1, <1>2, MachineAdvances
    <3>3. QED
      BY <3>1, <3>2
  <2> HIDE DEF next
  <2>3. QED
    BY <1>1, <2>1, <2>2, MachineReads
<1>20. CASE i.op = "CREATEFRAME"
  <2>1. r = Advance(framed)
    BY <1>20 DEF Executions
  <2> HIDE DEF framed
  <2>2. QED
    BY <1>1, <1>2, <1>8, <2>1, MachineAdvances
<1>21. CASE i.op = "PUSHFRAME"
  <2> DEFINE lf == Append(m.lf, m.tf[1])
             framed_ == [m EXCEPT !.lf = lf, !.tf = << >>]
  <2>1. r = Fail(m, "no frame") \/ r = Advance(framed_)
    BY <1>21 DEF Executions
  <2>2. Machine(framed_, n) /\ framed_.pc = m.pc
    <3> DEFINE tf == << >>
    <3>1. Reframed(m, framed_, lf, tf)
      BY DEF Reframed
    <3> HIDE DEF lf, tf, framed_
    <3>2. QED
      BY <1>1, <3>1, MachineFrames
  <2> HIDE DEF framed_
  <2>3. Machine(Advance(framed_), n)
    BY <1>1, <1>2, <2>2, MachineAdvances
  <2>4. Machine(Fail(m, "no frame"), n)
    BY <1>1, MachineFails DEF Faults
  <2>5. QED
    BY <2>1, <2>3, <2>4
<1>22. CASE i.op = "POPFRAME"
  <2> DEFINE lf == Front(m.lf)
             tf == <<Last(m.lf)>>
             framed_ == [m EXCEPT !.lf = lf, !.tf = tf]
  <2>1. r = Fail(m, "no frame") \/ r = Advance(framed_)
    BY <1>22 DEF Executions
  <2>2. Machine(framed_, n) /\ framed_.pc = m.pc
    <3>1. Reframed(m, framed_, lf, tf)
      BY DEF Reframed
    <3> HIDE DEF lf, tf, framed_
    <3>2. QED
      BY <1>1, <3>1, MachineFrames
  <2> HIDE DEF framed_
  <2>3. Machine(Advance(framed_), n)
    BY <1>1, <1>2, <2>2, MachineAdvances
  <2>4. Machine(Fail(m, "no frame"), n)
    BY <1>1, MachineFails DEF Faults
  <2>5. QED
    BY <2>1, <2>3, <2>4
<1>23. CASE i.op = "CALL"
  <2>1. r = Calling(m, code, i.label)
    BY <1>23 DEF Executions
  <2>2. QED
    BY <1>1, <1>2, <2>1, MachineCalls
<1>24. CASE i.op = "RETURN"
  <2>1. r = Returning(m)
    BY <1>24 DEF Executions
  <2>2. QED
    BY <1>1, <2>1, MachineReturns
<1>25. QED
  BY <1>4, <1>9, <1>10, <1>11, <1>12, <1>13, <1>14, <1>15, <1>16, <1>17, <1>18, <1>19,
     <1>20, <1>21, <1>22, <1>23, <1>24

\* Before a program is accepted the machine has not begun; then the code stays.
MachineInvariant ==
  /\ part # "parsed" => machine = StartMachine
  /\ Machine(machine, Len(Code))

LEMMA MachineBegins ==
  ASSUME Init, ParserInvariant
  PROVE  MachineInvariant
<1>1. Len(Code) \in Nat
  BY ConstructorFields, LenProperties DEF ParserInvariant, ParserTypes, Code
<1>2. QED
  BY <1>1, MachineStarts DEF Init, MachineInvariant

LEMMA MachineSteps ==
  ASSUME ParserInvariant, MachineInvariant, [Next]_vars, ParserInvariant'
  PROVE  MachineInvariant'
<1>1. Len(Code') \in Nat
  BY ConstructorFields, LenProperties DEF ParserInvariant, ParserTypes, Code
<1>2. CASE Parse
  <2>1. machine' = StartMachine
    BY <1>2 DEF Parse, ParserNext, MachineInvariant
  <2>2. QED
    BY <1>1, <2>1, MachineStarts DEF MachineInvariant
<1>3. CASE Run
  <2>1. /\ part = "parsed" /\ part' = part /\ Code' = Code
        /\ ~Finished(machine, Code) /\ machine' \in Executions(machine, Code)
    BY <1>3 DEF Run, parser, Code
  <2>2. Code \in Seq(Instructions)
    BY ConstructorFields DEF ParserInvariant, ParserTypes, Code
  <2>3. Machine(machine, Len(Code))
    BY DEF MachineInvariant
  <2>4. Machine(machine', Len(Code))
    BY <2>1, <2>2, <2>3, MachineRuns
  <2>5. QED
    BY <2>1, <2>4 DEF MachineInvariant
<1>4. CASE UNCHANGED vars
  BY <1>4 DEF vars, parser, Code, MachineInvariant
<1>5. QED
  BY <1>2, <1>3, <1>4 DEF Next

\* Types: of the parser's state, of its depth counters, which never go below
\* zero, and of the machine, whose next instruction is in the code.
THEOREM CompilerTypes == Spec => []TypeOK
<1>1. Init /\ ParserInvariant => MachineInvariant
  BY MachineBegins
<1>2. ParserInvariant /\ MachineInvariant /\ [Next]_vars /\ ParserInvariant'
        => MachineInvariant'
  BY MachineSteps
<1>3. ParserInvariant /\ MachineInvariant => TypeOK
  <2> SUFFICES ASSUME ParserInvariant, MachineInvariant PROVE TypeOK
    OBVIOUS
  <2>1. /\ machine.pc \in 1..Len(Code) + 1 /\ machine.height \in Nat
        /\ machine.fault \in Faults
    BY DEF MachineInvariant, Machine
  <2>2. ParserTypes
    BY DEF ParserInvariant
  <2>3. \A f \in Names : functions[f].status \in Statuses
    BY <2>2 DEF ParserTypes, Functions, Statuses
  <2>4. constructor.control_statement_depth \in Nat /\ constructor.loops_depth \in Nat
    <3>1. CASE part = "parsed"
      BY <3>1 DEF ParserInvariant, Result
    <3>2. CASE part # "parsed"
      <4>1. Balanced(constructor, blocks)
        BY <3>2 DEF ParserInvariant, Sound
      <4>2. Count(blocks, Branches) \in Nat /\ Count(blocks, {"while"}) \in Nat
        BY <2>2, LenProperties, CountType DEF ParserTypes
      <4>3. QED
        BY <4>1, <4>2 DEF Balanced
    <3>3. QED
      BY <3>1, <3>2
  <2>5. QED
    BY <2>1, <2>2, <2>3, <2>4 DEF ParserTypes, TypeOK
<1>4. QED
  BY <1>1, <1>2, <1>3, ParserInvariantHolds, PTL DEF Spec

\* The code of an expression leaves its value for what comes next.
LEMMA ExpressionGoesOn ==
  ASSUME NEW c \in Constructors, NEW code \in Seq(Instructions), Puts(code),
         NEW d, d = Emit(c, code)
  PROVE  GoesOn(c, d, Ground, Level(1, 0)) /\ d \in Constructors
         /\ d.to_buffer = c.to_buffer
<1>1. GoesOn(c, d, Ground, Level(1, 0))
  BY EmitGoesOn DEF Puts
<1>2. QED
  BY <1>1 DEF GoesOn

\* Constructs that are one expression and what is done with its value.
LEMMA StatementTidy ==
  ASSUME NEW c \in Constructors, Tidy(c), NEW o \in Targets,
         NEW code \in Seq(Instructions), Puts(code), NEW d, d = Emit(c, code)
  PROVE  /\ Tidy(Assignment(d, o)) /\ Tidy(PrintExpression(d))
         /\ Tidy(IfAfterExpression(d))
         /\ c.to_buffer => Tidy(Return(d))
<1>1. /\ GoesOn(c, d, Ground, Level(1, 0)) /\ d \in Constructors
      /\ d.to_buffer = c.to_buffer
  BY ExpressionGoesOn
<1>2. /\ GoesOn(d, Assignment(d, o), Level(1, 0), Ground)
      /\ GoesOn(d, PrintExpression(d), Level(1, 0), Ground)
      /\ GoesOn(d, IfAfterExpression(d), Level(1, 0), Ground)
      /\ c.to_buffer => GoesOn(d, Return(d), Level(1, 0), Ground)
  BY <1>1, StatementsGoOn, IfGoesOn
<1>3. ASSUME NEW r, GoesOn(d, r, Level(1, 0), Ground) PROVE Tidy(r)
  <2>1. GoesOn(c, r, Ground, Ground)
    BY <1>1, <1>3, GoesOnOn
  <2>2. QED
    BY <2>1, TidyGoesOn
<1>4. QED
  BY <1>2, <1>3

\* An initialiser, when there is one.
LEMMA InitialisedGoesOn ==
  ASSUME NEW c \in Constructors, NEW o \in Targets, NEW value,
         value.code \in Seq(Instructions), value.code = << >> \/ Puts(value.code)
  PROVE  /\ GoesOn(c, Initialised(c, o, value), Ground, Ground)
         /\ SameStacks(c, Initialised(c, o, value))
<1>1. CASE value.code = << >>
  <2>1. Initialised(c, o, value) = c
    BY <1>1 DEF Initialised
  <2>2. GoesOn(c, c, Ground, Ground)
    BY SameGoesOn
  <2>3. QED
    BY <2>1, <2>2 DEF SameStacks
<1>2. CASE value.code # << >>
  <2> DEFINE d == Emit(c, value.code)
  <2>1. Initialised(c, o, value) = Assignment(d, o)
    BY <1>2 DEF Initialised
  <2>2. d = Emit(c, value.code)
    OBVIOUS
  <2>3. SameStacks(c, d)
    BY EmitAppends
  <2> HIDE DEF d
  <2>4. GoesOn(c, d, Ground, Level(1, 0)) /\ d \in Constructors
    BY <1>2, <2>2, ExpressionGoesOn
  <2>5. GoesOn(d, Assignment(d, o), Level(1, 0), Ground)
    BY <2>4, StatementsGoOn
  <2>6. Statement(d, Assignment(d, o), {})
    BY <2>4, SimpleStatements
  <2>7. SameStacks(c, Assignment(d, o))
    BY <2>3, <2>6 DEF Statement, SameStacks
  <2>8. QED
    BY <2>1, <2>4, <2>5, <2>7, GoesOnOn
<1>3. QED
  BY <1>1, <1>2

LEMMA DeclarationTidy ==
  ASSUME NEW c \in Constructors, Tidy(c), NEW o \in Targets, NEW value,
         value.code \in Seq(Instructions), value.code = << >> \/ Puts(value.code),
         c.loops_initial = NoLabel \/ c.loops_initial \in Placed(c),
         NEW d, d \in {VariableDeclaration(c, o), SharedVariableDeclaration(c, o)}
  PROVE  Tidy(Initialised(d, o, value))
<1>1. GoesOn(c, d, Ground, Ground)
  BY DeclarationGoesOn
<1>2. d \in Constructors
  BY <1>1 DEF GoesOn
<1>3. GoesOn(d, Initialised(d, o, value), Ground, Ground)
  BY <1>2, InitialisedGoesOn
<1>4. QED
  BY <1>1, <1>3, GoesOnOn, TidyGoesOn

LEMMA StaticTidy ==
  ASSUME NEW c \in Constructors, Tidy(c), c.code_labels = << >>,
         NEW o \in Targets, NEW flag \in Targets, NEW value,
         value.code \in Seq(Instructions), value.code = << >> \/ Puts(value.code),
         NEW d, d = StaticVariableDeclaration(c, o, flag),
         NEW e, e = Initialised(d, o, value)
  PROVE  Tidy(StaticVariableDeclarationEnd(e, flag))
<1> DEFINE skip == Label(c, "declared")
           r == StaticVariableDeclarationEnd(e, flag)
<1>1. skip \in Labels /\ << >> \in Seq(Labels)
  BY LabelType
<1>2. OneOnTop(d.code_labels, << >>, skip)
  BY StaticEffect
<1>3. GoesOn(c, d, Ground, Ground)
  BY StaticGoesOn
<1>4. d \in Constructors
  BY <1>3 DEF GoesOn
<1>5. GoesOn(d, e, Ground, Ground) /\ SameStacks(d, e)
  BY <1>4, InitialisedGoesOn
<1>6. e \in Constructors /\ OneOnTop(e.code_labels, << >>, skip)
  BY <1>2, <1>5 DEF GoesOn, SameStacks
<1> HIDE DEF skip
<1>7. r = StaticVariableDeclarationEnd(e, flag)
  OBVIOUS
<1> HIDE DEF r
<1>8. GoesOn(e, r, Ground, Ground)
  BY <1>1, <1>6, <1>7, StaticEndGoesOn
<1>9. GoesOn(c, r, Ground, Ground)
  BY <1>3, <1>5, <1>8, GoesOnOn
<1>10. QED
  BY <1>7, <1>9, TidyGoesOn

LEMMA WhileTidy ==
  ASSUME NEW c \in Constructors, Tidy(c), Len(Writing(c)) > 0,
         NEW begun, begun = WhileBeforeCondition(c),
         NEW code \in Seq(Instructions), Puts(code), NEW filled, filled = Emit(begun, code),
         NEW r, r = WhileAfterCondition(filled)
  PROVE  Tidy(r)
<1>1. GoesOn(c, begun, Ground, Ground)
  BY WhileGoesOn
<1>2. begun \in Constructors
  BY <1>1 DEF GoesOn
<1>3. GoesOn(begun, filled, Ground, Level(1, 0)) /\ filled \in Constructors
  BY <1>2, ExpressionGoesOn
<1>4. GoesOn(filled, r, Level(1, 0), Ground)
  BY <1>3, ConditionGoesOn
<1>5. GoesOn(c, r, Ground, Ground)
  BY <1>1, <1>3, <1>4, GoesOnOn
<1>6. QED
  BY <1>5, TidyGoesOn

\* What the end of a branch leaves.
LEMMA BranchTidy ==
  ASSUME NEW c \in Constructors, NEW rule, NEW after, Left(c, after, rule),
         NEW rest \in Seq(Labels), NEW end \in Labels, NEW next \in Labels,
         OnTop(c.conditions, rest, end, next)
  PROVE  /\ GoesOn(c, after, Ground, Ground)
         /\ after \in Constructors /\ OnTop(after.conditions, rest, end, next)
<1>1. after \in Constructors /\ OnTop(after.conditions, rest, end, next)
  BY BranchEnds
<1>2. CASE rule = "then"
  <2>1. after = IfEndIfBlock(c)
    BY <1>2 DEF Left
  <2>2. QED
    BY <1>1, <2>1, EndIfBlockGoesOn
<1>3. CASE rule # "then"
  <2>1. after = c
    BY <1>3 DEF Left
  <2>2. GoesOn(c, c, Ground, Ground)
    BY SameGoesOn
  <2>3. QED
    BY <1>1, <2>1, <2>2
<1>4. QED
  BY <1>2, <1>3

LEMMA BranchesTidy ==
  ASSUME NEW c \in Constructors, Tidy(c), NEW rule, NEW after, Left(c, after, rule),
         NEW rest \in Seq(Labels), NEW end \in Labels, NEW next \in Labels,
         OnTop(c.conditions, rest, end, next), end # next,
         NEW code \in Seq(Instructions)
  PROVE  /\ Tidy(IfElseBlock(after)) /\ Tidy(IfAfterEndIf(after))
         /\ Puts(code) =>
              Tidy(ElseIfAfterExpression(Emit(ElseIfBeforeExpression(after), code)))
<1>1. /\ GoesOn(c, after, Ground, Ground)
      /\ after \in Constructors /\ OnTop(after.conditions, rest, end, next)
  BY BranchTidy
<1>2. ASSUME NEW r, GoesOn(after, r, Ground, Ground) PROVE Tidy(r)
  <2>1. GoesOn(c, r, Ground, Ground)
    BY <1>1, <1>2, GoesOnOn
  <2>2. QED
    BY <2>1, TidyGoesOn
<1>3. Tidy(IfElseBlock(after)) /\ Tidy(IfAfterEndIf(after))
  BY <1>1, <1>2, ElseGoesOn, AfterEndIfGoesOn
<1>4. ASSUME Puts(code)
      PROVE  Tidy(ElseIfAfterExpression(Emit(ElseIfBeforeExpression(after), code)))
  <2> DEFINE before == ElseIfBeforeExpression(after)
             filled == Emit(before, code)
  <2>1. before = LeaveBranch(after)
    BY DEF ElseIfBeforeExpression
  <2>2. filled = Emit(before, code)
    OBVIOUS
  <2> HIDE DEF before, filled
  <2>3. GoesOn(after, before, Ground, Ground)
    BY <1>1, <2>1, LeaveBranchGoesOn
  <2>4. before \in Constructors
    BY <2>3 DEF GoesOn
  <2>5. GoesOn(before, filled, Ground, Level(1, 0)) /\ filled \in Constructors
    BY <1>4, <2>2, <2>4, ExpressionGoesOn
  <2>6. GoesOn(filled, ElseIfAfterExpression(filled), Level(1, 0), Ground)
    BY <2>5, BranchGoesOn DEF ElseIfAfterExpression
  <2>7. GoesOn(after, ElseIfAfterExpression(filled), Ground, Ground)
    BY <2>3, <2>5, <2>6, GoesOnOn
  <2>8. QED
    BY <1>2, <2>7 DEF filled, before
<1>5. QED
  BY <1>3, <1>4

(* The list being written through the constructs of a program.             *)

\* With nothing open, the labels in the code are not those that come next.
LEMMA LabelsApart ==
  ASSUME NEW c \in Constructors, NEW fs, Ordered(c, fs),
         c.conditions = << >>, c.loops = << >>, c.code_labels = << >>
  PROVE  Wired(c.main) \cap Own(c) = {} /\ Wired(c.buffer) \cap Own(c) = {}
<1>1. Own(c) = Fresh(c)
  <2>1. Range(<< >>) = {}
    BY DEF Range
  <2>2. QED
    BY <2>1 DEF Own
<1>2. OnStacks(c) = {}
  <2>1. Elements(<< >>) = {}
    BY DEF Elements
  <2>2. QED
    BY <2>1 DEF OnStacks
<1>3. \A code : Wired(code) \subseteq MentionedIn(code) \cup {NoLabel}
  BY DEF Wired, MentionedIn
<1>4. Wired(c.main) \cup Wired(c.buffer)
        \subseteq Placed(c) \cup FunctionLabels(fs) \cup {NoLabel}
  BY <1>2, <1>3 DEF Ordered, MentionsKnown, Mentioned
<1>5. ASSUME NEW l \in Fresh(c) PROVE l \notin Placed(c)
  <2>1. l \in Labels /\ l.type # "function" /\ l.number >= c.label_counter
    BY DEF Fresh
  <2>2. QED
    BY <2>1, FreshLabel
<1>6. \A l \in FunctionLabels(fs) \cup {NoLabel} : l.type \in {"none", "function"}
  <2>1. NoLabel.type = "none"
    BY DEF NoLabel
  <2>2. \A f \in Names : FunctionLabel(f).type = "function"
    BY LabelTypes
  <2>3. QED
    BY <2>1, <2>2 DEF FunctionLabels
<1>7. \A l \in Fresh(c) : l \notin FunctionLabels(fs) \cup {NoLabel}
  BY <1>6 DEF Fresh
<1>8. QED
  BY <1>1, <1>4, <1>5, <1>7

\* What the constructor is like between two constructs.
LEMMA Constructing ==
  ASSUME StillParsing
  PROVE  /\ constructor \in Constructors /\ Ordered(constructor, functions)
         /\ Balanced(constructor, blocks) /\ constructor.code_labels = << >>
         /\ Len(Writing(constructor)) > 0
         /\ \/ constructor.loops_initial = NoLabel
            \/ constructor.loops_initial \in Placed(constructor)
<1>1. /\ constructor \in Constructors /\ Ordered(constructor, functions)
      /\ Balanced(constructor, blocks)
  BY DEF StillParsing, Parsing, Sound
<1>2. Len(Writing(constructor)) > 0
  BY <1>1, TwoLists DEF Ordered, Begun
<1>3. ASSUME NEW l, HasPlace(constructor, l), l \in Labels
      PROVE  l \in Placed(constructor)
  <2>1. Writing(constructor) \in {constructor.main, constructor.buffer}
    BY DEF Writing
  <2>2. PICK i \in 2..Len(Writing(constructor)) : Writing(constructor)[i] = AtLabel(l)
    BY <1>3 DEF HasPlace
  <2>3. Writing(constructor) \in Seq(Instructions)
    BY <1>1, ConstructorFields
  <2>4. i \in DOMAIN Writing(constructor)
    BY <2>3
  <2>5. l \in PlacedIn(Writing(constructor))
    BY <1>3, <2>2, <2>4 DEF PlacedIn
  <2>6. QED
    BY <2>1, <2>5 DEF Placed
<1>4. constructor.loops_initial \in Labels
  BY <1>1, ConstructorFields
<1>5. OutermostLoop(constructor)
  BY <1>1 DEF Ordered
<1>6. QED
  BY <1>1, <1>2, <1>3, <1>4, <1>5 DEF OutermostLoop, Balanced

\* What an expression is evaluated to.
LEMMA EvaluatedFits ==
  ASSUME StillParsing, NEW construct \in Constructs,
         NEW e \in Programs[kind].expressions[construct],
         NEW stack \in Seq(Table), NEW frames,
         NEW value, value = Expression(e, stack, frames, functions), ~value.refused
  PROVE  /\ value.code \in Seq(Instructions)
         /\ \/ value.code = << >> /\ construct \in {"dim", "shared", "static"}
            \/ Puts(value.code)
<1>1. value.code \in Seq(ExpressionCode(functions)) /\ Fits(value, construct)
  BY Evaluated
<1>2. value.code \in Seq(Instructions)
  BY <1>1 DEF ExpressionCode
<1>3. QED
  BY <1>1, <1>2 DEF Fits

LEMMA EvaluatedPuts ==
  ASSUME StillParsing,
         NEW construct \in {"return", "if", "elseif", "while", "assign", "print"},
         NEW e \in Programs[kind].expressions[construct],
         NEW stack \in Seq(Table), NEW frames,
         NEW value, value = Expression(e, stack, frames, functions), ~value.refused
  PROVE  value.code \in Seq(Instructions) /\ Puts(value.code)
<1>1. construct \in Constructs /\ construct \notin {"dim", "shared", "static"}
  BY DEF Constructs
<1>2. QED
  BY <1>1, EvaluatedFits

LEMMA AssignTidy ==
  ASSUME StillParsing, Tidy(constructor), NEW name \in Names,
         NEW e \in Programs[kind].expressions["assign"], Assign(name, e)
  PROVE  Tidy(constructor')
<1> DEFINE value == Evaluate(e)
           o == VariableOperand(Find(variables, name), globals)
<1>1. CASE RefuseProgram
  BY <1>1 DEF RefuseProgram
<1>2. CASE /\ Find(variables, name) # NoVariable /\ ~value.refused
           /\ constructor' = Assignment(Emit(constructor, value.code), o)
  <2>1. variables \in Seq(Table)
    BY DEF StillParsing, Parsing, ParserTypes
  <2>2. Find(variables, name) \in Variable
    BY <1>2, <2>1, FindType
  <2>3. o \in Targets
    BY <2>2, OperandTypes
  <2>4. value = Expression(e, variables, globals, functions)
    BY DEF Evaluate
  <2> HIDE DEF value, o
  <2>5. value.code \in Seq(Instructions) /\ Puts(value.code)
    BY <1>2, <2>1, <2>4, EvaluatedPuts
  <2>6. QED
    BY <1>2, <2>3, <2>5, Constructing, StatementTidy
<1>3. QED
  BY <1>1, <1>2 DEF Assign

LEMMA InputTidy ==
  ASSUME StillParsing, Tidy(constructor), NEW name \in Names, InputTo(name)
  PROVE  Tidy(constructor')
<1> DEFINE o == VariableOperand(Find(variables, name), globals)
<1>1. CASE RefuseProgram
  BY <1>1 DEF RefuseProgram
<1>2. CASE Find(variables, name) # NoVariable /\ constructor' = Input(constructor, o)
  <2>1. variables \in Seq(Table)
    BY DEF StillParsing, Parsing, ParserTypes
  <2>2. Find(variables, name) \in Variable
    BY <1>2, <2>1, FindType
  <2>3. o \in Targets
    BY <2>2, OperandTypes
  <2> HIDE DEF o
  <2>4. GoesOn(constructor, constructor', Ground, Ground)
    BY <1>2, <2>3, Constructing, StatementsGoOn
  <2>5. QED
    BY <2>4, Constructing, TidyGoesOn
<1>3. QED
  BY <1>1, <1>2 DEF InputTo

LEMMA ReturnTidy ==
  ASSUME StillParsing, Tidy(constructor),
         NEW e \in Programs[kind].expressions["return"], ReturnValue(e)
  PROVE  Tidy(constructor')
<1> DEFINE value == Evaluate(e)
<1>1. CASE RefuseProgram
  BY <1>1 DEF RefuseProgram
<1>2. CASE ~value.refused /\ constructor' = Return(Emit(constructor, value.code))
  <2>1. variables \in Seq(Table) /\ value = Expression(e, variables, globals, functions)
    BY DEF StillParsing, Parsing, ParserTypes, Evaluate
  <2> HIDE DEF value
  <2>2. value.code \in Seq(Instructions) /\ Puts(value.code)
    BY <1>2, <2>1, EvaluatedPuts
  <2>3. /\ part = "definitions" /\ Len(blocks) # 1
        /\ Len(blocks) > 0 /\ Len(blocks) \in Nat
        /\ Placement(part, blocks, constructor.to_buffer, functions, actual_function)
    BY LenProperties DEF ReturnValue, InStatements, AtTopLevel, StillParsing, Parsing,
                         ParserTypes, Shape
  <2>4. Len(blocks) > 1
    <3>1. \A n \in Nat : n > 0 /\ n # 1 => n > 1
      OBVIOUS
    <3>2. QED
      BY <2>3, <3>1, Zenon
  <2>5. constructor.to_buffer
    BY <2>3, <2>4 DEF Placement
  <2>6. Temporary \in Targets
    BY OperandTypes
  <2>7. QED
    BY <1>2, <2>2, <2>5, <2>6, Constructing, StatementTidy
<1>3. QED
  BY <1>1, <1>2 DEF ReturnValue

LEMMA PrintTidy ==
  ASSUME StillParsing, Tidy(constructor),
         NEW e \in Programs[kind].expressions["print"], PrintValue(e)
  PROVE  Tidy(constructor')
<1> DEFINE value == Evaluate(e)
<1>1. CASE RefuseProgram
  BY <1>1 DEF RefuseProgram
<1>2. CASE ~value.refused
           /\ constructor' = PrintExpression(Emit(constructor, value.code))
  <2>1. variables \in Seq(Table) /\ value = Expression(e, variables, globals, functions)
    BY DEF StillParsing, Parsing, ParserTypes, Evaluate
  <2> HIDE DEF value
  <2>2. value.code \in Seq(Instructions) /\ Puts(value.code)
    BY <1>2, <2>1, EvaluatedPuts
  <2>3. Temporary \in Targets
    BY OperandTypes
  <2>4. QED
    BY <1>2, <2>2, <2>3, Constructing, StatementTidy
<1>3. QED
  BY <1>1, <1>2 DEF PrintValue

LEMMA IfTidy ==
  ASSUME StillParsing, Tidy(constructor),
         NEW e \in Programs[kind].expressions["if"], If(e)
  PROVE  Tidy(constructor')
<1> DEFINE value == Evaluate(e)
<1>1. CASE RefuseProgram
  BY <1>1 DEF RefuseProgram
<1>2. CASE ~value.refused
           /\ constructor' = IfAfterExpression(Emit(constructor, value.code))
  <2>1. variables \in Seq(Table) /\ value = Expression(e, variables, globals, functions)
    BY DEF StillParsing, Parsing, ParserTypes, Evaluate
  <2> HIDE DEF value
  <2>2. value.code \in Seq(Instructions) /\ Puts(value.code)
    BY <1>2, <2>1, EvaluatedPuts
  <2>3. Temporary \in Targets
    BY OperandTypes
  <2>4. QED
    BY <1>2, <2>2, <2>3, Constructing, StatementTidy
<1>3. QED
  BY <1>1, <1>2 DEF If

LEMMA DeclaredFits ==
  ASSUME StillParsing, NEW name \in Names, Declarable(name),
         NEW construct \in {"dim", "shared", "static"},
         NEW e \in Programs[kind].expressions[construct],
         NEW frames, NEW value, value = WithNew(name, frames, e), ~value.refused
  PROVE  /\ New(name) \in Variable /\ value.code \in Seq(Instructions)
         /\ value.code = << >> \/ Puts(value.code)
<1>1. construct \in Constructs
  BY DEF Constructs
<1>2. New(name) \in Variable
  BY <1>1, Declaring
<1> DEFINE s == AddVariable(variables, name, 0, 0)
<1>3. s \in Seq(Table)
  <2>1. variables \in Seq(Table) /\ Len(variables) > 0 /\ 0 \in Nat
        /\ ~Holds(Top(variables), name)
    BY DEF StillParsing, Parsing, ParserTypes, Declarable
  <2>2. QED
    BY <2>1, AddVariableEffect
<1>4. value = Expression(e, s, frames, functions)
  BY DEF WithNew
<1> HIDE DEF s
<1>5. QED
  BY <1>1, <1>2, <1>3, <1>4, EvaluatedFits

LEMMA DimTidy ==
  ASSUME StillParsing, Tidy(constructor), NEW name \in Names,
         NEW e \in Programs[kind].expressions["dim"], Dim(name, e)
  PROVE  Tidy(constructor')
<1> DEFINE frames == IF actual_function = NoName THEN Global(name) ELSE globals
           o == VariableOperand(New(name), frames)
           value == WithNew(name, frames, e)
           d == VariableDeclaration(constructor, o)
           r == Initialised(d, o, value)
<1>1. CASE RefuseProgram
  BY <1>1 DEF RefuseProgram
<1>2. CASE Declarable(name) /\ Declare(name, frames, r, value)
  <2>1. ~value.refused /\ constructor' = r
    BY <1>2 DEF Declare
  <2>2. value = WithNew(name, frames, e)
    OBVIOUS
  <2> HIDE DEF value
  <2>3. /\ New(name) \in Variable /\ value.code \in Seq(Instructions)
        /\ value.code = << >> \/ Puts(value.code)
    BY <1>2, <2>1, <2>2, DeclaredFits
  <2>4. o \in Targets
    BY <2>3, OperandTypes
  <2> HIDE DEF o
  <2>5. Tidy(r)
    BY <2>3, <2>4, Constructing, DeclarationTidy
  <2>6. QED
    BY <2>1, <2>5
<1>3. QED
  BY <1>1, <1>2 DEF Dim

LEMMA DimSharedTidy ==
  ASSUME StillParsing, Tidy(constructor), NEW name \in Names,
         NEW e \in Programs[kind].expressions["shared"], DimShared(name, e)
  PROVE  Tidy(constructor')
<1> DEFINE frames == Global(name)
           o == VariableOperand(New(name), frames)
           value == WithNew(name, frames, e)
           d == SharedVariableDeclaration(constructor, o)
           r == Initialised(d, o, value)
<1>1. CASE RefuseProgram
  BY <1>1 DEF RefuseProgram
<1>2. CASE Declarable(name) /\ Declare(name, frames, r, value)
  <2>1. ~value.refused /\ constructor' = r
    BY <1>2 DEF Declare
  <2>2. value = WithNew(name, frames, e)
    OBVIOUS
  <2> HIDE DEF value
  <2>3. /\ New(name) \in Variable /\ value.code \in Seq(Instructions)
        /\ value.code = << >> \/ Puts(value.code)
    BY <1>2, <2>1, <2>2, DeclaredFits
  <2>4. o \in Targets
    BY <2>3, OperandTypes
  <2> HIDE DEF o
  <2>5. Tidy(r)
    BY <2>3, <2>4, Constructing, DeclarationTidy
  <2>6. QED
    BY <2>1, <2>5
<1>3. QED
  BY <1>1, <1>2 DEF DimShared

LEMMA StaticHereTidy ==
  ASSUME StillParsing, Tidy(constructor), NEW name \in Names,
         NEW e \in Programs[kind].expressions["static"], Static(name, e)
  PROVE  Tidy(constructor')
<1> DEFINE frames == Global(name)
           o == VariableOperand(New(name), frames)
           flag == FlagOf(New(name), actual_function)
           value == WithNew(name, frames, e)
           d == StaticVariableDeclaration(constructor, o, flag)
           filled == Initialised(d, o, value)
           r == StaticVariableDeclarationEnd(filled, flag)
<1>1. CASE RefuseProgram
  BY <1>1 DEF RefuseProgram
<1>2. CASE Declarable(name) /\ Declare(name, frames, r, value)
  <2>1. ~value.refused /\ constructor' = r
    BY <1>2 DEF Declare
  <2>2. value = WithNew(name, frames, e)
    OBVIOUS
  <2> HIDE DEF value
  <2>3. /\ New(name) \in Variable /\ value.code \in Seq(Instructions)
        /\ value.code = << >> \/ Puts(value.code)
    BY <1>2, <2>1, <2>2, DeclaredFits
  <2>4. actual_function \in Names \cup {NoName}
    BY DEF StillParsing, Parsing, ParserTypes
  <2>5. o \in Targets /\ flag \in Targets
    BY <2>3, <2>4, OperandTypes
  <2> HIDE DEF o, flag
  <2>6. d = StaticVariableDeclaration(constructor, o, flag)
        /\ filled = Initialised(d, o, value)
    OBVIOUS
  <2> HIDE DEF d, filled
  <2>7. Tidy(r)
    BY <2>3, <2>5, <2>6, Constructing, StaticTidy
  <2>8. QED
    BY <2>1, <2>7
<1>3. QED
  BY <1>1, <1>2 DEF Static

\* A function begins where nothing is open, and ends there.
LEMMA StartFunctionTidy ==
  ASSUME StillParsing, Tidy(constructor), NEW f \in Names, NEW params \in Seq(Names),
         StartFunction(f, params)
  PROVE  Tidy(constructor')
<1>1. CASE RefuseProgram
  BY <1>1 DEF RefuseProgram
<1>2. CASE constructor' = FunctionHeader(constructor, f)
  <2>1. /\ Len(blocks) = 1
        /\ Placement(part, blocks, constructor.to_buffer, functions, actual_function)
    BY DEF StartFunction, AtTopLevel, StillParsing, Parsing, Shape
  <2>2. ~(Len(blocks) > 1)
    BY <2>1
  <2>3. blocks[1].rule = "program" /\ ~constructor.to_buffer
    BY <2>1, <2>2 DEF Placement
  <2>4. Balanced(constructor, blocks) /\ Ordered(constructor, functions)
        /\ constructor \in Constructors
    BY Constructing
  <2>5. constructor.conditions = << >> /\ constructor.loops = << >>
        /\ constructor.code_labels = << >>
    BY <2>1, <2>3, <2>4, ProgramOnly
  <2>6. Wired(constructor.main) \cap Own(constructor) = {}
    BY <2>4, <2>5, LabelsApart
  <2>7. QED
    BY <1>2, <2>3, <2>4, <2>6, HeaderTidy
<1>3. QED
  BY <1>1, <1>2 DEF StartFunction

LEMMA EndFunctionTidy ==
  ASSUME StillParsing, Tidy(constructor), EndFunction
  PROVE  Tidy(constructor')
<1>1. /\ blocks \in Seq(Blocks) /\ Len(blocks) > 0
      /\ Placement(part, blocks, constructor.to_buffer, functions, actual_function)
      /\ part \in {"definitions", "scope", "shared"}
  BY DEF StillParsing, Parsing, ParserTypes, Shape
<1>2. Len(blocks) \in Nat /\ Last(blocks) = blocks[Len(blocks)]
      /\ Last(blocks).rule = "function"
  BY <1>1, LenProperties, SplitLast DEF EndFunction, Rule
<1>3. Len(blocks) = 2 /\ part = "definitions"
  BY <1>1, <1>2, Nested
<1> DEFINE below == Front(blocks)
<1>4. /\ Len(below) = Len(blocks) - 1 /\ Adds(below, blocks, "function")
      /\ \A i \in 1..Len(blocks) - 1 : below[i] = blocks[i]
  <2>1. Len(blocks) > 1
    BY <1>3
  <2>2. QED
    BY <1>1, <1>2, <2>1, BlockRemoved
<1> HIDE DEF below
<1>5. Len(below) = 1 /\ below[1].rule = "program"
  BY <1>1, <1>3, <1>4 DEF Placement
<1>6. constructor.to_buffer
  <2>1. Len(blocks) > 1 /\ blocks[2].rule = "function"
    BY <1>2, <1>3
  <2>2. QED
    BY <1>1, <2>1 DEF Placement
<1>7. Balanced(constructor, blocks) /\ Ordered(constructor, functions)
      /\ constructor \in Constructors
  BY Constructing
<1>8. Balanced(constructor, below)
  <2>1. SameStacks(constructor, constructor)
    BY DEF SameStacks
  <2>2. QED
    BY <1>4, <1>7, <2>1, BalancedFunction
<1>9. constructor.conditions = << >> /\ constructor.loops = << >>
      /\ constructor.code_labels = << >>
  BY <1>5, <1>7, <1>8, ProgramOnly
<1>10. Wired(constructor.buffer) \cap Own(constructor) = {}
  BY <1>7, <1>9, LabelsApart
<1>11. constructor' = FunctionEnd(constructor)
  BY DEF EndFunction
<1>12. QED
  BY <1>6, <1>7, <1>10, <1>11, FunctionEndTidy

LEMMA ScopesTidy ==
  ASSUME StillParsing, Tidy(constructor), MainScope \/ Scope \/ EndScope
  PROVE  Tidy(constructor')
<1>1. constructor' \in {constructor, ScopeStart(constructor), ScopeEnd(constructor)}
  BY DEF MainScope, Scope, EndScope, RefuseProgram
<1>2. QED
  BY <1>1, Constructing, ScopesGoOn, TidyGoesOn

LEMMA WhileHereTidy ==
  ASSUME StillParsing, Tidy(constructor),
         NEW e \in Programs[kind].expressions["while"], While(e)
  PROVE  Tidy(constructor')
<1> DEFINE tables == PushTable(variables, variables_table_counter + 1, NoName)
           value == Expression(e, tables, globals, functions)
           begun == WhileBeforeCondition(constructor)
           filled == Emit(begun, value.code)
<1>1. CASE RefuseProgram
  BY <1>1 DEF RefuseProgram
<1>2. CASE ~value.refused /\ constructor' = WhileAfterCondition(filled)
  <2>1. tables \in Seq(Table)
    <3>1. variables \in Seq(Table) /\ Len(variables) > 0
          /\ variables_table_counter + 1 \in Nat
      BY DEF StillParsing, Parsing, ParserTypes
    <3>2. QED
      BY <3>1, PushedTables
  <2> HIDE DEF tables
  <2>2. value = Expression(e, tables, globals, functions)
    OBVIOUS
  <2> HIDE DEF value
  <2>3. value.code \in Seq(Instructions) /\ Puts(value.code)
    BY <1>2, <2>1, <2>2, EvaluatedPuts
  <2>4. begun = WhileBeforeCondition(constructor) /\ filled = Emit(begun, value.code)
    OBVIOUS
  <2> HIDE DEF begun, filled
  <2>5. QED
    BY <1>2, <2>3, <2>4, Constructing, WhileTidy
<1>3. QED
  BY <1>1, <1>2 DEF While

LEMMA LoopTidy ==
  ASSUME StillParsing, Tidy(constructor), Loop
  PROVE  Tidy(constructor')
<1>1. Rule = "while" /\ constructor' = WhileEnd(constructor)
  BY DEF Loop
<1>2. Rule \in InnerRules /\ ~(part = "scope" /\ Len(blocks) = 2)
  <2>1. Rule \in InnerRules
    BY <1>1 DEF InnerRules
  <2>2. blocks \in Seq(Blocks) /\ Len(blocks) > 0
        /\ Placement(part, blocks, constructor.to_buffer, functions, actual_function)
    BY DEF StillParsing, Parsing, ParserTypes, Shape
  <2>3. Last(blocks) = blocks[Len(blocks)]
    BY <2>2, SplitLast
  <2>4. QED
    BY <1>1, <2>1, <2>2, <2>3 DEF Rule, Placement
<1>3. Adds(Front(blocks), blocks, "while")
  BY <1>1, <1>2, InnermostBlock
<1>4. constructor \in Constructors /\ Balanced(constructor, blocks)
  BY Constructing
<1>5. PICK rest \in Seq(Labels), start \in Labels, end \in Labels :
        OnTop(constructor.loops, rest, start, end)
  BY <1>3, <1>4, InnermostLoop
<1>6. GoesOn(constructor, constructor', Ground, Ground)
  BY <1>1, <1>4, <1>5, LoopGoesOn
<1>7. QED
  BY <1>4, <1>6, TidyGoesOn

\* The labels of the innermost condition.
LEMMA InnermostLabels ==
  ASSUME StillParsing, Rule \in Branches
  PROVE  \E rest \in Seq(Labels), end, next \in Labels :
           OnTop(constructor.conditions, rest, end, next) /\ end # next
<1>1. Adds(Front(blocks), blocks, Rule)
  BY BranchInside, InnermostBlock
<1>2. constructor \in Constructors /\ Balanced(constructor, blocks)
      /\ Ordered(constructor, functions)
  BY Constructing
<1>3. PICK rest \in Seq(Labels), end \in Labels, next \in Labels :
        OnTop(constructor.conditions, rest, end, next)
  BY <1>1, <1>2, InnermostCondition
<1>4. AllDifferent(constructor.conditions)
  BY <1>2 DEF Ordered, OpenConditions
<1>5. end # next
  BY <1>3, <1>4, TwoMore
<1>6. QED
  BY <1>3, <1>5

LEMMA ElsesTidy ==
  ASSUME StillParsing, Tidy(constructor), Else \/ EndIf
  PROVE  Tidy(constructor')
<1>1. /\ Rule \in Branches
      /\ constructor' \in {IfElseBlock(AfterBranch), IfAfterEndIf(AfterBranch)}
  BY DEF Else, EndIf, Branches
<1>2. PICK rest \in Seq(Labels), end \in Labels, next \in Labels :
        OnTop(constructor.conditions, rest, end, next) /\ end # next
  BY <1>1, InnermostLabels
<1>3. Left(constructor, AfterBranch, Rule)
  BY BranchTables
<1>4. constructor \in Constructors /\ << >> \in Seq(Instructions)
  BY Constructing
<1>5. QED
  BY <1>1, <1>2, <1>3, <1>4, BranchesTidy

LEMMA ElseIfTidy ==
  ASSUME StillParsing, Tidy(constructor),
         NEW e \in Programs[kind].expressions["elseif"], ElseIf(e)
  PROVE  Tidy(constructor')
<1> DEFINE tables == PopTable(TablesAfterBranch)
           value == Expression(e, tables, globals, functions)
<1>1. CASE RefuseProgram
  BY <1>1 DEF RefuseProgram
<1>2. CASE /\ ~value.refused
           /\ constructor' = ElseIfAfterExpression(
                               Emit(ElseIfBeforeExpression(AfterBranch), value.code))
  <2>1. Rule \in Branches
    BY DEF ElseIf, Branches
  <2>2. PICK rest \in Seq(Labels), end \in Labels, next \in Labels :
          OnTop(constructor.conditions, rest, end, next) /\ end # next
    BY <2>1, InnermostLabels
  <2>3. /\ Left(constructor, AfterBranch, Rule)
        /\ TablesAfterBranch \in Seq(Table) /\ Len(TablesAfterBranch) > 0
    BY BranchTables
  <2>4. tables \in Seq(Table)
    BY <2>3, PoppedTables
  <2> HIDE DEF tables
  <2>5. value = Expression(e, tables, globals, functions)
    OBVIOUS
  <2> HIDE DEF value
  <2>6. value.code \in Seq(Instructions) /\ Puts(value.code)
    BY <1>2, <2>4, <2>5, EvaluatedPuts
  <2>7. constructor \in Constructors
    BY Constructing
  <2>8. QED
    BY <1>2, <2>2, <2>3, <2>6, <2>7, BranchesTidy
<1>3. QED
  BY <1>1, <1>2 DEF ElseIf

(* The levels of the code, once it is complete.                            *)
Levelled == \E at, inside : Levelling(Code, at, inside)

TidyInvariant ==
  /\ ParserInvariant
  /\ part \in {"definitions", "scope", "shared"} => Tidy(constructor)
  /\ part = "parsed" => Levelled

LEMMA FirstTidy ==
  ASSUME ParserInit
  PROVE  Tidy(constructor)
<1> DEFINE n == NewConstructor
           i == DefVar(Temporary)
           chunk == <<i>>
<1>1. /\ n.main = << >> /\ n.buffer = << >> /\ n.to_buffer = FALSE
      /\ n.code_labels = << >> /\ n.conditions = << >> /\ n.loops = << >>
  BY DEF NewConstructor
<1>2. n \in Constructors
  BY LabelTypes DEF NewConstructor, Constructors
<1>3. i \in Instructions /\ i.op = "DEFVAR"
  <2>1. Temporary \in Operands /\ Nothing \in Operands /\ NoLabel \in Labels
        /\ Temporary \in Targets
    BY OperandTypes, LabelTypes
  <2>2. QED
    BY <2>1 DEF DefVar, Instruction, Instructions
<1>4. constructor = Emit(n, chunk)
  BY DEF ParserInit
<1> HIDE DEF n, i
<1>5. chunk \in Seq(Instructions) /\ \A k \in DOMAIN chunk : chunk[k] = i
  BY <1>3
<1>6. Carries(chunk, Ground, Ground)
  <2>1. Takes(i, Ground, Ground)
    BY <1>3 DEF Takes, Quiet
  <2>2. QED
    BY <2>1, LowLevels, CarriesOne
<1> HIDE DEF chunk
<1>7. Wired(chunk) = {} /\ NoReturn(chunk)
  BY <1>3, <1>5 DEF Wired, NoReturn, JumpOps
<1>8. Tidy(n)
  <2>1. Carries(<< >>, Ground, Ground)
    BY LowLevels, CarriesNone
  <2>2. Wired(<< >>) = {} /\ NoReturn(<< >>) /\ Ends(<< >>)
    BY DEF Wired, NoReturn, Ends
  <2>3. \A l \in Own(n) : l.type # "function"
    <3>1. Range(<< >>) = {}
      BY DEF Range
    <3>2. Own(n) = Fresh(n)
      BY <1>1, <3>1 DEF Own
    <3>3. QED
      BY <3>2 DEF Fresh
  <2>4. Resting(n) = << >>
    BY <1>1 DEF Resting
  <2>5. OwnLabels(n)
    BY <1>1, <2>2, <2>3, <2>4 DEF OwnLabels
  <2>6. QED
    BY <1>1, <2>1, <2>2, <2>5 DEF Tidy
<1>9. GoesOn(n, constructor, Ground, Ground)
  BY <1>2, <1>4, <1>5, <1>6, <1>7, EmitGoesOn
<1>10. QED
  BY <1>2, <1>8, <1>9, TidyGoesOn

LEMMA EndProgramLevelled ==
  ASSUME StillParsing, Tidy(constructor), EndProgram
  PROVE  Levelled' /\ part' = "parsed"
<1>1. /\ part = "shared" /\ part' = "parsed" /\ constructor' = EndCode(constructor)
  BY DEF EndProgram
<1>2. /\ Placement(part, blocks, constructor.to_buffer, functions, actual_function)
      /\ constructor \in Constructors /\ Ordered(constructor, functions)
      /\ Balanced(constructor, blocks)
  BY Constructing DEF StillParsing, Parsing, Shape
<1>3. Len(blocks) = 1 /\ blocks[1].rule = "program"
  BY <1>1, <1>2 DEF Placement
<1>4. ~(Len(blocks) > 1)
  BY <1>3
<1>5. ~constructor.to_buffer
  BY <1>2, <1>4 DEF Placement
<1>6. constructor.conditions = << >> /\ constructor.loops = << >>
      /\ constructor.code_labels = << >>
  BY <1>2, <1>3, ProgramOnly
<1>7. Wired(constructor.main) \cap Own(constructor) = {}
  BY <1>2, <1>6, LabelsApart
<1>8. \E at, inside : Levelling(EndCode(constructor).main, at, inside)
  BY <1>2, <1>5, <1>7, EndCodeLevels
<1>9. Code' = EndCode(constructor).main
  BY <1>1 DEF Code
<1>10. QED
  BY <1>1, <1>8, <1>9 DEF Levelled

LEMMA TidySteps ==
  ASSUME TidyInvariant, ParserNext
  PROVE  TidyInvariant'
<1>1. part \notin {"parsed", "refused"} /\ kind' = kind
  BY DEF ParserNext
<1>2. StillParsing /\ Tidy(constructor)
  BY <1>1 DEF TidyInvariant, ParserInvariant, ParserTypes, StillParsing, Parsing
<1>3. /\ Programs[kind].names \subseteq Names
      /\ Programs[kind].parameters \subseteq Seq(Names)
  BY <1>2, ProgramsAssumption DEF StillParsing, Parsing, ParserTypes
<1>4. ParserInvariant'
  BY ParserSteps DEF TidyInvariant
<1>5. EndProgram \/ Tidy(constructor')
  <2>1. ASSUME NEW name \in Programs[kind].names
        PROVE  /\ \A e \in Programs[kind].expressions["dim"] :
                    Dim(name, e) => Tidy(constructor')
               /\ \A e \in Programs[kind].expressions["shared"] :
                    DimShared(name, e) => Tidy(constructor')
               /\ \A e \in Programs[kind].expressions["static"] :
                    Static(name, e) => Tidy(constructor')
               /\ \A e \in Programs[kind].expressions["assign"] :
                    Assign(name, e) => Tidy(constructor')
               /\ InputTo(name) => Tidy(constructor')
    BY <1>2, <1>3, DimTidy, DimSharedTidy, StaticHereTidy, AssignTidy, InputTidy
  <2>2. ASSUME NEW f \in Programs[kind].names, NEW params \in Programs[kind].parameters
        PROVE  /\ DeclareFunction(f, params) => Tidy(constructor')
               /\ StartFunction(f, params) => Tidy(constructor')
    <3>1. DeclareFunction(f, params) => constructor' = constructor
      BY DEF DeclareFunction, RefuseProgram
    <3>2. QED
      BY <1>2, <1>3, <3>1, StartFunctionTidy
  <2>3. /\ \A e \in Programs[kind].expressions["return"] :
             ReturnValue(e) => Tidy(constructor')
        /\ \A e \in Programs[kind].expressions["while"] : While(e) => Tidy(constructor')
        /\ \A e \in Programs[kind].expressions["if"] : If(e) => Tidy(constructor')
        /\ \A e \in Programs[kind].expressions["elseif"] : ElseIf(e) => Tidy(constructor')
        /\ \A e \in Programs[kind].expressions["print"] :
             PrintValue(e) => Tidy(constructor')
    BY <1>2, ReturnTidy, WhileHereTidy, IfTidy, ElseIfTidy, PrintTidy
  <2>4. EndFunction \/ MainScope \/ Scope \/ EndScope \/ Loop \/ Else \/ EndIf
          => Tidy(constructor')
    BY <1>2, EndFunctionTidy, ScopesTidy, LoopTidy, ElsesTidy
  <2>5. QED
    BY <2>1, <2>2, <2>3, <2>4 DEF ParserNext
<1>6. part' = "parsed" => EndProgram
  <2>1. ASSUME ~EndProgram PROVE part' # "parsed"
    BY <1>1, <1>2, <2>1 DEF ParserNext, Dim, DimShared, Static, Assign, InputTo,
       DeclareFunction, StartFunction, ReturnValue, While, If, ElseIf, PrintValue,
       EndFunction, MainScope, Scope, EndScope, Loop, Else, EndIf, Declare,
       RefuseProgram, OnlyCode, StillParsing
  <2>2. QED
    BY <2>1
<1>7. EndProgram => Levelled' /\ part' = "parsed"
  BY <1>2, EndProgramLevelled
<1>8. QED
  BY <1>4, <1>5, <1>6, <1>7 DEF TidyInvariant

LEMMA TidyStays ==
  ASSUME TidyInvariant, UNCHANGED parser
  PROVE  TidyInvariant'
<1>1. part' = part /\ constructor' = constructor
  BY DEF parser
<1>2. ParserInvariant'
  BY ParserStays DEF TidyInvariant
<1>3. Code' = Code
  BY <1>1 DEF Code
<1>4. QED
  BY <1>1, <1>2, <1>3 DEF TidyInvariant, Levelled

LEMMA TidyHolds == Spec => []TidyInvariant
<1>1. Init => TidyInvariant
  <2> SUFFICES ASSUME Init PROVE TidyInvariant
    OBVIOUS
  <2>1. ParserInvariant /\ Tidy(constructor) /\ part = "definitions"
    BY ParserStarts, FirstTidy DEF Init, ParserInit
  <2>2. QED
    BY <2>1 DEF TidyInvariant
<1>2. TidyInvariant /\ [Next]_vars => TidyInvariant'
  <2>1. CASE Parse
    BY <2>1, TidySteps DEF Parse
  <2>2. CASE Run
    BY <2>2, TidyStays DEF Run
  <2>3. CASE UNCHANGED vars
    BY <2>3, TidyStays DEF vars
  <2>4. QED
    BY <2>1, <2>2, <2>3 DEF Next
<1>3. QED
  BY <1>1, <1>2, PTL DEF Spec

(* The machine, whose stack has what the levels say.                       *)

\* How many local frames there are.
Locals(lf, count) == \E S : lf \in Seq(S) /\ Len(lf) = count

LEMMA LocalsChange ==
  /\ Locals(<< >>, 0)
  /\ \A lf : Locals(lf, 0) => lf = << >>
  /\ \A lf : \A k \in Nat : Locals(lf, k) =>
       /\ \A f : Locals(Append(lf, f), k + 1)
       /\ k > 0 => lf # << >> /\ Locals(Front(lf), k - 1)
       /\ \A f : Locals([lf EXCEPT ![Len(lf)] = f], k)
<1>1. Locals(<< >>, 0)
  <2>1. << >> \in Seq({}) /\ Len(<< >>) = 0
    OBVIOUS
  <2>2. QED
    BY <2>1 DEF Locals
<1>2. ASSUME NEW lf, Locals(lf, 0) PROVE lf = << >>
  <2>1. PICK S : lf \in Seq(S) /\ Len(lf) = 0
    BY <1>2 DEF Locals
  <2>2. QED
    BY <2>1, EmptySeq
<1>3. ASSUME NEW lf, NEW k \in Nat, Locals(lf, k)
      PROVE  /\ \A f : Locals(Append(lf, f), k + 1)
             /\ k > 0 => lf # << >> /\ Locals(Front(lf), k - 1)
             /\ \A f : Locals([lf EXCEPT ![Len(lf)] = f], k)
  <2>1. PICK S : lf \in Seq(S) /\ Len(lf) = k
    BY <1>3 DEF Locals
  <2>2. ASSUME NEW f PROVE Locals(Append(lf, f), k + 1)
    <3> DEFINE T == S \cup {f}
    <3>1. lf \in Seq(T) /\ f \in T
      BY <2>1
    <3> HIDE DEF T
    <3>2. Append(lf, f) \in Seq(T) /\ Len(Append(lf, f)) = k + 1
      BY <2>1, <3>1
    <3>3. QED
      BY <3>2 DEF Locals
  <2>3. ASSUME k > 0 PROVE lf # << >> /\ Locals(Front(lf), k - 1)
    <3>1. Len(lf) > 0
      BY <2>1, <2>3
    <3>2. lf # << >>
      BY <3>1
    <3>3. Front(lf) \in Seq(S) /\ Len(Front(lf)) = k - 1
      BY <2>1, <3>1 DEF Front
    <3>4. QED
      BY <3>2, <3>3 DEF Locals
  <2>4. ASSUME NEW f PROVE Locals([lf EXCEPT ![Len(lf)] = f], k)
    <3> DEFINE T == S \cup {f}
               new == [lf EXCEPT ![Len(lf)] = f]
    <3>1. DOMAIN lf = 1..k /\ \A i \in 1..k : lf[i] \in S
      BY <2>1
    <3>2. DOMAIN new = 1..k /\ \A i \in 1..k : new[i] \in T
      BY <3>1
    <3>3. new = [i \in 1..k |-> new[i]]
      BY <3>1
    <3> HIDE DEF new, T
    <3>4. new \in Seq(T) /\ Len(new) = k
      BY <3>2, <3>3
    <3>5. QED
      BY <3>4 DEF Locals, new
  <2>5. QED
    BY <2>2, <2>3, <2>4
<1>4. QED
  BY <1>1, <1>2, <1>3

\* What a machine is made of, and what it becomes.
Shaped(m) ==
  m = [pc |-> m.pc, gf |-> m.gf, lf |-> m.lf, tf |-> m.tf,
       height |-> m.height, calls |-> m.calls, fault |-> m.fault]

Becomes(r, pc, height, lf, calls, fault) ==
  /\ Shaped(r) /\ r.pc = pc /\ r.height = height /\ r.lf = lf
  /\ r.calls = calls /\ r.fault = fault

LEMMA FieldsChange ==
  ASSUME NEW m, Shaped(m)
  PROVE  \A v :
           /\ Becomes([m EXCEPT !.pc = v], v, m.height, m.lf, m.calls, m.fault)
           /\ Becomes([m EXCEPT !.height = v], m.pc, v, m.lf, m.calls, m.fault)
           /\ Becomes([m EXCEPT !.gf = v], m.pc, m.height, m.lf, m.calls, m.fault)
           /\ Becomes([m EXCEPT !.tf = v], m.pc, m.height, m.lf, m.calls, m.fault)
           /\ Becomes([m EXCEPT !.lf = v], m.pc, m.height, v, m.calls, m.fault)
           /\ Becomes([m EXCEPT !.calls = v], m.pc, m.height, m.lf, v, m.fault)
           /\ Becomes(Fail(m, v), m.pc, m.height, m.lf, m.calls, v)
<1> SUFFICES ASSUME NEW v
             PROVE  /\ Becomes([m EXCEPT !.pc = v], v, m.height, m.lf, m.calls, m.fault)
                    /\ Becomes([m EXCEPT !.height = v], m.pc, v, m.lf, m.calls, m.fault)
                    /\ Becomes([m EXCEPT !.gf = v], m.pc, m.height, m.lf, m.calls, m.fault)
                    /\ Becomes([m EXCEPT !.tf = v], m.pc, m.height, m.lf, m.calls, m.fault)
                    /\ Becomes([m EXCEPT !.lf = v], m.pc, m.height, v, m.calls, m.fault)
                    /\ Becomes([m EXCEPT !.calls = v], m.pc, m.height, m.lf, v, m.fault)
                    /\ Becomes(Fail(m, v), m.pc, m.height, m.lf, m.calls, v)
  OBVIOUS
<1>1. Becomes([m EXCEPT !.pc = v], v, m.height, m.lf, m.calls, m.fault)
  BY DEF Becomes, Shaped
<1>2. Becomes([m EXCEPT !.height = v], m.pc, v, m.lf, m.calls, m.fault)
  BY DEF Becomes, Shaped
<1>3. Becomes([m EXCEPT !.gf = v], m.pc, m.height, m.lf, m.calls, m.fault)
  BY DEF Becomes, Shaped
<1>4. Becomes([m EXCEPT !.tf = v], m.pc, m.height, m.lf, m.calls, m.fault)
  BY DEF Becomes, Shaped
<1>5. Becomes([m EXCEPT !.lf = v], m.pc, m.height, v, m.calls, m.fault)
  BY DEF Becomes, Shaped
<1>6. Becomes([m EXCEPT !.calls = v], m.pc, m.height, m.lf, v, m.fault)
  BY DEF Becomes, Shaped
<1>7. Becomes(Fail(m, v), m.pc, m.height, m.lf, m.calls, v)
  BY DEF Becomes, Shaped, Fail
<1>8. QED
  BY <1>1, <1>2, <1>3, <1>4, <1>5, <1>6, <1>7

\* The calls under way: each began with the frame of its arguments on, and it
\* returns to where its value is one more than there was.
CallsFit(calls, at, inside) ==
  \A k \in 1..Len(calls) :
    /\ at[calls[k].back - 1].height + (IF k = 1 THEN 0 ELSE calls[k - 1].height)
         = calls[k].height + 1
    /\ at[calls[k].back - 1].frames = 1
    /\ calls[k].back \in inside <=> k > 1

\* The machine has on its stack what the level x says, above what the call
\* under way may not take.
Fitting(m, x, at, inside) ==
  /\ Shaped(m) /\ m.fault = "none"
  /\ m.height = Floor(m) + x.height
  /\ Locals(m.lf, Len(m.calls) + x.frames)
  /\ CallsFit(m.calls, at, inside)

Among(m, inside) == m.pc \in inside <=> m.calls # << >>

Stands(m, at, inside) == Fitting(m, at[m.pc - 1], at, inside) /\ Among(m, inside)

\* What may not happen, and what a machine that goes on is like.
Settled(r, at, inside) ==
  r.fault \notin {"stack", "return"} /\ (r.fault = "none" => Stands(r, at, inside))

LEMMA FittingSame ==
  ASSUME NEW m, NEW x, NEW at, NEW inside, Fitting(m, x, at, inside),
         NEW r, NEW pc, Becomes(r, pc, m.height, m.lf, m.calls, m.fault)
  PROVE  Fitting(r, x, at, inside)
BY DEF Fitting, Becomes, Floor

LEMMA FaultSettled ==
  ASSUME NEW m, Shaped(m), NEW at, NEW inside,
         NEW fault \in {"undeclared", "redeclared", "unset", "no frame", "label"}
  PROVE  Settled(Fail(m, fault), at, inside)
<1>1. Becomes(Fail(m, fault), m.pc, m.height, m.lf, m.calls, fault)
  BY FieldsChange
<1>2. Fail(m, fault).fault = fault
  BY <1>1 DEF Becomes
<1>3. QED
  BY <1>2 DEF Settled

\* To the next instruction, with what the one before it left.
LEMMA AdvanceStands ==
  ASSUME NEW code \in Seq(Instructions), NEW at, NEW inside, Levelling(code, at, inside),
         NEW k \in 1..Len(code), code[k].op \notin {"JUMP", "RETURN"},
         NEW m, m.pc = k, Fitting(m, at[k], at, inside), Among(m, inside)
  PROVE  Stands(Advance(m), at, inside)
<1>1. Len(code) \in Nat /\ k \in Nat
  BY LenProperties
<1> DEFINE e == k + 1
           r == Advance(m)
<1>2. Becomes(r, e, m.height, m.lf, m.calls, m.fault)
  <2>1. r = [m EXCEPT !.pc = e]
    BY DEF Advance
  <2> HIDE DEF e, r
  <2>2. Becomes([m EXCEPT !.pc = e], e, m.height, m.lf, m.calls, m.fault)
    BY FieldsChange DEF Fitting
  <2>3. QED
    BY <2>1, <2>2
<1>3. k \in inside <=> e \in inside
  <2>1. CASE k = Len(code)
    <3>1. k \notin inside /\ inside \subseteq 1..Len(code)
      BY <2>1 DEF Levelling
    <3>2. e \notin 1..Len(code)
      BY <1>1, <2>1
    <3>3. QED
      BY <3>1, <3>2
  <2>2. CASE k # Len(code)
    <3>1. k \in 1..Len(code) - 1
      BY <1>1, <2>2
    <3>2. QED
      BY <3>1 DEF Levelling
  <2>3. QED
    BY <2>1, <2>2
<1>4. e - 1 = k
  BY <1>1
<1> HIDE DEF e, r
<1>5. Fitting(r, at[k], at, inside)
  BY <1>2, FittingSame
<1>6. r.pc = e /\ r.calls = m.calls
  BY <1>2 DEF Becomes
<1>7. QED
  BY <1>3, <1>4, <1>5, <1>6 DEF Stands, Among, r

\* To a label: nothing is on the stack there.
LEMMA LabelLevel ==
  ASSUME NEW code \in Seq(Instructions), NEW at, NEW inside, Levelling(code, at, inside),
         NEW j \in 1..Len(code), NEW l, code[j] = AtLabel(l)
  PROVE  at[j - 1] = Ground
<1>1. Takes(code[j], at[j - 1], at[j])
  BY DEF Levelling
<1>2. code[j].op = "LABEL"
  BY LabelOps
<1>3. QED
  BY <1>1, <1>2 DEF Takes, Quiet

LEMMA JumpSettled ==
  ASSUME NEW code \in Seq(Instructions), NEW at, NEW inside, Levelling(code, at, inside),
         NEW k \in 1..Len(code), code[k].op \in {"JUMP", "JUMPIFEQ", "JUMPIFEQS"},
         NEW m, m.pc = k, Fitting(m, Ground, at, inside), Among(m, inside)
  PROVE  Settled(JumpTo(m, code, code[k].label), at, inside)
<1> DEFINE label == code[k].label
           j == CHOOSE i \in DOMAIN code : code[i] = AtLabel(label)
           r == JumpTo(m, code, label)
<1>1. DOMAIN code = 1..Len(code)
  BY LenProperties
<1>2. CASE ~Contains(code, AtLabel(label))
  <2>1. r = Fail(m, "label")
    BY <1>2 DEF JumpTo
  <2>2. QED
    BY <2>1, FaultSettled DEF Fitting
<1>3. CASE Contains(code, AtLabel(label))
  <2>1. \E i \in DOMAIN code : code[i] = AtLabel(label)
    BY <1>3 DEF Contains
  <2>2. j \in 1..Len(code) /\ code[j] = AtLabel(label)
    BY <1>1, <2>1
  <2>3. r = [m EXCEPT !.pc = j]
    BY <1>3 DEF JumpTo
  <2> HIDE DEF j, r
  <2>4. at[j - 1] = Ground
    BY <2>2, LabelLevel
  <2>5. k \in inside <=> j \in inside
    BY <2>2 DEF Levelling
  <2>6. Becomes(r, j, m.height, m.lf, m.calls, m.fault)
    BY <2>3, FieldsChange DEF Fitting
  <2>7. Fitting(r, Ground, at, inside)
    BY <2>6, FittingSame
  <2>8. r.pc = j /\ r.calls = m.calls /\ r.fault = "none"
    BY <2>6 DEF Becomes, Fitting
  <2>9. QED
    BY <2>4, <2>5, <2>7, <2>8 DEF Settled, Stands, Among, r
<1>4. QED
  BY <1>2, <1>3

\* A variable is written.
LEMMA WriteStands ==
  ASSUME NEW m, NEW x \in Levels, NEW at, NEW inside, Fitting(m, x, at, inside),
         Len(m.calls) \in Nat, NEW o \in Targets, NEW value,
         NEW r, r = WithVariable(m, o, value)
  PROVE  Fitting(r, x, at, inside) /\ r.pc = m.pc /\ r.calls = m.calls
<1> DEFINE frame == (o.cell :> value) @@ Frames(m, o)[1]
           count == Len(m.calls) + x.frames
<1>1. r = InFrame(m, o, frame)
  BY DEF WithVariable
<1>2. count \in Nat /\ Locals(m.lf, count)
  <2>1. x.frames \in Nat
    BY DEF Levels
  <2>2. QED
    BY <2>1 DEF Fitting
<1> HIDE DEF frame
<1>3. o.frame \in {"GF", "LF", "TF"}
  BY DEF Targets
<1>4. Shaped(m)
  BY DEF Fitting
<1>5. ASSUME Becomes(r, m.pc, m.height, m.lf, m.calls, m.fault)
      PROVE  Fitting(r, x, at, inside) /\ r.pc = m.pc /\ r.calls = m.calls
  BY <1>5, FittingSame DEF Becomes
<1>6. CASE o.frame = "GF"
  <2>1. r = [m EXCEPT !.gf = frame]
    BY <1>1, <1>6 DEF InFrame
  <2>2. QED
    BY <1>4, <1>5, <2>1, FieldsChange
<1>7. CASE o.frame = "LF"
  <2> DEFINE frames == [m.lf EXCEPT ![Len(m.lf)] = frame]
  <2>1. r = [m EXCEPT !.lf = frames]
    BY <1>1, <1>7 DEF InFrame
  <2>2. Locals(frames, count)
    BY <1>2, LocalsChange
  <2> HIDE DEF frames
  <2>3. Becomes(r, m.pc, m.height, frames, m.calls, m.fault)
    BY <1>4, <2>1, FieldsChange
  <2>4. QED
    BY <2>2, <2>3 DEF Fitting, Becomes, Floor
<1>8. CASE o.frame = "TF"
  <2> DEFINE frames == <<frame>>
  <2>1. r = [m EXCEPT !.tf = frames]
    BY <1>1, <1>8 DEF InFrame
  <2> HIDE DEF frames
  <2>2. QED
    BY <1>4, <1>5, <2>1, FieldsChange
<1>9. QED
  BY <1>3, <1>6, <1>7, <1>8

\* An instruction that goes on to the next one, once its operands are there.
LEMMA StoreSettled ==
  ASSUME NEW code \in Seq(Instructions), NEW at, NEW inside, Levelling(code, at, inside),
         NEW k \in 1..Len(code), code[k].op \notin {"JUMP", "RETURN"},
         NEW m, m.pc = k, Fitting(m, at[k], at, inside), Among(m, inside),
         Len(m.calls) \in Nat
  PROVE  /\ Settled(Advance(m), at, inside)
         /\ \A o \in Targets : /\ Settled(Declaration(m, o), at, inside)
                               /\ \A v : Settled(Storing(m, o, v), at, inside)
<1> DEFINE next == Advance(m)
<1>1. Stands(next, at, inside)
  BY AdvanceStands
<1>2. Shaped(m)
  BY DEF Fitting
<1>3. /\ Settled(Fail(m, "no frame"), at, inside)
      /\ Settled(Fail(m, "redeclared"), at, inside)
      /\ Settled(Fail(m, "undeclared"), at, inside)
  BY <1>2, FaultSettled
<1>4. next.calls = m.calls /\ next.pc = k + 1
  <2> DEFINE e == k + 1
  <2>1. next = [m EXCEPT !.pc = e]
    BY DEF Advance
  <2> HIDE DEF e, next
  <2>2. Becomes(next, e, m.height, m.lf, m.calls, m.fault)
    BY <1>2, <2>1, FieldsChange
  <2>3. QED
    BY <2>2 DEF Becomes, e
<1>5. at[k] \in Levels /\ next.pc - 1 = k
  <2>1. Len(code) \in Nat /\ k \in Nat /\ k \in 0..Len(code)
    BY LenProperties
  <2>2. QED
    BY <1>4, <2>1 DEF Levelling
<1> HIDE DEF next
<1>6. ASSUME NEW o \in Targets, NEW v
      PROVE  Settled(WithVariable(next, o, v), at, inside)
  <2> DEFINE r == WithVariable(next, o, v)
  <2>1. Fitting(next, at[k], at, inside) /\ Among(next, inside)
    BY <1>1, <1>5 DEF Stands
  <2>2. Fitting(r, at[k], at, inside) /\ r.pc = next.pc /\ r.calls = next.calls
    BY <1>4, <1>5, <2>1, WriteStands
  <2>3. r.fault = "none"
    BY <2>2 DEF Fitting
  <2> HIDE DEF r
  <2>4. Stands(r, at, inside)
    BY <1>5, <2>1, <2>2 DEF Stands, Among
  <2>5. QED
    BY <2>3, <2>4 DEF Settled, r
<1>7. Settled(next, at, inside)
  BY <1>1 DEF Settled, Stands, Fitting
<1>8. ASSUME NEW o \in Targets PROVE Settled(Declaration(m, o), at, inside)
  BY <1>3, <1>6 DEF Declaration, next
<1>9. ASSUME NEW o \in Targets, NEW v PROVE Settled(Storing(m, o, v), at, inside)
  BY <1>3, <1>6 DEF Storing, next
<1>10. QED
  BY <1>7, <1>8, <1>9 DEF next

LEMMA ReadSettled ==
  ASSUME NEW m, Shaped(m), NEW at, NEW inside, NEW next, Settled(next, at, inside),
         NEW source
  PROVE  Settled(Reading(m, source, next), at, inside)
<1>1. Settled(Fail(m, "undeclared"), at, inside) /\ Settled(Fail(m, "unset"), at, inside)
  BY FaultSettled
<1>2. QED
  BY <1>1 DEF Reading

\* What the level says is there is there to be popped.
LEMMA PopSettled ==
  ASSUME NEW m, NEW x \in Levels, NEW at, NEW inside, Fitting(m, x, at, inside),
         Floor(m) \in Nat, NEW count \in Nat, x.height >= count,
         NEW next, Settled(next, at, inside)
  PROVE  Settled(Popping(m, count, next), at, inside)
<1> DEFINE h == m.height
           f == Floor(m)
           g == x.height
<1>1. h = f + g /\ f \in Nat /\ g \in Nat /\ g >= count
  BY DEF Fitting, Levels
<1> HIDE DEF h, f, g
<1>2. ~(h < f + count)
  BY <1>1
<1>3. Popping(m, count, next) = next
  BY <1>2 DEF Popping, h, f
<1>4. QED
  BY <1>3

\* More or less on the stack.
LEMMA HeightFits ==
  ASSUME NEW m, NEW x \in Levels, NEW at, NEW inside, Fitting(m, x, at, inside),
         Floor(m) \in Nat, NEW y \in Levels, y.frames = x.frames,
         NEW r, r = [m EXCEPT !.height = Floor(m) + y.height]
  PROVE  Fitting(r, y, at, inside) /\ r.pc = m.pc /\ r.calls = m.calls
<1> DEFINE h == Floor(m) + y.height
<1>1. r = [m EXCEPT !.height = h] /\ Shaped(m)
  BY DEF Fitting
<1>2. h = Floor(m) + y.height
  OBVIOUS
<1> HIDE DEF h
<1>3. Becomes(r, m.pc, h, m.lf, m.calls, m.fault)
  BY <1>1, FieldsChange
<1>4. QED
  BY <1>2, <1>3 DEF Becomes, Fitting, Floor

\* A frame more or less.
LEMMA FramesFit ==
  ASSUME NEW m, NEW x \in Levels, NEW at, NEW inside, Fitting(m, x, at, inside),
         NEW y \in Levels, y.height = x.height,
         NEW lf, Locals(lf, Len(m.calls) + y.frames), NEW tf, NEW r, Reframed(m, r, lf, tf)
  PROVE  Fitting(r, y, at, inside) /\ r.pc = m.pc /\ r.calls = m.calls
<1> DEFINE e == [m EXCEPT !.lf = lf]
<1>1. Shaped(m)
  BY DEF Fitting
<1>2. Becomes(e, m.pc, m.height, lf, m.calls, m.fault)
  BY <1>1, FieldsChange
<1>3. r = [e EXCEPT !.tf = tf]
  BY DEF Reframed
<1> HIDE DEF e
<1>4. Becomes(r, e.pc, e.height, e.lf, e.calls, e.fault)
  <2>1. Shaped(e)
    BY <1>2 DEF Becomes
  <2>2. Becomes([e EXCEPT !.tf = tf], e.pc, e.height, e.lf, e.calls, e.fault)
    BY <2>1, FieldsChange
  <2>3. QED
    BY <1>3, <2>2
<1>5. Becomes(r, m.pc, m.height, lf, m.calls, m.fault)
  BY <1>2, <1>4 DEF Becomes
<1>6. QED
  BY <1>5 DEF Becomes, Fitting, Floor

\* What the calls under way leave of the stack.
Below(calls) == IF calls = << >> THEN 0 ELSE Last(calls).height

LEMMA BelowType ==
  ASSUME NEW n, NEW calls \in Seq(Calls(n))
  PROVE  /\ Below(calls) \in Nat /\ Len(calls) \in Nat
         /\ calls # << >> => Len(calls) > 0 /\ Below(calls) = calls[Len(calls)].height
         /\ calls = << >> => Len(calls) = 0 /\ Below(calls) = 0
<1>1. Len(calls) \in Nat
  BY LenProperties
<1>2. CASE calls = << >>
  BY <1>1, <1>2 DEF Below
<1>3. CASE calls # << >>
  <2>1. Len(calls) > 0
    BY <1>3, EmptySeq, LenProperties
  <2>2. Last(calls) \in Calls(n) /\ Last(calls) = calls[Len(calls)]
    BY <2>1, SplitLast
  <2>3. QED
    BY <1>1, <1>3, <2>1, <2>2 DEF Below, Calls
<1>4. QED
  BY <1>2, <1>3

LEMMA CallsFitMore ==
  ASSUME NEW n, NEW calls \in Seq(Calls(n)), NEW call \in Calls(n), NEW at, NEW inside,
         CallsFit(calls, at, inside),
         at[call.back - 1].height + Below(calls) = call.height + 1,
         at[call.back - 1].frames = 1, call.back \in inside <=> calls # << >>
  PROVE  /\ CallsFit(Append(calls, call), at, inside)
         /\ Append(calls, call) # << >> /\ Below(Append(calls, call)) = call.height
         /\ Len(Append(calls, call)) = Len(calls) + 1
<1> DEFINE more == Append(calls, call)
           p == Len(calls)
<1>1. /\ more \in Seq(Calls(n)) /\ more # << >> /\ Len(more) = p + 1
      /\ \A i \in 1..p : more[i] = calls[i]
      /\ more[p + 1] = call
  BY AppendProperties
<1>2. p \in Nat /\ (calls # << >> <=> p > 0)
      /\ Below(calls) = IF p = 0 THEN 0 ELSE calls[p].height
  BY BelowType
<1> HIDE DEF more, p
<1>3. ASSUME NEW k \in 1..p + 1
      PROVE  /\ at[more[k].back - 1].height + (IF k = 1 THEN 0 ELSE more[k - 1].height)
                  = more[k].height + 1
             /\ at[more[k].back - 1].frames = 1
             /\ more[k].back \in inside <=> k > 1
  <2>1. CASE k \in 1..p
    <3>1. /\ at[calls[k].back - 1].height + (IF k = 1 THEN 0 ELSE calls[k - 1].height)
               = calls[k].height + 1
          /\ at[calls[k].back - 1].frames = 1
          /\ calls[k].back \in inside <=> k > 1
      BY <2>1 DEF CallsFit, p
    <3>2. more[k] = calls[k] /\ (k # 1 => more[k - 1] = calls[k - 1])
      BY <1>1, <1>2, <2>1
    <3>3. QED
      BY <3>1, <3>2
  <2>2. CASE k \notin 1..p
    <3>1. k = p + 1 /\ (k = 1 <=> p = 0) /\ (k > 1 <=> p > 0)
      BY <1>2, <2>2
    <3>2. more[k] = call
      BY <1>1, <3>1
    <3>3. p # 0 => k - 1 = p /\ p \in 1..p
      BY <1>2, <3>1
    <3>4. p # 0 => more[k - 1] = calls[p]
      BY <1>1, <3>3
    <3>5. Below(calls) = IF k = 1 THEN 0 ELSE more[k - 1].height
      BY <1>2, <3>1, <3>4
    <3>6. QED
      BY <1>2, <3>1, <3>2, <3>5
  <2>3. QED
    BY <2>1, <2>2
<1>4. Below(more) = call.height
  <2>1. Len(more) = p + 1 /\ more[Len(more)] = call
    BY <1>1
  <2>2. QED
    BY <1>1, <2>1, BelowType
<1>5. CallsFit(more, at, inside)
  BY <1>1, <1>3 DEF CallsFit
<1>6. QED
  BY <1>1, <1>4, <1>5 DEF more, p

LEMMA CallsFitLess ==
  ASSUME NEW n, NEW calls \in Seq(Calls(n)), calls # << >>, NEW at, NEW inside,
         CallsFit(calls, at, inside)
  PROVE  /\ CallsFit(Front(calls), at, inside)
         /\ Len(Front(calls)) + 1 = Len(calls)
         /\ at[Last(calls).back - 1].height + Below(Front(calls)) = Last(calls).height + 1
         /\ at[Last(calls).back - 1].frames = 1
         /\ Last(calls).back \in inside <=> Front(calls) # << >>
<1> DEFINE less == Front(calls)
           p == Len(calls)
           call == Last(calls)
<1>1. p \in Nat /\ p > 0
  BY BelowType
<1>2. /\ less \in Seq(Calls(n)) /\ Len(less) = p - 1
      /\ \A i \in 1..p - 1 : less[i] = calls[i]
      /\ call = calls[p]
  BY <1>1, SplitLast
<1> HIDE DEF less, call, p
<1>3. (less # << >> <=> p > 1) /\ Below(less) = IF p = 1 THEN 0 ELSE calls[p - 1].height
  <2>1. /\ Len(less) \in Nat
        /\ less # << >> => Len(less) > 0 /\ Below(less) = less[Len(less)].height
        /\ less = << >> => Len(less) = 0 /\ Below(less) = 0
    BY <1>2, BelowType
  <2>2. p # 1 => p - 1 \in 1..p - 1
    BY <1>1
  <2>3. p # 1 => less[p - 1] = calls[p - 1]
    BY <1>2, <2>2
  <2>4. QED
    BY <1>1, <1>2, <2>1, <2>3
<1>4. ASSUME NEW k \in 1..p
      PROVE  /\ at[calls[k].back - 1].height + (IF k = 1 THEN 0 ELSE calls[k - 1].height)
                  = calls[k].height + 1
             /\ at[calls[k].back - 1].frames = 1
             /\ calls[k].back \in inside <=> k > 1
  BY DEF CallsFit, p
<1>5. p \in 1..p
  BY <1>1
<1>6. /\ at[call.back - 1].height + Below(less) = call.height + 1
      /\ at[call.back - 1].frames = 1
      /\ call.back \in inside <=> less # << >>
  BY <1>2, <1>3, <1>4, <1>5
<1>7. ASSUME NEW k \in 1..p - 1
      PROVE  /\ at[less[k].back - 1].height + (IF k = 1 THEN 0 ELSE less[k - 1].height)
                  = less[k].height + 1
             /\ at[less[k].back - 1].frames = 1
             /\ less[k].back \in inside <=> k > 1
  <2>1. k \in 1..p /\ (k # 1 => k - 1 \in 1..p - 1)
    BY <1>1
  <2>2. less[k] = calls[k] /\ (k # 1 => less[k - 1] = calls[k - 1])
    BY <1>2, <2>1
  <2>3. QED
    BY <1>4, <2>1, <2>2
<1>8. CallsFit(less, at, inside) /\ Len(less) + 1 = p
  BY <1>1, <1>2, <1>7 DEF CallsFit
<1>9. QED
  BY <1>6, <1>8 DEF less, call, p

\* A call goes to a function, which begins with nothing of its own.
LEMMA CallSettled ==
  ASSUME NEW code \in Seq(Instructions), NEW at, NEW inside, Levelling(code, at, inside),
         NEW k \in 1..Len(code), code[k].op = "CALL",
         NEW m, Machine(m, Len(code)), m.pc = k, Fitting(m, at[k - 1], at, inside),
         Among(m, inside)
  PROVE  Settled(Calling(m, code, code[k].label), at, inside)
<1> DEFINE n == Len(code)
           x == at[k - 1]
           y == at[k]
           e == k + 1
           h == m.height
           call == [back |-> e, height |-> h]
           calls == m.calls
           more == Append(calls, call)
           label == code[k].label
           j == CHOOSE i \in DOMAIN code : code[i] = AtLabel(label)
           called == [m EXCEPT !.calls = more]
<1>1. n \in Nat /\ DOMAIN code = 1..n /\ e \in 1..n + 1 /\ e - 1 = k
      /\ k \in 0..n /\ k - 1 \in 0..n
  BY LenProperties
<1>2. x \in Levels /\ y \in Levels /\ Takes(code[k], x, y)
  BY <1>1 DEF Levelling
<1>3. x.frames = 1 /\ y = Level(x.height + 1, 1)
  BY <1>2 DEF Takes, Quiet
<1>4. y.height = x.height + 1 /\ y.frames = 1 /\ x.height \in Nat
  BY <1>2, <1>3 DEF Levels, Level
<1>5. calls \in Seq(Calls(n)) /\ h \in Nat
  BY DEF Machine
<1>6. call \in Calls(n) /\ call.back = e /\ call.height = h
  BY <1>1, <1>5 DEF Calls
<1>7. Below(calls) \in Nat /\ Floor(m) = Below(calls)
  BY <1>5, BelowType DEF Floor, Below
<1>8. y.height + Below(calls) = h + 1
  <2>1. h = Floor(m) + x.height
    BY DEF Fitting
  <2>2. QED
    BY <1>4, <1>7, <2>1
<1>9. e \in inside <=> calls # << >>
  <2>1. k # n
    BY LabelOps DEF Levelling
  <2>2. k \in 1..n - 1
    BY <1>1, <2>1
  <2>3. k \in inside <=> e \in inside
    BY <2>2 DEF Levelling
  <2>4. QED
    BY <2>3 DEF Among
<1>10. CallsFit(calls, at, inside)
  BY DEF Fitting
<1>11. Calling(m, code, label) = JumpTo(called, code, label)
  BY DEF Calling
<1> HIDE DEF call
<1>12. /\ CallsFit(more, at, inside) /\ more # << >> /\ Below(more) = h
       /\ Len(more) = Len(calls) + 1
  <2> HIDE DEF x, e, h, calls
  <2>1. at[call.back - 1] = y
    BY <1>1, <1>6
  <2> HIDE DEF y
  <2>2. QED
    BY <1>4, <1>5, <1>6, <1>8, <1>9, <1>10, <2>1, CallsFitMore
<1> HIDE DEF more
<1>13. Becomes(called, k, h, m.lf, more, "none")
  <2>1. Shaped(m) /\ m.fault = "none"
    BY DEF Fitting
  <2>2. QED
    BY <2>1, FieldsChange
<1>14. Fitting(called, Ground, at, inside)
  <2>1. Locals(m.lf, Len(calls) + 1)
    BY <1>3 DEF Fitting
  <2>2. Ground.height = 0 /\ Ground.frames = 0 /\ Len(calls) + 1 + 0 = Len(calls) + 1
    BY <1>5, BelowType, LevelType
  <2>3. Floor(called) = h
    <3>1. called.calls = more
      BY <1>13 DEF Becomes
    <3>2. QED
      BY <1>12, <3>1 DEF Floor, Below
  <2>4. h = h + 0
    BY <1>5
  <2> HIDE DEF called, h, calls
  <2>5. Locals(called.lf, Len(called.calls) + 0)
    BY <1>12, <1>13, <2>1, <2>2 DEF Becomes
  <2>6. QED
    BY <1>12, <1>13, <2>2, <2>3, <2>4, <2>5 DEF Becomes, Fitting
<1>15. called.calls # << >> /\ Shaped(called)
  BY <1>12, <1>13 DEF Becomes
<1> HIDE DEF called
<1>16. CASE ~Contains(code, AtLabel(label))
  <2>1. JumpTo(called, code, label) = Fail(called, "label")
    BY <1>16 DEF JumpTo
  <2>2. QED
    BY <1>11, <1>15, <2>1, FaultSettled
<1>17. CASE Contains(code, AtLabel(label))
  <2> DEFINE r == JumpTo(called, code, label)
  <2>1. \E i \in DOMAIN code : code[i] = AtLabel(label)
    BY <1>17 DEF Contains
  <2>2. j \in 1..n /\ code[j] = AtLabel(label)
    BY <1>1, <2>1
  <2>3. r = [called EXCEPT !.pc = j]
    BY <1>17 DEF JumpTo
  <2> HIDE DEF j, r
  <2>4. at[j - 1] = Ground
    BY <2>2, LabelLevel
  <2>5. j \in inside
    BY <2>2 DEF Levelling
  <2>6. Becomes(r, j, called.height, called.lf, called.calls, called.fault)
    BY <1>15, <2>3, FieldsChange
  <2>7. Fitting(r, Ground, at, inside)
    BY <1>14, <2>6, FittingSame
  <2>8. r.pc = j /\ r.calls = called.calls /\ r.fault = "none"
    BY <1>13, <2>6 DEF Becomes
  <2>9. QED
    BY <1>11, <1>15, <2>4, <2>5, <2>7, <2>8 DEF Settled, Stands, Among, r
<1>18. QED
  BY <1>16, <1>17

\* A function returns to behind its call, with one value more.
LEMMA ReturnSettled ==
  ASSUME NEW code \in Seq(Instructions), NEW at, NEW inside, Levelling(code, at, inside),
         NEW k \in 1..Len(code), code[k].op = "RETURN",
         NEW m, Machine(m, Len(code)), m.pc = k, Fitting(m, at[k - 1], at, inside),
         Among(m, inside)
  PROVE  Settled(Returning(m), at, inside)
<1> DEFINE n == Len(code)
           calls == m.calls
           less == Front(calls)
           back == Last(calls).back
           moved == [m EXCEPT !.pc = back]
           r == [moved EXCEPT !.calls = less]
<1>1. Takes(code[k], at[k - 1], at[k])
  BY DEF Levelling
<1>2. at[k - 1] = Level(1, 0)
  BY <1>1 DEF Takes, Quiet
<1>3. k \in inside
  BY DEF Levelling
<1>4. calls # << >>
  BY <1>3 DEF Among
<1>5. calls \in Seq(Calls(n)) /\ m.height \in Nat
  BY DEF Machine
<1>6. m.height = Floor(m) + 1 /\ Floor(m) = Last(calls).height
      /\ Locals(m.lf, Len(calls) + 0) /\ CallsFit(calls, at, inside)
      /\ Shaped(m) /\ m.fault = "none"
  BY <1>2, <1>4 DEF Fitting, Level, Floor
<1>7. /\ CallsFit(less, at, inside)
      /\ Len(less) + 1 = Len(calls)
      /\ at[back - 1].height + Below(less) = Last(calls).height + 1
      /\ at[back - 1].frames = 1
      /\ back \in inside <=> less # << >>
  BY <1>4, <1>5, <1>6, CallsFitLess
<1>8. Returning(m) = r
  <2>1. Returning(m) = [m EXCEPT !.pc = back, !.calls = less]
    BY <1>4, <1>6 DEF Returning
  <2> HIDE DEF back, less
  <2>2. [m EXCEPT !.pc = back, !.calls = less] = [[m EXCEPT !.pc = back] EXCEPT !.calls = less]
    OBVIOUS
  <2>3. QED
    BY <2>1, <2>2
<1> DEFINE x == at[back - 1]
<1> HIDE DEF back, less
<1>9. Becomes(moved, back, m.height, m.lf, m.calls, m.fault)
  BY <1>6, FieldsChange
<1> HIDE DEF moved
<1>10. Becomes(r, back, m.height, m.lf, less, m.fault)
  <2>1. Shaped(moved)
    BY <1>9 DEF Becomes
  <2>2. Becomes(r, moved.pc, moved.height, moved.lf, less, moved.fault)
    BY <2>1, FieldsChange
  <2>3. QED
    BY <1>9, <2>2 DEF Becomes
<1> HIDE DEF r
<1>11. Floor(r) = Below(less) /\ r.calls = less
  BY <1>10 DEF Becomes, Floor, Below
<1>12. less \in Seq(Calls(n)) /\ Below(less) \in Nat /\ Len(less) \in Nat /\ x \in Levels
  <2>1. Len(calls) > 0
    BY <1>4, <1>5, BelowType
  <2>2. less \in Seq(Calls(n)) /\ Last(calls) \in Calls(n)
    BY <1>5, <2>1, SplitLast DEF less
  <2>3. back \in 1..n + 1 /\ n \in Nat
    BY <2>2, LenProperties DEF Calls, back
  <2>4. back - 1 \in 0..n
    BY <2>3
  <2>5. QED
    BY <2>2, <2>4, BelowType DEF Levelling
<1>13. m.height = Below(less) + x.height
  <2> DEFINE a == x.height
             b == Below(less)
  <2>1. a \in Nat /\ b \in Nat /\ a + b = m.height
    BY <1>6, <1>7, <1>12 DEF Levels
  <2> HIDE DEF a, b
  <2>2. a + b = b + a
    BY <2>1
  <2>3. QED
    BY <2>1, <2>2 DEF a, b
<1>14. Locals(m.lf, Len(less) + x.frames)
  <2>1. Len(calls) + 0 = Len(calls) /\ Len(less) + x.frames = Len(calls)
    BY <1>7, <1>12
  <2>2. QED
    BY <1>6, <2>1
<1>15. Fitting(r, x, at, inside) /\ Among(r, inside) /\ r.pc = back /\ r.fault = "none"
  <2> HIDE DEF x, calls
  <2>1. r.pc = back /\ r.height = m.height /\ r.lf = m.lf /\ r.fault = "none" /\ Shaped(r)
    BY <1>6, <1>10 DEF Becomes
  <2>2. Fitting(r, x, at, inside)
    BY <1>7, <1>11, <1>13, <1>14, <2>1 DEF Fitting
  <2>3. Among(r, inside)
    BY <1>7, <1>11, <2>1 DEF Among
  <2>4. QED
    BY <2>1, <2>2, <2>3
<1>16. QED
  BY <1>8, <1>15 DEF Settled, Stands

\* An instruction that takes from the stack or leaves on it, and goes on.
LEMMA LevelSettled ==
  ASSUME NEW code \in Seq(Instructions), NEW at, NEW inside, Levelling(code, at, inside),
         NEW k \in 1..Len(code), code[k].op \notin {"JUMP", "RETURN"},
         at[k].frames = at[k - 1].frames,
         NEW m, Machine(m, Len(code)), m.pc = k, Fitting(m, at[k - 1], at, inside),
         Among(m, inside), NEW r, r = [m EXCEPT !.height = Floor(m) + at[k].height]
  PROVE  /\ Settled(Advance(r), at, inside)
         /\ \A o \in Targets : \A v : Settled(Storing(r, o, v), at, inside)
<1> DEFINE x == at[k - 1]
           y == at[k]
           n == Len(code)
<1>1. n \in Nat /\ k \in 0..n /\ k - 1 \in 0..n
  BY LenProperties
<1>2. x \in Levels /\ y \in Levels
  BY <1>1 DEF Levelling
<1>3. m.calls \in Seq(Calls(n))
  BY DEF Machine
<1>4. Floor(m) \in Nat /\ Len(m.calls) \in Nat
  BY <1>3, BelowType DEF Floor, Below
<1>5. Fitting(r, y, at, inside) /\ r.pc = m.pc /\ r.calls = m.calls
  BY <1>2, <1>4, HeightFits
<1>6. Among(r, inside) /\ Len(r.calls) \in Nat
  BY <1>4, <1>5 DEF Among
<1> HIDE DEF x, n
<1>7. QED
  BY <1>5, <1>6, StoreSettled

\* A frame more or less, and on.
LEMMA FrameSettled ==
  ASSUME NEW code \in Seq(Instructions), NEW at, NEW inside, Levelling(code, at, inside),
         NEW k \in 1..Len(code), code[k].op \notin {"JUMP", "RETURN"},
         at[k].height = at[k - 1].height,
         NEW m, Machine(m, Len(code)), m.pc = k, Fitting(m, at[k - 1], at, inside),
         Among(m, inside),
         NEW lf, Locals(lf, Len(m.calls) + at[k].frames), NEW tf, NEW r, Reframed(m, r, lf, tf)
  PROVE  Settled(Advance(r), at, inside)
<1> DEFINE x == at[k - 1]
           y == at[k]
           n == Len(code)
<1>1. n \in Nat /\ k \in 0..n /\ k - 1 \in 0..n
  BY LenProperties
<1>2. x \in Levels /\ y \in Levels
  BY <1>1 DEF Levelling
<1>3. m.calls \in Seq(Calls(n))
  BY DEF Machine
<1>4. Len(m.calls) \in Nat
  BY <1>3, BelowType
<1>5. Fitting(r, y, at, inside) /\ r.pc = m.pc /\ r.calls = m.calls
  BY <1>2, FramesFit
<1>6. Among(r, inside) /\ Len(r.calls) \in Nat
  BY <1>4, <1>5 DEF Among
<1> HIDE DEF x, n
<1>7. QED
  BY <1>5, <1>6, StoreSettled

\* One instruction, whatever it is.
LEMMA RunSettled ==
  ASSUME NEW code \in Seq(Instructions), NEW at, NEW inside, Levelling(code, at, inside),
         NEW m, Machine(m, Len(code)), m.fault = "none", ~Finished(m, code),
         Stands(m, at, inside), NEW r \in Executions(m, code)
  PROVE  Settled(r, at, inside)
<1> DEFINE n == Len(code)
           k == m.pc
           i == code[k]
           x == at[k - 1]
           y == at[k]
           floor == Floor(m)
           calls == m.calls
           count == Len(calls)
<1>1. n \in Nat /\ DOMAIN code = 1..n
  BY LenProperties
<1>2. k \in 1..n /\ k \in 0..n /\ k - 1 \in 0..n
  BY <1>1 DEF Machine, Finished
<1>3. i \in Instructions
  BY <1>1, <1>2, ElementOfSeq
<1>4. /\ i.op \in {"DEFVAR", "MOVE", "PUSHS", "POPS", "READ", "WRITE", "ADDS", "LABEL",
                   "JUMP", "JUMPIFEQS", "JUMPIFEQ", "CREATEFRAME", "PUSHFRAME",
                   "POPFRAME", "CALL", "RETURN"}
      /\ i.op \in {"DEFVAR", "MOVE", "POPS", "READ"} => i.target \in Targets
  BY <1>3 DEF Instructions
<1>5. x \in Levels /\ y \in Levels /\ Takes(i, x, y)
  BY <1>2 DEF Levelling
<1>6. calls \in Seq(Calls(n)) /\ m.height \in Nat
  BY DEF Machine
<1>7. floor \in Nat /\ count \in Nat
  BY <1>6, BelowType DEF Floor, Below
<1>8. Fitting(m, x, at, inside) /\ Among(m, inside)
  BY DEF Stands
<1>9. Shaped(m) /\ m.height = floor + x.height /\ Locals(m.lf, count + x.frames)
  BY <1>8 DEF Fitting
<1>10. x.height \in Nat /\ y.height \in Nat /\ x.frames \in Nat /\ y.frames \in Nat
  BY <1>5 DEF Levels
<1>11. /\ \A source, next :
            Settled(next, at, inside) => Settled(Reading(m, source, next), at, inside)
       /\ \A next : \A c \in Nat :
            x.height >= c /\ Settled(next, at, inside)
              => Settled(Popping(m, c, next), at, inside)
  <2>1. \A source, next :
          Settled(next, at, inside) => Settled(Reading(m, source, next), at, inside)
    BY <1>9, ReadSettled
  <2>2. \A next : \A c \in Nat : x.height >= c /\ Settled(next, at, inside)
              => Settled(Popping(m, c, next), at, inside)
    BY <1>5, <1>7, <1>8, PopSettled
  <2>3. QED
    BY <2>1, <2>2
<1>12. i.op \notin {"JUMP", "RETURN"} /\ y = x =>
          /\ Settled(Advance(m), at, inside)
          /\ \A o \in Targets : /\ Settled(Declaration(m, o), at, inside)
                                /\ \A v : Settled(Storing(m, o, v), at, inside)
  BY <1>2, <1>7, <1>8, StoreSettled
<1>13. i.op \notin {"JUMP", "RETURN"} /\ y.frames = x.frames =>
          \A h : h = floor + y.height =>
            /\ Settled(Advance([m EXCEPT !.height = h]), at, inside)
            /\ \A o \in Targets : \A v : Settled(Storing([m EXCEPT !.height = h], o, v), at, inside)
  BY <1>2, <1>8, LevelSettled
<1>14. Settled(Fail(m, "no frame"), at, inside)
  BY <1>9, FaultSettled
<1>15. CASE i.op \in Quiet
  <2>1. y = x
    BY <1>5, <1>15 DEF Takes, Quiet
  <2>2. i.op \notin {"JUMP", "RETURN"} /\ i.op # "CREATEFRAME" =>
           Settled(Advance(m), at, inside)
    BY <1>12, <1>15, <2>1 DEF Quiet
  <2>3. i.op \in {"DEFVAR", "MOVE", "READ", "WRITE"} =>
           /\ Settled(Advance(m), at, inside)
           /\ i.op # "WRITE" => /\ Settled(Declaration(m, i.target), at, inside)
                                /\ \A v : Settled(Storing(m, i.target, v), at, inside)
    BY <1>4, <1>12, <2>1
  <2>4. CASE i.op = "DEFVAR"
    <3>1. r = Declaration(m, i.target)
      BY <2>4 DEF Executions
    <3>2. QED
      BY <2>3, <2>4, <3>1
  <2>5. CASE i.op = "MOVE"
    <3>1. r = Reading(m, i.source, Storing(m, i.target, Contents(m, i.source)))
      BY <2>5 DEF Executions
    <3>2. QED
      BY <1>11, <2>3, <2>5, <3>1
  <2>6. CASE i.op = "READ"
    <3>1. r = Storing(m, i.target, "literal")
      BY <2>6 DEF Executions
    <3>2. QED
      BY <2>3, <2>6, <3>1
  <2>7. CASE i.op = "WRITE"
    <3>1. r = Reading(m, i.source, Advance(m))
      BY <2>7 DEF Executions
    <3>2. QED
      BY <1>11, <2>3, <2>7, <3>1
  <2>8. CASE i.op = "CREATEFRAME"
    <3> DEFINE lf == m.lf
               tf == <<EmptyFrame>>
               e == [m EXCEPT !.tf = tf]
    <3>1. r = Advance(e)
      BY <2>8 DEF Executions
    <3> HIDE DEF tf
    <3>2. Becomes(e, m.pc, m.height, m.lf, m.calls, m.fault)
      BY <1>9, FieldsChange
    <3> HIDE DEF e
    <3>3. Fitting(e, x, at, inside) /\ e.pc = k /\ e.calls = calls
      BY <1>8, <3>2, FittingSame DEF Becomes
    <3>4. Among(e, inside) /\ Len(e.calls) \in Nat
      BY <1>7, <1>8, <3>3 DEF Among
    <3>5. i.op \notin {"JUMP", "RETURN"}
      BY <2>8
    <3>6. Fitting(e, at[k], at, inside)
      BY <2>1, <3>3
    <3> HIDE DEF x, y, calls, floor
    <3>7. QED
      BY <1>2, <3>1, <3>3, <3>4, <3>5, <3>6, StoreSettled
  <2>9. QED
    BY <1>15, <2>4, <2>5, <2>6, <2>7, <2>8 DEF Quiet
<1>16. CASE i.op = "PUSHS"
  <2> DEFINE h == m.height + 1
  <2>1. y = Level(x.height + 1, x.frames)
    BY <1>5, <1>16 DEF Takes, Quiet
  <2>2. y.height = x.height + 1 /\ y.frames = x.frames
    BY <2>1 DEF Level
  <2>3. r = Reading(m, i.source, Advance([m EXCEPT !.height = h]))
    BY <1>16 DEF Executions
  <2>4. h = floor + y.height
    <3> HIDE DEF floor, x, y
    <3>1. QED
      BY <1>7, <1>9, <1>10, <2>2
  <2> HIDE DEF h
  <2>5. Settled(Advance([m EXCEPT !.height = h]), at, inside)
    BY <1>13, <1>16, <2>2, <2>4
  <2>6. QED
    BY <1>11, <2>3, <2>5
<1>17. CASE i.op \in {"POPS", "ADDS"}
  <2> DEFINE h == m.height - 1
             least == IF i.op = "POPS" THEN 1 ELSE 2
  <2>1. y = Level(x.height - 1, x.frames) /\ x.height >= least /\ x.height >= 1
    <3>1. i.op = "POPS" => x.height >= 1 /\ y = Level(x.height - 1, x.frames)
      BY <1>5 DEF Takes, Quiet
    <3>2. i.op = "ADDS" => x.height >= 2 /\ y = Level(x.height - 1, x.frames)
      BY <1>5 DEF Takes, Quiet
    <3>3. QED
      BY <1>10, <1>17, <3>1, <3>2
  <2>2. y.height = x.height - 1 /\ y.frames = x.frames
    BY <2>1 DEF Level
  <2>3. r = IF i.op = "POPS"
            THEN Popping(m, 1, Storing([m EXCEPT !.height = h], i.target, "literal"))
            ELSE Popping(m, 2, Advance([m EXCEPT !.height = h]))
    BY <1>17 DEF Executions
  <2>4. h = floor + y.height
    <3> HIDE DEF floor, x, y
    <3>1. QED
      BY <1>7, <1>9, <1>10, <2>1, <2>2
  <2> HIDE DEF h
  <2>5. /\ Settled(Advance([m EXCEPT !.height = h]), at, inside)
        /\ \A o \in Targets : \A v : Settled(Storing([m EXCEPT !.height = h], o, v), at, inside)
    BY <1>13, <1>17, <2>2, <2>4
  <2>6. CASE i.op = "POPS"
    <3>1. Settled(Storing([m EXCEPT !.height = h], i.target, "literal"), at, inside)
      BY <1>4, <2>5, <2>6
    <3>2. x.height >= 1 /\ 1 \in Nat
      BY <2>1
    <3>3. QED
      BY <1>11, <2>3, <2>6, <3>1, <3>2
  <2>7. CASE i.op = "ADDS"
    <3>1. x.height >= 2 /\ 2 \in Nat
      BY <2>1, <2>7
    <3>2. QED
      BY <1>11, <2>3, <2>5, <2>7, <3>1
  <2>8. QED
    BY <1>17, <2>6, <2>7
<1>18. CASE i.op = "LABEL"
  <2>1. y = x
    BY <1>5, <1>18 DEF Takes, Quiet
  <2>2. r = Advance(m)
    BY <1>18 DEF Executions
  <2>3. QED
    BY <1>12, <1>18, <2>1, <2>2
<1>19. CASE i.op = "JUMP"
  <2>1. x = Ground
    BY <1>5, <1>19 DEF Takes, Quiet
  <2>2. r = JumpTo(m, code, i.label)
    BY <1>19 DEF Executions
  <2>3. Fitting(m, Ground, at, inside)
    BY <1>8, <2>1
  <2>4. i.op \in {"JUMP", "JUMPIFEQ", "JUMPIFEQS"}
    BY <1>19
  <2> HIDE DEF x, y, floor, calls
  <2>5. QED
    BY <1>2, <1>8, <2>2, <2>3, <2>4, JumpSettled
<1>20. CASE i.op = "JUMPIFEQ"
  <2>1. x = Ground /\ y = x
    BY <1>5, <1>20 DEF Takes, Quiet
  <2>2. r = Reading(m, i.source,
              IF Contents(m, i.source) = "true" THEN JumpTo(m, code, i.label)
                                                ELSE Advance(m))
    BY <1>20 DEF Executions
  <2>3. Fitting(m, Ground, at, inside)
    BY <1>8, <2>1
  <2>4. i.op \in {"JUMP", "JUMPIFEQ", "JUMPIFEQS"}
    BY <1>20
  <2>5. Settled(Advance(m), at, inside)
    BY <1>12, <1>20, <2>1
  <2> HIDE DEF x, y, floor, calls
  <2>6. Settled(JumpTo(m, code, i.label), at, inside)
    BY <1>2, <1>8, <2>3, <2>4, JumpSettled
  <2>7. QED
    BY <1>11, <2>2, <2>5, <2>6
<1>21. CASE i.op = "JUMPIFEQS"
  <2> DEFINE h == m.height - 2
             compared == [m EXCEPT !.height = h]
  <2>1. x = Level(2, 0) /\ y = Ground
    BY <1>5, <1>21 DEF Takes, Quiet
  <2>2. x.height = 2 /\ x.frames = 0 /\ y.height = 0 /\ y.frames = 0
    BY <2>1, LevelType DEF Level
  <2>3. r = Popping(m, 2, Advance(compared)) \/ r = Popping(m, 2, JumpTo(compared, code, i.label))
    BY <1>21 DEF Executions
  <2>4. h = floor + y.height
    <3> HIDE DEF floor, x, y
    <3>1. QED
      BY <1>7, <1>9, <2>2
  <2> HIDE DEF h
  <2>5. Settled(Advance(compared), at, inside)
    BY <1>13, <1>21, <2>2, <2>4
  <2>6. Fitting(compared, y, at, inside) /\ compared.pc = m.pc /\ compared.calls = m.calls
    <3>1. y.frames = x.frames /\ compared = [m EXCEPT !.height = Floor(m) + y.height]
      BY <2>2, <2>4
    <3> HIDE DEF compared, x, y
    <3>2. QED
      BY <1>5, <1>7, <1>8, <3>1, HeightFits
  <2>7. Among(compared, inside)
    BY <1>8, <2>6 DEF Among
  <2>8. i.op \in {"JUMP", "JUMPIFEQ", "JUMPIFEQS"}
    BY <1>21
  <2>9. Fitting(compared, Ground, at, inside) /\ compared.pc = k
    BY <2>1, <2>6
  <2> HIDE DEF x, y, floor, calls, compared
  <2>10. Settled(JumpTo(compared, code, i.label), at, inside)
    BY <1>2, <2>7, <2>8, <2>9, JumpSettled
  <2>11. x.height >= 2 /\ 2 \in Nat
    BY <2>2
  <2>12. QED
    BY <1>11, <2>3, <2>5, <2>10, <2>11
<1>22. CASE i.op = "PUSHFRAME"
  <2> DEFINE lf == Append(m.lf, m.tf[1])
             tf == << >>
             e == [m EXCEPT !.lf = lf, !.tf = tf]
  <2>1. r = Fail(m, "no frame") \/ r = Advance(e)
    BY <1>22 DEF Executions
  <2>2. x.frames = 0 /\ y = Level(x.height, 1)
    BY <1>5, <1>22 DEF Takes, Quiet
  <2>3. y.height = x.height /\ y.frames = 1
    BY <2>2 DEF Level
  <2>4. count + x.frames = count
    BY <1>7, <2>2
  <2>5. Locals(lf, count + 1)
    BY <1>7, <1>9, <2>4, LocalsChange
  <2> HIDE DEF lf, tf
  <2>6. Reframed(m, e, lf, tf)
    BY DEF Reframed
  <2>7. i.op \notin {"JUMP", "RETURN"} /\ Locals(lf, count + y.frames)
    BY <1>22, <2>3, <2>5
  <2> HIDE DEF e
  <2>8. Settled(Advance(e), at, inside)
    BY <1>2, <1>8, <2>3, <2>6, <2>7, FrameSettled
  <2>9. QED
    BY <1>14, <2>1, <2>8
<1>23. CASE i.op = "POPFRAME"
  <2> DEFINE lf == Front(m.lf)
             tf == <<Last(m.lf)>>
             e == [m EXCEPT !.lf = lf, !.tf = tf]
  <2>1. r = Fail(m, "no frame") \/ r = Advance(e)
    BY <1>23 DEF Executions
  <2>2. x.frames = 1 /\ y = Level(x.height, 0)
    BY <1>5, <1>23 DEF Takes, Quiet
  <2>3. y.height = x.height /\ y.frames = 0
    BY <2>2 DEF Level
  <2>4. count + 1 > 0 /\ count + 1 - 1 = count + 0 /\ count + 1 \in Nat
    BY <1>7
  <2>5. Locals(m.lf, count + 1)
    BY <1>9, <2>2
  <2>6. Locals(lf, count + 1 - 1)
    BY <2>4, <2>5, LocalsChange
  <2> HIDE DEF lf, tf
  <2>7. Reframed(m, e, lf, tf)
    BY DEF Reframed
  <2>8. i.op \notin {"JUMP", "RETURN"} /\ Locals(lf, count + y.frames)
    BY <1>23, <2>3, <2>4, <2>6
  <2> HIDE DEF e
  <2>9. Settled(Advance(e), at, inside)
    BY <1>2, <1>8, <2>3, <2>7, <2>8, FrameSettled
  <2>10. QED
    BY <1>14, <2>1, <2>9
<1>24. CASE i.op = "CALL"
  <2>1. r = Calling(m, code, i.label)
    BY <1>24 DEF Executions
  <2>2. QED
    BY <1>2, <1>8, <1>24, <2>1, CallSettled
<1>25. CASE i.op = "RETURN"
  <2>1. r = Returning(m)
    BY <1>25 DEF Executions
  <2>2. QED
    BY <1>2, <1>8, <1>25, <2>1, ReturnSettled
<1>26. QED
  BY <1>4, <1>15, <1>16, <1>17, <1>18, <1>19, <1>20, <1>21, <1>22, <1>23, <1>24, <1>25
     DEF Quiet

\* Before a program is accepted its machine has not begun; then the machine
\* stands where the levels of the code say.
MachineStands ==
  /\ MachineInvariant
  /\ part = "parsed" => \E at, inside : /\ Levelling(Code, at, inside)
                                        /\ Settled(machine, at, inside)

LEMMA StartStands ==
  ASSUME NEW code \in Seq(Instructions), NEW at, NEW inside, Levelling(code, at, inside)
  PROVE  Settled(StartMachine, at, inside)
<1> DEFINE m == StartMachine
<1>1. /\ m.pc = 1 /\ m.calls = << >> /\ m.lf = << >> /\ m.height = 0 /\ m.fault = "none"
      /\ Shaped(m)
  BY DEF StartMachine, Shaped
<1>2. at[0] = Ground /\ 1 \notin inside
  BY DEF Levelling
<1>3. Locals(<< >>, 0)
  BY LocalsChange
<1> HIDE DEF m
<1>4. Floor(m) = 0 /\ Ground.height = 0 /\ Ground.frames = 0 /\ Len(m.calls) = 0
  BY <1>1, LevelType DEF Floor
<1>5. CallsFit(m.calls, at, inside)
  BY <1>1, <1>4 DEF CallsFit
<1>6. m.height = Floor(m) + Ground.height /\ Locals(m.lf, Len(m.calls) + Ground.frames)
  BY <1>1, <1>3, <1>4
<1>7. Fitting(m, Ground, at, inside)
  BY <1>1, <1>5, <1>6 DEF Fitting
<1>8. at[m.pc - 1] = Ground
  BY <1>1, <1>2
<1>9. QED
  BY <1>1, <1>2, <1>7, <1>8 DEF Settled, Stands, Among, m

LEMMA EndStands ==
  ASSUME NEW code \in Seq(Instructions), NEW at, NEW inside, Levelling(code, at, inside),
         NEW m, Machine(m, Len(code)), m.fault = "none", Finished(m, code),
         Settled(m, at, inside)
  PROVE  m.height = 0 /\ m.calls = << >> /\ m.lf = << >>
<1> DEFINE n == Len(code)
<1>1. n \in Nat
  BY LenProperties
<1>2. m.pc = n + 1
  BY <1>1 DEF Machine, Finished
<1>3. m.pc \notin inside /\ at[m.pc - 1] = Ground
  <2>1. m.pc \notin 1..n /\ m.pc - 1 = n
    BY <1>1, <1>2
  <2>2. QED
    BY <2>1 DEF Levelling
<1>4. Fitting(m, Ground, at, inside) /\ m.calls = << >>
  BY <1>3 DEF Settled, Stands, Among
<1>5. Floor(m) = 0 /\ Ground.height = 0 /\ Ground.frames = 0 /\ Len(m.calls) = 0
  BY <1>4, LevelType DEF Floor
<1>6. m.height = 0 /\ Locals(m.lf, 0)
  BY <1>4, <1>5 DEF Fitting
<1>7. QED
  BY <1>4, <1>6, LocalsChange

LEMMA MachineStandsHolds == Spec => []MachineStands
<1>1. Init /\ ParserInvariant => MachineStands
  <2> SUFFICES ASSUME Init, ParserInvariant PROVE MachineStands
    OBVIOUS
  <2>1. MachineInvariant
    BY MachineBegins
  <2>2. part # "parsed"
    BY DEF Init, ParserInit
  <2>3. QED
    BY <2>1, <2>2 DEF MachineStands
<1>2. TidyInvariant /\ MachineStands /\ [Next]_vars /\ TidyInvariant' => MachineStands'
  <2> SUFFICES ASSUME TidyInvariant, MachineStands, [Next]_vars, TidyInvariant'
               PROVE  MachineStands'
    OBVIOUS
  <2>1. ParserInvariant /\ ParserInvariant' /\ MachineInvariant
    BY DEF TidyInvariant, MachineStands
  <2>2. MachineInvariant'
    BY <2>1, MachineSteps
  <2>3. Code \in Seq(Instructions) /\ Code' \in Seq(Instructions)
    BY <2>1, ConstructorFields DEF ParserInvariant, ParserTypes, Code
  <2>4. CASE Parse
    <3>1. part # "parsed" /\ machine' = StartMachine
      BY <2>1, <2>4 DEF Parse, ParserNext, MachineInvariant
    <3>2. ASSUME part' = "parsed"
          PROVE  \E at, inside : Levelling(Code', at, inside) /\ Settled(machine', at, inside)
      <4>1. PICK at, inside : Levelling(Code', at, inside)
        BY <3>2 DEF TidyInvariant, Levelled
      <4>2. Settled(machine', at, inside)
        BY <2>3, <3>1, <4>1, StartStands
      <4>3. QED
        BY <4>1, <4>2
    <3>3. QED
      BY <2>2, <3>2 DEF MachineStands
  <2>5. CASE Run
    <3>1. /\ part = "parsed" /\ part' = part /\ Code' = Code
          /\ ~Finished(machine, Code) /\ machine' \in Executions(machine, Code)
          /\ machine.fault = "none"
      BY <2>5 DEF Run, parser, Code
    <3>2. PICK at, inside : Levelling(Code, at, inside) /\ Settled(machine, at, inside)
      BY <3>1 DEF MachineStands
    <3>3. Machine(machine, Len(Code)) /\ Stands(machine, at, inside)
      BY <2>1, <3>1, <3>2 DEF MachineInvariant, Settled
    <3>4. Settled(machine', at, inside)
      BY <2>3, <3>1, <3>2, <3>3, RunSettled
    <3>5. \E a, i : Levelling(Code', a, i) /\ Settled(machine', a, i)
      BY <3>1, <3>2, <3>4
    <3>6. QED
      BY <2>2, <3>5 DEF MachineStands
  <2>6. CASE UNCHANGED vars
    <3>1. machine' = machine /\ part' = part /\ Code' = Code
      BY <2>6 DEF vars, parser, Code
    <3>2. QED
      BY <2>2, <3>1 DEF MachineStands
  <2>7. QED
    BY <2>4, <2>5, <2>6 DEF Next
<1>3. TidyInvariant => ParserInvariant
  BY DEF TidyInvariant
<1>4. QED
  BY <1>1, <1>2, <1>3, TidyHolds, PTL DEF Spec

\* Of every program: no instruction misses its operands on the stack, no
\* function takes what its caller left there or returns with more or less than
\* its value, and nothing is left at the end.
THEOREM StackIsKept == Spec => []StackDiscipline
<1>1. TidyInvariant /\ MachineStands => StackDiscipline
  <2> SUFFICES ASSUME TidyInvariant, MachineStands PROVE StackDiscipline
    OBVIOUS
  <2>1. ParserInvariant /\ MachineInvariant
    BY DEF TidyInvariant, MachineStands
  <2>2. Code \in Seq(Instructions) /\ Machine(machine, Len(Code))
    BY <2>1, ConstructorFields DEF ParserInvariant, ParserTypes, Code, MachineInvariant
  <2>3. CASE part # "parsed"
    BY <2>1, <2>3 DEF MachineInvariant, StartMachine, StackDiscipline
  <2>4. CASE part = "parsed"
    <3>1. PICK at, inside : Levelling(Code, at, inside) /\ Settled(machine, at, inside)
      BY <2>4 DEF MachineStands
    <3>2. machine.fault \notin {"stack", "return"}
      BY <3>1 DEF Settled
    <3>3. machine.fault = "none" /\ Finished(machine, Code) =>
            machine.height = 0 /\ machine.calls = << >> /\ machine.lf = << >>
      BY <2>2, <3>1, EndStands
    <3>4. QED
      BY <3>2, <3>3 DEF StackDiscipline
  <2>5. QED
    BY <2>3, <2>4
<1>2. QED
  BY <1>1, TidyHolds, MachineStandsHolds, PTL
=============================================================================
