------------------------ MODULE CodeConstructorProofs ------------------------
(***************************************************************************)
(* Lemmas about the constructor of code and the rules of expressions: what *)
(* each operator does to the labels a list of instructions places and      *)
(* mentions, to the stacks of labels and to the types of all of them.      *)
(***************************************************************************)
EXTENDS ExpressionRules, ScopeStackProofs

-----------------------------------------------------------------------------
(* Types. *)

Cells == [id : Identities, flag : BOOLEAN]

Operands == [frame : {"GF", "LF", "TF", "literal", "false", "true", "nothing"},
             cell : Cells]

\* What an instruction may write to.
Targets == {o \in Operands : o.frame \in {"GF", "LF", "TF"}}

Labels == [number : Nat, depth : Int,
           type : {"none", "function", "declared", "if_end", "if_else",
                   "while_start", "while_end", "main_scope"},
           function : Names \cup {NoName}]

Instructions ==
  {i \in [op : {"DEFVAR", "MOVE", "PUSHS", "POPS", "READ", "WRITE", "ADDS", "LABEL",
                "JUMP", "JUMPIFEQS", "JUMPIFEQ", "CREATEFRAME", "PUSHFRAME",
                "POPFRAME", "CALL", "RETURN"},
          target : Operands, source : Operands, label : Labels] :
     i.op \in {"DEFVAR", "MOVE", "POPS", "READ"} => i.target \in Targets}

Constructors ==
  [main : Seq(Instructions), buffer : Seq(Instructions), to_buffer : BOOLEAN,
   label_counter : Nat, control_statement_depth : Int, scope_depth : Int,
   code_labels : Seq(Labels), conditions : Seq(Labels), loops : Seq(Labels),
   loops_depth : Int, loops_initial : Labels]

LEMMA OperandTypes ==
  /\ NoCell \in Cells
  /\ {Literal, False, True, Nothing, Temporary} \subseteq Operands
  /\ Temporary \in Targets /\ Targets \subseteq Operands
  /\ \A v \in Variable, f \in Names \cup {NoName} : FlagOf(v, f) \in Targets
  /\ \A v \in Variable : \A frames : VariableOperand(v, frames) \in Targets
<1>1. Identity(NoVariable) \in Identities
  BY DEF Identity, NoVariable, Identities
<1>2. NoCell \in Cells
  BY <1>1 DEF NoCell, Cell, Cells
<1>3. /\ {Literal, False, True, Nothing, Temporary} \subseteq Operands
      /\ Temporary \in Targets /\ Targets \subseteq Operands
  BY <1>2 DEF Literal, False, True, Nothing, Temporary, Operand, Operands, Targets
<1>4. ASSUME NEW v \in Variable, NEW f \in Names \cup {NoName}
      PROVE  FlagOf(v, f) \in Targets
  BY DEF FlagOf, Operand, Operands, Targets, Cell, Cells, Identities, Variable
<1>5. ASSUME NEW v \in Variable, NEW frames
      PROVE  VariableOperand(v, frames) \in Targets
  BY IdentityType DEF VariableOperand, Operand, Operands, Targets, Cell, Cells
<1>6. QED
  BY <1>2, <1>3, <1>4, <1>5

LEMMA LabelTypes ==
  /\ NoLabel \in Labels
  /\ \A f \in Names :
       /\ FunctionLabel(f) \in Labels /\ FunctionLabel(f) # NoLabel
       /\ FunctionLabel(f).type = "function"
  /\ \A f, g \in Names : FunctionLabel(f) = FunctionLabel(g) => f = g
<1>1. NoLabel \in Labels
  BY DEF NoLabel, Labels
<1>2. ASSUME NEW f \in Names
      PROVE  /\ FunctionLabel(f) = [number |-> 0, depth |-> 0,
                                    type |-> "function", function |-> f]
             /\ FunctionLabel(f).type = "function"
             /\ FunctionLabel(f) \in Labels /\ FunctionLabel(f) # NoLabel
  <2> DEFINE typed == [NoLabel EXCEPT !.type = "function"]
  <2>1. typed = [number |-> 0, depth |-> 0, type |-> "function", function |-> NoName]
    BY DEF NoLabel
  <2> HIDE DEF typed
  <2>2. FunctionLabel(f) = [typed EXCEPT !.function = f]
    BY DEF FunctionLabel, typed
  <2>3. FunctionLabel(f) = [number |-> 0, depth |-> 0, type |-> "function",
                            function |-> f]
    BY <2>1, <2>2
  <2>4. QED
    BY <2>3 DEF NoLabel, Labels
<1>3. ASSUME NEW f \in Names, NEW g \in Names, FunctionLabel(f) = FunctionLabel(g)
      PROVE  f = g
  <2>1. FunctionLabel(f).function = f /\ FunctionLabel(g).function = g
    BY <1>2
  <2>2. QED
    BY <1>3, <2>1
<1>4. QED
  BY <1>1, <1>2, <1>3

LEMMA InstructionTypes ==
  ASSUME NEW o \in Targets, NEW p \in Operands, NEW l \in Labels
  PROVE  /\ {DefVar(o), Move(o, p), PushS(p), PopS(o), Read(o), Write(p),
             AtLabel(l), Jump(l), JumpIfEqualS(l), JumpIfTrue(l, p)}
               \subseteq Instructions
         /\ \A op \in {"ADDS", "CREATEFRAME", "PUSHFRAME", "POPFRAME", "RETURN"} :
              Plain(op) \in Instructions
         /\ \A f \in Names : Call(f) \in Instructions
<1>1. Nothing \in Operands /\ NoLabel \in Labels /\ o \in Operands
      /\ \A f \in Names : FunctionLabel(f) \in Labels
  BY OperandTypes, LabelTypes
<1>2. QED
  BY <1>1 DEF DefVar, Move, PushS, PopS, Read, Write, AtLabel, Jump,
              JumpIfEqualS, JumpIfTrue, Plain, Call, Instruction, Instructions

-----------------------------------------------------------------------------
(* The labels of a list of instructions. *)

PlacedIn(code) == {l \in Labels : \E i \in DOMAIN code : code[i] = AtLabel(l)}

MentionedIn(code) == {code[i].label : i \in DOMAIN code} \ {NoLabel}

PlacedOnce(code) ==
  \A i, j \in DOMAIN code, l \in Labels :
    code[i] = AtLabel(l) /\ code[j] = AtLabel(l) => i = j

LEMMA ConcatLabels ==
  ASSUME NEW a \in Seq(Instructions), NEW b \in Seq(Instructions)
  PROVE  /\ a \o b \in Seq(Instructions)
         /\ PlacedIn(a \o b) = PlacedIn(a) \cup PlacedIn(b)
         /\ MentionedIn(a \o b) = MentionedIn(a) \cup MentionedIn(b)
         /\ PlacedOnce(a \o b) <=>
              /\ PlacedOnce(a) /\ PlacedOnce(b)
              /\ PlacedIn(a) \cap PlacedIn(b) = {}
<1> DEFINE c == a \o b
<1>1. /\ c \in Seq(Instructions) /\ Len(c) = Len(a) + Len(b)
      /\ DOMAIN c = 1..Len(c) /\ DOMAIN a = 1..Len(a) /\ DOMAIN b = 1..Len(b)
      /\ Len(a) \in Nat /\ Len(b) \in Nat
      /\ \A i \in 1..Len(c) :
           c[i] = IF i <= Len(a) THEN a[i] ELSE b[i - Len(a)]
  BY ConcatProperties, LenProperties
<1> HIDE DEF c
<1>2. \A i \in DOMAIN c : \/ i \in DOMAIN a /\ c[i] = a[i]
                          \/ i - Len(a) \in DOMAIN b /\ c[i] = b[i - Len(a)]
  BY <1>1
<1>3. \A i \in DOMAIN a : i \in DOMAIN c /\ c[i] = a[i]
  BY <1>1
<1>4. \A i \in DOMAIN b : i + Len(a) \in DOMAIN c /\ c[i + Len(a)] = b[i]
  BY <1>1
<1>5. PlacedIn(c) = PlacedIn(a) \cup PlacedIn(b)
  BY <1>2, <1>3, <1>4 DEF PlacedIn
<1>6. MentionedIn(c) = MentionedIn(a) \cup MentionedIn(b)
  <2>1. ASSUME NEW l \in MentionedIn(c) PROVE l \in MentionedIn(a) \cup MentionedIn(b)
    BY <1>2 DEF MentionedIn
  <2>2. ASSUME NEW l \in MentionedIn(a) PROVE l \in MentionedIn(c)
    BY <1>3 DEF MentionedIn
  <2>3. ASSUME NEW l \in MentionedIn(b) PROVE l \in MentionedIn(c)
    BY <1>4 DEF MentionedIn
  <2>4. QED
    BY <2>1, <2>2, <2>3
<1>7. ASSUME PlacedOnce(a), PlacedOnce(b), PlacedIn(a) \cap PlacedIn(b) = {}
      PROVE  PlacedOnce(c)
  <2> SUFFICES ASSUME NEW i \in DOMAIN c, NEW j \in DOMAIN c, NEW l \in Labels,
                      c[i] = AtLabel(l), c[j] = AtLabel(l)
               PROVE  i = j
    BY DEF PlacedOnce
  <2>1. CASE i \in DOMAIN a /\ c[i] = a[i] /\ j \in DOMAIN a /\ c[j] = a[j]
    BY <2>1, <1>7 DEF PlacedOnce
  <2>2. CASE /\ i - Len(a) \in DOMAIN b /\ c[i] = b[i - Len(a)]
             /\ j - Len(a) \in DOMAIN b /\ c[j] = b[j - Len(a)]
    <3>1. i - Len(a) = j - Len(a)
      BY <2>2, <1>7 DEF PlacedOnce
    <3>2. QED
      BY <3>1, <1>1
  <2>3. ~ (\E m \in DOMAIN a, n \in DOMAIN b : a[m] = AtLabel(l) /\ b[n] = AtLabel(l))
    BY <1>7 DEF PlacedIn
  <2>4. QED
    BY <2>1, <2>2, <2>3, <1>2
<1>8. ASSUME PlacedOnce(c)
      PROVE  PlacedOnce(a) /\ PlacedOnce(b) /\ PlacedIn(a) \cap PlacedIn(b) = {}
  <2>1. PlacedOnce(a)
    BY <1>3, <1>8 DEF PlacedOnce
  <2>2. PlacedOnce(b)
    <3> SUFFICES ASSUME NEW i \in DOMAIN b, NEW j \in DOMAIN b, NEW l \in Labels,
                        b[i] = AtLabel(l), b[j] = AtLabel(l)
                 PROVE  i = j
      BY DEF PlacedOnce
    <3>1. i + Len(a) = j + Len(a)
      BY <1>4, <1>8 DEF PlacedOnce
    <3>2. QED
      BY <3>1, <1>1
  <2>3. ASSUME NEW l \in PlacedIn(a), l \in PlacedIn(b) PROVE FALSE
    <3>1. PICK i \in DOMAIN a : a[i] = AtLabel(l)
      BY DEF PlacedIn
    <3>2. PICK j \in DOMAIN b : b[j] = AtLabel(l)
      BY <2>3 DEF PlacedIn
    <3>3. i = j + Len(a)
      BY <3>1, <3>2, <1>3, <1>4, <1>8 DEF PlacedOnce, PlacedIn
    <3>4. QED
      BY <3>3, <1>1
  <2>4. QED
    BY <2>1, <2>2, <2>3
<1>9. QED
  BY <1>1, <1>5, <1>6, <1>7, <1>8 DEF c

\* Instructions that are no labels place none.
LEMMA NothingPlaced ==
  ASSUME NEW code \in Seq(Instructions),
         \A i \in DOMAIN code : code[i].op # "LABEL"
  PROVE  PlacedIn(code) = {} /\ PlacedOnce(code)
<1>1. \A l : AtLabel(l).op = "LABEL"
  BY DEF AtLabel, Instruction
<1>2. QED
  BY <1>1 DEF PlacedIn, PlacedOnce

LEMMA SingleLabels ==
  ASSUME NEW i \in Instructions
  PROVE  /\ <<i>> \in Seq(Instructions) /\ PlacedOnce(<<i>>)
         /\ MentionedIn(<<i>>) = {i.label} \ {NoLabel}
         /\ i.op # "LABEL" => PlacedIn(<<i>>) = {}
         /\ \A l \in Labels : i = AtLabel(l) => PlacedIn(<<i>>) = {l}
<1>1. DOMAIN <<i>> = {1} /\ <<i>>[1] = i
  OBVIOUS
<1>2. \A l : AtLabel(l).op = "LABEL" /\ AtLabel(l).label = l
  BY DEF AtLabel, Instruction
<1>3. MentionedIn(<<i>>) = {i.label} \ {NoLabel}
  BY <1>1 DEF MentionedIn
<1>4. PlacedIn(<<i>>) = {l \in Labels : i = AtLabel(l)}
  BY <1>1 DEF PlacedIn
<1>5. PlacedOnce(<<i>>)
  BY <1>1 DEF PlacedOnce
<1>6. QED
  BY <1>2, <1>3, <1>4, <1>5

\* A list read from its places.
Keeps(a, b) == \A l \in Labels : (\E i \in 2..Len(a) : a[i] = AtLabel(l))
                              => (\E i \in 2..Len(b) : b[i] = AtLabel(l))

\* An instruction that mentions no label, before the place of one.
LEMMA BeforeLabel ==
  ASSUME NEW code \in Seq(Instructions), NEW label \in Labels,
         NEW i \in Instructions, i.op # "LABEL", i.label = NoLabel,
         label \in PlacedIn(code)
  PROVE  /\ Before(code, label, i) \in Seq(Instructions)
         /\ Len(Before(code, label, i)) = Len(code) + 1
         /\ PlacedIn(Before(code, label, i)) = PlacedIn(code)
         /\ MentionedIn(Before(code, label, i)) = MentionedIn(code)
         /\ PlacedOnce(code) => PlacedOnce(Before(code, label, i))
         /\ Keeps(code, Before(code, label, i))
<1> DEFINE at == CHOOSE k \in DOMAIN code : code[k] = AtLabel(label)
           x == SubSeq(code, 1, at - 1)
           y == SubSeq(code, at, Len(code))
           one == <<i>>
           z == x \o one
<1>1. at \in 1..Len(code) /\ Len(code) \in Nat /\ DOMAIN code = 1..Len(code)
  BY DEF PlacedIn
<1>2. Before(code, label, i) = z \o y
  BY DEF Before, InsertAt
<1> HIDE DEF at
<1>3. /\ x \in Seq(Instructions) /\ Len(x) = at - 1
      /\ y \in Seq(Instructions) /\ Len(y) = Len(code) - at + 1
      /\ \A k \in 1..at - 1 : x[k] = code[k]
      /\ \A k \in 1..Len(code) - at + 1 : y[k] = code[at + k - 1]
  BY <1>1, SubSeqProperties
<1>4. /\ one \in Seq(Instructions) /\ PlacedOnce(one) /\ Len(one) = 1
      /\ MentionedIn(one) = {} /\ PlacedIn(one) = {}
  BY SingleLabels
<1> HIDE DEF x, y, one
<1>5. /\ x \in Seq(Instructions) /\ y \in Seq(Instructions)
      /\ one \in Seq(Instructions) /\ Len(one) = 1
  BY <1>3, <1>4
<1>6. /\ z \in Seq(Instructions) /\ Len(z) = Len(x) + 1
      /\ \A k \in 1..Len(x) + 1 : z[k] = IF k <= Len(x) THEN x[k] ELSE one[k - Len(x)]
  BY SMTT(90), <1>5, ConcatProperties
<1>7. /\ PlacedIn(z) = PlacedIn(x) /\ MentionedIn(z) = MentionedIn(x)
      /\ PlacedOnce(z) <=> PlacedOnce(x)
  <2>1. /\ PlacedIn(z) = PlacedIn(x) \cup PlacedIn(one)
        /\ MentionedIn(z) = MentionedIn(x) \cup MentionedIn(one)
        /\ PlacedOnce(z) <=>
             /\ PlacedOnce(x) /\ PlacedOnce(one)
             /\ PlacedIn(x) \cap PlacedIn(one) = {}
    BY <1>5, ConcatLabels
  <2>2. QED
    BY <1>4, <2>1
<1> HIDE DEF z
<1>8. code = x \o y
  <2>1. /\ x \o y \in Seq(Instructions) /\ Len(x \o y) = Len(x) + Len(y)
        /\ \A k \in 1..Len(x) + Len(y) :
             (x \o y)[k] = IF k <= Len(x) THEN x[k] ELSE y[k - Len(x)]
    BY <1>5, ConcatProperties
  <2>2. ASSUME NEW k \in 1..Len(code) PROVE (x \o y)[k] = code[k]
    <3>1. CASE k <= at - 1
      BY <3>1, <1>1, <1>3, <2>1
    <3>2. CASE ~ (k <= at - 1)
      <4>1. k - (at - 1) \in 1..Len(code) - at + 1 /\ at + (k - (at - 1)) - 1 = k
        BY <3>2, <1>1
      <4>2. (x \o y)[k] = y[k - (at - 1)]
        BY <3>2, <1>1, <1>3, <2>1
      <4>3. y[k - (at - 1)] = code[k]
        BY <4>1, <1>3
      <4>4. QED
        BY <4>2, <4>3
    <3>3. QED
      BY <3>1, <3>2
  <2>3. Len(x \o y) = Len(code) /\ x \o y \in Seq(Instructions)
    BY <1>1, <1>3, <2>1
  <2>4. QED
    BY <2>2, <2>3, SeqEqual
<1>9. /\ z \o y \in Seq(Instructions)
      /\ PlacedIn(z \o y) = PlacedIn(code)
      /\ MentionedIn(z \o y) = MentionedIn(code)
      /\ PlacedOnce(z \o y) <=> PlacedOnce(code)
  <2>1. z \in Seq(Instructions)
    BY <1>6
  <2>2. /\ z \o y \in Seq(Instructions)
        /\ PlacedIn(z \o y) = PlacedIn(z) \cup PlacedIn(y)
        /\ MentionedIn(z \o y) = MentionedIn(z) \cup MentionedIn(y)
        /\ PlacedOnce(z \o y) <=>
             /\ PlacedOnce(z) /\ PlacedOnce(y)
             /\ PlacedIn(z) \cap PlacedIn(y) = {}
    BY <1>5, <2>1, ConcatLabels
  <2>3. /\ PlacedIn(x \o y) = PlacedIn(x) \cup PlacedIn(y)
        /\ MentionedIn(x \o y) = MentionedIn(x) \cup MentionedIn(y)
        /\ PlacedOnce(x \o y) <=>
             /\ PlacedOnce(x) /\ PlacedOnce(y)
             /\ PlacedIn(x) \cap PlacedIn(y) = {}
    BY <1>5, ConcatLabels
  <2>4. QED
    BY <2>2, <2>3, <1>7, <1>8
<1>10. /\ Len(z \o y) = Len(code) + 1
       /\ \A k \in 1..Len(code) :
            (z \o y)[IF k < at THEN k ELSE k + 1] = code[k]
  <2>1. Len(z) = at /\ \A k \in 1..at - 1 : z[k] = code[k]
    BY <1>1, <1>3, <1>6
  <2>2. /\ Len(z \o y) = Len(z) + Len(y)
        /\ \A k \in 1..Len(z) + Len(y) :
             (z \o y)[k] = IF k <= Len(z) THEN z[k] ELSE y[k - Len(z)]
    <3>1. z \in Seq(Instructions)
      BY <1>6
    <3>2. QED
      BY <1>5, <3>1, ConcatProperties
  <2>3. ASSUME NEW k \in 1..Len(code)
        PROVE  (z \o y)[IF k < at THEN k ELSE k + 1] = code[k]
    <3>1. CASE k < at
      BY <3>1, <1>1, <1>3, <2>1, <2>2
    <3>2. CASE ~ (k < at)
      <4>1. /\ k + 1 \in 1..Len(code) + 1 /\ ~ (k + 1 <= at)
            /\ k + 1 - at \in 1..Len(code) - at + 1 /\ at + (k + 1 - at) - 1 = k
        BY <3>2, <1>1
      <4>2. (z \o y)[k + 1] = y[k + 1 - at]
        <5>1. Len(z) = at /\ Len(z) + Len(y) = Len(code) + 1
          BY <1>1, <1>3, <2>1
        <5>2. k + 1 \in 1..Len(z) + Len(y) /\ ~ (k + 1 <= Len(z))
          BY <4>1, <5>1
        <5>3. (z \o y)[k + 1] = IF k + 1 <= Len(z) THEN z[k + 1] ELSE y[k + 1 - Len(z)]
          BY <2>2, <5>2
        <5>4. QED
          BY <5>1, <5>2, <5>3
      <4>3. y[k + 1 - at] = code[k]
        BY <4>1, <1>3
      <4>4. QED
        BY <4>2, <4>3, <3>2
    <3>3. QED
      BY <3>1, <3>2
  <2>4. Len(z \o y) = Len(code) + 1
    BY <1>1, <1>3, <2>1, <2>2
  <2>5. QED
    BY <2>3, <2>4
<1>11. Keeps(code, z \o y)
  <2> SUFFICES ASSUME NEW l \in Labels, NEW k \in 2..Len(code), code[k] = AtLabel(l)
               PROVE  \E j \in 2..Len(z \o y) : (z \o y)[j] = AtLabel(l)
    BY DEF Keeps
  <2>1. /\ k \in 1..Len(code)
        /\ (IF k < at THEN k ELSE k + 1) \in 2..Len(code) + 1
    BY <1>1
  <2>2. QED
    BY <1>10, <2>1
<1>12. QED
  BY <1>2, <1>9, <1>10, <1>11

-----------------------------------------------------------------------------
(* What an operator on constructors does to the labels of its two lists.   *)

Writing(c) == IF c.to_buffer THEN c.buffer ELSE c.main

Placed(c) == PlacedIn(c.main) \cup PlacedIn(c.buffer)

Mentioned(c) == MentionedIn(c.main) \cup MentionedIn(c.buffer)

AllPlacedOnce(c) ==
  /\ PlacedOnce(c.main) /\ PlacedOnce(c.buffer)
  /\ PlacedIn(c.main) \cap PlacedIn(c.buffer) = {}

\* A place to insert before: not the first of the list being written.
HasPlace(c, l) == \E i \in 2..Len(Writing(c)) : Writing(c)[i] = AtLabel(l)

\* From c to r: the same list is written on, and what is new in the lists
\* places "placed" and mentions no label outside "mentioned".
Grows(c, r, placed, mentioned) ==
  /\ r \in Constructors
  /\ r.to_buffer = c.to_buffer
  /\ Len(r.main) >= Len(c.main) /\ Len(r.buffer) >= Len(c.buffer)
  /\ Placed(r) = Placed(c) \cup placed
  /\ Mentioned(r) \subseteq Mentioned(c) \cup mentioned
  /\ AllPlacedOnce(c) /\ placed \cap Placed(c) = {} => AllPlacedOnce(r)
  /\ \A l \in Labels : HasPlace(c, l) => HasPlace(r, l)

SameStacks(c, r) ==
  /\ r.label_counter = c.label_counter
  /\ r.control_statement_depth = c.control_statement_depth
  /\ r.scope_depth = c.scope_depth
  /\ r.code_labels = c.code_labels
  /\ r.conditions = c.conditions
  /\ r.loops = c.loops
  /\ r.loops_depth = c.loops_depth
  /\ r.loops_initial = c.loops_initial

\* One list is replaced by another, the rest of the constructor stays.
LEMMA WithMain ==
  ASSUME NEW c \in Constructors, NEW list \in Seq(Instructions),
         NEW r, r = [c EXCEPT !.main = list]
  PROVE  /\ r \in Constructors /\ SameStacks(c, r)
         /\ r.main = list /\ r.buffer = c.buffer /\ r.to_buffer = c.to_buffer
BY DEF Constructors, SameStacks

LEMMA WithBuffer ==
  ASSUME NEW c \in Constructors, NEW list \in Seq(Instructions),
         NEW r, r = [c EXCEPT !.buffer = list]
  PROVE  /\ r \in Constructors /\ SameStacks(c, r)
         /\ r.buffer = list /\ r.main = c.main /\ r.to_buffer = c.to_buffer
BY DEF Constructors, SameStacks

LEMMA ConstructorFields ==
  ASSUME NEW c \in Constructors
  PROVE  /\ c.main \in Seq(Instructions) /\ c.buffer \in Seq(Instructions)
         /\ c.to_buffer \in BOOLEAN /\ c.label_counter \in Nat
         /\ c.control_statement_depth \in Int /\ c.scope_depth \in Int
         /\ c.code_labels \in Seq(Labels) /\ c.conditions \in Seq(Labels)
         /\ c.loops \in Seq(Labels) /\ c.loops_depth \in Int
         /\ c.loops_initial \in Labels
         /\ Writing(c) \in Seq(Instructions)
BY DEF Constructors, Writing

LEMMA KeepsWhenAppended ==
  ASSUME NEW a \in Seq(Instructions), NEW b \in Seq(Instructions)
  PROVE  Keeps(a, a \o b) /\ Len(a \o b) >= Len(a)
<1>1. /\ Len(a \o b) = Len(a) + Len(b) /\ Len(a) \in Nat /\ Len(b) \in Nat
      /\ \A k \in 1..Len(a) : (a \o b)[k] = a[k]
  BY ConcatProperties, LenProperties
<1>2. \A k \in 2..Len(a) : k \in 2..Len(a \o b) /\ k \in 1..Len(a)
  BY <1>1
<1>3. QED
  BY <1>1, <1>2 DEF Keeps

LEMMA EmitEffect ==
  ASSUME NEW c \in Constructors, NEW chunk \in Seq(Instructions), PlacedOnce(chunk),
         NEW r, r = Emit(c, chunk)
  PROVE  Grows(c, r, PlacedIn(chunk), MentionedIn(chunk)) /\ SameStacks(c, r)
<1>1. c.main \in Seq(Instructions) /\ c.buffer \in Seq(Instructions)
      /\ c.to_buffer \in BOOLEAN
  BY ConstructorFields
<1> DEFINE joined == Writing(c) \o chunk
<1>2. /\ joined \in Seq(Instructions)
      /\ PlacedIn(joined) = PlacedIn(Writing(c)) \cup PlacedIn(chunk)
      /\ MentionedIn(joined) = MentionedIn(Writing(c)) \cup MentionedIn(chunk)
      /\ PlacedOnce(joined) <=>
           /\ PlacedOnce(Writing(c)) /\ PlacedOnce(chunk)
           /\ PlacedIn(Writing(c)) \cap PlacedIn(chunk) = {}
  BY ConstructorFields, ConcatLabels
<1>3. Keeps(Writing(c), joined) /\ Len(joined) >= Len(Writing(c))
  BY ConstructorFields, KeepsWhenAppended
<1>4. Len(c.main) \in Nat /\ Len(c.buffer) \in Nat
  BY <1>1
<1>5. CASE c.to_buffer
  <2>1. r = [c EXCEPT !.buffer = joined] /\ Writing(c) = c.buffer
    BY <1>5 DEF Emit, Writing
  <2> HIDE DEF joined
  <2>2. /\ r \in Constructors /\ SameStacks(c, r)
        /\ r.buffer = joined /\ r.main = c.main /\ r.to_buffer = c.to_buffer
    BY <1>2, <2>1, WithBuffer
  <2>3. Writing(r) = joined
    BY <1>5, <2>2 DEF Writing
  <2>4. \A l \in Labels : HasPlace(c, l) => HasPlace(r, l)
    BY <1>3, <2>3 DEF HasPlace, Keeps
  <2>5. /\ Placed(r) = Placed(c) \cup PlacedIn(chunk)
        /\ Mentioned(r) = Mentioned(c) \cup MentionedIn(chunk)
    BY <1>2, <2>1, <2>2 DEF Placed, Mentioned
  <2>6. ASSUME AllPlacedOnce(c), PlacedIn(chunk) \cap Placed(c) = {}
        PROVE  AllPlacedOnce(r)
    BY <1>2, <2>1, <2>2, <2>6 DEF AllPlacedOnce, Placed
  <2>7. QED
    BY <1>3, <1>4, <2>1, <2>2, <2>4, <2>5, <2>6 DEF Grows
<1>6. CASE ~c.to_buffer
  <2>1. r = [c EXCEPT !.main = joined] /\ Writing(c) = c.main
    BY <1>6 DEF Emit, Writing
  <2> HIDE DEF joined
  <2>2. /\ r \in Constructors /\ SameStacks(c, r)
        /\ r.main = joined /\ r.buffer = c.buffer /\ r.to_buffer = c.to_buffer
    BY <1>2, <2>1, WithMain
  <2>3. Writing(r) = joined
    BY <1>6, <2>2 DEF Writing
  <2>4. \A l \in Labels : HasPlace(c, l) => HasPlace(r, l)
    BY <1>3, <2>3 DEF HasPlace, Keeps
  <2>5. /\ Placed(r) = Placed(c) \cup PlacedIn(chunk)
        /\ Mentioned(r) = Mentioned(c) \cup MentionedIn(chunk)
    BY <1>2, <2>1, <2>2 DEF Placed, Mentioned
  <2>6. ASSUME AllPlacedOnce(c), PlacedIn(chunk) \cap Placed(c) = {}
        PROVE  AllPlacedOnce(r)
    BY <1>2, <2>1, <2>2, <2>6 DEF AllPlacedOnce, Placed
  <2>7. QED
    BY <1>3, <1>4, <2>1, <2>2, <2>4, <2>5, <2>6, SMTT(90) DEF Grows
<1>7. QED
  BY <1>1, <1>5, <1>6

LEMMA SameLists ==
  ASSUME NEW c \in Constructors, NEW r \in Constructors,
         r.main = c.main, r.buffer = c.buffer, r.to_buffer = c.to_buffer
  PROVE  Grows(c, r, {}, {})
<1>1. Len(c.main) \in Nat /\ Len(c.buffer) \in Nat
  BY ConstructorFields
<1>2. Writing(r) = Writing(c)
  BY DEF Writing
<1>3. QED
  BY <1>1, <1>2 DEF Grows, Placed, Mentioned, AllPlacedOnce, HasPlace

LEMMA GrowsOn ==
  ASSUME NEW c \in Constructors, NEW d, NEW r, NEW p, NEW q, NEW m, NEW n,
         Grows(c, d, p, m), Grows(d, r, q, n), p \cap q = {}
  PROVE  Grows(c, r, p \cup q, m \cup n)
<1>1. /\ d \in Constructors /\ r \in Constructors
      /\ r.to_buffer = c.to_buffer
      /\ \A l \in Labels : HasPlace(c, l) => HasPlace(r, l)
  BY DEF Grows
<1>2. /\ Placed(r) = Placed(c) \cup (p \cup q)
      /\ Mentioned(r) \subseteq Mentioned(c) \cup (m \cup n)
  BY DEF Grows
<1>3. ASSUME AllPlacedOnce(c), (p \cup q) \cap Placed(c) = {}
      PROVE  AllPlacedOnce(r)
  BY <1>3 DEF Grows
<1>4. Len(r.main) >= Len(c.main) /\ Len(r.buffer) >= Len(c.buffer)
  <2>1. /\ Len(c.main) \in Nat /\ Len(d.main) \in Nat /\ Len(r.main) \in Nat
        /\ Len(c.buffer) \in Nat /\ Len(d.buffer) \in Nat /\ Len(r.buffer) \in Nat
    BY SMTT(90), <1>1, ConstructorFields
  <2>2. QED
    BY <2>1 DEF Grows
<1>5. QED
  BY <1>1, <1>2, <1>3, <1>4 DEF Grows

LEMMA SameStacksOn ==
  ASSUME NEW c, NEW d, NEW r, SameStacks(c, d), SameStacks(d, r)
  PROVE  SameStacks(c, r)
BY DEF SameStacks

-----------------------------------------------------------------------------
(* Statements: code without labels of its own, and the stacks stay.        *)

Statement(c, r, mentioned) == Grows(c, r, {}, mentioned) /\ SameStacks(c, r)

Unlabelled == {i \in Instructions : i.op # "LABEL" /\ i.label = NoLabel}

LEMMA StatementOn ==
  ASSUME NEW c \in Constructors, NEW d, NEW r, NEW m, NEW n,
         Statement(c, d, m), Statement(d, r, n)
  PROVE  Statement(c, r, m \cup n)
<1>1. Grows(c, r, {} \cup {}, m \cup n)
  BY GrowsOn DEF Statement
<1>2. SameStacks(c, r)
  BY SameStacksOn DEF Statement
<1>3. QED
  BY <1>1, <1>2 DEF Statement

LEMMA EmitStatement ==
  ASSUME NEW c \in Constructors, NEW chunk \in Seq(Instructions),
         \A i \in DOMAIN chunk : chunk[i].op # "LABEL"
  PROVE  Statement(c, Emit(c, chunk), MentionedIn(chunk))
<1>1. PlacedIn(chunk) = {} /\ PlacedOnce(chunk)
  BY NothingPlaced
<1>2. QED
  BY <1>1, EmitEffect DEF Statement

LEMMA EmitUnlabelled ==
  ASSUME NEW c \in Constructors, NEW chunk \in Seq(Unlabelled)
  PROVE  Statement(c, Emit(c, chunk), {})
<1>1. \A i \in DOMAIN chunk : chunk[i] \in Unlabelled
  OBVIOUS
<1>2. chunk \in Seq(Instructions)
  BY SeqMonotonic DEF Unlabelled
<1>3. \A i \in DOMAIN chunk : chunk[i].op # "LABEL" /\ chunk[i].label = NoLabel
  BY <1>1 DEF Unlabelled
<1>4. MentionedIn(chunk) = {}
  BY <1>3 DEF MentionedIn
<1>5. QED
  BY <1>2, <1>3, <1>4, EmitStatement

LEMMA InsertEffect ==
  ASSUME NEW c \in Constructors, NEW l \in Labels, l = NoLabel \/ l \in Placed(c),
         NEW i \in Unlabelled, NEW r, r = InsertBefore(c, l, i)
  PROVE  Statement(c, r, {})
<1>1. /\ c.main \in Seq(Instructions) /\ c.buffer \in Seq(Instructions)
      /\ c.to_buffer \in BOOLEAN
  BY ConstructorFields
<1>2. Len(c.main) \in Nat /\ Len(c.buffer) \in Nat
  BY <1>1
<1>3. i \in Instructions /\ i.op # "LABEL" /\ i.label = NoLabel
  BY DEF Unlabelled
<1>4. ASSUME NEW list \in Seq(Instructions), r = [c EXCEPT !.main = list],
             PlacedIn(list) = PlacedIn(c.main), MentionedIn(list) = MentionedIn(c.main),
             PlacedOnce(c.main) => PlacedOnce(list), Keeps(c.main, list),
             Len(list) >= Len(c.main)
      PROVE  Statement(c, r, {})
  <2>1. /\ r \in Constructors /\ SameStacks(c, r)
        /\ r.main = list /\ r.buffer = c.buffer /\ r.to_buffer = c.to_buffer
    BY <1>4, WithMain
  <2>2. \A l_2 \in Labels : HasPlace(c, l_2) => HasPlace(r, l_2)
    BY <1>4, <2>1 DEF HasPlace, Keeps, Writing
  <2>3. /\ Placed(r) = Placed(c) /\ Mentioned(r) = Mentioned(c)
        /\ AllPlacedOnce(c) => AllPlacedOnce(r)
    BY <1>4, <2>1 DEF Placed, Mentioned, AllPlacedOnce
  <2>4. QED
    BY <1>2, <1>4, <2>1, <2>2, <2>3 DEF Grows, Statement
<1>5. ASSUME NEW list \in Seq(Instructions), r = [c EXCEPT !.buffer = list],
             PlacedIn(list) = PlacedIn(c.buffer),
             MentionedIn(list) = MentionedIn(c.buffer),
             PlacedOnce(c.buffer) => PlacedOnce(list), Keeps(c.buffer, list),
             Len(list) >= Len(c.buffer)
      PROVE  Statement(c, r, {})
  <2>1. /\ r \in Constructors /\ SameStacks(c, r)
        /\ r.buffer = list /\ r.main = c.main /\ r.to_buffer = c.to_buffer
    BY <1>5, WithBuffer
  <2>2. \A l_2 \in Labels : HasPlace(c, l_2) => HasPlace(r, l_2)
    BY <1>5, <2>1 DEF HasPlace, Keeps, Writing
  <2>3. /\ Placed(r) = Placed(c) /\ Mentioned(r) = Mentioned(c)
        /\ AllPlacedOnce(c) => AllPlacedOnce(r)
    BY <1>5, <2>1 DEF Placed, Mentioned, AllPlacedOnce
  <2>4. QED
    BY <1>2, <1>5, <2>1, <2>2, <2>3 DEF Grows, Statement
<1>6. CASE l = NoLabel
  <2> DEFINE one == <<i>>
             list == one \o c.main
  <2>1. /\ one \in Seq(Instructions) /\ PlacedOnce(one)
        /\ MentionedIn(one) = {} /\ PlacedIn(one) = {}
    BY <1>3, SingleLabels
  <2>2. one \in Seq(Instructions) /\ Len(one) = 1
    BY <1>3
  <2>3. r = [c EXCEPT !.main = list]
    BY <1>6 DEF InsertBefore
  <2> HIDE DEF one
  <2>4. /\ list \in Seq(Instructions)
        /\ PlacedIn(list) = PlacedIn(one) \cup PlacedIn(c.main)
        /\ MentionedIn(list) = MentionedIn(one) \cup MentionedIn(c.main)
        /\ PlacedOnce(list) <=>
             /\ PlacedOnce(one) /\ PlacedOnce(c.main)
             /\ PlacedIn(one) \cap PlacedIn(c.main) = {}
    BY <1>1, <2>2, ConcatLabels
  <2>5. /\ Len(list) = Len(one) + Len(c.main)
        /\ \A k \in 1..Len(one) + Len(c.main) :
             list[k] = IF k <= Len(one) THEN one[k] ELSE c.main[k - Len(one)]
    BY <1>1, <2>2, ConcatProperties
  <2> HIDE DEF list
  <2>6. Keeps(c.main, list)
    <3> SUFFICES ASSUME NEW l_2 \in Labels, NEW k \in 2..Len(c.main),
                        c.main[k] = AtLabel(l_2)
                 PROVE  \E j \in 2..Len(list) : list[j] = AtLabel(l_2)
      BY DEF Keeps
    <3>1. k + 1 \in 2..Len(list) /\ list[k + 1] = c.main[k]
      BY SMTT(90), <1>2, <2>2, <2>5
    <3>2. QED
      BY <3>1
  <2>7. Len(list) >= Len(c.main)
    BY <1>2, <2>2, <2>5
  <2>8. QED
    BY <1>4, <2>1, <2>3, <2>4, <2>6, <2>7
<1>7. CASE l # NoLabel /\ Contains(c.buffer, AtLabel(l))
  <2>1. r = [c EXCEPT !.buffer = Before(c.buffer, l, i)]
    BY <1>7 DEF InsertBefore
  <2>2. l \in PlacedIn(c.buffer)
    BY <1>1, <1>7 DEF PlacedIn, Contains
  <2>3. /\ Before(c.buffer, l, i) \in Seq(Instructions)
        /\ Len(Before(c.buffer, l, i)) = Len(c.buffer) + 1
        /\ PlacedIn(Before(c.buffer, l, i)) = PlacedIn(c.buffer)
        /\ MentionedIn(Before(c.buffer, l, i)) = MentionedIn(c.buffer)
        /\ PlacedOnce(c.buffer) => PlacedOnce(Before(c.buffer, l, i))
        /\ Keeps(c.buffer, Before(c.buffer, l, i))
    BY <1>1, <1>3, <2>2, BeforeLabel
  <2>4. Len(Before(c.buffer, l, i)) >= Len(c.buffer)
    BY <1>2, <2>3
  <2>5. QED
    BY <1>5, <2>1, <2>3, <2>4
<1>8. CASE l # NoLabel /\ ~Contains(c.buffer, AtLabel(l))
  <2>1. r = [c EXCEPT !.main = Before(c.main, l, i)]
    BY <1>8 DEF InsertBefore
  <2>2. l \in PlacedIn(c.main)
    BY <1>1, <1>8 DEF Placed, PlacedIn, Contains
  <2>3. /\ Before(c.main, l, i) \in Seq(Instructions)
        /\ Len(Before(c.main, l, i)) = Len(c.main) + 1
        /\ PlacedIn(Before(c.main, l, i)) = PlacedIn(c.main)
        /\ MentionedIn(Before(c.main, l, i)) = MentionedIn(c.main)
        /\ PlacedOnce(c.main) => PlacedOnce(Before(c.main, l, i))
        /\ Keeps(c.main, Before(c.main, l, i))
    BY <1>1, <1>3, <2>2, BeforeLabel
  <2>4. Len(Before(c.main, l, i)) >= Len(c.main)
    BY <1>2, <2>3
  <2>5. QED
    BY <1>4, <2>1, <2>3, <2>4
<1>9. QED
  BY <1>6, <1>7, <1>8

\* The simple operators of code_constructor.c.
LEMMA UnlabelledInstructions ==
  ASSUME NEW o \in Targets, NEW p \in Operands
  PROVE  /\ {DefVar(o), Move(o, p), PushS(p), PopS(o), Read(o), Write(p),
             Plain("RETURN")} \subseteq Unlabelled
         /\ \A a \in Unlabelled : <<a>> \in Seq(Unlabelled)
         /\ \A a, b \in Unlabelled : <<a, b>> \in Seq(Unlabelled)
<1>1. {DefVar(o), Move(o, p), PushS(p), PopS(o), Read(o), Write(p), Plain("RETURN")}
        \subseteq Instructions
  BY InstructionTypes, LabelTypes
<1>2. QED
  BY <1>1 DEF Unlabelled, DefVar, Move, PushS, PopS, Read, Write, Plain, Instruction

LEMMA DeclarationStatement ==
  ASSUME NEW c \in Constructors, NEW o \in Targets,
         c.loops_initial = NoLabel \/ c.loops_initial \in Placed(c)
  PROVE  /\ Statement(c, VariableDeclaration(c, o), {})
         /\ Statement(c, SharedVariableDeclaration(c, o), {})
<1>1. DefVar(o) \in Unlabelled /\ Move(o, Literal) \in Unlabelled
  BY OperandTypes, UnlabelledInstructions
<1> DEFINE defined == IF c.loops_initial = NoLabel
                      THEN Emit(c, <<DefVar(o)>>)
                      ELSE InsertBefore(c, c.loops_initial, DefVar(o))
<1>2. Statement(c, defined, {})
  <2>1. CASE c.loops_initial = NoLabel
    <3>1. <<DefVar(o)>> \in Seq(Unlabelled)
      BY <1>1
    <3>2. QED
      BY <2>1, <3>1, EmitUnlabelled
  <2>2. CASE c.loops_initial # NoLabel
    BY <1>1, <2>2, ConstructorFields, InsertEffect
  <2>3. QED
    BY <2>1, <2>2
<1>3. VariableDeclaration(c, o) = Emit(defined, <<Move(o, Literal)>>)
  BY DEF VariableDeclaration
<1> HIDE DEF defined
<1>4. defined \in Constructors
  BY <1>2 DEF Statement, Grows
<1>5. Statement(defined, Emit(defined, <<Move(o, Literal)>>), {})
  <2>1. <<Move(o, Literal)>> \in Seq(Unlabelled)
    BY <1>1
  <2>2. QED
    BY <1>4, <2>1, EmitUnlabelled
<1>6. Statement(c, VariableDeclaration(c, o), {} \cup {})
  BY <1>2, <1>3, <1>5, StatementOn
<1>7. Statement(c, SharedVariableDeclaration(c, o), {})
  <2>1. <<DefVar(o), Move(o, Literal)>> \in Seq(Unlabelled)
    BY <1>1
  <2>2. QED
    BY <2>1, EmitUnlabelled DEF SharedVariableDeclaration
<1>8. QED
  BY <1>6, <1>7

LEMMA SimpleStatements ==
  ASSUME NEW c \in Constructors, NEW o \in Targets
  PROVE  /\ Statement(c, Assignment(c, o), {})
         /\ Statement(c, Input(c, o), {})
         /\ Statement(c, PrintExpression(c), {})
         /\ Statement(c, Return(c), {})
<1>1. /\ PopS(o) \in Unlabelled /\ Read(o) \in Unlabelled
      /\ Write(Literal) \in Unlabelled /\ PopS(Temporary) \in Unlabelled
      /\ Write(Temporary) \in Unlabelled /\ Plain("RETURN") \in Unlabelled
  BY OperandTypes, UnlabelledInstructions
<1>2. /\ <<PopS(o)>> \in Seq(Unlabelled)
      /\ <<Write(Literal), Read(o)>> \in Seq(Unlabelled)
      /\ <<PopS(Temporary), Write(Temporary)>> \in Seq(Unlabelled)
      /\ <<Plain("RETURN")>> \in Seq(Unlabelled)
  BY <1>1
<1>3. QED
  BY <1>2, EmitUnlabelled DEF Assignment, Input, PrintExpression, Return

-----------------------------------------------------------------------------
(* Operators that take labels. *)

LEMMA LabelType ==
  ASSUME NEW c \in Constructors,
         NEW type \in {"declared", "if_end", "if_else", "while_start", "while_end",
                       "main_scope"}
  PROVE  /\ Label(c, type) \in Labels
         /\ Label(c, type).type = type /\ Label(c, type).number = c.label_counter
BY DEF Label, Labels, Constructors

\* The chunks the operators emit.
LEMMA LabelChunks ==
  ASSUME NEW k \in Labels, NEW l \in Labels
  PROVE  /\ <<PushS(False), JumpIfEqualS(l)>> \in Seq(Instructions)
         /\ PlacedIn(<<PushS(False), JumpIfEqualS(l)>>) = {}
         /\ PlacedOnce(<<PushS(False), JumpIfEqualS(l)>>)
         /\ MentionedIn(<<PushS(False), JumpIfEqualS(l)>>) \subseteq {l}
         /\ <<Jump(k), AtLabel(l)>> \in Seq(Instructions)
         /\ PlacedIn(<<Jump(k), AtLabel(l)>>) = {l}
         /\ PlacedOnce(<<Jump(k), AtLabel(l)>>)
         /\ MentionedIn(<<Jump(k), AtLabel(l)>>) \subseteq {k, l}
         /\ <<AtLabel(k), AtLabel(l)>> \in Seq(Instructions)
         /\ PlacedIn(<<AtLabel(k), AtLabel(l)>>) = {k, l}
         /\ k # l => PlacedOnce(<<AtLabel(k), AtLabel(l)>>)
         /\ MentionedIn(<<AtLabel(k), AtLabel(l)>>) \subseteq {k, l}
<1>1. /\ {PushS(False), JumpIfEqualS(l), Jump(k), AtLabel(k), AtLabel(l)}
           \subseteq Instructions
  BY OperandTypes, InstructionTypes
<1>2. /\ PushS(False).op # "LABEL" /\ PushS(False).label = NoLabel
      /\ JumpIfEqualS(l).op # "LABEL" /\ JumpIfEqualS(l).label = l
      /\ Jump(k).op # "LABEL" /\ Jump(k).label = k
      /\ \A m : AtLabel(m).op = "LABEL" /\ AtLabel(m).label = m
  BY DEF PushS, JumpIfEqualS, Jump, AtLabel, Instruction
<1>3. ASSUME NEW a \in Instructions, NEW b \in Instructions, a.op # "LABEL"
      PROVE  /\ <<a, b>> \in Seq(Instructions)
             /\ PlacedIn(<<a, b>>) = {m \in Labels : b = AtLabel(m)}
             /\ PlacedOnce(<<a, b>>)
             /\ MentionedIn(<<a, b>>) = {a.label, b.label} \ {NoLabel}
  <2>1. DOMAIN <<a, b>> = {1, 2} /\ <<a, b>>[1] = a /\ <<a, b>>[2] = b
    OBVIOUS
  <2>2. \A m : a # AtLabel(m)
    BY <1>2, <1>3
  <2>3. QED
    BY <2>1, <2>2 DEF PlacedIn, PlacedOnce, MentionedIn
<1>4. /\ <<AtLabel(k), AtLabel(l)>> \in Seq(Instructions)
      /\ PlacedIn(<<AtLabel(k), AtLabel(l)>>) = {k, l}
      /\ k # l => PlacedOnce(<<AtLabel(k), AtLabel(l)>>)
      /\ MentionedIn(<<AtLabel(k), AtLabel(l)>>) \subseteq {k, l}
  <2> DEFINE s == <<AtLabel(k), AtLabel(l)>>
  <2>1. DOMAIN s = {1, 2} /\ s[1] = AtLabel(k) /\ s[2] = AtLabel(l)
        /\ s \in Seq(Instructions)
    BY <1>1
  <2> HIDE DEF s
  <2>2. \A m, n : AtLabel(m) = AtLabel(n) => m = n
    BY <1>2
  <2>3. PlacedIn(s) = {k, l} /\ MentionedIn(s) \subseteq {k, l}
    BY <1>2, <2>1, <2>2 DEF PlacedIn, MentionedIn
  <2>4. k # l => PlacedOnce(s)
    BY <2>1, <2>2 DEF PlacedOnce
  <2>5. QED
    BY <2>1, <2>3, <2>4 DEF s
<1>5. QED
  BY <1>1, <1>2, <1>3, <1>4

\* A constructor with another stack, counter or depth; its lists stay.
LEMMA WithConditions ==
  ASSUME NEW c \in Constructors, NEW stack \in Seq(Labels),
         NEW r, r = [c EXCEPT !.conditions = stack]
  PROVE  /\ Grows(c, r, {}, {})
         /\ r.label_counter = c.label_counter
         /\ r.control_statement_depth = c.control_statement_depth
         /\ r.scope_depth = c.scope_depth /\ r.code_labels = c.code_labels
         /\ r.conditions = stack /\ r.loops = c.loops
         /\ r.loops_depth = c.loops_depth /\ r.loops_initial = c.loops_initial
<1>1. /\ r \in Constructors /\ r.main = c.main /\ r.buffer = c.buffer
      /\ r.to_buffer = c.to_buffer
  BY DEF Constructors
<1>2. QED
  BY <1>1, SameLists DEF Constructors

LEMMA WithLoops ==
  ASSUME NEW c \in Constructors, NEW stack \in Seq(Labels),
         NEW r, r = [c EXCEPT !.loops = stack]
  PROVE  /\ Grows(c, r, {}, {})
         /\ r.label_counter = c.label_counter
         /\ r.control_statement_depth = c.control_statement_depth
         /\ r.scope_depth = c.scope_depth /\ r.code_labels = c.code_labels
         /\ r.conditions = c.conditions /\ r.loops = stack
         /\ r.loops_depth = c.loops_depth /\ r.loops_initial = c.loops_initial
<1>1. /\ r \in Constructors /\ r.main = c.main /\ r.buffer = c.buffer
      /\ r.to_buffer = c.to_buffer
  BY DEF Constructors
<1>2. QED
  BY <1>1, SameLists DEF Constructors

LEMMA WithCodeLabels ==
  ASSUME NEW c \in Constructors, NEW stack \in Seq(Labels),
         NEW r, r = [c EXCEPT !.code_labels = stack]
  PROVE  /\ Grows(c, r, {}, {})
         /\ r.label_counter = c.label_counter
         /\ r.control_statement_depth = c.control_statement_depth
         /\ r.scope_depth = c.scope_depth /\ r.code_labels = stack
         /\ r.conditions = c.conditions /\ r.loops = c.loops
         /\ r.loops_depth = c.loops_depth /\ r.loops_initial = c.loops_initial
<1>1. /\ r \in Constructors /\ r.main = c.main /\ r.buffer = c.buffer
      /\ r.to_buffer = c.to_buffer
  BY DEF Constructors
<1>2. QED
  BY <1>1, SameLists DEF Constructors

LEMMA WithControlDepth ==
  ASSUME NEW c \in Constructors, NEW n \in Int,
         NEW r, r = [c EXCEPT !.control_statement_depth = n]
  PROVE  /\ Grows(c, r, {}, {})
         /\ r.label_counter = c.label_counter
         /\ r.control_statement_depth = n
         /\ r.scope_depth = c.scope_depth /\ r.code_labels = c.code_labels
         /\ r.conditions = c.conditions /\ r.loops = c.loops
         /\ r.loops_depth = c.loops_depth /\ r.loops_initial = c.loops_initial
<1>1. /\ r \in Constructors /\ r.main = c.main /\ r.buffer = c.buffer
      /\ r.to_buffer = c.to_buffer
  BY DEF Constructors
<1>2. QED
  BY <1>1, SameLists DEF Constructors

LEMMA WithLoopsDepth ==
  ASSUME NEW c \in Constructors, NEW n \in Int,
         NEW r, r = [c EXCEPT !.loops_depth = n]
  PROVE  /\ Grows(c, r, {}, {})
         /\ r.label_counter = c.label_counter
         /\ r.control_statement_depth = c.control_statement_depth
         /\ r.scope_depth = c.scope_depth /\ r.code_labels = c.code_labels
         /\ r.conditions = c.conditions /\ r.loops = c.loops
         /\ r.loops_depth = n /\ r.loops_initial = c.loops_initial
<1>1. /\ r \in Constructors /\ r.main = c.main /\ r.buffer = c.buffer
      /\ r.to_buffer = c.to_buffer
  BY DEF Constructors
<1>2. QED
  BY <1>1, SameLists DEF Constructors

LEMMA WithLoopsInitial ==
  ASSUME NEW c \in Constructors, NEW l \in Labels,
         NEW r, r = [c EXCEPT !.loops_initial = l]
  PROVE  /\ Grows(c, r, {}, {})
         /\ r.label_counter = c.label_counter
         /\ r.control_statement_depth = c.control_statement_depth
         /\ r.scope_depth = c.scope_depth /\ r.code_labels = c.code_labels
         /\ r.conditions = c.conditions /\ r.loops = c.loops
         /\ r.loops_depth = c.loops_depth /\ r.loops_initial = l
<1>1. /\ r \in Constructors /\ r.main = c.main /\ r.buffer = c.buffer
      /\ r.to_buffer = c.to_buffer
  BY DEF Constructors
<1>2. QED
  BY <1>1, SameLists DEF Constructors

LEMMA TakeLabelEffect ==
  ASSUME NEW c \in Constructors, NEW r, r = TakeLabel(c)
  PROVE  /\ Grows(c, r, {}, {})
         /\ r.label_counter = c.label_counter + 1
         /\ r.control_statement_depth = c.control_statement_depth
         /\ r.scope_depth = c.scope_depth /\ r.code_labels = c.code_labels
         /\ r.conditions = c.conditions /\ r.loops = c.loops
         /\ r.loops_depth = c.loops_depth /\ r.loops_initial = c.loops_initial
<1> DEFINE n == c.label_counter + 1
<1>1. n \in Nat
  BY ConstructorFields
<1>2. r = [c EXCEPT !.label_counter = n]
  BY DEF TakeLabel
<1> HIDE DEF n
<1>3. /\ r \in Constructors /\ r.main = c.main /\ r.buffer = c.buffer
      /\ r.to_buffer = c.to_buffer /\ r.label_counter = n
  BY <1>1, <1>2 DEF Constructors
<1>4. /\ r.control_statement_depth = c.control_statement_depth
      /\ r.scope_depth = c.scope_depth /\ r.code_labels = c.code_labels
      /\ r.conditions = c.conditions /\ r.loops = c.loops
      /\ r.loops_depth = c.loops_depth /\ r.loops_initial = c.loops_initial
  BY <1>2 DEF Constructors
<1>5. QED
  BY <1>3, <1>4, SameLists DEF n

Scoped(c, r, n) ==
  /\ Grows(c, r, {}, {})
  /\ r.label_counter = c.label_counter
  /\ r.control_statement_depth = c.control_statement_depth
  /\ r.scope_depth = n /\ r.code_labels = c.code_labels
  /\ r.conditions = c.conditions /\ r.loops = c.loops
  /\ r.loops_depth = c.loops_depth /\ r.loops_initial = c.loops_initial

\* code_constructor_scope_start and code_constructor_scope_end.
LEMMA ScopeEffect ==
  ASSUME NEW c \in Constructors, NEW n \in Int
  PROVE  Scoped(c, [c EXCEPT !.scope_depth = n], n)
<1> DEFINE r == [c EXCEPT !.scope_depth = n]
<1>1. /\ r \in Constructors /\ r.main = c.main /\ r.buffer = c.buffer
      /\ r.to_buffer = c.to_buffer /\ r.scope_depth = n
  BY DEF Constructors
<1>2. /\ r.label_counter = c.label_counter
      /\ r.control_statement_depth = c.control_statement_depth
      /\ r.code_labels = c.code_labels
      /\ r.conditions = c.conditions /\ r.loops = c.loops
      /\ r.loops_depth = c.loops_depth /\ r.loops_initial = c.loops_initial
  BY DEF Constructors
<1> HIDE DEF r
<1>3. Grows(c, r, {}, {})
  BY <1>1, SameLists
<1>4. Scoped(c, r, n)
  BY <1>1, <1>2, <1>3 DEF Scoped
<1>5. QED
  BY <1>4 DEF r

\* The label on top of a stack.
OneOnTop(s, below, k) == s = Append(below, k)

\* code_constructor_static_variable_declaration: the label that will be placed
\* once the initialiser has been computed.
LEMMA StaticEffect ==
  ASSUME NEW c \in Constructors, NEW o \in Targets, NEW flag \in Targets,
         NEW skip, skip = Label(c, "declared"),
         NEW r, r = StaticVariableDeclaration(c, o, flag)
  PROVE  /\ Grows(c, r, {}, {skip})
         /\ r.label_counter = c.label_counter + 1
         /\ r.control_statement_depth = c.control_statement_depth
         /\ r.scope_depth = c.scope_depth
         /\ OneOnTop(r.code_labels, c.code_labels, skip)
         /\ r.conditions = c.conditions /\ r.loops = c.loops
         /\ r.loops_depth = c.loops_depth /\ r.loops_initial = c.loops_initial
<1> DEFINE taken == TakeLabel(c)
           stack == Append(taken.code_labels, skip)
           labelled == [taken EXCEPT !.code_labels = stack]
           first == InsertBefore(labelled, NoLabel, Move(flag, False))
           flagged == InsertBefore(first, NoLabel, DefVar(flag))
           chunk == <<JumpIfTrue(skip, flag), DefVar(o), Move(o, Literal)>>
<1>1. skip \in Labels
  BY LabelType
<1>2. /\ Grows(c, taken, {}, {}) /\ taken \in Constructors
      /\ taken.label_counter = c.label_counter + 1
      /\ taken.control_statement_depth = c.control_statement_depth
      /\ taken.scope_depth = c.scope_depth /\ taken.code_labels = c.code_labels
      /\ taken.conditions = c.conditions /\ taken.loops = c.loops
      /\ taken.loops_depth = c.loops_depth /\ taken.loops_initial = c.loops_initial
  BY TakeLabelEffect DEF Grows
<1> HIDE DEF taken
<1>3. /\ stack = Append(c.code_labels, skip) /\ stack \in Seq(Labels)
      /\ Last(stack) = skip
  BY <1>1, <1>2, ConstructorFields DEF Last
<1>4. /\ Grows(taken, labelled, {}, {}) /\ labelled \in Constructors
      /\ labelled.label_counter = taken.label_counter
      /\ labelled.control_statement_depth = taken.control_statement_depth
      /\ labelled.scope_depth = taken.scope_depth
      /\ labelled.code_labels = stack
      /\ labelled.conditions = taken.conditions /\ labelled.loops = taken.loops
      /\ labelled.loops_depth = taken.loops_depth
      /\ labelled.loops_initial = taken.loops_initial
  <2> HIDE DEF stack
  <2>1. taken \in Constructors /\ stack \in Seq(Labels)
    BY <1>2, <1>3
  <2>2. labelled = [taken EXCEPT !.code_labels = stack]
    OBVIOUS
  <2> HIDE DEF labelled
  <2>3. QED
    BY <2>1, <2>2, WithCodeLabels DEF Grows
<1>5. r = Emit(flagged, <<JumpIfTrue(Last(flagged.code_labels), flag), DefVar(o),
                          Move(o, Literal)>>)
  BY DEF StaticVariableDeclaration, labelled, first, flagged, taken, HeadLabel, PushLabel
<1> HIDE DEF labelled, stack
<1>6. Statement(labelled, first, {}) /\ first \in Constructors
  <2>1. Move(flag, False) \in Unlabelled
    BY OperandTypes, UnlabelledInstructions
  <2>2. QED
    BY <1>4, <2>1, LabelTypes, InsertEffect DEF Statement, Grows
<1> HIDE DEF first
<1>7. Statement(first, flagged, {}) /\ flagged \in Constructors
  <2>1. DefVar(flag) \in Unlabelled
    BY OperandTypes, UnlabelledInstructions
  <2>2. QED
    BY <1>6, <2>1, LabelTypes, InsertEffect DEF Statement, Grows
<1> HIDE DEF flagged
<1>8. Statement(labelled, flagged, {})
  BY <1>4, <1>6, <1>7, StatementOn
<1>9. r = Emit(flagged, chunk)
  BY <1>3, <1>4, <1>5, <1>8 DEF Statement, SameStacks
<1>10. Statement(flagged, r, MentionedIn(chunk)) /\ MentionedIn(chunk) \subseteq {skip}
  <2>1. {JumpIfTrue(skip, flag), DefVar(o), Move(o, Literal)} \subseteq Instructions
    BY <1>1, OperandTypes, InstructionTypes
  <2>2. /\ JumpIfTrue(skip, flag).op # "LABEL" /\ JumpIfTrue(skip, flag).label = skip
        /\ DefVar(o).op # "LABEL" /\ DefVar(o).label = NoLabel
        /\ Move(o, Literal).op # "LABEL" /\ Move(o, Literal).label = NoLabel
    BY DEF JumpIfTrue, DefVar, Move, Instruction
  <2>3. /\ chunk \in Seq(Instructions) /\ DOMAIN chunk = 1..3
        /\ chunk[1] = JumpIfTrue(skip, flag) /\ chunk[2] = DefVar(o)
        /\ chunk[3] = Move(o, Literal)
    BY <2>1
  <2> HIDE DEF chunk
  <2>4. \A i \in DOMAIN chunk : /\ chunk[i].op # "LABEL"
                               /\ chunk[i].label \in {skip, NoLabel}
    BY <2>2, <2>3
  <2>5. MentionedIn(chunk) \subseteq {skip}
    BY <2>4 DEF MentionedIn
  <2>6. QED
    BY <1>7, <1>9, <2>3, <2>4, <2>5, EmitStatement
<1>11. Statement(labelled, r, {} \cup MentionedIn(chunk))
  BY <1>4, <1>8, <1>10, StatementOn
<1> HIDE DEF chunk
<1>12. Grows(c, labelled, {} \cup {}, {} \cup {})
  BY <1>2, <1>4, GrowsOn
<1>13. Grows(c, r, {}, {skip})
  <2>1. Grows(c, r, {} \cup {}, {} \cup MentionedIn(chunk))
    BY <1>11, <1>12, GrowsOn DEF Statement
  <2>2. QED
    BY <1>10, <2>1 DEF Grows
<1>14. SameStacks(labelled, r)
  BY <1>11 DEF Statement
<1>15. QED
  BY <1>2, <1>3, <1>4, <1>13, <1>14 DEF SameStacks, OneOnTop

\* The label of a static variable is placed, and only it leaves the stacks.
StaticClosed(c, r, below, skip) ==
  /\ Grows(c, r, {skip}, {skip})
  /\ r.label_counter = c.label_counter
  /\ r.control_statement_depth = c.control_statement_depth
  /\ r.scope_depth = c.scope_depth
  /\ r.code_labels = below
  /\ r.conditions = c.conditions /\ r.loops = c.loops
  /\ r.loops_depth = c.loops_depth /\ r.loops_initial = c.loops_initial

\* code_constructor_static_variable_declaration_end places that label.
LEMMA StaticEndEffect ==
  ASSUME NEW c \in Constructors, NEW flag \in Targets, NEW skip \in Labels,
         NEW below \in Seq(Labels), OneOnTop(c.code_labels, below, skip),
         NEW r, r = StaticVariableDeclarationEnd(c, flag)
  PROVE  StaticClosed(c, r, below, skip)
<1> DEFINE popped == [c EXCEPT !.code_labels = below]
           chunk == <<Move(flag, True), AtLabel(skip)>>
<1>1. Last(c.code_labels) = skip /\ Front(c.code_labels) = below
  BY DEF Last, Front, OneOnTop
<1>2. r = Emit(popped, chunk)
  BY <1>1 DEF StaticVariableDeclarationEnd, HeadLabel, PopLabel
<1>3. /\ Grows(c, popped, {}, {})
      /\ popped.label_counter = c.label_counter
      /\ popped.control_statement_depth = c.control_statement_depth
      /\ popped.scope_depth = c.scope_depth /\ popped.code_labels = below
      /\ popped.conditions = c.conditions /\ popped.loops = c.loops
      /\ popped.loops_depth = c.loops_depth /\ popped.loops_initial = c.loops_initial
  BY WithCodeLabels
<1> HIDE DEF popped
<1>4. popped \in Constructors
  BY <1>3 DEF Grows
<1>5. /\ chunk \in Seq(Instructions) /\ PlacedOnce(chunk) /\ PlacedIn(chunk) = {skip}
      /\ MentionedIn(chunk) \subseteq {skip}
  <2>1. Move(flag, True) \in Instructions /\ AtLabel(skip) \in Instructions
    BY OperandTypes, InstructionTypes
  <2>2. /\ Move(flag, True).op # "LABEL" /\ Move(flag, True).label = NoLabel
        /\ \A m : AtLabel(m).op = "LABEL" /\ AtLabel(m).label = m
    BY DEF Move, AtLabel, Instruction
  <2>3. /\ chunk \in Seq(Instructions) /\ DOMAIN chunk = {1, 2}
        /\ chunk[1] = Move(flag, True) /\ chunk[2] = AtLabel(skip)
    BY <2>1
  <2> HIDE DEF chunk
  <2>4. PlacedIn(chunk) = {skip} /\ MentionedIn(chunk) \subseteq {skip}
    BY <2>2, <2>3 DEF PlacedIn, MentionedIn
  <2>5. PlacedOnce(chunk)
    BY <2>2, <2>3 DEF PlacedOnce
  <2>6. QED
    BY <2>3, <2>4, <2>5
<1> HIDE DEF chunk
<1>6. Grows(popped, r, {skip}, MentionedIn(chunk)) /\ SameStacks(popped, r)
  BY <1>2, <1>4, <1>5, EmitEffect
<1>7. Grows(c, r, {} \cup {skip}, {} \cup MentionedIn(chunk))
  BY <1>3, <1>6, GrowsOn
<1>8. Grows(c, r, {skip}, {skip})
  BY <1>5, <1>7 DEF Grows
<1>9. QED
  BY <1>3, <1>6, <1>8 DEF SameStacks, StaticClosed

Branched(c, r, next) ==
  /\ Grows(c, r, {}, {next})
  /\ r.label_counter = c.label_counter + 1
  /\ r.control_statement_depth = c.control_statement_depth
  /\ r.scope_depth = c.scope_depth /\ r.code_labels = c.code_labels
  /\ r.conditions = Append(c.conditions, next) /\ r.loops = c.loops
  /\ r.loops_depth = c.loops_depth /\ r.loops_initial = c.loops_initial

\* A branch is left unless its condition holds.
LEMMA BranchEffect ==
  ASSUME NEW c \in Constructors, NEW next, next = Label(c, "if_else"),
         NEW r, r = BranchUnlessTrue(c)
  PROVE  Branched(c, r, next)
<1> DEFINE taken == TakeLabel(c)
           chunk == <<PushS(False), JumpIfEqualS(next)>>
           emitted == Emit(taken, chunk)
           stack == Append(c.conditions, next)
<1>1. next \in Labels
  BY LabelType
<1>2. /\ Grows(c, taken, {}, {})
      /\ taken.label_counter = c.label_counter + 1
      /\ taken.control_statement_depth = c.control_statement_depth
      /\ taken.scope_depth = c.scope_depth /\ taken.code_labels = c.code_labels
      /\ taken.conditions = c.conditions /\ taken.loops = c.loops
      /\ taken.loops_depth = c.loops_depth /\ taken.loops_initial = c.loops_initial
  BY TakeLabelEffect
<1>3. r = [emitted EXCEPT !.conditions = Append(emitted.conditions, next)]
  BY DEF BranchUnlessTrue, PushLabel
<1> HIDE DEF taken
<1>4. /\ chunk \in Seq(Instructions) /\ PlacedIn(chunk) = {} /\ PlacedOnce(chunk)
      /\ MentionedIn(chunk) \subseteq {next}
  BY <1>1, LabelChunks
<1> HIDE DEF chunk
<1>5. taken \in Constructors
  BY <1>2 DEF Grows
<1>6. Grows(taken, emitted, {}, MentionedIn(chunk)) /\ SameStacks(taken, emitted)
  BY <1>4, <1>5, EmitEffect
<1> HIDE DEF emitted
<1>7. emitted \in Constructors
  BY <1>6 DEF Grows
<1>8. stack \in Seq(Labels)
  BY <1>1, ConstructorFields
<1>9. r = [emitted EXCEPT !.conditions = stack]
  BY <1>2, <1>3, <1>6 DEF SameStacks
<1> HIDE DEF stack
<1>10. /\ Grows(emitted, r, {}, {})
       /\ r.label_counter = emitted.label_counter
       /\ r.control_statement_depth = emitted.control_statement_depth
       /\ r.scope_depth = emitted.scope_depth /\ r.code_labels = emitted.code_labels
       /\ r.conditions = stack /\ r.loops = emitted.loops
       /\ r.loops_depth = emitted.loops_depth
       /\ r.loops_initial = emitted.loops_initial
  BY <1>7, <1>8, <1>9, WithConditions
<1>11. Grows(c, emitted, {} \cup {}, {} \cup MentionedIn(chunk))
  BY <1>2, <1>6, GrowsOn
<1>12. Grows(c, r, ({} \cup {}) \cup {}, ({} \cup MentionedIn(chunk)) \cup {})
  BY <1>10, <1>11, GrowsOn
<1>13. Grows(c, r, {}, {next})
  BY <1>4, <1>12 DEF Grows
<1>14. QED
  BY <1>2, <1>6, <1>10, <1>13 DEF SameStacks, stack, Branched

\* A sequence is what comes before its last element, and that element.
LEMMA SplitLast ==
  ASSUME NEW S, NEW t \in Seq(S), Len(t) > 0
  PROVE  /\ Front(t) \in Seq(S) /\ Len(Front(t)) = Len(t) - 1
         /\ \A i \in 1..Len(t) - 1 : Front(t)[i] = t[i]
         /\ Last(t) \in S /\ Last(t) = t[Len(t)]
         /\ t = Append(Front(t), Last(t))
<1>1. /\ Front(t) \in Seq(S) /\ Len(Front(t)) = Len(t) - 1
      /\ \A i \in 1..Len(t) - 1 : Front(t)[i] = t[i]
  <2>1. Len(t) \in Nat /\ \A i \in 1..Len(t) - 1 : t[i] \in S
    BY LenProperties, ElementOfSeq
  <2> DEFINE n == Len(t) - 1
  <2>2. n \in Nat /\ \A i \in 1..n : t[i] \in S
    BY <2>1
  <2>3. Front(t) = SubSeq(t, 1, n)
    BY DEF Front
  <2> HIDE DEF n
  <2>4. /\ Front(t) \in Seq(S)
        /\ Len(Front(t)) = IF 1 <= n THEN n - 1 + 1 ELSE 0
        /\ \A i \in 1..n - 1 + 1 : Front(t)[i] = t[1 + i - 1]
    BY <2>2, <2>3, SubSeqProperties
  <2>5. Len(Front(t)) = n /\ \A i \in 1..n : Front(t)[i] = t[i]
    BY <2>2, <2>4
  <2>6. QED
    BY <2>4, <2>5 DEF n
<1>2. Last(t) \in S /\ Last(t) = t[Len(t)]
  BY DEF Last
<1> DEFINE f == Front(t)
           e == Last(t)
<1> HIDE DEF f, e
<1>3. /\ Append(f, e) \in Seq(S) /\ Len(Append(f, e)) = Len(t)
      /\ \A i \in 1..Len(t) : Append(f, e)[i] = t[i]
  BY <1>1, <1>2 DEF f, e
<1>4. t = Append(f, e)
  BY <1>3, SeqEqual
<1>5. QED
  BY <1>1, <1>2, <1>4 DEF f, e

\* The two labels on top of a stack.
OnTop(s, below, k, l) == s = Append(Append(below, k), l)

LEMMA TopTwo ==
  ASSUME NEW below \in Seq(Labels), NEW k \in Labels, NEW l \in Labels,
         NEW s, OnTop(s, below, k, l)
  PROVE  /\ s \in Seq(Labels) /\ Len(s) = Len(below) + 2
         /\ HeadLabel(s) = l /\ SecondLabel(s) = k
         /\ PopLabel(s) = Append(below, k) /\ Append(below, k) \in Seq(Labels)
         /\ HeadLabel(PopLabel(s)) = k /\ PopLabel(PopLabel(s)) = below
         /\ \A i \in 1..Len(below) : s[i] = below[i]
         /\ s[Len(below) + 1] = k /\ s[Len(below) + 2] = l
         /\ \A m : OnTop(PushLabel(Append(below, k), m), below, k, m)
<1> DEFINE t == Append(below, k)
<1>1. /\ t \in Seq(Labels) /\ Len(t) = Len(below) + 1 /\ t[Len(t)] = k
      /\ Front(t) = below /\ Len(below) \in Nat
      /\ \A i \in 1..Len(below) : t[i] = below[i]
      /\ \A m : OnTop(PushLabel(t, m), below, k, m)
  BY DEF Front, OnTop, PushLabel
<1> HIDE DEF t
<1>2. /\ Append(t, l) \in Seq(Labels) /\ Len(Append(t, l)) = Len(t) + 1
      /\ Append(t, l)[Len(t) + 1] = l /\ Front(Append(t, l)) = t
      /\ \A i \in 1..Len(t) : Append(t, l)[i] = t[i]
  BY <1>1 DEF Front
<1>3. s = Append(t, l)
  BY DEF t, OnTop
<1>4. /\ s \in Seq(Labels) /\ Len(s) = Len(below) + 2 /\ Last(s) = l
      /\ s[Len(s) - 1] = k /\ Front(s) = t
      /\ \A i \in 1..Len(below) : s[i] = below[i]
      /\ s[Len(below) + 1] = k /\ s[Len(below) + 2] = l
  BY <1>1, <1>2, <1>3 DEF Last
<1>5. QED
  BY <1>1, <1>4 DEF HeadLabel, SecondLabel, PopLabel, Last, t

LEMMA SplitTopTwo ==
  ASSUME NEW s \in Seq(Labels), Len(s) >= 2
  PROVE  \E below \in Seq(Labels), k, l \in Labels :
           OnTop(s, below, k, l)
<1>1. ASSUME NEW t \in Seq(Labels), Len(t) > 0
      PROVE  Front(t) \in Seq(Labels) /\ Len(Front(t)) = Len(t) - 1
             /\ Last(t) \in Labels /\ t = Append(Front(t), Last(t))
  BY <1>1, SplitLast
<1>2. Len(s) \in Nat
  OBVIOUS
<1>3. /\ Front(s) \in Seq(Labels) /\ Len(Front(s)) > 0 /\ Last(s) \in Labels
      /\ s = Append(Front(s), Last(s))
  BY <1>1, <1>2
<1>4. /\ Front(Front(s)) \in Seq(Labels) /\ Last(Front(s)) \in Labels
      /\ Front(s) = Append(Front(Front(s)), Last(Front(s)))
  BY <1>1, <1>3
<1>5. OnTop(s, Front(Front(s)), Last(Front(s)), Last(s))
  BY <1>3, <1>4 DEF OnTop
<1>6. QED
  BY <1>3, <1>4, <1>5

\* code_constructor_if_after_expression
LEMMA IfEffect ==
  ASSUME NEW c \in Constructors, NEW r, r = IfAfterExpression(c)
  PROVE  \E end, next \in Labels :
           /\ end.type = "if_end" /\ end.number = c.label_counter
           /\ next.type = "if_else" /\ next.number = c.label_counter + 1
           /\ Grows(c, r, {}, {next})
           /\ r.label_counter = c.label_counter + 2
           /\ r.control_statement_depth = c.control_statement_depth + 1
           /\ r.scope_depth = c.scope_depth /\ r.code_labels = c.code_labels
           /\ OnTop(r.conditions, c.conditions, end, next)
           /\ r.loops = c.loops
           /\ r.loops_depth = c.loops_depth /\ r.loops_initial = c.loops_initial
<1> DEFINE n == c.control_statement_depth + 1
           deeper == [c EXCEPT !.control_statement_depth = n]
           end == Label(deeper, "if_end")
           taken == TakeLabel(deeper)
           stack == Append(taken.conditions, end)
           labelled == [taken EXCEPT !.conditions = stack]
           next == Label(labelled, "if_else")
<1>1. n \in Int
  BY ConstructorFields
<1>2. r = BranchUnlessTrue(labelled)
  BY DEF IfAfterExpression, PushLabel
<1> HIDE DEF n
<1>3. /\ Grows(c, deeper, {}, {})
      /\ deeper.label_counter = c.label_counter
      /\ deeper.control_statement_depth = n
      /\ deeper.scope_depth = c.scope_depth /\ deeper.code_labels = c.code_labels
      /\ deeper.conditions = c.conditions /\ deeper.loops = c.loops
      /\ deeper.loops_depth = c.loops_depth /\ deeper.loops_initial = c.loops_initial
  BY <1>1, WithControlDepth
<1> HIDE DEF deeper
<1>4. deeper \in Constructors
  BY <1>3 DEF Grows
<1>5. end \in Labels /\ end.type = "if_end" /\ end.number = c.label_counter
  BY <1>3, <1>4, LabelType
<1> HIDE DEF end
<1>6. /\ Grows(deeper, taken, {}, {})
      /\ taken.label_counter = deeper.label_counter + 1
      /\ taken.control_statement_depth = deeper.control_statement_depth
      /\ taken.scope_depth = deeper.scope_depth
      /\ taken.code_labels = deeper.code_labels
      /\ taken.conditions = deeper.conditions /\ taken.loops = deeper.loops
      /\ taken.loops_depth = deeper.loops_depth
      /\ taken.loops_initial = deeper.loops_initial
  BY <1>4, TakeLabelEffect
<1> HIDE DEF taken
<1>7. taken \in Constructors
  BY <1>6 DEF Grows
<1>8. stack \in Seq(Labels)
  BY <1>5, <1>7, ConstructorFields
<1>9. stack = Append(c.conditions, end)
  BY <1>3, <1>6
<1> HIDE DEF stack
<1>10. /\ Grows(taken, labelled, {}, {})
       /\ labelled.label_counter = taken.label_counter
       /\ labelled.control_statement_depth = taken.control_statement_depth
       /\ labelled.scope_depth = taken.scope_depth
       /\ labelled.code_labels = taken.code_labels
       /\ labelled.conditions = stack /\ labelled.loops = taken.loops
       /\ labelled.loops_depth = taken.loops_depth
       /\ labelled.loops_initial = taken.loops_initial
  BY <1>7, <1>8, WithConditions
<1> HIDE DEF labelled
<1>11. labelled \in Constructors
  BY <1>10 DEF Grows
<1>12. next \in Labels /\ next.type = "if_else" /\ next.number = labelled.label_counter
  BY <1>11, LabelType
<1>13. /\ Grows(labelled, r, {}, {next})
       /\ r.label_counter = labelled.label_counter + 1
       /\ r.control_statement_depth = labelled.control_statement_depth
       /\ r.scope_depth = labelled.scope_depth
       /\ r.code_labels = labelled.code_labels
       /\ r.conditions = Append(labelled.conditions, next)
       /\ r.loops = labelled.loops
       /\ r.loops_depth = labelled.loops_depth
       /\ r.loops_initial = labelled.loops_initial
  BY <1>2, <1>11, BranchEffect DEF Branched
<1> HIDE DEF next
<1>14. Grows(c, taken, {} \cup {}, {} \cup {})
  BY <1>3, <1>6, GrowsOn
<1>15. Grows(c, labelled, ({} \cup {}) \cup {}, ({} \cup {}) \cup {})
  BY <1>10, <1>14, GrowsOn
<1>16. Grows(c, r, {} \cup {}, {} \cup {next})
  <2>1. Grows(c, labelled, {}, {})
    BY <1>15 DEF Grows
  <2>2. QED
    BY <1>13, <2>1, GrowsOn
<1>17. Grows(c, r, {}, {next})
  BY <1>16 DEF Grows
<1>18. /\ OnTop(r.conditions, c.conditions, end, next)
       /\ r.scope_depth = c.scope_depth /\ r.code_labels = c.code_labels
       /\ r.loops = c.loops
       /\ r.loops_depth = c.loops_depth /\ r.loops_initial = c.loops_initial
  BY <1>3, <1>6, <1>9, <1>10, <1>13 DEF OnTop
<1>19. /\ next.number = c.label_counter + 1
       /\ r.label_counter = c.label_counter + 2
       /\ r.control_statement_depth = c.control_statement_depth + 1
  <2>1. c.label_counter \in Nat
    BY ConstructorFields
  <2>2. QED
    BY <1>3, <1>6, <1>10, <1>12, <1>13, <2>1 DEF n
<1>20. QED
  BY <1>5, <1>12, <1>17, <1>18, <1>19

BranchLeft(c, r, below, end, next) ==
  /\ Grows(c, r, {next}, {end, next})
  /\ r.label_counter = c.label_counter
  /\ r.control_statement_depth = c.control_statement_depth
  /\ r.scope_depth = c.scope_depth /\ r.code_labels = c.code_labels
  /\ r.conditions = Append(below, end) /\ r.loops = c.loops
  /\ r.loops_depth = c.loops_depth /\ r.loops_initial = c.loops_initial

\* The jump to the end of a condition, and the label of its next branch.
LEMMA LeaveBranchEffect ==
  ASSUME NEW c \in Constructors, NEW below \in Seq(Labels),
         NEW end \in Labels, NEW next \in Labels,
         OnTop(c.conditions, below, end, next),
         NEW r, r = LeaveBranch(c)
  PROVE  BranchLeft(c, r, below, end, next)
<1> DEFINE chunk == <<Jump(end), AtLabel(next)>>
           emitted == Emit(c, chunk)
           stack == Append(below, end)
<1>1. /\ HeadLabel(c.conditions) = next /\ SecondLabel(c.conditions) = end
      /\ PopLabel(c.conditions) = stack /\ stack \in Seq(Labels)
  BY TopTwo
<1>2. /\ chunk \in Seq(Instructions) /\ PlacedIn(chunk) = {next} /\ PlacedOnce(chunk)
      /\ MentionedIn(chunk) \subseteq {end, next}
  BY LabelChunks
<1>3. Grows(c, emitted, PlacedIn(chunk), MentionedIn(chunk)) /\ SameStacks(c, emitted)
  <2> HIDE DEF chunk
  <2>1. QED
    BY <1>2, EmitEffect
<1>4. r = [emitted EXCEPT !.conditions = PopLabel(emitted.conditions)]
  BY <1>1 DEF LeaveBranch
<1> HIDE DEF emitted, stack, chunk
<1>5. emitted \in Constructors
  BY <1>3 DEF Grows
<1>6. r = [emitted EXCEPT !.conditions = stack]
  BY <1>1, <1>3, <1>4 DEF SameStacks
<1>7. /\ Grows(emitted, r, {}, {})
      /\ r.label_counter = emitted.label_counter
      /\ r.control_statement_depth = emitted.control_statement_depth
      /\ r.scope_depth = emitted.scope_depth /\ r.code_labels = emitted.code_labels
      /\ r.conditions = stack /\ r.loops = emitted.loops
      /\ r.loops_depth = emitted.loops_depth
      /\ r.loops_initial = emitted.loops_initial
  BY <1>1, <1>5, <1>6, WithConditions
<1>8. Grows(c, r, PlacedIn(chunk) \cup {}, MentionedIn(chunk) \cup {})
  BY <1>3, <1>7, GrowsOn
<1>9. Grows(c, r, {next}, {end, next})
  BY <1>2, <1>8 DEF Grows
<1>10. QED
  BY <1>3, <1>7, <1>9 DEF SameStacks, stack, BranchLeft

\* code_constructor_if_end_if_block
LEMMA EndIfBlockEffect ==
  ASSUME NEW c \in Constructors, NEW below \in Seq(Labels),
         NEW end \in Labels, NEW next \in Labels,
         OnTop(c.conditions, below, end, next)
  PROVE  Statement(c, IfEndIfBlock(c), {end})
<1> DEFINE chunk == <<Jump(end)>>
<1>1. SecondLabel(c.conditions) = end
  BY TopTwo
<1>2. IfEndIfBlock(c) = Emit(c, chunk)
  BY <1>1 DEF IfEndIfBlock
<1>3. Jump(end) \in Instructions /\ Jump(end).op # "LABEL" /\ Jump(end).label = end
  BY OperandTypes, InstructionTypes DEF Jump, Instruction
<1>4. /\ chunk \in Seq(Instructions) /\ PlacedOnce(chunk) /\ PlacedIn(chunk) = {}
      /\ MentionedIn(chunk) \subseteq {end}
  BY <1>3, SingleLabels
<1> HIDE DEF chunk
<1>5. Grows(c, Emit(c, chunk), PlacedIn(chunk), MentionedIn(chunk))
      /\ SameStacks(c, Emit(c, chunk))
  BY <1>4, EmitEffect
<1>6. QED
  BY <1>2, <1>4, <1>5 DEF Statement, Grows

Elsed(c, r, below, end, next, fresh) ==
  /\ fresh.type = "if_else" /\ fresh.number = c.label_counter
  /\ Grows(c, r, {next}, {end, next})
  /\ r.label_counter = c.label_counter + 1
  /\ r.control_statement_depth = c.control_statement_depth
  /\ r.scope_depth = c.scope_depth /\ r.code_labels = c.code_labels
  /\ OnTop(r.conditions, below, end, fresh) /\ r.loops = c.loops
  /\ r.loops_depth = c.loops_depth /\ r.loops_initial = c.loops_initial

\* code_constructor_if_else_block
LEMMA ElseEffect ==
  ASSUME NEW c \in Constructors, NEW below \in Seq(Labels),
         NEW end \in Labels, NEW next \in Labels,
         OnTop(c.conditions, below, end, next),
         NEW r, r = IfElseBlock(c)
  PROVE  \E fresh \in Labels : Elsed(c, r, below, end, next, fresh)
<1> DEFINE left == LeaveBranch(c)
           fresh == Label(left, "if_else")
           taken == TakeLabel(left)
           stack == Append(taken.conditions, fresh)
<1>1. r = [taken EXCEPT !.conditions = stack]
  BY DEF IfElseBlock, PushLabel
<1>2. /\ Grows(c, left, {next}, {end, next})
      /\ left.label_counter = c.label_counter
      /\ left.control_statement_depth = c.control_statement_depth
      /\ left.scope_depth = c.scope_depth /\ left.code_labels = c.code_labels
      /\ left.conditions = Append(below, end) /\ left.loops = c.loops
      /\ left.loops_depth = c.loops_depth /\ left.loops_initial = c.loops_initial
  BY LeaveBranchEffect, ZenonT(90) DEF BranchLeft
<1> HIDE DEF left
<1>3. left \in Constructors
  BY <1>2 DEF Grows
<1>4. fresh \in Labels /\ fresh.type = "if_else" /\ fresh.number = left.label_counter
  BY <1>3, LabelType
<1>5. /\ Grows(left, taken, {}, {})
      /\ taken.label_counter = left.label_counter + 1
      /\ taken.control_statement_depth = left.control_statement_depth
      /\ taken.scope_depth = left.scope_depth
      /\ taken.code_labels = left.code_labels
      /\ taken.conditions = left.conditions /\ taken.loops = left.loops
      /\ taken.loops_depth = left.loops_depth
      /\ taken.loops_initial = left.loops_initial
  BY <1>3, TakeLabelEffect
<1> HIDE DEF fresh, taken
<1>6. taken \in Constructors
  BY <1>5 DEF Grows
<1>7. stack \in Seq(Labels)
  BY <1>4, <1>6, ConstructorFields
<1>8. OnTop(stack, below, end, fresh)
  BY <1>2, <1>5 DEF OnTop
<1> HIDE DEF stack
<1>9. /\ Grows(taken, r, {}, {})
      /\ r.label_counter = taken.label_counter
      /\ r.control_statement_depth = taken.control_statement_depth
      /\ r.scope_depth = taken.scope_depth /\ r.code_labels = taken.code_labels
      /\ r.conditions = stack /\ r.loops = taken.loops
      /\ r.loops_depth = taken.loops_depth /\ r.loops_initial = taken.loops_initial
  BY <1>1, <1>6, <1>7, WithConditions
<1>10. Grows(c, taken, {next} \cup {}, {end, next} \cup {})
  BY <1>2, <1>5, GrowsOn
<1>11. Grows(c, r, ({next} \cup {}) \cup {}, ({end, next} \cup {}) \cup {})
  BY <1>9, <1>10, GrowsOn
<1>12. Grows(c, r, {next}, {end, next})
  BY <1>11 DEF Grows
<1>13. QED
  BY <1>2, <1>4, <1>5, <1>8, <1>9, <1>12 DEF Elsed

ConditionEnded(c, r, below, end, next) ==
  /\ Grows(c, r, {end, next}, {end, next})
  /\ r.label_counter = c.label_counter
  /\ r.control_statement_depth = c.control_statement_depth - 1
  /\ r.scope_depth = c.scope_depth /\ r.code_labels = c.code_labels
  /\ r.conditions = below /\ r.loops = c.loops
  /\ r.loops_depth = c.loops_depth /\ r.loops_initial = c.loops_initial

\* code_constructor_if_after_end_if
LEMMA AfterEndIfEffect ==
  ASSUME NEW c \in Constructors, NEW below \in Seq(Labels),
         NEW end \in Labels, NEW next \in Labels, end # next,
         OnTop(c.conditions, below, end, next),
         NEW r, r = IfAfterEndIf(c)
  PROVE  ConditionEnded(c, r, below, end, next)
<1> DEFINE chunk == <<AtLabel(next), AtLabel(end)>>
           emitted == Emit(c, chunk)
           popped == [emitted EXCEPT !.conditions = below]
           n == c.control_statement_depth - 1
<1>1. /\ HeadLabel(c.conditions) = next
      /\ HeadLabel(PopLabel(c.conditions)) = end
      /\ PopLabel(PopLabel(c.conditions)) = below
  BY TopTwo
<1>2. /\ chunk \in Seq(Instructions) /\ PlacedIn(chunk) = {end, next}
      /\ PlacedOnce(chunk) /\ MentionedIn(chunk) \subseteq {end, next}
  <2>1. /\ chunk \in Seq(Instructions) /\ PlacedIn(chunk) = {next, end}
        /\ next # end => PlacedOnce(chunk)
        /\ MentionedIn(chunk) \subseteq {next, end}
    BY LabelChunks
  <2> HIDE DEF chunk
  <2>2. QED
    BY <2>1
<1>3. Grows(c, emitted, PlacedIn(chunk), MentionedIn(chunk)) /\ SameStacks(c, emitted)
  <2> HIDE DEF chunk
  <2>1. QED
    BY <1>2, EmitEffect
<1>4. r = [emitted EXCEPT !.conditions = PopLabel(PopLabel(emitted.conditions)),
                          !.control_statement_depth =
                             emitted.control_statement_depth - 1]
  BY <1>1 DEF IfAfterEndIf
<1> HIDE DEF emitted, chunk
<1>5. emitted \in Constructors
  BY <1>3 DEF Grows
<1>6. /\ r = [[emitted EXCEPT !.conditions = below] EXCEPT !.control_statement_depth = n]
  BY <1>1, <1>3, <1>4 DEF SameStacks
<1>7. n \in Int
  BY ConstructorFields
<1> HIDE DEF n
<1>8. r = [popped EXCEPT !.control_statement_depth = n]
  BY <1>6
<1>9. /\ Grows(emitted, popped, {}, {})
      /\ popped.label_counter = emitted.label_counter
      /\ popped.control_statement_depth = emitted.control_statement_depth
      /\ popped.scope_depth = emitted.scope_depth
      /\ popped.code_labels = emitted.code_labels
      /\ popped.conditions = below /\ popped.loops = emitted.loops
      /\ popped.loops_depth = emitted.loops_depth
      /\ popped.loops_initial = emitted.loops_initial
  BY <1>5, WithConditions
<1> HIDE DEF popped
<1>10. popped \in Constructors
  BY <1>9 DEF Grows
<1>11. /\ Grows(popped, r, {}, {})
       /\ r.label_counter = popped.label_counter
       /\ r.control_statement_depth = n
       /\ r.scope_depth = popped.scope_depth /\ r.code_labels = popped.code_labels
       /\ r.conditions = popped.conditions /\ r.loops = popped.loops
       /\ r.loops_depth = popped.loops_depth /\ r.loops_initial = popped.loops_initial
  BY <1>7, <1>8, <1>10, WithControlDepth
<1>12. Grows(c, popped, PlacedIn(chunk) \cup {}, MentionedIn(chunk) \cup {})
  BY <1>3, <1>9, GrowsOn
<1>13. Grows(c, r, (PlacedIn(chunk) \cup {}) \cup {}, (MentionedIn(chunk) \cup {}) \cup {})
  BY <1>11, <1>12, GrowsOn
<1>14. Grows(c, r, {end, next}, {end, next})
  BY <1>2, <1>13 DEF Grows
<1>15. QED
  BY <1>3, <1>9, <1>11, <1>14 DEF SameStacks, n, ConditionEnded

\* A label emitted behind something is a place to insert before.
LEMMA PlaceEmitted ==
  ASSUME NEW c \in Constructors, NEW l \in Labels, Len(Writing(c)) > 0,
         NEW r, r = Emit(c, <<AtLabel(l)>>)
  PROVE  HasPlace(r, l)
<1> DEFINE one == <<AtLabel(l)>>
           joined == Writing(c) \o one
<1>1. /\ one \in Seq(Instructions) /\ Len(one) = 1 /\ one[1] = AtLabel(l)
  BY OperandTypes, InstructionTypes
<1>2. Writing(c) \in Seq(Instructions) /\ c.main \in Seq(Instructions)
      /\ c.buffer \in Seq(Instructions) /\ c.to_buffer \in BOOLEAN
  BY ConstructorFields
<1>3. r = Emit(c, one)
  OBVIOUS
<1> HIDE DEF one
<1>4. /\ joined \in Seq(Instructions) /\ Len(joined) = Len(Writing(c)) + Len(one)
      /\ Len(Writing(c)) \in Nat
      /\ \A k \in 1..Len(Writing(c)) + Len(one) :
           joined[k] = IF k <= Len(Writing(c)) THEN Writing(c)[k]
                       ELSE one[k - Len(Writing(c))]
  BY <1>1, <1>2, ConcatProperties, LenProperties
<1>5. /\ Len(joined) = Len(Writing(c)) + 1
      /\ joined[Len(Writing(c)) + 1] = AtLabel(l)
  BY <1>1, <1>4
<1>6. Writing(r) = joined
  <2>1. CASE c.to_buffer
    <3>1. r = [c EXCEPT !.buffer = joined]
      BY <1>3, <2>1 DEF Emit, Writing
    <3> HIDE DEF joined
    <3>2. r.buffer = joined /\ r.to_buffer = c.to_buffer
      BY <1>4, <3>1, WithBuffer
    <3>3. QED
      BY <2>1, <3>2 DEF Writing
  <2>2. CASE ~c.to_buffer
    <3>1. r = [c EXCEPT !.main = joined]
      BY <1>3, <2>2 DEF Emit, Writing
    <3> HIDE DEF joined
    <3>2. r.main = joined /\ r.to_buffer = c.to_buffer
      BY <1>4, <3>1, WithMain
    <3>3. QED
      BY <2>2, <3>2 DEF Writing
  <2>3. QED
    BY <2>1, <2>2
<1> HIDE DEF joined
<1>7. Len(Writing(c)) + 1 \in 2..Len(Writing(r))
  BY <1>4, <1>5, <1>6
<1>8. QED
  BY <1>5, <1>6, <1>7 DEF HasPlace

LoopBegun(c, r, start) ==
  /\ start.type = "while_start" /\ start.number = c.label_counter
  /\ Grows(c, r, {start}, {start}) /\ HasPlace(r, start)
  /\ r.label_counter = c.label_counter + 1
  /\ r.control_statement_depth = c.control_statement_depth + 1
  /\ r.scope_depth = c.scope_depth /\ r.code_labels = c.code_labels
  /\ r.conditions = c.conditions
  /\ r.loops = Append(c.loops, start)
  /\ r.loops_depth = c.loops_depth + 1
  /\ r.loops_initial = IF c.loops_depth = 0 THEN start ELSE c.loops_initial

\* code_constructor_while_before_condition
LEMMA WhileEffect ==
  ASSUME NEW c \in Constructors, Len(Writing(c)) > 0,
         NEW r, r = WhileBeforeCondition(c)
  PROVE  \E start \in Labels : LoopBegun(c, r, start)
<1> DEFINE n == c.control_statement_depth + 1
           m == c.loops_depth + 1
           deeper == [c EXCEPT !.control_statement_depth = n]
           start == Label(deeper, "while_start")
           initial == IF c.loops_depth = 0 THEN start ELSE c.loops_initial
           taken == TakeLabel(deeper)
           chunk == <<AtLabel(start)>>
           emitted == Emit(taken, chunk)
           stack == Append(c.loops, start)
           looped == [emitted EXCEPT !.loops = stack]
           counted == [looped EXCEPT !.loops_depth = m]
<1>1. n \in Int /\ m \in Int /\ c.loops_initial \in Labels
  BY ConstructorFields
<1>2. r = [emitted EXCEPT !.loops = Append(emitted.loops, start),
                          !.loops_depth = emitted.loops_depth + 1,
                          !.loops_initial = IF c.loops_depth = 0 THEN start
                                            ELSE emitted.loops_initial]
  BY DEF WhileBeforeCondition, PushLabel
<1> HIDE DEF n
<1>3. /\ Grows(c, deeper, {}, {})
      /\ deeper.label_counter = c.label_counter
      /\ deeper.control_statement_depth = n
      /\ deeper.scope_depth = c.scope_depth /\ deeper.code_labels = c.code_labels
      /\ deeper.conditions = c.conditions /\ deeper.loops = c.loops
      /\ deeper.loops_depth = c.loops_depth /\ deeper.loops_initial = c.loops_initial
  BY <1>1, WithControlDepth
<1>4. deeper.main = c.main /\ deeper.buffer = c.buffer
      /\ deeper.to_buffer = c.to_buffer
  BY <1>1 DEF Constructors
<1> HIDE DEF deeper
<1>5. deeper \in Constructors
  BY <1>3 DEF Grows
<1>6. start \in Labels /\ start.type = "while_start" /\ start.number = c.label_counter
  BY <1>3, <1>5, LabelType
<1> HIDE DEF start
<1>7. /\ Grows(deeper, taken, {}, {})
      /\ taken.label_counter = deeper.label_counter + 1
      /\ taken.control_statement_depth = deeper.control_statement_depth
      /\ taken.scope_depth = deeper.scope_depth
      /\ taken.code_labels = deeper.code_labels
      /\ taken.conditions = deeper.conditions /\ taken.loops = deeper.loops
      /\ taken.loops_depth = deeper.loops_depth
      /\ taken.loops_initial = deeper.loops_initial
  BY <1>5, TakeLabelEffect
<1> HIDE DEF taken
<1>8. taken \in Constructors
  BY <1>7 DEF Grows
<1>9. Len(Writing(taken)) > 0
  <2>1. /\ taken.to_buffer = c.to_buffer
        /\ Len(taken.main) >= Len(c.main) /\ Len(taken.buffer) >= Len(c.buffer)
    BY <1>4, <1>7 DEF Grows
  <2>2. /\ Len(taken.main) \in Nat /\ Len(taken.buffer) \in Nat
        /\ Len(c.main) \in Nat /\ Len(c.buffer) \in Nat
    BY <1>8, ConstructorFields
  <2>3. QED
    BY <2>1, <2>2 DEF Writing
<1>10. HasPlace(emitted, start)
  BY <1>6, <1>8, <1>9, PlaceEmitted
<1>11. /\ chunk \in Seq(Instructions) /\ PlacedIn(chunk) = {start}
       /\ PlacedOnce(chunk) /\ MentionedIn(chunk) \subseteq {start}
  <2>1. AtLabel(start) \in Instructions /\ AtLabel(start).label = start
    BY <1>6, OperandTypes, InstructionTypes DEF AtLabel, Instruction
  <2>2. QED
    BY <1>6, <2>1, SingleLabels
<1> HIDE DEF chunk
<1>12. Grows(taken, emitted, PlacedIn(chunk), MentionedIn(chunk))
       /\ SameStacks(taken, emitted)
  BY <1>8, <1>11, EmitEffect
<1> HIDE DEF emitted
<1>13. emitted \in Constructors
  BY <1>12 DEF Grows
<1>14. stack \in Seq(Labels)
  BY <1>6, ConstructorFields
<1>15. initial \in Labels
  BY <1>1, <1>6
<1>16. /\ emitted.loops = c.loops /\ emitted.loops_depth = c.loops_depth
       /\ emitted.loops_initial = c.loops_initial
  BY <1>3, <1>7, <1>12 DEF SameStacks
<1>17. r = [counted EXCEPT !.loops_initial = initial]
  BY <1>2, <1>16
<1> HIDE DEF stack, initial, m
<1>18. /\ Grows(emitted, looped, {}, {})
       /\ looped.label_counter = emitted.label_counter
       /\ looped.control_statement_depth = emitted.control_statement_depth
       /\ looped.scope_depth = emitted.scope_depth
       /\ looped.code_labels = emitted.code_labels
       /\ looped.conditions = emitted.conditions /\ looped.loops = stack
       /\ looped.loops_depth = emitted.loops_depth
       /\ looped.loops_initial = emitted.loops_initial
  BY <1>13, <1>14, WithLoops
<1>19. HasPlace(looped, start)
  BY <1>6, <1>10, <1>18 DEF Grows
<1> HIDE DEF looped
<1>20. looped \in Constructors
  BY <1>18 DEF Grows
<1>21. counted = [looped EXCEPT !.loops_depth = m]
  OBVIOUS
<1> HIDE DEF counted
<1>22. /\ Grows(looped, r, {}, {})
       /\ r.label_counter = looped.label_counter
       /\ r.control_statement_depth = looped.control_statement_depth
       /\ r.scope_depth = looped.scope_depth /\ r.code_labels = looped.code_labels
       /\ r.conditions = looped.conditions /\ r.loops = looped.loops
       /\ r.loops_depth = m /\ r.loops_initial = initial
  <2>1. m \in Int
    BY ConstructorFields DEF m
  <2>2. /\ Grows(looped, counted, {}, {})
        /\ counted.label_counter = looped.label_counter
        /\ counted.control_statement_depth = looped.control_statement_depth
        /\ counted.scope_depth = looped.scope_depth
        /\ counted.code_labels = looped.code_labels
        /\ counted.conditions = looped.conditions /\ counted.loops = looped.loops
        /\ counted.loops_depth = m
    BY <1>20, <1>21, <2>1, WithLoopsDepth
  <2>3. counted \in Constructors
    BY <2>2 DEF Grows
  <2>4. /\ Grows(counted, r, {}, {})
        /\ r.label_counter = counted.label_counter
        /\ r.control_statement_depth = counted.control_statement_depth
        /\ r.scope_depth = counted.scope_depth
        /\ r.code_labels = counted.code_labels
        /\ r.conditions = counted.conditions /\ r.loops = counted.loops
        /\ r.loops_depth = counted.loops_depth /\ r.loops_initial = initial
    BY <1>15, <1>17, <2>3, WithLoopsInitial
  <2>5. Grows(looped, r, {} \cup {}, {} \cup {})
    BY <1>20, <2>2, <2>4, GrowsOn
  <2>6. Grows(looped, r, {}, {})
    BY <2>5 DEF Grows
  <2>7. QED
    BY <2>2, <2>4, <2>6
<1>23. HasPlace(r, start)
  BY <1>6, <1>19, <1>22 DEF Grows
<1>24. Grows(c, taken, {} \cup {}, {} \cup {})
  BY <1>3, <1>7, GrowsOn
<1>25. Grows(c, emitted, ({} \cup {}) \cup PlacedIn(chunk),
             ({} \cup {}) \cup MentionedIn(chunk))
  BY <1>12, <1>24, GrowsOn
<1>26. Grows(emitted, r, {} \cup {}, {} \cup {})
  BY <1>13, <1>18, <1>22, GrowsOn
<1>27. Grows(c, emitted, {start}, {start}) /\ Grows(emitted, r, {}, {})
  BY <1>11, <1>25, <1>26 DEF Grows
<1>28. Grows(c, r, {start} \cup {}, {start} \cup {})
  BY <1>27, GrowsOn
<1>29. Grows(c, r, {start}, {start})
  BY <1>28 DEF Grows
<1>30. /\ r.label_counter = c.label_counter + 1
       /\ r.control_statement_depth = c.control_statement_depth + 1
       /\ r.scope_depth = c.scope_depth /\ r.code_labels = c.code_labels
       /\ r.conditions = c.conditions
       /\ r.loops = Append(c.loops, start)
       /\ r.loops_depth = c.loops_depth + 1
       /\ r.loops_initial = IF c.loops_depth = 0 THEN start ELSE c.loops_initial
  BY <1>3, <1>7, <1>12, <1>18, <1>22 DEF SameStacks, n, m, stack, initial
<1>31. QED
  BY <1>6, <1>23, <1>29, <1>30 DEF LoopBegun

LoopTested(c, r, end) ==
  /\ Grows(c, r, {}, {end})
  /\ r.label_counter = c.label_counter + 1
  /\ r.control_statement_depth = c.control_statement_depth
  /\ r.scope_depth = c.scope_depth /\ r.code_labels = c.code_labels
  /\ r.conditions = c.conditions /\ r.loops = Append(c.loops, end)
  /\ r.loops_depth = c.loops_depth /\ r.loops_initial = c.loops_initial

\* code_constructor_while_after_condition
LEMMA ConditionEffect ==
  ASSUME NEW c \in Constructors, NEW end, end = Label(c, "while_end"),
         NEW r, r = WhileAfterCondition(c)
  PROVE  LoopTested(c, r, end)
<1> DEFINE taken == TakeLabel(c)
           chunk == <<PushS(False), JumpIfEqualS(end)>>
           emitted == Emit(taken, chunk)
           stack == Append(c.loops, end)
<1>1. end \in Labels
  BY LabelType
<1>2. /\ Grows(c, taken, {}, {})
      /\ taken.label_counter = c.label_counter + 1
      /\ taken.control_statement_depth = c.control_statement_depth
      /\ taken.scope_depth = c.scope_depth /\ taken.code_labels = c.code_labels
      /\ taken.conditions = c.conditions /\ taken.loops = c.loops
      /\ taken.loops_depth = c.loops_depth /\ taken.loops_initial = c.loops_initial
  BY TakeLabelEffect
<1>3. r = [emitted EXCEPT !.loops = Append(emitted.loops, end)]
  BY DEF WhileAfterCondition, PushLabel
<1> HIDE DEF taken
<1>4. /\ chunk \in Seq(Instructions) /\ PlacedIn(chunk) = {} /\ PlacedOnce(chunk)
      /\ MentionedIn(chunk) \subseteq {end}
  BY <1>1, LabelChunks
<1> HIDE DEF chunk
<1>5. taken \in Constructors
  BY <1>2 DEF Grows
<1>6. Grows(taken, emitted, {}, MentionedIn(chunk)) /\ SameStacks(taken, emitted)
  BY <1>4, <1>5, EmitEffect
<1> HIDE DEF emitted
<1>7. emitted \in Constructors
  BY <1>6 DEF Grows
<1>8. stack \in Seq(Labels)
  BY <1>1, ConstructorFields
<1>9. r = [emitted EXCEPT !.loops = stack]
  BY <1>2, <1>3, <1>6 DEF SameStacks
<1> HIDE DEF stack
<1>10. /\ Grows(emitted, r, {}, {})
       /\ r.label_counter = emitted.label_counter
       /\ r.control_statement_depth = emitted.control_statement_depth
       /\ r.scope_depth = emitted.scope_depth /\ r.code_labels = emitted.code_labels
       /\ r.conditions = emitted.conditions /\ r.loops = stack
       /\ r.loops_depth = emitted.loops_depth
       /\ r.loops_initial = emitted.loops_initial
  BY <1>7, <1>8, <1>9, WithLoops
<1>11. Grows(c, emitted, {} \cup {}, {} \cup MentionedIn(chunk))
  BY <1>2, <1>6, GrowsOn
<1>12. Grows(c, r, ({} \cup {}) \cup {}, ({} \cup MentionedIn(chunk)) \cup {})
  BY <1>10, <1>11, GrowsOn
<1>13. Grows(c, r, {}, {end})
  BY <1>4, <1>12 DEF Grows
<1>14. QED
  BY <1>2, <1>6, <1>10, <1>13 DEF SameStacks, stack, LoopTested

LoopEnded(c, r, below, start, end) ==
  /\ Grows(c, r, {end}, {start, end})
  /\ r.label_counter = c.label_counter
  /\ r.control_statement_depth = c.control_statement_depth - 1
  /\ r.scope_depth = c.scope_depth /\ r.code_labels = c.code_labels
  /\ r.conditions = c.conditions /\ r.loops = below
  /\ r.loops_depth = c.loops_depth - 1
  /\ r.loops_initial = IF c.loops_depth = 1 THEN NoLabel ELSE c.loops_initial

\* code_constructor_while_end
LEMMA LoopEffect ==
  ASSUME NEW c \in Constructors, NEW below \in Seq(Labels),
         NEW start \in Labels, NEW end \in Labels,
         OnTop(c.loops, below, start, end),
         NEW r, r = WhileEnd(c)
  PROVE  LoopEnded(c, r, below, start, end)
<1> DEFINE chunk == <<Jump(start), AtLabel(end)>>
           emitted == Emit(c, chunk)
           n == c.control_statement_depth - 1
           m == c.loops_depth - 1
           initial == IF c.loops_depth = 1 THEN NoLabel ELSE c.loops_initial
           looped == [emitted EXCEPT !.loops = below]
           out == [looped EXCEPT !.control_statement_depth = n]
           counted == [out EXCEPT !.loops_depth = m]
<1>1. /\ HeadLabel(c.loops) = end /\ SecondLabel(c.loops) = start
      /\ PopLabel(PopLabel(c.loops)) = below
  BY TopTwo
<1>2. /\ chunk \in Seq(Instructions) /\ PlacedIn(chunk) = {end} /\ PlacedOnce(chunk)
      /\ MentionedIn(chunk) \subseteq {start, end}
  BY LabelChunks
<1>3. Grows(c, emitted, PlacedIn(chunk), MentionedIn(chunk)) /\ SameStacks(c, emitted)
  <2> HIDE DEF chunk
  <2>1. QED
    BY <1>2, EmitEffect
<1>4. r = [emitted EXCEPT !.loops = PopLabel(PopLabel(emitted.loops)),
                          !.control_statement_depth =
                             emitted.control_statement_depth - 1,
                          !.loops_depth = emitted.loops_depth - 1,
                          !.loops_initial = IF c.loops_depth = 1 THEN NoLabel
                                            ELSE emitted.loops_initial]
  BY <1>1 DEF WhileEnd
<1> HIDE DEF emitted, chunk
<1>5. emitted \in Constructors
  BY <1>3 DEF Grows
<1>6. /\ emitted.loops = c.loops /\ emitted.loops_depth = c.loops_depth
      /\ emitted.loops_initial = c.loops_initial
      /\ emitted.control_statement_depth = c.control_statement_depth
  BY <1>3 DEF SameStacks
<1>7. r = [counted EXCEPT !.loops_initial = initial]
  BY <1>1, <1>4, <1>6
<1>8. n \in Int /\ m \in Int /\ initial \in Labels
  BY ConstructorFields, LabelTypes
<1> HIDE DEF n, m, initial
<1>9. /\ Grows(emitted, looped, {}, {})
      /\ looped.label_counter = emitted.label_counter
      /\ looped.control_statement_depth = emitted.control_statement_depth
      /\ looped.scope_depth = emitted.scope_depth
      /\ looped.code_labels = emitted.code_labels
      /\ looped.conditions = emitted.conditions /\ looped.loops = below
      /\ looped.loops_depth = emitted.loops_depth
      /\ looped.loops_initial = emitted.loops_initial
  BY <1>5, WithLoops
<1> HIDE DEF looped
<1>10. looped \in Constructors
  BY <1>9 DEF Grows
<1>11. /\ Grows(looped, out, {}, {})
       /\ out.label_counter = looped.label_counter
       /\ out.control_statement_depth = n
       /\ out.scope_depth = looped.scope_depth
       /\ out.code_labels = looped.code_labels
       /\ out.conditions = looped.conditions /\ out.loops = looped.loops
       /\ out.loops_depth = looped.loops_depth
       /\ out.loops_initial = looped.loops_initial
  BY <1>8, <1>10, WithControlDepth
<1> HIDE DEF out
<1>12. out \in Constructors
  BY <1>11 DEF Grows
<1>13. counted = [out EXCEPT !.loops_depth = m]
  OBVIOUS
<1> HIDE DEF counted
<1>14. /\ Grows(out, r, {}, {})
       /\ r.label_counter = out.label_counter
       /\ r.control_statement_depth = out.control_statement_depth
       /\ r.scope_depth = out.scope_depth /\ r.code_labels = out.code_labels
       /\ r.conditions = out.conditions /\ r.loops = out.loops
       /\ r.loops_depth = m /\ r.loops_initial = initial
  <2>1. /\ Grows(out, counted, {}, {})
        /\ counted.label_counter = out.label_counter
        /\ counted.control_statement_depth = out.control_statement_depth
        /\ counted.scope_depth = out.scope_depth
        /\ counted.code_labels = out.code_labels
        /\ counted.conditions = out.conditions /\ counted.loops = out.loops
        /\ counted.loops_depth = m
    BY <1>8, <1>12, <1>13, WithLoopsDepth
  <2>2. counted \in Constructors
    BY <2>1 DEF Grows
  <2>3. /\ Grows(counted, r, {}, {})
        /\ r.label_counter = counted.label_counter
        /\ r.control_statement_depth = counted.control_statement_depth
        /\ r.scope_depth = counted.scope_depth
        /\ r.code_labels = counted.code_labels
        /\ r.conditions = counted.conditions /\ r.loops = counted.loops
        /\ r.loops_depth = counted.loops_depth /\ r.loops_initial = initial
    BY <1>7, <1>8, <2>2, WithLoopsInitial
  <2>4. Grows(out, r, {} \cup {}, {} \cup {})
    BY <1>12, <2>1, <2>3, GrowsOn
  <2>5. Grows(out, r, {}, {})
    BY <2>4 DEF Grows
  <2>6. QED
    BY <2>1, <2>3, <2>5
<1>15. Grows(emitted, out, {} \cup {}, {} \cup {})
  BY <1>5, <1>9, <1>11, GrowsOn
<1>16. Grows(emitted, r, ({} \cup {}) \cup {}, ({} \cup {}) \cup {})
  BY <1>5, <1>14, <1>15, GrowsOn
<1>17. Grows(c, emitted, {end}, {start, end}) /\ Grows(emitted, r, {}, {})
  BY <1>2, <1>3, <1>16 DEF Grows
<1>18. Grows(c, r, {end} \cup {}, {start, end} \cup {})
  BY <1>17, GrowsOn
<1>19. Grows(c, r, {end}, {start, end})
  BY <1>18 DEF Grows
<1>20. QED
  BY <1>3, <1>9, <1>11, <1>14, <1>19 DEF SameStacks, n, m, initial, LoopEnded

\* The other list is written on from here; the lists themselves stay.
LEMMA WithList ==
  ASSUME NEW c \in Constructors, NEW b \in BOOLEAN,
         NEW r, r = [c EXCEPT !.to_buffer = b]
  PROVE  /\ r \in Constructors /\ SameStacks(c, r)
         /\ r.main = c.main /\ r.buffer = c.buffer /\ r.to_buffer = b
         /\ Placed(r) = Placed(c) /\ Mentioned(r) = Mentioned(c)
         /\ AllPlacedOnce(c) => AllPlacedOnce(r)
<1>1. /\ r \in Constructors /\ SameStacks(c, r)
      /\ r.main = c.main /\ r.buffer = c.buffer /\ r.to_buffer = b
  BY DEF Constructors, SameStacks
<1>2. QED
  BY <1>1 DEF Placed, Mentioned, AllPlacedOnce

\* code_constructor_function_header
LEMMA HeaderEffect ==
  ASSUME NEW c \in Constructors, NEW f \in Names,
         NEW r, r = FunctionHeader(c, f)
  PROVE  /\ r \in Constructors /\ SameStacks(c, r) /\ r.to_buffer
         /\ Len(r.main) >= Len(c.main) /\ Len(r.buffer) > 0
         /\ Placed(r) = Placed(c) \cup {FunctionLabel(f)}
         /\ Mentioned(r) \subseteq Mentioned(c) \cup {FunctionLabel(f)}
         /\ AllPlacedOnce(c) /\ FunctionLabel(f) \notin Placed(c) => AllPlacedOnce(r)
<1> DEFINE d == [c EXCEPT !.to_buffer = TRUE]
           l == FunctionLabel(f)
           chunk == <<AtLabel(l)>>
<1>1. l \in Labels
  BY LabelTypes
<1>2. r = Emit(d, chunk)
  BY DEF FunctionHeader
<1>3. /\ d \in Constructors /\ SameStacks(c, d)
      /\ d.main = c.main /\ d.buffer = c.buffer /\ d.to_buffer = TRUE
      /\ Placed(d) = Placed(c) /\ Mentioned(d) = Mentioned(c)
      /\ AllPlacedOnce(c) => AllPlacedOnce(d)
  BY WithList
<1> HIDE DEF d, l
<1>4. /\ chunk \in Seq(Instructions) /\ PlacedIn(chunk) = {l} /\ PlacedOnce(chunk)
      /\ MentionedIn(chunk) \subseteq {l} /\ Len(chunk) = 1
  <2>1. AtLabel(l) \in Instructions /\ AtLabel(l).label = l
    BY <1>1, OperandTypes, InstructionTypes DEF AtLabel, Instruction
  <2>2. QED
    BY <1>1, <2>1, SingleLabels
<1> HIDE DEF chunk
<1>5. Grows(d, r, PlacedIn(chunk), MentionedIn(chunk)) /\ SameStacks(d, r)
  BY <1>2, <1>3, <1>4, EmitEffect
<1>6. Len(r.buffer) > 0
  <2>1. c.buffer \in Seq(Instructions)
    BY ConstructorFields
  <2>2. Len(c.buffer \o chunk) = Len(c.buffer) + Len(chunk) /\ Len(c.buffer) \in Nat
    <3>1. chunk \in Seq(Instructions)
      BY <1>4
    <3>2. QED
      BY <2>1, <3>1, ConcatProperties, LenProperties
  <2>3. c.buffer \o chunk \in Seq(Instructions)
    BY <1>4, <2>1
  <2> DEFINE joined == c.buffer \o chunk
  <2>4. r = [d EXCEPT !.buffer = joined]
    BY <1>2, <1>3 DEF Emit
  <2>5. joined \in Seq(Instructions) /\ Len(joined) > 0
    BY <1>4, <2>2, <2>3
  <2> HIDE DEF joined
  <2>6. r.buffer = joined
    BY <1>3, <2>4, <2>5, WithBuffer
  <2>7. QED
    BY <2>5, <2>6
<1>7. SameStacks(c, r)
  BY <1>3, <1>5, SameStacksOn
<1>8. QED
  BY <1>3, <1>4, <1>5, <1>6, <1>7 DEF Grows, l

\* code_constructor_function_end
LEMMA FunctionEndEffect ==
  ASSUME NEW c \in Constructors, NEW r, r = FunctionEnd(c)
  PROVE  /\ r \in Constructors /\ SameStacks(c, r) /\ ~r.to_buffer
         /\ Len(r.main) >= Len(c.main)
         /\ Placed(r) = Placed(c) /\ Mentioned(r) \subseteq Mentioned(c)
         /\ AllPlacedOnce(c) => AllPlacedOnce(r)
<1> DEFINE chunk == <<PushS(Literal), Plain("RETURN")>>
           d == Emit(c, chunk)
<1>1. chunk \in Seq(Unlabelled)
  BY OperandTypes, UnlabelledInstructions
<1>2. r = [d EXCEPT !.to_buffer = FALSE]
  BY DEF FunctionEnd
<1> HIDE DEF chunk
<1>3. Statement(c, d, {})
  BY <1>1, EmitUnlabelled
<1> HIDE DEF d
<1>4. /\ d \in Constructors /\ SameStacks(c, d) /\ Len(d.main) >= Len(c.main)
      /\ Placed(d) = Placed(c) /\ Mentioned(d) \subseteq Mentioned(c)
      /\ AllPlacedOnce(c) => AllPlacedOnce(d)
  BY <1>3 DEF Statement, Grows
<1>5. /\ r \in Constructors /\ SameStacks(d, r) /\ r.main = d.main
      /\ r.to_buffer = FALSE
      /\ Placed(r) = Placed(d) /\ Mentioned(r) = Mentioned(d)
      /\ AllPlacedOnce(d) => AllPlacedOnce(r)
  BY <1>2, <1>4, WithList
<1>6. SameStacks(c, r)
  BY <1>4, <1>5, SameStacksOn
<1>7. QED
  BY <1>4, <1>5, <1>6

\* code_constructor_end_code: one list, with the labels of both.
LEMMA EndCodeEffect ==
  ASSUME NEW c \in Constructors, ~c.to_buffer, AllPlacedOnce(c),
         NEW end, end = Label(c, "main_scope"), end \notin Placed(c),
         NEW r, r = EndCode(c)
  PROVE  /\ r \in Constructors /\ r.buffer = << >> /\ ~r.to_buffer
         /\ PlacedIn(r.main) = Placed(c) \cup {end} /\ PlacedOnce(r.main)
         /\ MentionedIn(r.main) \subseteq Mentioned(c) \cup {end}
         /\ r.label_counter = c.label_counter + 1
         /\ r.control_statement_depth = c.control_statement_depth
         /\ r.scope_depth = c.scope_depth /\ r.code_labels = c.code_labels
         /\ r.conditions = c.conditions /\ r.loops = c.loops
         /\ r.loops_depth = c.loops_depth /\ r.loops_initial = c.loops_initial
<1> DEFINE taken == TakeLabel(c)
           first == <<Jump(end)>>
           last == <<AtLabel(end)>>
           jumped == Emit(taken, first)
           joined == jumped.main \o c.buffer
           merged == [jumped EXCEPT !.main = joined]
           flushed == [merged EXCEPT !.buffer = << >>]
<1>1. end \in Labels
  BY LabelType
<1>2. r = Emit(flushed, last)
  BY DEF EndCode
<1>3. /\ Grows(c, taken, {}, {})
      /\ taken.label_counter = c.label_counter + 1
      /\ taken.control_statement_depth = c.control_statement_depth
      /\ taken.scope_depth = c.scope_depth /\ taken.code_labels = c.code_labels
      /\ taken.conditions = c.conditions /\ taken.loops = c.loops
      /\ taken.loops_depth = c.loops_depth /\ taken.loops_initial = c.loops_initial
  BY TakeLabelEffect
<1>4. taken.main = c.main /\ taken.buffer = c.buffer /\ taken.to_buffer = c.to_buffer
  BY DEF TakeLabel, Constructors
<1> HIDE DEF taken
<1>5. taken \in Constructors
  BY <1>3 DEF Grows
<1>6. /\ first \in Seq(Instructions) /\ PlacedOnce(first) /\ PlacedIn(first) = {}
      /\ MentionedIn(first) \subseteq {end}
  <2>1. Jump(end) \in Instructions /\ Jump(end).op # "LABEL" /\ Jump(end).label = end
    BY <1>1, OperandTypes, InstructionTypes DEF Jump, Instruction
  <2>2. QED
    BY <2>1, SingleLabels
<1>7. /\ last \in Seq(Instructions) /\ PlacedOnce(last) /\ PlacedIn(last) = {end}
      /\ MentionedIn(last) \subseteq {end}
  <2>1. AtLabel(end) \in Instructions /\ AtLabel(end).label = end
    BY <1>1, OperandTypes, InstructionTypes DEF AtLabel, Instruction
  <2>2. QED
    BY <1>1, <2>1, SingleLabels
<1> DEFINE main == c.main \o first
<1>8. /\ c.main \in Seq(Instructions) /\ c.buffer \in Seq(Instructions)
      /\ first \in Seq(Instructions) /\ last \in Seq(Instructions)
  BY <1>6, <1>7, ConstructorFields
<1> HIDE DEF first, last
<1>9. /\ main \in Seq(Instructions)
      /\ PlacedIn(main) = PlacedIn(c.main) \cup PlacedIn(first)
      /\ MentionedIn(main) = MentionedIn(c.main) \cup MentionedIn(first)
      /\ PlacedOnce(main) <=>
           /\ PlacedOnce(c.main) /\ PlacedOnce(first)
           /\ PlacedIn(c.main) \cap PlacedIn(first) = {}
  BY <1>8, ConcatLabels
<1>10. jumped = [taken EXCEPT !.main = main]
  BY <1>4 DEF Emit
<1> HIDE DEF main, jumped
<1>11. /\ jumped \in Constructors /\ SameStacks(taken, jumped)
       /\ jumped.main = main /\ jumped.buffer = c.buffer
       /\ jumped.to_buffer = c.to_buffer
  BY <1>4, <1>5, <1>9, <1>10, WithMain
<1>12. joined = main \o c.buffer /\ main \in Seq(Instructions)
  BY <1>9, <1>11
<1> HIDE DEF joined
<1>13. /\ joined \in Seq(Instructions)
       /\ PlacedIn(joined) = PlacedIn(main) \cup PlacedIn(c.buffer)
       /\ MentionedIn(joined) = MentionedIn(main) \cup MentionedIn(c.buffer)
       /\ PlacedOnce(joined) <=>
            /\ PlacedOnce(main) /\ PlacedOnce(c.buffer)
            /\ PlacedIn(main) \cap PlacedIn(c.buffer) = {}
  BY <1>8, <1>12, ConcatLabels
<1>14. /\ merged \in Constructors /\ SameStacks(jumped, merged)
       /\ merged.main = joined /\ merged.to_buffer = c.to_buffer
  BY <1>11, <1>13, WithMain
<1> HIDE DEF merged
<1>15. /\ flushed \in Constructors /\ SameStacks(merged, flushed)
       /\ flushed.main = joined /\ flushed.buffer = << >>
       /\ flushed.to_buffer = c.to_buffer
  <2> DEFINE none == << >>
  <2>1. none \in Seq(Instructions)
    OBVIOUS
  <2>2. flushed = [merged EXCEPT !.buffer = none]
    OBVIOUS
  <2> HIDE DEF flushed, none
  <2>3. /\ flushed \in Constructors /\ SameStacks(merged, flushed)
        /\ flushed.main = merged.main /\ flushed.buffer = none
        /\ flushed.to_buffer = merged.to_buffer
    BY <1>14, <2>1, <2>2, WithBuffer
  <2>4. QED
    BY <1>14, <2>3 DEF none
<1> HIDE DEF flushed
<1> DEFINE whole == joined \o last
<1>16. /\ whole \in Seq(Instructions)
       /\ PlacedIn(whole) = PlacedIn(joined) \cup PlacedIn(last)
       /\ MentionedIn(whole) = MentionedIn(joined) \cup MentionedIn(last)
       /\ PlacedOnce(whole) <=>
            /\ PlacedOnce(joined) /\ PlacedOnce(last)
            /\ PlacedIn(joined) \cap PlacedIn(last) = {}
  <2>1. joined \in Seq(Instructions)
    BY <1>13
  <2>2. QED
    BY <1>8, <2>1, ConcatLabels
<1>17. r = [flushed EXCEPT !.main = whole]
  BY <1>2, <1>15 DEF Emit
<1> HIDE DEF whole
<1>18. /\ r \in Constructors /\ SameStacks(flushed, r)
       /\ r.main = whole /\ r.buffer = << >> /\ r.to_buffer = c.to_buffer
  BY <1>15, <1>16, <1>17, WithMain
<1>19. PlacedIn(whole) = Placed(c) \cup {end}
       /\ MentionedIn(whole) \subseteq Mentioned(c) \cup {end}
  BY <1>6, <1>7, <1>9, <1>13, <1>16 DEF Placed, Mentioned
<1>20. PlacedOnce(whole)
  BY <1>6, <1>7, <1>9, <1>13, <1>16 DEF Placed, AllPlacedOnce
<1>21. SameStacks(taken, r)
  BY <1>11, <1>14, <1>15, <1>18, SameStacksOn
<1>22. QED
  BY <1>3, <1>18, <1>19, <1>20, <1>21 DEF SameStacks

-----------------------------------------------------------------------------
(* Expressions.  A recursive function is what satisfies its equation, so   *)
(* that something does comes first: steps[i] takes the value at i - 1, one *)
(* of kinds[i - 1], to the value at i.                                     *)

Iterates(h, n, kinds, base, steps) ==
  /\ h = [i \in 0..n |-> h[i]]
  /\ h[0] = base /\ \A i \in 1..n : h[i] = steps[i][h[i - 1]]
  /\ \A i \in 0..n : h[i] \in kinds[i]

LEMMA IterationExists ==
  ASSUME NEW n \in Nat, NEW kinds, NEW base \in kinds[0], NEW steps,
         \A i \in 1..n : \A s \in kinds[i - 1] : steps[i][s] \in kinds[i]
  PROVE  \E h : Iterates(h, n, kinds, base, steps)
<1> DEFINE Upto(m, h) ==
             /\ h = [i \in 0..m |-> IF i = 0 THEN base ELSE steps[i][h[i - 1]]]
             /\ \A i \in 0..m : h[i] \in kinds[i]
           T == {m \in 0..n : \E h : Upto(m, h)}
<1>1. 0 \in T
  <2> DEFINE h == [i \in 0..0 |-> base]
  <2>1. h = [i \in 0..0 |-> IF i = 0 THEN base ELSE steps[i][h[i - 1]]]
    OBVIOUS
  <2>2. \A i \in 0..0 : h[i] \in kinds[i]
    OBVIOUS
  <2>3. Upto(0, h)
    BY <2>1, <2>2
  <2> HIDE DEF Upto, h
  <2>4. QED
    BY <2>3
<1>2. ASSUME NEW m \in 1..n, m - 1 \in T PROVE m \in T
  <2>1. PICK g : Upto(m - 1, g)
    BY <1>2
  <2> DEFINE h == [i \in 0..m |-> IF i = m THEN steps[m][g[m - 1]] ELSE g[i]]
  <2>2. m - 1 \in 0..m - 1 /\ g[m - 1] \in kinds[m - 1]
    BY <2>1
  <2>3. steps[m][g[m - 1]] \in kinds[m]
    BY <2>2
  <2>4. \A i \in 0..m - 1 : h[i] = g[i]
    OBVIOUS
  <2>5. h[m] = steps[m][h[m - 1]]
    BY <2>2, <2>4
  <2>6. \A i \in 0..m - 1 : g[i] = IF i = 0 THEN base ELSE steps[i][g[i - 1]]
    BY <2>1
  <2>7. ASSUME NEW i \in 0..m
        PROVE  h[i] = IF i = 0 THEN base ELSE steps[i][h[i - 1]]
    <3>1. CASE i = m
      BY <3>1, <2>5
    <3>2. CASE i # m
      <4>1. i \in 0..m - 1 /\ (i # 0 => i - 1 \in 0..m - 1)
        BY <3>2
      <4>2. QED
        BY <4>1, <2>4, <2>6
    <3>3. QED
      BY <3>1, <3>2
  <2>8. \A i \in 0..m : h[i] \in kinds[i]
    <3>1. \A i \in 0..m - 1 : g[i] \in kinds[i]
      BY <2>1
    <3>2. \A i \in 0..m : i = m \/ i \in 0..m - 1
      OBVIOUS
    <3>3. h[m] \in kinds[m]
      BY <2>3
    <3>4. QED
      BY <2>4, <3>1, <3>2, <3>3
  <2>9. h = [i \in 0..m |-> IF i = 0 THEN base ELSE steps[i][h[i - 1]]]
    <3>1. DOMAIN h = 0..m /\ h = [i \in 0..m |-> h[i]]
      OBVIOUS
    <3> HIDE DEF h
    <3>2. QED
      BY <2>7, <3>1
  <2>10. Upto(m, h)
    BY <2>8, <2>9
  <2> HIDE DEF Upto, h
  <2>11. QED
    BY <2>10
<1>3. n \in T
  <2> HIDE DEF T
  <2>1. \A i \in 0..n : i \in T
    BY <1>1, <1>2, StepByStep
  <2>2. QED
    BY <2>1
<1>4. PICK h : Upto(n, h)
  BY <1>3
<1>5. /\ \A i \in 0..n : h[i] \in kinds[i]
      /\ \A i \in 0..n : h[i] = IF i = 0 THEN base ELSE steps[i][h[i - 1]]
  BY <1>4
<1>6. h = [i \in 0..n |-> h[i]]
  BY <1>4
<1>7. h[0] = base /\ \A i \in 1..n : h[i] = steps[i][h[i - 1]]
  BY <1>5
<1>8. Iterates(h, n, kinds, base, steps)
  BY <1>5, <1>6, <1>7 DEF Iterates
<1>9. QED
  BY <1>8

\* What is left of a list, place by place, when instructions are taken out.
Removal(S, code, places, kept) ==
  /\ kept[0] = << >>
  /\ \A i \in 1..Len(code) :
       kept[i] = IF i \in places THEN kept[i - 1] ELSE Append(kept[i - 1], code[i])
  /\ \A i \in 0..Len(code) : kept[i] \in Seq(S)
  /\ RemovePlaces(code, places) = kept[Len(code)]

LEMMA RemovalRule ==
  ASSUME NEW S, NEW code \in Seq(S), NEW places
  PROVE  \E kept : Removal(S, code, places, kept)
<1> DEFINE n == Len(code)
           kinds == [i \in 0..n |-> Seq(S)]
           steps == [i \in 1..n |-> [s \in Seq(S) |->
                       IF i \in places THEN s ELSE Append(s, code[i])]]
           Rule(h) == [i \in 0..n |-> IF i = 0 THEN << >>
                         ELSE IF i \in places THEN h[i - 1]
                              ELSE Append(h[i - 1], code[i])]
           kept == CHOOSE h : h = Rule(h)
<1>1. n \in Nat /\ \A i \in 1..n : code[i] \in S
  OBVIOUS
<1>2. RemovePlaces(code, places) = kept[n]
  BY DEF RemovePlaces
<1> HIDE DEF n
<1>3. \E h : h = Rule(h)
  <2>1. \A i \in 1..n : \A s \in kinds[i - 1] : steps[i][s] \in kinds[i]
    <3>1. \A i \in 0..n : kinds[i] = Seq(S)
      OBVIOUS
    <3>2. \A i \in 1..n : i \in 0..n /\ i - 1 \in 0..n
      BY <1>1
    <3>3. ASSUME NEW i \in 1..n, NEW s \in Seq(S) PROVE steps[i][s] \in Seq(S)
      <4>1. steps[i][s] = IF i \in places THEN s ELSE Append(s, code[i])
        OBVIOUS
      <4> HIDE DEF steps
      <4>2. code[i] \in S
        BY <1>1
      <4>3. Append(s, code[i]) \in Seq(S)
        BY <4>2
      <4>4. QED
        BY <4>1, <4>3
    <3> HIDE DEF kinds, steps
    <3>4. QED
      BY <3>1, <3>2, <3>3
  <2>2. << >> \in kinds[0]
    BY <1>1
  <2> DEFINE none == << >>
  <2>3. none \in kinds[0]
    BY <2>2
  <2> HIDE DEF kinds, steps, none
  <2>4. PICK h : Iterates(h, n, kinds, none, steps)
    BY <1>1, <2>1, <2>3, IterationExists
  <2>5. /\ h[0] = none /\ \A i \in 1..n : h[i] = steps[i][h[i - 1]]
        /\ \A i \in 0..n : h[i] \in kinds[i] /\ kinds[i] = Seq(S)
        /\ \A i \in 1..n : i - 1 \in 0..n /\ h[i - 1] \in Seq(S)
    <3>1. /\ h[0] = none /\ \A i \in 1..n : h[i] = steps[i][h[i - 1]]
          /\ \A i \in 0..n : h[i] \in kinds[i]
      BY <2>4 DEF Iterates
    <3>2. \A i \in 0..n : kinds[i] = Seq(S)
      BY DEF kinds
    <3>3. \A i \in 1..n : i - 1 \in 0..n
      BY <1>1
    <3>4. QED
      BY SMTT(90), <3>1, <3>2, <3>3
  <2>6. \A i \in 1..n : steps[i][h[i - 1]] =
                          IF i \in places THEN h[i - 1] ELSE Append(h[i - 1], code[i])
    BY <2>5 DEF steps
  <2>7. ASSUME NEW i \in 0..n
        PROVE  h[i] = IF i = 0 THEN << >>
                      ELSE IF i \in places THEN h[i - 1]
                           ELSE Append(h[i - 1], code[i])
    BY <1>1, <2>5, <2>6 DEF none
  <2>8. h = Rule(h)
    <3>1. h = [i \in 0..n |-> h[i]]
      BY <2>4 DEF Iterates
    <3>2. QED
      BY <2>7, <3>1
  <2>9. QED
    BY <2>8
<1>4. kept = Rule(kept)
  BY <1>3
<1> HIDE DEF kept
<1>5. /\ kept[0] = << >>
      /\ \A i \in 1..n : kept[i] = IF i \in places THEN kept[i - 1]
                                   ELSE Append(kept[i - 1], code[i])
  <2>1. \A i \in 0..n : kept[i] = Rule(kept)[i]
    BY <1>4
  <2>2. QED
    BY <1>1, <2>1
<1>6. \A i \in 0..n : kept[i] \in Seq(S)
  <2> DEFINE T == {i \in 0..n : kept[i] \in Seq(S)}
  <2>1. 0 \in T
    <3>1. << >> \in Seq(S) /\ 0 \in 0..n
      BY <1>1
    <3>2. kept[0] = << >>
      BY <1>5, Zenon
    <3>3. kept[0] \in Seq(S)
      BY <3>1, <3>2, Zenon
    <3>4. QED
      BY <3>1, <3>3
  <2>2. ASSUME NEW i \in 1..n, i - 1 \in T PROVE i \in T
    <3>1. kept[i - 1] \in Seq(S) /\ code[i] \in S
      BY <1>1, <2>2
    <3>2. Append(kept[i - 1], code[i]) \in Seq(S)
      BY <3>1
    <3>3. kept[i] = kept[i - 1] \/ kept[i] = Append(kept[i - 1], code[i])
      BY <1>5, Zenon
    <3>4. kept[i] \in Seq(S)
      BY <3>1, <3>2, <3>3, Zenon
    <3>5. QED
      BY <1>1, <3>4
  <2>3. \A i \in 0..n : i \in T
    <3> HIDE DEF T
    <3>1. QED
      BY <1>1, <2>1, <2>2, StepByStep
  <2>4. QED
    BY <2>3
<1>7. Removal(S, code, places, kept)
  BY <1>2, <1>5, <1>6 DEF Removal, n
<1>8. QED
  BY <1>7

\* Taking instructions out leaves those before the first of them where they were.
LEMMA RemovedPlaces ==
  ASSUME NEW S, NEW code \in Seq(S), NEW places
  PROVE  /\ RemovePlaces(code, places) \in Seq(S)
         /\ \A k \in 0..Len(code) :
              (\A i \in 1..k : i \notin places) => Len(RemovePlaces(code, places)) >= k
<1> DEFINE n == Len(code)
<1>1. n \in Nat /\ \A i \in 1..n : code[i] \in S
  OBVIOUS
<1>2. PICK kept : Removal(S, code, places, kept)
  BY RemovalRule
<1>3. RemovePlaces(code, places) = kept[n]
  BY <1>2 DEF Removal
<1>4. /\ kept[0] = << >>
      /\ \A i \in 1..n : kept[i] = IF i \in places THEN kept[i - 1]
                                   ELSE Append(kept[i - 1], code[i])
  BY <1>2 DEF Removal
<1>5. \A i \in 0..n : kept[i] \in Seq(S)
  BY <1>2 DEF Removal
<1> HIDE DEF n
<1>6. ASSUME NEW k \in 0..n, \A i \in 1..k : i \notin places
      PROVE  Len(kept[n]) >= k
  <2> DEFINE T == {i \in 0..n : Len(kept[i]) >= IF i <= k THEN i ELSE k}
  <2>1. 0 \in T
    BY <1>1, <1>4
  <2>2. ASSUME NEW i \in 1..n, i - 1 \in T PROVE i \in T
    <3>1. kept[i - 1] \in Seq(S) /\ code[i] \in S /\ Len(kept[i - 1]) \in Nat
      BY <1>1, <1>5
    <3>2. Len(kept[i - 1]) >= IF i - 1 <= k THEN i - 1 ELSE k
      BY <2>2
    <3>3. CASE i \in places
      <4>1. kept[i] = kept[i - 1] /\ ~ (i <= k)
        BY <1>4, <1>6, <3>3
      <4>2. QED
        BY <3>1, <3>2, <4>1, <1>1
    <3>4. CASE i \notin places
      <4>1. kept[i] = Append(kept[i - 1], code[i])
        BY <1>4, <3>4
      <4>2. Len(kept[i]) = Len(kept[i - 1]) + 1
        BY <3>1, <4>1
      <4>3. QED
        BY <3>1, <3>2, <4>2, <1>1
    <3>5. QED
      BY <3>3, <3>4
  <2>3. \A i \in 0..n : i \in T
    <3> HIDE DEF T
    <3>1. QED
      BY <1>1, <2>1, <2>2, StepByStep
  <2>4. n \in T
    BY <1>1, <2>3
  <2>5. Len(kept[n]) \in Nat
    BY <1>1, <1>5
  <2>6. QED
    BY <1>1, <2>4, <2>5
<1>7. kept[n] \in Seq(S)
  BY <1>1, <1>5
<1>8. QED
  BY <1>3, <1>6, <1>7 DEF n

\* What an expression may be made of: no labels, no jumps but calls of functions
\* that have been declared.
JumpOps == {"LABEL", "JUMP", "JUMPIFEQ", "JUMPIFEQS"}

Functions == [Names -> [status : {"none", "declared", "defined"}, params : Seq(Names)]]

ExpressionCode(functions) ==
  {i \in Instructions :
     /\ i.op \notin JumpOps \cup {"RETURN"}
     /\ \/ i.label = NoLabel
        \/ \E f \in Names : functions[f].status # "none" /\ i.label = FunctionLabel(f)}

Tokens == [kind : {"constant", "variable", "other"}, at : Nat]

\* The places of constants and variables are in the code, one after the other.
WellPlaced(code, tokens, functions) ==
  /\ code \in Seq(ExpressionCode(functions)) /\ tokens \in Seq(Tokens)
  /\ \A i \in 1..Len(tokens) : IF tokens[i].kind = "other" THEN tokens[i].at = 0
                               ELSE tokens[i].at \in 1..Len(code)
  /\ \A i, j \in 1..Len(tokens) :
       i < j /\ tokens[j].at # 0 => tokens[i].at < tokens[j].at

LEMMA PlacePushed ==
  ASSUME NEW functions, NEW code, NEW tokens, WellPlaced(code, tokens, functions),
         NEW i \in ExpressionCode(functions), NEW token \in Tokens,
         token.kind # "other", token.at = Len(code) + 1
  PROVE  /\ WellPlaced(Append(code, i), Append(tokens, token), functions)
         /\ Len(Append(tokens, token)) = Len(tokens) + 1
<1> DEFINE C == ExpressionCode(functions)
           longer == Append(code, i)
           more == Append(tokens, token)
<1>1. code \in Seq(C) /\ tokens \in Seq(Tokens) /\ i \in C
  BY DEF WellPlaced
<1>2. Len(code) \in Nat /\ Len(tokens) \in Nat
  BY <1>1
<1>3. token \in Tokens /\ token.kind # "other" /\ token.at = Len(code) + 1
  OBVIOUS
<1> HIDE DEF C
<1>4. longer \in Seq(C) /\ Len(longer) = Len(code) + 1
  BY <1>1
<1>5. /\ more \in Seq(Tokens) /\ Len(more) = Len(tokens) + 1
      /\ more[Len(tokens) + 1] = token
      /\ \A k \in 1..Len(tokens) : more[k] = tokens[k]
  BY <1>1, <1>3
<1> HIDE DEF longer, more
<1>6. /\ \A k \in 1..Len(tokens) : IF tokens[k].kind = "other" THEN tokens[k].at = 0
                                   ELSE tokens[k].at \in 1..Len(code)
      /\ \A j, k \in 1..Len(tokens) :
           j < k /\ tokens[k].at # 0 => tokens[j].at < tokens[k].at
  BY DEF WellPlaced
<1>7. \A k \in 1..Len(more) : k \in 1..Len(tokens) \/ k = Len(tokens) + 1
  BY <1>2, <1>5
<1>8. \A k \in 1..Len(more) : IF more[k].kind = "other" THEN more[k].at = 0
                              ELSE more[k].at \in 1..Len(longer)
  BY <1>2, <1>3, <1>4, <1>5, <1>6, <1>7
<1>9. ASSUME NEW j \in 1..Len(more), NEW k \in 1..Len(more), j < k, more[k].at # 0
      PROVE  more[j].at < more[k].at
  <2>1. j \in 1..Len(tokens)
    BY <1>2, <1>5, <1>9
  <2>2. CASE k \in 1..Len(tokens)
    BY <1>5, <1>6, <1>9, <2>1, <2>2
  <2>3. CASE k = Len(tokens) + 1
    BY <1>2, <1>3, <1>5, <1>6, <2>1, <2>3
  <2>4. QED
    BY <1>7, <2>2, <2>3
<1>10. WellPlaced(longer, more, functions)
  BY <1>4, <1>5, <1>8, <1>9 DEF WellPlaced, C
<1>11. QED
  BY <1>5, <1>10 DEF longer, more

LEMMA PlaceOther ==
  ASSUME NEW functions, NEW code, NEW tokens, WellPlaced(code, tokens, functions),
         NEW longer \in Seq(ExpressionCode(functions)), Len(longer) >= Len(code)
  PROVE  /\ WellPlaced(longer, Append(tokens, Other), functions)
         /\ Len(Append(tokens, Other)) = Len(tokens) + 1
<1> DEFINE C == ExpressionCode(functions)
           more == Append(tokens, Other)
<1>1. code \in Seq(C) /\ tokens \in Seq(Tokens) /\ longer \in Seq(C)
  BY DEF WellPlaced
<1>2. Len(code) \in Nat /\ Len(tokens) \in Nat /\ Len(longer) \in Nat
  BY <1>1
<1>3. Other \in Tokens /\ Other.kind = "other" /\ Other.at = 0
  BY DEF Tokens, Other
<1>4. /\ more \in Seq(Tokens) /\ Len(more) = Len(tokens) + 1
      /\ more[Len(tokens) + 1] = Other
      /\ \A k \in 1..Len(tokens) : more[k] = tokens[k]
  BY <1>1, <1>3
<1> HIDE DEF C, more
<1>5. /\ \A k \in 1..Len(tokens) : IF tokens[k].kind = "other" THEN tokens[k].at = 0
                                   ELSE tokens[k].at \in 1..Len(code)
      /\ \A j, k \in 1..Len(tokens) :
           j < k /\ tokens[k].at # 0 => tokens[j].at < tokens[k].at
  BY DEF WellPlaced
<1>6. \A k \in 1..Len(more) : k \in 1..Len(tokens) \/ k = Len(tokens) + 1
  BY <1>2, <1>4
<1>7. \A k \in 1..Len(more) : IF more[k].kind = "other" THEN more[k].at = 0
                              ELSE more[k].at \in 1..Len(longer)
  BY <1>2, <1>3, <1>4, <1>5, <1>6
<1>8. ASSUME NEW j \in 1..Len(more), NEW k \in 1..Len(more), j < k, more[k].at # 0
      PROVE  more[j].at < more[k].at
  <2>1. j \in 1..Len(tokens) /\ k \in 1..Len(tokens)
    BY <1>2, <1>3, <1>4, <1>6, <1>8
  <2>2. QED
    BY <1>4, <1>5, <1>8, <2>1
<1>9. WellPlaced(longer, more, functions)
  BY <1>1, <1>4, <1>7, <1>8 DEF WellPlaced, C
<1>10. QED
  BY <1>4, <1>9 DEF more

LEMMA PartOf ==
  ASSUME NEW S, NEW t \in Seq(S), NEW a \in Nat, NEW n \in Nat,
         1 <= a, n <= Len(t), NEW k \in Nat, k = n + 1 - a,
         NEW r, r = SubSeq(t, a, n)
  PROVE  /\ r \in Seq(S) /\ Len(r) = k
         /\ \A i \in 1..k : r[i] = t[a + i - 1]
<1>1. \A i \in a..n : t[i] \in S
  OBVIOUS
<1>2. /\ r \in Seq(S) /\ Len(r) = IF a <= n THEN n - a + 1 ELSE 0
      /\ \A i \in 1..n - a + 1 : r[i] = t[a + i - 1]
  BY <1>1, SubSeqProperties
<1>3. n - a + 1 = k /\ (a <= n \/ k = 0)
  OBVIOUS
<1>4. QED
  BY <1>2, <1>3

\* The last k expressions and those below them.
Splits(tokens, below, top, k) ==
  /\ below \in Seq(Tokens) /\ Len(below) = Len(tokens) - k
  /\ \A i \in 1..Len(tokens) - k : below[i] = tokens[i]
  /\ top \in Seq(Tokens) /\ Len(top) = k
  /\ \A i \in 1..k : top[i] = tokens[Len(tokens) - k + i]

LEMMA SplitTokens ==
  ASSUME NEW tokens \in Seq(Tokens), NEW k \in 0..Len(tokens)
  PROVE  Splits(tokens, SubSeq(tokens, 1, Len(tokens) - k),
                SubSeq(tokens, Len(tokens) - k + 1, Len(tokens)), k)
<1> DEFINE n == Len(tokens)
           m == n - k
           a == m + 1
           below == SubSeq(tokens, 1, m)
           top == SubSeq(tokens, a, n)
<1>1. n \in Nat /\ m \in Nat /\ a \in Nat /\ k \in Nat
  OBVIOUS
<1>2. m = m + 1 - 1 /\ m <= Len(tokens) /\ 1 <= 1
  OBVIOUS
<1>3. 1 <= a /\ k = n + 1 - a /\ n <= Len(tokens)
  OBVIOUS
<1>4. (\A i \in 1..m : 1 + i - 1 = i) /\ (\A i \in 1..k : a + i - 1 = m + i)
  OBVIOUS
<1> HIDE DEF a, m, n
<1>5. /\ below \in Seq(Tokens) /\ Len(below) = m
      /\ \A i \in 1..m : below[i] = tokens[1 + i - 1]
  BY <1>1, <1>2, PartOf
<1>6. /\ top \in Seq(Tokens) /\ Len(top) = k
      /\ \A i \in 1..k : top[i] = tokens[a + i - 1]
  BY <1>1, <1>3, PartOf
<1> HIDE DEF below, top
<1>7. Splits(tokens, below, top, k)
  BY <1>4, <1>5, <1>6 DEF Splits, m, n
<1>8. QED
  BY <1>7 DEF below, top, m, n, a

\* The expressions below those a reduction takes, in the code as it was and in
\* the code without the instructions of those it takes.
LEMMA PlacesBelow ==
  ASSUME NEW functions, NEW code, NEW tokens, WellPlaced(code, tokens, functions),
         NEW k \in 0..Len(tokens), NEW below, NEW top, Splits(tokens, below, top, k)
  PROVE  /\ WellPlaced(code, below, functions)
         /\ WellPlaced(RemovePlaces(code, Places(top)), below, functions)
<1> DEFINE C == ExpressionCode(functions)
           n == Len(tokens)
           m == n - k
           removed == RemovePlaces(code, Places(top))
<1>1. code \in Seq(C) /\ tokens \in Seq(Tokens)
  BY DEF WellPlaced
<1>2. Len(code) \in Nat /\ n \in Nat /\ m \in Nat /\ m <= n
      /\ \A i \in 1..n : tokens[i] \in Tokens
  BY <1>1
<1>3. /\ \A i \in 1..n : IF tokens[i].kind = "other" THEN tokens[i].at = 0
                         ELSE tokens[i].at \in 1..Len(code)
      /\ \A i, j \in 1..n : i < j /\ tokens[j].at # 0 => tokens[i].at < tokens[j].at
      /\ \A i \in 1..n : tokens[i].at \in Nat
  BY <1>2 DEF WellPlaced, Tokens
<1>4. /\ below \in Seq(Tokens) /\ Len(below) = m
      /\ \A i \in 1..m : below[i] = tokens[i] /\ i \in 1..n
  BY <1>2 DEF Splits
<1>5. top \in Seq(Tokens) /\ Len(top) = k
      /\ \A i \in 1..k : top[i] = tokens[m + i] /\ m + i \in 1..n
  BY <1>2 DEF Splits
<1>6. \A j \in 1..m, i \in 1..k : j < m + i
  BY <1>2
<1> HIDE DEF C, m, n, removed
<1>7. WellPlaced(code, below, functions)
  BY <1>1, <1>3, <1>4 DEF WellPlaced, C
<1>8. /\ removed \in Seq(C) /\ Len(removed) \in Nat
      /\ \A l \in 0..Len(code) :
           (\A i \in 1..l : i \notin Places(top)) => Len(removed) >= l
  BY <1>1, RemovedPlaces, LenProperties DEF removed
<1>9. ASSUME NEW j \in 1..m, tokens[j].at # 0
      PROVE  tokens[j].at \in 1..Len(removed)
  <2> DEFINE l == tokens[j].at
  <2>1. l \in Nat /\ l # 0 /\ l \in 0..Len(code)
    BY <1>2, <1>3, <1>4, <1>9
  <2>2. ASSUME NEW i \in 1..l, i \in Places(top) PROVE FALSE
    <3>1. PICK q \in 1..k : i = top[q].at
      BY <1>5, <2>2 DEF Places
    <3>2. tokens[m + q].at = i /\ j < m + q /\ m + q \in 1..n /\ j \in 1..n
      BY <1>4, <1>5, <1>6, <3>1
    <3>3. i # 0 /\ l < i
      BY <1>3, <2>1, <3>2
    <3>4. QED
      BY <2>1, <3>3
  <2> HIDE DEF l
  <2>3. Len(removed) >= l
    BY <1>8, <2>1, <2>2
  <2>4. l \in 1..Len(removed)
    BY <1>8, <2>1, <2>3
  <2>5. QED
    BY <2>4 DEF l
<1>10. WellPlaced(removed, below, functions)
  <2>1. \A i \in 1..m : IF below[i].kind = "other" THEN below[i].at = 0
                        ELSE below[i].at \in 1..Len(removed)
    <3>1. \A i \in 1..m : tokens[i].kind # "other" => tokens[i].at # 0
      BY <1>2, <1>3, <1>4
    <3>2. QED
      BY <1>3, <1>4, <1>9, <3>1
  <2>2. QED
    BY <1>4, <1>7, <1>8, <2>1 DEF WellPlaced, C
<1>11. QED
  BY <1>7, <1>10 DEF removed

\* The states between two reductions.
States(functions) ==
  {s \in [code : Seq(ExpressionCode(functions)), tokens : Seq(Tokens),
          refused : BOOLEAN] : WellPlaced(s.code, s.tokens, functions)}

With(s, r, code, tokens) == r = [s EXCEPT !.code = code, !.tokens = tokens]

LEMMA StateWith ==
  ASSUME NEW functions, NEW s \in States(functions), NEW code, NEW tokens,
         WellPlaced(code, tokens, functions), NEW r, With(s, r, code, tokens)
  PROVE  /\ r \in States(functions) /\ r.refused = s.refused
         /\ r.code = code /\ r.tokens = tokens
<1>1. s \in [code : Seq(ExpressionCode(functions)), tokens : Seq(Tokens),
             refused : BOOLEAN]
  BY DEF States
<1>2. code \in Seq(ExpressionCode(functions)) /\ tokens \in Seq(Tokens)
  BY DEF WellPlaced
<1>3. r.code = code /\ r.tokens = tokens /\ r.refused = s.refused
      /\ r \in [code : Seq(ExpressionCode(functions)), tokens : Seq(Tokens),
                refused : BOOLEAN]
  <2> DEFINE d == [s EXCEPT !.code = code]
  <2>1. d \in [code : Seq(ExpressionCode(functions)), tokens : Seq(Tokens),
               refused : BOOLEAN] /\ d.code = code /\ d.refused = s.refused
    BY <1>1, <1>2
  <2>2. r = [d EXCEPT !.tokens = tokens]
    BY DEF With
  <2> HIDE DEF d
  <2>3. QED
    BY <1>2, <2>1, <2>2
<1>4. r \in States(functions)
  BY <1>3 DEF States
<1>5. QED
  BY <1>3, <1>4

LEMMA PushedState ==
  ASSUME NEW functions, NEW s \in States(functions),
         NEW i \in ExpressionCode(functions), NEW kind \in {"constant", "variable"}
  PROVE  /\ Pushed(s, kind, i) \in States(functions)
         /\ Pushed(s, kind, i).refused = s.refused
         /\ Len(Pushed(s, kind, i).tokens) = Len(s.tokens) + 1
<1> DEFINE token == [kind |-> kind, at |-> Len(s.code) + 1]
           code == Append(s.code, i)
           tokens == Append(s.tokens, token)
<1>1. WellPlaced(s.code, s.tokens, functions)
      /\ s.code \in Seq(ExpressionCode(functions))
  BY DEF States
<1>2. token \in Tokens /\ token.kind # "other" /\ token.at = Len(s.code) + 1
  <2>1. Len(s.code) \in Nat
    BY <1>1
  <2>2. QED
    BY <2>1 DEF Tokens
<1> HIDE DEF token
<1>3. WellPlaced(code, tokens, functions) /\ Len(tokens) = Len(s.tokens) + 1
  BY <1>1, <1>2, PlacePushed
<1>4. Pushed(s, kind, i) = [s EXCEPT !.code = code, !.tokens = tokens]
  BY DEF Pushed, token
<1> HIDE DEF code, tokens
<1> DEFINE r == Pushed(s, kind, i)
<1> HIDE DEF r
<1>5. With(s, r, code, tokens)
  BY <1>4 DEF r, With
<1>6. r \in States(functions) /\ r.refused = s.refused /\ r.tokens = tokens
  BY <1>3, <1>5, StateWith
<1>7. QED
  BY <1>3, <1>6 DEF r

LEMMA RefusedState ==
  ASSUME NEW functions, NEW s \in States(functions)
  PROVE  Refuse(s) \in States(functions) /\ Refuse(s).refused
<1> DEFINE r == [s EXCEPT !.refused = TRUE]
<1>1. /\ s \in [code : Seq(ExpressionCode(functions)), tokens : Seq(Tokens),
                refused : BOOLEAN]
      /\ WellPlaced(s.code, s.tokens, functions)
  BY DEF States
<1>2. /\ r \in [code : Seq(ExpressionCode(functions)), tokens : Seq(Tokens),
                refused : BOOLEAN]
      /\ r.code = s.code /\ r.tokens = s.tokens /\ r.refused
  BY <1>1
<1>3. Refuse(s) = r
  BY DEF Refuse
<1> HIDE DEF r
<1>4. QED
  BY <1>1, <1>2, <1>3 DEF States

LEMMA ExpressionInstructions ==
  ASSUME NEW functions
  PROVE  /\ \A o \in Targets, p \in Operands :
              {PushS(p), PopS(o), DefVar(o), Move(o, p)} \subseteq ExpressionCode(functions)
         /\ \A op \in {"ADDS", "CREATEFRAME", "PUSHFRAME", "POPFRAME"} :
              Plain(op) \in ExpressionCode(functions)
         /\ \A f \in Names : functions[f].status # "none" =>
              Call(f) \in ExpressionCode(functions)
<1>1. ASSUME NEW o \in Targets, NEW p \in Operands
      PROVE  {PushS(p), PopS(o), DefVar(o), Move(o, p)} \subseteq ExpressionCode(functions)
  <2>1. {PushS(p), PopS(o), DefVar(o), Move(o, p)} \subseteq Unlabelled
    BY UnlabelledInstructions
  <2>2. \A i \in {PushS(p), PopS(o), DefVar(o), Move(o, p)} :
          i.op \in {"PUSHS", "POPS", "DEFVAR", "MOVE"}
    BY DEF PushS, PopS, DefVar, Move, Instruction
  <2>3. QED
    BY <2>1, <2>2 DEF Unlabelled, ExpressionCode, JumpOps
<1>2. ASSUME NEW op \in {"ADDS", "CREATEFRAME", "PUSHFRAME", "POPFRAME"}
      PROVE  Plain(op) \in ExpressionCode(functions)
  <2>1. Plain(op) \in Instructions
    BY OperandTypes, LabelTypes, InstructionTypes
  <2>2. Plain(op).op = op /\ Plain(op).label = NoLabel
    BY DEF Plain, Instruction
  <2>3. QED
    BY <2>1, <2>2 DEF ExpressionCode, JumpOps
<1>3. ASSUME NEW f \in Names, functions[f].status # "none"
      PROVE  Call(f) \in ExpressionCode(functions)
  <2>1. Call(f) \in Instructions
    BY OperandTypes, LabelTypes, InstructionTypes
  <2>2. Call(f).op = "CALL" /\ Call(f).label = FunctionLabel(f)
    BY DEF Call, Instruction
  <2>3. QED
    BY <1>3, <2>1, <2>2 DEF ExpressionCode, JumpOps
<1>4. QED
  BY <1>1, <1>2, <1>3

\* An operation takes the two expressions on top and leaves one.
LEMMA OperationState ==
  ASSUME NEW functions, NEW s \in States(functions), Len(s.tokens) >= 2
  PROVE  /\ ReduceOperation(s) \in States(functions)
         /\ ReduceOperation(s).refused = s.refused
         /\ Len(ReduceOperation(s).tokens) = Len(s.tokens) - 1
<1> DEFINE below == SubSeq(s.tokens, 1, Len(s.tokens) - 2)
           top == SubSeq(s.tokens, Len(s.tokens) - 2 + 1, Len(s.tokens))
           removed == RemovePlaces(s.code, Places(top))
           left == [s EXCEPT !.code = removed, !.tokens = below]
           longer == Append(s.code, Plain("ADDS"))
           more == Append(below, Other)
<1>1. /\ WellPlaced(s.code, s.tokens, functions) /\ s.tokens \in Seq(Tokens)
      /\ s.code \in Seq(ExpressionCode(functions))
  BY DEF States
<1>2. 2 \in 0..Len(s.tokens) /\ Len(s.tokens) \in Nat
      /\ Len(s.tokens) - 2 + 1 = Len(s.tokens) - 1
  BY <1>1
<1>3. Splits(s.tokens, below, top, 2)
  BY <1>1, <1>2, SplitTokens
<1>4. ReduceOperation(s) =
        IF \A i \in 1..2 : top[i].kind = "constant"
        THEN Pushed(left, "constant", PushS(Literal))
        ELSE [s EXCEPT !.code = longer, !.tokens = more]
  BY <1>2 DEF ReduceOperation
<1> HIDE DEF below, top, removed
<1>5. WellPlaced(s.code, below, functions) /\ WellPlaced(removed, below, functions)
      /\ Len(below) = Len(s.tokens) - 2
  <2>1. WellPlaced(s.code, below, functions) /\ WellPlaced(removed, below, functions)
    BY <1>1, <1>2, <1>3, PlacesBelow DEF removed
  <2>2. QED
    BY <2>1, <1>3 DEF Splits
<1>6. /\ PushS(Literal) \in ExpressionCode(functions)
      /\ Plain("ADDS") \in ExpressionCode(functions)
  BY OperandTypes, ExpressionInstructions
<1>7. left \in States(functions) /\ left.tokens = below /\ left.refused = s.refused
  <2>1. With(s, left, removed, below)
    BY DEF With
  <2> HIDE DEF left
  <2>2. QED
    BY <1>5, <2>1, StateWith
<1> HIDE DEF left
<1>8. /\ Pushed(left, "constant", PushS(Literal)) \in States(functions)
      /\ Pushed(left, "constant", PushS(Literal)).refused = s.refused
      /\ Len(Pushed(left, "constant", PushS(Literal)).tokens) = Len(s.tokens) - 1
  <2>1. Len(s.tokens) - 2 + 1 = Len(s.tokens) - 1
    BY <1>2
  <2>2. QED
    BY ZenonT(90), <1>5, <1>6, <1>7, <2>1, PushedState
<1>9. longer \in Seq(ExpressionCode(functions)) /\ Len(longer) >= Len(s.code)
  BY <1>1, <1>6
<1> HIDE DEF longer
<1>10. WellPlaced(longer, more, functions) /\ Len(more) = Len(s.tokens) - 1
  BY <1>2, <1>5, <1>9, PlaceOther
<1> HIDE DEF more
<1> DEFINE computed == [s EXCEPT !.code = longer, !.tokens = more]
<1>11. /\ computed \in States(functions) /\ computed.refused = s.refused
       /\ computed.tokens = more
  <2>1. With(s, computed, longer, more)
    BY DEF With
  <2> HIDE DEF computed
  <2>2. QED
    BY <1>10, <2>1, StateWith
<1> HIDE DEF computed
<1>12. ReduceOperation(s) = computed
       \/ ReduceOperation(s) = Pushed(left, "constant", PushS(Literal))
  BY <1>4 DEF computed
<1>13. QED
  BY <1>8, <1>10, <1>11, <1>12

\* The cell of a parameter, and the two instructions that fill it.
LEMMA PassedArgument ==
  ASSUME NEW functions, NEW f \in Names, NEW params \in Seq(Names),
         NEW i \in 1..Len(params),
         NEW code \in Seq(ExpressionCode(functions)), NEW token \in Tokens,
         token.kind # "other" => token.at \in 1..Len(code)
  PROVE  PassArgument(ParameterOperand(f, params, i), token, code)
           \in Seq(ExpressionCode(functions))
<1> DEFINE operand == ParameterOperand(f, params, i)
           C == ExpressionCode(functions)
           fill == IF token.kind = "other" THEN PopS(operand)
                   ELSE Move(operand, code[token.at].source)
           variable == Parameter(0, f, params, params[i], 0)
<1>1. operand \in Targets
  <2>1. params[i] \in ParameterNames(params) /\ params[i] \in Names
    BY DEF ParameterNames
  <2>2. ParameterIndex(params, params[i]) \in Nat
    BY <2>1, ParameterIndexIsAnIndex
  <2>3. EmptyTable(0, f) \in Table
    BY EmptyTableType
  <2>4. variable \in Variable
    BY <2>1, <2>2, <2>3, NewVariableType DEF Parameter
  <2>5. Identity(variable) \in Identities
    BY <2>4, IdentityType
  <2> HIDE DEF variable
  <2>6. operand = Operand("TF", Cell(Identity(variable), FALSE))
    BY DEF ParameterOperand, variable
  <2>7. QED
    BY <2>5, <2>6 DEF Operand, Operands, Targets, Cell, Cells
<1>2. PassArgument(operand, token, code) = <<DefVar(operand), fill>>
  BY DEF PassArgument
<1> HIDE DEF operand
<1>3. fill \in C
  <2>1. CASE token.kind = "other"
    BY <1>1, <2>1, OperandTypes, ExpressionInstructions
  <2>2. CASE token.kind # "other"
    <3>1. code[token.at] \in Instructions
      BY <2>2 DEF ExpressionCode
    <3>2. code[token.at].source \in Operands
      BY <3>1 DEF Instructions
    <3>3. QED
      BY <1>1, <2>2, <3>2, ExpressionInstructions
  <2>3. QED
    BY <2>1, <2>2
<1>4. DefVar(operand) \in C
  BY <1>1, OperandTypes, ExpressionInstructions
<1> HIDE DEF fill, C
<1>5. <<DefVar(operand), fill>> \in Seq(C)
  BY <1>3, <1>4
<1>6. QED
  BY <1>2, <1>5 DEF operand, C

\* The code of a call: the arguments are passed one after the other, the last
\* one first.
Arguments(s, count) == SubSeq(s.tokens, Len(s.tokens) - count + 1, Len(s.tokens))

Beneath(s, count) == SubSeq(s.tokens, 1, Len(s.tokens) - count)

PassingOf(s, functions, f, count, i) ==
  PassArgument(ParameterOperand(f, functions[f].params, i), Arguments(s, count)[i], s.code)

CallItself(f) == <<Plain("PUSHFRAME"), Call(f), Plain("POPFRAME")>>

Called(s, functions, f, count, passed) ==
  /\ passed[0] = <<Plain("CREATEFRAME")>>
  /\ \A k \in 1..count :
       passed[k] = passed[k - 1] \o PassingOf(s, functions, f, count, count + 1 - k)
  /\ \A k \in 0..count : passed[k] \in Seq(ExpressionCode(functions))
  /\ \A i \in 1..count :
       PassingOf(s, functions, f, count, i) \in Seq(ExpressionCode(functions))
  /\ ReduceCall(s, functions, f, count) =
       [s EXCEPT !.code = RemovePlaces(s.code, Places(Arguments(s, count)))
                            \o passed[count] \o CallItself(f),
                 !.tokens = Append(Beneath(s, count), Other)]

LEMMA CallCode ==
  ASSUME NEW functions \in Functions, NEW s \in States(functions), NEW f \in Names,
         NEW count \in Nat, Len(s.tokens) >= count,
         ~ (functions[f].status = "none" \/ Len(functions[f].params) # count)
  PROVE  \E passed : Called(s, functions, f, count, passed)
<1> DEFINE C == ExpressionCode(functions)
           n == Len(s.tokens)
           params == functions[f].params
           below == SubSeq(s.tokens, 1, n - count)
           arguments == SubSeq(s.tokens, n - count + 1, n)
           Passing(i) ==
             PassArgument(ParameterOperand(f, params, i), arguments[i], s.code)
           first == <<Plain("CREATEFRAME")>>
           Rule(h) == [k \in 0..count |->
                         IF k = 0 THEN first ELSE h[k - 1] \o Passing(count + 1 - k)]
           passed == CHOOSE h : h = Rule(h)
           removed == RemovePlaces(s.code, Places(arguments))
           last == <<Plain("PUSHFRAME"), Call(f), Plain("POPFRAME")>>
           code == removed \o passed[count] \o last
           tokens == Append(below, Other)
<1>1. /\ s.code \in Seq(C) /\ s.tokens \in Seq(Tokens) /\ s.refused \in BOOLEAN
      /\ WellPlaced(s.code, s.tokens, functions)
      /\ s \in [code : Seq(C), tokens : Seq(Tokens), refused : BOOLEAN]
  BY DEF States
<1>2. params \in Seq(Names)
  BY DEF Functions
<1>3. n \in Nat /\ count \in 0..n
  BY <1>1
<1>4. ReduceCall(s, functions, f, count) =
        IF functions[f].status = "none" \/ Len(params) # count THEN Refuse(s)
        ELSE [s EXCEPT !.code = code, !.tokens = tokens]
  BY DEF ReduceCall
<1>5. ~ (functions[f].status = "none" \/ Len(params) # count)
  OBVIOUS
<1>6. Splits(s.tokens, below, arguments, count)
  BY <1>1, <1>3, SplitTokens
<1> HIDE DEF below, removed, n
<1>7. ASSUME NEW i \in 1..count PROVE Passing(i) \in Seq(C)
  <2>1. arguments[i] \in Tokens /\ arguments[i] = s.tokens[n - count + i]
        /\ n - count + i \in 1..n
    <3> HIDE DEF arguments
    <3>1. QED
      BY <1>3, <1>6 DEF Splits, n
  <2> HIDE DEF arguments, params
  <2>2. arguments[i].kind # "other" => arguments[i].at \in 1..Len(s.code)
    BY <1>1, <2>1 DEF WellPlaced, n
  <2>3. i \in 1..Len(params)
    BY <1>5
  <2>4. QED
    BY <1>1, <1>2, <2>1, <2>2, <2>3, PassedArgument
<1>8. first \in Seq(C) /\ last \in Seq(C)
  <2>1. /\ Plain("CREATEFRAME") \in C /\ Plain("PUSHFRAME") \in C
        /\ Plain("POPFRAME") \in C /\ Call(f) \in C
    BY <1>5, ExpressionInstructions
  <2> HIDE DEF C
  <2>2. QED
    BY <2>1
<1>9. /\ passed[0] = first
      /\ \A k \in 1..count : passed[k] = passed[k - 1] \o Passing(count + 1 - k)
      /\ \A k \in 0..count : passed[k] \in Seq(C)
  <2> DEFINE parts == [k \in 1..count |-> Passing(count + 1 - k)]
             kinds == [k \in 0..count |-> Seq(C)]
             steps == [k \in 1..count |-> [t \in Seq(C) |-> t \o parts[k]]]
  <2> HIDE DEF first, C
  <2>1. \A k \in 1..count : parts[k] = Passing(count + 1 - k) /\ parts[k] \in Seq(C)
    <3>1. \A k \in 1..count : count + 1 - k \in 1..count
      OBVIOUS
    <3> HIDE DEF Passing
    <3>2. \A k \in 1..count : parts[k] = Passing(count + 1 - k)
      OBVIOUS
    <3> HIDE DEF parts
    <3>3. QED
      BY <1>7, <3>1, <3>2
  <2> HIDE DEF parts, arguments, params
  <2>2. \E h : h = Rule(h)
    <3>1. /\ \A k \in 0..count : kinds[k] = Seq(C)
          /\ \A k \in 1..count : k \in 0..count /\ k - 1 \in 0..count
      OBVIOUS
    <3>2. \A k \in 1..count, t \in Seq(C) : steps[k][t] = t \o parts[k]
      OBVIOUS
    <3>3. \A k \in 1..count, t \in Seq(C) : t \o parts[k] \in Seq(C)
      BY <2>1, ConcatProperties
    <3> HIDE DEF kinds, steps
    <3>4. first \in kinds[0]
      BY <1>8, <3>1
    <3>5. \A k \in 1..count : \A t \in kinds[k - 1] : steps[k][t] \in kinds[k]
      <4>1. \A k \in 1..count : kinds[k - 1] = Seq(C) /\ kinds[k] = Seq(C)
        BY <3>1
      <4>2. ASSUME NEW k \in 1..count, NEW t \in Seq(C) PROVE steps[k][t] \in Seq(C)
        BY <3>2, <3>3
      <4>3. QED
        BY <4>1, <4>2
    <3>6. PICK h : Iterates(h, count, kinds, first, steps)
      BY <3>4, <3>5, IterationExists
    <3>7. /\ h[0] = first /\ h = [k \in 0..count |-> h[k]]
          /\ \A k \in 1..count : h[k] = steps[k][h[k - 1]]
          /\ \A k \in 0..count : h[k] \in kinds[k]
      BY <3>6 DEF Iterates
    <3>8. \A k \in 1..count : h[k] = h[k - 1] \o parts[k]
      BY ZenonT(90), <3>1, <3>2, <3>7
    <3> HIDE DEF Passing
    <3>9. ASSUME NEW k \in 0..count
          PROVE  h[k] = IF k = 0 THEN first ELSE h[k - 1] \o Passing(count + 1 - k)
      <4>1. CASE k = 0
        BY <3>7, <4>1
      <4>2. CASE k \in 1..count
        <5>1. h[k] = h[k - 1] \o parts[k]
          BY <3>8, <4>2, Zenon
        <5>5. k # 0
          BY <4>2
        <5>2. parts[k] = Passing(count + 1 - k)
          BY <2>1, <4>2
        <5>3. h[k] = h[k - 1] \o Passing(count + 1 - k)
          BY <5>1, <5>2, Zenon
        <5>4. QED
          BY <5>5, <5>3, Zenon
      <4>3. QED
        BY <4>1, <4>2
    <3>10. h = Rule(h)
      BY <3>7, <3>9
    <3>11. QED
      BY <3>10
  <2>3. passed = Rule(passed)
    BY <2>2
  <2> HIDE DEF passed, Passing
  <2>4. /\ passed[0] = first
        /\ \A k \in 1..count : passed[k] = passed[k - 1] \o parts[k]
    <3>1. \A k \in 0..count : passed[k] = Rule(passed)[k]
      BY <2>3
    <3>2. passed[0] = first
      BY <3>1
    <3>3. ASSUME NEW k \in 1..count PROVE passed[k] = passed[k - 1] \o parts[k]
      <4>1. k \in 0..count /\ k # 0
        OBVIOUS
      <4>2. passed[k] = IF k = 0 THEN first
                        ELSE passed[k - 1] \o Passing(count + 1 - k)
        BY <3>1, <4>1, Zenon
      <4>3. parts[k] = Passing(count + 1 - k)
        BY <2>1
      <4>4. QED
        BY <4>1, <4>2, <4>3, Zenon
    <3>4. QED
      BY <3>2, <3>3
  <2> HIDE DEF Rule
  <2> DEFINE T == {k \in 0..count : passed[k] \in Seq(C)}
  <2>5. 0 \in T
    BY <1>8, <2>4
  <2>6. ASSUME NEW k \in 1..count, k - 1 \in T PROVE k \in T
    <3>1. passed[k - 1] \in Seq(C) /\ parts[k] \in Seq(C)
      BY <2>1, <2>6
    <3>2. passed[k - 1] \o parts[k] \in Seq(C)
      BY <3>1, ConcatProperties
    <3>3. passed[k] \in Seq(C)
      BY <2>4, <3>2
    <3>4. QED
      BY <3>3
  <2>7. \A k \in 0..count : k \in T
    <3> HIDE DEF T
    <3>1. QED
      BY <2>5, <2>6, StepByStep
  <2>8. \A k \in 1..count : passed[k] = passed[k - 1] \o Passing(count + 1 - k)
    BY <2>1, <2>4
  <2>9. \A k \in 0..count : passed[k] \in Seq(C)
    BY <2>7
  <2>10. QED
    BY <2>4, <2>8, <2>9
<1> HIDE DEF passed
<1>10. /\ arguments = Arguments(s, count) /\ below = Beneath(s, count)
       /\ last = CallItself(f) /\ removed = RemovePlaces(s.code, Places(arguments))
       /\ \A i \in 1..count : Passing(i) = PassingOf(s, functions, f, count, i)
  BY DEF Arguments, Beneath, CallItself, PassingOf, below, removed, n
<1>11. ReduceCall(s, functions, f, count) = [s EXCEPT !.code = code, !.tokens = tokens]
  BY <1>4, <1>5
<1>12. \A k \in 1..count : count + 1 - k \in 1..count
  OBVIOUS
<1> HIDE DEF arguments, Passing, first, last, params
<1>13. /\ \A k \in 1..count :
             passed[k] = passed[k - 1] \o PassingOf(s, functions, f, count, count + 1 - k)
       /\ \A i \in 1..count : PassingOf(s, functions, f, count, i) \in Seq(C)
  BY <1>7, <1>9, <1>10, <1>12
<1>14. Called(s, functions, f, count, passed)
  BY <1>9, <1>10, <1>11, <1>13 DEF Called, first
<1>15. QED
  BY <1>14

\* A call takes its arguments and leaves one expression, or is refused.
LEMMA CallState ==
  ASSUME NEW functions \in Functions, NEW s \in States(functions), NEW f \in Names,
         NEW count \in Nat, Len(s.tokens) >= count
  PROVE  /\ ReduceCall(s, functions, f, count) \in States(functions)
         /\ ~ReduceCall(s, functions, f, count).refused =>
              Len(ReduceCall(s, functions, f, count).tokens) = Len(s.tokens) - count + 1
<1> DEFINE C == ExpressionCode(functions)
           n == Len(s.tokens)
           below == Beneath(s, count)
           arguments == Arguments(s, count)
           removed == RemovePlaces(s.code, Places(arguments))
           last == CallItself(f)
           r == ReduceCall(s, functions, f, count)
<1>1. /\ s.code \in Seq(C) /\ s.tokens \in Seq(Tokens) /\ s.refused \in BOOLEAN
      /\ WellPlaced(s.code, s.tokens, functions)
  BY DEF States
<1>2. n \in Nat /\ count \in 0..n
  BY <1>1
<1>3. Refuse(s) \in States(functions) /\ Refuse(s).refused
  BY SMTT(90), RefusedState
<1>4. CASE functions[f].status = "none" \/ Len(functions[f].params) # count
  <2>1. r = Refuse(s)
    BY <1>4 DEF ReduceCall
  <2>2. QED
    BY <1>3, <2>1
<1>5. CASE ~ (functions[f].status = "none" \/ Len(functions[f].params) # count)
  <2>1. Splits(s.tokens, below, arguments, count)
    BY <1>1, <1>2, SplitTokens DEF Beneath, Arguments
  <2>2. PICK passed : Called(s, functions, f, count, passed)
    BY <1>5, CallCode
  <2> DEFINE a == passed[count]
             joined == removed \o a
             code == joined \o last
             tokens == Append(below, Other)
  <2>3. r = [s EXCEPT !.code = code, !.tokens = tokens] /\ a \in Seq(C)
    BY <2>2 DEF Called
  <2> HIDE DEF below, arguments, r
  <2>4. WellPlaced(s.code, below, functions) /\ WellPlaced(removed, below, functions)
    BY <1>1, <1>2, <2>1, PlacesBelow
  <2>5. last \in Seq(C)
    <3>1. Plain("PUSHFRAME") \in C /\ Plain("POPFRAME") \in C /\ Call(f) \in C
      BY <1>5, ExpressionInstructions
    <3> HIDE DEF C
    <3>2. QED
      BY <3>1 DEF CallItself
  <2> HIDE DEF removed, last, a, C
  <2>6. code \in Seq(C) /\ Len(code) >= Len(removed)
    <3>1. removed \in Seq(C)
      BY <2>4 DEF WellPlaced, C
    <3>2. joined \in Seq(C) /\ Len(joined) = Len(removed) + Len(a)
      BY <2>3, <3>1, ConcatProperties
    <3> HIDE DEF joined
    <3>3. code \in Seq(C) /\ Len(code) = Len(joined) + Len(last)
      BY ZenonT(90), <2>5, <3>2, ConcatProperties
    <3>4. Len(removed) \in Nat /\ Len(a) \in Nat /\ Len(last) \in Nat
      BY <2>3, <2>5, <3>1
    <3>5. QED
      BY <3>2, <3>3, <3>4
  <2> HIDE DEF code
  <2>7. WellPlaced(code, tokens, functions) /\ Len(tokens) = Len(below) + 1
    <3>1. code \in Seq(ExpressionCode(functions))
      BY <2>6 DEF C
    <3>2. QED
      BY <2>4, <2>6, <3>1, PlaceOther
  <2> HIDE DEF tokens
  <2>8. Len(tokens) = n - count + 1
    BY <2>1, <2>7 DEF Splits, n
  <2>9. With(s, r, code, tokens)
    BY <2>3 DEF With
  <2>10. r \in States(functions) /\ r.tokens = tokens
    BY <2>7, <2>9, StateWith
  <2>11. QED
    BY <2>8, <2>10 DEF r, n
<1>6. QED
  BY <1>4, <1>5

\* One reduction: it takes as many expressions as it says, or refuses.
LEMMA ReducedState ==
  ASSUME NEW functions \in Functions, NEW stack \in Seq(Table), NEW globals,
         NEW s \in States(functions), NEW r, IsReduction(r),
         ~s.refused => Len(s.tokens) >= r.count
  PROVE  /\ Reduce(s, stack, globals, functions, r) \in States(functions)
         /\ ~Reduce(s, stack, globals, functions, r).refused =>
              /\ ~s.refused
              /\ Len(Reduce(s, stack, globals, functions, r).tokens)
                   = Len(s.tokens) - r.count + 1
<1> DEFINE result == Reduce(s, stack, globals, functions, r)
<1>1. Len(s.tokens) \in Nat
  BY DEF States
<1>2. CASE s.refused
  BY <1>2 DEF Reduce
<1>3. CASE ~s.refused /\ r = LiteralToken
  <2>1. r.rule = "literal" /\ r.count = 0
    BY <1>3 DEF LiteralToken, Reduction
  <2>2. result = Pushed(s, "constant", PushS(Literal))
    BY <1>3, <2>1 DEF Reduce
  <2> HIDE DEF result
  <2>3. PushS(Literal) \in ExpressionCode(functions)
    BY OperandTypes, ExpressionInstructions
  <2>4. /\ result \in States(functions) /\ result.refused = s.refused
        /\ Len(result.tokens) = Len(s.tokens) + 1
    BY <2>2, <2>3, PushedState
  <2>5. QED
    BY <1>1, <1>3, <2>1, <2>4 DEF result
<1>4. ASSUME ~s.refused, NEW name \in Names, r = IdentifierToken(name)
      PROVE  /\ result \in States(functions)
             /\ ~result.refused => Len(result.tokens) = Len(s.tokens) - r.count + 1
  <2>1. r.rule = "identifier" /\ r.count = 0 /\ r.name = name
    BY <1>4 DEF IdentifierToken, Reduction
  <2> DEFINE operand == VariableOperand(Find(stack, name), globals)
  <2>2. result = IF Find(stack, name) = NoVariable THEN Refuse(s)
                 ELSE Pushed(s, "variable", PushS(operand))
    BY <1>4, <2>1 DEF Reduce, ReduceIdentifier
  <2> HIDE DEF result
  <2>3. CASE Find(stack, name) = NoVariable
    BY <2>2, <2>3, RefusedState
  <2>4. CASE Find(stack, name) # NoVariable
    <3>1. Find(stack, name) \in Variable
      BY <2>4, FindType
    <3>2. operand \in Operands
      BY <3>1, OperandTypes
    <3> HIDE DEF operand
    <3>3. PushS(operand) \in ExpressionCode(functions)
      BY <3>2, OperandTypes, ExpressionInstructions
    <3>4. /\ result \in States(functions) /\ result.refused = s.refused
          /\ Len(result.tokens) = Len(s.tokens) + 1
      BY <2>2, <2>4, <3>3, PushedState
    <3>5. QED
      BY <1>1, <2>1, <3>4
  <2>5. QED
    BY <2>3, <2>4
<1>5. CASE ~s.refused /\ r = Operation
  <2>1. r.rule = "operation" /\ r.count = 2
    BY <1>5 DEF Operation, Reduction
  <2>2. result = ReduceOperation(s)
    BY <1>5, <2>1 DEF Reduce
  <2> HIDE DEF result
  <2>3. /\ result \in States(functions) /\ result.refused = s.refused
        /\ Len(result.tokens) = Len(s.tokens) - 1
    BY <1>5, <2>1, <2>2, OperationState
  <2>4. QED
    BY <1>1, <1>5, <2>1, <2>3 DEF result
<1>6. ASSUME ~s.refused, NEW f \in Names, r.count \in Nat, r = CallOf(f, r.count)
      PROVE  /\ result \in States(functions)
             /\ ~result.refused => Len(result.tokens) = Len(s.tokens) - r.count + 1
  <2> DEFINE count == r.count
  <2>1. r.rule = "call" /\ r.name = f
    BY <1>6 DEF CallOf, Reduction
  <2>2. result = ReduceCall(s, functions, f, count)
    BY <1>6, <2>1 DEF Reduce
  <2>3. count \in Nat /\ Len(s.tokens) >= count
    BY <1>6
  <2> HIDE DEF result, count
  <2>4. /\ result \in States(functions)
        /\ ~result.refused => Len(result.tokens) = Len(s.tokens) - count + 1
    BY <2>2, <2>3, CallState
  <2>5. QED
    BY <2>4 DEF count
<1>7. QED
  BY <1>2, <1>3, <1>4, <1>5, <1>6 DEF IsReduction

-----------------------------------------------------------------------------
(* How much is on the stack.  A level is what a part of the program has     *)
(* there at one of its places, and how many frames it has pushed.  Place i *)
(* of a list is before its instruction i + 1.                              *)

Levels == [height : Nat, frames : {0, 1}]

Level(height, frames) == [height |-> height, frames |-> frames]

Ground == Level(0, 0)

Quiet == {"DEFVAR", "MOVE", "READ", "WRITE", "CREATEFRAME"}

\* An instruction finds x and leaves y.  Jumps start and end with nothing on
\* the stack, a function ends with its value there.
Takes(i, x, y) ==
  \/ i.op \in Quiet /\ y = x
  \/ i.op = "PUSHS" /\ y = Level(x.height + 1, x.frames)
  \/ i.op = "POPS" /\ x.height >= 1 /\ y = Level(x.height - 1, x.frames)
  \/ i.op = "ADDS" /\ x.height >= 2 /\ y = Level(x.height - 1, x.frames)
  \/ i.op \in {"LABEL", "JUMP", "JUMPIFEQ"} /\ x = Ground /\ y = Ground
  \/ i.op = "JUMPIFEQS" /\ x = Level(2, 0) /\ y = Ground
  \/ i.op = "RETURN" /\ x = Level(1, 0) /\ y = Ground
  \/ i.op = "PUSHFRAME" /\ x.frames = 0 /\ y = Level(x.height, 1)
  \/ /\ i.op = "CALL" /\ i.label.type = "function"
     /\ x.frames = 1 /\ y = Level(x.height + 1, 1)
  \/ i.op = "POPFRAME" /\ x.frames = 1 /\ y = Level(x.height, 0)

\* From one place of a list to a later one.
Passes(code, from, to, x, y) ==
  \E at \in [from..to -> Levels] :
    /\ at[from] = x /\ at[to] = y
    /\ \A k \in from + 1..to : Takes(code[k], at[k - 1], at[k])

Carries(code, x, y) == Passes(code, 0, Len(code), x, y)

LEMMA LevelType ==
  /\ \A h \in Nat, f \in {0, 1} :
       /\ Level(h, f) \in Levels
       /\ Level(h, f).height = h /\ Level(h, f).frames = f
  /\ Ground \in Levels /\ Ground.height = 0 /\ Ground.frames = 0
  /\ \A x \in Levels : /\ x.height \in Nat /\ x.frames \in {0, 1}
                       /\ x = Level(x.height, x.frames)
BY DEF Level, Levels, Ground

LEMMA PassesEnds ==
  ASSUME NEW code, NEW i \in Nat, NEW j \in Nat, i <= j, NEW x, NEW y,
         Passes(code, i, j, x, y)
  PROVE  x \in Levels /\ y \in Levels
BY DEF Passes

LEMMA PassesNone ==
  ASSUME NEW code, NEW i \in Nat, NEW x \in Levels
  PROVE  Passes(code, i, i, x, x)
<1> DEFINE at == [k \in i..i |-> x]
<1>1. at \in [i..i -> Levels] /\ at[i] = x /\ i + 1..i = {}
  OBVIOUS
<1> HIDE DEF at
<1>2. QED
  BY <1>1 DEF Passes

LEMMA PassesOne ==
  ASSUME NEW code, NEW i \in Nat, NEW j, j = i + 1, NEW x \in Levels, NEW y \in Levels,
         Takes(code[j], x, y)
  PROVE  Passes(code, i, j, x, y)
<1> DEFINE at == [k \in i..j |-> IF k = i THEN x ELSE y]
<1>1. at \in [i..j -> Levels] /\ at[i] = x /\ at[j] = y
  OBVIOUS
<1>2. \A k \in i + 1..j : k = j /\ k - 1 = i
  OBVIOUS
<1> HIDE DEF at
<1>3. QED
  BY <1>1, <1>2 DEF Passes

LEMMA PassesJoin ==
  ASSUME NEW code, NEW i \in Nat, NEW j \in Nat, NEW n \in Nat, i <= j, j <= n,
         NEW x, NEW y, NEW z, Passes(code, i, j, x, y), Passes(code, j, n, y, z)
  PROVE  Passes(code, i, n, x, z)
<1>1. PICK a \in [i..j -> Levels] :
        /\ a[i] = x /\ a[j] = y
        /\ \A k \in i + 1..j : Takes(code[k], a[k - 1], a[k])
  BY DEF Passes
<1>2. PICK b \in [j..n -> Levels] :
        /\ b[j] = y /\ b[n] = z
        /\ \A k \in j + 1..n : Takes(code[k], b[k - 1], b[k])
  BY DEF Passes
<1> DEFINE at == [k \in i..n |-> IF k <= j THEN a[k] ELSE b[k]]
<1>3. at \in [i..n -> Levels]
  OBVIOUS
<1>4. /\ \A k \in i..j : at[k] = a[k]
      /\ \A k \in j..n : at[k] = b[k]
  BY <1>1, <1>2
<1>5. at[i] = x /\ at[n] = z
  BY <1>1, <1>2, <1>4
<1> HIDE DEF at
<1>6. ASSUME NEW k \in i + 1..n PROVE Takes(code[k], at[k - 1], at[k])
  <2>1. CASE k <= j
    <3>1. k \in i + 1..j /\ k \in i..j /\ k - 1 \in i..j
      BY <2>1
    <3>2. QED
      BY <1>1, <1>4, <3>1, Zenon
  <2>2. CASE ~ (k <= j)
    <3>1. k \in j + 1..n /\ k \in j..n /\ k - 1 \in j..n
      BY <2>2
    <3>2. QED
      BY <1>2, <1>4, <3>1, Zenon
  <2>3. QED
    BY <2>1, <2>2
<1>7. QED
  BY <1>3, <1>5, <1>6 DEF Passes

LEMMA PassesSplit ==
  ASSUME NEW code, NEW i \in Nat, NEW j \in Nat, NEW n \in Nat, i <= j, j <= n,
         NEW x, NEW z, Passes(code, i, n, x, z)
  PROVE  \E y \in Levels : Passes(code, i, j, x, y) /\ Passes(code, j, n, y, z)
<1>1. PICK at \in [i..n -> Levels] :
        /\ at[i] = x /\ at[n] = z
        /\ \A k \in i + 1..n : Takes(code[k], at[k - 1], at[k])
  BY DEF Passes
<1> DEFINE a == [k \in i..j |-> at[k]]
           b == [k \in j..n |-> at[k]]
<1>2. a \in [i..j -> Levels] /\ b \in [j..n -> Levels] /\ at[j] \in Levels
  OBVIOUS
<1>3. (\A k \in i..j : a[k] = at[k]) /\ (\A k \in j..n : b[k] = at[k])
  OBVIOUS
<1> HIDE DEF a, b
<1>4. Passes(code, i, j, x, at[j])
  <2>1. \A k \in i + 1..j : k \in i..j /\ k - 1 \in i..j /\ k \in i + 1..n
    OBVIOUS
  <2>2. a[i] = x /\ a[j] = at[j]
    BY <1>1, <1>3
  <2>3. \A k \in i + 1..j : Takes(code[k], a[k - 1], a[k])
    BY <1>1, <1>3, <2>1, Zenon
  <2>4. QED
    BY <1>2, <2>2, <2>3 DEF Passes
<1>5. Passes(code, j, n, at[j], z)
  <2>1. \A k \in j + 1..n : k \in j..n /\ k - 1 \in j..n /\ k \in i + 1..n
    OBVIOUS
  <2>2. b[j] = at[j] /\ b[n] = z
    BY <1>1, <1>3
  <2>3. \A k \in j + 1..n : Takes(code[k], b[k - 1], b[k])
    BY <1>1, <1>3, <2>1, Zenon
  <2>4. QED
    BY <1>2, <2>2, <2>3 DEF Passes
<1>6. QED
  BY <1>2, <1>4, <1>5

\* The same instructions elsewhere.
LEMMA PassesMoved ==
  ASSUME NEW code, NEW other, NEW i \in Nat, NEW j \in Nat, i <= j,
         NEW m \in Nat, NEW n \in Nat, n - m = j - i, NEW x, NEW y,
         Passes(code, i, j, x, y),
         \A k \in i + 1..j : other[m - i + k] = code[k]
  PROVE  Passes(other, m, n, x, y)
<1>1. PICK a \in [i..j -> Levels] :
        /\ a[i] = x /\ a[j] = y
        /\ \A k \in i + 1..j : Takes(code[k], a[k - 1], a[k])
  BY DEF Passes
<1> DEFINE at == [k \in m..n |-> a[k - m + i]]
<1>2. at \in [m..n -> Levels] /\ at[m] = x /\ at[n] = y
  <2>1. \A k \in m..n : k - m + i \in i..j
    OBVIOUS
  <2>2. m - m + i = i /\ n - m + i = j /\ m \in m..n /\ n \in m..n
    OBVIOUS
  <2>3. QED
    BY <1>1, <2>1, <2>2
<1>3. ASSUME NEW k \in m + 1..n PROVE Takes(other[k], at[k - 1], at[k])
  <2> DEFINE l == k - m + i
  <2>1. /\ l \in i + 1..j /\ m - i + l = k
        /\ k \in m..n /\ k - 1 \in m..n /\ k - 1 - m + i = l - 1
    OBVIOUS
  <2>2. at[k] = a[l] /\ at[k - 1] = a[l - 1]
    BY <2>1
  <2> HIDE DEF l, at
  <2>3. other[k] = code[l]
    BY <2>1
  <2>4. QED
    BY <1>1, <2>1, <2>2, <2>3, Zenon
<1> HIDE DEF at
<1>4. QED
  BY <1>2, <1>3 DEF Passes

LEMMA CarriesNone ==
  ASSUME NEW x \in Levels
  PROVE  Carries(<< >>, x, x)
<1>1. Len(<< >>) = 0 /\ 0 \in Nat
  OBVIOUS
<1>2. QED
  BY <1>1, PassesNone DEF Carries

LEMMA CarriesOne ==
  ASSUME NEW i, NEW x \in Levels, NEW y \in Levels, Takes(i, x, y)
  PROVE  Carries(<<i>>, x, y)
<1>1. Len(<<i>>) = 1 /\ <<i>>[1] = i /\ 1 = 0 + 1 /\ 0 \in Nat
  OBVIOUS
<1>2. QED
  BY <1>1, PassesOne DEF Carries

LEMMA CarriesJoined ==
  ASSUME NEW S, NEW a \in Seq(S), NEW b \in Seq(S), NEW x, NEW y, NEW z,
         Carries(a, x, y), Carries(b, y, z)
  PROVE  Carries(a \o b, x, z)
<1> DEFINE c == a \o b
           m == Len(a)
           n == Len(c)
<1>1. /\ m \in Nat /\ Len(b) \in Nat /\ n = m + Len(b)
      /\ \A k \in 1..m : c[k] = a[k]
      /\ \A k \in 1..Len(b) : c[m + k] = b[k]
  <2>1. /\ n = m + Len(b) /\ m \in Nat /\ Len(b) \in Nat
        /\ \A k \in 1..m + Len(b) : c[k] = IF k <= m THEN a[k] ELSE b[k - m]
    BY ConcatProperties, LenProperties
  <2> HIDE DEF c, m, n
  <2>2. \A k \in 1..m : c[k] = a[k]
    BY <2>1
  <2>3. ASSUME NEW k \in 1..Len(b) PROVE c[m + k] = b[k]
    <3>1. m + k \in 1..m + Len(b) /\ ~ (m + k <= m) /\ m + k - m = k
      BY <2>1
    <3>2. QED
      BY <2>1, <3>1
  <2>4. QED
    BY <2>1, <2>2, <2>3
<1> HIDE DEF c
<1>2. Passes(c, 0, m, x, y)
  <2>1. Passes(a, 0, m, x, y)
    BY DEF Carries
  <2>2. \A k \in 0 + 1..m : c[0 - 0 + k] = a[k]
    BY <1>1
  <2> HIDE DEF m
  <2>3. 0 \in Nat /\ 0 <= m /\ m - 0 = m - 0
    BY <1>1
  <2>4. QED
    BY <1>1, <2>1, <2>2, <2>3, PassesMoved
<1>3. Passes(c, m, n, y, z)
  <2>1. Passes(b, 0, Len(b), y, z)
    BY DEF Carries
  <2> HIDE DEF m, n
  <2>2. /\ 0 \in Nat /\ 0 <= Len(b) /\ n - m = Len(b) - 0 /\ n \in Nat
        /\ \A k \in 0 + 1..Len(b) : k \in 1..Len(b) /\ m - 0 + k = m + k
    BY <1>1
  <2>3. \A k \in 0 + 1..Len(b) : c[m - 0 + k] = b[k]
    BY <1>1, <2>2
  <2>4. QED
    BY <1>1, <2>1, <2>2, <2>3, PassesMoved
<1>4. Passes(c, 0, n, x, z)
  <2> HIDE DEF m, n
  <2>1. 0 \in Nat /\ 0 <= m /\ m <= n /\ n \in Nat
    BY <1>1
  <2>2. QED
    BY <1>1, <1>2, <1>3, <2>1, PassesJoin
<1>5. QED
  BY <1>4 DEF Carries, c, n

LEMMA CarriesTwo ==
  ASSUME NEW i, NEW j, NEW x \in Levels, NEW y \in Levels, NEW z \in Levels,
         Takes(i, x, y), Takes(j, y, z)
  PROVE  Carries(<<i, j>>, x, z)
<1> DEFINE code == <<i, j>>
<1>1. Len(code) = 2 /\ code[1] = i /\ code[2] = j
  OBVIOUS
<1>2. 0 \in Nat /\ 1 \in Nat /\ 2 \in Nat /\ 1 = 0 + 1 /\ 2 = 1 + 1 /\ 0 <= 1 /\ 1 <= 2
  OBVIOUS
<1> HIDE DEF code
<1>3. Passes(code, 0, 1, x, y)
  BY <1>1, <1>2, PassesOne
<1>4. Passes(code, 1, 2, y, z)
  BY <1>1, <1>2, PassesOne
<1>5. Passes(code, 0, 2, x, z)
  BY <1>2, <1>3, <1>4, PassesJoin
<1>6. QED
  BY <1>1, <1>5 DEF Carries, code

LEMMA CarriesThree ==
  ASSUME NEW i, NEW j, NEW k, NEW x \in Levels, NEW y \in Levels, NEW z \in Levels,
         NEW u \in Levels, Takes(i, x, y), Takes(j, y, z), Takes(k, z, u)
  PROVE  Carries(<<i, j, k>>, x, u)
<1> DEFINE code == <<i, j, k>>
<1>1. Len(code) = 3 /\ code[1] = i /\ code[2] = j /\ code[3] = k
  OBVIOUS
<1>2. /\ 0 \in Nat /\ 1 \in Nat /\ 2 \in Nat /\ 3 \in Nat
      /\ 1 = 0 + 1 /\ 2 = 1 + 1 /\ 3 = 2 + 1 /\ 0 <= 1 /\ 1 <= 2 /\ 0 <= 2 /\ 2 <= 3
  OBVIOUS
<1> HIDE DEF code
<1>3. Passes(code, 0, 1, x, y) /\ Passes(code, 1, 2, y, z) /\ Passes(code, 2, 3, z, u)
  BY <1>1, <1>2, PassesOne
<1>4. Passes(code, 0, 2, x, z)
  BY <1>2, <1>3, PassesJoin
<1>5. Passes(code, 0, 3, x, u)
  BY <1>2, <1>3, <1>4, PassesJoin
<1>6. QED
  BY <1>1, <1>5 DEF Carries, code

\* The labels a list places or jumps to; calls are apart.
Wired(code) == {code[i].label : i \in {k \in DOMAIN code : code[k].op \in JumpOps}}

NoReturn(code) == \A i \in DOMAIN code : code[i].op # "RETURN"

\* Control does not go on behind the list.
Ends(code) == Len(code) > 0 => code[Len(code)].op = "RETURN"

LEMMA JoinedLists ==
  ASSUME NEW a \in Seq(Instructions), NEW b \in Seq(Instructions)
  PROVE  /\ a \o b \in Seq(Instructions)
         /\ Wired(a \o b) = Wired(a) \cup Wired(b)
         /\ NoReturn(a \o b) <=> NoReturn(a) /\ NoReturn(b)
         /\ Len(b) > 0 => (Ends(a \o b) <=> Ends(b))
<1> DEFINE c == a \o b
<1>1. /\ c \in Seq(Instructions) /\ Len(c) = Len(a) + Len(b)
      /\ DOMAIN c = 1..Len(c) /\ DOMAIN a = 1..Len(a) /\ DOMAIN b = 1..Len(b)
      /\ Len(a) \in Nat /\ Len(b) \in Nat
      /\ \A i \in 1..Len(c) :
           c[i] = IF i <= Len(a) THEN a[i] ELSE b[i - Len(a)]
  BY ConcatProperties, LenProperties
<1> HIDE DEF c
<1>2. \A i \in DOMAIN c : \/ i \in DOMAIN a /\ c[i] = a[i]
                          \/ i - Len(a) \in DOMAIN b /\ c[i] = b[i - Len(a)]
  BY <1>1
<1>3. \A i \in DOMAIN a : i \in DOMAIN c /\ c[i] = a[i]
  BY <1>1
<1>4. \A i \in DOMAIN b : i + Len(a) \in DOMAIN c /\ c[i + Len(a)] = b[i]
  BY <1>1
<1>5. Wired(c) = Wired(a) \cup Wired(b)
  <2>1. ASSUME NEW l \in Wired(c) PROVE l \in Wired(a) \cup Wired(b)
    BY <1>2 DEF Wired
  <2>2. ASSUME NEW l \in Wired(a) PROVE l \in Wired(c)
    BY <1>3 DEF Wired
  <2>3. ASSUME NEW l \in Wired(b) PROVE l \in Wired(c)
    BY <1>4 DEF Wired
  <2>4. QED
    BY <2>1, <2>2, <2>3
<1>6. NoReturn(c) <=> NoReturn(a) /\ NoReturn(b)
  <2>1. NoReturn(c) => NoReturn(a) /\ NoReturn(b)
    <3>1. NoReturn(c) => NoReturn(a)
      BY <1>3 DEF NoReturn
    <3>2. NoReturn(c) => NoReturn(b)
      BY <1>4 DEF NoReturn
    <3>3. QED
      BY <3>1, <3>2
  <2>2. NoReturn(a) /\ NoReturn(b) => NoReturn(c)
    BY <1>2 DEF NoReturn
  <2>3. QED
    BY <2>1, <2>2
<1>7. Len(b) > 0 => (Ends(c) <=> Ends(b))
  <2>1. ASSUME Len(b) > 0 PROVE Ends(c) <=> Ends(b)
    <3>1. Len(b) \in DOMAIN b /\ Len(b) + Len(a) = Len(c)
      BY <1>1, <2>1
    <3>2. c[Len(c)] = b[Len(b)] /\ Len(c) > 0
      BY <1>1, <1>4, <2>1, <3>1
    <3>3. QED
      BY <2>1, <3>2 DEF Ends
  <2>2. QED
    BY <2>1
<1>8. QED
  BY <1>1, <1>5, <1>6, <1>7 DEF c

\* An instruction before the place of a label is one between two parts of the list.
LEMMA BeforeParts ==
  ASSUME NEW code \in Seq(Instructions), NEW label \in Labels,
         NEW i \in Instructions, label \in PlacedIn(code)
  PROVE  \E x, y \in Seq(Instructions) :
           /\ Len(y) > 0 /\ code = x \o y
           /\ Before(code, label, i) = (x \o <<i>>) \o y
<1> DEFINE at == CHOOSE k \in DOMAIN code : code[k] = AtLabel(label)
           n == Len(code)
           m == at - 1
           x == SubSeq(code, 1, m)
           y == SubSeq(code, at, n)
<1>1. at \in 1..n /\ n \in Nat /\ DOMAIN code = 1..n
  BY DEF PlacedIn
<1>2. Before(code, label, i) = (x \o <<i>>) \o y
  BY DEF Before, InsertAt
<1> HIDE DEF at
<1>3. m \in Nat /\ at \in Nat /\ m + 1 = at /\ m <= n /\ 1 <= at /\ at <= n
      /\ n + 1 - at \in Nat /\ n + 1 - at > 0
  BY <1>1
<1> HIDE DEF m
<1>4. x \in Seq(Instructions) /\ Len(x) = m /\ \A k \in 1..m : x[k] = code[k]
  <2>1. 1 \in Nat /\ 1 <= 1 /\ m = m + 1 - 1 /\ \A k \in 1..m : 1 + k - 1 = k
    BY <1>3
  <2> HIDE DEF x
  <2>2. /\ x \in Seq(Instructions) /\ Len(x) = m
        /\ \A k \in 1..m : x[k] = code[1 + k - 1]
    BY <1>3, <2>1, PartOf DEF x, n
  <2>3. QED
    BY <2>1, <2>2
<1>5. /\ y \in Seq(Instructions) /\ Len(y) = n + 1 - at
      /\ \A k \in 1..n + 1 - at : y[k] = code[at + k - 1]
  <2> HIDE DEF y
  <2>1. n <= Len(code) /\ n \in Nat
    BY <1>1
  <2>2. QED
    BY <1>3, <2>1, PartOf DEF y
<1> HIDE DEF x, y
<1>6. code = x \o y
  <2>1. /\ x \o y \in Seq(Instructions) /\ Len(x \o y) = Len(x) + Len(y)
        /\ \A k \in 1..Len(x) + Len(y) :
             (x \o y)[k] = IF k <= Len(x) THEN x[k] ELSE y[k - Len(x)]
    BY <1>4, <1>5, ConcatProperties
  <2>2. Len(x) + Len(y) = n
    <3>1. m + (n + 1 - at) = n
      BY <1>1, <1>3
    <3>2. QED
      BY <1>4, <1>5, <3>1
  <2>3. ASSUME NEW k \in 1..n PROVE (x \o y)[k] = code[k]
    <3>1. CASE k <= m
      <4>1. k \in 1..m
        BY <1>3, <3>1
      <4>2. QED
        BY <1>4, <2>1, <2>2, <3>1, <4>1
    <3>2. CASE ~ (k <= m)
      <4>1. k - m \in 1..n + 1 - at /\ at + (k - m) - 1 = k
        BY <1>3, <3>2
      <4>2. (x \o y)[k] = y[k - m]
        BY <1>4, <2>1, <2>2, <3>2
      <4>3. QED
        BY <1>5, <4>1, <4>2
    <3>3. QED
      BY <3>1, <3>2
  <2>4. QED
    BY <2>1, <2>2, <2>3, SeqEqual DEF n
<1>7. QED
  BY <1>2, <1>3, <1>4, <1>5, <1>6

\* Nothing on the stack changes when a quiet instruction is put somewhere.
LEMMA QuietBetween ==
  ASSUME NEW x \in Seq(Instructions), NEW y \in Seq(Instructions),
         NEW i \in Unlabelled, i.op \in Quiet
  PROVE  /\ (x \o <<i>>) \o y \in Seq(Instructions)
         /\ Wired((x \o <<i>>) \o y) = Wired(x \o y)
         /\ NoReturn((x \o <<i>>) \o y) <=> NoReturn(x \o y)
         /\ Len(y) > 0 => (Ends((x \o <<i>>) \o y) <=> Ends(x \o y))
         /\ \A p, q : Carries(x \o y, p, q) => Carries((x \o <<i>>) \o y, p, q)
<1> DEFINE one == <<i>>
           z == x \o one
<1>1. one \in Seq(Instructions) /\ Wired(one) = {} /\ NoReturn(one)
      /\ \A p \in Levels : Carries(one, p, p)
  <2>1. i \in Instructions /\ i.op \notin JumpOps /\ i.op # "RETURN"
    BY DEF Unlabelled, Quiet, JumpOps
  <2>2. one \in Seq(Instructions) /\ DOMAIN one = {1} /\ one[1] = i
    BY <2>1
  <2>3. \A p \in Levels : Takes(i, p, p)
    BY DEF Takes
  <2>4. \A p \in Levels : Carries(one, p, p)
    BY <2>3, CarriesOne
  <2> HIDE DEF one
  <2>5. QED
    BY <2>1, <2>2, <2>4 DEF Wired, NoReturn
<1> HIDE DEF one
<1>2. /\ z \in Seq(Instructions) /\ Wired(z) = Wired(x) \cup Wired(one)
      /\ NoReturn(z) <=> NoReturn(x) /\ NoReturn(one)
  BY <1>1, JoinedLists
<1>3. /\ x \o y \in Seq(Instructions) /\ Wired(x \o y) = Wired(x) \cup Wired(y)
      /\ NoReturn(x \o y) <=> NoReturn(x) /\ NoReturn(y)
      /\ Len(y) > 0 => (Ends(x \o y) <=> Ends(y))
  BY JoinedLists
<1> HIDE DEF z
<1>4. /\ z \o y \in Seq(Instructions) /\ Wired(z \o y) = Wired(z) \cup Wired(y)
      /\ NoReturn(z \o y) <=> NoReturn(z) /\ NoReturn(y)
      /\ Len(y) > 0 => (Ends(z \o y) <=> Ends(y))
  BY <1>2, JoinedLists
<1>5. ASSUME NEW p, NEW q, Carries(x \o y, p, q) PROVE Carries(z \o y, p, q)
  <2> DEFINE c == x \o y
             m == Len(x)
             n == Len(c)
  <2>1. /\ m \in Nat /\ Len(y) \in Nat /\ n = m + Len(y)
        /\ \A k \in 1..m + Len(y) : c[k] = IF k <= m THEN x[k] ELSE y[k - m]
    BY ConcatProperties, LenProperties
  <2>2. Passes(c, 0, n, p, q)
    BY <1>5 DEF Carries
  <2> HIDE DEF c, m, n
  <2>3. 0 \in Nat /\ n \in Nat /\ 0 <= m /\ m <= n
    BY <2>1
  <2>4. PICK u \in Levels : Passes(c, 0, m, p, u) /\ Passes(c, m, n, u, q)
    BY <2>1, <2>2, <2>3, PassesSplit
  <2>5. Carries(x, p, u)
    <3>1. \A k \in 0 + 1..m : x[0 - 0 + k] = c[k]
      BY <2>1
    <3>2. m - 0 = m - 0
      OBVIOUS
    <3>3. Passes(x, 0, m, p, u)
      BY <2>1, <2>3, <2>4, <3>1, <3>2, PassesMoved
    <3>4. QED
      BY <3>3 DEF Carries, m
  <2>6. Carries(y, u, q)
    <3>1. \A k \in m + 1..n : y[0 - m + k] = c[k]
      <4>1. ASSUME NEW k \in m + 1..n PROVE y[0 - m + k] = c[k]
        <5>1. k \in 1..m + Len(y) /\ ~ (k <= m) /\ 0 - m + k = k - m
          BY <2>1
        <5>2. QED
          BY <2>1, <5>1
      <4>2. QED
        BY <4>1
    <3>2. Len(y) - 0 = n - m /\ Len(y) \in Nat
      BY <2>1
    <3>3. Passes(y, 0, Len(y), u, q)
      BY <2>1, <2>3, <2>4, <3>1, <3>2, PassesMoved
    <3>4. QED
      BY <3>3 DEF Carries
  <2>7. Carries(z, p, u)
    <3>1. Carries(one, u, u)
      BY <1>1, <2>4
    <3>2. QED
      BY <1>1, <2>5, <3>1, CarriesJoined DEF z
  <2>8. QED
    BY <1>2, <2>6, <2>7, CarriesJoined
<1>6. QED
  BY <1>1, <1>2, <1>3, <1>4, <1>5 DEF z, one

-----------------------------------------------------------------------------
(* What an operator on constructors does to what is on the stack.          *)

Resting(c) == IF c.to_buffer THEN c.main ELSE c.buffer

Fresh(c) == {l \in Labels : l.type \notin {"none", "function"}
                            /\ l.number >= c.label_counter}

\* The labels the list being written may place or jump to next.
Own(c) == Fresh(c) \cup Range(c.conditions) \cup Range(c.loops)
            \cup Range(c.code_labels)

\* The other list is as it was, and what is appended takes labels of its own.
Appended(c, r, chunk) ==
  /\ r \in Constructors /\ r.to_buffer = c.to_buffer
  /\ Writing(r) = Writing(c) \o chunk /\ Resting(r) = Resting(c)
  /\ Own(r) \subseteq Own(c)

\* From c to r the list being written goes on, from x on the stack to y.
GoesOn(c, r, x, y) ==
  /\ r \in Constructors /\ r.to_buffer = c.to_buffer
  /\ Wired(Writing(r)) \subseteq Wired(Writing(c)) \cup Own(c)
  /\ Wired(Resting(r)) \subseteq Wired(Resting(c))
  /\ Own(r) \subseteq Own(c)
  /\ Carries(Writing(c), Ground, x) => Carries(Writing(r), Ground, y)
  /\ Carries(Resting(c), Ground, Ground) => Carries(Resting(r), Ground, Ground)
  /\ NoReturn(c.main) => NoReturn(r.main)
  /\ ~c.to_buffer /\ Ends(c.buffer) => Ends(r.buffer)

LEMMA GoesOnOn ==
  ASSUME NEW c, NEW d, NEW r, NEW x, NEW y, NEW z,
         GoesOn(c, d, x, y), GoesOn(d, r, y, z)
  PROVE  GoesOn(c, r, x, z)
<1>1. /\ Wired(Writing(r)) \subseteq Wired(Writing(c)) \cup Own(c)
      /\ Wired(Resting(r)) \subseteq Wired(Resting(c)) /\ Own(r) \subseteq Own(c)
  BY DEF GoesOn
<1>2. QED
  BY <1>1 DEF GoesOn

\* The lists of a constructor, by whether it writes to the buffer.
LEMMA TwoLists ==
  ASSUME NEW c \in Constructors
  PROVE  /\ c.to_buffer => Writing(c) = c.buffer /\ Resting(c) = c.main
         /\ ~c.to_buffer => Writing(c) = c.main /\ Resting(c) = c.buffer
         /\ Writing(c) \in Seq(Instructions) /\ Resting(c) \in Seq(Instructions)
         /\ c.to_buffer \in BOOLEAN
BY ConstructorFields DEF Writing, Resting

LEMMA AppendedGoesOn ==
  ASSUME NEW c \in Constructors, NEW r, NEW chunk \in Seq(Instructions),
         Appended(c, r, chunk), NEW x, NEW y, Carries(chunk, x, y),
         Wired(chunk) \subseteq Own(c), NoReturn(chunk) \/ c.to_buffer
  PROVE  GoesOn(c, r, x, y)
<1> DEFINE w == Writing(c)
<1>1. /\ r \in Constructors /\ r.to_buffer = c.to_buffer
      /\ Writing(r) = w \o chunk /\ Resting(r) = Resting(c)
      /\ Own(r) \subseteq Own(c)
  BY DEF Appended
<1>2. w \in Seq(Instructions)
  BY TwoLists
<1>3. /\ Wired(w \o chunk) = Wired(w) \cup Wired(chunk)
      /\ NoReturn(w \o chunk) <=> NoReturn(w) /\ NoReturn(chunk)
  BY <1>2, JoinedLists
<1>4. Carries(w, Ground, x) => Carries(w \o chunk, Ground, y)
  BY <1>2, CarriesJoined
<1>5. NoReturn(c.main) => NoReturn(r.main)
  BY <1>1, <1>3, TwoLists
<1>6. ~c.to_buffer /\ Ends(c.buffer) => Ends(r.buffer)
  BY <1>1, TwoLists
<1>7. QED
  BY <1>1, <1>3, <1>4, <1>5, <1>6 DEF GoesOn

LEMMA SameGoesOn ==
  ASSUME NEW c \in Constructors, NEW r \in Constructors, NEW x,
         r.to_buffer = c.to_buffer, r.main = c.main, r.buffer = c.buffer,
         Own(r) \subseteq Own(c)
  PROVE  GoesOn(c, r, x, x)
BY DEF GoesOn, Writing, Resting

LEMMA EmitAppends ==
  ASSUME NEW c \in Constructors, NEW chunk \in Seq(Instructions),
         NEW r, r = Emit(c, chunk)
  PROVE  Appended(c, r, chunk) /\ SameStacks(c, r) /\ Own(r) = Own(c)
<1> DEFINE joined == Writing(c) \o chunk
<1>1. joined \in Seq(Instructions) /\ c.to_buffer \in BOOLEAN
  BY TwoLists, ConcatProperties
<1>2. CASE c.to_buffer
  <2>1. r = [c EXCEPT !.buffer = joined]
    BY <1>2 DEF Emit, Writing
  <2> HIDE DEF joined
  <2>2. /\ r \in Constructors /\ SameStacks(c, r)
        /\ r.buffer = joined /\ r.main = c.main /\ r.to_buffer = c.to_buffer
    BY <1>1, <2>1, WithBuffer
  <2>3. Own(r) = Own(c)
    BY <2>2 DEF Own, Fresh, SameStacks
  <2>4. Writing(r) = joined /\ Resting(r) = Resting(c)
    BY <1>2, <2>2 DEF Writing, Resting
  <2>5. QED
    BY <2>2, <2>3, <2>4 DEF Appended, joined
<1>3. CASE ~c.to_buffer
  <2>1. r = [c EXCEPT !.main = joined]
    BY <1>3 DEF Emit, Writing
  <2> HIDE DEF joined
  <2>2. /\ r \in Constructors /\ SameStacks(c, r)
        /\ r.main = joined /\ r.buffer = c.buffer /\ r.to_buffer = c.to_buffer
    BY <1>1, <2>1, WithMain
  <2>3. Own(r) = Own(c)
    BY <2>2 DEF Own, Fresh, SameStacks
  <2>4. Writing(r) = joined /\ Resting(r) = Resting(c)
    BY <1>3, <2>2 DEF Writing, Resting
  <2>5. QED
    BY <2>2, <2>3, <2>4 DEF Appended, joined
<1>4. QED
  BY <1>1, <1>2, <1>3

\* A list with quiet instructions more.
Alike(a, b) ==
  /\ b \in Seq(Instructions) /\ Wired(b) = Wired(a)
  /\ NoReturn(b) <=> NoReturn(a)
  /\ Ends(a) => Ends(b)
  /\ \A p, q : Carries(a, p, q) => Carries(b, p, q)

\* A quiet instruction before a label, or before everything.
LEMMA InsertGoesOn ==
  ASSUME NEW c \in Constructors, NEW l \in Labels, l = NoLabel \/ l \in Placed(c),
         NEW i \in Unlabelled, i.op \in Quiet, NEW r, r = InsertBefore(c, l, i), NEW x
  PROVE  GoesOn(c, r, x, x)
<1>1. /\ c.main \in Seq(Instructions) /\ c.buffer \in Seq(Instructions)
      /\ c.to_buffer \in BOOLEAN
  BY ConstructorFields
<1>3. ASSUME NEW list, r = [c EXCEPT !.main = list], Alike(c.main, list)
      PROVE  GoesOn(c, r, x, x)
  <2>1. /\ r \in Constructors /\ SameStacks(c, r)
        /\ r.main = list /\ r.buffer = c.buffer /\ r.to_buffer = c.to_buffer
    BY <1>3, WithMain DEF Alike
  <2>2. Own(r) = Own(c)
    BY <2>1 DEF Own, Fresh, SameStacks
  <2>3. QED
    BY <1>1, <1>3, <2>1, <2>2 DEF GoesOn, Writing, Resting, Alike
<1>4. ASSUME NEW list, r = [c EXCEPT !.buffer = list], Alike(c.buffer, list)
      PROVE  GoesOn(c, r, x, x)
  <2>1. /\ r \in Constructors /\ SameStacks(c, r)
        /\ r.buffer = list /\ r.main = c.main /\ r.to_buffer = c.to_buffer
    BY <1>4, WithBuffer DEF Alike
  <2>2. Own(r) = Own(c)
    BY <2>1 DEF Own, Fresh, SameStacks
  <2>3. QED
    BY <1>1, <1>4, <2>1, <2>2 DEF GoesOn, Writing, Resting, Alike
<1>5. ASSUME NEW code \in Seq(Instructions), l \in PlacedIn(code)
      PROVE  Alike(code, Before(code, l, i))
  <2>1. i \in Instructions
    BY DEF Unlabelled
  <2>2. PICK a, b \in Seq(Instructions) :
          /\ Len(b) > 0 /\ code = a \o b
          /\ Before(code, l, i) = (a \o <<i>>) \o b
    BY <1>5, <2>1, BeforeParts
  <2>3. /\ (a \o <<i>>) \o b \in Seq(Instructions)
        /\ Wired((a \o <<i>>) \o b) = Wired(a \o b)
        /\ NoReturn((a \o <<i>>) \o b) <=> NoReturn(a \o b)
        /\ Len(b) > 0 => (Ends((a \o <<i>>) \o b) <=> Ends(a \o b))
        /\ \A p, q : Carries(a \o b, p, q) => Carries((a \o <<i>>) \o b, p, q)
    BY QuietBetween
  <2>4. QED
    BY <2>2, <2>3 DEF Alike
<1>6. CASE l = NoLabel
  <2> DEFINE one == << >> \o <<i>>
             list == one \o c.main
  <2>1. i \in Instructions
    BY DEF Unlabelled
  <2>2. << >> \in Seq(Instructions) /\ one = <<i>> /\ << >> \o c.main = c.main
    BY <1>1, <2>1
  <2>3. /\ list \in Seq(Instructions)
        /\ Wired(list) = Wired(<< >> \o c.main)
        /\ NoReturn(list) <=> NoReturn(<< >> \o c.main)
        /\ Len(c.main) > 0 => (Ends(list) <=> Ends(<< >> \o c.main))
        /\ \A p, q : Carries(<< >> \o c.main, p, q) => Carries(list, p, q)
    BY <1>1, <2>2, QuietBetween
  <2>4. r = [c EXCEPT !.main = list]
    BY <1>6, <2>2 DEF InsertBefore
  <2> HIDE DEF list
  <2>5. /\ r \in Constructors /\ SameStacks(c, r)
        /\ r.main = list /\ r.buffer = c.buffer /\ r.to_buffer = c.to_buffer
    BY <2>3, <2>4, WithMain
  <2>6. Own(r) = Own(c)
    BY <2>5 DEF Own, Fresh, SameStacks
  <2>7. QED
    BY <1>1, <2>2, <2>3, <2>5, <2>6 DEF GoesOn, Writing, Resting
<1>7. CASE l # NoLabel /\ Contains(c.buffer, AtLabel(l))
  <2>1. r = [c EXCEPT !.buffer = Before(c.buffer, l, i)]
    BY <1>7 DEF InsertBefore
  <2>2. l \in PlacedIn(c.buffer)
    BY <1>1, <1>7 DEF PlacedIn, Contains
  <2>3. Alike(c.buffer, Before(c.buffer, l, i))
    BY <1>1, <1>5, <2>2
  <2>4. QED
    BY <1>4, <2>1, <2>3
<1>8. CASE l # NoLabel /\ ~Contains(c.buffer, AtLabel(l))
  <2>1. r = [c EXCEPT !.main = Before(c.main, l, i)]
    BY <1>8 DEF InsertBefore
  <2>2. l \in PlacedIn(c.main)
    BY <1>1, <1>8 DEF Placed, PlacedIn, Contains
  <2>3. Alike(c.main, Before(c.main, l, i))
    BY <1>1, <1>5, <2>2
  <2>4. QED
    BY <1>3, <2>1, <2>3
<1>9. QED
  BY <1>6, <1>7, <1>8

ListsStay(c, r) ==
  r.main = c.main /\ r.buffer = c.buffer /\ r.to_buffer = c.to_buffer

LEMMA OtherFields ==
  ASSUME NEW c \in Constructors
  PROVE  \A s : /\ ListsStay(c, [c EXCEPT !.conditions = s])
                /\ ListsStay(c, [c EXCEPT !.loops = s])
                /\ ListsStay(c, [c EXCEPT !.code_labels = s])
                /\ ListsStay(c, [c EXCEPT !.label_counter = s])
                /\ ListsStay(c, [c EXCEPT !.control_statement_depth = s])
                /\ ListsStay(c, [c EXCEPT !.scope_depth = s])
                /\ ListsStay(c, [c EXCEPT !.loops_depth = s])
                /\ ListsStay(c, [c EXCEPT !.loops_initial = s])
BY DEF Constructors, ListsStay

\* Counters and stacks other than the one of static variables.
Alters(c, r, counter, conditions, loops) ==
  /\ r \in Constructors /\ ListsStay(c, r)
  /\ r.label_counter = counter /\ r.conditions = conditions /\ r.loops = loops
  /\ r.code_labels = c.code_labels

LEMMA FieldsAltered ==
  ASSUME NEW c \in Constructors
  PROVE  /\ \A n \in Int :
              /\ Alters(c, [c EXCEPT !.control_statement_depth = n],
                        c.label_counter, c.conditions, c.loops)
              /\ Alters(c, [c EXCEPT !.loops_depth = n],
                        c.label_counter, c.conditions, c.loops)
         /\ \A l \in Labels : Alters(c, [c EXCEPT !.loops_initial = l],
                                     c.label_counter, c.conditions, c.loops)
         /\ \A s \in Seq(Labels) :
              /\ Alters(c, [c EXCEPT !.conditions = s], c.label_counter, s, c.loops)
              /\ Alters(c, [c EXCEPT !.loops = s], c.label_counter, c.conditions, s)
         /\ Alters(c, TakeLabel(c), c.label_counter + 1, c.conditions, c.loops)
<1>1. \A n \in Int : Alters(c, [c EXCEPT !.control_statement_depth = n],
                            c.label_counter, c.conditions, c.loops)
  BY DEF Constructors, Alters, ListsStay
<1>2. \A n \in Int : Alters(c, [c EXCEPT !.loops_depth = n],
                            c.label_counter, c.conditions, c.loops)
  BY DEF Constructors, Alters, ListsStay
<1>3. \A l \in Labels : Alters(c, [c EXCEPT !.loops_initial = l],
                               c.label_counter, c.conditions, c.loops)
  BY DEF Constructors, Alters, ListsStay
<1>4. \A s \in Seq(Labels) :
        Alters(c, [c EXCEPT !.conditions = s], c.label_counter, s, c.loops)
  BY DEF Constructors, Alters, ListsStay
<1>5. \A s \in Seq(Labels) :
        Alters(c, [c EXCEPT !.loops = s], c.label_counter, c.conditions, s)
  BY DEF Constructors, Alters, ListsStay
<1>6. Alters(c, TakeLabel(c), c.label_counter + 1, c.conditions, c.loops)
  <2> DEFINE n == c.label_counter + 1
             r == [c EXCEPT !.label_counter = n]
  <2>1. n \in Nat
    BY ConstructorFields
  <2> HIDE DEF n
  <2>2. Alters(c, r, n, c.conditions, c.loops)
    BY <2>1 DEF Constructors, Alters, ListsStay
  <2>3. QED
    BY <2>2 DEF TakeLabel, n
<1>7. QED
  BY <1>1, <1>2, <1>3, <1>4, <1>5, <1>6

LEMMA AppendedStays ==
  ASSUME NEW c, NEW d, NEW e, NEW r, NEW chunk, ListsStay(c, d), Appended(d, e, chunk),
         ListsStay(e, r), r \in Constructors, Own(r) \subseteq Own(c)
  PROVE  Appended(c, r, chunk)
BY DEF ListsStay, Appended, Writing, Resting

LEMMA RangeOfAppend ==
  ASSUME NEW S, NEW s \in Seq(S), NEW e
  PROVE  Range(Append(s, e)) = Range(s) \cup {e}
<1> DEFINE t == Append(s, e)
<1>1. /\ DOMAIN t = 1..Len(s) + 1 /\ DOMAIN s = 1..Len(s) /\ Len(s) \in Nat
      /\ \A i \in 1..Len(s) : t[i] = s[i]
      /\ t[Len(s) + 1] = e
  BY AppendProperties, LenProperties
<1> HIDE DEF t
<1>2. \A i \in DOMAIN t : i \in DOMAIN s \/ i = Len(s) + 1
  BY <1>1
<1>3. \A i \in DOMAIN s : i \in DOMAIN t
  BY <1>1
<1>4. Len(s) + 1 \in DOMAIN t
  BY <1>1
<1>5. Range(t) = Range(s) \cup {e}
  BY <1>1, <1>2, <1>3, <1>4, Zenon DEF Range
<1>6. QED
  BY <1>5 DEF t

LEMMA RangeOnTop ==
  ASSUME NEW below \in Seq(Labels), NEW k \in Labels, NEW l, NEW s,
         OnTop(s, below, k, l)
  PROVE  /\ Range(s) = Range(below) \cup {k, l}
         /\ Range(Append(below, k)) = Range(below) \cup {k}
<1> DEFINE one == Append(below, k)
<1>1. one \in Seq(Labels) /\ Range(one) = Range(below) \cup {k}
  BY RangeOfAppend
<1>2. s = Append(one, l)
  BY DEF OnTop
<1> HIDE DEF one
<1>3. Range(s) = Range(one) \cup {l}
  BY <1>1, <1>2, RangeOfAppend
<1>4. QED
  BY <1>1, <1>3 DEF one

LEMMA OwnLess ==
  ASSUME NEW c \in Constructors, NEW r \in Constructors,
         r.label_counter >= c.label_counter,
         Range(r.conditions) \subseteq Own(c), Range(r.loops) \subseteq Own(c),
         Range(r.code_labels) \subseteq Own(c)
  PROVE  Own(r) \subseteq Own(c)
<1>1. c.label_counter \in Nat /\ r.label_counter \in Nat
  BY ConstructorFields
<1>2. Fresh(r) \subseteq Fresh(c)
  BY <1>1 DEF Fresh, Labels
<1>3. QED
  BY <1>2 DEF Own

LEMMA OwnStacks ==
  ASSUME NEW c \in Constructors
  PROVE  /\ Range(c.conditions) \subseteq Own(c) /\ Range(c.loops) \subseteq Own(c)
         /\ Range(c.code_labels) \subseteq Own(c)
         /\ \A type \in {"declared", "if_end", "if_else", "while_start", "while_end",
                         "main_scope"} : Label(c, type) \in Own(c)
<1>1. c.label_counter \in Nat
  BY ConstructorFields
<1>2. QED
  BY <1>1, LabelType DEF Own, Fresh

-----------------------------------------------------------------------------
(* Statements. *)

LEMMA LowLevels ==
  /\ Level(1, 0) \in Levels /\ Level(2, 0) \in Levels /\ Ground \in Levels
  /\ Level(1, 0).height = 1 /\ Level(1, 0).frames = 0
  /\ Level(2, 0).height = 2 /\ Level(2, 0).frames = 0
  /\ Ground.height = 0 /\ Ground.frames = 0 /\ Ground = Level(0, 0)
BY LevelType DEF Ground

LEMMA UnlabelledCode ==
  ASSUME NEW chunk \in Seq(Unlabelled)
  PROVE  chunk \in Seq(Instructions)
BY SeqMonotonic DEF Unlabelled

LEMMA EmitGoesOn ==
  ASSUME NEW c \in Constructors, NEW chunk \in Seq(Instructions), NEW x, NEW y,
         Carries(chunk, x, y), Wired(chunk) = {}, NoReturn(chunk) \/ c.to_buffer
  PROVE  GoesOn(c, Emit(c, chunk), x, y)
BY EmitAppends, AppendedGoesOn

LEMMA DeclarationGoesOn ==
  ASSUME NEW c \in Constructors, NEW o \in Targets,
         c.loops_initial = NoLabel \/ c.loops_initial \in Placed(c)
  PROVE  /\ GoesOn(c, VariableDeclaration(c, o), Ground, Ground)
         /\ GoesOn(c, SharedVariableDeclaration(c, o), Ground, Ground)
<1>1. /\ DefVar(o) \in Unlabelled /\ Move(o, Literal) \in Unlabelled
      /\ DefVar(o).op = "DEFVAR" /\ Move(o, Literal).op = "MOVE"
  BY OperandTypes, UnlabelledInstructions DEF DefVar, Move, Instruction
<1>2. Takes(DefVar(o), Ground, Ground) /\ Takes(Move(o, Literal), Ground, Ground)
  BY <1>1 DEF Takes, Quiet
<1>3. /\ Carries(<<DefVar(o)>>, Ground, Ground)
      /\ Carries(<<Move(o, Literal)>>, Ground, Ground)
      /\ Carries(<<DefVar(o), Move(o, Literal)>>, Ground, Ground)
  BY <1>2, LevelType, CarriesOne, CarriesTwo
<1>4. /\ <<DefVar(o)>> \in Seq(Unlabelled) /\ <<Move(o, Literal)>> \in Seq(Unlabelled)
      /\ <<DefVar(o), Move(o, Literal)>> \in Seq(Unlabelled)
      /\ NoReturn(<<DefVar(o)>>) /\ NoReturn(<<Move(o, Literal)>>)
      /\ NoReturn(<<DefVar(o), Move(o, Literal)>>)
      /\ Wired(<<DefVar(o)>>) = {} /\ Wired(<<Move(o, Literal)>>) = {}
      /\ Wired(<<DefVar(o), Move(o, Literal)>>) = {}
  BY <1>1 DEF NoReturn, Wired, JumpOps
<1> DEFINE defined == IF c.loops_initial = NoLabel
                      THEN Emit(c, <<DefVar(o)>>)
                      ELSE InsertBefore(c, c.loops_initial, DefVar(o))
<1>5. GoesOn(c, defined, Ground, Ground)
  <2>1. CASE c.loops_initial = NoLabel
    BY <1>3, <1>4, <2>1, UnlabelledCode, EmitGoesOn
  <2>2. CASE c.loops_initial # NoLabel
    BY <1>1, <2>2, ConstructorFields, InsertGoesOn DEF Quiet
  <2>3. QED
    BY <2>1, <2>2
<1>6. VariableDeclaration(c, o) = Emit(defined, <<Move(o, Literal)>>)
  BY DEF VariableDeclaration
<1> HIDE DEF defined
<1>7. defined \in Constructors
  BY <1>5 DEF GoesOn
<1>8. GoesOn(defined, Emit(defined, <<Move(o, Literal)>>), Ground, Ground)
  BY <1>3, <1>4, <1>7, UnlabelledCode, EmitGoesOn
<1>9. GoesOn(c, SharedVariableDeclaration(c, o), Ground, Ground)
  BY <1>3, <1>4, UnlabelledCode, EmitGoesOn DEF SharedVariableDeclaration
<1>10. QED
  BY <1>5, <1>6, <1>8, <1>9, GoesOnOn

LEMMA StatementsGoOn ==
  ASSUME NEW c \in Constructors, NEW o \in Targets
  PROVE  /\ GoesOn(c, Assignment(c, o), Level(1, 0), Ground)
         /\ GoesOn(c, Input(c, o), Ground, Ground)
         /\ GoesOn(c, PrintExpression(c), Level(1, 0), Ground)
         /\ c.to_buffer => GoesOn(c, Return(c), Level(1, 0), Ground)
<1>1. /\ PopS(o) \in Unlabelled /\ Read(o) \in Unlabelled
      /\ Write(Literal) \in Unlabelled /\ PopS(Temporary) \in Unlabelled
      /\ Write(Temporary) \in Unlabelled /\ Plain("RETURN") \in Unlabelled
  BY OperandTypes, UnlabelledInstructions
<1>2. /\ PopS(o).op = "POPS" /\ Read(o).op = "READ" /\ Write(Literal).op = "WRITE"
      /\ PopS(Temporary).op = "POPS" /\ Write(Temporary).op = "WRITE"
      /\ Plain("RETURN").op = "RETURN"
  BY DEF PopS, Read, Write, Plain, Instruction
<1>3. /\ Takes(PopS(o), Level(1, 0), Ground) /\ Takes(PopS(Temporary), Level(1, 0), Ground)
      /\ Takes(Write(Literal), Ground, Ground) /\ Takes(Read(o), Ground, Ground)
      /\ Takes(Write(Temporary), Ground, Ground)
      /\ Takes(Plain("RETURN"), Level(1, 0), Ground)
  BY <1>2, LowLevels DEF Takes, Quiet
<1>4. /\ Carries(<<PopS(o)>>, Level(1, 0), Ground)
      /\ Carries(<<Write(Literal), Read(o)>>, Ground, Ground)
      /\ Carries(<<PopS(Temporary), Write(Temporary)>>, Level(1, 0), Ground)
      /\ Carries(<<Plain("RETURN")>>, Level(1, 0), Ground)
  BY <1>3, LowLevels, CarriesOne, CarriesTwo
<1>5. /\ <<PopS(o)>> \in Seq(Unlabelled)
      /\ <<Write(Literal), Read(o)>> \in Seq(Unlabelled)
      /\ <<PopS(Temporary), Write(Temporary)>> \in Seq(Unlabelled)
      /\ <<Plain("RETURN")>> \in Seq(Unlabelled)
      /\ NoReturn(<<PopS(o)>>) /\ NoReturn(<<Write(Literal), Read(o)>>)
      /\ NoReturn(<<PopS(Temporary), Write(Temporary)>>)
      /\ Wired(<<PopS(o)>>) = {} /\ Wired(<<Write(Literal), Read(o)>>) = {}
      /\ Wired(<<PopS(Temporary), Write(Temporary)>>) = {}
      /\ Wired(<<Plain("RETURN")>>) = {}
  BY <1>1, <1>2 DEF NoReturn, Wired, JumpOps
<1>6. QED
  BY <1>4, <1>5, UnlabelledCode, EmitGoesOn
       DEF Assignment, Input, PrintExpression, Return

\* code_constructor_scope_start and code_constructor_scope_end.
LEMMA ScopesGoOn ==
  ASSUME NEW c \in Constructors
  PROVE  /\ GoesOn(c, ScopeStart(c), Ground, Ground)
         /\ GoesOn(c, ScopeEnd(c), Ground, Ground)
<1>1. ASSUME NEW n \in Int PROVE GoesOn(c, [c EXCEPT !.scope_depth = n], Ground, Ground)
  <2> DEFINE r == [c EXCEPT !.scope_depth = n]
  <2>1. Scoped(c, r, n) /\ ListsStay(c, r)
    BY ScopeEffect, OtherFields
  <2> HIDE DEF r
  <2>2. r \in Constructors /\ Own(r) = Own(c)
    BY <2>1 DEF Scoped, Grows, Own, Fresh
  <2>3. GoesOn(c, r, Ground, Ground)
    BY <2>1, <2>2, SameGoesOn DEF ListsStay
  <2>4. QED
    BY <2>3 DEF r
<1>2. c.scope_depth + 1 \in Int /\ c.scope_depth - 1 \in Int
  BY ConstructorFields
<1>3. QED
  BY <1>1, <1>2 DEF ScopeStart, ScopeEnd

-----------------------------------------------------------------------------
(* Labels and jumps. *)

\* The chunks the operators emit.
LEMMA LevelChunks ==
  ASSUME NEW k \in Labels, NEW l \in Labels
  PROVE  /\ Carries(<<PushS(False), JumpIfEqualS(l)>>, Level(1, 0), Ground)
         /\ Wired(<<PushS(False), JumpIfEqualS(l)>>) \subseteq {l}
         /\ NoReturn(<<PushS(False), JumpIfEqualS(l)>>)
         /\ <<PushS(False), JumpIfEqualS(l)>> \in Seq(Instructions)
         /\ Carries(<<Jump(k), AtLabel(l)>>, Ground, Ground)
         /\ Wired(<<Jump(k), AtLabel(l)>>) \subseteq {k, l}
         /\ NoReturn(<<Jump(k), AtLabel(l)>>)
         /\ <<Jump(k), AtLabel(l)>> \in Seq(Instructions)
         /\ Carries(<<AtLabel(k), AtLabel(l)>>, Ground, Ground)
         /\ Wired(<<AtLabel(k), AtLabel(l)>>) \subseteq {k, l}
         /\ NoReturn(<<AtLabel(k), AtLabel(l)>>)
         /\ <<AtLabel(k), AtLabel(l)>> \in Seq(Instructions)
         /\ Carries(<<Jump(k)>>, Ground, Ground)
         /\ Wired(<<Jump(k)>>) \subseteq {k} /\ NoReturn(<<Jump(k)>>)
         /\ <<Jump(k)>> \in Seq(Instructions)
         /\ Carries(<<AtLabel(l)>>, Ground, Ground)
         /\ Wired(<<AtLabel(l)>>) \subseteq {l} /\ NoReturn(<<AtLabel(l)>>)
         /\ <<AtLabel(l)>> \in Seq(Instructions)
<1>1. {PushS(False), JumpIfEqualS(l), Jump(k), AtLabel(k), AtLabel(l)}
        \subseteq Instructions
  BY OperandTypes, InstructionTypes
<1>2. /\ PushS(False).op = "PUSHS" /\ PushS(False).label = NoLabel
      /\ JumpIfEqualS(l).op = "JUMPIFEQS" /\ JumpIfEqualS(l).label = l
      /\ Jump(k).op = "JUMP" /\ Jump(k).label = k
      /\ AtLabel(k).op = "LABEL" /\ AtLabel(k).label = k
      /\ AtLabel(l).op = "LABEL" /\ AtLabel(l).label = l
  BY DEF PushS, JumpIfEqualS, Jump, AtLabel, Instruction
<1>3. /\ Takes(PushS(False), Level(1, 0), Level(2, 0))
      /\ Takes(JumpIfEqualS(l), Level(2, 0), Ground)
      /\ Takes(Jump(k), Ground, Ground)
      /\ Takes(AtLabel(k), Ground, Ground) /\ Takes(AtLabel(l), Ground, Ground)
  BY <1>2, LowLevels DEF Takes, Quiet
<1>4. ASSUME NEW a \in Instructions, NEW b \in Instructions,
             a.op # "RETURN", b.op # "RETURN"
      PROVE  /\ <<a, b>> \in Seq(Instructions) /\ NoReturn(<<a, b>>)
             /\ Wired(<<a, b>>) \subseteq {a.label, b.label}
             /\ a.op \notin JumpOps => Wired(<<a, b>>) \subseteq {b.label}
             /\ <<a>> \in Seq(Instructions) /\ NoReturn(<<a>>)
             /\ Wired(<<a>>) \subseteq {a.label}
  <2>1. /\ DOMAIN <<a, b>> = {1, 2} /\ <<a, b>>[1] = a /\ <<a, b>>[2] = b
        /\ DOMAIN <<a>> = {1} /\ <<a>>[1] = a
    OBVIOUS
  <2>2. <<a, b>> \in Seq(Instructions) /\ <<a>> \in Seq(Instructions)
    OBVIOUS
  <2>3. NoReturn(<<a, b>>) /\ NoReturn(<<a>>)
    BY <1>4, <2>1 DEF NoReturn
  <2>4. \A i \in DOMAIN <<a, b>> : <<a, b>>[i].label \in {a.label, b.label}
    BY <2>1
  <2>5. /\ Wired(<<a, b>>) \subseteq {a.label, b.label}
        /\ a.op \notin JumpOps => Wired(<<a, b>>) \subseteq {b.label}
    BY <2>1, <2>4 DEF Wired
  <2>6. Wired(<<a>>) \subseteq {a.label}
    BY <2>1 DEF Wired
  <2>7. QED
    BY <2>2, <2>3, <2>5, <2>6
<1>5. /\ Carries(<<PushS(False), JumpIfEqualS(l)>>, Level(1, 0), Ground)
      /\ Carries(<<Jump(k), AtLabel(l)>>, Ground, Ground)
      /\ Carries(<<AtLabel(k), AtLabel(l)>>, Ground, Ground)
      /\ Carries(<<Jump(k)>>, Ground, Ground)
      /\ Carries(<<AtLabel(l)>>, Ground, Ground)
  BY <1>3, LowLevels, CarriesOne, CarriesTwo
<1>6. /\ Wired(<<PushS(False), JumpIfEqualS(l)>>) \subseteq {l}
      /\ NoReturn(<<PushS(False), JumpIfEqualS(l)>>)
      /\ <<PushS(False), JumpIfEqualS(l)>> \in Seq(Instructions)
  <2>1. PushS(False).op \notin JumpOps
    BY <1>2 DEF JumpOps
  <2>2. QED
    BY <1>1, <1>2, <1>4, <2>1
<1>7. QED
  BY <1>1, <1>2, <1>4, <1>5, <1>6

\* A branch is left unless its condition holds.
LEMMA BranchGoesOn ==
  ASSUME NEW c \in Constructors
  PROVE  GoesOn(c, BranchUnlessTrue(c), Level(1, 0), Ground)
<1> DEFINE r == BranchUnlessTrue(c)
           next == Label(c, "if_else")
           taken == TakeLabel(c)
           chunk == <<PushS(False), JumpIfEqualS(next)>>
           emitted == Emit(taken, chunk)
<1>1. next \in Labels /\ next \in Own(c)
  BY LabelType, OwnStacks
<1>2. Branched(c, r, next)
  BY BranchEffect
<1>3. r = [emitted EXCEPT !.conditions = Append(emitted.conditions, next)]
  BY DEF BranchUnlessTrue, PushLabel
<1> HIDE DEF r, next
<1>4. /\ chunk \in Seq(Instructions) /\ Carries(chunk, Level(1, 0), Ground)
      /\ Wired(chunk) \subseteq {next} /\ NoReturn(chunk)
  BY <1>1, LevelChunks
<1> HIDE DEF chunk
<1>5. taken \in Constructors /\ ListsStay(c, taken)
  BY TakeLabelEffect, OtherFields DEF Grows, TakeLabel
<1> HIDE DEF taken
<1>6. Appended(taken, emitted, chunk) /\ emitted \in Constructors
  BY <1>4, <1>5, EmitAppends DEF Appended
<1> HIDE DEF emitted
<1>7. ListsStay(emitted, r)
  BY <1>3, <1>6, OtherFields
<1>8. /\ r \in Constructors /\ r.label_counter >= c.label_counter
      /\ Range(r.conditions) \subseteq Own(c)
      /\ Range(r.loops) \subseteq Own(c) /\ Range(r.code_labels) \subseteq Own(c)
  <2>1. c.label_counter \in Nat /\ c.conditions \in Seq(Labels)
    BY ConstructorFields
  <2>2. Range(Append(c.conditions, next)) = Range(c.conditions) \cup {next}
    BY <2>1, RangeOfAppend
  <2>3. r \in Constructors
    BY <1>2 DEF Branched, Grows
  <2>4. /\ r.label_counter = c.label_counter + 1
        /\ r.conditions = Append(c.conditions, next)
        /\ r.loops = c.loops /\ r.code_labels = c.code_labels
    BY <1>2 DEF Branched
  <2>5. r.label_counter >= c.label_counter
    BY <2>1, <2>4
  <2>6. QED
    BY <1>1, <2>2, <2>3, <2>4, <2>5, OwnStacks
<1>9. Own(r) \subseteq Own(c)
  BY <1>8, OwnLess
<1>10. Appended(c, r, chunk)
  BY <1>5, <1>6, <1>7, <1>8, <1>9, AppendedStays
<1>11. GoesOn(c, r, Level(1, 0), Ground)
  BY <1>1, <1>4, <1>10, AppendedGoesOn
<1>12. QED
  BY <1>11 DEF r

\* code_constructor_if_after_expression
LEMMA IfGoesOn ==
  ASSUME NEW c \in Constructors
  PROVE  GoesOn(c, IfAfterExpression(c), Level(1, 0), Ground)
<1> DEFINE n == c.control_statement_depth + 1
           deeper == [c EXCEPT !.control_statement_depth = n]
           end == Label(deeper, "if_end")
           taken == TakeLabel(deeper)
           stack == Append(taken.conditions, end)
           labelled == [taken EXCEPT !.conditions = stack]
<1>1. IfAfterExpression(c) = BranchUnlessTrue(labelled)
  BY DEF IfAfterExpression, PushLabel
<1>2. n \in Int
  BY ConstructorFields
<1> HIDE DEF n
<1>3. Alters(c, deeper, c.label_counter, c.conditions, c.loops)
  BY <1>2, FieldsAltered
<1> HIDE DEF deeper
<1>4. deeper \in Constructors /\ end \in Labels /\ end \in Own(deeper)
  BY <1>3, LabelType, OwnStacks DEF Alters
<1>5. Alters(deeper, taken, c.label_counter + 1, c.conditions, c.loops)
  BY <1>3, <1>4, FieldsAltered DEF Alters
<1> HIDE DEF taken, end
<1>6. stack \in Seq(Labels) /\ Range(stack) = Range(c.conditions) \cup {end}
  BY <1>4, <1>5, ConstructorFields, RangeOfAppend DEF Alters
<1> HIDE DEF stack
<1>7. Alters(taken, labelled, c.label_counter + 1, stack, c.loops)
  BY <1>5, <1>6, FieldsAltered DEF Alters
<1> HIDE DEF labelled
<1>8. Own(labelled) \subseteq Own(c)
  <2>1. c.label_counter \in Nat /\ labelled.label_counter >= c.label_counter
    BY <1>7, ConstructorFields DEF Alters
  <2>2. Own(deeper) = Own(c)
    BY <1>3 DEF Own, Fresh, Alters
  <2>3. /\ labelled \in Constructors /\ labelled.conditions = stack
        /\ labelled.loops = c.loops /\ labelled.code_labels = c.code_labels
    BY <1>3, <1>5, <1>7 DEF Alters
  <2>4. QED
    BY <1>4, <1>6, <2>1, <2>2, <2>3, OwnLess, OwnStacks
<1>9. GoesOn(c, labelled, Level(1, 0), Level(1, 0))
  BY <1>3, <1>5, <1>7, <1>8, SameGoesOn DEF ListsStay, Alters
<1>10. GoesOn(labelled, BranchUnlessTrue(labelled), Level(1, 0), Ground)
  BY <1>7, BranchGoesOn DEF Alters
<1>11. QED
  BY <1>1, <1>9, <1>10, GoesOnOn

\* A chunk is emitted, and labels of the constructor's own are on the stacks.
LEMMA EmittedGoesOn ==
  ASSUME NEW c \in Constructors, NEW d \in Constructors, ListsStay(c, d),
         NEW chunk \in Seq(Instructions), NEW x, NEW y,
         Carries(chunk, x, y), Wired(chunk) \subseteq Own(c), NoReturn(chunk),
         NEW e, e = Emit(d, chunk),
         NEW r \in Constructors, ListsStay(e, r), Own(r) \subseteq Own(c)
  PROVE  GoesOn(c, r, x, y)
<1>1. Appended(d, e, chunk)
  BY EmitAppends
<1>2. Appended(c, r, chunk)
  BY <1>1, AppendedStays
<1>3. QED
  BY <1>2, AppendedGoesOn

LEMMA ListsAlone ==
  ASSUME NEW c
  PROVE  ListsStay(c, c)
BY DEF ListsStay

LEMMA LeaveBranchGoesOn ==
  ASSUME NEW c \in Constructors, NEW below \in Seq(Labels),
         NEW end \in Labels, NEW next \in Labels,
         OnTop(c.conditions, below, end, next),
         NEW r, r = LeaveBranch(c)
  PROVE  GoesOn(c, r, Ground, Ground)
<1> DEFINE chunk == <<Jump(end), AtLabel(next)>>
           emitted == Emit(c, chunk)
<1>1. HeadLabel(c.conditions) = next /\ SecondLabel(c.conditions) = end
  BY TopTwo
<1>2. r = [emitted EXCEPT !.conditions = PopLabel(emitted.conditions)]
  BY <1>1 DEF LeaveBranch
<1>3. /\ chunk \in Seq(Instructions) /\ Carries(chunk, Ground, Ground)
      /\ Wired(chunk) \subseteq {end, next} /\ NoReturn(chunk)
  BY LevelChunks
<1> HIDE DEF chunk
<1>4. emitted \in Constructors
  BY <1>3, EmitAppends DEF Appended
<1> HIDE DEF emitted
<1>5. ListsStay(emitted, r)
  BY <1>2, <1>4, OtherFields
<1>6. /\ Range(c.conditions) = Range(below) \cup {end, next}
      /\ Range(Append(below, end)) = Range(below) \cup {end}
  BY RangeOnTop
<1>7. BranchLeft(c, r, below, end, next)
  BY LeaveBranchEffect
<1>8. /\ r \in Constructors /\ r.label_counter = c.label_counter
      /\ r.conditions = Append(below, end) /\ r.loops = c.loops
      /\ r.code_labels = c.code_labels
  BY <1>7 DEF BranchLeft, Grows
<1>9. Own(r) \subseteq Own(c)
  <2>1. c.label_counter \in Nat /\ r.label_counter >= c.label_counter
    BY <1>8, ConstructorFields
  <2>2. /\ Range(r.conditions) \subseteq Own(c) /\ Range(r.loops) \subseteq Own(c)
        /\ Range(r.code_labels) \subseteq Own(c)
    BY <1>6, <1>8, OwnStacks
  <2>3. QED
    BY <1>8, <2>1, <2>2, OwnLess
<1>10. Wired(chunk) \subseteq Own(c)
  BY <1>3, <1>6, OwnStacks
<1>11. QED
  BY <1>3, <1>5, <1>8, <1>9, <1>10, ListsAlone, EmittedGoesOn DEF emitted

\* code_constructor_if_end_if_block
LEMMA EndIfBlockGoesOn ==
  ASSUME NEW c \in Constructors, NEW below \in Seq(Labels),
         NEW end \in Labels, NEW next \in Labels,
         OnTop(c.conditions, below, end, next)
  PROVE  GoesOn(c, IfEndIfBlock(c), Ground, Ground)
<1> DEFINE chunk == <<Jump(end)>>
<1>1. SecondLabel(c.conditions) = end
  BY TopTwo
<1>2. IfEndIfBlock(c) = Emit(c, chunk)
  BY <1>1 DEF IfEndIfBlock
<1>3. /\ chunk \in Seq(Instructions) /\ Carries(chunk, Ground, Ground)
      /\ Wired(chunk) \subseteq {end} /\ NoReturn(chunk)
  BY LevelChunks
<1> HIDE DEF chunk
<1>4. Range(c.conditions) = Range(below) \cup {end, next}
  BY RangeOnTop
<1>5. Wired(chunk) \subseteq Own(c)
  BY <1>3, <1>4, OwnStacks
<1>6. QED
  BY <1>2, <1>3, <1>5, EmitAppends, AppendedGoesOn

\* code_constructor_if_after_end_if
LEMMA AfterEndIfGoesOn ==
  ASSUME NEW c \in Constructors, NEW below \in Seq(Labels),
         NEW end \in Labels, NEW next \in Labels, end # next,
         OnTop(c.conditions, below, end, next),
         NEW r, r = IfAfterEndIf(c)
  PROVE  GoesOn(c, r, Ground, Ground)
<1> DEFINE chunk == <<AtLabel(next), AtLabel(end)>>
           emitted == Emit(c, chunk)
<1>1. /\ HeadLabel(c.conditions) = next
      /\ HeadLabel(PopLabel(c.conditions)) = end
  BY TopTwo
<1>2. r = [emitted EXCEPT !.conditions = PopLabel(PopLabel(emitted.conditions)),
                          !.control_statement_depth =
                             emitted.control_statement_depth - 1]
  BY <1>1 DEF IfAfterEndIf
<1>3. /\ chunk \in Seq(Instructions) /\ Carries(chunk, Ground, Ground)
      /\ Wired(chunk) \subseteq {next, end} /\ NoReturn(chunk)
  BY LevelChunks
<1> HIDE DEF chunk
<1>4. emitted \in Constructors
  BY <1>3, EmitAppends DEF Appended
<1> HIDE DEF emitted
<1>5. ListsStay(emitted, r)
  <2> DEFINE s == PopLabel(PopLabel(emitted.conditions))
             t == emitted.control_statement_depth - 1
  <2>1. r = [emitted EXCEPT !.conditions = s, !.control_statement_depth = t]
    BY <1>2
  <2> HIDE DEF s, t
  <2>2. QED
    BY <1>4, <2>1 DEF ListsStay, Constructors
<1>6. Range(c.conditions) = Range(below) \cup {end, next}
  BY RangeOnTop
<1>7. ConditionEnded(c, r, below, end, next)
  BY AfterEndIfEffect
<1>8. /\ r \in Constructors /\ r.label_counter = c.label_counter
      /\ r.conditions = below /\ r.loops = c.loops
      /\ r.code_labels = c.code_labels
  BY <1>7 DEF ConditionEnded, Grows
<1>9. Own(r) \subseteq Own(c)
  <2>1. c.label_counter \in Nat /\ r.label_counter >= c.label_counter
    BY <1>8, ConstructorFields
  <2>2. /\ Range(r.conditions) \subseteq Own(c) /\ Range(r.loops) \subseteq Own(c)
        /\ Range(r.code_labels) \subseteq Own(c)
    BY <1>6, <1>8, OwnStacks
  <2>3. QED
    BY <1>8, <2>1, <2>2, OwnLess
<1>10. Wired(chunk) \subseteq Own(c)
  BY <1>3, <1>6, OwnStacks
<1>11. QED
  BY <1>3, <1>5, <1>8, <1>9, <1>10, ListsAlone, EmittedGoesOn DEF emitted

\* code_constructor_if_else_block
LEMMA ElseGoesOn ==
  ASSUME NEW c \in Constructors, NEW below \in Seq(Labels),
         NEW end \in Labels, NEW next \in Labels,
         OnTop(c.conditions, below, end, next)
  PROVE  GoesOn(c, IfElseBlock(c), Ground, Ground)
<1> DEFINE left == LeaveBranch(c)
           fresh == Label(left, "if_else")
           taken == TakeLabel(left)
           stack == Append(taken.conditions, fresh)
           r == [taken EXCEPT !.conditions = stack]
<1>1. IfElseBlock(c) = r
  BY DEF IfElseBlock, PushLabel
<1>2. GoesOn(c, left, Ground, Ground)
  BY LeaveBranchGoesOn
<1> HIDE DEF left
<1>3. left \in Constructors
  BY <1>2 DEF GoesOn
<1>4. fresh \in Labels /\ fresh \in Own(left)
  BY <1>3, LabelType, OwnStacks
<1>5. Alters(left, taken, left.label_counter + 1, left.conditions, left.loops)
  BY <1>3, FieldsAltered
<1> HIDE DEF fresh, taken
<1>6. stack \in Seq(Labels) /\ Range(stack) = Range(left.conditions) \cup {fresh}
  BY <1>3, <1>4, <1>5, ConstructorFields, RangeOfAppend DEF Alters
<1> HIDE DEF stack
<1>7. Alters(taken, r, left.label_counter + 1, stack, left.loops)
  BY <1>5, <1>6, FieldsAltered DEF Alters
<1> HIDE DEF r
<1>8. Own(r) \subseteq Own(left)
  <2>1. left.label_counter \in Nat /\ r.label_counter >= left.label_counter
    BY <1>3, <1>7, ConstructorFields DEF Alters
  <2>2. /\ r \in Constructors /\ r.conditions = stack
        /\ r.loops = left.loops /\ r.code_labels = left.code_labels
    BY <1>5, <1>7 DEF Alters
  <2>3. QED
    BY <1>3, <1>4, <1>6, <2>1, <2>2, OwnLess, OwnStacks
<1>9. GoesOn(left, r, Ground, Ground)
  BY <1>3, <1>5, <1>7, <1>8, SameGoesOn DEF ListsStay, Alters
<1>10. QED
  BY <1>1, <1>2, <1>9, GoesOnOn

\* code_constructor_while_before_condition
LEMMA WhileGoesOn ==
  ASSUME NEW c \in Constructors, Len(Writing(c)) > 0,
         NEW r, r = WhileBeforeCondition(c)
  PROVE  GoesOn(c, r, Ground, Ground)
<1> DEFINE n == c.control_statement_depth + 1
           deeper == [c EXCEPT !.control_statement_depth = n]
           start == Label(deeper, "while_start")
           taken == TakeLabel(deeper)
           chunk == <<AtLabel(start)>>
           emitted == Emit(taken, chunk)
           s == Append(emitted.loops, start)
           t == emitted.loops_depth + 1
           u == IF c.loops_depth = 0 THEN start ELSE emitted.loops_initial
<1>1. n \in Int
  BY ConstructorFields
<1>2. r = [emitted EXCEPT !.loops = s, !.loops_depth = t, !.loops_initial = u]
  BY DEF WhileBeforeCondition, PushLabel
<1> HIDE DEF n, s, t, u
<1>3. Alters(c, deeper, c.label_counter, c.conditions, c.loops)
  BY <1>1, FieldsAltered
<1> HIDE DEF deeper
<1>4. deeper \in Constructors /\ start \in Labels /\ start \in Own(deeper)
  BY <1>3, LabelType, OwnStacks DEF Alters
<1>5. Own(deeper) = Own(c)
  BY <1>3 DEF Own, Fresh, Alters
<1> HIDE DEF start
<1>6. Alters(deeper, taken, deeper.label_counter + 1, deeper.conditions, deeper.loops)
  BY <1>4, FieldsAltered
<1> HIDE DEF taken
<1>7. taken \in Constructors /\ ListsStay(c, taken)
  BY <1>3, <1>6 DEF Alters, ListsStay
<1>8. /\ chunk \in Seq(Instructions) /\ Carries(chunk, Ground, Ground)
      /\ Wired(chunk) \subseteq {start} /\ NoReturn(chunk)
  BY <1>4, LevelChunks
<1> HIDE DEF chunk
<1>9. emitted \in Constructors
  BY <1>7, <1>8, EmitAppends DEF Appended
<1> HIDE DEF emitted
<1>10. ListsStay(emitted, r)
  BY <1>2, <1>9 DEF ListsStay, Constructors
<1>11. PICK first \in Labels : LoopBegun(c, r, first)
  BY WhileEffect
<1>12. /\ r \in Constructors /\ r.label_counter = c.label_counter + 1
       /\ r.conditions = c.conditions /\ r.loops = Append(c.loops, first)
       /\ r.code_labels = c.code_labels
       /\ first.type = "while_start" /\ first.number = c.label_counter
  BY <1>11 DEF LoopBegun, Grows
<1>13. Own(r) \subseteq Own(c)
  <2>1. c.label_counter \in Nat /\ r.label_counter >= c.label_counter
    BY <1>12, ConstructorFields
  <2>2. first \in Fresh(c)
    BY <1>12, <2>1 DEF Fresh
  <2>3. Range(r.loops) = Range(c.loops) \cup {first}
    BY <1>12, ConstructorFields, RangeOfAppend
  <2>4. /\ Range(r.conditions) \subseteq Own(c) /\ Range(r.loops) \subseteq Own(c)
        /\ Range(r.code_labels) \subseteq Own(c)
    BY <1>12, <2>2, <2>3, OwnStacks DEF Own
  <2>5. QED
    BY <1>12, <2>1, <2>4, OwnLess
<1>14. Wired(chunk) \subseteq Own(c)
  BY <1>4, <1>5, <1>8
<1>15. QED
  BY <1>7, <1>8, <1>10, <1>12, <1>13, <1>14, EmittedGoesOn DEF emitted

\* code_constructor_while_after_condition
LEMMA ConditionGoesOn ==
  ASSUME NEW c \in Constructors, NEW r, r = WhileAfterCondition(c)
  PROVE  GoesOn(c, r, Level(1, 0), Ground)
<1> DEFINE end == Label(c, "while_end")
           taken == TakeLabel(c)
           chunk == <<PushS(False), JumpIfEqualS(end)>>
           emitted == Emit(taken, chunk)
<1>1. end \in Labels /\ end \in Own(c)
  BY LabelType, OwnStacks
<1>2. LoopTested(c, r, end)
  BY ConditionEffect
<1>3. r = [emitted EXCEPT !.loops = Append(emitted.loops, end)]
  BY DEF WhileAfterCondition, PushLabel
<1> HIDE DEF end
<1>4. /\ chunk \in Seq(Instructions) /\ Carries(chunk, Level(1, 0), Ground)
      /\ Wired(chunk) \subseteq {end} /\ NoReturn(chunk)
  BY <1>1, LevelChunks
<1> HIDE DEF chunk
<1>5. taken \in Constructors /\ ListsStay(c, taken)
  BY FieldsAltered DEF Alters
<1> HIDE DEF taken
<1>6. emitted \in Constructors
  BY <1>4, <1>5, EmitAppends DEF Appended
<1> HIDE DEF emitted
<1>7. ListsStay(emitted, r)
  BY <1>3, <1>6, OtherFields
<1>8. /\ r \in Constructors /\ r.label_counter = c.label_counter + 1
      /\ r.conditions = c.conditions /\ r.loops = Append(c.loops, end)
      /\ r.code_labels = c.code_labels
  BY <1>2 DEF LoopTested, Grows
<1>9. Own(r) \subseteq Own(c)
  <2>1. c.label_counter \in Nat /\ r.label_counter >= c.label_counter
    BY <1>8, ConstructorFields
  <2>2. Range(r.loops) = Range(c.loops) \cup {end}
    BY <1>8, ConstructorFields, RangeOfAppend
  <2>3. /\ Range(r.conditions) \subseteq Own(c) /\ Range(r.loops) \subseteq Own(c)
        /\ Range(r.code_labels) \subseteq Own(c)
    BY <1>1, <1>8, <2>2, OwnStacks
  <2>4. QED
    BY <1>8, <2>1, <2>3, OwnLess
<1>10. Wired(chunk) \subseteq Own(c)
  BY <1>1, <1>4
<1>11. QED
  BY <1>4, <1>5, <1>7, <1>8, <1>9, <1>10, EmittedGoesOn DEF emitted

\* code_constructor_while_end
LEMMA LoopGoesOn ==
  ASSUME NEW c \in Constructors, NEW below \in Seq(Labels),
         NEW start \in Labels, NEW end \in Labels,
         OnTop(c.loops, below, start, end),
         NEW r, r = WhileEnd(c)
  PROVE  GoesOn(c, r, Ground, Ground)
<1> DEFINE chunk == <<Jump(start), AtLabel(end)>>
           emitted == Emit(c, chunk)
           s == PopLabel(PopLabel(emitted.loops))
           t == emitted.control_statement_depth - 1
           u == emitted.loops_depth - 1
           v == IF c.loops_depth = 1 THEN NoLabel ELSE emitted.loops_initial
<1>1. HeadLabel(c.loops) = end /\ SecondLabel(c.loops) = start
  BY TopTwo
<1>2. r = [emitted EXCEPT !.loops = s, !.control_statement_depth = t,
                          !.loops_depth = u, !.loops_initial = v]
  BY <1>1 DEF WhileEnd
<1> HIDE DEF s, t, u, v
<1>3. /\ chunk \in Seq(Instructions) /\ Carries(chunk, Ground, Ground)
      /\ Wired(chunk) \subseteq {start, end} /\ NoReturn(chunk)
  BY LevelChunks
<1> HIDE DEF chunk
<1>4. emitted \in Constructors
  BY <1>3, EmitAppends DEF Appended
<1> HIDE DEF emitted
<1>5. ListsStay(emitted, r)
  BY <1>2, <1>4 DEF ListsStay, Constructors
<1>6. Range(c.loops) = Range(below) \cup {start, end}
  BY RangeOnTop
<1>7. LoopEnded(c, r, below, start, end)
  BY LoopEffect
<1>8. /\ r \in Constructors /\ r.label_counter = c.label_counter
      /\ r.conditions = c.conditions /\ r.loops = below
      /\ r.code_labels = c.code_labels
  BY <1>7 DEF LoopEnded, Grows
<1>9. Own(r) \subseteq Own(c)
  <2>1. c.label_counter \in Nat /\ r.label_counter >= c.label_counter
    BY <1>8, ConstructorFields
  <2>2. /\ Range(r.conditions) \subseteq Own(c) /\ Range(r.loops) \subseteq Own(c)
        /\ Range(r.code_labels) \subseteq Own(c)
    BY <1>6, <1>8, OwnStacks
  <2>3. QED
    BY <1>8, <2>1, <2>2, OwnLess
<1>10. Wired(chunk) \subseteq Own(c)
  BY <1>3, <1>6, OwnStacks
<1>11. QED
  BY <1>3, <1>5, <1>8, <1>9, <1>10, ListsAlone, EmittedGoesOn DEF emitted

\* code_constructor_static_variable_declaration
LEMMA StaticGoesOn ==
  ASSUME NEW c \in Constructors, NEW o \in Targets, NEW flag \in Targets,
         NEW r, r = StaticVariableDeclaration(c, o, flag)
  PROVE  GoesOn(c, r, Ground, Ground)
<1> DEFINE skip == Label(c, "declared")
           taken == TakeLabel(c)
           stack == Append(taken.code_labels, skip)
           labelled == [taken EXCEPT !.code_labels = stack]
           first == InsertBefore(labelled, NoLabel, Move(flag, False))
           flagged == InsertBefore(first, NoLabel, DefVar(flag))
           chunk == <<JumpIfTrue(skip, flag), DefVar(o), Move(o, Literal)>>
<1>1. skip \in Labels /\ skip \in Own(c)
  BY LabelType, OwnStacks
<1>2. Alters(c, taken, c.label_counter + 1, c.conditions, c.loops)
  BY FieldsAltered
<1>3. r = Emit(flagged, <<JumpIfTrue(Last(flagged.code_labels), flag), DefVar(o),
                          Move(o, Literal)>>)
  BY DEF StaticVariableDeclaration, labelled, first, flagged, taken, HeadLabel, PushLabel
<1> HIDE DEF skip, taken
<1>4. /\ stack \in Seq(Labels) /\ Range(stack) = Range(c.code_labels) \cup {skip}
      /\ Last(stack) = skip
  BY <1>1, <1>2, ConstructorFields, RangeOfAppend DEF Alters, Last
<1> HIDE DEF stack
<1>5. /\ labelled \in Constructors /\ ListsStay(c, labelled)
      /\ labelled.label_counter = c.label_counter + 1
      /\ labelled.conditions = c.conditions /\ labelled.loops = c.loops
      /\ labelled.code_labels = stack
  BY <1>2, <1>4 DEF Alters, ListsStay, Constructors
<1> HIDE DEF labelled
<1>6. Own(labelled) \subseteq Own(c)
  <2>1. c.label_counter \in Nat /\ labelled.label_counter >= c.label_counter
    BY <1>5, ConstructorFields
  <2>2. /\ Range(labelled.conditions) \subseteq Own(c)
        /\ Range(labelled.loops) \subseteq Own(c)
        /\ Range(labelled.code_labels) \subseteq Own(c)
    BY <1>1, <1>4, <1>5, OwnStacks
  <2>3. QED
    BY <1>5, <2>1, <2>2, OwnLess
<1>7. GoesOn(c, labelled, Ground, Ground)
  BY <1>5, <1>6, SameGoesOn DEF ListsStay
<1>8. /\ Move(flag, False) \in Unlabelled /\ Move(flag, False).op \in Quiet
      /\ DefVar(flag) \in Unlabelled /\ DefVar(flag).op \in Quiet
  BY OperandTypes, UnlabelledInstructions DEF Move, DefVar, Instruction, Quiet
<1>9. GoesOn(labelled, first, Ground, Ground) /\ Statement(labelled, first, {})
  BY <1>5, <1>8, LabelTypes, InsertGoesOn, InsertEffect
<1> HIDE DEF first
<1>10. first \in Constructors
  BY <1>9 DEF GoesOn
<1>11. GoesOn(first, flagged, Ground, Ground) /\ Statement(first, flagged, {})
  BY <1>8, <1>10, LabelTypes, InsertGoesOn, InsertEffect
<1> HIDE DEF flagged
<1>12. flagged \in Constructors /\ flagged.code_labels = stack
  BY <1>5, <1>9, <1>11 DEF GoesOn, Statement, SameStacks
<1>13. r = Emit(flagged, chunk)
  BY <1>3, <1>4, <1>12
<1>14. skip \in Own(flagged)
  <2>1. Range(flagged.code_labels) \subseteq Own(flagged)
    BY <1>12, OwnStacks
  <2>2. QED
    BY <1>4, <1>12, <2>1
<1>15. /\ chunk \in Seq(Instructions) /\ Carries(chunk, Ground, Ground)
       /\ Wired(chunk) \subseteq {skip} /\ NoReturn(chunk)
  <2>1. {JumpIfTrue(skip, flag), DefVar(o), Move(o, Literal)} \subseteq Instructions
    BY <1>1, OperandTypes, InstructionTypes
  <2>2. /\ JumpIfTrue(skip, flag).op = "JUMPIFEQ" /\ JumpIfTrue(skip, flag).label = skip
        /\ DefVar(o).op = "DEFVAR" /\ DefVar(o).label = NoLabel
        /\ Move(o, Literal).op = "MOVE" /\ Move(o, Literal).label = NoLabel
    BY DEF JumpIfTrue, DefVar, Move, Instruction
  <2>3. Carries(chunk, Ground, Ground)
    <3>1. /\ Takes(JumpIfTrue(skip, flag), Ground, Ground)
          /\ Takes(DefVar(o), Ground, Ground)
          /\ Takes(Move(o, Literal), Ground, Ground)
      BY <2>2 DEF Takes, Quiet
    <3>2. QED
      BY <3>1, LowLevels, CarriesThree
  <2>4. /\ chunk \in Seq(Instructions) /\ DOMAIN chunk = 1..3
        /\ chunk[1] = JumpIfTrue(skip, flag) /\ chunk[2] = DefVar(o)
        /\ chunk[3] = Move(o, Literal)
    BY <2>1
  <2> HIDE DEF chunk
  <2>5. \A i \in DOMAIN chunk : chunk[i].op # "RETURN"
    BY <2>2, <2>4
  <2>6. Wired(chunk) \subseteq {skip}
    <3>1. \A i \in DOMAIN chunk : chunk[i].op \in JumpOps => chunk[i].label = skip
      BY <2>2, <2>4 DEF JumpOps
    <3>2. QED
      BY <3>1 DEF Wired
  <2>7. NoReturn(chunk)
    BY <2>5 DEF NoReturn
  <2>8. QED
    BY <2>3, <2>4, <2>6, <2>7
<1> HIDE DEF chunk
<1>16. GoesOn(flagged, r, Ground, Ground)
  BY <1>12, <1>13, <1>14, <1>15, EmitAppends, AppendedGoesOn
<1>17. GoesOn(c, first, Ground, Ground)
  BY <1>7, <1>9, GoesOnOn
<1>18. GoesOn(c, flagged, Ground, Ground)
  BY <1>11, <1>17, GoesOnOn
<1>19. QED
  BY <1>16, <1>18, GoesOnOn

\* code_constructor_static_variable_declaration_end
LEMMA StaticEndGoesOn ==
  ASSUME NEW c \in Constructors, NEW flag \in Targets, NEW skip \in Labels,
         NEW below \in Seq(Labels), OneOnTop(c.code_labels, below, skip),
         NEW r, r = StaticVariableDeclarationEnd(c, flag)
  PROVE  GoesOn(c, r, Ground, Ground)
<1> DEFINE popped == [c EXCEPT !.code_labels = below]
           chunk == <<Move(flag, True), AtLabel(skip)>>
<1>1. Last(c.code_labels) = skip /\ Front(c.code_labels) = below
  BY DEF Last, Front, OneOnTop
<1>2. r = Emit(popped, chunk)
  BY <1>1 DEF StaticVariableDeclarationEnd, HeadLabel, PopLabel
<1>3. /\ popped \in Constructors /\ ListsStay(c, popped)
      /\ popped.label_counter = c.label_counter
      /\ popped.conditions = c.conditions /\ popped.loops = c.loops
      /\ popped.code_labels = below
  BY DEF Constructors, ListsStay
<1> HIDE DEF popped
<1>4. Range(c.code_labels) = Range(below) \cup {skip}
  BY RangeOfAppend DEF OneOnTop
<1>5. Own(popped) \subseteq Own(c)
  <2>1. c.label_counter \in Nat /\ popped.label_counter >= c.label_counter
    BY <1>3, ConstructorFields
  <2>2. /\ Range(popped.conditions) \subseteq Own(c)
        /\ Range(popped.loops) \subseteq Own(c)
        /\ Range(popped.code_labels) \subseteq Own(c)
    BY <1>3, <1>4, OwnStacks
  <2>3. QED
    BY <1>3, <2>1, <2>2, OwnLess
<1>6. /\ chunk \in Seq(Instructions) /\ Carries(chunk, Ground, Ground)
      /\ Wired(chunk) \subseteq {skip} /\ NoReturn(chunk)
  <2>1. Move(flag, True) \in Instructions /\ AtLabel(skip) \in Instructions
    BY OperandTypes, InstructionTypes
  <2>2. /\ Move(flag, True).op = "MOVE" /\ Move(flag, True).label = NoLabel
        /\ AtLabel(skip).op = "LABEL" /\ AtLabel(skip).label = skip
    BY DEF Move, AtLabel, Instruction
  <2>3. Carries(chunk, Ground, Ground)
    <3>1. Takes(Move(flag, True), Ground, Ground) /\ Takes(AtLabel(skip), Ground, Ground)
      BY <2>2 DEF Takes, Quiet
    <3>2. QED
      BY <3>1, LowLevels, CarriesTwo
  <2>4. /\ chunk \in Seq(Instructions) /\ DOMAIN chunk = {1, 2}
        /\ chunk[1] = Move(flag, True) /\ chunk[2] = AtLabel(skip)
    BY <2>1
  <2> HIDE DEF chunk
  <2>5. \A i \in DOMAIN chunk : chunk[i].op # "RETURN"
    BY <2>2, <2>4
  <2>6. Wired(chunk) \subseteq {skip}
    <3>1. \A i \in DOMAIN chunk : chunk[i].op \in JumpOps => chunk[i].label = skip
      BY <2>2, <2>4 DEF JumpOps
    <3>2. QED
      BY <3>1 DEF Wired
  <2>7. NoReturn(chunk)
    BY <2>5 DEF NoReturn
  <2>8. QED
    BY <2>3, <2>4, <2>6, <2>7
<1> HIDE DEF chunk
<1>7. Wired(chunk) \subseteq Own(c)
  BY <1>4, <1>6, OwnStacks
<1>8. Appended(popped, r, chunk) /\ Own(r) = Own(popped)
  BY <1>2, <1>3, <1>6, EmitAppends
<1>9. r \in Constructors /\ ListsStay(r, r)
  BY <1>8, ListsAlone DEF Appended
<1>10. QED
  BY <1>2, <1>3, <1>5, <1>6, <1>7, <1>8, <1>9, EmittedGoesOn

-----------------------------------------------------------------------------
(* Both lists start and end with nothing on the stack, and no jump leaves  *)
(* the list it is in.                                                      *)

OwnLabels(c) ==
  /\ Wired(c.main) \cap Wired(c.buffer) = {}
  /\ Wired(Resting(c)) \cap Own(c) = {}
  /\ \A l \in Wired(c.main) \cup Own(c) : l.type # "function"

Tidy(c) ==
  /\ Carries(c.main, Ground, Ground) /\ Carries(c.buffer, Ground, Ground)
  /\ NoReturn(c.main)
  /\ ~c.to_buffer => Ends(c.buffer)
  /\ OwnLabels(c)

LEMMA TidyGoesOn ==
  ASSUME NEW c \in Constructors, Tidy(c), NEW r, GoesOn(c, r, Ground, Ground)
  PROVE  Tidy(r)
<1>1. /\ r \in Constructors /\ r.to_buffer = c.to_buffer
      /\ Wired(Writing(r)) \subseteq Wired(Writing(c)) \cup Own(c)
      /\ Wired(Resting(r)) \subseteq Wired(Resting(c))
      /\ Own(r) \subseteq Own(c)
  BY DEF GoesOn
<1>2. /\ Carries(Writing(c), Ground, Ground) /\ Carries(Resting(c), Ground, Ground)
      /\ Wired(Writing(c)) \cap Wired(Resting(c)) = {}
      /\ Wired(Resting(c)) \cap Own(c) = {}
      /\ \A l \in Wired(c.main) \cup Own(c) : l.type # "function"
  BY DEF Tidy, OwnLabels, Writing, Resting
<1>3. /\ Carries(Writing(r), Ground, Ground) /\ Carries(Resting(r), Ground, Ground)
      /\ NoReturn(r.main)
      /\ ~r.to_buffer => Ends(r.buffer)
  BY <1>1, <1>2 DEF GoesOn, Tidy
<1>4. Wired(Writing(r)) \cap Wired(Resting(r)) = {} /\ Wired(Resting(r)) \cap Own(r) = {}
  BY <1>1, <1>2
<1>5. Wired(r.main) \subseteq Wired(c.main) \cup Own(c)
  BY <1>1, TwoLists
<1>6. \A l \in Wired(r.main) \cup Own(r) : l.type # "function"
  BY <1>1, <1>2, <1>5
<1>7. /\ Carries(r.main, Ground, Ground) /\ Carries(r.buffer, Ground, Ground)
      /\ Wired(r.main) \cap Wired(r.buffer) = {}
  BY <1>1, <1>3, <1>4, TwoLists
<1>8. QED
  BY <1>3, <1>4, <1>6, <1>7 DEF Tidy, OwnLabels

\* code_constructor_function_header, when nothing is open.
LEMMA HeaderTidy ==
  ASSUME NEW c \in Constructors, Tidy(c), ~c.to_buffer, NEW f \in Names,
         Wired(c.main) \cap Own(c) = {}
  PROVE  Tidy(FunctionHeader(c, f))
<1> DEFINE l == FunctionLabel(f)
           chunk == <<AtLabel(l)>>
           switched == [c EXCEPT !.to_buffer = TRUE]
           r == Emit(switched, chunk)
<1>1. r = FunctionHeader(c, f)
  BY DEF FunctionHeader
<1>2. l \in Labels /\ l.type = "function"
  BY LabelTypes DEF FunctionLabel, NoLabel
<1> HIDE DEF l
<1>3. /\ chunk \in Seq(Instructions) /\ Carries(chunk, Ground, Ground)
      /\ Wired(chunk) \subseteq {l}
  BY <1>2, LevelChunks
<1>4. /\ switched \in Constructors /\ switched.main = c.main
      /\ switched.buffer = c.buffer /\ switched.to_buffer
      /\ Own(switched) = Own(c)
  BY DEF Constructors, Own, Fresh
<1> HIDE DEF chunk, switched
<1>5. Appended(switched, r, chunk) /\ Own(r) = Own(switched)
  BY <1>3, <1>4, EmitAppends
<1> HIDE DEF r
<1>6. /\ r \in Constructors /\ r.to_buffer /\ r.main = c.main
      /\ r.buffer = c.buffer \o chunk
  BY <1>4, <1>5 DEF Appended, Writing, Resting
<1>7. c.main \in Seq(Instructions) /\ c.buffer \in Seq(Instructions)
  BY ConstructorFields
<1>8. Wired(r.buffer) = Wired(c.buffer) \cup Wired(chunk)
  BY <1>3, <1>6, <1>7, JoinedLists
<1>9. Carries(r.buffer, Ground, Ground)
  BY <1>3, <1>6, <1>7, CarriesJoined DEF Tidy
<1>10. \A k \in Wired(c.main) \cup Own(c) : k.type # "function"
  BY DEF Tidy, OwnLabels
<1>11. l \notin Wired(c.main)
  BY <1>2, <1>10
<1>12. Wired(r.main) \cap Wired(r.buffer) = {}
  BY <1>3, <1>6, <1>8, <1>11 DEF Tidy, OwnLabels
<1>13. OwnLabels(r)
  BY <1>4, <1>5, <1>6, <1>10, <1>12 DEF OwnLabels, Resting
<1>14. QED
  BY <1>1, <1>6, <1>9, <1>13 DEF Tidy

\* code_constructor_function_end
LEMMA FunctionEndTidy ==
  ASSUME NEW c \in Constructors, Tidy(c), c.to_buffer, Wired(c.buffer) \cap Own(c) = {}
  PROVE  Tidy(FunctionEnd(c))
<1> DEFINE chunk == <<PushS(Literal), Plain("RETURN")>>
           emitted == Emit(c, chunk)
           r == FunctionEnd(c)
<1>1. r = [emitted EXCEPT !.to_buffer = FALSE]
  BY DEF FunctionEnd
<1>2. /\ PushS(Literal).op = "PUSHS" /\ Plain("RETURN").op = "RETURN"
      /\ PushS(Literal) \in Instructions /\ Plain("RETURN") \in Instructions
  BY OperandTypes, LabelTypes, InstructionTypes DEF PushS, Plain, Instruction
<1>3. /\ Takes(PushS(Literal), Ground, Level(1, 0))
      /\ Takes(Plain("RETURN"), Level(1, 0), Ground)
  BY <1>2, LowLevels DEF Takes
<1>4. Carries(chunk, Ground, Ground)
  BY <1>3, LowLevels, CarriesTwo
<1>5. chunk \in Seq(Instructions) /\ Wired(chunk) = {} /\ Len(chunk) > 0 /\ Ends(chunk)
  BY <1>2 DEF Wired, JumpOps, Ends
<1> HIDE DEF chunk, r
<1>6. Appended(c, emitted, chunk) /\ Own(emitted) = Own(c)
  BY <1>5, EmitAppends
<1>7. /\ emitted \in Constructors /\ emitted.main = c.main
      /\ emitted.buffer = c.buffer \o chunk
  BY <1>6 DEF Appended, Writing, Resting
<1> HIDE DEF emitted
<1>8. /\ r \in Constructors /\ ~r.to_buffer /\ r.main = c.main
      /\ r.buffer = c.buffer \o chunk /\ Own(r) = Own(c)
  BY <1>1, <1>6, <1>7 DEF Constructors, Own, Fresh
<1>9. c.main \in Seq(Instructions) /\ c.buffer \in Seq(Instructions)
  BY ConstructorFields
<1>10. Wired(r.buffer) = Wired(c.buffer) /\ Ends(r.buffer)
  <2>1. /\ Wired(c.buffer \o chunk) = Wired(c.buffer) \cup Wired(chunk)
        /\ Len(chunk) > 0 => (Ends(c.buffer \o chunk) <=> Ends(chunk))
    BY <1>5, <1>9, JoinedLists
  <2>2. QED
    BY <1>5, <1>8, <2>1
<1>11. Carries(r.buffer, Ground, Ground)
  BY <1>4, <1>5, <1>8, <1>9, CarriesJoined DEF Tidy
<1>12. OwnLabels(r)
  BY <1>8, <1>10 DEF Tidy, OwnLabels, Resting
<1>13. Tidy(r)
  BY <1>8, <1>10, <1>11, <1>12 DEF Tidy
<1>14. QED
  BY <1>13 DEF r

-----------------------------------------------------------------------------
(* The code of an expression puts its value on the stack: each expression  *)
(* on the parser's stack has a part of the code of its own, which leaves   *)
(* one value more, whatever is below.  The part of a constant or of a      *)
(* variable is the one instruction that pushes it.                         *)

\* A part that leaves n values more than it found.
Lifts(code, from, to, n) ==
  \A h \in Nat : Passes(code, from, to, Level(h, 0), Level(h + n, 0))

Cuts(code, tokens, cut, end) ==
  /\ cut \in [0..Len(tokens) -> Nat] /\ cut[0] = 0 /\ cut[Len(tokens)] = end
  /\ \A i \in 1..Len(tokens) :
       /\ cut[i - 1] <= cut[i] /\ Lifts(code, cut[i - 1], cut[i], 1)
       /\ tokens[i].kind # "other" =>
            tokens[i].at = cut[i] /\ cut[i] = cut[i - 1] + 1

Stacked(code, tokens) == \E cut : Cuts(code, tokens, cut, Len(code))

LEMMA LevelsOf ==
  \A h \in Nat, f \in {0, 1} :
    /\ Level(h, f) \in Levels /\ Level(h, f).height = h /\ Level(h, f).frames = f
BY LevelType

LEMMA LiftsNone ==
  ASSUME NEW code, NEW i \in Nat
  PROVE  Lifts(code, i, i, 0)
<1>1. ASSUME NEW h \in Nat PROVE Passes(code, i, i, Level(h, 0), Level(h + 0, 0))
  <2>1. h + 0 = h /\ Level(h, 0) \in Levels
    BY LevelsOf
  <2>2. QED
    BY <2>1, PassesNone
<1>2. QED
  BY <1>1 DEF Lifts

LEMMA LiftsJoined ==
  ASSUME NEW code, NEW i \in Nat, NEW j \in Nat, NEW k \in Nat, i <= j, j <= k,
         NEW m \in Nat, NEW n \in Nat, Lifts(code, i, j, m), Lifts(code, j, k, n)
  PROVE  Lifts(code, i, k, m + n)
<1>1. ASSUME NEW h \in Nat PROVE Passes(code, i, k, Level(h, 0), Level(h + (m + n), 0))
  <2>1. h + m \in Nat /\ (h + m) + n = h + (m + n)
    OBVIOUS
  <2>2. Passes(code, i, j, Level(h, 0), Level(h + m, 0))
    BY DEF Lifts
  <2>3. Passes(code, j, k, Level(h + m, 0), Level((h + m) + n, 0))
    BY <2>1 DEF Lifts
  <2>4. QED
    BY <2>1, <2>2, <2>3, PassesJoin
<1>2. QED
  BY <1>1 DEF Lifts

LEMMA LiftsMoved ==
  ASSUME NEW code, NEW other, NEW i \in Nat, NEW j \in Nat, i <= j,
         NEW m \in Nat, NEW n \in Nat, n - m = j - i, NEW k \in Nat,
         Lifts(code, i, j, k), \A p \in i + 1..j : other[m - i + p] = code[p]
  PROVE  Lifts(other, m, n, k)
<1>1. ASSUME NEW h \in Nat PROVE Passes(other, m, n, Level(h, 0), Level(h + k, 0))
  <2>1. Passes(code, i, j, Level(h, 0), Level(h + k, 0))
    BY DEF Lifts
  <2>2. QED
    BY <2>1, PassesMoved
<1>2. QED
  BY <1>1 DEF Lifts

\* The same part of a list that is the same up to there.
LEMMA LiftsKept ==
  ASSUME NEW code, NEW other, NEW i \in Nat, NEW j \in Nat, i <= j, NEW k \in Nat,
         Lifts(code, i, j, k), \A p \in i + 1..j : other[p] = code[p]
  PROVE  Lifts(other, i, j, k)
<1>1. \A p \in i + 1..j : i - i + p = p
  OBVIOUS
<1>2. j - i = j - i /\ \A p \in i + 1..j : other[i - i + p] = code[p]
  BY <1>1
<1>3. QED
  BY <1>2, LiftsMoved

LEMMA CutsGrow ==
  ASSUME NEW code, NEW tokens \in Seq(Tokens), NEW cut, NEW end, Cuts(code, tokens, cut, end)
  PROVE  \A i, j \in 0..Len(tokens) : i <= j => cut[i] <= cut[j]
<1>1. Len(tokens) \in Nat
  OBVIOUS
<1> DEFINE n == Len(tokens)
<1>2. /\ cut \in [0..n -> Nat]
      /\ \A i \in 1..n : cut[i - 1] <= cut[i]
  BY DEF Cuts
<1> HIDE DEF n
<1>3. ASSUME NEW i \in 0..n PROVE \A j \in 0..n : i <= j => cut[i] <= cut[j]
  <2> DEFINE T == {j \in 0..n : i <= j => cut[i] <= cut[j]}
  <2>1. 0 \in T
    BY <1>1, <1>2 DEF n
  <2>2. ASSUME NEW j \in 1..n, j - 1 \in T PROVE j \in T
    <3>1. cut[j - 1] \in Nat /\ cut[j] \in Nat /\ cut[i] \in Nat /\ cut[j - 1] <= cut[j]
      <4>1. j - 1 \in 0..n /\ j \in 0..n
        BY <1>1 DEF n
      <4>2. QED
        BY <1>2, <4>1
    <3>2. i <= j - 1 => cut[i] <= cut[j - 1]
      BY <2>2
    <3>3. i <= j => i <= j - 1 \/ i = j
      BY <1>1 DEF n
    <3>4. j \in 0..n
      BY <1>1 DEF n
    <3>5. QED
      BY <3>1, <3>2, <3>3, <3>4
  <2>3. \A j \in 0..n : j \in T
    <3> HIDE DEF T
    <3>1. n \in Nat
      BY <1>1 DEF n
    <3>2. QED
      BY <3>1, <2>1, <2>2, StepByStep
  <2>4. QED
    BY <2>3
<1>4. QED
  BY <1>3 DEF n

LEMMA CutsBelow ==
  ASSUME NEW code, NEW tokens \in Seq(Tokens), NEW cut, NEW end,
         Cuts(code, tokens, cut, end), NEW k \in 0..Len(tokens), NEW below, NEW top,
         Splits(tokens, below, top, k)
  PROVE  \E lower : Cuts(code, below, lower, cut[Len(tokens) - k])
<1> DEFINE n == Len(tokens)
           m == n - k
           lower == [i \in 0..m |-> cut[i]]
<1>1. n \in Nat /\ m \in 0..n /\ m \in Nat
  OBVIOUS
<1>2. /\ cut \in [0..n -> Nat] /\ cut[0] = 0
      /\ \A i \in 1..n :
           /\ cut[i - 1] <= cut[i] /\ Lifts(code, cut[i - 1], cut[i], 1)
           /\ tokens[i].kind # "other" =>
                tokens[i].at = cut[i] /\ cut[i] = cut[i - 1] + 1
  BY DEF Cuts
<1>3. Len(below) = m /\ \A i \in 1..m : below[i] = tokens[i]
  BY DEF Splits
<1> HIDE DEF n
<1>4. /\ lower \in [0..m -> Nat] /\ \A i \in 0..m : lower[i] = cut[i]
  BY <1>1, <1>2
<1>5. \A i \in 1..m : i \in 1..n /\ i \in 0..m /\ i - 1 \in 0..m
  BY <1>1
<1>6. 0 \in 0..m /\ m \in 0..m
  BY <1>1
<1> HIDE DEF m, lower
<1>7. Cuts(code, below, lower, cut[m])
  <2>1. ASSUME NEW i \in 1..m
        PROVE  /\ lower[i - 1] <= lower[i] /\ Lifts(code, lower[i - 1], lower[i], 1)
               /\ below[i].kind # "other" =>
                    below[i].at = lower[i] /\ lower[i] = lower[i - 1] + 1
    <3>1. lower[i] = cut[i] /\ lower[i - 1] = cut[i - 1] /\ below[i] = tokens[i]
      BY <1>3, <1>4, <1>5
    <3>2. QED
      BY <1>2, <1>5, <3>1
  <2>2. QED
    BY <1>2, <1>3, <1>4, <1>6, <2>1 DEF Cuts
<1>8. QED
  BY <1>7 DEF m, n

\* One expression more, in a list that begins with the others.
LEMMA CutsMore ==
  ASSUME NEW code, NEW tokens \in Seq(Tokens), NEW cut, NEW end \in Nat,
         Cuts(code, tokens, cut, end),
         NEW longer, NEW length \in Nat, end <= length, Len(longer) = length,
         \A i \in 1..end : longer[i] = code[i], Lifts(longer, end, length, 1),
         NEW token \in Tokens,
         token.kind # "other" => token.at = length /\ length = end + 1
  PROVE  Stacked(longer, Append(tokens, token))
<1> DEFINE n == Len(tokens)
           more == Append(tokens, token)
           upto == [i \in 0..n + 1 |-> IF i = n + 1 THEN length ELSE cut[i]]
<1>1. n \in Nat /\ Len(more) = n + 1 /\ more[n + 1] = token
      /\ \A i \in 1..n : more[i] = tokens[i]
  OBVIOUS
<1>2. /\ cut \in [0..n -> Nat] /\ cut[0] = 0 /\ cut[n] = end
      /\ \A i \in 1..n :
           /\ cut[i - 1] <= cut[i] /\ Lifts(code, cut[i - 1], cut[i], 1)
           /\ tokens[i].kind # "other" =>
                tokens[i].at = cut[i] /\ cut[i] = cut[i - 1] + 1
  BY DEF Cuts
<1>3. \A i \in 1..n : cut[i] <= end
  <2>1. \A i \in 1..n : i \in 0..n /\ n \in 0..n /\ i <= n
    BY <1>1
  <2>2. QED
    BY <1>2, <2>1, CutsGrow DEF n
<1> HIDE DEF n, more
<1>4. /\ upto \in [0..n + 1 -> Nat] /\ upto[n + 1] = length
      /\ \A i \in 0..n : upto[i] = cut[i]
  BY <1>1, <1>2
<1> HIDE DEF upto
<1>5. upto[0] = 0 /\ upto[n] = end
  BY <1>1, <1>2, <1>4
<1>6. ASSUME NEW i \in 1..n + 1
      PROVE  /\ upto[i - 1] <= upto[i] /\ Lifts(longer, upto[i - 1], upto[i], 1)
             /\ more[i].kind # "other" =>
                  more[i].at = upto[i] /\ upto[i] = upto[i - 1] + 1
  <2>1. CASE i = n + 1
    <3>1. i - 1 = n
      BY <1>1, <2>1
    <3>2. upto[i - 1] = end /\ upto[i] = length /\ more[i] = token
      BY <1>1, <1>4, <1>5, <2>1, <3>1
    <3>3. QED
      BY <3>2
  <2>2. CASE i \in 1..n
    <3>1. i \in 0..n /\ i - 1 \in 0..n
      BY <1>1, <2>2
    <3>2. upto[i] = cut[i] /\ upto[i - 1] = cut[i - 1] /\ more[i] = tokens[i]
          /\ cut[i] \in Nat /\ cut[i - 1] \in Nat
      BY <1>1, <1>2, <1>4, <2>2, <3>1
    <3>3. cut[i - 1] <= cut[i] /\ Lifts(code, cut[i - 1], cut[i], 1) /\ cut[i] <= end
      BY <1>2, <1>3, <2>2
    <3>4. \A p \in cut[i - 1] + 1..cut[i] : longer[p] = code[p]
      <4>1. \A p \in cut[i - 1] + 1..cut[i] : p \in 1..end
        BY <3>2, <3>3
      <4>2. QED
        BY <4>1
    <3>5. Lifts(longer, cut[i - 1], cut[i], 1)
      BY <3>2, <3>3, <3>4, LiftsKept
    <3>6. QED
      BY <1>2, <2>2, <3>2, <3>3, <3>5
  <2>3. QED
    BY <1>1, <2>1, <2>2
<1>7. Cuts(longer, more, upto, Len(longer))
  BY <1>1, <1>4, <1>5, <1>6 DEF Cuts
<1>8. QED
  BY <1>7 DEF Stacked, more

\* What is left of the places up to i is where it was in what is left up to j.
Extends(shorter, longer) ==
  /\ Len(shorter) <= Len(longer)
  /\ \A p \in 1..Len(shorter) : longer[p] = shorter[p]

LEMMA RemovalExtends ==
  ASSUME NEW S, NEW code \in Seq(S), NEW places, NEW kept,
         Removal(S, code, places, kept), NEW i \in 0..Len(code)
  PROVE  \A j \in 0..Len(code) : i <= j => Extends(kept[i], kept[j])
<1> DEFINE n == Len(code)
           T == {j \in 0..n : i <= j => Extends(kept[i], kept[j])}
<1>1. n \in Nat /\ \A k \in 1..n : code[k] \in S
  OBVIOUS
<1>2. /\ \A k \in 1..n : kept[k] = IF k \in places THEN kept[k - 1]
                                   ELSE Append(kept[k - 1], code[k])
      /\ \A k \in 0..n : kept[k] \in Seq(S)
  BY DEF Removal
<1>3. i \in 0..n
  OBVIOUS
<1> HIDE DEF n
<1>4. \A k \in 0..n : Extends(kept[k], kept[k])
  BY <1>2 DEF Extends
<1>5. 0 \in T
  <2>1. i <= 0 => i = 0
    BY <1>1, <1>3
  <2>2. 0 \in 0..n
    BY <1>1
  <2>3. QED
    BY <1>4, <2>1, <2>2
<1>6. ASSUME NEW j \in 1..n, j - 1 \in T PROVE j \in T
  <2>1. j \in 0..n /\ j - 1 \in 0..n /\ (i <= j => i <= j - 1 \/ i = j)
    BY <1>1, <1>3
  <2>2. CASE i = j
    BY <1>4, <2>1, <2>2
  <2>3. CASE i <= j - 1
    <3>1. Extends(kept[i], kept[j - 1])
      BY <1>6, <2>3
    <3>2. Extends(kept[j - 1], kept[j])
      <4>1. kept[j - 1] \in Seq(S) /\ code[j] \in S
        BY <1>1, <1>2, <2>1
      <4>2. kept[j] = kept[j - 1] \/ kept[j] = Append(kept[j - 1], code[j])
        BY <1>2
      <4>3. Extends(kept[j - 1], Append(kept[j - 1], code[j]))
        BY <4>1 DEF Extends
      <4>4. QED
        BY <1>4, <2>1, <4>2, <4>3
    <3>3. /\ Len(kept[i]) \in Nat /\ Len(kept[j - 1]) \in Nat /\ Len(kept[j]) \in Nat
      BY <1>2, <1>3, <2>1, LenProperties
    <3>4. Extends(kept[i], kept[j])
      BY <3>1, <3>2, <3>3 DEF Extends
    <3>5. QED
      BY <2>1, <3>4
  <2>4. QED
    BY <2>1, <2>2, <2>3
<1>7. \A j \in 0..n : j \in T
  <2> HIDE DEF T
  <2>1. QED
    BY <1>1, <1>5, <1>6, StepByStep
<1>8. QED
  BY <1>7 DEF n

\* A part of which nothing is taken out is there as a whole.
LEMMA RemovalCopies ==
  ASSUME NEW S, NEW code \in Seq(S), NEW places, NEW kept,
         Removal(S, code, places, kept), NEW i \in 0..Len(code), NEW j \in 0..Len(code),
         i <= j, \A k \in i + 1..j : k \notin places
  PROVE  /\ Len(kept[j]) = Len(kept[i]) + (j - i)
         /\ \A p \in i + 1..j : kept[j][Len(kept[i]) - i + p] = code[p]
<1> DEFINE n == Len(code)
           m == Len(kept[i])
           Copied(k) == /\ Len(kept[k]) = m + (k - i)
                        /\ \A p \in i + 1..k : kept[k][m - i + p] = code[p]
           T == {k \in 0..j : i <= k => Copied(k)}
<1>1. n \in Nat /\ i \in 0..n /\ j \in 0..n /\ \A k \in 1..n : code[k] \in S
  OBVIOUS
<1>2. /\ \A k \in 1..n : kept[k] = IF k \in places THEN kept[k - 1]
                                   ELSE Append(kept[k - 1], code[k])
      /\ \A k \in 0..n : kept[k] \in Seq(S)
  BY DEF Removal
<1>3. m \in Nat
  BY <1>2, LenProperties
<1> HIDE DEF n
<1>4. Copied(i)
  <2>1. i + 1..i = {} /\ m + (i - i) = m
    BY <1>1, <1>3
  <2>2. QED
    BY <2>1
<1> HIDE DEF m
<1>5. 0 \in T
  <2>1. i <= 0 => i = 0
    BY <1>1
  <2>2. 0 \in 0..j
    BY <1>1
  <2> HIDE DEF Copied
  <2>3. QED
    BY <1>4, <2>1, <2>2
<1>6. ASSUME NEW k \in 1..j, k - 1 \in T PROVE k \in T
  <2>1. k \in 0..j /\ k \in 1..n /\ k - 1 \in 0..n /\ (i <= k => i <= k - 1 \/ i = k)
    BY <1>1
  <2>2. CASE i = k
    <3> HIDE DEF Copied
    <3>1. QED
      BY <1>4, <2>1, <2>2
  <2>3. CASE i <= k - 1
    <3>1. Copied(k - 1)
      BY <1>6, <2>3
    <3>2. k \notin places
      BY <1>1, <2>1, <2>3
    <3>3. kept[k] = Append(kept[k - 1], code[k])
      BY <1>2, <2>1, <3>2
    <3> DEFINE before == kept[k - 1]
               item == code[k]
    <3>4. before \in Seq(S) /\ item \in S
      BY <1>1, <1>2, <2>1
    <3>5. Len(before) = m + (k - 1 - i)
      BY <3>1
    <3>6. \A p \in i + 1..k - 1 : before[m - i + p] = code[p]
      BY <3>1
    <3>7. kept[k] = Append(before, item) /\ item = code[k]
      BY <3>3
    <3> HIDE DEF before, item
    <3>8. /\ Len(kept[k]) = Len(before) + 1
          /\ kept[k][Len(before) + 1] = item
          /\ \A p \in 1..Len(before) : kept[k][p] = before[p]
      BY <3>4, <3>7
    <3>9. Len(kept[k]) = m + (k - i)
      BY <1>1, <1>3, <2>1, <3>5, <3>8
    <3>10. ASSUME NEW p \in i + 1..k PROVE kept[k][m - i + p] = code[p]
      <4>1. CASE p = k
        <5>1. m - i + p = Len(before) + 1
          BY <1>1, <1>3, <2>1, <3>5, <4>1
        <5>2. QED
          BY <3>7, <3>8, <4>1, <5>1
      <4>2. CASE p # k
        <5>1. p \in i + 1..k - 1 /\ m - i + p \in 1..Len(before)
          BY <1>1, <1>3, <2>1, <3>5, <4>2
        <5>2. QED
          BY <3>6, <3>8, <5>1
      <4>3. QED
        BY <4>1, <4>2
    <3>11. QED
      BY <2>1, <3>9, <3>10
  <2>4. QED
    BY <2>1, <2>2, <2>3
<1>7. \A k \in 0..j : k \in T
  <2> HIDE DEF T
  <2>1. j \in Nat
    BY <1>1
  <2>2. QED
    BY <1>5, <1>6, <2>1, StepByStep
<1>8. Copied(j)
  <2>1. j \in 0..j
    BY <1>1
  <2> HIDE DEF Copied
  <2>2. QED
    BY <1>7, <2>1
<1>9. QED
  BY <1>8 DEF m


\* The values on the stack once the instructions of constants and variables are
\* taken out: one for each of the other expressions.
Others(values, tokens) ==
  /\ values \in [0..Len(tokens) -> Nat] /\ values[0] = 0
  /\ \A i \in 1..Len(tokens) :
       values[i] = values[i - 1] + (IF tokens[i].kind = "other" THEN 1 ELSE 0)

LEMMA OthersExist ==
  ASSUME NEW tokens \in Seq(Tokens)
  PROVE  \E values : Others(values, tokens)
<1> DEFINE n == Len(tokens)
           kinds == [i \in 0..n |-> Nat]
           steps == [i \in 1..n |-> [v \in Nat |->
                       v + (IF tokens[i].kind = "other" THEN 1 ELSE 0)]]
           base == 0
<1>1. n \in Nat
  OBVIOUS
<1> HIDE DEF n
<1>2. /\ \A i \in 0..n : kinds[i] = Nat
      /\ \A i \in 1..n : i - 1 \in 0..n /\ i \in 0..n
      /\ \A i \in 1..n, v \in Nat :
           steps[i][v] = v + (IF tokens[i].kind = "other" THEN 1 ELSE 0)
  BY <1>1
<1>3. base \in Nat /\ 0 \in 0..n
  BY <1>1
<1> HIDE DEF kinds, steps, base
<1>4. base \in kinds[0]
  BY <1>2, <1>3
<1>5. \A i \in 1..n : \A v \in kinds[i - 1] : steps[i][v] \in kinds[i]
  <2>1. ASSUME NEW i \in 1..n, NEW v \in Nat PROVE steps[i][v] \in Nat
    <3>1. steps[i][v] = v + (IF tokens[i].kind = "other" THEN 1 ELSE 0)
      BY <1>2, Zenon
    <3> DEFINE more == IF tokens[i].kind = "other" THEN 1 ELSE 0
    <3>2. more \in Nat
      OBVIOUS
    <3> HIDE DEF more
    <3>3. QED
      BY <3>1, <3>2 DEF more
  <2>2. QED
    BY <1>2, <2>1
<1>6. PICK values : Iterates(values, n, kinds, base, steps)
  BY <1>1, <1>4, <1>5, IterationExists
<1>7. /\ values = [i \in 0..n |-> values[i]] /\ values[0] = base
      /\ \A i \in 1..n : values[i] = steps[i][values[i - 1]]
      /\ \A i \in 0..n : values[i] \in Nat
  BY <1>2, <1>6 DEF Iterates
<1>8. \A i \in 1..n :
        values[i] = values[i - 1] + (IF tokens[i].kind = "other" THEN 1 ELSE 0)
  BY <1>2, <1>7
<1>9. values \in [0..n -> Nat] /\ values[0] = 0
  BY <1>7 DEF base
<1>10. Others(values, tokens)
  BY <1>8, <1>9 DEF Others, n
<1>11. QED
  BY <1>10

\* Taking out the instructions that push the constants and variables on top
\* leaves what is below as it was, and on it the other values.
LEMMA TakenOut ==
  ASSUME NEW functions, NEW code, NEW tokens, WellPlaced(code, tokens, functions),
         NEW cut, Cuts(code, tokens, cut, Len(code)), NEW k \in 0..Len(tokens),
         NEW below, NEW top, Splits(tokens, below, top, k),
         NEW values, Others(values, top),
         NEW removed, removed = RemovePlaces(code, Places(top)),
         NEW end, end = cut[Len(tokens) - k]
  PROVE  /\ end \in Nat /\ Len(removed) \in Nat /\ end <= Len(removed)
         /\ end <= Len(code)
         /\ \A p \in 1..end : removed[p] = code[p]
         /\ Lifts(removed, end, Len(removed), values[k])
         /\ values[k] = 0 => Len(removed) = end
<1> DEFINE C == ExpressionCode(functions)
           n == Len(tokens)
           m == n - k
           l == Len(code)
           P == Places(top)
<1>1. /\ code \in Seq(C) /\ tokens \in Seq(Tokens)
      /\ \A i \in 1..n : tokens[i].kind = "other" => tokens[i].at = 0
  BY DEF WellPlaced
<1>2. n \in Nat /\ m \in Nat /\ k \in Nat /\ m + k = n /\ l \in Nat
  BY <1>1
<1>3. /\ cut \in [0..n -> Nat] /\ cut[0] = 0 /\ cut[n] = l
      /\ \A i \in 1..n :
           /\ cut[i - 1] <= cut[i] /\ Lifts(code, cut[i - 1], cut[i], 1)
           /\ tokens[i].kind # "other" =>
                tokens[i].at = cut[i] /\ cut[i] = cut[i - 1] + 1
  BY DEF Cuts
<1>4. \A i, j \in 0..n : i <= j => cut[i] <= cut[j]
  BY <1>1, CutsGrow
<1>5. /\ Len(top) = k /\ \A i \in 1..k : top[i] = tokens[m + i] /\ m + i \in 1..n
  BY <1>2 DEF Splits
<1>6. /\ values \in [0..k -> Nat] /\ values[0] = 0
      /\ \A i \in 1..k :
           values[i] = values[i - 1] + (IF top[i].kind = "other" THEN 1 ELSE 0)
  BY <1>5 DEF Others
<1>7. \A i \in 0..n : cut[i] \in 0..l
  <2>1. \A i \in 0..n : i <= n /\ n \in 0..n /\ cut[i] \in Nat
    BY <1>2, <1>3
  <2>2. \A i \in 0..n : cut[i] <= l
    BY <1>3, <1>4, <2>1, Zenon
  <2>3. QED
    BY <1>2, <2>1, <2>2
<1>8. DOMAIN top = 1..k
  BY <1>5 DEF Splits
<1>9. end = cut[m]
  OBVIOUS
<1>10. PICK kept : Removal(C, code, P, kept)
  BY <1>1, RemovalRule
<1>11. /\ \A i \in 1..l : kept[i] = IF i \in P THEN kept[i - 1]
                                    ELSE Append(kept[i - 1], code[i])
       /\ \A i \in 0..l : kept[i] \in Seq(C)
       /\ removed = kept[l] /\ kept[0] = << >>
  BY <1>10 DEF Removal
\* A place taken out is that of a constant or a variable on top.
<1>12. ASSUME NEW p \in Nat, p # 0, p \in P
       PROVE  \E q \in 1..k : /\ top[q].kind # "other" /\ p = cut[m + q]
                              /\ m + q \in 1..n /\ p = cut[m + q - 1] + 1
  <2>1. PICK q \in 1..k : p = top[q].at
    BY <1>8, <1>12 DEF Places
  <2>2. top[q] = tokens[m + q] /\ m + q \in 1..n
    BY <1>5
  <2>3. top[q].kind # "other"
    BY <1>1, <1>12, <2>1, <2>2
  <2>4. p = cut[m + q] /\ cut[m + q] = cut[m + q - 1] + 1
    BY <1>3, <2>1, <2>2, <2>3
  <2>5. QED
    BY <2>2, <2>3, <2>4
<1> HIDE DEF C, n, m, l, P
<1>13. \A i \in 0..k : m + i \in 0..n /\ cut[m + i] \in 0..l
  BY <1>2, <1>7
<1>14. end \in 0..l /\ end \in Nat
  BY <1>2, <1>7, <1>9
<1>15. \A p \in 0 + 1..end : p \notin P
  <2>1. ASSUME NEW p \in 0 + 1..end, p \in P PROVE FALSE
    <3>1. p \in Nat /\ p # 0
      BY <1>14
    <3>2. PICK q \in 1..k : p = cut[m + q - 1] + 1
      BY <1>12, <2>1, <3>1
    <3>3. m + q - 1 \in 0..n /\ m \in 0..n /\ m <= m + q - 1
      BY <1>2
    <3>4. cut[m] <= cut[m + q - 1] /\ cut[m + q - 1] \in Nat
      BY <1>3, <1>4, <3>3
    <3>5. QED
      BY <1>9, <1>14, <3>2, <3>4
  <2>2. QED
    BY <2>1
<1>16. /\ Len(kept[end]) = end
       /\ \A p \in 1..end : kept[end][p] = code[p]
  <2>1. 0 \in 0..l /\ 0 <= end /\ Len(kept[0]) = 0
    BY <1>2, <1>11, <1>14
  <2>2. /\ Len(kept[end]) = Len(kept[0]) + (end - 0)
        /\ \A p \in 0 + 1..end : kept[end][Len(kept[0]) - 0 + p] = code[p]
    BY <1>1, <1>10, <1>14, <1>15, <2>1, RemovalCopies DEF l
  <2>3. QED
    BY <1>14, <2>1, <2>2
<1> DEFINE T == {i \in 0..k :
                    /\ Lifts(kept[cut[m + i]], end, Len(kept[cut[m + i]]), values[i])
                    /\ values[i] = 0 => Len(kept[cut[m + i]]) = end}
<1>17. 0 \in T
  <2>1. m + 0 = m /\ 0 \in 0..k
    BY <1>2
  <2>2. Lifts(kept[end], end, end, 0)
    BY <1>14, LiftsNone
  <2>3. QED
    BY <1>6, <1>9, <1>16, <2>1, <2>2
<1>18. ASSUME NEW i \in 1..k, i - 1 \in T PROVE i \in T
  <2> DEFINE ci == cut[m + (i - 1)]
             cj == cut[m + i]
             a == kept[ci]
             b == kept[cj]
  <2>1. /\ i - 1 \in 0..k /\ i \in 0..k /\ m + (i - 1) = m + i - 1
        /\ m + i \in 1..n /\ m <= m + (i - 1) /\ m \in 0..n
    BY <1>2
  <2>2. ci \in 0..l /\ cj \in 0..l /\ ci <= cj /\ end <= ci
    <3>1. ci \in 0..l /\ cj \in 0..l
      BY <1>13, <2>1
    <3>2. ci <= cj
      BY <1>3, <2>1
    <3>3. end <= ci
      BY <1>4, <1>9, <1>13, <2>1
    <3>4. QED
      BY <3>1, <3>2, <3>3
  <2>3. /\ Lifts(a, end, Len(a), values[i - 1])
        /\ values[i - 1] = 0 => Len(a) = end
    BY <1>18
  <2>4. top[i] = tokens[m + i]
    BY <1>5
  <2>5. /\ Lifts(code, ci, cj, 1)
        /\ top[i].kind # "other" => top[i].at = cj /\ cj = ci + 1
    BY <1>3, <2>1, <2>4
  <2>6. values[i - 1] \in Nat /\ values[i] = values[i - 1] + (IF top[i].kind = "other" THEN 1 ELSE 0)
    BY <1>6, <2>1
  <2> HIDE DEF ci, cj
  <2>7. Extends(a, b) /\ Extends(kept[end], a)
    <3>1. Extends(a, b)
      BY <1>1, <1>10, <2>2, RemovalExtends DEF l
    <3>2. Extends(kept[end], a)
      BY <1>1, <1>10, <1>14, <2>2, RemovalExtends DEF l
    <3>3. QED
      BY <3>1, <3>2
  <2>8. a \in Seq(C) /\ b \in Seq(C) /\ Len(a) \in Nat /\ Len(b) \in Nat
    BY <1>11, <2>2, LenProperties
  <2>9. CASE top[i].kind = "other"
    <3>1. ASSUME NEW p \in ci + 1..cj, p \in P PROVE FALSE
      <4>1. p \in Nat /\ p # 0
        BY <1>2, <2>2
      <4>2. PICK q \in 1..k : /\ top[q].kind # "other" /\ p = cut[m + q]
                              /\ m + q \in 1..n /\ p = cut[m + q - 1] + 1
        BY <1>12, <3>1, <4>1
      <4>3. q # i
        BY <2>9, <4>2
      <4>4. CASE q < i
        <5>1. m + q <= m + (i - 1) /\ m + q \in 0..n /\ m + (i - 1) \in 0..n
          BY <1>2, <4>4, <2>1
        <5>2. cut[m + q] <= ci
          BY <1>4, <5>1 DEF ci
        <5>3. QED
          BY <1>2, <2>2, <4>2, <5>2
      <4>5. CASE q > i
        <5>1. m + i <= m + q - 1 /\ m + q - 1 \in 0..n /\ m + i \in 0..n
          BY <1>2, <4>5, <2>1
        <5>2. cj <= cut[m + q - 1] /\ cut[m + q - 1] \in Nat
          BY <1>3, <1>4, <5>1 DEF cj
        <5>3. QED
          BY <1>2, <2>2, <4>2, <5>2
      <4>6. QED
        BY <4>3, <4>4, <4>5
    <3>2. \A p \in ci + 1..cj : p \notin P
      BY <3>1
    <3>3. /\ Len(b) = Len(a) + (cj - ci)
          /\ \A p \in ci + 1..cj : b[Len(a) - ci + p] = code[p]
      <4>1. ci \in 0..Len(code) /\ cj \in 0..Len(code) /\ ci <= cj
        BY <2>2 DEF l
      <4> HIDE DEF ci, cj
      <4>2. /\ Len(kept[cj]) = Len(kept[ci]) + (cj - ci)
            /\ \A p \in ci + 1..cj : kept[cj][Len(kept[ci]) - ci + p] = code[p]
        <5>1. Removal(C, code, P, kept) /\ code \in Seq(C)
          BY <1>1, <1>10
        <5> HIDE DEF P, C
        <5>2. QED
          BY <3>2, <4>1, <5>1, RemovalCopies, SMTT(60)
      <4>3. QED
        BY <4>2
    <3> HIDE DEF a, b
    <3>4. Lifts(b, Len(a), Len(b), 1)
      <4>1. ci \in Nat /\ cj \in Nat /\ Len(b) - Len(a) = cj - ci /\ 1 \in Nat
        BY <1>2, <2>2, <2>8, <3>3
      <4>2. QED
        BY <2>2, <2>5, <2>8, <3>3, <4>1, LiftsMoved
    <3>5. end <= Len(a) /\ Len(a) <= Len(b)
      BY <1>16, <2>7 DEF Extends
    <3>6. Lifts(b, end, Len(a), values[i - 1])
      <4>1. \A p \in end + 1..Len(a) : b[p] = a[p]
        BY <1>14, <2>7, <2>8 DEF Extends
      <4>2. QED
        BY <1>14, <2>3, <2>6, <2>8, <3>5, <4>1, LiftsKept
    <3>7. Lifts(b, end, Len(b), values[i - 1] + 1)
      <4>1. 1 \in Nat
        OBVIOUS
      <4>2. QED
        BY <1>14, <2>6, <2>8, <3>4, <3>5, <3>6, <4>1, LiftsJoined
    <3>8. values[i] = values[i - 1] + 1 /\ values[i] # 0
      BY <2>6, <2>9
    <3>9. QED
      BY <2>1, <3>7, <3>8 DEF b, cj
  <2>10. CASE top[i].kind # "other"
    <3>1. cj \in P
      BY <1>8, <2>5, <2>10 DEF P, Places
    <3>2. cj = ci + 1 /\ cj \in 1..l /\ cj - 1 = ci
      BY <1>2, <2>2, <2>5, <2>10
    <3>3. b = a
      BY <1>11, <3>1, <3>2
    <3>4. values[i] = values[i - 1]
      BY <2>6, <2>10
    <3>5. QED
      BY <2>1, <2>3, <3>3, <3>4 DEF cj
  <2>11. QED
    BY <2>9, <2>10
<1>19. \A i \in 0..k : i \in T
  <2> HIDE DEF T
  <2>1. QED
    BY <1>2, <1>17, <1>18, StepByStep
<1>20. /\ Lifts(removed, end, Len(removed), values[k])
       /\ values[k] = 0 => Len(removed) = end
  <2>1. k \in 0..k /\ m + k = n
    BY <1>2
  <2>2. QED
    BY <1>3, <1>11, <1>19, <2>1
<1>21. Extends(kept[end], removed)
  <2>1. l \in 0..l /\ end <= l
    BY <1>2, <1>14
  <2>2. QED
    BY <1>1, <1>10, <1>11, <1>14, <2>1, RemovalExtends DEF l
<1>22. removed \in Seq(C) /\ l \in 0..l
  BY <1>2, <1>11
<1>23. QED
  BY <1>2, <1>14, <1>16, <1>20, <1>21, <1>22 DEF Extends, l

LEMMA LiftsOne ==
  ASSUME NEW code, NEW i \in Nat, NEW j, j = i + 1, code[j].op = "PUSHS"
  PROVE  Lifts(code, i, j, 1)
<1>1. ASSUME NEW h \in Nat PROVE Passes(code, i, j, Level(h, 0), Level(h + 1, 0))
  <2>1. h + 1 \in Nat /\ 0 \in {0, 1}
    OBVIOUS
  <2>2. /\ Level(h, 0) \in Levels /\ Level(h + 1, 0) \in Levels
        /\ Level(h, 0).height = h /\ Level(h, 0).frames = 0
    BY <2>1, LevelsOf
  <2>3. Takes(code[j], Level(h, 0), Level(h + 1, 0))
    BY <2>2 DEF Takes
  <2>4. QED
    BY <2>2, <2>3, PassesOne
<1>2. QED
  BY <1>1 DEF Lifts

LEMMA PushedStacked ==
  ASSUME NEW functions, NEW s \in States(functions), Stacked(s.code, s.tokens),
         NEW i \in ExpressionCode(functions), i.op = "PUSHS",
         NEW kind \in {"constant", "variable"}
  PROVE  Stacked(Pushed(s, kind, i).code, Pushed(s, kind, i).tokens)
<1> DEFINE token == [kind |-> kind, at |-> Len(s.code) + 1]
           code == s.code
           longer == Append(code, i)
           end == Len(code)
           length == end + 1
<1>1. code \in Seq(ExpressionCode(functions)) /\ s.tokens \in Seq(Tokens)
  BY DEF States
<1>2. end \in Nat /\ length \in Nat
  BY <1>1
<1>3. token \in Tokens /\ token.at = length
  BY <1>2 DEF Tokens
<1>4. /\ Len(longer) = length /\ longer[length] = i
      /\ \A p \in 1..end : longer[p] = code[p]
  BY <1>1
<1>5. /\ Pushed(s, kind, i).code = longer
      /\ Pushed(s, kind, i).tokens = Append(s.tokens, token)
  <2>1. s \in [code : Seq(ExpressionCode(functions)), tokens : Seq(Tokens),
               refused : BOOLEAN]
    BY DEF States
  <2> DEFINE t == Append(s.tokens, token)
  <2>2. Pushed(s, kind, i) = [s EXCEPT !.code = longer, !.tokens = t]
    BY DEF Pushed
  <2> HIDE DEF longer, t
  <2>3. /\ Pushed(s, kind, i).code = longer
        /\ Pushed(s, kind, i).tokens = t
    BY <2>1, <2>2
  <2>4. QED
    BY <2>3 DEF t
<1>6. PICK cut : Cuts(code, s.tokens, cut, end)
  BY DEF Stacked
<1> HIDE DEF longer, code, end, token
<1>7. Lifts(longer, end, length, 1)
  BY <1>2, <1>4, LiftsOne
<1>8. end <= length /\ length = end + 1
  BY <1>2
<1> HIDE DEF length
<1>9. Stacked(longer, Append(s.tokens, token))
  BY <1>1, <1>2, <1>3, <1>4, <1>6, <1>7, <1>8, CutsMore
<1>10. QED
  BY <1>5, <1>9

\* An addition takes two values and leaves one.
LEMMA LiftsAdded ==
  ASSUME NEW code, NEW i \in Nat, NEW j \in Nat, i <= j, Lifts(code, i, j, 2),
         NEW k, k = j + 1, code[k].op = "ADDS"
  PROVE  Lifts(code, i, k, 1)
<1>1. ASSUME NEW h \in Nat PROVE Passes(code, i, k, Level(h, 0), Level(h + 1, 0))
  <2>1. h + 1 \in Nat /\ h + 2 \in Nat /\ 0 \in {0, 1} /\ h + 2 >= 2 /\ h + 2 - 1 = h + 1
        /\ k \in Nat /\ j <= k
    OBVIOUS
  <2>2. /\ Level(h + 1, 0) \in Levels /\ Level(h + 2, 0) \in Levels
        /\ Level(h + 2, 0).height = h + 2 /\ Level(h + 2, 0).frames = 0
    BY <2>1, LevelsOf
  <2>3. Takes(code[k], Level(h + 2, 0), Level(h + 1, 0))
    BY <2>1, <2>2 DEF Takes
  <2>4. Passes(code, j, k, Level(h + 2, 0), Level(h + 1, 0))
    BY <2>2, <2>3, PassesOne
  <2>5. Passes(code, i, j, Level(h, 0), Level(h + 2, 0))
    BY DEF Lifts
  <2>6. QED
    BY <2>1, <2>4, <2>5, PassesJoin
<1>2. QED
  BY <1>1 DEF Lifts

LEMMA OperationStacked ==
  ASSUME NEW functions, NEW s \in States(functions), Stacked(s.code, s.tokens),
         Len(s.tokens) >= 2
  PROVE  Stacked(ReduceOperation(s).code, ReduceOperation(s).tokens)
<1> DEFINE below == SubSeq(s.tokens, 1, Len(s.tokens) - 2)
           top == SubSeq(s.tokens, Len(s.tokens) - 2 + 1, Len(s.tokens))
           removed == RemovePlaces(s.code, Places(top))
           left == [s EXCEPT !.code = removed, !.tokens = below]
           longer == Append(s.code, Plain("ADDS"))
           more == Append(below, Other)
           C == ExpressionCode(functions)
           n == Len(s.tokens)
           m == n - 2
           l == Len(s.code)
           code == s.code
<1>1. /\ WellPlaced(s.code, s.tokens, functions) /\ s.tokens \in Seq(Tokens)
      /\ s.code \in Seq(C)
      /\ s \in [code : Seq(C), tokens : Seq(Tokens), refused : BOOLEAN]
  BY DEF States
<1>2. 2 \in 0..n /\ n \in Nat /\ n - 2 + 1 = n - 1 /\ l \in Nat /\ m \in 0..n
      /\ m + 1 \in 1..n /\ m + 2 = n /\ m + 1 - 1 = m /\ n - 1 = m + 1 /\ n \in 1..n
  BY <1>1
<1>3. Splits(s.tokens, below, top, 2)
  BY <1>1, <1>2, SplitTokens
<1>4. ReduceOperation(s) =
        IF \A i \in 1..2 : top[i].kind = "constant"
        THEN Pushed(left, "constant", PushS(Literal))
        ELSE [s EXCEPT !.code = longer, !.tokens = more]
  BY <1>2 DEF ReduceOperation
<1>5. PICK cut : Cuts(s.code, s.tokens, cut, l)
  BY DEF Stacked
<1>6. below \in Seq(Tokens) /\ top \in Seq(Tokens) /\ Len(top) = 2
  BY <1>3 DEF Splits
<1> HIDE DEF below, top, removed
<1>7. /\ PushS(Literal) \in C /\ PushS(Literal).op = "PUSHS"
      /\ Plain("ADDS") \in C /\ Plain("ADDS").op = "ADDS"
  BY OperandTypes, ExpressionInstructions DEF PushS, Plain, Instruction
<1> DEFINE end == cut[m]
<1> HIDE DEF m, end, C
<1>8. PICK lower : Cuts(s.code, below, lower, end)
  BY <1>1, <1>2, <1>3, <1>5, CutsBelow DEF end, m
<1>9. WellPlaced(removed, below, functions)
  BY <1>1, <1>2, <1>3, PlacesBelow DEF removed
<1>10. CASE \A i \in 1..2 : top[i].kind = "constant"
  <2>1. PICK values : Others(values, top)
    BY <1>6, OthersExist
  <2>2. values[2] = 0
    <3>1. values[0] = 0 /\ \A i \in 1..2 : values[i] \in Nat /\
             values[i] = values[i - 1] + (IF top[i].kind = "other" THEN 1 ELSE 0)
      BY <1>6, <2>1 DEF Others
    <3>2. values[1] = values[1 - 1] + 0 /\ values[2] = values[2 - 1] + 0
      BY <1>10, <3>1
    <3>3. QED
      BY <3>1, <3>2
  <2>3. /\ end \in Nat /\ Len(removed) = end
        /\ \A p \in 1..end : removed[p] = code[p]
    <3>1. end = cut[n - 2]
      BY DEF end, m
    <3>2. /\ end \in Nat
          /\ \A p \in 1..end : removed[p] = code[p]
          /\ values[2] = 0 => Len(removed) = end
      BY <1>1, <1>2, <1>3, <1>5, <2>1, <3>1, TakenOut DEF removed
    <3>3. QED
      BY <2>2, <3>2
  <2>4. left \in States(functions) /\ left.tokens = below /\ left.code = removed
    <3>1. With(s, left, removed, below)
      BY DEF With
    <3> HIDE DEF left
    <3>2. QED
      BY <1>9, <3>1, StateWith
  <2>5. Stacked(removed, below)
    <3>1. Cuts(removed, below, lower, end)
      <4>1. ASSUME NEW i \in 1..Len(below) PROVE Lifts(removed, lower[i - 1], lower[i], 1)
        <5>1. /\ Lifts(code, lower[i - 1], lower[i], 1) /\ lower[i - 1] <= lower[i]
              /\ lower \in [0..Len(below) -> Nat] /\ lower[Len(below)] = end
          BY <1>8 DEF Cuts
        <5>2. i - 1 \in 0..Len(below) /\ i \in 0..Len(below) /\ Len(below) \in 0..Len(below)
              /\ i <= Len(below)
          BY <1>6
        <5>3. lower[i - 1] \in Nat /\ lower[i] \in Nat /\ lower[i] <= end
          BY <1>6, <1>8, <5>1, <5>2, CutsGrow
        <5>4. \A p \in lower[i - 1] + 1..lower[i] : removed[p] = code[p]
          <6>1. \A p \in lower[i - 1] + 1..lower[i] : p \in 1..end
            BY <2>3, <5>3
          <6>2. QED
            BY <2>3, <6>1
        <5>5. 1 \in Nat
          OBVIOUS
        <5>6. QED
          BY <5>1, <5>3, <5>4, <5>5, LiftsKept
      <4>2. QED
        BY <1>8, <4>1 DEF Cuts
    <3>2. QED
      BY <2>3, <3>1 DEF Stacked
  <2> HIDE DEF left
  <2>6. Stacked(Pushed(left, "constant", PushS(Literal)).code,
                Pushed(left, "constant", PushS(Literal)).tokens)
    BY <1>7, <2>4, <2>5, PushedStacked DEF C
  <2>7. QED
    BY <1>4, <1>10, <2>6
<1>11. CASE ~ \A i \in 1..2 : top[i].kind = "constant"
  <2>1. /\ ReduceOperation(s).code = longer /\ ReduceOperation(s).tokens = more
    <3>1. ReduceOperation(s) = [s EXCEPT !.code = longer, !.tokens = more]
      BY <1>4, <1>11
    <3> HIDE DEF longer, more
    <3>2. QED
      BY <1>1, <3>1
  <2>2. /\ Len(longer) = l + 1 /\ longer[l + 1] = Plain("ADDS")
        /\ \A p \in 1..l : longer[p] = code[p]
    BY <1>1, <1>7
  <2> DEFINE middle == cut[m + 1]
  <2>3. /\ end \in Nat /\ middle \in Nat /\ end <= middle /\ middle <= l
        /\ Lifts(code, end, middle, 1) /\ Lifts(code, middle, l, 1)
    <3>1. /\ cut \in [0..n -> Nat] /\ cut[n] = l
          /\ \A i \in 1..n : cut[i - 1] <= cut[i] /\ Lifts(code, cut[i - 1], cut[i], 1)
      BY <1>5 DEF Cuts
    <3>2. cut[m] <= cut[m + 1] /\ Lifts(code, cut[m], cut[m + 1], 1)
      BY <1>2, <3>1
    <3>3. cut[m + 1] <= cut[n] /\ Lifts(code, cut[m + 1], cut[n], 1)
      BY <1>2, <3>1
    <3>4. m \in 0..n /\ m + 1 \in 0..n
      BY <1>2
    <3>5. QED
      BY <3>1, <3>2, <3>3, <3>4 DEF end
  <2> HIDE DEF middle, longer, code, l
  <2>4. Lifts(code, end, l, 1 + 1)
    <3>1. 1 \in Nat
      OBVIOUS
    <3>2. QED
      BY <1>2, <2>3, <3>1, LiftsJoined
  <2>5. Lifts(longer, end, l, 2)
    <3>1. 1 + 1 = 2 /\ 2 \in Nat /\ end <= l
      BY <1>2, <2>3
    <3>2. \A p \in end + 1..l : longer[p] = code[p]
      BY <2>2, <2>3
    <3>3. Lifts(code, end, l, 2)
      BY <2>4, <3>1
    <3>4. QED
      BY <1>2, <2>3, <3>1, <3>2, <3>3, LiftsKept
  <2>6. Lifts(longer, end, l + 1, 1)
    <3>1. end <= l
      BY <1>2, <2>3
    <3>2. QED
      BY <1>2, <1>7, <2>2, <2>3, <2>5, <3>1, LiftsAdded
  <2>7. Other \in Tokens /\ Other.kind = "other"
    BY DEF Tokens, Other
  <2>8. l + 1 \in Nat /\ end <= l + 1 /\ \A p \in 1..end : p \in 1..l
    BY <1>2, <2>3
  <2>9. Cuts(code, below, lower, end)
    BY <1>8 DEF code
  <2>10. Stacked(longer, more)
    <3>1. \A p \in 1..end : longer[p] = code[p]
      BY <2>2, <2>8
    <3>2. QED
      BY <1>6, <2>2, <2>3, <2>6, <2>7, <2>8, <2>9, <3>1, CutsMore
  <2>11. QED
    BY <2>1, <2>10
<1>12. QED
  BY <1>10, <1>11

LEMMA PassesOn ==
  ASSUME NEW S, NEW a \in Seq(S), NEW b \in Seq(S), NEW i \in Nat, i <= Len(a),
         NEW x, NEW y, NEW z, Passes(a, i, Len(a), x, y), Carries(b, y, z)
  PROVE  Passes(a \o b, i, Len(a \o b), x, z)
<1> DEFINE c == a \o b
           m == Len(a)
           n == Len(c)
<1>1. /\ m \in Nat /\ Len(b) \in Nat /\ n = m + Len(b)
      /\ \A k \in 1..m : c[k] = a[k]
      /\ \A k \in 1..Len(b) : c[m + k] = b[k]
  <2>1. /\ n = m + Len(b) /\ m \in Nat /\ Len(b) \in Nat
        /\ \A k \in 1..m + Len(b) : c[k] = IF k <= m THEN a[k] ELSE b[k - m]
    BY ConcatProperties, LenProperties
  <2> HIDE DEF c, m, n
  <2>2. \A k \in 1..m : c[k] = a[k]
    BY <2>1
  <2>3. ASSUME NEW k \in 1..Len(b) PROVE c[m + k] = b[k]
    <3>1. m + k \in 1..m + Len(b) /\ ~ (m + k <= m) /\ m + k - m = k
      BY <2>1
    <3>2. QED
      BY <2>1, <3>1
  <2>4. QED
    BY <2>1, <2>2, <2>3
<1> HIDE DEF c
<1>2. Passes(c, i, m, x, y)
  <2>1. Passes(a, i, m, x, y) /\ i <= m
    OBVIOUS
  <2> HIDE DEF m
  <2>2. \A k \in i + 1..m : k \in 1..m /\ i - i + k = k
    BY <1>1
  <2>3. \A k \in i + 1..m : c[i - i + k] = a[k]
    BY <1>1, <2>2
  <2>4. m - i = m - i
    OBVIOUS
  <2>5. QED
    BY <1>1, <2>1, <2>3, <2>4, PassesMoved
<1>3. Passes(c, m, n, y, z)
  <2>1. Passes(b, 0, Len(b), y, z)
    BY DEF Carries
  <2> HIDE DEF m, n
  <2>2. /\ 0 \in Nat /\ 0 <= Len(b) /\ n - m = Len(b) - 0 /\ n \in Nat
        /\ \A k \in 0 + 1..Len(b) : k \in 1..Len(b) /\ m - 0 + k = m + k
    BY <1>1
  <2>3. \A k \in 0 + 1..Len(b) : c[m - 0 + k] = b[k]
    BY <1>1, <2>2
  <2>4. QED
    BY <1>1, <2>1, <2>2, <2>3, PassesMoved
<1>4. Passes(c, i, n, x, z)
  <2>1. i <= m
    OBVIOUS
  <2> HIDE DEF m, n
  <2>2. m <= n /\ n \in Nat
    BY <1>1
  <2>3. QED
    BY <1>1, <1>2, <1>3, <2>1, <2>2, PassesJoin
<1>5. QED
  BY <1>4 DEF c, n

LEMMA PassingCarries ==
  ASSUME NEW operand, NEW token, NEW code, NEW u \in Nat, NEW v \in Nat,
         u = v + (IF token.kind = "other" THEN 1 ELSE 0), NEW h \in Nat
  PROVE  Carries(PassArgument(operand, token, code), Level(h + u, 0), Level(h + v, 0))
<1> DEFINE fill == IF token.kind = "other" THEN PopS(operand)
                   ELSE Move(operand, code[token.at].source)
           x == Level(h + u, 0)
           y == Level(h + v, 0)
<1>1. PassArgument(operand, token, code) = <<DefVar(operand), fill>>
  BY DEF PassArgument
<1>2. h + u \in Nat /\ h + v \in Nat /\ 0 \in {0, 1}
  OBVIOUS
<1>3. /\ x \in Levels /\ y \in Levels
      /\ x.height = h + u /\ x.frames = 0
  BY <1>2, LevelsOf
<1>4. Takes(DefVar(operand), x, x)
  BY DEF Takes, Quiet, DefVar, Instruction
<1>5. Takes(fill, x, y)
  <2>1. CASE token.kind = "other"
    <3>1. fill.op = "POPS" /\ h + u >= 1 /\ h + u - 1 = h + v
      BY <2>1 DEF PopS, Instruction
    <3> HIDE DEF fill
    <3>2. QED
      BY <1>3, <3>1 DEF Takes
  <2>2. CASE token.kind # "other"
    <3>1. fill.op = "MOVE" /\ u = v
      BY <2>2 DEF Move, Instruction
    <3> HIDE DEF fill
    <3>2. QED
      BY <3>1 DEF Takes, Quiet
  <2>3. QED
    BY <2>1, <2>2
<1> HIDE DEF fill, x, y
<1>6. Carries(<<DefVar(operand), fill>>, x, y)
  BY <1>3, <1>4, <1>5, CarriesTwo
<1>7. QED
  BY <1>1, <1>6 DEF x, y

LEMMA CallItselfCarries ==
  ASSUME NEW f, NEW h \in Nat
  PROVE  Carries(CallItself(f), Level(h, 0), Level(h + 1, 0))
<1> DEFINE x == Level(h, 0)
           y == Level(h, 1)
           z == Level(h + 1, 1)
           u == Level(h + 1, 0)
<1>1. h + 1 \in Nat /\ 0 \in {0, 1} /\ 1 \in {0, 1}
  OBVIOUS
<1>2. /\ x \in Levels /\ y \in Levels /\ z \in Levels /\ u \in Levels
      /\ x.height = h /\ x.frames = 0 /\ y.height = h /\ y.frames = 1
      /\ z.height = h + 1 /\ z.frames = 1
  BY <1>1, LevelsOf
<1>3. u = Level(h + 1, 0) /\ y = Level(h, 1) /\ z = Level(h + 1, 1)
  OBVIOUS
<1> HIDE DEF x, y, z, u
<1>4. Takes(Plain("PUSHFRAME"), x, y)
  BY <1>2, <1>3 DEF Takes, Plain, Instruction
<1>5. Takes(Call(f), y, z)
  <2>1. Call(f).op = "CALL" /\ Call(f).label.type = "function"
    BY DEF Call, Instruction, FunctionLabel, NoLabel
  <2>2. QED
    BY <1>2, <1>3, <2>1 DEF Takes
<1>6. Takes(Plain("POPFRAME"), z, u)
  BY <1>2, <1>3 DEF Takes, Plain, Instruction
<1>7. Carries(CallItself(f), x, u)
  BY <1>2, <1>4, <1>5, <1>6, CarriesThree DEF CallItself
<1>8. QED
  BY <1>7 DEF x, u

\* Passing the arguments takes the values they left on the stack.
LEMMA ArgumentsPassed ==
  ASSUME NEW functions \in Functions, NEW s, NEW f, NEW count \in Nat,
         NEW passed, Called(s, functions, f, count, passed),
         NEW values, Others(values, Arguments(s, count)), Len(Arguments(s, count)) = count,
         NEW h \in Nat
  PROVE  Carries(passed[count], Level(h + values[count], 0), Level(h, 0))
<1> DEFINE C == ExpressionCode(functions)
           v == values[count]
           T == {k \in 0..count :
                   Carries(passed[k], Level(h + v, 0), Level(h + values[count - k], 0))}
<1>1. /\ passed[0] = <<Plain("CREATEFRAME")>>
      /\ \A k \in 1..count :
           passed[k] = passed[k - 1] \o PassingOf(s, functions, f, count, count + 1 - k)
      /\ \A k \in 0..count : passed[k] \in Seq(C)
      /\ \A i \in 1..count : PassingOf(s, functions, f, count, i) \in Seq(C)
  BY DEF Called
<1>2. /\ values \in [0..count -> Nat] /\ values[0] = 0
      /\ \A i \in 1..count :
           values[i] = values[i - 1]
                         + (IF Arguments(s, count)[i].kind = "other" THEN 1 ELSE 0)
  BY DEF Others
<1>3. v \in Nat /\ count \in 0..count
  BY <1>2
<1> HIDE DEF v
<1>4. 0 \in T
  <2>1. count - 0 = count /\ h + v \in Nat /\ 0 \in {0, 1} /\ 0 \in 0..count
    BY <1>3
  <2>2. Level(h + v, 0) \in Levels
    BY <2>1, LevelsOf
  <2>3. Takes(Plain("CREATEFRAME"), Level(h + v, 0), Level(h + v, 0))
    BY DEF Takes, Quiet, Plain, Instruction
  <2>4. Carries(passed[0], Level(h + v, 0), Level(h + v, 0))
    BY <1>1, <2>2, <2>3, CarriesOne
  <2>5. values[count - 0] = v
    BY <2>1 DEF v
  <2>6. QED
    BY <2>1, <2>4, <2>5
<1>5. ASSUME NEW k \in 1..count, k - 1 \in T PROVE k \in T
  <2> DEFINE i == count + 1 - k
             a == passed[k - 1]
             b == PassingOf(s, functions, f, count, i)
             token == Arguments(s, count)[i]
  <2>1. i \in 1..count /\ i = count - (k - 1) /\ i - 1 = count - k /\ k \in 0..count
        /\ i - 1 \in 0..count /\ i \in 0..count /\ k - 1 \in 0..count
    OBVIOUS
  <2>2. Carries(a, Level(h + v, 0), Level(h + values[i], 0))
    BY <1>5, <2>1
  <2>3. Carries(b, Level(h + values[i], 0), Level(h + values[i - 1], 0))
    <3>1. values[i] = values[i - 1] + (IF token.kind = "other" THEN 1 ELSE 0)
          /\ values[i] \in Nat /\ values[i - 1] \in Nat
      BY <1>2, <2>1
    <3> HIDE DEF token, i
    <3>2. b = PassArgument(ParameterOperand(f, functions[f].params, i), token, s.code)
      BY DEF PassingOf, token
    <3> HIDE DEF b
    <3>3. QED
      BY <3>1, <3>2, PassingCarries
  <2>4. a \in Seq(C) /\ b \in Seq(C) /\ passed[k] = a \o b
    BY <1>1, <2>1
  <2> HIDE DEF a, b, C
  <2>5. Carries(a \o b, Level(h + v, 0), Level(h + values[i - 1], 0))
    BY <2>2, <2>3, <2>4, CarriesJoined
  <2>6. QED
    BY <2>1, <2>4, <2>5
<1>6. \A k \in 0..count : k \in T
  <2> HIDE DEF T
  <2>1. QED
    BY <1>4, <1>5, StepByStep
<1>7. count - count = 0 /\ h + 0 = h
  OBVIOUS
<1>8. Carries(passed[count], Level(h + v, 0), Level(h + values[count - count], 0))
  BY <1>3, <1>6
<1>9. QED
  BY <1>2, <1>7, <1>8 DEF v

LEMMA CallStacked ==
  ASSUME NEW functions \in Functions, NEW s \in States(functions), NEW f \in Names,
         Stacked(s.code, s.tokens), NEW count \in Nat, Len(s.tokens) >= count
  PROVE  Stacked(ReduceCall(s, functions, f, count).code,
                 ReduceCall(s, functions, f, count).tokens)
<1> DEFINE C == ExpressionCode(functions)
           n == Len(s.tokens)
           below == Beneath(s, count)
           arguments == Arguments(s, count)
           removed == RemovePlaces(s.code, Places(arguments))
           last == CallItself(f)
           r == ReduceCall(s, functions, f, count)
<1>1. /\ s.code \in Seq(C) /\ s.tokens \in Seq(Tokens)
      /\ WellPlaced(s.code, s.tokens, functions)
      /\ s \in [code : Seq(C), tokens : Seq(Tokens), refused : BOOLEAN]
  BY DEF States
<1>2. n \in Nat /\ count \in 0..n
  BY <1>1
<1>3. CASE functions[f].status = "none" \/ Len(functions[f].params) # count
  <2>1. r = [s EXCEPT !.refused = TRUE]
    BY <1>3 DEF ReduceCall, Refuse
  <2>2. r.code = s.code /\ r.tokens = s.tokens
    BY <1>1, <2>1
  <2>3. QED
    BY <2>2
<1>4. CASE ~ (functions[f].status = "none" \/ Len(functions[f].params) # count)
  <2>1. Splits(s.tokens, below, arguments, count)
    BY <1>1, <1>2, SplitTokens DEF Beneath, Arguments
  <2>2. PICK passed : Called(s, functions, f, count, passed)
    BY <1>4, CallCode
  <2> DEFINE a == passed[count]
             joined == removed \o a
             code == joined \o last
             tokens == Append(below, Other)
  <2>3. r = [s EXCEPT !.code = code, !.tokens = tokens] /\ a \in Seq(C)
    BY <2>2 DEF Called
  <2>4. r.code = code /\ r.tokens = tokens
    <3> HIDE DEF code, tokens, r
    <3>1. QED
      BY <1>1, <2>3
  <2>5. below \in Seq(Tokens) /\ arguments \in Seq(Tokens) /\ Len(arguments) = count
    BY <2>1 DEF Splits
  <2>6. last \in Seq(C)
    <3>1. Plain("PUSHFRAME") \in C /\ Plain("POPFRAME") \in C /\ Call(f) \in C
      BY <1>4, ExpressionInstructions
    <3> HIDE DEF C
    <3>2. QED
      BY <3>1 DEF CallItself
  <2>7. PICK cut : Cuts(s.code, s.tokens, cut, Len(s.code))
    BY DEF Stacked
  <2>8. PICK values : Others(values, arguments)
    BY <2>5, OthersExist
  <2>9. removed \in Seq(C)
    <3>1. WellPlaced(removed, below, functions)
      BY <1>1, <1>2, <2>1, PlacesBelow
    <3>2. QED
      BY <3>1 DEF WellPlaced
  <2> DEFINE end == cut[n - count]
             v == values[count]
  <2>10. /\ end \in Nat /\ Len(removed) \in Nat /\ end <= Len(removed)
         /\ \A p \in 1..end : removed[p] = s.code[p]
         /\ Lifts(removed, end, Len(removed), v)
    BY <1>1, <1>2, <2>1, <2>7, <2>8, TakenOut
  <2>11. PICK lower : Cuts(s.code, below, lower, end)
    BY <1>1, <1>2, <2>1, <2>7, CutsBelow
  <2>12. v \in Nat
    BY <2>5, <2>8 DEF Others
  <2>13. \A h \in Nat : Carries(a, Level(h + v, 0), Level(h, 0))
    <3> HIDE DEF a
    <3>1. ASSUME NEW h \in Nat PROVE Carries(passed[count], Level(h + v, 0), Level(h, 0))
      BY <2>2, <2>5, <2>8, ArgumentsPassed
    <3>2. QED
      BY <3>1 DEF a
  <2> HIDE DEF r, below, arguments, removed, last, end, v, n, C, a
  <2>14. joined \in Seq(C) /\ Len(joined) \in Nat /\ Len(joined) = Len(removed) + Len(a)
         /\ Len(a) \in Nat /\ \A p \in 1..Len(removed) : joined[p] = removed[p]
    <3>1. /\ joined \in Seq(C) /\ Len(joined) = Len(removed) + Len(a) /\ Len(a) \in Nat
          /\ Len(removed) \in Nat
          /\ \A p \in 1..Len(removed) + Len(a) :
               joined[p] = IF p <= Len(removed) THEN removed[p] ELSE a[p - Len(removed)]
      BY <2>3, <2>9, ConcatProperties, LenProperties
    <3> HIDE DEF joined
    <3>2. QED
      BY <3>1
  <2>15. \A h \in Nat : Passes(joined, end, Len(joined), Level(h, 0), Level(h, 0))
    <3>1. ASSUME NEW h \in Nat
          PROVE  Passes(joined, end, Len(joined), Level(h, 0), Level(h, 0))
      <4>1. Passes(removed, end, Len(removed), Level(h, 0), Level(h + v, 0))
        BY <2>10 DEF Lifts
      <4>2. Carries(a, Level(h + v, 0), Level(h, 0))
        BY <2>13
      <4>3. QED
        BY <2>3, <2>9, <2>10, <4>1, <4>2, PassesOn
    <3>2. QED
      BY <3>1
  <2> HIDE DEF joined
  <2>16. /\ code \in Seq(C) /\ Len(code) \in Nat /\ Len(code) = Len(joined) + Len(last)
         /\ Len(last) \in Nat
         /\ \A p \in 1..Len(joined) : code[p] = joined[p]
    <3>1. /\ code \in Seq(C) /\ Len(code) = Len(joined) + Len(last) /\ Len(last) \in Nat
          /\ Len(joined) \in Nat
          /\ \A p \in 1..Len(joined) + Len(last) :
               code[p] = IF p <= Len(joined) THEN joined[p] ELSE last[p - Len(joined)]
      <4>1. Len(last) \in Nat /\ Len(joined) \in Nat
        BY <2>6, <2>14
      <4>2. joined \in Seq(C) /\ last \in Seq(C)
        BY <2>6, <2>14
      <4>3. /\ code \in Seq(C) /\ Len(code) = Len(joined) + Len(last)
            /\ \A p \in 1..Len(joined) + Len(last) :
                 code[p] = IF p <= Len(joined) THEN joined[p] ELSE last[p - Len(joined)]
        BY <4>2, ConcatProperties, ZenonT(60)
      <4>4. QED
        BY <4>1, <4>3
    <3> HIDE DEF code
    <3>2. QED
      BY <3>1
  <2>17. Lifts(code, end, Len(code), 1)
    <3>1. end <= Len(joined)
      BY <2>10, <2>14
    <3>2. ASSUME NEW h \in Nat
          PROVE  Passes(code, end, Len(code), Level(h, 0), Level(h + 1, 0))
      <4>1. Carries(last, Level(h, 0), Level(h + 1, 0))
        BY CallItselfCarries DEF last
      <4>2. QED
        BY <2>6, <2>10, <2>14, <2>15, <3>1, <4>1, PassesOn
    <3>3. QED
      BY <3>2 DEF Lifts
  <2> HIDE DEF code
  <2>18. end <= Len(code) /\ \A p \in 1..end : code[p] = s.code[p]
    <3>1. end <= Len(joined) /\ end <= Len(code)
      BY <2>10, <2>14, <2>16
    <3>2. \A p \in 1..end : p \in 1..Len(joined) /\ p \in 1..Len(removed)
      BY <2>10, <2>14
    <3>3. QED
      BY <2>10, <2>14, <2>16, <3>1, <3>2
  <2>19. Other \in Tokens /\ Other.kind = "other"
    BY DEF Tokens, Other
  <2>20. Stacked(code, tokens)
    BY <2>5, <2>10, <2>11, <2>16, <2>17, <2>18, <2>19, CutsMore
  <2>21. QED
    BY <2>4, <2>20 DEF r
<1>5. QED
  BY <1>3, <1>4

LEMMA NothingStacked == Stacked(<< >>, << >>)
<1> DEFINE cut == [i \in 0..0 |-> 0]
<1>1. cut \in [0..0 -> Nat] /\ cut[0] = 0 /\ Len(<< >>) = 0 /\ 1..0 = {}
  OBVIOUS
<1> HIDE DEF cut
<1>2. Cuts(<< >>, << >>, cut, 0)
  BY <1>1 DEF Cuts
<1>3. QED
  BY <1>1, <1>2 DEF Stacked

LEMMA ReducedStacked ==
  ASSUME NEW functions \in Functions, NEW stack \in Seq(Table), NEW globals,
         NEW s \in States(functions), NEW r, IsReduction(r), Stacked(s.code, s.tokens),
         ~s.refused => Len(s.tokens) >= r.count
  PROVE  LET result == Reduce(s, stack, globals, functions, r)
         IN  Stacked(result.code, result.tokens)
<1> DEFINE result == Reduce(s, stack, globals, functions, r)
<1>1. Len(s.tokens) \in Nat
  BY DEF States
<1>2. CASE s.refused
  BY <1>2 DEF Reduce
<1>3. CASE ~s.refused /\ r = LiteralToken
  <2>1. r.rule = "literal"
    BY <1>3 DEF LiteralToken, Reduction
  <2>2. result = Pushed(s, "constant", PushS(Literal))
    BY <1>3, <2>1 DEF Reduce
  <2> HIDE DEF result
  <2>3. PushS(Literal) \in ExpressionCode(functions) /\ PushS(Literal).op = "PUSHS"
    BY OperandTypes, ExpressionInstructions DEF PushS, Instruction
  <2>4. QED
    BY <2>2, <2>3, PushedStacked DEF result
<1>4. ASSUME ~s.refused, NEW name \in Names, r = IdentifierToken(name)
      PROVE  Stacked(result.code, result.tokens)
  <2>1. r.rule = "identifier" /\ r.name = name
    BY <1>4 DEF IdentifierToken, Reduction
  <2> DEFINE operand == VariableOperand(Find(stack, name), globals)
  <2>2. result = IF Find(stack, name) = NoVariable THEN Refuse(s)
                 ELSE Pushed(s, "variable", PushS(operand))
    BY <1>4, <2>1 DEF Reduce, ReduceIdentifier
  <2> HIDE DEF result
  <2>3. CASE Find(stack, name) = NoVariable
    <3>1. Refuse(s).code = s.code /\ Refuse(s).tokens = s.tokens
      BY DEF States, Refuse
    <3>2. QED
      BY <2>2, <2>3, <3>1
  <2>4. CASE Find(stack, name) # NoVariable
    <3>1. Find(stack, name) \in Variable
      BY <2>4, FindType
    <3>2. operand \in Operands
      BY <3>1, OperandTypes
    <3> HIDE DEF operand
    <3>3. PushS(operand) \in ExpressionCode(functions) /\ PushS(operand).op = "PUSHS"
      BY <3>2, OperandTypes, ExpressionInstructions DEF PushS, Instruction
    <3>4. QED
      BY <2>2, <2>4, <3>3, PushedStacked
  <2>5. QED
    BY <2>3, <2>4
<1>5. CASE ~s.refused /\ r = Operation
  <2>1. r.rule = "operation" /\ r.count = 2
    BY <1>5 DEF Operation, Reduction
  <2>2. result = ReduceOperation(s)
    BY <1>5, <2>1 DEF Reduce
  <2> HIDE DEF result
  <2>3. QED
    BY <1>5, <2>1, <2>2, OperationStacked DEF result
<1>6. ASSUME ~s.refused, NEW f \in Names, r.count \in Nat, r = CallOf(f, r.count)
      PROVE  Stacked(result.code, result.tokens)
  <2> DEFINE count == r.count
  <2>1. r.rule = "call" /\ r.name = f
    BY <1>6 DEF CallOf, Reduction
  <2>2. result = ReduceCall(s, functions, f, count)
    BY <1>6, <2>1 DEF Reduce
  <2>3. count \in Nat /\ Len(s.tokens) >= count
    BY <1>6
  <2> HIDE DEF result, count
  <2>4. QED
    BY <2>2, <2>3, CallStacked
<1>7. QED
  BY <1>2, <1>3, <1>4, <1>5, <1>6 DEF IsReduction

\* parser_parse_expression: the code of an expression places no label and calls
\* only functions that have been declared.
LEMMA ExpressionStacked ==
  ASSUME NEW functions \in Functions, NEW stack \in Seq(Table), NEW globals,
         NEW reductions, IsPostfix(reductions)
  PROVE  LET value == Expression(reductions, stack, globals, functions)
         IN  /\ value \in States(functions) /\ Stacked(value.code, value.tokens)
             /\ ~value.refused => Len(value.tokens) = 1
<1> DEFINE n == Len(reductions)
           Rule(h) == [i \in 0..n |->
                         IF i = 0 THEN NoExpression
                         ELSE Reduce(h[i - 1], stack, globals, functions, reductions[i])]
           after == CHOOSE h : h = Rule(h)
           steps == [i \in 1..n |-> [s \in States(functions) |->
                       Reduce(s, stack, globals, functions, reductions[i])]]
<1>1. PICK height \in [0..n -> 0..n] :
        /\ height[0] = 0 /\ height[n] = 1
        /\ \A i \in 1..n : /\ height[i - 1] >= reductions[i].count
                           /\ height[i] = height[i - 1] - reductions[i].count + 1
  BY DEF IsPostfix
<1>3. Expression(reductions, stack, globals, functions) = after[n]
  BY DEF Expression
<1> DEFINE kinds == [i \in 0..n |->
                       {s \in States(functions) :
                          /\ Stacked(s.code, s.tokens)
                          /\ ~s.refused => Len(s.tokens) = height[i]}]
<1>4. n \in Nat /\ DOMAIN reductions = 1..n
  BY DEF IsPostfix
<1>2. \A i \in 1..n : IsReduction(reductions[i])
  BY <1>4 DEF IsPostfix
<1> HIDE DEF n
<1>5. NoExpression \in kinds[0]
  <2>1. NoExpression \in [code : Seq(ExpressionCode(functions)), tokens : Seq(Tokens),
                          refused : BOOLEAN]
    BY DEF NoExpression
  <2>2. Len(NoExpression.tokens) = 0 /\ NoExpression.code = << >>
        /\ NoExpression.tokens = << >>
    BY DEF NoExpression
  <2>3. << >> \in Seq(ExpressionCode(functions)) /\ << >> \in Seq(Tokens)
        /\ Len(<< >>) = 0
    OBVIOUS
  <2>4. WellPlaced(<< >>, << >>, functions)
    BY <2>3 DEF WellPlaced
  <2>5. NoExpression \in States(functions)
    BY <2>1, <2>2, <2>4 DEF States
  <2>6. kinds[0] = {s \in States(functions) :
                      Stacked(s.code, s.tokens) /\ (~s.refused => Len(s.tokens) = 0)}
    BY <1>1, <1>4
  <2>7. Stacked(<< >>, << >>)
    BY <2>3, NothingStacked
  <2> HIDE DEF kinds
  <2>8. QED
    BY <2>2, <2>5, <2>6, <2>7
<1>6. ASSUME NEW i \in 1..n, NEW s \in kinds[i - 1]
      PROVE  /\ s \in States(functions)
             /\ Reduce(s, stack, globals, functions, reductions[i]) \in kinds[i]
  <2>1. /\ kinds[i] = {t \in States(functions) :
                         /\ Stacked(t.code, t.tokens)
                         /\ ~t.refused => Len(t.tokens) = height[i]}
        /\ kinds[i - 1] = {t \in States(functions) :
                             /\ Stacked(t.code, t.tokens)
                             /\ ~t.refused => Len(t.tokens) = height[i - 1]}
    BY SMTT(90), <1>4
  <2> HIDE DEF kinds
  <2>2. /\ s \in States(functions) /\ Stacked(s.code, s.tokens)
        /\ ~s.refused => Len(s.tokens) = height[i - 1]
    BY <2>1
  <2> DEFINE r == reductions[i]
             result == Reduce(s, stack, globals, functions, r)
  <2>3. /\ IsReduction(r) /\ height[i - 1] >= r.count
        /\ height[i] = height[i - 1] - r.count + 1
    BY <1>1, <1>2
  <2> HIDE DEF r, result
  <2>4. /\ result \in States(functions) /\ Stacked(result.code, result.tokens)
        /\ ~result.refused => /\ ~s.refused
                              /\ Len(result.tokens) = Len(s.tokens) - r.count + 1
    BY <2>2, <2>3, ReducedState, ReducedStacked DEF result
  <2>5. ~result.refused => Len(result.tokens) = height[i]
    BY <2>2, <2>3, <2>4
  <2>6. result \in kinds[i]
    BY <2>1, <2>4, <2>5
  <2>7. QED
    BY <2>2, <2>6 DEF result, r
<1>7. \E h : h = Rule(h)
  <2>1. \A i \in 1..n, s \in States(functions) :
          steps[i][s] = Reduce(s, stack, globals, functions, reductions[i])
    OBVIOUS
  <2> HIDE DEF kinds, steps
  <2>2. \A i \in 1..n : \A s \in kinds[i - 1] : steps[i][s] \in kinds[i]
    BY <1>6, <2>1
  <2>3. PICK h : Iterates(h, n, kinds, NoExpression, steps)
    BY <1>4, <1>5, <2>2, IterationExists
  <2>4. /\ h[0] = NoExpression /\ h = [i \in 0..n |-> h[i]]
        /\ \A i \in 1..n : h[i] = steps[i][h[i - 1]]
        /\ \A i \in 0..n : h[i] \in kinds[i]
    BY <2>3 DEF Iterates
  <2>5. \A i \in 1..n : h[i - 1] \in kinds[i - 1]
    BY <1>4, <2>4
  <2>6. \A i \in 1..n :
          h[i] = Reduce(h[i - 1], stack, globals, functions, reductions[i])
    BY <1>6, <2>1, <2>4, <2>5
  <2>7. ASSUME NEW i \in 0..n
        PROVE  h[i] = IF i = 0 THEN NoExpression
                      ELSE Reduce(h[i - 1], stack, globals, functions, reductions[i])
    <3>1. CASE i = 0
      BY <2>4, <3>1
    <3>2. CASE i # 0
      <4>1. i \in 1..n
        BY <1>4, <3>2
      <4>2. QED
        BY <2>6, <3>2, <4>1, Zenon
    <3>3. QED
      BY <3>1, <3>2
  <2>8. h = Rule(h)
    BY <2>4, <2>7
  <2>9. QED
    BY <2>8
<1>8. after = Rule(after)
  BY <1>7
<1> HIDE DEF after
<1>9. /\ after[0] = NoExpression
      /\ \A i \in 1..n :
           after[i] = Reduce(after[i - 1], stack, globals, functions, reductions[i])
  <2>1. \A i \in 0..n : after[i] = Rule(after)[i]
    BY <1>8
  <2>2. after[0] = NoExpression
    BY <1>4, <2>1
  <2>3. ASSUME NEW i \in 1..n
        PROVE  after[i] = Reduce(after[i - 1], stack, globals, functions, reductions[i])
    <3>1. i \in 0..n /\ i # 0
      BY <1>4
    <3>2. QED
      BY <2>1, <3>1, Zenon
  <2>4. QED
    BY <2>2, <2>3
<1> DEFINE T == {i \in 0..n : after[i] \in kinds[i]}
<1>10. 0 \in T
  <2> HIDE DEF kinds
  <2>1. QED
    BY <1>4, <1>5, <1>9
<1>11. ASSUME NEW i \in 1..n, i - 1 \in T PROVE i \in T
  <2> HIDE DEF kinds
  <2>1. after[i - 1] \in kinds[i - 1]
    BY <1>11
  <2>2. after[i] \in kinds[i]
    BY <1>6, <1>9, <2>1
  <2>3. QED
    BY <2>2
<1>12. \A i \in 0..n : i \in T
  <2> HIDE DEF T
  <2>1. QED
    BY <1>4, <1>10, <1>11, StepByStep
<1>13. /\ after[n] \in States(functions) /\ Stacked(after[n].code, after[n].tokens)
       /\ ~after[n].refused => Len(after[n].tokens) = 1
  <2>1. n \in 0..n
    BY <1>4
  <2>2. after[n] \in kinds[n]
    <3> HIDE DEF kinds
    <3>1. QED
      BY <1>12, <2>1
  <2>3. QED
    BY <1>1, <2>1, <2>2
<1>14. QED
  BY <1>3, <1>13 DEF n

\* An expression that is accepted leaves its value on the stack.
LEMMA ValueCarries ==
  ASSUME NEW functions, NEW value \in States(functions),
         Stacked(value.code, value.tokens), Len(value.tokens) = 1
  PROVE  /\ Carries(value.code, Ground, Level(1, 0))
         /\ Wired(value.code) = {} /\ NoReturn(value.code)
<1>1. PICK cut : Cuts(value.code, value.tokens, cut, Len(value.code))
  BY DEF Stacked
<1>2. cut[0] = 0 /\ cut[1] = Len(value.code) /\ Lifts(value.code, cut[0], cut[1], 1)
  <2>1. 1 \in 1..1 /\ 1 - 1 = 0
    OBVIOUS
  <2>2. QED
    BY <1>1, <2>1 DEF Cuts
<1>3. Passes(value.code, 0, Len(value.code), Level(0, 0), Level(0 + 1, 0))
  <2>1. 0 \in Nat
    OBVIOUS
  <2>2. QED
    BY <1>2, <2>1 DEF Lifts
<1>4. 0 + 1 = 1
  OBVIOUS
<1>5. Carries(value.code, Ground, Level(1, 0))
  BY <1>3, <1>4 DEF Carries, Ground
<1>6. value.code \in Seq(ExpressionCode(functions))
  BY DEF States
<1>7. \A i \in DOMAIN value.code : value.code[i] \in ExpressionCode(functions)
  BY <1>6
<1>8. Wired(value.code) = {} /\ NoReturn(value.code)
  BY <1>7 DEF Wired, NoReturn, ExpressionCode
<1>9. QED
  BY <1>5, <1>8

-----------------------------------------------------------------------------
(* The code of a whole program: what is on the stack at each of its places, *)
(* and which of its instructions are those of functions.                   *)

Levelling(code, at, inside) ==
  /\ at \in [0..Len(code) -> Levels]
  /\ at[0] = Ground /\ at[Len(code)] = Ground
  /\ \A k \in 1..Len(code) : Takes(code[k], at[k - 1], at[k])
  /\ inside \subseteq 1..Len(code) /\ 1 \notin inside /\ Len(code) \notin inside
  /\ \A k, j \in 1..Len(code) :
       code[k].op \in {"JUMP", "JUMPIFEQ", "JUMPIFEQS"} /\ code[j] = AtLabel(code[k].label)
         => (k \in inside <=> j \in inside)
  /\ \A k, j \in 1..Len(code) :
       code[k].op = "CALL" /\ code[j] = AtLabel(code[k].label) => j \in inside
  /\ \A k \in 1..Len(code) : code[k].op = "RETURN" => k \in inside
  /\ \A k \in 1..Len(code) - 1 :
       code[k].op \notin {"JUMP", "RETURN"} => (k \in inside <=> k + 1 \in inside)
  /\ Len(code) > 0 /\ code[Len(code)].op = "LABEL"

\* Where everything is once the functions are behind the main part.
EndedList(code, a, b, end) ==
  LET m == Len(a) q == Len(b)
  IN  /\ Len(code) = m + q + 2 /\ code \in Seq(Instructions)
      /\ \A k \in 1..m : code[k] = a[k]
      /\ code[m + 1] = Jump(end)
      /\ \A k \in 1..q : code[m + 1 + k] = b[k]
      /\ code[m + q + 2] = AtLabel(end)

Joined(S, a, b, c) ==
  /\ c \in Seq(S) /\ Len(c) = Len(a) + Len(b)
  /\ Len(a) \in Nat /\ Len(b) \in Nat
  /\ \A k \in 1..Len(a) : c[k] = a[k]
  /\ \A k \in 1..Len(b) : c[Len(a) + k] = b[k]

LEMMA JoinedAt ==
  ASSUME NEW S, NEW a \in Seq(S), NEW b \in Seq(S)
  PROVE  Joined(S, a, b, a \o b)
<1> DEFINE c == a \o b
           m == Len(a)
           n == Len(c)
<1>1. c \in Seq(S)
  BY ConcatProperties
<1>2. /\ n = m + Len(b) /\ m \in Nat /\ Len(b) \in Nat
      /\ \A k \in 1..m + Len(b) : c[k] = IF k <= m THEN a[k] ELSE b[k - m]
  BY ConcatProperties, LenProperties
<1> HIDE DEF c, m, n
<1>3. \A k \in 1..m : c[k] = a[k]
  BY <1>2
<1>4. ASSUME NEW k \in 1..Len(b) PROVE c[m + k] = b[k]
  <2>1. m + k \in 1..m + Len(b) /\ ~ (m + k <= m) /\ m + k - m = k
    BY <1>2
  <2>2. QED
    BY <1>2, <2>1
<1>5. QED
  BY <1>1, <1>2, <1>3, <1>4 DEF c, m, n, Joined

LEMMA EndedParts ==
  ASSUME NEW a \in Seq(Instructions), NEW b \in Seq(Instructions), NEW end \in Labels
  PROVE  EndedList(((a \o <<Jump(end)>>) \o b) \o <<AtLabel(end)>>, a, b, end)
<1> DEFINE first == <<Jump(end)>>
           last == <<AtLabel(end)>>
           x == a \o first
           y == x \o b
           code == y \o last
           m == Len(a)
           q == Len(b)
<1>1. /\ first \in Seq(Instructions) /\ Len(first) = 1 /\ first[1] = Jump(end)
      /\ last \in Seq(Instructions) /\ Len(last) = 1 /\ last[1] = AtLabel(end)
  BY LevelChunks
<1>2. m \in Nat /\ q \in Nat
  OBVIOUS
<1> HIDE DEF first, last
<1>3. /\ x \in Seq(Instructions) /\ Len(x) = m + 1
      /\ \A k \in 1..m : x[k] = a[k]
      /\ x[m + 1] = Jump(end)
  <2>1. Joined(Instructions, a, first, x)
    BY <1>1, JoinedAt
  <2> HIDE DEF x, m
  <2>2. QED
    BY <1>1, <1>2, <2>1 DEF Joined, m
<1>4. /\ y \in Seq(Instructions) /\ Len(y) = m + 1 + q
      /\ \A k \in 1..m + 1 : y[k] = x[k]
      /\ \A k \in 1..q : y[m + 1 + k] = b[k]
  <2> HIDE DEF x
  <2>1. Joined(Instructions, x, b, y)
    BY <1>3, JoinedAt
  <2> HIDE DEF y, m, q
  <2>2. QED
    BY <1>2, <1>3, <2>1 DEF Joined, q
<1>5. /\ code \in Seq(Instructions) /\ Len(code) = m + 1 + q + 1
      /\ \A k \in 1..m + 1 + q : code[k] = y[k]
      /\ code[m + 1 + q + 1] = AtLabel(end)
  <2> HIDE DEF y
  <2>1. Joined(Instructions, y, last, code)
    BY <1>1, <1>4, JoinedAt
  <2> HIDE DEF code, m, q
  <2>2. QED
    BY <1>1, <1>2, <1>4, <2>1 DEF Joined
<1> HIDE DEF x, y
<1> HIDE DEF code, m, q
<1>6. /\ m + 1 + q + 1 = m + q + 2
      /\ \A k \in 1..m : k \in 1..m + 1 /\ k \in 1..m + 1 + q
      /\ m + 1 \in 1..m + 1 /\ m + 1 \in 1..m + 1 + q
      /\ \A k \in 1..q : m + 1 + k \in 1..m + 1 + q
  BY <1>2
<1>7. /\ \A k \in 1..m : code[k] = a[k]
      /\ code[m + 1] = Jump(end)
      /\ \A k \in 1..q : code[m + 1 + k] = b[k]
  BY <1>3, <1>4, <1>5, <1>6
<1>8. EndedList(code, a, b, end)
  BY <1>5, <1>6, <1>7 DEF EndedList, m, q
<1>9. QED
  BY <1>8 DEF code, y, x, first, last

LEMMA EndCodeLayout ==
  ASSUME NEW c \in Constructors, ~c.to_buffer
  PROVE  EndedList(EndCode(c).main, c.main, c.buffer, Label(c, "main_scope"))
<1> DEFINE end == Label(c, "main_scope")
           taken == TakeLabel(c)
           main == c.main \o <<Jump(end)>>
           jumped == Emit(taken, <<Jump(end)>>)
           flushed == [jumped EXCEPT !.main = @ \o c.buffer, !.buffer = << >>]
           joined == main \o c.buffer
           last == <<AtLabel(end)>>
           whole == joined \o last
<1>1. end \in Labels
  BY LabelType
<1>2. EndCode(c) = Emit(flushed, last)
  BY DEF EndCode
<1>3. /\ taken \in Constructors /\ taken.main = c.main /\ taken.buffer = c.buffer
      /\ taken.to_buffer = c.to_buffer
  <2>1. taken.main = c.main /\ taken.buffer = c.buffer /\ taken.to_buffer = c.to_buffer
    BY DEF TakeLabel, Constructors
  <2>2. taken \in Constructors
    BY TakeLabelEffect DEF Grows
  <2>3. QED
    BY <2>1, <2>2
<1>4. c.main \in Seq(Instructions) /\ c.buffer \in Seq(Instructions)
  BY ConstructorFields
<1>5. jumped = [taken EXCEPT !.main = main]
  BY <1>3 DEF Emit
<1> HIDE DEF taken, main, end
<1>6. /\ jumped.main = main /\ jumped.buffer = c.buffer /\ jumped.to_buffer = c.to_buffer
      /\ DOMAIN jumped = DOMAIN taken
  BY <1>3, <1>5 DEF Constructors
<1> HIDE DEF jumped
<1> DEFINE merged == [jumped EXCEPT !.main = joined]
<1>7. flushed = [merged EXCEPT !.buffer = << >>]
  BY <1>6
<1>8. DOMAIN taken = DOMAIN c /\ "main" \in DOMAIN c /\ "buffer" \in DOMAIN c
      /\ "to_buffer" \in DOMAIN c
  BY <1>3 DEF Constructors
<1> HIDE DEF joined, flushed
<1>9. /\ flushed.main = joined /\ flushed.to_buffer = c.to_buffer
      /\ DOMAIN flushed = DOMAIN c
  BY <1>6, <1>7, <1>8
<1> HIDE DEF last
<1>10. EndCode(c).main = whole
  <2>1. EndCode(c) = [flushed EXCEPT !.main = whole]
    BY <1>2, <1>9 DEF Emit
  <2> HIDE DEF whole
  <2>2. QED
    BY <1>8, <1>9, <2>1
<1>11. EndedList(((c.main \o <<Jump(end)>>) \o c.buffer) \o <<AtLabel(end)>>,
                 c.main, c.buffer, end)
  BY <1>1, <1>4, EndedParts
<1>12. QED
  BY <1>10, <1>11 DEF joined, main, last, end

LEMMA LabelOps ==
  ASSUME NEW l
  PROVE  /\ AtLabel(l).op = "LABEL" /\ AtLabel(l).label = l
         /\ Jump(l).op = "JUMP" /\ Jump(l).label = l
BY DEF AtLabel, Jump, Instruction

LEMMA WiredAt ==
  ASSUME NEW code \in Seq(Instructions), NEW k \in 1..Len(code), code[k].op \in JumpOps
  PROVE  code[k].label \in Wired(code)
BY DEF Wired

\* The functions are jumped over; nothing else leads into them but calls.
LEMMA EndedLevels ==
  ASSUME NEW a \in Seq(Instructions), NEW b \in Seq(Instructions), NEW end \in Labels,
         NEW code, EndedList(code, a, b, end),
         Carries(a, Ground, Ground), Carries(b, Ground, Ground), NoReturn(a), Ends(b),
         Wired(a) \cap Wired(b) = {}, end \notin Wired(a), end \notin Wired(b),
         \A l \in Wired(a) : l.type # "function", end.type # "function"
  PROVE  \E at, inside : Levelling(code, at, inside)
<1> DEFINE m == Len(a)
           q == Len(b)
           n == Len(code)
<1>1. /\ n = m + q + 2 /\ code \in Seq(Instructions)
      /\ \A k \in 1..m : code[k] = a[k]
      /\ code[m + 1] = Jump(end)
      /\ \A k \in 1..q : code[m + 1 + k] = b[k]
      /\ code[m + q + 2] = AtLabel(end)
  BY DEF EndedList
<1>2. m \in Nat /\ q \in Nat
  OBVIOUS
<1>3. PICK fa \in [0..m -> Levels] :
        /\ fa[0] = Ground /\ fa[m] = Ground
        /\ \A k \in 0 + 1..m : Takes(a[k], fa[k - 1], fa[k])
  BY DEF Carries, Passes
<1>4. PICK fb \in [0..q -> Levels] :
        /\ fb[0] = Ground /\ fb[q] = Ground
        /\ \A k \in 0 + 1..q : Takes(b[k], fb[k - 1], fb[k])
  BY DEF Carries, Passes
<1>5. /\ \A k \in 1..m : a[k].op # "RETURN"
      /\ q > 0 => b[q].op = "RETURN"
      /\ \A k \in 1..m : a[k].op \in JumpOps => a[k].label \in Wired(a)
      /\ \A k \in 1..q : b[k].op \in JumpOps => b[k].label \in Wired(b)
  BY WiredAt DEF NoReturn, Ends
<1> DEFINE at == [k \in 0..n |-> IF k <= m THEN fa[k]
                                 ELSE IF k <= m + 1 + q THEN fb[k - (m + 1)]
                                 ELSE Ground]
           inside == m + 2..m + 1 + q
<1> HIDE DEF m, q, n
<1>6. n \in Nat /\ n = m + q + 2
  BY <1>1, <1>2
\* Where an instruction comes from.
<1>7. \A k \in 1..n :
        \/ k \in 1..m /\ code[k] = a[k] /\ k \notin inside
        \/ k = m + 1 /\ code[k] = Jump(end) /\ k \notin inside
        \/ k - (m + 1) \in 1..q /\ code[k] = b[k - (m + 1)] /\ k \in inside
        \/ k = m + q + 2 /\ code[k] = AtLabel(end) /\ k \notin inside
  <2>1. ASSUME NEW k \in 1..n, k \in inside
        PROVE  k - (m + 1) \in 1..q /\ code[k] = b[k - (m + 1)]
    <3>1. k - (m + 1) \in 1..q /\ m + 1 + (k - (m + 1)) = k
      BY <1>2, <2>1
    <3>2. QED
      BY <1>1, <3>1
  <2>2. \A k \in 1..n : k \in 1..m \/ k = m + 1 \/ k \in inside \/ k = m + q + 2
    BY <1>2, <1>6
  <2>3. /\ \A k \in 1..m : k \notin inside
        /\ m + 1 \notin inside /\ m + q + 2 \notin inside
    BY <1>2
  <2> HIDE DEF inside
  <2>4. QED
    BY <1>1, <2>1, <2>2, <2>3
<1>8. /\ at \in [0..n -> Levels]
      /\ \A k \in 0..m : at[k] = fa[k]
      /\ \A k \in m + 1..m + 1 + q : at[k] = fb[k - (m + 1)]
      /\ at[n] = Ground
  <2>1. ASSUME NEW k \in 0..n
        PROVE  (IF k <= m THEN fa[k] ELSE IF k <= m + 1 + q THEN fb[k - (m + 1)]
                ELSE Ground) \in Levels
    <3>1. CASE k <= m
      BY <1>2, <1>3, <1>6, <3>1
    <3>2. CASE ~ (k <= m) /\ k <= m + 1 + q
      <4>1. k - (m + 1) \in 0..q
        BY <1>2, <1>6, <3>2
      <4>2. QED
        BY <3>2, <4>1
    <3>3. CASE ~ (k <= m) /\ ~ (k <= m + 1 + q)
      BY <3>3, LevelType
    <3>4. QED
      BY <3>1, <3>2, <3>3
  <2>2. at \in [0..n -> Levels]
    BY <2>1
  <2>3. /\ \A k \in 0..m : k \in 0..n /\ k <= m
        /\ \A k \in m + 1..m + 1 + q : k \in 0..n /\ ~ (k <= m) /\ k <= m + 1 + q
        /\ n \in 0..n /\ ~ (n <= m) /\ ~ (n <= m + 1 + q)
    BY <1>2, <1>6
  <2>4. \A k \in 0..m : at[k] = fa[k]
    BY <2>3
  <2>5. \A k \in m + 1..m + 1 + q : at[k] = fb[k - (m + 1)]
    BY <2>3
  <2>6. at[n] = Ground
    BY <2>3
  <2>7. QED
    BY <2>2, <2>4, <2>5, <2>6
<1> HIDE DEF at
<1>9. at[0] = Ground /\ at[m] = Ground /\ at[m + 1] = Ground /\ at[m + 1 + q] = Ground
  <2>1. 0 \in 0..m /\ m \in 0..m /\ m + 1 \in m + 1..m + 1 + q /\ m + 1 - (m + 1) = 0
        /\ m + 1 + q \in m + 1..m + 1 + q /\ m + 1 + q - (m + 1) = q
    BY <1>2
  <2>2. at[0] = Ground /\ at[m] = Ground
    BY <1>3, <1>8, <2>1
  <2> DEFINE e == m + 1
             f == m + 1 + q
  <2>3. \A k \in e..f : at[k] = fb[k - e]
    BY <1>8
  <2>4. e \in e..f /\ f \in e..f /\ e - e = 0 /\ f - e = q
    BY <1>2
  <2> HIDE DEF e, f
  <2>5. at[e] = fb[e - e] /\ at[f] = fb[f - e]
    BY <2>3, <2>4
  <2>6. at[e] = Ground /\ at[f] = Ground
    BY <1>4, <2>4, <2>5
  <2>7. QED
    BY <2>2, <2>6 DEF e, f
<1>10. ASSUME NEW k \in 1..n PROVE Takes(code[k], at[k - 1], at[k])
  <2>1. CASE k \in 1..m /\ code[k] = a[k]
    <3>1. k \in 0..m /\ k - 1 \in 0..m /\ k \in 0 + 1..m
      BY <1>2, <2>1
    <3>2. at[k] = fa[k] /\ at[k - 1] = fa[k - 1] /\ Takes(a[k], fa[k - 1], fa[k])
      BY <1>3, <1>8, <3>1
    <3>3. QED
      BY <2>1, <3>2
  <2>2. CASE k = m + 1 /\ code[k] = Jump(end)
    <3>1. k - 1 = m
      BY <1>2, <2>2
    <3>2. QED
      BY <1>9, <2>2, <3>1, LabelOps DEF Takes
  <2>3. CASE k - (m + 1) \in 1..q /\ code[k] = b[k - (m + 1)]
    <3> DEFINE p == k - (m + 1)
    <3>1. /\ p \in 0 + 1..q /\ k \in m + 1..m + 1 + q /\ k - 1 \in m + 1..m + 1 + q
          /\ k - 1 - (m + 1) = p - 1
      BY <1>2, <2>3
    <3>2. at[k] = fb[p] /\ at[k - 1] = fb[p - 1] /\ Takes(b[p], fb[p - 1], fb[p])
      BY <1>4, <1>8, <3>1
    <3>3. QED
      BY <2>3, <3>2
  <2>4. CASE k = m + q + 2 /\ code[k] = AtLabel(end)
    <3>1. k - 1 = m + 1 + q /\ k = n
      BY <1>2, <1>6, <2>4
    <3>2. at[k - 1] = Ground /\ at[k] = Ground
      BY <1>8, <1>9, <3>1
    <3>3. QED
      BY <2>4, <3>2, LabelOps DEF Takes
  <2>5. QED
    BY <1>7, <2>1, <2>2, <2>3, <2>4
<1>11. \A l : \A k \in 1..n : code[k] = AtLabel(l) =>
          \/ l \in Wired(a) /\ k \notin inside
          \/ l \in Wired(b) /\ k \in inside
          \/ l = end /\ k \notin inside
  <2> HIDE DEF inside
  <2>1. ASSUME NEW k \in 1..n, NEW l, code[k] = AtLabel(l)
        PROVE  \/ l \in Wired(a) /\ k \notin inside
               \/ l \in Wired(b) /\ k \in inside
               \/ l = end /\ k \notin inside
    <3>1. code[k].op = "LABEL" /\ code[k].label = l /\ "LABEL" \in JumpOps
          /\ Jump(end).op # "LABEL" /\ AtLabel(end).label = end
      BY <2>1, LabelOps DEF JumpOps
    <3>2. QED
      BY <1>5, <1>7, <3>1
  <2>2. QED
    BY <2>1
<1>12. \A k \in 1..n : code[k].op \in {"JUMP", "JUMPIFEQ", "JUMPIFEQS"} =>
          \/ code[k].label \in Wired(a) /\ k \notin inside
          \/ code[k].label \in Wired(b) /\ k \in inside
          \/ code[k].label = end /\ k \notin inside
  <2> HIDE DEF inside
  <2>1. ASSUME NEW k \in 1..n, code[k].op \in {"JUMP", "JUMPIFEQ", "JUMPIFEQS"}
        PROVE  \/ code[k].label \in Wired(a) /\ k \notin inside
               \/ code[k].label \in Wired(b) /\ k \in inside
               \/ code[k].label = end /\ k \notin inside
    <3>1. code[k].op \in JumpOps /\ AtLabel(end).op = "LABEL" /\ Jump(end).label = end
          /\ code[k].op # "LABEL"
      BY <2>1, LabelOps DEF JumpOps
    <3>2. QED
      BY <1>5, <1>7, <3>1
  <2>2. QED
    BY <2>1
<1>13. inside \subseteq 1..n /\ 1 \notin inside /\ n \notin inside
  BY <1>2, <1>6
<1>14. ASSUME NEW k \in 1..n - 1, code[k].op \notin {"JUMP", "RETURN"}
       PROVE  k \in inside <=> k + 1 \in inside
  <2>1. k \in 1..n
    BY <1>6
  <2>2. k # m + 1
    BY <1>1, <1>14, LabelOps
  <2>3. ~ (q > 0 /\ k = m + 1 + q)
    <3>1. m + 1 + q - (m + 1) = q
      BY <1>2
    <3>2. q > 0 /\ k = m + 1 + q => k \in inside
      BY <1>2
    <3>3. \A j \in inside : j # m + 1 /\ j # m + q + 2 /\ j \notin 1..m
      BY <1>2
    <3>4. q > 0 => q \in 1..q
      BY <1>2
    <3>5. q > 0 /\ k = m + 1 + q => code[k] = b[q]
      BY <1>1, <3>4
    <3>6. QED
      BY <1>5, <1>14, <3>5
  <2>4. QED
    BY <1>2, <1>6, <2>2, <2>3
<1>15. ASSUME NEW k \in 1..n, code[k].op = "RETURN" PROVE k \in inside
  <2> HIDE DEF inside
  <2>1. QED
    BY <1>5, <1>7, <1>15, LabelOps
<1>16. ASSUME NEW k \in 1..n, NEW j \in 1..n, code[k].op = "CALL",
              code[j] = AtLabel(code[k].label)
       PROVE  j \in inside
  <2>1. code[k].label.type = "function"
    BY <1>10, <1>16 DEF Takes, Quiet
  <2> HIDE DEF inside
  <2>2. QED
    BY <1>11, <1>16, <2>1
<1>17. ASSUME NEW k \in 1..n, NEW j \in 1..n,
              code[k].op \in {"JUMP", "JUMPIFEQ", "JUMPIFEQS"},
              code[j] = AtLabel(code[k].label)
       PROVE  k \in inside <=> j \in inside
  <2> DEFINE to == code[k].label
  <2>1. \/ to \in Wired(a) /\ j \notin inside
        \/ to \in Wired(b) /\ j \in inside
        \/ to = end /\ j \notin inside
    BY <1>11, <1>17, Zenon
  <2>2. \/ to \in Wired(a) /\ k \notin inside
        \/ to \in Wired(b) /\ k \in inside
        \/ to = end /\ k \notin inside
    BY <1>12, <1>17, Zenon
  <2> HIDE DEF inside, to
  <2>3. QED
    BY <2>1, <2>2
<1>18. n > 0 /\ code[n].op = "LABEL"
  BY <1>1, <1>2, <1>6, LabelOps
<1> HIDE DEF inside
<1>19. Levelling(code, at, inside)
  BY <1>8, <1>9, <1>10, <1>13, <1>14, <1>15, <1>16, <1>17, <1>18 DEF Levelling, n
<1>20. QED
  BY <1>19

LEMMA EndCodeLevels ==
  ASSUME NEW c \in Constructors, Tidy(c), ~c.to_buffer, Wired(c.main) \cap Own(c) = {}
  PROVE  \E at, inside : Levelling(EndCode(c).main, at, inside)
<1> DEFINE end == Label(c, "main_scope")
<1>1. end \in Labels /\ end.type = "main_scope" /\ end \in Own(c)
  BY LabelType, OwnStacks
<1>2. c.main \in Seq(Instructions) /\ c.buffer \in Seq(Instructions)
  BY ConstructorFields
<1>3. /\ Carries(c.main, Ground, Ground) /\ Carries(c.buffer, Ground, Ground)
      /\ NoReturn(c.main) /\ Ends(c.buffer)
      /\ Wired(c.main) \cap Wired(c.buffer) = {} /\ Wired(c.buffer) \cap Own(c) = {}
      /\ \A l \in Wired(c.main) \cup Own(c) : l.type # "function"
  BY DEF Tidy, OwnLabels, Resting
<1>4. EndedList(EndCode(c).main, c.main, c.buffer, end)
  BY EndCodeLayout
<1> HIDE DEF end
<1>5. QED
  BY <1>1, <1>2, <1>3, <1>4, EndedLevels
=============================================================================
