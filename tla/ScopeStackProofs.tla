-------------------------- MODULE ScopeStackProofs --------------------------
(***************************************************************************)
(* Lemmas about the stack of tables, for whoever keeps one: what the       *)
(* search finds, and that the operators on stacks keep their types.  They  *)
(* rest on least and greatest elements of sets of naturals.                *)
(***************************************************************************)
EXTENDS ScopeStack, SequenceTheorems, WellFoundedInduction, TLAPS

(***************************************************************************)
(* Numbers: a set of naturals has a least element, and one inside 1..n a   *)
(* greatest; what holds of 0 and of each number after one it holds of,     *)
(* holds up to n.                                                          *)
(***************************************************************************)
LEMMA LeastNatural ==
  ASSUME NEW T, T \subseteq Nat, T # {}
  PROVE  \E x \in T : \A y \in T : x <= y
<1> DEFINE R == {p \in Nat \X Nat : p[1] < p[2]}
<1>1. IsWellFoundedOn(R, Nat)
  <2>1. R = OpToRel(<, Nat)
    BY Zenon DEF OpToRel
  <2>2. QED
    BY <2>1, NatLessThanWellFounded, Zenon
<1>2. PICK x \in T : \A y \in T : ~ (<<y, x>> \in R)
  <2> HIDE DEF R
  <2>1. QED
    BY <1>1, WFMin
<1>3. \A y \in T : ~ (y < x)
  BY <1>2
<1>4. QED
  BY <1>3

LEMMA StepByStep ==
  ASSUME NEW n \in Nat, NEW T, 0 \in T, \A i \in 1..n : i - 1 \in T => i \in T
  PROVE  \A i \in 0..n : i \in T
<1> DEFINE Missing == {i \in 0..n : i \notin T}
<1>1. Missing \subseteq Nat /\ 0 \notin Missing
  OBVIOUS
<1>2. SUFFICES ASSUME Missing # {} PROVE FALSE
  OBVIOUS
<1>3. PICK i \in Missing : \A j \in Missing : i <= j
  <2> HIDE DEF Missing
  <2>1. QED
    BY <1>1, <1>2, LeastNatural
<1>4. i \in 1..n /\ i - 1 \in 0..n /\ ~ (i <= i - 1) /\ i \notin T
  BY <1>1
<1>5. i - 1 \in T
  BY <1>3, <1>4
<1>6. QED
  BY <1>4, <1>5

LEMMA GreatestIndex ==
  ASSUME NEW n \in Nat, NEW T, T \subseteq 1..n, T # {}
  PROVE  \E x \in T : \A y \in T : y <= x
<1> DEFINE Distances == {n - t : t \in T}
<1>1. Distances \subseteq Nat /\ Distances # {}
  <2>1. \A t \in T : n - t \in Nat
    OBVIOUS
  <2>2. PICK t \in T : TRUE
    OBVIOUS
  <2>3. n - t \in Distances
    OBVIOUS
  <2>4. QED
    BY <2>1, <2>3
<1>2. PICK d \in Distances : \A e \in Distances : d <= e
  <2> HIDE DEF Distances
  <2>1. QED
    BY <1>1, LeastNatural
<1>3. PICK x \in T : d = n - x
  BY <1>2
<1>4. \A y \in T : n - x <= n - y
  BY <1>2, <1>3
<1>5. QED
  BY <1>4

-----------------------------------------------------------------------------
(***************************************************************************)
(* The alias of a parameter carries the index of a parameter of that name. *)
(***************************************************************************)
LEMMA ParameterIndexIsAnIndex ==
  ASSUME NEW params \in Seq(Names), NEW name \in ParameterNames(params)
  PROVE  /\ ParameterIndex(params, name) \in 1..Len(params)
         /\ params[ParameterIndex(params, name)] = name
<1> DEFINE Occurrences == {i \in 1..Len(params) : params[i] = name}
<1>1. DOMAIN params = 1..Len(params) /\ Len(params) \in Nat
  OBVIOUS
<1>2. Occurrences # {} /\ Occurrences \subseteq Nat
  BY <1>1 DEF ParameterNames
<1>3. \E i \in Occurrences : \A j \in Occurrences : i <= j
  <2> HIDE DEF Occurrences
  <2>1. QED
    BY <1>2, LeastNatural
<1>4. \E i \in DOMAIN params :
        params[i] = name /\ \A j \in DOMAIN params : params[j] = name => i <= j
  BY <1>1, <1>3
<1>5. QED
  BY <1>1, <1>4 DEF ParameterIndex

(***************************************************************************)
(* Find gives the variable of the innermost table that holds the name, and *)
(* nothing exactly when no table holds it.                                 *)
(***************************************************************************)
LEMMA FindInnermost ==
  ASSUME NEW stack \in Seq(Table), NEW name \in Names,
         Holders(stack, name) # {}
  PROVE  \E i \in Holders(stack, name) :
           /\ \A j \in Holders(stack, name) : j <= i
           /\ Find(stack, name) = stack[i].vars[name]
<1>1. Holders(stack, name) \subseteq 1..Len(stack) /\ Len(stack) \in Nat
  BY DEF Holders
<1>2. \E i \in Holders(stack, name) : \A j \in Holders(stack, name) : j <= i
  BY <1>1, GreatestIndex
<1>3. QED
  BY <1>2 DEF Find

LEMMA FindNothing ==
  ASSUME NEW stack \in Seq(Table), NEW name \in Names
  PROVE  Find(stack, name) = NoVariable <=> Holders(stack, name) = {}
<1>1. CASE Holders(stack, name) = {}
  BY <1>1 DEF Find
<1>2. CASE Holders(stack, name) # {}
  BY <1>2, FindInnermost DEF Holders, Holds
<1>3. QED
  BY <1>1, <1>2

LEMMA FindType ==
  ASSUME NEW stack \in Seq(Table), NEW name \in Names
  PROVE  Find(stack, name) \in Variable \cup {NoVariable}
<1>1. CASE Holders(stack, name) = {}
  BY <1>1 DEF Find
<1>2. CASE Holders(stack, name) # {}
  <2>1. PICK i \in 1..Len(stack) : Find(stack, name) = stack[i].vars[name]
    BY <1>2, FindInnermost DEF Holders
  <2>2. stack[i] \in Table
    OBVIOUS
  <2>3. QED
    BY <2>1, <2>2 DEF Table
<1>3. QED
  BY <1>1, <1>2

(***************************************************************************)
(* The operators on stacks of tables keep their types.                     *)
(***************************************************************************)
LEMMA EmptyTableType ==
  ASSUME NEW id \in Nat, NEW alias \in Names \cup {NoName}
  PROVE  EmptyTable(id, alias) \in Table
BY DEF EmptyTable, Table

LEMMA NewVariableType ==
  ASSUME NEW table \in Table, NEW name \in Names, NEW param \in Nat,
         NEW b \in Nat
  PROVE  /\ NewVariable(table, name, param, b) \in Variable
         /\ NewVariable(table, name, param, b) # NoVariable
<1>1. NewVariable(table, name, param, b) \in Variable
  BY DEF NewVariable, Variable, Table
<1>2. NewVariable(table, name, param, b).name # NoVariable.name
  BY NamesAssumption DEF NewVariable, NoVariable
<1>3. QED
  BY <1>1, <1>2

LEMMA IdentityType ==
  ASSUME NEW v \in Variable
  PROVE  Identity(v) \in Identities
BY DEF Identity, Identities, Variable

\* What AddVariable does to a stack whose innermost table lacks the name.
LEMMA AddVariableEffect ==
  ASSUME NEW stack \in Seq(Table), Len(stack) > 0, NEW name \in Names,
         NEW b \in Nat, ~Holds(Top(stack), name),
         NEW s, s = AddVariable(stack, name, 0, b),
         NEW v, v = NewVariable(Top(stack), name, 0, b)
  PROVE  /\ s \in Seq(Table) /\ Len(s) = Len(stack)
         /\ v \in Variable /\ v # NoVariable
         /\ \A i \in 1..Len(stack) :
              /\ s[i].id = stack[i].id /\ s[i].alias = stack[i].alias
              /\ i # Len(stack) => s[i] = stack[i]
         /\ \A i \in 1..Len(stack), n \in Names :
              s[i].vars[n] = IF i = Len(stack) /\ n = name
                             THEN v ELSE stack[i].vars[n]
<1>1. Len(stack) \in Nat /\ Top(stack) = stack[Len(stack)]
      /\ Top(stack) \in Table
  BY DEF Top
<1>2. v \in Variable /\ v # NoVariable
  BY <1>1, NewVariableType
<1> DEFINE top == stack[Len(stack)]
           new == [top EXCEPT !.vars[name] = v]
<1>3. new \in Table
  BY <1>1, <1>2 DEF Table
<1>4. /\ new.id = top.id /\ new.alias = top.alias
      /\ \A n \in Names : new.vars[n] = IF n = name THEN v ELSE top.vars[n]
  BY <1>1 DEF Table
<1>5. s = [stack EXCEPT ![Len(stack)] = new]
  BY <1>1 DEF AddVariable
<1> HIDE DEF new
<1>6. /\ s \in Seq(Table) /\ Len(s) = Len(stack)
      /\ \A i \in 1..Len(stack) :
           s[i] = IF i = Len(stack) THEN new ELSE stack[i]
  BY <1>1, <1>3, <1>5, ExceptSeq
<1>7. QED
  BY <1>1, <1>2, <1>4, <1>6

\* What popping a table does to a stack of two or more.
LEMMA PopTableEffect ==
  ASSUME NEW stack \in Seq(Table), Len(stack) > 1
  PROVE  /\ PopTable(stack) \in Seq(Table)
         /\ Len(PopTable(stack)) = Len(stack) - 1
         /\ \A i \in 1..Len(stack) - 1 : PopTable(stack)[i] = stack[i]
<1>1. /\ Len(stack) \in Nat /\ Len(stack) # 1
      /\ \A i \in 1..Len(stack) - 1 : stack[i] \in Table
  BY LenProperties, ElementOfSeq
<1>2. PopTable(stack) = SubSeq(stack, 1, Len(stack) - 1)
  BY <1>1, Zenon DEF PopTable
<1>3. QED
  BY <1>1, <1>2, SubSeqProperties

LEMMA PopLastTable ==
  ASSUME NEW stack, Len(stack) = 1
  PROVE  PopTable(stack) = <<EmptyTable(0, NoName)>>
BY DEF PopTable

\* The table a function begins with holds its parameters and nothing else.
LEMMA FunctionTableType ==
  ASSUME NEW id \in Nat, NEW f \in Names, NEW params \in Seq(Names), NEW b \in Nat
  PROVE  /\ FunctionTable(id, f, params, b) \in Table
         /\ FunctionTable(id, f, params, b).id = id
         /\ FunctionTable(id, f, params, b).alias = f
         /\ \A n \in Names :
              FunctionTable(id, f, params, b).vars[n] =
                IF n \in ParameterNames(params)
                THEN Parameter(id, f, params, n, b) ELSE NoVariable
<1>1. \A n \in ParameterNames(params) :
        n \in Names /\ Parameter(id, f, params, n, b) \in Variable
  <2>1. TAKE n \in ParameterNames(params)
  <2>2. n \in Names
    BY DEF ParameterNames
  <2>3. ParameterIndex(params, n) \in Nat
    BY ParameterIndexIsAnIndex
  <2>4. EmptyTable(id, f) \in Table
    BY EmptyTableType
  <2>5. QED
    BY <2>2, <2>3, <2>4, NewVariableType DEF Parameter
<1>2. QED
  BY <1>1, EmptyTableType DEF FunctionTable, EmptyTable, Table

=============================================================================
