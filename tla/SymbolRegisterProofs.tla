------------------------ MODULE SymbolRegisterProofs ------------------------
(***************************************************************************)
(* Proofs about the register of symbols, for every set of names, every set *)
(* of parameter lists and every bound: its type invariant, that identities *)
(* are not taken twice, that a block ends with what was declared in it, and*)
(* that a name finds the variable declared last.                           *)
(*                                                                         *)
(* RegisterInvariant is inductive.  NoIdentityReuse alone is not: that a   *)
(* new identity is new follows from the numbers of the tables growing, from*)
(* no alias being used by two tables, and from every identity of an open   *)
(* table being held by that table.                                         *)
(***************************************************************************)
EXTENDS SymbolRegister, ScopeStackProofs

(***************************************************************************)
(* Type correctness.                                                       *)
(***************************************************************************)
LEMMA RememberType ==
  ASSUME TypeOK, NEW ids, ids \subseteq Identities, Remember(ids)
  PROVE  declared' \subseteq Identities /\ redeclared' \subseteq Identities
BY DEF TypeOK, Remember

LEMMA MeaningType ==
  ASSUME TypeOK
  PROVE  Append(outside, Meaning) \in Seq([Names -> Variable \cup {NoVariable}])
<1>1. Meaning \in [Names -> Variable \cup {NoVariable}]
  BY FindType DEF TypeOK, Meaning
<1>2. QED
  BY <1>1 DEF TypeOK

LEMMA ParameterIdentitiesType ==
  ASSUME NEW id \in Nat, NEW f \in Names, NEW params \in Seq(Names), born \in Nat
  PROVE  /\ ParameterIdentities(id, f, params) \subseteq Identities
         /\ \A i \in ParameterIdentities(id, f, params) :
              i.alias = f /\ i.param # 0
<1>1. ASSUME NEW n \in ParameterNames(params)
      PROVE  LET i == Identity(Parameter(id, f, params, n, born))
             IN  i \in Identities /\ i.alias = f /\ i.param # 0
  <2>1. n \in Names
    BY DEF ParameterNames
  <2>2. ParameterIndex(params, n) \in Nat /\ ParameterIndex(params, n) # 0
    BY ParameterIndexIsAnIndex
  <2>3. EmptyTable(id, f) \in Table
    BY EmptyTableType
  <2>4. Parameter(id, f, params, n, born) \in Variable
    BY <2>1, <2>2, <2>3, NewVariableType DEF Parameter
  <2>5. /\ Parameter(id, f, params, n, born).alias = f
        /\ Parameter(id, f, params, n, born).param # 0
    BY <2>2 DEF Parameter, NewVariable, EmptyTable
  <2>6. QED
    BY <2>4, <2>5, IdentityType DEF Identity
<1>2. QED
  BY <1>1 DEF ParameterIdentities

LEMMA TypeInit == Init => TypeOK
<1> SUFFICES ASSUME Init PROVE TypeOK
  OBVIOUS
<1>1. EmptyTable(0, NoName) \in Table
  BY EmptyTableType
<1>2. QED
  BY <1>1 DEF Init, TypeOK

LEMMA TypeStep == TypeOK /\ [Next]_vars => TypeOK'
<1> SUFFICES ASSUME TypeOK, [Next]_vars PROVE TypeOK'
  OBVIOUS
<1>1. ASSUME PushVariablesTable PROVE TypeOK'
  <2>1. EmptyTable(variables_table_counter + 1, NoName) \in Table
    BY EmptyTableType DEF TypeOK
  <2>2. variables' \in Seq(Table) /\ Len(variables') > 0
    BY <1>1, <2>1 DEF TypeOK, PushVariablesTable, PushTable
  <2>3. outside' \in Seq([Names -> Variable \cup {NoVariable}])
    BY <1>1, MeaningType DEF PushVariablesTable
  <2>4. QED
    BY <1>1, <2>2, <2>3 DEF TypeOK, PushVariablesTable
<1>2. ASSUME PopVariablesTable PROVE TypeOK'
  <2>1. variables' \in Seq(Table) /\ Len(variables') > 0
    <3>1. CASE Len(variables) = 1
      <4>1. variables' = <<EmptyTable(0, NoName)>>
        BY <1>2, <3>1, PopLastTable, Zenon DEF PopVariablesTable
      <4>2. EmptyTable(0, NoName) \in Table
        BY EmptyTableType
      <4>3. QED
        BY <4>1, <4>2
    <3>2. CASE Len(variables) > 1
      BY <1>2, <3>2, PopTableEffect DEF TypeOK, PopVariablesTable
    <3>3. Len(variables) \in Nat /\ Len(variables) > 0
      BY DEF TypeOK
    <3>4. Len(variables) = 1 \/ Len(variables) > 1
      <4>1. \A n \in Nat : n > 0 => n = 1 \/ n > 1
        OBVIOUS
      <4>2. QED
        BY <3>3, <4>1, Zenon
    <3>5. QED
      BY <3>1, <3>2, <3>4
  <2>2. outside' \in Seq([Names -> Variable \cup {NoVariable}])
    <3>1. /\ Len(outside) \in Nat
          /\ \A i \in 1..Len(outside) - 1 :
               outside[i] \in [Names -> Variable \cup {NoVariable}]
      BY DEF TypeOK
    <3>2. QED
      BY <1>2, <3>1, SubSeqProperties DEF PopVariablesTable
  <2>3. QED
    BY <1>2, <2>1, <2>2 DEF TypeOK, PopVariablesTable
<1>3. ASSUME NEW name \in Names, DeclareVariable(name) PROVE TypeOK'
  <2> DEFINE v == NewVariable(Top(variables), name, 0, born)
  <2>1. /\ variables' \in Seq(Table) /\ Len(variables') = Len(variables)
        /\ v \in Variable
    BY <1>3, AddVariableEffect DEF TypeOK, DeclareVariable
  <2>2. Identity(v) \in Identities
    BY <2>1, IdentityType
  <2>3. declared' \subseteq Identities /\ redeclared' \subseteq Identities
    BY <1>3, <2>2, RememberType DEF DeclareVariable
  <2>4. QED
    BY <1>3, <2>1, <2>3 DEF TypeOK, DeclareVariable
<1>4. ASSUME NEW f \in Names, DeclareFunction(f) PROVE TypeOK'
  BY <1>4 DEF TypeOK, DeclareFunction
<1>5. ASSUME NEW f \in Names, NEW params \in ParameterLists,
             FunctionStart(f, params)
      PROVE  TypeOK'
  <2> DEFINE id == variables_table_counter + 1
  <2>1. id \in Nat /\ params \in Seq(Names) /\ born \in Nat
    BY ParameterListsAssumption DEF TypeOK
  <2>2. FunctionTable(id, f, params, born) \in Table
    BY <2>1, FunctionTableType
  <2>3. variables' \in Seq(Table) /\ Len(variables') > 0
    BY <1>5, <2>2 DEF TypeOK, FunctionStart
  <2>4. outside' \in Seq([Names -> Variable \cup {NoVariable}])
    BY <1>5, MeaningType DEF FunctionStart
  <2>5. declared' \subseteq Identities /\ redeclared' \subseteq Identities
    BY <1>5, <2>1, ParameterIdentitiesType, RememberType DEF FunctionStart
  <2>6. functions' \in [Names -> {"none", "declared", "defined"}]
    BY <1>5 DEF TypeOK, FunctionStart
  <2>7. variables_table_counter' \in Nat /\ born' \in Nat
    BY <1>5 DEF TypeOK, FunctionStart
  <2>8. QED
    BY <2>3, <2>4, <2>5, <2>6, <2>7 DEF TypeOK
<1>6. CASE UNCHANGED vars
  BY <1>6 DEF TypeOK, vars
<1>7. QED
  BY <1>1, <1>2, <1>3, <1>4, <1>5, <1>6 DEF Next

\* The register stays a stack of tables of variables, never an empty one
\* (symbol_register_pop_variables_table puts a table in the last one's place).
THEOREM TypeCorrect == Spec => []TypeOK
BY TypeInit, TypeStep, PTL DEF Spec

-----------------------------------------------------------------------------
(***************************************************************************)
(* The register invariant.                                                 *)
(***************************************************************************)
LEMMA PrefixesAgree ==
  ASSUME NEW s \in Seq(Table), NEW t \in Seq(Table), NEW k \in Nat,
         k <= Len(s), k <= Len(t), \A j \in 1..k : s[j] = t[j]
  PROVE  SubSeq(s, 1, k) = SubSeq(t, 1, k)
<1>1. \A j \in 1..k : s[j] \in Table /\ t[j] \in Table
  BY ElementOfSeq, LenProperties
<1>2. /\ SubSeq(s, 1, k) \in Seq(Table) /\ SubSeq(t, 1, k) \in Seq(Table)
      /\ Len(SubSeq(s, 1, k)) = k /\ Len(SubSeq(t, 1, k)) = k
      /\ \A j \in 1..k : SubSeq(s, 1, k)[j] = s[j] /\ SubSeq(t, 1, k)[j] = t[j]
  BY <1>1, SubSeqProperties
<1>3. QED
  BY <1>2, SeqEqual

LEMMA AppendEffect ==
  ASSUME NEW S, NEW s \in Seq(S), NEW e \in S
  PROVE  /\ Append(s, e) \in Seq(S)
         /\ Len(s) \in Nat
         /\ Len(Append(s, e)) = Len(s) + 1
         /\ \A i \in 1..Len(s) : Append(s, e)[i] = s[i]
         /\ Append(s, e)[Len(s) + 1] = e
OBVIOUS

\* What pushing any table numbered by the counter keeps.
LEMMA PushKeeps ==
  ASSUME RegisterInvariant, NEW t \in Table,
         t.id = variables_table_counter + 1,
         variables' = Append(variables, t),
         variables_table_counter' = variables_table_counter + 1,
         outside' = Append(outside, Meaning)
  PROVE  NumbersGrow' /\ OutsidePairsTables' /\ OuterMeaningKept'
<1>1. /\ variables \in Seq(Table) /\ variables' \in Seq(Table)
      /\ Len(variables) \in Nat /\ Len(variables) > 0
      /\ Len(variables') = Len(variables) + 1
      /\ \A i \in 1..Len(variables) : variables'[i] = variables[i]
      /\ variables'[Len(variables) + 1] = t
      /\ variables_table_counter \in Nat
      /\ \A i \in 1..Len(variables) : variables[i].id \in Nat
  <2>1. /\ variables \in Seq(Table) /\ Len(variables) > 0
        /\ variables_table_counter \in Nat
    BY DEF RegisterInvariant, TypeOK
  <2>2. \A i \in 1..Len(variables) : variables[i].id \in Nat
    <3>1. \A table \in Table : table.id \in Nat
      BY DEF Table
    <3>2. QED
      BY <2>1, <3>1, ElementOfSeq, Zenon
  <2>3. QED
    BY <2>1, <2>2, AppendEffect
<1>2. /\ Len(outside) = Len(variables) - 1
      /\ Len(outside') = Len(outside) + 1
      /\ \A i \in 1..Len(outside) : outside'[i] = outside[i]
      /\ outside'[Len(outside) + 1] = Meaning
  BY DEF RegisterInvariant, TypeOK, OutsidePairsTables
<1>3. NumbersGrow'
  BY <1>1 DEF RegisterInvariant, NumbersGrow
<1>4. OutsidePairsTables'
  BY <1>1, <1>2 DEF OutsidePairsTables
<1>5. OuterMeaningKept'
  <2>1. SUFFICES ASSUME NEW i \in 1..Len(variables), NEW n \in Names
                 PROVE  Find(SubSeq(variables', 1, i), n) = outside'[i][n]
    <3>1. 1..Len(variables') - 1 = 1..Len(variables)
      BY <1>1
    <3>2. QED
      BY <2>1, <3>1, Zenon DEF OuterMeaningKept
  <2>2. SubSeq(variables', 1, i) = SubSeq(variables, 1, i)
    BY <1>1, PrefixesAgree
  <2>3. CASE i = Len(variables)
    <3>1. SubSeq(variables, 1, i) = variables
      BY <1>1, <2>3, SubSeqFull
    <3>2. outside'[i] = Meaning
      BY <1>1, <1>2, <2>3
    <3>3. QED
      BY <2>2, <3>1, <3>2 DEF Meaning
  <2>4. CASE i # Len(variables)
    <3>1. i \in 1..Len(variables) - 1 /\ outside'[i] = outside[i]
      BY <1>1, <1>2, <2>4
    <3>2. QED
      BY <2>2, <3>1 DEF RegisterInvariant, OuterMeaningKept
  <2>5. QED
    BY <2>3, <2>4
<1>6. QED
  BY <1>3, <1>4, <1>5

LEMMA PushVariablesTableStep ==
  ASSUME RegisterInvariant, PushVariablesTable, TypeOK'
  PROVE  RegisterInvariant'
<1> DEFINE t == EmptyTable(variables_table_counter + 1, NoName)
<1>1. /\ t \in Table /\ t.id = variables_table_counter + 1 /\ t.alias = NoName
      /\ \A n \in Names : ~Holds(t, n)
  BY EmptyTableType DEF RegisterInvariant, TypeOK, EmptyTable, Holds
<1>2. /\ variables' = Append(variables, t)
      /\ variables_table_counter' = variables_table_counter + 1
      /\ outside' = Append(outside, Meaning)
      /\ UNCHANGED <<functions, born, declared, redeclared>>
  BY DEF PushVariablesTable, PushTable
<1> HIDE DEF t
<1>3. /\ Len(variables) \in Nat
      /\ Len(variables') = Len(variables) + 1
      /\ \A i \in 1..Len(variables) : variables'[i] = variables[i]
      /\ variables'[Len(variables) + 1] = t
      /\ variables_table_counter \in Nat
      /\ declared \subseteq Identities
  BY <1>1, <1>2 DEF RegisterInvariant, TypeOK
<1>4. NumbersGrow' /\ OutsidePairsTables' /\ OuterMeaningKept'
  BY <1>1, <1>2, PushKeeps
<1>5. FunctionTableIsSecond'
  BY <1>1, <1>2, <1>3 DEF RegisterInvariant, FunctionTableIsSecond
<1>6. IdentitiesAreOld'
  BY <1>2, <1>3 DEF RegisterInvariant, IdentitiesAreOld, Identities
<1>7. OpenTablesHoldTheirs'
  <2>1. ASSUME NEW id \in declared PROVE ~Owns(t, id)
    BY <1>1, <1>3, <2>1
    DEF RegisterInvariant, IdentitiesAreOld, Owns, Identities
  <2>2. QED
    BY <1>2, <1>3, <2>1 DEF RegisterInvariant, OpenTablesHoldTheirs
<1>8. NoIdentityReuse'
  BY <1>2 DEF RegisterInvariant, NoIdentityReuse
<1>9. OuterIsOlder'
  BY <1>1, <1>2, <1>3 DEF RegisterInvariant, OuterIsOlder
<1>10. QED
  BY <1>4, <1>5, <1>6, <1>7, <1>8, <1>9 DEF RegisterInvariant

LEMMA PopVariablesTableStep ==
  ASSUME RegisterInvariant, PopVariablesTable, TypeOK'
  PROVE  RegisterInvariant'
<1>1. /\ variables \in Seq(Table) /\ Len(variables) \in Nat /\ Len(variables) > 0
      /\ Len(outside) = Len(variables) - 1
      /\ outside \in Seq([Names -> Variable \cup {NoVariable}])
      /\ variables_table_counter \in Nat
  BY DEF RegisterInvariant, TypeOK, OutsidePairsTables
<1>2. /\ UNCHANGED <<variables_table_counter, functions, born, declared, redeclared>>
      /\ variables' = PopTable(variables)
      /\ outside' = SubSeq(outside, 1, Len(outside) - 1)
  BY DEF PopVariablesTable
<1>3. IdentitiesAreOld' /\ NoIdentityReuse'
  BY <1>2 DEF RegisterInvariant, IdentitiesAreOld, NoIdentityReuse
<1>4. CASE Len(variables) = 1
  <2> DEFINE t == EmptyTable(0, NoName)
  <2>1. variables' = <<t>>
    BY <1>2, <1>4, PopLastTable
  <2>2. t.id = 0 /\ t.alias = NoName /\ \A n \in Names : ~Holds(t, n)
    BY DEF EmptyTable, Holds
  <2> HIDE DEF t
  <2>3. outside' = << >>
    BY <1>1, <1>2, <1>4, SubSeqEmpty
  <2>4. NumbersGrow'
    BY <1>1, <1>2, <2>1, <2>2 DEF NumbersGrow
  <2>5. FunctionTableIsSecond' /\ OpenTablesHoldTheirs' /\ OuterIsOlder'
    BY <2>1, <2>2 DEF FunctionTableIsSecond, OpenTablesHoldTheirs, OuterIsOlder
  <2>6. OutsidePairsTables' /\ OuterMeaningKept'
    BY <2>1, <2>3 DEF OutsidePairsTables, OuterMeaningKept
  <2>7. QED
    BY <1>3, <2>4, <2>5, <2>6 DEF RegisterInvariant
<1>5. CASE Len(variables) # 1
  <2>1. /\ variables' \in Seq(Table)
        /\ Len(variables') = Len(variables) - 1
        /\ \A i \in 1..Len(variables') : variables'[i] = variables[i]
    <3>1. \A n \in Nat : n > 0 /\ n # 1 => n > 1
      OBVIOUS
    <3>2. Len(variables) > 1
      BY <1>1, <1>5, <3>1, Zenon
    <3>3. QED
      BY <1>1, <1>2, <3>2, PopTableEffect
  <2> DEFINE K == Len(variables')
  <2>K. /\ 1 \in 1..K
        /\ \A i \in 1..K : i \in 1..Len(variables) /\ variables'[i] = variables[i]
    BY <1>1, <1>5, <2>1
  <2> HIDE DEF K
  <2>2. /\ Len(outside') = Len(variables) - 2
        /\ \A i \in 1..Len(variables) - 2 : outside'[i] = outside[i]
    <3>1. \A i \in 1..Len(outside) - 1 :
            outside[i] \in [Names -> Variable \cup {NoVariable}]
      BY <1>1, ElementOfSeq
    <3>2. QED
      BY <1>1, <1>2, <1>5, <3>1, SubSeqProperties
  <2>3. NumbersGrow'
    BY <1>2, <2>K, Zenon DEF RegisterInvariant, NumbersGrow, K
  <2>4. FunctionTableIsSecond'
    BY <1>2, <2>K, Zenon DEF RegisterInvariant, FunctionTableIsSecond, K
  <2>5. OpenTablesHoldTheirs'
    BY <1>2, <2>K, Zenon DEF RegisterInvariant, OpenTablesHoldTheirs, K
  <2>6. OuterIsOlder'
    <3>1. \A i \in 1..K, n \in Names :
            Holds(variables'[i], n) =>
              /\ variables'[i].vars[n].name = n
              /\ variables'[i].vars[n].born < born'
      BY <1>2, <2>K DEF RegisterInvariant, OuterIsOlder
    <3>2. \A i, j \in 1..K, m, n \in Names :
            i < j /\ Holds(variables'[i], m) /\ Holds(variables'[j], n) =>
              variables'[i].vars[m].born < variables'[j].vars[n].born
      BY <2>K DEF RegisterInvariant, OuterIsOlder
    <3>3. QED
      BY <3>1, <3>2, Zenon DEF OuterIsOlder, Holds, K
  <2>7. OutsidePairsTables'
    BY <1>1, <2>1, <2>2 DEF OutsidePairsTables
  <2>8. OuterMeaningKept'
    <3>1. SUFFICES ASSUME NEW i \in 1..Len(variables) - 2, NEW n \in Names
                   PROVE  Find(SubSeq(variables', 1, i), n) = outside'[i][n]
      <4>1. 1..Len(variables') - 1 = 1..Len(variables) - 2
        BY <1>1, <2>1
      <4>2. QED
        BY <3>1, <4>1, Zenon DEF OuterMeaningKept
    <3>2. SubSeq(variables', 1, i) = SubSeq(variables, 1, i)
      BY <1>1, <2>1, PrefixesAgree
    <3>3. i \in 1..Len(variables) - 1
      BY <1>1
    <3>4. QED
      BY <2>2, <3>2, <3>3, Zenon DEF RegisterInvariant, OuterMeaningKept
  <2>9. QED
    BY <1>3, <2>3, <2>4, <2>5, <2>6, <2>7, <2>8 DEF RegisterInvariant
<1>6. QED
  BY <1>4, <1>5

LEMMA DeclareVariableStep ==
  ASSUME RegisterInvariant, NEW name \in Names, DeclareVariable(name), TypeOK'
  PROVE  RegisterInvariant'
<1> DEFINE v == NewVariable(Top(variables), name, 0, born)
           L == Len(variables)
<1>1. /\ variables \in Seq(Table) /\ L \in Nat /\ L > 0
      /\ Top(variables) = variables[L]
      /\ variables_table_counter \in Nat /\ born \in Nat
      /\ declared \subseteq Identities
  BY DEF RegisterInvariant, TypeOK, Top
<1>2. /\ ~Holds(Top(variables), name)
      /\ variables' = AddVariable(variables, name, 0, born)
      /\ born' = born + 1
      /\ declared' = declared \cup {Identity(v)}
      /\ redeclared' = redeclared \cup (declared \cap {Identity(v)})
      /\ UNCHANGED <<variables_table_counter, functions, outside>>
  BY DEF DeclareVariable, Remember
<1>3. /\ variables' \in Seq(Table) /\ Len(variables') = L
      /\ v \in Variable /\ v # NoVariable
      /\ \A i \in 1..L :
           /\ variables'[i].id = variables[i].id
           /\ variables'[i].alias = variables[i].alias
           /\ i # L => variables'[i] = variables[i]
      /\ \A i \in 1..L, n \in Names :
           variables'[i].vars[n] = IF i = L /\ n = name
                                   THEN v ELSE variables[i].vars[n]
  BY <1>1, <1>2, AddVariableEffect
<1>4. /\ v.name = name /\ v.born = born
      /\ LET id == Identity(v)
         IN  /\ id \in Identities
             /\ id.alias = variables[L].alias /\ id.param = 0 /\ id.name = name
             /\ id.depth = IF id.alias = NoName THEN variables[L].id ELSE 0
  BY <1>1, <1>3, IdentityType DEF NewVariable, Identity
<1>5. \A i \in 1..L, n \in Names :
        Holds(variables'[i], n) <=> Holds(variables[i], n) \/ (i = L /\ n = name)
  BY <1>3 DEF Holds
<1>6. \A i \in 1..L : variables[i].id \in Nat
  <2>1. \A table \in Table : table.id \in Nat
    BY DEF Table
  <2>2. QED
    BY <1>1, <2>1, ElementOfSeq, Zenon
<1> HIDE DEF v, L
<1>7. NumbersGrow'
  BY <1>1, <1>2, <1>3 DEF RegisterInvariant, NumbersGrow, L
<1>8. FunctionTableIsSecond'
  BY <1>1, <1>2, <1>3 DEF RegisterInvariant, FunctionTableIsSecond, L
<1>9. IdentitiesAreOld'
  BY <1>1, <1>2, <1>4
  DEF RegisterInvariant, IdentitiesAreOld, NumbersGrow, FunctionTableIsSecond, L
<1>10. OpenTablesHoldTheirs'
  <2>1. ASSUME NEW i \in 1..L, NEW id \in declared',
               variables'[i].id # 0, Owns(variables'[i], id)
        PROVE  Holds(variables'[i], id.name)
    <3>1. variables[i].id # 0 /\ Owns(variables[i], id)
      BY <1>3, <2>1 DEF Owns
    <3>2. id \in Identities /\ id.name \in Names
      BY <1>1, <1>2, <1>4, <3>1 DEF Owns, Identities
    <3>3. CASE id \in declared
      BY <1>5, <3>1, <3>2, <3>3 DEF RegisterInvariant, OpenTablesHoldTheirs, L
    <3>4. CASE id = Identity(v)
      <4>1. i = L
        BY <1>1, <1>4, <1>6, <3>1, <3>4
        DEF RegisterInvariant, NumbersGrow, FunctionTableIsSecond, Owns, L
      <4>2. QED
        BY <1>4, <1>5, <3>4, <4>1
    <3>5. QED
      BY <1>2, <3>3, <3>4
  <2>2. QED
    BY <1>3, <2>1 DEF OpenTablesHoldTheirs
<1>11. NoIdentityReuse'
  <2>1. CASE variables[L].id = 0
    <3>1. L = 1
      <4>1. 1 \in 1..L /\ L \in 1..L /\ (L # 1 => 1 < L)
        BY <1>1
      <4>2. L # 1 => variables[1].id < variables[L].id
        BY <4>1 DEF RegisterInvariant, NumbersGrow, L
      <4>3. variables[1].id = 0
        BY DEF RegisterInvariant, NumbersGrow
      <4>4. QED
        BY <2>1, <4>2, <4>3
    <3>2. Identity(v).depth = 0 /\ Identity(v).alias = NoName
      BY <1>4, <2>1, <3>1 DEF RegisterInvariant, NumbersGrow
    <3>3. QED
      BY <1>2, <3>2 DEF RegisterInvariant, NoIdentityReuse
  <2>2. CASE variables[L].id # 0
    <3>1. Owns(variables[L], Identity(v))
      BY <1>4, NamesAssumption DEF Owns
    <3>2. Identity(v) \notin declared
      BY <1>1, <1>2, <1>4, <2>2, <3>1
      DEF RegisterInvariant, OpenTablesHoldTheirs, L
    <3>3. QED
      BY <1>2, <3>2 DEF RegisterInvariant, NoIdentityReuse
  <2>3. QED
    BY <2>1, <2>2
<1>12. OuterIsOlder'
  <2>1. \A i \in 1..L, n \in Names :
          Holds(variables[i], n) => variables[i].vars[n].born \in Nat
    <3>1. \A table \in Table, n \in Names :
            Holds(table, n) => table.vars[n].born \in Nat
      BY DEF Table, Holds, Variable
    <3>2. QED
      BY <1>1, <3>1, ElementOfSeq, Zenon DEF L
  <2>2. ASSUME NEW i \in 1..L, NEW n \in Names, Holds(variables'[i], n)
        PROVE  /\ variables'[i].vars[n].name = n
               /\ variables'[i].vars[n].born < born'
    <3>1. CASE i = L /\ n = name
      BY <1>1, <1>2, <1>3, <1>4, <3>1
    <3>2. CASE ~(i = L /\ n = name)
      <4>1. Holds(variables[i], n) /\ variables'[i].vars[n] = variables[i].vars[n]
        BY <1>3, <1>5, <2>2, <3>2
      <4>2. /\ variables[i].vars[n].name = n
            /\ variables[i].vars[n].born < born
        BY <4>1 DEF RegisterInvariant, OuterIsOlder, L
      <4>3. variables[i].vars[n].born \in Nat
        BY <2>1, <4>1
      <4>4. \A b \in Nat : b < born => b < born'
        BY <1>1, <1>2
      <4>5. QED
        BY <4>1, <4>2, <4>3, <4>4, Zenon
    <3>3. QED
      BY <3>1, <3>2
  <2>3. ASSUME NEW i \in 1..L, NEW j \in 1..L, NEW m \in Names, NEW n \in Names,
               i < j, Holds(variables'[i], m), Holds(variables'[j], n)
        PROVE  variables'[i].vars[m].born < variables'[j].vars[n].born
    <3>1. i # L
      BY <1>1, <2>3
    <3>2. Holds(variables[i], m) /\ variables'[i].vars[m] = variables[i].vars[m]
      BY <1>3, <1>5, <2>3, <3>1
    <3>3. CASE j = L /\ n = name
      <4>1. variables[i].vars[m].born < born
        BY <3>2 DEF RegisterInvariant, OuterIsOlder, L
      <4>2. QED
        BY <1>3, <1>4, <3>2, <3>3, <4>1
    <3>4. CASE ~(j = L /\ n = name)
      <4>1. Holds(variables[j], n) /\ variables'[j].vars[n] = variables[j].vars[n]
        BY <1>3, <1>5, <2>3, <3>4
      <4>2. QED
        BY <2>3, <3>2, <4>1 DEF RegisterInvariant, OuterIsOlder, L
    <3>5. QED
      BY <3>3, <3>4
  <2>4. QED
    BY <1>3, <2>2, <2>3 DEF OuterIsOlder, L
<1>13. OutsidePairsTables'
  BY <1>2, <1>3 DEF RegisterInvariant, OutsidePairsTables, L
<1>14. OuterMeaningKept'
  <2>1. SUFFICES ASSUME NEW i \in 1..L - 1, NEW n \in Names
                 PROVE  Find(SubSeq(variables', 1, i), n) = outside[i][n]
    BY <1>2, <1>3, Zenon DEF OuterMeaningKept
  <2>2. SubSeq(variables', 1, i) = SubSeq(variables, 1, i)
    BY <1>1, <1>3, PrefixesAgree DEF L
  <2>3. QED
    BY <2>2, Zenon DEF RegisterInvariant, OuterMeaningKept, L
<1>15. QED
  BY <1>7, <1>8, <1>9, <1>10, <1>11, <1>12, <1>13, <1>14 DEF RegisterInvariant

LEMMA DeclareFunctionStep ==
  ASSUME RegisterInvariant, NEW f \in Names, DeclareFunction(f), TypeOK'
  PROVE  RegisterInvariant'
<1>1. /\ functions[f] # "defined"
      /\ functions' = [functions EXCEPT ![f] = "declared"]
      /\ UNCHANGED <<variables, variables_table_counter,
                     born, declared, redeclared, outside>>
      /\ functions \in [Names -> {"none", "declared", "defined"}]
  BY DEF DeclareFunction, RegisterInvariant, TypeOK
<1>2. \A n \in Names : functions[n] = "defined" => functions'[n] = "defined"
  BY <1>1
<1>3. \A i \in 1..Len(variables) : variables[i].alias \in Names \cup {NoName}
  <2>1. \A table \in Table : table.alias \in Names \cup {NoName}
    BY DEF Table
  <2>2. QED
    BY <2>1, ElementOfSeq, Zenon DEF RegisterInvariant, TypeOK
<1>4. FunctionTableIsSecond'
  BY <1>1, <1>2, <1>3 DEF RegisterInvariant, FunctionTableIsSecond
<1>5. IdentitiesAreOld'
  BY <1>1, <1>2
  DEF RegisterInvariant, TypeOK, IdentitiesAreOld, Identities
<1>6. NumbersGrow' /\ OpenTablesHoldTheirs' /\ NoIdentityReuse'
  BY <1>1 DEF RegisterInvariant, NumbersGrow, OpenTablesHoldTheirs,
              NoIdentityReuse
<1>7. OuterIsOlder' /\ OutsidePairsTables' /\ OuterMeaningKept'
  BY <1>1 DEF RegisterInvariant, OuterIsOlder, OutsidePairsTables,
              OuterMeaningKept
<1>8. QED
  BY <1>4, <1>5, <1>6, <1>7 DEF RegisterInvariant

LEMMA FunctionStartStep ==
  ASSUME RegisterInvariant, NEW f \in Names, NEW params \in ParameterLists,
         FunctionStart(f, params), TypeOK'
  PROVE  RegisterInvariant'
<1> DEFINE id == variables_table_counter + 1
           t == FunctionTable(id, f, params, born)
           new == ParameterIdentities(id, f, params)
<1>1. /\ variables \in Seq(Table) /\ Len(variables) = 1
      /\ variables_table_counter \in Nat /\ id \in Nat /\ born \in Nat
      /\ declared \subseteq Identities
      /\ functions \in [Names -> {"none", "declared", "defined"}]
      /\ params \in Seq(Names)
  BY ParameterListsAssumption DEF RegisterInvariant, TypeOK, FunctionStart
<1>2. /\ functions[f] # "defined"
      /\ variables' = Append(variables, t)
      /\ variables_table_counter' = variables_table_counter + 1
      /\ outside' = Append(outside, Meaning)
      /\ functions' = [functions EXCEPT ![f] = "defined"]
      /\ born' = born + 1
      /\ declared' = declared \cup new
      /\ redeclared' = redeclared \cup (declared \cap new)
  BY DEF FunctionStart, Remember
<1>3. /\ t \in Table /\ t.id = id /\ t.alias = f
      /\ \A n \in Names :
           t.vars[n] = IF n \in ParameterNames(params)
                       THEN Parameter(id, f, params, n, born) ELSE NoVariable
  <2> HIDE DEF new
  <2>1. id \in Nat /\ params \in Seq(Names) /\ born \in Nat
    BY <1>1
  <2> HIDE DEF id
  <2>2. /\ FunctionTable(id, f, params, born) \in Table
        /\ FunctionTable(id, f, params, born).id = id
        /\ FunctionTable(id, f, params, born).alias = f
    <3> HIDE DEF t
    <3>1. QED
      BY <2>1, FunctionTableType
  <2>3. \A n \in Names :
          FunctionTable(id, f, params, born).vars[n] =
            IF n \in ParameterNames(params)
            THEN Parameter(id, f, params, n, born) ELSE NoVariable
    <3> HIDE DEF t
    <3>1. QED
      BY <2>1, FunctionTableType
  <2>4. QED
    BY <2>2, <2>3, Zenon DEF t
<1>4. /\ new \subseteq Identities
      /\ \A i \in new : i.alias = f /\ i.param # 0
  BY <1>1, ParameterIdentitiesType
<1>5. \A n \in Names :
        Holds(t, n) => t.vars[n].name = n /\ t.vars[n].born = born
  <2>1. \A n \in Names : LET p == Parameter(id, f, params, n, born)
                         IN  p.name = n /\ p.born = born
    BY DEF Parameter, NewVariable
  <2> HIDE DEF t
  <2>2. QED
    BY <1>3, <2>1 DEF Holds
<1> HIDE DEF t, new
<1>6. NumbersGrow' /\ OutsidePairsTables' /\ OuterMeaningKept'
  BY <1>2, <1>3, PushKeeps
<1>7. /\ Len(variables') = 2
      /\ variables'[1] = variables[1] /\ variables'[2] = t
      /\ variables[1].id = 0 /\ variables[1].alias = NoName
      /\ 1..Len(variables') = {1, 2} /\ 1..Len(variables) = {1}
  <2>1. /\ Len(variables') = 2
        /\ variables'[1] = variables[1] /\ variables'[2] = t
    <3>1. 1 \in 1..Len(variables) /\ Len(variables) + 1 = 2
      BY <1>1
    <3>2. variables \in Seq(Table) /\ t \in Table
      BY <1>1, <1>3
    <3>3. /\ Len(Append(variables, t)) = Len(variables) + 1
          /\ \A i \in 1..Len(variables) : Append(variables, t)[i] = variables[i]
          /\ Append(variables, t)[Len(variables) + 1] = t
      BY <3>2, AppendEffect
    <3>4. QED
      BY <1>2, <3>1, <3>3
  <2>2. 1..Len(variables') = {1, 2} /\ 1..Len(variables) = {1}
    BY <1>1, <2>1
  <2>3. QED
    BY <2>1, <2>2 DEF RegisterInvariant, NumbersGrow
<1>8. FunctionTableIsSecond'
  BY <1>1, <1>2, <1>3, <1>7 DEF FunctionTableIsSecond
<1>9. \A i \in declared : i.alias # f
  BY <1>1, <1>2, NamesAssumption
  DEF RegisterInvariant, IdentitiesAreOld, Identities
<1>10. IdentitiesAreOld'
  BY <1>1, <1>2, <1>4, <1>9, NamesAssumption
  DEF RegisterInvariant, IdentitiesAreOld, Identities
<1>11. OpenTablesHoldTheirs'
  <2>1. ASSUME NEW i \in declared' PROVE ~Owns(t, i)
    BY <1>2, <1>3, <1>4, <1>9, <2>1 DEF Owns
  <2>2. QED
    BY <1>7, <2>1 DEF OpenTablesHoldTheirs
<1>12. NoIdentityReuse'
  BY <1>2, <1>4, <1>9 DEF RegisterInvariant, NoIdentityReuse
<1>13. OuterIsOlder'
  <2>1. \A n \in Names :
          Holds(variables[1], n) =>
            variables[1].vars[n].born \in Nat
    <3>1. \A table \in Table, n \in Names :
            Holds(table, n) => table.vars[n].born \in Nat
      BY DEF Table, Holds, Variable
    <3>2. variables[1] \in Table
      BY <1>1, <1>7, ElementOfSeq
    <3>3. QED
      BY <3>1, <3>2
  <2>2. \A n \in Names :
          Holds(variables[1], n) =>
            /\ variables[1].vars[n].name = n
            /\ variables[1].vars[n].born < born
    BY <1>7 DEF RegisterInvariant, OuterIsOlder
  <2>3. QED
    BY <1>1, <1>2, <1>5, <1>7, <2>1, <2>2 DEF OuterIsOlder
<1>14. QED
  BY <1>6, <1>8, <1>10, <1>11, <1>12, <1>13 DEF RegisterInvariant

LEMMA InvariantInit == Init => RegisterInvariant
<1> SUFFICES ASSUME Init PROVE RegisterInvariant
  OBVIOUS
<1> DEFINE t == EmptyTable(0, NoName)
<1>1. t.id = 0 /\ t.alias = NoName /\ \A n \in Names : ~Holds(t, n)
  BY DEF EmptyTable, Holds
<1>2. /\ variables = <<t>> /\ variables_table_counter = 0
      /\ declared = {} /\ redeclared = {} /\ outside = << >>
  BY DEF Init
<1> HIDE DEF t
<1>3. NumbersGrow /\ FunctionTableIsSecond /\ IdentitiesAreOld
  BY <1>1, <1>2 DEF NumbersGrow, FunctionTableIsSecond, IdentitiesAreOld
<1>4. OpenTablesHoldTheirs /\ NoIdentityReuse /\ OuterIsOlder
  BY <1>1, <1>2 DEF OpenTablesHoldTheirs, NoIdentityReuse, OuterIsOlder
<1>5. OutsidePairsTables /\ OuterMeaningKept
  BY <1>2 DEF OutsidePairsTables, OuterMeaningKept
<1>6. QED
  BY <1>3, <1>4, <1>5, TypeInit DEF RegisterInvariant

LEMMA InvariantStep == RegisterInvariant /\ [Next]_vars => RegisterInvariant'
<1> SUFFICES ASSUME RegisterInvariant, [Next]_vars PROVE RegisterInvariant'
  OBVIOUS
<1>1. TypeOK'
  BY TypeStep DEF RegisterInvariant
<1>2. CASE PushVariablesTable
  BY <1>1, <1>2, PushVariablesTableStep
<1>3. CASE PopVariablesTable
  BY <1>1, <1>3, PopVariablesTableStep
<1>4. CASE \E name \in Names : DeclareVariable(name)
  BY <1>1, <1>4, DeclareVariableStep
<1>5. CASE \E f \in Names : DeclareFunction(f)
  BY <1>1, <1>5, DeclareFunctionStep
<1>6. CASE \E f \in Names, params \in ParameterLists : FunctionStart(f, params)
  BY <1>1, <1>6, FunctionStartStep
<1>7. CASE UNCHANGED vars
  BY <1>7
  DEF vars, RegisterInvariant, TypeOK, NumbersGrow, FunctionTableIsSecond,
      IdentitiesAreOld, OpenTablesHoldTheirs, NoIdentityReuse, OuterIsOlder,
      OutsidePairsTables, OuterMeaningKept
<1>8. QED
  BY <1>2, <1>3, <1>4, <1>5, <1>6, <1>7 DEF Next

\* What the register keeps of its tables and identities, whatever declarations
\* and blocks the parser reads.
THEOREM RegisterInvariantHolds == Spec => []RegisterInvariant
BY InvariantInit, InvariantStep, PTL DEF Spec

\* Two variables of a program are never the same variable of the target
\* program (symbol_register_new_variable, symbol_variable_cmp).
THEOREM IdentitiesAreNotReused == Spec => []NoIdentityReuse
<1>1. RegisterInvariant => NoIdentityReuse
  BY DEF RegisterInvariant
<1>2. QED
  BY <1>1, RegisterInvariantHolds, PTL

\* A popped block leaves every name with the meaning it had before the block
\* (symbol_register_pop_variables_table).
THEOREM BlocksLeaveNothingBehind == Spec => []OuterMeaningKept
<1>1. RegisterInvariant => OuterMeaningKept
  BY DEF RegisterInvariant
<1>2. QED
  BY <1>1, RegisterInvariantHolds, PTL

(***************************************************************************)
(* The variable found is in the innermost table of those that hold the     *)
(* name, and the tables outside that one hold older variables only.        *)
(***************************************************************************)
LEMMA LiveVariables ==
  ASSUME NEW v \in Live
  PROVE  \E i \in 1..Len(variables), n \in Names :
           Holds(variables[i], n) /\ v = variables[i].vars[n]
BY DEF Live, Holds

LEMMA FoundIsYoungest ==
  ASSUME RegisterInvariant, NEW n \in Names, NEW i \in Holders(variables, n),
         \A j \in Holders(variables, n) : j <= i,
         NEW v \in Live, v.name = n
  PROVE  v.born <= variables[i].vars[n].born
<1>1. PICK j \in 1..Len(variables), m \in Names :
        Holds(variables[j], m) /\ v = variables[j].vars[m]
  BY LiveVariables
<1>2. m = n
  BY <1>1 DEF RegisterInvariant, OuterIsOlder
<1>3. j \in Holders(variables, n) /\ j <= i
  BY <1>1, <1>2 DEF Holders
<1>4. /\ i \in 1..Len(variables) /\ Holds(variables[i], n)
      /\ Len(variables) \in Nat
  BY DEF Holders, RegisterInvariant, TypeOK
<1>5. \A k \in 1..Len(variables) :
        Holds(variables[k], n) => variables[k].vars[n].born \in Nat
  <2>1. \A table \in Table :
          Holds(table, n) => table.vars[n].born \in Nat
    BY DEF Table, Holds, Variable
  <2>2. QED
    BY <2>1, ElementOfSeq, Zenon DEF RegisterInvariant, TypeOK
<1>6. CASE j = i
  BY <1>1, <1>2, <1>4, <1>5, <1>6
<1>7. CASE j # i
  <2>1. j < i
    BY <1>3, <1>4, <1>7
  <2>2. variables[j].vars[n].born < variables[i].vars[n].born
    BY <1>1, <1>2, <1>4, <2>1 DEF RegisterInvariant, OuterIsOlder
  <2>3. QED
    BY <1>1, <1>2, <1>4, <1>5, <2>2
<1>8. QED
  BY <1>6, <1>7

LEMMA YoungestIsFound == RegisterInvariant => LastDeclarationWins
<1> SUFFICES ASSUME RegisterInvariant, NEW n \in Names
             PROVE  LET found == Find(variables, n)
                    IN  IF found = NoVariable
                        THEN \A v \in Live : v.name # n
                        ELSE /\ found \in Live /\ found.name = n
                             /\ \A v \in Live : v.name = n => v.born <= found.born
  BY DEF LastDeclarationWins
<1>1. variables \in Seq(Table)
  BY DEF RegisterInvariant, TypeOK
<1>2. CASE Holders(variables, n) = {}
  <2>1. ASSUME NEW v \in Live PROVE v.name # n
    <3>1. PICK i \in 1..Len(variables), m \in Names :
            Holds(variables[i], m) /\ v = variables[i].vars[m]
      BY LiveVariables
    <3>2. v.name = m
      BY <3>1 DEF RegisterInvariant, OuterIsOlder
    <3>3. QED
      BY <1>2, <3>1, <3>2 DEF Holders
  <2>2. QED
    BY <1>1, <1>2, <2>1, FindNothing
<1>3. CASE Holders(variables, n) # {}
  <2>1. PICK i \in Holders(variables, n) :
          /\ \A j \in Holders(variables, n) : j <= i
          /\ Find(variables, n) = variables[i].vars[n]
    BY <1>1, <1>3, FindInnermost
  <2>2. i \in 1..Len(variables) /\ Holds(variables[i], n)
    BY DEF Holders
  <2>3. /\ Find(variables, n) # NoVariable
        /\ Find(variables, n) \in Live
        /\ Find(variables, n).name = n
    BY <2>1, <2>2 DEF Live, Holds, RegisterInvariant, OuterIsOlder
  <2>4. \A v \in Live : v.name = n => v.born <= Find(variables, n).born
    BY <2>1, FoundIsYoungest
  <2>5. QED
    BY <2>3, <2>4
<1>4. QED
  BY <1>2, <1>3

\* A name finds the variable of that name declared last among those that exist
\* (symbol_register_find_variable_recursive).
THEOREM InnermostIsLast == Spec => []LastDeclarationWins
BY YoungestIsFound, RegisterInvariantHolds, PTL

=============================================================================
