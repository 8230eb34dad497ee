----------------------------- MODULE MCOptimizer -----------------------------
(***************************************************************************)
(* Instances of Optimizer: programs that between them reach every pass and *)
(* almost every pattern, and the programs of the findings.  A program is   *)
(* compiled by SourcePrograms, as parser.c would leave it to main.         *)
(***************************************************************************)
EXTENDS Optimizer, SourcePrograms

\* The variables of the programs.
a == Named(Variable("GF", "a"), "integer")
b == Named(Variable("GF", "b"), "integer")
d == Named(Variable("GF", "d"), "double")
s == Named(Variable("GF", "s"), "string")
t == Named(Variable("GF", "t"), "boolean")
p == Named(Variable("LF", "p"), "integer")
q == Named(Variable("LF", "q"), "integer")

I(n) == Literal(IntegerOf(n))
D(halves) == Literal(Halves(halves))
S(characters) == Literal(Text([i \in DOMAIN characters |-> Character(characters[i])]))
B(truth) == Literal(BooleanOf(truth))

Prints(e) == <<PrintOf(e)>>
\* Something to read, so that the value is not known.
Given(name) == <<Dim(name), Input(name)>>

-----------------------------------------------------------------------------
(* Dim d As Double : Input a : d = a : a = d + 2.5 : a = 3.5 : Print a     *)
(* b = 7 \ 2 : Print d / 0.5 + b                                           *)
ConvertingProgram ==
  Given(a) \o <<Dim(d), Dim(b), Assign(d, <<Reads(a)>>),
    Assign(a, <<Reads(d), D(5), Binary("add")>>), PrintOf(<<Reads(a)>>),
    Assign(a, <<D(7)>>), PrintOf(<<Reads(a), I(1), Binary("add")>>),
    Assign(b, <<I(7), I(2), Binary("int_divide")>>),
    PrintOf(<<Reads(d), D(1), Binary("divide"), Reads(b), Binary("add")>>)>>

(* s = "" + s + "x" : s += "y" : Print s + "" + s : s = "xy" and what is   *)
(* printed if s > "xa", if s = "xy" and if s = "x".                        *)
StringProgram ==
  <<Dim(s), Assign(s, <<S(<< >>), Reads(s), Binary("add"), S(<<120>>), Binary("add")>>),
    Augment("add", s, <<S(<<121>>)>>),
    PrintOf(<<Reads(s), S(<< >>), Binary("add"), Reads(s), Binary("add")>>),
    Assign(s, <<S(<<120, 121>>)>>)>>
  \o IfThen(<<Reads(s), S(<<120, 97>>), Binary("greater")>>, Prints(<<S(<<49>>)>>))
  \o IfThen(<<Reads(s), S(<<120, 121>>), Binary("equal")>>, Prints(<<I(2)>>))
  \o IfThen(<<Reads(s), S(<<120>>), Binary("equal")>>, Prints(<<I(3)>>))

(* Input a : If a > 3 Then Print 1 ElseIf a = 1 Then Print 2 ElseIf        *)
(* a <= 0 Then Print 3 Else Print a End If                                 *)
BranchingProgram ==
  Given(a)
  \o <<If(<<Reads(a), I(3), Binary("greater")>>), PrintOf(<<I(1)>>), EndThen,
       ElseIf(<<Reads(a), I(1), Binary("equal")>>), PrintOf(<<I(2)>>),
       ElseIf(<<Reads(a), I(0), Binary("lesser_or_equal")>>), PrintOf(<<I(3)>>),
       Else, PrintOf(<<Reads(a)>>), EndIf>>

(* Input a : Do While a > 0 : b = 2 : If a = b Then Print b End If         *)
(* a -= 1 : Loop : Print a                                                 *)
LoopingProgram ==
  Given(a) \o <<Dim(b)>>
  \o WhileLoop(<<Reads(a), I(0), Binary("greater")>>,
       <<Assign(b, <<I(2)>>)>>
       \o IfThen(<<Reads(a), Reads(b), Binary("equal")>>, Prints(<<Reads(b)>>))
       \o <<Augment("sub", a, <<I(1)>>)>>)
  \o Prints(<<Reads(a)>>)

(* Input a : Do While a > 0 : b = a : Do While b > 1 : Print b : b = b - 1 *)
(* Loop : a = a - 1 : Loop : Print 0                                       *)
NestedProgram ==
  Given(a) \o <<Dim(b)>>
  \o WhileLoop(<<Reads(a), I(0), Binary("greater")>>,
       <<Assign(b, <<Reads(a)>>)>>
       \o WhileLoop(<<Reads(b), I(1), Binary("greater")>>,
            <<PrintOf(<<Reads(b)>>), Assign(b, <<Reads(b), I(1), Binary("sub")>>)>>)
       \o <<Assign(a, <<Reads(a), I(1), Binary("sub")>>)>>)
  \o Prints(<<I(0)>>)

\* Input a : b = 0 : Do While b < a : Print b : b += 1 : Loop
CountingProgram ==
  Given(a) \o <<Dim(b)>>
  \o WhileLoop(<<Reads(b), Reads(a), Binary("lesser")>>,
       <<PrintOf(<<Reads(b)>>), Augment("add", b, <<I(1)>>)>>)

(* a = 2 : b = a * 3 : If b > 5 Then Print 1 End If : If b > 6 Then        *)
(* Print 2 End If : Print b : Print True                                   *)
KnownProgram ==
  <<Dim(a), Dim(b), Assign(a, <<I(2)>>), Assign(b, <<Reads(a), I(3), Binary("multiply")>>)>>
  \o IfThen(<<Reads(b), I(5), Binary("greater")>>, Prints(<<I(1)>>))
  \o IfThen(<<Reads(b), I(6), Binary("greater")>>, Prints(<<I(2)>>))
  \o <<PrintOf(<<Reads(b)>>), PrintOf(<<B(TRUE)>>)>>

(* Input a : b = 3 : Print a * (b + 2) : Print (b + 2) - a : Print -a + -2 *)
PartlyKnownProgram ==
  Given(a)
  \o <<Dim(b), Assign(b, <<I(3)>>),
       PrintOf(<<Reads(a), Reads(b), I(2), Binary("add"), Binary("multiply")>>),
       PrintOf(<<Reads(b), I(2), Binary("add"), Reads(a), Binary("sub")>>),
       PrintOf(<<Reads(a), Minus, I(2), Minus, Binary("add")>>)>>

(* Input a : t = Not Not (a = 1) : Print t And True : Print t Or Not t     *)
(* Print t = True : If Not (t = False) Then Print 4 End If                 *)
BooleanProgram ==
  Given(a)
  \o <<Dim(t), Assign(t, <<Reads(a), I(1), Binary("equal"), Not, Not>>),
       PrintOf(<<Reads(t), B(TRUE), Binary("and")>>),
       PrintOf(<<Reads(t), Reads(t), Not, Binary("or")>>),
       PrintOf(<<Reads(t), B(TRUE), Binary("equal")>>)>>
  \o IfThen(<<Reads(t), B(FALSE), Binary("equal"), Not>>, Prints(<<I(4)>>))

-----------------------------------------------------------------------------
(* Function f(p As Integer) As Integer : If p > 1 Then Return p - 1 End If *)
(* q = p + 5 : Return q : End Function                                     *)
f == FunctionOf("f", <<Parameter("p", "integer")>>, "integer")
FunctionF ==
  FunctionBody(f,
    <<Dim(q)>> \o IfThen(<<Reads(p), I(1), Binary("greater")>>,
                         <<Return(<<Reads(p), I(1), Binary("sub")>>)>>)
    \o <<Assign(q, <<Reads(p), I(5), Binary("add")>>), Return(<<Reads(q)>>)>>)

(* Function g() As Double : a = a + 1 : Return 1.5 : End Function          *)
g == FunctionOf("g", << >>, "double")
FunctionG ==
  FunctionBody(g, <<Assign(a, <<Reads(a), I(1), Binary("add")>>), Return(<<D(3)>>)>>)

\* f is called with a value, a constant, and a double that is converted.
CallingProgram ==
  FunctionF \o Given(a)
  \o <<Dim(d), Assign(d, <<Reads(a), D(1), Binary("add")>>),
       PrintOf(<<Reads(a), I(1), Binary("add"), CallOf(f)>>),
       PrintOf(<<I(2), CallOf(f)>>),
       PrintOf(<<Reads(d), CallOf(f), I(1), CallOf(f), Binary("add")>>)>>

\* What nobody needs: the function g, the call of f, the value of b.
UnusedProgram ==
  <<Shared(a)>> \o FunctionF \o FunctionG \o <<Dim(b), Input(a)>>
  \o <<Assign(b, <<Reads(a), I(1), Binary("add")>>), Assign(b, <<I(4), CallOf(f)>>),
       PrintOf(<<Reads(a)>>)>>

\* g changes the shared a, whose value is no longer known after the call.
SharedProgram ==
  <<Shared(a)>> \o FunctionG
  \o <<Dim(d), Assign(a, <<I(3)>>), PrintOf(<<Reads(a)>>), Assign(d, <<CallOf(g)>>),
       PrintOf(<<Reads(a)>>), PrintOf(<<Reads(d)>>)>>

(* Input s : Input a : Print Length(s + "x") : Print Asc(s, a + 1)         *)
(* Print Chr(a + 97.5) : Print Length("xy") + Asc("xy", 2) : Print Chr(97) *)
CharactersProgram ==
  Given(s) \o Given(a)
  \o <<PrintOf(<<Reads(s), S(<<120>>), Binary("add"), BuiltIn("length")>>),
       PrintOf(<<Reads(s), Reads(a), I(1), Binary("add"), BuiltIn("asc")>>),
       PrintOf(<<Reads(a), D(195), Binary("add"), BuiltIn("chr")>>),
       PrintOf(<<S(<<120, 121>>), BuiltIn("length"), S(<<120, 121>>), I(2),
                 BuiltIn("asc"), Binary("add")>>),
       PrintOf(<<I(97), BuiltIn("chr")>>)>>

(* Input s : Print SubStr(s, Length(s) - 1, 5) : Print SubStr("xyz", 2, 1) *)
EndProgram ==
  Given(s)
  \o <<PrintOf(<<Reads(s), Reads(s), BuiltIn("length"), I(1), Binary("sub"), I(5),
                 BuiltIn("substr")>>),
       PrintOf(<<S(<<120, 121, 122>>), I(2), I(1), BuiltIn("substr")>>)>>

\* Input s : If SubStr(s, 2, 1.5) = "b" Then Print Asc(s, 2) End If
PlaceProgram ==
  Given(s)
  \o IfThen(<<Reads(s), I(2), D(3), BuiltIn("substr"), S(<<98>>), Binary("equal")>>,
            Prints(<<Reads(s), I(2), BuiltIn("asc")>>))

NamedPrograms ==
  (<<"conversions">> :> ConvertingProgram) @@ (<<"strings">> :> StringProgram)
  @@ (<<"branches">> :> BranchingProgram) @@ (<<"loop">> :> LoopingProgram)
  @@ (<<"nested loops">> :> NestedProgram) @@ (<<"counting">> :> CountingProgram)
  @@ (<<"known">> :> KnownProgram)
  @@ (<<"partly known">> :> PartlyKnownProgram) @@ (<<"booleans">> :> BooleanProgram)
  @@ (<<"calls">> :> CallingProgram) @@ (<<"unused">> :> UnusedProgram)
  @@ (<<"shared">> :> SharedProgram) @@ (<<"characters">> :> CharactersProgram)
  @@ (<<"end">> :> EndProgram) @@ (<<"place">> :> PlaceProgram)

-----------------------------------------------------------------------------
(* Every operation on every pair of a constant and a variable of each type *)
(* of number, printed or deciding a branch.                                *)
Numbers == ("3" :> I(3)) @@ ("2.5" :> D(5)) @@ ("a" :> Reads(a)) @@ ("d" :> Reads(d))
Calculations == {"add", "multiply"}
Conditions == {"greater", "lesser_or_equal"}

OperationProgram(name) ==
  LET e == <<Numbers[name[1]], Numbers[name[3]], Binary(name[2])>>
  IN  Given(a) \o <<Dim(d), Assign(d, <<Reads(a), D(2), Binary("divide")>>)>>
      \o IF name[2] \in Conditions THEN IfThen(e, Prints(<<Reads(a)>>)) ELSE Prints(e)

OperationPrograms ==
  [name \in (DOMAIN Numbers) \X (Calculations \cup Conditions) \X (DOMAIN Numbers) |->
     OperationProgram(name)]

Compilation(programs) == [name \in DOMAIN programs |-> ProgramCode(programs[name])]
Meaning(programs) ==
  [name \in DOMAIN programs |-> ProgramCode(UnfoldedProgram(programs[name]))]
MCPrograms == NamedPrograms @@ OperationPrograms
MCParsed == Compilation(MCPrograms)
MCMeant == Meaning(MCPrograms)
MCInputs == {<<0>>, <<1, 2>>, <<3>>}
MCMaxRounds == 12

-----------------------------------------------------------------------------
(* The programs of the findings.                                           *)

\* Do While a > 0 : a = a - 1 : Print a : Loop, then the same for b.
CountedDown(name) ==
  WhileLoop(<<Reads(name), I(0), Binary("greater")>>,
    <<Assign(name, <<Reads(name), I(1), Binary("sub")>>), PrintOf(<<Reads(name)>>)>>)
ConsecutiveLoopsProgram == Given(a) \o Given(b) \o CountedDown(a) \o CountedDown(b)

\* b = 1 : If a > b + 1 Then Print a End If : Print a, once a is given.
PartlyKnownConditionProgram ==
  Given(a) \o <<Dim(b), Assign(b, <<I(1)>>)>>
  \o IfThen(<<Reads(a), Reads(b), I(1), Binary("add"), Binary("greater")>>,
            Prints(<<Reads(a)>>))
  \o Prints(<<Reads(a)>>)

\* a = 1 : Input b : If b > 2 Then Print b Else a = 2 End If : Print a
JoinProgram ==
  <<Dim(a), Assign(a, <<I(1)>>)>> \o Given(b)
  \o IfElse(<<Reads(b), I(2), Binary("greater")>>, Prints(<<Reads(b)>>),
            <<Assign(a, <<I(2)>>)>>)
  \o Prints(<<Reads(a)>>)

\* Input b : If b > 1 Then Print 1 End If : Input a : Print a : a = 5
LastAssignmentProgram ==
  Given(b) \o IfThen(<<Reads(b), I(1), Binary("greater")>>, Prints(<<I(1)>>))
  \o Given(a) \o Prints(<<Reads(a)>>) \o <<Assign(a, <<I(5)>>)>>

\* h prints and returns 3, k returns h(), m drops h() and returns 5.
h == FunctionOf("h", << >>, "integer")
k == FunctionOf("k", << >>, "integer")
m == FunctionOf("m", << >>, "integer")
FunctionH == FunctionBody(h, Prints(<<S(<<120>>)>>) \o <<Return(<<I(3)>>)>>)
FunctionK == FunctionBody(k, <<Return(<<CallOf(h)>>)>>)
FunctionM == FunctionBody(m, <<Dim(q), Assign(q, <<CallOf(h)>>), Return(<<I(5)>>)>>)

\* Print 1 + m(), and a = k() : Print 1, with a used nowhere else.
DroppedResultProgram ==
  FunctionH \o FunctionM \o Prints(<<I(1), CallOf(m), Binary("add")>>)
DroppedCallProgram ==
  FunctionH \o FunctionK \o <<Dim(a), Assign(a, <<CallOf(k)>>)>> \o Prints(<<I(1)>>)

\* Shared a : a = 1 : b = r() : a = 2 : b = r() : Print b, where r prints a.
r == FunctionOf("r", << >>, "integer")
OverwrittenProgram ==
  <<Shared(a)>> \o FunctionBody(r, Prints(<<Reads(a)>>) \o <<Return(<<I(1)>>)>>)
  \o <<Dim(b), Assign(a, <<I(1)>>), Assign(b, <<CallOf(r)>>), Assign(a, <<I(2)>>),
       Assign(b, <<CallOf(r)>>), PrintOf(<<Reads(b)>>)>>

\* Shared a : a = 1 : d = o() : Print a : Print d, where o returns g().
o == FunctionOf("o", << >>, "double")
IndirectProgram ==
  <<Shared(a)>> \o FunctionG \o FunctionBody(o, <<Return(<<CallOf(g)>>)>>)
  \o <<Dim(d), Assign(a, <<I(1)>>), Assign(d, <<CallOf(o)>>), PrintOf(<<Reads(a)>>),
       PrintOf(<<Reads(d)>>)>>

\* a = 1 : Do While True : Print a : a = a + 1 : Loop, a loop of one block.
EndlessLoopProgram ==
  <<Dim(a), Assign(a, <<I(1)>>)>>
  \o WhileLoop(<<B(TRUE)>>,
       <<PrintOf(<<Reads(a)>>), Assign(a, <<Reads(a), I(1), Binary("add")>>)>>)

\* If "a" < "b" Then Print 1 End If, an order the parser folds.
OrderProgram == IfThen(<<S(<<97>>), S(<<98>>), Binary("lesser")>>, Prints(<<I(1)>>))

\* A run with -continue shows every one of them.
ChangedPrograms ==
  (<<"consecutive loops">> :> ConsecutiveLoopsProgram)
  @@ (<<"partly known condition">> :> PartlyKnownConditionProgram)
  @@ (<<"join">> :> JoinProgram) @@ (<<"last assignment">> :> LastAssignmentProgram)
  @@ (<<"overwritten">> :> OverwrittenProgram) @@ (<<"indirect">> :> IndirectProgram)
  @@ (<<"endless loop">> :> EndlessLoopProgram)
  @@ (<<"dropped result">> :> DroppedResultProgram)
  @@ (<<"dropped call">> :> DroppedCallProgram) @@ (<<"order">> :> OrderProgram)
ChangedParsed == Compilation(ChangedPrograms)
ChangedMeant == Meaning(ChangedPrograms)

\* Input a : a = a : Print a
EndlessPrograms ==
  <<"itself">> :> (Given(a) \o <<Assign(a, <<Reads(a)>>)>> \o Prints(<<Reads(a)>>))
EndlessParsed == Compilation(EndlessPrograms)
EndlessMeant == Meaning(EndlessPrograms)

=============================================================================
