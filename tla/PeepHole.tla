------------------------------ MODULE PeepHole ------------------------------
(***************************************************************************)
(* The peephole optimizer: patterns of consecutive instructions and what   *)
(* they are replaced by (code_optimizer.c, meta_data_peep_hole_pattern.c). *)
(*                                                                         *)
(* The operands of a pattern are aliases: a flag, which restricts what the *)
(* alias stands for, and a name.  Equal aliases stand for equal operands.  *)
(* Two aliases with different flags are different, whatever their names.   *)
(***************************************************************************)
EXTENDS OptimizerMetaData

\* The flags of extract_flag the patterns use.
AnOperand(name) == <<"any", name>>
AVariable(name) == <<"variable", name>>
ALabel(name) == <<"label", name>>
EmptyText == <<"empty string", "_">>
TrueLiteral(name) == <<"true", name>>
FalseLiteral(name) == <<"false", name>>
FirstTemp(name) == <<"temp 1", name>>
SecondTemp(name) == <<"temp 2", name>>

\* The aliases every pattern has from the beginning: "temp" and "<true".
Temp == <<"any", "temp">>
True == <<"true", "true">>

(* code_optimizer_check_operand_with_meta_type_flag                        *)
FlagMatches(flag, operand) ==
  CASE flag = "any"      -> TRUE
    [] flag = "variable" -> IsVariableOperand(operand)
    [] flag = "label"    -> operand.kind = "label"
    [] flag = "empty string" -> operand = Text(<< >>)
    [] flag = "true"     -> operand = BooleanOf(TRUE)
    [] flag = "false"    -> operand = BooleanOf(FALSE)
    [] flag = "temp 1"   -> operand = Temp1
    [] flag = "temp 2"   -> operand = Temp2

\* An instruction of a pattern; "once" is an occurrence count of 1.
Of(op, aliases) == [op |-> op, aliases |-> aliases, once |-> FALSE]
Once(op, aliases) == [op |-> op, aliases |-> aliases, once |-> TRUE]
Alone(op) == Of(op, << >>)
Pattern(match, replacement) == [match |-> match, replacement |-> replacement]

-----------------------------------------------------------------------------
\* The patterns of code_optimizer_init: an unused frame, jumps to what follows.
BasicPatterns == <<
  Pattern(<<Alone("CREATEFRAME"), Alone("PUSHFRAME"), Alone("POPFRAME")>>, << >>),
  Pattern(<<Once("JUMP", <<ALabel("a")>>), Once("LABEL", <<ALabel("a")>>)>>, << >>),
  Pattern(<<Of("JUMP", <<ALabel("a")>>), Of("LABEL", <<ALabel("a")>>)>>,
          <<Of("LABEL", <<ALabel("a")>>)>>)>>

\* An operation on two operands whose result is stored at once.
StoredOperation(op, operands) ==
  Pattern(<<Of("PUSHS", <<AnOperand("a")>>), Of("PUSHS", <<AnOperand("c")>>), Alone(OnStack(op)),
            Of("POPS", <<AVariable("b")>>)>>,
          <<Of(op, <<AVariable("b")>> \o operands)>>)

StackOperationPatterns ==
  LET binary == <<"ADD", "SUB", "MUL", "DIV", "LT", "GT", "EQ", "AND", "OR">>
  IN  [i \in 1..9 |-> StoredOperation(binary[i], <<AnOperand("a"), AnOperand("c")>>)]
        \o <<StoredOperation("NOT", <<AnOperand("a")>>)>>

\* Concatenation with an empty string.
Concatenated == <<Of("POPS", <<AVariable("c")>>),
                  Of("CONCAT", <<AVariable("b"), AVariable("c"), AVariable("b")>>),
                  Of("PUSHS", <<AVariable("b")>>)>>

EmptyConcatenationPatterns ==
  LET Pushed(operand) == Of("PUSHS", <<operand>>)
      Popped == Of("POPS", <<AVariable("b")>>)
      Moved(operand) == Of("MOVE", <<AVariable("b"), operand>>)
      Kept == <<Pushed(AnOperand("a"))>>
  IN  <<Pattern(<<Pushed(EmptyText), Pushed(AnOperand("a")), Popped>> \o Concatenated, Kept),
        Pattern(<<Pushed(EmptyText), Moved(AnOperand("a"))>> \o Concatenated, Kept),
        Pattern(<<Pushed(AnOperand("a")), Pushed(EmptyText), Popped>> \o Concatenated, Kept),
        Pattern(<<Pushed(AnOperand("a")), Moved(EmptyText)>> \o Concatenated, Kept),
        Pattern(<<Pushed(EmptyText), Popped>> \o Concatenated, << >>),
        Pattern(<<Moved(EmptyText)>> \o Concatenated, << >>)>>

\* Prints of a temporary, tautologies, doubled jumps and prints of a copy.
ShorteningPatterns == <<
  Pattern(<<Of("MOVE", <<FirstTemp("a"), AnOperand("b")>>), Of("WRITE", <<FirstTemp("a")>>)>>,
          <<Of("WRITE", <<AnOperand("b")>>)>>),
  Pattern(<<Alone("NOTS"), Alone("NOTS")>>, << >>),
  Pattern(<<Of("PUSHS", <<TrueLiteral("_")>>), Alone("ANDS")>>, << >>),
  Pattern(<<Of("PUSHS", <<TrueLiteral("_")>>), Alone("EQS")>>, << >>),
  Pattern(<<Of("PUSHS", <<AnOperand("foobar")>>), Of("PUSHS", <<AnOperand("foobar")>>),
            Alone("NOTS"), Alone("ORS")>>, <<Of("PUSHS", <<True>>)>>),
  Pattern(<<Of("PUSHS", <<FalseLiteral("_")>>), Alone("EQS")>>, <<Alone("NOTS")>>),
  Pattern(<<Of("JUMP", <<ALabel("l")>>), Of("JUMP", <<ALabel("l")>>)>>,
          <<Of("JUMP", <<ALabel("l")>>)>>),
  Pattern(<<Of("MOVE", <<AVariable("a"), AnOperand("b")>>), Of("WRITE", <<AVariable("a")>>)>>,
          <<Of("MOVE", <<AVariable("a"), AnOperand("b")>>), Of("WRITE", <<AnOperand("b")>>)>>)>>

\* A comparison that decides a jump.
Condition(instructions) ==
  <<Of("PUSHS", <<AnOperand("a")>>), Of("PUSHS", <<AnOperand("b")>>)>> \o instructions
    \o <<Of("PUSHS", <<FalseLiteral("f")>>), Of("JUMPIFEQS", <<ALabel("l")>>)>>

EqualityPattern(instructions, jump) ==
  Pattern(Condition(instructions), <<Of(jump, <<ALabel("l"), AnOperand("a"), AnOperand("b")>>)>>)

OrderPattern(instructions, comparison, jump) ==
  Pattern(Condition(instructions),
          <<Of(comparison, <<Temp, AnOperand("a"), AnOperand("b")>>),
            Of(jump, <<ALabel("l"), Temp, FalseLiteral("f")>>)>>)

ConditionPatterns == <<
  EqualityPattern(<<Alone("EQS")>>, "JUMPIFNEQ"),
  EqualityPattern(<<Alone("EQS"), Alone("NOTS")>>, "JUMPIFEQ"),
  OrderPattern(<<Alone("GTS")>>, "GT", "JUMPIFEQ"),
  OrderPattern(<<Alone("LTS")>>, "LT", "JUMPIFEQ"),
  OrderPattern(<<Alone("GTS"), Alone("NOTS")>>, "GT", "JUMPIFNEQ"),
  OrderPattern(<<Alone("LTS"), Alone("NOTS")>>, "LT", "JUMPIFNEQ"),
  Pattern(<<Of("PUSHS", <<TrueLiteral("_")>>), Of("PUSHS", <<FalseLiteral("_")>>),
            Of("JUMPIFEQS", <<ALabel("l")>>)>>, << >>),
  Pattern(<<Of("PUSHS", <<AnOperand("a")>>), Of("PUSHS", <<AnOperand("a")>>),
            Of("JUMPIFEQS", <<ALabel("l")>>)>>, <<Of("JUMP", <<ALabel("l")>>)>>)>>

(* "Skip empty else branch": the first alias is "%l" and the last "&l".    *)
EmptyElsePattern ==
  Pattern(<<Once("JUMP", <<AnOperand("%l")>>), Of("LABEL", <<AnOperand("%k")>>),
            Once("LABEL", <<ALabel("l")>>)>>, <<Of("LABEL", <<AnOperand("%k")>>)>>)

\* A value pushed and popped, a move overwritten by a move.
PushPop ==
  Pattern(<<Of("PUSHS", <<AnOperand("a")>>), Of("POPS", <<AVariable("b")>>)>>,
          <<Of("MOVE", <<AVariable("b"), AnOperand("a")>>)>>)
OverwrittenMove ==
  Pattern(<<Of("MOVE", <<AVariable("a"), AnOperand("b")>>), Of("MOVE", <<AVariable("a"), AnOperand("c")>>)>>,
          <<Of("MOVE", <<AVariable("a"), AnOperand("c")>>)>>)

MovePatterns == <<
  PushPop, OverwrittenMove,
  Pattern(<<Of("MOVE", <<FirstTemp("t"), AnOperand("a")>>), Of("WRITE", <<AnOperand("a")>>)>>,
          <<Of("WRITE", <<AnOperand("a")>>)>>),
  PushPop, OverwrittenMove>>

\* A concatenation over a temporary that could do without it.
ConcatenationPatterns ==
  LET Result(one, other) == <<Of("CONCAT", <<AVariable("r"), one, other>>)>>
      Through(temp, moved, one, other) ==
        Pattern(<<Of("MOVE", <<temp, moved>>)>> \o Result(one, other),
                Result(AnOperand("s1"), AnOperand("s2")))
  IN  <<Pattern(<<Of("MOVE", <<SecondTemp("t"), AnOperand("s2")>>)>>
                  \o Result(SecondTemp("t"), AnOperand("s1")), Result(AnOperand("s2"), AnOperand("s1"))),
        Through(FirstTemp("t"), AnOperand("s1"), FirstTemp("t"), AnOperand("s2")),
        Through(SecondTemp("t"), AnOperand("s1"), SecondTemp("t"), AnOperand("s2")),
        Through(FirstTemp("t"), AnOperand("s2"), AnOperand("s1"), FirstTemp("t")),
        Pattern(<<Of("CONCAT", <<FirstTemp("a"), AnOperand("b"), AnOperand("a")>>),
                  Of("MOVE", <<AnOperand("r"), FirstTemp("a")>>)>>,
                <<Of("CONCAT", <<AnOperand("r"), AnOperand("b"), AnOperand("a")>>)>>)>>

\* A push and a pop with moves between them, a push of what was just moved.
ShuffledPatterns ==
  LET Pushed == <<Of("PUSHS", <<AnOperand("a")>>)>>
      Popped == <<Of("POPS", <<AVariable("b")>>)>>
      Moved == <<Of("MOVE", <<AVariable("b"), AnOperand("a")>>)>>
      One == <<Of("MOVE", <<AnOperand("_"), AnOperand("__")>>)>>
      Two == <<Of("MOVE", <<AnOperand("_1"), AnOperand("__1")>>), Of("MOVE", <<AnOperand("_2"), AnOperand("__2")>>)>>
      Copy == Of("MOVE", <<AVariable("a"), AnOperand("b")>>)
      Copied == <<Copy, Of("PUSHS", <<AVariable("a")>>)>>
      Original == Of("PUSHS", <<AnOperand("b")>>)
  IN  <<Pattern(Pushed \o One \o Popped, Moved \o One),
        Pattern(Pushed \o Two \o Popped, Moved \o Two),
        Pattern(Copied \o <<Alone("RETURN")>>, <<Original, Alone("RETURN")>>),
        Pattern(Copied, <<Copy, Original>>)>>

(* code_optimizer_add_advance_peep_hole_patterns                           *)
AdvancedPatterns ==
  StackOperationPatterns \o EmptyConcatenationPatterns \o ShorteningPatterns
    \o ConditionPatterns \o <<EmptyElsePattern>> \o MovePatterns
    \o ConcatenationPatterns \o ShuffledPatterns

\* The patterns in use, by the operation of their first instruction.
PatternsBy(patterns) ==
  [op \in {patterns[i].match[1].op : i \in DOMAIN patterns} |->
     SelectSeq(patterns, LAMBDA pattern : pattern.match[1].op = op)]
BasicBy == PatternsBy(BasicPatterns)
AllBy == PatternsBy(BasicPatterns \o AdvancedPatterns)

-----------------------------------------------------------------------------
\* The operands of a pattern's instructions, as places.
Slots(match) == UNION {{<<i, j>> : j \in DOMAIN match[i].aliases} : i \in DOMAIN match}

OccursOnce(meta, operand) ==
  CASE IsVariableOperand(operand) -> UsesOf(meta, operand) = 1
    [] operand.kind = "label"     -> JumpsTo(meta, operand.name) = 1
    [] OTHER                      -> TRUE

(* code_optimizer_check_ph_pattern: the instructions from a place on are   *)
(* those of the pattern, and there is one operand for each alias.          *)
Matches(meta, match, code, place) ==
  LET At(i) == code[place + i - 1]
      Alias(slot) == match[slot[1]].aliases[slot[2]]
      Actual(slot) == At(slot[1]).operands[slot[2]]
  IN  /\ place + Len(match) - 1 <= Len(code)
      /\ \A i \in DOMAIN match : At(i).op = match[i].op
      /\ \A slot \in Slots(match) :
           /\ FlagMatches(Alias(slot)[1], Actual(slot))
           /\ \A other \in Slots(match) :
                Alias(other) = Alias(slot) => SameOperand(Actual(other), Actual(slot))
           /\ match[slot[1]].once => OccursOnce(meta, Actual(slot))

(* code_optimizer_new_instruction_with_mapped_operands                     *)
Replacement(pattern, code, place) ==
  LET match == pattern.match
      Bound(alias) ==
        CASE alias = Temp -> Temp6
          [] alias = True -> BooleanOf(TRUE)
          [] OTHER ->
               LET slot == CHOOSE s \in Slots(match) : match[s[1]].aliases[s[2]] = alias
               IN  code[place + slot[1] - 1].operands[slot[2]]
      New(p) == Instruction(p.op, [j \in DOMAIN p.aliases |-> Bound(p.aliases[j])])
  IN  [i \in DOMAIN pattern.replacement |-> New(pattern.replacement[i])]

\* The first pattern that matches, or 0.
PatternAt(meta, patterns, code, place) ==
  SelectInSeq(patterns, LAMBDA pattern : Matches(meta, pattern.match, code, place))

(* code_optimizer_peep_hole_optimization: what replaces a match comes      *)
(* before it and is not looked at again in this pass.                      *)
PeepHoleStep(patternsBy, code, s, place) ==
  LET op == code[place].op
      patterns == IF op \in DOMAIN patternsBy THEN patternsBy[op] ELSE << >>
      found == PatternAt(s.meta, patterns, code, place)
      pattern == patterns[found]
      new == Replacement(pattern, code, place)
      length == Len(pattern.match)
  IN  CASE s.skip > 0 -> [s EXCEPT !.skip = @ - 1]
        [] s.skip = 0 /\ found = 0 -> [s EXCEPT !.code = Append(@, code[place])]
        [] s.skip = 0 /\ found # 0 ->
             [skip |-> length - 1, code |-> s.code \o new, removed |-> TRUE,
              meta |-> RemovingAll(Walk(Adding, s.meta, new),
                                   SubSeq(code, place, place + length - 1))]

PeepHoleOptimized(patternsBy, code, meta) ==
  Walk(LAMBDA s, place : PeepHoleStep(patternsBy, code, s, place),
       [skip |-> 0, code |-> << >>, meta |-> meta, removed |-> FALSE],
       [i \in DOMAIN code |-> i])

=============================================================================
