--------------------------- MODULE CodeGenerator ---------------------------
(***************************************************************************)
(* The lists of instructions of code_generator.c, as the pointers they are *)
(* made of.  main and buffer, which the code does not have, follow what    *)
(* the callers asked for in the words of InstructionLists: each action is  *)
(* a request there together with what the code does to the pointers.       *)
(*                                                                         *)
(* An address is free or holds an instruction of one list; a new one comes *)
(* from code_instruction_init with both its pointers NULL, and memory that *)
(* was released may be handed out again.                                   *)
(***************************************************************************)
EXTENDS Integers, SequencesExt

CONSTANTS
  Instructions,  \* the addresses instructions can have
  NULL

ASSUME NullAssumption == NULL \notin Instructions
ASSUME InstructionsAssumption == IsFiniteSet(Instructions)

VARIABLES
  first, last,                \* CodeGenerator.first, .last
  buffer_first, buffer_last,  \* CodeGenerator.buffer_first, .buffer_last
  to_buffer,                  \* CodeGenerator.to_buffer
  next, prev,                 \* CodeInstruction.next, .prev
  main, buffer                \* history: what the lists should hold

ends == <<first, last, buffer_first, buffer_last>>
vars == <<ends, to_buffer, next, prev, main, buffer>>

Pointer == Instructions \cup {NULL}

\* What was asked for, and what there is: the lists one meets going along next.
Asked == INSTANCE InstructionLists

Walk(start) ==
  LET count == Cardinality(Instructions)
      after(i) == IF i = NULL THEN NULL ELSE next[i]
      path[n \in 1..count] == IF n = 1 THEN start ELSE after(path[n - 1])
  IN  [n \in {k \in 1..count : path[k] # NULL} |-> path[n]]

Kept == INSTANCE InstructionLists
          WITH main <- Walk(first), buffer <- Walk(buffer_first)

-----------------------------------------------------------------------------
\* pointer->field = value, where a NULL pointer was excluded before.
Assign(field, pointer, value) ==
  [i \in Instructions |-> IF i = pointer THEN value ELSE field[i]]

(* code_generator_init, code_instruction_init *)
Init ==
  /\ first = NULL /\ last = NULL
  /\ buffer_first = NULL /\ buffer_last = NULL
  /\ next = [i \in Instructions |-> NULL]
  /\ prev = [i \in Instructions |-> NULL]
  /\ Asked!Init

(* code_generator_append_instruction *)
AppendInstruction(i) ==
  /\ Asked!AppendInstruction(i)
  /\ LET end == IF to_buffer THEN buffer_last ELSE last
     IN  /\ next' = Assign(Assign(next, i, NULL), end, i)
         /\ prev' = Assign(prev, i, end)
  /\ IF to_buffer
     THEN /\ buffer_last' = i
          /\ buffer_first' = IF buffer_last = NULL THEN i ELSE buffer_first
          /\ UNCHANGED <<first, last>>
     ELSE /\ last' = i
          /\ first' = IF last = NULL THEN i ELSE first
          /\ UNCHANGED <<buffer_first, buffer_last>>

\* Wrong on purpose (a mutant of TakeOut): the way back is not repaired.
TakeOutOneWay(i) ==
  /\ next' = Assign(Assign(next, prev[i], next[i]), i, NULL)
  /\ prev' = Assign(prev, i, NULL)

\* The neighbours of i meet, and its memory is free for the next instruction.
TakeOut(i) ==
  /\ next' = Assign(Assign(next, prev[i], next[i]), i, NULL)
  /\ prev' = Assign(Assign(prev, next[i], prev[i]), i, NULL)

(* code_generator_remove_instruction: it is the list being written whose   *)
(* ends are looked at, whichever list i is in.                             *)
RemoveInstruction(at) ==
  /\ Asked!RemoveInstruction(at)
  /\ LET i == (IF to_buffer THEN buffer ELSE main)[at]
         FirstWithout(end) == IF end = i THEN next[i] ELSE end
         LastWithout(end) == IF end = i THEN prev[i] ELSE end
     IN  /\ TakeOut(i)
         /\ IF to_buffer
            THEN /\ buffer_first' = FirstWithout(buffer_first)
                 /\ buffer_last' = LastWithout(buffer_last)
                 /\ UNCHANGED <<first, last>>
            ELSE /\ first' = FirstWithout(first)
                 /\ last' = LastWithout(last)
                 /\ UNCHANGED <<buffer_first, buffer_last>>

\* An instruction that has a neighbour is in a list already: nothing is done.
IsLinked(i) == next[i] # NULL \/ prev[i] # NULL

(* code_generator_insert_instruction_before, before_what is NULL *)
InsertAtStart(i) ==
  /\ Asked!InsertAtStart(i)
  /\ IF IsLinked(i)
     THEN UNCHANGED <<ends, next, prev>>
     ELSE /\ next' = Assign(next, i, first)
          /\ prev' = Assign(Assign(prev, i, NULL), first, i)
          /\ first' = i
          /\ last' = IF first = NULL THEN i ELSE last
          /\ UNCHANGED <<buffer_first, buffer_last>>

\* Wrong on purpose (a mutant of InsertBefore): the list goes on beginning where
\* it did.
InsertBeforeKeepingFirst(i, before_what) ==
  /\ next' = Assign(Assign(next, i, before_what), prev[before_what], i)
  /\ prev' = Assign(Assign(prev, i, prev[before_what]), before_what, i)
  /\ UNCHANGED ends

\* Before an instruction that has none before it is the start of the main part.
InsertBefore(i, before_what) ==
  IF IsLinked(i)
  THEN UNCHANGED <<ends, next, prev>>
  ELSE /\ next' = Assign(Assign(next, i, before_what), prev[before_what], i)
       /\ prev' = Assign(Assign(prev, i, prev[before_what]), before_what, i)
       /\ first' = IF prev[before_what] = NULL THEN i ELSE first
       /\ UNCHANGED <<last, buffer_first, buffer_last>>

(* code_generator_insert_instruction_before, in either list *)
InsertBeforeInMain(i, at) ==
  Asked!InsertBeforeInMain(i, at) /\ InsertBefore(i, main[at])

InsertBeforeInBuffer(i, at) ==
  Asked!InsertBeforeInBuffer(i, at) /\ InsertBefore(i, buffer[at])

(* code_generator_flush_buffer *)
FlushBuffer ==
  /\ Asked!FlushBuffer
  /\ IF buffer_first = NULL
     THEN UNCHANGED <<ends, next, prev>>
     ELSE /\ next' = Assign(next, last, buffer_first)
          /\ prev' = Assign(prev, buffer_first, last)
          /\ last' = buffer_last
          /\ buffer_first' = NULL /\ buffer_last' = NULL
          /\ UNCHANGED first

(* code_constructor_function_header sets to_buffer, _function_end clears it *)
WriteTo(list) ==
  /\ Asked!WriteTo(list)
  /\ UNCHANGED <<ends, next, prev>>

Next ==
  \/ \E i \in Instructions :
       \/ AppendInstruction(i)
       \/ InsertAtStart(i)
       \/ \E at \in DOMAIN main : InsertBeforeInMain(i, at)
       \/ \E at \in DOMAIN buffer : InsertBeforeInBuffer(i, at)
  \/ \E at \in DOMAIN main \cup DOMAIN buffer : RemoveInstruction(at)
  \/ FlushBuffer
  \/ \E list \in BOOLEAN : WriteTo(list)

Spec == Init /\ [][Next]_vars

-----------------------------------------------------------------------------
TypeOK ==
  /\ {first, last, buffer_first, buffer_last} \subseteq Pointer
  /\ to_buffer \in BOOLEAN
  /\ next \in [Instructions -> Pointer]
  /\ prev \in [Instructions -> Pointer]
  /\ main \in Seq(Instructions)
  /\ buffer \in Seq(Instructions)

\* A list is held from both its ends and in both directions.
Chained(list, begin, end) ==
  /\ Len(list) = 0 => begin = NULL /\ end = NULL
  /\ Len(list) > 0 => begin = list[1] /\ end = list[Len(list)]
  /\ \A k \in 1..Len(list) :
       /\ prev[list[k]] = IF k = 1 THEN NULL ELSE list[k - 1]
       /\ next[list[k]] = IF k = Len(list) THEN NULL ELSE list[k + 1]

Apart ==
  /\ IsInjective(main) /\ IsInjective(buffer)
  /\ Range(main) \cap Range(buffer) = {}

\* Memory in no list has no neighbours, so that nothing refuses to link it.
FreeIsUnlinked ==
  \A i \in Instructions \ (Range(main) \cup Range(buffer)) :
    next[i] = NULL /\ prev[i] = NULL

\* The pointers are those of the two lists asked for: nothing is lost or met
\* twice, nothing points to memory that was released, and the buffer and the
\* main part stay apart until the one is appended to the other.
ListsAreHeld ==
  /\ TypeOK
  /\ Apart
  /\ Chained(main, first, last)
  /\ Chained(buffer, buffer_first, buffer_last)
  /\ FreeIsUnlinked

\* The lists one meets going along next behave as InstructionLists says: what
\* is rendered is what was appended, inserted and not removed, in its order.
WalksAsAsked == Kept!Spec

=============================================================================
