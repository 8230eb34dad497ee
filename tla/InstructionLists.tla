-------------------------- MODULE InstructionLists --------------------------
(***************************************************************************)
(* What the code generator promises: two lists of instructions, the main   *)
(* part and the buffer of the functions, and what its callers ask of them. *)
(* The guards are the callers' side: they pass instructions that are in no *)
(* list, take out only what is in the list being written, put nothing      *)
(* before the label with which the buffer begins, and empty the buffer     *)
(* after something in the main part (code_constructor_end_code).           *)
(***************************************************************************)
EXTENDS Integers, SequencesExt

CONSTANT Instructions

VARIABLES
  main,      \* the main part
  buffer,    \* the functions
  to_buffer  \* is the buffer the list being written?

lists == <<main, buffer, to_buffer>>

Linked == Range(main) \cup Range(buffer)

Init ==
  /\ main = << >>
  /\ buffer = << >>
  /\ to_buffer = FALSE

AppendInstruction(i) ==
  /\ i \notin Linked
  /\ main' = IF to_buffer THEN main ELSE Append(main, i)
  /\ buffer' = IF to_buffer THEN Append(buffer, i) ELSE buffer
  /\ UNCHANGED to_buffer

RemoveInstruction(at) ==
  IF to_buffer
  THEN /\ at \in DOMAIN buffer
       /\ buffer' = RemoveAt(buffer, at)
       /\ UNCHANGED <<main, to_buffer>>
  ELSE /\ at \in DOMAIN main
       /\ main' = RemoveAt(main, at)
       /\ UNCHANGED <<buffer, to_buffer>>

InsertAtStart(i) ==
  /\ i \notin Linked
  /\ main' = InsertAt(main, 1, i)
  /\ UNCHANGED <<buffer, to_buffer>>

InsertBeforeInMain(i, at) ==
  /\ i \notin Linked
  /\ at \in DOMAIN main
  /\ main' = InsertAt(main, at, i)
  /\ UNCHANGED <<buffer, to_buffer>>

InsertBeforeInBuffer(i, at) ==
  /\ i \notin Linked
  /\ at \in DOMAIN buffer /\ at > 1
  /\ buffer' = InsertAt(buffer, at, i)
  /\ UNCHANGED <<main, to_buffer>>

FlushBuffer ==
  /\ main # << >>
  /\ main' = main \o buffer
  /\ buffer' = << >>
  /\ UNCHANGED to_buffer

WriteTo(list) ==
  /\ to_buffer' = list
  /\ UNCHANGED <<main, buffer>>

Next ==
  \/ \E i \in Instructions :
       \/ AppendInstruction(i)
       \/ InsertAtStart(i)
       \/ \E at \in DOMAIN main : InsertBeforeInMain(i, at)
       \/ \E at \in DOMAIN buffer : InsertBeforeInBuffer(i, at)
  \/ \E at \in DOMAIN main \cup DOMAIN buffer : RemoveInstruction(at)
  \/ FlushBuffer
  \/ \E list \in BOOLEAN : WriteTo(list)

Spec == Init /\ [][Next]_lists

=============================================================================
