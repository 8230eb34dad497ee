---------------------------- MODULE MemoryManager ----------------------------
(***************************************************************************)
(* The memory manager of the build for use (memory.c), as operators on its *)
(* pages: a list chained both ways, so that a page is taken out without    *)
(* looking for it, and what nobody released is released at the end.        *)
(***************************************************************************)
EXTENDS Naturals, FiniteSets, SequencesExt

CONSTANTS Addresses,  \* the addresses malloc may hand out
          NULL

ASSUME AddressesAssumption == NULL \notin Addresses

-----------------------------------------------------------------------------
(* Memory that was released has nothing in its fields.                     *)
NoPages ==
  [head |-> NULL,
   next |-> [a \in Addresses |-> NULL],
   prev |-> [a \in Addresses |-> NULL]]

\* The field of one page is given a value; the page may be NULL.
With(field, page, value) == [a \in Addresses |-> IF a = page THEN value ELSE field[a]]

\* memory_manager_malloc: the new page is the head.
Allocate(manager, page) ==
  [head |-> page,
   next |-> With(manager.next, page, manager.head),
   prev |-> With(With(manager.prev, manager.head, page), page, NULL)]

\* Wrong on purpose (a mutant of Release): the page after it is not told.
ReleaseOneWay(manager, page) ==
  LET before == manager.prev[page]
      after == manager.next[page]
  IN  [head |-> IF before = NULL THEN after ELSE manager.head,
       next |-> With(With(manager.next, before, after), page, NULL),
       prev |-> With(manager.prev, page, NULL)]

\* memory_manager_free: the pages around it are chained to each other.
Release(manager, page) ==
  LET before == manager.prev[page]
      after == manager.next[page]
  IN  [head |-> IF before = NULL THEN after ELSE manager.head,
       next |-> With(With(manager.next, before, after), page, NULL),
       prev |-> With(With(manager.prev, after, before), page, NULL)]

\* The pages memory_manager_exit releases: those along next from the head.
Chain(manager) ==
  LET most == Cardinality(Addresses)
      after(page) == IF page = NULL THEN NULL ELSE manager.next[page]
      path[n \in 1..most] == IF n = 1 THEN manager.head ELSE after(path[n - 1])
  IN  [n \in {k \in 1..most : path[k] # NULL} |-> path[n]]

(* Everything in the set is on the list, once, and chained both ways, so   *)
(* that taking any page out keeps the others and the end releases all.     *)
Links(manager, pages) ==
  LET chain == Chain(manager)
  IN  /\ IsInjective(chain) /\ ToSet(chain) = pages
      /\ \A i \in DOMAIN chain :
           manager.prev[chain[i]] = IF i = 1 THEN NULL ELSE chain[i - 1]

=============================================================================
