----------------------------- MODULE SymbolTable -----------------------------
(***************************************************************************)
(* The hash tables of symtable.c and the memory they are made of: each     *)
(* action is one C function with all its calls of memory_alloc and         *)
(* memory_free, in their order.                                            *)
(*                                                                         *)
(* A chain is the sequence of its items; the data of an item belongs to    *)
(* the callbacks of whoever uses the table and is left out.                *)
(***************************************************************************)
EXTENDS MemoryManager

CONSTANTS Keys,
          Hash,            \* the hash of each key
          Sizes,           \* the numbers of buckets asked for
          Tables,          \* places for tables
          NoTable,
          MaxCount         \* no table counts more items than that

ASSUME TablesAssumption == /\ IsFiniteSet(Addresses)
                           /\ Addresses = 1..Cardinality(Addresses)
                           /\ Hash \in [Keys -> Nat]
                           /\ Sizes \subseteq Nat \ {0}
                           /\ MaxCount \in Nat

VARIABLES tables,    \* what there is at each place
          manager,   \* the pages
          live,      \* history: the addresses malloc has handed out
          allocated  \* history: how many it has handed out so far

vars == <<tables, manager, live, allocated>>
memory == [manager |-> manager, live |-> live]

-----------------------------------------------------------------------------
Allocated(m, page) ==
  [manager |-> Allocate(m.manager, page), live |-> m.live \cup {page}]

Released(m, page) ==
  [manager |-> Release(m.manager, page), live |-> m.live \ {page}]

(* A step taken for each element of a sequence in turn (FoldLeft of         *)
(* SequencesExt, as a function of how many are done).                      *)
ForEach(Step(_, _), base, sequence) ==
  LET after[n \in 0..Len(sequence)] ==
        IF n = 0 THEN base ELSE Step(after[n - 1], sequence[n])
  IN  after[Len(sequence)]

AllAllocated(m, pages) == ForEach(Allocated, m, pages)
AllReleased(m, pages) == ForEach(Released, m, pages)

(* What malloc hands out next.  It may be memory that was released before, *)
(* which makes a difference only to a pointer to what was there: that      *)
(* nobody has one is EveryPageHasAnOwner, so the addresses are new here.   *)
Fresh(count) ==
  IF allocated + count <= Cardinality(Addresses)
  THEN {[i \in 1..count |-> allocated + i]}
  ELSE {}

MemoryIs(m) == manager' = m.manager /\ live' = m.live

Takes(fresh) ==
  MemoryIs(AllAllocated(memory, fresh)) /\ allocated' = allocated + Len(fresh)

GivesBack(pages) ==
  MemoryIs(AllReleased(memory, pages)) /\ UNCHANGED allocated

-----------------------------------------------------------------------------
Exists(t) == tables[t] # NoTable

Bucket(table, key) == Hash[key] % table.size

\* Wrong on purpose (a mutant of NewTable): the buckets are numbered from 1.
NewTableFromOne(page, size) ==
  [page |-> page, size |-> size, count |-> 0,
   items |-> [b \in 1..size |-> << >>]]

\* symbol_table_init
NewTable(page, size) ==
  [page |-> page, size |-> size, count |-> 0,
   items |-> [b \in 0..size - 1 |-> << >>]]

\* symbol_table_new_item: the item, then a copy of its key.
NewItem(key, item, copy) == [key |-> key, page |-> item, key_page |-> copy]

ItemsOf(table) == FlattenSeq([n \in 1..table.size |-> table.items[n - 1]])

\* Where the first with that key is in its bucket, 0 if it is nowhere.
PlaceOf(table, key) ==
  SelectInSeq(table.items[Bucket(table, key)], LAMBDA item : item.key = key)

ItemWith(table, key) == table.items[Bucket(table, key)][PlaceOf(table, key)]

\* symbol_table_get
Get(table, key) == IF PlaceOf(table, key) = 0 THEN NULL ELSE ItemWith(table, key).page

\* symbol_table_append_item
Appended(table, item) ==
  [table EXCEPT !.items[Bucket(table, item.key)] = Append(@, item)]

-----------------------------------------------------------------------------
Init ==
  /\ tables = [t \in Tables |-> NoTable]
  /\ manager = NoPages /\ live = {} /\ allocated = 0

\* symbol_table_init
InitTable(t, size) ==
  /\ ~ Exists(t)
  /\ \E fresh \in Fresh(1) :
       /\ tables' = [tables EXCEPT ![t] = NewTable(fresh[1], size)]
       /\ Takes(fresh)

Created(table, item) == [Appended(table, item) EXCEPT !.count = @ + 1]

\* symbol_table_get_or_create, for a key that is new
GetOrCreate(t, key) ==
  /\ Exists(t) /\ Get(tables[t], key) = NULL
  /\ tables[t].count < MaxCount
  /\ \E fresh \in Fresh(2) :
       /\ tables' = [tables EXCEPT ![t] = Created(@, NewItem(key, fresh[1], fresh[2]))]
       /\ Takes(fresh)

Without(table, key) ==
  [table EXCEPT !.items[Bucket(table, key)] = RemoveAt(@, PlaceOf(table, key))]

(* symbol_table_remove: the count stays, and is no longer the "Count of    *)
(* stored items" (symtable.h).                                             *)
RemoveItem(t, key) ==
  /\ Exists(t) /\ PlaceOf(tables[t], key) # 0
  /\ tables' = [tables EXCEPT ![t] = Without(@, key)]
  /\ LET item == ItemWith(tables[t], key)
     IN  GivesBack(<<item.key_page, item.page>>)

\* Wrong on purpose (a mutant of PagesInOrder): the keys are forgotten.
PagesWithoutKeys(items) == [n \in DOMAIN items |-> items[n].page]

\* The order symbol_table_clear_buckets releases the pages of items in.
PagesInOrder(items) ==
  [n \in 1..2 * Len(items) |->
     IF n % 2 = 1 THEN items[(n + 1) \div 2].key_page ELSE items[n \div 2].page]

Cleared(table) == NewTable(table.page, table.size)

\* symbol_table_clear_buckets
ClearBuckets(t) ==
  /\ Exists(t)
  /\ tables' = [tables EXCEPT ![t] = Cleared(@)]
  /\ GivesBack(PagesInOrder(ItemsOf(tables[t])))

PagesOf(table) == Append(PagesInOrder(ItemsOf(table)), table.page)

\* symbol_table_free
FreeTable(t) ==
  /\ Exists(t)
  /\ tables' = [tables EXCEPT ![t] = NoTable]
  /\ GivesBack(PagesOf(tables[t]))

\* Wrong on purpose (a mutant of Moved): the items keep the numbers of their buckets.
MovedAlong(table, page, size) ==
  [NewTable(page, size) EXCEPT
     !.items = [b \in 0..size - 1 |-> IF b < table.size THEN table.items[b] ELSE << >>],
     !.count = table.count]

\* Every item is appended to the chain of its bucket in the new table.
Moved(table, page, size) ==
  [ForEach(Appended, NewTable(page, size), ItemsOf(table)) EXCEPT
     !.count = table.count]

\* symbol_table_move: the source stays, with no items.
MoveTable(from, to, size) ==
  /\ Exists(from) /\ ~ Exists(to)
  /\ \E fresh \in Fresh(1) :
       /\ tables' = [tables EXCEPT ![to] = Moved(tables[from], fresh[1], size),
                                   ![from] = Cleared(@)]
       /\ Takes(fresh)

(* Each copy is put before what its chain has: the chains of the copy are  *)
(* the other way round.                                                    *)
CopiedItems(table, fresh) ==
  LET source == ItemsOf(table)
      Place(item) == SelectInSeq(source, LAMBDA x : x = item)
      CopyOf(item) == NewItem(item.key, fresh[2 * Place(item)], fresh[2 * Place(item) + 1])
  IN  [b \in DOMAIN table.items |->
         Reverse([i \in DOMAIN table.items[b] |-> CopyOf(table.items[b][i])])]

Copied(table, fresh) ==
  [NewTable(fresh[1], table.size) EXCEPT
     !.items = CopiedItems(table, fresh), !.count = table.count]

\* symbol_table_copy
CopyTable(from, to) ==
  /\ Exists(from) /\ ~ Exists(to)
  /\ \E fresh \in Fresh(1 + 2 * Len(ItemsOf(tables[from]))) :
       /\ tables' = [tables EXCEPT ![to] = Copied(tables[from], fresh)]
       /\ Takes(fresh)

(* memory_manager_exit, at the end or after an error, whatever there is:   *)
(* what is on the list is released.                                        *)
Exit ==
  /\ tables' = [t \in Tables |-> NoTable]
  /\ manager' = NoPages
  /\ live' = live \ ToSet(Chain(manager))
  /\ allocated' = 0

Next ==
  \/ \E t \in Tables, size \in Sizes : InitTable(t, size)
  \/ \E t \in Tables, key \in Keys : GetOrCreate(t, key) \/ RemoveItem(t, key)
  \/ \E t \in Tables : ClearBuckets(t) \/ FreeTable(t)
  \/ \E from, to \in Tables, size \in Sizes : MoveTable(from, to, size)
  \/ \E from, to \in Tables : CopyTable(from, to)
  \/ Exit

Spec == Init /\ [][Next]_vars

-----------------------------------------------------------------------------
ItemType == [key : Keys, page : Addresses, key_page : Addresses]

\* Tables have the buckets their size says, items the fields of an item.
TableType(size) ==
  [page : Addresses, size : {size}, count : Nat,
   items : [0..size - 1 -> Seq(ItemType)]]

Field == [Addresses -> Addresses \cup {NULL}]

TypeOK ==
  /\ tables = [t \in Tables |-> tables[t]]
  /\ \A t \in Tables : Exists(t) => \E size \in Sizes : tables[t] \in TableType(size)
  /\ manager \in [head : Addresses \cup {NULL}, next : Field, prev : Field]
  /\ allocated \in 0..Cardinality(Addresses) /\ live \subseteq 1..allocated

\* That there is no table is not a table, nor what one has for each key.
ASSUME NoTableAssumption ==
  /\ \A size \in Sizes : NoTable \notin TableType(size)
  /\ NoTable \notin [Keys -> Addresses \cup {NULL}]

(* Everything malloc handed out and nobody gave back is on the list, once, *)
(* and chained both ways, so that taking any page out keeps the others and *)
(* the end releases them all.                                              *)
PagesAreLinked == Links(manager, live)

(* No page has two owners, none is used after it was released, and none is *)
(* left without an owner, after any of the operations.                     *)
EveryPageHasAnOwner ==
  LET present == {t \in Tables : Exists(t)}
      pages == [t \in present |-> ToSet(PagesOf(tables[t]))]
  IN  /\ \A t \in present : IsInjective(PagesOf(tables[t]))
      /\ \A t, u \in present : t # u => pages[t] \cap pages[u] = {}
      /\ UNION {pages[t] : t \in present} = live

(* The chains and their hashes are maps: every key is found where it was   *)
(* put, with the item it was first given, whatever else is put in, taken   *)
(* out, moved to another number of buckets or copied.                      *)
Maps == INSTANCE KeyedItems WITH
  Items <- Addresses, NoItem <- NULL,
  contents <- [t \in Tables |->
                 IF Exists(t) THEN [key \in Keys |-> Get(tables[t], key)] ELSE NoTable]
ImplementsMaps == Maps!Spec

=============================================================================
