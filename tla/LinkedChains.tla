----------------------------- MODULE LinkedChains -----------------------------
(***************************************************************************)
(* The chains of symtable.c as they are in memory: a bucket has the page   *)
(* of its first item, an item that of the next one.  Each action is one    *)
(* request to SymbolTable, whose chains are sequences, together with what  *)
(* the C function does to the links, which are read only from the links    *)
(* and when the code reads them.                                           *)
(***************************************************************************)
EXTENDS SymbolTable

VARIABLES firsts,  \* the first item of each bucket of each table
          links    \* next, key and key_page: the fields of each item

linked_vars == <<vars, firsts, links>>

-----------------------------------------------------------------------------
\* The page malloc hands out as the n-th of this request.
NewPage(n) == allocated + n

\* The items from one on, in the order of their links.
Walk(first, next) == Chain([head |-> first, next |-> next])

BucketOf(chains, key) == Hash[key] % Cardinality(DOMAIN chains)

\* A walk that goes on until there is no item, turn by turn.
WhileItem(Turn(_), chains, next, first) ==
  LET after[n \in 0..Cardinality(Addresses)] ==
        IF n = 0 THEN [chains |-> chains, next |-> next, item |-> first]
        ELSE LET before == after[n - 1]
             IN  IF before.item = NULL THEN before ELSE Turn(before)
  IN  after[Cardinality(Addresses)]

NoItems ==
  LET nothing == [a \in Addresses |-> NULL]
  IN  [next |-> nothing, key |-> nothing, key_page |-> nothing]

\* Memory that was released has nothing in its fields.
Forgotten(fields, pages) ==
  [name \in DOMAIN fields |->
     [a \in Addresses |-> IF a \in pages THEN NULL ELSE fields[name][a]]]

\* The fields of one item are given their values.
WithFields(fields, item, key, key_page, next) ==
  [next |-> With(fields.next, item, next),
   key |-> With(fields.key, item, key),
   key_page |-> With(fields.key_page, item, key_page)]

NoChains(size) == [b \in 0..size - 1 |-> NULL]

-----------------------------------------------------------------------------
LinkedInit ==
  /\ Init
  /\ firsts = [t \in Tables |-> NoTable]
  /\ links = NoItems

LinkedInitTable(t, size) ==
  /\ InitTable(t, size)
  /\ firsts' = [firsts EXCEPT ![t] = NoChains(size)]
  /\ UNCHANGED links

(* symbol_table_get_or_create: the walk that does not find the key ends    *)
(* with the last item, which gets the new one as its next.                 *)
LinkedGetOrCreate(t, key) ==
  /\ GetOrCreate(t, key)
  /\ LET b == BucketOf(firsts[t], key)
         met == Walk(firsts[t][b], links.next)
         last == IF met = << >> THEN NULL ELSE Last(met)
         new == WithFields(links, NewPage(1), key, NewPage(2), NULL)
     IN  /\ firsts' = [firsts EXCEPT ![t][b] = IF last = NULL THEN NewPage(1) ELSE @]
         /\ links' = [new EXCEPT !.next = With(@, last, NewPage(1))]

(* symbol_table_remove: the item before it in the chain, or the bucket if  *)
(* it is the first, gets what is after it.                                 *)
LinkedRemoveItem(t, key) ==
  /\ RemoveItem(t, key)
  /\ LET b == BucketOf(firsts[t], key)
         met == Walk(firsts[t][b], links.next)
         at == SelectInSeq(met, LAMBDA page : links.key[page] = key)
         item == met[at]
         prev == IF at = 1 THEN NULL ELSE met[at - 1]
     IN  /\ firsts' = [firsts EXCEPT ![t][b] = IF prev = NULL THEN links.next[item] ELSE @]
         /\ links' = Forgotten([links EXCEPT !.next = With(@, prev, @[item])], {item})

\* What symbol_table_clear_buckets meets, bucket by bucket, and releases.
ItemsMet(t) ==
  UNION {ToSet(Walk(firsts[t][b], links.next)) : b \in DOMAIN firsts[t]}

LinkedClearBuckets(t) ==
  /\ ClearBuckets(t)
  /\ firsts' = [firsts EXCEPT ![t] = [b \in DOMAIN @ |-> NULL]]
  /\ links' = Forgotten(links, ItemsMet(t))

\* symbol_table_free
LinkedFreeTable(t) ==
  /\ FreeTable(t)
  /\ firsts' = [firsts EXCEPT ![t] = NoTable]
  /\ links' = Forgotten(links, ItemsMet(t))

-----------------------------------------------------------------------------
(* symbol_table_append_item: nothing is after the item, and the one that   *)
(* was the last of its new chain gets it.                                  *)
AppendItem(chains, next, item) ==
  LET b == BucketOf(chains, links.key[item])
      alone == With(next, item, NULL)
  IN  IF chains[b] = NULL
      THEN [chains |-> [chains EXCEPT ![b] = item], next |-> alone]
      ELSE [chains |-> chains, next |-> With(alone, Last(Walk(chains[b], alone)), item)]

\* Wrong on purpose (a mutant of MovedChain): what is next is read too late.
MovedChainLate(moved, first) ==
  LET Turn(at) == LET new == AppendItem(at.chains, at.next, at.item)
                  IN  [chains |-> new.chains, next |-> new.next, item |-> new.next[at.item]]
  IN  WhileItem(Turn, moved.chains, moved.next, first)

(* One bucket of symbol_table_move: what is next is read before the item   *)
(* is appended elsewhere.                                                  *)
MovedChain(moved, first) ==
  LET Turn(at) == LET new == AppendItem(at.chains, at.next, at.item)
                  IN  [chains |-> new.chains, next |-> new.next, item |-> at.next[at.item]]
  IN  WhileItem(Turn, moved.chains, moved.next, first)

InOrder(chains) == [n \in 1..Cardinality(DOMAIN chains) |-> chains[n - 1]]

\* symbol_table_move
LinkedMoveTable(from, to, size) ==
  /\ MoveTable(from, to, size)
  /\ LET moved == FoldLeft(MovedChain, [chains |-> NoChains(size), next |-> links.next],
                           InOrder(firsts[from]))
     IN  /\ firsts' = [firsts EXCEPT ![to] = moved.chains, ![from] = [b \in DOMAIN @ |-> NULL]]
         /\ links' = [links EXCEPT !.next = moved.next]

(* One bucket of symbol_table_copy: each copy is put before what the       *)
(* bucket has, and takes two pages as it is made.                          *)
CopiedChain(copy, b, first) ==
  LET CopyOne(c, item) ==
        [chains |-> [c.chains EXCEPT ![b] = NewPage(c.taken + 1)],
         fields |-> WithFields(c.fields, NewPage(c.taken + 1), links.key[item],
                               NewPage(c.taken + 2), c.chains[b]),
         taken |-> c.taken + 2]
  IN  FoldLeft(CopyOne, copy, Walk(first, links.next))

\* symbol_table_copy: the first page is the table's.
LinkedCopyTable(from, to) ==
  /\ CopyTable(from, to)
  /\ LET source == firsts[from]
         start == [chains |-> [b \in DOMAIN source |-> NULL], fields |-> links, taken |-> 1]
         copied == FoldLeft(LAMBDA c, b : CopiedChain(c, b, source[b]), start,
                            [n \in 1..Cardinality(DOMAIN source) |-> n - 1])
     IN  /\ firsts' = [firsts EXCEPT ![to] = copied.chains]
         /\ links' = copied.fields

\* memory_manager_exit
LinkedExit ==
  /\ Exit
  /\ firsts' = [t \in Tables |-> NoTable]
  /\ links' = NoItems

LinkedNext ==
  \/ \E t \in Tables, size \in Sizes : LinkedInitTable(t, size)
  \/ \E t \in Tables, key \in Keys : LinkedGetOrCreate(t, key) \/ LinkedRemoveItem(t, key)
  \/ \E t \in Tables : LinkedClearBuckets(t) \/ LinkedFreeTable(t)
  \/ \E from, to \in Tables, size \in Sizes : LinkedMoveTable(from, to, size)
  \/ \E from, to \in Tables : LinkedCopyTable(from, to)
  \/ LinkedExit

LinkedSpec == LinkedInit /\ [][LinkedNext]_linked_vars

-----------------------------------------------------------------------------
(* Along the links of every bucket one meets the items of its chain, each  *)
(* with its key, in their order, and no others: after any number of items  *)
(* put in, taken out of any place of a chain, moved link by link into the  *)
(* chains of another table or copied, none is lost and none is in two.     *)
LinksAreChains ==
  LET ItemAt(page) == [key |-> links.key[page], page |-> page,
                       key_page |-> links.key_page[page]]
      ItemsFrom(first) == LET met == Walk(first, links.next)
                          IN  [n \in DOMAIN met |-> ItemAt(met[n])]
  IN  \A t \in Tables :
        IF Exists(t)
        THEN tables[t].items = [b \in DOMAIN firsts[t] |-> ItemsFrom(firsts[t][b])]
        ELSE firsts[t] = NoTable

=============================================================================
