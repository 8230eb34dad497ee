----------------------------- MODULE KeyedItems -----------------------------
(***************************************************************************)
(* What the hash tables of symtable.c promise: each is a map from keys to  *)
(* items, and an item is its key's until somebody takes it away, however   *)
(* many others come and go.  Whoever asks for a key keeps a pointer to the *)
(* item, so the items themselves matter, not only which keys there are.    *)
(***************************************************************************)
EXTENDS Naturals

CONSTANTS Tables, Keys, Items,
          NoTable, NoItem

VARIABLE contents   \* what each table has for each key, or NoTable

Empty == [key \in Keys |-> NoItem]
Used == (UNION {{contents[t][key] : key \in Keys} :
                t \in {x \in Tables : contents[x] # NoTable}}) \ {NoItem}
Exists(t) == contents[t] # NoTable
Becomes(t, map) == contents' = [contents EXCEPT ![t] = map]

Init == contents = [t \in Tables |-> NoTable]

Make(t) == ~ Exists(t) /\ Becomes(t, Empty)
Clear(t) == Exists(t) /\ Becomes(t, Empty)
Drop(t) == Exists(t) /\ Becomes(t, NoTable)

\* A key that is new gets an item nobody has.
Ask(t, key) ==
  /\ Exists(t) /\ contents[t][key] = NoItem
  /\ Exists(t)'
  /\ LET item == contents'[t][key]
     IN  item \in Items \ Used /\ Becomes(t, [contents[t] EXCEPT ![key] = item])

Remove(t, key) ==
  /\ Exists(t)
  /\ Becomes(t, [contents[t] EXCEPT ![key] = NoItem])

\* The items themselves change the table.
Move(from, to) ==
  /\ Exists(from) /\ ~ Exists(to)
  /\ contents' = [contents EXCEPT ![to] = contents[from], ![from] = Empty]

\* A copy has the same keys, and items of its own.
Copy(from, to) ==
  /\ Exists(from) /\ ~ Exists(to)
  /\ LET keys == {key \in Keys : contents[from][key] # NoItem}
     IN  \E items \in [keys -> Items \ Used] :
           /\ \A j, k \in keys : items[j] = items[k] => j = k
           /\ Becomes(to, [key \in Keys |-> IF key \in keys THEN items[key] ELSE NoItem])

\* The program ends.
End == contents' = [t \in Tables |-> NoTable]

Next ==
  \/ End
  \/ \E t \in Tables : Make(t) \/ Clear(t) \/ Drop(t)
  \/ \E t \in Tables, key \in Keys : Remove(t, key)
  \/ \E from, to \in Tables : Move(from, to)
  \/ \E t \in Tables, key \in Keys : Ask(t, key)
  \/ \E from, to \in Tables : Copy(from, to)

Spec == Init /\ [][Next]_contents

=============================================================================
