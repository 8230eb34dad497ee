-------------------------- MODULE SymbolTableProofs --------------------------
(***************************************************************************)
(* The hash tables and their memory, for any keys, hashes, numbers of      *)
(* buckets and places, and as many addresses as there are.                 *)
(*                                                                         *)
(* The invariant (TableInvariant) says that the list of pages is that of   *)
(* some sequence, chained both ways, whose elements are what is live; that *)
(* every item is in the bucket of its key, once; and that the tables       *)
(* divide what is live among them.  The proof looks at a table as the set  *)
(* of what it holds (Contents) and at the list as the sequence it keeps    *)
(* (Keeps): one part says what the operators of the model do to these, one *)
(* that each operation keeps the invariant, one that each operation is the *)
(* one of KeyedItems on what the tables answer.                            *)
(***************************************************************************)
EXTENDS LinkedChains, SequenceTheorems, FiniteSetTheorems, WellFoundedInduction, TLAPS

-----------------------------------------------------------------------------
(* Induction and recursion.  The theorems of the library that take an      *)
(* operator as a parameter are not used: what is proved for each number is *)
(* the set of the numbers it holds for.                                    *)

LEMMA Least ==
  ASSUME NEW S, S \subseteq Nat, S # {}
  PROVE  \E n \in S : \A m \in S : n <= m
<1> DEFINE R == {p \in Nat \X Nat : p[1] < p[2]}
<1>1. IsWellFoundedOn(R, Nat)
  BY NatLessThanWellFounded DEF OpToRel
<1> HIDE DEF R
<1>2. \E n \in S : \A m \in S : ~ (<<m, n>> \in R)
  BY <1>1, WFMin
<1>3. PICK n \in S : \A m \in S : ~ (<<m, n>> \in R)
  BY <1>2
<1>4. ASSUME NEW m \in S
      PROVE  n <= m
  <2>1. n \in Nat /\ m \in Nat
    OBVIOUS
  <2>2. ~ (<<m, n>> \in R)
    BY <1>3
  <2>3. ~ (m < n)
    BY <2>1, <2>2 DEF R
  <2>4. QED
    BY <2>1, <2>3
<1>5. QED
  BY <1>4

LEMMA UpTo ==
  ASSUME NEW N \in Nat, NEW S, 0 \in S,
         \A n \in 1..N : n - 1 \in S => n \in S
  PROVE  0..N \subseteq S
<1> SUFFICES ASSUME ~ (0..N \subseteq S)
             PROVE  FALSE
  OBVIOUS
<1> DEFINE Others == (0..N) \ S
<1>1. PICK n \in Others : \A m \in Others : n <= m
  <2>1. Others \subseteq Nat /\ Others # {}
    OBVIOUS
  <2> HIDE DEF Others
  <2>2. QED
    BY <2>1, Least
<1>2. n \in 1..N /\ n - 1 \in 0..N
  BY <1>1
<1>3. n - 1 \notin Others
  BY <1>1, <1>2
<1>4. QED
  BY <1>1, <1>2, <1>3

(* A function can be defined step by step.                                 *)
Stepwise(f, N, S, base, step) ==
  /\ f \in [0..N -> S] /\ f[0] = base
  /\ \A n \in 1..N : f[n] = step[<<f[n - 1], n>>]

LEMMA Steps ==
  ASSUME NEW N \in Nat, NEW S, NEW base \in S,
         NEW step, step \in [S \X (1..N) -> S]
  PROVE  \E f : Stepwise(f, N, S, base, step)
<1> DEFINE Begun(k, f) == f[0] = base /\ \A n \in 1..k : f[n] = step[<<f[n - 1], n>>]
           Reached == {k \in 0..N : \E f \in [0..k -> S] : Begun(k, f)}
<1>1. 0 \in Reached
  <2> DEFINE f == [n \in 0..0 |-> base]
  <2>1. f \in [0..0 -> S] /\ Begun(0, f)
    OBVIOUS
  <2> HIDE DEF f
  <2>2. QED
    BY <2>1
<1>2. ASSUME NEW n \in 1..N, n - 1 \in Reached
      PROVE  n \in Reached
  <2>1. PICK f \in [0..n - 1 -> S] : Begun(n - 1, f)
    BY <1>2
  <2> DEFINE g == [m \in 0..n |-> IF m = n THEN step[<<f[n - 1], n>>] ELSE f[m]]
  <2>2. f[n - 1] \in S
    OBVIOUS
  <2>3. step[<<f[n - 1], n>>] \in S
    BY <2>2
  <2>4. g \in [0..n -> S]
    BY <2>3
  <2>5. Begun(n, g)
    <3>1. g[0] = base
      BY <2>1
    <3>2. ASSUME NEW m \in 1..n
          PROVE  g[m] = step[<<g[m - 1], m>>]
      <4>1. g[m - 1] = f[m - 1]
        OBVIOUS
      <4>2. CASE m = n
        BY SMTT(60), <4>1, <4>2
      <4>3. CASE m # n
        BY <4>1, <4>3, <2>1
      <4>4. QED
        BY <4>2, <4>3
    <3>3. QED
      BY <3>1, <3>2
  <2> HIDE DEF g
  <2>6. QED
    BY <2>4, <2>5
<1> HIDE DEF Reached
<1>3. 0..N \subseteq Reached
  BY <1>1, <1>2, UpTo
<1>4. N \in Reached
  BY <1>3
<1>5. PICK f \in [0..N -> S] : Begun(N, f)
  BY <1>4 DEF Reached
<1>6. QED
  BY <1>5 DEF Stepwise

-----------------------------------------------------------------------------
(* The list of pages: a manager keeps a sequence when its head and the     *)
(* fields of its pages are those of that sequence.                         *)

ManagerType == [head : Addresses \cup {NULL}, next : Field, prev : Field]

Keeps(keeper, list) ==
  /\ keeper \in ManagerType
  /\ list \in Seq(Addresses) /\ IsInjective(list)
  /\ keeper.head = IF list = << >> THEN NULL ELSE list[1]
  /\ \A i \in 1..Len(list) :
       /\ keeper.next[list[i]] = IF i = Len(list) THEN NULL ELSE list[i + 1]
       /\ keeper.prev[list[i]] = IF i = 1 THEN NULL ELSE list[i - 1]

LEMMA AddressesAreFinite ==
  /\ IsFiniteSet(Addresses) /\ Cardinality(Addresses) \in Nat
  /\ \A list \in Seq(Addresses) : IsInjective(list) => Len(list) <= Cardinality(Addresses)
<1>1. IsFiniteSet(Addresses) /\ Cardinality(Addresses) \in Nat
  BY TablesAssumption, FS_CardinalityType
<1>2. ASSUME NEW list \in Seq(Addresses), IsInjective(list)
      PROVE  Len(list) <= Cardinality(Addresses)
  <2>1. list \in Injection(1..Len(list), Addresses)
    BY <1>2 DEF Injection, IsInjective
  <2>2. Cardinality(1..Len(list)) <= Cardinality(Addresses)
    BY <1>1, <2>1, FS_Injection
  <2>3. Len(list) \in Nat
    OBVIOUS
  <2> DEFINE n == Len(list)
  <2> HIDE DEF n
  <2>4. n \in Nat => Cardinality(1..n) = n
    BY FS_Interval
  <2>5. QED
    BY <2>2, <2>3, <2>4 DEF n
<1>3. QED
  BY <1>1, <1>2

\* Going along next from the head finds the sequence.
LEMMA ChainIsWhatIsKept ==
  ASSUME NEW keeper, NEW list, Keeps(keeper, list)
  PROVE  Chain(keeper) = list
<1> DEFINE most == Cardinality(Addresses)
           after(page) == IF page = NULL THEN NULL ELSE keeper.next[page]
           path[n \in 1..most] == IF n = 1 THEN keeper.head ELSE after(path[n - 1])
           g == [n \in 1..most |-> IF n <= Len(list) THEN list[n] ELSE NULL]
<1>1. most \in Nat /\ Len(list) \in Nat /\ Len(list) <= most
  BY AddressesAreFinite DEF Keeps
<1>2. \A i \in 1..Len(list) : list[i] \in Addresses /\ list[i] # NULL
  BY AddressesAssumption DEF Keeps
<1>3. Chain(keeper) = [n \in {k \in 1..most : path[k] # NULL} |-> path[n]]
  BY DEF Chain
<1> HIDE DEF most
<1>4. g = [n \in 1..most |-> IF n = 1 THEN keeper.head ELSE after(g[n - 1])]
  <2>1. ASSUME NEW n \in 1..most
        PROVE  g[n] = IF n = 1 THEN keeper.head ELSE after(g[n - 1])
    <3>1. CASE n = 1
      BY <1>1, <3>1 DEF Keeps
    <3>2. CASE n # 1 /\ n - 1 <= Len(list)
      <4>1. n - 1 \in 1..Len(list) /\ n - 1 \in 1..most
        BY <1>1, <3>2
      <4>2. g[n - 1] = list[n - 1]
        BY <4>1
      <4>3. keeper.next[list[n - 1]] = IF n - 1 = Len(list) THEN NULL ELSE list[n]
        BY <4>1 DEF Keeps
      <4>4. QED
        BY <4>1, <4>2, <4>3, <1>1, <1>2, <3>2
    <3>3. CASE n # 1 /\ ~ (n - 1 <= Len(list))
      BY SMTT(60), <1>1, <3>3
    <3>4. QED
      BY <3>1, <3>2, <3>3
  <2>2. QED
    BY <2>1
<1> HIDE DEF g
<1>5. path = [n \in 1..most |-> IF n = 1 THEN keeper.head ELSE after(path[n - 1])]
  BY <1>4
<1> HIDE DEF path
<1> DEFINE Same == {n \in 0..most : n # 0 => path[n] = g[n]}
<1>6. 0..most \subseteq Same
  <2>1. 0 \in Same
    BY <1>1
  <2>2. ASSUME NEW n \in 1..most, n - 1 \in Same
        PROVE  n \in Same
    <3>1. path[n] = IF n = 1 THEN keeper.head ELSE after(path[n - 1])
      BY <1>5
    <3>2. g[n] = IF n = 1 THEN keeper.head ELSE after(g[n - 1])
      BY <1>4
    <3>3. n # 1 => path[n - 1] = g[n - 1]
      BY <2>2
    <3>4. QED
      BY <3>1, <3>2, <3>3
  <2> HIDE DEF Same
  <2>3. QED
    BY <1>1, <2>1, <2>2, UpTo
<1>7. ASSUME NEW n \in 1..most
      PROVE  path[n] = IF n <= Len(list) THEN list[n] ELSE NULL
  <2>1. n \in 0..most /\ n # 0
    BY <1>1
  <2>2. path[n] = g[n]
    BY <1>6, <2>1 DEF Same
  <2>3. QED
    BY <2>2 DEF g
<1>8. {k \in 1..most : path[k] # NULL} = 1..Len(list)
  BY <1>1, <1>2, <1>7
<1>9. Chain(keeper) = [n \in 1..Len(list) |-> list[n]]
  BY <1>1, <1>3, <1>7, <1>8
<1>10. QED
  BY <1>9 DEF Keeps

\* What is allocated is put before the others.
Before(page, list) == [i \in 1..Len(list) + 1 |-> IF i = 1 THEN page ELSE list[i - 1]]

LEMMA AllocateKeeps ==
  ASSUME NEW keeper, NEW list, Keeps(keeper, list),
         NEW page \in Addresses, page \notin ToSet(list)
  PROVE  /\ Keeps(Allocate(keeper, page), Before(page, list))
         /\ ToSet(Before(page, list)) = ToSet(list) \cup {page}
<1> DEFINE new == Before(page, list)
           n == Len(list)
           grown == Allocate(keeper, page)
<1>1. n \in Nat /\ list \in [1..n -> Addresses]
  BY DEF Keeps
<1>2. \A i \in 1..n : list[i] # page
  BY <1>1 DEF ToSet
<1>3. new = [i \in 1..n + 1 |-> IF i = 1 THEN page ELSE list[i - 1]]
  BY DEF Before
<1> HIDE DEF new, n
<1>4. \A i \in 2..n + 1 : i - 1 \in 1..n /\ new[i] = list[i - 1] /\ new[i] # page
  BY <1>1, <1>2, <1>3
<1>5. 1 \in 1..n + 1 /\ new[1] = page /\ page # NULL
  BY <1>1, <1>3, AddressesAssumption
<1>6. new \in [1..n + 1 -> Addresses]
  BY <1>1, <1>3
<1>7. new \in Seq(Addresses) /\ Len(new) = n + 1
  BY <1>1, <1>6
<1>8. IsInjective(new)
  <2>1. \A i, j \in 1..n : list[i] = list[j] => i = j
    BY <1>1 DEF Keeps, IsInjective
  <2>2. ASSUME NEW i \in 1..n + 1, NEW j \in 1..n + 1, new[i] = new[j]
        PROVE  i = j
    <3>1. CASE i = 1 \/ j = 1
      BY <1>1, <1>4, <1>5, <2>2, <3>1
    <3>2. CASE i # 1 /\ j # 1
      <4>1. i \in 2..n + 1 /\ j \in 2..n + 1
        BY <1>1, <3>2
      <4>2. i - 1 = j - 1
        BY <4>1, <1>4, <2>1, <2>2
      <4>3. QED
        BY <4>1, <4>2
    <3>3. QED
      BY <3>1, <3>2
  <2>3. QED
    BY <1>6, <2>2 DEF IsInjective
<1>9. ToSet(new) = ToSet(list) \cup {page}
  <2>1. \A i \in 1..n : i + 1 \in 2..n + 1 /\ (i + 1) - 1 = i
    BY <1>1
  <2>2. \A i \in 1..n : i + 1 \in 1..n + 1 /\ new[i + 1] = list[i]
    BY <1>1, <1>4, <2>1
  <2>3. \A i \in 1..n + 1 : i = 1 \/ i \in 2..n + 1
    BY <1>1
  <2>4. DOMAIN new = 1..n + 1 /\ DOMAIN list = 1..n
    BY <1>1, <1>6
  <2>5. ASSUME NEW a \in ToSet(new)
        PROVE  a \in ToSet(list) \cup {page}
    <3>1. PICK i \in 1..n + 1 : a = new[i]
      BY <2>4 DEF ToSet
    <3>2. QED
      BY <3>1, <2>3, <2>4, <1>4, <1>5 DEF ToSet
  <2>6. ASSUME NEW a \in ToSet(list) \cup {page}
        PROVE  a \in ToSet(new)
    <3>1. CASE a = page
      BY <3>1, <1>5, <2>4 DEF ToSet
    <3>2. CASE a \in ToSet(list)
      BY <3>2, <2>2, <2>4 DEF ToSet
    <3>3. QED
      BY <2>6, <3>1, <3>2
  <2>7. QED
    BY <2>5, <2>6
<1>10. grown.next = [a \in Addresses |-> IF a = page THEN keeper.head ELSE keeper.next[a]]
  BY DEF Allocate, With
<1>11. /\ DOMAIN grown.prev = Addresses
       /\ grown.prev[page] = NULL
       /\ \A a \in Addresses : a # page =>
            grown.prev[a] = IF a = keeper.head THEN page ELSE keeper.prev[a]
  BY DEF Allocate, With
<1>12. grown \in ManagerType /\ grown.head = page
  BY DEF Allocate, With, Keeps, ManagerType, Field
<1> HIDE DEF grown
<1>13. keeper.head = IF n = 0 THEN NULL ELSE list[1]
  <2>1. list = << >> <=> Len(list) = 0
    BY DEF Keeps
  <2>2. QED
    BY <2>1 DEF Keeps, n
<1>14. ASSUME NEW i \in 1..n + 1
       PROVE  grown.next[new[i]] = IF i = n + 1 THEN NULL ELSE new[i + 1]
  <2>1. CASE i = 1
    <3>1. grown.next[new[i]] = IF n = 0 THEN NULL ELSE list[1]
      BY <2>1, <1>5, <1>10, <1>13
    <3>2. n # 0 => new[2] = list[1]
      <4>1. n # 0 => 2 \in 2..n + 1
        BY <1>1
      <4>2. QED
        BY <4>1, <1>4
    <3>3. QED
      BY <2>1, <3>1, <3>2, <1>1
  <2>2. CASE i # 1
    <3>1. i \in 2..n + 1 /\ i - 1 \in 1..n /\ (i # n + 1 => i + 1 \in 2..n + 1)
      BY <2>2, <1>1
    <3>2. grown.next[new[i]] = keeper.next[list[i - 1]]
      BY <3>1, <1>1, <1>4, <1>10
    <3>3. keeper.next[list[i - 1]] = IF i - 1 = n THEN NULL ELSE list[(i - 1) + 1]
      BY <3>1 DEF Keeps, n
    <3>4. i # n + 1 => new[i + 1] = list[(i - 1) + 1]
      <4>1. (i + 1) - 1 = (i - 1) + 1
        BY <3>1
      <4>2. QED
        BY <3>1, <4>1, <1>4
    <3>5. i - 1 = n <=> i = n + 1
      BY <3>1, <1>1
    <3>6. QED
      BY <3>2, <3>3, <3>4, <3>5
  <2>3. QED
    BY <2>1, <2>2
<1>15. ASSUME NEW i \in 1..n + 1
       PROVE  grown.prev[new[i]] = IF i = 1 THEN NULL ELSE new[i - 1]
  <2>1. CASE i = 1
    BY <2>1, <1>5, <1>11
  <2>2. CASE i # 1
    <3>1. i \in 2..n + 1 /\ i - 1 \in 1..n /\ list[i - 1] \in Addresses
      BY <2>2, <1>1
    <3>2. grown.prev[new[i]] = IF list[i - 1] = keeper.head THEN page ELSE keeper.prev[list[i - 1]]
      BY <3>1, <1>4, <1>11
    <3>3. CASE i = 2
      BY <3>1, <3>2, <3>3, <1>1, <1>5, <1>13
    <3>4. CASE i # 2
      <4>1. i - 1 \in 2..n + 1 /\ i - 1 # 1 /\ 1 \in 1..n /\ n # 0
        BY <3>1, <3>4, <1>1
      <4>2. new[i - 1] = list[(i - 1) - 1]
        BY <4>1, <1>4
      <4>3. keeper.prev[list[i - 1]] = list[(i - 1) - 1]
        BY <3>1, <4>1 DEF Keeps, n
      <4>4. list[i - 1] # keeper.head
        BY <3>1, <4>1, <1>1, <1>13 DEF Keeps, IsInjective
      <4>5. QED
        BY <2>2, <3>2, <4>2, <4>3, <4>4
    <3>5. QED
      BY <3>3, <3>4
  <2>3. QED
    BY <2>1, <2>2
<1>16. new # << >>
  BY <1>7, <1>1
<1>17. Keeps(grown, new)
  BY <1>1, <1>5, <1>7, <1>8, <1>12, <1>14, <1>15, <1>16 DEF Keeps
<1>18. QED
  BY <1>9, <1>17 DEF grown, new

\* What is released is taken out.
TakenOut(list, at) == [i \in 1..Len(list) - 1 |-> IF i < at THEN list[i] ELSE list[i + 1]]

LEMMA ReleaseKeeps ==
  ASSUME NEW keeper, NEW list, Keeps(keeper, list),
         NEW at \in 1..Len(list)
  PROVE  /\ Keeps(Release(keeper, list[at]), TakenOut(list, at))
         /\ ToSet(TakenOut(list, at)) = ToSet(list) \ {list[at]}
<1> DEFINE new == TakenOut(list, at)
           n == Len(list)
           page == list[at]
           less == Release(keeper, page)
           \* where an element of the new sequence was
           Was(i) == IF i < at THEN i ELSE i + 1
<1>1. n \in Nat /\ list \in [1..n -> Addresses] /\ at \in 1..n
  BY DEF Keeps
<1>2. new = [i \in 1..n - 1 |-> list[Was(i)]]
  BY <1>1, SMTT(60) DEF TakenOut
<1>3. \A i \in 1..n, j \in 1..n : list[i] = list[j] => i = j
  BY <1>1 DEF Keeps, IsInjective
<1>4. /\ keeper.head = IF n = 0 THEN NULL ELSE list[1]
      /\ keeper \in ManagerType
  <2>1. list = << >> <=> Len(list) = 0
    BY DEF Keeps
  <2>2. QED
    BY <2>1 DEF Keeps
<1>5. \A i \in 1..n : /\ keeper.next[list[i]] = IF i = n THEN NULL ELSE list[i + 1]
                      /\ keeper.prev[list[i]] = IF i = 1 THEN NULL ELSE list[i - 1]
  BY DEF Keeps
<1>6. \A i \in 1..n : list[i] \in Addresses /\ list[i] # NULL
  BY SMTT(60), <1>1, AddressesAssumption
<1> DEFINE before == keeper.prev[page]
           after == keeper.next[page]
<1>7. /\ before = IF at = 1 THEN NULL ELSE list[at - 1]
      /\ after = IF at = n THEN NULL ELSE list[at + 1]
  BY <1>1, <1>5
<1>8. /\ less.head = IF before = NULL THEN after ELSE keeper.head
      /\ less.next = [a \in Addresses |-> IF a = page THEN NULL
                                          ELSE IF a = before THEN after ELSE keeper.next[a]]
      /\ less.prev = [a \in Addresses |-> IF a = page THEN NULL
                                          ELSE IF a = after THEN before ELSE keeper.prev[a]]
      /\ less = [head |-> less.head, next |-> less.next, prev |-> less.prev]
  BY DEF Release, With
<1> HIDE DEF new, n, less, before, after, page
<1>9. \A i \in 1..n - 1 : Was(i) \in 1..n /\ Was(i) # at
  BY <1>1
<1>10. \A i, j \in 1..n - 1 : Was(i) = Was(j) => i = j
  BY <1>1
<1>11. \A k \in 1..n : k # at => \E i \in 1..n - 1 : Was(i) = k
  <2> SUFFICES ASSUME NEW k \in 1..n, k # at
               PROVE  \E i \in 1..n - 1 : Was(i) = k
    OBVIOUS
  <2>1. CASE k < at
    BY <1>1, <2>1
  <2>2. CASE k > at
    <3>1. k - 1 \in 1..n - 1 /\ Was(k - 1) = k
      BY <1>1, <2>2
    <3>2. QED
      BY <3>1
  <2>3. QED
    BY <1>1, <2>1, <2>2
<1>12. \A i \in 1..n - 1 : i # 1 => Was(i - 1) = (IF i = at THEN at - 1 ELSE Was(i) - 1)
  BY <1>1
<1>13. \A i \in 1..n - 1 : i # n - 1 => Was(i + 1) = (IF i + 1 = at THEN at + 1 ELSE Was(i) + 1)
  BY <1>1
<1>14. \A i \in 1..n - 1 : Was(i) = 1 \/ (Was(i) = 2 /\ at = 1) <=> i = 1
  BY <1>1
<1>15. \A i \in 1..n - 1 : Was(i) = n \/ (Was(i) = n - 1 /\ at = n) <=> i = n - 1
  BY <1>1
<1>16. n - 1 \in Nat /\ (n - 1 # 0 => Was(1) = IF at = 1 THEN 2 ELSE 1)
  BY <1>1
<1>17. \A i \in 1..n - 1 : /\ Was(i) = at + 1 <=> i = at
                           /\ Was(i) = at - 1 <=> i + 1 = at
  BY <1>1
<1> HIDE DEF Was
<1>18. new \in [1..n - 1 -> Addresses] /\ \A i \in 1..n - 1 : new[i] = list[Was(i)]
  BY <1>1, <1>2, <1>9
<1>19. new \in Seq(Addresses) /\ Len(new) = n - 1
  BY <1>16, <1>18
<1>20. IsInjective(new)
  BY <1>3, <1>9, <1>10, <1>18 DEF IsInjective
<1>21. ToSet(new) = ToSet(list) \ {page}
  <2>1. DOMAIN new = 1..n - 1 /\ DOMAIN list = 1..n
    BY <1>1, <1>18
  <2>2. ASSUME NEW a \in ToSet(new)
        PROVE  a \in ToSet(list) \ {page}
    <3>1. PICK i \in 1..n - 1 : a = list[Was(i)]
      BY <2>1, <1>18 DEF ToSet
    <3>2. QED
      BY <3>1, <2>1, <1>1, <1>3, <1>9 DEF ToSet, page
  <2>3. ASSUME NEW a \in ToSet(list) \ {page}
        PROVE  a \in ToSet(new)
    <3>1. PICK k \in 1..n : a = list[k]
      BY <2>1 DEF ToSet
    <3>2. k # at
      BY <3>1 DEF page
    <3>3. PICK i \in 1..n - 1 : Was(i) = k
      BY <3>2, <1>11
    <3>4. QED
      BY <3>1, <3>3, <2>1, <1>18 DEF ToSet
  <2>4. QED
    BY <2>2, <2>3
<1>22. less \in ManagerType
  <2>1. before \in Addresses \cup {NULL} /\ after \in Addresses \cup {NULL}
    BY <1>1, <1>6, <1>7
  <2>2. QED
    BY <2>1, <1>4, <1>8 DEF ManagerType, Field
<1>23. less.head = IF new = << >> THEN NULL ELSE new[1]
  <2>1. new = << >> <=> n - 1 = 0
    <3>1. new \in Seq(Addresses) => (new = << >> <=> Len(new) = 0)
      BY EmptySeq
    <3>2. QED
      BY <3>1, <1>19
  <2>2. CASE n - 1 = 0
    <3>1. at = 1 /\ at = n
      BY <2>2, <1>1
    <3>2. QED
      BY <2>1, <2>2, <3>1, <1>7, <1>8
  <2>3. CASE n - 1 # 0
    <3>1. 1 \in 1..n - 1 /\ n # 0 /\ (at = 1 => at # n)
      BY <2>3, <1>1
    <3>2. CASE at = 1
      <4>1. new[1] = list[2] /\ after = list[2]
        BY <3>1, <3>2, <2>3, <1>7, <1>16, <1>18
      <4>2. QED
        BY <4>1, <3>2, <2>1, <2>3, <1>7, <1>8
    <3>3. CASE at # 1
      <4>1. new[1] = list[1] /\ at - 1 \in 1..n
        BY <3>1, <3>3, <2>3, <1>1, <1>16, <1>18
      <4>2. before # NULL
        BY <4>1, <3>3, <1>6, <1>7
      <4>3. QED
        BY <4>1, <4>2, <3>1, <2>1, <2>3, <1>4, <1>8
    <3>4. QED
      BY <3>2, <3>3
  <2>4. QED
    BY <2>2, <2>3
<1>24. ASSUME NEW i \in 1..n - 1
       PROVE  /\ less.next[new[i]] = IF i = n - 1 THEN NULL ELSE new[i + 1]
              /\ less.prev[new[i]] = IF i = 1 THEN NULL ELSE new[i - 1]
  <2> DEFINE k == Was(i)
  <2>1. new[i] = list[k] /\ k \in 1..n /\ k # at
    BY <1>9, <1>18
  <2>2. list[k] # page /\ list[k] \in Addresses
    BY <2>1, <1>1, <1>3 DEF page
  <2>3. (i # n - 1 => i + 1 \in 1..n - 1) /\ (i # 1 => i - 1 \in 1..n - 1)
    BY <1>16
  <2>4. /\ i # n - 1 => new[i + 1] = list[Was(i + 1)]
        /\ i # 1 => new[i - 1] = list[Was(i - 1)]
    BY <2>3, <1>18
  <2>5. less.next[list[k]] = IF list[k] = before THEN after
                             ELSE IF k = n THEN NULL ELSE list[k + 1]
    BY <2>1, <2>2, <1>5, <1>8
  <2>6. less.prev[list[k]] = IF list[k] = after THEN before
                             ELSE IF k = 1 THEN NULL ELSE list[k - 1]
    BY <2>1, <2>2, <1>5, <1>8
  <2>7. list[k] = before <=> k = at - 1
    <3>1. at # 1 => at - 1 \in 1..n
      BY <1>1
    <3>2. k = at - 1 => at # 1
      BY <2>1, <1>1
    <3>3. QED
      BY <3>1, <3>2, <2>1, <1>3, <1>6, <1>7
  <2>8. list[k] = after <=> k = at + 1
    <3>1. at # n => at + 1 \in 1..n
      BY <1>1
    <3>2. k = at + 1 => at # n
      BY <2>1, <1>1
    <3>3. QED
      BY <3>1, <3>2, <2>1, <1>3, <1>6, <1>7
  <2>9. less.next[list[k]] = IF i = n - 1 THEN NULL ELSE list[Was(i + 1)]
    <3>1. CASE k = at - 1
      <4>1. i + 1 = at
        BY <3>1, <1>17
      <4>2. after = IF i = n - 1 THEN NULL ELSE list[Was(i + 1)]
        BY <4>1, <1>1, <1>7, <1>13
      <4>3. QED
        BY <4>2, <3>1, <2>5, <2>7
    <3>2. CASE k # at - 1
      <4>1. i + 1 # at
        BY <3>2, <1>17
      <4>2. k = n <=> i = n - 1
        BY <3>2, <1>1, <1>15
      <4>3. QED
        BY <4>1, <4>2, <3>2, <2>5, <2>7, <1>13
    <3>3. QED
      BY <3>1, <3>2
  <2>10. less.prev[list[k]] = IF i = 1 THEN NULL ELSE list[Was(i - 1)]
    <3>1. CASE k = at + 1
      <4>1. i = at
        BY <3>1, <1>17
      <4>2. before = IF i = 1 THEN NULL ELSE list[Was(i - 1)]
        BY <4>1, <1>1, <1>7, <1>12
      <4>3. QED
        BY <4>2, <3>1, <2>6, <2>8
    <3>2. CASE k # at + 1
      <4>1. i # at
        BY <3>2, <1>17
      <4>2. k = 1 <=> i = 1
        BY <3>2, <1>1, <1>14
      <4>3. QED
        BY <4>1, <4>2, <3>2, <2>6, <2>8, <1>12
    <3>3. QED
      BY <3>1, <3>2
  <2>11. QED
    BY <2>1, <2>4, <2>9, <2>10
<1>25. Keeps(less, new)
  BY <1>19, <1>20, <1>22, <1>23, <1>24 DEF Keeps
<1>26. QED
  BY <1>21, <1>25 DEF less, new, page

-----------------------------------------------------------------------------
(* Memory: the pages that are on the list are the ones handed out.         *)

MemoryType == [manager : ManagerType, live : SUBSET Addresses]

Tidy(m) ==
  /\ m \in MemoryType
  /\ \E list : Keeps(m.manager, list) /\ ToSet(list) = m.live

\* A tidy memory has the property the runs check.
LEMMA TidyLinks ==
  ASSUME NEW m, Tidy(m)
  PROVE  Links(m.manager, m.live) /\ ToSet(Chain(m.manager)) = m.live
<1>1. PICK list : Keeps(m.manager, list) /\ ToSet(list) = m.live
  BY DEF Tidy
<1>2. Chain(m.manager) = list
  BY <1>1, ChainIsWhatIsKept
<1>3. DOMAIN list = 1..Len(list) /\ IsInjective(list)
  BY <1>1 DEF Keeps
<1>4. \A i \in 1..Len(list) : m.manager.prev[list[i]] = IF i = 1 THEN NULL ELSE list[i - 1]
  BY <1>1 DEF Keeps
<1>5. QED
  BY <1>1, <1>2, <1>3, <1>4 DEF Links

LEMMA AllocatedTidy ==
  ASSUME NEW m, Tidy(m), NEW page \in Addresses \ m.live
  PROVE  Tidy(Allocated(m, page)) /\ Allocated(m, page).live = m.live \cup {page}
<1>1. PICK list : Keeps(m.manager, list) /\ ToSet(list) = m.live
  BY DEF Tidy
<1>2. /\ Keeps(Allocate(m.manager, page), Before(page, list))
      /\ ToSet(Before(page, list)) = ToSet(list) \cup {page}
  BY <1>1, AllocateKeeps
<1>3. Allocate(m.manager, page) \in ManagerType
  BY <1>2 DEF Keeps
<1>4. m.live \in SUBSET Addresses
  BY DEF Tidy, MemoryType
<1>5. QED
  BY <1>1, <1>2, <1>3, <1>4 DEF Tidy, MemoryType, Allocated

LEMMA ReleasedTidy ==
  ASSUME NEW m, Tidy(m), NEW page \in m.live
  PROVE  Tidy(Released(m, page)) /\ Released(m, page).live = m.live \ {page}
<1>1. PICK list : Keeps(m.manager, list) /\ ToSet(list) = m.live
  BY DEF Tidy
<1>2. DOMAIN list = 1..Len(list)
  BY <1>1 DEF Keeps
<1>3. PICK at \in 1..Len(list) : list[at] = page
  BY <1>1, <1>2 DEF ToSet
<1>4. /\ Keeps(Release(m.manager, page), TakenOut(list, at))
      /\ ToSet(TakenOut(list, at)) = ToSet(list) \ {page}
  BY <1>1, <1>3, ReleaseKeeps
<1>5. Release(m.manager, page) \in ManagerType
  BY <1>4 DEF Keeps
<1>6. m.live \in SUBSET Addresses
  BY DEF Tidy, MemoryType
<1>7. QED
  BY <1>1, <1>4, <1>5, <1>6 DEF Tidy, MemoryType, Released

LEMMA MemorySteps ==
  ASSUME NEW m \in MemoryType, NEW page \in Addresses
  PROVE  Allocated(m, page) \in MemoryType /\ Released(m, page) \in MemoryType
BY DEF MemoryType, ManagerType, Field, Allocated, Allocate, Released, Release, With

LEMMA AllocatedInTurn ==
  ASSUME NEW m \in MemoryType, NEW pages \in Seq(Addresses)
  PROVE  \E f : /\ f[0] = m
                /\ \A n \in 1..Len(pages) : f[n] = Allocated(f[n - 1], pages[n])
                /\ f[Len(pages)] = AllAllocated(m, pages)
<1> DEFINE N == Len(pages)
           f[n \in 0..N] == IF n = 0 THEN m ELSE Allocated(f[n - 1], pages[n])
           step == [p \in MemoryType \X (1..N) |-> Allocated(p[1], pages[p[2]])]
<1>1. N \in Nat /\ \A n \in 1..N : pages[n] \in Addresses
  OBVIOUS
<1>2. AllAllocated(m, pages) = f[N]
  BY DEF AllAllocated, ForEach
<1>3. step \in [MemoryType \X (1..N) -> MemoryType]
  BY <1>1, MemorySteps
<1>4. PICK g \in [0..N -> MemoryType] :
        g[0] = m /\ \A n \in 1..N : g[n] = step[<<g[n - 1], n>>]
  <2> HIDE DEF step, N
  <2>1. \E g : Stepwise(g, N, MemoryType, m, step)
    BY <1>1, <1>3, Steps
  <2>2. QED
    BY <2>1 DEF Stepwise
<1>5. g = [n \in 0..N |-> IF n = 0 THEN m ELSE Allocated(g[n - 1], pages[n])]
  <2>1. ASSUME NEW n \in 0..N, n # 0
        PROVE  g[n] = Allocated(g[n - 1], pages[n])
    <3>1. n \in 1..N /\ n - 1 \in 0..N
      BY <1>1, <2>1
    <3>2. QED
      BY <3>1, <1>4
  <2>2. QED
    BY <1>4, <2>1
<1> HIDE DEF N
<1>6. f = [n \in 0..N |-> IF n = 0 THEN m ELSE Allocated(f[n - 1], pages[n])]
  BY <1>5
<1> HIDE DEF f
<1>7. f[0] = m /\ \A n \in 1..N : f[n] = Allocated(f[n - 1], pages[n])
  BY <1>1, <1>6
<1>8. QED
  BY <1>2, <1>7 DEF N

LEMMA ReleasedInTurn ==
  ASSUME NEW m \in MemoryType, NEW pages \in Seq(Addresses)
  PROVE  \E f : /\ f[0] = m
                /\ \A n \in 1..Len(pages) : f[n] = Released(f[n - 1], pages[n])
                /\ f[Len(pages)] = AllReleased(m, pages)
<1> DEFINE N == Len(pages)
           f[n \in 0..N] == IF n = 0 THEN m ELSE Released(f[n - 1], pages[n])
           step == [p \in MemoryType \X (1..N) |-> Released(p[1], pages[p[2]])]
<1>1. N \in Nat /\ \A n \in 1..N : pages[n] \in Addresses
  OBVIOUS
<1>2. AllReleased(m, pages) = f[N]
  BY DEF AllReleased, ForEach
<1>3. step \in [MemoryType \X (1..N) -> MemoryType]
  BY <1>1, MemorySteps
<1>4. PICK g \in [0..N -> MemoryType] :
        g[0] = m /\ \A n \in 1..N : g[n] = step[<<g[n - 1], n>>]
  <2> HIDE DEF step, N
  <2>1. \E g : Stepwise(g, N, MemoryType, m, step)
    BY <1>1, <1>3, Steps
  <2>2. QED
    BY <2>1 DEF Stepwise
<1>5. g = [n \in 0..N |-> IF n = 0 THEN m ELSE Released(g[n - 1], pages[n])]
  <2>1. ASSUME NEW n \in 0..N, n # 0
        PROVE  g[n] = Released(g[n - 1], pages[n])
    <3>1. n \in 1..N /\ n - 1 \in 0..N
      BY <1>1, <2>1
    <3>2. QED
      BY <3>1, <1>4
  <2>2. QED
    BY <1>4, <2>1
<1> HIDE DEF N
<1>6. f = [n \in 0..N |-> IF n = 0 THEN m ELSE Released(f[n - 1], pages[n])]
  BY <1>5
<1> HIDE DEF f
<1>7. f[0] = m /\ \A n \in 1..N : f[n] = Released(f[n - 1], pages[n])
  BY <1>1, <1>6
<1>8. QED
  BY <1>2, <1>7 DEF N

\* What the first so many elements of a sequence are.
First(sequence, n) == {sequence[i] : i \in 1..n}

LEMMA FirstProperties ==
  ASSUME NEW S, NEW sequence \in Seq(S)
  PROVE  /\ First(sequence, 0) = {}
         /\ First(sequence, Len(sequence)) = ToSet(sequence)
         /\ \A n \in 1..Len(sequence) :
              /\ First(sequence, n) = First(sequence, n - 1) \cup {sequence[n]}
              /\ First(sequence, n) \subseteq ToSet(sequence)
              /\ sequence[n] \in ToSet(sequence)
              /\ IsInjective(sequence) => sequence[n] \notin First(sequence, n - 1)
<1>1. DOMAIN sequence = 1..Len(sequence) /\ Len(sequence) \in Nat
  OBVIOUS
<1>2. First(sequence, 0) = {} /\ First(sequence, Len(sequence)) = ToSet(sequence)
  BY <1>1 DEF First, ToSet
<1>3. ASSUME NEW n \in 1..Len(sequence)
      PROVE  /\ First(sequence, n) = First(sequence, n - 1) \cup {sequence[n]}
             /\ First(sequence, n) \subseteq ToSet(sequence)
             /\ sequence[n] \in ToSet(sequence)
             /\ IsInjective(sequence) => sequence[n] \notin First(sequence, n - 1)
  <2>1. 1..n = (1..n - 1) \cup {n} /\ n \notin 1..n - 1
    OBVIOUS
  <2>2. 1..n \subseteq DOMAIN sequence
    BY <1>1
  <2>3. QED
    BY <2>1, <2>2 DEF First, ToSet, IsInjective
<1>4. QED
  BY <1>2, <1>3

LEMMA AllAllocatedTidy ==
  ASSUME NEW m, Tidy(m), NEW pages \in Seq(Addresses),
         IsInjective(pages), ToSet(pages) \cap m.live = {}
  PROVE  /\ Tidy(AllAllocated(m, pages))
         /\ AllAllocated(m, pages).live = m.live \cup ToSet(pages)
<1>1. m \in MemoryType
  BY DEF Tidy
<1>2. PICK f : /\ f[0] = m
               /\ \A n \in 1..Len(pages) : f[n] = Allocated(f[n - 1], pages[n])
               /\ f[Len(pages)] = AllAllocated(m, pages)
  BY <1>1, AllocatedInTurn
<1> DEFINE Right == {n \in 0..Len(pages) :
                       Tidy(f[n]) /\ f[n].live = m.live \cup First(pages, n)}
<1>3. 0 \in Right
  BY <1>2, FirstProperties
<1>4. ASSUME NEW n \in 1..Len(pages), n - 1 \in Right
      PROVE  n \in Right
  <2>1. Tidy(f[n - 1]) /\ f[n - 1].live = m.live \cup First(pages, n - 1)
    BY <1>4
  <2>2. /\ pages[n] \in Addresses
        /\ First(pages, n) = First(pages, n - 1) \cup {pages[n]}
        /\ pages[n] \in ToSet(pages) /\ pages[n] \notin First(pages, n - 1)
    BY FirstProperties
  <2>3. pages[n] \in Addresses \ f[n - 1].live
    BY <2>1, <2>2
  <2>4. /\ Tidy(Allocated(f[n - 1], pages[n]))
        /\ Allocated(f[n - 1], pages[n]).live = f[n - 1].live \cup {pages[n]}
    BY <2>1, <2>3, AllocatedTidy
  <2>5. f[n] = Allocated(f[n - 1], pages[n])
    BY <1>2
  <2>6. QED
    BY <2>1, <2>2, <2>4, <2>5
<1>5. 0..Len(pages) \subseteq Right
  <2> DEFINE N == Len(pages)
  <2>1. N \in Nat
    OBVIOUS
  <2>2. 0 \in Right /\ \A n \in 1..N : n - 1 \in Right => n \in Right
    BY <1>3, <1>4
  <2> HIDE DEF Right, N
  <2>3. 0..N \subseteq Right
    BY <2>1, <2>2, UpTo
  <2>4. QED
    BY <2>3 DEF N
<1>6. Len(pages) \in Nat /\ Len(pages) \in Right
  <2>1. Len(pages) \in Nat
    OBVIOUS
  <2> HIDE DEF Right
  <2>2. QED
    BY <1>5, <2>1
<1>7. QED
  BY <1>2, <1>6, FirstProperties DEF Right

LEMMA AllReleasedTidy ==
  ASSUME NEW m, Tidy(m), NEW pages \in Seq(Addresses),
         IsInjective(pages), ToSet(pages) \subseteq m.live
  PROVE  /\ Tidy(AllReleased(m, pages))
         /\ AllReleased(m, pages).live = m.live \ ToSet(pages)
<1>1. m \in MemoryType
  BY DEF Tidy
<1>2. PICK f : /\ f[0] = m
               /\ \A n \in 1..Len(pages) : f[n] = Released(f[n - 1], pages[n])
               /\ f[Len(pages)] = AllReleased(m, pages)
  BY <1>1, ReleasedInTurn
<1> DEFINE Right == {n \in 0..Len(pages) :
                       Tidy(f[n]) /\ f[n].live = m.live \ First(pages, n)}
<1>3. 0 \in Right
  BY <1>2, FirstProperties
<1>4. ASSUME NEW n \in 1..Len(pages), n - 1 \in Right
      PROVE  n \in Right
  <2>1. Tidy(f[n - 1]) /\ f[n - 1].live = m.live \ First(pages, n - 1)
    BY <1>4
  <2>2. /\ First(pages, n) = First(pages, n - 1) \cup {pages[n]}
        /\ pages[n] \in ToSet(pages) /\ pages[n] \notin First(pages, n - 1)
    BY FirstProperties
  <2>3. pages[n] \in f[n - 1].live
    BY <2>1, <2>2
  <2>4. /\ Tidy(Released(f[n - 1], pages[n]))
        /\ Released(f[n - 1], pages[n]).live = f[n - 1].live \ {pages[n]}
    BY <2>1, <2>3, ReleasedTidy
  <2>5. f[n] = Released(f[n - 1], pages[n])
    BY <1>2
  <2>6. QED
    BY <2>1, <2>2, <2>4, <2>5
<1>5. 0..Len(pages) \subseteq Right
  <2> DEFINE N == Len(pages)
  <2>1. N \in Nat
    OBVIOUS
  <2>2. 0 \in Right /\ \A n \in 1..N : n - 1 \in Right => n \in Right
    BY <1>3, <1>4
  <2> HIDE DEF Right, N
  <2>3. 0..N \subseteq Right
    BY <2>1, <2>2, UpTo
  <2>4. QED
    BY <2>3 DEF N
<1>6. Len(pages) \in Nat /\ Len(pages) \in Right
  <2>1. Len(pages) \in Nat
    OBVIOUS
  <2> HIDE DEF Right
  <2>2. QED
    BY <1>5, <2>1
<1>7. QED
  BY <1>2, <1>6, FirstProperties DEF Right

-----------------------------------------------------------------------------
(* Chains, one after another.                                              *)

LEMMA Joined ==
  ASSUME NEW E, NEW s \in Seq(E), NEW t \in Seq(E),
         IsInjective(s), IsInjective(t), ToSet(s) \cap ToSet(t) = {}
  PROVE  /\ s \o t \in Seq(E) /\ IsInjective(s \o t)
         /\ ToSet(s \o t) = ToSet(s) \cup ToSet(t)
<1> DEFINE u == s \o t
           n == Len(s)
           k == Len(t)
<1>1. n \in Nat /\ k \in Nat /\ DOMAIN s = 1..n /\ DOMAIN t = 1..k
  OBVIOUS
<1>2. u \in Seq(E) /\ Len(u) = n + k
  OBVIOUS
<1>3. \A i \in 1..n + k : u[i] = IF i <= n THEN s[i] ELSE t[i - n]
  OBVIOUS
<1>4. DOMAIN u = 1..n + k
  BY <1>2
<1> HIDE DEF u, n, k
<1>5. \A i \in 1..n + k : IF i <= n THEN i \in 1..n ELSE i - n \in 1..k
  BY <1>1
<1>6. \A i \in 1..n : i \in 1..n + k /\ u[i] = s[i]
  BY <1>1, <1>3
<1>7. \A i \in 1..k : n + i \in 1..n + k /\ u[n + i] = t[i]
  <2> SUFFICES ASSUME NEW i \in 1..k
               PROVE  n + i \in 1..n + k /\ u[n + i] = t[i]
    OBVIOUS
  <2>1. n + i \in 1..n + k /\ ~ (n + i <= n) /\ (n + i) - n = i
    BY <1>1
  <2>2. QED
    BY <2>1, <1>3
<1>8. ASSUME NEW i \in 1..n + k, NEW j \in 1..n + k, u[i] = u[j]
      PROVE  i = j
  <2>1. CASE i <= n /\ j <= n
    BY <2>1, <1>1, <1>3, <1>5, <1>8 DEF IsInjective
  <2>2. CASE ~ (i <= n) /\ ~ (j <= n)
    <3>1. i - n = j - n
      BY <2>2, <1>1, <1>3, <1>5, <1>8 DEF IsInjective
    <3>2. QED
      BY <3>1, <1>1
  <2>3. \A e, d \in 1..n + k : e <= n /\ ~ (d <= n) => u[e] # u[d]
    <3> SUFFICES ASSUME NEW e \in 1..n + k, NEW d \in 1..n + k, e <= n, ~ (d <= n)
                 PROVE  u[e] # u[d]
      OBVIOUS
    <3>1. u[e] = s[e] /\ e \in 1..n /\ u[d] = t[d - n] /\ d - n \in 1..k
      BY <1>3, <1>5
    <3>2. u[e] \in ToSet(s) /\ u[d] \in ToSet(t)
      BY <3>1, <1>1 DEF ToSet
    <3>3. QED
      BY <3>2
  <2>4. QED
    BY <2>1, <2>2, <2>3, <1>8
<1>9. ToSet(u) = ToSet(s) \cup ToSet(t)
  <2>1. ASSUME NEW a \in ToSet(u)
        PROVE  a \in ToSet(s) \cup ToSet(t)
    BY <1>1, <1>3, <1>4, <1>5 DEF ToSet
  <2>2. ASSUME NEW a \in ToSet(s) \cup ToSet(t)
        PROVE  a \in ToSet(u)
    BY <1>1, <1>4, <1>6, <1>7 DEF ToSet
  <2>3. QED
    BY <2>1, <2>2
<1>10. QED
  BY <1>2, <1>4, <1>8, <1>9 DEF IsInjective, u

(* Chains that have nothing in common are one sequence without repetition. *)
LEMMA Flattened ==
  ASSUME NEW E, NEW chains \in Seq(Seq(E)), Len(chains) # 0,
         \A n \in 1..Len(chains) : IsInjective(chains[n]),
         \A n, k \in 1..Len(chains) : n # k => ToSet(chains[n]) \cap ToSet(chains[k]) = {}
  PROVE  /\ FlattenSeq(chains) \in Seq(E) /\ IsInjective(FlattenSeq(chains))
         /\ ToSet(FlattenSeq(chains)) = UNION {ToSet(chains[n]) : n \in 1..Len(chains)}
<1> DEFINE N == Len(chains)
           f[i \in 1..N] == IF i = 1 THEN chains[i] ELSE f[i - 1] \o chains[i]
           step == [p \in Seq(E) \X (1..N) |-> p[1] \o chains[p[2]]]
           Sets(n) == {ToSet(chains[i]) : i \in 1..n}
<1>1. N \in Nat /\ N # 0 /\ \A n \in 1..N : chains[n] \in Seq(E)
  OBVIOUS
<1>2. FlattenSeq(chains) = f[N]
  BY DEF FlattenSeq
<1>3. step \in [Seq(E) \X (1..N) -> Seq(E)]
  BY <1>1
<1>4. PICK g \in [0..N -> Seq(E)] :
        g[0] = << >> /\ \A n \in 1..N : g[n] = step[<<g[n - 1], n>>]
  <2> DEFINE none == << >>
  <2>1. none \in Seq(E)
    OBVIOUS
  <2> HIDE DEF step, N, none
  <2>2. \E g : Stepwise(g, N, Seq(E), none, step)
    BY <1>1, <1>3, <2>1, Steps
  <2>3. QED
    BY <2>2 DEF Stepwise, none
<1> DEFINE h == [i \in 1..N |-> g[i]]
<1>5. ASSUME NEW n \in 1..N
      PROVE  g[n] = g[n - 1] \o chains[n] /\ g[n - 1] \in Seq(E)
  <2>1. n - 1 \in 0..N
    BY <1>1
  <2>2. g[n - 1] \in Seq(E)
    BY <2>1
  <2>3. QED
    BY <1>4, <2>2
<1> HIDE DEF N, step
<1>6. h = [i \in 1..N |-> IF i = 1 THEN chains[i] ELSE h[i - 1] \o chains[i]]
  <2>1. ASSUME NEW i \in 1..N
        PROVE  h[i] = IF i = 1 THEN chains[i] ELSE h[i - 1] \o chains[i]
    <3>1. CASE i = 1
      <4>1. i - 1 = 0 /\ chains[i] \in Seq(E)
        BY <1>1, <3>1
      <4>2. g[i] = << >> \o chains[i]
        BY <4>1, <1>4, <1>5
      <4>3. << >> \o chains[i] = chains[i]
        BY <4>1, ConcatEmptySeq
      <4>4. QED
        BY <3>1, <4>2, <4>3
    <3>2. CASE i # 1
      <4>1. i - 1 \in 1..N
        BY <1>1, <3>2
      <4>2. QED
        BY <3>2, <4>1, <1>5
    <3>3. QED
      BY <3>1, <3>2
  <2>2. QED
    BY <2>1
<1> HIDE DEF h
<1>7. f = [i \in 1..N |-> IF i = 1 THEN chains[i] ELSE f[i - 1] \o chains[i]]
  BY <1>6
<1> HIDE DEF f
<1> DEFINE Right == {n \in 0..N : n # 0 => /\ f[n] \in Seq(E) /\ IsInjective(f[n])
                                           /\ ToSet(f[n]) = UNION Sets(n)}
<1>8. 0 \in Right
  BY <1>1
<1>9. ASSUME NEW n \in 1..N, n - 1 \in Right
      PROVE  n \in Right
  <2>1. chains[n] \in Seq(E) /\ IsInjective(chains[n])
    BY <1>1 DEF N
  <2>2. CASE n = 1
    <3>1. f[n] = chains[n]
      BY <2>2, <1>7
    <3>2. Sets(1) = {ToSet(chains[1])}
      OBVIOUS
    <3>3. UNION Sets(n) = ToSet(chains[n])
      BY <3>2, <2>2
    <3>4. QED
      BY <2>1, <3>1, <3>3
  <2>3. CASE n # 1
    <3>1. n - 1 \in 1..N /\ n - 1 # 0
      BY <1>1, <2>3
    <3>2. f[n - 1] \in Seq(E) /\ IsInjective(f[n - 1]) /\ ToSet(f[n - 1]) = UNION Sets(n - 1)
      BY <3>1, <1>9
    <3>3. \A i \in 1..n - 1 : ToSet(chains[i]) \cap ToSet(chains[n]) = {}
      <4>1. ASSUME NEW i \in 1..n - 1
            PROVE  i \in 1..N /\ i # n
        BY <1>1
      <4>2. QED
        BY <4>1 DEF N
    <3>4. ToSet(f[n - 1]) \cap ToSet(chains[n]) = {}
      BY <3>2, <3>3
    <3>5. /\ f[n - 1] \o chains[n] \in Seq(E) /\ IsInjective(f[n - 1] \o chains[n])
          /\ ToSet(f[n - 1] \o chains[n]) = ToSet(f[n - 1]) \cup ToSet(chains[n])
      <4> DEFINE s == f[n - 1]
                 t == chains[n]
      <4>1. /\ s \in Seq(E) /\ t \in Seq(E) /\ IsInjective(s) /\ IsInjective(t)
            /\ ToSet(s) \cap ToSet(t) = {}
        BY <2>1, <3>2, <3>4
      <4> HIDE DEF s, t
      <4>2. /\ s \o t \in Seq(E) /\ IsInjective(s \o t)
            /\ ToSet(s \o t) = ToSet(s) \cup ToSet(t)
        BY <4>1, Joined
      <4>3. QED
        BY <4>2 DEF s, t
    <3>6. f[n] = f[n - 1] \o chains[n]
      BY <1>7, <2>3
    <3>7. 1..n = (1..n - 1) \cup {n}
      BY <1>1
    <3>8. Sets(n) = Sets(n - 1) \cup {ToSet(chains[n])}
      BY <3>7
    <3> HIDE DEF Sets
    <3>9. UNION Sets(n) = (UNION Sets(n - 1)) \cup ToSet(chains[n])
      BY <3>8
    <3>10. f[n] \in Seq(E) /\ IsInjective(f[n])
      BY <3>5, <3>6
    <3>11. ToSet(f[n]) = UNION Sets(n)
      BY <3>2, <3>5, <3>6, <3>9
    <3>12. QED
      BY <3>10, <3>11, <1>1
  <2>4. QED
    BY <2>2, <2>3
<1> HIDE DEF Right
<1>10. 0..N \subseteq Right
  BY <1>1, <1>8, <1>9, UpTo
<1>11. N \in Right
  BY <1>1, <1>10
<1>12. QED
  BY <1>1, <1>2, <1>11 DEF Right, N

-----------------------------------------------------------------------------
(* One table.  What it holds is a set of items: where they are chained is  *)
(* given by their keys.                                                    *)

Contents(table) == UNION {ToSet(table.items[b]) : b \in 0..table.size - 1}

(* Its fields have their types, every item is in the bucket of its key, and *)
(* no key is twice in a bucket.                                            *)
Chained(table) ==
  /\ table.size \in Sizes /\ table \in TableType(table.size)
  /\ \A b \in 0..table.size - 1 :
       /\ \A x \in ToSet(table.items[b]) : Bucket(table, x.key) = b
       /\ \A i, j \in 1..Len(table.items[b]) :
            table.items[b][i].key = table.items[b][j].key => i = j

LEMMA TableFields ==
  ASSUME NEW table, Chained(table)
  PROVE  /\ table.size \in Nat /\ table.size # 0
         /\ table.page \in Addresses /\ table.count \in Nat
         /\ table.items \in [0..table.size - 1 -> Seq(ItemType)]
         /\ table = [page |-> table.page, size |-> table.size, count |-> table.count,
                     items |-> table.items]
<1>1. table.size \in Nat /\ table.size # 0
  BY TablesAssumption DEF Chained
<1>2. table \in TableType(table.size)
  BY DEF Chained
<1> QED
  BY <1>1, <1>2 DEF TableType

LEMMA Buckets ==
  ASSUME NEW size \in Sizes, NEW key \in Keys
  PROVE  Hash[key] % size \in 0..size - 1
<1>1. size \in Nat /\ size # 0 /\ Hash[key] \in Nat
  BY TablesAssumption
<1> DEFINE h == Hash[key]
<1> HIDE DEF h
<1>2. h \in Nat => h % size \in 0..size - 1
  BY <1>1
<1>3. QED
  BY <1>1, <1>2 DEF h

LEMMA Held ==
  ASSUME NEW table, Chained(table), NEW b \in 0..table.size - 1
  PROVE  /\ table.items[b] \in Seq(ItemType)
         /\ DOMAIN table.items[b] = 1..Len(table.items[b])
         /\ ToSet(table.items[b]) \subseteq Contents(table)
         /\ \A i \in 1..Len(table.items[b]) :
              /\ table.items[b][i] \in ToSet(table.items[b])
              /\ table.items[b][i] \in ItemType
<1>1. table.items[b] \in Seq(ItemType)
  BY TableFields
<1>2. DOMAIN table.items[b] = 1..Len(table.items[b])
  BY <1>1
<1>3. QED
  BY <1>1, <1>2 DEF Contents, ToSet

LEMMA KeysTell ==
  ASSUME NEW table, Chained(table)
  PROVE  /\ Contents(table) \subseteq ItemType
         /\ \A x \in Contents(table) :
              /\ Bucket(table, x.key) \in 0..table.size - 1
              /\ x \in ToSet(table.items[Bucket(table, x.key)])
         /\ \A x, y \in Contents(table) : x.key = y.key => x = y
<1>1. \A x \in Contents(table) : \E b \in 0..table.size - 1 : x \in ToSet(table.items[b])
  BY DEF Contents
<1>2. ASSUME NEW x \in Contents(table)
      PROVE  x \in ItemType
  <2>1. PICK b \in 0..table.size - 1 : x \in ToSet(table.items[b])
    BY <1>1
  <2>2. PICK i \in 1..Len(table.items[b]) : x = table.items[b][i]
    BY <2>1, Held DEF ToSet
  <2>3. QED
    BY <2>2, Held
<1>3. ASSUME NEW x \in Contents(table)
      PROVE  /\ Bucket(table, x.key) \in 0..table.size - 1
             /\ x \in ToSet(table.items[Bucket(table, x.key)])
  <2>1. PICK b \in 0..table.size - 1 : x \in ToSet(table.items[b])
    BY <1>1
  <2>2. Bucket(table, x.key) = b
    BY <2>1 DEF Chained
  <2>3. QED
    BY <2>1, <2>2
<1>4. ASSUME NEW x \in Contents(table), NEW y \in Contents(table), x.key = y.key
      PROVE  x = y
  <2> DEFINE b == Bucket(table, x.key)
  <2>1. b \in 0..table.size - 1 /\ x \in ToSet(table.items[b]) /\ y \in ToSet(table.items[b])
    BY <1>3, <1>4
  <2> HIDE DEF b
  <2>2. PICK i \in 1..Len(table.items[b]), j \in 1..Len(table.items[b]) :
          x = table.items[b][i] /\ y = table.items[b][j]
    BY <2>1, Held DEF ToSet
  <2>3. i = j
    BY <1>4, <2>1, <2>2 DEF Chained
  <2>4. QED
    BY <2>2, <2>3
<1>5. QED
  BY <1>2, <1>3, <1>4

(* Searching a bucket finds the item with the key if there is one.         *)
LEMMA Found ==
  ASSUME NEW table, Chained(table), NEW key \in Keys
  PROVE  /\ Bucket(table, key) \in 0..table.size - 1
         /\ PlaceOf(table, key) # 0 =>
              /\ PlaceOf(table, key) \in 1..Len(table.items[Bucket(table, key)])
              /\ ItemWith(table, key) \in Contents(table)
              /\ ItemWith(table, key).key = key
         /\ PlaceOf(table, key) = 0 => \A x \in Contents(table) : x.key # key
<1> DEFINE b == Bucket(table, key)
           chain == table.items[b]
           I == {i \in 1..Len(chain) : chain[i].key = key}
<1>1. b \in 0..table.size - 1
  BY Buckets DEF Bucket, Chained
<1>2. PlaceOf(table, key) = IF I # {} THEN CHOOSE x \in I : \A y \in I : x <= y ELSE 0
  BY DEF PlaceOf, SelectInSeq, Min
<1>3. chain \in Seq(ItemType)
  BY <1>1, Held
<1>4. CASE I # {}
  <2>1. I \subseteq 1..Len(chain) /\ I \subseteq Nat
    BY <1>3
  <2>2. \E x \in I : \A y \in I : x <= y
    <3> HIDE DEF I
    <3>1. QED
      BY <1>4, <2>1, Least
  <2>3. PlaceOf(table, key) \in I
    <3> HIDE DEF I
    <3>1. QED
      BY <1>2, <1>4, <2>2
  <2>4. PlaceOf(table, key) \in 1..Len(chain) /\ chain[PlaceOf(table, key)].key = key
    BY <2>3
  <2>5. PlaceOf(table, key) # 0
    BY <2>4
  <2>6. chain[PlaceOf(table, key)] \in Contents(table)
    BY <2>4, <1>1, Held
  <2>7. QED
    BY <1>1, <2>4, <2>5, <2>6 DEF ItemWith
<1>5. CASE I = {}
  <2>1. PlaceOf(table, key) = 0
    BY <1>2, <1>5
  <2>2. ASSUME NEW x \in Contents(table)
        PROVE  x.key # key
    <3>1. SUFFICES ASSUME x.key = key
                   PROVE  FALSE
      OBVIOUS
    <3>2. x \in ToSet(chain)
      BY <3>1, KeysTell
    <3>3. PICK i \in 1..Len(chain) : x = chain[i]
      BY <1>1, <3>2, Held DEF ToSet
    <3>4. QED
      BY <3>1, <3>3, <1>5
  <2>3. QED
    BY <1>1, <2>1, <2>2
<1>6. QED
  BY <1>4, <1>5

\* What a table answers depends on what it holds.
LEMMA GetTells ==
  ASSUME NEW table, Chained(table), NEW key \in Keys
  PROVE  /\ \A x \in Contents(table) : x.key = key => Get(table, key) = x.page
         /\ (\A x \in Contents(table) : x.key # key) => Get(table, key) = NULL
         /\ Get(table, key) # NULL =>
              /\ ItemWith(table, key) \in Contents(table)
              /\ ItemWith(table, key).key = key
              /\ Get(table, key) = ItemWith(table, key).page
         /\ PlaceOf(table, key) = 0 <=> Get(table, key) = NULL
<1>1. ItemWith(table, key) \in Contents(table) => ItemWith(table, key).page # NULL
  BY KeysTell, AddressesAssumption DEF ItemType
<1>2. QED
  BY <1>1, Found, KeysTell DEF Get

\* The fields of a table but its items and its count.
SameTable(table, other) == table.page = other.page /\ table.size = other.size

LEMMA NewTableIsEmpty ==
  ASSUME NEW page \in Addresses, NEW size \in Sizes
  PROVE  /\ Chained(NewTable(page, size)) /\ Contents(NewTable(page, size)) = {}
         /\ NewTable(page, size).page = page /\ NewTable(page, size).size = size
<1> DEFINE table == NewTable(page, size)
<1>1. /\ table.page = page /\ table.size = size /\ table.count = 0
      /\ table.items = [b \in 0..size - 1 |-> << >>]
  BY DEF NewTable
<1>2. << >> \in Seq(ItemType)
  OBVIOUS
<1>3. table \in TableType(table.size)
  BY <1>1, <1>2 DEF NewTable, TableType
<1> HIDE DEF table
<1>4. \A b \in 0..table.size - 1 : table.items[b] = << >>
  BY <1>1
<1>5. \A b \in 0..table.size - 1 : ToSet(table.items[b]) = {} /\ Len(table.items[b]) = 0
  BY <1>4 DEF ToSet
<1>6. Chained(table)
  BY <1>1, <1>3, <1>5 DEF Chained
<1>7. Contents(table) = {}
  BY <1>5 DEF Contents
<1>8. QED
  BY <1>1, <1>6, <1>7 DEF table

\* A bucket is changed, and with it what it holds.
LEMMA OneBucket ==
  ASSUME NEW table, Chained(table), NEW b \in 0..table.size - 1, NEW chain \in Seq(ItemType),
         \A x \in ToSet(chain) : Bucket(table, x.key) = b,
         \A i, j \in 1..Len(chain) : chain[i].key = chain[j].key => i = j,
         NEW other, other \in TableType(table.size), SameTable(other, table),
         \A c \in 0..table.size - 1 : other.items[c] = IF c = b THEN chain ELSE table.items[c]
  PROVE  /\ Chained(other)
         /\ Contents(other) = {x \in Contents(table) : x \notin ToSet(table.items[b])}
                              \cup ToSet(chain)
<1>1. other.size = table.size /\ other.size \in Sizes /\ other \in TableType(other.size)
  BY DEF SameTable, Chained
<1>2. \A key : Bucket(other, key) = Bucket(table, key)
  BY <1>1 DEF Bucket
<1>3. \A c \in 0..table.size - 1 : other.items[c] = IF c = b THEN chain ELSE table.items[c]
  OBVIOUS
<1>4. Chained(other)
  <2>1. ASSUME NEW c \in 0..other.size - 1
        PROVE  /\ \A x \in ToSet(other.items[c]) : Bucket(other, x.key) = c
               /\ \A i, j \in 1..Len(other.items[c]) :
                    other.items[c][i].key = other.items[c][j].key => i = j
    <3>1. c \in 0..table.size - 1
      BY <1>1
    <3>2. CASE c = b
      BY <3>1, <3>2, <1>2, <1>3
    <3>3. CASE c # b
      BY <3>1, <3>3, <1>2, <1>3 DEF Chained
    <3>4. QED
      BY <3>2, <3>3
  <2>2. QED
    BY <1>1, <2>1 DEF Chained
<1>5. ASSUME NEW x
      PROVE  x \in Contents(other) <=>
               x \in {y \in Contents(table) : y \notin ToSet(table.items[b])} \cup ToSet(chain)
  <2>1. x \in Contents(other) <=> \E c \in 0..table.size - 1 : x \in ToSet(other.items[c])
    BY <1>1 DEF Contents
  <2>2. x \in Contents(table) <=> \E c \in 0..table.size - 1 : x \in ToSet(table.items[c])
    BY DEF Contents
  <2>3. \A c \in 0..table.size - 1 :
          x \in ToSet(table.items[c]) /\ x \in ToSet(table.items[b]) => c = b
    BY DEF Chained
  <2>4. QED
    BY <2>1, <2>2, <2>3, <1>3
<1>6. QED
  BY <1>4, <1>5

LEMMA AppendedHolds ==
  ASSUME NEW table, Chained(table), NEW item \in ItemType,
         \A x \in Contents(table) : x.key # item.key
  PROVE  /\ Chained(Appended(table, item))
         /\ Contents(Appended(table, item)) = Contents(table) \cup {item}
         /\ SameTable(Appended(table, item), table)
         /\ Appended(table, item).count = table.count
<1> DEFINE b == Bucket(table, item.key)
           old == table.items[b]
           chain == Append(old, item)
           other == Appended(table, item)
<1>1. item.key \in Keys /\ b \in 0..table.size - 1
  BY Buckets DEF Bucket, Chained, ItemType
<1>2. old \in Seq(ItemType) /\ chain \in Seq(ItemType)
  BY <1>1, Held
<1>3. /\ other.page = table.page /\ other.size = table.size
      /\ other.count = table.count
      /\ other.items = [table.items EXCEPT ![b] = chain]
      /\ other \in TableType(table.size)
  <2> DEFINE items == [table.items EXCEPT ![b] = chain]
  <2>1. other = [table EXCEPT !.items = items]
    BY DEF Appended
  <2>2. items \in [0..table.size - 1 -> Seq(ItemType)]
    BY <1>1, <1>2, TableFields
  <2>3. table \in TableType(table.size)
    BY DEF Chained
  <2> HIDE DEF other, items
  <2>4. QED
    BY <2>1, <2>2, <2>3 DEF TableType, items
<1>5. other \in TableType(table.size)
  BY <1>3
<1> HIDE DEF other
<1>6. /\ Len(chain) = Len(old) + 1 /\ Len(old) \in Nat
      /\ \A i \in 1..Len(chain) : chain[i] = IF i = Len(old) + 1 THEN item ELSE old[i]
  BY <1>2
<1>7. ToSet(chain) = ToSet(old) \cup {item}
  <2>1. DOMAIN old = 1..Len(old) /\ DOMAIN chain = 1..Len(chain)
    BY <1>2
  <2> HIDE DEF chain, old
  <2>2. 1..Len(chain) = (1..Len(old)) \cup {Len(old) + 1} /\ Len(old) + 1 \notin 1..Len(old)
    BY <1>6
  <2>3. QED
    BY <2>1, <2>2, <1>6 DEF ToSet
<1>8. \A x \in ToSet(old) : x \in Contents(table) /\ Bucket(table, x.key) = b
  BY <1>1, Held DEF Chained
<1>9. \A x \in ToSet(chain) : Bucket(table, x.key) = b
  BY <1>7, <1>8
<1>10. ASSUME NEW i \in 1..Len(chain), NEW j \in 1..Len(chain), chain[i].key = chain[j].key
       PROVE  i = j
  <2>1. \A n \in 1..Len(old) : old[n].key # item.key
    BY <1>1, <1>8, Held
  <2>2. \A n, m \in 1..Len(old) : old[n].key = old[m].key => n = m
    BY <1>1 DEF Chained
  <2> HIDE DEF chain, old
  <2>3. \A n \in 1..Len(chain) : n # Len(old) + 1 => n \in 1..Len(old)
    BY <1>6
  <2>4. QED
    BY <1>6, <1>10, <2>1, <2>2, <2>3
<1>11. SameTable(other, table)
  BY <1>3 DEF SameTable
<1>12. /\ Chained(other)
       /\ Contents(other) = {x \in Contents(table) : x \notin ToSet(old)} \cup ToSet(chain)
  <2>1. \A c \in 0..table.size - 1 : other.items[c] = IF c = b THEN chain ELSE table.items[c]
    BY <1>3, TableFields
  <2>2. \A i, j \in 1..Len(chain) : chain[i].key = chain[j].key => i = j
    BY <1>10
  <2>3. b \in 0..table.size - 1 /\ chain \in Seq(ItemType)
    BY <1>1, <1>2
  <2> HIDE DEF b, chain
  <2>4. QED
    BY <1>5, <1>9, <1>11, <2>1, <2>2, <2>3, OneBucket
<1>13. Contents(other) = Contents(table) \cup {item}
  BY <1>7, <1>8, <1>12
<1>14. QED
  BY <1>3, <1>11, <1>12, <1>13 DEF other

LEMMA WithoutHolds ==
  ASSUME NEW table, Chained(table), NEW key \in Keys, PlaceOf(table, key) # 0
  PROVE  /\ Chained(Without(table, key))
         /\ Contents(Without(table, key)) = Contents(table) \ {ItemWith(table, key)}
         /\ SameTable(Without(table, key), table)
<1> DEFINE b == Bucket(table, key)
           old == table.items[b]
           at == PlaceOf(table, key)
           item == ItemWith(table, key)
           chain == RemoveAt(old, at)
           other == Without(table, key)
           n == Len(old)
<1>1. /\ b \in 0..table.size - 1 /\ at \in 1..n
      /\ item \in Contents(table) /\ item.key = key /\ item = old[at]
  BY Found DEF ItemWith
<1>2. old \in Seq(ItemType) /\ n \in Nat /\ DOMAIN old = 1..n
  <2>1. old \in Seq(ItemType)
    BY <1>1, Held
  <2> HIDE DEF old
  <2>2. QED
    BY <2>1
<1> DEFINE s == SubSeq(old, 1, at - 1)
           t == SubSeq(old, at + 1, n)
           Was(i) == IF i < at THEN i ELSE i + 1
<1>3. chain = s \o t
  BY DEF RemoveAt
<1> HIDE DEF old, at
<1>4. /\ s \in Seq(ItemType) /\ Len(s) = at - 1
      /\ \A i \in 1..at - 1 : s[i] = old[i]
  BY <1>1, <1>2
<1>5. /\ t \in Seq(ItemType) /\ Len(t) = n - at
      /\ \A i \in 1..n - at : t[i] = old[at + i]
  <2>1. at + 1 \in 1..n + 1 /\ n \in at + 1 - 1..n
    BY <1>1, <1>2
  <2>2. /\ t \in Seq(ItemType) /\ Len(t) = n - (at + 1) + 1
        /\ \A i \in 1..n - (at + 1) + 1 : t[i] = old[(at + 1) + i - 1]
    BY <1>2, <2>1, SubSeqProperties
  <2>3. n - (at + 1) + 1 = n - at
    BY <1>1, <1>2
  <2>4. \A i \in 1..n - at : (at + 1) + i - 1 = at + i
    BY <1>1, <1>2
  <2> HIDE DEF n, t
  <2>5. QED
    BY <2>2, <2>3, <2>4
<1> HIDE DEF s, t, chain, n
<1>6. /\ chain \in Seq(ItemType) /\ Len(chain) = n - 1
      /\ \A i \in 1..n - 1 : chain[i] = old[Was(i)]
  <2>1. chain \in Seq(ItemType) /\ Len(chain) = Len(s) + Len(t)
    <3>1. s \in Seq(ItemType) /\ t \in Seq(ItemType)
      BY <1>4, <1>5
    <3>2. QED
      BY <3>1, <1>3
  <2>2. \A i \in 1..Len(s) + Len(t) : chain[i] = IF i <= Len(s) THEN s[i] ELSE t[i - Len(s)]
    BY <1>3, <1>4, <1>5
  <2>3. Len(s) + Len(t) = n - 1
    BY <1>1, <1>2, <1>4, <1>5
  <2>4. ASSUME NEW i \in 1..n - 1
        PROVE  chain[i] = old[Was(i)]
    <3>1. CASE i < at
      <4>1. i <= Len(s) /\ i \in 1..at - 1
        BY <3>1, <1>1, <1>2, <1>4
      <4>2. QED
        BY <4>1, <3>1, <2>2, <2>3, <1>4
    <3>2. CASE ~ (i < at)
      <4>1. ~ (i <= Len(s)) /\ i - Len(s) \in 1..n - at /\ at + (i - Len(s)) = i + 1
        BY <3>2, <1>1, <1>2, <1>4
      <4>2. QED
        BY <4>1, <3>2, <2>2, <2>3, <1>5
    <3>3. QED
      BY <3>1, <3>2
  <2>5. QED
    BY <2>1, <2>3, <2>4
<1>7. DOMAIN chain = 1..n - 1
  BY <1>6
<1>8. \A i \in 1..n - 1 : Was(i) \in 1..n /\ Was(i) # at
  BY <1>1, <1>2
<1>9. \A i, j \in 1..n - 1 : Was(i) = Was(j) => i = j
  BY <1>1, <1>2
<1>10. \A k \in 1..n : k # at => \E i \in 1..n - 1 : Was(i) = k
  <2> SUFFICES ASSUME NEW k \in 1..n, k # at
               PROVE  \E i \in 1..n - 1 : Was(i) = k
    OBVIOUS
  <2>1. CASE k < at
    BY <1>1, <1>2, <2>1
  <2>2. CASE k > at
    <3>1. k - 1 \in 1..n - 1 /\ Was(k - 1) = k
      BY <1>1, <1>2, <2>2
    <3>2. QED
      BY <3>1
  <2>3. QED
    BY <1>1, <1>2, <2>1, <2>2
<1> HIDE DEF Was
<1>11. \A i, j \in 1..n : old[i].key = old[j].key => i = j
  BY <1>1 DEF Chained, old, n
<1>12. \A x \in ToSet(old) : Bucket(table, x.key) = b /\ x \in Contents(table)
  BY <1>1, Held DEF Chained, old
<1>13. ToSet(chain) = ToSet(old) \ {item}
  <2>1. ASSUME NEW x \in ToSet(chain)
        PROVE  x \in ToSet(old) \ {item}
    <3>1. PICK i \in 1..n - 1 : x = old[Was(i)]
      BY <1>6, <1>7 DEF ToSet
    <3>2. x \in ToSet(old)
      BY <3>1, <1>2, <1>8 DEF ToSet
    <3>3. x # item
      BY <3>1, <1>1, <1>8, <1>11
    <3>4. QED
      BY <3>2, <3>3
  <2>2. ASSUME NEW x \in ToSet(old) \ {item}
        PROVE  x \in ToSet(chain)
    <3>1. PICK k \in 1..n : x = old[k]
      BY <1>2 DEF ToSet
    <3>2. PICK i \in 1..n - 1 : Was(i) = k
      BY <3>1, <1>1, <1>10
    <3>3. QED
      BY <3>1, <3>2, <1>6, <1>7 DEF ToSet
  <2>3. QED
    BY <2>1, <2>2
<1>14. item \in ToSet(old)
  BY <1>1, <1>2 DEF ToSet
<1>15. /\ other.page = table.page /\ other.size = table.size
       /\ other.items = [table.items EXCEPT ![b] = chain]
       /\ other \in TableType(table.size)
  <2> DEFINE items == [table.items EXCEPT ![b] = chain]
  <2>1. other = [table EXCEPT !.items = items]
    BY TableFields DEF Without, chain, old, at
  <2>2. items \in [0..table.size - 1 -> Seq(ItemType)]
    BY <1>1, <1>6, TableFields
  <2>3. table \in TableType(table.size)
    BY DEF Chained
  <2> HIDE DEF other, items
  <2>4. QED
    BY <2>1, <2>2, <2>3 DEF TableType, items
<1> HIDE DEF other, b
<1>16. SameTable(other, table) /\ other \in TableType(table.size)
  BY <1>15 DEF SameTable
<1>17. \A c \in 0..table.size - 1 : other.items[c] = IF c = b THEN chain ELSE table.items[c]
  BY <1>15, TableFields
<1>18. \A i, j \in 1..Len(chain) : chain[i].key = chain[j].key => i = j
  BY <1>6, <1>8, <1>9, <1>11
<1>19. \A x \in ToSet(chain) : Bucket(table, x.key) = b
  BY <1>12, <1>13
<1>20. /\ Chained(other)
       /\ Contents(other) = {x \in Contents(table) : x \notin ToSet(table.items[b])}
                            \cup ToSet(chain)
  BY <1>1, <1>6, <1>16, <1>17, <1>18, <1>19, OneBucket
<1>21. Contents(other) = Contents(table) \ {item}
  BY <1>12, <1>13, <1>14, <1>20 DEF old
<1>22. QED
  BY <1>15, <1>16, <1>20, <1>21 DEF other

\* Going through the buckets finds every item once.
LEMMA ItemsInOrder ==
  ASSUME NEW table, Chained(table)
  PROVE  /\ ItemsOf(table) \in Seq(ItemType) /\ IsInjective(ItemsOf(table))
         /\ ToSet(ItemsOf(table)) = Contents(table)
<1> DEFINE N == table.size
           chains == [n \in 1..N |-> table.items[n - 1]]
<1>1. N \in Nat /\ N # 0
  BY TableFields
<1>2. ASSUME NEW n \in 1..N
      PROVE  /\ n - 1 \in 0..N - 1 /\ chains[n] = table.items[n - 1]
             /\ chains[n] \in Seq(ItemType) /\ IsInjective(chains[n])
  <2>1. n - 1 \in 0..N - 1
    BY <1>1
  <2>2. chains[n] \in Seq(ItemType)
    BY <2>1, Held
  <2>3. \A i, j \in 1..Len(chains[n]) : chains[n][i].key = chains[n][j].key => i = j
    BY <2>1 DEF Chained
  <2>4. DOMAIN chains[n] = 1..Len(chains[n])
    BY <2>1, Held
  <2>5. QED
    BY <2>1, <2>2, <2>3, <2>4 DEF IsInjective
<1>3. chains \in Seq(Seq(ItemType)) /\ Len(chains) = N
  <2>1. chains \in [1..N -> Seq(ItemType)]
    BY <1>2
  <2> HIDE DEF chains, N
  <2>2. QED
    BY <1>1, <2>1
<1>4. \A n, k \in 1..N : n # k => ToSet(chains[n]) \cap ToSet(chains[k]) = {}
  <2> SUFFICES ASSUME NEW n \in 1..N, NEW k \in 1..N,
                      NEW x \in ToSet(chains[n]) \cap ToSet(chains[k])
               PROVE  n = k
    OBVIOUS
  <2>1. Bucket(table, x.key) = n - 1 /\ Bucket(table, x.key) = k - 1
    BY <1>2 DEF Chained
  <2>2. QED
    BY <2>1, <1>1
<1>5. ItemsOf(table) = FlattenSeq(chains)
  BY DEF ItemsOf
<1>6. UNION {ToSet(chains[n]) : n \in 1..N} = Contents(table)
  <2>1. ASSUME NEW x \in Contents(table)
        PROVE  x \in UNION {ToSet(chains[n]) : n \in 1..N}
    <3>1. PICK b \in 0..N - 1 : x \in ToSet(table.items[b])
      BY DEF Contents
    <3>2. b + 1 \in 1..N /\ (b + 1) - 1 = b
      BY <1>1
    <3>3. x \in ToSet(chains[b + 1])
      BY <3>1, <3>2, <1>2
    <3>4. QED
      BY <3>2, <3>3
  <2>2. ASSUME NEW n \in 1..N, NEW x \in ToSet(chains[n])
        PROVE  x \in Contents(table)
    BY <1>2 DEF Contents
  <2>3. QED
    BY <2>1, <2>2
<1> HIDE DEF chains, N
<1>7. /\ FlattenSeq(chains) \in Seq(ItemType) /\ IsInjective(FlattenSeq(chains))
      /\ ToSet(FlattenSeq(chains)) = UNION {ToSet(chains[n]) : n \in 1..Len(chains)}
  BY <1>1, <1>2, <1>3, <1>4, Flattened
<1>8. QED
  BY <1>3, <1>5, <1>6, <1>7

(* The pages of a table are its own.                                       *)
Distinct(items, page) ==
  \A x \in items :
    /\ x.page # page /\ x.key_page # page
    /\ \A y \in items : /\ x.page # y.key_page
                        /\ x.page = y.page => x = y
                        /\ x.key_page = y.key_page => x = y

PagesOfItems(items) == {x.page : x \in items} \cup {x.key_page : x \in items}
Owns(table) == PagesOfItems(Contents(table)) \cup {table.page}

LEMMA PagesOnce ==
  ASSUME NEW items \in Seq(ItemType), IsInjective(items),
         NEW page, Distinct(ToSet(items), page)
  PROVE  /\ PagesInOrder(items) \in Seq(Addresses) /\ IsInjective(PagesInOrder(items))
         /\ ToSet(PagesInOrder(items)) = PagesOfItems(ToSet(items))
<1> DEFINE n == Len(items)
           pages == PagesInOrder(items)
<1>1. n \in Nat /\ DOMAIN items = 1..n /\ \A i \in 1..n : items[i] \in ItemType
  OBVIOUS
<1>2. pages = [k \in 1..2 * n |-> IF k % 2 = 1 THEN items[(k + 1) \div 2].key_page
                                  ELSE items[k \div 2].page]
  BY DEF PagesInOrder
<1>3. \A k \in 1..2 * n :
        IF k % 2 = 1 THEN (k + 1) \div 2 \in 1..n /\ k = 2 * ((k + 1) \div 2) - 1
        ELSE k \div 2 \in 1..n /\ k = 2 * (k \div 2)
  <2> HIDE DEF n
  <2>1. QED
    BY <1>1
<1>4. \A i \in 1..n : /\ 2 * i - 1 \in 1..2 * n /\ (2 * i - 1) % 2 = 1
                      /\ ((2 * i - 1) + 1) \div 2 = i
                      /\ 2 * i \in 1..2 * n /\ (2 * i) % 2 # 1 /\ (2 * i) \div 2 = i
  <2> HIDE DEF n
  <2>1. QED
    BY <1>1
<1> HIDE DEF n, pages
<1>5. \A i \in 1..n : /\ items[i] \in ToSet(items)
                      /\ items[i].page \in Addresses /\ items[i].key_page \in Addresses
  BY <1>1 DEF ToSet, ItemType
<1>6. DOMAIN pages = 1..2 * n /\ pages \in [1..2 * n -> Addresses]
  BY <1>2, <1>3, <1>5
<1>7. pages \in Seq(Addresses)
  <2>1. 2 * n \in Nat
    BY <1>1
  <2>2. QED
    BY <1>6, <2>1
<1>8. \A i \in 1..n : pages[2 * i - 1] = items[i].key_page /\ pages[2 * i] = items[i].page
  BY <1>2, <1>4
<1>9. \A k \in 1..2 * n : \E i \in 1..n : k = 2 * i - 1 \/ k = 2 * i
  BY <1>3
<1>10. ASSUME NEW k \in 1..2 * n, NEW m \in 1..2 * n, pages[k] = pages[m]
       PROVE  k = m
  <2>1. PICK i \in 1..n : k = 2 * i - 1 \/ k = 2 * i
    BY <1>9
  <2>2. PICK j \in 1..n : m = 2 * j - 1 \/ m = 2 * j
    BY <1>9
  <2>3. \A a, b \in 1..n : /\ items[a].page # items[b].key_page
                           /\ items[a].page = items[b].page => a = b
                           /\ items[a].key_page = items[b].key_page => a = b
    BY <1>1, <1>5 DEF Distinct, IsInjective
  <2>4. /\ pages[2 * i - 1] = items[i].key_page /\ pages[2 * i] = items[i].page
        /\ pages[2 * j - 1] = items[j].key_page /\ pages[2 * j] = items[j].page
    BY <1>8
  <2>5. CASE k = 2 * i /\ m = 2 * j
    BY <2>3, <2>4, <2>5, <1>10
  <2>6. CASE k = 2 * i - 1 /\ m = 2 * j - 1
    BY <2>3, <2>4, <2>6, <1>10
  <2>7. CASE k = 2 * i /\ m = 2 * j - 1
    BY <2>3, <2>4, <2>7, <1>10
  <2>8. CASE k = 2 * i - 1 /\ m = 2 * j
    BY <2>3, <2>4, <2>8, <1>10
  <2>9. QED
    BY <2>1, <2>2, <2>5, <2>6, <2>7, <2>8
<1>11. ToSet(pages) = PagesOfItems(ToSet(items))
  <2>1. ASSUME NEW a \in ToSet(pages)
        PROVE  a \in PagesOfItems(ToSet(items))
    <3>1. PICK k \in 1..2 * n : a = pages[k]
      BY <1>6 DEF ToSet
    <3>2. PICK i \in 1..n : k = 2 * i - 1 \/ k = 2 * i
      BY <1>9
    <3>3. a = items[i].page \/ a = items[i].key_page
      BY <3>1, <3>2, <1>8
    <3>4. QED
      BY <3>3, <1>5 DEF PagesOfItems
  <2>2. ASSUME NEW x \in ToSet(items)
        PROVE  x.page \in ToSet(pages) /\ x.key_page \in ToSet(pages)
    <3>1. PICK i \in 1..n : x = items[i]
      BY <1>1 DEF ToSet
    <3>2. QED
      BY <3>1, <1>4, <1>6, <1>8 DEF ToSet
  <2>3. QED
    BY <2>1, <2>2 DEF PagesOfItems
<1>12. QED
  BY <1>6, <1>7, <1>10, <1>11 DEF IsInjective, pages

LEMMA PagesOfTable ==
  ASSUME NEW table, Chained(table), Distinct(Contents(table), table.page)
  PROVE  /\ PagesInOrder(ItemsOf(table)) \in Seq(Addresses)
         /\ IsInjective(PagesInOrder(ItemsOf(table)))
         /\ ToSet(PagesInOrder(ItemsOf(table))) = Owns(table) \ {table.page}
         /\ PagesOf(table) \in Seq(Addresses) /\ IsInjective(PagesOf(table))
         /\ ToSet(PagesOf(table)) = Owns(table)
<1> DEFINE items == ItemsOf(table)
           pages == PagesInOrder(items)
           page == table.page
<1>1. items \in Seq(ItemType) /\ IsInjective(items) /\ ToSet(items) = Contents(table)
  BY ItemsInOrder
<1>2. page \in Addresses
  BY TableFields
<1>3. Distinct(ToSet(items), page)
  BY <1>1
<1>4. PagesOf(table) = Append(pages, page)
  BY DEF PagesOf
<1> HIDE DEF items
<1>5. /\ pages \in Seq(Addresses) /\ IsInjective(pages)
      /\ ToSet(pages) = PagesOfItems(ToSet(items))
  BY <1>1, <1>3, PagesOnce
<1>6. page \notin ToSet(pages)
  BY <1>3, <1>5 DEF Distinct, PagesOfItems
<1>7. Owns(table) = ToSet(pages) \cup {page}
  BY <1>1, <1>5 DEF Owns
<1> DEFINE last == <<page>>
<1>8. last \in Seq(Addresses) /\ IsInjective(last) /\ ToSet(last) = {page}
  BY <1>2 DEF IsInjective, ToSet
<1>9. Append(pages, page) = pages \o last
  <2> HIDE DEF pages, page
  <2>1. QED
    BY <1>2, <1>5, AppendIsConcat
<1> HIDE DEF last, pages, page
<1>10. /\ pages \o last \in Seq(Addresses) /\ IsInjective(pages \o last)
       /\ ToSet(pages \o last) = ToSet(pages) \cup ToSet(last)
  <2>1. ToSet(pages) \cap ToSet(last) = {}
    BY <1>6, <1>8
  <2>2. QED
    BY <1>5, <1>8, <2>1, Joined
<1>11. QED
  BY <1>4, <1>5, <1>6, <1>7, <1>8, <1>9, <1>10 DEF items, pages, page

LEMMA AppendedType ==
  ASSUME NEW size \in Sizes, NEW table \in TableType(size), NEW item \in ItemType
  PROVE  Appended(table, item) \in TableType(size)
<1> DEFINE b == Bucket(table, item.key)
           chain == Append(table.items[b], item)
           items == [table.items EXCEPT ![b] = chain]
<1>1. b \in 0..size - 1 /\ table.items \in [0..size - 1 -> Seq(ItemType)]
  BY Buckets DEF Bucket, TableType, ItemType
<1> HIDE DEF b
<1>2. chain \in Seq(ItemType)
  <2>1. table.items[b] \in Seq(ItemType)
    BY <1>1
  <2>2. QED
    BY <2>1, AppendProperties
<1> HIDE DEF chain
<1>3. items \in [0..size - 1 -> Seq(ItemType)]
  BY <1>1, <1>2
<1>4. Appended(table, item) = [table EXCEPT !.items = items]
  BY DEF Appended, b, chain
<1> HIDE DEF items
<1>5. QED
  BY <1>3, <1>4 DEF TableType

LEMMA AppendedInTurn ==
  ASSUME NEW size \in Sizes, NEW table \in TableType(size), NEW items \in Seq(ItemType)
  PROVE  \E f : /\ f[0] = table
                /\ \A n \in 1..Len(items) : f[n] = Appended(f[n - 1], items[n])
                /\ f[Len(items)] = ForEach(Appended, table, items)
<1> DEFINE N == Len(items)
           f[n \in 0..N] == IF n = 0 THEN table ELSE Appended(f[n - 1], items[n])
           step == [p \in TableType(size) \X (1..N) |-> Appended(p[1], items[p[2]])]
<1>1. N \in Nat /\ \A n \in 1..N : items[n] \in ItemType
  OBVIOUS
<1>2. ForEach(Appended, table, items) = f[N]
  BY DEF ForEach
<1>3. step \in [TableType(size) \X (1..N) -> TableType(size)]
  BY <1>1, AppendedType
<1>4. PICK g \in [0..N -> TableType(size)] :
        g[0] = table /\ \A n \in 1..N : g[n] = step[<<g[n - 1], n>>]
  <2> HIDE DEF step, N
  <2>1. \E g : Stepwise(g, N, TableType(size), table, step)
    BY <1>1, <1>3, Steps
  <2>2. QED
    BY <2>1 DEF Stepwise
<1>5. g = [n \in 0..N |-> IF n = 0 THEN table ELSE Appended(g[n - 1], items[n])]
  <2>1. ASSUME NEW n \in 0..N, n # 0
        PROVE  g[n] = Appended(g[n - 1], items[n])
    <3>1. n \in 1..N /\ n - 1 \in 0..N
      BY <1>1, <2>1
    <3>2. QED
      BY <3>1, <1>4
  <2>2. QED
    BY <1>4, <2>1
<1> HIDE DEF N
<1>6. f = [n \in 0..N |-> IF n = 0 THEN table ELSE Appended(f[n - 1], items[n])]
  BY <1>5
<1> HIDE DEF f
<1>7. f[0] = table /\ \A n \in 1..N : f[n] = Appended(f[n - 1], items[n])
  BY <1>1, <1>6
<1>8. QED
  BY <1>2, <1>7 DEF N

(* Whatever the sizes, a table that was moved holds what it held.          *)
LEMMA MovedHolds ==
  ASSUME NEW table, Chained(table), NEW page \in Addresses, NEW size \in Sizes
  PROVE  /\ Chained(Moved(table, page, size))
         /\ Contents(Moved(table, page, size)) = Contents(table)
         /\ Moved(table, page, size).page = page
<1> DEFINE items == ItemsOf(table)
           new == NewTable(page, size)
           N == Len(items)
<1>1. items \in Seq(ItemType) /\ IsInjective(items) /\ ToSet(items) = Contents(table)
  BY ItemsInOrder
<1>2. /\ Chained(new) /\ Contents(new) = {} /\ new.page = page /\ new.size = size
  BY NewTableIsEmpty
<1>3. new \in TableType(size)
  BY <1>2 DEF Chained
<1> HIDE DEF items, new
<1>4. PICK f : /\ f[0] = new
               /\ \A n \in 1..N : f[n] = Appended(f[n - 1], items[n])
               /\ f[N] = ForEach(Appended, new, items)
  BY <1>1, <1>3, AppendedInTurn
<1>5. /\ N \in Nat /\ First(items, 0) = {} /\ First(items, N) = ToSet(items)
      /\ \A n \in 1..N : /\ First(items, n) = First(items, n - 1) \cup {items[n]}
                         /\ First(items, n) \subseteq ToSet(items)
                         /\ items[n] \in ToSet(items) /\ items[n] \notin First(items, n - 1)
  BY <1>1, FirstProperties
<1> DEFINE Right == {n \in 0..N : /\ Chained(f[n]) /\ Contents(f[n]) = First(items, n)
                                  /\ f[n].page = page}
<1> HIDE DEF N
<1>6. 0 \in Right
  BY <1>2, <1>4, <1>5
<1>7. ASSUME NEW n \in 1..N, n - 1 \in Right
      PROVE  n \in Right
  <2> DEFINE before == f[n - 1]
             item == items[n]
  <2>1. Chained(before) /\ Contents(before) = First(items, n - 1) /\ before.page = page
    BY <1>7
  <2>2. item \in ItemType /\ item \in Contents(table)
    BY <1>1, <1>5, KeysTell
  <2>3. Contents(before) \subseteq Contents(table)
    BY <2>1, <1>1, <1>5
  <2>4. \A x \in Contents(before) : x.key # item.key
    BY <2>1, <2>2, <2>3, <1>5, KeysTell
  <2> HIDE DEF before, item
  <2>5. /\ Chained(Appended(before, item))
        /\ Contents(Appended(before, item)) = Contents(before) \cup {item}
        /\ SameTable(Appended(before, item), before)
    BY <2>1, <2>2, <2>4, AppendedHolds
  <2>6. f[n] = Appended(before, item)
    BY <1>4 DEF before, item
  <2>7. n \in 0..N
    BY <1>5
  <2>8. QED
    BY <2>1, <2>5, <2>6, <2>7, <1>5 DEF SameTable, item
<1> HIDE DEF Right
<1>8. 0..N \subseteq Right
  BY <1>5, <1>6, <1>7, UpTo
<1> DEFINE last == f[N]
           other == Moved(table, page, size)
<1>9. Chained(last) /\ Contents(last) = Contents(table) /\ last.page = page
  BY <1>1, <1>5, <1>8 DEF Right
<1> HIDE DEF last
<1>10. other = [last EXCEPT !.count = table.count]
  BY <1>4 DEF Moved, last, items, new
<1>11. /\ other \in TableType(last.size) /\ other.page = last.page /\ other.size = last.size
       /\ other.items = last.items
  <2>1. last \in TableType(last.size) /\ table.count \in Nat
    BY <1>9, TableFields DEF Chained
  <2> HIDE DEF other
  <2>2. QED
    BY <2>1, <1>10 DEF TableType
<1> HIDE DEF other
<1>12. Chained(other) /\ Contents(other) = Contents(last)
  BY <1>9, <1>11 DEF Chained, Contents, Bucket
<1>13. QED
  BY <1>9, <1>11, <1>12 DEF other

\* Where an item is among the others.
PlaceIn(source, item) == SelectInSeq(source, LAMBDA x : x = item)

LEMMA PlaceInIs ==
  ASSUME NEW E, NEW source \in Seq(E), NEW item \in ToSet(source)
  PROVE  PlaceIn(source, item) \in 1..Len(source) /\ source[PlaceIn(source, item)] = item
<1> DEFINE I == {i \in 1..Len(source) : source[i] = item}
<1>1. PlaceIn(source, item) = IF I # {} THEN CHOOSE x \in I : \A y \in I : x <= y ELSE 0
  BY DEF PlaceIn, SelectInSeq, Min
<1>2. DOMAIN source = 1..Len(source)
  OBVIOUS
<1>3. I # {} /\ I \subseteq Nat
  BY <1>2 DEF ToSet
<1>4. \E x \in I : \A y \in I : x <= y
  <2> HIDE DEF I
  <2>1. QED
    BY <1>3, Least
<1>5. PlaceIn(source, item) \in I
  <2> HIDE DEF I
  <2>1. QED
    BY <1>1, <1>3, <1>4
<1>6. QED
  BY <1>5

\* The copy of an item, with the pages that are its own.
CopyOf(table, fresh, item) ==
  LET place == PlaceIn(ItemsOf(table), item)
  IN  NewItem(item.key, fresh[2 * place], fresh[2 * place + 1])

Enough(table, fresh) ==
  /\ fresh \in Seq(Addresses) /\ Len(fresh) = 1 + 2 * Len(ItemsOf(table))
  /\ IsInjective(fresh)

LEMMA CopyOfItem ==
  ASSUME NEW table, Chained(table), NEW fresh, Enough(table, fresh),
         NEW item \in Contents(table)
  PROVE  /\ CopyOf(table, fresh, item) \in ItemType
         /\ CopyOf(table, fresh, item).key = item.key
         /\ \E p \in 1..Len(ItemsOf(table)) :
              /\ ItemsOf(table)[p] = item
              /\ 2 * p \in 1..Len(fresh) /\ 2 * p + 1 \in 1..Len(fresh)
              /\ CopyOf(table, fresh, item).page = fresh[2 * p]
              /\ CopyOf(table, fresh, item).key_page = fresh[2 * p + 1]
<1> DEFINE source == ItemsOf(table)
           p == PlaceIn(source, item)
           n == Len(source)
<1>1. source \in Seq(ItemType) /\ item \in ToSet(source)
  BY ItemsInOrder
<1>2. p \in 1..n /\ source[p] = item
  <2> HIDE DEF source
  <2>1. QED
    BY <1>1, PlaceInIs
<1>3. n \in Nat
  BY <1>1
<1>4. CopyOf(table, fresh, item) = NewItem(item.key, fresh[2 * p], fresh[2 * p + 1])
  BY DEF CopyOf
<1>5. item \in ItemType
  BY KeysTell
<1>6. Len(fresh) = 1 + 2 * n /\ fresh \in [1..Len(fresh) -> Addresses]
  BY DEF Enough
<1> HIDE DEF p, n
<1>7. 2 * p \in 1..Len(fresh) /\ 2 * p + 1 \in 1..Len(fresh)
  BY <1>2, <1>3, <1>6
<1>8. fresh[2 * p] \in Addresses /\ fresh[2 * p + 1] \in Addresses
  BY <1>6, <1>7
<1>9. QED
  BY <1>2, <1>4, <1>5, <1>7, <1>8 DEF NewItem, ItemType, n

(* A copy holds copies of the items, and its pages are the new ones.       *)
LEMMA CopiedHolds ==
  ASSUME NEW table, Chained(table), NEW fresh, Enough(table, fresh)
  PROVE  /\ Chained(Copied(table, fresh))
         /\ Contents(Copied(table, fresh)) = {CopyOf(table, fresh, x) : x \in Contents(table)}
         /\ Copied(table, fresh).page = fresh[1]
<1> DEFINE new == NewTable(fresh[1], table.size)
           other == Copied(table, fresh)
           items == CopiedItems(table, fresh)
           C(x) == CopyOf(table, fresh, x)
<1>1. fresh[1] \in Addresses
  <2>1. fresh \in [1..Len(fresh) -> Addresses] /\ Len(ItemsOf(table)) \in Nat
    BY ItemsInOrder DEF Enough
  <2>2. 1 \in 1..Len(fresh)
    BY <2>1 DEF Enough
  <2>3. QED
    BY <2>1, <2>2
<1>2. items = [b \in DOMAIN table.items |->
                 Reverse([i \in DOMAIN table.items[b] |-> C(table.items[b][i])])]
  BY DEF CopiedItems, CopyOf, PlaceIn
<1> HIDE DEF items
<1>3. DOMAIN table.items = 0..table.size - 1 /\ table.size \in Sizes
  BY TableFields DEF Chained
<1>4. ASSUME NEW b \in 0..table.size - 1
      PROVE  LET n == Len(table.items[b])
             IN  /\ n \in Nat /\ items[b] \in Seq(ItemType) /\ Len(items[b]) = n
                 /\ \A i \in 1..n : /\ n - i + 1 \in 1..n
                                    /\ items[b][i] = C(table.items[b][n - i + 1])
                                    /\ table.items[b][i] \in Contents(table)
  <2> DEFINE chain == table.items[b]
             n == Len(chain)
             copies == [i \in DOMAIN chain |-> C(chain[i])]
  <2>1. chain \in Seq(ItemType) /\ DOMAIN chain = 1..n
    BY Held
  <2>2. \A i \in 1..n : chain[i] \in Contents(table)
    BY Held
  <2>3. \A i \in 1..n : C(chain[i]) \in ItemType
    BY <2>2, CopyOfItem
  <2>4. items[b] = Reverse(copies)
    BY <1>2, <1>3
  <2>5. n \in Nat
    BY <2>1
  <2> HIDE DEF chain, n, C
  <2>6. copies \in [1..n -> ItemType] /\ Len(copies) = n
    BY <2>1, <2>3, <2>5
  <2>7. items[b] = [i \in 1..n |-> copies[n - i + 1]]
    BY <2>4, <2>6 DEF Reverse
  <2>8. \A i \in 1..n : n - i + 1 \in 1..n
    BY <2>5
  <2>9. items[b] \in [1..n -> ItemType] /\ \A i \in 1..n : items[b][i] = C(chain[n - i + 1])
    BY <2>1, <2>6, <2>7, <2>8
  <2>10. items[b] \in Seq(ItemType) /\ Len(items[b]) = n
    BY <2>5, <2>9
  <2>11. QED
    BY <2>2, <2>5, <2>8, <2>9, <2>10 DEF chain, n, C
<1>5. items \in [0..table.size - 1 -> Seq(ItemType)]
  BY <1>2, <1>3, <1>4
<1>6. /\ other \in TableType(table.size) /\ other.page = fresh[1] /\ other.size = table.size
      /\ other.items = items
  <2>1. /\ new \in TableType(table.size) /\ new.page = fresh[1] /\ new.size = table.size
        /\ table.count \in Nat
    BY <1>1, <1>3, NewTableIsEmpty, TableFields DEF Chained
  <2>2. other = [new EXCEPT !.items = items, !.count = table.count]
    BY DEF Copied, items
  <2> DEFINE first == [new EXCEPT !.items = items]
  <2>3. other = [first EXCEPT !.count = table.count]
    BY <2>2
  <2> HIDE DEF new, other
  <2>4. /\ first \in TableType(table.size) /\ first.page = fresh[1]
        /\ first.size = table.size /\ first.items = items
    BY <2>1, <1>5 DEF TableType
  <2> HIDE DEF first
  <2>5. QED
    BY <2>1, <2>3, <2>4 DEF TableType
<1> HIDE DEF other, C
<1>7. \A x \in Contents(table) : C(x).key = x.key
  BY CopyOfItem DEF C
<1>8. ASSUME NEW b \in 0..table.size - 1
      PROVE  ToSet(items[b]) = {C(x) : x \in ToSet(table.items[b])}
  <2> DEFINE n == Len(table.items[b])
  <2>1. DOMAIN items[b] = 1..n /\ DOMAIN table.items[b] = 1..n /\ n \in Nat
    BY <1>4, Held
  <2>2. \A i \in 1..n : /\ n - i + 1 \in 1..n
                        /\ items[b][i] = C(table.items[b][n - i + 1])
    BY <1>4
  <2> HIDE DEF n
  <2>3. \A i \in 1..n : n - (n - i + 1) + 1 = i
    BY <2>1
  <2>4. \A i \in 1..n : items[b][n - i + 1] = C(table.items[b][i])
    BY <2>2, <2>3
  <2>5. ASSUME NEW y \in ToSet(items[b])
        PROVE  y \in {C(x) : x \in ToSet(table.items[b])}
    BY <2>1, <2>2 DEF ToSet
  <2>6. ASSUME NEW x \in ToSet(table.items[b])
        PROVE  C(x) \in ToSet(items[b])
    BY <2>1, <2>2, <2>4 DEF ToSet
  <2>7. QED
    BY <2>5, <2>6
<1>9. ASSUME NEW b \in 0..other.size - 1
      PROVE  /\ \A x \in ToSet(other.items[b]) : Bucket(other, x.key) = b
             /\ \A i, j \in 1..Len(other.items[b]) :
                  other.items[b][i].key = other.items[b][j].key => i = j
  <2>1. b \in 0..table.size - 1
    BY <1>6
  <2>2. \A x \in ToSet(table.items[b]) : C(x).key = x.key /\ Bucket(table, x.key) = b
    BY <2>1, <1>7, Held DEF Chained
  <2>3. \A x \in ToSet(other.items[b]) : Bucket(other, x.key) = b
    <3> SUFFICES ASSUME NEW y \in ToSet(other.items[b])
                 PROVE  Bucket(other, y.key) = b
      OBVIOUS
    <3>1. PICK x \in ToSet(table.items[b]) : y = C(x)
      BY <2>1, <1>6, <1>8
    <3>2. y.key = x.key /\ Bucket(table, x.key) = b
      BY <2>2, <3>1
    <3>3. QED
      BY <3>2, <1>6 DEF Bucket
  <2> DEFINE n == Len(table.items[b])
  <2>4. /\ n \in Nat /\ Len(other.items[b]) = n
        /\ \A i \in 1..n : /\ n - i + 1 \in 1..n
                           /\ other.items[b][i].key = table.items[b][n - i + 1].key
    BY <2>1, <1>4, <1>6, <1>7
  <2>5. \A i, j \in 1..n : table.items[b][i].key = table.items[b][j].key => i = j
    BY <2>1 DEF Chained
  <2> HIDE DEF n
  <2>6. ASSUME NEW i \in 1..n, NEW j \in 1..n,
               other.items[b][i].key = other.items[b][j].key
        PROVE  i = j
    <3>1. n - i + 1 = n - j + 1
      BY <2>4, <2>5, <2>6
    <3>2. QED
      BY <2>4, <3>1
  <2>7. QED
    BY <2>3, <2>4, <2>6
<1>10. Chained(other)
  BY <1>3, <1>6, <1>9 DEF Chained
<1>11. Contents(other) = {C(x) : x \in Contents(table)}
  <2>1. ASSUME NEW y \in Contents(other)
        PROVE  y \in {C(x) : x \in Contents(table)}
    <3>1. PICK b \in 0..table.size - 1 : y \in ToSet(items[b])
      BY <1>6 DEF Contents
    <3>2. PICK x \in ToSet(table.items[b]) : y = C(x)
      BY <3>1, <1>8
    <3>3. QED
      BY <3>2, Held
  <2>2. ASSUME NEW x \in Contents(table)
        PROVE  C(x) \in Contents(other)
    <3>1. PICK b \in 0..table.size - 1 : x \in ToSet(table.items[b])
      BY DEF Contents
    <3>2. C(x) \in ToSet(items[b])
      BY <3>1, <1>8
    <3>3. QED
      BY <3>2, <1>6 DEF Contents
  <2>3. QED
    BY <2>1, <2>2
<1>12. QED
  BY <1>6, <1>10, <1>11 DEF other, C

LEMMA CopiesOwn ==
  ASSUME NEW table, Chained(table), NEW fresh, Enough(table, fresh)
  PROVE  LET copies == {CopyOf(table, fresh, x) : x \in Contents(table)}
         IN  /\ Distinct(copies, fresh[1])
             /\ PagesOfItems(copies) \cup {fresh[1]} = ToSet(fresh)
<1> DEFINE C(x) == CopyOf(table, fresh, x)
           copies == {C(x) : x \in Contents(table)}
           source == ItemsOf(table)
           n == Len(source)
           m == Len(fresh)
<1>1. /\ source \in Seq(ItemType) /\ IsInjective(source) /\ ToSet(source) = Contents(table)
      /\ n \in Nat /\ DOMAIN source = 1..n
  <2>1. source \in Seq(ItemType) /\ IsInjective(source) /\ ToSet(source) = Contents(table)
    BY ItemsInOrder
  <2> HIDE DEF source
  <2>2. QED
    BY <2>1
<1>2. m = 1 + 2 * n /\ DOMAIN fresh = 1..m
  BY DEF Enough
<1>3. \A i, j \in 1..m : fresh[i] = fresh[j] => i = j
  BY <1>2 DEF Enough, IsInjective
<1>4. \A x \in Contents(table) : \E p \in 1..n :
        /\ source[p] = x /\ 2 * p \in 1..m /\ 2 * p + 1 \in 1..m
        /\ C(x).page = fresh[2 * p] /\ C(x).key_page = fresh[2 * p + 1]
  BY CopyOfItem
<1>5. \A x \in Contents(table) : C(x).key = x.key
  BY CopyOfItem
<1> HIDE DEF C, source, n, m
<1>6. 1 \in 1..m
  BY <1>1, <1>2
<1>7. ASSUME NEW x \in Contents(table), NEW y \in Contents(table)
      PROVE  /\ C(x).page # fresh[1] /\ C(x).key_page # fresh[1]
             /\ C(x).page # C(y).key_page
             /\ C(x).page = C(y).page => x = y
             /\ C(x).key_page = C(y).key_page => x = y
  <2>1. PICK p \in 1..n : /\ source[p] = x /\ 2 * p \in 1..m /\ 2 * p + 1 \in 1..m
                          /\ C(x).page = fresh[2 * p] /\ C(x).key_page = fresh[2 * p + 1]
    BY <1>4
  <2>2. PICK q \in 1..n : /\ source[q] = y /\ 2 * q \in 1..m /\ 2 * q + 1 \in 1..m
                          /\ C(y).page = fresh[2 * q] /\ C(y).key_page = fresh[2 * q + 1]
    BY <1>4
  <2>3. 2 * p # 1 /\ 2 * p + 1 # 1 /\ 2 * p # 2 * q + 1
    OBVIOUS
  <2>4. (2 * p = 2 * q => p = q) /\ (2 * p + 1 = 2 * q + 1 => p = q)
    OBVIOUS
  <2>5. C(x).page # fresh[1] /\ C(x).key_page # fresh[1]
    BY <1>3, <1>6, <2>1, <2>3
  <2>6. C(x).page # C(y).key_page
    BY <1>3, <2>1, <2>2, <2>3
  <2>7. C(x).page = C(y).page => x = y
    BY <1>3, <2>1, <2>2, <2>4
  <2>8. C(x).key_page = C(y).key_page => x = y
    BY <1>3, <2>1, <2>2, <2>4
  <2>9. QED
    BY <2>5, <2>6, <2>7, <2>8
<1>8. Distinct(copies, fresh[1])
  BY <1>7 DEF Distinct
<1>9. PagesOfItems(copies) \cup {fresh[1]} = ToSet(fresh)
  <2>1. \A x \in Contents(table) : C(x).page \in ToSet(fresh) /\ C(x).key_page \in ToSet(fresh)
    BY <1>2, <1>4 DEF ToSet
  <2>2. fresh[1] \in ToSet(fresh)
    BY <1>2, <1>6 DEF ToSet
  <2>3. ASSUME NEW a \in ToSet(fresh), a # fresh[1]
        PROVE  a \in PagesOfItems(copies)
    <3>1. PICK i \in 1..m : a = fresh[i]
      BY <1>2 DEF ToSet
    <3>2. i # 1
      BY <3>1, <2>3
    <3>3. PICK p \in 1..n : i = 2 * p \/ i = 2 * p + 1
      <4>1. CASE i % 2 = 0
        <5>1. i \div 2 \in 1..n /\ i = 2 * (i \div 2)
          BY <4>1, <3>2, <1>1, <1>2
        <5>2. QED
          BY <5>1
      <4>2. CASE i % 2 # 0
        <5>1. i \div 2 \in 1..n /\ i = 2 * (i \div 2) + 1
          BY <4>2, <3>2, <1>1, <1>2
        <5>2. QED
          BY <5>1
      <4>3. QED
        BY <4>1, <4>2
    <3> DEFINE x == source[p]
    <3>4. x \in Contents(table)
      BY <1>1 DEF ToSet
    <3> HIDE DEF x
    <3>5. PICK q \in 1..n : /\ source[q] = x
                            /\ C(x).page = fresh[2 * q] /\ C(x).key_page = fresh[2 * q + 1]
      BY <3>4, <1>4
    <3>6. q = p
      BY <3>5, <1>1 DEF IsInjective, x
    <3>7. a = C(x).page \/ a = C(x).key_page
      BY <3>1, <3>3, <3>5, <3>6
    <3>8. C(x) \in copies
      BY <3>4
    <3> HIDE DEF copies
    <3>9. QED
      BY <3>7, <3>8 DEF PagesOfItems
  <2>4. \A a \in PagesOfItems(copies) : a \in ToSet(fresh)
    BY <2>1 DEF PagesOfItems
  <2> HIDE DEF copies
  <2>5. QED
    BY <2>2, <2>3, <2>4
<1>10. QED
  BY <1>8, <1>9 DEF C

-----------------------------------------------------------------------------
(* The invariant.                                                          *)

Sound(table) ==
  /\ Chained(table) /\ Distinct(Contents(table), table.page)

\* What the table at each place has of the memory.
Holdings == [t \in Tables |-> IF Exists(t) THEN Owns(tables[t]) ELSE {}]

(* Sets that have nothing in common, and what they are together.           *)
Parts(H, L) ==
  /\ \A t, u \in Tables : t # u => H[t] \cap H[u] = {}
  /\ \A a : a \in L <=> \E t \in Tables : a \in H[t]

MemoryIsTidy ==
  /\ Tidy(memory)
  /\ allocated \in 0..Cardinality(Addresses) /\ live \subseteq 1..allocated

TablesAreSound ==
  /\ tables = [t \in Tables |-> tables[t]]
  /\ \A t \in Tables : Exists(t) => Sound(tables[t])

TableInvariant ==
  /\ MemoryIsTidy
  /\ TablesAreSound
  /\ Parts(Holdings, live)

LEMMA PartsGrow ==
  ASSUME NEW H, NEW L, Parts(H, L), NEW t \in Tables, NEW new, new \cap L = {},
         NEW G, G[t] = H[t] \cup new, \A u \in Tables : u # t => G[u] = H[u]
  PROVE  Parts(G, L \cup new)
<1>1. \A u \in Tables : u # t => H[u] \cap new = {}
  BY DEF Parts
<1>2. QED
  BY <1>1 DEF Parts

LEMMA PartsShrink ==
  ASSUME NEW H, NEW L, Parts(H, L), NEW t \in Tables, NEW gone, gone \subseteq H[t],
         NEW G, G[t] = H[t] \ gone, \A u \in Tables : u # t => G[u] = H[u]
  PROVE  Parts(G, L \ gone)
<1>1. \A u \in Tables : u # t => H[u] \cap gone = {}
  BY DEF Parts
<1>2. \A u, v \in Tables : u # v => G[u] \cap G[v] = {}
  BY DEF Parts
<1>3. \A a : a \in L \ gone <=> \E u \in Tables : a \in G[u]
  <2> SUFFICES ASSUME NEW a
               PROVE  a \in L \ gone <=> \E u \in Tables : a \in G[u]
    OBVIOUS
  <2>1. a \in L <=> \E u \in Tables : a \in H[u]
    BY DEF Parts
  <2>2. QED
    BY <1>1, <2>1
<1>4. QED
  BY <1>2, <1>3 DEF Parts

LEMMA PartsPass ==
  ASSUME NEW H, NEW L, Parts(H, L), NEW from \in Tables, NEW to \in Tables, from # to,
         NEW some, some \subseteq H[from],
         NEW G, G[from] = H[from] \ some, G[to] = H[to] \cup some,
         \A u \in Tables : u # from /\ u # to => G[u] = H[u]
  PROVE  Parts(G, L)
<1>1. \A u \in Tables : u # from => H[u] \cap some = {}
  BY DEF Parts
<1>2. ASSUME NEW u \in Tables, NEW v \in Tables, u # v
      PROVE  G[u] \cap G[v] = {}
  <2>1. H[u] \cap H[v] = {}
    BY <1>2 DEF Parts
  <2>2. QED
    BY <1>1, <1>2, <2>1
<1>3. \A a : a \in L <=> \E u \in Tables : a \in G[u]
  <2> SUFFICES ASSUME NEW a
               PROVE  a \in L <=> \E u \in Tables : a \in G[u]
    OBVIOUS
  <2>1. a \in L <=> \E u \in Tables : a \in H[u]
    BY DEF Parts
  <2>2. QED
    BY <1>1, <2>1
<1>4. QED
  BY <1>2, <1>3 DEF Parts

LEMMA IsATable ==
  ASSUME NEW table, Chained(table)
  PROVE  table # NoTable
BY NoTableAssumption DEF Chained

LEMMA Updated ==
  ASSUME TablesAreSound, NEW t \in Tables, NEW new, new = NoTable \/ Sound(new),
         tables' = [tables EXCEPT ![t] = new]
  PROVE  /\ TablesAreSound'
         /\ Holdings'[t] = IF new = NoTable THEN {} ELSE Owns(new)
         /\ \A u \in Tables : u # t => Holdings'[u] = Holdings[u]
<1>1. /\ tables'[t] = new /\ \A u \in Tables : u # t => tables'[u] = tables[u]
      /\ tables' = [u \in Tables |-> tables'[u]]
  BY DEF TablesAreSound
<1>2. QED
  BY <1>1 DEF TablesAreSound, Holdings, Exists

LEMMA FreshPages ==
  ASSUME MemoryIsTidy, NEW count \in Nat, NEW fresh \in Fresh(count)
  PROVE  /\ fresh \in Seq(Addresses) /\ Len(fresh) = count /\ IsInjective(fresh)
         /\ ToSet(fresh) \cap live = {}
         /\ \A i \in 1..count : fresh[i] \in ToSet(fresh) /\ fresh[i] \in Addresses
         /\ allocated + count \in 0..Cardinality(Addresses)
         /\ ToSet(fresh) \subseteq 1..allocated + count
<1> DEFINE most == Cardinality(Addresses)
<1>1. most \in Nat /\ Addresses = 1..most
  BY AddressesAreFinite, TablesAssumption
<1>2. fresh = [i \in 1..count |-> allocated + i] /\ allocated + count <= most
  BY DEF Fresh
<1>3. allocated \in Nat /\ live \subseteq 1..allocated
  BY <1>1 DEF MemoryIsTidy
<1> HIDE DEF most
<1>4. \A i \in 1..count : /\ fresh[i] \in Addresses /\ fresh[i] \in 1..allocated + count
                          /\ fresh[i] \notin 1..allocated
  BY <1>1, <1>2, <1>3
<1>5. DOMAIN fresh = 1..count /\ fresh \in [1..count -> Addresses]
  BY <1>2, <1>4
<1>6. fresh \in Seq(Addresses) /\ Len(fresh) = count
  BY <1>5
<1>7. IsInjective(fresh)
  BY <1>2, <1>3, <1>5 DEF IsInjective
<1>8. allocated + count \in 0..most
  BY <1>2, <1>3
<1>9. QED
  BY <1>3, <1>4, <1>5, <1>6, <1>7, <1>8 DEF ToSet, most

LEMMA TakesPages ==
  ASSUME MemoryIsTidy, NEW count \in Nat, NEW fresh \in Fresh(count), Takes(fresh)
  PROVE  MemoryIsTidy' /\ live' = live \cup ToSet(fresh)
<1> DEFINE m == AllAllocated(memory, fresh)
<1>1. /\ fresh \in Seq(Addresses) /\ Len(fresh) = count /\ IsInjective(fresh)
      /\ ToSet(fresh) \cap live = {}
      /\ allocated + count \in 0..Cardinality(Addresses)
      /\ ToSet(fresh) \subseteq 1..allocated + count
  BY FreshPages
<1>2. Tidy(memory) /\ memory.live = live
  BY DEF MemoryIsTidy, memory
<1>3. Tidy(m) /\ m.live = live \cup ToSet(fresh)
  BY <1>1, <1>2, AllAllocatedTidy
<1> HIDE DEF m
<1>4. manager' = m.manager /\ live' = m.live /\ allocated' = allocated + count
  BY <1>1 DEF Takes, MemoryIs, m
<1>5. m = [manager |-> m.manager, live |-> m.live]
  BY <1>3 DEF Tidy, MemoryType
<1>6. memory' = m
  BY <1>4, <1>5 DEF memory
<1>7. allocated \in Nat /\ live \subseteq 1..allocated
  BY AddressesAreFinite DEF MemoryIsTidy
<1>8. 1..allocated \subseteq 1..allocated + count
  BY <1>7
<1>9. live' \subseteq 1..allocated'
  BY <1>1, <1>3, <1>4, <1>7, <1>8
<1>10. QED
  BY <1>1, <1>3, <1>4, <1>6, <1>9 DEF MemoryIsTidy

LEMMA GivesPagesBack ==
  ASSUME MemoryIsTidy, NEW pages \in Seq(Addresses), IsInjective(pages),
         ToSet(pages) \subseteq live, GivesBack(pages)
  PROVE  MemoryIsTidy' /\ live' = live \ ToSet(pages)
<1> DEFINE m == AllReleased(memory, pages)
<1>1. Tidy(memory) /\ memory.live = live
  BY DEF MemoryIsTidy, memory
<1>2. Tidy(m) /\ m.live = live \ ToSet(pages)
  BY <1>1, AllReleasedTidy
<1> HIDE DEF m
<1>3. manager' = m.manager /\ live' = m.live /\ allocated' = allocated
  BY DEF GivesBack, MemoryIs, m
<1>4. m = [manager |-> m.manager, live |-> m.live]
  BY <1>2 DEF Tidy, MemoryType
<1>5. memory' = m
  BY <1>3, <1>4 DEF memory
<1>6. QED
  BY <1>2, <1>3, <1>5 DEF MemoryIsTidy

LEMMA NewTableSound ==
  ASSUME NEW page \in Addresses, NEW size \in Sizes
  PROVE  Sound(NewTable(page, size)) /\ Owns(NewTable(page, size)) = {page}
<1> DEFINE new == NewTable(page, size)
<1>1. /\ Chained(new) /\ Contents(new) = {} /\ new.page = page
  BY NewTableIsEmpty
<1> HIDE DEF new
<1>2. Sound(new)
  BY <1>1 DEF Sound, Distinct
<1>3. Owns(new) = {page}
  BY <1>1 DEF Owns, PagesOfItems
<1>4. QED
  BY <1>2, <1>3 DEF new

LEMMA CreatedHolds ==
  ASSUME NEW table, Sound(table), NEW item \in ItemType,
         \A x \in Contents(table) : x.key # item.key,
         item.page \notin Owns(table), item.key_page \notin Owns(table),
         item.page # item.key_page
  PROVE  /\ Sound(Created(table, item))
         /\ Contents(Created(table, item)) = Contents(table) \cup {item}
         /\ Owns(Created(table, item)) = Owns(table) \cup {item.page, item.key_page}
<1> DEFINE mid == Appended(table, item)
           new == Created(table, item)
<1>1. Chained(table) /\ Distinct(Contents(table), table.page)
  BY DEF Sound
<1>2. /\ Chained(mid) /\ Contents(mid) = Contents(table) \cup {item}
      /\ SameTable(mid, table) /\ mid.count = table.count
  BY <1>1, AppendedHolds
<1>3. table.count \in Nat /\ mid \in TableType(mid.size)
  BY <1>1, <1>2, TableFields DEF Chained
<1> HIDE DEF mid
<1>4. /\ new \in TableType(mid.size) /\ new.page = mid.page /\ new.size = mid.size
      /\ new.items = mid.items
  <2>1. new = [mid EXCEPT !.count = mid.count + 1]
    BY DEF Created, mid
  <2> HIDE DEF new
  <2>2. QED
    BY <2>1, <1>2, <1>3 DEF TableType
<1> HIDE DEF new
<1>5. Chained(new) /\ Contents(new) = Contents(mid)
  BY <1>2, <1>4 DEF Chained, Contents, Bucket
<1>6. new.page = table.page
  BY <1>2, <1>4 DEF SameTable
<1>7. Distinct(Contents(new), new.page)
  <2>1. /\ item.page # table.page /\ item.key_page # table.page
        /\ \A x \in Contents(table) : /\ item.page # x.page /\ item.page # x.key_page
                                      /\ item.key_page # x.page /\ item.key_page # x.key_page
    BY DEF Owns, PagesOfItems
  <2>2. QED
    BY <2>1, <1>1, <1>2, <1>5, <1>6 DEF Distinct
<1>8. Owns(new) = Owns(table) \cup {item.page, item.key_page}
  BY <1>2, <1>5, <1>6 DEF Owns, PagesOfItems
<1>9. QED
  BY <1>2, <1>5, <1>7, <1>8 DEF Sound, new

LEMMA WithoutSound ==
  ASSUME NEW table, Sound(table), NEW key \in Keys, PlaceOf(table, key) # 0
  PROVE  LET item == ItemWith(table, key)
         IN  /\ Sound(Without(table, key))
             /\ Contents(Without(table, key)) = Contents(table) \ {item}
             /\ item \in Contents(table) /\ item.key = key
             /\ Owns(Without(table, key)) = Owns(table) \ {item.page, item.key_page}
             /\ {item.page, item.key_page} \subseteq Owns(table)
             /\ item.page \in Addresses /\ item.key_page \in Addresses
             /\ item.page # item.key_page
<1> DEFINE item == ItemWith(table, key)
           new == Without(table, key)
<1>1. Chained(table) /\ Distinct(Contents(table), table.page)
  BY DEF Sound
<1>2. item \in Contents(table) /\ item.key = key
  BY <1>1, Found
<1>3. /\ Chained(new) /\ Contents(new) = Contents(table) \ {item}
      /\ SameTable(new, table)
  BY <1>1, WithoutHolds
<1> HIDE DEF new, item
<1>4. item \in ItemType
  BY <1>1, <1>2, KeysTell
<1>5. Distinct(Contents(new), new.page)
  BY <1>1, <1>3 DEF Distinct, SameTable
<1>6. Owns(new) = Owns(table) \ {item.page, item.key_page}
  <2>1. \A x \in Contents(new) : /\ x.page # item.page /\ x.page # item.key_page
                                 /\ x.key_page # item.page /\ x.key_page # item.key_page
    BY <1>1, <1>2, <1>3 DEF Distinct
  <2>2. new.page = table.page /\ table.page # item.page /\ table.page # item.key_page
    BY <1>1, <1>2, <1>3 DEF Distinct, SameTable
  <2>3. PagesOfItems(Contents(table)) = PagesOfItems(Contents(new)) \cup {item.page, item.key_page}
    BY <1>2, <1>3 DEF PagesOfItems
  <2>4. /\ item.page \notin PagesOfItems(Contents(new))
        /\ item.key_page \notin PagesOfItems(Contents(new))
    BY <2>1 DEF PagesOfItems
  <2>5. QED
    BY <2>2, <2>3, <2>4 DEF Owns
<1>7. {item.page, item.key_page} \subseteq Owns(table)
  BY <1>2 DEF Owns, PagesOfItems
<1>8. item.page # item.key_page
  BY <1>1, <1>2 DEF Distinct
<1>9. QED
  BY <1>2, <1>3, <1>4, <1>5, <1>6, <1>7, <1>8 DEF Sound, ItemType, new, item

LEMMA MovedSound ==
  ASSUME NEW table, Sound(table), NEW page \in Addresses \ Owns(table), NEW size \in Sizes
  PROVE  /\ Sound(Moved(table, page, size))
         /\ Owns(Moved(table, page, size)) = (Owns(table) \ {table.page}) \cup {page}
<1> DEFINE new == Moved(table, page, size)
<1>1. Chained(table) /\ Distinct(Contents(table), table.page)
  BY DEF Sound
<1>2. /\ Chained(new) /\ Contents(new) = Contents(table) /\ new.page = page
  BY <1>1, MovedHolds
<1> HIDE DEF new
<1>3. Distinct(Contents(new), new.page)
  BY <1>1, <1>2 DEF Distinct, Owns, PagesOfItems
<1>4. table.page \notin PagesOfItems(Contents(table))
  BY <1>1 DEF Distinct, PagesOfItems
<1>5. Owns(new) = (Owns(table) \ {table.page}) \cup {page}
  BY <1>2, <1>4 DEF Owns
<1>6. QED
  BY <1>1, <1>2, <1>3, <1>5 DEF Sound, new

LEMMA CopiedSound ==
  ASSUME NEW table, Sound(table), NEW fresh, Enough(table, fresh)
  PROVE  Sound(Copied(table, fresh)) /\ Owns(Copied(table, fresh)) = ToSet(fresh)
<1> DEFINE new == Copied(table, fresh)
           copies == {CopyOf(table, fresh, x) : x \in Contents(table)}
<1>1. Chained(table)
  BY DEF Sound
<1>2. /\ Chained(new) /\ Contents(new) = copies /\ new.page = fresh[1]
  BY <1>1, CopiedHolds
<1>3. /\ Distinct(copies, fresh[1])
      /\ PagesOfItems(copies) \cup {fresh[1]} = ToSet(fresh)
  BY <1>1, CopiesOwn
<1> HIDE DEF new, copies
<1>4. QED
  BY <1>1, <1>2, <1>3 DEF Sound, Owns, new

-----------------------------------------------------------------------------
(* Each operation keeps the invariant.                                     *)

\* A memory nobody has used.
LEMMA NothingIsTidy ==
  Tidy([manager |-> NoPages, live |-> {}])
<1>1. Keeps(NoPages, << >>) /\ ToSet(<< >>) = {} /\ NoPages \in ManagerType
  BY DEF Keeps, NoPages, ManagerType, Field, ToSet, IsInjective
<1>2. QED
  BY <1>1 DEF Tidy, MemoryType

LEMMA InitKeeps ==
  ASSUME Init
  PROVE  TableInvariant
<1>1. tables = [t \in Tables |-> NoTable] /\ \A t \in Tables : ~ Exists(t)
  BY DEF Init, Exists
<1>2. TablesAreSound
  BY <1>1 DEF TablesAreSound
<1>3. Parts(Holdings, live)
  BY <1>1 DEF Init, Parts, Holdings
<1>4. Tidy(memory)
  BY NothingIsTidy DEF Init, memory
<1>5. allocated \in 0..Cardinality(Addresses) /\ live \subseteq 1..allocated
  BY AddressesAreFinite DEF Init
<1>6. QED
  BY <1>2, <1>3, <1>4, <1>5 DEF TableInvariant, MemoryIsTidy

LEMMA InitTableKeeps ==
  ASSUME TableInvariant, NEW t \in Tables, NEW size \in Sizes, InitTable(t, size)
  PROVE  TableInvariant'
<1>1. PICK fresh \in Fresh(1) :
        /\ tables' = [tables EXCEPT ![t] = NewTable(fresh[1], size)]
        /\ Takes(fresh)
  BY DEF InitTable
<1>2. MemoryIsTidy /\ TablesAreSound /\ Parts(Holdings, live) /\ Holdings[t] = {}
  BY DEF TableInvariant, InitTable, Holdings
<1>3. /\ ToSet(fresh) \cap live = {} /\ fresh[1] \in Addresses /\ ToSet(fresh) = {fresh[1]}
  <2>1. /\ ToSet(fresh) \cap live = {} /\ Len(fresh) = 1 /\ fresh \in Seq(Addresses)
    BY <1>2, FreshPages
  <2>2. DOMAIN fresh = 1..1 /\ fresh[1] \in Addresses
    BY <2>1
  <2>3. QED
    BY <2>1, <2>2 DEF ToSet
<1>4. MemoryIsTidy' /\ live' = live \cup ToSet(fresh)
  BY <1>1, <1>2, TakesPages
<1> DEFINE new == NewTable(fresh[1], size)
<1>5. Sound(new) /\ Owns(new) = {fresh[1]}
  BY <1>3, NewTableSound
<1>6. new # NoTable
  BY <1>5, IsATable DEF Sound
<1> HIDE DEF new
<1>7. /\ TablesAreSound' /\ Holdings'[t] = Owns(new)
      /\ \A u \in Tables : u # t => Holdings'[u] = Holdings[u]
  BY <1>1, <1>2, <1>5, <1>6, Updated DEF new
<1>8. Holdings'[t] = Holdings[t] \cup ToSet(fresh)
  BY <1>2, <1>3, <1>5, <1>7
<1>9. Parts(Holdings', live \cup ToSet(fresh))
  BY <1>2, <1>3, <1>7, <1>8, PartsGrow
<1>10. QED
  BY <1>4, <1>7, <1>9 DEF TableInvariant

LEMMA GetOrCreateKeeps ==
  ASSUME TableInvariant, NEW t \in Tables, NEW key \in Keys, GetOrCreate(t, key)
  PROVE  TableInvariant'
<1> DEFINE table == tables[t]
<1>1. PICK fresh \in Fresh(2) :
        /\ tables' = [tables EXCEPT ![t] = Created(@, NewItem(key, fresh[1], fresh[2]))]
        /\ Takes(fresh)
  BY DEF GetOrCreate
<1> DEFINE item == NewItem(key, fresh[1], fresh[2])
           new == Created(table, item)
<1>2. /\ MemoryIsTidy /\ TablesAreSound /\ Parts(Holdings, live)
      /\ Sound(table) /\ Holdings[t] = Owns(table)
  BY DEF TableInvariant, TablesAreSound, GetOrCreate, Holdings
<1>3. /\ ToSet(fresh) \cap live = {} /\ fresh[1] \in Addresses /\ fresh[2] \in Addresses
      /\ ToSet(fresh) = {fresh[1], fresh[2]} /\ fresh[1] # fresh[2]
  <2>1. /\ ToSet(fresh) \cap live = {} /\ Len(fresh) = 2 /\ IsInjective(fresh)
        /\ fresh \in Seq(Addresses)
    BY <1>2, FreshPages
  <2>2. DOMAIN fresh = 1..2 /\ fresh[1] \in Addresses /\ fresh[2] \in Addresses
    BY <2>1
  <2>3. QED
    BY <2>1, <2>2 DEF ToSet, IsInjective
<1>4. MemoryIsTidy' /\ live' = live \cup ToSet(fresh)
  BY <1>1, <1>2, TakesPages
<1>5. \A x \in Contents(table) : x.key # key
  BY <1>2, GetTells, KeysTell, AddressesAssumption DEF GetOrCreate, Sound, ItemType
<1>6. Owns(table) \subseteq live
  BY <1>2 DEF Parts
<1>7. /\ item \in ItemType /\ item.key = key
      /\ item.page = fresh[1] /\ item.key_page = fresh[2]
      /\ {item.page, item.key_page} = ToSet(fresh)
  BY <1>3 DEF NewItem, ItemType
<1>8. tables' = [tables EXCEPT ![t] = new]
  BY <1>1
<1> HIDE DEF table, item
<1>9. Sound(new) /\ Owns(new) = Owns(table) \cup {item.page, item.key_page}
  BY <1>2, <1>3, <1>5, <1>6, <1>7, CreatedHolds
<1>10. new # NoTable
  BY <1>9, IsATable DEF Sound
<1> HIDE DEF new
<1>11. /\ TablesAreSound' /\ Holdings'[t] = Owns(new)
       /\ \A u \in Tables : u # t => Holdings'[u] = Holdings[u]
  BY <1>2, <1>8, <1>9, <1>10, Updated
<1>12. Holdings'[t] = Holdings[t] \cup ToSet(fresh)
  <2>1. Owns(new) = Owns(table) \cup ToSet(fresh)
    BY <1>7, <1>9
  <2>2. QED
    BY <1>2, <1>11, <2>1
<1>13. Parts(Holdings', live \cup ToSet(fresh))
  <2>1. Parts(Holdings, live) /\ ToSet(fresh) \cap live = {}
    BY <1>2, <1>3
  <2>2. \A u \in Tables : u # t => Holdings'[u] = Holdings[u]
    BY <1>11
  <2>3. QED
    BY <1>12, <2>1, <2>2, PartsGrow
<1>14. QED
  BY <1>4, <1>11, <1>13 DEF TableInvariant

LEMMA RemoveItemKeeps ==
  ASSUME TableInvariant, NEW t \in Tables, NEW key \in Keys, RemoveItem(t, key)
  PROVE  TableInvariant'
<1> DEFINE table == tables[t]
           item == ItemWith(table, key)
           new == Without(table, key)
           pages == <<item.key_page, item.page>>
           gone == {item.page, item.key_page}
<1>1. /\ MemoryIsTidy /\ TablesAreSound /\ Parts(Holdings, live)
      /\ Sound(table) /\ Holdings[t] = Owns(table)
      /\ PlaceOf(table, key) # 0 /\ tables' = [tables EXCEPT ![t] = new] /\ GivesBack(pages)
  BY DEF TableInvariant, TablesAreSound, RemoveItem, Holdings
<1> HIDE DEF table
<1>2. /\ Sound(new) /\ Owns(new) = Owns(table) \ gone /\ gone \subseteq Owns(table)
      /\ item.page \in Addresses /\ item.key_page \in Addresses /\ item.page # item.key_page
  BY <1>1, WithoutSound
<1> HIDE DEF item
<1>3. pages \in Seq(Addresses) /\ IsInjective(pages) /\ ToSet(pages) = gone
  BY <1>2 DEF IsInjective, ToSet
<1>4. Owns(table) \subseteq live
  BY <1>1 DEF Parts
<1> HIDE DEF new, pages, gone
<1>5. MemoryIsTidy' /\ live' = live \ gone
  BY <1>1, <1>2, <1>3, <1>4, GivesPagesBack
<1>6. new # NoTable
  BY <1>2, IsATable DEF Sound
<1>7. /\ TablesAreSound' /\ Holdings'[t] = Owns(new)
      /\ \A u \in Tables : u # t => Holdings'[u] = Holdings[u]
  BY <1>1, <1>2, <1>6, Updated
<1>8. gone \subseteq Holdings[t] /\ Holdings'[t] = Holdings[t] \ gone
  BY <1>1, <1>2, <1>7
<1>9. Parts(Holdings', live \ gone)
  BY <1>1, <1>7, <1>8, PartsShrink
<1>10. QED
  BY <1>5, <1>7, <1>9 DEF TableInvariant

LEMMA ClearBucketsKeeps ==
  ASSUME TableInvariant, NEW t \in Tables, ClearBuckets(t)
  PROVE  TableInvariant'
<1> DEFINE table == tables[t]
           new == Cleared(table)
           pages == PagesInOrder(ItemsOf(table))
           gone == Owns(table) \ {table.page}
<1>1. /\ MemoryIsTidy /\ TablesAreSound /\ Parts(Holdings, live)
      /\ Sound(table) /\ Holdings[t] = Owns(table)
      /\ tables' = [tables EXCEPT ![t] = new] /\ GivesBack(pages)
  BY DEF TableInvariant, TablesAreSound, ClearBuckets, Holdings
<1> HIDE DEF table
<1>2. Chained(table) /\ Distinct(Contents(table), table.page)
  BY <1>1 DEF Sound
<1>3. pages \in Seq(Addresses) /\ IsInjective(pages) /\ ToSet(pages) = gone
  BY <1>2, PagesOfTable
<1>4. Sound(new) /\ Owns(new) = {table.page}
  BY <1>2, TableFields, NewTableSound DEF Cleared, Chained
<1>5. Owns(table) \subseteq live /\ gone \subseteq Owns(table) /\ Owns(new) = Owns(table) \ gone
  BY <1>1, <1>4 DEF Parts, Owns
<1> HIDE DEF new, pages, gone
<1>6. MemoryIsTidy' /\ live' = live \ gone
  BY <1>1, <1>3, <1>5, GivesPagesBack
<1>7. new # NoTable
  BY <1>4, IsATable DEF Sound
<1>8. /\ TablesAreSound' /\ Holdings'[t] = Owns(new)
      /\ \A u \in Tables : u # t => Holdings'[u] = Holdings[u]
  BY <1>1, <1>4, <1>7, Updated
<1>9. gone \subseteq Holdings[t] /\ Holdings'[t] = Holdings[t] \ gone
  BY <1>1, <1>5, <1>8
<1>10. Parts(Holdings', live \ gone)
  BY <1>1, <1>8, <1>9, PartsShrink
<1>11. QED
  BY <1>6, <1>8, <1>10 DEF TableInvariant

LEMMA FreeTableKeeps ==
  ASSUME TableInvariant, NEW t \in Tables, FreeTable(t)
  PROVE  TableInvariant'
<1> DEFINE table == tables[t]
           pages == PagesOf(table)
<1>1. /\ MemoryIsTidy /\ TablesAreSound /\ Parts(Holdings, live)
      /\ Sound(table) /\ Holdings[t] = Owns(table)
      /\ tables' = [tables EXCEPT ![t] = NoTable] /\ GivesBack(pages)
  BY DEF TableInvariant, TablesAreSound, FreeTable, Holdings
<1> HIDE DEF table
<1>2. Chained(table) /\ Distinct(Contents(table), table.page)
  BY <1>1 DEF Sound
<1>3. pages \in Seq(Addresses) /\ IsInjective(pages) /\ ToSet(pages) = Owns(table)
  BY <1>2, PagesOfTable
<1>4. Owns(table) \subseteq live
  BY <1>1 DEF Parts
<1> HIDE DEF pages
<1>5. MemoryIsTidy' /\ live' = live \ Owns(table)
  BY <1>1, <1>3, <1>4, GivesPagesBack
<1>6. /\ TablesAreSound' /\ Holdings'[t] = {}
      /\ \A u \in Tables : u # t => Holdings'[u] = Holdings[u]
  BY <1>1, Updated
<1> DEFINE gone == Owns(table)
<1>7. gone \subseteq Holdings[t] /\ Holdings'[t] = Holdings[t] \ gone
  BY <1>1, <1>6
<1> HIDE DEF gone
<1>8. Parts(Holdings', live \ gone)
  BY <1>1, <1>6, <1>7, PartsShrink
<1>9. QED
  BY <1>5, <1>6, <1>8 DEF TableInvariant, gone

LEMMA CopyTableKeeps ==
  ASSUME TableInvariant, NEW from \in Tables, NEW to \in Tables, CopyTable(from, to)
  PROVE  TableInvariant'
<1> DEFINE table == tables[from]
           n == 1 + 2 * Len(ItemsOf(table))
<1>1. PICK fresh \in Fresh(n) :
        /\ tables' = [tables EXCEPT ![to] = Copied(table, fresh)]
        /\ Takes(fresh)
  BY DEF CopyTable
<1> DEFINE new == Copied(table, fresh)
<1>2. /\ MemoryIsTidy /\ TablesAreSound /\ Parts(Holdings, live)
      /\ Sound(table) /\ Holdings[to] = {}
      /\ tables' = [tables EXCEPT ![to] = new]
  BY <1>1 DEF TableInvariant, TablesAreSound, CopyTable, Holdings
<1> HIDE DEF table
<1>3. n \in Nat
  BY <1>2, ItemsInOrder DEF Sound
<1>4. Enough(table, fresh) /\ ToSet(fresh) \cap live = {}
  BY <1>2, <1>3, FreshPages DEF Enough
<1> HIDE DEF n
<1>5. MemoryIsTidy' /\ live' = live \cup ToSet(fresh)
  BY <1>1, <1>2, <1>3, TakesPages
<1>6. Sound(new) /\ Owns(new) = ToSet(fresh)
  BY <1>2, <1>4, CopiedSound
<1>7. new # NoTable
  BY <1>6, IsATable DEF Sound
<1> HIDE DEF new
<1>8. /\ TablesAreSound' /\ Holdings'[to] = Owns(new)
      /\ \A u \in Tables : u # to => Holdings'[u] = Holdings[u]
  BY <1>2, <1>6, <1>7, Updated
<1>9. Holdings'[to] = Holdings[to] \cup ToSet(fresh)
  BY <1>2, <1>6, <1>8
<1>10. Parts(Holdings', live \cup ToSet(fresh))
  BY <1>2, <1>4, <1>8, <1>9, PartsGrow
<1>11. QED
  BY <1>5, <1>8, <1>10 DEF TableInvariant

LEMMA MoveTableKeeps ==
  ASSUME TableInvariant, NEW from \in Tables, NEW to \in Tables, NEW size \in Sizes,
         MoveTable(from, to, size)
  PROVE  TableInvariant'
<1> DEFINE table == tables[from]
           cleared == Cleared(table)
           some == Owns(table) \ {table.page}
<1>1. from # to
  BY DEF MoveTable
<1>2. PICK fresh \in Fresh(1) :
        /\ tables' = [tables EXCEPT ![to] = Moved(tables[from], fresh[1], size),
                                    ![from] = Cleared(@)]
        /\ Takes(fresh)
  BY DEF MoveTable
<1> DEFINE page == fresh[1]
           new == Moved(table, page, size)
<1>3. /\ MemoryIsTidy /\ TablesAreSound /\ Parts(Holdings, live)
      /\ Sound(table) /\ Holdings[from] = Owns(table) /\ Holdings[to] = {}
  BY DEF TableInvariant, TablesAreSound, MoveTable, Holdings
<1>4. /\ tables'[to] = new /\ tables'[from] = cleared
      /\ \A u \in Tables : u # from /\ u # to => tables'[u] = tables[u]
      /\ tables' = [u \in Tables |-> tables'[u]]
  BY <1>1, <1>2, <1>3 DEF TablesAreSound
<1> HIDE DEF table
<1>5. /\ ToSet(fresh) \cap live = {} /\ page \in Addresses /\ ToSet(fresh) = {page}
  <2>1. /\ ToSet(fresh) \cap live = {} /\ Len(fresh) = 1 /\ fresh \in Seq(Addresses)
    BY <1>3, FreshPages
  <2>2. DOMAIN fresh = 1..1 /\ fresh[1] \in Addresses
    BY <2>1
  <2>3. QED
    BY <2>1, <2>2 DEF ToSet
<1>6. MemoryIsTidy' /\ live' = live \cup ToSet(fresh)
  BY <1>2, <1>3, TakesPages
<1>7. Owns(table) \subseteq live /\ page \notin Owns(table)
  BY <1>3, <1>5 DEF Parts
<1> HIDE DEF page
<1>8. Sound(new) /\ Owns(new) = some \cup {page}
  BY <1>3, <1>5, <1>7, MovedSound
<1>9. Sound(cleared) /\ Owns(cleared) = {table.page} /\ table.page \in Owns(table)
  BY <1>3, TableFields, NewTableSound DEF Cleared, Chained, Sound, Owns
<1>10. new # NoTable /\ cleared # NoTable
  BY <1>8, <1>9, IsATable DEF Sound
<1>11. Owns(cleared) = Owns(table) \ some /\ some \subseteq Owns(table)
  BY <1>9
<1> HIDE DEF new, cleared, some
<1>12. TablesAreSound'
  BY <1>3, <1>4, <1>8, <1>9 DEF TablesAreSound, Exists
<1>13. /\ Holdings'[to] = some \cup {page} /\ Holdings'[from] = Holdings[from] \ some
       /\ \A u \in Tables : u # from /\ u # to => Holdings'[u] = Holdings[u]
  BY <1>3, <1>4, <1>8, <1>9, <1>10, <1>11 DEF Holdings, Exists
<1> DEFINE grown == [u \in Tables |-> IF u = to THEN {page} ELSE Holdings[u]]
<1>14. /\ grown[to] = Holdings[to] \cup ToSet(fresh)
       /\ \A u \in Tables : u # to => grown[u] = Holdings[u]
  BY <1>3, <1>5
<1>15. Holdings'[from] = grown[from] \ some /\ Holdings'[to] = grown[to] \cup some
  BY <1>1, <1>13
<1>16. /\ \A u \in Tables : u # from /\ u # to => Holdings'[u] = grown[u]
       /\ some \subseteq grown[from]
  BY <1>1, <1>3, <1>11, <1>13
<1> HIDE DEF grown
<1>17. Parts(grown, live \cup ToSet(fresh))
  BY <1>3, <1>5, <1>14, PartsGrow
<1>18. Parts(Holdings', live \cup ToSet(fresh))
  BY <1>1, <1>15, <1>16, <1>17, PartsPass
<1>19. QED
  BY <1>6, <1>12, <1>18 DEF TableInvariant

LEMMA ExitKeeps ==
  ASSUME TableInvariant, Exit
  PROVE  TableInvariant'
<1>1. tables' = [t \in Tables |-> NoTable] /\ \A t \in Tables : tables'[t] = NoTable
  BY DEF Exit
<1>2. ToSet(Chain(manager)) = live
  BY TidyLinks DEF TableInvariant, MemoryIsTidy, memory
<1>3. manager' = NoPages /\ live' = {} /\ allocated' = 0
  BY <1>2 DEF Exit
<1>4. TablesAreSound'
  BY <1>1 DEF TablesAreSound, Exists
<1>5. Parts(Holdings, live)'
  BY <1>1, <1>3 DEF Parts, Holdings, Exists
<1>6. MemoryIsTidy'
  <2>1. Tidy(memory)'
    BY <1>3, NothingIsTidy DEF memory
  <2>2. allocated' \in 0..Cardinality(Addresses) /\ live' \subseteq 1..allocated'
    BY <1>3, AddressesAreFinite
  <2>3. QED
    BY <2>1, <2>2 DEF MemoryIsTidy
<1>7. QED
  BY <1>4, <1>5, <1>6 DEF TableInvariant

LEMMA StutterKeeps ==
  ASSUME TableInvariant, UNCHANGED vars
  PROVE  TableInvariant'
BY DEF TableInvariant, MemoryIsTidy, TablesAreSound, Parts, Holdings, Exists, memory, vars

LEMMA NextKeeps ==
  ASSUME TableInvariant, [Next]_vars
  PROVE  TableInvariant'
BY InitTableKeeps, GetOrCreateKeeps, RemoveItemKeeps, ClearBucketsKeeps, FreeTableKeeps,
   MoveTableKeeps, CopyTableKeeps, ExitKeeps, StutterKeeps DEF Next

-----------------------------------------------------------------------------
(* What a table answers, and how the operations change it.                 *)

Answers(table) == [key \in Keys |-> Get(table, key)]

LEMMA AnswersAreItems ==
  ASSUME NEW table, Chained(table)
  PROVE  /\ Answers(table) \in [Keys -> Addresses \cup {NULL}]
         /\ Answers(table) # NoTable
         /\ \A key \in Keys : Answers(table)[key] # NULL => Answers(table)[key] \in Owns(table)
<1>1. ASSUME NEW key \in Keys, Get(table, key) # NULL
      PROVE  Get(table, key) \in Owns(table) /\ Get(table, key) \in Addresses
  <2>1. PICK x \in Contents(table) : Get(table, key) = x.page
    BY <1>1, GetTells
  <2>2. x \in ItemType
    BY KeysTell
  <2>3. QED
    BY <2>1, <2>2 DEF Owns, PagesOfItems, ItemType
<1>2. Answers(table) \in [Keys -> Addresses \cup {NULL}]
  BY <1>1 DEF Answers
<1>3. QED
  BY <1>1, <1>2, NoTableAssumption DEF Answers

LEMMA NewAnswers ==
  ASSUME NEW page \in Addresses, NEW size \in Sizes
  PROVE  Answers(NewTable(page, size)) = [key \in Keys |-> NULL]
<1> DEFINE new == NewTable(page, size)
<1>1. Chained(new) /\ Contents(new) = {}
  BY NewTableIsEmpty
<1> HIDE DEF new
<1>2. \A key \in Keys : Get(new, key) = NULL
  BY <1>1, GetTells
<1>3. QED
  BY <1>2 DEF Answers, new

\* Tables that hold the same answer the same, however many buckets they have.
LEMMA SameAnswers ==
  ASSUME NEW table, Chained(table), NEW other, Chained(other),
         Contents(table) = Contents(other)
  PROVE  Answers(table) = Answers(other)
<1>1. ASSUME NEW key \in Keys
      PROVE  Get(table, key) = Get(other, key)
  <2>1. CASE \E x \in Contents(table) : x.key = key
    BY <2>1, GetTells
  <2>2. CASE \A x \in Contents(table) : x.key # key
    BY <2>2, GetTells
  <2>3. QED
    BY <2>1, <2>2
<1>2. QED
  BY <1>1 DEF Answers

LEMMA CreatedAnswers ==
  ASSUME NEW table, Chained(table), NEW item \in ItemType,
         NEW other, Chained(other), Contents(other) = Contents(table) \cup {item}
  PROVE  Answers(other) = [Answers(table) EXCEPT ![item.key] = item.page]
<1>1. item.key \in Keys /\ Get(other, item.key) = item.page
  BY GetTells DEF ItemType
<1>2. ASSUME NEW key \in Keys, key # item.key
      PROVE  Get(other, key) = Get(table, key)
  <2>1. CASE \E x \in Contents(table) : x.key = key
    BY <2>1, GetTells
  <2>2. CASE \A x \in Contents(table) : x.key # key
    BY <1>2, <2>2, GetTells
  <2>3. QED
    BY <2>1, <2>2
<1>3. QED
  BY <1>1, <1>2 DEF Answers

LEMMA WithoutAnswers ==
  ASSUME NEW table, Chained(table), NEW item \in Contents(table),
         NEW other, Chained(other), Contents(other) = Contents(table) \ {item}
  PROVE  Answers(other) = [Answers(table) EXCEPT ![item.key] = NULL]
<1>1. item.key \in Keys /\ \A x \in Contents(other) : x.key # item.key
  BY KeysTell DEF ItemType
<1>2. Get(other, item.key) = NULL
  BY <1>1, GetTells
<1>3. ASSUME NEW key \in Keys, key # item.key
      PROVE  Get(other, key) = Get(table, key)
  <2>1. CASE \E x \in Contents(other) : x.key = key
    BY <2>1, GetTells
  <2>2. CASE \A x \in Contents(other) : x.key # key
    <3>1. \A x \in Contents(table) : x.key # key
      BY <1>3, <2>2
    <3>2. QED
      BY <2>2, <3>1, GetTells
  <2>3. QED
    BY <2>1, <2>2
<1>4. QED
  BY <1>1, <1>2, <1>3 DEF Answers

(* A copy has the same keys, and each of its items is one of its own.      *)
LEMMA CopiedAnswers ==
  ASSUME NEW table, Chained(table), NEW fresh, Enough(table, fresh)
  PROVE  LET old == Answers(table)
             new == Answers(Copied(table, fresh))
         IN  /\ \A key \in Keys : old[key] = NULL <=> new[key] = NULL
             /\ \A key \in Keys : new[key] # NULL => new[key] \in ToSet(fresh)
             /\ \A j, k \in Keys : new[j] # NULL /\ new[j] = new[k] => j = k
<1> DEFINE other == Copied(table, fresh)
           copies == {CopyOf(table, fresh, x) : x \in Contents(table)}
<1>1. Chained(other) /\ Contents(other) = copies
  BY CopiedHolds
<1>2. Distinct(copies, fresh[1]) /\ PagesOfItems(copies) \subseteq ToSet(fresh)
  BY CopiesOwn, ZenonT(60)
<1>3. \A x \in Contents(table) : CopyOf(table, fresh, x).key = x.key
  BY CopyOfItem
<1>4. \A x \in Contents(other) : x.page # NULL
  BY <1>1, KeysTell, AddressesAssumption DEF ItemType
<1>5. \A x \in Contents(table) : x.page # NULL
  BY KeysTell, AddressesAssumption DEF ItemType
<1> HIDE DEF other
<1>6. ASSUME NEW key \in Keys
      PROVE  Get(table, key) = NULL <=> Get(other, key) = NULL
  <2>1. CASE \E x \in Contents(table) : x.key = key
    <3>1. \E x \in Contents(other) : x.key = key
      BY <1>1, <1>3, <2>1
    <3>2. QED
      BY <1>1, <1>4, <1>5, <2>1, <3>1, GetTells
  <2>2. CASE \A x \in Contents(table) : x.key # key
    <3>1. \A x \in Contents(other) : x.key # key
      BY <1>1, <1>3, <2>2
    <3>2. QED
      BY <1>1, <2>2, <3>1, GetTells
  <2>3. QED
    BY <2>1, <2>2
<1> HIDE DEF copies
<1>7. ASSUME NEW key \in Keys, Get(other, key) # NULL
      PROVE  \E x \in copies : x.key = key /\ x.page = Get(other, key)
  BY <1>1, <1>7, GetTells
<1>8. \A key \in Keys : Get(other, key) # NULL => Get(other, key) \in ToSet(fresh)
  BY <1>2, <1>7 DEF PagesOfItems
<1>9. ASSUME NEW j \in Keys, NEW k \in Keys,
             Get(other, j) # NULL, Get(other, j) = Get(other, k)
      PROVE  j = k
  <2>1. PICK x \in copies, y \in copies :
          x.key = j /\ y.key = k /\ x.page = y.page
    BY <1>7, <1>9
  <2>2. QED
    BY <1>2, <2>1 DEF Distinct
<1>10. QED
  BY <1>6, <1>8, <1>9 DEF Answers, other

(* What all the tables answer: the contents of the maps.                   *)
View == [t \in Tables |->
           IF Exists(t) THEN [key \in Keys |-> Get(tables[t], key)] ELSE NoTable]

LEMMA ViewTells ==
  ASSUME TablesAreSound, NEW t \in Tables
  PROVE  /\ View[t] = NoTable <=> ~ Exists(t)
         /\ Exists(t) => View[t] = Answers(tables[t])
<1>1. Exists(t) => Answers(tables[t]) # NoTable
  BY AnswersAreItems DEF TablesAreSound, Sound
<1>2. QED
  BY <1>1 DEF View, Answers

LEMMA ViewBecomes ==
  ASSUME TablesAreSound, NEW t \in Tables, NEW new, tables' = [tables EXCEPT ![t] = new]
  PROVE  View' = [View EXCEPT ![t] = IF new = NoTable THEN NoTable ELSE Answers(new)]
<1>1. /\ tables'[t] = new /\ \A u \in Tables : u # t => tables'[u] = tables[u]
  BY DEF TablesAreSound
<1>2. View'[t] = IF new = NoTable THEN NoTable ELSE Answers(new)
  BY <1>1 DEF View, Exists, Answers
<1>3. \A u \in Tables : u # t => View'[u] = View[u]
  BY <1>1 DEF View, Exists
<1>4. View' = [u \in Tables |-> View'[u]] /\ View = [u \in Tables |-> View[u]]
  BY DEF View
<1> HIDE DEF View
<1>5. QED
  BY <1>2, <1>3, <1>4

\* Memory that was just handed out is nobody's item.
LEMMA UsedIsLive ==
  ASSUME TableInvariant
  PROVE  Maps!Used \subseteq live
<1>1. TablesAreSound /\ Parts(Holdings, live)
  BY DEF TableInvariant
<1>2. ASSUME NEW t \in Tables, Exists(t), NEW key \in Keys, View[t][key] # NULL
      PROVE  View[t][key] \in live
  <2>1. View[t][key] \in Owns(tables[t])
    BY <1>1, <1>2, ViewTells, AnswersAreItems DEF TablesAreSound, Sound
  <2>2. QED
    BY <1>1, <1>2, <2>1 DEF Parts, Holdings
<1>3. \A t \in Tables : View[t] # NoTable => Exists(t)
  BY <1>1, ViewTells
<1>4. Maps!Used = (UNION {{View[t][key] : key \in Keys} :
                           t \in {x \in Tables : View[x] # NoTable}}) \ {NULL}
  BY DEF Maps!Used, View
<1>5. QED
  BY <1>2, <1>3, <1>4

LEMMA InitTableMakes ==
  ASSUME TableInvariant, NEW t \in Tables, NEW size \in Sizes, InitTable(t, size)
  PROVE  Maps!Make(t)
<1>1. MemoryIsTidy /\ TablesAreSound
  BY DEF TableInvariant
<1>2. PICK fresh \in Fresh(1) : tables' = [tables EXCEPT ![t] = NewTable(fresh[1], size)]
  BY DEF InitTable
<1>3. fresh[1] \in Addresses
  <2>1. fresh \in Seq(Addresses) /\ Len(fresh) = 1
    BY <1>1, FreshPages
  <2>2. QED
    BY <2>1
<1> DEFINE new == NewTable(fresh[1], size)
<1>4. Answers(new) = [key \in Keys |-> NULL]
  BY <1>3, NewAnswers
<1>5. new # NoTable
  BY <1>3, NewTableIsEmpty, IsATable
<1> HIDE DEF new
<1>6. View' = [View EXCEPT ![t] = [key \in Keys |-> NULL]]
  BY <1>1, <1>2, <1>4, <1>5, ViewBecomes DEF new
<1>7. View[t] = NoTable
  BY <1>1, ViewTells DEF InitTable
<1>8. QED
  BY <1>6, <1>7 DEF Maps!Make, Maps!Exists, Maps!Becomes, Maps!Empty, View

LEMMA GetOrCreateAsks ==
  ASSUME TableInvariant, NEW t \in Tables, NEW key \in Keys, GetOrCreate(t, key)
  PROVE  Maps!Ask(t, key)
<1> DEFINE table == tables[t]
<1>1. MemoryIsTidy /\ TablesAreSound /\ Sound(table) /\ Owns(table) \subseteq live
  BY DEF TableInvariant, TablesAreSound, GetOrCreate, Parts, Holdings
<1>2. PICK fresh \in Fresh(2) :
        tables' = [tables EXCEPT ![t] = Created(@, NewItem(key, fresh[1], fresh[2]))]
  BY DEF GetOrCreate
<1>3. /\ fresh[1] \in Addresses \ live /\ fresh[2] \in Addresses \ live
      /\ fresh[1] # fresh[2]
  <2>1. /\ ToSet(fresh) \cap live = {} /\ Len(fresh) = 2 /\ IsInjective(fresh)
        /\ fresh \in Seq(Addresses)
    BY <1>1, FreshPages
  <2>2. DOMAIN fresh = 1..2 /\ fresh[1] \in Addresses /\ fresh[2] \in Addresses
    BY <2>1
  <2>3. QED
    BY <2>1, <2>2 DEF ToSet, IsInjective
<1> DEFINE item == NewItem(key, fresh[1], fresh[2])
           new == Created(table, item)
<1>4. /\ item \in ItemType /\ item.key = key
      /\ item.page = fresh[1] /\ item.key_page = fresh[2]
  BY <1>3 DEF NewItem, ItemType
<1>5. tables' = [tables EXCEPT ![t] = new]
  BY <1>2
<1>6. Get(table, key) = NULL
  BY DEF GetOrCreate
<1>7. View[t] # NoTable /\ View[t] = Answers(table)
  BY <1>1, ViewTells DEF GetOrCreate
<1> HIDE DEF table, item
<1>8. \A x \in Contents(table) : x.key # key
  BY <1>1, <1>6, GetTells, KeysTell, AddressesAssumption DEF Sound, ItemType
<1>9. Sound(new) /\ Contents(new) = Contents(table) \cup {item}
  BY <1>1, <1>3, <1>4, <1>8, CreatedHolds
<1>10. Answers(new) = [Answers(table) EXCEPT ![item.key] = item.page]
  BY <1>1, <1>4, <1>9, CreatedAnswers DEF Sound
<1>11. new # NoTable
  BY <1>9, IsATable DEF Sound
<1> HIDE DEF new
<1>12. View' = [View EXCEPT ![t] = [View[t] EXCEPT ![key] = fresh[1]]]
  <2>1. Answers(new) = [View[t] EXCEPT ![key] = fresh[1]]
    BY <1>4, <1>7, <1>10
  <2>2. View' = [View EXCEPT ![t] = Answers(new)]
    BY <1>1, <1>5, <1>11, ViewBecomes
  <2>3. QED
    BY <2>1, <2>2
<1>13. fresh[1] \in Addresses \ Maps!Used
  BY <1>3, UsedIsLive
<1>14. View[t][key] = NULL
  BY <1>6, <1>7 DEF Answers
<1>15. View'[t] # NoTable /\ View'[t][key] = fresh[1]
  <2>1. Answers(new) = [View[t] EXCEPT ![key] = fresh[1]] /\ View'[t] = Answers(new)
    BY <1>4, <1>7, <1>10, <1>12 DEF View
  <2>2. Answers(new) # NoTable
    BY <1>9, AnswersAreItems DEF Sound
  <2>3. key \in DOMAIN View[t]
    BY <1>7 DEF Answers
  <2>4. QED
    BY <2>1, <2>2, <2>3
<1>16. QED
  BY <1>7, <1>12, <1>13, <1>14, <1>15 DEF Maps!Ask, Maps!Exists, Maps!Becomes, View

LEMMA RemoveItemRemoves ==
  ASSUME TableInvariant, NEW t \in Tables, NEW key \in Keys, RemoveItem(t, key)
  PROVE  Maps!Remove(t, key)
<1> DEFINE table == tables[t]
           item == ItemWith(table, key)
           new == Without(table, key)
<1>1. /\ TablesAreSound /\ Sound(table) /\ PlaceOf(table, key) # 0
      /\ tables' = [tables EXCEPT ![t] = new]
  BY DEF TableInvariant, TablesAreSound, RemoveItem
<1>2. View[t] # NoTable /\ View[t] = Answers(table)
  BY <1>1, ViewTells DEF RemoveItem
<1> HIDE DEF table
<1>3. /\ Sound(new) /\ Contents(new) = Contents(table) \ {item}
      /\ item \in Contents(table) /\ item.key = key
  BY <1>1, WithoutSound
<1> HIDE DEF item
<1>4. Answers(new) = [Answers(table) EXCEPT ![item.key] = NULL]
  BY <1>1, <1>3, WithoutAnswers DEF Sound
<1>5. new # NoTable
  BY <1>3, IsATable DEF Sound
<1> HIDE DEF new
<1>6. View' = [View EXCEPT ![t] = [View[t] EXCEPT ![key] = NULL]]
  BY <1>1, <1>2, <1>3, <1>4, <1>5, ViewBecomes, ZenonT(60)
<1>7. QED
  BY <1>2, <1>6 DEF Maps!Remove, Maps!Exists, Maps!Becomes, View

LEMMA ClearedAnswers ==
  ASSUME NEW table, Sound(table)
  PROVE  Cleared(table) # NoTable /\ Answers(Cleared(table)) = [key \in Keys |-> NULL]
<1>1. table.page \in Addresses /\ table.size \in Sizes
  BY TableFields DEF Sound, Chained
<1>2. QED
  BY <1>1, NewAnswers, NewTableIsEmpty, IsATable DEF Cleared

LEMMA ClearBucketsClears ==
  ASSUME TableInvariant, NEW t \in Tables, ClearBuckets(t)
  PROVE  Maps!Clear(t)
<1> DEFINE new == Cleared(tables[t])
<1>1. TablesAreSound /\ Sound(tables[t]) /\ tables' = [tables EXCEPT ![t] = new]
  BY DEF TableInvariant, TablesAreSound, ClearBuckets
<1>2. new # NoTable /\ Answers(new) = [key \in Keys |-> NULL]
  BY <1>1, ClearedAnswers
<1> HIDE DEF new
<1>3. View' = [View EXCEPT ![t] = [key \in Keys |-> NULL]]
  BY <1>1, <1>2, ViewBecomes
<1>4. View[t] # NoTable
  BY <1>1, ViewTells DEF ClearBuckets
<1>5. QED
  BY <1>3, <1>4 DEF Maps!Clear, Maps!Exists, Maps!Becomes, Maps!Empty, View

LEMMA FreeTableDrops ==
  ASSUME TableInvariant, NEW t \in Tables, FreeTable(t)
  PROVE  Maps!Drop(t)
<1>1. TablesAreSound /\ tables' = [tables EXCEPT ![t] = NoTable]
  BY DEF TableInvariant, FreeTable
<1>2. View' = [View EXCEPT ![t] = NoTable]
  BY <1>1, ViewBecomes
<1>3. View[t] # NoTable
  BY <1>1, ViewTells DEF FreeTable
<1>4. QED
  BY <1>2, <1>3 DEF Maps!Drop, Maps!Exists, Maps!Becomes, View

LEMMA MoveTableMoves ==
  ASSUME TableInvariant, NEW from \in Tables, NEW to \in Tables, NEW size \in Sizes,
         MoveTable(from, to, size)
  PROVE  Maps!Move(from, to)
<1> DEFINE table == tables[from]
           cleared == Cleared(table)
<1>1. from # to
  BY DEF MoveTable
<1>2. PICK fresh \in Fresh(1) :
        tables' = [tables EXCEPT ![to] = Moved(tables[from], fresh[1], size),
                                 ![from] = Cleared(@)]
  BY DEF MoveTable
<1> DEFINE new == Moved(table, fresh[1], size)
<1>3. MemoryIsTidy /\ TablesAreSound /\ Sound(table)
  BY DEF TableInvariant, TablesAreSound, MoveTable
<1>4. fresh[1] \in Addresses
  <2>1. fresh \in Seq(Addresses) /\ Len(fresh) = 1
    BY <1>3, FreshPages
  <2>2. QED
    BY <2>1
<1>5. /\ tables'[to] = new /\ tables'[from] = cleared
      /\ \A u \in Tables : u # from /\ u # to => tables'[u] = tables[u]
  BY <1>1, <1>2, <1>3 DEF TablesAreSound
<1>6. View[to] = NoTable /\ View[from] # NoTable /\ View[from] = Answers(table)
  BY <1>3, ViewTells DEF MoveTable
<1> HIDE DEF table
<1>7. new # NoTable /\ Answers(new) = Answers(table)
  BY <1>3, <1>4, MovedHolds, SameAnswers, IsATable DEF Sound
<1>8. cleared # NoTable /\ Answers(cleared) = [key \in Keys |-> NULL]
  BY <1>3, ClearedAnswers
<1> HIDE DEF new, cleared
<1>9. /\ View'[to] = View[from] /\ View'[from] = [key \in Keys |-> NULL]
      /\ \A u \in Tables : u # from /\ u # to => View'[u] = View[u]
  <2>1. View'[to] = Answers(new) /\ View'[from] = Answers(cleared)
    BY <1>5, <1>7, <1>8 DEF View, Exists, Answers
  <2>2. \A u \in Tables : u # from /\ u # to => View'[u] = View[u]
    BY <1>5 DEF View, Exists
  <2>3. QED
    BY <1>6, <1>7, <1>8, <2>1, <2>2
<1>10. View' = [u \in Tables |-> View'[u]] /\ View = [u \in Tables |-> View[u]]
  BY DEF View
<1>11. View' = [View EXCEPT ![to] = View[from], ![from] = [key \in Keys |-> NULL]]
  BY <1>1, <1>9, <1>10
<1>12. QED
  BY <1>6, <1>11 DEF Maps!Move, Maps!Exists, Maps!Empty, View

LEMMA CopyTableCopies ==
  ASSUME TableInvariant, NEW from \in Tables, NEW to \in Tables, CopyTable(from, to)
  PROVE  Maps!Copy(from, to)
<1> DEFINE table == tables[from]
           n == 1 + 2 * Len(ItemsOf(table))
<1>1. PICK fresh \in Fresh(n) : tables' = [tables EXCEPT ![to] = Copied(table, fresh)]
  BY DEF CopyTable
<1> DEFINE new == Copied(table, fresh)
           old == Answers(table)
           other == Answers(new)
           keys == {key \in Keys : View[from][key] # NULL}
           items == [key \in keys |-> other[key]]
<1>2. /\ MemoryIsTidy /\ TablesAreSound /\ Sound(table)
      /\ tables' = [tables EXCEPT ![to] = new]
  BY <1>1 DEF TableInvariant, TablesAreSound, CopyTable
<1>3. View[to] = NoTable /\ View[from] # NoTable /\ View[from] = old
  BY <1>2, ViewTells DEF CopyTable
<1> HIDE DEF table
<1>4. Enough(table, fresh) /\ ToSet(fresh) \cap live = {} /\ ToSet(fresh) \subseteq Addresses
  <2>1. n \in Nat
    BY <1>2, ItemsInOrder DEF Sound
  <2> HIDE DEF n
  <2>2. /\ fresh \in Seq(Addresses) /\ Len(fresh) = n /\ IsInjective(fresh)
        /\ ToSet(fresh) \cap live = {}
    BY <1>2, <2>1, FreshPages
  <2>3. DOMAIN fresh = 1..Len(fresh)
    BY <2>2
  <2>4. QED
    BY <2>2, <2>3 DEF Enough, ToSet, n
<1>5. new # NoTable
  BY <1>2, <1>4, CopiedSound, IsATable DEF Sound
<1>6. /\ \A key \in Keys : old[key] = NULL <=> other[key] = NULL
      /\ \A key \in Keys : other[key] # NULL => other[key] \in ToSet(fresh)
      /\ \A j, k \in Keys : other[j] # NULL /\ other[j] = other[k] => j = k
  BY <1>2, <1>4, CopiedAnswers DEF Sound
<1>7. other = [key \in Keys |-> other[key]]
  BY DEF Answers
<1>8. View' = [View EXCEPT ![to] = other]
  BY <1>2, <1>5, ViewBecomes
<1>9. ToSet(fresh) \subseteq Addresses \ Maps!Used
  BY <1>4, UsedIsLive
<1> HIDE DEF new, old, other
<1>10. \A key \in Keys : key \in keys <=> other[key] # NULL
  BY <1>3, <1>6
<1>11. keys \subseteq Keys
  OBVIOUS
<1> HIDE DEF keys
<1>12. items \in [keys -> Addresses \ Maps!Used]
  BY <1>6, <1>9, <1>10, <1>11
<1>13. \A j, k \in keys : items[j] = items[k] => j = k
  BY <1>6, <1>10, <1>11
<1>14. other = [key \in Keys |-> IF key \in keys THEN items[key] ELSE NULL]
  BY <1>7, <1>10
<1> HIDE DEF items
<1>15. \E f \in [keys -> Addresses \ Maps!Used] :
         /\ \A j, k \in keys : f[j] = f[k] => j = k
         /\ View' = [View EXCEPT ![to] = [key \in Keys |-> IF key \in keys THEN f[key] ELSE NULL]]
  BY <1>8, <1>12, <1>13, <1>14
<1>16. QED
  BY <1>3, <1>15 DEF Maps!Copy, Maps!Exists, Maps!Becomes, View, keys

LEMMA ExitEnds ==
  ASSUME Exit
  PROVE  Maps!End
<1>1. \A t \in Tables : tables'[t] = NoTable
  BY DEF Exit
<1>2. QED
  BY <1>1 DEF Maps!End, Exists

LEMMA StepMaps ==
  ASSUME TableInvariant, [Next]_vars
  PROVE  [Maps!Next]_View
<1>1. CASE UNCHANGED vars
  <2>1. tables' = tables
    BY <1>1 DEF vars
  <2>2. QED
    BY <2>1 DEF View, Exists
<1>2. ASSUME NEW t \in Tables, NEW size \in Sizes, InitTable(t, size)
      PROVE  Maps!Next
  BY <1>2, InitTableMakes DEF Maps!Next
<1>3. ASSUME NEW t \in Tables, NEW key \in Keys, GetOrCreate(t, key)
      PROVE  Maps!Next
  BY <1>3, GetOrCreateAsks DEF Maps!Next
<1>4. ASSUME NEW t \in Tables, NEW key \in Keys, RemoveItem(t, key)
      PROVE  Maps!Next
  BY <1>4, RemoveItemRemoves DEF Maps!Next
<1>5. ASSUME NEW t \in Tables, ClearBuckets(t)
      PROVE  Maps!Next
  BY <1>5, ClearBucketsClears DEF Maps!Next
<1>6. ASSUME NEW t \in Tables, FreeTable(t)
      PROVE  Maps!Next
  BY <1>6, FreeTableDrops DEF Maps!Next
<1>7. ASSUME NEW from \in Tables, NEW to \in Tables, NEW size \in Sizes,
             MoveTable(from, to, size)
      PROVE  Maps!Next
  BY <1>7, MoveTableMoves DEF Maps!Next
<1>8. ASSUME NEW from \in Tables, NEW to \in Tables, CopyTable(from, to)
      PROVE  Maps!Next
  BY <1>8, CopyTableCopies DEF Maps!Next
<1>9. ASSUME Exit
      PROVE  Maps!Next
  BY <1>9, ExitEnds DEF Maps!Next
<1>10. CASE Next
  <2>1. Maps!Next
    BY <1>2, <1>3, <1>4, <1>5, <1>6, <1>7, <1>8, <1>9, <1>10 DEF Next
  <2>2. QED
    BY <2>1
<1>11. QED
  BY <1>1, <1>10

-----------------------------------------------------------------------------
(* The results.                                                            *)

(* What is linked, owned and held stays as the code means it to, whatever  *)
(* the operations: the invariant the other theorems follow from.           *)
THEOREM InvariantHolds == Spec => []TableInvariant
<1>1. Init => TableInvariant
  BY InitKeeps
<1>2. TableInvariant /\ [Next]_vars => TableInvariant'
  BY NextKeeps
<1>3. QED
  BY <1>1, <1>2, PTL DEF Spec

(* Every table has the buckets its size says, in them items with the       *)
(* fields of an item, and every page is an address malloc may hand out     *)
(* (symtable.c, memory.c).                                                 *)
THEOREM TypesAreKept == Spec => []TypeOK
<1>1. TableInvariant => TypeOK
  <2> SUFFICES ASSUME TableInvariant
               PROVE  TypeOK
    OBVIOUS
  <2>1. /\ tables = [t \in Tables |-> tables[t]]
        /\ \A t \in Tables : Exists(t) => \E size \in Sizes : tables[t] \in TableType(size)
    BY DEF TableInvariant, TablesAreSound, Sound, Chained
  <2>2. manager \in [head : Addresses \cup {NULL}, next : Field, prev : Field]
    BY DEF TableInvariant, MemoryIsTidy, Tidy, MemoryType, ManagerType, memory
  <2>3. allocated \in 0..Cardinality(Addresses) /\ live \subseteq 1..allocated
    BY DEF TableInvariant, MemoryIsTidy
  <2>4. QED
    BY <2>1, <2>2, <2>3 DEF TypeOK
<1>2. QED
  BY <1>1, InvariantHolds, PTL

(* The list of pages of memory.c has every page malloc handed out and      *)
(* nobody gave back, once, chained both ways, however many there are.      *)
THEOREM PagesStayLinked == Spec => []PagesAreLinked
<1>1. TableInvariant => PagesAreLinked
  BY TidyLinks DEF TableInvariant, MemoryIsTidy, PagesAreLinked, memory
<1>2. QED
  BY <1>1, InvariantHolds, PTL

(* Every page is one thing of one table: no operation of symtable.c leaves *)
(* one behind, gives one to two, or keeps one it has released.             *)
THEOREM PagesStayOwned == Spec => []EveryPageHasAnOwner
<1>1. TableInvariant => EveryPageHasAnOwner
  <2> SUFFICES ASSUME TableInvariant
               PROVE  EveryPageHasAnOwner
    OBVIOUS
  <2> DEFINE present == {t \in Tables : Exists(t)}
             pages == [t \in present |-> ToSet(PagesOf(tables[t]))]
  <2>1. ASSUME NEW t \in present
        PROVE  IsInjective(PagesOf(tables[t])) /\ pages[t] = Holdings[t]
    BY PagesOfTable DEF TableInvariant, TablesAreSound, Sound, Holdings
  <2>2. \A t \in Tables : t \notin present => Holdings[t] = {}
    BY DEF Holdings
  <2>3. Parts(Holdings, live) /\ present \subseteq Tables
    BY DEF TableInvariant
  <2> HIDE DEF present, pages
  <2>4. \A t, u \in present : t # u => pages[t] \cap pages[u] = {}
    BY <2>1, <2>3 DEF Parts
  <2>5. (UNION {pages[t] : t \in present}) = live
    BY <2>1, <2>2, <2>3 DEF Parts
  <2>6. QED
    BY <2>1, <2>4, <2>5 DEF EveryPageHasAnOwner, present, pages
<1>2. QED
  BY <1>1, InvariantHolds, PTL

(* The chains of items behind a hash are maps: whatever is put in, taken   *)
(* out, moved to another number of buckets or copied, every key has the    *)
(* item it was first given until that one is taken away (symtable.c).      *)
THEOREM TablesAreMaps == Spec => ImplementsMaps
<1>1. Init => Maps!Init
  BY DEF Init, Maps!Init, Exists
<1>2. TableInvariant /\ [Next]_vars => [Maps!Next]_View
  BY StepMaps
<1>3. QED
  BY <1>1, <1>2, InvariantHolds, PTL DEF Spec, ImplementsMaps, Maps!Spec, View

(* The tables whose links are followed are the same tables, so all of this *)
(* holds of them too (symtable.c, one function by one).                    *)
THEOREM LinkedTablesAreTables == LinkedSpec => Spec
<1>1. LinkedInit => Init
  BY DEF LinkedInit
<1>2. [LinkedNext]_linked_vars => [Next]_vars
  <2>1. CASE UNCHANGED linked_vars
    BY <2>1 DEF linked_vars
  <2>2. CASE LinkedNext
    BY <2>2 DEF LinkedNext, Next, LinkedInitTable, LinkedGetOrCreate, LinkedRemoveItem,
      LinkedClearBuckets, LinkedFreeTable, LinkedMoveTable, LinkedCopyTable, LinkedExit
  <2>3. QED
    BY <2>1, <2>2
<1>3. QED
  BY <1>1, <1>2, PTL DEF LinkedSpec, Spec

=============================================================================
