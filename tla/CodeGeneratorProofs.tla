------------------------ MODULE CodeGeneratorProofs ------------------------
(***************************************************************************)
(* Proof that the pointers of the code generator are at all times those of *)
(* the two lists its callers asked for, for any set of addresses.          *)
(***************************************************************************)
EXTENDS CodeGenerator, SequenceTheorems, FiniteSetTheorems, WellFoundedInduction, TLAPS

-----------------------------------------------------------------------------
(* Sequences. *)

(* Inserting at a place moves what was there, and what follows it, by one. *)
LEMMA InsertAtFacts ==
  ASSUME NEW S, NEW s \in Seq(S), NEW k \in 1..Len(s) + 1, NEW e \in S
  PROVE  /\ InsertAt(s, k, e) \in Seq(S)
         /\ Len(InsertAt(s, k, e)) = Len(s) + 1
         /\ \A j \in 1..Len(s) + 1 :
              InsertAt(s, k, e)[j] =
                IF j < k THEN s[j] ELSE IF j = k THEN e ELSE s[j - 1]
<1> DEFINE before == SubSeq(s, 1, k - 1)
           after == SubSeq(s, k, Len(s))
<1>1. /\ before \in Seq(S) /\ Len(before) = k - 1
      /\ \A j \in 1..k - 1 : before[j] = s[j]
  BY SubSeqProperties
<1>2. /\ after \in Seq(S) /\ Len(after) = Len(s) - k + 1
      /\ \A j \in 1..Len(s) - k + 1 : after[j] = s[k + j - 1]
  BY SubSeqProperties
<1> HIDE DEF before, after
<1>3. /\ before \o <<e>> \in Seq(S) /\ Len(before \o <<e>>) = k
      /\ \A j \in 1..k : (before \o <<e>>)[j] = IF j < k THEN s[j] ELSE e
  BY <1>1
<1> DEFINE upto == before \o <<e>>
<1> HIDE DEF upto
<1>4. InsertAt(s, k, e) = upto \o after
  BY DEF InsertAt, upto, before, after
<1>5. upto \in Seq(S) /\ Len(upto) = k
      /\ \A j \in 1..k : upto[j] = IF j < k THEN s[j] ELSE e
  BY <1>3 DEF upto
<1>6. /\ upto \o after \in Seq(S)
      /\ Len(upto \o after) = Len(upto) + Len(after)
      /\ \A j \in 1..Len(upto) + Len(after) :
           (upto \o after)[j] =
             IF j <= Len(upto) THEN upto[j] ELSE after[j - Len(upto)]
  BY <1>2, <1>5, ConcatProperties
<1>7. Len(s) \in Nat /\ k \in Int
  OBVIOUS
<1>8. ASSUME NEW j \in 1..Len(s) + 1
      PROVE  InsertAt(s, k, e)[j] =
               IF j < k THEN s[j] ELSE IF j = k THEN e ELSE s[j - 1]
  <2>1. CASE j <= k
    BY <2>1, <1>2, <1>4, <1>5, <1>6, <1>7
  <2>2. CASE ~ (j <= k)
    <3>1. j - k \in 1..Len(s) - k + 1 /\ k + (j - k) - 1 = j - 1
      BY <2>2, <1>7
    <3>2. (upto \o after)[j] = after[j - k]
      BY <2>2, <1>2, <1>5, <1>6, <1>7
    <3>3. after[j - k] = s[j - 1]
      BY <3>1, <1>2
    <3>4. ~ (j < k) /\ j # k
      BY <2>2, <1>7
    <3>5. InsertAt(s, k, e)[j] = s[j - 1]
      BY <3>2, <3>3, <1>4
    <3> QED  BY <3>4, <3>5
  <2> QED  BY <2>1, <2>2
<1> QED  BY <1>2, <1>4, <1>5, <1>6, <1>7, <1>8

(* Removing from a place moves what follows it back by one. *)
LEMMA RemoveAtFacts ==
  ASSUME NEW S, NEW s \in Seq(S), NEW k \in 1..Len(s)
  PROVE  /\ RemoveAt(s, k) \in Seq(S)
         /\ Len(RemoveAt(s, k)) = Len(s) - 1
         /\ \A j \in 1..Len(s) - 1 :
              RemoveAt(s, k)[j] = IF j < k THEN s[j] ELSE s[j + 1]
<1> DEFINE before == SubSeq(s, 1, k - 1)
           after == SubSeq(s, k + 1, Len(s))
<1>1. /\ before \in Seq(S) /\ Len(before) = k - 1
      /\ \A j \in 1..k - 1 : before[j] = s[j]
  BY SubSeqProperties
<1>2. /\ after \in Seq(S) /\ Len(after) = Len(s) - k
      /\ \A j \in 1..Len(s) - k : after[j] = s[k + j]
  BY SubSeqProperties
<1> HIDE DEF before, after
<1>3. RemoveAt(s, k) = before \o after
  BY DEF RemoveAt, before, after
<1>4. /\ before \o after \in Seq(S)
      /\ Len(before \o after) = Len(before) + Len(after)
      /\ \A j \in 1..Len(before) + Len(after) :
           (before \o after)[j] =
             IF j <= Len(before) THEN before[j] ELSE after[j - Len(before)]
  BY <1>1, <1>2, ConcatProperties
<1>5. Len(s) \in Nat /\ k \in Int
  OBVIOUS
<1>6. ASSUME NEW j \in 1..Len(s) - 1
      PROVE  RemoveAt(s, k)[j] = IF j < k THEN s[j] ELSE s[j + 1]
  <2>1. CASE j < k
    BY <2>1, <1>1, <1>2, <1>3, <1>4, <1>5
  <2>2. CASE ~ (j < k)
    <3>1. j - (k - 1) \in 1..Len(s) - k /\ k + (j - (k - 1)) = j + 1
      BY <2>2, <1>5
    <3>2. (before \o after)[j] = after[j - (k - 1)]
      BY <2>2, <1>1, <1>2, <1>4, <1>5
    <3> QED  BY <3>1, <3>2, <2>2, <1>2, <1>3
  <2> QED  BY <2>1, <2>2
<1> QED  BY <1>1, <1>2, <1>3, <1>4, <1>5, <1>6

LEMMA InRange ==
  ASSUME NEW S, NEW s \in Seq(S)
  PROVE  /\ Range(s) \subseteq S
         /\ \A k \in 1..Len(s) : s[k] \in Range(s) /\ s[k] \in S
<1>1. DOMAIN s = 1..Len(s) /\ \A k \in 1..Len(s) : s[k] \in S
  OBVIOUS
<1> QED  BY <1>1 DEF Range

(* What the list operations do to the elements of a list without repetition. *)
LEMMA AppendElements ==
  ASSUME NEW S, NEW s \in Seq(S), NEW e \in S
  PROVE  /\ Range(Append(s, e)) = Range(s) \cup {e}
         /\ IsInjective(s) /\ e \notin Range(s) => IsInjective(Append(s, e))
<1>1. /\ Append(s, e) \in Seq(S) /\ Len(Append(s, e)) = Len(s) + 1
      /\ \A j \in 1..Len(s) + 1 : Append(s, e)[j] = IF j = Len(s) + 1 THEN e ELSE s[j]
  OBVIOUS
<1>2. Len(s) \in Nat /\ DOMAIN s = 1..Len(s) /\ DOMAIN Append(s, e) = 1..Len(s) + 1
  BY <1>1
<1>3. Range(Append(s, e)) = Range(s) \cup {e}
  <2>1. ASSUME NEW x \in Range(Append(s, e))  PROVE x \in Range(s) \cup {e}
    BY <1>1, <1>2 DEF Range
  <2>2. ASSUME NEW x \in Range(s)  PROVE x \in Range(Append(s, e))
    <3>1. PICK j \in 1..Len(s) : x = s[j]
      BY <1>2 DEF Range
    <3>2. j \in 1..Len(s) + 1 /\ j # Len(s) + 1
      BY <1>2
    <3> QED  BY <3>1, <3>2, <1>1, <1>2 DEF Range
  <2>3. e \in Range(Append(s, e))
    <3>1. Len(s) + 1 \in 1..Len(s) + 1
      BY <1>2
    <3> QED  BY <3>1, <1>1, <1>2 DEF Range
  <2> QED  BY <2>1, <2>2, <2>3
<1>4. ASSUME IsInjective(s), e \notin Range(s)  PROVE IsInjective(Append(s, e))
  BY <1>1, <1>2, <1>4 DEF IsInjective, Range
<1> QED  BY <1>3, <1>4

LEMMA RemoveAtElements ==
  ASSUME NEW S, NEW s \in Seq(S), NEW k \in 1..Len(s), IsInjective(s)
  PROVE  /\ Range(RemoveAt(s, k)) = Range(s) \ {s[k]}
         /\ IsInjective(RemoveAt(s, k))
<1> DEFINE t == RemoveAt(s, k)
<1>1. /\ t \in Seq(S) /\ Len(t) = Len(s) - 1
      /\ \A j \in 1..Len(s) - 1 : t[j] = IF j < k THEN s[j] ELSE s[j + 1]
  BY RemoveAtFacts
<1> HIDE DEF t
<1>2. Len(s) \in Nat /\ DOMAIN s = 1..Len(s) /\ DOMAIN t = 1..Len(s) - 1 /\ k \in Int
  BY <1>1
<1>3. ASSUME NEW j \in DOMAIN t
      PROVE  \E m \in DOMAIN s : m # k /\ t[j] = s[m] /\ m = IF j < k THEN j ELSE j + 1
  BY <1>1, <1>2
<1>4. ASSUME NEW m \in DOMAIN s, m # k  PROVE \E j \in DOMAIN t : t[j] = s[m]
  <2>1. CASE m < k
    <3>1. m \in 1..Len(s) - 1
      BY <2>1, <1>2
    <3> QED  BY <3>1, <2>1, <1>1, <1>2
  <2>2. CASE m > k
    <3>1. m - 1 \in 1..Len(s) - 1 /\ ~ (m - 1 < k) /\ (m - 1) + 1 = m
      BY <2>2, <1>2
    <3>2. t[m - 1] = s[m]
      BY <3>1, <1>1
    <3> QED  BY <3>1, <3>2, <1>2
  <2> QED  BY <2>1, <2>2, <1>4, <1>2
<1>5. Range(t) = Range(s) \ {s[k]}
  <2>1. ASSUME NEW x \in Range(t)  PROVE x \in Range(s) \ {s[k]}
    <3>1. PICK j \in DOMAIN t : x = t[j]
      BY DEF Range
    <3>2. PICK m \in DOMAIN s : m # k /\ t[j] = s[m]
      BY <1>3
    <3> QED  BY <3>1, <3>2, <1>2 DEF IsInjective, Range
  <2>2. ASSUME NEW x \in Range(s), x # s[k]  PROVE x \in Range(t)
    <3>1. PICK m \in DOMAIN s : x = s[m]
      BY DEF Range
    <3>2. m # k
      BY <3>1, <2>2
    <3> QED  BY <3>1, <3>2, <1>4 DEF Range
  <2> QED  BY <2>1, <2>2
<1>6. IsInjective(t)
  <2> SUFFICES ASSUME NEW a \in DOMAIN t, NEW c \in DOMAIN t, t[a] = t[c]
               PROVE  a = c
    BY DEF IsInjective
  <2>1. PICK m \in DOMAIN s : m # k /\ t[a] = s[m] /\ m = IF a < k THEN a ELSE a + 1
    BY <1>3
  <2>2. PICK n \in DOMAIN s : n # k /\ t[c] = s[n] /\ n = IF c < k THEN c ELSE c + 1
    BY <1>3
  <2>3. m = n
    BY <2>1, <2>2 DEF IsInjective
  <2> QED  BY <2>1, <2>2, <2>3, <1>2
<1> QED  BY <1>5, <1>6 DEF t

LEMMA InsertAtElements ==
  ASSUME NEW S, NEW s \in Seq(S), NEW k \in 1..Len(s) + 1, NEW e \in S
  PROVE  /\ Range(InsertAt(s, k, e)) = Range(s) \cup {e}
         /\ IsInjective(s) /\ e \notin Range(s) => IsInjective(InsertAt(s, k, e))
<1> DEFINE t == InsertAt(s, k, e)
<1>1. /\ t \in Seq(S) /\ Len(t) = Len(s) + 1
      /\ \A j \in 1..Len(s) + 1 :
           t[j] = IF j < k THEN s[j] ELSE IF j = k THEN e ELSE s[j - 1]
  BY InsertAtFacts
<1> HIDE DEF t
<1>2. Len(s) \in Nat /\ DOMAIN s = 1..Len(s) /\ DOMAIN t = 1..Len(s) + 1 /\ k \in Int
  BY <1>1
<1>3. t[k] = e /\ k \in DOMAIN t
  BY <1>1, <1>2
<1>4. ASSUME NEW j \in DOMAIN t, j # k
      PROVE  \E m \in DOMAIN s : t[j] = s[m] /\ m = IF j < k THEN j ELSE j - 1
  BY <1>1, <1>2, <1>4
<1>5. ASSUME NEW m \in DOMAIN s  PROVE \E j \in DOMAIN t : t[j] = s[m]
  <2>1. CASE m < k
    <3>1. m \in 1..Len(s) + 1
      BY <2>1, <1>2
    <3> QED  BY <3>1, <2>1, <1>1, <1>2
  <2>2. CASE ~ (m < k)
    <3>1. m + 1 \in 1..Len(s) + 1 /\ ~ (m + 1 < k) /\ m + 1 # k /\ (m + 1) - 1 = m
      BY <2>2, <1>2
    <3>2. t[m + 1] = s[m]
      BY <3>1, <1>1
    <3> QED  BY <3>1, <3>2, <1>2
  <2> QED  BY <2>1, <2>2
<1>6. Range(t) = Range(s) \cup {e}
  <2>1. ASSUME NEW x \in Range(t)  PROVE x \in Range(s) \cup {e}
    <3>1. PICK j \in DOMAIN t : x = t[j]
      BY DEF Range
    <3> QED  BY <3>1, <1>3, <1>4 DEF Range
  <2>2. ASSUME NEW x \in Range(s)  PROVE x \in Range(t)
    <3>1. PICK m \in DOMAIN s : x = s[m]
      BY DEF Range
    <3> QED  BY <3>1, <1>5 DEF Range
  <2>3. e \in Range(t)
    BY <1>3 DEF Range
  <2> QED  BY <2>1, <2>2, <2>3
<1>7. ASSUME IsInjective(s), e \notin Range(s)  PROVE IsInjective(t)
  <2> SUFFICES ASSUME NEW a \in DOMAIN t, NEW c \in DOMAIN t, t[a] = t[c]
               PROVE  a = c
    BY DEF IsInjective
  <2>1. CASE a = k \/ c = k
    BY <2>1, <1>3, <1>4, <1>7 DEF Range
  <2>2. CASE a # k /\ c # k
    <3>1. PICK m \in DOMAIN s : t[a] = s[m] /\ m = IF a < k THEN a ELSE a - 1
      BY <2>2, <1>4
    <3>2. PICK n \in DOMAIN s : t[c] = s[n] /\ n = IF c < k THEN c ELSE c - 1
      BY <2>2, <1>4
    <3>3. m = n
      BY <3>1, <3>2, <1>7 DEF IsInjective
    <3> QED  BY <3>1, <3>2, <3>3, <2>2, <1>2
  <2> QED  BY <2>1, <2>2
<1> QED  BY <1>6, <1>7 DEF t

LEMMA ConcatElements ==
  ASSUME NEW S, NEW s \in Seq(S), NEW r \in Seq(S)
  PROVE  /\ Range(s \o r) = Range(s) \cup Range(r)
         /\ IsInjective(s) /\ IsInjective(r) /\ Range(s) \cap Range(r) = {}
              => IsInjective(s \o r)
<1> DEFINE t == s \o r
<1>1. /\ t \in Seq(S) /\ Len(t) = Len(s) + Len(r)
      /\ \A j \in 1..Len(s) + Len(r) :
           t[j] = IF j <= Len(s) THEN s[j] ELSE r[j - Len(s)]
  BY ConcatProperties
<1> HIDE DEF t
<1>2. /\ Len(s) \in Nat /\ DOMAIN s = 1..Len(s)
      /\ Len(r) \in Nat /\ DOMAIN r = 1..Len(r)
      /\ DOMAIN t = 1..Len(s) + Len(r)
  BY <1>1
<1>3. ASSUME NEW j \in DOMAIN t
      PROVE  \/ j \in DOMAIN s /\ t[j] = s[j]
             \/ j - Len(s) \in DOMAIN r /\ t[j] = r[j - Len(s)]
  BY <1>1, <1>2
<1>4. ASSUME NEW m \in DOMAIN s  PROVE m \in DOMAIN t /\ t[m] = s[m]
  BY <1>1, <1>2
<1>5. ASSUME NEW m \in DOMAIN r  PROVE \E j \in DOMAIN t : t[j] = r[m]
  <2>1. m + Len(s) \in 1..Len(s) + Len(r) /\ ~ (m + Len(s) <= Len(s))
        /\ (m + Len(s)) - Len(s) = m
    BY <1>2
  <2>2. t[m + Len(s)] = r[m]
    BY <2>1, <1>1
  <2> QED  BY <2>1, <2>2, <1>2
<1>6. Range(t) = Range(s) \cup Range(r)
  <2>1. ASSUME NEW x \in Range(t)  PROVE x \in Range(s) \cup Range(r)
    <3>1. PICK j \in DOMAIN t : x = t[j]
      BY DEF Range
    <3> QED  BY <3>1, <1>3 DEF Range
  <2>2. ASSUME NEW x \in Range(s)  PROVE x \in Range(t)
    BY <1>4 DEF Range
  <2>3. ASSUME NEW x \in Range(r)  PROVE x \in Range(t)
    <3>1. PICK m \in DOMAIN r : x = r[m]
      BY DEF Range
    <3> QED  BY <3>1, <1>5 DEF Range
  <2> QED  BY <2>1, <2>2, <2>3
<1>7. ASSUME IsInjective(s), IsInjective(r), Range(s) \cap Range(r) = {}
      PROVE  IsInjective(t)
  <2> SUFFICES ASSUME NEW a \in DOMAIN t, NEW c \in DOMAIN t, t[a] = t[c]
               PROVE  a = c
    BY DEF IsInjective
  <2>1. CASE a \in DOMAIN s /\ t[a] = s[a] /\ c \in DOMAIN s /\ t[c] = s[c]
    BY <2>1, <1>7 DEF IsInjective
  <2>2. CASE /\ a - Len(s) \in DOMAIN r /\ t[a] = r[a - Len(s)]
             /\ c - Len(s) \in DOMAIN r /\ t[c] = r[c - Len(s)]
    <3>1. a - Len(s) = c - Len(s)
      BY <2>2, <1>7 DEF IsInjective
    <3> QED  BY <3>1, <1>2
  <2>3. ASSUME NEW m \in DOMAIN s, NEW n \in DOMAIN r  PROVE s[m] # r[n]
    BY <1>7 DEF Range
  <2> QED  BY <2>1, <2>2, <2>3, <1>3
<1> QED  BY <1>6, <1>7 DEF t

-----------------------------------------------------------------------------
(* Chains of pointers. *)

\* Chained for any pointers: going along n from b to e, or back along p, one
\* meets the instructions of the list.
Chain(list, b, e, n, p) ==
  /\ Len(list) = 0 => b = NULL /\ e = NULL
  /\ Len(list) > 0 => b = list[1] /\ e = list[Len(list)]
  /\ \A k \in 1..Len(list) :
       /\ p[list[k]] = IF k = 1 THEN NULL ELSE list[k - 1]
       /\ n[list[k]] = IF k = Len(list) THEN NULL ELSE list[k + 1]

(* Pointers of other instructions may change. *)
LEMMA ChainFrame ==
  ASSUME NEW list \in Seq(Instructions), NEW b, NEW e,
         NEW n, NEW p, NEW n2, NEW p2,
         Chain(list, b, e, n, p),
         \A i \in Range(list) : n2[i] = n[i] /\ p2[i] = p[i]
  PROVE  Chain(list, b, e, n2, p2)
<1>1. \A k \in 1..Len(list) : list[k] \in Range(list)
  BY DEF Range
<1> QED  BY <1>1 DEF Chain

(* The ends of a chain tell whether it is empty. *)
LEMMA ChainEnds ==
  ASSUME NEW list \in Seq(Instructions), NEW b, NEW e, NEW n, NEW p,
         Chain(list, b, e, n, p)
  PROVE  /\ b = NULL <=> Len(list) = 0
         /\ e = NULL <=> Len(list) = 0
         /\ Len(list) > 0 => b \in Range(list) /\ e \in Range(list)
<1>1. CASE Len(list) = 0
  BY <1>1 DEF Chain
<1>2. CASE Len(list) > 0
  <2>1. Len(list) \in Nat /\ Len(list) > 0 /\ DOMAIN list = 1..Len(list)
    BY <1>2
  <2>2. 1 \in DOMAIN list /\ Len(list) \in DOMAIN list
    BY <2>1
  <2> QED  BY <1>2, <2>2, NullAssumption DEF Chain, Range
<1> QED  BY <1>1, <1>2

(* The neighbours of an instruction are instructions of its list, or none. *)
LEMMA ChainNeighbours ==
  ASSUME NEW list \in Seq(Instructions), NEW b, NEW e, NEW n, NEW p,
         Chain(list, b, e, n, p), NEW at \in 1..Len(list)
  PROVE  /\ n[list[at]] \in Range(list) \cup {NULL}
         /\ p[list[at]] \in Range(list) \cup {NULL}
         /\ p[list[at]] = NULL <=> at = 1
         /\ n[list[at]] = NULL <=> at = Len(list)
<1>1. Len(list) \in Nat
  OBVIOUS
<1>2. \A k \in 1..Len(list) : list[k] \in Range(list) /\ list[k] # NULL
  BY NullAssumption DEF Range
<1>3. at # 1 => at - 1 \in 1..Len(list)
  BY <1>1
<1>4. at # Len(list) => at + 1 \in 1..Len(list)
  BY <1>1
<1>5. /\ p[list[at]] = IF at = 1 THEN NULL ELSE list[at - 1]
      /\ n[list[at]] = IF at = Len(list) THEN NULL ELSE list[at + 1]
  BY DEF Chain
<1> QED  BY <1>2, <1>3, <1>4, <1>5

LEMMA ChainAppend ==
  ASSUME NEW list \in Seq(Instructions), NEW b, NEW e,
         NEW n \in [Instructions -> Pointer], NEW p \in [Instructions -> Pointer],
         Chain(list, b, e, n, p), IsInjective(list),
         NEW i \in Instructions, i \notin Range(list)
  PROVE  Chain(Append(list, i), IF e = NULL THEN i ELSE b, i,
               Assign(Assign(n, i, NULL), e, i), Assign(p, i, e))
<1> DEFINE t == Append(list, i)
           n2 == Assign(Assign(n, i, NULL), e, i)
           p2 == Assign(p, i, e)
<1>1. /\ t \in Seq(Instructions) /\ Len(t) = Len(list) + 1 /\ t # << >>
      /\ \A k \in 1..Len(list) : t[k] = list[k]
      /\ t[Len(list) + 1] = i
  OBVIOUS
<1>0. Len(list) \in Nat
  OBVIOUS
<1>2. Len(list) \in Nat /\ DOMAIN list = 1..Len(list)
  OBVIOUS
<1>3. \A j \in Instructions : n2[j] = IF j = e THEN i ELSE IF j = i THEN NULL ELSE n[j]
  BY DEF Assign
<1>4. \A j \in Instructions : p2[j] = IF j = i THEN e ELSE p[j]
  BY DEF Assign
<1> HIDE DEF t, n2, p2
<1>5. e = NULL <=> Len(list) = 0
  BY ChainEnds
<1>6. (IF e = NULL THEN i ELSE b) = t[1] /\ i = t[Len(t)]
  <2>1. CASE Len(list) = 0
    BY <2>1, <1>1, <1>2, <1>5
  <2>2. CASE Len(list) > 0
    <3>1. 1 \in 1..Len(list)
      BY <2>2, <1>2
    <3>2. b = list[1]
      BY <2>2 DEF Chain
    <3> QED  BY <2>2, <3>1, <3>2, <1>1, <1>2, <1>5
  <2> QED  BY <2>1, <2>2
<1>7. ASSUME NEW k \in 1..Len(list) + 1
      PROVE  /\ p2[t[k]] = IF k = 1 THEN NULL ELSE t[k - 1]
             /\ n2[t[k]] = IF k = Len(t) THEN NULL ELSE t[k + 1]
  <2>1. CASE k = Len(list) + 1
    <3>1. t[k] = i /\ i # e
      BY <2>1, <1>1, <1>2, <1>5, ChainEnds, NullAssumption
    <3>2. n2[t[k]] = NULL /\ k = Len(t)
      BY <3>1, <2>1, <1>1, <1>3
    <3>3. p2[t[k]] = e
      BY <3>1, <1>4
    <3>4. CASE Len(list) = 0
      BY <3>2, <3>3, <3>4, <2>1, <1>1, <1>2, <1>5
    <3>5. CASE Len(list) > 0
      <4>1. k - 1 = Len(list) /\ k - 1 \in 1..Len(list) /\ k # 1
        BY <3>5, <2>1, <1>2
      <4>2. e = t[k - 1]
        BY <3>5, <4>1, <1>1 DEF Chain
      <4> QED  BY <4>1, <4>2, <3>2, <3>3
    <3> QED  BY <3>4, <3>5
  <2>2. CASE k \in 1..Len(list)
    <3>1. t[k] = list[k] /\ list[k] \in Range(list) /\ list[k] \in Instructions
      BY <2>2, <1>1, <1>2 DEF Range
    <3>2. t[k] # i
      BY <3>1
    <3>3. p2[t[k]] = IF k = 1 THEN NULL ELSE t[k - 1]
      <4>1. p2[t[k]] = p[list[k]]
        BY <3>1, <3>2, <1>4
      <4>2. k # 1 => t[k - 1] = list[k - 1]
        BY <2>2, <1>1, <1>2
      <4> QED  BY <4>1, <4>2, <2>2 DEF Chain
    <3>4. n2[t[k]] = IF k = Len(t) THEN NULL ELSE t[k + 1]
      <4>1. CASE k = Len(list)
        <5>1. t[k] = e
          BY <4>1, <2>2, <3>1 DEF Chain
        <5> QED  BY <4>1, <5>1, <3>1, <1>1, <1>2, <1>3
      <4>2. CASE k # Len(list)
        <5>1. e = list[Len(list)] /\ Len(list) \in DOMAIN list
          <6>1. Len(list) > 0
            BY <2>2, <1>2
          <6>2. Len(list) \in DOMAIN list
            BY <6>1, <1>2
          <6> QED  BY <6>1, <6>2 DEF Chain
        <5>2. t[k] # e
          BY <4>2, <5>1, <3>1, <2>2, <1>2 DEF IsInjective
        <5>3. n2[t[k]] = n[list[k]]
          BY <5>2, <3>1, <3>2, <1>3
        <5>4. k + 1 \in 1..Len(list) /\ k # Len(list) + 1
          BY <4>2, <2>2, <1>0
        <5> QED  BY <5>3, <5>4, <4>2, <2>2, <1>1 DEF Chain
      <4> QED  BY <4>1, <4>2
    <3> QED  BY <3>3, <3>4
  <2> QED  BY <2>1, <2>2, <1>2
<1> QED  BY <1>1, <1>6, <1>7 DEF Chain, t, n2, p2

LEMMA ChainRemove ==
  ASSUME NEW list \in Seq(Instructions), NEW b, NEW e,
         NEW n \in [Instructions -> Pointer], NEW p \in [Instructions -> Pointer],
         Chain(list, b, e, n, p), IsInjective(list),
         NEW at \in 1..Len(list), NEW i, i = list[at]
  PROVE  Chain(RemoveAt(list, at),
               IF b = i THEN n[i] ELSE b, IF e = i THEN p[i] ELSE e,
               Assign(Assign(n, p[i], n[i]), i, NULL),
               Assign(Assign(p, n[i], p[i]), i, NULL))
<1> DEFINE t == RemoveAt(list, at)
           b2 == IF b = i THEN n[i] ELSE b
           e2 == IF e = i THEN p[i] ELSE e
           n2 == Assign(Assign(n, p[i], n[i]), i, NULL)
           p2 == Assign(Assign(p, n[i], p[i]), i, NULL)
<1>0. Len(list) \in Nat
  OBVIOUS
<1>1. /\ Len(t) = Len(list) - 1
      /\ \A k \in 1..Len(list) - 1 : t[k] = IF k < at THEN list[k] ELSE list[k + 1]
  BY RemoveAtFacts
<1>2. \A k \in 1..Len(list) : list[k] \in Instructions /\ list[k] # NULL
  BY NullAssumption
<1>3. \A j, k \in 1..Len(list) : list[j] = list[k] => j = k
  BY DEF IsInjective
<1>4. \A k \in 1..Len(list) :
        /\ p[list[k]] = IF k = 1 THEN NULL ELSE list[k - 1]
        /\ n[list[k]] = IF k = Len(list) THEN NULL ELSE list[k + 1]
  BY DEF Chain
<1>5. b = list[1] /\ e = list[Len(list)]
  <2>1. Len(list) > 0
    BY <1>0
  <2> QED  BY <2>1 DEF Chain
<1>6. \A j \in Instructions :
        /\ n2[j] = IF j = i THEN NULL ELSE IF j = p[i] THEN n[i] ELSE n[j]
        /\ p2[j] = IF j = i THEN NULL ELSE IF j = n[i] THEN p[i] ELSE p[j]
  BY DEF Assign
<1> HIDE DEF t, n2, p2
<1>7. /\ p[i] = IF at = 1 THEN NULL ELSE list[at - 1]
      /\ n[i] = IF at = Len(list) THEN NULL ELSE list[at + 1]
  BY <1>4
<1>8. (b = i <=> at = 1) /\ (e = i <=> at = Len(list))
  BY <1>0, <1>3, <1>5
<1>9. Len(t) = 0 => b2 = NULL /\ e2 = NULL
  <2> SUFFICES ASSUME Len(t) = 0  PROVE b2 = NULL /\ e2 = NULL
    OBVIOUS
  <2>1. Len(list) = 1
    BY <1>0, <1>1
  <2>2. at = 1 /\ at = Len(list)
    BY <2>1
  <2> QED  BY <2>2, <1>7, <1>8
<1>10. Len(t) > 0 => b2 = t[1] /\ e2 = t[Len(t)]
  <2> SUFFICES ASSUME Len(t) > 0  PROVE b2 = t[1] /\ e2 = t[Len(t)]
    OBVIOUS
  <2>1. 1 \in 1..Len(list) - 1 /\ Len(list) - 1 \in 1..Len(list) - 1 /\ Len(list) # 1
    BY <1>0, <1>1
  <2>2. b2 = t[1]
    <3>1. CASE at = 1
      BY <3>1, <2>1, <1>1, <1>7, <1>8
    <3>2. CASE at # 1
      BY <3>2, <2>1, <1>0, <1>1, <1>5, <1>8
    <3> QED  BY <3>1, <3>2
  <2>3. e2 = t[Len(list) - 1]
    <3>1. CASE at = Len(list)
      BY <3>1, <2>1, <1>0, <1>1, <1>7, <1>8
    <3>2. CASE at # Len(list)
      <4>1. ~ (Len(list) - 1 < at) /\ (Len(list) - 1) + 1 = Len(list)
        BY <3>2, <1>0
      <4> QED  BY <3>2, <4>1, <2>1, <1>1, <1>5, <1>8
    <3> QED  BY <3>1, <3>2
  <2> QED  BY <2>2, <2>3, <1>1
<1>11. ASSUME NEW k \in 1..Len(list) - 1
       PROVE  /\ p2[t[k]] = IF k = 1 THEN NULL ELSE t[k - 1]
              /\ n2[t[k]] = IF k = Len(list) - 1 THEN NULL ELSE t[k + 1]
  <2> DEFINE m == IF k < at THEN k ELSE k + 1
  <2>1. /\ m \in 1..Len(list) /\ m # at
        /\ k # 1 => k - 1 \in 1..Len(list) - 1
        /\ k # Len(list) - 1 => k + 1 \in 1..Len(list) - 1
    BY <1>0
  <2>2. t[k] = list[m]
    BY <1>1
  <2>3. list[m] # i /\ list[m] \in Instructions
    BY <2>1, <1>2, <1>3
  <2>4. p2[t[k]] = IF k = 1 THEN NULL ELSE t[k - 1]
    <3>1. CASE k = at
      <4>1. m = at + 1 /\ at # Len(list) /\ n[i] = list[m]
        BY <3>1, <1>0, <1>7
      <4>2. p2[t[k]] = p[i]
        BY <4>1, <2>2, <2>3, <1>6
      <4>3. k # 1 => t[k - 1] = list[at - 1]
        BY <3>1, <2>1, <1>0, <1>1
      <4> QED  BY <3>1, <4>2, <4>3, <1>7
    <3>2. CASE k # at
      <4>1. at # Len(list) => at + 1 \in 1..Len(list) /\ at + 1 # m
        BY <3>2, <1>0
      <4>2. list[m] # n[i]
        BY <4>1, <2>1, <1>2, <1>3, <1>7
      <4>3. p2[t[k]] = IF m = 1 THEN NULL ELSE list[m - 1]
        BY <4>2, <2>1, <2>2, <2>3, <1>4, <1>6
      <4>4. CASE k < at
        <5>1. k # 1 => t[k - 1] = list[k - 1]
          BY <4>4, <2>1, <1>0, <1>1
        <5> QED  BY <4>3, <4>4, <5>1
      <4>5. CASE at < k
        <5>1. m - 1 = k /\ k # 1 /\ m # 1 /\ ~ (k - 1 < at) /\ (k - 1) + 1 = k
          BY <4>5, <1>0
        <5>2. t[k - 1] = list[k]
          BY <5>1, <2>1, <1>1
        <5> QED  BY <4>3, <5>1, <5>2
      <4> QED  BY <3>2, <4>4, <4>5, <1>0
    <3> QED  BY <3>1, <3>2
  <2>5. n2[t[k]] = IF k = Len(list) - 1 THEN NULL ELSE t[k + 1]
    <3>1. CASE k + 1 = at
      <4>1. m = at - 1 /\ at # 1 /\ p[i] = list[m]
        BY <3>1, <1>0, <1>7
      <4>2. n2[t[k]] = n[i]
        BY <4>1, <2>2, <2>3, <1>6
      <4>3. k # Len(list) - 1 => t[k + 1] = list[at + 1]
        BY <3>1, <2>1, <1>0, <1>1
      <4>4. k = Len(list) - 1 <=> at = Len(list)
        BY <3>1, <1>0
      <4> QED  BY <4>2, <4>3, <4>4, <1>7
    <3>2. CASE k + 1 # at
      <4>1. at # 1 => at - 1 \in 1..Len(list) /\ at - 1 # m
        BY <3>2, <1>0
      <4>2. list[m] # p[i]
        BY <4>1, <2>1, <1>2, <1>3, <1>7
      <4>3. n2[t[k]] = IF m = Len(list) THEN NULL ELSE list[m + 1]
        BY <4>2, <2>1, <2>2, <2>3, <1>4, <1>6
      <4>4. CASE k < at
        <5>1. k + 1 < at /\ k # Len(list) - 1 /\ m = k /\ m # Len(list)
          BY <3>2, <4>4, <1>0
        <5>2. t[k + 1] = list[k + 1]
          BY <5>1, <2>1, <1>1
        <5> QED  BY <4>3, <5>1, <5>2
      <4>5. CASE ~ (k < at)
        <5>1. m = k + 1 /\ ~ (k + 1 < at) /\ (m = Len(list) <=> k = Len(list) - 1)
          BY <4>5, <1>0
        <5>2. k # Len(list) - 1 => t[k + 1] = list[m + 1]
          BY <5>1, <2>1, <1>1
        <5> QED  BY <4>3, <5>1, <5>2
      <4> QED  BY <4>4, <4>5
    <3> QED  BY <3>1, <3>2
  <2> QED  BY <2>4, <2>5
<1>12. Chain(t, b2, e2, n2, p2)
  BY <1>1, <1>9, <1>10, <1>11 DEF Chain
<1> QED  BY <1>12 DEF t, n2, p2

LEMMA ChainInsert ==
  ASSUME NEW list \in Seq(Instructions), NEW b, NEW e,
         NEW n \in [Instructions -> Pointer], NEW p \in [Instructions -> Pointer],
         Chain(list, b, e, n, p), IsInjective(list),
         NEW at \in 1..Len(list), NEW w, w = list[at],
         NEW i \in Instructions, i \notin Range(list)
  PROVE  Chain(InsertAt(list, at, i), IF p[w] = NULL THEN i ELSE b, e,
               Assign(Assign(n, i, w), p[w], i),
               Assign(Assign(p, i, p[w]), w, i))
<1> DEFINE t == InsertAt(list, at, i)
           b2 == IF p[w] = NULL THEN i ELSE b
           n2 == Assign(Assign(n, i, w), p[w], i)
           p2 == Assign(Assign(p, i, p[w]), w, i)
<1>0. Len(list) \in Nat
  OBVIOUS
<1>1. /\ Len(t) = Len(list) + 1
      /\ \A k \in 1..Len(list) + 1 :
           t[k] = IF k < at THEN list[k] ELSE IF k = at THEN i ELSE list[k - 1]
  <2>1. at \in 1..Len(list) + 1
    BY <1>0
  <2> HIDE DEF t, n2, p2
  <2>2. t = InsertAt(list, at, i)
    BY DEF t
  <2>3. /\ Len(InsertAt(list, at, i)) = Len(list) + 1
        /\ \A k \in 1..Len(list) + 1 :
             InsertAt(list, at, i)[k] =
               IF k < at THEN list[k] ELSE IF k = at THEN i ELSE list[k - 1]
    BY <2>1, InsertAtFacts
  <2> QED  BY <2>2, <2>3
<1>2. \A k \in 1..Len(list) :
        list[k] \in Instructions /\ list[k] # NULL /\ list[k] # i
  BY NullAssumption DEF Range
<1>3. \A j, k \in 1..Len(list) : list[j] = list[k] => j = k
  BY DEF IsInjective
<1>4. \A k \in 1..Len(list) :
        /\ p[list[k]] = IF k = 1 THEN NULL ELSE list[k - 1]
        /\ n[list[k]] = IF k = Len(list) THEN NULL ELSE list[k + 1]
  BY DEF Chain
<1>5. b = list[1] /\ e = list[Len(list)]
  <2>1. Len(list) > 0
    BY <1>0
  <2> QED  BY <2>1 DEF Chain
<1>6. \A j \in Instructions :
        /\ n2[j] = IF j = p[w] THEN i ELSE IF j = i THEN w ELSE n[j]
        /\ p2[j] = IF j = w THEN i ELSE IF j = i THEN p[w] ELSE p[j]
  BY DEF Assign
<1> HIDE DEF t, n2, p2
<1>7. /\ p[w] = IF at = 1 THEN NULL ELSE list[at - 1]
      /\ at # 1 => at - 1 \in 1..Len(list)
      /\ p[w] = NULL <=> at = 1
      /\ i # p[w] /\ i # w
  BY <1>0, <1>2, <1>4, NullAssumption
<1>8. b2 = t[1] /\ e = t[Len(list) + 1]
  <2>1. 1 \in 1..Len(list) + 1 /\ Len(list) + 1 \in 1..Len(list) + 1
        /\ ~ (Len(list) + 1 < at) /\ Len(list) + 1 # at
        /\ (Len(list) + 1) - 1 = Len(list)
    BY <1>0
  <2>2. at # 1 => 1 < at
    BY <1>0
  <2> QED  BY <2>1, <2>2, <1>1, <1>5, <1>7
<1>9. ASSUME NEW k \in 1..Len(list) + 1
      PROVE  /\ p2[t[k]] = IF k = 1 THEN NULL ELSE t[k - 1]
             /\ n2[t[k]] = IF k = Len(list) + 1 THEN NULL ELSE t[k + 1]
  <2>1. /\ k # 1 => k - 1 \in 1..Len(list) + 1
        /\ k # Len(list) + 1 => k + 1 \in 1..Len(list) + 1
    BY <1>0
  <2>2. CASE k = at
    <3>1. t[k] = i /\ k # Len(list) + 1
      BY <2>2, <1>0, <1>1
    <3>2. p2[t[k]] = p[w] /\ n2[t[k]] = w
      BY <3>1, <1>6, <1>7
    <3>3. k # 1 => t[k - 1] = list[at - 1]
      <4>1. k - 1 < at /\ k - 1 = at - 1
        BY <2>2, <1>0
      <4>2. k # 1 => t[k - 1] = list[k - 1]
        BY <4>1, <2>1, <1>1
      <4> QED  BY <4>1, <4>2
    <3>4. t[k + 1] = w
      <4>1. ~ (k + 1 < at) /\ k + 1 # at /\ (k + 1) - 1 = at
        BY <2>2, <1>0
      <4> QED  BY <4>1, <3>1, <2>1, <1>1
    <3> QED  BY <2>2, <3>1, <3>2, <3>3, <3>4, <1>7
  <2>3. CASE k < at
    <3>1. k \in 1..Len(list) /\ k # at /\ t[k] = list[k] /\ k # Len(list)
      BY <2>3, <1>0, <1>1
    <3>2. p2[t[k]] = IF k = 1 THEN NULL ELSE list[k - 1]
      <4>1. list[k] \in Instructions /\ list[k] # i /\ list[k] # w
        BY <3>1, <1>2, <1>3
      <4>2. p2[list[k]] = p[list[k]]
        BY <4>1, <1>6
      <4> QED  BY <4>2, <3>1, <1>4
    <3>3. k # 1 => t[k - 1] = list[k - 1]
      <4>1. k - 1 < at
        BY <2>3, <1>0
      <4> QED  BY <4>1, <2>1, <1>1
    <3>4. CASE k + 1 = at
      <4>1. p[w] = list[k]
        BY <3>4, <1>0, <1>7
      <4>2. n2[t[k]] = i
        BY <4>1, <3>1, <1>2, <1>6
      <4>3. t[k + 1] = i /\ k # Len(list) + 1
        BY <3>4, <2>1, <1>0, <1>1
      <4> QED  BY <4>2, <4>3, <3>2, <3>3
    <3>5. CASE k + 1 # at
      <4>1. at # 1 => at - 1 # k
        BY <3>5, <1>0
      <4>2. p[w] # list[k]
        BY <4>1, <3>1, <1>2, <1>3, <1>7
      <4>3. n2[t[k]] = list[k + 1]
        BY <4>2, <3>1, <1>2, <1>4, <1>6
      <4>4. k + 1 < at /\ k # Len(list) + 1
        BY <3>5, <2>3, <1>0
      <4>5. t[k + 1] = list[k + 1]
        BY <4>4, <2>1, <1>1
      <4> QED  BY <4>3, <4>4, <4>5, <3>2, <3>3
    <3> QED  BY <3>4, <3>5
  <2>4. CASE at < k
    <3>1. /\ k - 1 \in 1..Len(list) /\ k # 1 /\ t[k] = list[k - 1]
          /\ k = Len(list) + 1 <=> k - 1 = Len(list)
      BY <2>4, <1>0, <1>1
    <3>2. ASSUME k - 1 = at  PROVE p2[t[k]] = IF k = 1 THEN NULL ELSE t[k - 1]
      <4>1. p2[t[k]] = i
        BY <3>1, <3>2, <1>2, <1>6
      <4>2. t[k - 1] = i
        BY <3>1, <3>2, <2>1, <1>1
      <4> QED  BY <4>1, <4>2, <3>1
    <3>3. ASSUME k - 1 # at  PROVE p2[t[k]] = IF k = 1 THEN NULL ELSE t[k - 1]
      <4>1. /\ k - 1 # 1 /\ ~ (k - 1 < at) /\ (k - 1) - 1 = k - 2
            /\ k - 1 \in 1..Len(list) + 1
        BY <3>3, <2>4, <1>0
      <4>2. t[k - 1] = list[k - 2]
        BY <4>1, <3>3, <1>1
      <4>3. list[k - 1] # w
        BY <3>1, <3>3, <1>3
      <4>4. p2[t[k]] = p[list[k - 1]]
        BY <4>3, <3>1, <1>2, <1>6
      <4>5. p[list[k - 1]] = list[k - 2]
        BY <4>1, <3>1, <1>4
      <4> QED  BY <4>2, <4>4, <4>5, <3>1
    <3>4. n2[t[k]] = IF k = Len(list) + 1 THEN NULL ELSE t[k + 1]
      <4>1. at # 1 => at - 1 # k - 1
        BY <2>4, <1>0
      <4>2. list[k - 1] # p[w]
        BY <4>1, <3>1, <1>2, <1>3, <1>7
      <4>3. n2[t[k]] = IF k - 1 = Len(list) THEN NULL ELSE list[(k - 1) + 1]
        BY <4>2, <3>1, <1>2, <1>4, <1>6
      <4>4. k # Len(list) + 1 => t[k + 1] = list[k]
        <5>1. ~ (k + 1 < at) /\ k + 1 # at /\ (k + 1) - 1 = k /\ (k - 1) + 1 = k
          BY <2>4, <1>0
        <5> QED  BY <5>1, <2>1, <1>1
      <4>5. (k - 1) + 1 = k
        BY <1>0
      <4> QED  BY <4>3, <4>4, <4>5, <3>1
    <3> QED  BY <3>2, <3>3, <3>4
  <2> QED  BY <2>2, <2>3, <2>4, <1>0
<1>10. Chain(t, b2, e, n2, p2)
  <2>1. Len(t) > 0 /\ Len(t) # 0
    BY <1>0, <1>1
  <2> QED  BY <2>1, <1>1, <1>8, <1>9 DEF Chain
<1> QED  BY <1>10 DEF t, n2, p2

LEMMA ChainJoin ==
  ASSUME NEW list \in Seq(Instructions), NEW b, NEW e,
         NEW rest \in Seq(Instructions), NEW rb, NEW re,
         NEW n \in [Instructions -> Pointer], NEW p \in [Instructions -> Pointer],
         Chain(list, b, e, n, p), IsInjective(list), Len(list) > 0,
         Chain(rest, rb, re, n, p), IsInjective(rest), Len(rest) > 0,
         Range(list) \cap Range(rest) = {}
  PROVE  Chain(list \o rest, b, re, Assign(n, e, rb), Assign(p, rb, e))
<1> DEFINE t == list \o rest
           n2 == Assign(n, e, rb)
           p2 == Assign(p, rb, e)
<1>0. Len(list) \in Nat /\ Len(rest) \in Nat
  OBVIOUS
<1>1. /\ Len(t) = Len(list) + Len(rest)
      /\ \A k \in 1..Len(list) + Len(rest) :
           t[k] = IF k <= Len(list) THEN list[k] ELSE rest[k - Len(list)]
  BY ConcatProperties
<1>2. /\ \A k \in 1..Len(list) : list[k] \in Instructions
      /\ \A k \in 1..Len(rest) : rest[k] \in Instructions
      /\ \A j \in 1..Len(list), k \in 1..Len(rest) : list[j] # rest[k]
  <2>1. /\ \A k \in 1..Len(list) : list[k] \in Range(list) /\ list[k] \in Instructions
        /\ \A k \in 1..Len(rest) : rest[k] \in Range(rest) /\ rest[k] \in Instructions
    BY InRange
  <2> QED  BY <2>1
<1>3. /\ \A j, k \in 1..Len(list) : list[j] = list[k] => j = k
      /\ \A j, k \in 1..Len(rest) : rest[j] = rest[k] => j = k
  BY DEF IsInjective
<1>4. /\ \A k \in 1..Len(list) :
           /\ p[list[k]] = IF k = 1 THEN NULL ELSE list[k - 1]
           /\ n[list[k]] = IF k = Len(list) THEN NULL ELSE list[k + 1]
      /\ \A k \in 1..Len(rest) :
           /\ p[rest[k]] = IF k = 1 THEN NULL ELSE rest[k - 1]
           /\ n[rest[k]] = IF k = Len(rest) THEN NULL ELSE rest[k + 1]
  BY DEF Chain
<1>5. b = list[1] /\ e = list[Len(list)] /\ rb = rest[1] /\ re = rest[Len(rest)]
  BY DEF Chain
<1>6. \A j \in Instructions :
        /\ n2[j] = IF j = e THEN rb ELSE n[j]
        /\ p2[j] = IF j = rb THEN e ELSE p[j]
  BY DEF Assign
<1> HIDE DEF t, n2, p2
<1>7. /\ 1 \in 1..Len(list) /\ Len(list) \in 1..Len(list)
      /\ 1 \in 1..Len(rest) /\ Len(rest) \in 1..Len(rest)
  BY <1>0
<1>8. b = t[1] /\ re = t[Len(list) + Len(rest)]
  <2>1. /\ 1 \in 1..Len(list) + Len(rest) /\ 1 <= Len(list)
        /\ Len(list) + Len(rest) \in 1..Len(list) + Len(rest)
        /\ ~ (Len(list) + Len(rest) <= Len(list))
        /\ (Len(list) + Len(rest)) - Len(list) = Len(rest)
    BY <1>0
  <2> QED  BY <2>1, <1>1, <1>5
<1>9. ASSUME NEW k \in 1..Len(list) + Len(rest)
      PROVE  /\ p2[t[k]] = IF k = 1 THEN NULL ELSE t[k - 1]
             /\ n2[t[k]] = IF k = Len(list) + Len(rest) THEN NULL ELSE t[k + 1]
  <2>1. /\ k # 1 => k - 1 \in 1..Len(list) + Len(rest)
        /\ k # Len(list) + Len(rest) => k + 1 \in 1..Len(list) + Len(rest)
    BY <1>0
  <2>2. CASE k <= Len(list)
    <3>1. k \in 1..Len(list) /\ t[k] = list[k] /\ k # Len(list) + Len(rest)
      BY <2>2, <1>0, <1>1
    <3>2. p2[t[k]] = IF k = 1 THEN NULL ELSE list[k - 1]
      BY <3>1, <1>2, <1>4, <1>5, <1>6, <1>7
    <3>3. k # 1 => t[k - 1] = list[k - 1]
      BY <2>1, <2>2, <1>0, <1>1
    <3>4. CASE k = Len(list)
      <4>1. n2[t[k]] = rb
        BY <3>1, <3>4, <1>2, <1>5, <1>6
      <4>2. t[k + 1] = rest[1]
        <5>1. ~ (k + 1 <= Len(list)) /\ (k + 1) - Len(list) = 1
          BY <3>4, <1>0
        <5> QED  BY <5>1, <3>1, <2>1, <1>1
      <4> QED  BY <4>1, <4>2, <3>1, <3>2, <3>3, <1>5
    <3>5. CASE k # Len(list)
      <4>1. n2[t[k]] = list[k + 1]
        BY <3>1, <3>5, <1>2, <1>3, <1>4, <1>5, <1>6, <1>7
      <4>2. t[k + 1] = list[k + 1]
        BY <3>1, <3>5, <2>1, <1>0, <1>1
      <4> QED  BY <4>1, <4>2, <3>1, <3>2, <3>3
    <3> QED  BY <3>4, <3>5
  <2>3. CASE ~ (k <= Len(list))
    <3> DEFINE m == k - Len(list)
    <3>1. /\ m \in 1..Len(rest) /\ t[k] = rest[m] /\ k # 1
          /\ m = Len(rest) <=> k = Len(list) + Len(rest)
      BY <2>3, <1>0, <1>1
    <3>2. n2[t[k]] = IF m = Len(rest) THEN NULL ELSE rest[m + 1]
      <4>1. t[k] # e /\ t[k] \in Instructions
        BY <3>1, <1>2, <1>5, <1>7
      <4>2. n2[t[k]] = n[rest[m]]
        BY <4>1, <3>1, <1>6
      <4> QED  BY <4>2, <3>1, <1>4
    <3>3. k # Len(list) + Len(rest) => t[k + 1] = rest[m + 1]
      <4>1. ~ (k + 1 <= Len(list)) /\ (k + 1) - Len(list) = m + 1
        BY <2>3, <1>0
      <4> QED  BY <4>1, <2>1, <1>1
    <3>4. CASE m = 1
      <4>1. p2[t[k]] = e
        BY <3>1, <3>4, <1>2, <1>5, <1>6
      <4>2. t[k - 1] = list[Len(list)]
        <5>1. k - 1 = Len(list)
          BY <3>4, <1>0
        <5> QED  BY <5>1, <3>1, <2>1, <1>1
      <4> QED  BY <4>1, <4>2, <3>1, <3>2, <3>3, <1>5
    <3>5. CASE m # 1
      <4>1. p2[t[k]] = rest[m - 1]
        BY <3>1, <3>5, <1>2, <1>3, <1>4, <1>5, <1>6, <1>7
      <4>2. t[k - 1] = rest[m - 1]
        <5>1. ~ (k - 1 <= Len(list)) /\ (k - 1) - Len(list) = m - 1
          BY <2>3, <3>5, <1>0
        <5> QED  BY <5>1, <3>1, <2>1, <1>1
      <4> QED  BY <4>1, <4>2, <3>1, <3>2, <3>3
    <3> QED  BY <3>4, <3>5
  <2> QED  BY <2>2, <2>3
<1>10. Chain(t, b, re, n2, p2)
  <2>1. Len(t) > 0 /\ Len(t) # 0
    BY <1>0, <1>1
  <2> QED  BY <2>1, <1>1, <1>8, <1>9 DEF Chain
<1> QED  BY <1>10 DEF t, n2, p2

-----------------------------------------------------------------------------
(* The steps of the generator. *)

(* What the invariant says, in the words of the lemmas. *)
LEMMA Held ==
  ListsAreHeld <=>
    /\ TypeOK
    /\ Apart
    /\ Chain(main, first, last, next, prev)
    /\ Chain(buffer, buffer_first, buffer_last, next, prev)
    /\ FreeIsUnlinked
BY DEF ListsAreHeld, Chained, Chain

(* The operators InstructionLists takes from the library are the same ones. *)
LEMMA AskedOperators ==
  /\ Asked!Linked = Range(main) \cup Range(buffer)
  /\ \A s, k, e : Asked!InsertAt(s, k, e) = InsertAt(s, k, e)
  /\ \A s, k : Asked!RemoveAt(s, k) = RemoveAt(s, k)
BY DEF Asked!Linked, Asked!Range, Range, Asked!InsertAt, InsertAt, Asked!RemoveAt, RemoveAt

(* A pointer assigned a pointer remains a function to pointers. *)
LEMMA AssignType ==
  ASSUME NEW f \in [Instructions -> Pointer], NEW q, NEW v \in Pointer
  PROVE  Assign(f, q, v) \in [Instructions -> Pointer]
BY DEF Assign

LEMMA HeldAtStart == Init => ListsAreHeld
<1> SUFFICES ASSUME Init  PROVE ListsAreHeld
  OBVIOUS
<1> USE DEF Init, Asked!Init
<1>1. Len(main) = 0 /\ Len(buffer) = 0 /\ main \in Seq(Instructions)
      /\ buffer \in Seq(Instructions)
  OBVIOUS
<1>2. TypeOK
  BY <1>1 DEF TypeOK, Pointer
<1>3. Apart
  BY DEF Apart, IsInjective, Range
<1>4. Chain(main, first, last, next, prev)
      /\ Chain(buffer, buffer_first, buffer_last, next, prev)
  BY <1>1 DEF Chain
<1>5. FreeIsUnlinked
  BY DEF FreeIsUnlinked
<1> QED  BY <1>2, <1>3, <1>4, <1>5, Held

LEMMA AppendHolds ==
  ASSUME ListsAreHeld, NEW i \in Instructions, AppendInstruction(i)
  PROVE  ListsAreHeld'
<1>1. /\ TypeOK /\ Apart /\ FreeIsUnlinked
      /\ Chain(main, first, last, next, prev)
      /\ Chain(buffer, buffer_first, buffer_last, next, prev)
  BY Held
<1>2. /\ i \notin Range(main) /\ i \notin Range(buffer)
      /\ UNCHANGED to_buffer
  BY AskedOperators DEF AppendInstruction, Asked!AppendInstruction
<1>3. /\ last \in Range(main) \cup {NULL} /\ buffer_last \in Range(buffer) \cup {NULL}
  BY <1>1, ChainEnds DEF TypeOK
<1>4. CASE to_buffer
  <2>1. /\ buffer' = Append(buffer, i) /\ main' = main
        /\ next' = Assign(Assign(next, i, NULL), buffer_last, i)
        /\ prev' = Assign(prev, i, buffer_last)
        /\ buffer_last' = i
        /\ buffer_first' = IF buffer_last = NULL THEN i ELSE buffer_first
        /\ UNCHANGED <<first, last>>
    BY <1>4 DEF AppendInstruction, Asked!AppendInstruction
  <2>2. Range(buffer') = Range(buffer) \cup {i} /\ IsInjective(buffer')
    BY <2>1, <1>1, <1>2, AppendElements DEF Apart, TypeOK
  <2>3. TypeOK'
    BY <2>1, <1>1, <1>2, AssignType DEF TypeOK, Pointer
  <2>4. Apart'
    BY <2>1, <2>2, <1>1, <1>2 DEF Apart
  <2>5. \A j \in Instructions \ (Range(buffer) \cup {i}) :
          next'[j] = next[j] /\ prev'[j] = prev[j]
    BY <2>1, <1>3, NullAssumption DEF Assign
  <2>6. Chain(main', first', last', next', prev')
    <3>1. \A j \in Range(main) : j \in Instructions \ (Range(buffer) \cup {i})
      BY <1>1, <1>2, InRange DEF Apart, TypeOK
    <3> QED  BY <3>1, <2>1, <2>5, <1>1, ChainFrame DEF TypeOK
  <2>7. Chain(buffer', buffer_first', buffer_last', next', prev')
    BY <2>1, <1>1, <1>2, ChainAppend DEF Apart, TypeOK
  <2>8. FreeIsUnlinked'
    BY <2>1, <2>2, <2>5, <1>1 DEF FreeIsUnlinked
  <2> QED  BY <2>3, <2>4, <2>6, <2>7, <2>8 DEF ListsAreHeld, Chained, Chain
<1>5. CASE ~ to_buffer
  <2>1. /\ main' = Append(main, i) /\ buffer' = buffer
        /\ next' = Assign(Assign(next, i, NULL), last, i)
        /\ prev' = Assign(prev, i, last)
        /\ last' = i
        /\ first' = IF last = NULL THEN i ELSE first
        /\ UNCHANGED <<buffer_first, buffer_last>>
    BY <1>5 DEF AppendInstruction, Asked!AppendInstruction
  <2>2. Range(main') = Range(main) \cup {i} /\ IsInjective(main')
    BY <2>1, <1>1, <1>2, AppendElements DEF Apart, TypeOK
  <2>3. TypeOK'
    BY <2>1, <1>1, <1>2, AssignType DEF TypeOK, Pointer
  <2>4. Apart'
    BY <2>1, <2>2, <1>1, <1>2 DEF Apart
  <2>5. \A j \in Instructions \ (Range(main) \cup {i}) :
          next'[j] = next[j] /\ prev'[j] = prev[j]
    BY <2>1, <1>3, NullAssumption DEF Assign
  <2>6. Chain(buffer', buffer_first', buffer_last', next', prev')
    <3>1. \A j \in Range(buffer) : j \in Instructions \ (Range(main) \cup {i})
      BY <1>1, <1>2, InRange DEF Apart, TypeOK
    <3> QED  BY <3>1, <2>1, <2>5, <1>1, ChainFrame DEF TypeOK
  <2>7. Chain(main', first', last', next', prev')
    BY <2>1, <1>1, <1>2, ChainAppend DEF Apart, TypeOK
  <2>8. FreeIsUnlinked'
    BY <2>1, <2>2, <2>5, <1>1 DEF FreeIsUnlinked
  <2> QED  BY <2>3, <2>4, <2>6, <2>7, <2>8 DEF ListsAreHeld, Chained, Chain
<1> QED  BY <1>4, <1>5

LEMMA RemoveHolds ==
  ASSUME ListsAreHeld, NEW at \in DOMAIN main \cup DOMAIN buffer,
         RemoveInstruction(at)
  PROVE  ListsAreHeld'
<1>1. /\ TypeOK /\ Apart /\ FreeIsUnlinked
      /\ Chain(main, first, last, next, prev)
      /\ Chain(buffer, buffer_first, buffer_last, next, prev)
  BY Held
<1>2. CASE to_buffer
  <2> DEFINE i == buffer[at]
  <2>1. /\ at \in 1..Len(buffer) /\ buffer' = RemoveAt(buffer, at) /\ main' = main
        /\ next' = Assign(Assign(next, prev[i], next[i]), i, NULL)
        /\ prev' = Assign(Assign(prev, next[i], prev[i]), i, NULL)
        /\ buffer_first' = IF buffer_first = i THEN next[i] ELSE buffer_first
        /\ buffer_last' = IF buffer_last = i THEN prev[i] ELSE buffer_last
        /\ UNCHANGED <<to_buffer, first, last>>
    BY <1>2, <1>1, AskedOperators
    DEF RemoveInstruction, Asked!RemoveInstruction, TakeOut, TypeOK
  <2>2. /\ i \in Range(buffer) /\ i \in Instructions
        /\ next[i] \in Range(buffer) \cup {NULL} /\ prev[i] \in Range(buffer) \cup {NULL}
    BY <2>1, <1>1, InRange, ChainNeighbours DEF TypeOK
  <2>3. Range(buffer') = Range(buffer) \ {i} /\ IsInjective(buffer') /\ buffer' \in Seq(Instructions)
    BY <2>1, <1>1, RemoveAtElements, RemoveAtFacts DEF Apart, TypeOK
  <2>4. \A j \in Instructions \ Range(buffer) : next'[j] = next[j] /\ prev'[j] = prev[j]
    BY <2>1, <2>2, NullAssumption DEF Assign
  <2>5. next'[i] = NULL /\ prev'[i] = NULL
    BY <2>1, <2>2 DEF Assign
  <2>6. Chain(buffer', buffer_first', buffer_last', next', prev')
    BY <2>1, <1>1, ChainRemove DEF Apart, TypeOK
  <2>7. Chain(main', first', last', next', prev')
    <3>1. \A j \in Range(main) : j \in Instructions \ Range(buffer)
      BY <1>1, InRange DEF Apart, TypeOK
    <3> QED  BY <3>1, <2>1, <2>4, <1>1, ChainFrame DEF TypeOK
  <2>8. TypeOK'
    <3>1. next[i] \in Pointer /\ prev[i] \in Pointer /\ NULL \in Pointer
      BY <2>2, <1>1, InRange DEF TypeOK, Pointer
    <3> HIDE DEF i
    <3>2. next' \in [Instructions -> Pointer] /\ prev' \in [Instructions -> Pointer]
      BY <3>1, <2>1, <1>1, AssignType DEF TypeOK
    <3> QED  BY <3>1, <3>2, <2>1, <2>3, <1>1 DEF TypeOK
  <2>9. Apart'
    BY <2>1, <2>3, <1>1 DEF Apart
  <2>10. FreeIsUnlinked'
    BY <2>1, <2>3, <2>4, <2>5, <1>1 DEF FreeIsUnlinked
  <2> QED  BY <2>6, <2>7, <2>8, <2>9, <2>10 DEF ListsAreHeld, Chained, Chain
<1>3. CASE ~ to_buffer
  <2> DEFINE i == main[at]
  <2>1. /\ at \in 1..Len(main) /\ main' = RemoveAt(main, at) /\ buffer' = buffer
        /\ next' = Assign(Assign(next, prev[i], next[i]), i, NULL)
        /\ prev' = Assign(Assign(prev, next[i], prev[i]), i, NULL)
        /\ first' = IF first = i THEN next[i] ELSE first
        /\ last' = IF last = i THEN prev[i] ELSE last
        /\ UNCHANGED <<to_buffer, buffer_first, buffer_last>>
    BY <1>3, <1>1, AskedOperators
    DEF RemoveInstruction, Asked!RemoveInstruction, TakeOut, TypeOK
  <2>2. /\ i \in Range(main) /\ i \in Instructions
        /\ next[i] \in Range(main) \cup {NULL} /\ prev[i] \in Range(main) \cup {NULL}
    BY <2>1, <1>1, InRange, ChainNeighbours DEF TypeOK
  <2>3. Range(main') = Range(main) \ {i} /\ IsInjective(main') /\ main' \in Seq(Instructions)
    BY <2>1, <1>1, RemoveAtElements, RemoveAtFacts DEF Apart, TypeOK
  <2>4. \A j \in Instructions \ Range(main) : next'[j] = next[j] /\ prev'[j] = prev[j]
    BY <2>1, <2>2, NullAssumption DEF Assign
  <2>5. next'[i] = NULL /\ prev'[i] = NULL
    BY <2>1, <2>2 DEF Assign
  <2>6. Chain(main', first', last', next', prev')
    BY <2>1, <1>1, ChainRemove DEF Apart, TypeOK
  <2>7. Chain(buffer', buffer_first', buffer_last', next', prev')
    <3>1. \A j \in Range(buffer) : j \in Instructions \ Range(main)
      BY <1>1, InRange DEF Apart, TypeOK
    <3> QED  BY <3>1, <2>1, <2>4, <1>1, ChainFrame DEF TypeOK
  <2>8. TypeOK'
    <3>1. next[i] \in Pointer /\ prev[i] \in Pointer /\ NULL \in Pointer
      BY <2>2, <1>1, InRange DEF TypeOK, Pointer
    <3> HIDE DEF i
    <3>2. next' \in [Instructions -> Pointer] /\ prev' \in [Instructions -> Pointer]
      BY <3>1, <2>1, <1>1, AssignType DEF TypeOK
    <3> QED  BY <3>1, <3>2, <2>1, <2>3, <1>1 DEF TypeOK
  <2>9. Apart'
    BY <2>1, <2>3, <1>1 DEF Apart
  <2>10. FreeIsUnlinked'
    BY <2>1, <2>3, <2>4, <2>5, <1>1 DEF FreeIsUnlinked
  <2> QED  BY <2>6, <2>7, <2>8, <2>9, <2>10 DEF ListsAreHeld, Chained, Chain
<1> QED  BY <1>2, <1>3

LEMMA InsertInMainHolds ==
  ASSUME ListsAreHeld, NEW i \in Instructions, NEW at \in DOMAIN main, InsertBeforeInMain(i, at)
  PROVE  ListsAreHeld'
<1>1. /\ TypeOK /\ Apart /\ FreeIsUnlinked
      /\ Chain(main, first, last, next, prev)
      /\ Chain(buffer, buffer_first, buffer_last, next, prev)
  BY Held
<1> DEFINE w == main[at]
<1>2. /\ i \notin Range(main) /\ i \notin Range(buffer)
      /\ at \in 1..Len(main) /\ main' = InsertAt(main, at, i)
      /\ UNCHANGED <<buffer, to_buffer>>
  BY <1>1, AskedOperators DEF InsertBeforeInMain, Asked!InsertBeforeInMain, TypeOK
<1>3. /\ w \in Range(main) /\ w \in Instructions
      /\ prev[w] \in Range(main) \cup {NULL} /\ (prev[w] = NULL <=> at = 1)
  BY <1>1, <1>2, InRange, ChainNeighbours DEF TypeOK
<1>4. ~ IsLinked(i)
  BY <1>1, <1>2 DEF FreeIsUnlinked, IsLinked
<1>5. /\ next' = Assign(Assign(next, i, w), prev[w], i)
      /\ prev' = Assign(Assign(prev, i, prev[w]), w, i)
      /\ first' = IF prev[w] = NULL THEN i ELSE first
      /\ UNCHANGED <<last, buffer_first, buffer_last>>
  BY <1>4 DEF InsertBeforeInMain, InsertBefore
<1>6. Chain(main', first', last', next', prev')
  BY <1>1, <1>2, <1>5, ChainInsert DEF Apart, TypeOK
<1>7. \A j \in Instructions \ (Range(main) \cup {i}) :
        next'[j] = next[j] /\ prev'[j] = prev[j]
  BY <1>3, <1>5, NullAssumption DEF Assign
<1>8. Chain(buffer', buffer_first', buffer_last', next', prev')
  <2>1. \A j \in Range(buffer) : j \in Instructions \ (Range(main) \cup {i})
    BY <1>1, <1>2, InRange DEF Apart, TypeOK
  <2> QED  BY <2>1, <1>1, <1>2, <1>5, <1>6, <1>7, ChainFrame DEF TypeOK
<1>9. /\ Range(main') = Range(main) \cup {i} /\ IsInjective(main')
      /\ main' \in Seq(Instructions)
  <2>1. at \in 1..Len(main) + 1
    BY <1>1, <1>2 DEF TypeOK
  <2> QED  BY <2>1, <1>1, <1>2, InsertAtElements, InsertAtFacts DEF Apart, TypeOK
<1>10. TypeOK'
  <2>1. w \in Pointer /\ i \in Pointer /\ prev[w] \in Pointer
    BY <1>1, <1>3, InRange DEF TypeOK, Pointer
  <2> HIDE DEF w
  <2>2. next' \in [Instructions -> Pointer] /\ prev' \in [Instructions -> Pointer]
    BY <2>1, <1>1, <1>5, AssignType DEF TypeOK
  <2> QED  BY <2>1, <2>2, <1>1, <1>2, <1>5, <1>9 DEF TypeOK
<1>11. Apart'
  BY <1>1, <1>2, <1>9 DEF Apart
<1>12. FreeIsUnlinked'
  BY <1>1, <1>2, <1>7, <1>9 DEF FreeIsUnlinked
<1> QED  BY <1>6, <1>8, <1>10, <1>11, <1>12 DEF ListsAreHeld, Chained, Chain

LEMMA InsertInBufferHolds ==
  ASSUME ListsAreHeld, NEW i \in Instructions, NEW at \in DOMAIN buffer, InsertBeforeInBuffer(i, at)
  PROVE  ListsAreHeld'
<1>1. /\ TypeOK /\ Apart /\ FreeIsUnlinked
      /\ Chain(main, first, last, next, prev)
      /\ Chain(buffer, buffer_first, buffer_last, next, prev)
  BY Held
<1> DEFINE w == buffer[at]
<1>2. /\ i \notin Range(main) /\ i \notin Range(buffer)
      /\ at \in 1..Len(buffer) /\ buffer' = InsertAt(buffer, at, i)
      /\ UNCHANGED <<main, to_buffer>>
  BY <1>1, AskedOperators DEF InsertBeforeInBuffer, Asked!InsertBeforeInBuffer, TypeOK
<1>3. /\ w \in Range(buffer) /\ w \in Instructions
      /\ prev[w] \in Range(buffer) \cup {NULL} /\ (prev[w] = NULL <=> at = 1)
  BY <1>1, <1>2, InRange, ChainNeighbours DEF TypeOK
<1>4. ~ IsLinked(i)
  BY <1>1, <1>2 DEF FreeIsUnlinked, IsLinked
<1>5. /\ next' = Assign(Assign(next, i, w), prev[w], i)
      /\ prev' = Assign(Assign(prev, i, prev[w]), w, i)
      /\ first' = IF prev[w] = NULL THEN i ELSE first
      /\ UNCHANGED <<last, buffer_first, buffer_last>>
  BY <1>4 DEF InsertBeforeInBuffer, InsertBefore
<1>6. /\ Chain(buffer', buffer_first', buffer_last', next', prev')
      /\ first' = first
  <2>1. prev[w] # NULL
    BY <1>3 DEF InsertBeforeInBuffer, Asked!InsertBeforeInBuffer
  <2> QED  BY <2>1, <1>1, <1>2, <1>5, ChainInsert DEF Apart, TypeOK
<1>7. \A j \in Instructions \ (Range(buffer) \cup {i}) :
        next'[j] = next[j] /\ prev'[j] = prev[j]
  BY <1>3, <1>5, NullAssumption DEF Assign
<1>8. Chain(main', first', last', next', prev')
  <2>1. \A j \in Range(main) : j \in Instructions \ (Range(buffer) \cup {i})
    BY <1>1, <1>2, InRange DEF Apart, TypeOK
  <2> QED  BY <2>1, <1>1, <1>2, <1>5, <1>6, <1>7, ChainFrame DEF TypeOK
<1>9. /\ Range(buffer') = Range(buffer) \cup {i} /\ IsInjective(buffer')
      /\ buffer' \in Seq(Instructions)
  <2>1. at \in 1..Len(buffer) + 1
    BY <1>1, <1>2 DEF TypeOK
  <2> QED  BY <2>1, <1>1, <1>2, InsertAtElements, InsertAtFacts DEF Apart, TypeOK
<1>10. TypeOK'
  <2>1. w \in Pointer /\ i \in Pointer /\ prev[w] \in Pointer
    BY <1>1, <1>3, InRange DEF TypeOK, Pointer
  <2> HIDE DEF w
  <2>2. next' \in [Instructions -> Pointer] /\ prev' \in [Instructions -> Pointer]
    BY <2>1, <1>1, <1>5, AssignType DEF TypeOK
  <2> QED  BY <2>1, <2>2, <1>1, <1>2, <1>5, <1>9 DEF TypeOK
<1>11. Apart'
  BY <1>1, <1>2, <1>9 DEF Apart
<1>12. FreeIsUnlinked'
  BY <1>1, <1>2, <1>7, <1>9 DEF FreeIsUnlinked
<1> QED  BY <1>6, <1>8, <1>10, <1>11, <1>12 DEF ListsAreHeld, Chained, Chain

LEMMA InsertAtStartHolds ==
  ASSUME ListsAreHeld, NEW i \in Instructions, InsertAtStart(i)
  PROVE  ListsAreHeld'
<1>1. /\ TypeOK /\ Apart /\ FreeIsUnlinked
      /\ Chain(main, first, last, next, prev)
      /\ Chain(buffer, buffer_first, buffer_last, next, prev)
  BY Held
<1>2. /\ i \notin Range(main) /\ i \notin Range(buffer)
      /\ main' = InsertAt(main, 1, i)
      /\ UNCHANGED <<buffer, to_buffer>>
  BY AskedOperators DEF InsertAtStart, Asked!InsertAtStart
<1>3. ~ IsLinked(i)
  BY <1>1, <1>2 DEF FreeIsUnlinked, IsLinked
<1>4. /\ next' = Assign(next, i, first)
      /\ prev' = Assign(Assign(prev, i, NULL), first, i)
      /\ first' = i
      /\ last' = IF first = NULL THEN i ELSE last
      /\ UNCHANGED <<buffer_first, buffer_last>>
  BY <1>3 DEF InsertAtStart
<1>5. /\ Len(main) \in Nat /\ 1 \in 1..Len(main) + 1
      /\ first \in Range(main) \cup {NULL} /\ (first = NULL <=> Len(main) = 0)
  BY <1>1, ChainEnds DEF TypeOK
<1>6. /\ Range(main') = Range(main) \cup {i} /\ IsInjective(main')
      /\ main' \in Seq(Instructions) /\ Len(main') = Len(main) + 1
      /\ main'[1] = i
  BY <1>1, <1>2, <1>5, InsertAtElements, InsertAtFacts DEF Apart, TypeOK
<1>7. Chain(main', first', last', next', prev')
  <2>1. CASE Len(main) = 0
    <3>1. Len(main') = 1 /\ first = NULL
      BY <2>1, <1>5, <1>6
    <3>2. next'[i] = NULL /\ prev'[i] = NULL
      BY <3>1, <1>4, NullAssumption DEF Assign
    <3> QED  BY <3>1, <3>2, <1>4, <1>6 DEF Chain
  <2>2. CASE Len(main) > 0
    <3>1. 1 \in 1..Len(main) /\ first = main[1] /\ first # NULL
      BY <2>2, <1>1, <1>5 DEF Chain
    <3>2. prev[first] = NULL
      BY <3>1, <1>1 DEF Chain
    <3>3. Chain(InsertAt(main, 1, i), IF prev[first] = NULL THEN i ELSE first, last,
                Assign(Assign(next, i, first), prev[first], i),
                Assign(Assign(prev, i, prev[first]), first, i))
      BY <3>1, <1>1, <1>2, ChainInsert DEF Apart, TypeOK
    <3>4. Assign(Assign(next, i, first), NULL, i) = Assign(next, i, first)
      BY NullAssumption DEF Assign
    <3> QED  BY <3>1, <3>2, <3>3, <3>4, <1>2, <1>4
  <2> QED  BY <2>1, <2>2, <1>5
<1>8. \A j \in Instructions \ (Range(main) \cup {i}) :
        next'[j] = next[j] /\ prev'[j] = prev[j]
  BY <1>4, <1>5, NullAssumption DEF Assign
<1>9. Chain(buffer', buffer_first', buffer_last', next', prev')
  <2>1. \A j \in Range(buffer) : j \in Instructions \ (Range(main) \cup {i})
    BY <1>1, <1>2, InRange DEF Apart, TypeOK
  <2> QED  BY <2>1, <1>1, <1>2, <1>4, <1>8, ChainFrame DEF TypeOK
<1>10. TypeOK'
  <2>1. first \in Pointer /\ i \in Pointer /\ NULL \in Pointer
    BY <1>1 DEF TypeOK, Pointer
  <2>2. next' \in [Instructions -> Pointer] /\ prev' \in [Instructions -> Pointer]
    BY <2>1, <1>1, <1>4, AssignType DEF TypeOK
  <2> QED  BY <2>1, <2>2, <1>1, <1>2, <1>4, <1>6 DEF TypeOK
<1>11. Apart'
  BY <1>1, <1>2, <1>6 DEF Apart
<1>12. FreeIsUnlinked'
  BY <1>1, <1>2, <1>6, <1>8 DEF FreeIsUnlinked
<1> QED  BY <1>7, <1>9, <1>10, <1>11, <1>12 DEF ListsAreHeld, Chained, Chain

LEMMA FlushHolds ==
  ASSUME ListsAreHeld, FlushBuffer
  PROVE  ListsAreHeld'
<1>1. /\ TypeOK /\ Apart /\ FreeIsUnlinked
      /\ Chain(main, first, last, next, prev)
      /\ Chain(buffer, buffer_first, buffer_last, next, prev)
  BY Held
<1>2. /\ main # << >> /\ main' = main \o buffer /\ buffer' = << >>
      /\ UNCHANGED to_buffer
  BY DEF FlushBuffer, Asked!FlushBuffer
<1>3. /\ Len(main) \in Nat /\ Len(main) > 0 /\ Len(buffer) \in Nat
      /\ Len(buffer') = 0 /\ buffer' \in Seq(Instructions)
      /\ Range(buffer') = {} /\ IsInjective(buffer')
  <2>1. Len(main) \in Nat /\ Len(main) > 0 /\ Len(buffer) \in Nat
    BY <1>1, <1>2 DEF TypeOK
  <2> QED  BY <2>1, <1>2 DEF Range, IsInjective
<1>4. /\ Range(main') = Range(main) \cup Range(buffer) /\ IsInjective(main')
      /\ main' \in Seq(Instructions)
  BY <1>1, <1>2, ConcatElements DEF Apart, TypeOK
<1>5. Apart'
  BY <1>3, <1>4 DEF Apart
<1>6. CASE buffer_first = NULL
  <2>1. UNCHANGED <<first, last, buffer_first, buffer_last, next, prev>>
    BY <1>6 DEF FlushBuffer, ends
  <2>2. Len(buffer) = 0
    BY <1>1, <1>6, ChainEnds DEF TypeOK
  <2>3. buffer = << >> /\ main' = main
    BY <2>2, <1>1, <1>2 DEF TypeOK
  <2>4. buffer' = buffer
    BY <2>3, <1>2
  <2> QED  BY <2>1, <2>3, <2>4, <1>1, <1>2
           DEF ListsAreHeld, Chained, Chain, TypeOK, Apart, FreeIsUnlinked
<1>7. CASE buffer_first # NULL
  <2>1. /\ next' = Assign(next, last, buffer_first)
        /\ prev' = Assign(prev, buffer_first, last)
        /\ last' = buffer_last /\ first' = first
        /\ buffer_first' = NULL /\ buffer_last' = NULL
    BY <1>7 DEF FlushBuffer
  <2>2. /\ Len(buffer) > 0 /\ last \in Range(main)
        /\ buffer_first \in Range(buffer)
    BY <1>1, <1>3, <1>7, ChainEnds DEF TypeOK
  <2>3. Chain(main', first', last', next', prev')
    BY <2>1, <2>2, <1>1, <1>2, <1>3, ChainJoin DEF Apart, TypeOK
  <2>4. Chain(buffer', buffer_first', buffer_last', next', prev')
    BY <2>1, <1>3 DEF Chain
  <2>5. TypeOK'
    <3>1. last \in Pointer /\ buffer_first \in Pointer
      BY <1>1 DEF TypeOK
    <3>2. next' \in [Instructions -> Pointer] /\ prev' \in [Instructions -> Pointer]
      BY <3>1, <2>1, <1>1, AssignType DEF TypeOK
    <3> QED  BY <3>2, <2>1, <1>1, <1>2, <1>3, <1>4 DEF TypeOK, Pointer
  <2>6. FreeIsUnlinked'
    <3>1. \A j \in Instructions \ (Range(main) \cup Range(buffer)) :
            next'[j] = next[j] /\ prev'[j] = prev[j]
      BY <2>1, <2>2 DEF Assign
    <3> QED  BY <3>1, <1>1, <1>3, <1>4 DEF FreeIsUnlinked
  <2> QED  BY <2>3, <2>4, <2>5, <2>6, <1>5 DEF ListsAreHeld, Chained, Chain
<1> QED  BY <1>6, <1>7

LEMMA WriteToHolds ==
  ASSUME ListsAreHeld, NEW list \in BOOLEAN, WriteTo(list)
  PROVE  ListsAreHeld'
BY DEF ListsAreHeld, WriteTo, Asked!WriteTo, ends, TypeOK, Apart, Chained,
       FreeIsUnlinked

-----------------------------------------------------------------------------
LEMMA StepHolds == ListsAreHeld /\ [Next]_vars => ListsAreHeld'
<1> SUFFICES ASSUME ListsAreHeld, [Next]_vars  PROVE ListsAreHeld'
  OBVIOUS
<1>1. ASSUME NEW i \in Instructions, AppendInstruction(i)  PROVE ListsAreHeld'
  BY <1>1, AppendHolds
<1>2. ASSUME NEW i \in Instructions, InsertAtStart(i)  PROVE ListsAreHeld'
  BY <1>2, InsertAtStartHolds
<1>3. ASSUME NEW i \in Instructions, NEW at \in DOMAIN main, InsertBeforeInMain(i, at)
      PROVE  ListsAreHeld'
  BY <1>3, InsertInMainHolds
<1>4. ASSUME NEW i \in Instructions, NEW at \in DOMAIN buffer, InsertBeforeInBuffer(i, at)
      PROVE  ListsAreHeld'
  BY <1>4, InsertInBufferHolds
<1>5. ASSUME NEW at \in DOMAIN main \cup DOMAIN buffer, RemoveInstruction(at)
      PROVE  ListsAreHeld'
  BY <1>5, RemoveHolds
<1>6. CASE FlushBuffer
  BY <1>6, FlushHolds
<1>7. ASSUME NEW list \in BOOLEAN, WriteTo(list)  PROVE ListsAreHeld'
  BY <1>7, WriteToHolds
<1>8. CASE UNCHANGED vars
  BY <1>8 DEF vars, ends, ListsAreHeld, TypeOK, Apart, Chained, FreeIsUnlinked
<1> QED  BY <1>1, <1>2, <1>3, <1>4, <1>5, <1>6, <1>7, <1>8 DEF Next

(* Whatever sequence of operations its callers perform, the pointers of the *)
(* generator are those of the main part and of the buffer they asked for:   *)
(* from both ends and in both directions, without a pointer to memory that  *)
(* was released (append, remove, insert_before and flush_buffer of          *)
(* code_generator.c).                                                       *)
THEOREM ListsHold == Spec => []ListsAreHeld
<1>1. Init => ListsAreHeld
  BY HeldAtStart
<1>2. ListsAreHeld /\ [Next]_vars => ListsAreHeld'
  BY StepHolds
<1> QED  BY <1>1, <1>2, PTL DEF Spec

-----------------------------------------------------------------------------
(* Walking along next. *)

(* What holds for 0, and for a number when it holds for the one before it,  *)
(* holds up to any number.                                                  *)
LEMMA UpTo ==
  ASSUME NEW N \in Nat, NEW S, 0 \in S,
         \A n \in 1..N : n - 1 \in S => n \in S
  PROVE  0..N \subseteq S
<1> DEFINE Others == {n \in 0..N : n \notin S}
           Less == {p \in Nat \X Nat : p[1] < p[2]}
<1>1. SUFFICES ASSUME Others # {}  PROVE FALSE
  OBVIOUS
<1>2. IsWellFoundedOn(Less, Nat)
  BY NatLessThanWellFounded DEF OpToRel
<1>3. Others \subseteq Nat
  OBVIOUS
<1>4. PICK n \in Others : \A m \in Others : ~ (<<m, n>> \in Less)
  <2> HIDE DEF Others, Less
  <2> QED  BY <1>1, <1>2, <1>3, WFMin
<1>5. n \in 1..N /\ n - 1 \in 0..N /\ n - 1 < n
  OBVIOUS
<1>6. n - 1 \notin Others
  <2>1. <<n - 1, n>> \in Less
    BY <1>5
  <2> HIDE DEF Others, Less
  <2> QED  BY <1>4, <2>1
<1> QED  BY <1>4, <1>5, <1>6

(* A list has no more elements than there are addresses. *)
LEMMA ListFits ==
  ASSUME NEW list \in Seq(Instructions), IsInjective(list)
  PROVE  Cardinality(Instructions) \in Nat /\ Len(list) <= Cardinality(Instructions)
<1> DEFINE n == Len(list)
<1>1. IsFiniteSet(Instructions) /\ Cardinality(Instructions) \in Nat
  BY InstructionsAssumption, FS_CardinalityType
<1>2. list \in Injection(1..n, Instructions) /\ n \in Nat
  BY DEF Injection, IsInjective
<1> HIDE DEF n
<1>3. Cardinality(1..n) = n
  BY <1>2, FS_Interval
<1>4. Cardinality(1..n) <= Cardinality(Instructions)
  BY <1>1, <1>2, FS_Injection
<1> QED  BY <1>1, <1>3, <1>4 DEF n

(* Going along next from the beginning of a chain meets the list.           *)
LEMMA WalkMeets ==
  ASSUME NEW list \in Seq(Instructions), IsInjective(list), NEW b, NEW e,
         Chain(list, b, e, next, prev)
  PROVE  Walk(b) = list
<1> DEFINE count == Cardinality(Instructions)
           after(i) == IF i = NULL THEN NULL ELSE next[i]
           path[n \in 1..count] == IF n = 1 THEN b ELSE after(path[n - 1])
           g == [n \in 1..count |-> IF n <= Len(list) THEN list[n] ELSE NULL]
<1>1. count \in Nat /\ Len(list) \in Nat /\ Len(list) <= count
  BY ListFits
<1>2. \A k \in 1..Len(list) : list[k] \in Instructions /\ list[k] # NULL
  BY NullAssumption
<1>3. Walk(b) = [n \in {k \in 1..count : path[k] # NULL} |-> path[n]]
  BY DEF Walk
<1> HIDE DEF count
<1>4. g = [n \in 1..count |-> IF n = 1 THEN b ELSE after(g[n - 1])]
  <2>1. ASSUME NEW n \in 1..count
        PROVE  g[n] = IF n = 1 THEN b ELSE after(g[n - 1])
    <3>1. CASE n = 1
      BY <1>1, <3>1 DEF Chain
    <3>2. CASE n # 1 /\ n - 1 <= Len(list)
      <4>1. n - 1 \in 1..Len(list) /\ n - 1 \in 1..count
        BY <1>1, <3>2
      <4>2. g[n - 1] = list[n - 1]
        BY <4>1
      <4>3. next[list[n - 1]] = IF n - 1 = Len(list) THEN NULL ELSE list[n]
        BY <4>1 DEF Chain
      <4> QED  BY <4>1, <4>2, <4>3, <1>1, <1>2, <3>2
    <3>3. CASE n # 1 /\ ~ (n - 1 <= Len(list))
      <4>1. n - 1 \in 1..count /\ ~ (n <= Len(list))
        BY <1>1, <3>3
      <4>2. g[n - 1] = NULL /\ g[n] = NULL
        BY <4>1, <3>3
      <4> QED  BY <4>2, <3>3
    <3> QED  BY <3>1, <3>2, <3>3
  <2> QED  BY <2>1
<1> HIDE DEF g
<1>5. path = [n \in 1..count |-> IF n = 1 THEN b ELSE after(path[n - 1])]
  BY <1>4
<1> HIDE DEF path
<1> DEFINE Same == {n \in 0..count : n # 0 => path[n] = g[n]}
<1>6. 0..count \subseteq Same
  <2>1. 0 \in Same
    BY <1>1
  <2>2. ASSUME NEW n \in 1..count, n - 1 \in Same
        PROVE  n \in Same
    <3>1. path[n] = IF n = 1 THEN b ELSE after(path[n - 1])
      BY <1>5
    <3>2. g[n] = IF n = 1 THEN b ELSE after(g[n - 1])
      BY <1>4
    <3>3. n # 1 => path[n - 1] = g[n - 1]
      BY <2>2
    <3> QED  BY <3>1, <3>2, <3>3
  <2> HIDE DEF Same
  <2> QED  BY <1>1, <2>1, <2>2, UpTo
<1>7. ASSUME NEW n \in 1..count
      PROVE  path[n] = IF n <= Len(list) THEN list[n] ELSE NULL
  <2>1. n \in 0..count /\ n # 0
    BY <1>1
  <2>2. path[n] = g[n]
    BY <1>6, <2>1 DEF Same
  <2> QED  BY <2>2 DEF g
<1>8. {k \in 1..count : path[k] # NULL} = 1..Len(list)
  BY <1>1, <1>2, <1>7
<1>9. Walk(b) = [n \in 1..Len(list) |-> list[n]]
  BY <1>1, <1>3, <1>7, <1>8
<1> QED  BY <1>9

(* What one meets is what was asked for. *)
WalksTell == Walk(first) = main /\ Walk(buffer_first) = buffer

LEMMA WalksAreTold == ListsAreHeld => WalksTell
BY Held, WalkMeets DEF WalksTell, Apart, TypeOK

(* The operators InstructionLists takes from the library, for what one meets. *)
LEMMA KeptOperators ==
  /\ Kept!Linked = Range(Walk(first)) \cup Range(Walk(buffer_first))
  /\ \A s, k, e : Kept!InsertAt(s, k, e) = Asked!InsertAt(s, k, e)
  /\ \A s, k : Kept!RemoveAt(s, k) = Asked!RemoveAt(s, k)
BY DEF Kept!Linked, Kept!Range, Range, Kept!InsertAt, Asked!InsertAt,
       Kept!RemoveAt, Asked!RemoveAt

LEMMA StartIsAsked == WalksTell /\ Init => Kept!Init
BY DEF WalksTell, Init, Asked!Init, Kept!Init

(* A request is the same request of what one meets. *)
LEMMA StepIsAsked ==
  ASSUME WalksTell, WalksTell', [Next]_vars
  PROVE  [Kept!Next]_<<Walk(first), Walk(buffer_first), to_buffer>>
<1>1. /\ Walk(first) = main /\ Walk(buffer_first) = buffer
      /\ Walk(first)' = main' /\ Walk(buffer_first)' = buffer'
  BY DEF WalksTell
<1>2. Kept!Linked = Asked!Linked
  BY <1>1, KeptOperators, AskedOperators
<1>3. ASSUME NEW i \in Instructions, Asked!AppendInstruction(i)
      PROVE  Kept!Next
  <2>1. Kept!AppendInstruction(i)
    BY <1>1, <1>2, <1>3 DEF Kept!AppendInstruction, Asked!AppendInstruction
  <2> QED  BY <2>1 DEF Kept!Next
<1>4. ASSUME NEW i \in Instructions, Asked!InsertAtStart(i)
      PROVE  Kept!Next
  <2>1. Kept!InsertAtStart(i)
    BY <1>1, <1>2, <1>4, KeptOperators DEF Kept!InsertAtStart, Asked!InsertAtStart
  <2> QED  BY <2>1 DEF Kept!Next
<1>5. ASSUME NEW i \in Instructions, NEW at \in DOMAIN main, Asked!InsertBeforeInMain(i, at)
      PROVE  Kept!Next
  <2>1. Kept!InsertBeforeInMain(i, at)
    BY <1>1, <1>2, <1>5, KeptOperators DEF Kept!InsertBeforeInMain, Asked!InsertBeforeInMain
  <2>2. at \in DOMAIN Walk(first)
    BY <1>1
  <2> QED  BY <2>1, <2>2 DEF Kept!Next
<1>6. ASSUME NEW i \in Instructions, NEW at \in DOMAIN buffer,
             Asked!InsertBeforeInBuffer(i, at)
      PROVE  Kept!Next
  <2>1. Kept!InsertBeforeInBuffer(i, at)
    BY <1>1, <1>2, <1>6, KeptOperators
       DEF Kept!InsertBeforeInBuffer, Asked!InsertBeforeInBuffer
  <2>2. at \in DOMAIN Walk(buffer_first)
    BY <1>1
  <2> QED  BY <2>1, <2>2 DEF Kept!Next
<1>7. ASSUME NEW at \in DOMAIN main \cup DOMAIN buffer, Asked!RemoveInstruction(at)
      PROVE  Kept!Next
  <2>1. Kept!RemoveInstruction(at)
    BY <1>1, <1>7, KeptOperators DEF Kept!RemoveInstruction, Asked!RemoveInstruction
  <2>2. at \in DOMAIN Walk(first) \cup DOMAIN Walk(buffer_first)
    BY <1>1
  <2> QED  BY <2>1, <2>2 DEF Kept!Next
<1>8. ASSUME Asked!FlushBuffer
      PROVE  Kept!Next
  <2>1. Kept!FlushBuffer
    BY <1>1, <1>8 DEF Kept!FlushBuffer, Asked!FlushBuffer
  <2> QED  BY <2>1 DEF Kept!Next
<1>9. ASSUME NEW list \in BOOLEAN, Asked!WriteTo(list)
      PROVE  Kept!Next
  <2>1. Kept!WriteTo(list)
    BY <1>1, <1>9 DEF Kept!WriteTo, Asked!WriteTo
  <2> QED  BY <2>1 DEF Kept!Next
<1>10. CASE Next
  <2>1. Kept!Next
    BY <1>3, <1>4, <1>5, <1>6, <1>7, <1>8, <1>9, <1>10
       DEF Next, AppendInstruction, InsertAtStart, InsertBeforeInMain, InsertBeforeInBuffer,
           RemoveInstruction, FlushBuffer, WriteTo
  <2> QED  BY <2>1
<1>11. CASE UNCHANGED vars
  BY <1>1, <1>11 DEF vars
<1> QED  BY <1>10, <1>11

(* What one meets going along next from first and buffer_first, which is    *)
(* how the optimizer and code_generator_render see the code, behaves as     *)
(* InstructionLists says of two sequences, whatever the callers ask for.    *)
THEOREM PointersAreLists == Spec => WalksAsAsked
<1>1. WalksTell /\ Init => Kept!Init
  BY StartIsAsked
<1>2. WalksTell /\ WalksTell' /\ [Next]_vars
        => [Kept!Next]_<<Walk(first), Walk(buffer_first), to_buffer>>
  BY StepIsAsked
<1> QED  BY <1>1, <1>2, WalksAreTold, ListsHold, PTL
         DEF Spec, WalksAsAsked, Kept!Spec, Kept!lists

=============================================================================
