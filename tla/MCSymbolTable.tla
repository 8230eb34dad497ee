---------------------------- MODULE MCSymbolTable ----------------------------
(***************************************************************************)
(* Two places for tables of one or two buckets, three keys of which two    *)
(* share a bucket even of two, and pages for a table of three items and    *)
(* one it is moved to, or for one of two items and its copy.  The tables   *)
(* may change places, and so may the keys that always share a bucket.      *)
(***************************************************************************)
EXTENDS LinkedChains

CONSTANTS first, second, j, k, l

MCTables == {first, second}
MCKeys == {j, k, l}
MCHash == (j :> 4) @@ (k :> 7) @@ (l :> 4)
MCSizes == {1, 2}
MCAddresses == 1..10

MCSymmetry == Permutations({first, second}) \cup Permutations({j, l})

=============================================================================
