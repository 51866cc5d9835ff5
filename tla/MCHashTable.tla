----------------------------- MODULE MCHashTable ----------------------------
(* HashTable for TLC: keys that start at the same slot of the first table,   *)
(* some with equal steps, some with step 0, that part in the resized one;    *)
(* one has a negative hash in the resized table, one a negative step.        *)
EXTENDS HashTable

MCKeys  == 1..5
MCHashA == <<0, 5, 10, 3, 11>>
MCHashB == <<5, 7, 2, 1, 12>>
MCNegA  == {<<3, 11>>}
MCNegB  == {<<5, 11>>, <<4, 7>>}
=============================================================================
