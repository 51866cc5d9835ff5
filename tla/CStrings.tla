------------------------------ MODULE CStrings ------------------------------
(***************************************************************************)
(* What the parsers of header and URL text take from util.c and libutil.    *)
(* A string is a sequence of characters; NULL is the null pointer.          *)
(***************************************************************************)
EXTENDS Integers, Sequences, SequencesExt, FiniteSets, Pointers

\* A set of positions in increasing order.
InOrder(S) ==
  [n \in 1..Cardinality(S) |-> CHOOSE x \in S : Cardinality({y \in S : y < x}) = n - 1]

s_nullish(s) == s \in {NULL, <<>>}

\* The position of the first c, 0 if there is none.
s_indexof(s, c) == SelectInSeq(s, LAMBDA x : x = c)

\* The null pointer for an empty string: what str_cut returns for an empty half,
\* and the state of a buffer nothing was appended to.
OrNull(s) == IF s = <<>> THEN NULL ELSE s

\* The array of the halves around the first c, read with array_get, which
\* returns the null pointer for the half that is not there.
str_cut(s, c) ==
  LET i == s_indexof(s, c)
  IN  IF i = 0 THEN <<s, NULL>>
      ELSE <<OrNull(SubSeq(s, 1, i - 1)), OrNull(SubSeq(s, i + 1, Len(s)))>>

\* The longest runs without c, so no empty ones; none at all in a string
\* without a c.
split(s, c) ==
  LET Starts(i) == s[i] # c /\ (i = 1 \/ s[i - 1] = c)
      Ends(i)   == s[i] # c /\ (i = Len(s) \/ s[i + 1] = c)
      starts == InOrder({i \in DOMAIN s : Starts(i)})
      ends   == InOrder({i \in DOMAIN s : Ends(i)})
  IN  IF s_indexof(s, c) = 0 THEN <<>>
      ELSE [n \in DOMAIN starts |-> SubSeq(s, starts[n], ends[n])]

s_trim(s) ==
  LET kept == {i \in DOMAIN s : s[i] # " "}
  IN  IF kept = {} THEN <<>> ELSE SubSeq(s, Min(kept), Max(kept))

-----------------------------------------------------------------------------
(* For the definitions the parsers are compared with. *)

\* The fields of s between the occurrences of c, the empty ones included.
Fields(s, c) ==
  LET at == InOrder({0, Len(s) + 1} \cup {i \in DOMAIN s : s[i] = c})
  IN  [n \in 1..Len(at) - 1 |-> SubSeq(s, at[n] + 1, at[n + 1] - 1)]
=============================================================================
