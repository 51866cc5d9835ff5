------------------------------- MODULE MCTrie -------------------------------
(* Trie for TLC: a wildcard parameter, one that matches a single segment and *)
(* one whose regular expression does not compile.                            *)
EXTENDS Trie

MCLiterals == {"a", "b"}
MCParams   == {":x", ":n", ":bad"}
MCBad      == {":bad"}
MCPattern  == (":x" :> {"a", "b", "?"}) @@ (":n" :> {"b"}) @@ (":bad" :> {})
MCMethods  == {"GET", "POST"}
=============================================================================
