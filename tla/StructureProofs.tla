--------------------------- MODULE StructureProofs --------------------------
(***************************************************************************)
(* Proofs about the data structures: the route trie, for every set of       *)
(* labels, paths and methods and every number of routes; the list of the    *)
(* thread pool, for every number of threads; the hash table and set, for    *)
(* every hash function, capacity and number of calls.                       *)
(***************************************************************************)
EXTENDS Trie, Glthread, HashTable, FiniteSetTheorems, ProofLemmas

-----------------------------------------------------------------------------
(* The route trie. *)

RouteRec == [path : Seq(Labels), methods : SUBSET Methods]

TrieInv == routes \in Seq(RouteRec) /\ TrieHoldsRoutes

LEMMA PathsAreSeqs ==
  ASSUME NEW d \in Nat, NEW path \in Paths(d)
  PROVE  path \in Seq(Labels)
<1>1. PICK k \in 0..d : path \in [1..k -> Labels]
  BY DEF Paths
<1>2. QED
  BY <1>1, FunctionIsSeq

LEMMA PrefixesHold ==
  ASSUME NEW path \in Seq(Labels)
  PROVE  path \in Prefixes(path) /\ RootPath \in Prefixes(path)
<1>1. Len(path) \in 0..Len(path) /\ 0 \in 0..Len(path)
  BY LenProperties
<1>2. SubSeq(path, 1, Len(path)) = path
  BY SubSeqFull
<1>3. SubSeq(path, 1, 0) = <<>>
  BY SubSeqEmpty
<1>4. QED
  BY <1>1, <1>2, <1>3 DEF Prefixes, RootPath

\* Every registered path is a sequence of labels and a node of the trie.
LEMMA RegisteredAreNodes ==
  ASSUME TrieInv, NEW p \in Registered
  PROVE  p \in Seq(Labels) /\ p \in nodes
<1>1. PICK k \in DOMAIN routes : p = routes[k].path
  BY DEF Registered
<1>2. routes[k] \in RouteRec
  BY <1>1, ElementOfSeq, LenProperties DEF TrieInv
<1>3. p \in Seq(Labels)
  BY <1>1, <1>2 DEF RouteRec
<1>4. p \in Prefixes(p)
  BY <1>3, PrefixesHold
<1>5. QED
  BY <1>3, <1>4, Zenon DEF TrieInv, TrieHoldsRoutes

\* A path that is no node has no handler.
LEMMA NoNodeNoHandler ==
  ASSUME TrieInv, NEW n, n \notin nodes, NEW m
  PROVE  Handler(n, m) = 0
<1>1. \A k \in DOMAIN routes : routes[k].path # n
  BY RegisteredAreNodes, Zenon DEF Registered
<1>2. QED
  BY <1>1, Zenon DEF Handler

LEMMA TrieStart == ASSUME TrieInit PROVE TrieInv
<1>1. routes = <<>> /\ DOMAIN routes = {}
  BY DEF TrieInit
<1>2. Registered = {}
  BY <1>1, Zenon DEF Registered
<1>3. \A n, m : Handler(n, m) = 0
  BY <1>1, Zenon DEF Handler
<1>4. routes \in Seq(RouteRec)
  BY <1>1, EmptySeq
<1>5. nodes = {RootPath} \cup UNION {Prefixes(p) : p \in Registered}
  BY <1>2, Zenon DEF TrieInit
<1>6. DOMAIN actions = nodes
  BY Zenon DEF TrieInit
<1>7. \A n \in nodes, m \in Methods : actions[n][m] = 0
  BY Zenon DEF TrieInit
<1>8. QED
  BY <1>3, <1>4, <1>5, <1>6, <1>7, Zenon DEF TrieInv, TrieHoldsRoutes

\* A registration adds the nodes of its path, and its handler is the last one
\* for the path and its methods.
LEMMA InsertKeepsTrie ==
  ASSUME TrieInv, NEW path \in Seq(Labels), NEW ms \in SUBSET Methods,
         trie_insert(path, ms)
  PROVE  TrieInv'
<1> DEFINE rec == [path |-> path, methods |-> ms]
           N == Len(routes)
<1>1. /\ routes \in Seq(RouteRec) /\ N \in Nat /\ rec \in RouteRec
      /\ DOMAIN routes = 1..N
  BY LenProperties DEF TrieInv, RouteRec
<1>2. routes' = Append(routes, rec)
  BY DEF trie_insert
<1>3. /\ routes' \in Seq(RouteRec) /\ DOMAIN routes' = 1 .. N + 1
      /\ routes'[N + 1] = rec
      /\ \A k \in 1..N : routes'[k] = routes[k]
  BY <1>1, <1>2, AppendProperties
<1>4. N + 1 \in Int /\ \A k : k \in 1 .. N + 1 <=> k \in 1..N \/ k = N + 1
  BY <1>1
<1>5. rec.path = path /\ rec.methods = ms
  OBVIOUS
<1> HIDE DEF rec
<1>6. nodes' = {RootPath} \cup UNION {Prefixes(p) : p \in Registered'}
  <2>1. \A p : p \in Registered' <=> p \in Registered \/ p = path
    <3>1. \A p : p \in Registered' <=> \E k \in 1 .. N + 1 : p = routes'[k].path
      BY <1>3, Zenon DEF Registered
    <3>2. \A p : p \in Registered <=> \E k \in 1..N : p = routes[k].path
      BY <1>1, Zenon DEF Registered
    <3>3. \A p : (\E k \in 1 .. N + 1 : p = routes'[k].path)
                  <=> (\E k \in 1..N : p = routes[k].path) \/ p = path
      <4>1. \A k \in 1..N : routes'[k].path = routes[k].path
        BY <1>3, Zenon
      <4>2. routes'[N + 1].path = path
        BY <1>3, <1>5, Zenon
      <4>3. QED
        BY <4>1, <4>2, <1>4, Zenon
    <3>4. QED
      BY <3>1, <3>2, <3>3, Zenon
  <2>2. nodes' = nodes \cup Prefixes(path)
    BY DEF trie_insert, Insert
  <2>3. nodes = {RootPath} \cup UNION {Prefixes(p) : p \in Registered}
    BY DEF TrieInv, TrieHoldsRoutes
  <2>4. \A x : x \in nodes' <=> x = RootPath \/ \E p \in Registered' : x \in Prefixes(p)
    BY <2>1, <2>2, <2>3, Zenon
  <2>5. QED
    BY <2>4, Zenon
<1>7. /\ DOMAIN actions' = nodes'
      /\ path \in nodes'
      /\ \A n \in nodes' : actions'[n] =
           IF n = path
           THEN [m \in Methods |-> IF m \in ms THEN N + 1 ELSE ActionsAt(path)[m]]
           ELSE IF n \in nodes THEN actions[n] ELSE NoActions
  <2>1. path \in nodes'
    BY PrefixesHold, Zenon DEF trie_insert, Insert
  <2>2. QED
    BY <2>1, Zenon DEF trie_insert, Insert
<1>8. \A m \in Methods : ActionsAt(path)[m] = Handler(path, m)
  <2>1. CASE path \in nodes
    BY <2>1, Zenon DEF ActionsAt, TrieInv, TrieHoldsRoutes
  <2>2. CASE path \notin nodes
    BY <2>2, NoNodeNoHandler, Zenon DEF ActionsAt, NoActions
  <2>3. QED
    BY <2>1, <2>2
<1>9. \A n \in nodes', m \in Methods : actions'[n][m] = Handler(n, m)'
  <2> SUFFICES ASSUME NEW n \in nodes', NEW m \in Methods
               PROVE  actions'[n][m] = Handler(n, m)'
    BY Zenon
  <2> DEFINE ks == {k \in DOMAIN routes : routes[k].path = n /\ m \in routes[k].methods}
             ls == {k \in DOMAIN routes' : routes'[k].path = n /\ m \in routes'[k].methods}
  <2>1. Handler(n, m) = (IF ks = {} THEN 0 ELSE Max(ks))
    BY Zenon DEF Handler
  <2>2. Handler(n, m)' = (IF ls = {} THEN 0 ELSE Max(ls))
    BY Zenon DEF Handler
  <2>3. ks \subseteq 1..N
    BY <1>1, Zenon
  <2>4. \A k : k \in ls <=> k \in ks \/ (k = N + 1 /\ n = path /\ m \in ms)
    <3>1. \A k : k \in ls <=> k \in 1 .. N + 1 /\ routes'[k].path = n
                                              /\ m \in routes'[k].methods
      BY <1>3, Zenon
    <3>2. \A k : k \in ks <=> k \in 1..N /\ routes[k].path = n
                                        /\ m \in routes[k].methods
      BY <1>1, Zenon
    <3>3. QED
      BY <3>1, <3>2, <1>3, <1>4, <1>5, Zenon
  <2> HIDE DEF ks, ls
  <2>5. CASE n = path /\ m \in ms
    <3>1. ls = ks \cup {N + 1}
      BY <2>4, <2>5, Zenon
    <3>2. \A k \in ks : k < N + 1
      BY <2>3, <1>1
    <3>3. ks \subseteq Int
      BY <2>3
    <3>4. Max(ls) = N + 1
      BY <3>1, <3>2, <3>3, <1>4, MaxAdded, Zenon
    <3>5. actions'[n][m] = N + 1
      BY <1>7, <2>5, Zenon
    <3>6. ls # {}
      BY <3>1, Zenon
    <3>7. QED
      BY <2>2, <3>4, <3>5, <3>6, Zenon
  <2>6. CASE ~ (n = path /\ m \in ms)
    <3>1. ls = ks
      BY <2>4, <2>6, Zenon
    <3>2. Handler(n, m)' = Handler(n, m)
      BY <3>1, <2>1, <2>2, Zenon
    <3>3. CASE n = path
      BY <3>2, <3>3, <2>6, <1>7, <1>8, Zenon
    <3>4. CASE n # path /\ n \in nodes
      <4>1. actions'[n] = actions[n]
        BY <3>4, <1>7, Zenon
      <4>2. QED
        BY <3>2, <3>4, <4>1, Zenon DEF TrieInv, TrieHoldsRoutes
    <3>5. CASE n # path /\ n \notin nodes
      <4>1. actions'[n] = NoActions
        BY <3>5, <1>7, Zenon
      <4>2. Handler(n, m) = 0
        BY <3>5, NoNodeNoHandler, Zenon
      <4>3. QED
        BY <3>2, <4>1, <4>2, Zenon DEF NoActions
    <3>6. QED
      BY <3>3, <3>4, <3>5, Zenon
  <2>7. QED
    BY <2>5, <2>6, Zenon
<1>10. QED
  BY <1>3, <1>6, <1>7, <1>9, Zenon DEF TrieInv, TrieHoldsRoutes

LEMMA TrieStays == ASSUME TrieInv, UNCHANGED trieVars PROVE TrieInv'
<1>1. routes' = routes /\ nodes' = nodes /\ actions' = actions
  BY DEF trieVars
<1>2. Registered' = Registered /\ \A n, m : Handler(n, m)' = Handler(n, m)
  BY <1>1, Zenon DEF Registered, Handler
<1>3. QED
  BY <1>1, <1>2, Zenon DEF TrieInv, TrieHoldsRoutes

\* trie_insert: for every set of labels and methods and every number and order
\* of registrations, the trie holds exactly the nodes of the routes and, at
\* each, the handler registered last for the method.
THEOREM TrieKeepsRoutes == TrieSpec => []TrieHoldsRoutes
<1>1. TrieInit => TrieInv
  BY TrieStart
<1>2. TrieInv /\ [TrieNext]_trieVars => TrieInv'
  <2> SUFFICES ASSUME TrieInv, [TrieNext]_trieVars PROVE TrieInv'
    OBVIOUS
  <2>1. CASE UNCHANGED trieVars
    BY <2>1, TrieStays, Zenon
  <2>2. ASSUME NEW path \in Paths(MaxDepth), NEW ms \in (SUBSET Methods) \ {{}},
               trie_insert(path, ms)
        PROVE  TrieInv'
    <3>1. path \in Seq(Labels)
      BY PathsAreSeqs, BoundsAssumption, Zenon
    <3>2. QED
      BY <2>2, <3>1, InsertKeepsTrie, Zenon
  <2>3. QED
    BY <2>1, <2>2, Zenon DEF TrieNext
<1>3. TrieInv => TrieHoldsRoutes
  BY DEF TrieInv
<1>4. QED
  BY <1>1, <1>2, <1>3, PTL DEF TrieSpec

\* TrieInv, with what the search needs besides: each registration has a method,
\* and the tables of the nodes have the methods as their keys.
SearchInv ==
  /\ TrieInv
  /\ \A k \in DOMAIN routes : \E m \in Methods : m \in routes[k].methods
  /\ \A n \in nodes : \E f : actions[n] = [m \in Methods |-> f[m]]

\* p starts with n.
StartsWith(p, n) == Len(n) <= Len(p) /\ \A j \in 1..Len(n) : p[j] = n[j]

LEMMA PrefixesAre ==
  ASSUME NEW p \in Seq(Labels), NEW n
  PROVE  n \in Prefixes(p) <=> n \in Seq(Labels) /\ StartsWith(p, n)
<1>1. Len(p) \in Nat
  BY LenProperties
<1>2. ASSUME n \in Prefixes(p) PROVE n \in Seq(Labels) /\ StartsWith(p, n)
  <2>1. PICK k \in 0..Len(p) : n = SubSeq(p, 1, k)
    BY <1>2 DEF Prefixes
  <2>2. k \in Int /\ 1 \in Int
    OBVIOUS
  <2>3. k \in 1 .. Len(p) \/ k = 0
    BY <1>1
  <2>4. CASE k = 0
    <3>1. n = <<>>
      BY <2>1, <2>4, SubSeqEmpty
    <3>2. QED
      BY <1>1, <3>1 DEF StartsWith
  <2>5. CASE k \in 1..Len(p)
    <3>1. /\ n \in Seq(Labels) /\ Len(n) = k /\ \A j \in 1..k : n[j] = p[j]
      BY <2>1, <2>5
    <3>2. QED
      BY <1>1, <2>5, <3>1 DEF StartsWith
  <2>6. QED
    BY <2>3, <2>4, <2>5
<1>3. ASSUME n \in Seq(Labels), StartsWith(p, n) PROVE n \in Prefixes(p)
  <2>1. Len(n) \in 0..Len(p)
    BY <1>1, <1>3, LenProperties DEF StartsWith
  <2>2. n = SubSeq(p, 1, Len(n))
    <3> DEFINE q == SubSeq(p, 1, Len(n))
    <3>1. CASE Len(n) = 0
      <4>1. q = <<>>
        BY <3>1, SubSeqEmpty
      <4>2. n = <<>>
        BY <1>3, <3>1, EmptySeq
      <4>3. QED
        BY <4>1, <4>2
    <3>2. CASE Len(n) # 0
      <4>1. Len(n) \in 1..Len(p)
        BY <2>1, <3>2
      <4>2. q \in Seq(Labels) /\ Len(q) = Len(n) /\ \A j \in 1..Len(n) : q[j] = p[j]
        BY <4>1
      <4>3. \A j \in 1..Len(n) : q[j] = n[j]
        BY <1>3, <4>2 DEF StartsWith
      <4> HIDE DEF q
      <4>4. n = q
        BY <1>3, <4>2, <4>3, SeqEqual
      <4>5. QED
        BY <4>4 DEF q
    <3>3. QED
      BY <3>1, <3>2
  <2>3. QED
    BY <2>1, <2>2 DEF Prefixes
<1>4. QED
  BY <1>2, <1>3

\* A node is the root or starts a route; what starts a route is a node.
LEMMA NodesAre ==
  ASSUME TrieInv, NEW n
  PROVE  n \in nodes <=> n = RootPath
                         \/ (n \in Seq(Labels) /\ \E p \in Registered : StartsWith(p, n))
<1>1. nodes = {RootPath} \cup UNION {Prefixes(p) : p \in Registered}
  BY DEF TrieInv, TrieHoldsRoutes
<1>2. \A p \in Registered : n \in Prefixes(p) <=> n \in Seq(Labels) /\ StartsWith(p, n)
  BY RegisteredAreNodes, PrefixesAre, Zenon
<1>3. QED
  BY <1>1, <1>2, Zenon

LEMMA NodesAreSeqs ==
  ASSUME TrieInv, NEW n \in nodes PROVE n \in Seq(Labels)
<1>1. <<>> \in Seq(Labels)
  BY EmptySeq
<1>2. QED
  BY <1>1, NodesAre, Zenon DEF RootPath

\* The route that goes on behind node n leads through a child of n.
LEMMA NextIsChild ==
  ASSUME TrieInv, NEW n \in nodes, NEW p \in Registered, StartsWith(p, n),
         NEW i \in Nat, Len(n) = i - 1, i <= Len(p)
  PROVE  /\ p[i] \in Children(n) /\ Append(n, p[i]) \in nodes
         /\ StartsWith(p, Append(n, p[i]))
<1>1. n \in Seq(Labels) /\ p \in Seq(Labels)
  BY NodesAreSeqs, RegisteredAreNodes, Zenon
<1>2. Len(p) \in Nat /\ Len(n) \in Nat
  BY <1>1, LenProperties
<1>3. i \in 1..Len(p)
  BY <1>2
<1>4. p[i] \in Labels
  BY <1>1, <1>3, ElementOfSeq
<1> DEFINE q == Append(n, p[i])
<1>5. /\ q \in Seq(Labels) /\ Len(q) = Len(n) + 1
      /\ \A j \in 1..Len(n) : q[j] = n[j]
      /\ q[Len(n) + 1] = p[i]
  BY <1>1, <1>4, AppendProperties
<1> HIDE DEF q
<1>6. Len(n) + 1 = i
  BY <1>2
<1>7. \A j \in 1..i : j \in 1..Len(n) \/ j = i
  BY <1>2
<1>8. StartsWith(p, q)
  <2>1. \A j \in 1..i : p[j] = q[j]
    BY <1>5, <1>6, <1>7, Zenon DEF StartsWith
  <2>2. Len(q) = i
    BY <1>5, <1>6, Zenon
  <2>3. QED
    BY <2>1, <2>2, Zenon DEF StartsWith
<1>9. q \in nodes
  BY <1>5, <1>8, NodesAre, Zenon
<1>10. QED
  BY <1>4, <1>8, <1>9, Zenon DEF q, Children

\* Extending a prefix by a label.
LEMMA StartsLonger ==
  ASSUME NEW n \in Seq(Labels), NEW l \in Labels, NEW p, NEW i \in Nat,
         Len(n) = i - 1, StartsWith(p, Append(n, l)), Len(p) \in Nat
  PROVE  StartsWith(p, n) /\ p[i] = l
<1> DEFINE q == Append(n, l)
<1>1. /\ q \in Seq(Labels) /\ Len(q) = Len(n) + 1
      /\ \A j \in 1..Len(n) : q[j] = n[j]
      /\ q[Len(n) + 1] = l
  BY AppendProperties
<1>2. StartsWith(p, q)
  OBVIOUS
<1> HIDE DEF q
<1>3. Len(n) \in Nat
  BY LenProperties
<1>4. Len(n) + 1 = i /\ i \in 1..i /\ \A j \in 1..Len(n) : j \in 1..i
  BY <1>3
<1>5. Len(q) = i /\ q[i] = l
  BY <1>1, <1>4, Zenon
<1>6. Len(n) <= Len(p)
  BY <1>2, <1>3, <1>4, <1>5 DEF StartsWith
<1>7. \A j \in 1..i : p[j] = q[j]
  BY <1>2, <1>5, Zenon DEF StartsWith
<1>8. QED
  BY <1>1, <1>4, <1>5, <1>6, <1>7, Zenon DEF StartsWith

-----------------------------------------------------------------------------
(* trie_search *)

\* Only a registered path has a handler, and it has one for some method.
LEMMA HandlersAre ==
  ASSUME SearchInv, NEW p
  PROVE  /\ \A m : Handler(p, m) # 0 => p \in Registered
         /\ p \in Registered => \E m \in Methods : Handler(p, m) # 0
<1> DEFINE ks(m) == {k \in DOMAIN routes : routes[k].path = p /\ m \in routes[k].methods}
<1>1. \A m : Handler(p, m) = IF ks(m) = {} THEN 0 ELSE Max(ks(m))
  BY Zenon DEF Handler
<1>2. ASSUME NEW m, Handler(p, m) # 0 PROVE p \in Registered
  <2>1. PICK k : k \in ks(m)
    BY <1>1, <1>2, Zenon
  <2>2. QED
    BY <2>1, Zenon DEF Registered
<1>3. ASSUME p \in Registered PROVE \E m \in Methods : Handler(p, m) # 0
  <2>1. PICK k \in DOMAIN routes : routes[k].path = p
    BY <1>3, Zenon DEF Registered
  <2>2. PICK m \in Methods : m \in routes[k].methods
    BY <2>1, Zenon DEF SearchInv
  <2>3. k \in ks(m)
    BY <2>1, <2>2, Zenon
  <2>4. Len(routes) \in Nat /\ DOMAIN routes = 1..Len(routes)
    BY LenProperties DEF SearchInv, TrieInv
  <2>5. ks(m) \subseteq 0..Len(routes) /\ \A x \in ks(m) : x # 0
    BY <2>4
  <2>6. Max(ks(m)) \in ks(m)
    <3> HIDE DEF ks
    <3>1. QED
      BY <2>3, <2>4, <2>5, MaxBounded, Zenon
  <2>7. Handler(p, m) = Max(ks(m))
    BY <1>1, <2>3, Zenon
  <2> HIDE DEF ks
  <2>8. QED
    BY <2>5, <2>6, <2>7, Zenon
<1>4. QED
  BY <1>2, <1>3, Zenon

\* The table of a node is empty unless the node ends a route.
LEMMA TablesAre ==
  ASSUME SearchInv, NEW n \in nodes
  PROVE  /\ \A m \in Methods : actions[n][m] = Handler(n, m)
         /\ n \in Registered => actions[n] # NoActions
         /\ n \notin Registered => actions[n] = NoActions
<1>1. \A m \in Methods : actions[n][m] = Handler(n, m)
  BY Zenon DEF SearchInv, TrieInv, TrieHoldsRoutes
<1>2. ASSUME n \in Registered PROVE actions[n] # NoActions
  <2>1. PICK m \in Methods : Handler(n, m) # 0
    BY <1>2, HandlersAre, Zenon
  <2>2. NoActions[m] = 0
    BY Zenon DEF NoActions
  <2>3. QED
    BY <1>1, <2>1, <2>2, Zenon
<1>3. ASSUME n \notin Registered PROVE actions[n] = NoActions
  <2>1. \A m \in Methods : actions[n][m] = 0
    BY <1>1, <1>3, HandlersAre, Zenon
  <2>2. PICK f : actions[n] = [m \in Methods |-> f[m]]
    BY Zenon DEF SearchInv
  <2>3. \A m \in Methods : f[m] = 0
    BY <2>1, <2>2, Zenon
  <2>4. QED
    BY <2>2, <2>3, Zenon DEF NoActions
<1>4. QED
  BY <1>1, <1>2, <1>3, Zenon

\* The routes below n that match the segments of path from i on.
Open(n, i, path) ==
  {p \in Registered : /\ Len(p) = Len(path) /\ StartsWith(p, n)
                      /\ \A j \in i..Len(path) : LabelMatches(p[j], path[j])}

\* The labels and segments from i on that agree with p, as parameters.
Bindings(p, i, path) == {<<p[j], path[j]>> : j \in i..Len(path)}

IsResult(r) == \E o, h, s : r = [out |-> o, handler |-> h, params |-> s]

\* What a result of the search from n and i on says of the routes below n.
Sound(r, n, i, path, m) ==
  /\ IsResult(r)
  /\ r.out = "found" <=> \E p \in Open(n, i, path) : Handler(p, m) # 0
  /\ r.out = "found" =>
       \E p \in Open(n, i, path) :
         /\ Handler(p, m) # 0 /\ r.handler = Handler(p, m)
         /\ r.params \subseteq Bindings(p, i, path)
         /\ \A j \in i..Len(path) : p[j] \in Params =>
              \E l \in i..Len(path) : p[l] = p[j] /\ <<p[j], path[l]>> \in r.params
  /\ Open(n, i, path) # {} => r.out # "not_found"

LEMMA ResultsAre ==
  ASSUME NEW o, NEW h
  PROVE  /\ IsResult(Result(o, h)) /\ Result(o, h).out = o
         /\ Result(o, h).handler = h /\ Result(o, h).params = {}
<1>1. Result(o, h) = [out |-> o, handler |-> h, params |-> {}]
  BY Zenon DEF Result
<1>2. IsResult(Result(o, h))
  BY <1>1, Zenon DEF IsResult
<1>3. QED
  BY <1>1, <1>2

LEMMA WithParamIs ==
  ASSUME NEW r, IsResult(r), NEW p, NEW c
  PROVE  /\ IsResult(WithParam(r, p, c))
         /\ WithParam(r, p, c).out = r.out
         /\ WithParam(r, p, c).handler = r.handler
         /\ \A v : v \in WithParam(r, p, c).params <=>
              v \in r.params \/ (v = <<p, c>> /\ \A kv \in r.params : kv[1] # p)
<1>1. PICK o, h, s : r = [out |-> o, handler |-> h, params |-> s]
  BY Zenon DEF IsResult
<1>2. CASE \E kv \in r.params : kv[1] = p
  BY <1>2, Zenon DEF WithParam
<1>3. CASE ~ \E kv \in r.params : kv[1] = p
  <2>1. WithParam(r, p, c) = [r EXCEPT !.params = r.params \cup {<<p, c>>}]
    BY <1>3, Zenon DEF WithParam
  <2>2. WithParam(r, p, c) = [out |-> o, handler |-> h, params |-> s \cup {<<p, c>>}]
    BY <1>1, <2>1
  <2>3. IsResult(WithParam(r, p, c))
    BY <2>2, Zenon DEF IsResult
  <2>4. /\ WithParam(r, p, c).out = r.out /\ WithParam(r, p, c).handler = r.handler
        /\ WithParam(r, p, c).params = r.params \cup {<<p, c>>}
    BY <1>1, <2>2
  <2>5. QED
    BY <1>3, <2>3, <2>4, Zenon
<1>4. QED
  BY <1>2, <1>3, Zenon

\* No route below n matches: every result but "found" says so.
LEMMA NoneOpen ==
  ASSUME NEW n, NEW i, NEW path, NEW m, Open(n, i, path) = {},
         NEW o, NEW h, o # "found"
  PROVE  Sound(Result(o, h), n, i, path, m)
BY ResultsAre, Zenon DEF Sound

\* The search goes on at the only child whose label may match.
LEMMA OpenBelow ==
  ASSUME TrieInv, NEW n \in nodes, NEW path, NEW i \in Nat, Len(path) \in Nat,
         Len(n) = i - 1, i <= Len(path),
         NEW l \in Labels, LabelMatches(l, path[i]),
         \A c \in Children(n) : LabelMatches(c, path[i]) => c = l
  PROVE  Open(n, i, path) = Open(Append(n, l), i + 1, path)
<1>1. n \in Seq(Labels) /\ Len(n) \in Nat
  BY NodesAreSeqs, LenProperties, Zenon
<1>2. /\ i \in i..Len(path)
      /\ \A j : j \in i..Len(path) <=> j = i \/ j \in i + 1 .. Len(path)
  OBVIOUS
<1>3. ASSUME NEW p \in Open(n, i, path) PROVE p \in Open(Append(n, l), i + 1, path)
  <2>1. /\ p \in Registered /\ Len(p) = Len(path) /\ StartsWith(p, n)
        /\ \A j \in i..Len(path) : LabelMatches(p[j], path[j])
    BY <1>3, Zenon DEF Open
  <2>2. p[i] \in Children(n) /\ StartsWith(p, Append(n, p[i]))
    BY <2>1, NextIsChild, Zenon
  <2>3. p[i] = l
    BY <1>2, <2>1, <2>2, Zenon
  <2>4. QED
    BY <1>2, <2>1, <2>2, <2>3, Zenon DEF Open
<1>4. ASSUME NEW p \in Open(Append(n, l), i + 1, path) PROVE p \in Open(n, i, path)
  <2>1. /\ p \in Registered /\ Len(p) = Len(path) /\ StartsWith(p, Append(n, l))
        /\ \A j \in i + 1 .. Len(path) : LabelMatches(p[j], path[j])
    BY <1>4, Zenon DEF Open
  <2>2. Len(p) \in Nat
    BY <2>1, Zenon
  <2>3. StartsWith(p, n) /\ p[i] = l
    BY <1>1, <2>1, <2>2, StartsLonger, Zenon
  <2>4. QED
    BY <1>2, <2>1, <2>3, Zenon DEF Open
<1>5. QED
  BY <1>3, <1>4, Zenon

\* No child of n may match: no route below n does.
LEMMA OpenEnds ==
  ASSUME TrieInv, NEW n \in nodes, NEW path, NEW i \in Nat, Len(path) \in Nat,
         Len(n) = i - 1, i <= Len(path),
         \A c \in Children(n) : ~ LabelMatches(c, path[i])
  PROVE  Open(n, i, path) = {}
<1>1. i \in i..Len(path)
  OBVIOUS
<1>2. ASSUME NEW p \in Open(n, i, path) PROVE FALSE
  <2>1. /\ p \in Registered /\ Len(p) = Len(path) /\ StartsWith(p, n)
        /\ LabelMatches(p[i], path[i])
    BY <1>1, <1>2, Zenon DEF Open
  <2>2. p[i] \in Children(n)
    BY <2>1, NextIsChild, Zenon
  <2>3. QED
    BY <2>1, <2>2, Zenon
<1>3. QED
  BY <1>2, Zenon

\* Behind the last segment.
LEMMA FinishSound ==
  ASSUME SearchInv, NEW n \in nodes, NEW path, NEW m \in Methods,
         Len(path) \in Nat, Len(n) = Len(path), NEW root
  PROVE  Sound(Finish(n, m, root), n, Len(path) + 1, path, m)
<1> DEFINE i == Len(path) + 1
           f == Finish(n, m, root)
<1>1. n \in Seq(Labels) /\ i..Len(path) = {}
  <2>1. n \in Seq(Labels)
    BY NodesAreSeqs, Zenon DEF SearchInv
  <2>2. QED
    BY <2>1
<1>2. \A p : p \in Open(n, i, path) <=> p \in Registered /\ p = n
  <2>1. ASSUME NEW p \in Registered PROVE Len(p) = Len(path) /\ StartsWith(p, n) <=> p = n
    <3>1. p \in Seq(Labels)
      BY RegisteredAreNodes, Zenon DEF SearchInv
    <3>2. p = n => StartsWith(p, n)
      BY DEF StartsWith
    <3>3. Len(p) = Len(path) /\ StartsWith(p, n) => p = n
      BY <1>1, <3>1, SeqEqual DEF StartsWith
    <3>4. QED
      BY <3>2, <3>3, Zenon
  <2>2. QED
    BY <1>1, <2>1, Zenon DEF Open
<1>3. /\ actions[n][m] = Handler(n, m)
      /\ n \in Registered => actions[n] # NoActions
      /\ n \notin Registered => actions[n] = NoActions
      /\ Handler(n, m) # 0 => n \in Registered
  BY TablesAre, HandlersAre, Zenon
<1>4. CASE root /\ actions[n] = NoActions
  <2>1. f = Result("not_found", 0)
    BY <1>4, Zenon DEF Finish, NotFound
  <2>2. Open(n, i, path) = {}
    BY <1>2, <1>3, <1>4, Zenon
  <2>3. "not_found" # "found"
    OBVIOUS
  <2> HIDE DEF i, f
  <2>4. Sound(f, n, i, path, m)
    BY <2>1, <2>2, <2>3, NoneOpen, Zenon
  <2>5. QED
    BY <2>4, Zenon DEF i, f
<1>5. CASE ~ (root /\ actions[n] = NoActions) /\ actions[n][m] = 0
  <2>1. f = Result("not_allowed", 0)
    BY <1>5, Zenon DEF Finish, NotAllowed
  <2> HIDE DEF i, f
  <2>2. IsResult(f) /\ f.out = "not_allowed"
    BY <2>1, ResultsAre, Zenon
  <2>3. "not_allowed" # "found" /\ "not_allowed" # "not_found"
    OBVIOUS
  <2>4. Sound(f, n, i, path, m)
    BY <1>2, <1>3, <1>5, <2>2, <2>3, Zenon DEF Sound
  <2>5. QED
    BY <2>4, Zenon DEF i, f
<1>6. CASE ~ (root /\ actions[n] = NoActions) /\ actions[n][m] # 0
  <2>1. f = Result("found", actions[n][m])
    BY <1>6, Zenon DEF Finish
  <2> HIDE DEF i, f
  <2>2. IsResult(f) /\ f.out = "found" /\ f.handler = Handler(n, m) /\ f.params = {}
    BY <1>3, <2>1, ResultsAre, Zenon
  <2>3. "not_found" # "found"
    OBVIOUS
  <2>4. Sound(f, n, i, path, m)
    BY <1>1, <1>2, <1>3, <1>6, <2>2, <2>3, Zenon DEF Sound
  <2>5. QED
    BY <2>4, Zenon DEF i, f
<1>7. QED
  BY <1>4, <1>5, <1>6, Zenon

LEMMA IndexSplit ==
  ASSUME NEW i \in Nat, NEW k \in Nat, i <= k
  PROVE  /\ i \in i..k
         /\ \A j : j \in i..k <=> j = i \/ j \in i + 1 .. k
OBVIOUS

\* A step to a child with a literal label.
LEMMA LiteralStep ==
  ASSUME TrieInv, NEW n \in nodes, NEW path, NEW m, NEW i \in Nat, Len(path) \in Nat,
         Len(n) = i - 1, i <= Len(path), NEW l \in Labels, l \notin Params,
         Open(n, i, path) = Open(Append(n, l), i + 1, path),
         NEW r, Sound(r, Append(n, l), i + 1, path, m)
  PROVE  Sound(r, n, i, path, m)
<1> DEFINE K == Len(path)
           q == Append(n, l)
<1>1. \A j : j \in i..K <=> j = i \/ j \in i + 1 .. K
  BY IndexSplit, Zenon
<1>2. \A p \in Open(n, i, path) : p[i] = l
  <2>1. ASSUME NEW p \in Open(n, i, path) PROVE p[i] = l
    <3>1. StartsWith(p, q) /\ Len(p) \in Nat
      BY <2>1, Zenon DEF Open
    <3>2. QED
      BY <3>1, NodesAreSeqs, StartsLonger, Zenon
  <2>2. QED
    BY <2>1, Zenon
<1>3. \A p : Bindings(p, i + 1, path) \subseteq Bindings(p, i, path)
  BY <1>1, Zenon DEF Bindings
<1> HIDE DEF q
<1>4. /\ IsResult(r)
      /\ r.out = "found" <=> \E p \in Open(n, i, path) : Handler(p, m) # 0
      /\ Open(n, i, path) # {} => r.out # "not_found"
  BY Zenon DEF Sound, q
<1>5. ASSUME r.out = "found"
      PROVE \E p \in Open(n, i, path) :
         /\ Handler(p, m) # 0 /\ r.handler = Handler(p, m)
         /\ r.params \subseteq Bindings(p, i, path)
         /\ \A j \in i..K : p[j] \in Params =>
              \E k \in i..K : p[k] = p[j] /\ <<p[j], path[k]>> \in r.params
  <2>1. PICK p \in Open(n, i, path) :
         /\ Handler(p, m) # 0 /\ r.handler = Handler(p, m)
         /\ r.params \subseteq Bindings(p, i + 1, path)
         /\ \A j \in i + 1 .. K : p[j] \in Params =>
              \E k \in i + 1 .. K : p[k] = p[j] /\ <<p[j], path[k]>> \in r.params
    BY <1>5, Zenon DEF Sound, q
  <2>2. r.params \subseteq Bindings(p, i, path)
    BY <2>1, <1>3, Zenon
  <2>3. ASSUME NEW j \in i..K, p[j] \in Params
        PROVE  \E k \in i..K : p[k] = p[j] /\ <<p[j], path[k]>> \in r.params
    <3>1. j # i
      BY <1>2, <2>3, Zenon
    <3>2. j \in i + 1 .. K
      BY <1>1, <3>1, Zenon
    <3>3. PICK k \in i + 1 .. K : p[k] = p[j] /\ <<p[j], path[k]>> \in r.params
      BY <2>1, <2>3, <3>2, Zenon
    <3>4. QED
      BY <1>1, <3>3, Zenon
  <2>4. QED
    BY <2>1, <2>2, <2>3, Zenon
<1>6. QED
  BY <1>4, <1>5, Zenon DEF Sound

\* A step to a child with a parameter as its label: the result gets its value,
\* unless a deeper parameter of the same name has one.
LEMMA ParamStep ==
  ASSUME TrieInv, NEW n \in nodes, NEW path, NEW m, NEW i \in Nat, Len(path) \in Nat,
         Len(n) = i - 1, i <= Len(path), NEW l \in Labels,
         Open(n, i, path) = Open(Append(n, l), i + 1, path),
         NEW r, Sound(r, Append(n, l), i + 1, path, m)
  PROVE  Sound(WithParam(r, l, path[i]), n, i, path, m)
<1> DEFINE K == Len(path)
           q == Append(n, l)
           w == WithParam(r, l, path[i])
<1>1. /\ i \in i..K
      /\ \A j : j \in i..K <=> j = i \/ j \in i + 1 .. K
  BY IndexSplit, Zenon
<1>2. \A p \in Open(n, i, path) : p[i] = l
  <2>1. ASSUME NEW p \in Open(n, i, path) PROVE p[i] = l
    <3>1. StartsWith(p, q) /\ Len(p) \in Nat
      BY <2>1, Zenon DEF Open
    <3>2. QED
      BY <3>1, NodesAreSeqs, StartsLonger, Zenon
  <2>2. QED
    BY <2>1, Zenon
<1>3. /\ IsResult(w) /\ w.out = r.out /\ w.handler = r.handler
      /\ \A v : v \in w.params <=>
           v \in r.params \/ (v = <<l, path[i]>> /\ \A kv \in r.params : kv[1] # l)
  <2>1. IsResult(r)
    BY Zenon DEF Sound
  <2>2. IsResult(w) /\ w.out = r.out /\ w.handler = r.handler
    BY <2>1, WithParamIs, Zenon
  <2>3. \A v : v \in w.params <=>
          v \in r.params \/ (v = <<l, path[i]>> /\ \A kv \in r.params : kv[1] # l)
    BY <2>1, WithParamIs
  <2> HIDE DEF w
  <2>4. QED
    BY <2>2, <2>3, Zenon
<1> HIDE DEF q, w
<1>4. /\ w.out = "found" <=> \E p \in Open(n, i, path) : Handler(p, m) # 0
      /\ Open(n, i, path) # {} => w.out # "not_found"
  BY <1>3, Zenon DEF Sound, q
<1>5. ASSUME w.out = "found"
      PROVE \E p \in Open(n, i, path) :
         /\ Handler(p, m) # 0 /\ w.handler = Handler(p, m)
         /\ w.params \subseteq Bindings(p, i, path)
         /\ \A j \in i..K : p[j] \in Params =>
              \E k \in i..K : p[k] = p[j] /\ <<p[j], path[k]>> \in w.params
  <2>0. r.out = "found"
    BY <1>3, <1>5, Zenon
  <2>1. PICK p \in Open(n, i, path) :
         /\ Handler(p, m) # 0 /\ r.handler = Handler(p, m)
         /\ r.params \subseteq Bindings(p, i + 1, path)
         /\ \A j \in i + 1 .. K : p[j] \in Params =>
              \E k \in i + 1 .. K : p[k] = p[j] /\ <<p[j], path[k]>> \in r.params
    BY <2>0, Zenon DEF Sound, q
  <2>2. p[i] = l
    BY <1>2, <2>1, Zenon
  <2>3. w.params \subseteq Bindings(p, i, path)
    <3>1. ASSUME NEW v \in r.params PROVE v \in Bindings(p, i, path)
      <4>1. PICK j \in i + 1 .. K : v = <<p[j], path[j]>>
        BY <2>1, <3>1, Zenon DEF Bindings
      <4>2. QED
        BY <1>1, <4>1, Zenon DEF Bindings
    <3>2. <<l, path[i]>> \in Bindings(p, i, path)
      BY <1>1, <2>2, Zenon DEF Bindings
    <3>3. QED
      BY <1>3, <3>1, <3>2, Zenon
  <2>4. ASSUME NEW j \in i..K, p[j] \in Params
        PROVE  \E k \in i..K : p[k] = p[j] /\ <<p[j], path[k]>> \in w.params
    <3>1. CASE j \in i + 1 .. K
      <4>1. PICK k \in i + 1 .. K : p[k] = p[j] /\ <<p[j], path[k]>> \in r.params
        BY <2>1, <2>4, <3>1, Zenon
      <4>2. QED
        BY <1>1, <1>3, <4>1, Zenon
    <3>2. CASE j = i /\ \A kv \in r.params : kv[1] # l
      BY <1>1, <1>3, <2>2, <3>2, Zenon
    <3>3. ASSUME j = i, NEW kv \in r.params, kv[1] = l
          PROVE  \E k \in i..K : p[k] = p[j] /\ <<p[j], path[k]>> \in w.params
      <4>1. PICK k \in i + 1 .. K : kv = <<p[k], path[k]>>
        BY <2>1, Zenon DEF Bindings
      <4>2. p[k] = l
        BY <3>3, <4>1
      <4>3. <<p[j], path[k]>> \in w.params
        BY <1>3, <2>2, <3>3, <4>1, <4>2, Zenon
      <4>4. QED
        BY <1>1, <2>2, <3>3, <4>2, <4>3, Zenon
    <3>4. QED
      BY <1>1, <3>1, <3>2, <3>3, Zenon
  <2>5. Handler(p, m) # 0 /\ w.handler = Handler(p, m)
    BY <1>3, <2>1, Zenon
  <2>6. QED
    BY <2>3, <2>4, <2>5, Zenon
<1>6. Sound(w, n, i, path, m)
  BY <1>3, <1>4, <1>5, Zenon DEF Sound
<1>7. QED
  BY <1>6, Zenon DEF w

\* The label of the last node fits the segment it was reached by.
Arrived(n, path) == Len(n) # 0 => LabelMatches(n[Len(n)], path[Len(n)])

\* No leaf absorbs a segment of a path without repeats.
LEMMA LeafAbsorbsNone ==
  ASSUME TrieInv, NEW n \in nodes, NEW path \in Seq(Segments), NoRepeats(path),
         NEW i \in Nat, Len(n) = i - 1, i <= Len(path), Arrived(n, path)
  PROVE  ~ LeafAbsorbs(n, path[i])
<1> SUFFICES ASSUME n # RootPath, Last(n) = path[i] PROVE FALSE
  BY Zenon DEF LeafAbsorbs
<1>1. n \in Seq(Labels) /\ Len(n) \in Nat /\ Len(path) \in Nat
  BY NodesAreSeqs, LenProperties, Zenon
<1>2. Len(n) # 0
  BY <1>1, EmptySeq DEF RootPath
<1>3. /\ i - 1 \in 1 .. Len(path) - 1 /\ i \in 1..Len(path)
      /\ i - 1 + 1 = i
  BY <1>1, <1>2
<1>4. n[i - 1] = path[i]
  BY Zenon DEF Last
<1>5. path[i - 1] # path[i]
  BY <1>3, Zenon DEF NoRepeats
<1>6. path[i] \in Segments
  BY <1>3, ElementOfSeq
<1>7. path[i] \notin Params
  BY <1>6, LabelsAssumption, Zenon DEF Segments, Labels
<1>8. LabelMatches(n[i - 1], path[i - 1])
  BY <1>2, Zenon DEF Arrived
<1>9. QED
  BY <1>4, <1>5, <1>7, <1>8, Zenon DEF LabelMatches

LEMMA AppendArrives ==
  ASSUME NEW n \in Seq(Labels), NEW l \in Labels, NEW path, NEW i \in Nat,
         Len(n) = i - 1, LabelMatches(l, path[i])
  PROVE  Len(Append(n, l)) = i /\ Arrived(Append(n, l), path)
<1> DEFINE q == Append(n, l)
<1>1. Len(q) = Len(n) + 1 /\ q[Len(n) + 1] = l /\ Len(n) \in Nat
  BY AppendProperties, LenProperties
<1> HIDE DEF q
<1>2. Len(n) + 1 = i
  BY <1>1
<1>3. Len(q) = i /\ q[i] = l
  BY <1>1, <1>2, Zenon
<1>4. QED
  BY <1>3, Zenon DEF Arrived, q

\* One turn of the loop: what holds of the results from the children on holds of
\* those from the node on.
LEMMA TurnSound ==
  ASSUME SearchInv, Unambiguous, NEW path \in Seq(Segments), NoRepeats(path),
         NEW m \in Methods, NEW n \in nodes,
         NEW i \in Nat, Len(n) = i - 1, i <= Len(path), 1 <= i, Arrived(n, path),
         NEW rest, NEW root,
         \A l \in Labels : Append(n, l) \in nodes /\ LabelMatches(l, path[i]) =>
           \A r \in rest[Append(n, l)] : Sound(r, Append(n, l), i + 1, path, m),
         NEW r \in SearchTurn(n, i, path, root, m, rest)
  PROVE  Sound(r, n, i, path, m)
<1> DEFINE c == path[i]
<1>1. /\ TrieInv /\ Len(path) \in Nat /\ n \in Seq(Labels)
      /\ c \in Segments /\ c \notin Params
  <2>1. TrieInv /\ Len(path) \in Nat
    BY LenProperties DEF SearchInv
  <2>2. i \in 1..Len(path)
    BY <2>1
  <2>3. c \in Segments
    BY <2>2, ElementOfSeq
  <2>4. QED
    BY <2>1, <2>3, NodesAreSeqs, LabelsAssumption, Zenon DEF Segments, Labels
<1>2. ~ (i > Len(path))
  BY <1>1
<1>3. CASE Append(n, c) \in nodes
  <2>1. r \in rest[Append(n, c)]
    BY <1>2, <1>3, Zenon DEF SearchTurn
  <2>2. c \in Labels
    <3>1. Append(n, c) \in Seq(Labels) /\ Len(n) \in Nat
      BY <1>1, <1>3, NodesAreSeqs, LenProperties, Zenon
    <3>2. Append(n, c) = [j \in 1 .. Len(n) + 1 |-> IF j = Len(n) + 1 THEN c ELSE n[j]]
      BY <1>1
    <3>3. Len(n) + 1 \in 1 .. Len(n) + 1
      BY <3>1
    <3>4. Append(n, c)[Len(n) + 1] = c /\ DOMAIN Append(n, c) = 1 .. Len(n) + 1
      BY <3>2, <3>3, Zenon
    <3>5. QED
      BY <3>1, <3>3, <3>4, LenProperties, ElementOfSeq, Zenon
  <2>3. LabelMatches(c, c)
    BY Zenon DEF LabelMatches
  <2>4. \A d \in Children(n) : LabelMatches(d, c) => d = c
    <3>1. c \in Children(n)
      BY <1>3, <2>2, Zenon DEF Children
    <3>2. ASSUME NEW d \in Children(n), d \in Params, c \in Pattern[d] PROVE FALSE
      BY <3>1, <3>2, Zenon DEF Unambiguous, ParamChildren
    <3>3. QED
      BY <3>2, Zenon DEF LabelMatches
  <2>5. Open(n, i, path) = Open(Append(n, c), i + 1, path)
    BY <1>1, <2>2, <2>3, <2>4, OpenBelow, Zenon
  <2>6. Sound(r, Append(n, c), i + 1, path, m)
    BY <1>3, <2>1, <2>2, <2>3, Zenon
  <2>7. QED
    BY <1>1, <2>2, <2>5, <2>6, LiteralStep, Zenon
<1>4. CASE Append(n, c) \notin nodes /\ ParamChildren(n) = {}
  <2>1. \A d \in Children(n) : ~ LabelMatches(d, c)
    BY <1>4, Zenon DEF LabelMatches, Children, ParamChildren
  <2>2. Open(n, i, path) = {}
    BY <1>1, <2>1, OpenEnds, Zenon
  <2>3. ~ LeafAbsorbs(n, c)
    BY <1>1, LeafAbsorbsNone, Zenon
  <2>4. r \in {NotFound, Undefined}
    BY <1>2, <1>4, <2>3, Zenon DEF SearchTurn
  <2>5. "not_found" # "found" /\ "undefined" # "found"
    OBVIOUS
  <2>6. QED
    BY <2>2, <2>4, <2>5, NoneOpen, Zenon DEF NotFound, Undefined
<1>5. CASE Append(n, c) \notin nodes /\ ParamChildren(n) # {}
  <2>1. PICK l \in ParamChildren(n) :
          r \in IF l \in BadParams THEN {Result("error", 0)}
                ELSE IF c \notin Pattern[l] THEN {NotFound}
                ELSE {WithParam(s, l, c) : s \in rest[Append(n, l)]}
    <3>1. Children(n) # {}
      BY <1>5, Zenon DEF ParamChildren
    <3>2. QED
      BY <1>2, <1>5, <3>1, Zenon DEF SearchTurn
  <2>2. l \in Labels /\ l \in Params /\ Append(n, l) \in nodes
    BY <2>1, Zenon DEF ParamChildren, Children
  <2>3. l \notin BadParams
    BY <2>1, Zenon DEF Unambiguous
  <2>4. \A d \in Children(n) : LabelMatches(d, c) => d = l /\ c \in Pattern[l]
    <3> SUFFICES ASSUME NEW d \in Children(n), LabelMatches(d, c)
                 PROVE  d = l /\ c \in Pattern[l]
      BY Zenon
    <3>1. d # c
      BY <1>5, Zenon DEF Children
    <3>2. d \in Params /\ c \in Pattern[d]
      BY <3>1, Zenon DEF LabelMatches
    <3>3. d = l
      BY <2>1, <3>2, Zenon DEF Unambiguous, ParamChildren
    <3>4. QED
      BY <3>2, <3>3, Zenon
  <2>5. CASE c \notin Pattern[l]
    <3>1. r = NotFound
      BY <2>1, <2>3, <2>5, Zenon
    <3>2. Open(n, i, path) = {}
      <4>1. \A d \in Children(n) : ~ LabelMatches(d, c)
        BY <2>4, <2>5, Zenon
      <4>2. QED
        BY <1>1, <4>1, OpenEnds, Zenon
    <3>3. "not_found" # "found"
      OBVIOUS
    <3>4. QED
      BY <3>1, <3>2, <3>3, NoneOpen, Zenon DEF NotFound
  <2>6. CASE c \in Pattern[l]
    <3>1. PICK s \in rest[Append(n, l)] : r = WithParam(s, l, c)
      BY <2>1, <2>3, <2>6, Zenon
    <3>2. LabelMatches(l, c)
      BY <2>2, <2>3, <2>6, Zenon DEF LabelMatches
    <3>3. Open(n, i, path) = Open(Append(n, l), i + 1, path)
      <4>1. \A d \in Children(n) : LabelMatches(d, c) => d = l
        BY <2>4, Zenon
      <4>2. QED
        BY <1>1, <2>2, <3>2, <4>1, OpenBelow, Zenon
    <3>4. Sound(s, Append(n, l), i + 1, path, m)
      BY <2>2, <3>1, <3>2, Zenon
    <3>5. Sound(WithParam(s, l, c), n, i, path, m)
      BY <1>1, <2>2, <3>3, <3>4, ParamStep, Zenon
    <3>6. QED
      BY <3>1, <3>5, Zenon
  <2>7. QED
    BY <2>5, <2>6, Zenon
<1>6. QED
  BY <1>3, <1>4, <1>5, Zenon

\* The recursive function of trie_search exists: turn by turn from the last
\* segment to the first.
LEMMA WalkIs ==
  ASSUME NEW req, Len(SearchPath(req)) \in Nat
  PROVE  \E w : /\ trie_search(req) = w[1][RootPath]
                /\ \A i \in 1 .. Len(SearchPath(req)) + 1, n \in nodes :
                     w[i][n] = SearchTurn(n, i, SearchPath(req), IsRoot(req), req.method, w[i + 1])
<1> DEFINE path == SearchPath(req)
           L == Len(path)
           Row(i, x) == [n \in nodes |-> SearchTurn(n, i, path, IsRoot(req), req.method, x)]
           Turns(f) == [i \in 1 .. L + 1 |-> Row(i, f[i + 1])]
           walk == CHOOSE f : f = Turns(f)
           From(j) == L + 1 - j .. L + 1
           S == {j \in 0..L : \E g : \A i \in From(j) : g[i] = Row(i, g[i + 1])}
<1>1. trie_search(req) = walk[1][RootPath]
  BY DEF trie_search
<1>2. L \in Nat
  OBVIOUS
<1>3. \A x, y : Row(L + 1, x) = Row(L + 1, y)
  <2>1. L + 1 > L
    BY <1>2
  <2>2. \A n, x : SearchTurn(n, L + 1, path, IsRoot(req), req.method, x) = {Finish(n, req.method, IsRoot(req))}
    BY <2>1, Zenon DEF SearchTurn
  <2>3. QED
    BY <2>2, Zenon
<1> HIDE DEF L, Row
<1>4. 0 \in S
  <2> DEFINE g == [i \in 1 .. L + 1 |-> Row(L + 1, {})]
  <2>1. From(0) = {L + 1} /\ L + 1 \in 1 .. L + 1 /\ 0 \in 0..L
    BY <1>2
  <2>2. g[L + 1] = Row(L + 1, g[L + 1 + 1])
    BY <1>3, <2>1, Zenon
  <2> HIDE DEF g
  <2>3. \A i \in From(0) : g[i] = Row(i, g[i + 1])
    BY <2>1, <2>2, Zenon
  <2>4. QED
    BY <2>1, <2>3, Zenon
<1>5. ASSUME NEW j \in 0 .. L - 1, j \in S PROVE j + 1 \in S
  <2>1. PICK g : \A i \in From(j) : g[i] = Row(i, g[i + 1])
    BY <1>5, Zenon
  <2> DEFINE k == L - j
             h == [i \in 1 .. L + 1 |-> IF i = k THEN Row(i, g[i + 1]) ELSE g[i]]
  <2>2. /\ k \in 1 .. L + 1 /\ k + 1 \in 1 .. L + 1 /\ k + 1 # k /\ j + 1 \in 0..L
        /\ \A i \in From(j + 1) : i # k => i \in From(j) /\ i \in 1 .. L + 1
        /\ \A i \in From(j) : i # L + 1 => i + 1 \in 1 .. L + 1 /\ i + 1 # k
    BY <1>2
  <2> HIDE DEF k
  <2>3. h[k] = Row(k, h[k + 1])
    <3>1. h[k + 1] = g[k + 1] /\ h[k] = Row(k, g[k + 1])
      BY <2>2, Zenon
    <3> HIDE DEF h
    <3>2. QED
      BY <3>1, Zenon
  <2>4. ASSUME NEW i \in From(j + 1), i # k PROVE h[i] = Row(i, h[i + 1])
    <3>1. i \in From(j) /\ h[i] = g[i] /\ g[i] = Row(i, g[i + 1])
      BY <2>1, <2>2, <2>4, Zenon
    <3>2. CASE i = L + 1
      <4> HIDE DEF h
      <4>1. QED
        BY <1>3, <3>1, <3>2, Zenon
    <3>3. CASE i # L + 1
      <4>1. h[i + 1] = g[i + 1]
        BY <2>2, <3>1, <3>3, Zenon
      <4> HIDE DEF h
      <4>2. QED
        BY <3>1, <4>1, Zenon
    <3>4. QED
      BY <3>2, <3>3
  <2> HIDE DEF h
  <2>5. \A i \in From(j + 1) : h[i] = Row(i, h[i + 1])
    BY <2>3, <2>4, Zenon
  <2>6. QED
    BY <2>2, <2>5, Zenon
<1>6. \E g : g = Turns(g)
  <2>1. L \in S
    <3> HIDE DEF S
    <3>1. 0..L \subseteq S
      BY <1>2, <1>4, <1>5, NatInductionIn, Zenon
    <3>2. L \in 0..L
      BY <1>2
    <3>3. QED
      BY <3>1, <3>2
  <2>2. PICK g : \A i \in From(L) : g[i] = Row(i, g[i + 1])
    BY <2>1, Zenon
  <2>3. From(L) = 1 .. L + 1 /\ \A i \in 1 .. L + 1 : i # L + 1 => i + 1 \in 1 .. L + 1
    BY <1>2
  <2> DEFINE h == [i \in 1 .. L + 1 |-> g[i]]
  <2>4. ASSUME NEW i \in 1 .. L + 1 PROVE g[i] = Row(i, h[i + 1])
    <3>1. CASE i = L + 1
      <4> HIDE DEF h
      <4>1. QED
        BY <1>3, <2>2, <2>3, <3>1, Zenon
    <3>2. CASE i # L + 1
      <4>1. h[i + 1] = g[i + 1]
        BY <2>3, <3>2, Zenon
      <4> HIDE DEF h
      <4>2. QED
        BY <2>2, <2>3, <4>1, Zenon
    <3>3. QED
      BY <3>1, <3>2
  <2>5. h = Turns(h)
    <3> DEFINE d(i) == Row(i, h[i + 1])
    <3>1. [i \in 1 .. L + 1 |-> g[i]] = [i \in 1 .. L + 1 |-> d(i)]
      <4> HIDE DEF h
      <4>1. QED
        BY <2>4, Zenon
    <3>2. QED
      BY <3>1, Zenon
  <2>6. QED
    BY <2>5, Zenon
<1>7. walk = Turns(walk)
  BY <1>6, Zenon
<1> HIDE DEF walk
<1>8. \A i \in 1 .. L + 1 : walk[i] = Row(i, walk[i + 1])
  BY <1>7, Zenon
<1>9. \A i \in 1 .. L + 1, n \in nodes :
        walk[i][n] = SearchTurn(n, i, path, IsRoot(req), req.method, walk[i + 1])
  BY <1>8, Zenon DEF Row
<1>10. QED
  BY <1>1, <1>9, Zenon DEF L

LEMMA SearchedSegments ==
  ASSUME NEW req \in Searches
  PROVE  SearchPath(req) \in Seq(Segments) /\ req.method \in Methods
<1>1. /\ req.path \in UNION {[1..k -> Literals] : k \in 0 .. MaxDepth + 1}
      /\ req.method \in Methods
  BY DEF Searches
<1>2. PICK k \in 0 .. MaxDepth + 1 : req.path \in [1..k -> Literals]
  BY <1>1, Zenon
<1>3. k \in Nat
  BY BoundsAssumption
<1>4. req.path \in [1..k -> Segments]
  BY <1>2 DEF Segments
<1>5. req.path \in Seq(Segments)
  BY <1>3, <1>4, FunctionIsSeq
<1>6. <<Junk>> \in Seq(Segments)
  BY DEF Segments
<1>7. \A n : [req.path EXCEPT ![n] = Junk] \in [1..k -> Segments]
  BY <1>4 DEF Segments
<1>8. \A n : [req.path EXCEPT ![n] = Junk] \in Seq(Segments)
  BY <1>3, <1>7, FunctionIsSeq
<1>9. QED
  BY <1>1, <1>5, <1>6, <1>8, Zenon DEF SearchPath

\* Every result of the search from the root is sound: by induction over the
\* segments, from the last to the first.
LEMMA SearchSound ==
  ASSUME SearchInv, Unambiguous, NEW req \in Searches, NoRepeats(SearchPath(req)),
         NEW r \in trie_search(req)
  PROVE  Sound(r, RootPath, 1, SearchPath(req), req.method)
<1> DEFINE path == SearchPath(req)
           m == req.method
           L == Len(path)
<1>1. path \in Seq(Segments) /\ m \in Methods /\ L \in Nat
  BY SearchedSegments, LenProperties
<1>2. PICK w : /\ trie_search(req) = w[1][RootPath]
               /\ \A i \in 1 .. L + 1, n \in nodes :
                    w[i][n] = SearchTurn(n, i, path, IsRoot(req), m, w[i + 1])
  BY <1>1, WalkIs, Zenon
<1> DEFINE Claim(n, i) == \A s \in w[i][n] : Sound(s, n, i, path, m)
           S == {j \in 0..L : \A n \in nodes :
                   Len(n) = L - j /\ Arrived(n, path) => Claim(n, L + 1 - j)}
<1>a. NoRepeats(path)
  OBVIOUS
<1> HIDE DEF path, m, L
<1>3. 0 \in S
  <2>1. ASSUME NEW n \in nodes, Len(n) = L - 0 PROVE Claim(n, L + 1 - 0)
    <3>1. L + 1 - 0 = L + 1 /\ L - 0 = L /\ L + 1 \in 1 .. L + 1 /\ L + 1 > L
      BY <1>1
    <3>2. w[L + 1][n] = {Finish(n, m, IsRoot(req))}
      BY <1>2, <3>1, Zenon DEF SearchTurn, L
    <3>3. Sound(Finish(n, m, IsRoot(req)), n, L + 1, path, m)
      BY <1>1, <2>1, <3>1, FinishSound, Zenon DEF L
    <3>4. QED
      BY <3>1, <3>2, <3>3, Zenon
  <2>2. 0 \in 0..L
    BY <1>1
  <2> HIDE DEF Claim
  <2>3. QED
    BY <2>1, <2>2, Zenon
<1>4. ASSUME NEW j \in 0 .. L - 1, j \in S PROVE j + 1 \in S
  <2> DEFINE i == L - j
  <2>1. /\ i \in Nat /\ 1 <= i /\ i <= L /\ i \in 1 .. L + 1 /\ j + 1 \in 0..L
        /\ L + 1 - (j + 1) = i /\ L + 1 - j = i + 1 /\ L - (j + 1) = i - 1
    BY <1>1
  <2>2. \A n \in nodes : Len(n) = i /\ Arrived(n, path) => Claim(n, i + 1)
    <3> HIDE DEF Claim
    <3>1. \A n \in nodes : Len(n) = L - j /\ Arrived(n, path) => Claim(n, L + 1 - j)
      BY <1>4, Zenon
    <3>2. QED
      BY <2>1, <3>1, Zenon
  <2> HIDE DEF i
  <2>3. ASSUME NEW n \in nodes, Len(n) = i - 1, Arrived(n, path) PROVE Claim(n, i)
    <3>1. n \in Seq(Labels)
      BY NodesAreSeqs, Zenon DEF SearchInv
    <3>2. ASSUME NEW l \in Labels, Append(n, l) \in nodes, LabelMatches(l, path[i]),
                 NEW s \in w[i + 1][Append(n, l)]
          PROVE  Sound(s, Append(n, l), i + 1, path, m)
      <4>1. Len(Append(n, l)) = i /\ Arrived(Append(n, l), path)
        BY <2>1, <2>3, <3>1, <3>2, AppendArrives, Zenon
      <4>2. QED
        BY <2>2, <3>2, <4>1, Zenon
    <3>3. \A l \in Labels : Append(n, l) \in nodes /\ LabelMatches(l, path[i]) =>
            \A s \in w[i + 1][Append(n, l)] : Sound(s, Append(n, l), i + 1, path, m)
      BY <3>2, Zenon
    <3>4. w[i][n] = SearchTurn(n, i, path, IsRoot(req), m, w[i + 1])
      BY <1>2, <2>1, Zenon
    <3>5. \A s \in SearchTurn(n, i, path, IsRoot(req), m, w[i + 1]) : Sound(s, n, i, path, m)
      BY <1>1, <1>a, <2>1, <2>3, <3>3, TurnSound, Zenon DEF L
    <3>6. QED
      BY <3>4, <3>5, Zenon
  <2> HIDE DEF Claim
  <2>4. QED
    BY <2>1, <2>3, Zenon
<1>5. L \in S
  <2> HIDE DEF S
  <2>1. 0..L \subseteq S
    BY <1>1, <1>3, <1>4, NatInductionIn, Zenon
  <2>2. L \in 0..L
    BY <1>1
  <2>3. QED
    BY <2>1, <2>2
<1>6. L - L = 0 /\ L + 1 - L = 1
  BY <1>1
<1>7. RootPath \in nodes /\ Len(RootPath) = 0 /\ Arrived(RootPath, path)
  <2>1. RootPath \in nodes
    BY NodesAre, Zenon DEF SearchInv
  <2>2. Len(RootPath) = 0
    BY DEF RootPath
  <2>3. QED
    BY <2>1, <2>2, Zenon DEF Arrived
<1>8. Claim(RootPath, 1)
  <2> HIDE DEF Claim
  <2>1. QED
    BY <1>5, <1>6, <1>7, Zenon
<1>9. QED
  BY <1>2, <1>8, Zenon DEF path, m

LEMMA OpenAtRoot ==
  ASSUME NEW path \in Seq(Segments)
  PROVE  Open(RootPath, 1, path) = Matching(path)
<1>1. DOMAIN path = 1..Len(path) /\ Len(path) \in Nat
  BY LenProperties
<1>2. ASSUME NEW p, Len(p) = Len(path) PROVE StartsWith(p, RootPath)
  BY <1>1, <1>2 DEF StartsWith, RootPath
<1>3. \A p : p \in Open(RootPath, 1, path) <=> p \in Matching(path)
  BY <1>1, <1>2, Zenon DEF Open, Matching, PathMatches
<1>4. QED
  BY <1>3, Zenon

LEMMA SearchIsRight == SearchInv => SearchMeetsRoutes
<1> SUFFICES ASSUME SearchInv, Unambiguous, NEW req \in Searches, ~req.odd,
                    NoRepeats(SearchPath(req)), NEW r \in trie_search(req)
             PROVE  LET path == SearchPath(req)
                        served == {p \in Matching(path) : Handler(p, req.method) # 0}
                    IN  /\ r.out = "found" <=> served # {}
                        /\ r.out = "found" =>
                             \E p \in served :
                               /\ r.handler = Handler(p, req.method)
                               /\ \A i \in DOMAIN p : p[i] \in Params =>
                                    \E j \in DOMAIN p :
                                      p[j] = p[i] /\ <<p[i], path[j]>> \in r.params
                        /\ Matching(path) # {} => r.out # "not_found"
                        /\ path = RootPath /\ Matching(path) = {} => r = NotFound
  BY Zenon DEF SearchMeetsRoutes
<1> DEFINE path == SearchPath(req)
           m == req.method
           served == {p \in Matching(path) : Handler(p, m) # 0}
<1>1. path \in Seq(Segments) /\ m \in Methods /\ Len(path) \in Nat
  BY SearchedSegments, LenProperties
<1>2. Sound(r, RootPath, 1, path, m)
  BY SearchSound, Zenon
<1>3. Open(RootPath, 1, path) = Matching(path)
  BY <1>1, OpenAtRoot, Zenon
<1>4. \A p \in Matching(path) : DOMAIN p = 1..Len(path)
  <2>1. ASSUME NEW p \in Matching(path) PROVE DOMAIN p = 1..Len(path)
    <3>1. p \in Registered /\ Len(p) = Len(path)
      BY Zenon DEF Matching, PathMatches
    <3>2. p \in Seq(Labels)
      BY <3>1, RegisteredAreNodes, Zenon DEF SearchInv
    <3>3. QED
      BY <3>1, <3>2, LenProperties
  <2>2. QED
    BY <2>1, Zenon
<1>5. ASSUME path = RootPath, Matching(path) = {} PROVE r = NotFound
  <2>1. Len(path) = 0
    BY <1>5 DEF RootPath
  <2>2. PICK w : /\ trie_search(req) = w[1][RootPath]
                 /\ \A i \in 1 .. Len(path) + 1, n \in nodes :
                      w[i][n] = SearchTurn(n, i, path, IsRoot(req), m, w[i + 1])
    BY <1>1, WalkIs, Zenon
  <2>3. RootPath \in nodes
    BY NodesAre, Zenon DEF SearchInv
  <2>4. 1 \in 1 .. Len(path) + 1 /\ 1 > Len(path)
    BY <2>1
  <2>5. r = Finish(RootPath, m, IsRoot(req))
    <3>1. w[1][RootPath] = SearchTurn(RootPath, 1, path, IsRoot(req), m, w[1 + 1])
      BY <2>2, <2>3, <2>4, Zenon
    <3>2. w[1][RootPath] = {Finish(RootPath, m, IsRoot(req))}
      BY <2>4, <3>1, Zenon DEF SearchTurn
    <3>3. r \in w[1][RootPath]
      BY <2>2, Zenon
    <3> HIDE DEF path, m
    <3>4. QED
      BY <3>2, <3>3, Zenon
  <2>6. RootPath \notin Registered
    <3>1. 1..Len(path) = {}
      BY <2>1
    <3>2. DOMAIN path = {}
      BY <1>1, <3>1, LenProperties, Zenon
    <3>3. PathMatches(RootPath, path)
      BY <1>5, <3>2, Zenon DEF PathMatches
    <3>4. QED
      BY <1>5, <3>3, Zenon DEF Matching
  <2>7. actions[RootPath] = NoActions
    BY <2>3, <2>6, TablesAre, Zenon
  <2>8. QED
    BY <1>5, <2>5, <2>7, Zenon DEF Finish, IsRoot
<1> HIDE DEF path, m
<1>6. /\ r.out = "found" <=> served # {}
      /\ Matching(path) # {} => r.out # "not_found"
  BY <1>2, <1>3, Zenon DEF Sound
<1>7. ASSUME r.out = "found"
      PROVE  \E p \in served :
               /\ r.handler = Handler(p, m)
               /\ \A i \in DOMAIN p : p[i] \in Params =>
                    \E j \in DOMAIN p : p[j] = p[i] /\ <<p[i], path[j]>> \in r.params
  <2>1. PICK p \in Open(RootPath, 1, path) :
         /\ Handler(p, m) # 0 /\ r.handler = Handler(p, m)
         /\ r.params \subseteq Bindings(p, 1, path)
         /\ \A j \in 1..Len(path) : p[j] \in Params =>
              \E l \in 1..Len(path) : p[l] = p[j] /\ <<p[j], path[l]>> \in r.params
    BY <1>2, <1>7, Zenon DEF Sound
  <2>2. DOMAIN p = 1..Len(path) /\ p \in served
    BY <1>3, <1>4, <2>1, Zenon
  <2>3. \A i \in DOMAIN p : p[i] \in Params =>
          \E j \in DOMAIN p : p[j] = p[i] /\ <<p[i], path[j]>> \in r.params
    BY <2>1, <2>2, Zenon
  <2> HIDE DEF served
  <2>4. QED
    BY <2>1, <2>2, <2>3, Zenon
<1>8. QED
  BY <1>5, <1>6, <1>7, Zenon DEF path, m

LEMMA InsertKeepsSearch ==
  ASSUME SearchInv, NEW path \in Seq(Labels), NEW ms \in (SUBSET Methods) \ {{}},
         trie_insert(path, ms), TrieInv'
  PROVE  SearchInv'
<1> DEFINE rec == [path |-> path, methods |-> ms]
           N == Len(routes)
<1>1. routes \in Seq(RouteRec) /\ N \in Nat /\ DOMAIN routes = 1..N
  BY LenProperties DEF SearchInv, TrieInv
<1>2. rec \in RouteRec /\ rec.methods = ms
  BY DEF RouteRec
<1>3. routes' = Append(routes, rec)
  BY DEF trie_insert
<1> HIDE DEF rec
<1>4. /\ DOMAIN routes' = 1 .. N + 1 /\ routes'[N + 1] = rec
      /\ \A k \in 1..N : routes'[k] = routes[k]
  BY <1>1, <1>2, <1>3, AppendProperties
<1>5. \A k : k \in 1 .. N + 1 <=> k \in 1..N \/ k = N + 1
  BY <1>1
<1>6. \E m \in Methods : m \in ms
  <2>1. ms \subseteq Methods /\ ms # {}
    OBVIOUS
  <2>2. QED
    BY <2>1
<1>7. \A k \in DOMAIN routes' : \E m \in Methods : m \in routes'[k].methods
  <2>1. ASSUME NEW k \in 1..N PROVE \E m \in Methods : m \in routes'[k].methods
    <3>1. \E m \in Methods : m \in routes[k].methods
      BY <1>1, Zenon DEF SearchInv
    <3>2. QED
      BY <1>4, <3>1, Zenon
  <2>2. \E m \in Methods : m \in routes'[N + 1].methods
    BY <1>2, <1>4, <1>6, Zenon
  <2>3. QED
    BY <1>4, <1>5, <2>1, <2>2, Zenon
<1>8. \A n \in nodes' : \E f : actions'[n] = [m \in Methods |-> f[m]]
  <2> SUFFICES ASSUME NEW n \in nodes' PROVE \E f : actions'[n] = [m \in Methods |-> f[m]]
    BY Zenon
  <2> DEFINE acts == [m \in Methods |-> IF m \in ms THEN N + 1 ELSE ActionsAt(path)[m]]
  <2>1. actions'[n] = IF n = path THEN acts
                      ELSE IF n \in nodes THEN actions[n] ELSE NoActions
    BY Zenon DEF trie_insert, Insert
  <2>2. acts = [m \in Methods |-> acts[m]]
    BY Zenon
  <2>3. NoActions = [m \in Methods |-> NoActions[m]]
    BY Zenon DEF NoActions
  <2> HIDE DEF acts
  <2>4. CASE n = path
    <3>1. actions'[n] = [m \in Methods |-> acts[m]]
      BY <2>1, <2>2, <2>4, Zenon
    <3>2. QED
      BY <3>1, Zenon
  <2>5. CASE n # path /\ n \in nodes
    <3>1. PICK f : actions[n] = [m \in Methods |-> f[m]]
      BY <2>5, Zenon DEF SearchInv
    <3>2. actions'[n] = [m \in Methods |-> f[m]]
      BY <2>1, <2>5, <3>1, Zenon
    <3>3. QED
      BY <3>2, Zenon
  <2>6. CASE n # path /\ n \notin nodes
    <3>1. actions'[n] = [m \in Methods |-> NoActions[m]]
      BY <2>1, <2>3, <2>6, Zenon
    <3>2. QED
      BY <3>1, Zenon
  <2>7. QED
    BY <2>4, <2>5, <2>6, Zenon
<1>9. QED
  BY <1>7, <1>8, Zenon DEF SearchInv

\* trie_search: for every set of routes and every method, the search on an
\* unambiguous trie finds exactly the route that matches, its latest handler and
\* its parameters, and answers no request that a route matches with 404, for
\* every path in which no segment repeats and whose query, if any, the search
\* strips.
THEOREM SearchFindsRoutes == TrieSpec => []SearchMeetsRoutes
<1>1. TrieInit => SearchInv
  <2> SUFFICES ASSUME TrieInit PROVE SearchInv
    OBVIOUS
  <2>1. DOMAIN routes = {}
    BY DEF TrieInit
  <2>2. \A n \in nodes : actions[n] = [m \in Methods |-> 0]
    BY Zenon DEF TrieInit
  <2>3. [m \in Methods |-> 0] = [m \in Methods |-> NoActions[m]]
    BY Zenon DEF NoActions
  <2>4. \A n \in nodes : \E f : actions[n] = [m \in Methods |-> f[m]]
    BY <2>2, <2>3, Zenon
  <2>5. QED
    BY <2>1, <2>4, TrieStart, Zenon DEF SearchInv
<1>2. SearchInv /\ [TrieNext]_trieVars => SearchInv'
  <2> SUFFICES ASSUME SearchInv, [TrieNext]_trieVars PROVE SearchInv'
    OBVIOUS
  <2>0. TrieInv
    BY DEF SearchInv
  <2>1. CASE UNCHANGED trieVars
    <3>1. routes' = routes /\ nodes' = nodes /\ actions' = actions
      BY <2>1 DEF trieVars
    <3>2. TrieInv'
      BY <2>0, <2>1, TrieStays, Zenon
    <3>3. QED
      BY <3>1, <3>2, Zenon DEF SearchInv
  <2>2. ASSUME NEW path \in Paths(MaxDepth), NEW ms \in (SUBSET Methods) \ {{}},
               trie_insert(path, ms)
        PROVE  SearchInv'
    <3>1. path \in Seq(Labels)
      BY PathsAreSeqs, BoundsAssumption, Zenon
    <3>2. TrieInv'
      BY <2>0, <2>2, <3>1, InsertKeepsTrie, Zenon
    <3>3. QED
      BY <2>2, <3>1, <3>2, InsertKeepsSearch, Zenon
  <2>3. QED
    BY <2>1, <2>2, Zenon DEF TrieNext
<1>3. QED
  BY <1>1, <1>2, SearchIsRight, PTL DEF TrieSpec

-----------------------------------------------------------------------------
(* The list of the pool. *)

\* A link that leads to no node: NULL, or what malloc left.
Loose == InitialLinks \cup {NULL}

LEMMA LooseIs == \A x \in Loose : x \notin Nodes /\ (x = NULL \/ x = WILD)
BY LinksAssumption, NodesAssumption DEF Loose

\* The head and the nodes behind it, t, as the links nx and pv hold them: each
\* node once, the links along t in both directions, loose ones elsewhere.
Threaded(t, nx, pv) ==
  /\ t \in Seq(Nodes) /\ 1 <= Len(t) /\ t[1] = Head0
  /\ \A i, j \in 1..Len(t) : t[i] = t[j] => i = j
  /\ nx \in [Nodes -> Nodes \cup Loose] /\ pv \in [Nodes -> Nodes \cup Loose]
  /\ \A i \in 1 .. Len(t) - 1 : nx[t[i]] = t[i + 1] /\ pv[t[i + 1]] = t[i]
  /\ nx[t[Len(t)]] \in Loose /\ (Len(t) = 1 => nx[Head0] = NULL)
  /\ \A n \in Nodes : (\A i \in 1..Len(t) : t[i] # n) => nx[n] \in Loose /\ pv[n] \in Loose

\* Behind the first node.
Behind(t) == SubSeq(t, 2, Len(t))

OutOfList(t) == removed # NULL => /\ removed \in Nodes /\ \A i \in 1..Len(t) : t[i] # removed
                              /\ next[removed] = NULL /\ prev[removed] = NULL

ListInv == undef \in BOOLEAN /\ (~undef => \E t : Threaded(t, next, prev) /\ OutOfList(t))

LEMMA FewNodes ==
  ASSUME NEW t \in Seq(Nodes), \A i, j \in 1..Len(t) : t[i] = t[j] => i = j
  PROVE  Len(t) <= Cardinality(Nodes) /\ Cardinality(Nodes) \in Nat
<1>1. IsFiniteSet(Nodes) /\ Cardinality(Nodes) \in Nat
  BY NodesAssumption, FS_AddElement, FS_CardinalityType, Zenon DEF Nodes
<1>2. t \in [1..Len(t) -> Nodes] /\ Len(t) \in Nat
  BY LenProperties
<1>3. t \in Injection(1..Len(t), Nodes)
  BY <1>2, Zenon DEF Injection, IsInjective
<1>4. Cardinality(1..Len(t)) <= Cardinality(Nodes)
  BY <1>1, <1>3, FS_Injection, Zenon
<1>5. Cardinality(1..Len(t)) = IF 1 > Len(t) THEN 0 ELSE Len(t) - 1 + 1
  BY <1>2, FS_Interval
<1>6. QED
  BY <1>1, <1>2, <1>4, <1>5

\* The part of t behind its element i, of at most k nodes.
Part(t, i, k) == SubSeq(t, i + 1, IF i + k <= Len(t) THEN i + k ELSE Len(t))

LEMMA PartUnfolds ==
  ASSUME NEW t \in Seq(Nodes), NEW i \in 1..Len(t), NEW k \in Nat
  PROVE  /\ i = Len(t) \/ k = 0 => Part(t, i, k) = <<>>
         /\ i # Len(t) /\ k # 0 =>
              Part(t, i, k) = <<t[i + 1]>> \o Part(t, i + 1, k - 1)
<1> DEFINE e == IF i + k <= Len(t) THEN i + k ELSE Len(t)
<1>1. Len(t) \in Nat
  BY LenProperties
<1>2. CASE i = Len(t) \/ k = 0
  <2>1. e \in Int /\ i + 1 \in Int /\ e < i + 1
    BY <1>1, <1>2
  <2>2. Part(t, i, k) = SubSeq(t, i + 1, e)
    BY Zenon DEF Part
  <2> HIDE DEF e
  <2>3. QED
    BY <1>2, <2>1, <2>2, SubSeqEmpty
<1>3. CASE i # Len(t) /\ k # 0
  <2>1. i + 1 \in 1..Len(t) /\ e \in i + 1 .. Len(t)
    BY <1>1, <1>3
  <2>2. Part(t, i, k) = SubSeq(t, i + 1, e)
    BY Zenon DEF Part
  <2>3. i + 1 + (k - 1) = i + k
    BY <1>1
  <2>4. Part(t, i + 1, k - 1) = SubSeq(t, i + 1 + 1, e)
    BY <2>3, Zenon DEF Part
  <2> HIDE DEF e
  <2>5. SubSeq(t, i + 1, e) = <<t[i + 1]>> \o SubSeq(t, i + 1 + 1, e)
    BY <2>1, SubSeqRecursiveFirst
  <2>6. QED
    BY <1>3, <2>2, <2>4, <2>5, Zenon
<1>4. QED
  BY <1>2, <1>3, Zenon

\* What the links hold, node by node.
LEMMA ThreadedNext ==
  ASSUME NEW t, NEW nx, NEW pv, Threaded(t, nx, pv), NEW i \in 1..Len(t)
  PROVE  /\ t[i] \in Nodes
         /\ i = Len(t) => nx[t[i]] \notin Nodes
         /\ i # Len(t) => /\ i + 1 \in 1..Len(t) /\ nx[t[i]] = t[i + 1]
                          /\ nx[t[i]] \in Nodes
<1>1. t \in Seq(Nodes) /\ Len(t) \in Nat
  BY LenProperties DEF Threaded
<1>2. \A j \in 1..Len(t) : t[j] \in Nodes
  BY <1>1, ElementOfSeq
<1>3. CASE i = Len(t)
  BY <1>2, <1>3, LooseIs, Zenon DEF Threaded
<1>4. CASE i # Len(t)
  <2>1. i \in 1 .. Len(t) - 1 /\ i + 1 \in 1..Len(t)
    BY <1>1, <1>4
  <2>2. QED
    BY <1>2, <1>4, <2>1, Zenon DEF Threaded
<1>5. QED
  BY <1>3, <1>4

\* Following the links from the head meets the nodes of the list, in order.
LEMMA ListIs ==
  ASSUME NEW t, NEW nx, NEW pv, Threaded(t, nx, pv)
  PROVE  ListOf(nx) = Behind(t)
<1> DEFINE K == Cardinality(Nodes)
           L == Len(t)
           Turn(f) == [k \in 0..K |->
                         [n \in Nodes |-> IF nx[n] \notin Nodes \/ k = 0 THEN <<>>
                                          ELSE <<nx[n]>> \o f[k - 1][nx[n]]]]
           chain == CHOOSE f : f = Turn(f)
           At(n) == CHOOSE i \in 1..L : t[i] = n
           W == [k \in 0..K |->
                   [n \in Nodes |-> IF \E i \in 1..L : t[i] = n
                                    THEN Part(t, At(n), k) ELSE <<>>]]
<1>1. /\ t \in Seq(Nodes) /\ L \in Nat /\ 1 <= L /\ K \in Nat /\ L <= K
      /\ t[1] = Head0
  BY FewNodes, LenProperties DEF Threaded
<1>2. \A i \in 1..L : At(t[i]) = i
  <2> SUFFICES ASSUME NEW i \in 1..L PROVE At(t[i]) = i
    OBVIOUS
  <2>1. At(t[i]) \in 1..L /\ t[At(t[i])] = t[i]
    BY Zenon
  <2>2. QED
    BY <2>1, Zenon DEF Threaded
<1>3. ListOf(nx) = chain[K][Head0]
  BY DEF ListOf
<1>4. \A k \in 0..K, i \in 1..L : W[k][t[i]] = Part(t, i, k)
  BY <1>2, ThreadedNext, Zenon
<1>5. W = Turn(W)
  <2>1. \A k \in 0..K, n \in Nodes : W[k][n] = Turn(W)[k][n]
    <3> SUFFICES ASSUME NEW k \in 0..K, NEW n \in Nodes
                 PROVE  W[k][n] = Turn(W)[k][n]
      BY Zenon
    <3>0. Turn(W)[k][n] = IF nx[n] \notin Nodes \/ k = 0 THEN <<>>
                          ELSE <<nx[n]>> \o W[k - 1][nx[n]]
      BY Zenon
    <3>1. CASE \A i \in 1..L : t[i] # n
      <4>1. nx[n] \notin Nodes
        BY <3>1, LooseIs, Zenon DEF Threaded
      <4>2. W[k][n] = <<>>
        BY <3>1, Zenon
      <4>3. QED
        BY <3>0, <4>1, <4>2, Zenon
    <3>2. ASSUME NEW i \in 1..L, t[i] = n PROVE W[k][n] = Turn(W)[k][n]
      <4>1. W[k][n] = Part(t, i, k)
        BY <1>4, <3>2, Zenon
      <4>2. k \in Nat
        OBVIOUS
      <4> HIDE DEF W, Turn, At
      <4>3. CASE i = L \/ k = 0
        <5>1. Part(t, i, k) = <<>>
          BY <1>1, <4>2, <4>3, PartUnfolds
        <5>2. i = L => nx[n] \notin Nodes
          BY <3>2, ThreadedNext, Zenon
        <5>3. QED
          BY <3>0, <4>1, <4>3, <5>1, <5>2, Zenon
      <4>4. CASE i # L /\ k # 0
        <5>1. Part(t, i, k) = <<t[i + 1]>> \o Part(t, i + 1, k - 1)
          BY <1>1, <4>2, <4>4, PartUnfolds
        <5>2. i + 1 \in 1..L /\ nx[n] = t[i + 1] /\ nx[n] \in Nodes
          BY <3>2, <4>4, ThreadedNext, Zenon
        <5>3. k - 1 \in 0..K
          BY <1>1, <4>4
        <5>4. W[k - 1][t[i + 1]] = Part(t, i + 1, k - 1)
          BY <1>4, <5>2, <5>3, Zenon
        <5>5. QED
          BY <3>0, <4>1, <4>4, <5>1, <5>2, <5>4, Zenon
      <4>5. QED
        BY <4>3, <4>4, Zenon
    <3>3. QED
      BY <3>1, <3>2, Zenon
  <2>2. ASSUME NEW k \in 0..K PROVE W[k] = Turn(W)[k]
    <3>1. W[k] = [n \in Nodes |-> W[k][n]]
      BY Zenon
    <3> HIDE DEF W
    <3>2. Turn(W)[k] = [n \in Nodes |-> Turn(W)[k][n]]
      BY Zenon
    <3> HIDE DEF Turn
    <3>3. [n \in Nodes |-> W[k][n]] = [n \in Nodes |-> Turn(W)[k][n]]
      BY <2>1, Zenon
    <3>4. QED
      BY <3>1, <3>2, <3>3
  <2>3. QED
    BY <2>2, Zenon
<1> HIDE DEF W, At
<1>6. chain = Turn(chain)
  BY <1>5, Zenon
<1>7. \A k \in 0..K, n \in Nodes :
        chain[k][n] = IF nx[n] \notin Nodes \/ k = 0 THEN <<>>
                      ELSE <<nx[n]>> \o chain[k - 1][nx[n]]
  <2> HIDE DEF chain
  <2> DEFINE g == Turn(chain)
  <2>1. \A k \in 0..K, n \in Nodes :
          g[k][n] = IF nx[n] \notin Nodes \/ k = 0 THEN <<>>
                    ELSE <<nx[n]>> \o chain[k - 1][nx[n]]
    BY Zenon
  <2>2. chain = g
    BY <1>6, Zenon
  <2> HIDE DEF g, Turn
  <2>3. ASSUME NEW k \in 0..K, NEW n \in Nodes
        PROVE  chain[k][n] = IF nx[n] \notin Nodes \/ k = 0 THEN <<>>
                             ELSE <<nx[n]>> \o chain[k - 1][nx[n]]
    <3>1. chain[k][n] = g[k][n]
      BY <2>2
    <3>2. g[k][n] = IF nx[n] \notin Nodes \/ k = 0 THEN <<>>
                    ELSE <<nx[n]>> \o chain[k - 1][nx[n]]
      BY <2>1, Zenon
    <3>3. QED
      BY <3>1, <3>2, Zenon
  <2>4. QED
    BY <2>3, Zenon
<1> HIDE DEF chain, Turn
<1>a. \A i \in 1..L : /\ t[i] \in Nodes
                      /\ i = L => nx[t[i]] \notin Nodes
                      /\ i # L => /\ i + 1 \in 1..L /\ nx[t[i]] = t[i + 1]
                                  /\ nx[t[i]] \in Nodes
  BY ThreadedNext, Zenon
<1> DEFINE S == {k \in 0..K : \A i \in 1..L : chain[k][t[i]] = Part(t, i, k)}
<1>8. 0 \in S
  <2>1. 0 \in 0..K /\ 0 \in Nat
    BY <1>1
  <2>2. \A i \in 1..L : Part(t, i, 0) = <<>>
    BY <1>1, <2>1, PartUnfolds
  <2>3. \A i \in 1..L : chain[0][t[i]] = <<>>
    BY <1>7, <2>1, ThreadedNext, Zenon
  <2>4. QED
    BY <2>1, <2>2, <2>3, Zenon
<1>9. \A k \in 0 .. K - 1 : k \in S => k + 1 \in S
  <2> SUFFICES ASSUME NEW k \in 0 .. K - 1, k \in S PROVE k + 1 \in S
    OBVIOUS
  <2>1. /\ k + 1 \in 0..K /\ k + 1 \in Nat /\ k + 1 # 0 /\ (k + 1) - 1 = k
    BY <1>1
  <2>2. ASSUME NEW i \in 1..L PROVE chain[k + 1][t[i]] = Part(t, i, k + 1)
    <3>1. CASE i = L
      <4>1. Part(t, i, k + 1) = <<>>
        BY <1>1, <2>1, <3>1, PartUnfolds
      <4>2. t[i] \in Nodes /\ nx[t[i]] \notin Nodes
        BY <1>a, <3>1
      <4>3. chain[k + 1][t[i]] = <<>>
        BY <1>7, <2>1, <4>2, Zenon
      <4>4. QED
        BY <4>1, <4>3, Zenon
    <3>2. CASE i # L
      <4>1. Part(t, i, k + 1) = <<t[i + 1]>> \o Part(t, i + 1, k)
        BY <1>1, <2>1, <3>2, PartUnfolds
      <4>2. /\ i + 1 \in 1..L /\ nx[t[i]] = t[i + 1] /\ nx[t[i]] \in Nodes
            /\ t[i] \in Nodes
        BY <1>a, <3>2
      <4>3. chain[k + 1][t[i]] = <<nx[t[i]]>> \o chain[k][nx[t[i]]]
        <5>1. chain[k + 1][t[i]] =
                IF nx[t[i]] \notin Nodes \/ k + 1 = 0 THEN <<>>
                ELSE <<nx[t[i]]>> \o chain[(k + 1) - 1][nx[t[i]]]
          BY <1>7, <2>1, <4>2, Zenon
        <5>2. chain[(k + 1) - 1] = chain[k]
          BY <2>1, Zenon
        <5>3. QED
          BY <2>1, <4>2, <5>1, <5>2, Zenon
      <4>4. chain[k][t[i + 1]] = Part(t, i + 1, k)
        BY <4>2, Zenon
      <4>5. QED
        BY <4>1, <4>2, <4>3, <4>4, Zenon
    <3>3. QED
      BY <3>1, <3>2
  <2>3. QED
    BY <2>1, <2>2, Zenon
<1>10. K \in S
  <2> HIDE DEF S
  <2>1. 0..K \subseteq S
    BY <1>1, <1>8, <1>9, NatInductionIn
  <2>2. QED
    BY <1>1, <2>1
<1>11. chain[K][t[1]] = Part(t, 1, K)
  <2>1. 1 \in 1..L
    BY <1>1
  <2>2. QED
    BY <1>10, <2>1, Zenon
<1>12. Part(t, 1, K) = Behind(t)
  <2>1. ~ (1 + K <= Len(t)) /\ 1 + 1 = 2
    BY <1>1
  <2>2. QED
    BY <2>1, Zenon DEF Part, Behind
<1>13. QED
  BY <1>1, <1>3, <1>11, <1>12, Zenon

\* What is needed of lengths, apart from the sequences.
LEMMA NotOne ==
  ASSUME NEW n \in Nat, 1 <= n, n # 1
  PROVE  2 \in 1..n /\ n \in 2..n /\ 1 \in 1 .. n - 1 /\ 2 <= n
OBVIOUS

LEMMA OneLess ==
  ASSUME NEW n \in Nat, 1 <= n
  PROVE  (IF 2 <= n THEN n - 2 + 1 ELSE 0) = n - 1
OBVIOUS

LEMMA NextIndex ==
  ASSUME NEW n \in Nat, 1 <= n
  PROVE  /\ 1 \in 1 .. n + 1 /\ 2 \in 1 .. n + 1 /\ 2 # 1
         /\ \A i \in 2..n : i + 1 \in 1 .. n + 1 /\ i + 1 # 1 /\ i + 1 # 2 /\ i + 1 - 1 = i
OBVIOUS

LEMMA BehindIs ==
  ASSUME NEW t \in Seq(Nodes), 1 <= Len(t), t[1] = Head0
  PROVE  /\ Behind(t) \in Seq(Nodes) /\ Len(Behind(t)) = Len(t) - 1
         /\ \A i \in 1 .. Len(t) - 1 : Behind(t)[i] = t[i + 1]
         /\ <<Head0>> \o Behind(t) = t
<1>1. Len(t) \in Nat /\ \A i \in 1..Len(t) : t[i] \in Nodes
  BY LenProperties, ElementOfSeq
<1>2. 2 \in Int /\ \A i \in 2..Len(t) : t[i] \in Nodes
  BY <1>1
<1>3. /\ Behind(t) \in Seq(Nodes)
      /\ Len(Behind(t)) = IF 2 <= Len(t) THEN Len(t) - 2 + 1 ELSE 0
      /\ \A i \in 1 .. Len(t) - 2 + 1 : Behind(t)[i] = t[2 + i - 1]
  BY <1>1, <1>2, SubSeqProperties DEF Behind
<1>4. 1 \in 1..Len(t) /\ Len(t) \in 1..Len(t) /\ 1 + 1 = 2
  BY <1>1
<1>5. SubSeq(t, 1, Len(t)) = <<t[1]>> \o SubSeq(t, 1 + 1, Len(t))
  BY <1>4, SubSeqRecursiveFirst
<1>6. SubSeq(t, 1, Len(t)) = t
  BY SubSeqFull
<1>7. <<Head0>> \o Behind(t) = t
  BY <1>4, <1>5, <1>6 DEF Behind
<1>8. \A i \in 1 .. Len(t) - 1 : i \in 1 .. Len(t) - 2 + 1 /\ 2 + i - 1 = i + 1
  BY <1>1
<1>9. Len(Behind(t)) = Len(t) - 1
  BY <1>1, <1>3, OneLess, Zenon
<1>10. QED
  BY <1>3, <1>7, <1>8, <1>9

\* The first node of the list, where there is one.
LEMMA FirstNode ==
  ASSUME NEW t, NEW nx, NEW pv, Threaded(t, nx, pv)
  PROVE  /\ Len(t) \in Nat /\ 1 <= Len(t) /\ Head0 \in Nodes
         /\ nx[Head0] = NULL <=> Len(t) = 1
         /\ Len(t) # 1 => /\ 2 \in 1..Len(t) /\ nx[Head0] = t[2]
                          /\ t[2] \in Nodes /\ t[2] # Head0 /\ pv[t[2]] = Head0
<1>1. t \in Seq(Nodes) /\ Len(t) \in Nat /\ 1 <= Len(t) /\ t[1] = Head0
  BY LenProperties DEF Threaded
<1>2. 1 \in 1..Len(t) /\ 1 + 1 = 2
  BY <1>1
<1>3. /\ Head0 \in Nodes
      /\ 1 = Len(t) => nx[Head0] = NULL
      /\ 1 # Len(t) => /\ 2 \in 1..Len(t) /\ nx[Head0] = t[2] /\ t[2] \in Nodes
  <2>1. /\ t[1] \in Nodes
        /\ 1 # Len(t) => 1 + 1 \in 1..Len(t) /\ nx[t[1]] = t[1 + 1] /\ nx[t[1]] \in Nodes
    BY <1>2, ThreadedNext, Zenon
  <2>2. Len(t) = 1 => nx[Head0] = NULL
    BY DEF Threaded
  <2>3. QED
    BY <1>1, <1>2, <2>1, <2>2, Zenon
<1>4. NULL \notin Nodes
  BY NodesAssumption
<1>5. ASSUME 1 # Len(t) PROVE t[2] # Head0 /\ pv[t[2]] = Head0
  <2>1. 1 \in 1 .. Len(t) - 1
    BY <1>1, <1>5, NotOne, Zenon
  <2>2. 1 # 2
    OBVIOUS
  <2>3. pv[t[1 + 1]] = t[1]
    BY <2>1, Zenon DEF Threaded
  <2>4. \A i, j \in 1..Len(t) : t[i] = t[j] => i = j
    BY DEF Threaded
  <2>5. QED
    BY <1>1, <1>2, <1>3, <1>5, <2>2, <2>3, <2>4, Zenon
<1>6. QED
  BY <1>1, <1>3, <1>4, <1>5

\* The nodes after an insertion, and after a removal of the first thread.
WithFirst(t, w) ==
  [i \in 1 .. Len(t) + 1 |-> IF i = 1 THEN Head0 ELSE IF i = 2 THEN w ELSE t[i - 1]]
WithoutFirst(t) == [i \in 1 .. Len(t) - 1 |-> IF i = 1 THEN Head0 ELSE t[i + 1]]

\* glthread_insert_after on the head writes the links of the new node, of the
\* head and of the node that was first.
LEMMA InsertLinks ==
  ASSUME NEW t, Threaded(t, next, prev),
         NEW w \in Threads, \A i \in 1..Len(t) : t[i] # w,
         glthread_insert_after(Head0, w)
  PROVE  /\ next' \in [Nodes -> Nodes \cup Loose] /\ prev' \in [Nodes -> Nodes \cup Loose]
         /\ next'[Head0] = w /\ prev'[w] = Head0
         /\ Len(t) = 1 => next'[w] \in Loose
         /\ Len(t) # 1 => next'[w] = t[2] /\ prev'[t[2]] = w
         /\ \A n \in Nodes : n # Head0 /\ n # w => next'[n] = next[n]
         /\ \A n \in Nodes : n # w /\ (Len(t) = 1 \/ n # t[2]) => prev'[n] = prev[n]
<1>1. /\ next \in [Nodes -> Nodes \cup Loose] /\ prev \in [Nodes -> Nodes \cup Loose]
      /\ w \in Nodes /\ w # Head0 /\ next[w] \in Loose /\ prev[w] \in Loose
  BY NodesAssumption, Zenon DEF Threaded, Nodes
<1>2. CASE Len(t) = 1
  <2>1. next[Head0] = NULL /\ Head0 \in Nodes
    BY <1>2, FirstNode, Zenon
  <2>2. /\ next' = [next EXCEPT ![Head0] = w]
        /\ prev' = [prev EXCEPT ![w] = Head0]
    BY <2>1, Zenon DEF glthread_insert_after
  <2>3. QED
    BY <1>1, <1>2, <2>1, <2>2
<1>3. CASE Len(t) # 1
  <2>1. /\ next[Head0] # NULL /\ next[Head0] = t[2] /\ Head0 \in Nodes
        /\ t[2] \in Nodes /\ t[2] # Head0 /\ t[2] # w
    BY <1>3, FirstNode, Zenon
  <2>2. /\ next' = [next EXCEPT ![Head0] = w, ![w] = t[2]]
        /\ prev' = [prev EXCEPT ![w] = Head0, ![t[2]] = w]
    BY <2>1, Zenon DEF glthread_insert_after
  <2>3. QED
    BY <1>1, <1>3, <2>1, <2>2
<1>4. QED
  BY <1>2, <1>3, Zenon

LEMMA InsertThreaded ==
  ASSUME NEW t, Threaded(t, next, prev),
         NEW w \in Threads, \A i \in 1..Len(t) : t[i] # w,
         glthread_insert_after(Head0, w)
  PROVE  Threaded(WithFirst(t, w), next', prev')
<1> DEFINE u == WithFirst(t, w)
           L == Len(t)
<1>1. /\ t \in Seq(Nodes) /\ L \in Nat /\ 1 <= L /\ t[1] = Head0
      /\ w \in Nodes /\ w # Head0 /\ Head0 \in Nodes
      /\ \A i \in 1..L : t[i] \in Nodes
  BY NodesAssumption, LenProperties, ElementOfSeq DEF Threaded, Nodes
<1>2. /\ \A i \in 1 .. L + 1 : u[i] = IF i = 1 THEN Head0 ELSE IF i = 2 THEN w ELSE t[i - 1]
      /\ \A i \in 1 .. L + 1 : u[i] \in Nodes
      /\ u = [i \in 1 .. L + 1 |-> u[i]]
  <2>1. \A i \in 1 .. L + 1 : i # 1 => i - 1 \in 1..L
    BY <1>1
  <2>2. \A i \in 1 .. L + 1 : u[i] = IF i = 1 THEN Head0 ELSE IF i = 2 THEN w ELSE t[i - 1]
    BY Zenon DEF WithFirst
  <2>3. \A i \in 1 .. L + 1 : u[i] \in Nodes
    BY <1>1, <2>1, <2>2
  <2>4. u = [i \in 1 .. L + 1 |-> u[i]]
    BY Zenon DEF WithFirst
  <2>5. QED
    BY <2>2, <2>3, <2>4, Zenon
<1>3. u \in Seq(Nodes) /\ Len(u) = L + 1
  <2>1. u \in [1 .. L + 1 -> Nodes] /\ L + 1 \in Nat
    BY <1>1, <1>2
  <2>2. u \in Seq(Nodes)
    BY <2>1, FunctionIsSeq
  <2>3. QED
    BY <2>1, <2>2, LenProperties
<1> HIDE DEF u
<1>4. u[1] = Head0 /\ u[2] = w /\ \A i \in 2..L : u[i + 1] = t[i]
  <2>1. L \in Nat /\ 1 <= L
    BY <1>1
  <2>2. /\ 1 \in 1 .. L + 1 /\ 2 \in 1 .. L + 1 /\ 2 # 1
        /\ \A i \in 2..L : i + 1 \in 1 .. L + 1 /\ i + 1 # 1 /\ i + 1 # 2 /\ i + 1 - 1 = i
    BY <2>1, NextIndex, Zenon
  <2>3. \A i \in 1 .. L + 1 : u[i] = IF i = 1 THEN Head0 ELSE IF i = 2 THEN w ELSE t[i - 1]
    BY <1>2, Zenon
  <2>4. u[1] = Head0
    BY <2>2, <2>3, Zenon
  <2>5. u[2] = w
    BY <2>2, <2>3, Zenon
  <2>6. ASSUME NEW i \in 2..L PROVE u[i + 1] = t[i]
    <3>1. i + 1 \in 1 .. L + 1 /\ i + 1 # 1 /\ i + 1 # 2 /\ i + 1 - 1 = i
      BY <2>2, Zenon
    <3>2. u[i + 1] = IF i + 1 = 1 THEN Head0 ELSE IF i + 1 = 2 THEN w ELSE t[i + 1 - 1]
      BY <2>3, <3>1
    <3>3. QED
      BY <3>1, <3>2, Zenon
  <2>7. QED
    BY <2>4, <2>5, <2>6, Zenon
<1>5. \A i, j \in 1..L : t[i] = t[j] => i = j
  BY DEF Threaded
<1>6. \A i, j \in 1 .. L + 1 : u[i] = u[j] => i = j
  <2> SUFFICES ASSUME NEW i \in 1 .. L + 1, NEW j \in 1 .. L + 1, u[i] = u[j]
               PROVE  i = j
    BY Zenon
  <2>1. \A k \in 3 .. L + 1 : k - 1 \in 2..L /\ u[k] = t[k - 1]
    BY <1>1, <1>2
  <2>2. \A k \in 3 .. L + 1 : u[k] # Head0 /\ u[k] # w
    <3>1. \A k \in 2..L : k \in 1..L /\ k # 1 /\ 1 \in 1..L
      BY <1>1
    <3>2. \A k \in 2..L : t[k] # Head0 /\ t[k] # w
      BY <1>1, <1>5, <3>1, Zenon
    <3>3. QED
      BY <2>1, <3>2, Zenon
  <2>3. \A k \in 1 .. L + 1 : k = 1 \/ k = 2 \/ k \in 3 .. L + 1
    BY <1>1
  <2>4. CASE i \in 3 .. L + 1 /\ j \in 3 .. L + 1
    <3>1. t[i - 1] = t[j - 1]
      BY <2>1, <2>4, Zenon
    <3>2. i - 1 \in 1..L /\ j - 1 \in 1..L
      BY <1>1, <2>4
    <3>3. i - 1 = j - 1
      BY <1>5, <3>1, <3>2, Zenon
    <3>4. QED
      BY <3>3
  <2>5. QED
    BY <1>1, <1>4, <2>2, <2>3, <2>4, Zenon
<1>7. \A i \in 1 .. L - 1 : next[t[i]] = t[i + 1] /\ prev[t[i + 1]] = t[i]
  BY DEF Threaded
<1>8. /\ next' \in [Nodes -> Nodes \cup Loose] /\ prev' \in [Nodes -> Nodes \cup Loose]
      /\ next'[Head0] = w /\ prev'[w] = Head0
      /\ L = 1 => next'[w] \in Loose
      /\ L # 1 => next'[w] = t[2] /\ prev'[t[2]] = w
      /\ \A n \in Nodes : n # Head0 /\ n # w => next'[n] = next[n]
      /\ \A n \in Nodes : n # w /\ (L = 1 \/ n # t[2]) => prev'[n] = prev[n]
  BY InsertLinks, Zenon
<1>9. \A i \in 2..L : i \in 1..L /\ t[i] \in Nodes /\ t[i] # Head0 /\ t[i] # w
  <2>1. \A i \in 2..L : i \in 1..L /\ i # 1 /\ 1 \in 1..L
    BY <1>1
  <2>2. QED
    BY <1>1, <1>5, <2>1, Zenon
<1>10. \A i \in 1..L : next'[u[i]] = u[i + 1] /\ prev'[u[i + 1]] = u[i]
  <2> SUFFICES ASSUME NEW i \in 1..L
               PROVE  next'[u[i]] = u[i + 1] /\ prev'[u[i + 1]] = u[i]
    OBVIOUS
  <2>1. CASE i = 1
    BY <1>4, <1>8, <2>1
  <2>2. CASE i = 2
    BY <1>1, <1>4, <1>8, <2>2
  <2>3. CASE i # 1 /\ i # 2
    <3>1. /\ i - 1 \in 2..L /\ i \in 2..L /\ i - 1 \in 1 .. L - 1 /\ i - 1 + 1 = i
          /\ L # 1 /\ i # 2 /\ 2 \in 1..L
      BY <1>1, <2>3
    <3>2. u[i] = t[i - 1] /\ u[i + 1] = t[i]
      BY <1>4, <3>1
    <3>3. next'[t[i - 1]] = next[t[i - 1]]
      BY <1>8, <1>9, <3>1, Zenon
    <3>4. t[i] # t[2]
      BY <1>5, <1>9, <3>1, Zenon
    <3>5. prev'[t[i]] = prev[t[i]]
      BY <1>8, <1>9, <3>1, <3>4, Zenon
    <3>6. next[t[i - 1]] = t[i] /\ prev[t[i]] = t[i - 1]
      BY <1>7, <3>1
    <3>7. QED
      BY <3>2, <3>3, <3>5, <3>6, Zenon
  <2>4. QED
    BY <2>1, <2>2, <2>3
<1>11. next'[u[L + 1]] \in Loose
  <2>1. CASE L = 1
    BY <1>4, <1>8, <2>1
  <2>2. CASE L # 1
    <3>1. L \in 2..L
      BY <1>1, <2>2, NotOne, Zenon
    <3>2. u[L + 1] = t[L] /\ next'[t[L]] = next[t[L]]
      BY <1>4, <1>8, <1>9, <3>1, Zenon
    <3>3. next[t[L]] \in Loose
      BY DEF Threaded
    <3>4. QED
      BY <3>2, <3>3, Zenon
  <2>3. QED
    BY <2>1, <2>2
<1>12. \A n \in Nodes : (\A i \in 1 .. L + 1 : u[i] # n) => next'[n] \in Loose /\ prev'[n] \in Loose
  <2> SUFFICES ASSUME NEW n \in Nodes, \A i \in 1 .. L + 1 : u[i] # n
               PROVE  next'[n] \in Loose /\ prev'[n] \in Loose
    OBVIOUS
  <2>1. 1 \in 1 .. L + 1 /\ 2 \in 1 .. L + 1
    BY <1>1
  <2>2. n # Head0 /\ n # w
    BY <1>4, <2>1, Zenon
  <2>3. \A i \in 1..L : i = 1 \/ (i \in 2..L /\ i + 1 \in 1 .. L + 1)
    BY <1>1
  <2>4. \A i \in 1..L : t[i] # n
    BY <1>1, <1>4, <2>2, <2>3, Zenon
  <2>5. next[n] \in Loose /\ prev[n] \in Loose
    BY <2>4, Zenon DEF Threaded
  <2>6. L = 1 \/ n # t[2]
    <3>1. L = 1 \/ 2 \in 1..L
      BY <1>1, NotOne, Zenon
    <3>2. QED
      BY <2>4, <3>1, Zenon
  <2>7. QED
    BY <1>8, <2>2, <2>5, <2>6, Zenon
<1>13. 1 <= L + 1 /\ L + 1 # 1 /\ L + 1 - 1 = L
  BY <1>1
<1>14. Threaded(u, next', prev')
  <2>1. \A i \in 1 .. Len(u) - 1 : next'[u[i]] = u[i + 1] /\ prev'[u[i + 1]] = u[i]
    <3>1. Len(u) - 1 = L
      BY <1>3, <1>13
    <3>2. 1 .. Len(u) - 1 = 1..L
      BY <3>1, Zenon
    <3>3. QED
      BY <1>10, <3>2
  <2>2. 1 <= Len(u) /\ Len(u) # 1 /\ next'[u[Len(u)]] \in Loose
    BY <1>3, <1>11, <1>13, Zenon
  <2>3. \A i, j \in 1..Len(u) : u[i] = u[j] => i = j
    BY <1>3, <1>6, Zenon
  <2>4. \A n \in Nodes : (\A i \in 1..Len(u) : u[i] # n) => next'[n] \in Loose /\ prev'[n] \in Loose
    BY <1>3, <1>12, Zenon
  <2>5. QED
    BY <1>3, <1>4, <1>8, <2>1, <2>2, <2>3, <2>4, Zenon DEF Threaded
<1>15. QED
  BY <1>14 DEF u

LEMMA Shorter ==
  ASSUME NEW n \in Nat, 1 <= n, n # 1
  PROVE  /\ n - 1 \in Nat /\ 1 <= n - 1 /\ 1 \in 1 .. n - 1 /\ n - 1 - 1 = n - 2
         /\ 1 \in 1..n /\ 2 \in 1..n /\ 1 # 2
         /\ 2 \in 1 .. n - 1 \/ n = 2
         /\ n # 2 => 3 \in 1..n /\ 2 + 1 = 3 /\ n - 1 # 1 /\ n - 1 \in 2 .. n - 1
         /\ n = 2 => n - 1 = 1
         /\ n \in 1..n /\ n - 1 + 1 = n
         /\ \A i \in 2 .. n - 1 : /\ i \in 1 .. n - 1 /\ i # 1
                                  /\ i + 1 \in 1..n /\ i + 1 # 1 /\ i + 1 # 2
         /\ \A i \in 1..n : i = 1 \/ i = 2 \/ (i - 1 \in 2 .. n - 1 /\ i - 1 + 1 = i)
         /\ \A i \in 1 .. n - 1 : i = 1 \/ i \in 2 .. n - 1
OBVIOUS

LEMMA InnerIndex ==
  ASSUME NEW n \in Nat, NEW i \in 1 .. n - 2, i # 1
  PROVE  /\ i \in 2 .. n - 1 /\ i + 1 \in 2 .. n - 1 /\ i + 1 \in 1 .. n - 1
         /\ i + 1 + 1 \in 1..n /\ i + 1 + 1 # 1 /\ i + 1 + 1 # 2 /\ i + 1 + 1 # 3
         /\ 2 \in 1..n /\ 3 \in 1..n /\ n # 2
OBVIOUS

LEMMA SameSuccessor ==
  ASSUME NEW i \in Nat, NEW j \in Nat, i + 1 = j + 1
  PROVE  i = j
OBVIOUS

\* glthread_remove of the first thread writes the links of the thread, of the
\* head and of the second thread.
LEMMA RemoveLinks ==
  ASSUME NEW t, Threaded(t, next, prev), Len(t) # 1, glthread_remove(t[2]),
         next[t[2]] # WILD
  PROVE  /\ next' \in [Nodes -> Nodes \cup Loose] /\ prev' \in [Nodes -> Nodes \cup Loose]
         /\ next'[Head0] = next[t[2]] /\ next'[t[2]] = NULL /\ prev'[t[2]] = NULL
         /\ next[t[2]] \in Nodes /\ next[t[2]] # t[2] => prev'[next[t[2]]] = Head0
         /\ \A n \in Nodes : n # Head0 /\ n # t[2] => next'[n] = next[n]
         /\ \A n \in Nodes : n # t[2] /\ n # next[t[2]] => prev'[n] = prev[n]
<1> DEFINE m == t[2]
<1>1. /\ NULL \in Loose /\ next \in [Nodes -> Nodes \cup Loose] /\ prev \in [Nodes -> Nodes \cup Loose]
      /\ m \in Nodes /\ m # Head0 /\ Head0 \in Nodes /\ prev[m] = Head0
      /\ NULL \notin Nodes
  <2>1. m \in Nodes /\ m # Head0 /\ Head0 \in Nodes /\ prev[m] = Head0
    BY FirstNode, Zenon
  <2>2. QED
    BY <2>1, NodesAssumption, Zenon DEF Threaded, Loose
<1>2. CASE next[m] = NULL
  <2>1. /\ next' = [next EXCEPT ![Head0] = NULL]
        /\ prev' = [prev EXCEPT ![m] = NULL]
    BY <1>1, <1>2, Zenon DEF glthread_remove
  <2> HIDE DEF m
  <2>2. /\ next' \in [Nodes -> Nodes \cup Loose] /\ prev' \in [Nodes -> Nodes \cup Loose]
        /\ next'[Head0] = next[m] /\ next'[m] = NULL /\ prev'[m] = NULL
        /\ next[m] \notin Nodes
        /\ \A n \in Nodes : n # Head0 /\ n # m => next'[n] = next[n]
        /\ \A n \in Nodes : n # m /\ n # next[m] => prev'[n] = prev[n]
    BY <1>1, <1>2, <2>1
  <2>3. QED
    BY <2>2, Zenon DEF m
<1>3. CASE next[m] # NULL
  <2>1. /\ next' = [next EXCEPT ![Head0] = next[m], ![m] = NULL]
        /\ prev' = [x \in Nodes |-> IF x = m THEN NULL
                                    ELSE IF x = next[m] THEN Head0 ELSE prev[x]]
    BY <1>1, <1>3, Zenon DEF glthread_remove
  <2> HIDE DEF m
  <2>2. /\ next' \in [Nodes -> Nodes \cup Loose] /\ prev' \in [Nodes -> Nodes \cup Loose]
        /\ next'[Head0] = next[m] /\ next'[m] = NULL /\ prev'[m] = NULL
        /\ next[m] \in Nodes /\ next[m] # m => prev'[next[m]] = Head0
        /\ \A n \in Nodes : n # Head0 /\ n # m => next'[n] = next[n]
        /\ \A n \in Nodes : n # m /\ n # next[m] => prev'[n] = prev[n]
    BY <1>1, <1>3, <2>1
  <2>3. QED
    BY <2>2, Zenon DEF m
<1>4. QED
  BY <1>2, <1>3, Zenon

LEMMA RemoveThreaded ==
  ASSUME NEW t, Threaded(t, next, prev), Len(t) # 1, glthread_remove(t[2]),
         next[t[2]] # WILD
  PROVE  /\ Threaded(WithoutFirst(t), next', prev')
         /\ Len(WithoutFirst(t)) = Len(t) - 1
<1> DEFINE u == WithoutFirst(t)
           L == Len(t)
<1>1. /\ t \in Seq(Nodes) /\ L \in Nat /\ 1 <= L /\ t[1] = Head0 /\ Head0 \in Nodes
      /\ \A i \in 1..L : t[i] \in Nodes
  BY LenProperties, ElementOfSeq DEF Threaded, Nodes
<1>2. /\ L - 1 \in Nat /\ 1 <= L - 1 /\ 1 \in 1 .. L - 1 /\ L - 1 - 1 = L - 2
      /\ 1 \in 1..L /\ 2 \in 1..L /\ 1 # 2
      /\ 2 \in 1 .. L - 1 \/ L = 2
      /\ L # 2 => 3 \in 1..L /\ 2 + 1 = 3 /\ L - 1 # 1 /\ L - 1 \in 2 .. L - 1
      /\ L = 2 => L - 1 = 1
      /\ L \in 1..L /\ L - 1 + 1 = L
      /\ \A i \in 2 .. L - 1 : /\ i \in 1 .. L - 1 /\ i # 1
                               /\ i + 1 \in 1..L /\ i + 1 # 1 /\ i + 1 # 2
      /\ \A i \in 1..L : i = 1 \/ i = 2 \/ (i - 1 \in 2 .. L - 1 /\ i - 1 + 1 = i)
      /\ \A i \in 1 .. L - 1 : i = 1 \/ i \in 2 .. L - 1
  BY <1>1, Shorter, Zenon
<1>3. \A i \in 1 .. L - 1 : u[i] = IF i = 1 THEN Head0 ELSE t[i + 1]
  BY Zenon DEF WithoutFirst
<1>4. u[1] = Head0 /\ \A i \in 2 .. L - 1 : u[i] = t[i + 1]
  BY <1>2, <1>3, Zenon
<1>5. u \in Seq(Nodes) /\ Len(u) = L - 1
  <2>1. \A i \in 1 .. L - 1 : u[i] \in Nodes
    BY <1>1, <1>2, <1>4, Zenon
  <2>2. u = [i \in 1 .. L - 1 |-> u[i]]
    BY Zenon DEF WithoutFirst
  <2> HIDE DEF u, L
  <2>3. u \in [1 .. L - 1 -> Nodes] /\ L - 1 \in Nat
    BY <1>2, <2>1, <2>2
  <2>4. u \in Seq(Nodes)
    BY <2>3, FunctionIsSeq
  <2>5. QED
    BY <2>3, <2>4, LenProperties
<1> HIDE DEF u
<1>6. \A i, j \in 1..L : t[i] = t[j] => i = j
  BY DEF Threaded
<1>7. \A i \in 2 .. L - 1 : /\ t[i + 1] \in Nodes /\ t[i + 1] # Head0
                           /\ t[i + 1] # t[2]
  BY <1>1, <1>2, <1>6, Zenon
<1>8. \A i, j \in 1 .. L - 1 : u[i] = u[j] => i = j
  <2>1. ASSUME NEW i \in 2 .. L - 1, NEW j \in 2 .. L - 1, u[i] = u[j] PROVE i = j
    <3>1. i + 1 = j + 1
      <4>1. t[i + 1] = t[j + 1]
        BY <1>4, <2>1, Zenon
      <4>2. i + 1 \in 1..L /\ j + 1 \in 1..L
        BY <1>2, Zenon
      <4>3. QED
        BY <1>6, <4>1, <4>2, Zenon
    <3>2. i \in Nat /\ j \in Nat
      <4> HIDE DEF L
      <4>1. L - 1 \in Int
        BY <1>2
      <4>2. QED
        BY <4>1
    <3>3. QED
      BY <3>1, <3>2, SameSuccessor, Zenon
  <2>2. \A i \in 2 .. L - 1 : u[i] # u[1]
    BY <1>4, <1>7, Zenon
  <2>3. QED
    BY <1>2, <2>1, <2>2, Zenon
<1>9. /\ next' \in [Nodes -> Nodes \cup Loose] /\ prev' \in [Nodes -> Nodes \cup Loose]
      /\ next'[Head0] = next[t[2]] /\ next'[t[2]] = NULL /\ prev'[t[2]] = NULL
      /\ next[t[2]] \in Nodes /\ next[t[2]] # t[2] => prev'[next[t[2]]] = Head0
      /\ \A n \in Nodes : n # Head0 /\ n # t[2] => next'[n] = next[n]
      /\ \A n \in Nodes : n # t[2] /\ n # next[t[2]] => prev'[n] = prev[n]
  BY RemoveLinks, Zenon
<1>10. \A i \in 1 .. L - 1 : next[t[i]] = t[i + 1] /\ prev[t[i + 1]] = t[i]
  BY DEF Threaded
<1>11. /\ L = 2 => next[t[2]] = NULL
       /\ L # 2 => /\ next[t[2]] = t[3] /\ t[3] \in Nodes /\ t[3] # t[2]
                   /\ t[3] # Head0
  <2>1. L = 2 => next[t[2]] = NULL
    BY LooseIs, Zenon DEF Threaded
  <2>2. ASSUME L # 2 PROVE next[t[2]] = t[2 + 1] /\ 2 \in 2 .. L - 1
    <3>1. 2 \in 1 .. L - 1
      BY <1>2, <2>2, Zenon
    <3>2. next[t[2]] = t[2 + 1]
      BY <1>10, <3>1, Zenon
    <3>3. 2 \in 2 .. L - 1
      BY <1>2, <3>1, Zenon
    <3>4. QED
      BY <3>2, <3>3, Zenon
  <2>3. QED
    BY <1>2, <1>7, <2>1, <2>2, Zenon
<1>12. \A i \in 1 .. L - 2 : next'[u[i]] = u[i + 1] /\ prev'[u[i + 1]] = u[i]
  <2> SUFFICES ASSUME NEW i \in 1 .. L - 2
               PROVE  next'[u[i]] = u[i + 1] /\ prev'[u[i + 1]] = u[i]
    BY Zenon
  <2>1. CASE i = 1
    <3>1. L # 2 /\ 1 + 1 = 2 /\ 2 \in 2 .. L - 1
      <4> HIDE DEF L
      <4>1. L \in Nat
        BY <1>1
      <4>2. QED
        BY <2>1, <4>1
    <3>2. u[2] = t[2 + 1] /\ 2 + 1 = 3
      BY <1>2, <1>4, <3>1, Zenon
    <3>3. next'[Head0] = t[3] /\ prev'[t[3]] = Head0
      BY <1>9, <1>11, <3>1, Zenon
    <3>4. i + 1 = 2
      BY <2>1
    <3>5. QED
      BY <1>4, <2>1, <3>2, <3>3, <3>4, Zenon
  <2>2. CASE i # 1
    <3>1. /\ i \in 2 .. L - 1 /\ i + 1 \in 2 .. L - 1 /\ i + 1 \in 1 .. L - 1
          /\ i + 1 + 1 \in 1..L /\ i + 1 + 1 # 1 /\ i + 1 + 1 # 2 /\ i + 1 + 1 # 3
          /\ 2 \in 1..L /\ 3 \in 1..L /\ L # 2
      BY <1>1, <2>2, InnerIndex, Zenon
    <3>2. u[i] = t[i + 1] /\ u[i + 1] = t[i + 1 + 1]
      BY <1>4, <3>1, Zenon
    <3>3. next'[t[i + 1]] = t[i + 1 + 1]
      <4>1. next'[t[i + 1]] = next[t[i + 1]]
        BY <1>7, <1>9, <3>1, Zenon
      <4>2. next[t[i + 1]] = t[i + 1 + 1]
        BY <1>10, <3>1, Zenon
      <4>3. QED
        BY <4>1, <4>2, Zenon
    <3>4. prev'[t[i + 1 + 1]] = t[i + 1]
      <4>1. t[i + 1 + 1] \in Nodes /\ t[i + 1 + 1] # t[2] /\ t[i + 1 + 1] # t[3]
        BY <1>1, <1>6, <3>1, Zenon
      <4>2. prev'[t[i + 1 + 1]] = prev[t[i + 1 + 1]]
        BY <1>9, <1>11, <3>1, <4>1, Zenon
      <4>3. prev[t[i + 1 + 1]] = t[i + 1]
        BY <1>10, <3>1, Zenon
      <4>4. QED
        BY <4>2, <4>3, Zenon
    <3>5. QED
      BY <3>2, <3>3, <3>4, Zenon
  <2>3. QED
    BY <2>1, <2>2, Zenon
<1>13. next'[u[L - 1]] \in Loose /\ (L - 1 = 1 => next'[Head0] = NULL)
  <2>1. CASE L = 2
    <3>1. NULL \in Loose
      BY DEF Loose
    <3>2. QED
      BY <1>2, <1>4, <1>9, <1>11, <2>1, <3>1, Zenon
  <2>2. CASE L # 2
    <3>1. L - 1 \in 2 .. L - 1 /\ L - 1 + 1 = L
      BY <1>2, <2>2, Zenon
    <3>2. u[L - 1] = t[L - 1 + 1] /\ next'[t[L - 1 + 1]] = next[t[L - 1 + 1]]
      BY <1>4, <1>7, <1>9, <3>1, Zenon
    <3>3. next[t[L]] \in Loose
      BY DEF Threaded
    <3>4. t[L - 1 + 1] = t[L]
      BY <3>1, Zenon
    <3>5. L - 1 # 1
      BY <1>2, <2>2, Zenon
    <3>6. QED
      BY <3>2, <3>3, <3>4, <3>5, Zenon
  <2>3. QED
    BY <2>1, <2>2, Zenon
<1>14. \A n \in Nodes : (\A i \in 1 .. L - 1 : u[i] # n) => next'[n] \in Loose /\ prev'[n] \in Loose
  <2> SUFFICES ASSUME NEW n \in Nodes, \A i \in 1 .. L - 1 : u[i] # n
               PROVE  next'[n] \in Loose /\ prev'[n] \in Loose
    BY Zenon
  <2>1. CASE n = t[2]
    BY <1>9, <2>1, Zenon DEF Loose
  <2>2. CASE n # t[2]
    <3>1. n # Head0
      BY <1>2, <1>4, Zenon
    <3>2. ASSUME NEW i \in 2 .. L - 1 PROVE t[i + 1] # n
      <4>1. i \in 1 .. L - 1
        BY <1>2, Zenon
      <4>2. u[i] # n
        BY <4>1, Zenon
      <4>3. u[i] = t[i + 1]
        BY <1>4, Zenon
      <4>4. QED
        BY <4>2, <4>3, Zenon
    <3>3. \A i \in 1..L : t[i] # n
      <4>1. ASSUME NEW i \in 1..L, i - 1 \in 2 .. L - 1, i - 1 + 1 = i PROVE t[i] # n
        <5>1. t[i - 1 + 1] # n
          BY <3>2, <4>1, Zenon
        <5>2. t[i - 1 + 1] = t[i]
          BY <4>1, Zenon
        <5>3. QED
          BY <5>1, <5>2, Zenon
      <4>2. QED
        BY <1>1, <1>2, <2>2, <3>1, <4>1, Zenon
    <3>4. next[n] \in Loose /\ prev[n] \in Loose
      BY <3>3, Zenon DEF Threaded
    <3>5. n # next[t[2]]
      <4>1. L # 2 => t[3] # n
        BY <1>2, <3>3, Zenon
      <4>2. NULL \notin Nodes
        BY NodesAssumption
      <4>3. QED
        BY <1>11, <4>1, <4>2, Zenon
    <3>6. QED
      BY <1>9, <2>2, <3>1, <3>4, <3>5, Zenon
  <2>3. QED
    BY <2>1, <2>2, Zenon
<1>15. Threaded(u, next', prev')
  <2>1. \A i \in 1 .. Len(u) - 1 : next'[u[i]] = u[i + 1] /\ prev'[u[i + 1]] = u[i]
    <3>1. Len(u) - 1 = L - 2
      BY <1>2, <1>5, Zenon
    <3>2. 1 .. Len(u) - 1 = 1 .. L - 2
      BY <3>1
    <3>3. QED
      BY <1>12, <3>2
  <2>2. 1 <= Len(u) /\ next'[u[Len(u)]] \in Loose /\ (Len(u) = 1 => next'[Head0] = NULL)
    BY <1>2, <1>5, <1>13, Zenon
  <2>3. \A i, j \in 1..Len(u) : u[i] = u[j] => i = j
    BY <1>5, <1>8, Zenon
  <2>4. \A n \in Nodes : (\A i \in 1..Len(u) : u[i] # n) => next'[n] \in Loose /\ prev'[n] \in Loose
    BY <1>5, <1>14, Zenon
  <2>5. QED
    BY <1>4, <1>5, <1>9, <2>1, <2>2, <2>3, <2>4, Zenon DEF Threaded
<1>16. QED
  BY <1>5, <1>15 DEF u

LEMMA ListAfterInsert ==
  ASSUME NEW t \in Seq(Nodes), 1 <= Len(t), t[1] = Head0, NEW w \in Nodes,
         WithFirst(t, w) \in Seq(Nodes)
  PROVE  Behind(WithFirst(t, w)) = <<w>> \o Behind(t)
<1> DEFINE u == WithFirst(t, w)
           L == Len(t)
           r == <<w>> \o Behind(t)
<1>1. L \in Nat /\ 1 <= L
  BY LenProperties
<1>2. \A i \in 1 .. L + 1 : u[i] = IF i = 1 THEN Head0 ELSE IF i = 2 THEN w ELSE t[i - 1]
  BY Zenon DEF WithFirst
<1>3. DOMAIN u = 1 .. L + 1
  BY Zenon DEF WithFirst
<1> HIDE DEF u
<1>4. Len(u) = L + 1
  <2>1. u \in Seq(Nodes)
    BY DEF u
  <2>2. DOMAIN u = 1..Len(u) /\ Len(u) \in Nat
    BY <2>1, LenProperties
  <2>3. L + 1 \in Nat
    BY <1>1
  <2> HIDE DEF L
  <2>4. QED
    BY <1>3, <2>2, <2>3
<1>5. u[1] = Head0
  BY <1>1, <1>2
<1>6. /\ Behind(u) \in Seq(Nodes) /\ Len(Behind(u)) = L
      /\ \A i \in 1..L : Behind(u)[i] = u[i + 1]
  <2>1. u \in Seq(Nodes)
    BY DEF u
  <2>2. 1 <= Len(u) /\ Len(u) - 1 = L
    BY <1>1, <1>4
  <2>3. /\ Behind(u) \in Seq(Nodes) /\ Len(Behind(u)) = Len(u) - 1
        /\ \A i \in 1 .. Len(u) - 1 : Behind(u)[i] = u[i + 1]
    BY <1>5, <2>1, <2>2, BehindIs, Zenon
  <2>4. 1 .. Len(u) - 1 = 1..L
    BY <2>2
  <2>5. QED
    BY <2>2, <2>3, <2>4
<1>7. /\ Behind(t) \in Seq(Nodes) /\ Len(Behind(t)) = L - 1
      /\ \A i \in 1 .. L - 1 : Behind(t)[i] = t[i + 1]
  BY BehindIs, Zenon
<1>8. <<w>> \in Seq(Nodes) /\ Len(<<w>>) = 1 /\ <<w>>[1] = w
  OBVIOUS
<1>9. /\ r \in Seq(Nodes) /\ Len(r) = 1 + (L - 1)
      /\ \A i \in 1 .. 1 + (L - 1) : r[i] = IF i <= 1 THEN <<w>>[i] ELSE Behind(t)[i - 1]
  BY <1>7, <1>8, ConcatProperties
<1>10. 1 + (L - 1) = L
  BY <1>1
<1> HIDE DEF r
<1>11. ASSUME NEW i \in 1..L PROVE Behind(u)[i] = r[i]
  <2>1. Behind(u)[i] = u[i + 1] /\ r[i] = IF i <= 1 THEN <<w>>[i] ELSE Behind(t)[i - 1]
    BY <1>6, <1>9, <1>10, Zenon
  <2>2. CASE i = 1
    <3>1. i + 1 = 2 /\ 2 \in 1 .. L + 1 /\ 2 # 1 /\ i <= 1
      BY <1>1, <2>2
    <3>2. u[i + 1] = w
      BY <1>2, <3>1, Zenon
    <3>3. QED
      BY <1>8, <2>1, <2>2, <3>1, <3>2, Zenon
  <2>3. CASE i # 1
    <3>1. /\ i + 1 \in 1 .. L + 1 /\ i + 1 # 1 /\ i + 1 # 2 /\ i + 1 - 1 = i
          /\ ~ (i <= 1) /\ i - 1 \in 1 .. L - 1 /\ i - 1 + 1 = i
      BY <1>1, <2>3
    <3>2. u[i + 1] = t[i + 1 - 1]
      BY <1>2, <3>1
    <3>3. Behind(t)[i - 1] = t[i - 1 + 1]
      BY <1>7, <3>1
    <3>4. QED
      BY <2>1, <3>1, <3>2, <3>3, Zenon
  <2>4. QED
    BY <2>2, <2>3
<1>12. Behind(u) = r
  BY <1>6, <1>9, <1>10, <1>11, SeqEqual
<1>13. QED
  BY <1>12 DEF u, r

LEMMA ListAfterRemove ==
  ASSUME NEW t \in Seq(Nodes), 1 <= Len(t), Len(t) # 1, t[1] = Head0,
         WithoutFirst(t) \in Seq(Nodes), Len(WithoutFirst(t)) = Len(t) - 1
  PROVE  /\ Behind(t) # <<>> /\ Behind(t)[1] = t[2]
         /\ Behind(WithoutFirst(t)) = Tail(Behind(t))
<1> DEFINE u == WithoutFirst(t)
           L == Len(t)
           b == Behind(t)
<1>1. L \in Nat /\ 2 <= L
  BY LenProperties, NotOne, Zenon
<1>2. \A i \in 1 .. L - 1 : u[i] = IF i = 1 THEN Head0 ELSE t[i + 1]
  BY Zenon DEF WithoutFirst
<1>3. u \in Seq(Nodes) /\ Len(u) = L - 1
  OBVIOUS
<1> HIDE DEF u
<1>4. b \in Seq(Nodes) /\ Len(b) = L - 1 /\ \A i \in 1 .. L - 1 : b[i] = t[i + 1]
  BY BehindIs, Zenon
<1> HIDE DEF b
<1>5. b # <<>> /\ b[1] = t[2]
  <2>1. L - 1 # 0 /\ 1 \in 1 .. L - 1 /\ 1 + 1 = 2
    BY <1>1
  <2>2. b[1] = t[2]
    BY <1>4, <2>1
  <2>3. Len(<<>>) = 0
    OBVIOUS
  <2>4. QED
    BY <1>4, <2>1, <2>2, <2>3, Zenon
<1>6. /\ Tail(b) \in Seq(Nodes) /\ Len(Tail(b)) = Len(b) - 1
      /\ \A i \in 1..Len(Tail(b)) : Tail(b)[i] = b[i + 1]
  BY <1>4, <1>5, HeadTailProperties
<1>7. 1 <= L - 1 /\ 1 \in 1 .. L - 1 /\ u[1] = Head0
  BY <1>1, <1>2
<1>8. /\ Behind(u) \in Seq(Nodes) /\ Len(Behind(u)) = Len(u) - 1
      /\ \A i \in 1 .. Len(u) - 1 : Behind(u)[i] = u[i + 1]
  BY <1>3, <1>7, BehindIs, Zenon
<1>9. Len(Tail(b)) = L - 1 - 1 /\ Len(Behind(u)) = L - 1 - 1
  BY <1>3, <1>4, <1>6, <1>8, Zenon
<1>10. ASSUME NEW i \in 1 .. L - 1 - 1 PROVE Behind(u)[i] = Tail(b)[i]
  <2>1. i + 1 \in 1 .. L - 1 /\ i + 1 # 1
    BY <1>1
  <2>2. u[i + 1] = t[i + 1 + 1] /\ b[i + 1] = t[i + 1 + 1]
    BY <1>2, <1>4, <2>1, Zenon
  <2>3. Behind(u)[i] = u[i + 1] /\ Tail(b)[i] = b[i + 1]
    BY <1>3, <1>6, <1>8, <1>9, Zenon
  <2>4. QED
    BY <2>2, <2>3, Zenon
<1>11. Behind(u) = Tail(b)
  BY <1>6, <1>8, <1>9, <1>10, SeqEqual
<1>12. QED
  BY <1>5, <1>11 DEF u, b

LEMMA ListStart == ASSUME ListInit PROVE ListInv
<1> DEFINE t == <<Head0>>
<1>1. /\ Head0 \in Nodes
      /\ t \in Seq(Nodes) /\ Len(t) = 1 /\ t[1] = Head0
  BY DEF Nodes
<1> HIDE DEF t
<1>2. ASSUME NEW f \in MallocLinks
      PROVE  /\ f \in [Nodes -> Nodes \cup Loose] /\ f[Head0] = NULL
             /\ \A n \in Nodes : f[n] \in Loose
  <2>1. /\ f \in [Nodes -> {NULL, WILD}] /\ f[Head0] = NULL
        /\ \A w \in Threads : f[w] \in InitialLinks
    BY Zenon DEF MallocLinks
  <2>2. \A n \in Nodes : f[n] \in Loose
    BY <2>1, Zenon DEF Nodes, Loose
  <2>3. QED
    BY <2>1, <2>2
<1>3. next \in MallocLinks /\ prev \in MallocLinks /\ removed = NULL /\ undef = FALSE
  BY DEF ListInit
<1>4. /\ next \in [Nodes -> Nodes \cup Loose] /\ prev \in [Nodes -> Nodes \cup Loose]
      /\ next[Head0] = NULL
      /\ \A n \in Nodes : next[n] \in Loose /\ prev[n] \in Loose
  BY <1>2, <1>3, Zenon
<1>5. /\ 1 <= Len(t)
      /\ \A i, j \in 1..Len(t) : i = j
      /\ \A i \in 1 .. Len(t) - 1 : FALSE
  BY <1>1
<1>6. Threaded(t, next, prev)
  BY <1>1, <1>4, <1>5, Zenon DEF Threaded
<1>7. OutOfList(t)
  BY <1>3 DEF OutOfList
<1>8. QED
  BY <1>3, <1>6, <1>7, Zenon DEF ListInv

\* A thread outside List is outside the nodes that are linked.
LEMMA NotLinked ==
  ASSUME NEW t, Threaded(t, next, prev), NEW w \in Threads, ~ InList(w)
  PROVE  \A i \in 1..Len(t) : t[i] # w
<1>1. t \in Seq(Nodes) /\ Len(t) \in Nat /\ 1 <= Len(t) /\ t[1] = Head0 /\ w # Head0
  BY LenProperties, NodesAssumption DEF Threaded
<1>2. /\ Behind(t) \in Seq(Nodes) /\ Len(Behind(t)) = Len(t) - 1
      /\ \A i \in 1 .. Len(t) - 1 : Behind(t)[i] = t[i + 1]
  BY <1>1, BehindIs, Zenon
<1>3. DOMAIN Behind(t) = 1 .. Len(t) - 1
  BY <1>2, LenProperties
<1>4. List = Behind(t)
  BY ListIs, Zenon DEF List
<1>5. \A i \in 1 .. Len(t) - 1 : t[i + 1] # w
  BY <1>2, <1>3, <1>4, Zenon DEF InList, Range
<1>6. \A i \in 1..Len(t) : i = 1 \/ (i - 1 \in 1 .. Len(t) - 1 /\ i - 1 + 1 = i)
  BY <1>1
<1>7. QED
  BY <1>1, <1>5, <1>6

\* Each operation keeps the links and acts on List as on a stack.
LEMMA InsertStep ==
  ASSUME ListInv, NEW w \in Threads, InsertThread(w)
  PROVE  ListInv' /\ List' = <<w>> \o List
<1>1. PICK t : Threaded(t, next, prev)
  BY Zenon DEF ListInv, InsertThread
<1>2. /\ \A i \in 1..Len(t) : t[i] # w
      /\ glthread_insert_after(Head0, w) /\ removed' = NULL
      /\ undef' \in BOOLEAN
  BY <1>1, NotLinked, Zenon DEF InsertThread, ListInv
<1>3. Threaded(WithFirst(t, w), next', prev')
  BY <1>1, <1>2, InsertThreaded, Zenon
<1>4. OutOfList(WithFirst(t, w))'
  BY <1>2, Zenon DEF OutOfList
<1>5. List = Behind(t) /\ List' = Behind(WithFirst(t, w))
  BY <1>1, <1>3, ListIs, Zenon DEF List
<1>6. Behind(WithFirst(t, w)) = <<w>> \o Behind(t)
  BY <1>1, <1>3, ListAfterInsert, Zenon DEF Threaded, Nodes
<1>7. QED
  BY <1>2, <1>3, <1>4, <1>5, <1>6, Zenon DEF ListInv

LEMMA DequeueStep ==
  ASSUME ListInv, glthread_dequeue_first
  PROVE  /\ ListInv'
         /\ \/ List # <<>> /\ removed' = List[1] /\ List' = Tail(List)
            \/ List = <<>> /\ removed' = NULL /\ List' = <<>>
            \/ undef' /\ Len(List) = 1 /\ WILD \in InitialLinks
<1>1. PICK t : Threaded(t, next, prev)
  BY Zenon DEF ListInv, glthread_dequeue_first
<1>2. List = Behind(t)
  BY <1>1, ListIs, Zenon DEF List
<1>3. t \in Seq(Nodes) /\ Len(t) \in Nat /\ 1 <= Len(t) /\ t[1] = Head0
  BY <1>1, LenProperties DEF Threaded
<1>4. CASE Len(t) = 1
  <2>1. next[Head0] = NULL
    BY <1>1, <1>4, FirstNode, Zenon
  <2>2. removed' = NULL /\ next' = next /\ prev' = prev /\ undef' \in BOOLEAN
    BY <2>1, Zenon DEF glthread_dequeue_first, ListInv
  <2>3. OutOfList(t)'
    BY <2>2, Zenon DEF OutOfList
  <2>4. Behind(t) = <<>>
    <3>1. 1 < 2 /\ 1 \in Int /\ 2 \in Int
      OBVIOUS
    <3>2. QED
      BY <1>4, <3>1, SubSeqEmpty, Zenon DEF Behind
  <2>5. List' = List
    BY <2>2, Zenon DEF List
  <2>6. ListInv'
    BY <1>1, <2>2, <2>3, Zenon DEF ListInv
  <2>7. QED
    BY <1>2, <2>2, <2>4, <2>5, <2>6, Zenon
<1>5. CASE Len(t) # 1 /\ next[t[2]] # WILD
  <2>1. /\ next[Head0] # NULL /\ next[Head0] = t[2]
        /\ 2 \in 1..Len(t) /\ t[2] \in Nodes /\ t[2] # Head0
    BY <1>1, <1>5, FirstNode, Zenon
  <2>2. glthread_remove(t[2]) /\ removed' = t[2] /\ undef' \in BOOLEAN
    BY <1>5, <2>1, Zenon DEF glthread_dequeue_first, ListInv
  <2>3. /\ Threaded(WithoutFirst(t), next', prev')
        /\ Len(WithoutFirst(t)) = Len(t) - 1
    BY <1>1, <1>5, <2>2, RemoveThreaded, Zenon
  <2>4. List' = Behind(WithoutFirst(t))
    BY <2>3, ListIs, Zenon DEF List
  <2>5. /\ Behind(t) # <<>> /\ Behind(t)[1] = t[2]
        /\ Behind(WithoutFirst(t)) = Tail(Behind(t))
    BY <1>3, <1>5, <2>3, ListAfterRemove, Zenon DEF Threaded
  <2>6. OutOfList(WithoutFirst(t))'
    <3>1. ASSUME NEW i \in 1 .. Len(t) - 1 PROVE WithoutFirst(t)[i] # t[2]
      <4>1. WithoutFirst(t)[i] = IF i = 1 THEN Head0 ELSE t[i + 1]
        BY Zenon DEF WithoutFirst
      <4>2. i # 1 => i + 1 \in 1..Len(t) /\ i + 1 # 2
        BY <1>3
      <4>3. \A j, k \in 1..Len(t) : t[j] = t[k] => j = k
        BY <1>1 DEF Threaded
      <4>4. QED
        BY <2>1, <4>1, <4>2, <4>3, Zenon
    <3>2. next'[t[2]] = NULL /\ prev'[t[2]] = NULL
      BY <1>1, <1>5, <2>2, RemoveLinks, Zenon
    <3>3. QED
      BY <2>1, <2>2, <2>3, <3>1, <3>2, Zenon DEF OutOfList
  <2>7. ListInv'
    BY <2>2, <2>3, <2>6, Zenon DEF ListInv
  <2>8. QED
    BY <1>2, <2>2, <2>4, <2>5, <2>7, Zenon
<1>6. CASE Len(t) # 1 /\ next[t[2]] = WILD
  <2>1. next[Head0] # NULL /\ next[Head0] = t[2] /\ 2 \in 1..Len(t)
    BY <1>1, <1>6, FirstNode, Zenon
  <2>2. undef' = TRUE
    BY <1>6, <2>1, Zenon DEF glthread_dequeue_first
  <2>3. WILD \notin Nodes /\ WILD # NULL
    BY NodesAssumption, LinksAssumption
  <2>4. 2 = Len(t)
    <3>1. PICK i \in 1..Len(t) : i = 2
      BY <2>1, Zenon
    <3>2. i # Len(t) => next[t[i]] \in Nodes
      BY <1>1, ThreadedNext, Zenon
    <3>3. 2 # Len(t) => next[t[2]] \in Nodes
      BY <3>1, <3>2, Zenon
    <3>4. QED
      BY <1>6, <2>3, <3>3, Zenon
  <2>5. WILD \in InitialLinks
    <3>1. next[t[Len(t)]] \in Loose
      BY <1>1 DEF Threaded
    <3>2. QED
      BY <1>6, <2>3, <2>4, <3>1, Zenon DEF Loose
  <2>6. Len(Behind(t)) = 1
    <3>1. Len(Behind(t)) = Len(t) - 1
      BY <1>3, BehindIs, Zenon
    <3>2. QED
      BY <2>4, <3>1
  <2>7. QED
    BY <1>2, <2>2, <2>5, <2>6, Zenon DEF ListInv
<1>7. QED
  BY <1>4, <1>5, <1>6, Zenon

LEMMA ListInvHolds == ListSpec => []ListInv
<1>1. ListInit => ListInv
  BY ListStart
<1>2. ListInv /\ [ListNext]_listVars => ListInv'
  <2>1. ASSUME ListInv, UNCHANGED listVars PROVE ListInv'
    <3>1. next' = next /\ prev' = prev /\ removed' = removed /\ undef' = undef
      BY <2>1 DEF listVars
    <3>2. QED
      BY <2>1, <3>1, Zenon DEF ListInv, OutOfList
  <2>2. QED
    BY <2>1, InsertStep, DequeueStep, Zenon DEF ListNext, ListEnded
<1>3. QED
  BY <1>1, <1>2, PTL DEF ListSpec

\* The links of the pool's list: whatever malloc left in the links that thread_init
\* skips, the number of threads and the order of insertions and removals,
\* following next from the head meets threads only and ends in NULL or in a link
\* nobody wrote, prev leads back, and a thread just removed has no links.
THEOREM ListStaysWellFormed == ListSpec => []ListWellFormed
<1>1. ListSpec => []ListInv
  BY ListInvHolds
<1>2. ListInv => ListWellFormed
  <2> SUFFICES ASSUME ListInv, ~undef PROVE ListWellFormed
    BY Zenon DEF ListWellFormed
  <2>1. PICK t : Threaded(t, next, prev) /\ OutOfList(t)
    BY Zenon DEF ListInv
  <2>2. List = Behind(t)
    BY <2>1, ListIs, Zenon DEF List
  <2>3. <<Head0>> \o List = t
    BY <2>1, <2>2, BehindIs, Zenon DEF Threaded
  <2>4. removed # NULL => next[removed] = NULL /\ prev[removed] = NULL
    BY <2>1, Zenon DEF OutOfList
  <2>5. /\ \A i \in 1 .. Len(t) - 1 : prev[t[i + 1]] = t[i]
        /\ next[t[Len(t)]] \in Loose
    BY <2>1, Zenon DEF Threaded
  <2>6. List = <<>> => next[t[Len(t)]] = NULL
    <3>1. t \in Seq(Nodes) /\ 1 <= Len(t) /\ t[1] = Head0 /\ Len(t) \in Nat
      BY <2>1, LenProperties DEF Threaded
    <3>2. Len(List) = Len(t) - 1
      BY <2>2, <3>1, BehindIs, Zenon
    <3>3. List = <<>> => Len(t) = 1
      BY <3>1, <3>2
    <3>4. Len(t) = 1 => next[Head0] = NULL
      BY <2>1 DEF Threaded
    <3>5. QED
      BY <3>1, <3>3, <3>4, Zenon
  <2>7. QED
    BY <2>3, <2>4, <2>5, <2>6, Zenon DEF ListWellFormed, Loose
<1>3. QED
  BY <1>1, <1>2, PTL

\* The pointer operations of the pool's list implement the stack that
\* thread_pool_get and thread_pool_resuspend use, for any number of threads and
\* whatever malloc left in their links; a link that malloc left is followed at
\* most where a thread is removed that is alone in the list.
THEOREM ListIsStack == ListSpec => StackDiscipline
<1> DEFINE StackStep ==
             \/ \E w \in Threads : List' = <<w>> \o List
             \/ List # <<>> /\ removed' = List[1] /\ List' = Tail(List)
             \/ List = <<>> /\ removed' = NULL /\ List' = <<>>
             \/ undef' /\ Len(List) = 1 /\ WILD \in InitialLinks
<1>1. ListSpec => []ListInv
  BY ListInvHolds
<1>2. ListInv /\ [ListNext]_listVars => [StackStep]_listVars
  BY InsertStep, DequeueStep, Zenon DEF ListNext, ListEnded
<1>3. QED
  BY <1>1, <1>2, PTL DEF ListSpec, StackDiscipline

-----------------------------------------------------------------------------
(* The hash table and the hash set. *)

\* A prime does not divide the product of two numbers below it.
LEMMA Euclid ==
  ASSUME NEW p \in Nat, is_prime(p), NEW b \in 1 .. p - 1, NEW d \in 1 .. p - 1,
         NEW k \in Int, d * b = k * p
  PROVE  FALSE
<1> DEFINE M == {m \in Nat : m > 0 /\ \E j \in Int : m * b = j * p}
<1>1. d \in M
  OBVIOUS
<1>2. PICK m \in M : \A x \in M : m <= x
  BY <1>1, LeastNat
<1>3. PICK j \in Int : m * b = j * p
  OBVIOUS
<1>4. m \in Nat /\ m > 0 /\ m <= d /\ m < p
  BY <1>1, <1>2
<1>5. PICK q \in Nat, r \in 0 .. m - 1 : p = m * q + r
  BY <1>4, ModOf, Zenon
<1>6. r * b = (b - q * j) * p
  <2>1. p * b = (m * q + r) * b
    BY <1>5
  <2>2. (m * q + r) * b = q * (m * b) + r * b
    BY <1>4
  <2>3. q * (m * b) = q * (j * p)
    BY <1>3
  <2>4. r * b = p * b - q * (j * p)
    BY <2>1, <2>2, <2>3, <1>4
  <2>5. p * b - q * (j * p) = (b - q * j) * p
    BY <1>3, <1>4
  <2>6. QED
    BY <2>4, <2>5
<1>7. r = 0
  <2>1. b - q * j \in Int
    OBVIOUS
  <2>2. r > 0 => r \in M
    <3>1. r \in Nat
      BY <1>4
    <3>2. QED
      BY <1>6, <2>1, <3>1, Zenon
  <2>3. QED
    BY <1>2, <1>4, <2>2
<1>8. p = q * m
  BY <1>4, <1>5, <1>7
<1>9. p % m = 0
  BY <1>4, <1>8, Divides
<1>10. m = 1
  <2>1. m \notin 2 .. p - 1
    BY <1>9, Zenon DEF is_prime
  <2>2. QED
    BY <1>4, <2>1
<1>11. b = j * p
  BY <1>3, <1>10
<1>12. j > 0
  BY <1>11
<1>13. j * p >= p
  BY <1>12
<1>14. QED
  BY <1>11, <1>13

-----------------------------------------------------------------------------
\* next_prime finds a prime, and below twice a number that is not 1; that there is
\* one is PrimesAssumption.
LEMMA NextPrimeIs ==
  ASSUME NEW x \in 1..MaxBase
  PROVE  /\ next_prime(x) \in x .. 2 * x /\ is_prime(next_prime(x))
         /\ x >= 2 => next_prime(x) < 2 * x
<1> DEFINE P == {p \in Nat : p >= x /\ is_prime(p)}
           n == next_prime(x)
<1>0. x \in Nat
  BY DeletesAssumption
<1>1. \E p \in P : p \in x .. 2 * x /\ (x >= 2 => p < 2 * x)
  <2>1. CASE x = 1
    <3>1. is_prime(2)
      BY DEF is_prime
    <3>2. 2 \in P /\ 2 \in x .. 2 * x /\ ~ (x >= 2)
      BY <2>1, <3>1
    <3>3. QED
      BY <3>2, Zenon
  <2>2. CASE x # 1
    <3>1. x \in 2..MaxBase
      BY <2>2, DeletesAssumption
    <3>2. PICK p \in x .. 2 * x - 1 : is_prime(p)
      BY <3>1, PrimesAssumption, Zenon
    <3>3. p \in P /\ p \in x .. 2 * x /\ p < 2 * x
      BY <1>0, <3>2
    <3>4. QED
      BY <3>3, Zenon
  <2>3. QED
    BY <2>1, <2>2, Zenon
<1>2. PICK p \in P : \A q \in P : p <= q
  BY <1>1, LeastNat, Zenon
<1>3. p \in x .. 2 * x /\ (x >= 2 => p < 2 * x)
  BY <1>0, <1>1, <1>2
<1>4. \A q \in x .. p - 1 : ~ is_prime(q)
  BY <1>0, <1>2
<1>5. is_prime(p)
  OBVIOUS
<1>6. n \in x .. 2 * x /\ is_prime(n) /\ \A q \in x .. n - 1 : ~ is_prime(q)
  BY <1>3, <1>4, <1>5, Zenon DEF next_prime
<1> HIDE DEF n
<1>7. n = p
  <2>1. n \in P
    BY <1>0, <1>6
  <2>2. p \in Nat /\ n \in Nat /\ p <= n /\ p >= x
    BY <1>2, <2>1
  <2>3. p \notin x .. n - 1
    BY <1>5, <1>6, Zenon
  <2>4. QED
    BY <1>0, <2>2, <2>3
<1>8. QED
  BY <1>3, <1>6, <1>7, Zenon DEF n

-----------------------------------------------------------------------------
(* The probe sequence of a key. *)

\* The step of a key's probe sequence.
StepOf(k, c) == IF HashB[k] % c = 0 THEN 1 ELSE HashB[k] % c

\* Numbers that differ by a multiple have the same remainder.
LEMMA ModShift ==
  ASSUME NEW c \in Nat, c > 0, NEW x \in Int, NEW y \in Int, NEW q \in Int, y = x + q * c
  PROVE  y % c = x % c
<1> DEFINE m == x % c
           n == y % c
<1>1. x = c * (x \div c) + m /\ y = c * (y \div c) + n
  BY DivMod
<1>2. m \in 0 .. c - 1 /\ n \in 0 .. c - 1 /\ x \div c \in Int /\ y \div c \in Int
  OBVIOUS
<1>3. PICK i \in Int, j \in Int : x = c * i + m /\ y = c * j + n
  BY <1>1, <1>2, Zenon
<1> HIDE DEF m, n
<1>4. n - m = c * (i + q - j)
  BY <1>2, <1>3
<1>5. PICK d \in Int : d = i + q - j
  OBVIOUS
<1>6. n - m = c * d
  BY <1>4, <1>5
<1>7. d > 0 => c * d >= c
  OBVIOUS
<1>8. d < 0 => c * d <= -c
  OBVIOUS
<1>9. d = 0
  BY <1>2, <1>5, <1>6, <1>7, <1>8
<1>10. n = m
  BY <1>2, <1>6, <1>9
<1>11. QED
  BY <1>10, Zenon DEF m, n

\* h_resolve_hash in terms of the step, which is never 0, as long as the attempt
\* is inside the array.
LEMMA HashIs ==
  ASSUME NEW k \in Keys, NEW c \in Nat, is_prime(c)
  PROVE  /\ c > 1 /\ HashA[k] % c \in Nat /\ StepOf(k, c) \in 1 .. c - 1
         /\ \A i \in Nat : ~ (h_resolve_hash(k, c, i) < 0) =>
              h_resolve_hash(k, c, i) = ((HashA[k] % c) + i * StepOf(k, c)) % c
<1>1. c > 1 /\ HashA[k] \in Nat /\ HashB[k] \in Nat
  BY HashAssumption DEF is_prime
<1>2. HashA[k] % c \in 0 .. c - 1 /\ HashB[k] % c \in 0 .. c - 1
  BY <1>1, ModOf
<1>3. StepOf(k, c) \in 1 .. c - 1
  BY <1>1, <1>2 DEF StepOf
<1>4. HashA[k] % c \in Nat
  BY <1>1, <1>2
<1>5. PICK e \in Int : h_hash(k, HashA, NegA, c) = (HashA[k] % c) + e * c
  <2>1. h_hash(k, HashA, NegA, c) \in {HashA[k] % c, (HashA[k] % c) - c}
    BY Zenon DEF h_hash
  <2>2. PICK m \in 0 .. c - 1 : m = HashA[k] % c
    BY <1>2, Zenon
  <2>3. m = m + 0 * c /\ m - c = m + (-1) * c /\ 0 \in Int /\ -1 \in Int
    OBVIOUS
  <2>4. QED
    BY <2>1, <2>2, <2>3, Zenon
<1>6. PICK d \in Int : (IF h_hash(k, HashB, NegB, c) = 0 THEN 1 ELSE h_hash(k, HashB, NegB, c))
                       = StepOf(k, c) + d * c
  <2>1. PICK m \in 0 .. c - 1 : m = HashB[k] % c
    BY <1>2, Zenon
  <2>2. /\ m = 0 => h_hash(k, HashB, NegB, c) = m /\ StepOf(k, c) = 1
        /\ m # 0 => h_hash(k, HashB, NegB, c) \in {m, m - c} /\ StepOf(k, c) = m
    BY <2>1, Zenon DEF h_hash, StepOf
  <2>3. /\ m # 0 => m - c # 0
        /\ m = m + 0 * c /\ m - c = m + (-1) * c /\ 1 = 1 + 0 * c /\ 0 \in Int /\ -1 \in Int
    OBVIOUS
  <2>4. QED
    BY <2>2, <2>3, Zenon
<1>7. ASSUME NEW i \in Nat, ~ (h_resolve_hash(k, c, i) < 0)
      PROVE  h_resolve_hash(k, c, i) = ((HashA[k] % c) + i * StepOf(k, c)) % c
  <2>1. PICK a \in Nat, b \in Nat : a = HashA[k] % c /\ b = StepOf(k, c)
    <3>1. \A x \in 1 .. c - 1 : x \in Nat
      OBVIOUS
    <3>2. QED
      BY <1>3, <1>4, <3>1, Zenon
  <2>2. PICK n : n = (a + e * c) + i * (b + d * c)
    OBVIOUS
  <2>3. n \in Int /\ n = (a + i * b) + (e + i * d) * c /\ a + i * b \in Int /\ e + i * d \in Int
    BY <2>2
  <2>4. n % c = (a + i * b) % c
    <3>1. PICK x \in Int, q \in Int : x = a + i * b /\ q = e + i * d
      BY <2>3, Zenon
    <3>2. c > 0
      BY <1>1
    <3>3. n = x + q * c
      BY <2>3, <3>1, Zenon
    <3>4. n % c = x % c
      BY <2>3, <3>2, <3>3, ModShift, Zenon
    <3>5. QED
      BY <3>1, <3>4, Zenon
  <2>5. h_resolve_hash(k, c, i) = Remainder(n, c)
    BY <1>5, <1>6, <2>1, <2>2, Zenon DEF h_resolve_hash
  <2>6. Remainder(n, c) = n % c \/ Remainder(n, c) = (n % c) - c
    BY Zenon DEF Remainder
  <2>7. n % c \in 0 .. c - 1
    BY <1>1, <2>3
  <2>8. (n % c) - c < 0
    BY <2>7
  <2>9. Remainder(n, c) = n % c
    BY <1>7, <2>5, <2>6, <2>8, Zenon
  <2>10. QED
    BY <2>1, <2>4, <2>5, <2>9, Zenon
<1>8. QED
  BY <1>1, <1>3, <1>4, <1>7, Zenon

\* Every attempt looks at a slot of the array, or in front of it.
LEMMA HashInRange ==
  ASSUME NEW k \in Keys, NEW c \in Nat, is_prime(c), NEW i \in Nat,
         ~ (h_resolve_hash(k, c, i) < 0)
  PROVE  h_resolve_hash(k, c, i) \in 0 .. c - 1
<1>1. PICK a \in Nat, b \in Nat : c > 1 /\ h_resolve_hash(k, c, i) = (a + i * b) % c
  <2>1. \A b \in 1 .. c - 1 : b \in Nat
    OBVIOUS
  <2>2. QED
    BY <2>1, HashIs, Zenon
<1>2. a + i * b \in Nat
  OBVIOUS
<1>3. QED
  BY <1>1, <1>2, ModOf

\* Two attempts that look at the same slot differ by a number whose product with
\* the step is a multiple of the capacity: there are none among the first c.
LEMMA Ahead ==
  ASSUME NEW c \in Nat, is_prime(c), NEW a \in Nat, NEW b \in 1 .. c - 1,
         NEW i \in 0 .. c - 1, NEW j \in 0 .. c - 1, i < j,
         (a + i * b) % c = (a + j * b) % c
  PROVE  FALSE
<1>1. c > 0
  OBVIOUS
<1>2. a + i * b \in Nat /\ a + j * b \in Nat
  OBVIOUS
<1>3. PICK q \in Int : (a + j * b) - (a + i * b) = q * c
  BY <1>1, <1>2, SameMod
<1>4. (j - i) * b = q * c
  BY <1>3
<1>5. j - i \in 1 .. c - 1
  OBVIOUS
<1>6. QED
  BY <1>4, <1>5, Euclid

\* Double hashing: the first c attempts of a key look at different slots.
LEMMA ProbesDiffer ==
  ASSUME NEW k \in Keys, NEW c \in Nat, is_prime(c),
         NEW i \in 0 .. c - 1, NEW j \in 0 .. c - 1, ~ (h_resolve_hash(k, c, i) < 0),
         h_resolve_hash(k, c, i) = h_resolve_hash(k, c, j)
  PROVE  i = j
<1>1. PICK a \in Nat, b \in 1 .. c - 1 :
        (a + i * b) % c = (a + j * b) % c
  <2> DEFINE a == HashA[k] % c
             b == StepOf(k, c)
  <2>1. /\ a \in Nat /\ b \in 1 .. c - 1
        /\ \A n \in Nat : ~ (h_resolve_hash(k, c, n) < 0) =>
             h_resolve_hash(k, c, n) = (a + n * b) % c
    BY HashIs, Zenon
  <2>0. i \in Nat /\ j \in Nat
    OBVIOUS
  <2> HIDE DEF a, b
  <2>2. QED
    BY <2>0, <2>1, Zenon
<1>2. ~ (i < j) /\ ~ (j < i)
  BY <1>1, Ahead, Zenon
<1>3. QED
  BY <1>2

\* And so at all of them, if none is outside.
LEMMA ProbesCover ==
  ASSUME NEW k \in Keys, NEW c \in Nat, is_prime(c), NEW x \in 0 .. c - 1,
         \A i \in 0 .. c - 1 : ~ (h_resolve_hash(k, c, i) < 0)
  PROVE  \E i \in 0 .. c - 1 : h_resolve_hash(k, c, i) = x
<1> DEFINE D == 0 .. c - 1
           f == [i \in D |-> h_resolve_hash(k, c, i)]
<1>1. \A i \in D : i \in Nat
  OBVIOUS
<1>2. f \in [D -> D]
  <2>1. \A i \in D : h_resolve_hash(k, c, i) \in D
    BY <1>1, HashInRange, Zenon
  <2> HIDE DEF D
  <2>2. QED
    BY <2>1, Zenon
<1>3. \A i, j \in D : f[i] = f[j] => i = j
  <2>1. \A i, j \in D : h_resolve_hash(k, c, i) = h_resolve_hash(k, c, j) => i = j
    BY ProbesDiffer, Zenon
  <2> HIDE DEF D
  <2>2. QED
    BY <2>1, Zenon
<1>4. IsFiniteSet(D)
  <2>1. 0 \in Int /\ c - 1 \in Int
    OBVIOUS
  <2>2. QED
    BY <2>1, FS_Interval, Zenon
<1>5. f \in Surjection(D, D)
  <2> HIDE DEF D, f
  <2>1. f \in Injection(D, D)
    BY <1>2, <1>3, Zenon DEF Injection, IsInjective
  <2>2. QED
    BY <1>4, <2>1, FS_Injection, Zenon
<1>6. PICK i \in D : f[i] = x
  BY <1>5, Zenon DEF Surjection
<1>7. QED
  BY <1>6, Zenon

-----------------------------------------------------------------------------
(* Tables *)

Vals == Values \cup {"present"}
Recs == {Record(k, v) : k \in Keys, v \in Vals}
Used(s) == {i \in 0 .. s.cap - 1 : ~Free(s.slots[i])}

\* The shape of a table: a prime capacity that goes with the base capacity, and
\* the count of its records.
Slotted(s) ==
  /\ \E b, c, n, f, w : s = [base |-> b, cap |-> c, count |-> n, slots |-> f, wild |-> w]
  /\ s.base \in 1..MaxBase /\ s.cap = next_prime(s.base)
  /\ s.slots \in [0 .. s.cap - 1 -> Recs \cup {EMPTY, SENTINEL}]
  /\ s.count = Cardinality(Used(s))

\* A record is told apart from NULL and from the sentinel.
LEMMA RecordsAre ==
  ASSUME NEW k \in Keys, NEW v \in Vals
  PROVE  /\ Record(k, v) \in Recs /\ ~Free(Record(k, v)) /\ Holds(Record(k, v), k)
         /\ Record(k, v).key = k /\ Record(k, v).value = v
<1>1. Record(k, v).key = k /\ Record(k, v).value = v
  BY DEF Record
<1>2. ~Free(Record(k, v))
  BY SlotsAssumption, Zenon DEF Free, Vals
<1>3. Record(k, v) \in Recs
  BY DEF Recs
<1>4. QED
  BY <1>1, <1>2, <1>3, Zenon DEF Holds

\* What the shape says of the capacity.
LEMMA CapacityIs ==
  ASSUME NEW s, Slotted(s)
  PROVE  /\ s.cap \in Nat /\ s.cap > 1 /\ is_prime(s.cap) /\ s.base \in Nat
         /\ 0 .. s.cap - 1 \subseteq Nat /\ DOMAIN s.slots = 0 .. s.cap - 1
         /\ s.cap >= s.base /\ s.cap <= 2 * s.base
         /\ s.base >= 2 => s.cap < 2 * s.base
<1>1. s.base \in 1..MaxBase /\ s.cap = next_prime(s.base)
  BY DEF Slotted
<1>2. s.cap \in s.base .. 2 * s.base /\ is_prime(s.cap) /\ (s.base >= 2 => s.cap < 2 * s.base)
  BY <1>1, NextPrimeIs, Zenon
<1>3. s.base \in Nat /\ s.cap \in Nat /\ s.cap >= s.base /\ s.cap <= 2 * s.base
  BY <1>1, <1>2, DeletesAssumption
<1>4. s.cap > 1
  BY <1>2 DEF is_prime
<1>5. DOMAIN s.slots = 0 .. s.cap - 1
  BY Zenon DEF Slotted
<1>6. 0 .. s.cap - 1 \subseteq Nat
  OBVIOUS
<1>7. QED
  BY <1>2, <1>3, <1>4, <1>5, <1>6, Zenon

\* The count is bounded by the capacity; below it some slot is free.
LEMMA UsedIs ==
  ASSUME NEW s, Slotted(s)
  PROVE  /\ IsFiniteSet(Used(s)) /\ s.count \in Nat /\ s.count <= s.cap
         /\ s.count < s.cap => \E i \in 0 .. s.cap - 1 : Free(s.slots[i])
<1> DEFINE D == 0 .. s.cap - 1
<1>1. s.cap \in Nat /\ s.cap > 1
  BY CapacityIs
<1>2. 0 \in Int /\ s.cap - 1 \in Int /\ ~ (0 > s.cap - 1) /\ s.cap - 1 - 0 + 1 = s.cap
  BY <1>1
<1>3. IsFiniteSet(D) /\ Cardinality(D) = s.cap
  BY <1>2, FS_Interval, Zenon
<1>4. Used(s) \in SUBSET D
  BY DEF Used
<1>5. IsFiniteSet(Used(s)) /\ Cardinality(Used(s)) <= Cardinality(D)
  BY <1>3, <1>4, FS_Subset, Zenon
<1>6. s.count \in Nat /\ s.count <= s.cap
  BY <1>3, <1>5, FS_CardinalityType, Zenon DEF Slotted
<1>7. ASSUME s.count < s.cap, \A i \in D : ~Free(s.slots[i]) PROVE FALSE
  <2>1. Used(s) = D
    BY <1>7, Zenon DEF Used
  <2>2. s.count = s.cap
    BY <1>3, <2>1, Zenon DEF Slotted
  <2>3. QED
    BY <1>1, <1>7, <2>2
<1>8. QED
  BY <1>5, <1>6, <1>7, Zenon

\* The loops end at a free slot, or outside.
LEMMA StopsThere ==
  ASSUME NEW s, Slotted(s), s.count < s.cap, NEW k \in Keys
  PROVE  Stops(s, k) # {}
<1>1. PICK x \in 0 .. s.cap - 1 : Free(s.slots[x])
  BY UsedIs, Zenon
<1>2. CASE \E i \in 0 .. s.cap - 1 : Outside(s, k, i)
  BY <1>2, Zenon DEF Stops
<1>3. CASE \A i \in 0 .. s.cap - 1 : ~Outside(s, k, i)
  <2>1. PICK i \in 0 .. s.cap - 1 : h_resolve_hash(k, s.cap, i) = x
    BY <1>3, CapacityIs, ProbesCover, Zenon DEF Outside
  <2>2. QED
    BY <1>1, <2>1, Zenon DEF Stops, Slot
<1>4. QED
  BY <1>2, <1>3, Zenon

\* What the CHOOSE of FirstStop chooses.
LEMMA FirstStopIs ==
  ASSUME NEW s, Slotted(s), NEW k \in Keys, Stops(s, k) # {}
  PROVE  /\ FirstStop(s, k) \in Stops(s, k)
         /\ FirstStop(s, k) \in 0 .. s.cap - 1
         /\ \A j \in 0 .. FirstStop(s, k) - 1 : j \notin Stops(s, k)
         /\ ~Leaves(s, k) => h_resolve_hash(k, s.cap, FirstStop(s, k)) \in 0 .. s.cap - 1
<1>1. Stops(s, k) \subseteq Nat /\ Stops(s, k) \subseteq 0 .. s.cap - 1
  BY CapacityIs, Zenon DEF Stops
<1>2. \E i \in Stops(s, k) : \A j \in Stops(s, k) : i <= j
  BY <1>1, LeastNat, Zenon
<1>3. /\ FirstStop(s, k) \in Stops(s, k)
      /\ \A j \in Stops(s, k) : FirstStop(s, k) <= j
  BY <1>2, Zenon DEF FirstStop
<1>4. FirstStop(s, k) \in 0 .. s.cap - 1 /\ FirstStop(s, k) \in Nat
  BY <1>1, <1>3, Zenon
<1>5. \A j \in 0 .. FirstStop(s, k) - 1 : j \notin Stops(s, k)
  BY <1>3, <1>4
<1>6. ~Leaves(s, k) => h_resolve_hash(k, s.cap, FirstStop(s, k)) \in 0 .. s.cap - 1
  BY <1>4, CapacityIs, HashInRange, Zenon DEF Leaves, Outside
<1>7. QED
  BY <1>3, <1>4, <1>5, <1>6, Zenon

\* An attempt that nothing before it stops is the first stop.
LEMMA FirstStopUnique ==
  ASSUME NEW s, Slotted(s), NEW k \in Keys, NEW a \in Stops(s, k),
         \A j \in 0 .. a - 1 : j \notin Stops(s, k)
  PROVE  FirstStop(s, k) = a
<1>1. /\ FirstStop(s, k) \in Stops(s, k) /\ FirstStop(s, k) \in 0 .. s.cap - 1
      /\ \A j \in 0 .. FirstStop(s, k) - 1 : j \notin Stops(s, k)
  BY FirstStopIs, Zenon
<1>2. a \in 0 .. s.cap - 1 /\ s.cap \in Nat
  BY CapacityIs, Zenon DEF Stops
<1>3. FirstStop(s, k) \notin 0 .. a - 1 /\ a \notin 0 .. FirstStop(s, k) - 1
  BY <1>1, Zenon
<1>4. QED
  BY <1>1, <1>2, <1>3

\* What the end of an insertion does to the fields of the table.
LEMMA PlaceIs ==
  ASSUME NEW s, Slotted(s), NEW k \in Keys, NEW v \in Vals, ~Leaves(s, k), NEW at,
         at = h_resolve_hash(k, s.cap, FirstStop(s, k)), at \in 0 .. s.cap - 1
  PROVE  /\ Place(s, k, v).base = s.base /\ Place(s, k, v).cap = s.cap
         /\ Place(s, k, v).wild = s.wild
         /\ \E b, c, n, f, w :
              Place(s, k, v) = [base |-> b, cap |-> c, count |-> n, slots |-> f, wild |-> w]
         /\ Place(s, k, v).count = IF Free(s.slots[at]) THEN s.count + 1 ELSE s.count
         /\ Place(s, k, v).slots =
              IF Free(s.slots[at]) \/ kind = "table"
              THEN [s.slots EXCEPT ![at] = Record(k, v)] ELSE s.slots
<1>1. PICK b, c, n, f, w : s = [base |-> b, cap |-> c, count |-> n, slots |-> f, wild |-> w]
  BY Zenon DEF Slotted
<1>2. s.base = b /\ s.cap = c /\ s.count = n /\ s.slots = f /\ s.wild = w
  BY <1>1
<1> DEFINE r == Place(s, k, v)
           g == [f EXCEPT ![at] = Record(k, v)]
<1>3. CASE Free(s.slots[at])
  <2>1. r = [s EXCEPT !.slots[at] = Record(k, v), !.count = @ + 1]
    BY <1>3, Zenon DEF Place
  <2>2. r = [base |-> b, cap |-> c, count |-> n + 1, slots |-> g, wild |-> w]
    BY <1>1, <2>1
  <2> HIDE DEF r, g
  <2>3. r.base = b /\ r.cap = c /\ r.count = n + 1 /\ r.slots = g /\ r.wild = w
    BY <2>2
  <2>4. QED
    BY <1>2, <1>3, <2>2, <2>3, Zenon DEF r, g
<1>4. CASE ~Free(s.slots[at]) /\ kind = "table"
  <2>1. r = [s EXCEPT !.slots[at] = Record(k, v)]
    BY <1>4, Zenon DEF Place
  <2>2. r = [base |-> b, cap |-> c, count |-> n, slots |-> g, wild |-> w]
    BY <1>1, <2>1
  <2> HIDE DEF r, g
  <2>3. r.base = b /\ r.cap = c /\ r.count = n /\ r.slots = g /\ r.wild = w
    BY <2>2
  <2>4. QED
    BY <1>2, <1>4, <2>2, <2>3, Zenon DEF r, g
<1>5. CASE ~Free(s.slots[at]) /\ kind # "table"
  <2>1. r = s
    BY <1>5, Zenon DEF Place
  <2> HIDE DEF r
  <2>2. QED
    BY <1>1, <1>5, <2>1, Zenon DEF r
<1>6. QED
  BY <1>3, <1>4, <1>5, Zenon

\* An insertion that leaves the array changes nothing else of the table.
LEMMA PlaceLeaves ==
  ASSUME NEW s, Slotted(s), NEW k, NEW v, Leaves(s, k)
  PROVE  /\ Slotted(Place(s, k, v)) /\ Place(s, k, v).wild = TRUE
         /\ Place(s, k, v).base = s.base /\ Place(s, k, v).cap = s.cap
         /\ Place(s, k, v).count = s.count
<1> DEFINE r == Place(s, k, v)
<1>1. PICK b, c, n, f, w : s = [base |-> b, cap |-> c, count |-> n, slots |-> f, wild |-> w]
  BY Zenon DEF Slotted
<1>2. r = [s EXCEPT !.wild = TRUE]
  BY Zenon DEF Place
<1>3. r = [base |-> b, cap |-> c, count |-> n, slots |-> f, wild |-> TRUE]
  BY <1>1, <1>2
<1> HIDE DEF r
<1>4. r.base = s.base /\ r.cap = s.cap /\ r.count = s.count /\ r.slots = s.slots /\ r.wild = TRUE
  BY <1>1, <1>3
<1>5. Used(r) = Used(s)
  BY <1>4, Zenon DEF Used
<1>6. Slotted(r)
  BY <1>3, <1>4, <1>5, Zenon DEF Slotted
<1>7. QED
  BY <1>4, <1>6, Zenon DEF r

\* An insertion keeps the shape, and counts the record it adds.
LEMMA PlaceInside ==
  ASSUME NEW s, Slotted(s), NEW k \in Keys, NEW v \in Vals, Stops(s, k) # {}, ~Leaves(s, k)
  PROVE  /\ Slotted(Place(s, k, v))
         /\ Place(s, k, v).base = s.base /\ Place(s, k, v).cap = s.cap
         /\ Place(s, k, v).count <= s.count + 1
         /\ Place(s, k, v).wild = s.wild
<1> DEFINE at == h_resolve_hash(k, s.cap, FirstStop(s, k))
           r  == Place(s, k, v)
           D  == 0 .. s.cap - 1
           T  == Recs \cup {EMPTY, SENTINEL}
<1>0. at \in D
  BY FirstStopIs, Zenon
<1>1. /\ r.base = s.base /\ r.cap = s.cap
      /\ \E b, c, n, f, w : r = [base |-> b, cap |-> c, count |-> n, slots |-> f, wild |-> w]
      /\ r.count = IF Free(s.slots[at]) THEN s.count + 1 ELSE s.count
      /\ r.slots = IF Free(s.slots[at]) \/ kind = "table"
                   THEN [s.slots EXCEPT ![at] = Record(k, v)] ELSE s.slots
  BY <1>0, PlaceIs, Zenon
<1>2. Record(k, v) \in T /\ ~Free(Record(k, v))
  BY RecordsAre, Zenon
<1>3. /\ s.slots \in [D -> T] /\ s.count = Cardinality(Used(s))
      /\ s.base \in 1..MaxBase /\ s.cap = next_prime(s.base)
  BY Zenon DEF Slotted
<1>4. IsFiniteSet(Used(s)) /\ s.count \in Nat
  BY UsedIs, Zenon
<1> HIDE DEF at, r, D, T
<1>5. r.slots \in [D -> T]
  BY <1>0, <1>1, <1>2, <1>3
<1>6. r.count = Cardinality(Used(r)) /\ r.count <= s.count + 1
  <2>1. CASE Free(s.slots[at])
    <3>1. r.slots = [s.slots EXCEPT ![at] = Record(k, v)] /\ r.count = s.count + 1
      BY <1>1, <2>1, Zenon
    <3>2. \A i : i \in Used(r) <=> i \in Used(s) \cup {at}
      BY <1>0, <1>1, <1>2, <1>3, <3>1, Zenon DEF Used, D
    <3>3. Used(r) = Used(s) \cup {at}
      BY <3>2, Zenon
    <3>4. at \notin Used(s)
      BY <2>1, Zenon DEF Used
    <3>5. Cardinality(Used(r)) = Cardinality(Used(s)) + 1
      BY <1>4, <3>3, <3>4, FS_AddElement, Zenon
    <3>6. r.count = Cardinality(Used(r))
      BY <1>3, <3>1, <3>5, Zenon
    <3>7. QED
      BY <1>4, <3>1, <3>6
  <2>2. CASE ~Free(s.slots[at])
    <3>1. r.count = s.count
      BY <1>1, <2>2, Zenon
    <3>2. \A i : i \in Used(r) <=> i \in Used(s)
      BY <1>0, <1>1, <1>2, <1>3, <2>2, Zenon DEF Used, D
    <3>3. Used(r) = Used(s)
      BY <3>2, Zenon
    <3>4. r.count = Cardinality(Used(r))
      BY <1>3, <3>1, <3>3, Zenon
    <3>5. QED
      BY <1>4, <3>1, <3>4
  <2>3. QED
    BY <2>1, <2>2, Zenon
<1>7. Slotted(r)
  BY <1>1, <1>3, <1>5, <1>6, Zenon DEF Slotted, D, T
<1>8. r.wild = s.wild
  BY <1>0, PlaceIs, Zenon DEF r, at, D
<1>9. QED
  BY <1>1, <1>6, <1>7, <1>8, Zenon DEF r

LEMMA PlaceSlotted ==
  ASSUME NEW s, Slotted(s), NEW k \in Keys, NEW v \in Vals, Stops(s, k) # {}
  PROVE  /\ Slotted(Place(s, k, v))
         /\ Place(s, k, v).base = s.base /\ Place(s, k, v).cap = s.cap
         /\ Place(s, k, v).count <= s.count + 1
         /\ IF Leaves(s, k) THEN Place(s, k, v).wild = TRUE ELSE Place(s, k, v).wild = s.wild
<1>1. CASE Leaves(s, k)
  <2>1. /\ Slotted(Place(s, k, v)) /\ Place(s, k, v).wild = TRUE
        /\ Place(s, k, v).base = s.base /\ Place(s, k, v).cap = s.cap
        /\ Place(s, k, v).count = s.count
    BY <1>1, PlaceLeaves, Zenon
  <2>2. s.count \in Nat
    BY UsedIs, Zenon
  <2>3. Place(s, k, v).count <= s.count + 1
    BY <2>1, <2>2
  <2>4. QED
    BY <1>1, <2>1, <2>3, Zenon
<1>2. CASE ~Leaves(s, k)
  BY <1>2, PlaceInside, Zenon
<1>3. QED
  BY <1>1, <1>2, Zenon

-----------------------------------------------------------------------------
(* What a table says, as long as nothing is deleted. *)

Contents == [Keys -> Vals \cup {EMPTY}]

\* No attempt before the one that looks at slot i stops.
Reached(s, k, i) ==
  \E a \in 0 .. s.cap - 1 : /\ h_resolve_hash(k, s.cap, a) = i
                            /\ \A j \in 0 .. a - 1 : j \notin Stops(s, k)

\* The records are those of c, each where the loops over its key first stop.
Mirrors(s, c) ==
  /\ \A i \in 0 .. s.cap - 1 : s.slots[i] # SENTINEL
  /\ \A k \in Keys : c[k] # EMPTY => \E i \in 0 .. s.cap - 1 : Holds(s.slots[i], k)
  /\ \A k \in Keys, i \in 0 .. s.cap - 1 :
       Holds(s.slots[i], k) =>
         c[k] # EMPTY /\ s.slots[i] = Record(k, c[k]) /\ Reached(s, k, i)

\* The loops stop at the record of a key.
LEMMA ReachedFirst ==
  ASSUME NEW s, Slotted(s), NEW k \in Keys, NEW i \in 0 .. s.cap - 1,
         Free(s.slots[i]) \/ Holds(s.slots[i], k), Reached(s, k, i)
  PROVE  Stops(s, k) # {} /\ h_resolve_hash(k, s.cap, FirstStop(s, k)) = i
<1>1. PICK a \in 0 .. s.cap - 1 : /\ h_resolve_hash(k, s.cap, a) = i
                                  /\ \A j \in 0 .. a - 1 : j \notin Stops(s, k)
  BY Zenon DEF Reached
<1>2. a \in Stops(s, k)
  BY <1>1, Zenon DEF Stops, Slot
<1>3. FirstStop(s, k) = a
  BY <1>1, <1>2, FirstStopUnique, Zenon
<1>4. QED
  BY <1>1, <1>2, <1>3, Zenon

\* An insertion adds its key to what the table says: the record lands where the
\* loops over the key first stop, and it stops no other key earlier.
LEMMA PlaceMirrors ==
  ASSUME NEW s, Slotted(s), NEW k \in Keys, NEW v \in Vals, Stops(s, k) # {}, ~Leaves(s, k),
         NEW c \in Contents, Mirrors(s, c), kind = "table" \/ c[k] \in {EMPTY, v}
  PROVE  Mirrors(Place(s, k, v), [c EXCEPT ![k] = v])
<1> DEFINE at == h_resolve_hash(k, s.cap, FirstStop(s, k))
           r  == Place(s, k, v)
           D  == 0 .. s.cap - 1
           e  == [c EXCEPT ![k] = v]
<1>0. /\ FirstStop(s, k) \in Stops(s, k) /\ FirstStop(s, k) \in D
      /\ \A j \in 0 .. FirstStop(s, k) - 1 : j \notin Stops(s, k)
      /\ at \in D
  BY FirstStopIs, Zenon
<1>1. /\ r.cap = s.cap
      /\ r.slots = IF Free(s.slots[at]) \/ kind = "table"
                   THEN [s.slots EXCEPT ![at] = Record(k, v)] ELSE s.slots
  <2>1. at = h_resolve_hash(k, s.cap, FirstStop(s, k))
    OBVIOUS
  <2> HIDE DEF at
  <2>2. QED
    BY <1>0, <2>1, PlaceIs
<1>2. /\ ~Free(Record(k, v)) /\ Record(k, v).key = k /\ Holds(Record(k, v), k)
      /\ Record(k, v) # SENTINEL
  BY RecordsAre, Zenon DEF Free
<1>3. DOMAIN s.slots = D
      /\ \A x \in Keys, j \in D : ~Outside(s, x, j) => h_resolve_hash(x, s.cap, j) \in D
  BY CapacityIs, HashInRange, Zenon DEF Outside
<1>4. Free(s.slots[at]) \/ Holds(s.slots[at], k)
  BY <1>0, Zenon DEF Stops, Slot, Leaves
<1>5. /\ \A i \in D : s.slots[i] # SENTINEL
      /\ \A x \in Keys : c[x] # EMPTY => \E i \in D : Holds(s.slots[i], x)
      /\ \A x \in Keys, i \in D :
           Holds(s.slots[i], x) =>
             c[x] # EMPTY /\ s.slots[i] = Record(x, c[x]) /\ Reached(s, x, i)
  BY Zenon DEF Mirrors
<1>6. v # EMPTY /\ e[k] = v /\ \A x \in Keys : x # k => e[x] = c[x]
  BY SlotsAssumption, Zenon DEF Contents, Vals
<1> HIDE DEF r, D, e
<1>7. r.slots[at] = Record(k, v) /\ \A i \in D : i # at => r.slots[i] = s.slots[i]
  <2>1. CASE Free(s.slots[at]) \/ kind = "table"
    BY <1>0, <1>1, <1>3, <2>1, Zenon
  <2>2. CASE ~Free(s.slots[at]) /\ kind # "table"
    <3>1. r.slots = s.slots
      BY <1>1, <2>2, Zenon
    <3>2. c[k] # EMPTY /\ s.slots[at] = Record(k, c[k])
      BY <1>0, <1>4, <1>5, <2>2, Zenon
    <3>3. c[k] = v
      BY <2>2, <3>2, Zenon
    <3>4. QED
      BY <3>1, <3>2, <3>3, Zenon
  <2>3. QED
    BY <2>1, <2>2, Zenon
<1>8. ASSUME NEW x \in Keys, NEW j \in Stops(r, x) PROVE j \in Stops(s, x)
  <2>0. /\ j \in D /\ (Outside(r, x, j) <=> Outside(s, x, j))
        /\ Outside(r, x, j) \/ Free(Slot(r, x, j)) \/ Holds(Slot(r, x, j), x)
    BY <1>1, Zenon DEF Stops, D, Outside
  <2>7. CASE Outside(s, x, j)
    BY <2>0, <2>7, Zenon DEF Stops, D
  <2>8. CASE ~Outside(s, x, j)
    <3>1. j \in D /\ h_resolve_hash(x, s.cap, j) \in D
          /\ (Free(Slot(r, x, j)) \/ Holds(Slot(r, x, j), x))
      BY <1>3, <2>0, <2>8, Zenon
    <3>2. Slot(r, x, j) = r.slots[h_resolve_hash(x, s.cap, j)]
      BY <1>1, Zenon DEF Slot
    <3>3. Slot(s, x, j) = s.slots[h_resolve_hash(x, s.cap, j)]
      BY Zenon DEF Slot
    <3>4. CASE h_resolve_hash(x, s.cap, j) = at
      <4>1. Holds(Record(k, v), x)
        BY <1>2, <1>7, <3>1, <3>2, <3>4, Zenon
      <4>2. x = k
        BY <1>2, <4>1, Zenon DEF Holds
      <4>3. QED
        BY <1>4, <3>1, <3>3, <3>4, <4>2, Zenon DEF Stops, D
    <3>5. CASE h_resolve_hash(x, s.cap, j) # at
      BY <1>7, <3>1, <3>2, <3>3, <3>5, Zenon DEF Stops, D
    <3>6. QED
      BY <3>4, <3>5, Zenon
  <2>9. QED
    BY <2>7, <2>8, Zenon
<1>9. \A i \in D : r.slots[i] # SENTINEL
  BY <1>2, <1>5, <1>7, Zenon
<1>10. ASSUME NEW x \in Keys, e[x] # EMPTY PROVE \E i \in D : Holds(r.slots[i], x)
  <2>1. CASE x = k
    BY <1>0, <1>2, <1>7, <2>1, Zenon DEF D
  <2>2. CASE x # k
    <3>1. PICK i \in D : Holds(s.slots[i], x)
      BY <1>5, <1>6, <1>10, <2>2, Zenon
    <3>2. i # at
      BY <1>4, <2>2, <3>1, Zenon DEF Holds
    <3>3. QED
      BY <1>7, <3>1, <3>2, Zenon
  <2>3. QED
    BY <2>1, <2>2, Zenon
<1>11. ASSUME NEW x \in Keys, NEW i \in D, Holds(r.slots[i], x)
       PROVE  e[x] # EMPTY /\ r.slots[i] = Record(x, e[x]) /\ Reached(r, x, i)
  <2>1. CASE i = at
    <3>1. x = k
      BY <1>2, <1>7, <1>11, <2>1, Zenon DEF Holds
    <3>2. Reached(r, k, at)
      BY <1>0, <1>1, <1>8, Zenon DEF Reached, D
    <3>3. QED
      BY <1>6, <1>7, <2>1, <3>1, <3>2, Zenon
  <2>2. CASE i # at
    <3>1. r.slots[i] = s.slots[i] /\ Holds(s.slots[i], x)
      BY <1>7, <1>11, <2>2, Zenon
    <3>2. c[x] # EMPTY /\ s.slots[i] = Record(x, c[x]) /\ Reached(s, x, i)
      BY <1>5, <3>1, Zenon
    <3>3. x # k
      <4>1. x = k => at = i
        BY <3>1, <3>2, ReachedFirst, Zenon DEF D
      <4>2. QED
        BY <2>2, <4>1, Zenon
    <3>4. Reached(r, x, i)
      <4>1. PICK a \in D : /\ h_resolve_hash(x, s.cap, a) = i
                           /\ \A j \in 0 .. a - 1 : j \notin Stops(s, x)
        BY <3>2, Zenon DEF Reached, D
      <4>2. \A j \in 0 .. a - 1 : j \notin Stops(r, x)
        BY <1>8, <4>1, Zenon
      <4>3. QED
        BY <1>1, <4>1, <4>2, Zenon DEF Reached, D
    <3>5. QED
      BY <1>6, <3>1, <3>2, <3>3, <3>4, Zenon
  <2>3. QED
    BY <2>1, <2>2, Zenon
<1>12. Mirrors(r, e)
  BY <1>1, <1>9, <1>10, <1>11, Zenon DEF Mirrors, D
<1>13. QED
  BY <1>12, Zenon DEF r, e

-----------------------------------------------------------------------------
(* New tables, and what a resize moves into one. *)

\* A new table is empty.
LEMMA NewIs ==
  ASSUME NEW b \in 0..MaxBase
  PROVE  /\ Slotted(New(b)) /\ New(b).count = 0
         /\ New(b).base = IF b = 0 THEN DefaultCapacity ELSE b
         /\ \A i \in 0 .. New(b).cap - 1 : New(b).slots[i] = EMPTY
<1> DEFINE d == IF b = 0 THEN DefaultCapacity ELSE b
           c == next_prime(d)
           f == [i \in 0 .. c - 1 |-> EMPTY]
           r == New(b)
<1>1. d \in 1..MaxBase
  BY CapacityAssumption, DeletesAssumption
<1>2. r = [base |-> d, cap |-> c, count |-> 0, slots |-> f, wild |-> FALSE]
  BY Zenon DEF New
<1> HIDE DEF d, c, r
<1>3. r.base = d /\ r.cap = c /\ r.count = 0 /\ r.slots = f
  BY <1>2
<1>4. \A i \in 0 .. r.cap - 1 : r.slots[i] = EMPTY
  BY <1>3, Zenon
<1>5. r.slots \in [0 .. r.cap - 1 -> Recs \cup {EMPTY, SENTINEL}]
  BY <1>3, Zenon
<1>6. Used(r) = {}
  BY <1>4, Zenon DEF Used, Free
<1>7. r.count = Cardinality(Used(r))
  BY <1>3, <1>6, FS_EmptySet, Zenon
<1>8. Slotted(r)
  BY <1>1, <1>2, <1>3, <1>5, <1>7, Zenon DEF Slotted, c
<1>9. QED
  BY <1>3, <1>4, <1>8, Zenon DEF r, d

\* One turn of the loop of ht_resize.
MoveSlot(x, slot) == IF Free(slot) THEN x ELSE Place(x, slot.key, slot.value)

\* The recursive function of Resize exists.
LEMMA ResizeUnfolds ==
  ASSUME NEW s, NEW b, s.cap \in Nat
  PROVE  \E m : /\ Resize(s, b) = m[s.cap] /\ m[0] = New(b)
                /\ \A i \in 0 .. s.cap - 1 : m[i + 1] = MoveSlot(m[i], s.slots[i])
<1> DEFINE L == s.cap
           Turn(i, f) == IF i = 0 THEN New(b) ELSE MoveSlot(f[i - 1], s.slots[i - 1])
           Turns(f) == [i \in 0..L |-> Turn(i, f)]
           moved == CHOOSE f : f = Turns(f)
           S == {n \in 0..L : \E g : \A i \in 0..n : g[i] = Turn(i, g)}
<1>1. Resize(s, b) = moved[L]
  BY DEF Resize, MoveSlot
<1>2. 0 \in S
  <2> DEFINE g == [i \in 0..L |-> New(b)]
  <2>1. 0 \in 0..L /\ \A i \in 0..0 : i = 0
    OBVIOUS
  <2>2. g[0] = Turn(0, g)
    BY <2>1, Zenon
  <2> HIDE DEF g
  <2>3. QED
    BY <2>1, <2>2, Zenon
<1>3. ASSUME NEW n \in 0 .. L - 1, n \in S PROVE n + 1 \in S
  <2>1. PICK g : \A i \in 0..n : g[i] = Turn(i, g)
    BY <1>3, Zenon
  <2> DEFINE h == [i \in 0..L |-> IF i = n + 1 THEN Turn(n + 1, g) ELSE g[i]]
  <2>2. /\ n + 1 \in 0..L /\ n + 1 # 0
        /\ \A i \in 0 .. n + 1 : i # n + 1 => i \in 0..n /\ i \in 0..L
        /\ \A i \in 0 .. n + 1 : i # 0 => i - 1 \in 0..L /\ i - 1 # n + 1
    OBVIOUS
  <2>3. ASSUME NEW i \in 0 .. n + 1 PROVE h[i] = Turn(i, h)
    <3>1. h[i] = Turn(i, g)
      BY <2>1, <2>2, Zenon
    <3>2. i # 0 => h[i - 1] = g[i - 1]
      BY <2>2, Zenon
    <3> HIDE DEF h
    <3>3. QED
      BY <3>1, <3>2, Zenon
  <2> HIDE DEF h
  <2>4. QED
    BY <2>2, <2>3, Zenon
<1>4. \E g : g = Turns(g)
  <2>1. L \in S
    <3> HIDE DEF S
    <3>1. 0..L \subseteq S
      BY <1>2, <1>3, NatInductionIn, Zenon
    <3>2. L \in 0..L
      OBVIOUS
    <3>3. QED
      BY <3>1, <3>2, Zenon
  <2>2. PICK g : \A i \in 0..L : g[i] = Turn(i, g)
    BY <2>1, Zenon
  <2> DEFINE h == [i \in 0..L |-> g[i]]
  <2>3. \A i \in 0..L : i # 0 => i - 1 \in 0..L
    OBVIOUS
  <2>4. \A i \in 0..L : Turn(i, h) = Turn(i, g)
    BY <2>3, Zenon
  <2>5. h = Turns(h)
    <3>1. \A i \in 0..L : h[i] = Turn(i, h)
      BY <2>2, <2>4, Zenon
    <3>2. h = [i \in 0..L |-> h[i]]
      BY Zenon
    <3> HIDE DEF h
    <3>3. [i \in 0..L |-> h[i]] = Turns(h)
      BY <3>1, Zenon
    <3>4. QED
      BY <3>2, <3>3, Zenon
  <2> HIDE DEF h
  <2>6. QED
    BY <2>5, Zenon
<1>5. moved = Turns(moved)
  <2> HIDE DEF Turns
  <2>1. QED
    BY <1>4, Zenon
<1> HIDE DEF moved
<1>6. \A i \in 0..L : moved[i] = Turn(i, moved)
  BY <1>5, Zenon
<1>7. moved[0] = New(b)
  <2>1. 0 \in 0..L
    OBVIOUS
  <2>2. QED
    BY <1>6, <2>1, Zenon
<1>8. ASSUME NEW i \in 0 .. L - 1 PROVE moved[i + 1] = MoveSlot(moved[i], s.slots[i])
  <2>1. PICK n \in 0..L : n = i + 1 /\ n # 0 /\ n - 1 = i
    OBVIOUS
  <2>2. moved[n] = MoveSlot(moved[n - 1], s.slots[n - 1])
    BY <1>6, <2>1, Zenon
  <2>3. QED
    BY <2>1, <2>2, Zenon
<1>9. QED
  BY <1>1, <1>7, <1>8, Zenon

\* The records of the first i slots, and what they say of c.
UsedBelow(s, i) == {j \in Used(s) : j < i}
SeenBelow(s, k, i) == \E j \in 0 .. i - 1 : Holds(s.slots[j], k)
Below(s, c, i) == [k \in Keys |-> IF SeenBelow(s, k, i) THEN c[k] ELSE EMPTY]

\* A record of the table is one of Recs, and can be placed.
LEMMA SlotIsRecord ==
  ASSUME NEW s, Slotted(s), NEW i \in 0 .. s.cap - 1, ~Free(s.slots[i])
  PROVE  /\ s.slots[i].key \in Keys /\ s.slots[i].value \in Vals
         /\ Holds(s.slots[i], s.slots[i].key)
<1>1. s.slots[i] \in Recs
  BY Zenon DEF Slotted, Free
<1>2. PICK k \in Keys, v \in Vals : s.slots[i] = Record(k, v)
  BY <1>1 DEF Recs
<1>3. s.slots[i].key = k /\ s.slots[i].value = v
  BY <1>2 DEF Record
<1>4. QED
  BY <1>2, <1>3, Zenon DEF Holds

\* How the number of records below i grows with i.
LEMMA UsedBelowIs ==
  ASSUME NEW s, Slotted(s), NEW i \in 0 .. s.cap - 1
  PROVE  /\ Cardinality(UsedBelow(s, 0)) = 0
         /\ Cardinality(UsedBelow(s, i)) \in Nat
         /\ Free(s.slots[i]) => UsedBelow(s, i + 1) = UsedBelow(s, i)
         /\ ~Free(s.slots[i]) =>
              /\ Cardinality(UsedBelow(s, i + 1)) = Cardinality(UsedBelow(s, i)) + 1
              /\ Cardinality(UsedBelow(s, i)) < s.count
         /\ Cardinality(UsedBelow(s, s.cap)) <= s.count
<1>1. Used(s) \subseteq 0 .. s.cap - 1 /\ s.cap \in Nat /\ IsFiniteSet(Used(s)) /\ s.count \in Nat
  BY CapacityIs, UsedIs, Zenon DEF Used
<1>2. /\ \A x : UsedBelow(s, x) \in SUBSET Used(s)
      /\ s.count = Cardinality(Used(s))
  BY Zenon DEF UsedBelow, Slotted
<1>3. \A x : /\ IsFiniteSet(UsedBelow(s, x)) /\ Cardinality(UsedBelow(s, x)) \in Nat
             /\ Cardinality(UsedBelow(s, x)) <= s.count
  BY <1>1, <1>2, FS_Subset, FS_CardinalityType, Zenon
<1>4. Cardinality(UsedBelow(s, 0)) = 0
  <2>1. UsedBelow(s, 0) = {}
    BY <1>1 DEF UsedBelow
  <2>2. QED
    BY <2>1, FS_EmptySet, Zenon
<1>5. \A j \in Used(s) : j < i + 1 <=> j < i \/ j = i
  BY <1>1
<1>6. ASSUME Free(s.slots[i]) PROVE UsedBelow(s, i + 1) = UsedBelow(s, i)
  <2>1. i \notin Used(s)
    BY <1>6, Zenon DEF Used
  <2>2. \A j : j \in UsedBelow(s, i + 1) <=> j \in UsedBelow(s, i)
    BY <1>5, <2>1, Zenon DEF UsedBelow
  <2>3. QED
    BY <2>2, Zenon
<1>7. ASSUME ~Free(s.slots[i])
      PROVE  /\ Cardinality(UsedBelow(s, i + 1)) = Cardinality(UsedBelow(s, i)) + 1
             /\ Cardinality(UsedBelow(s, i)) < s.count
  <2>1. i \in Used(s) /\ ~ (i < i)
    BY <1>7 DEF Used
  <2>2. \A j : j \in UsedBelow(s, i + 1) <=> j \in UsedBelow(s, i) \cup {i}
    BY <1>5, <2>1, Zenon DEF UsedBelow
  <2>3. UsedBelow(s, i + 1) = UsedBelow(s, i) \cup {i} /\ i \notin UsedBelow(s, i)
    BY <2>1, <2>2, Zenon DEF UsedBelow
  <2>4. Cardinality(UsedBelow(s, i + 1)) = Cardinality(UsedBelow(s, i)) + 1
    BY <1>3, <2>3, FS_AddElement, Zenon
  <2>5. Cardinality(UsedBelow(s, i)) \in Nat /\ Cardinality(UsedBelow(s, i + 1)) <= s.count
    BY <1>3, Zenon
  <2>6. QED
    BY <1>1, <2>4, <2>5
<1>8. QED
  BY <1>3, <1>4, <1>6, <1>7, Zenon

\* A resize keeps the shape: the records fit into the new table.
LEMMA ResizeSlotted ==
  ASSUME NEW s, Slotted(s), NEW b \in 0..MaxBase, s.count <= New(b).cap,
         NEW m, m[0] = New(b),
         \A i \in 0 .. s.cap - 1 : m[i + 1] = MoveSlot(m[i], s.slots[i]),
         NEW n \in 0 .. s.cap
  PROVE  /\ Slotted(m[n]) /\ m[n].base = New(b).base /\ m[n].cap = New(b).cap
         /\ m[n].count <= Cardinality(UsedBelow(s, n))
<1> DEFINE Q(i) == /\ Slotted(m[i]) /\ m[i].base = New(b).base /\ m[i].cap = New(b).cap
                   /\ m[i].count <= Cardinality(UsedBelow(s, i))
           S == {i \in 0 .. s.cap : Q(i)}
<1>0. s.cap \in Nat /\ 0 \in 0 .. s.cap - 1 /\ 0 \in 0 .. s.cap
  BY CapacityIs
<1>1. 0 \in S
  <2>1. Slotted(m[0]) /\ m[0].count = 0
    BY NewIs, Zenon
  <2>2. Cardinality(UsedBelow(s, 0)) = 0
    BY <1>0, UsedBelowIs, Zenon
  <2>3. m[0].count <= Cardinality(UsedBelow(s, 0))
    BY <2>1, <2>2
  <2>4. QED
    BY <1>0, <2>1, <2>3, Zenon
<1>2. ASSUME NEW i \in 0 .. s.cap - 1, i \in S PROVE i + 1 \in S
  <2>0. Q(i)
    BY <1>2, Zenon
  <2>1. i + 1 \in 0 .. s.cap
    BY <1>0
  <2>2. m[i + 1] = MoveSlot(m[i], s.slots[i])
    OBVIOUS
  <2>3. CASE Free(s.slots[i])
    <3>1. m[i + 1] = m[i] /\ UsedBelow(s, i + 1) = UsedBelow(s, i)
      BY <2>2, <2>3, UsedBelowIs, Zenon DEF MoveSlot
    <3>2. Q(i + 1)
      BY <2>0, <3>1, Zenon
    <3>3. QED
      BY <2>1, <3>2, Zenon
  <2>4. CASE ~Free(s.slots[i])
    <3> DEFINE k == s.slots[i].key
               v == s.slots[i].value
    <3>1. m[i + 1] = Place(m[i], k, v) /\ k \in Keys /\ v \in Vals
      BY <2>2, <2>4, SlotIsRecord, Zenon DEF MoveSlot
    <3>2. /\ Cardinality(UsedBelow(s, i)) \in Nat
          /\ Cardinality(UsedBelow(s, i + 1)) = Cardinality(UsedBelow(s, i)) + 1
          /\ Cardinality(UsedBelow(s, i)) < s.count
      BY <2>4, UsedBelowIs, Zenon
    <3>3. s.count \in Nat /\ m[i].count \in Nat /\ m[i].cap \in Nat
      BY <2>0, UsedIs, CapacityIs, Zenon
    <3>4. m[i].count < m[i].cap
      BY <2>0, <3>2, <3>3
    <3> HIDE DEF k, v
    <3>5. Stops(m[i], k) # {}
      BY <2>0, <3>1, <3>4, StopsThere, Zenon
    <3>6. /\ Slotted(Place(m[i], k, v))
          /\ Place(m[i], k, v).base = m[i].base /\ Place(m[i], k, v).cap = m[i].cap
          /\ Place(m[i], k, v).count <= m[i].count + 1
      BY <2>0, <3>1, <3>5, PlaceSlotted, Zenon
    <3>7. m[i + 1].count <= m[i].count + 1 /\ m[i + 1].count \in Nat
      BY <3>1, <3>6, UsedIs, Zenon
    <3>8. m[i + 1].count <= Cardinality(UsedBelow(s, i + 1))
      BY <2>0, <3>2, <3>3, <3>7
    <3>9. Q(i + 1)
      BY <2>0, <3>1, <3>6, <3>8, Zenon
    <3>10. QED
      BY <2>1, <3>9, Zenon
  <2>5. QED
    BY <2>3, <2>4, Zenon
<1>3. 0 .. s.cap \subseteq S
  <2> HIDE DEF S
  <2>1. QED
    BY <1>0, <1>1, <1>2, NatInductionIn, Zenon
<1>4. QED
  BY <1>3, Zenon

\* ... and what the table says.
LEMMA ResizeMirrors ==
  ASSUME NEW s, Slotted(s), NEW b \in 0..MaxBase, s.count <= New(b).cap,
         NEW m, m[0] = New(b),
         \A i \in 0 .. s.cap - 1 : m[i + 1] = MoveSlot(m[i], s.slots[i]),
         NEW c \in Contents, Mirrors(s, c), ~m[s.cap].wild
  PROVE  Mirrors(m[s.cap], c)
<1> DEFINE B(i) == Below(s, c, i)
           S == {i \in 0 .. s.cap : ~m[i].wild => Mirrors(m[i], B(i))}
<1>0. s.cap \in Nat /\ 0 \in 0 .. s.cap /\ s.cap \in 0 .. s.cap
  BY CapacityIs
<1>1. /\ \A k \in Keys : c[k] # EMPTY => \E i \in 0 .. s.cap - 1 : Holds(s.slots[i], k)
      /\ \A k \in Keys, i \in 0 .. s.cap - 1 :
           Holds(s.slots[i], k) => c[k] # EMPTY /\ s.slots[i] = Record(k, c[k])
  BY Zenon DEF Mirrors
<1>2. 0 \in S
  <2>1. \A i \in 0 .. m[0].cap - 1 : m[0].slots[i] = EMPTY
    <3>1. \A i \in 0 .. New(b).cap - 1 : New(b).slots[i] = EMPTY
      BY NewIs, Zenon
    <3>2. m[0] = New(b)
      OBVIOUS
    <3>3. QED
      BY <3>1, <3>2, Zenon
  <2>2. \A k \in Keys : B(0)[k] = EMPTY
    <3>1. \A j : j \notin 0 .. 0 - 1
      OBVIOUS
    <3>2. QED
      BY <3>1, Zenon DEF Below, SeenBelow
  <2>3. \A k : ~Holds(EMPTY, k)
    BY Zenon DEF Holds, Free
  <2> HIDE DEF B
  <2>4. Mirrors(m[0], B(0))
    BY <2>1, <2>2, <2>3, SlotsAssumption, Zenon DEF Mirrors
  <2>5. QED
    BY <1>0, <2>4, Zenon
<1>3. ASSUME NEW i \in 0 .. s.cap - 1, i \in S PROVE i + 1 \in S
  <2>0. (~m[i].wild => Mirrors(m[i], B(i))) /\ i \in 0 .. s.cap
    BY <1>3, Zenon
  <2>1. /\ i + 1 \in 0 .. s.cap
        /\ \A x : SeenBelow(s, x, i + 1) <=> SeenBelow(s, x, i) \/ Holds(s.slots[i], x)
    <3>1. PICK n \in 0 .. s.cap :
            n = i + 1 /\ \A j : j \in 0 .. n - 1 <=> j \in 0 .. i - 1 \/ j = i
      BY <1>0
    <3>2. \A x : SeenBelow(s, x, n) <=> SeenBelow(s, x, i) \/ Holds(s.slots[i], x)
      BY <3>1, Zenon DEF SeenBelow
    <3>3. QED
      BY <3>1, <3>2, Zenon
  <2>2. m[i + 1] = MoveSlot(m[i], s.slots[i])
    OBVIOUS
  <2>3. CASE Free(s.slots[i])
    <3>1. m[i + 1] = m[i]
      BY <2>2, <2>3, Zenon DEF MoveSlot
    <3>2. \A k \in Keys : SeenBelow(s, k, i + 1) <=> SeenBelow(s, k, i)
      BY <2>1, <2>3, Zenon DEF Holds
    <3>3. B(i + 1) = B(i)
      BY <3>2 DEF Below
    <3> HIDE DEF B
    <3>4. QED
      BY <2>0, <2>1, <3>1, <3>3, Zenon
  <2>4. CASE ~Free(s.slots[i])
    <3> DEFINE k == s.slots[i].key
               v == s.slots[i].value
    <3>1. /\ m[i + 1] = Place(m[i], k, v) /\ k \in Keys /\ v \in Vals
          /\ Holds(s.slots[i], k)
      BY <2>2, <2>4, SlotIsRecord, Zenon DEF MoveSlot
    <3>2. c[k] # EMPTY /\ s.slots[i] = Record(k, c[k])
      BY <1>1, <3>1, Zenon
    <3>3. v = c[k]
      BY <3>2 DEF Record
    <3>4. /\ Slotted(m[i]) /\ m[i].cap = New(b).cap
          /\ m[i].count <= Cardinality(UsedBelow(s, i))
      BY <2>0, ResizeSlotted, Zenon
    <3>5. /\ Cardinality(UsedBelow(s, i)) \in Nat
          /\ Cardinality(UsedBelow(s, i)) < s.count
      BY <2>4, UsedBelowIs, Zenon
    <3>6. s.count \in Nat /\ m[i].count \in Nat /\ m[i].cap \in Nat
      BY <3>4, UsedIs, CapacityIs, Zenon
    <3>7. m[i].count < m[i].cap
      BY <3>4, <3>5, <3>6
    <3> HIDE DEF k, v
    <3>8. Stops(m[i], k) # {}
      BY <3>1, <3>4, <3>7, StopsThere, Zenon
    <3>9. B(i) \in Contents /\ B(i)[k] \in {EMPTY, v}
      BY <3>1, <3>3, Zenon DEF Below, Contents
    <3>10. B(i + 1) = [B(i) EXCEPT ![k] = v]
      <4>1. \A x \in Keys : x # k => (SeenBelow(s, x, i + 1) <=> SeenBelow(s, x, i))
        BY <2>1, <3>1, Zenon DEF Holds
      <4>2. SeenBelow(s, k, i + 1)
        BY <2>1, <3>1, Zenon
      <4>3. \A x \in Keys : B(i + 1)[x] = IF x = k THEN v ELSE B(i)[x]
        BY <3>1, <3>3, <4>1, <4>2 DEF Below
      <4>4. B(i + 1) \in Contents
        BY Zenon DEF Below, Contents
      <4> HIDE DEF B
      <4>5. QED
        BY <3>1, <3>9, <4>3, <4>4 DEF Contents
    <3> HIDE DEF B
    <3>11. ASSUME ~Place(m[i], k, v).wild
           PROVE  Mirrors(Place(m[i], k, v), [B(i) EXCEPT ![k] = v])
      <4>1. ~Leaves(m[i], k) /\ ~m[i].wild
        BY <3>1, <3>4, <3>8, <3>11, PlaceSlotted, Zenon
      <4>2. QED
        BY <2>0, <3>1, <3>4, <3>8, <3>9, <4>1, PlaceMirrors, Zenon
    <3>12. QED
      BY <2>1, <3>1, <3>10, <3>11, Zenon
  <2>5. QED
    BY <2>3, <2>4, Zenon
<1>4. Mirrors(m[s.cap], B(s.cap))
  <2> HIDE DEF B
  <2>1. 0 .. s.cap \subseteq S
    <3> HIDE DEF S
    <3>1. QED
      BY <1>0, <1>2, <1>3, NatInductionIn, Zenon
  <2>2. QED
    BY <1>0, <2>1, Zenon
<1>5. B(s.cap) = c
  <2>1. \A k \in Keys : B(s.cap)[k] = c[k]
    BY <1>1, Zenon DEF Below, SeenBelow
  <2>2. B(s.cap) \in Contents
    BY Zenon DEF Below, Contents
  <2> HIDE DEF B
  <2>3. QED
    BY <2>1, <2>2 DEF Contents
<1> HIDE DEF B
<1>6. QED
  BY <1>4, <1>5, Zenon

\* What a resize does, in all.
LEMMA ResizeIs ==
  ASSUME NEW s, Slotted(s), NEW b \in 0..MaxBase, s.count <= New(b).cap
  PROVE  /\ Slotted(Resize(s, b)) /\ Resize(s, b).count <= s.count
         /\ Resize(s, b).base = New(b).base
         /\ \A c \in Contents : Mirrors(s, c) /\ ~Resize(s, b).wild => Mirrors(Resize(s, b), c)
<1>0. s.cap \in Nat /\ s.cap \in 0 .. s.cap /\ 0 \in 0 .. s.cap - 1
  BY CapacityIs
<1>1. PICK m : /\ Resize(s, b) = m[s.cap] /\ m[0] = New(b)
               /\ \A i \in 0 .. s.cap - 1 : m[i + 1] = MoveSlot(m[i], s.slots[i])
  BY <1>0, ResizeUnfolds, SMT
<1>2. /\ Slotted(m[s.cap]) /\ m[s.cap].base = New(b).base
      /\ m[s.cap].count <= Cardinality(UsedBelow(s, s.cap))
  BY <1>0, <1>1, ResizeSlotted, SMT
<1>3. \A c \in Contents : Mirrors(s, c) /\ ~m[s.cap].wild => Mirrors(m[s.cap], c)
  BY <1>1, ResizeMirrors, Zenon
<1>4. /\ Cardinality(UsedBelow(s, s.cap)) <= s.count
      /\ \A x : Cardinality(UsedBelow(s, x)) \in Nat
  <2>1. Cardinality(UsedBelow(s, s.cap)) <= s.count
    BY <1>0, UsedBelowIs, Zenon
  <2>2. \A x : UsedBelow(s, x) \in SUBSET Used(s)
    BY Zenon DEF UsedBelow
  <2>3. QED
    BY <2>1, <2>2, UsedIs, FS_Subset, FS_CardinalityType, Zenon
<1>5. m[s.cap].count \in Nat /\ s.count \in Nat
  BY <1>2, UsedIs, Zenon
<1>6. m[s.cap].count <= s.count
  <2>1. PICK x \in Nat : x = Cardinality(UsedBelow(s, s.cap))
    BY <1>4, Zenon
  <2>2. m[s.cap].count <= x /\ x <= s.count
    BY <1>2, <1>4, <2>1, Zenon
  <2>3. QED
    BY <1>5, <2>2
<1>7. QED
  BY <1>1, <1>2, <1>3, <1>6, Zenon

\* Percentages, rounded down.
LEMMA LoadIs ==
  ASSUME NEW n \in Nat, NEW c \in Nat, c > 0
  PROVE  /\ (n * 100) \div c > 70 <=> n * 100 >= 71 * c
         /\ (n * 100) \div c < 10 <=> n * 100 < 10 * c
<1>1. PICK q \in Nat, r \in 0 .. c - 1 : q = (n * 100) \div c /\ n * 100 = c * q + r
  <2>1. n * 100 \in Nat
    OBVIOUS
  <2>2. /\ (n * 100) % c \in 0 .. c - 1
        /\ (n * 100) \div c \in Nat /\ n * 100 = c * ((n * 100) \div c) + ((n * 100) % c)
    BY <2>1, ModOf, SMT
  <2>3. QED
    BY <2>2, Zenon
<1>2. c * q <= n * 100 /\ n * 100 < c * q + c
  BY <1>1
<1>3. q > 70 => n * 100 >= 71 * c
  <2>1. q >= 71 => c * q >= c * 71
    OBVIOUS
  <2>2. QED
    BY <1>2, <2>1
<1>4. q <= 70 => n * 100 < 71 * c
  <2>1. q <= 70 => c * q <= c * 70
    OBVIOUS
  <2>2. QED
    BY <1>2, <2>1
<1>5. q < 10 => n * 100 < 10 * c
  <2>1. q <= 9 => c * q <= c * 9
    OBVIOUS
  <2>2. QED
    BY <1>2, <2>1
<1>6. q >= 10 => n * 100 >= 10 * c
  <2>1. q >= 10 => c * q >= c * 10
    OBVIOUS
  <2>2. QED
    BY <1>2, <2>1
<1>7. QED
  BY <1>1, <1>3, <1>4, <1>5, <1>6

\* After the growth of an insertion there is room for its key.
LEMMA GrownIs ==
  ASSUME NEW s, Slotted(s), load(s) > 70 => 2 * s.base <= MaxBase
  PROVE  /\ Slotted(Grown(s)) /\ Grown(s).base >= s.base
         /\ \A c \in Contents : Mirrors(s, c) /\ ~Grown(s).wild => Mirrors(Grown(s), c)
         /\ s.base >= 2 => Grown(s).count < Grown(s).cap
         /\ s.base >= 4 /\ s.count < s.cap => Grown(s).count + 1 < Grown(s).cap
<1>0. /\ s.cap \in Nat /\ s.cap > 1 /\ s.base \in Nat /\ s.base > 0 /\ s.cap >= s.base
      /\ s.cap <= 2 * s.base /\ (s.base >= 2 => s.cap < 2 * s.base)
      /\ s.count \in Nat /\ s.count <= s.cap /\ MaxBase \in Nat
  <2>1. s.base > 0
    BY DeletesAssumption DEF Slotted
  <2>2. QED
    BY <2>1, CapacityIs, UsedIs, DeletesAssumption, Zenon
<1>1. load(s) > 70 <=> s.count * 100 >= 71 * s.cap
  <2>1. s.cap > 0
    BY <1>0
  <2>2. QED
    BY <1>0, <2>1, LoadIs, Zenon DEF load
<1>2. CASE load(s) > 70
  <2> DEFINE b == 2 * s.base
             r == Resize(s, b)
  <2>1. b \in 0..MaxBase /\ b # 0 /\ s.base * 2 = b
    BY <1>0, <1>2
  <2>2. Grown(s) = r
    BY <1>2, <2>1, Zenon DEF Grown
  <2> HIDE DEF b, r
  <2>3. Slotted(New(b)) /\ New(b).base = b
    BY <2>1, NewIs, Zenon
  <2>4. New(b).cap >= b /\ New(b).cap \in Nat
    BY <2>3, CapacityIs, Zenon
  <2>5. s.count <= New(b).cap
    BY <1>0, <2>4 DEF b
  <2>6. /\ Slotted(r) /\ r.count <= s.count /\ r.base = b
        /\ \A c \in Contents : Mirrors(s, c) /\ ~r.wild => Mirrors(r, c)
    BY <2>1, <2>3, <2>5, ResizeIs, Zenon DEF r
  <2>7. r.count \in Nat /\ r.cap \in Nat /\ r.cap >= b /\ r.base \in Nat
    BY <2>6, UsedIs, CapacityIs, Zenon
  <2>8. /\ r.base >= s.base
        /\ s.base >= 2 => r.count < r.cap
        /\ s.base >= 4 /\ s.count < s.cap => r.count + 1 < r.cap
    BY <1>0, <2>6, <2>7 DEF b
  <2>9. QED
    BY <2>2, <2>6, <2>8, Zenon
<1>3. CASE ~ (load(s) > 70)
  <2>1. Grown(s) = s
    BY <1>3, Zenon DEF Grown
  <2>2. /\ s.base >= s.base /\ s.count < s.cap
        /\ s.base >= 4 => s.count + 1 < s.cap
    BY <1>0, <1>1, <1>3
  <2>3. QED
    BY <2>1, <2>2, Zenon
<1>4. QED
  BY <1>2, <1>3, Zenon

\* A deletion only shrinks a table to one that its records fit into.
LEMMA ShrunkIs ==
  ASSUME NEW s, Slotted(s)
  PROVE  Slotted(Shrunk(s))
<1>0. /\ s.cap \in Nat /\ s.cap > 1 /\ s.base \in 1..MaxBase /\ s.base \in Nat
      /\ s.cap <= 2 * s.base /\ s.count \in Nat /\ MaxBase \in Nat
  BY CapacityIs, UsedIs, DeletesAssumption, Zenon DEF Slotted
<1>1. load(s) < 10 <=> s.count * 100 < 10 * s.cap
  <2>1. s.cap > 0
    BY <1>0
  <2>2. QED
    BY <1>0, <2>1, LoadIs, Zenon DEF load
<1>2. CASE load(s) < 10
  <2> DEFINE b == s.base \div 2
  <2>1. b \in 0..MaxBase /\ (s.count <= b \/ s.count = 0)
    BY <1>0, <1>1, <1>2
  <2> HIDE DEF b
  <2>2. Slotted(New(b)) /\ New(b).base = IF b = 0 THEN DefaultCapacity ELSE b
    BY <2>1, NewIs, Zenon
  <2>3. New(b).cap >= New(b).base /\ New(b).cap \in Nat /\ New(b).cap > 1
    BY <2>2, CapacityIs, Zenon
  <2>4. s.count <= New(b).cap
    BY <1>0, <2>1, <2>2, <2>3
  <2>5. QED
    BY <1>2, <2>1, <2>4, ResizeIs, Zenon DEF Shrunk, b
<1>3. CASE ~ (load(s) < 10)
  BY <1>3, Zenon DEF Shrunk
<1>4. QED
  BY <1>2, <1>3, Zenon

\* A deletion takes one record away.
LEMMA RemoveSlotted ==
  ASSUME NEW s, Slotted(s), NEW at \in 0 .. s.cap - 1, ~Free(s.slots[at]),
         NEW mark \in {EMPTY, SENTINEL}
  PROVE  Slotted([s EXCEPT !.slots[at] = mark, !.count = @ - 1])
<1>1. PICK b, c, n, f, w : s = [base |-> b, cap |-> c, count |-> n, slots |-> f, wild |-> w]
  BY Zenon DEF Slotted
<1> DEFINE r == [s EXCEPT !.slots[at] = mark, !.count = @ - 1]
           g == [f EXCEPT ![at] = mark]
           D == 0 .. s.cap - 1
           T == Recs \cup {EMPTY, SENTINEL}
<1>2. s.base = b /\ s.cap = c /\ s.count = n /\ s.slots = f
  BY <1>1
<1>3. r = [base |-> b, cap |-> c, count |-> n - 1, slots |-> g, wild |-> w]
  <2>1. r = [[s EXCEPT !.slots[at] = mark] EXCEPT !.count = @ - 1]
    BY Zenon
  <2>2. [s EXCEPT !.slots[at] = mark] = [base |-> b, cap |-> c, count |-> n, slots |-> g, wild |-> w]
    BY <1>1
  <2>3. [[base |-> b, cap |-> c, count |-> n, slots |-> g, wild |-> w] EXCEPT !.count = @ - 1]
          = [base |-> b, cap |-> c, count |-> n - 1, slots |-> g, wild |-> w]
    OBVIOUS
  <2>4. QED
    BY <2>1, <2>2, <2>3, Zenon
<1> HIDE DEF r, g
<1>4. r.base = b /\ r.cap = c /\ r.count = n - 1 /\ r.slots = g
  BY <1>3
<1>5. f \in [D -> T] /\ mark \in T
  BY <1>2, Zenon DEF Slotted
<1>6. g \in [D -> T] /\ g[at] = mark /\ \A i \in D : i # at => g[i] = f[i]
  <2> HIDE DEF D, T
  <2>1. at \in D
    BY DEF D
  <2>2. QED
    BY <1>5, <2>1 DEF g
<1>7. Free(mark)
  BY Zenon DEF Free
<1>8. \A i : i \in Used(r) <=> i \in Used(s) \ {at}
  BY <1>2, <1>4, <1>6, <1>7, Zenon DEF Used
<1>9. Used(r) = Used(s) \ {at} /\ at \in Used(s)
  BY <1>8, Zenon DEF Used
<1>10. Cardinality(Used(r)) = Cardinality(Used(s)) - 1
  BY <1>9, UsedIs, FS_RemoveElement, Zenon
<1>11. r.count = Cardinality(Used(r))
  BY <1>2, <1>4, <1>10, Zenon DEF Slotted
<1>12. b \in 1..MaxBase /\ c = next_prime(b)
  BY <1>2, Zenon DEF Slotted
<1>13. Slotted(r)
  BY <1>2, <1>3, <1>4, <1>6, <1>11, <1>12, Zenon DEF Slotted
<1>14. QED
  BY <1>13, Zenon DEF r

-----------------------------------------------------------------------------
(* The invariant of the hash table and the hash set. *)

HashTyped ==
  /\ kind \in {"table", "set"} /\ deletes \in Nat
  /\ content \in Contents
  /\ kind = "set" => \A k \in Keys : content[k] \in {EMPTY, "present"}
  /\ Slotted(tab)

\* As long as nothing is deleted: no call loops, the base capacity is one that
\* makes room, and the slots say what was inserted unless a call left the array.
Undeleted ==
  /\ looping = FALSE /\ (~tab.wild => Mirrors(tab, content)) /\ tab.base >= 2
  /\ kind = "table" => tab.base >= 4 /\ tab.count < tab.cap

HashInv == HashTyped /\ (deletes = 0 => Undeleted)

\* ht_init and hs_init establish the invariant.
LEMMA HashInitInv ==
  ASSUME HashInit
  PROVE  HashInv
<1>1. PICK b \in IF kind = "table" THEN {0} ELSE SetCapacities : tab = New(b)
  BY Zenon DEF HashInit
<1>2. b \in 0..MaxBase /\ b # 1 /\ (kind = "table" => b = 0)
  BY <1>1, CapacityAssumption, DeletesAssumption
<1>3. /\ Slotted(tab) /\ tab.count = 0
      /\ tab.base = IF b = 0 THEN DefaultCapacity ELSE b
      /\ \A i \in 0 .. tab.cap - 1 : tab.slots[i] = EMPTY
  BY <1>1, <1>2, NewIs, Zenon
<1>4. kind \in {"table", "set"} /\ deletes \in Nat /\ looping = FALSE
  BY DEF HashInit
<1>5. content \in Contents /\ \A k \in Keys : content[k] = EMPTY
  BY Zenon DEF HashInit, Contents
<1>6. \A k : ~Holds(EMPTY, k)
  BY Zenon DEF Holds, Free
<1>7. Mirrors(tab, content)
  BY <1>3, <1>5, <1>6, SlotsAssumption, Zenon DEF Mirrors
<1>8. tab.base >= 2 /\ (kind = "table" => tab.base >= 4 /\ tab.count < tab.cap)
  <2>1. tab.cap \in Nat /\ tab.cap > 1
    BY <1>3, CapacityIs, Zenon
  <2>2. QED
    BY <1>2, <1>3, <2>1, CapacityAssumption, DeletesAssumption
<1>9. QED
  BY <1>3, <1>4, <1>5, <1>7, <1>8, Zenon DEF HashInv, HashTyped, Undeleted

\* ht_insert and hs_insert keep it.
LEMMA InsertKeepsHash ==
  ASSUME HashInv, NEW k \in Keys, NEW v \in Vals, InsertKey(k, v),
         content' = [content EXCEPT ![k] = v], kind = "set" => v = "present"
  PROVE  HashInv'
<1> DEFINE s == Grown(tab)
<1>0. /\ HashTyped /\ Slotted(tab) /\ content \in Contents /\ ~tab.wild
      /\ load(tab) > 70 => 2 * tab.base <= MaxBase
      /\ kind' = kind /\ deletes' = deletes
      /\ \/ Stops(s, k) = {} /\ looping' = TRUE /\ tab' = s
         \/ Stops(s, k) # {} /\ looping' = FALSE /\ tab' = Place(s, k, v)
  BY Zenon DEF HashInv, HashTyped, InsertKey
<1>1. /\ Slotted(s) /\ s.base >= tab.base
      /\ \A c \in Contents : Mirrors(tab, c) /\ ~s.wild => Mirrors(s, c)
      /\ tab.base >= 2 => s.count < s.cap
      /\ tab.base >= 4 /\ tab.count < tab.cap => s.count + 1 < s.cap
  BY <1>0, GrownIs, Zenon
<1> HIDE DEF s
<1>2. content' \in Contents /\ \A x \in Keys : content'[x] = IF x = k THEN v ELSE content[x]
  <2>1. content' = [content EXCEPT ![k] = v]
    OBVIOUS
  <2>2. QED
    BY <1>0, <2>1 DEF Contents
<1>3. kind' = "set" => \A x \in Keys : content'[x] \in {EMPTY, "present"}
  BY <1>0, <1>2, Zenon DEF HashTyped
<1>4. Slotted(tab)'
  <2>1. CASE Stops(s, k) = {}
    <3>1. tab' = s
      BY <1>0, <2>1, Zenon
    <3>2. QED
      BY <1>1, <3>1, Zenon
  <2>2. CASE Stops(s, k) # {}
    <3>1. tab' = Place(s, k, v)
      BY <1>0, <2>2, Zenon
    <3>2. Slotted(Place(s, k, v))
      BY <1>1, <2>2, PlaceSlotted, Zenon
    <3>3. QED
      BY <3>1, <3>2, Zenon
  <2>3. QED
    BY <2>1, <2>2, Zenon
<1>5. HashTyped'
  BY <1>0, <1>2, <1>3, <1>4, Zenon DEF HashTyped
<1>6. ASSUME deletes' = 0 PROVE Undeleted'
  <2>1. /\ Mirrors(tab, content) /\ tab.base >= 2
        /\ kind = "table" => tab.base >= 4 /\ tab.count < tab.cap
    BY <1>0, <1>6, Zenon DEF HashInv, Undeleted
  <2>2. /\ ~s.wild => Mirrors(s, content)
        /\ s.count < s.cap /\ (kind = "table" => s.count + 1 < s.cap)
    BY <1>0, <1>1, <2>1, Zenon
  <2>3. Stops(s, k) # {}
    BY <1>1, <2>2, StopsThere, Zenon
  <2>4. looping' = FALSE /\ tab' = Place(s, k, v)
    BY <1>0, <2>3, Zenon
  <2>5. kind = "table" \/ content[k] \in {EMPTY, v}
    BY <1>0, Zenon DEF HashTyped
  <2>6. ASSUME ~Place(s, k, v).wild PROVE Mirrors(Place(s, k, v), [content EXCEPT ![k] = v])
    <3>1. ~Leaves(s, k) /\ ~s.wild
      BY <1>1, <2>3, <2>6, PlaceSlotted, Zenon
    <3>2. QED
      BY <1>0, <1>1, <2>2, <2>3, <2>5, <3>1, PlaceMirrors, Zenon
  <2>7. /\ Place(s, k, v).base = s.base /\ Place(s, k, v).cap = s.cap
        /\ Place(s, k, v).count <= s.count + 1 /\ Slotted(Place(s, k, v))
    BY <1>1, <2>3, PlaceSlotted, Zenon
  <2>8. /\ s.count \in Nat /\ s.cap \in Nat /\ s.base \in Nat /\ tab.base \in Nat
        /\ Place(s, k, v).count \in Nat
    BY <1>0, <1>1, <2>7, UsedIs, CapacityIs, Zenon
  <2>9. /\ Place(s, k, v).base >= 2
        /\ kind = "table" => Place(s, k, v).base >= 4 /\ Place(s, k, v).count < Place(s, k, v).cap
    BY <1>1, <2>1, <2>2, <2>7, <2>8
  <2>10. (~tab.wild => Mirrors(tab, content))'
    BY <2>4, <2>6, Zenon
  <2>11. QED
    BY <1>0, <2>4, <2>9, <2>10, Zenon DEF Undeleted
<1>7. QED
  BY <1>5, <1>6, Zenon DEF HashInv

\* ht_delete and hs_delete keep what is left of it.
LEMMA DeleteKeepsHash ==
  ASSUME HashInv, NEW k \in Keys, NEW mark \in {EMPTY, SENTINEL}, DeleteKey(k, mark)
  PROVE  HashInv'
<1> DEFINE s  == Shrunk(tab)
           at == h_resolve_hash(k, s.cap, FirstStop(s, k))
           r  == [s EXCEPT !.slots[at] = mark, !.count = @ - 1]
           l  == [s EXCEPT !.wild = TRUE]
<1>0. /\ HashTyped /\ Slotted(tab) /\ content \in Contents /\ deletes \in Nat
      /\ deletes' = deletes + 1 /\ kind' = kind
      /\ content' = [content EXCEPT ![k] = EMPTY]
      /\ tab' = IF Leaves(s, k) THEN l ELSE IF Found(s, k) THEN r ELSE s
  BY Zenon DEF HashInv, HashTyped, DeleteKey
<1>1. Slotted(s)
  BY <1>0, ShrunkIs, Zenon
<1>2. Slotted(tab')
  <2>1. CASE Found(s, k)
    <3>1. Stops(s, k) # {} /\ ~Leaves(s, k) /\ Holds(Slot(s, k, FirstStop(s, k)), k)
      BY <2>1, Zenon DEF Found
    <3> HIDE DEF s
    <3>2. at \in 0 .. s.cap - 1 /\ ~Free(s.slots[at])
      BY <1>1, <3>1, FirstStopIs, Zenon DEF Holds, Slot
    <3> HIDE DEF at
    <3>3. Slotted(r)
      BY <1>1, <3>2, RemoveSlotted, Zenon
    <3> HIDE DEF r, l
    <3>4. QED
      BY <1>0, <2>1, <3>1, <3>3, Zenon
  <2>2. CASE Leaves(s, k)
    <3>1. Place(s, k, EMPTY) = l
      BY <2>2, Zenon DEF Place
    <3> HIDE DEF s, r, l
    <3>2. Slotted(Place(s, k, EMPTY))
      BY <1>1, <2>2, PlaceLeaves, Zenon
    <3>3. QED
      BY <1>0, <2>2, <3>1, <3>2, Zenon
  <2>3. CASE ~Found(s, k) /\ ~Leaves(s, k)
    <3> HIDE DEF s, r, l
    <3>1. QED
      BY <1>0, <1>1, <2>3, Zenon
  <2>4. QED
    BY <2>1, <2>2, <2>3, Zenon
<1> HIDE DEF s, at, r, l
<1>3. content' \in Contents /\ \A x \in Keys : content'[x] = IF x = k THEN EMPTY ELSE content[x]
  BY <1>0 DEF Contents
<1>4. kind' = "set" => \A x \in Keys : content'[x] \in {EMPTY, "present"}
  BY <1>0, <1>3, Zenon DEF HashTyped
<1>5. deletes' \in Nat /\ deletes' # 0
  BY <1>0
<1>6. QED
  BY <1>0, <1>2, <1>3, <1>4, <1>5, Zenon DEF HashInv, HashTyped

\* The slots of a table or a set always have a prime number, hold records and
\* count them; and until something is deleted they say exactly what was inserted,
\* whatever the keys' hashes, the capacities and the order of the insertions.
THEOREM HashCorrect == HashSpec => []HashInv
<1>1. HashInit => HashInv
  BY HashInitInv
<1>2. HashInv /\ [HashNext]_hashVars => HashInv'
  <2> SUFFICES ASSUME HashInv, [HashNext]_hashVars PROVE HashInv'
    OBVIOUS
  <2>0. "present" \in Vals /\ \A v \in Values : v \in Vals
    BY Zenon DEF Vals
  <2>1. ASSUME NEW k \in Keys, NEW v \in Values, ht_insert(k, v) PROVE HashInv'
    <3>1. kind = "table" /\ InsertKey(k, v) /\ content' = [content EXCEPT ![k] = v]
      BY <2>1, Zenon DEF ht_insert
    <3>2. kind = "set" => v = "present"
      BY <3>1
    <3>3. QED
      BY <2>0, <3>1, <3>2, InsertKeepsHash, Zenon
  <2>2. ASSUME NEW k \in Keys, hs_insert(k) PROVE HashInv'
    BY <2>0, <2>2, InsertKeepsHash, Zenon DEF hs_insert
  <2>3. ASSUME NEW k \in Keys, ht_delete(k) PROVE HashInv'
    BY <2>3, DeleteKeepsHash, Zenon DEF ht_delete
  <2>4. ASSUME NEW k \in Keys, hs_delete(k) PROVE HashInv'
    BY <2>4, DeleteKeepsHash, Zenon DEF hs_delete
  <2>5. CASE UNCHANGED hashVars
    BY <2>5, Zenon DEF hashVars, HashInv, HashTyped, Undeleted, Mirrors, Slotted, Reached,
       Stops, Slot, Used, Outside
  <2>6. QED
    BY <2>1, <2>2, <2>3, <2>4, <2>5, Zenon DEF HashNext, HashEnded
<1>3. QED
  BY <1>1, <1>2, PTL DEF HashSpec

\* The count that ht_insert, hs_insert and the deletions keep is the number of
\* records, through every replacement, deletion and resize.
THEOREM HashCount == HashSpec => []CountIsOccupied
<1>1. HashInv => CountIsOccupied
  <2> SUFFICES ASSUME HashInv PROVE CountIsOccupied
    OBVIOUS
  <2>1. Slotted(tab)
    BY Zenon DEF HashInv, HashTyped
  <2>2. DOMAIN tab.slots = 0 .. tab.cap - 1 /\ tab.count = Cardinality(Used(tab))
    BY <2>1, CapacityIs, Zenon DEF Slotted
  <2>3. QED
    BY <2>2, Zenon DEF CountIsOccupied, Used
<1>2. QED
  BY <1>1, HashCorrect, PTL

\* The unbounded loops of ht_insert, hs_insert and ht_search end: the load that
\* makes an insertion grow the array leaves a free slot, and the probe sequence
\* of a key visits every slot.
THEOREM HashCallsReturn == HashSpec => []CallsReturn
<1>1. HashInv => CallsReturn
  <2> SUFFICES ASSUME HashInv, deletes = 0, ~tab.wild
               PROVE  /\ ~looping
                      /\ kind = "table" => \E i \in DOMAIN tab.slots : tab.slots[i] = EMPTY
    BY Zenon DEF CallsReturn
  <2>1. Slotted(tab) /\ Undeleted
    BY Zenon DEF HashInv, HashTyped
  <2>2. ~looping /\ Mirrors(tab, content) /\ (kind = "table" => tab.count < tab.cap)
    BY <2>1, Zenon DEF Undeleted
  <2>3. DOMAIN tab.slots = 0 .. tab.cap - 1
    BY <2>1, CapacityIs, Zenon
  <2>4. ASSUME kind = "table" PROVE \E i \in 0 .. tab.cap - 1 : tab.slots[i] = EMPTY
    <3>1. PICK i \in 0 .. tab.cap - 1 : Free(tab.slots[i])
      BY <2>1, <2>2, <2>4, UsedIs, Zenon
    <3>2. tab.slots[i] # SENTINEL
      BY <2>2, Zenon DEF Mirrors
    <3>3. QED
      BY <3>1, <3>2, Zenon DEF Free
  <2>5. QED
    BY <2>2, <2>3, <2>4, Zenon
<1>2. QED
  BY <1>1, HashCorrect, PTL

\* ht_search finds what was inserted last for a key and nothing else, through
\* collisions, replacements and resizes.
THEOREM HashTableIsMap == HashSpec => []TableIsMap
<1>1. HashInv => TableIsMap
  <2> SUFFICES ASSUME HashInv, kind = "table", deletes = 0, ~tab.wild,
                      NEW k \in Keys, ~Leaves(tab, k)
               PROVE  ht_search(k) = content[k]
    BY Zenon DEF TableIsMap
  <2>1. Slotted(tab) /\ Undeleted
    BY Zenon DEF HashInv, HashTyped
  <2>2. /\ \A x \in Keys : content[x] # EMPTY => \E i \in 0 .. tab.cap - 1 : Holds(tab.slots[i], x)
        /\ \A x \in Keys, i \in 0 .. tab.cap - 1 :
             Holds(tab.slots[i], x) =>
               content[x] # EMPTY /\ tab.slots[i] = Record(x, content[x]) /\ Reached(tab, x, i)
        /\ tab.count < tab.cap
    BY <2>1, Zenon DEF Undeleted, Mirrors
  <2>3. Stops(tab, k) # {}
    BY <2>1, <2>2, StopsThere, Zenon
  <2>4. CASE content[k] # EMPTY
    <3>1. PICK i \in 0 .. tab.cap - 1 : Holds(tab.slots[i], k)
      BY <2>2, <2>4, Zenon
    <3>2. tab.slots[i] = Record(k, content[k]) /\ Reached(tab, k, i)
      BY <2>2, <3>1, Zenon
    <3>3. h_resolve_hash(k, tab.cap, FirstStop(tab, k)) = i
      BY <2>1, <3>1, <3>2, ReachedFirst, Zenon
    <3>4. Slot(tab, k, FirstStop(tab, k)) = tab.slots[i]
      BY <3>3, Zenon DEF Slot
    <3>5. Found(tab, k)
      BY <2>3, <3>1, <3>4, Zenon DEF Found
    <3>6. Record(k, content[k]).value = content[k]
      BY DEF Record
    <3>7. QED
      BY <2>3, <3>2, <3>4, <3>5, <3>6, Zenon DEF ht_search
  <2>5. CASE content[k] = EMPTY
    <3>1. h_resolve_hash(k, tab.cap, FirstStop(tab, k)) \in 0 .. tab.cap - 1
      BY <2>1, <2>3, FirstStopIs, Zenon
    <3>2. ~Found(tab, k)
      BY <2>2, <2>5, <3>1, Zenon DEF Found, Slot
    <3>3. QED
      BY <2>3, <2>5, <3>2, Zenon DEF ht_search
  <2>6. QED
    BY <2>4, <2>5, Zenon
<1>2. QED
  BY <1>1, HashCorrect, PTL

\* A key is reached within as many attempts as there are records: the attempts
\* before it look at records, all of them in different slots.
LEMMA ReachedInCount ==
  ASSUME NEW s, Slotted(s), NEW k \in Keys, NEW a \in 0 .. s.cap - 1,
         ~Outside(s, k, a), Holds(Slot(s, k, a), k), \A j \in 0 .. a - 1 : j \notin Stops(s, k)
  PROVE  /\ a \in 0 .. s.count - 1
         /\ \A j \in 0 .. a - 1 : ~Free(Slot(s, k, j)) /\ ~Outside(s, k, j)
<1> DEFINE D == 0..a
           f == [j \in D |-> h_resolve_hash(k, s.cap, j)]
<1>0. s.cap \in Nat /\ is_prime(s.cap) /\ IsFiniteSet(Used(s)) /\ s.count \in Nat
  BY CapacityIs, UsedIs, Zenon
<1>1. /\ \A j \in D : j \in 0 .. s.cap - 1 /\ j \in Nat /\ (j = a \/ j \in 0 .. a - 1)
      /\ \A j \in 0 .. a - 1 : j \in 0 .. s.cap - 1
  BY <1>0
<1>2. \A j \in 0 .. a - 1 : ~Free(Slot(s, k, j)) /\ ~Outside(s, k, j)
  BY <1>1, Zenon DEF Stops
<1>3. \A j \in D : ~Free(Slot(s, k, j)) /\ ~Outside(s, k, j)
  BY <1>1, <1>2, Zenon DEF Holds
<1>4. \A j \in D : h_resolve_hash(k, s.cap, j) \in Used(s)
  <2>1. \A j \in D : h_resolve_hash(k, s.cap, j) \in 0 .. s.cap - 1
    BY <1>0, <1>1, <1>3, HashInRange, Zenon DEF Outside
  <2>2. QED
    BY <1>3, <2>1, Zenon DEF Used, Slot
<1>5. \A i, j \in D : h_resolve_hash(k, s.cap, i) = h_resolve_hash(k, s.cap, j) => i = j
  BY <1>0, <1>1, <1>3, ProbesDiffer, Zenon DEF Outside
<1>6. IsFiniteSet(D) /\ Cardinality(D) = a + 1
  <2>1. 0 \in Int /\ a \in Int /\ ~ (0 > a) /\ a - 0 + 1 = a + 1
    OBVIOUS
  <2>2. QED
    BY <2>1, FS_Interval, Zenon
<1> HIDE DEF D
<1>7. f \in Injection(D, Used(s))
  <2>1. f \in [D -> Used(s)] /\ \A i, j \in D : f[i] = f[j] => i = j
    BY <1>4, <1>5, Zenon
  <2> HIDE DEF f
  <2>2. QED
    BY <2>1, Zenon DEF Injection, IsInjective
<1>8. a + 1 <= s.count
  <2> HIDE DEF f
  <2>1. Cardinality(D) <= Cardinality(Used(s))
    BY <1>0, <1>7, FS_Injection, Zenon
  <2>2. QED
    BY <1>6, <2>1, Zenon DEF Slotted
<1>9. a \in 0 .. s.count - 1
  BY <1>0, <1>8
<1>10. QED
  BY <1>2, <1>9, Zenon

\* hs_contains finds exactly the keys inserted although it gives up after as many
\* attempts as there are keys: the attempts before a key look at different slots,
\* each with a record.
THEOREM HashSetIsSet == HashSpec => []SetIsSet
<1>1. HashInv => SetIsSet
  <2> SUFFICES ASSUME HashInv, kind = "set", deletes = 0, ~tab.wild,
                      NEW k \in Keys, ~Leaves(tab, k)
               PROVE  hs_contains(k) <=> content[k] # EMPTY
    BY Zenon DEF SetIsSet
  <2>1. Slotted(tab) /\ Undeleted
    BY Zenon DEF HashInv, HashTyped
  <2>2. /\ \A x \in Keys : content[x] # EMPTY => \E i \in 0 .. tab.cap - 1 : Holds(tab.slots[i], x)
        /\ \A x \in Keys, i \in 0 .. tab.cap - 1 :
             Holds(tab.slots[i], x) => content[x] # EMPTY /\ Reached(tab, x, i)
    BY <2>1, Zenon DEF Undeleted, Mirrors
  <2>3. ASSUME content[k] # EMPTY PROVE hs_contains(k)
    <3>1. PICK i \in 0 .. tab.cap - 1 : Holds(tab.slots[i], k)
      BY <2>2, <2>3, Zenon
    <3>2. PICK a \in 0 .. tab.cap - 1 : /\ h_resolve_hash(k, tab.cap, a) = i
                                        /\ \A j \in 0 .. a - 1 : j \notin Stops(tab, k)
      BY <2>2, <3>1, Zenon DEF Reached
    <3>3. Holds(Slot(tab, k, a), k)
      BY <3>1, <3>2, Zenon DEF Slot
    <3>4. tab.cap \in Nat /\ i >= 0 /\ ~Outside(tab, k, a)
      <4>1. i \in Nat /\ tab.cap \in Nat
        BY <2>1, CapacityIs
      <4>2. ~ (i < 0) /\ i >= 0
        BY <4>1
      <4>3. QED
        BY <3>2, <4>1, <4>2, Zenon DEF Outside
    <3>5. /\ a \in 0 .. tab.count - 1
          /\ \A j \in 0 .. a - 1 : ~Free(Slot(tab, k, j)) /\ ~Outside(tab, k, j)
      BY <2>1, <3>2, <3>3, <3>4, ReachedInCount, Zenon
    <3>6. \A j \in 0..a : j = a \/ j \in 0 .. a - 1
      BY <3>4
    <3>7. \A j \in 0..a : ~Outside(tab, k, j)
      BY <3>4, <3>5, <3>6, Zenon
    <3>8. QED
      BY <3>3, <3>5, <3>7, Zenon DEF hs_contains, Free
  <2>4. ASSUME hs_contains(k) PROVE content[k] # EMPTY
    <3>1. PICK i \in 0 .. tab.count - 1 :
            Holds(Slot(tab, k, i), k) /\ \A j \in 0..i : ~Outside(tab, k, j)
      BY <2>4, Zenon DEF hs_contains
    <3>2. tab.cap \in Nat /\ is_prime(tab.cap) /\ tab.count \in Nat
      BY <2>1, CapacityIs, UsedIs, Zenon
    <3>3. i \in Nat /\ i \in 0..i
      BY <3>2
    <3>4. h_resolve_hash(k, tab.cap, i) \in 0 .. tab.cap - 1
      BY <3>1, <3>2, <3>3, HashInRange, Zenon DEF Outside
    <3>5. QED
      BY <2>2, <3>1, <3>4, Zenon DEF Slot
  <2>5. QED
    BY <2>3, <2>4, Zenon
<1>2. QED
  BY <1>1, HashCorrect, PTL
=============================================================================
