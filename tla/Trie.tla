-------------------------------- MODULE Trie --------------------------------
(***************************************************************************)
(* The route trie: trie_insert as the action of a program that registers    *)
(* its routes, trie_search as the function it computes on the trie built so *)
(* far, compared with what the registered routes promise.                   *)
(*                                                                         *)
(* A path is the sequence of its non-empty segments (expand_path drops the  *)
(* empty ones), a node of the trie is the sequence of labels that leads to  *)
(* it.  A label is a literal segment or a parameter such as ":id[^\d+$]",   *)
(* whose regular expression is the set of the segments it matches.          *)
(***************************************************************************)
EXTENDS Naturals, Sequences, SequencesExt

CONSTANTS
  Literals,    \* literal labels, and segments of requests
  Params,      \* parameter labels
  BadParams,   \* parameter labels whose regular expression does not compile
  Pattern,     \* Pattern[p]: the segments that parameter label p matches
  Junk,        \* a segment that still carries its `?', equal to no label
  Methods,
  MaxRoutes,   \* bound on the routes registered
  MaxDepth     \* bound on the length of routes; requests are one longer

Labels   == Literals \cup Params
Segments == Literals \cup {Junk}

ASSUME LabelsAssumption == Literals \cap Params = {} /\ Junk \notin Labels
ASSUME PatternAssumption ==
  BadParams \subseteq Params /\ \A p \in Params : Pattern[p] \subseteq Segments
ASSUME BoundsAssumption == MaxRoutes \in Nat /\ MaxDepth \in Nat

VARIABLES
  nodes,    \* the nodes of the trie
  actions,  \* actions[n][m]: the handler at node n for method m, 0 for none
  routes    \* the registrations in their order; route k has handler k

trieVars == <<nodes, actions, routes>>

Paths(n) == UNION {[1..k -> Labels] : k \in 0..n}

RootPath == <<>>

TrieInit == /\ nodes = {RootPath}
            /\ actions = [n \in {RootPath} |-> [m \in Methods |-> 0]]
            /\ routes = <<>>

-----------------------------------------------------------------------------

NoActions == [m \in Methods |-> 0]

Insert(path, acts) ==
  /\ Len(routes) < MaxRoutes
  /\ nodes' = nodes \cup Prefixes(path)
  /\ actions' = [n \in nodes' |-> IF n = path THEN acts
                                  ELSE IF n \in nodes THEN actions[n]
                                  ELSE NoActions]

ActionsAt(path) == IF path \in nodes THEN actions[path] ELSE NoActions

\* Mutant: the node that ends a route is created anew, with empty tables.
InsertFresh(path, methods) ==
  /\ Insert(path, [m \in Methods |-> IF m \in methods THEN Len(routes) + 1 ELSE 0])
  /\ routes' = Append(routes, [path |-> path, methods |-> methods])

\* __router_register: the missing nodes of the path are created, the node at
\* its end (the root for "/") gets the handler for each of the methods,
\* replacing what was registered for them before.  An odd path has no segment to
\* register and changes nothing.
trie_insert(path, methods) ==
  /\ Insert(path, [m \in Methods |-> IF m \in methods THEN Len(routes) + 1
                                     ELSE ActionsAt(path)[m]])
  /\ routes' = Append(routes, [path |-> path, methods |-> methods])

TrieNext == \/ \E path \in Paths(MaxDepth), ms \in (SUBSET Methods) \ {{}} :
                 trie_insert(path, ms)
            \/ Len(routes) = MaxRoutes /\ UNCHANGED trieVars

TrieSpec == TrieInit /\ [][TrieNext]_trieVars

-----------------------------------------------------------------------------
(* trie_search *)

\* How the query part of a request looks: none, `?k=v', a `?' at the end, or
\* more than one `?' (or a `#' in front of it).
QueryForms == {"none", "one", "bare", "many"}

\* A path without segments is "/" or, if odd, another text in which split finds
\* none: "//", or one without a slash such as the "*" of OPTIONS.
Searches == [path   : UNION {[1..k -> Literals] : k \in 0 .. MaxDepth + 1},
             method : Methods,
             query  : QueryForms,
             odd    : BOOLEAN]

\* has_query_string: the forms the search strips.
has_query_string(q) == q = "one"

\* The segments that are looked up: an unstripped query stays in the last one.
SearchPath(req) ==
  LET n == Len(req.path)
  IN  IF req.query = "none" \/ has_query_string(req.query) THEN req.path
      ELSE IF n = 0 THEN <<Junk>> ELSE [req.path EXCEPT ![n] = Junk]

Children(n) == {l \in Labels : Append(n, l) \in nodes}
ParamChildren(n) == Children(n) \cap Params

Result(out, handler) == [out |-> out, handler |-> handler, params |-> {}]

NotFound   == Result("not_found", 0)
NotAllowed == Result("not_allowed", 0)
Undefined  == Result("undefined", 0)    \* s_equals on a wild pointer

\* s_equals(realpath, PATH_ROOT)
IsRoot(req) == SearchPath(req) = RootPath /\ ~req.odd

\* Behind the loop: the handler of the node for the method.
Finish(n, method, root) ==
  IF root /\ actions[n] = NoActions THEN NotFound
  ELSE IF actions[n][method] = 0 THEN NotAllowed
  ELSE Result("found", actions[n][method])

\* The root's label is uninitialised until "/" is registered on it; it then
\* differs from every segment.
RootLabelUnset(n) == n = RootPath /\ \A k \in DOMAIN routes : routes[k].path # n

\* Mutant: a leaf absorbs any rest of the path.
LeafAbsorbsAny(n, segment) == n # RootPath

\* The label of a node without children is compared with the segment: a leaf
\* absorbs a path that goes on with the leaf's own label.
LeafAbsorbs(n, segment) == n # RootPath /\ Last(n) = segment

\* ht_insert(result->parameters, ...): the deeper of two equal keys stays.  The
\* key is the label without its pattern; labels are taken to differ in it.
WithParam(r, p, segment) ==
  IF \E kv \in r.params : kv[1] = p THEN r
  ELSE [r EXCEPT !.params = @ \cup {<<p, segment>>}]

\* A turn of the loop at node n, for segment i; behind the last segment, what
\* follows the loop.  rest[c] are the possible results from node c on.  A literal
\* child goes first and is never reconsidered; otherwise the first parameter
\* child in the order of the hash table decides alone.  That order depends on
\* the labels' hashes: any parameter child may be first.
SearchTurn(n, i, path, root, method, rest) ==
  IF i > Len(path) THEN {Finish(n, method, root)}
  ELSE IF Append(n, path[i]) \in nodes THEN rest[Append(n, path[i])]
  ELSE IF Children(n) = {}
       THEN IF RootLabelUnset(n) THEN {NotFound, Undefined}
            ELSE IF LeafAbsorbs(n, path[i]) THEN {Finish(n, method, root)}
            ELSE {NotFound}
  ELSE IF ParamChildren(n) = {} THEN {NotFound}
  ELSE UNION {IF p \in BadParams THEN {Result("error", 0)}
              ELSE IF path[i] \notin Pattern[p] THEN {NotFound}
              ELSE {WithParam(r, p, path[i]) : r \in rest[Append(n, p)]}
                : p \in ParamChildren(n)}

\* The possible results of trie_search, one turn for each segment.
trie_search(req) ==
  LET path == SearchPath(req)
      walk[i \in 1 .. Len(path) + 1] ==
        [n \in nodes |-> SearchTurn(n, i, path, IsRoot(req), req.method, walk[i + 1])]
  IN  walk[1][RootPath]

-----------------------------------------------------------------------------
(* What the routes promise. *)

LabelMatches(l, segment) ==
  l = segment \/ (l \in Params \ BadParams /\ segment \in Pattern[l])

PathMatches(route, path) ==
  /\ Len(route) = Len(path)
  /\ \A i \in DOMAIN path : LabelMatches(route[i], path[i])

Registered == {routes[k].path : k \in DOMAIN routes}
Matching(path) == {r \in Registered : PathMatches(r, path)}

\* The last registration for the route path and the method.
Handler(path, method) ==
  LET ks == {k \in DOMAIN routes :
               routes[k].path = path /\ method \in routes[k].methods}
  IN  IF ks = {} THEN 0 ELSE Max(ks)

\* No node leaves the search a choice: at most one parameter child, none that
\* matches a literal sibling, and none that does not compile.
Unambiguous ==
  \A n \in nodes :
    /\ \A p, q \in ParamChildren(n) : p = q
    /\ \A p \in ParamChildren(n) :
         p \notin BadParams /\ Pattern[p] \cap Children(n) = {}

\* No segment equals the one before it, so that no leaf absorbs one.
NoRepeats(path) == \A i \in 1 .. Len(path) - 1 : path[i] # path[i + 1]

-----------------------------------------------------------------------------

\* Nodes and handlers are those of the routes, whatever the order in which they
\* were registered: trie_insert loses no route, keeps the other methods of a
\* shared path and lets the last registration win.
TrieHoldsRoutes ==
  /\ nodes = {RootPath} \cup UNION {Prefixes(p) : p \in Registered}
  /\ DOMAIN actions = nodes
  /\ \A n \in nodes, m \in Methods : actions[n][m] = Handler(n, m)

\* On an unambiguous trie the search finds exactly the route that matches, with
\* its latest handler for the method and the value of each of its parameters,
\* answers no request that a route matches with 404, and one for "/" that none
\* matches with 404 and not 405 ("404 handling supersedes 405 handling",
\* docs/documentation/routing.md).  Nothing is said of the requests on which the
\* code and that page disagree: queries the search does not strip, paths in which
\* a segment repeats (OnlyMatchesServed), paths that are odd, and whether any
\* other path that no route matches gets 404 or 405.
SearchMeetsRoutes ==
  Unambiguous =>
    \A req \in Searches :
      LET path == SearchPath(req)
          served == {p \in Matching(path) : Handler(p, req.method) # 0}
      IN  /\ ~req.odd /\ NoRepeats(path)
          /\ req.query = "none" \/ has_query_string(req.query)
          => \A r \in trie_search(req) :
              /\ r.out = "found" <=> served # {}
              /\ r.out = "found" =>
                   \E p \in served :
                     /\ r.handler = Handler(p, req.method)
                     /\ \A i \in DOMAIN p : p[i] \in Params =>
                          \E j \in DOMAIN p :
                            p[j] = p[i] /\ <<p[i], path[j]>> \in r.params
              /\ Matching(path) # {} => r.out # "not_found"
              /\ path = RootPath /\ Matching(path) = {} => r = NotFound

\* "Non-route matches will trigger the 404 handler" (docs/documentation/routing.md):
\* no handler runs for a path that no route matches.
OnlyMatchesServed ==
  \A req \in Searches : req.query = "none" /\ ~req.odd /\ Matching(req.path) = {} =>
    \A r \in trie_search(req) : r.out # "found"
=============================================================================
