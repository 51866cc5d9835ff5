------------------------------- MODULE Router -------------------------------
(***************************************************************************)
(* Router attributes, routers, sub-routers and what router_run does with a  *)
(* request: sub-router dispatch, the middleware chain, the `done' flag, the *)
(* route or fallback handler, the response.                                 *)
(*                                                                         *)
(* The program first makes the set-up calls in any order, then requests     *)
(* arrive one after the other (ThreadPool).  Handlers are the user's: each  *)
(* may set a status or not, and a middleware may set `done'.  The result of *)
(* trie_search is left open here (Trie).                                    *)
(***************************************************************************)
EXTENDS Naturals, Sequences, SequencesExt

CONSTANTS
  Kinds,       \* the fallback handlers: "404", "405", "500"
  Attrs,       \* ys_router_attr objects
  Prefixes0,   \* paths of sub-routers, and the segments of requests
  MaxMws,      \* bound on the middlewares of an attribute object
  MaxRouters,  \* bound on the routers, the first being the root
  MaxPath,     \* bound on the segments of a request
  Unset        \* what xmalloc may leave in a fallback handler: NULL, "WILD"

ASSUME PrefixesAssumption == "none" \notin Prefixes0
ASSUME KindsAssumption == Kinds \cap {"plain", "picky", "cors", "route"} = {}
ASSUME RouterBounds == {MaxMws, MaxRouters, MaxPath} \subseteq Nat

Pages == {"public", "ignored"}    \* pure_path, as the ignore patterns see it

\* A middleware: the CORS handler, or a user's with or without ignore paths.
UserMws == {"plain", "picky"}
Mws == UserMws \cup {"cors"}

VARIABLES
  attrs,       \* the attribute objects
  routers,     \* the routers in the order of their creation
  passthrough, \* cors_conf->use_options_passthrough, one for all routers
  stage,       \* of the program, then of router_run
  req,         \* the request: segments, query, pure_path, is it a Preflight
  cur,         \* the router that runs, 0 for none
  rest,        \* req->route_path
  i,           \* the loop variable of invoke_chain
  done,        \* res->done
  resStatus,   \* res->status
  invoked      \* the handlers invoked for this request, in their order

setupVars  == <<attrs, routers, passthrough>>
runVars    == <<req, cur, rest, i, done, resStatus, invoked>>
routerVars == <<setupVars, stage, runVars>>

NoReq == [path |-> <<>>, query |-> FALSE, page |-> "public", preflight |-> FALSE]

RouterRequests == [path : UNION {[1..n -> Prefixes0] : n \in 0..MaxPath},
                   query : BOOLEAN, page : Pages, preflight : BOOLEAN]

\* ys_router_attr_init sets use_cors and middlewares, not the three handlers.
RouterInit ==
  /\ attrs \in [Attrs -> [cors : {FALSE}, mws : {<<>>}, handler : [Kinds -> Unset]]]
  /\ routers = <<>> /\ passthrough = FALSE
  /\ stage = "setup"
  /\ req = NoReq /\ cur = 0 /\ rest = <<>> /\ i = 0
  /\ done = FALSE /\ resStatus = "none" /\ invoked = <<>>

-----------------------------------------------------------------------------
(* Set-up calls. *)

\* __add_middleware_with_opts: the array is created with the first element.
AddMiddleware(a, m, cors) ==
  /\ stage = "setup" /\ Len(attrs[a].mws) < MaxMws
  /\ attrs' = [attrs EXCEPT ![a].mws = Append(@, m), ![a].cors = cors]
  /\ UNCHANGED <<routers, stage, runVars>>

ys_use_middleware(a, m) ==
  AddMiddleware(a, m, attrs[a].cors) /\ UNCHANGED passthrough

\* cors_init overwrites the one configuration (Cors).
ys_use_cors(a, pass) == AddMiddleware(a, "cors", TRUE) /\ passthrough' = pass

ys_router_register_fallback(a, k) ==
  /\ stage = "setup"
  /\ attrs' = [attrs EXCEPT ![a].handler[k] = "user"]
  /\ UNCHANGED <<routers, passthrough, stage, runVars>>

\* ys_router_init copies the flag, the pointer to the middleware array (NULL
\* before the first middleware) and the handlers, the defaults for NULL.
NewRouter(a, parent, prefix) ==
  [attr |-> a, hasArray |-> attrs[a].mws # <<>>, cors |-> attrs[a].cors,
   handler |-> [k \in Kinds |-> IF attrs[a].handler[k] = "NULL" THEN "default"
                                ELSE attrs[a].handler[k]],
   parent |-> parent, prefix |-> prefix]

ys_router_init(a) ==
  /\ stage = "setup" /\ routers = <<>>
  /\ routers' = <<NewRouter(a, 0, "none")>>
  /\ UNCHANGED <<attrs, passthrough, stage, runVars>>

\* ht_insert: a later sub-router on the same path replaces the earlier one.
ys_router_register_sub(r, a, prefix) ==
  /\ stage = "setup" /\ Len(routers) < MaxRouters
  /\ routers' = Append(routers, NewRouter(a, r, prefix))
  /\ UNCHANGED <<attrs, passthrough, stage, runVars>>

StartServer == /\ stage = "setup" /\ routers # <<>>
               /\ stage' = "idle"
               /\ UNCHANGED <<setupVars, runVars>>

-----------------------------------------------------------------------------
(* router_run *)

\* The router's array is its attribute object's, shared and not copied.
Chain(r) == IF routers[r].hasArray THEN attrs[routers[r].attr].mws ELSE <<>>

SubRouters(r, prefix) ==
  {s \in DOMAIN routers : routers[s].parent = r /\ routers[s].prefix = prefix}

Receive(q) ==
  /\ stage = "idle"
  /\ req' = q /\ cur' = 1 /\ rest' = q.path
  /\ stage' = "run"
  /\ UNCHANGED <<setupVars, i, done, resStatus, invoked>>

\* path_split_first_delim keeps the query in the segment it is attached to.
FirstSegment == IF rest = <<>> \/ (req.query /\ Len(rest) = 1) THEN "none"
                ELSE Head(rest)

Matched == SubRouters(cur, FirstSegment)

\* Mutant: the sub-router registered first stays.
OldestSub == Min(Matched)

NewestSub == Max(Matched)

\* router_run_sub: the sub-router runs on the rest of the path and answers.
router_run_sub ==
  /\ stage = "run" /\ Matched # {}
  /\ cur' = NewestSub
  /\ rest' = Tail(rest)
  /\ UNCHANGED <<setupVars, stage, req, i, done, resStatus, invoked>>

\* response_init, and invoke_chain from the last middleware registered.
BeginChain ==
  /\ stage = "run" /\ Matched = {}
  /\ resStatus' = "200"
  /\ i' = Len(Chain(cur))
  /\ stage' = "chain"
  /\ UNCHANGED <<setupVars, req, cur, rest, done, invoked>>

Ignored(m) == m = "picky" /\ req.page = "ignored"

\* Mutant: the first registered middleware runs first.
NextMiddlewareFifo == Chain(cur)[Len(Chain(cur)) + 1 - i]

NextMiddleware == Chain(cur)[i]

\* A user's handler may set the status; a middleware may also end the chain.
UserStatus == {resStatus, "custom"}

AfterMiddleware == IF done' THEN i' = 0 /\ stage' = "decide"
                   ELSE i' = i - 1 /\ UNCHANGED stage

SkipMiddleware ==
  /\ stage = "chain" /\ i > 0 /\ Ignored(NextMiddleware)
  /\ i' = i - 1
  /\ UNCHANGED <<setupVars, stage, req, cur, rest, done, resStatus, invoked>>

\* cors_handler: a Preflight ends with 204 unless it is passed on; any other
\* request goes on, with 403 if its origin is not allowed.
CorsMiddleware ==
  LET ends == req.preflight /\ ~passthrough
  IN
  /\ stage = "chain" /\ i > 0 /\ NextMiddleware = "cors"
  /\ invoked' = Append(invoked, "cors")
  /\ done' = (done \/ ends)
  /\ resStatus' \in IF ends THEN {"204"} ELSE {resStatus, "403"}
  /\ AfterMiddleware
  /\ UNCHANGED <<setupVars, req, cur, rest>>

UserMiddleware ==
  /\ stage = "chain" /\ i > 0 /\ NextMiddleware # "cors" /\ ~Ignored(NextMiddleware)
  /\ invoked' = Append(invoked, NextMiddleware)
  /\ done' \in {done, TRUE}
  /\ resStatus' \in UserStatus
  /\ AfterMiddleware
  /\ UNCHANGED <<setupVars, req, cur, rest>>

EndChain == /\ stage = "chain" /\ i = 0
            /\ stage' = "decide"
            /\ UNCHANGED <<setupVars, runVars>>

\* Mutant: `done' is never looked at before the search.
NoShortCut == FALSE

\* router->use_cors && res->done: straight to the response.
ShortCut == routers[cur].cors /\ done

Decide == /\ stage = "decide"
          /\ stage' = IF ShortCut THEN "send" ELSE "search"
          /\ UNCHANGED <<setupVars, runVars>>

\* A fallback handler: the default sets its status, a user's may leave the
\* one response_init chose.  `done' is not looked at.  A call through a wild
\* pointer ends the process.
Fallback(k) ==
  /\ stage = "search"
  /\ invoked' = Append(invoked, k)
  /\ resStatus' \in IF routers[cur].handler[k] = "default" THEN {k} ELSE UserStatus
  /\ stage' = IF routers[cur].handler[k] = "WILD" THEN "crashed" ELSE "send"
  /\ UNCHANGED <<setupVars, req, cur, rest, i, done>>

\* Mutant: the route handler runs in any case.
RouteHandlerAlways ==
  /\ stage = "search"
  /\ invoked' = Append(invoked, "route") /\ resStatus' \in UserStatus
  /\ stage' = "send"
  /\ UNCHANGED <<setupVars, req, cur, rest, i, done>>

RouteHandler ==
  /\ stage = "search"
  /\ IF done THEN UNCHANGED <<invoked, resStatus>>
             ELSE invoked' = Append(invoked, "route") /\ resStatus' \in UserStatus
  /\ stage' = "send"
  /\ UNCHANGED <<setupVars, req, cur, rest, i, done>>

\* response_send; the request is over.
SendResponse == /\ stage = "send"
                /\ stage' = "idle"
                /\ req' = NoReq /\ cur' = 0 /\ rest' = <<>> /\ i' = 0
                /\ done' = FALSE /\ resStatus' = "none" /\ invoked' = <<>>
                /\ UNCHANGED setupVars

SetUp ==
  \/ \E a \in Attrs, m \in UserMws : ys_use_middleware(a, m)
  \/ \E a \in Attrs, pass \in BOOLEAN : ys_use_cors(a, pass)
  \/ \E a \in Attrs, k \in Kinds : ys_router_register_fallback(a, k)
  \/ \E a \in Attrs : ys_router_init(a)
  \/ \E r \in DOMAIN routers, a \in Attrs, p \in Prefixes0 :
       ys_router_register_sub(r, a, p)
  \/ StartServer

Run ==
  \/ router_run_sub \/ BeginChain \/ SkipMiddleware \/ CorsMiddleware
  \/ UserMiddleware \/ EndChain \/ Decide
  \/ \E k \in Kinds : Fallback(k)
  \/ RouteHandler \/ SendResponse

RouterEnded == stage = "crashed" /\ UNCHANGED routerVars

RouterNext == SetUp \/ (\E q \in RouterRequests : Receive(q)) \/ Run \/ RouterEnded

RouterSpec == RouterInit /\ [][RouterNext]_routerVars

-----------------------------------------------------------------------------

Answered == stage = "send"

\* The middlewares, by their place in the array, that the request does not
\* leave out, and the turn of each: the last comes first.
Wanted == {m \in DOMAIN Chain(cur) : ~Ignored(Chain(cur)[m])}
Turn(m) == Cardinality({n \in Wanted : n >= m})

\* Middlewares run in the reverse order of their registration, each once, those
\* whose ignore paths match left out, up to the first that sets `done', and all
\* of them before any other handler.
MiddlewareOrder ==
  Answered =>
    \E k \in 0..Cardinality(Wanted) :
      /\ {n \in DOMAIN invoked : invoked[n] \in Mws} = 1..k
      /\ \A m \in Wanted : Turn(m) <= k => invoked[Turn(m)] = Chain(cur)[m]
      /\ ~done => k = Cardinality(Wanted)

\* No middleware and no route handler runs once a middleware has set `done', and
\* on a router with CORS no fallback handler.  Nothing is said of the fallback
\* handlers of the other routers (NothingAfterDone).
DoneRespected ==
  [][done => invoked' = invoked \/ stage = "send"
             \/ (Last(invoked') \in Kinds /\ ~routers[cur].cors)]_routerVars

\* "no subsequent handlers will be invoked; instead, the response will
\* immediately be serialized" (docs/documentation/routing.md), whatever their
\* kind and whether or not the router uses CORS.
NothingAfterDone == [][done => invoked' = invoked \/ stage = "send"]_routerVars

\* A Preflight that reaches the CORS handler of a router with the flag set is
\* answered 204 by it, whatever is registered on the path, unless the program
\* chose the passthrough.
PreflightAnswered ==
  /\ Answered /\ req.preflight /\ ~passthrough
  /\ routers[cur].cors /\ Contains(invoked, "cors")
  => resStatus = "204" /\ Last(invoked) = "cors"

\* A way down from the root: each router is the newest that its predecessor has
\* on the segment.
Way(d) ==
  {way \in [0..d -> DOMAIN routers] :
     /\ way[0] = 1
     /\ \A k \in 1..d : LET subs == SubRouters(way[k - 1], req.path[k])
                        IN  subs # {} /\ way[k] = Max(subs)}

\* The running router is the deepest that the path of the request leads to, and
\* its trie is searched for what the path has left.
DeepestRouter ==
  \E d \in 0..Len(req.path) : \E way \in Way(d) :
    /\ cur = way[d]
    /\ rest = SubSeq(req.path, d + 1, Len(req.path))
    /\ d < Len(req.path) => SubRouters(cur, req.path[d + 1]) = {}

\* A query is attached to the very segment that leads to a sub-router.
QueryAtPrefix == req.query /\ req.path # <<>> /\ Way(Len(req.path)) # {}

\* The deepest sub-router that the path of the request leads to answers it,
\* however deep they are nested and in whatever order they were registered.
\* Nothing is said of a query at a prefix (QueryKeepsRouter).
RightRouter == Answered /\ ~QueryAtPrefix => DeepestRouter

\* "sub-router will match against any request whose URL starts with the
\* sub-path" and queries are no part of the match: the query makes no difference
\* to which router answers (docs/documentation/routing.md).
QueryKeepsRouter == Answered => DeepestRouter
=============================================================================
