---------------------------- MODULE RouterProofs ----------------------------
(***************************************************************************)
(* Proofs about Router, for every set of attribute objects and prefixes and *)
(* every number of middlewares, routers and segments of a request.          *)
(***************************************************************************)
EXTENDS Router, FiniteSetTheorems, ProofLemmas

AttrRec == [cors : BOOLEAN, mws : Seq(Mws), handler : [Kinds -> Unset \cup {"user"}]]
RouterRec == [attr : Attrs, hasArray : BOOLEAN, cors : BOOLEAN,
              handler : [Kinds -> Unset \cup {"user", "default"}],
              parent : Nat, prefix : Prefixes0 \cup {"none"}]
Handlers == Mws \cup Kinds \cup {"route"}

Pcs == {"setup", "idle", "run", "chain", "decide", "search", "send", "crashed"}

TypeInv ==
  /\ attrs \in [Attrs -> AttrRec] /\ routers \in Seq(RouterRec)
  /\ stage \in Pcs
  /\ req \in RouterRequests /\ cur \in Nat /\ i \in Nat /\ invoked \in Seq(Handlers)

\* A request runs on a router that exists, and starts from nothing.
PhaseInv ==
  /\ stage # "setup" => routers # <<>>
  /\ stage \notin {"setup", "idle"} => cur \in DOMAIN routers
  /\ stage \in {"setup", "idle", "run"} => invoked = <<>> /\ ~done
  /\ stage = "chain" => ~done
  /\ stage = "search" => ~(done /\ routers[cur].cors)

\* Only the root has no prefix.
PrefixInv == \A r \in DOMAIN routers : routers[r].parent # 0 => routers[r].prefix # "none"

\* The k first turns were taken by the middlewares whose turns they are.
InTurn(k) == \A m \in Wanted : Turn(m) <= k => invoked[Turn(m)] = Chain(cur)[m]

\* The wanted middlewares that are registered later than k.
After(k) == {n \in Wanted : n > k}

OnlyMws == \A n \in DOMAIN invoked : invoked[n] \in Mws

\* In invoke_chain the middlewares behind the loop variable are done with.
ChainInv ==
  /\ stage = "chain" => /\ i <= Len(Chain(cur)) /\ OnlyMws
                     /\ Len(invoked) = Cardinality(After(i))
                     /\ InTurn(Len(invoked))
  /\ stage \in {"decide", "search"} =>
       /\ OnlyMws /\ Len(invoked) <= Cardinality(Wanted) /\ InTurn(Len(invoked))
       /\ ~done => Len(invoked) = Cardinality(Wanted)

\* A Preflight that the CORS handler ended stays ended on a router with the flag.
PreInv ==
  req.preflight /\ ~passthrough /\ (\E n \in DOMAIN invoked : invoked[n] = "cors") =>
    \/ stage \in {"search", "send", "crashed"} /\ ~routers[cur].cors
    \/ /\ stage \in {"decide", "send"} /\ done /\ resStatus = "204"
       /\ Last(invoked) = "cors"

\* The running router is at the end of a way down the first d segments.
At(d) == /\ \E way \in Way(d) : cur = way[d]
         /\ rest = SubSeq(req.path, d + 1, Len(req.path))

\* The lookups of path_split_first_delim that can find a sub-router: a query
\* takes the segment it is attached to away.
Lookups == IF req.query /\ req.path # <<>> THEN Len(req.path) - 1 ELSE Len(req.path)

OnTheWay == \E d \in 0..Lookups : At(d)
AtItsEnd == \E d \in 0..Lookups :
              At(d) /\ (d < Lookups => SubRouters(cur, req.path[d + 1]) = {})

WayInv == /\ stage = "run" => OnTheWay
          /\ stage \in {"chain", "decide", "search", "send"} => AtItsEnd

IInv == /\ TypeInv /\ PhaseInv /\ PrefixInv /\ ChainInv /\ PreInv /\ WayInv
        /\ MiddlewareOrder

-----------------------------------------------------------------------------
(* Typing. *)

LEMMA RequestTyped ==
  ASSUME NEW q \in RouterRequests
  PROVE  q.path \in Seq(Prefixes0) /\ Len(q.path) \in Nat
<1>0. q.path \in UNION {[1..n -> Prefixes0] : n \in 0..MaxPath}
  BY DEF RouterRequests
<1>1. PICK n \in 0..MaxPath : q.path \in [1..n -> Prefixes0]
  BY <1>0
<1>2. n \in Nat
  BY RouterBounds
<1>3. q.path \in Seq(Prefixes0)
  BY <1>1, <1>2, FunctionIsSeq
<1>4. QED
  BY <1>3, LenProperties

LEMMA RoutersTyped ==
  ASSUME TypeInv
  PROVE  /\ Len(routers) \in Nat /\ DOMAIN routers = 1..Len(routers)
         /\ \A r \in DOMAIN routers :
              routers[r] \in RouterRec /\ routers[r].attr \in Attrs
<1>1. routers \in Seq(RouterRec)
  BY DEF TypeInv
<1>2. Len(routers) \in Nat /\ DOMAIN routers = 1..Len(routers)
  BY <1>1, LenProperties
<1>3. \A r \in DOMAIN routers : routers[r] \in RouterRec
  BY <1>1, <1>2, ElementOfSeq
<1>4. QED
  BY <1>2, <1>3 DEF RouterRec

LEMMA ChainTyped ==
  ASSUME TypeInv, NEW r \in DOMAIN routers
  PROVE  /\ Chain(r) \in Seq(Mws) /\ Len(Chain(r)) \in Nat
         /\ DOMAIN Chain(r) = 1..Len(Chain(r))
<1>1. routers[r].attr \in Attrs
  BY RoutersTyped
<1>2. attrs[routers[r].attr] \in AttrRec
  BY <1>1 DEF TypeInv
<1>3. attrs[routers[r].attr].mws \in Seq(Mws)
  BY <1>2 DEF AttrRec
<1>4. Chain(r) \in Seq(Mws)
  BY <1>3 DEF Chain
<1>5. QED
  BY <1>4, LenProperties

LEMMA NoReqTyped == NoReq \in RouterRequests
<1>1. <<>> \in [1..0 -> Prefixes0]
  OBVIOUS
<1>2. 0 \in 0..MaxPath
  BY RouterBounds
<1>3. <<>> \in UNION {[1..n -> Prefixes0] : n \in 0..MaxPath}
  BY <1>1, <1>2, Zenon
<1>4. QED
  BY <1>3 DEF NoReq, RouterRequests, Pages

-----------------------------------------------------------------------------
(* The turns of the middlewares. *)

LEMMA Turns ==
  ASSUME TypeInv, cur \in DOMAIN routers
  PROVE  /\ Cardinality(Wanted) \in Nat
         /\ After(0) = Wanted /\ Cardinality(After(Len(Chain(cur)))) = 0
         /\ \A k \in Nat :
              /\ Cardinality(After(k)) \in 0..Cardinality(Wanted)
              /\ \A m \in Wanted : Turn(m) \in Nat
              /\ \A m \in Wanted : m > k => Turn(m) <= Cardinality(After(k))
              /\ \A m \in Wanted : m <= k => Turn(m) > Cardinality(After(k))
              /\ k + 1 \in Wanted =>
                   /\ Cardinality(After(k)) = Cardinality(After(k + 1)) + 1
                   /\ Turn(k + 1) = Cardinality(After(k))
              /\ k + 1 \notin Wanted => After(k) = After(k + 1)
<1>1. /\ Wanted \subseteq 1..Len(Chain(cur)) /\ Len(Chain(cur)) \in Nat
      /\ IsFiniteSet(Wanted)
  <2>1. Wanted \subseteq 1..Len(Chain(cur)) /\ Len(Chain(cur)) \in Nat
    BY ChainTyped DEF Wanted
  <2>2. IsFiniteSet(1..Len(Chain(cur)))
    BY <2>1, FS_Interval
  <2>3. QED
    BY <2>1, <2>2, FS_Subset
<1>0. \A n \in Wanted : n \in Nat /\ n > 0 /\ n <= Len(Chain(cur))
  BY <1>1
<1>2. \A S \in SUBSET Wanted : /\ IsFiniteSet(S) /\ Cardinality(S) \in Nat
                               /\ Cardinality(S) <= Cardinality(Wanted)
  BY <1>1, FS_Subset, FS_CardinalityType
<1>3. \A S, T \in SUBSET Wanted : S \subseteq T => Cardinality(S) <= Cardinality(T)
  BY <1>2, FS_Subset
<1>4. \A S \in SUBSET Wanted : \A x \in Wanted \ S :
        Cardinality(S \cup {x}) = Cardinality(S) + 1
  BY <1>2, FS_AddElement
<1>5. /\ After(0) = Wanted /\ Cardinality(After(Len(Chain(cur)))) = 0
      /\ Cardinality(Wanted) \in Nat
  <2>1. \A n : /\ n \in After(0) <=> n \in Wanted
               /\ n \notin After(Len(Chain(cur)))
    BY <1>0 DEF After
  <2>2. After(0) = Wanted /\ After(Len(Chain(cur))) = {}
    BY <2>1, Zenon
  <2>3. QED
    BY <1>2, <2>2, FS_EmptySet
<1>6. ASSUME NEW m \in Wanted
      PROVE  /\ After(m) \in SUBSET Wanted /\ m \in Nat
             /\ {n \in Wanted : n >= m} = After(m) \cup {m}
             /\ Turn(m) = Cardinality(After(m)) + 1 /\ Turn(m) \in Nat
  <2>0. \A n : n \in {x \in Wanted : x >= m} <=> n \in After(m) \cup {m}
    BY <1>0 DEF After
  <2>1. /\ After(m) \in SUBSET Wanted /\ m \in Wanted \ After(m) /\ m \in Nat
        /\ {n \in Wanted : n >= m} = After(m) \cup {m}
    BY <1>0, <2>0 DEF After
  <2>2. Cardinality(After(m) \cup {m}) = Cardinality(After(m)) + 1
    BY <1>4, <2>1
  <2>3. QED
    BY <1>2, <2>1, <2>2 DEF Turn
<1>7. ASSUME NEW k \in Nat
      PROVE  /\ Cardinality(After(k)) \in 0..Cardinality(Wanted)
             /\ \A m \in Wanted : m > k => Turn(m) <= Cardinality(After(k))
             /\ \A m \in Wanted : m <= k => Turn(m) > Cardinality(After(k))
             /\ k + 1 \in Wanted =>
                  /\ Cardinality(After(k)) = Cardinality(After(k + 1)) + 1
                  /\ Turn(k + 1) = Cardinality(After(k))
             /\ k + 1 \notin Wanted => After(k) = After(k + 1)
  <2>1. After(k) \in SUBSET Wanted
    BY DEF After
  <2>2. Cardinality(After(k)) \in 0..Cardinality(Wanted)
    BY <1>2, <1>5, <2>1
  <2>3. ASSUME NEW m \in Wanted, m > k PROVE Turn(m) <= Cardinality(After(k))
    <3>1. {n \in Wanted : n >= m} \subseteq After(k)
      BY <1>0, <2>3 DEF After
    <3>2. QED
      BY <1>3, <2>1, <3>1 DEF Turn
  <2>4. ASSUME NEW m \in Wanted, m <= k PROVE Turn(m) > Cardinality(After(k))
    <3>1. After(k) \subseteq After(m)
      BY <1>0, <2>4 DEF After
    <3>2. Cardinality(After(k)) <= Cardinality(After(m))
      BY <1>3, <1>6, <2>1, <3>1
    <3>3. QED
      BY <1>2, <1>6, <2>1, <3>2
  <2>5. ASSUME k + 1 \in Wanted
        PROVE  /\ Cardinality(After(k)) = Cardinality(After(k + 1)) + 1
               /\ Turn(k + 1) = Cardinality(After(k))
    <3>0. \A n : n \in After(k) <=> n \in {x \in Wanted : x >= k + 1}
      BY <1>0 DEF After
    <3>1. After(k) = {n \in Wanted : n >= k + 1}
      BY <3>0
    <3>2. QED
      BY <1>6, <2>5, <3>1 DEF Turn
  <2>6. k + 1 \notin Wanted => After(k) = After(k + 1)
    <3>1. k + 1 \notin Wanted => \A n : n \in After(k) <=> n \in After(k + 1)
      BY <1>0 DEF After
    <3>2. QED
      BY <3>1
  <2>7. QED
    BY <2>2, <2>3, <2>4, <2>5, <2>6
<1>8. QED
  BY <1>5, <1>6, <1>7

-----------------------------------------------------------------------------
(* Set-up. *)

LEMMA InitIInv == RouterInit => IInv
<1> SUFFICES ASSUME RouterInit PROVE IInv
  OBVIOUS
<1>1. attrs \in [Attrs -> AttrRec]
  <2>1. <<>> \in Seq(Mws)
    OBVIOUS
  <2>2. \A a \in Attrs : /\ attrs[a] \in [cors : {FALSE}, mws : {<<>>}, handler : [Kinds -> Unset]]
    BY DEF RouterInit
  <2>3. \A a \in Attrs : attrs[a] \in AttrRec
    BY <2>1, <2>2 DEF AttrRec
  <2>4. QED
    BY <2>3 DEF RouterInit
<1>2. TypeInv
  BY <1>1, NoReqTyped DEF RouterInit, TypeInv, Pcs
<1>3. PhaseInv /\ PrefixInv /\ ChainInv /\ PreInv /\ WayInv /\ MiddlewareOrder
  BY DEF RouterInit, PhaseInv, PrefixInv, ChainInv, PreInv, WayInv, MiddlewareOrder, Answered
<1>4. QED
  BY <1>2, <1>3 DEF IInv

\* As long as no request runs only the typing is at stake.
LEMMA StillIdle ==
  ASSUME IInv, stage = "setup", stage' \in {"setup", "idle"}, UNCHANGED runVars,
         TypeInv', PrefixInv', stage' = "idle" => routers' # <<>>
  PROVE  IInv'
<1>1. PhaseInv' /\ PreInv'
  BY DEF IInv, PhaseInv, PreInv, runVars
<1>2. ChainInv' /\ WayInv' /\ MiddlewareOrder'
  BY DEF ChainInv, WayInv, MiddlewareOrder, Answered
<1>3. QED
  BY <1>1, <1>2 DEF IInv

LEMMA AddMiddlewareTyped ==
  ASSUME TypeInv, NEW a \in Attrs, NEW m \in Mws, NEW c \in BOOLEAN,
         AddMiddleware(a, m, c)
  PROVE  TypeInv' /\ stage = "setup" /\ stage' = "setup" /\ UNCHANGED runVars
<1>1. attrs[a] \in AttrRec
  BY DEF TypeInv
<1>2. Append(attrs[a].mws, m) \in Seq(Mws)
  BY <1>1 DEF AttrRec
<1>3. [attrs[a] EXCEPT !.mws = Append(@, m), !.cors = c] \in AttrRec
  BY <1>1, <1>2 DEF AttrRec
<1>4. attrs' = [attrs EXCEPT ![a] = [attrs[a] EXCEPT !.mws = Append(@, m), !.cors = c]]
  BY <1>1 DEF AddMiddleware, TypeInv, AttrRec
<1>5. attrs' \in [Attrs -> AttrRec]
  BY <1>3, <1>4 DEF TypeInv
<1>6. QED
  BY <1>5 DEF AddMiddleware, TypeInv, runVars, Pcs

LEMMA NewRouterTyped ==
  ASSUME TypeInv, NEW a \in Attrs, NEW r \in Nat, NEW p \in Prefixes0 \cup {"none"}
  PROVE  NewRouter(a, r, p) \in RouterRec
<1>1. attrs[a] \in AttrRec
  BY DEF TypeInv
<1>2. attrs[a].handler \in [Kinds -> Unset \cup {"user"}] /\ attrs[a].cors \in BOOLEAN
  BY <1>1 DEF AttrRec
<1>3. [k \in Kinds |-> IF attrs[a].handler[k] = "NULL" THEN "default"
                       ELSE attrs[a].handler[k]] \in [Kinds -> Unset \cup {"user", "default"}]
  BY <1>2
<1>4. (attrs[a].mws # <<>>) \in BOOLEAN
  OBVIOUS
<1>5. QED
  BY <1>2, <1>3, <1>4 DEF NewRouter, RouterRec

LEMMA StepSetUp ==
  ASSUME IInv, SetUp
  PROVE  IInv'
<1>0. TypeInv /\ PrefixInv
  BY DEF IInv
<1>1. ASSUME NEW a \in Attrs, NEW m \in UserMws, ys_use_middleware(a, m)
      PROVE  IInv'
  <2>1. attrs[a].cors \in BOOLEAN /\ m \in Mws
    BY <1>0 DEF TypeInv, AttrRec, Mws
  <2>2. QED
    BY <1>0, <1>1, <2>1, AddMiddlewareTyped, StillIdle
    DEF ys_use_middleware, AddMiddleware, PrefixInv
<1>2. ASSUME NEW a \in Attrs, NEW pass \in BOOLEAN, ys_use_cors(a, pass)
      PROVE  IInv'
  BY <1>0, <1>2, AddMiddlewareTyped, StillIdle
  DEF ys_use_cors, AddMiddleware, PrefixInv, Mws
<1>3. ASSUME NEW a \in Attrs, NEW k \in Kinds, ys_router_register_fallback(a, k)
      PROVE  IInv'
  <2>1. attrs[a] \in AttrRec
    BY <1>0 DEF TypeInv
  <2>2. [attrs[a].handler EXCEPT ![k] = "user"] \in [Kinds -> Unset \cup {"user"}]
    BY <2>1 DEF AttrRec
  <2>3. [attrs[a] EXCEPT !.handler[k] = "user"] \in AttrRec
    BY <2>1, <2>2 DEF AttrRec
  <2>4. attrs' \in [Attrs -> AttrRec]
    BY <1>0, <1>3, <2>3 DEF ys_router_register_fallback, TypeInv
  <2>5. TypeInv' /\ UNCHANGED runVars /\ stage = "setup" /\ stage' = "setup"
    BY <1>0, <1>3, <2>4 DEF ys_router_register_fallback, TypeInv, runVars
  <2>6. PrefixInv'
    BY <1>0, <1>3 DEF ys_router_register_fallback, PrefixInv
  <2>7. QED
    BY <2>5, <2>6, StillIdle
<1>4. ASSUME NEW a \in Attrs, ys_router_init(a) PROVE IInv'
  <2>1. NewRouter(a, 0, "none") \in RouterRec
    BY <1>0, NewRouterTyped
  <2>2. routers' \in Seq(RouterRec)
    BY <1>4, <2>1 DEF ys_router_init
  <2>3. TypeInv' /\ UNCHANGED runVars /\ stage = "setup" /\ stage' = "setup"
    BY <1>0, <1>4, <2>2 DEF ys_router_init, TypeInv, runVars
  <2>4. PrefixInv'
    BY <1>4 DEF ys_router_init, PrefixInv, NewRouter
  <2>5. QED
    BY <2>3, <2>4, StillIdle
<1>5. ASSUME NEW r \in DOMAIN routers, NEW a \in Attrs, NEW p \in Prefixes0,
             ys_router_register_sub(r, a, p)
      PROVE  IInv'
  <2>1. r \in Nat
    BY <1>0, RoutersTyped
  <2>2. NewRouter(a, r, p) \in RouterRec
    BY <1>0, <2>1, NewRouterTyped
  <2>3. routers' \in Seq(RouterRec)
    BY <1>0, <1>5, <2>2 DEF ys_router_register_sub, TypeInv
  <2>4. TypeInv' /\ UNCHANGED runVars /\ stage = "setup" /\ stage' = "setup"
    BY <1>0, <1>5, <2>3 DEF ys_router_register_sub, TypeInv, runVars
  <2>5. PrefixInv'
    <3>1. NewRouter(a, r, p).prefix # "none"
      BY PrefixesAssumption DEF NewRouter
    <3>2. routers \in Seq(RouterRec) /\ routers' = Append(routers, NewRouter(a, r, p))
      BY <1>0, <1>5 DEF TypeInv, ys_router_register_sub
    <3>3. \A s \in DOMAIN routers' : routers'[s] = NewRouter(a, r, p)
                                    \/ (s \in DOMAIN routers /\ routers'[s] = routers[s])
      BY <2>2, <3>2
    <3>4. QED
      BY <1>0, <3>1, <3>3 DEF PrefixInv
  <2>6. QED
    BY <2>4, <2>5, StillIdle
<1>6. CASE StartServer
  <2>1. TypeInv' /\ UNCHANGED runVars /\ stage = "setup" /\ stage' = "idle" /\ routers' # <<>>
    BY <1>0, <1>6 DEF StartServer, TypeInv, runVars, setupVars, Pcs
  <2>2. PrefixInv'
    BY <1>0, <1>6 DEF StartServer, PrefixInv, setupVars
  <2>3. QED
    BY <2>1, <2>2, StillIdle
<1>7. QED
  BY <1>1, <1>2, <1>3, <1>4, <1>5, <1>6 DEF SetUp

-----------------------------------------------------------------------------
(* The way down to the router. *)

LEMMA LookupsNat ==
  ASSUME TypeInv
  PROVE  /\ req.path \in Seq(Prefixes0) /\ Len(req.path) \in Nat
         /\ Lookups \in Nat /\ Lookups <= Len(req.path)
<1>1. req.path \in Seq(Prefixes0) /\ Len(req.path) \in Nat
  BY RequestTyped DEF TypeInv
<1>2. req.path # <<>> => Len(req.path) > 0
  BY <1>1, EmptySeq
<1>3. QED
  BY <1>1, <1>2 DEF Lookups

\* What depends on the request and its router only.
LEMMA Frame ==
  ASSUME UNCHANGED <<attrs, routers, req, cur>>
  PROVE  /\ Chain(cur)' = Chain(cur) /\ Wanted' = Wanted
         /\ \A m : Turn(m)' = Turn(m)
         /\ After(i)' = {n \in Wanted : n > i'}
         /\ UNCHANGED rest => (OnTheWay' <=> OnTheWay) /\ (AtItsEnd' <=> AtItsEnd)
<1>1. Chain(cur)' = Chain(cur)
  BY DEF Chain
<1>2. Wanted' = Wanted
  BY <1>1 DEF Wanted, Ignored
<1>3. (\A m : Turn(m)' = Turn(m)) /\ After(i)' = {n \in Wanted : n > i'}
  BY <1>2 DEF Turn, After
<1>4. Lookups' = Lookups /\ \A d : Way(d)' = Way(d)
  BY DEF Lookups, Way, SubRouters
<1>5. \A p : SubRouters(cur, p)' = SubRouters(cur, p)
  BY DEF SubRouters
<1>6. UNCHANGED rest => \A d : At(d)' <=> At(d)
  BY <1>4 DEF At
<1>7. QED
  BY <1>1, <1>2, <1>3, <1>4, <1>5, <1>6 DEF OnTheWay, AtItsEnd

LEMMA StepReceive ==
  ASSUME IInv, NEW q \in RouterRequests, Receive(q)
  PROVE  IInv'
<1>0. TypeInv /\ PhaseInv /\ PrefixInv
  BY DEF IInv
<1>1. 1 \in DOMAIN routers /\ DOMAIN routers' = DOMAIN routers
  BY <1>0, RoutersTyped, EmptySeq DEF PhaseInv, Receive, TypeInv, setupVars
<1>2. TypeInv'
  BY <1>0 DEF TypeInv, Receive, setupVars, Pcs
<1>3. PhaseInv' /\ PrefixInv'
  BY <1>0, <1>1 DEF PhaseInv, PrefixInv, Receive, setupVars
<1>4. ChainInv' /\ MiddlewareOrder'
  BY DEF Receive, ChainInv, MiddlewareOrder, Answered
<1>5. PreInv'
  BY <1>0 DEF Receive, PreInv, PhaseInv
<1>6. WayInv'
  <2> DEFINE way == [k \in 0..0 |-> 1]
  <2>1. way \in Way(0)'
    BY <1>1 DEF Way
  <2>2. rest' = SubSeq(req'.path, 0 + 1, Len(req'.path))
    <3>1. q.path \in Seq(Prefixes0)
      BY RequestTyped
    <3>2. SubSeq(q.path, 1, Len(q.path)) = q.path
      BY <3>1, SubSeqFull
    <3>3. QED
      BY <3>2 DEF Receive
  <2>3. cur' = way[0]
    BY DEF Receive
  <2>4. At(0)'
    BY <2>1, <2>2, <2>3 DEF At
  <2>5. 0 \in 0..Lookups'
    <3>1. q.path \in Seq(Prefixes0) /\ Len(q.path) \in Nat
      BY RequestTyped
    <3>2. q.path # <<>> => Len(q.path) > 0
      BY <3>1, EmptySeq
    <3>3. QED
      BY <3>1, <3>2 DEF Lookups, Receive
  <2>6. OnTheWay'
    BY <2>4, <2>5 DEF OnTheWay
  <2>7. QED
    BY <2>6 DEF WayInv, Receive
<1>7. QED
  BY <1>2, <1>3, <1>4, <1>5, <1>6 DEF IInv

\* The segment looked up after d lookups: the last one that has the query
\* attached leads nowhere.
LEMMA SegmentAt ==
  ASSUME TypeInv, NEW d \in 0..Lookups,
         rest = SubSeq(req.path, d + 1, Len(req.path))
  PROVE  /\ FirstSegment = IF d < Lookups THEN req.path[d + 1] ELSE "none"
         /\ d < Lookups => Tail(rest) = SubSeq(req.path, (d + 1) + 1, Len(req.path))
<1> DEFINE n == Len(req.path)
<1>0. /\ req.path \in Seq(Prefixes0) /\ n \in Nat /\ Lookups \in Nat
      /\ Lookups <= n /\ d \in Nat /\ d <= n
  BY LookupsNat
<1>1. req.path = <<>> => n = 0
  BY <1>0, EmptySeq
<1>2. Len(rest) = n - d
  <2>1. \A k \in (d + 1)..n : req.path[k] \in Prefixes0
    BY <1>0, ElementOfSeq
  <2>2. Len(SubSeq(req.path, d + 1, n)) = IF d + 1 <= n THEN n - (d + 1) + 1 ELSE 0
    BY <1>0, <2>1, SubSeqProperties
  <2>3. QED
    BY <1>0, <2>2
<1>3. rest = <<>> => d = n
  <2>1. rest = <<>> => Len(rest) = 0
    OBVIOUS
  <2>2. QED
    BY <1>0, <1>2, <2>1
<1>4. d = n => rest = <<>>
  BY <1>0, SubSeqEmpty
<1>5. d < n => Head(rest) = req.path[d + 1]
               /\ Tail(rest) = SubSeq(req.path, (d + 1) + 1, n)
  <2> SUFFICES ASSUME d < n PROVE Head(rest) = req.path[d + 1]
                                  /\ Tail(rest) = SubSeq(req.path, (d + 1) + 1, n)
    OBVIOUS
  <2>1. d + 1 \in 1..Len(req.path) /\ n \in (d + 1)..Len(req.path)
    BY <1>0
  <2>2. QED
    BY <1>0, <2>1, HeadTailOfSubSeq
<1> HIDE DEF n
<1>6. n = Len(req.path)
  BY DEF n
<1>7. CASE req.query /\ req.path # <<>>
  <2>1. Lookups = n - 1
    BY <1>7, <1>6 DEF Lookups
  <2>2. QED
    BY <1>0, <1>2, <1>3, <1>4, <1>5, <1>6, <1>7, <2>1 DEF FirstSegment
<1>8. CASE ~req.query
  <2>1. Lookups = n
    BY <1>8, <1>6 DEF Lookups
  <2>2. QED
    BY <1>0, <1>3, <1>4, <1>5, <1>6, <1>8, <2>1 DEF FirstSegment
<1>9. CASE req.path = <<>>
  <2>1. n = 0 /\ Lookups = 0 /\ d = 0
    BY <1>0, <1>1, <1>9
  <2>2. QED
    BY <1>4, <2>1 DEF FirstSegment
<1>10. QED
  BY <1>7, <1>8, <1>9

LEMMA NoneLeadsNowhere ==
  ASSUME TypeInv, PrefixInv, cur \in DOMAIN routers, FirstSegment = "none"
  PROVE  Matched = {}
<1>1. cur # 0
  BY RoutersTyped
<1>2. QED
  BY <1>1 DEF PrefixInv, Matched, SubRouters

\* A way down to a router with a sub-router on the next segment goes on.
LEMMA WayGoesOn ==
  ASSUME TypeInv, NEW d \in Nat, NEW way \in Way(d),
         SubRouters(way[d], req.path[d + 1]) # {}
  PROVE  /\ Max(SubRouters(way[d], req.path[d + 1])) \in SubRouters(way[d], req.path[d + 1])
         /\ \E on \in Way(d + 1) :
              on[d + 1] = Max(SubRouters(way[d], req.path[d + 1]))
<1> DEFINE subs == SubRouters(way[d], req.path[d + 1])
           further == [k \in 0..(d + 1) |-> IF k = d + 1 THEN Max(subs) ELSE way[k]]
<1>1. Max(subs) \in subs /\ Max(subs) \in DOMAIN routers
  <2>1. subs \subseteq 0..Len(routers) /\ Len(routers) \in Nat
    BY RoutersTyped DEF SubRouters
  <2>2. Max(subs) \in subs
    BY <2>1, MaxBounded
  <2>3. QED
    BY <2>2 DEF SubRouters
<1>2. /\ way \in [0..d -> DOMAIN routers] /\ way[0] = 1
      /\ \A k \in 1..d : LET below == SubRouters(way[k - 1], req.path[k])
                         IN  below # {} /\ way[k] = Max(below)
  BY DEF Way
<1>3. further \in [0..(d + 1) -> DOMAIN routers] /\ further[0] = 1
      /\ further[d + 1] = Max(subs)
  <2> HIDE DEF subs
  <2>1. QED
    BY <1>1, <1>2
<1>4. ASSUME NEW k \in 1..(d + 1)
      PROVE  LET below == SubRouters(further[k - 1], req.path[k])
             IN  below # {} /\ further[k] = Max(below)
  <2>1. CASE k = d + 1
    <3>1. further[k - 1] = way[d] /\ further[k] = Max(subs) /\ req.path[k] = req.path[d + 1]
      BY <1>3, <2>1
    <3>2. QED
      BY <3>1
  <2>2. CASE k # d + 1
    <3>1. k \in 1..d /\ further[k - 1] = way[k - 1] /\ further[k] = way[k]
      BY <2>2
    <3>2. QED
      BY <1>2, <3>1, Zenon
  <2>3. QED
    BY <2>1, <2>2
<1> HIDE DEF further
<1>5. further \in Way(d + 1)
  BY <1>3, <1>4, Zenon DEF Way
<1>6. QED
  BY <1>1, <1>3, <1>5

LEMMA StepSub ==
  ASSUME IInv, router_run_sub
  PROVE  IInv'
<1>0. /\ TypeInv /\ PhaseInv /\ PrefixInv /\ stage = "run" /\ OnTheWay
      /\ cur \in DOMAIN routers
  BY DEF IInv, router_run_sub, PhaseInv, WayInv
<1>1. UNCHANGED <<attrs, routers, passthrough, stage, req, i, done, resStatus, invoked>>
  BY DEF router_run_sub, setupVars
<1>2. NewestSub \in Matched /\ NewestSub \in DOMAIN routers /\ NewestSub \in Nat
  <2>1. Matched \subseteq 0..Len(routers) /\ Len(routers) \in Nat
    BY <1>0, RoutersTyped DEF Matched, SubRouters
  <2>2. NewestSub \in Matched
    BY <2>1, MaxBounded DEF router_run_sub, NewestSub
  <2>3. QED
    BY <2>1, <2>2 DEF Matched, SubRouters
<1>3. TypeInv'
  BY <1>0, <1>1, <1>2 DEF TypeInv, router_run_sub
<1>4. PhaseInv' /\ PrefixInv'
  BY <1>0, <1>1, <1>2 DEF PhaseInv, PrefixInv, router_run_sub
<1>5. ChainInv' /\ MiddlewareOrder'
  BY <1>0, <1>1 DEF ChainInv, MiddlewareOrder, Answered
<1>6. PreInv'
  BY <1>0, <1>1 DEF PreInv, PhaseInv
<1>7. WayInv'
  <2>1. PICK d \in 0..Lookups : At(d)
    BY <1>0 DEF OnTheWay
  <2>2. PICK way \in Way(d) : cur = way[d]
    BY <2>1 DEF At
  <2>3. Lookups \in Nat /\ d \in Nat /\ d <= Lookups
    BY <1>0, LookupsNat
  <2>4. d < Lookups /\ FirstSegment = req.path[d + 1]
        /\ rest' = SubSeq(req.path, (d + 1) + 1, Len(req.path))
    <3>1. Matched # {} /\ rest' = Tail(rest)
      BY DEF router_run_sub
    <3>2. FirstSegment # "none"
      BY <1>0, <3>1, NoneLeadsNowhere
    <3>3. QED
      BY <1>0, <2>1, <2>3, <3>1, <3>2, SegmentAt DEF At
  <2>5. PICK further \in Way(d + 1) : further[d + 1] = NewestSub
    <3>1. SubRouters(way[d], req.path[d + 1]) = Matched /\ Matched # {}
      BY <2>2, <2>4 DEF Matched, router_run_sub
    <3>2. QED
      BY <1>0, <2>3, <3>1, WayGoesOn DEF NewestSub
  <2>6. cur' = further[d + 1]
    BY <2>5 DEF router_run_sub
  <2>7. Way(d + 1)' = Way(d + 1) /\ Lookups' = Lookups
    BY <1>1 DEF Way, SubRouters, Lookups
  <2>8. At(d + 1)'
    BY <1>1, <2>4, <2>5, <2>6, <2>7 DEF At
  <2>9. d + 1 \in 0..Lookups'
    BY <2>3, <2>4, <2>7
  <2>10. OnTheWay'
    BY <2>8, <2>9 DEF OnTheWay
  <2>11. QED
    BY <1>0, <1>1, <2>10 DEF WayInv
<1>8. QED
  BY <1>3, <1>4, <1>5, <1>6, <1>7 DEF IInv

LEMMA StepBegin ==
  ASSUME IInv, BeginChain
  PROVE  IInv'
<1>0. /\ TypeInv /\ PhaseInv /\ PrefixInv /\ stage = "run" /\ OnTheWay
      /\ cur \in DOMAIN routers /\ invoked = <<>> /\ ~done
  BY DEF IInv, BeginChain, PhaseInv, WayInv
<1>1. UNCHANGED <<attrs, routers, passthrough, req, cur, rest, done, invoked>>
      /\ stage' = "chain" /\ i' = Len(Chain(cur))
  BY DEF BeginChain, setupVars
<1>2. TypeInv'
  BY <1>0, <1>1, ChainTyped DEF TypeInv, Pcs
<1>3. PhaseInv' /\ PrefixInv'
  BY <1>0, <1>1 DEF PhaseInv, PrefixInv
<1>4. MiddlewareOrder' /\ PreInv'
  BY <1>0, <1>1 DEF MiddlewareOrder, Answered, PreInv
<1>5. ChainInv'
  <2>1. Cardinality(After(Len(Chain(cur)))) = 0 /\ Len(Chain(cur)) \in Nat
    BY <1>0, Turns, ChainTyped
  <2>2. \A m \in Wanted : Turn(m) > 0 /\ Turn(m) \in Nat
    <3>1. \A m \in Wanted : m <= Len(Chain(cur))
      BY <1>0, ChainTyped DEF Wanted
    <3>2. QED
      BY <1>0, <2>1, <3>1, Turns
  <2>3. Len(invoked) = 0 /\ InTurn(0) /\ OnlyMws
    BY <1>0, <2>2 DEF InTurn, OnlyMws
  <2>4. Len(invoked)' = 0 /\ InTurn(Len(invoked))' /\ OnlyMws'
    BY <1>1, <2>3, Frame DEF InTurn, OnlyMws
  <2>5. (i <= Len(Chain(cur)))' /\ Cardinality(After(i))' = 0
    BY <1>1, <2>1, Frame DEF After
  <2>6. QED
    BY <1>1, <2>4, <2>5 DEF ChainInv
<1>6. WayInv'
  <2>1. PICK d \in 0..Lookups : At(d)
    BY <1>0 DEF OnTheWay
  <2>2. d < Lookups => SubRouters(cur, req.path[d + 1]) = {}
    BY <1>0, <2>1, SegmentAt DEF At, BeginChain, Matched
  <2>3. AtItsEnd
    BY <2>1, <2>2 DEF AtItsEnd
  <2>4. AtItsEnd'
    BY <1>1, <2>3, Frame
  <2>5. QED
    BY <1>1, <2>4 DEF WayInv
<1>7. QED
  BY <1>2, <1>3, <1>4, <1>5, <1>6 DEF IInv

-----------------------------------------------------------------------------
(* The middleware chain. *)

\* The router and the request stay as they are until the response is sent.
LEMMA StaysThere ==
  ASSUME IInv, UNCHANGED <<attrs, routers, passthrough, req, cur, rest>>,
         stage \in {"chain", "decide", "search"},
         stage' \in {"chain", "decide", "search", "send", "crashed"}
  PROVE  PrefixInv' /\ WayInv' /\ cur \in DOMAIN routers
         /\ routers' # <<>> /\ cur' \in DOMAIN routers'
<1>1. PrefixInv'
  BY DEF IInv, PrefixInv
<1>2. AtItsEnd
  BY DEF IInv, WayInv
<1>3. AtItsEnd'
  BY <1>2, Frame
<1>4. WayInv'
  BY <1>3 DEF WayInv
<1>5. QED
  BY <1>1, <1>4 DEF IInv, PhaseInv

LEMMA StepSkip ==
  ASSUME IInv, SkipMiddleware
  PROVE  IInv'
<1>0. /\ TypeInv /\ PhaseInv /\ ChainInv /\ PreInv /\ stage = "chain"
      /\ cur \in DOMAIN routers /\ i \in Nat /\ i > 0 /\ i' = i - 1
  BY DEF IInv, SkipMiddleware, PhaseInv, TypeInv
<1>1. UNCHANGED <<attrs, routers, passthrough, stage, req, cur, rest, done, resStatus, invoked>>
  BY DEF SkipMiddleware, setupVars
<1>2. TypeInv'
  BY <1>0, <1>1 DEF TypeInv
<1>3. PrefixInv' /\ WayInv' /\ PhaseInv'
  BY <1>0, <1>1, StaysThere DEF PhaseInv
<1>4. MiddlewareOrder' /\ PreInv'
  BY <1>0, <1>1 DEF MiddlewareOrder, Answered, PreInv
<1>5. ChainInv'
  <2>1. /\ i <= Len(Chain(cur)) /\ OnlyMws /\ InTurn(Len(invoked))
        /\ Len(invoked) = Cardinality(After(i))
    BY <1>0 DEF ChainInv
  <2>2. i \notin Wanted
    BY DEF Wanted, SkipMiddleware, NextMiddleware
  <2>3. i - 1 \in Nat /\ (i - 1) + 1 = i
    BY <1>0
  <2>4. After(i - 1) = After(i)
    BY <1>0, <2>2, <2>3, Turns
  <2>5. After(i)' = After(i)
    BY <1>0, <1>1, <2>4, Frame DEF After
  <2>6. (i <= Len(Chain(cur)))'
    <3>1. Len(Chain(cur)) \in Nat /\ Len(Chain(cur))' = Len(Chain(cur))
      BY <1>0, <1>1, ChainTyped, Frame
    <3>2. QED
      BY <1>0, <2>1, <3>1
  <2>7. OnlyMws' /\ InTurn(Len(invoked))'
    BY <1>1, <2>1, Frame DEF OnlyMws, InTurn
  <2>8. QED
    BY <1>0, <1>1, <2>1, <2>5, <2>6, <2>7 DEF ChainInv
<1>6. QED
  BY <1>2, <1>3, <1>4, <1>5 DEF IInv

\* A middleware is called when its turn has come.
LEMMA CallMiddleware ==
  ASSUME IInv, stage = "chain", i > 0, ~Ignored(NextMiddleware),
         invoked' = Append(invoked, NextMiddleware), AfterMiddleware,
         UNCHANGED <<attrs, routers, passthrough, req, cur, rest>>
  PROVE  /\ TypeInv' /\ PhaseInv' /\ PrefixInv' /\ ChainInv' /\ WayInv'
         /\ MiddlewareOrder'
<1>0. /\ TypeInv /\ PhaseInv /\ cur \in DOMAIN routers /\ i \in Nat
      /\ invoked \in Seq(Handlers) /\ Len(invoked) \in Nat
      /\ i <= Len(Chain(cur)) /\ OnlyMws /\ InTurn(Len(invoked))
      /\ Len(invoked) = Cardinality(After(i)) /\ ~done
  BY LenProperties DEF IInv, PhaseInv, TypeInv, ChainInv
<1>1. Chain(cur) \in Seq(Mws) /\ Len(Chain(cur)) \in Nat /\ i \in 1..Len(Chain(cur))
      /\ DOMAIN Chain(cur) = 1..Len(Chain(cur))
  BY <1>0, ChainTyped
<1>2. NextMiddleware \in Mws /\ i \in Wanted /\ NextMiddleware \in Handlers
  BY <1>1, ElementOfSeq DEF NextMiddleware, Wanted, Handlers
<1>3. /\ Len(invoked') = Len(invoked) + 1 /\ invoked'[Len(invoked) + 1] = NextMiddleware
      /\ \A n \in 1..Len(invoked) : invoked'[n] = invoked[n]
      /\ invoked' \in Seq(Handlers) /\ DOMAIN invoked' = 1..(Len(invoked) + 1)
      /\ DOMAIN invoked = 1..Len(invoked)
  BY <1>0, <1>2, AppendProperties, LenProperties
<1>4. \/ done' /\ i' = 0 /\ stage' = "decide"
      \/ ~done' /\ i' = i - 1 /\ stage' = "chain"
  BY DEF AfterMiddleware
<1>5. TypeInv'
  BY <1>0, <1>3, <1>4 DEF TypeInv, Pcs
<1>6. PhaseInv' /\ PrefixInv' /\ WayInv'
  <2>1. PrefixInv' /\ WayInv' /\ routers' # <<>> /\ cur' \in DOMAIN routers'
    BY <1>4, StaysThere
  <2>2. PhaseInv'
    BY <1>4, <2>1 DEF PhaseInv
  <2>3. QED
    BY <2>1, <2>2
<1>7. MiddlewareOrder'
  BY <1>4 DEF MiddlewareOrder, Answered
<1>8. ChainInv'
  <2>1. i - 1 \in Nat /\ (i - 1) + 1 = i
    BY <1>0
  <2>2. /\ Cardinality(Wanted) \in Nat
        /\ Cardinality(After(i - 1)) = Cardinality(After(i)) + 1
        /\ Turn(i) = Cardinality(After(i - 1))
        /\ Cardinality(After(i - 1)) \in 0..Cardinality(Wanted)
    BY <1>0, <1>2, <2>1, Turns
  <2>3. Len(invoked') = Cardinality(After(i - 1)) /\ Turn(i) = Len(invoked) + 1
    BY <1>0, <1>3, <2>2
  <2>4. ASSUME NEW m \in Wanted, Turn(m) <= Len(invoked) + 1
        PROVE  invoked'[Turn(m)] = Chain(cur)[m]
    <3>0. m \in Nat /\ Turn(m) \in Nat /\ Turn(m) > 0
      <4>1. m \in Nat
        BY <1>1 DEF Wanted
      <4>2. m <= m
        BY <4>1
      <4>3. Turn(m) > Cardinality(After(m)) /\ Cardinality(After(m)) \in 0..Cardinality(Wanted)
            /\ Turn(m) \in Nat
        BY <1>0, <4>1, <4>2, Turns
      <4>4. QED
        BY <2>2, <4>1, <4>3
    <3>1. CASE m = i
      BY <1>3, <2>3, <3>1 DEF NextMiddleware
    <3>2. CASE m > i
      <4>1. Turn(m) <= Len(invoked)
        BY <1>0, <3>2, Turns
      <4>2. invoked[Turn(m)] = Chain(cur)[m]
        BY <1>0, <4>1 DEF InTurn
      <4>3. QED
        BY <1>0, <1>3, <3>0, <4>1, <4>2
    <3>3. CASE m < i
      <4>1. m <= i - 1
        BY <1>0, <3>0, <3>3
      <4>2. Turn(m) > Cardinality(After(i - 1))
        BY <1>0, <2>1, <4>1, Turns
      <4>3. QED
        BY <1>0, <2>2, <2>4, <3>0, <4>2
    <3>4. m = i \/ m > i \/ m < i
      BY <1>0, <3>0
    <3>5. QED
      BY <3>1, <3>2, <3>3, <3>4
  <2>5. InTurn(Len(invoked))'
    BY <1>3, <2>4, Frame DEF InTurn
  <2>6. OnlyMws'
    BY <1>0, <1>2, <1>3 DEF OnlyMws
  <2>7. stage' = "chain" => Len(invoked)' = Cardinality(After(i))' /\ (i <= Len(Chain(cur)))'
    <3>1. i' = i - 1 => After(i)' = After(i - 1)
      BY Frame DEF After
    <3>0. Len(Chain(cur))' = Len(Chain(cur))
      BY Frame
    <3>2. i' = i - 1 => (i <= Len(Chain(cur)))'
      BY <1>0, <1>1, <3>0
    <3>3. QED
      BY <1>4, <2>3, <3>1, <3>2
  <2>8. (Len(invoked) <= Cardinality(Wanted))'
    BY <2>2, <2>3, Frame
  <2>9. QED
    BY <1>4, <2>5, <2>6, <2>7, <2>8 DEF ChainInv
<1>9. QED
  BY <1>5, <1>6, <1>7, <1>8

LEMMA StepCors ==
  ASSUME IInv, CorsMiddleware
  PROVE  IInv'
<1>1. /\ stage = "chain" /\ i > 0 /\ NextMiddleware = "cors"
      /\ invoked' = Append(invoked, NextMiddleware) /\ AfterMiddleware
      /\ UNCHANGED <<attrs, routers, passthrough, req, cur, rest>>
  BY DEF CorsMiddleware, setupVars
<1>2. ~Ignored(NextMiddleware)
  BY <1>1 DEF Ignored
<1>3. /\ TypeInv' /\ PhaseInv' /\ PrefixInv' /\ ChainInv' /\ WayInv'
      /\ MiddlewareOrder'
  BY <1>1, <1>2, CallMiddleware
<1>4. PreInv'
  <2>1. invoked \in Seq(Handlers) /\ "cors" \in Handlers
    BY DEF IInv, TypeInv, Handlers, Mws
  <2>2. Last(invoked') = "cors"
    BY <1>1, <2>1, AppendProperties, LenProperties DEF Last
  <2>3. req.preflight /\ ~passthrough => done' /\ resStatus' = "204" /\ stage' = "decide"
    BY DEF CorsMiddleware, AfterMiddleware
  <2>4. QED
    BY <1>1, <2>2, <2>3 DEF PreInv
<1>5. QED
  BY <1>3, <1>4 DEF IInv

LEMMA StepUser ==
  ASSUME IInv, UserMiddleware
  PROVE  IInv'
<1>1. /\ stage = "chain" /\ i > 0 /\ NextMiddleware # "cors"
      /\ ~Ignored(NextMiddleware)
      /\ invoked' = Append(invoked, NextMiddleware) /\ AfterMiddleware
      /\ UNCHANGED <<attrs, routers, passthrough, req, cur, rest>>
  BY DEF UserMiddleware, setupVars
<1>2. /\ TypeInv' /\ PhaseInv' /\ PrefixInv' /\ ChainInv' /\ WayInv'
      /\ MiddlewareOrder'
  BY <1>1, CallMiddleware
<1>3. PreInv'
  <2>1. /\ invoked \in Seq(Handlers) /\ NextMiddleware \in Handlers
    <3>1. /\ invoked \in Seq(Handlers) /\ TypeInv /\ cur \in DOMAIN routers
          /\ i \in Nat /\ i <= Len(Chain(cur))
      BY <1>1 DEF IInv, TypeInv, PhaseInv, ChainInv
    <3>2. Chain(cur) \in Seq(Mws) /\ i \in 1..Len(Chain(cur))
      BY <1>1, <3>1, ChainTyped
    <3>3. QED
      BY <3>1, <3>2, ElementOfSeq DEF NextMiddleware, Handlers
  <2>2. \A n \in DOMAIN invoked' : invoked'[n] = NextMiddleware
                                 \/ (n \in DOMAIN invoked /\ invoked'[n] = invoked[n])
    BY <1>1, <2>1, AppendProperties, LenProperties
  <2>3. req.preflight /\ ~passthrough => ~\E n \in DOMAIN invoked : invoked[n] = "cors"
    BY <1>1 DEF IInv, PreInv
  <2>4. QED
    BY <1>1, <2>2, <2>3 DEF PreInv
<1>4. QED
  BY <1>2, <1>3 DEF IInv

LEMMA StepEndChain ==
  ASSUME IInv, EndChain
  PROVE  IInv'
<1>0. /\ TypeInv /\ PhaseInv /\ ChainInv /\ PreInv /\ stage = "chain" /\ i = 0
      /\ cur \in DOMAIN routers /\ ~done
  BY DEF IInv, EndChain, PhaseInv
<1>1. UNCHANGED <<attrs, routers, passthrough, req, cur, rest, i, done, resStatus, invoked>>
      /\ stage' = "decide"
  BY DEF EndChain, setupVars, runVars
<1>2. TypeInv'
  BY <1>0, <1>1 DEF TypeInv, Pcs
<1>3. PrefixInv' /\ WayInv' /\ PhaseInv'
  BY <1>0, <1>1, StaysThere DEF PhaseInv
<1>4. MiddlewareOrder' /\ PreInv'
  BY <1>0, <1>1 DEF MiddlewareOrder, Answered, PreInv
<1>5. ChainInv'
  <2>1. OnlyMws /\ InTurn(Len(invoked)) /\ Len(invoked) = Cardinality(After(0))
    BY <1>0 DEF ChainInv
  <2>2. After(0) = Wanted /\ Cardinality(Wanted) \in Nat
    BY <1>0, Turns
  <2>3. OnlyMws' /\ InTurn(Len(invoked))'
    BY <1>1, <2>1, Frame DEF OnlyMws, InTurn
  <2>4. Cardinality(Wanted)' = Cardinality(Wanted)
    BY <1>1, Frame
  <2>5. QED
    BY <1>1, <2>1, <2>2, <2>3, <2>4 DEF ChainInv
<1>6. QED
  BY <1>2, <1>3, <1>4, <1>5 DEF IInv

-----------------------------------------------------------------------------
(* The answer. *)

\* The middlewares called are in order, and the handler that comes behind them
\* is not one.
LEMMA OrderKept ==
  ASSUME TypeInv, ChainInv, stage \in {"decide", "search"}, cur \in DOMAIN routers,
         UNCHANGED <<attrs, routers, req, cur, done>>,
         NEW h \in Handlers \ Mws, invoked' \in {invoked, Append(invoked, h)}
  PROVE  MiddlewareOrder'
<1>0. /\ invoked \in Seq(Handlers) /\ Len(invoked) \in Nat /\ DOMAIN invoked = 1..Len(invoked)
      /\ OnlyMws /\ Len(invoked) <= Cardinality(Wanted) /\ InTurn(Len(invoked))
      /\ ~done => Len(invoked) = Cardinality(Wanted)
      /\ Cardinality(Wanted) \in Nat
  BY Turns, LenProperties DEF TypeInv, ChainInv
<1>1. \A n \in 1..Len(invoked) : n \in DOMAIN invoked' /\ invoked'[n] = invoked[n]
  BY <1>0, AppendProperties, LenProperties
<1>2. \A n \in DOMAIN invoked' : n \in 1..Len(invoked) \/ invoked'[n] = h
  BY <1>0, AppendProperties, LenProperties
<1>3. {n \in DOMAIN invoked' : invoked'[n] \in Mws} = 1..Len(invoked)
  <2>1. \A n : n \in {x \in DOMAIN invoked' : invoked'[x] \in Mws} <=> n \in 1..Len(invoked)
    BY <1>0, <1>1, <1>2 DEF OnlyMws
  <2>2. QED
    BY <2>1, Zenon
<1>4. ASSUME NEW m \in Wanted, Turn(m) <= Len(invoked)
      PROVE  invoked'[Turn(m)] = Chain(cur)[m]
  <2>1. m \in Nat
    BY ChainTyped DEF Wanted
  <2>2. m <= m
    BY <2>1
  <2>3. Turn(m) > Cardinality(After(m)) /\ Cardinality(After(m)) \in 0..Cardinality(Wanted)
        /\ Turn(m) \in Nat
    BY <2>1, <2>2, Turns
  <2>4. Turn(m) \in 1..Len(invoked)
    BY <1>0, <1>4, <2>3
  <2>5. QED
    BY <1>0, <1>1, <1>4, <2>4 DEF InTurn
<1>5. Len(invoked) \in 0..Cardinality(Wanted)
  BY <1>0
<1>6. /\ Wanted' = Wanted /\ Chain(cur)' = Chain(cur)
      /\ \A m : Turn(m)' = Turn(m)
  BY Frame
<1>7. \E k \in 0..Cardinality(Wanted)' :
        /\ {n \in DOMAIN invoked' : invoked'[n] \in Mws} = 1..k
        /\ \A m \in Wanted' : Turn(m)' <= k => invoked'[Turn(m)'] = Chain(cur)'[m]
        /\ ~done' => k = Cardinality(Wanted)'
  <2>1. Len(invoked) \in 0..Cardinality(Wanted)'
    BY <1>5, <1>6
  <2>2. /\ \A m \in Wanted' : Turn(m)' <= Len(invoked) => invoked'[Turn(m)'] = Chain(cur)'[m]
        /\ ~done' => Len(invoked) = Cardinality(Wanted)'
    BY <1>0, <1>4, <1>6
  <2>3. QED
    BY <1>3, <2>1, <2>2
<1>8. QED
  BY <1>7 DEF MiddlewareOrder

LEMMA StepDecide ==
  ASSUME IInv, Decide
  PROVE  IInv'
<1>0. /\ TypeInv /\ PhaseInv /\ ChainInv /\ PreInv /\ stage = "decide"
      /\ cur \in DOMAIN routers
  BY DEF IInv, Decide, PhaseInv
<1>1. /\ UNCHANGED <<attrs, routers, passthrough, req, cur, rest, i, done, resStatus, invoked>>
      /\ \/ stage' = "send" /\ routers[cur].cors /\ done
         \/ stage' = "search" /\ ~(routers[cur].cors /\ done)
  BY DEF Decide, setupVars, runVars, ShortCut
<1>2. TypeInv'
  BY <1>0, <1>1 DEF TypeInv, Pcs
<1>3. PrefixInv' /\ WayInv' /\ PhaseInv'
  BY <1>0, <1>1, StaysThere DEF PhaseInv
<1>4. MiddlewareOrder'
  <2>1. "route" \in Handlers \ Mws
    BY DEF Handlers, Mws, UserMws
  <2>2. QED
    BY <1>0, <1>1, <2>1, OrderKept
<1>5. PreInv'
  BY <1>0, <1>1 DEF PreInv
<1>6. ChainInv'
  <2>1. /\ OnlyMws /\ Len(invoked) <= Cardinality(Wanted) /\ InTurn(Len(invoked))
        /\ ~done => Len(invoked) = Cardinality(Wanted)
    BY <1>0 DEF ChainInv
  <2>2. OnlyMws' /\ InTurn(Len(invoked))'
    BY <1>1, <2>1, Frame DEF OnlyMws, InTurn
  <2>3. Cardinality(Wanted)' = Cardinality(Wanted)
    BY <1>1, Frame
  <2>4. QED
    BY <1>1, <2>1, <2>2, <2>3 DEF ChainInv
<1>7. QED
  BY <1>2, <1>3, <1>4, <1>5, <1>6 DEF IInv

\* The search is over: a handler that is no middleware was called, or none.
LEMMA HandlerCalled ==
  ASSUME IInv, stage = "search", stage' \in {"send", "crashed"},
         UNCHANGED <<attrs, routers, passthrough, req, cur, rest, i, done>>,
         NEW h \in Handlers \ Mws, invoked' \in {invoked, Append(invoked, h)}
  PROVE  IInv'
<1>0. /\ TypeInv /\ PhaseInv /\ ChainInv /\ PreInv /\ cur \in DOMAIN routers
      /\ invoked \in Seq(Handlers)
  BY DEF IInv, PhaseInv, TypeInv
<1>1. invoked' \in Seq(Handlers)
      /\ \A n \in DOMAIN invoked' : invoked'[n] = h \/ (n \in DOMAIN invoked /\ invoked'[n] = invoked[n])
  BY <1>0, AppendProperties, LenProperties
<1>2. TypeInv'
  BY <1>0, <1>1 DEF TypeInv, Pcs
<1>3. PrefixInv' /\ WayInv' /\ PhaseInv'
  <2>1. PrefixInv' /\ WayInv' /\ routers' # <<>> /\ cur' \in DOMAIN routers'
    BY StaysThere
  <2>2. QED
    BY <2>1 DEF PhaseInv
<1>4. MiddlewareOrder'
  BY <1>0, OrderKept
<1>5. PreInv'
  <2>1. h # "cors"
    BY DEF Mws
  <2>2. QED
    BY <1>0, <1>1, <2>1 DEF PreInv
<1>6. ChainInv'
  BY DEF ChainInv
<1>7. QED
  BY <1>2, <1>3, <1>4, <1>5, <1>6 DEF IInv

LEMMA StepFallback ==
  ASSUME IInv, NEW k \in Kinds, Fallback(k)
  PROVE  IInv'
<1>1. k \in Handlers \ Mws
  BY KindsAssumption DEF Handlers, Mws, UserMws
<1>2. /\ stage = "search" /\ stage' \in {"send", "crashed"} /\ invoked' = Append(invoked, k)
      /\ UNCHANGED <<attrs, routers, passthrough, req, cur, rest, i, done>>
  BY DEF Fallback, setupVars
<1>3. QED
  BY <1>1, <1>2, HandlerCalled

LEMMA StepRouteHandler ==
  ASSUME IInv, RouteHandler
  PROVE  IInv'
<1>1. "route" \in Handlers \ Mws
  BY DEF Handlers, Mws, UserMws
<1>2. /\ stage = "search" /\ stage' = "send" /\ invoked' \in {invoked, Append(invoked, "route")}
      /\ UNCHANGED <<attrs, routers, passthrough, req, cur, rest, i, done>>
  BY DEF RouteHandler, setupVars
<1>3. QED
  BY <1>1, <1>2, HandlerCalled

LEMMA StepSend ==
  ASSUME IInv, SendResponse
  PROVE  IInv'
<1>1. /\ UNCHANGED <<attrs, routers, passthrough>> /\ stage' = "idle" /\ req' = NoReq
      /\ cur' = 0 /\ i' = 0 /\ done' = FALSE /\ invoked' = <<>>
  BY DEF SendResponse, setupVars
<1>2. TypeInv'
  BY <1>1, NoReqTyped DEF IInv, TypeInv, Pcs
<1>3. PhaseInv' /\ PrefixInv'
  BY <1>1 DEF IInv, PhaseInv, PrefixInv, SendResponse
<1>4. ChainInv' /\ WayInv' /\ MiddlewareOrder' /\ PreInv'
  BY <1>1 DEF ChainInv, WayInv, MiddlewareOrder, Answered, PreInv
<1>5. QED
  BY <1>2, <1>3, <1>4 DEF IInv

LEMMA Stutter ==
  ASSUME IInv, UNCHANGED routerVars
  PROVE  IInv'
<1>1. UNCHANGED <<attrs, routers, passthrough, stage, req, cur, rest, i, done, resStatus, invoked>>
  BY DEF routerVars, setupVars, runVars
<1>2. TypeInv' /\ PhaseInv' /\ PrefixInv' /\ PreInv'
  BY <1>1 DEF IInv, TypeInv, PhaseInv, PrefixInv, PreInv
<1>3. /\ Wanted' = Wanted /\ Chain(cur)' = Chain(cur) /\ After(i)' = After(i)
      /\ \A m : Turn(m)' = Turn(m)
      /\ (OnTheWay' <=> OnTheWay) /\ (AtItsEnd' <=> AtItsEnd)
  BY <1>1, Frame DEF After
<1>4. WayInv'
  BY <1>1, <1>3 DEF IInv, WayInv
<1>5. (OnlyMws' <=> OnlyMws) /\ (InTurn(Len(invoked))' <=> InTurn(Len(invoked)))
  BY <1>1, <1>3 DEF OnlyMws, InTurn
<1>6. ChainInv'
  BY <1>1, <1>3, <1>5 DEF IInv, ChainInv
<1>7. MiddlewareOrder'
  BY <1>1, <1>3 DEF IInv, MiddlewareOrder, Answered
<1>8. QED
  BY <1>2, <1>4, <1>6, <1>7 DEF IInv

-----------------------------------------------------------------------------
(* The theorems. *)

\* IInv is inductive.
THEOREM IInvHolds == RouterSpec => []IInv
<1>1. IInv /\ [RouterNext]_routerVars => IInv'
  <2> SUFFICES ASSUME IInv, [RouterNext]_routerVars PROVE IInv'
    OBVIOUS
  <2>1. CASE SetUp
    BY <2>1, StepSetUp
  <2>2. ASSUME NEW q \in RouterRequests, Receive(q) PROVE IInv'
    BY <2>2, StepReceive
  <2>3. CASE Run
    <3>1. ASSUME NEW k \in Kinds, Fallback(k) PROVE IInv'
      BY <3>1, StepFallback
    <3>2. QED
      BY <2>3, <3>1, StepSub, StepBegin, StepSkip, StepCors, StepUser,
         StepEndChain, StepDecide, StepRouteHandler, StepSend DEF Run
  <2>4. CASE RouterEnded
    BY <2>4, Stutter DEF RouterEnded
  <2>5. CASE UNCHANGED routerVars
    BY <2>5, Stutter
  <2>6. QED
    BY <2>1, <2>2, <2>3, <2>4, <2>5 DEF RouterNext
<1>2. QED
  BY <1>1, InitIInv, PTL DEF RouterSpec

\* invoke_chain, for any number of middlewares: reverse order of registration,
\* each once, none that the request leaves out, all before any other handler.
THEOREM MiddlewaresInOrder == RouterSpec => []MiddlewareOrder
<1>1. IInv => MiddlewareOrder
  BY DEF IInv
<1>2. QED
  BY <1>1, IInvHolds, PTL

\* router_run answers with the deepest sub-router on the path of the request,
\* however deep the sub-routers are nested, unless a query stands at a prefix.
THEOREM DeepestRouterAnswers == RouterSpec => []RightRouter
<1>1. IInv => RightRouter
  <2> SUFFICES ASSUME IInv, Answered, ~QueryAtPrefix PROVE DeepestRouter
    BY DEF RightRouter
  <2> DEFINE n == Len(req.path)
  <2>1. PICK d \in 0..Lookups :
          At(d) /\ (d < Lookups => SubRouters(cur, req.path[d + 1]) = {})
    BY DEF IInv, WayInv, Answered, AtItsEnd
  <2>2. TypeInv /\ n \in Nat /\ Lookups \in Nat /\ Lookups <= n /\ d \in Nat /\ d <= Lookups
    BY LookupsNat DEF IInv
  <2>3. PICK way \in Way(d) : cur = way[d]
    BY <2>1 DEF At
  <2>4. ASSUME d < n, SubRouters(cur, req.path[d + 1]) # {} PROVE FALSE
    <3>1. d = Lookups /\ Lookups # n
      BY <2>1, <2>2, <2>4
    <3>2. req.query /\ req.path # <<>> /\ d + 1 = n
      BY <2>2, <3>1 DEF Lookups
    <3>3. Way(d + 1) # {}
      BY <2>2, <2>3, <2>4, WayGoesOn
    <3>4. QED
      BY <3>2, <3>3 DEF QueryAtPrefix
  <2>5. d \in 0..n /\ rest = SubSeq(req.path, d + 1, n)
    BY <2>1, <2>2 DEF At
  <2>6. QED
    BY <2>3, <2>4, <2>5 DEF DeepestRouter
<1>2. QED
  BY <1>1, IInvHolds, PTL

\* A Preflight that reaches cors_handler is answered 204 by it.
THEOREM PreflightsAnswered == RouterSpec => []PreflightAnswered
<1>1. IInv => PreflightAnswered
  <2> SUFFICES ASSUME IInv, Answered, req.preflight, ~passthrough,
                      routers[cur].cors, Contains(invoked, "cors")
               PROVE  resStatus = "204" /\ Last(invoked) = "cors"
    BY DEF PreflightAnswered
  <2>1. invoked \in Seq(Handlers)
    BY DEF IInv, TypeInv
  <2>2. \E n \in DOMAIN invoked : invoked[n] = "cors"
    BY <2>1, LenProperties DEF Contains
  <2>3. QED
    BY <2>2 DEF IInv, PreInv, Answered
<1>2. QED
  BY <1>1, IInvHolds, PTL

\* `done' set by a middleware: no middleware and no route handler after it, and
\* no fallback handler on a router with CORS.
THEOREM DoneIsRespected == RouterSpec => DoneRespected
<1> DEFINE Step == done => invoked' = invoked \/ stage = "send"
                           \/ (Last(invoked') \in Kinds /\ ~routers[cur].cors)
<1>1. IInv /\ [RouterNext]_routerVars => [Step]_routerVars
  <2> SUFFICES ASSUME IInv, RouterNext, done PROVE Step
    OBVIOUS
  <2>0. stage # "chain" /\ (stage = "search" => ~routers[cur].cors)
    BY DEF IInv, PhaseInv
  <2>1. ASSUME NEW k \in Kinds, Fallback(k) PROVE Step
    <3>1. invoked \in Seq(Handlers) /\ k \in Handlers
      BY DEF IInv, TypeInv, Handlers
    <3>2. Last(invoked') = k
      BY <2>1, <3>1, AppendProperties, LenProperties DEF Last, Fallback
    <3>3. QED
      BY <2>0, <2>1, <3>2 DEF Fallback
  <2>2. CASE SetUp
    BY <2>2 DEF SetUp, ys_use_middleware, ys_use_cors, AddMiddleware,
       ys_router_register_fallback, ys_router_init, ys_router_register_sub,
       StartServer, runVars
  <2>3. ASSUME NEW q \in RouterRequests, Receive(q) PROVE Step
    BY <2>3 DEF Receive
  <2>4. CASE Run
    BY <2>0, <2>1, <2>4 DEF Run, router_run_sub, BeginChain, SkipMiddleware,
       CorsMiddleware, UserMiddleware, EndChain, Decide, RouteHandler, SendResponse, runVars
  <2>5. CASE RouterEnded
    BY <2>5 DEF RouterEnded, routerVars, runVars
  <2>6. QED
    BY <2>2, <2>3, <2>4, <2>5 DEF RouterNext
<1>2. QED
  BY <1>1, IInvHolds, PTL DEF RouterSpec, DoneRespected
=============================================================================
