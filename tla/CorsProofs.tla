----------------------------- MODULE CorsProofs -----------------------------
(***************************************************************************)
(* Proofs about Cors, for every set of routers, origins, methods, headers   *)
(* and lists of them, and whatever memory holds before it is assigned.      *)
(***************************************************************************)
EXTENDS Cors, ProofLemmas

\* The configuration is what cors_init makes of the options o.
MadeOf(o) ==
  \E os \in Readings(o, "origins", o.origins),
     hs \in Readings(o, "headers", o.headers), anyOrigin, anyHeader \in BOOLEAN :
    cors_conf = NewConf(o, os, hs, anyOrigin, anyHeader)

OptsInv == /\ opts \in [Routers -> OptRec \cup {NULL}]
           /\ used \subseteq Routers
           /\ \A r \in used : opts[r] \in OptRec

\* Once a router uses CORS the configuration is that of one that does.
ConfInv == used # {} => \E r \in used : MadeOf(opts[r])

AnswerTo(q) == \E extras \in SUBSET Extras : corsRes = Answer(q, reqd, extras)

ServeInv == /\ corsPhase \in {"setup", "serve", "crashed"}
            /\ corsPhase = "setup" => corsRes = NULL
            /\ corsPhase = "serve" => used # {}
            /\ corsRes # NULL => used # {} /\ AnswerTo(corsReq)

CorsInv == OptsInv /\ ConfInv /\ ServeInv

-----------------------------------------------------------------------------
(* Lists. *)

LEMMA ListsAreSeqs ==
  ASSUME NEW list \in Lists
  PROVE  list \in Seq(Range(list))
<1>1. CASE list \in OriginLists \cup HeaderLists
  BY <1>1, ListsAssumption
<1>2. CASE list = <<"*">>
  BY <1>2 DEF Range
<1>3. CASE list = <<"junk">>
  BY <1>3 DEF Range
<1>4. CASE list = <<>>
  BY <1>4
<1>5. QED
  BY <1>1, <1>2, <1>3, <1>4 DEF Lists

\* The break at the first "*" loses nothing: the flag covers what is behind.
LEMMA BeforeStarIsAll ==
  ASSUME NEW list \in Lists
  PROVE  /\ Contains(list, "*") <=> "*" \in ToSet(list)
         /\ ~Contains(list, "*") => BeforeStar(list) = ToSet(list)
<1>1. Len(list) \in Nat /\ DOMAIN list = 1..Len(list)
  BY ListsAreSeqs, LenProperties
<1>2. Contains(list, "*") <=> "*" \in ToSet(list)
  BY <1>1 DEF Contains, ToSet
<1>3. ASSUME ~Contains(list, "*") PROVE BeforeStar(list) = ToSet(list)
  <2>1. \A j \in DOMAIN list : \A k \in 1..j : list[k] # "*"
    BY <1>1, <1>3 DEF Contains
  <2>2. {j \in DOMAIN list : \A k \in 1..j : list[k] # "*"} = DOMAIN list
    BY <2>1, Zenon
  <2>3. QED
    BY <2>2, Zenon DEF BeforeStar, ToSet
<1>4. QED
  BY <1>2, <1>3

\* What the configuration allows is what the options say: it never allows
\* less, and it allows more only where one of its flags does.
LEMMA ConfFollowsOptions ==
  ASSUME NEW o \in OptRec, MadeOf(o), NEW origin, NEW method, NEW hs
  PROVE  /\ "origins" \notin o.junk =>
              /\ OriginOk(o, origin) => is_origin_allowed(origin)
              /\ is_origin_allowed(origin) => OriginOk(o, origin) \/ cors_conf.allOrigins
         /\ MethodOk(o, method) <=> is_method_allowed(method)
         /\ "headers" \notin o.junk =>
              /\ HeadersOk(o, hs) => are_headers_allowed(hs)
              /\ are_headers_allowed(hs) => HeadersOk(o, hs) \/ cors_conf.allHeaders
         /\ cors_conf.passthrough <=> o.passthrough \/ "passthrough" \in o.junk
<1>1. PICK os \in Readings(o, "origins", o.origins),
           ws \in Readings(o, "headers", o.headers), anyOrigin, anyHeader \in BOOLEAN :
        cors_conf = NewConf(o, os, ws, anyOrigin, anyHeader)
  BY Zenon DEF MadeOf
<1>2. /\ cors_conf.allOrigins = (os = <<>> \/ Contains(os, "*") \/ anyOrigin)
      /\ cors_conf.origins = AllowedOrigins(os)
      /\ cors_conf.allHeaders = (Contains(ws, "*") \/ anyHeader)
      /\ cors_conf.headers = BeforeStar(ws) \cup {"Origin"}
      /\ cors_conf.methods = (IF o.methods = {} THEN DefaultMethods ELSE o.methods)
      /\ cors_conf.passthrough = (o.passthrough \/ "passthrough" \in o.junk)
  BY <1>1 DEF NewConf
<1>3. o.origins \in Lists /\ o.headers \in Lists
  BY DEF OptRec
<1>4. MethodOk(o, method) <=> is_method_allowed(method)
  BY <1>2 DEF MethodOk, is_method_allowed, DefaultMethods
<1>5. ASSUME "headers" \notin o.junk
      PROVE  /\ HeadersOk(o, hs) => are_headers_allowed(hs)
             /\ are_headers_allowed(hs) => HeadersOk(o, hs) \/ cors_conf.allHeaders
  <2>1. ws = o.headers
    BY <1>5 DEF Readings
  <2>2. ~Contains(ws, "*") => BeforeStar(ws) = ToSet(ws)
    BY <1>3, <2>1, BeforeStarIsAll
  <2>3. HeadersOk(o, hs) => are_headers_allowed(hs)
    BY <1>2, <2>1, <2>2, Zenon DEF HeadersOk, are_headers_allowed
  <2>4. are_headers_allowed(hs) => HeadersOk(o, hs) \/ cors_conf.allHeaders
    BY <1>2, <2>1, <2>2, Zenon DEF HeadersOk, are_headers_allowed
  <2>5. QED
    BY <2>3, <2>4
<1>6. ASSUME "origins" \notin o.junk
      PROVE  /\ OriginOk(o, origin) => is_origin_allowed(origin)
             /\ is_origin_allowed(origin) => OriginOk(o, origin) \/ cors_conf.allOrigins
  <2>1. os = o.origins
    BY <1>6 DEF Readings
  <2>2. /\ Contains(os, "*") <=> "*" \in ToSet(os)
        /\ ~Contains(os, "*") => BeforeStar(os) = ToSet(os)
    BY <1>3, <2>1, BeforeStarIsAll
  <2>3. ToSet(os) \cap {"*", origin} # {} <=> Contains(os, "*") \/ origin \in ToSet(os)
    BY <2>2, Zenon
  <2>4. /\ os = <<>> => cors_conf.origins = {}
        /\ os # <<>> => cors_conf.origins = BeforeStar(os) \cup {"null"}
    BY <1>2, Zenon DEF AllowedOrigins
  <2>5. OriginOk(o, origin) => is_origin_allowed(origin)
    BY <1>2, <2>1, <2>2, <2>3, <2>4, Zenon DEF OriginOk, is_origin_allowed
  <2>6. is_origin_allowed(origin) => OriginOk(o, origin) \/ cors_conf.allOrigins
    BY <1>2, <2>1, <2>2, <2>3, <2>4, Zenon DEF OriginOk, is_origin_allowed
  <2>7. QED
    BY <2>5, <2>6
<1>7. cors_conf.passthrough <=> o.passthrough \/ "passthrough" \in o.junk
  BY <1>2, Zenon
<1>8. QED
  BY <1>4, <1>5, <1>6, <1>7

-----------------------------------------------------------------------------
(* The invariant. *)

LEMMA InitCorsInv == CorsInit => CorsInv
BY DEF CorsInit, CorsInv, OptsInv, ConfInv, ServeInv

\* A step of the set-up that gives no router CORS.
LEMMA StepOpts ==
  ASSUME CorsInv, corsPhase = "setup", NEW r \in Routers, NEW o \in OptRec,
         r \notin used, opts' = [opts EXCEPT ![r] = o],
         UNCHANGED <<corsPhase, used, cors_conf, corsReq, reqd, corsRes>>
  PROVE  CorsInv'
<1>1. OptsInv' /\ \A s \in used : opts'[s] = opts[s]
  BY DEF CorsInv, OptsInv
<1>2. ConfInv'
  <2>1. \A s \in used : MadeOf(opts[s])' <=> MadeOf(opts[s])
    BY <1>1 DEF MadeOf
  <2>2. QED
    BY <2>1 DEF CorsInv, ConfInv
<1>3. ServeInv'
  BY DEF CorsInv, ServeInv
<1>4. QED
  BY <1>1, <1>2, <1>3 DEF CorsInv

\* The record that a setter leaves is one of options.
LEMMA SetOptsTyped ==
  ASSUME CorsInv, NEW r \in Routers, NEW o \in OptRec, NEW value, NEW assigned,
         NEW field \in {"origins", "methods", "headers", "extras", "passthrough"},
         o = [opts[r] EXCEPT ![field] = value, !.junk = opts[r].junk \ {assigned}],
         SetOpts(r, field, value, assigned)
  PROVE  CorsInv'
<1>1. opts' = [opts EXCEPT ![r] = o]
  BY DEF SetOpts, CorsInv, OptsInv
<1>2. QED
  BY <1>1, StepOpts DEF SetOpts

LEMMA StepSetters ==
  ASSUME CorsInv, NEW r \in Routers, Setters(r)
  PROVE  CorsInv'
<1>0. opts \in [Routers -> OptRec \cup {NULL}]
  BY DEF CorsInv, OptsInv
<1> DEFINE Set(field, value, assigned) ==
             [opts[r] EXCEPT ![field] = value, !.junk = opts[r].junk \ {assigned}]
<1>1. ASSUME NEW os \in OriginLists, SetOpts(r, "origins", os, "origins") PROVE CorsInv'
  <2>1. Set("origins", os, "origins") \in OptRec
    BY <1>0, <1>1 DEF OptRec, SetOpts, Lists
  <2>2. QED
    BY <1>1, <2>1, SetOptsTyped
<1>2. ASSUME NEW m \in Methods, opts[r] # NULL,
             SetOpts(r, "methods", opts[r].methods \cup {m}, "methods")
      PROVE CorsInv'
  <2>1. Set("methods", opts[r].methods \cup {m}, "methods") \in OptRec
    BY <1>0, <1>2 DEF OptRec
  <2>2. QED
    BY <1>2, <2>1, SetOptsTyped
<1>3. ASSUME NEW hs \in HeaderLists, SetOpts(r, "headers", hs, "headers") PROVE CorsInv'
  <2>1. Set("headers", hs, "headers") \in OptRec
    BY <1>0, <1>3 DEF OptRec, SetOpts, Lists
  <2>2. QED
    BY <1>3, <2>1, SetOptsTyped
<1>4. ASSUME NEW x \in Extras, opts[r] # NULL,
             NEW xs \in SUBSET Extras, SetOpts(r, "extras", xs, x)
      PROVE CorsInv'
  <2>1. Set("extras", xs, x) \in OptRec
    BY <1>0, <1>4 DEF OptRec
  <2>2. QED
    BY <1>4, <2>1, SetOptsTyped
<1>5. ASSUME NEW b \in BOOLEAN, SetOpts(r, "passthrough", b, "passthrough") PROVE CorsInv'
  <2>1. Set("passthrough", b, "passthrough") \in OptRec
    BY <1>0, <1>5 DEF OptRec, SetOpts
  <2>2. QED
    BY <1>5, <2>1, SetOptsTyped
<1>6. ASSUME NEW x \in Extras, opts[r] # NULL
      PROVE  opts[r].extras \cup {x} \in SUBSET Extras /\ opts[r].extras \ {x} \in SUBSET Extras
  BY <1>0, <1>6 DEF OptRec
<1>7. QED
  BY <1>1, <1>2, <1>3, <1>4, <1>5, <1>6 DEF Setters

LEMMA StepNewOpts ==
  ASSUME CorsInv, NEW r \in Routers, ys_cors_opts_init(r) \/ ys_cors_allow_all(r)
  PROVE  CorsInv'
<1>1. ASSUME NEW o \in OptRec, NewOpts(r, o) PROVE CorsInv'
  <2>1. r \notin used
    BY <1>1, OptsAssumption DEF CorsInv, OptsInv, NewOpts
  <2>2. QED
    BY <1>1, <2>1, StepOpts DEF NewOpts
<1>3. CASE ys_cors_opts_init(r)
  <2>1. PICK junk \in SUBSET (Garbage \cap {"origins", "headers", "expose"}) :
          NewOpts(r, [origins |-> <<>>, methods |-> {}, headers |-> <<>>, extras |-> {},
                      passthrough |-> FALSE, junk |-> junk])
    BY <1>3 DEF ys_cors_opts_init
  <2>2. [origins |-> <<>>, methods |-> {}, headers |-> <<>>, extras |-> {},
         passthrough |-> FALSE, junk |-> junk] \in OptRec
    BY DEF OptRec, Lists
  <2>3. QED
    BY <1>1, <2>1, <2>2
<1>4. CASE ys_cors_allow_all(r)
  <2>1. PICK junk \in SUBSET (Garbage \cap {"expose", "maxAge", "passthrough"}) :
          NewOpts(r, [origins |-> <<"*">>, methods |-> AllMethods, headers |-> <<"*">>,
                      extras |-> {}, passthrough |-> FALSE, junk |-> junk])
    BY <1>4 DEF ys_cors_allow_all
  <2>2. [origins |-> <<"*">>, methods |-> AllMethods, headers |-> <<"*">>,
         extras |-> {}, passthrough |-> FALSE, junk |-> junk] \in OptRec
    BY DEF OptRec, Lists
  <2>3. QED
    BY <1>1, <2>1, <2>2
<1>5. QED
  BY <1>3, <1>4

LEMMA StepInit ==
  ASSUME CorsInv, NEW r \in Routers, cors_init(r)
  PROVE  CorsInv'
<1>0. opts[r] \in OptRec /\ opts' = opts /\ used' = used \cup {r}
  BY DEF CorsInv, OptsInv, cors_init
<1>1. OptsInv'
  BY <1>0 DEF CorsInv, OptsInv
<1>2. MadeOf(opts[r])'
  <2>1. PICK os \in Readings(opts[r], "origins", opts[r].origins),
             hs \in Readings(opts[r], "headers", opts[r].headers),
             anyOrigin \in Flags("allOrigins"), anyHeader \in Flags("allHeaders") :
          cors_conf' = NewConf(opts[r], os, hs, anyOrigin, anyHeader)
    BY Zenon DEF cors_init
  <2>2. anyOrigin \in BOOLEAN /\ anyHeader \in BOOLEAN
    BY Zenon DEF Flags
  <2>3. \E x \in Readings(opts[r], "origins", opts[r].origins),
           y \in Readings(opts[r], "headers", opts[r].headers), b, c \in BOOLEAN :
          cors_conf' = NewConf(opts[r], x, y, b, c)
    BY <2>1, <2>2, Zenon
  <2>4. QED
    BY <1>0, <2>3 DEF MadeOf
<1>3. ConfInv'
  BY <1>0, <1>2 DEF ConfInv, MadeOf
<1>4. ServeInv'
  BY DEF CorsInv, ServeInv, cors_init
<1>5. QED
  BY <1>1, <1>3, <1>4 DEF CorsInv

LEMMA StepServe ==
  ASSUME CorsInv, UNCHANGED <<opts, used, cors_conf>>,
         \/ \E r \in Routers : CorsInitCrash(r)
         \/ StartCors \/ (\E q \in CorsRequests : cors_handler(q))
         \/ CorsHandlerCrash \/ SendCors \/ UNCHANGED corsVars
  PROVE  CorsInv'
<1>1. OptsInv' /\ ConfInv'
  BY DEF CorsInv, OptsInv, ConfInv, MadeOf
<1>2. AnswerTo(corsReq)' <=> \E extras \in SUBSET Extras : corsRes' = Answer(corsReq', reqd', extras)
  BY DEF AnswerTo, is_preflight_request, Answer,
     PreflightHeaders, RequestHeaders, DeniedStatus, is_origin_allowed,
     is_method_allowed, are_headers_allowed, AllowedOrigin
<1>3. ASSUME Crash \/ StartCors \/ UNCHANGED corsVars PROVE ServeInv'
  <2>1. UNCHANGED <<used, corsRes, corsReq, reqd>>
    BY <1>3 DEF Crash, StartCors, corsVars
  <2>2. AnswerTo(corsReq)' <=> AnswerTo(corsReq)
    BY <1>2, <2>1, Zenon DEF AnswerTo
  <2>3. /\ corsPhase' \in {"setup", "serve", "crashed"}
        /\ corsPhase' = "setup" => corsRes' = NULL
        /\ corsPhase' = "serve" => used' # {}
    BY <1>3, <2>1 DEF CorsInv, ServeInv, Crash, StartCors, corsVars
  <2>4. corsRes' # NULL => used' # {} /\ AnswerTo(corsReq)'
    BY <2>1, <2>2 DEF CorsInv, ServeInv
  <2>5. QED
    BY <2>3, <2>4 DEF ServeInv
<1>4. ASSUME NEW q \in CorsRequests, cors_handler(q) PROVE ServeInv'
  <2>1. PICK x \in SUBSET cors_conf.junk :
          corsRes' = Answer(q, reqd', cors_conf.extras \cup x)
    BY <1>4 DEF cors_handler
  <2>2. used # {}
    BY <1>4 DEF cors_handler, CorsInv, ServeInv
  <2>3. cors_conf.extras \cup x \in SUBSET Extras
    <3>1. PICK r \in used : MadeOf(opts[r])
      BY <2>2 DEF CorsInv, ConfInv
    <3>2. cors_conf.extras = opts[r].extras /\ cors_conf.junk = opts[r].junk \cap Extras
      BY <3>1 DEF MadeOf, NewConf
    <3>3. opts[r].extras \subseteq Extras
      BY <3>1 DEF CorsInv, OptsInv, OptRec
    <3>4. QED
      BY <2>1, <3>2, <3>3
  <2>4. AnswerTo(corsReq)'
    BY <1>2, <1>4, <2>1, <2>3 DEF cors_handler
  <2>5. QED
    BY <1>4, <2>2, <2>4 DEF CorsInv, ServeInv, cors_handler
<1>5. ASSUME SendCors PROVE ServeInv'
  BY <1>5 DEF CorsInv, ServeInv, SendCors
<1>6. QED
  BY <1>1, <1>3, <1>4, <1>5 DEF CorsInv, CorsInitCrash, CorsHandlerCrash

-----------------------------------------------------------------------------
(* The theorems. *)

\* CorsInv is inductive.
THEOREM CorsInvHolds == CorsSpec => []CorsInv
<1>1. CorsInv /\ [CorsNext]_corsVars => CorsInv'
  <2> SUFFICES ASSUME CorsInv, [CorsNext]_corsVars PROVE CorsInv'
    OBVIOUS
  <2>1. ASSUME NEW r \in Routers,
               \/ ys_cors_opts_init(r) \/ ys_cors_allow_all(r)
               \/ Setters(r) \/ cors_init(r)
        PROVE  CorsInv'
    BY <2>1, StepNewOpts, StepSetters, StepInit
  <2>2. CASE \/ \E r \in Routers : CorsInitCrash(r)
             \/ StartCors \/ (\E q \in CorsRequests : cors_handler(q))
             \/ CorsHandlerCrash \/ SendCors \/ UNCHANGED corsVars
    <3>1. UNCHANGED <<opts, used, cors_conf>>
      BY <2>2 DEF StartCors, cors_handler, SendCors, corsVars, CorsInitCrash,
         CorsHandlerCrash, Crash
    <3>2. QED
      BY <2>2, <3>1, StepServe
  <2>3. QED
    BY <2>1, <2>2 DEF CorsNext, Crashed
<1>2. QED
  BY <1>1, InitCorsInv, PTL DEF CorsSpec

\* In a state with an answer the configuration is made of the options of one
\* router that uses CORS.
LEMMA AnswerState ==
  ASSUME CorsInv, Replied
  PROVE  /\ \E r \in used : opts[r] \in OptRec /\ MadeOf(opts[r])
         /\ \E extras \in SUBSET Extras : corsRes = Answer(corsReq, reqd, extras)
BY DEF CorsInv, ConfInv, OptsInv, ServeInv, AnswerTo, Replied

\* handle_preflight_request and handle_request refuse nothing that the options
\* of all routers allow, whatever xmalloc left in the fields that nobody
\* assigns.
THEOREM NothingAllowedIsRefused == CorsSpec => []AllowedIsGranted
<1>1. CorsInv => AllowedIsGranted
  <2> SUFFICES ASSUME CorsInv, Replied, corsReq.origin # "none", OriginAllowed
               PROVE
    IF Preflight
    THEN MethodAllowed /\ HeadersAllowed =>
           /\ corsRes.headers.allowOrigin \in {"*", corsReq.origin}
           /\ corsRes.headers.allowMethods = corsReq.reqMethod
           /\ cors_conf.allHeaders \/ corsReq.reqHeaders \subseteq corsRes.headers.allowHeaders
    ELSE /\ corsRes.headers.allowOrigin \in {"*", corsReq.origin}
         /\ corsRes.status # "403"
    BY DEF AllowedIsGranted
  <2>1. PICK r \in used : opts[r] \in OptRec /\ MadeOf(opts[r])
    BY AnswerState
  <2>2. PICK extras \in SUBSET Extras : corsRes = Answer(corsReq, reqd, extras)
    BY AnswerState
  <2>3. is_origin_allowed(corsReq.origin)
    <3>1. "origins" \notin opts[r].junk /\ OriginOk(opts[r], corsReq.origin)
      BY <2>1 DEF OriginAllowed
    <3>2. QED
      BY <2>1, <3>1, ConfFollowsOptions
  <2>4. AllowedOrigin(corsReq.origin) \in {"*", corsReq.origin}
    BY DEF AllowedOrigin
  <2>5. ASSUME Preflight, MethodAllowed, HeadersAllowed
        PROVE  /\ corsRes.headers.allowOrigin \in {"*", corsReq.origin}
               /\ corsRes.headers.allowMethods = corsReq.reqMethod
               /\ cors_conf.allHeaders \/ corsReq.reqHeaders \subseteq corsRes.headers.allowHeaders
    <3>1. /\ MethodOk(opts[r], corsReq.reqMethod)
          /\ reqd = corsReq.reqHeaders /\ "headers" \notin opts[r].junk
          /\ HeadersOk(opts[r], reqd)
      BY <2>1, <2>5 DEF MethodAllowed, HeadersAllowed
    <3>2. is_method_allowed(corsReq.reqMethod) /\ are_headers_allowed(reqd)
      BY <2>1, <3>1, ConfFollowsOptions
    <3>3. corsRes.headers = PreflightHeaders(corsReq, reqd, extras)
      BY <2>2, <2>5 DEF Answer, Preflight, Response
    <3>4. corsRes.headers = [allowOrigin  |-> AllowedOrigin(corsReq.origin),
                             allowMethods |-> corsReq.reqMethod,
                             allowHeaders |-> IF reqd = {} THEN {} ELSE cors_conf.headers,
                             extras       |-> extras \cap {"credentials", "maxAge"}]
      BY <2>3, <3>2, <3>3, Zenon DEF PreflightHeaders
    <3>5. cors_conf.allHeaders \/ reqd \subseteq cors_conf.headers
      BY <3>2, Zenon DEF are_headers_allowed
    <3>6. cors_conf.allHeaders \/ reqd \subseteq corsRes.headers.allowHeaders
      BY <3>4, <3>5
    <3>7. QED
      BY <2>4, <3>1, <3>4, <3>6
  <2>6. ASSUME ~Preflight
        PROVE  /\ corsRes.headers.allowOrigin \in {"*", corsReq.origin}
               /\ corsRes.status # "403"
    <3>1. corsRes = Response(RequestHeaders(corsReq, extras), DeniedStatus(corsReq), FALSE)
      BY <2>2, <2>6 DEF Answer, Preflight
    <3>2. RequestHeaders(corsReq, extras).allowOrigin = AllowedOrigin(corsReq.origin)
      BY <2>3 DEF RequestHeaders, NoHeaders
    <3>3. DeniedStatus(corsReq) = "200"
      BY <2>3 DEF DeniedStatus
    <3>4. QED
      BY <2>4, <3>1, <3>2, <3>3 DEF Response
  <2>7. QED
    BY <2>5, <2>6
<1>2. QED
  BY <1>1, CorsInvHolds, PTL

\* The two handlers grant nothing that no router's options allow, unless one of
\* the "allow all" flags of the configuration is set, and end every Preflight
\* that no router's options pass on.
THEOREM NothingForbiddenIsGranted == CorsSpec => []ForbiddenIsRefused
<1>1. CorsInv => ForbiddenIsRefused
  <2> SUFFICES ASSUME CorsInv, Replied PROVE ForbiddenIsRefused
    BY DEF ForbiddenIsRefused
  <2>1. PICK r \in used : opts[r] \in OptRec /\ MadeOf(opts[r])
    BY AnswerState
  <2>2. PICK extras \in SUBSET Extras : corsRes = Answer(corsReq, reqd, extras)
    BY AnswerState
  <2> DEFINE granted == PreflightHeaders(corsReq, reqd, extras)
             passed  == opts[r].passthrough \/ "passthrough" \in opts[r].junk
  <2>3. Preflight => /\ corsRes.headers = granted
                     /\ ~passed => corsRes.done
                     /\ corsRes.done \/ corsRes.status = DeniedStatus(corsReq)
    <3>1. cors_conf.passthrough <=> passed
      BY <2>1, ConfFollowsOptions
    <3>2. QED
      BY <2>2, <3>1 DEF Answer, Preflight, Response
  <2>4. ~Preflight => /\ corsRes.headers = RequestHeaders(corsReq, extras)
                      /\ corsRes.status = DeniedStatus(corsReq)
    BY <2>2 DEF Answer, Preflight, Response
  <2>5. ASSUME OriginForbidden, corsReq.origin # "none", ~cors_conf.allOrigins
        PROVE  corsRes.headers = NoHeaders /\ (corsRes.done \/ corsRes.status = "403")
    <3>1. "origins" \notin opts[r].junk /\ ~OriginOk(opts[r], corsReq.origin)
      BY <2>1, <2>5 DEF OriginForbidden
    <3>2. ~is_origin_allowed(corsReq.origin)
      BY <2>1, <2>5, <3>1, ConfFollowsOptions
    <3>3. DeniedStatus(corsReq) = "403"
      BY <2>5, <3>2 DEF DeniedStatus
    <3>4. granted = NoHeaders /\ RequestHeaders(corsReq, extras) = NoHeaders
      BY <3>2 DEF PreflightHeaders, RequestHeaders
    <3>5. QED
      BY <2>3, <2>4, <3>3, <3>4
  <2>6. ASSUME Preflight, MethodForbidden PROVE corsRes.headers = NoHeaders
    <3>1. ~MethodOk(opts[r], corsReq.reqMethod)
      BY <2>1, <2>6 DEF MethodForbidden
    <3>2. ~is_method_allowed(corsReq.reqMethod)
      BY <2>1, <3>1, ConfFollowsOptions
    <3>3. QED
      BY <2>3, <2>6, <3>2 DEF PreflightHeaders
  <2>7. ASSUME Preflight, HeadersForbidden, ~cors_conf.allHeaders
        PROVE  corsRes.headers = NoHeaders
    <3>1. /\ reqd = corsReq.reqHeaders /\ "headers" \notin opts[r].junk
          /\ ~HeadersOk(opts[r], reqd)
      BY <2>1, <2>7 DEF HeadersForbidden
    <3>2. ~are_headers_allowed(reqd)
      BY <2>1, <2>7, <3>1, ConfFollowsOptions
    <3>3. QED
      BY <2>3, <2>7, <3>2 DEF PreflightHeaders
  <2>8. Preflight => \/ corsRes.done
                     \/ \E s \in used : opts[s].passthrough \/ "passthrough" \in opts[s].junk
    BY <2>1, <2>3
  <2>9. QED
    BY <2>5, <2>6, <2>7, <2>8 DEF ForbiddenIsRefused
<1>2. QED
  BY <1>1, CorsInvHolds, PTL
=============================================================================
