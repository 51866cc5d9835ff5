-------------------------------- MODULE Cors --------------------------------
(***************************************************************************)
(* The CORS middleware: the options a program builds for each router, the   *)
(* configuration cors_init makes of them, and what cors_handler puts into   *)
(* the response to a request.  There is one configuration for the whole     *)
(* process, the static cors_conf, whatever the number of routers.           *)
(*                                                                         *)
(* xmalloc does not clear the memory it returns: Garbage names the fields   *)
(* that may hold something else than zero before anything is assigned, and  *)
(* "name" when the byte behind a requested header's name may.               *)
(***************************************************************************)
EXTENDS Naturals, Sequences, SequencesExt, Pointers

CONSTANTS
  Routers,      \* the routers that use CORS
  Tuned,        \* those whose program calls setters (a bound)
  Origins,      \* the origins of clients
  OriginLists,  \* the lists of origins, with "*", a program may allow
  Methods,
  HeaderLists,  \* the lists of headers, with "*", a program may allow
  Headers,      \* the headers clients ask for
  Garbled,      \* what a name with a byte behind it may read as
  Extras,       \* of "credentials", "maxAge", "expose": what goes with a grant
  Garbage

ASSUME ListsAssumption ==
  \A list \in OriginLists \cup HeaderLists : list \in Seq(Range(list))

DefaultMethods == {"GET", "POST", "HEAD"}
AllMethods     == DefaultMethods \cup {"PATCH", "PUT", "DELETE"}

\* The cors_opts objects a program can have, none of which is the null pointer.
\* The field junk has the names of the fields that are not assigned and hold
\* something.
Lists == OriginLists \cup HeaderLists \cup {<<"*">>, <<"junk">>, <<>>}

OptRec == [origins : Lists, methods : SUBSET (Methods \cup AllMethods),
           headers : Lists, extras : SUBSET Extras,
           passthrough : BOOLEAN, junk : SUBSET Garbage]

ASSUME OptsAssumption == NULL \notin OptRec

VARIABLES
  corsPhase,  \* "setup", then "serve"; "crashed" when a wild pointer was read
  opts,       \* opts[r]: the cors_opts object of router r, NULL before it is made
  used,       \* the routers that were given to ys_use_cors with their options
  cors_conf,  \* NULL before cors_init
  corsReq,    \* the request: its method and CORS headers
  reqd,       \* the headers derive_headers takes it to ask for
  corsRes     \* the response cors_handler left for it, NULL for none

corsVars == <<corsPhase, opts, used, cors_conf, corsReq, reqd, corsRes>>

\* Only an OPTIONS request is asked for its method and headers.
CorsRequests ==
  [method : {"OPTIONS"}, origin : Origins \cup {"null", "none"},
   reqMethod : Methods \cup {"OPTIONS", "none"}, reqHeaders : SUBSET Headers]
  \cup [method : {"GET"}, origin : Origins \cup {"null", "none"},
        reqMethod : {"none"}, reqHeaders : {{}}]

CorsInit == /\ corsPhase = "setup"
            /\ opts = [r \in Routers |-> NULL] /\ used = {}
            /\ cors_conf = NULL
            /\ corsReq = NULL /\ reqd = {} /\ corsRes = NULL

-----------------------------------------------------------------------------
(* The options. *)

NewOpts(r, o) ==
  /\ corsPhase = "setup" /\ opts[r] = NULL
  /\ opts' = [opts EXCEPT ![r] = o]
  /\ UNCHANGED <<corsPhase, used, cors_conf, corsReq, reqd, corsRes>>

\* Three lists stay unassigned.
ys_cors_opts_init(r) ==
  \E junk \in SUBSET (Garbage \cap {"origins", "headers", "expose"}) :
    NewOpts(r, [origins |-> <<>>, methods |-> {}, headers |-> <<>>, extras |-> {},
                passthrough |-> FALSE, junk |-> junk])

\* The exposed headers, the maximum age and the passthrough stay unassigned.
ys_cors_allow_all(r) ==
  \E junk \in SUBSET (Garbage \cap {"expose", "maxAge", "passthrough"}) :
    NewOpts(r, [origins |-> <<"*">>, methods |-> AllMethods, headers |-> <<"*">>,
                extras |-> {}, passthrough |-> FALSE, junk |-> junk])

\* A setter assigns one field of options that are not in use yet.
SetOpts(r, field, value, assigned) ==
  /\ corsPhase = "setup" /\ r \in Tuned \ used /\ opts[r] # NULL
  /\ opts' = [opts EXCEPT ![r][field] = value,
                          ![r].junk = opts[r].junk \ {assigned}]
  /\ UNCHANGED <<corsPhase, used, cors_conf, corsReq, reqd, corsRes>>

\* The methods are added to those before.
Setters(r) ==
  \/ \E os \in OriginLists : SetOpts(r, "origins", os, "origins")
  \/ \E m \in Methods : opts[r] # NULL
       /\ SetOpts(r, "methods", opts[r].methods \cup {m}, "methods")
  \/ \E hs \in HeaderLists : SetOpts(r, "headers", hs, "headers")
  \/ \E x \in Extras : opts[r] # NULL
       /\ \/ SetOpts(r, "extras", opts[r].extras \cup {x}, x)
          \/ SetOpts(r, "extras", opts[r].extras \ {x}, x)
  \/ \E b \in BOOLEAN : SetOpts(r, "passthrough", b, "passthrough")

-----------------------------------------------------------------------------
(* cors_init *)

\* A list that was never assigned reads as one without elements or as anything.
Readings(o, field, list) ==
  IF field \in o.junk THEN {<<>>, <<"junk">>} ELSE {list}

\* The elements in front of the first "*", where the loop breaks off.
BeforeStar(list) ==
  {list[i] : i \in {j \in DOMAIN list : \A k \in 1..j : list[k] # "*"}}

AllowedOrigins(list) ==
  IF list = <<>> THEN {} ELSE BeforeStar(list) \cup {"null"}

\* The two "allow all" flags are only ever set to true.
Flags(field) == IF field \in Garbage THEN BOOLEAN ELSE {FALSE}

NewConf(o, os, hs, anyOrigin, anyHeader) ==
  [allOrigins  |-> os = <<>> \/ Contains(os, "*") \/ anyOrigin,
   origins     |-> AllowedOrigins(os),
   allHeaders  |-> Contains(hs, "*") \/ anyHeader,
   headers     |-> BeforeStar(hs) \cup {"Origin"},
   methods     |-> IF o.methods = {} THEN DefaultMethods ELSE o.methods,
   extras      |-> o.extras,
   passthrough |-> o.passthrough \/ "passthrough" \in o.junk,
   junk        |-> o.junk \cap Extras]

\* In ys_use_cors: whatever another router was configured with is replaced.
cors_init(r) ==
  /\ corsPhase = "setup" /\ opts[r] # NULL /\ r \notin used
  /\ \E os \in Readings(opts[r], "origins", opts[r].origins),
        hs \in Readings(opts[r], "headers", opts[r].headers),
        anyOrigin \in Flags("allOrigins"), anyHeader \in Flags("allHeaders") :
       cors_conf' = NewConf(opts[r], os, hs, anyOrigin, anyHeader)
  /\ used' = used \cup {r}
  /\ UNCHANGED <<corsPhase, opts, corsReq, reqd, corsRes>>

Crash == /\ corsPhase' = "crashed"
         /\ UNCHANGED <<opts, used, cors_conf, corsReq, reqd, corsRes>>

\* has_elements of a pointer that leads nowhere.
CorsInitCrash(r) ==
  /\ corsPhase = "setup" /\ opts[r] # NULL /\ r \notin used
  /\ opts[r].junk \cap {"origins", "headers"} # {}
  /\ Crash

StartCors == /\ corsPhase = "setup" /\ used # {}
             /\ corsPhase' = "serve"
             /\ UNCHANGED <<opts, used, cors_conf, corsReq, reqd, corsRes>>

-----------------------------------------------------------------------------
(* cors_handler *)

is_preflight_request(q) ==
  q.method = "OPTIONS" /\ q.origin # "none" /\ q.reqMethod # "none"

\* Mutant: the flag is not looked at.
OriginListed(origin) == origin \in cors_conf.origins

is_origin_allowed(origin) == cors_conf.allOrigins \/ origin \in cors_conf.origins

is_method_allowed(method) ==
  cors_conf.methods # {} /\ (method = "OPTIONS" \/ method \in cors_conf.methods)

\* Mutant: one allowed header is enough.
AnyHeaderAllowed(hs) ==
  cors_conf.allHeaders \/ hs = {} \/ hs \cap cors_conf.headers # {}

are_headers_allowed(hs) == cors_conf.allHeaders \/ hs \subseteq cors_conf.headers

\* derive_headers writes the terminator one place too far, behind a byte that
\* is never assigned: any name may have one character more than it should.
Derived(hs) ==
  {{name[h] : h \in hs} :
     name \in {n \in [hs -> hs \cup Garbled] :
                 \A h \in hs : n[h] = h \/ ("name" \in Garbage /\ n[h] \in Garbled)}}

NoHeaders == [allowOrigin |-> "none", allowMethods |-> "none",
              allowHeaders |-> {}, extras |-> {}]

AllowedOrigin(origin) == IF cors_conf.allOrigins THEN "*" ELSE origin

\* handle_preflight_request: nothing is granted unless all three tests pass.
PreflightHeaders(q, hs, extras) ==
  IF /\ is_origin_allowed(q.origin)
     /\ is_method_allowed(q.reqMethod)
     /\ are_headers_allowed(hs)
  THEN [allowOrigin  |-> AllowedOrigin(q.origin),
        allowMethods |-> q.reqMethod,
        allowHeaders |-> IF hs = {} THEN {} ELSE cors_conf.headers,
        extras       |-> extras \cap {"credentials", "maxAge"}]
  ELSE NoHeaders

\* handle_request
RequestHeaders(q, extras) ==
  IF q.origin # "none" /\ is_origin_allowed(q.origin)
  THEN [NoHeaders EXCEPT !.allowOrigin = AllowedOrigin(q.origin),
                         !.extras = extras \cap {"credentials", "expose"}]
  ELSE NoHeaders

\* An origin that is not allowed sets the status to 403.
DeniedStatus(q) ==
  IF q.origin # "none" /\ ~is_origin_allowed(q.origin) THEN "403" ELSE "200"

Response(headers, status, done) ==
  [headers |-> headers, status |-> status, done |-> done]

\* A Preflight is answered here with 204, which replaces a 403, or passed on.
Answer(q, hs, extras) ==
  IF ~is_preflight_request(q)
  THEN Response(RequestHeaders(q, extras), DeniedStatus(q), FALSE)
  ELSE IF cors_conf.passthrough
  THEN Response(PreflightHeaders(q, hs, extras), DeniedStatus(q), FALSE)
  ELSE Response(PreflightHeaders(q, hs, extras), "204", TRUE)

\* A field that was never assigned goes out or not.
cors_handler(q) ==
  /\ corsPhase = "serve" /\ corsReq = NULL
  /\ corsReq' = q
  /\ reqd' \in Derived(q.reqHeaders)
  /\ \E x \in SUBSET cors_conf.junk :
       corsRes' = Answer(q, reqd', cors_conf.extras \cup x)
  /\ UNCHANGED <<corsPhase, opts, used, cors_conf>>

\* handle_request looks for elements in the list of exposed headers.
CorsHandlerCrash ==
  /\ corsPhase = "serve" /\ corsReq = NULL /\ "expose" \in cors_conf.junk
  /\ Crash

\* The router sends the response and the request is over.
SendCors == /\ corsReq # NULL
            /\ corsReq' = NULL /\ reqd' = {} /\ corsRes' = NULL
            /\ UNCHANGED <<corsPhase, opts, used, cors_conf>>

Crashed == corsPhase = "crashed" /\ UNCHANGED corsVars

CorsNext ==
  \/ \E r \in Routers : \/ ys_cors_opts_init(r) \/ ys_cors_allow_all(r)
                        \/ Setters(r) \/ cors_init(r) \/ CorsInitCrash(r)
  \/ StartCors
  \/ \E q \in CorsRequests : cors_handler(q)
  \/ CorsHandlerCrash \/ SendCors \/ Crashed

CorsSpec == CorsInit /\ [][CorsNext]_corsVars

-----------------------------------------------------------------------------
(* The policy that options state, where their lists were assigned: a list    *)
(* of origins without elements allows all of them, one of methods the        *)
(* default ones.                                                             *)

OriginOk(o, origin) ==
  o.origins = <<>> \/ ToSet(o.origins) \cap {"*", origin} # {} \/ origin = "null"

MethodOk(o, method) ==
  method \in {"OPTIONS"} \cup (IF o.methods = {} THEN DefaultMethods ELSE o.methods)

HeadersOk(o, hs) ==
  Contains(o.headers, "*") \/ hs \subseteq ToSet(o.headers) \cup {"Origin"}

Replied   == corsRes # NULL
Preflight == is_preflight_request(corsReq)

\* Each router's options have their list, and allow the origin (forbid it).
OriginAllowed   == \A r \in used : /\ "origins" \notin opts[r].junk
                                   /\ OriginOk(opts[r], corsReq.origin)
OriginForbidden == \A r \in used : /\ "origins" \notin opts[r].junk
                                   /\ ~OriginOk(opts[r], corsReq.origin)

\* The same of its method and, where they were read as they were sent, of its
\* headers.
MethodAllowed    == \A r \in used : MethodOk(opts[r], corsReq.reqMethod)
MethodForbidden  == \A r \in used : ~MethodOk(opts[r], corsReq.reqMethod)
HeadersAllowed   == /\ reqd = corsReq.reqHeaders
                    /\ \A r \in used : /\ "headers" \notin opts[r].junk
                                       /\ HeadersOk(opts[r], corsReq.reqHeaders)
HeadersForbidden == /\ reqd = corsReq.reqHeaders
                    /\ \A r \in used : /\ "headers" \notin opts[r].junk
                                       /\ ~HeadersOk(opts[r], corsReq.reqHeaders)

\* What the options of every router allow is granted, whatever the memory held:
\* the origin of a request (cors.c:141), and the origin of a Preflight with its
\* method and headers (cors.c:190), of which the client learns.  Left open are
\* the headers that only a "*" allows and names read with a byte behind them.
AllowedIsGranted ==
  Replied /\ corsReq.origin # "none" /\ OriginAllowed =>
    IF Preflight
    THEN MethodAllowed /\ HeadersAllowed =>
           /\ corsRes.headers.allowOrigin \in {"*", corsReq.origin}
           /\ corsRes.headers.allowMethods = corsReq.reqMethod
           /\ \/ cors_conf.allHeaders
              \/ corsReq.reqHeaders \subseteq corsRes.headers.allowHeaders
    ELSE /\ corsRes.headers.allowOrigin \in {"*", corsReq.origin}
         /\ corsRes.status # "403"

\* What no router's options allow is refused without a word, as far as the
\* "allow all" flags do not allow it on their own: an origin, with 403 unless
\* cors_handler made 204 of it, the method or the headers of a Preflight.  A
\* Preflight goes on to a handler only where a router passes it on or has not
\* said.
ForbiddenIsRefused ==
  Replied =>
    /\ OriginForbidden /\ corsReq.origin # "none" /\ ~cors_conf.allOrigins =>
         corsRes.headers = NoHeaders /\ (corsRes.done \/ corsRes.status = "403")
    /\ Preflight /\ MethodForbidden => corsRes.headers = NoHeaders
    /\ Preflight /\ HeadersForbidden /\ ~cors_conf.allHeaders =>
         corsRes.headers = NoHeaders
    /\ Preflight =>
         \/ corsRes.done
         \/ \E r \in used : opts[r].passthrough \/ "passthrough" \in opts[r].junk

\* "If the origin is not in the allow list, deny" (cors.c:155): an origin that
\* no router's list has is not granted, not even by a "*".  cors_init never
\* clears the flag that says so.
UnlistedIsDenied ==
  Replied /\ corsReq.origin # "none" /\ OriginForbidden =>
    corsRes.headers.allowOrigin = "none"

\* "Middlewares are specific to the ys_router_attr* on which they've been
\* registered" (docs/documentation/routing.md:237), so a request gets what the
\* options of its own router say, whichever router that is.  cors_init
\* overwrites the one configuration.
OwnPolicy ==
  Replied /\ corsReq.origin # "none" /\ ~Preflight =>
    \A r \in used : OriginOk(opts[r], corsReq.origin) <=>
                      corsRes.headers.allowOrigin \in {"*", corsReq.origin}
=============================================================================
