------------------------------ MODULE Headers -------------------------------
(***************************************************************************)
(* The header tables of a request and of its response: what               *)
(* req_read_and_parse puts into the one from the header lines it received,  *)
(* what the handlers put into the other, and the message that               *)
(* response_serialize makes of it.                                          *)
(*                                                                         *)
(* A key is a name and the spelling in which it came: the tables compare    *)
(* keys with strcmp, so the spellings of a name are different keys.         *)
(***************************************************************************)
EXTENDS CStrings

CONSTANTS
  ReqKeys,     \* the keys of request lines
  ResKeys,     \* the keys handlers set
  Values,      \* header values
  Statuses,    \* the statuses handlers set
  MaxLines,    \* bound on the header lines of a request
  MaxCalls     \* bound on the calls of the handlers for a request

Key(name, spelling) == [name |-> name, spelling |-> spelling]
Canonical(name) == Key(name, "canonical")

ASSUME StatusesAssumption == Statuses \subseteq 100..599
ASSUME LinesAssumption == MaxLines \in Nat

VARIABLES
  pc,
  method,    \* of the request
  lines,     \* the header lines of the request, as parsed
  pos,       \* the lines inserted so far
  reqTable,  \* req->headers: the values of each key present
  resTable,  \* res->headers
  status, body,
  calls,     \* the number of calls so far
  out        \* the serialized response, NULL before

resVars == <<resTable, status, body, calls, out>>
vars == <<pc, method, lines, pos, reqTable, resVars>>

Empty == [k \in {} |-> <<>>]

ReqLines == UNION {[1..n -> ReqKeys \X Values] : n \in 0..MaxLines}

Init == /\ pc = "parse"
        /\ method \in {"GET", "CONNECT"}
        /\ lines \in ReqLines /\ pos = 0
        /\ reqTable = Empty /\ resTable = Empty
        /\ status = 0 /\ body = FALSE /\ calls = 0 /\ out = NULL

-----------------------------------------------------------------------------
(* header.c *)

\* The values of a key, <<>> if it is not there (external: the hash table).
ht_get(table, key) == IF key \in DOMAIN table THEN table[key] ELSE <<>>

is_singleton_header(key) ==
  key \in {Canonical("Content-Type"), Canonical("Content-Length"), Canonical("Host")}

PushValue(table, key, value) ==
  [k \in DOMAIN table \cup {key} |->
     IF k = key THEN Append(ht_get(table, key), value) ELSE table[k]]

\* Mutant: Content-Length is refused in its canonical spelling only.
RefusedExactly(table, key, isRequest) ==
  IF isRequest THEN key \in DOMAIN table /\ is_singleton_header(key)
  ELSE key \notin DOMAIN table /\ key = Canonical("Content-Length")

\* insert_header returns false: a request repeats a singleton, or a response
\* sets Content-Length in any spelling.
Refused(table, key, isRequest) ==
  IF isRequest THEN key \in DOMAIN table /\ is_singleton_header(key)
  ELSE key \notin DOMAIN table /\ key.name = "Content-Length"

get_first_header(table, key) == Head(ht_get(table, key))

-----------------------------------------------------------------------------
(* The loop of req_read_and_parse *)

InsertLine ==
  /\ pc = "parse" /\ pos < Len(lines)
  /\ LET key == lines[pos + 1][1]
         value == lines[pos + 1][2]
     IN  IF Refused(reqTable, key, TRUE)
         THEN pc' = "refused" /\ UNCHANGED reqTable
         ELSE reqTable' = PushValue(reqTable, key, value) /\ UNCHANGED pc
  /\ pos' = pos + 1
  /\ UNCHANGED <<method, lines, resVars>>

Pragma == Canonical("Pragma")
CacheControl == Canonical("Cache-Control")

\* Mutant: a Cache-Control of the request is extended.
FixAlways(table) ==
  IF Pragma \in DOMAIN table /\ get_first_header(table, Pragma) = "no-cache"
  THEN PushValue(table, CacheControl, "no-cache") ELSE table

fix_pragma_cache_control(table) ==
  IF /\ Pragma \in DOMAIN table /\ get_first_header(table, Pragma) = "no-cache"
     /\ CacheControl \notin DOMAIN table
  THEN PushValue(table, CacheControl, "no-cache") ELSE table

\* After the loop; then the router makes the response with response_init.
Parsed ==
  /\ pc = "parse" /\ pos = Len(lines)
  /\ reqTable' = fix_pragma_cache_control(reqTable)
  /\ resTable' = PushValue(Empty, Canonical("X-Powered-By"), "Ys")
  /\ status' = 200 /\ body' = FALSE
  /\ pc' = "handle"
  /\ UNCHANGED <<method, lines, pos, calls, out>>

-----------------------------------------------------------------------------
(* Handlers *)

Calling == /\ pc = "handle" /\ calls < MaxCalls
           /\ calls' = calls + 1
           /\ UNCHANGED <<pc, method, lines, pos, reqTable, out>>

SetHeader(key, value) ==
  IF Refused(resTable, key, FALSE)
  THEN UNCHANGED resTable
  ELSE resTable' = PushValue(resTable, key, value)

ys_set_header(key, value) ==
  /\ Calling /\ SetHeader(key, value)
  /\ UNCHANGED <<status, body>>

\* cookie_serialize returns a null pointer for a cookie without a valid name,
\* which becomes a value of the header all the same.
ys_set_cookie(valid) ==
  /\ Calling
  /\ SetHeader(Canonical("Set-Cookie"), IF valid THEN "cookie" ELSE "NULL")
  /\ UNCHANGED <<status, body>>

ys_set_status(s) ==
  /\ Calling /\ status' = s
  /\ UNCHANGED <<resTable, body>>

ys_set_body ==
  /\ Calling /\ body' = TRUE
  /\ UNCHANGED <<resTable, status>>

-----------------------------------------------------------------------------
(* response_serialize *)

should_set_content_len ==
  /\ status # 204
  /\ ~(status \in 100..199)
  /\ ~(status \in 200..299 /\ method = "CONNECT")

\* One line per key, its values joined with ", ", in the order of the table,
\* which is left open.
TableLines == SetToSeq({<<k, resTable[k]>> : k \in DOMAIN resTable})

HasContentType == \E k \in DOMAIN resTable : k.name = "Content-Type"

Added ==
  (IF body /\ ~HasContentType THEN <<<<Canonical("Content-Type"), <<"text/plain">>>>>>
   ELSE <<>>)
  \o <<<<Canonical("Content-Length"), <<"length of the body">>>>>>

response_serialize ==
  /\ pc = "handle"
  /\ out' = IF should_set_content_len
            THEN [status |-> status, lines |-> TableLines \o Added, body |-> body]
            ELSE [status |-> status, lines |-> TableLines, body |-> FALSE]
  /\ pc' = "sent"
  /\ UNCHANGED <<method, lines, pos, reqTable, resTable, status, body, calls>>

Ended == pc \in {"sent", "refused"} /\ UNCHANGED vars

Next ==
  \/ InsertLine \/ Parsed
  \/ \E k \in ResKeys, v \in Values : ys_set_header(k, v)
  \/ \E valid \in BOOLEAN : ys_set_cookie(valid)
  \/ \E s \in Statuses : ys_set_status(s)
  \/ ys_set_body
  \/ response_serialize \/ Ended

Spec == Init /\ [][Next]_vars

-----------------------------------------------------------------------------

\* The lines of a key among the first p, and a list of their values in order.
Seen(key, p) == {n \in 1..p : lines[n][1] = key}
InLineOrder(vals, key, p) ==
  /\ Len(vals) = Cardinality(Seen(key, p))
  /\ \A n \in Seen(key, p) : vals[Cardinality(Seen(key, n))] = lines[n][2]

LinesOf(key) == Seen(key, Len(lines))

\* The singletons (RFC 7230), and the lines with a name in any spelling.
Singletons == {"Content-Type", "Content-Length", "Host"}
LinesNamed(name) == {n \in 1..Len(lines) : lines[n][1].name = name}

\* "Disallow duplicates where necessary" (insert_header, src/header.c): no
\* request is refused unless one of Content-Type, Content-Length and Host comes
\* twice, and none is accepted in which one of them comes twice in the canonical
\* spelling, however many lines are in between.  (Whether two spellings of one
\* of them may be accepted is left open.)  Of an accepted request no value is
\* lost, added or moved: the table holds every value of a key in the order of the
\* lines, except that a request whose first Pragma says no-cache and that has no
\* Cache-Control of its own gets Cache-Control: no-cache.
RequestHeadersKept ==
  /\ pc = "refused" => \E name \in Singletons : Cardinality(LinesNamed(name)) > 1
  /\ pc \in {"handle", "sent"} =>
       \A name \in Singletons : ~(Cardinality(LinesOf(Canonical(name))) > 1)
  /\ pc \in {"handle", "sent"} =>
       \A k \in ReqKeys \cup {CacheControl} :
         IF /\ k = CacheControl /\ LinesOf(k) = {}
            /\ LinesOf(Pragma) # {} /\ lines[Min(LinesOf(Pragma))][2] = "no-cache"
         THEN ht_get(reqTable, k) = <<"no-cache">>
         ELSE InLineOrder(ht_get(reqTable, k), k, Len(lines))

SentLines(name) == {n \in DOMAIN out.lines : out.lines[n][1].name = name}

\* Whatever the handlers set, in whatever order, a response has one
\* Content-Length in any spelling, and none if its status or the method forbids
\* it; a body goes only with a Content-Length, and never without a Content-Type.
ResponseFraming ==
  pc = "sent" =>
    /\ Cardinality(SentLines("Content-Length")) =
         IF \/ out.status = 204 \/ out.status < 200
            \/ out.status < 300 /\ method = "CONNECT"
         THEN 0 ELSE 1
    /\ out.body => SentLines("Content-Length") # {} /\ SentLines("Content-Type") # {}
=============================================================================
