------------------------------ MODULE Cookies -------------------------------
(***************************************************************************)
(* Cookies: a program makes them, sets their attributes and puts them into  *)
(* a response; a client sends them back; the program looks one up.          *)
(*                                                                         *)
(* The words of a cookie text ("Path", "Lax", a date) are single characters *)
(* here: no property looks inside.  "ctl" is a character that is not        *)
(* printable ASCII.  CRASH stands for the use of a null pointer.            *)
(***************************************************************************)
EXTENDS Ip

CONSTANTS
  Names, CookieValues, Paths, Domains,  \* what programs pass
  MaxLabel,     \* 63
  MaxDomain,    \* 255
  MaxCookies,   \* bound on the cookies of a response
  MaxSetters,   \* bound on the calls that set attributes
  CRASH

ASSUME CookieAssumption == MaxLabel \in Nat /\ MaxDomain \in Nat

\* What programs pass are texts.
PassedTexts == Names \cup CookieValues \cup Paths \cup Domains
CookieChars == UNION {ToSet(text) : text \in PassedTexts}

ASSUME PassedAssumption ==
  NULL \notin Seq(CookieChars) /\ \A text \in PassedTexts : text \in Seq(CookieChars)

VARIABLES
  ckPc,         \* "make", "sent", "found"
  cookie,       \* the cookie in the making, NULL if there is none
  made,         \* the cookies that were put into the response
  setCookies,   \* the values of its Set-Cookie header
  setters,      \* the calls so far
  client,       \* how the client sends them back: "echo" or "browser"
  cookieLines,  \* the values of the Cookie header of the next request
  looked,       \* the name that is looked up
  found         \* the result of ys_get_cookie

readVars == <<client, cookieLines, looked, found>>
cookieVars == <<ckPc, cookie, made, setCookies, setters, readVars>>

CookieInit ==
  /\ ckPc = "make" /\ cookie = NULL /\ made = <<>> /\ setCookies = <<>>
  /\ setters = 0 /\ client = NULL /\ cookieLines = <<>> /\ looked = NULL /\ found = NULL

-----------------------------------------------------------------------------
(* Characters *)

NotToken == {" ", ",", ";", "=", "\"", "\\", "/", "ctl"}

is_valid_cookie_name(name) ==
  ~s_nullish(name) /\ \A n \in DOMAIN name : name[n] \notin NotToken

is_valid_cookie_value_char(c) == c \notin {"ctl", "\"", ";", "\\"}

\* Mutant: a semicolon is left in the path.
PathWithSemicolon(c) == c # "ctl"

is_valid_cookie_path_char(c) == c \notin {"ctl", ";"}

\* A copy if every character passes the test, else a buffer with those that do.
sanitize(v, passing) ==
  LET at == InOrder(passing)
  IN  IF passing = DOMAIN v THEN v ELSE OrNull([n \in DOMAIN at |-> v[at[n]]])

-----------------------------------------------------------------------------
(* Domains *)

Digits  == DecDigits
Letters == {"a", "x", "n", "m"}

\* One iteration over a name: the character before, the length of the label,
\* whether there was a letter, and whether the name is refused.
DomainChar(st, c) ==
  IF st.refused THEN st
  ELSE IF c \in Letters \cup Digits
  THEN [st EXCEPT !.prev = c, !.len = @ + 1, !.letter = @ \/ c \in Letters]
  ELSE IF c = "-" /\ st.prev # "."
  THEN [st EXCEPT !.prev = c, !.len = @ + 1]
  ELSE IF c = "." /\ st.prev \notin {".", "-"} /\ st.len \in 1..MaxLabel
  THEN [st EXCEPT !.prev = c, !.len = 0]
  ELSE [st EXCEPT !.refused = TRUE]

\* The loop over a name: st[n] is what is known behind the first n characters.
DomainScan(name) ==
  LET st[n \in 0..Len(name)] ==
        IF n = 0 THEN [prev |-> ".", len |-> 0, letter |-> FALSE, refused |-> FALSE]
        ELSE DomainChar(st[n - 1], name[n])
  IN  st[Len(name)]

WithoutDot(d) == IF Head(d) = "." THEN Tail(d) ELSE d

\* Mutant: the last label is not measured.
DomainNameUnmeasured(d) ==
  /\ Len(d) \in 1..MaxDomain
  /\ LET end == DomainScan(WithoutDot(d))
     IN  ~end.refused /\ end.prev # "-" /\ end.letter

is_valid_cookie_domain_name(d) ==
  /\ Len(d) \in 1..MaxDomain
  /\ LET end == DomainScan(WithoutDot(d))
     IN  ~end.refused /\ end.prev # "-" /\ end.len <= MaxLabel /\ end.letter

\* validate_ip without a colon is parse_ipv4, if there is a dot.
is_valid_cookie_domain(d) ==
  \/ is_valid_cookie_domain_name(d)
  \/ Contains(d, ".") /\ parse_ipv4(d) /\ ~Contains(d, ":")

-----------------------------------------------------------------------------
(* Writing *)

sanitize_cookie_value(v) ==
  LET clean == sanitize(v, {n \in DOMAIN v : is_valid_cookie_value_char(v[n])})
  IN  IF clean = NULL THEN CRASH
      ELSE IF Contains(clean, ",") \/ Contains(clean, " ")
      THEN <<"\"">> \o clean \o <<"\"">> ELSE clean

sanitize_cookie_path(p) == sanitize(p, {n \in DOMAIN p : is_valid_cookie_path_char(p[n])})

Attr(name, value) ==
  <<";", " ", name, "=">> \o (IF value = NULL THEN <<>> ELSE value)
Flag(name) == <<";", " ", name>>
When(cond, text) == IF cond THEN text ELSE <<>>

\* The year is past 1601 for every positive time.
is_valid_cookie_expiry(t) == t > 0

cookie_serialize(c) ==
  IF ~is_valid_cookie_name(c.name) THEN NULL
  ELSE IF sanitize_cookie_value(c.value) = CRASH \/ c.domain = <<".">> THEN CRASH
  ELSE c.name \o <<"=">> \o sanitize_cookie_value(c.value)
       \o When(~s_nullish(c.path), Attr("Path", sanitize_cookie_path(c.path)))
       \o (IF s_nullish(c.domain) THEN <<>>
           ELSE When(is_valid_cookie_domain(c.domain), Attr("Domain", WithoutDot(c.domain))))
       \o When(is_valid_cookie_expiry(c.expires), Attr("Expires", <<"date">>))
       \o When(c.maxAge # 0, Attr("Max-Age", IF c.maxAge > 0 THEN <<"1">> ELSE <<"0">>))
       \o When(c.httpOnly, Flag("HttpOnly"))
       \o When(c.secure, Flag("Secure"))
       \o When(c.sameSite # "default", Attr("SameSite", <<c.sameSite>>))

ys_cookie_init(name, value) ==
  [name |-> name, value |-> value, path |-> NULL, domain |-> NULL, expires |-> -1,
   maxAge |-> 0, httpOnly |-> FALSE, secure |-> FALSE, sameSite |-> "default"]

NewCookie(name, value) ==
  /\ ckPc = "make" /\ cookie = NULL /\ Len(made) < MaxCookies
  /\ cookie' = ys_cookie_init(name, value)
  /\ UNCHANGED <<ckPc, made, setCookies, setters, readVars>>

SetAttribute(field, value) ==
  /\ ckPc = "make" /\ cookie # NULL /\ setters < MaxSetters
  /\ cookie' = [cookie EXCEPT ![field] = value]
  /\ setters' = setters + 1
  /\ UNCHANGED <<ckPc, made, setCookies, readVars>>

CookieSetters ==
  \/ \E d \in Domains : SetAttribute("domain", d)
  \/ \E p \in Paths : SetAttribute("path", p)
  \/ \E t \in {0, 1} : SetAttribute("expires", t)
  \/ \E age \in {-1, 1} : SetAttribute("maxAge", age)
  \/ \E b \in BOOLEAN : SetAttribute("httpOnly", b) \/ SetAttribute("secure", b)
  \/ \E mode \in {"default", "None", "Lax", "Strict"} : SetAttribute("sameSite", mode)

\* ys_set_cookie: the null pointer of a cookie without a valid name becomes a
\* value too, which holds no text of the cookie.
PutCookie ==
  /\ ckPc = "make" /\ cookie # NULL /\ cookie_serialize(cookie) # CRASH
  /\ made' = Append(made, cookie)
  /\ setCookies' = Append(setCookies, cookie_serialize(cookie))
  /\ cookie' = NULL
  /\ UNCHANGED <<ckPc, setters, readVars>>

\* The process ends at the null pointer.
PutCookieCrashes ==
  /\ ckPc = "make" /\ cookie # NULL /\ cookie_serialize(cookie) = CRASH
  /\ ckPc' = "crashed"
  /\ UNCHANGED <<cookie, made, setCookies, setters, readVars>>

-----------------------------------------------------------------------------
(* Reading *)

\* The value without its quotes, NULL if a character is not allowed; two quotes
\* with nothing in between are a null pointer to strcpy.
parse_cookie_value(raw, quotes) ==
  LET quoted == quotes /\ Len(raw) > 1 /\ raw[1] = "\"" /\ raw[Len(raw)] = "\""
      value  == IF quoted THEN SubSeq(raw, 2, Len(raw) - 1) ELSE raw
  IN  IF raw = NULL THEN <<>>
      ELSE IF quoted /\ Len(raw) = 2 THEN CRASH
      ELSE IF \A n \in DOMAIN value : is_valid_cookie_value_char(value[n])
      THEN value ELSE NULL

atoi(v) == dtoi(v).n

\* An attribute of the cookie c; an unknown one changes nothing.
Apply(c, attr, v) ==
  CASE attr = <<"SameSite">> ->
         [c EXCEPT !.sameSite = IF v \in {<<"Lax">>, <<"Strict">>, <<"None">>}
                                THEN Head(v) ELSE "default"]
    [] attr = <<"Secure">>   -> [c EXCEPT !.secure = TRUE]
    [] attr = <<"HttpOnly">> -> [c EXCEPT !.httpOnly = TRUE]
    [] attr = <<"Domain">>   -> [c EXCEPT !.domain = v]
    [] attr = <<"Max-Age">>  ->
         IF atoi(v) = 0 \/ v[1] = "0" THEN c ELSE [c EXCEPT !.maxAge = atoi(v)]
    [] attr = <<"Expires">>  -> IF v = <<"date">> THEN [c EXCEPT !.expires = 1] ELSE c
    [] attr = <<"Path">>     -> [c EXCEPT !.path = v]
    [] OTHER -> c

read_attribute(c, part) ==
  LET cut == str_cut(s_trim(part), "=")
      v   == parse_cookie_value(cut[2], FALSE)
  IN  IF c = CRASH THEN CRASH
      ELSE IF s_trim(part) = <<>> \/ v = NULL THEN c
      ELSE IF cut[1] = NULL THEN CRASH
      ELSE Apply(c, cut[1], v)

\* The cookie of a line with semicolons, NULL if there is none.
read_cookie(parts) ==
  LET cut == str_cut(s_trim(Head(parts)), "=")
      v   == parse_cookie_value(cut[2], TRUE)
  IN  IF ~is_valid_cookie_name(cut[1]) THEN NULL
      ELSE IF v \in {NULL, CRASH} THEN v
      ELSE FoldLeft(read_attribute, ys_cookie_init(cut[1], v), Tail(parts))

\* A part of a line as a browser writes it, NULL if it is skipped.
read_pair(part) ==
  LET cut == str_cut(part, "=")
      v   == parse_cookie_value(cut[2], TRUE)
  IN  IF part = <<>> \/ ~is_valid_cookie_name(cut[1]) \/ s_nullish(v) THEN NULL
      ELSE IF v = CRASH THEN CRASH ELSE ys_cookie_init(cut[1], v)

NotNull(list) == SelectSeq(list, LAMBDA x : x # NULL)

\* All parts of all lines; only whole lines are trimmed.
read_browser_cookie(lns) ==
  FlattenSeq([n \in DOMAIN lns |->
       LET parts == Fields(s_trim(lns[n]), ";")
       IN  NotNull([k \in DOMAIN parts |-> read_pair(parts[k])])])

\* Mutant: a line without a semicolon is passed over.
ReadWithoutFallback(lns) ==
  LET parts == SelectSeq([n \in DOMAIN lns |-> split(s_trim(lns[n]), ";")],
                         LAMBDA p : p # <<>>)
  IN  NotNull([n \in DOMAIN parts |-> read_cookie(parts[n])])

\* The first line without a semicolon hands all the lines to
\* read_browser_cookie and forgets what was read before it.
read_cookies(lns) ==
  LET parts == [n \in DOMAIN lns |-> split(s_trim(lns[n]), ";")]
      first == SelectInSeq(parts, LAMBDA p : p = <<>>)
      last  == IF first = 0 THEN Len(lns) ELSE first - 1
      read  == [n \in 1..last |-> read_cookie(parts[n])]
  IN  IF Contains(read, CRASH) THEN <<CRASH>>
      ELSE IF first # 0 THEN read_browser_cookie(lns) ELSE NotNull(read)

\* External: the client.  It returns the texts one per line, as the unit tests
\* do, or, as browsers do, the names and values on one line.
ClientSends(kind) ==
  LET texts == NotNull(setCookies)
      pairs == [n \in DOMAIN texts |-> Head(Fields(texts[n], ";"))]
  IN  /\ ckPc = "make" /\ cookie = NULL
      /\ client' = kind
      /\ cookieLines' =
           IF kind = "echo" \/ texts = <<>> THEN texts
           ELSE <<FoldLeft(LAMBDA line, pair : line \o <<";", " ">> \o pair, Head(pairs), Tail(pairs))>>
      /\ ckPc' = "sent"
      /\ UNCHANGED <<cookie, made, setCookies, setters, looked, found>>

ys_get_cookie(name) ==
  LET cookies == read_cookies(cookieLines)
      n == SelectInSeq(cookies, LAMBDA c : c.name = name)
  IN  /\ ckPc = "sent"
      /\ looked' = name
      /\ found' = IF n = 0 THEN NULL ELSE cookies[n]
      /\ ckPc' = "found"
      /\ UNCHANGED <<cookie, made, setCookies, setters, client, cookieLines>>

CookieEnd == ckPc \in {"found", "crashed"} /\ UNCHANGED cookieVars

CookieNext ==
  \/ \E name \in Names, value \in CookieValues : NewCookie(name, value)
  \/ CookieSetters \/ PutCookie \/ PutCookieCrashes
  \/ \E kind \in {"echo", "browser"} : ClientSends(kind)
  \/ \E name \in Names : ys_get_cookie(name)
  \/ CookieEnd

CookieSpec == CookieInit /\ [][CookieNext]_cookieVars

-----------------------------------------------------------------------------
(* What a domain, the text of a cookie and a cookie that was read are. *)

\* Labels of letters, digits and inner dashes, of bounded length, with a letter
\* somewhere; one leading and one trailing dot are allowed.
IsLabel(s) == /\ Len(s) \in 1..MaxLabel
              /\ \A n \in DOMAIN s : s[n] \in Letters \cup Digits \cup {"-"}
              /\ Head(s) # "-" /\ Last(s) # "-"

IsDomainName(d) ==
  LET labels == Fields(WithoutDot(d), ".")
      named  == IF Last(labels) = <<>> THEN Front(labels) ELSE labels
  IN  /\ Len(d) \in 1..MaxDomain
      /\ ToSet(d) \cap Letters # {}
      /\ \A n \in DOMAIN named : IsLabel(named[n])

\* The domains the code keeps are the domain names and the IPv4 addresses, for
\* every text but the empty one, which is not looked at, and ".", of which the
\* code takes a null pointer apart (is_valid_cookie_domain, src/cookie.c).
DomainsKept ==
  ipText \notin {<<>>, <<".">>} =>
    (is_valid_cookie_domain(ipText) <=> IsDomainName(ipText) \/ IsIpv4(ipText))

AttributeNames(c) ==
  {a \in {"Path", "Domain", "Expires", "Max-Age", "HttpOnly", "Secure", "SameSite"} :
     CASE a = "Path"     -> ~s_nullish(c.path)
       [] a = "Domain"   -> ~s_nullish(c.domain) /\ (IsDomainName(c.domain) \/ IsIpv4(c.domain))
       [] a = "Expires"  -> c.expires > 0
       [] a = "Max-Age"  -> c.maxAge # 0
       [] a = "HttpOnly" -> c.httpOnly
       [] a = "Secure"   -> c.secure
       [] a = "SameSite" -> c.sameSite # "default"}

\* The text of a cookie has its name and the attributes that were set, each
\* once, and nothing else, whatever is in its value and path: no character of
\* them starts another attribute (cookie_serialize, src/cookie.c).
TextHasAttributes ==
  \A n \in DOMAIN made :
    setCookies[n] # NULL =>
      LET parts == Fields(setCookies[n], ";")
          NameOf(k) == Head(Fields(s_trim(parts[k]), "="))
      IN  /\ NameOf(1) = made[n].name
          /\ Len(parts) = 1 + Cardinality(AttributeNames(made[n]))
          /\ {NameOf(k) : k \in 2..Len(parts)} = {<<a>> : a \in AttributeNames(made[n])}

CleanValue(c) == SelectSeq(c.value, LAMBDA x : x \notin {"\"", ";", "\\", "ctl"})
CleanPath(c) ==
  LET p == SelectSeq(c.path, LAMBDA x : x \notin {";", "ctl"})
  IN  IF ToSet(p) \cap {"\"", "\\"} = {} THEN p ELSE NULL

\* The cookie without what its text cannot carry: the characters that are
\* dropped, a path with a quote or a backslash, an age that is not positive.
AsRead(c) ==
  LET set == AttributeNames(c)
  IN  [c EXCEPT !.value   = CleanValue(c),
                !.path    = IF "Path" \in set THEN CleanPath(c) ELSE NULL,
                !.domain  = IF "Domain" \in set THEN WithoutDot(c.domain) ELSE NULL,
                !.expires = IF "Expires" \in set THEN c.expires ELSE -1,
                !.maxAge  = IF c.maxAge > 0 THEN c.maxAge ELSE 0]

Sent == SelectSeq(made, LAMBDA c : is_valid_cookie_name(c.name))

\* "ys_get_cookie returns the named cookie provided in the request. If multiple
\* cookies match the given name, only the first" (libys.h): of cookies that come
\* back one per line, each with an attribute, the first of the name is found as
\* it was set.  On a browser's line a single cookie with a value is found, and
\* what is found has the name and the value of a cookie that was set.  Nothing is
\* said of the other lines: see CookieProvided.
FoundAsSet ==
  /\ ckPc = "found" /\ client = "echo" /\ (\A n \in DOMAIN Sent : AttributeNames(Sent[n]) # {}) =>
       LET there == SelectSeq(Sent, LAMBDA c : c.name = looked)
       IN  found = IF there = <<>> THEN NULL ELSE AsRead(Head(there))
  /\ ckPc = "found" /\ client = "browser" =>
       /\ Len(Sent) = 1 /\ Sent[1].name = looked /\ CleanValue(Sent[1]) # <<>> => found # NULL
       /\ found # NULL => \E n \in DOMAIN Sent : /\ Sent[n].name = looked /\ found.name = looked
                                                 /\ found.value = CleanValue(Sent[n])

\* "ys_get_cookie returns the named cookie provided in the request" (libys.h): a
\* cookie that comes back is found with its value, whichever cookies come with it
\* and however the client writes them.
CookieProvided ==
  ckPc = "found" =>
    \A n \in DOMAIN Sent :
      Sent[n].name = looked =>
        /\ found # NULL
        /\ \E m \in DOMAIN Sent : Sent[m].name = looked /\ found.value = CleanValue(Sent[m])
=============================================================================
