------------------------------- MODULE Query --------------------------------
(***************************************************************************)
(* The query of a URL: a client writes settings one after the other with    *)
(* "&" between them, parse_query makes a table of them, one action per      *)
(* iteration of its loop.                                                   *)
(*                                                                         *)
(* An escape, "%" and two hexadecimal digits, is one character: "%26" for   *)
(* "&", "%00" for the terminator.  "%" is one that no digits follow.        *)
(***************************************************************************)
EXTENDS CStrings

CONSTANTS
  Settings,     \* the settings a client writes
  MaxSettings   \* bound on their number

\* The characters of settings, and those an escape or a "+" stands for.
QueryChars == (UNION {ToSet(s) : s \in Settings}) \cup {" ", "&"}

\* No setting has the character that comes between settings.
ASSUME SettingsAssumption ==
  /\ NULL \notin Seq(QueryChars)
  /\ \A s \in Settings : s \in Seq(QueryChars) /\ ~Contains(s, "&")

VARIABLES
  qPc,       \* "write", "parse", "done", "crashed"
  written,   \* the settings
  query,     \* what is left of the query string
  queries    \* the table: the values of each key

queryVars == <<qPc, written, query, queries>>

NoQueries == [key \in {} |-> <<>>]

QueryInit == qPc = "write" /\ written = <<>> /\ query = NULL /\ queries = NoQueries

WriteSetting(setting) ==
  /\ qPc = "write" /\ Len(written) < MaxSettings
  /\ written' = Append(written, setting)
  /\ query' = IF written = <<>> THEN setting ELSE query \o <<"&">> \o setting
  /\ UNCHANGED <<qPc, queries>>

SendQuery == qPc = "write" /\ qPc' = "parse" /\ UNCHANGED <<written, query, queries>>

-----------------------------------------------------------------------------

\* What is appended to the buffer for a character; a terminator ends the string
\* it is made into.
Unescaped(c) ==
  CASE c = "%26" -> <<"&">> [] c = "%00" -> <<>> [] c = "+" -> <<" ">> [] OTHER -> <<c>>

\* NULL if a "%" is not followed by digits; buffer[n] is the buffer after n
\* characters.
unescape(s) ==
  LET buffer[n \in 0..Len(s)] ==
        IF n = 0 THEN <<>> ELSE buffer[n - 1] \o Unescaped(s[n])
  IN  IF Contains(s, "%") THEN NULL ELSE buffer[Len(s)]

\* Mutant: a key that comes again gets its new value only.
PutReplacing(table, key, value) ==
  [k \in DOMAIN table \cup {key} |-> IF k = key THEN <<value>> ELSE table[k]]

PutQuery(table, key, value) ==
  [k \in DOMAIN table \cup {key} |->
     IF k # key THEN table[k]
     ELSE IF key \in DOMAIN table THEN Append(table[key], value) ELSE <<value>>]

\* Skipped: a setting with a semicolon, without a key, without a value, or with
\* one that cannot be decoded.
AddSetting(setting) ==
  LET kv == str_cut(setting, "=")
  IN  IF Contains(setting, ";") \/ setting = <<>> \/ NULL \in {kv[1], kv[2]}
      THEN queries
      ELSE IF NULL \in {unescape(kv[1]), unescape(kv[2])} THEN queries
      ELSE PutQuery(queries, unescape(kv[1]), unescape(kv[2]))

\* The search for a semicolon comes before the test for an empty setting, which
\* str_cut returns as a null pointer.
ParseSetting ==
  LET pair == str_cut(query, "&")
  IN  /\ qPc = "parse" /\ ~s_nullish(query)
      /\ IF pair[1] = NULL
         THEN qPc' = "crashed" /\ UNCHANGED <<query, queries>>
         ELSE /\ query' = pair[2]
              /\ queries' = AddSetting(pair[1])
              /\ UNCHANGED qPc
      /\ UNCHANGED written

ParseEnds == /\ qPc = "parse" /\ s_nullish(query)
             /\ qPc' = "done" /\ UNCHANGED <<written, query, queries>>

QueryEnd == qPc \in {"done", "crashed"} /\ UNCHANGED queryVars

QueryNext == \/ \E setting \in Settings : WriteSetting(setting)
             \/ SendQuery \/ ParseSetting \/ ParseEnds \/ QueryEnd

QuerySpec == QueryInit /\ [][QueryNext]_queryVars

\* What handlers see of the table.
ys_req_has_query(key) == key \in DOMAIN queries
ys_req_get_query(key) == IF key \in DOMAIN queries THEN queries[key] ELSE NULL
ys_req_num_queries(key) == IF ys_req_has_query(key) THEN Len(queries[key]) ELSE 0

-----------------------------------------------------------------------------

\* A setting counts if it has a key, a value and no semicolon, and both decode.
KeyOf(setting) == Head(Fields(setting, "="))
ValueOf(setting) == SubSeq(setting, Len(KeyOf(setting)) + 2, Len(setting))
Counts(setting) ==
  /\ Contains(setting, "=") /\ KeyOf(setting) # <<>> /\ ValueOf(setting) # <<>>
  /\ ToSet(setting) \cap {";", "%"} = {}

DecodedChar(c) == IF c = "%26" THEN "&" ELSE IF c = "+" THEN " " ELSE c
Kept(s) == {n \in DOMAIN s : s[n] # "%00"}
Decoded(s) == [n \in 1..Cardinality(Kept(s)) |-> DecodedChar(s[InOrder(Kept(s))[n]])]

\* The settings that count for a key.
CountedFor(key) ==
  {n \in DOMAIN written : Counts(written[n]) /\ Decoded(KeyOf(written[n])) = key}

EmptyInside == \E n \in 1..Len(written) - 1 : written[n] = <<>>

\* A setting of the key without "=", or with nothing behind it.
SetEmpty(key) ==
  \E n \in DOMAIN written : Decoded(KeyOf(written[n])) = key /\ ValueOf(written[n]) = <<>>

\* "a hash table containing all the valid query parameters found; if errors are
\* encountered, the key/value pair will be silently skipped" (src/url.h): a
\* handler gets the decoded values of each key in the order they were written,
\* and one bad setting does not disturb the others.  Nothing is said of keys that
\* are set to an empty value, and of the parser's end on a query that has an empty
\* setting in front of an "&": see QueriesComplete.
QueriesAsWritten ==
  /\ ~EmptyInside => qPc # "crashed"
  /\ qPc = "done" =>
       \A key \in {Decoded(KeyOf(s)) : s \in Settings} :
         ~SetEmpty(key) =>
           LET at == CountedFor(key)
           IN  /\ ys_req_num_queries(key) = Cardinality(at)
               /\ \A n \in at :
                    ys_req_get_query(key)[Cardinality({i \in at : i <= n})]
                      = Decoded(ValueOf(written[n]))

\* "parse_query always returns a non-NULL hash table containing all the valid
\* query parameters found ... A setting without an equals sign is interpreted as
\* a key set to an empty value" (src/url.h): when the parser has ended, every
\* setting with a key, no semicolon and nothing it cannot decode has an entry.
QueriesComplete ==
  qPc \in {"done", "crashed"} =>
    \A n \in DOMAIN written :
      KeyOf(written[n]) # <<>> /\ ToSet(written[n]) \cap {";", "%"} = {} =>
        ys_req_has_query(Decoded(KeyOf(written[n])))
=============================================================================
