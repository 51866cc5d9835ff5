----------------------------- MODULE MCMessages -----------------------------
(***************************************************************************)
(* The components that read and write the text of messages, for TLC: the    *)
(* header tables, header names, cookies with the IP addresses of their      *)
(* domains, and queries.  They share no state: a behaviour is one of theirs.*)
(***************************************************************************)
EXTENDS Headers, Cookies, Query, HeaderKeys

VARIABLE part   \* the component at work

messageVars == <<part, vars, ipVars, cookieVars, queryVars, keyText>>

Parts == {"headers", "ip", "cookies", "query", "keys"}

MessageRests ==
  /\ Init /\ IpInit /\ CookieInit /\ QueryInit /\ KeyInit
  /\ part # "headers" => lines = <<>> /\ method = "GET"

MessageInit == part \in Parts /\ MessageRests

MessageNext ==
  \/ part = "headers" /\ Next /\ UNCHANGED <<part, ipVars, cookieVars, queryVars, keyText>>
  \/ part = "ip" /\ IpNext /\ UNCHANGED <<part, vars, cookieVars, queryVars, keyText>>
  \/ part = "cookies" /\ CookieNext /\ UNCHANGED <<part, vars, ipVars, queryVars, keyText>>
  \/ part = "query" /\ QueryNext /\ UNCHANGED <<part, vars, ipVars, cookieVars, keyText>>
  \/ part = "keys" /\ KeyNext /\ UNCHANGED <<part, vars, ipVars, cookieVars, queryVars>>

MessageSpec == MessageInit /\ [][MessageNext]_messageVars

-----------------------------------------------------------------------------

\* A singleton in two spellings, and the keys the code treats in a special way.
Spellings(name) == {Canonical(name), Key(name, "lower")}
MCReqKeys == Spellings("Host") \cup {Pragma, CacheControl}
MCResKeys == Spellings("Content-Length") \cup Spellings("Content-Type")

\* A group with its colon and four octets in one piece: enough for addresses
\* with too many groups, and for an IPv4 address behind groups.
MCIpPieces ==
  {<<c>> : c \in {"0", "a", "-", ".", ":"}}
    \cup {<<"0", ":">>, <<"1", ".", "1", ".", "1", ".", "1">>}

\* Two good names and a bad one; characters that are dropped, quoted, or both.
MCNames == {<<"n">>, <<"m">>, <<"n", " ">>}
MCCookieValues == {<<>>, <<"x">>, <<"\"", " ", "x", ";">>, <<";">>}
MCPaths == {<<"/">>, <<"/", ";", "x">>, <<"/", "\"">>, <<";">>}
MCDomains == {<<".", "x", ".", "x">>, <<"x", "-">>, <<"1", ".", "1", ".", "1", ".", "1">>,
              <<".">>, <<>>}

\* Settings of every kind parse_query treats differently.
MCSettings ==
  {<<>>, <<"k">>, <<"=">>, <<"k", "=">>, <<"=", "k">>, <<"k", "=", "k">>, <<"k", "=", "+">>,
   <<"k", "=", "k", "=">>, <<"k", "=", "%26">>, <<"%26", "=", "k">>, <<"k", "=", "%">>,
   <<"%", "=", "k">>, <<"k", "=", "k", ";">>, <<"k", "%00", "=", "%00">>}

MCCommonHeaders == {<<"A">>, <<"A", "-", "A", "a">>}
=============================================================================
