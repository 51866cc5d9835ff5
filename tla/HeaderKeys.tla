----------------------------- MODULE HeaderKeys -----------------------------
(***************************************************************************)
(* The names of headers as CORS compares them: derive_headers takes the     *)
(* list a client asks for apart, to_canonical_mime_header_key brings the    *)
(* names of both sides into one spelling.  A text is put together from      *)
(* characters.  A letter is "a" or "A", "!" a character that a name may     *)
(* have but derive_headers drops, "(" one that no name may have.            *)
(***************************************************************************)
EXTENDS CStrings

CONSTANTS
  KeyChars,        \* the characters of texts
  CommonHeaders,   \* the canonical names in common_headers
  Leftover,        \* what memory from malloc may hold, terminators aside
  MaxKeyText       \* bound on the length of a text

ASSUME KeyCharsAssumption == KeyChars \subseteq {"a", "A", "-", "!", "(", " ", ","}

VARIABLE keyText

KeyInit == keyText = <<>>

KeyNext ==
  \/ \E c \in KeyChars : Len(keyText) < MaxKeyText /\ keyText' = Append(keyText, c)
  \/ Len(keyText) = MaxKeyText /\ UNCHANGED keyText

KeySpec == KeyInit /\ [][KeyNext]_keyText

-----------------------------------------------------------------------------

is_valid_header_field_char(c) == c \notin {" ", ",", "("}

Upper(c) == IF c = "a" THEN "A" ELSE c
Lower(c) == IF c = "A" THEN "a" ELSE c

\* Where the loops have `upper` set: at the start and after a dash.
UpperAt(key, n) == n = 1 \/ key[n - 1] = "-"

WrongCase(key, n) == IF UpperAt(key, n) THEN key[n] = "a" ELSE key[n] = "A"

\* init_common_headers: each of the names has its letters in the right case.
ASSUME CommonHeadersAssumption ==
  \A key \in CommonHeaders : \A n \in DOMAIN key : ~WrongCase(key, n)

\* Mutant: the letters that are not first keep their case.
CanonicalFirstOnly(key) ==
  [n \in DOMAIN key |-> IF UpperAt(key, n) THEN Upper(key[n]) ELSE key[n]]

canonical_mime_header_key(key) ==
  IF key \in CommonHeaders \/ \E n \in DOMAIN key : ~is_valid_header_field_char(key[n])
  THEN key
  ELSE [n \in DOMAIN key |-> IF UpperAt(key, n) THEN Upper(key[n]) ELSE Lower(key[n])]

\* The scan ends at a character that is not valid, where the key is returned as
\* it is, or at a letter in the wrong case.
to_canonical_mime_header_key(key) ==
  IF \E n \in DOMAIN key :
       WrongCase(key, n) /\ \A i \in 1..n : is_valid_header_field_char(key[i])
  THEN canonical_mime_header_key(key) ELSE key

\* A character of the list, which may be part of a name.  A space, a comma and
\* the position `last` finish a name.
TakeChar(st, text, n, last) ==
  LET c   == text[n]
      tmp == st.tmp \o (IF c \in {"a", "A", "-"} THEN <<Lower(c)>> ELSE <<>>)
  IN  IF (c \in {" ", ","} \/ n = last) /\ tmp # <<>>
      THEN [names |-> Append(st.names, tmp), tmp |-> <<>>]
      ELSE [names |-> st.names, tmp |-> tmp]

\* One pass over the list: st[n] is what is there behind the first n characters.
NamesUpTo(text, last) ==
  LET st[n \in 0..Len(text)] ==
        IF n = 0 THEN [names |-> <<>>, tmp |-> <<>>] ELSE TakeChar(st[n - 1], text, n, last)
  IN  st[Len(text)].names

\* The byte behind a name is never assigned, the terminator comes one place too
\* late: each name is read with one character more unless that byte was zero.
Unterminated(names) ==
  {[n \in DOMAIN names |-> names[n] \o behind[n]] :
     behind \in [DOMAIN names -> {<<>>} \cup {<<c>> : c \in Leftover}]}

\* Mutant: the end of the list does not finish the last name.
DeriveUnfinished(text) == Unterminated(NamesUpTo(text, 0))

\* The lists that may be read.
derive_headers(text) == Unterminated(NamesUpTo(text, Len(text)))

-----------------------------------------------------------------------------

IsName(s) == \A n \in DOMAIN s : is_valid_header_field_char(s[n])
LowerCase(s) == [n \in DOMAIN s |-> Lower(s[n])]
UpperCase(s) == [n \in DOMAIN s |-> Upper(s[n])]

\* "The canonicalization converts the first letter and any letter following a
\* hyphen to upper case; the rest are converted to lowercase ... If key contains
\* a space or invalid header field chars, it is returned without modifications"
\* (src/header.h): all spellings of a name become one key, and that key stays as
\* it is; the table of common names does not change the result.
OneSpelling ==
  LET key == to_canonical_mime_header_key(keyText)
  IN  IF IsName(keyText)
      THEN /\ key = to_canonical_mime_header_key(LowerCase(keyText))
           /\ key = to_canonical_mime_header_key(UpperCase(keyText))
           /\ key = to_canonical_mime_header_key(key)
           /\ LowerCase(key) = LowerCase(keyText)
           /\ \A n \in DOMAIN key : key[n] = "A" <=> UpperAt(key, n) /\ keyText[n] \in {"a", "A"}
      ELSE key = keyText

\* Where the names of a list start and end.
IsSeparator(c) == c \in {" ", ","}
NameStarts(s) ==
  {i \in DOMAIN s : ~IsSeparator(s[i]) /\ (i = 1 \/ IsSeparator(s[i - 1]))}
NameEnds(s) ==
  {i \in DOMAIN s : ~IsSeparator(s[i]) /\ (i = Len(s) \/ IsSeparator(s[i + 1]))}

\* A client that asks for a list of names in any case, with commas, spaces or
\* both between them, asks for the keys that a program gets by allowing these
\* names, as many and in the same order, if they have no character that
\* derive_headers drops - but for one character that may follow each of them,
\* whatever was in the memory of the others.
ListMatchesNames ==
  LET starts == InOrder(NameStarts(keyText))
      ends   == InOrder(NameEnds(keyText))
  IN  ToSet(keyText) \cap {"!", "("} = {} =>
        \A asked \in derive_headers(keyText) :
          /\ Len(asked) = Len(starts)
          /\ \A n \in DOMAIN starts :
               LET name == SubSeq(keyText, starts[n], ends[n])
               IN  /\ Len(asked[n]) \in Len(name) .. Len(name) + 1
                   /\ to_canonical_mime_header_key(SubSeq(asked[n], 1, Len(name))) =
                        to_canonical_mime_header_key(name)
=============================================================================
