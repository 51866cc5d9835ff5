-------------------------------- MODULE Ipv4 --------------------------------
(***************************************************************************)
(* IPv4 addresses in dotted decimal.  The length of an address and the      *)
(* largest octet are parameters: 4 and 255 in the code.                     *)
(***************************************************************************)
EXTENDS CStrings

CONSTANTS IPV4_LEN, OctetMax, BIG

ASSUME Ipv4Assumption ==
  IPV4_LEN \in Nat \ {0} /\ OctetMax \in Nat /\ BIG \in Nat /\ OctetMax < BIG

\* The characters of each digit, that of the value 0 first.
Digit == <<{"0"}, {"1"}, {"2"}, {"3"}, {"4"}, {"5"}, {"6"}, {"7"}, {"8"}, {"9"},
           {"a", "A"}, {"b", "B"}, {"c", "C"}, {"d", "D"}, {"e", "E"}, {"f", "F"}>>

DecDigits  == UNION {Digit[n] : n \in 1..10}
HexDigits  == UNION {Digit[n] : n \in 1..16}
DigitValue == [c \in HexDigits |-> (CHOOSE n \in 1..16 : c \in Digit[n]) - 1]

\* The number of characters of a set at the front of s.
Span(s, chars) == SelectInSeq(Append(s, NULL), LAMBDA c : c \notin chars) - 1

\* The value of digits: v[n] is that of the first n.
Value(s, base) ==
  LET v[n \in 0..Len(s)] == IF n = 0 THEN 0 ELSE v[n - 1] * base + DigitValue[s[n]]
  IN  v[Len(s)]

\* The value of the digits at the front, their number, and whether there are
\* any and they are not too many.
ToInt(s, digits, base) ==
  LET c == Span(s, digits)
      n == Value(SubSeq(s, 1, c), base)
  IN  [n |-> n, c |-> c, ok |-> c > 0 /\ n < BIG]

dtoi(s) == ToInt(s, DecDigits, 10)

From(s, i) == SubSeq(s, i, Len(s))

\* What follows the octet at the front of cp, NULL if there is no valid one.
AfterOctet(cp) ==
  LET d == dtoi(cp)
  IN  IF d.ok /\ d.n <= OctetMax /\ ~(d.c > 1 /\ cp[1] = "0")
      THEN From(cp, d.c + 1) ELSE NULL

\* The loop over the octets: rest[i] is what is left after i of them.
parse_ipv4(s) ==
  LET rest[i \in 0..IPV4_LEN] ==
        IF i = 0 THEN s
        ELSE IF s_nullish(rest[i - 1]) THEN NULL
        ELSE IF i = 1 THEN AfterOctet(s)
        ELSE IF Head(rest[i - 1]) # "." THEN NULL
        ELSE AfterOctet(Tail(rest[i - 1]))
  IN  rest[IPV4_LEN] = <<>>

-----------------------------------------------------------------------------
(* What an IPv4 address is: octets without leading zeros between dots. *)

IsNumber(s, digits, base, max) ==
  LET d == ToInt(s, digits, base) IN s # <<>> /\ d.c = Len(s) /\ d.n <= max

IsOctet(s) == IsNumber(s, DecDigits, 10, OctetMax) /\ (Len(s) = 1 \/ Head(s) # "0")

IsIpv4(s) ==
  LET octets == Fields(s, ".")
  IN  Len(octets) = IPV4_LEN /\ \A n \in DOMAIN octets : IsOctet(octets[n])
=============================================================================
