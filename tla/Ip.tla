--------------------------------- MODULE Ip ---------------------------------
(***************************************************************************)
(* validate_ip: a text is put together from pieces and then validated.      *)
(* validate_ipv6 works through it group by group, one action per iteration  *)
(* of its loop, and fills the bytes of the address.                         *)
(***************************************************************************)
EXTENDS Ipv4

CONSTANTS
  IPV6_LEN,   \* bytes of an address: 16
  GroupMax,   \* the largest group: 0xFFFF
  IpPieces,   \* what texts are made of: characters, and longer pieces
  MaxPieces   \* bound on the pieces of a text

ASSUME IpAssumption ==
  /\ IPV6_LEN \in Nat /\ IPV6_LEN % 2 = 0 /\ IPV4_LEN % 2 = 0
  /\ IPV4_LEN < IPV6_LEN
  /\ GroupMax \in Nat /\ GroupMax < BIG

\* Digits that are an octet are no more than its square in hexadecimal: every
\* octet can be read as a group, as in the code (255 * 255 < 0xFFFF).
ASSUME OctetAssumption == OctetMax * OctetMax <= GroupMax

\* No text is the null pointer, which is not a digit either.
IpChars == UNION {ToSet(piece) : piece \in IpPieces}

ASSUME TextAssumption ==
  /\ NULL \notin Seq(IpChars) \cup HexDigits
  /\ \A piece \in IpPieces : piece \in Seq(IpChars)

VARIABLES
  ipPc,
  pieces,    \* the number of pieces of the text
  ipText,    \* s
  cp,        \* what is left of it
  ix,        \* i: the bytes filled by groups so far
  ellipsis,  \* the byte where "::" stands, -1 without
  wrote,     \* the bytes of ip that were written
  ipRet      \* the result

ipVars == <<ipPc, pieces, ipText, cp, ix, ellipsis, wrote, ipRet>>

IpInit == /\ ipPc = "type" /\ pieces = 0 /\ ipText = <<>> /\ cp = <<>>
          /\ ix = 0 /\ ellipsis = -1 /\ wrote = {} /\ ipRet = FALSE

AddPiece(piece) ==
  /\ ipPc = "type" /\ pieces < MaxPieces
  /\ pieces' = pieces + 1 /\ ipText' = ipText \o piece
  /\ UNCHANGED <<ipPc, cp, ix, ellipsis, wrote, ipRet>>

IpReturn(ret) == ipPc' = "done" /\ ipRet' = ret

-----------------------------------------------------------------------------

xtoi(s) == ToInt(s, HexDigits, 16)

BeginsWith(s, prefix) == IsPrefix(prefix, s)

\* A leading ellipsis, which may be all there is.
StartIpv6 ==
  /\ IF BeginsWith(ipText, <<":", ":">>)
     THEN ellipsis' = 0 /\ cp' = From(ipText, 3)
     ELSE cp' = ipText /\ UNCHANGED ellipsis
  /\ IF cp' = <<>> THEN IpReturn(TRUE) ELSE ipPc' = "loop" /\ UNCHANGED ipRet

\* The first character that is a dot or a colon decides.
validate_ip ==
  LET k == SelectInSeq(ipText, LAMBDA c : c \in {".", ":"})
  IN  /\ ipPc = "type"
      /\ \/ k = 0 /\ IpReturn(FALSE) /\ UNCHANGED <<cp, ellipsis>>
         \/ /\ k # 0 /\ ipText[k] = "."
            /\ IpReturn(parse_ipv4(ipText)) /\ UNCHANGED <<cp, ellipsis>>
         \/ k # 0 /\ ipText[k] = ":" /\ StartIpv6
      /\ UNCHANGED <<pieces, ipText, ix, wrote>>

IsGroupNext == LET d == xtoi(cp) IN d.ok /\ d.n <= GroupMax
DotFollows  == LET d == xtoi(cp) IN d.c < Len(cp) /\ cp[d.c + 1] = "."

BadGroup == /\ ipPc = "loop" /\ ix < IPV6_LEN /\ ~IsGroupNext
            /\ IpReturn(FALSE) /\ UNCHANGED <<pieces, ipText, cp, ix, ellipsis, wrote>>

\* Mutant: the room left for the octets is not looked at.
RoomAnywhere == ellipsis >= 0 \/ ix = IPV6_LEN - IPV4_LEN

\* Only at the end, or after an ellipsis with enough room.
RoomForIpv4 == /\ ellipsis >= 0 \/ ix = IPV6_LEN - IPV4_LEN
               /\ ix + IPV4_LEN <= IPV6_LEN

TrailingIpv4 ==
  /\ ipPc = "loop" /\ ix < IPV6_LEN /\ IsGroupNext /\ DotFollows
  /\ IF RoomForIpv4 /\ parse_ipv4(cp)
     THEN /\ wrote' = wrote \cup (ix..ix + IPV4_LEN - 1)
          /\ ix' = ix + IPV4_LEN /\ cp' = <<>>
          /\ ipPc' = "end" /\ UNCHANGED ipRet
     ELSE IpReturn(FALSE) /\ UNCHANGED <<wrote, ix, cp>>
  /\ UNCHANGED <<pieces, ipText, ellipsis>>

\* After a group: the end, or a colon and more, or an ellipsis and perhaps more.
Group ==
  LET rest == From(cp, xtoi(cp).c + 1) IN
  /\ ipPc = "loop" /\ ix < IPV6_LEN /\ IsGroupNext /\ ~DotFollows
  /\ wrote' = wrote \cup {ix, ix + 1} /\ ix' = ix + 2
  /\ \/ rest = <<>> /\ cp' = rest /\ ipPc' = "end" /\ UNCHANGED <<ellipsis, ipRet>>
     \/ /\ rest # <<>> /\ (rest[1] # ":" \/ Len(rest) = 1)
        /\ IpReturn(FALSE) /\ UNCHANGED <<cp, ellipsis>>
     \/ /\ Len(rest) > 1 /\ rest[1] = ":" /\ rest[2] # ":"
        /\ cp' = Tail(rest) /\ UNCHANGED <<ipPc, ellipsis, ipRet>>
     \/ /\ BeginsWith(rest, <<":", ":">>) /\ ellipsis >= 0
        /\ IpReturn(FALSE) /\ UNCHANGED <<cp, ellipsis>>
     \/ /\ BeginsWith(rest, <<":", ":">>) /\ ellipsis < 0
        /\ ellipsis' = ix + 2 /\ cp' = From(rest, 3)
        /\ ipPc' = IF cp' = <<>> THEN "end" ELSE "loop"
        /\ UNCHANGED ipRet
  /\ UNCHANGED <<pieces, ipText>>

\* Mutant: the ellipsis may stand for nothing.
EllipsisOfNothing == cp = <<>> /\ (ix < IPV6_LEN => ellipsis >= 0)

\* The text is used up, and an ellipsis stands for at least one group.
Complete == cp = <<>> /\ (ix < IPV6_LEN <=> ellipsis >= 0)

\* The bytes behind the ellipsis move to the end, zeros take their place.
Expanded ==
  IF ix < IPV6_LEN
  THEN LET n == IPV6_LEN - ix
       IN  {j + n : j \in ellipsis..ix - 1} \cup (ellipsis..ellipsis + n - 1)
  ELSE {}

Expand ==
  /\ ipPc = "end" \/ (ipPc = "loop" /\ ix >= IPV6_LEN)
  /\ wrote' = IF Complete THEN wrote \cup Expanded ELSE wrote
  /\ IpReturn(Complete)
  /\ UNCHANGED <<pieces, ipText, cp, ix, ellipsis>>

Validated == ipPc = "done" /\ UNCHANGED ipVars

IpNext == \/ \E piece \in IpPieces : AddPiece(piece)
          \/ validate_ip \/ BadGroup \/ TrailingIpv4 \/ Group \/ Expand
          \/ Validated

IpSpec == IpInit /\ [][IpNext]_ipVars

-----------------------------------------------------------------------------
(* What an IPv6 address is. *)

IsGroup(s) == IsNumber(s, HexDigits, 16, GroupMax)

\* The bytes of a list of groups that may end in an IPv4 address; more than an
\* address has if it is no such list.
Bytes(s, ipv4Allowed) ==
  LET fields == Fields(s, ":")
      last   == Len(fields)
  IN  IF s = <<>> THEN 0
      ELSE IF \A n \in 1..last : IsGroup(fields[n]) THEN 2 * last
      ELSE IF ipv4Allowed /\ IsIpv4(fields[last]) /\ \A n \in 1..last - 1 : IsGroup(fields[n])
      THEN 2 * (last - 1) + IPV4_LEN
      ELSE IPV6_LEN + 1

IsIpv6(s) ==
  \/ Bytes(s, TRUE) = IPV6_LEN
  \/ \E n \in 1..Len(s) - 1 :
       /\ s[n] = ":" /\ s[n + 1] = ":"
       /\ Bytes(SubSeq(s, 1, n - 1), FALSE) + Bytes(From(s, n + 2), TRUE) <= IPV6_LEN - 2

\* A text is accepted exactly when it is an IPv4 address, or an IPv6 address
\* with at most one "::", which stands for at least one group, and an IPv4
\* address in the place of the last groups (RFC 4291, validate_ip in src/ip.c).
ValidatesAddresses == ipPc = "done" => (ipRet <=> IsIpv4(ipText) \/ IsIpv6(ipText))

\* The bytes of the address are written inside its array, and of an address
\* with groups all of them: the ellipsis leaves none out (validate_ipv6).
BytesInBounds ==
  /\ wrote \subseteq 0..IPV6_LEN - 1
  /\ ipPc = "done" /\ ipRet /\ ix > 0 => wrote = 0..IPV6_LEN - 1

-----------------------------------------------------------------------------
(* The inductive invariant: the bytes below ix are the ones written, ix is a   *)
(* whole number of groups, and the ellipsis is not behind it.                *)

IpTypeOK == /\ ipPc \in {"type", "loop", "end", "done"}
            /\ ix \in 0..IPV6_LEN /\ ellipsis \in -1..IPV6_LEN
            /\ wrote \subseteq Int

Typing  == ipPc = "type" => ix = 0 /\ ellipsis = -1 /\ wrote = {}
Filling == ipPc \in {"loop", "end"} =>
             ix % 2 = 0 /\ ellipsis <= ix /\ wrote = 0..ix - 1
IpInv   == IpTypeOK /\ Typing /\ Filling /\ BytesInBounds
=============================================================================
