---------------------------- MODULE MessageProofs ---------------------------
(***************************************************************************)
(* Proofs about the parts that read and write the text of messages: the     *)
(* IPv6 parser stays inside the array of the address, for every length of   *)
(* addresses and every text; the header tables keep what was put into them  *)
(* and responses are framed, for every set of keys, values and statuses and *)
(* every number of lines and calls; a header name has one key whatever its  *)
(* case; the table of a query has what the client wrote, for every set of   *)
(* settings and every number of them; the texts taken for addresses, and    *)
(* for domains of cookies, are exactly those that are, however long; a list *)
(* of header names yields the names in it; the text of a cookie has the     *)
(* attributes that were set, whatever texts a program passes.               *)
(***************************************************************************)
EXTENDS Headers, Cookies, HeaderKeys, Query, FiniteSetTheorems, ProofLemmas

-----------------------------------------------------------------------------
(* Addresses. *)

\* At the start nothing is written (validate_ip has not been called).
LEMMA InitInv == IpInit => IpInv
<1> SUFFICES ASSUME IpInit PROVE IpInv
  OBVIOUS
<1> QED
  BY IpAssumption, Ipv4Assumption
     DEF IpInit, IpInv, IpTypeOK, Typing, Filling, BytesInBounds

\* Another piece of the text.
LEMMA AddPieceInv ==
  ASSUME IpInv, NEW piece \in IpPieces, AddPiece(piece) PROVE IpInv'
BY DEF AddPiece, IpInv, IpTypeOK, Typing, Filling, BytesInBounds

\* The look at the first dot or colon, which may return or start the loop.
LEMMA ValidateInv == ASSUME IpInv, validate_ip PROVE IpInv'
<1>1. /\ ipPc = "type" /\ ix' = 0 /\ wrote' = {} /\ ellipsis' \in {-1, 0}
      /\ ipPc' \in {"done", "loop"}
  BY DEF validate_ip, StartIpv6, IpReturn, IpInv, Typing
<1> QED
  BY <1>1, IpAssumption DEF IpInv, IpTypeOK, Filling, Typing, BytesInBounds

\* A group that is no number: nothing is written.
LEMMA BadGroupInv == ASSUME IpInv, BadGroup PROVE IpInv'
BY DEF BadGroup, IpReturn, IpInv, IpTypeOK, Typing, Filling, BytesInBounds

\* The bytes of a trailing IPv4 address fit behind the ones that are there.
LEMMA TrailingIpv4Inv == ASSUME IpInv, TrailingIpv4 PROVE IpInv'
<1> USE Ipv4Assumption, IpAssumption
<1>1. ix \in Int /\ ix >= 0 /\ ix % 2 = 0 /\ ellipsis \in Int /\ ellipsis >= -1
      /\ ellipsis <= ix /\ wrote = 0..ix - 1 /\ ellipsis' = ellipsis
  BY DEF TrailingIpv4, IpInv, IpTypeOK, Filling
<1>2. CASE RoomForIpv4 /\ parse_ipv4(cp)
  <2>1. /\ ix' = ix + IPV4_LEN /\ ix' <= IPV6_LEN /\ ipPc' = "end"
        /\ wrote' = wrote \cup (ix..ix + IPV4_LEN - 1)
    BY <1>2 DEF TrailingIpv4, RoomForIpv4
  <2>2. wrote' = 0..ix' - 1
    BY <1>1, <2>1
  <2>3. ix' % 2 = 0 /\ ix' \in 0..IPV6_LEN
    BY <1>1, <2>1
  <2> QED
    BY <1>1, <2>1, <2>2, <2>3 DEF IpInv, IpTypeOK, Typing, Filling, BytesInBounds
<1>3. CASE ~(RoomForIpv4 /\ parse_ipv4(cp))
  BY <1>1, <1>3 DEF TrailingIpv4, IpReturn, IpInv, IpTypeOK, Typing, Filling, BytesInBounds
<1> QED
  BY <1>2, <1>3

\* A group takes two bytes; there is room for both because ix and the length of
\* an address are even.
LEMMA GroupInv == ASSUME IpInv, Group PROVE IpInv'
<1> USE Ipv4Assumption, IpAssumption
<1>1. /\ ix \in Int /\ ix >= 0 /\ ix % 2 = 0 /\ ix < IPV6_LEN
      /\ ellipsis \in Int /\ ellipsis >= -1 /\ ellipsis <= ix /\ wrote = 0..ix - 1
  BY DEF Group, IpInv, IpTypeOK, Filling
<1>2. /\ ix' = ix + 2 /\ wrote' = wrote \cup {ix, ix + 1}
      /\ ellipsis' \in {ellipsis, ix + 2} /\ ipPc' \in {"loop", "end", "done"}
      /\ ipPc' = "done" => ipRet' = FALSE
  BY DEF Group, IpReturn
<1>3. ix' % 2 = 0 /\ ix' <= IPV6_LEN /\ ix' \in 0..IPV6_LEN
  BY <1>1, <1>2
<1>4. wrote' = 0..ix' - 1
  BY <1>1, <1>2
<1> QED
  BY <1>1, <1>2, <1>3, <1>4 DEF IpInv, IpTypeOK, Typing, Filling, BytesInBounds

\* Behind the loop: the bytes behind the ellipsis move to the end of the array,
\* the zeros fill what is left, and together with those in front of it no byte is
\* left out or written outside.
LEMMA ExpandInv == ASSUME IpInv, Expand PROVE IpInv'
<1> USE Ipv4Assumption, IpAssumption
<1>1. /\ ix \in 0..IPV6_LEN /\ ellipsis \in -1..ix /\ wrote = 0..ix - 1
      /\ ix' = ix /\ ellipsis' = ellipsis /\ ipPc' = "done"
  BY DEF Expand, IpReturn, IpInv, IpTypeOK, Filling
<1>2. CASE Complete
  <2>1. CASE ix < IPV6_LEN
    <3> DEFINE n == IPV6_LEN - ix
    <3>1. ellipsis \in 0..ix
      BY <1>1, <1>2, <2>1 DEF Complete
    <3>2. n \in Nat \ {0} /\ ix + n = IPV6_LEN
      BY <1>1, <2>1
    <3>3. wrote' = wrote \cup Expanded
      BY <1>2 DEF Expand
    <3>4. Expanded = {j + n : j \in ellipsis..ix - 1} \cup (ellipsis..ellipsis + n - 1)
      BY <2>1 DEF Expanded
    <3> HIDE DEF n
    <3>5. {j + n : j \in ellipsis..ix - 1} = ellipsis + n..IPV6_LEN - 1
      <4>1. ASSUME NEW k \in ellipsis + n..IPV6_LEN - 1
            PROVE  k \in {j + n : j \in ellipsis..ix - 1}
        <5>1. k - n \in ellipsis..ix - 1 /\ (k - n) + n = k
          BY <1>1, <3>1, <3>2
        <5> QED
          BY <5>1
      <4>2. ASSUME NEW j \in ellipsis..ix - 1
            PROVE  j + n \in ellipsis + n..IPV6_LEN - 1
        BY <1>1, <3>1, <3>2
      <4> QED
        BY <4>1, <4>2
    <3>6. wrote' = 0..IPV6_LEN - 1
      <4>1. wrote' = (0..ix - 1) \cup (ellipsis + n..IPV6_LEN - 1) \cup (ellipsis..ellipsis + n - 1)
        BY <1>1, <3>3, <3>4, <3>5
      <4> QED
        BY <1>1, <3>1, <3>2, <4>1
    <3> QED
      BY <1>1, <3>6 DEF IpInv, IpTypeOK, Typing, Filling, BytesInBounds
  <2>2. CASE ~(ix < IPV6_LEN)
    <3>1. wrote' = 0..IPV6_LEN - 1
      BY <1>1, <1>2, <2>2 DEF Expand, Expanded
    <3> QED
      BY <1>1, <3>1 DEF IpInv, IpTypeOK, Typing, Filling, BytesInBounds
  <2> QED
    BY <2>1, <2>2
<1>3. CASE ~Complete
  <2>1. wrote' = wrote /\ ~ipRet'
    BY <1>3 DEF Expand, IpReturn
  <2> QED
    BY <1>1, <2>1 DEF IpInv, IpTypeOK, Typing, Filling, BytesInBounds
<1> QED
  BY <1>2, <1>3

\* The inductive invariant of validate_ipv6 holds throughout: the bytes below i
\* are the ones written, i is even, the ellipsis is not behind it.
THEOREM IpInvariance == IpSpec => []IpInv
<1>1. IpInv /\ [IpNext]_ipVars => IpInv'
  <2> SUFFICES ASSUME IpInv, [IpNext]_ipVars PROVE IpInv'
    OBVIOUS
  <2>1. CASE \E piece \in IpPieces : AddPiece(piece)
    BY <2>1, AddPieceInv
  <2>2. CASE validate_ip
    BY <2>2, ValidateInv
  <2>3. CASE BadGroup
    BY <2>3, BadGroupInv
  <2>4. CASE TrailingIpv4
    BY <2>4, TrailingIpv4Inv
  <2>5. CASE Group
    BY <2>5, GroupInv
  <2>6. CASE Expand
    BY <2>6, ExpandInv
  <2>7. CASE UNCHANGED ipVars
    BY <2>7 DEF ipVars, IpInv, IpTypeOK, Typing, Filling, BytesInBounds
  <2> QED
    BY <2>1, <2>2, <2>3, <2>4, <2>5, <2>6, <2>7 DEF IpNext, Validated
<1> QED
  BY InitInv, <1>1, PTL DEF IpSpec

\* validate_ipv6 writes inside the array of the address, and the whole of it for
\* every address with a group, for every length of addresses and every text.
THEOREM WritesInBounds == IpSpec => []BytesInBounds
<1>1. IpInv => BytesInBounds
  BY DEF IpInv
<1> QED
  BY IpInvariance, <1>1, PTL

-----------------------------------------------------------------------------
(* Responses. *)

\* No key in the table of the response says Content-Length, in any spelling.
TableInv ==
  pc = "handle" => /\ status \in 100..599
                   /\ IsFiniteSet(DOMAIN resTable)
                   /\ \A k \in DOMAIN resTable : k.name # "Content-Length"

FramingInv == TableInv /\ ResponseFraming

\* A finite set as a sequence has all its members.
LEMMA SetToSeqIsAll ==
  ASSUME NEW S, IsFiniteSet(S)
  PROVE  /\ SetToSeq(S) \in Seq(S)
         /\ \A x \in S : \E n \in 1..Len(SetToSeq(S)) : SetToSeq(S)[n] = x
<1> DEFINE c == Cardinality(S)
<1>1. c \in Nat /\ ExistsBijection(1..c, S)
  BY FS_CardinalityType
<1>2. \E f \in [1..c -> S] : IsInjective(f)
  BY <1>1, Zenon DEF ExistsBijection, Bijection, Injection
<1>3. SetToSeq(S) \in [1..c -> S] /\ IsInjective(SetToSeq(S))
  BY <1>2, Zenon DEF SetToSeq
<1>4. SetToSeq(S) \in Injection(1..c, S)
  BY <1>3, Zenon DEF Injection
<1>5. IsFiniteSet(1..c) /\ Cardinality(1..c) = c
  BY <1>1, FS_Interval
<1>6. SetToSeq(S) \in Surjection(1..c, S)
  BY <1>4, <1>5, FS_Injection
<1>7. \A x \in S : \E n \in 1..c : SetToSeq(S)[n] = x
  BY <1>6, Zenon DEF Surjection
<1>8. SetToSeq(S) \in Seq(S)
  BY <1>1, <1>3, FunctionIsSeq
<1>9. Len(SetToSeq(S)) = c
  BY <1>1, <1>3, <1>8, LenProperties
<1>10. QED
  BY <1>7, <1>8, <1>9

\* The lines made of the table are its entries.
LEMMA TableLinesAreTable ==
  ASSUME IsFiniteSet(DOMAIN resTable)
  PROVE  /\ TableLines \in Seq({<<k, resTable[k]>> : k \in DOMAIN resTable})
         /\ \A k \in DOMAIN resTable :
              \E n \in 1..Len(TableLines) : TableLines[n] = <<k, resTable[k]>>
<1> DEFINE D == DOMAIN resTable
           S == {<<k, resTable[k]>> : k \in D}
           f == [k \in D |-> <<k, resTable[k]>>]
<1>1. f \in Surjection(D, S)
  BY Zenon DEF Surjection
<1>2. IsFiniteSet(S)
  BY <1>1, FS_Surjection
<1>3. QED
  BY <1>2, SetToSeqIsAll DEF TableLines

\* Another value adds its key, and no other, to a table.
LEMMA PushKeepsTable ==
  ASSUME NEW table, NEW key, NEW value, IsFiniteSet(DOMAIN table)
  PROVE  /\ DOMAIN PushValue(table, key, value) = DOMAIN table \cup {key}
         /\ IsFiniteSet(DOMAIN PushValue(table, key, value))
<1>1. DOMAIN PushValue(table, key, value) = DOMAIN table \cup {key}
  BY DEF PushValue
<1>2. QED
  BY <1>1, FS_AddElement

\* insert_header refuses Content-Length as long as there is none.
LEMMA SetHeaderKeepsTable ==
  ASSUME NEW key, NEW value, SetHeader(key, value), TableInv, pc = "handle"
  PROVE  /\ IsFiniteSet(DOMAIN resTable')
         /\ \A k \in DOMAIN resTable' : k.name # "Content-Length"
<1>0. /\ IsFiniteSet(DOMAIN resTable)
      /\ \A k \in DOMAIN resTable : k.name # "Content-Length"
  BY DEF TableInv
<1>1. CASE Refused(resTable, key, FALSE)
  BY <1>0, <1>1 DEF SetHeader
<1>2. CASE ~Refused(resTable, key, FALSE)
  <2>1. resTable' = PushValue(resTable, key, value)
    BY <1>2 DEF SetHeader
  <2>2. key.name # "Content-Length"
    BY <1>0, <1>2 DEF Refused
  <2>3. /\ DOMAIN resTable' = DOMAIN resTable \cup {key}
        /\ IsFiniteSet(DOMAIN resTable')
    BY <1>0, <2>1, PushKeepsTable, Zenon
  <2>4. QED
    BY <1>0, <2>2, <2>3, Zenon
<1>3. QED
  BY <1>1, <1>2

\* The calls of the handler.
LEMMA CallFraming ==
  ASSUME FramingInv, Calling,
         \/ \E k \in ResKeys, v \in Values : ys_set_header(k, v)
         \/ \E valid \in BOOLEAN : ys_set_cookie(valid)
         \/ \E s \in Statuses : ys_set_status(s)
         \/ ys_set_body
  PROVE  FramingInv'
<1>0. pc = "handle" /\ pc' = "handle" /\ TableInv
  BY DEF Calling, FramingInv
<1>1. ResponseFraming'
  BY <1>0 DEF ResponseFraming
<1>2. ASSUME NEW k, NEW v, SetHeader(k, v), UNCHANGED status PROVE TableInv'
  BY <1>0, <1>2, SetHeaderKeepsTable DEF TableInv
<1>3. TableInv'
  <2>1. CASE \E k \in ResKeys, v \in Values : ys_set_header(k, v)
    BY <1>2, <2>1 DEF ys_set_header
  <2>2. CASE \E valid \in BOOLEAN : ys_set_cookie(valid)
    BY <1>2, <2>2 DEF ys_set_cookie
  <2>3. CASE \E s \in Statuses : ys_set_status(s)
    BY <1>0, <2>3, StatusesAssumption DEF ys_set_status, TableInv
  <2>4. CASE ys_set_body
    BY <1>0, <2>4 DEF ys_set_body, TableInv
  <2>5. QED
    BY <2>1, <2>2, <2>3, <2>4
<1>4. QED
  BY <1>1, <1>3 DEF FramingInv

\* Lines added one after the other.
LEMMA TwoInARow ==
  ASSUME NEW t, NEW l
  PROVE  <<t>> \o <<l>> = <<t, l>> /\ <<>> \o <<l>> = <<l>>
<1> DEFINE a == Append(<<t>>, l)
           b == <<t, l>>
<1>1. <<t>> \in Seq({t, l}) /\ <<>> \in Seq({t, l}) /\ l \in {t, l}
  OBVIOUS
<1>2. a \in Seq({t, l}) /\ Len(a) = 2 /\ a[1] = t /\ a[2] = l
  BY <1>1
<1>3. b \in Seq({t, l}) /\ Len(b) = 2 /\ b[1] = t /\ b[2] = l
  OBVIOUS
<1>4. <<t>> \o <<l>> = a /\ <<>> \o <<l>> = Append(<<>>, l)
  BY <1>1, AppendIsConcat, Zenon
<1>5. Append(<<>>, l) = <<l>>
  OBVIOUS
<1> HIDE DEF a, b
<1>6. \A i \in 1..Len(a) : a[i] = b[i]
  BY <1>2, <1>3
<1>7. a = b
  BY <1>2, <1>3, <1>6, SeqEqual
<1>8. QED
  BY <1>4, <1>5, <1>7 DEF b

\* Content-Type where the body needs one, then Content-Length.
LEMMA AddedLines ==
  \/ /\ Added = <<<<Canonical("Content-Length"), <<"length of the body">>>>>>
     /\ body => HasContentType
  \/ Added = <<<<Canonical("Content-Type"), <<"text/plain">>>>,
               <<Canonical("Content-Length"), <<"length of the body">>>>>>
<1> DEFINE t == <<Canonical("Content-Type"), <<"text/plain">>>>
           l == <<Canonical("Content-Length"), <<"length of the body">>>>
<1>1. Added = (IF body /\ ~HasContentType THEN <<t>> ELSE <<>>) \o <<l>>
  BY DEF Added
<1>2. <<t>> \o <<l>> = <<t, l>> /\ <<>> \o <<l>> = <<l>>
  BY TwoInARow
<1>3. QED
  BY <1>1, <1>2, Zenon

\* response_serialize adds at most one Content-Length to what is in the table.
LEMMA SerializeFraming ==
  ASSUME FramingInv, response_serialize
  PROVE  FramingInv'
<1> DEFINE T == TableLines
           A == Added
<1>0. /\ status \in 100..599 /\ IsFiniteSet(DOMAIN resTable)
      /\ \A k \in DOMAIN resTable : k.name # "Content-Length"
  BY DEF FramingInv, TableInv, response_serialize
<1>1. pc' = "sent" /\ method' = method
  BY DEF response_serialize
<1>2. T \in Seq({<<k, resTable[k]>> : k \in DOMAIN resTable}) /\ Len(T) \in Nat
      /\ DOMAIN T = 1..Len(T)
  BY <1>0, TableLinesAreTable, LenProperties
<1>3. \A n \in 1..Len(T) : T[n][1] \in DOMAIN resTable
  BY <1>2, ElementOfSeq
<1>4. \A n \in 1..Len(T) : T[n][1].name # "Content-Length"
  BY <1>0, <1>3
<1> HIDE DEF T, A
<1>5. CASE should_set_content_len
  <2>1. out' = [status |-> status, lines |-> T \o A, body |-> body]
    BY <1>5 DEF response_serialize, T, A
  <2>2. out'.lines = T \o A /\ out'.status = status /\ out'.body = body
    BY <2>1
  <2>3. PICK c \in {1, 2} :
          /\ A \in Seq({A[1], A[2]}) /\ Len(A) = c
          /\ A[c][1].name = "Content-Length"
          /\ c = 2 => A[1][1].name = "Content-Type"
          /\ c = 1 => (body => HasContentType)
    <3> DEFINE t == <<Canonical("Content-Type"), <<"text/plain">>>>
               l == <<Canonical("Content-Length"), <<"length of the body">>>>
    <3>1. t[1].name = "Content-Type" /\ l[1].name = "Content-Length"
      BY DEF Canonical, Key
    <3>2. \/ A = <<l>> /\ (body => HasContentType)
          \/ A = <<t, l>>
      BY AddedLines DEF A
    <3> HIDE DEF t, l
    <3>3. CASE A = <<l>> /\ (body => HasContentType)
      <4>1. A \in Seq({A[1], A[2]}) /\ Len(A) = 1 /\ A[1] = l
        BY <3>3
      <4>2. QED
        BY <3>1, <3>3, <4>1
    <3>4. CASE A = <<t, l>>
      <4>1. A \in Seq({A[1], A[2]}) /\ Len(A) = 2 /\ A[1] = t /\ A[2] = l
        BY <3>4
      <4>2. QED
        BY <3>1, <4>1
    <3>5. QED
      BY <3>2, <3>3, <3>4
  <2>4. /\ DOMAIN (T \o A) = 1..(Len(T) + c)
        /\ \A n \in 1..Len(T) : (T \o A)[n] = T[n]
        /\ \A n \in 1..c : (T \o A)[Len(T) + n] = A[n]
    <3> DEFINE S == {<<k, resTable[k]>> : k \in DOMAIN resTable}
               U == S \cup {A[1], A[2]}
    <3>1. T \in Seq(U) /\ A \in Seq(U)
      <4>1. S \subseteq U /\ {A[1], A[2]} \subseteq U
        OBVIOUS
      <4>2. \A n \in 1..Len(T) : T[n] \in S
        BY <1>2, ElementOfSeq
      <4>3. \A n \in 1..Len(A) : A[n] \in {A[1], A[2]}
        BY <2>3, ElementOfSeq
      <4> HIDE DEF S, U
      <4>4. T \in Seq(U)
        BY <1>2, <4>1, <4>2, SeqRetyped, Zenon DEF S
      <4>5. A \in Seq(U)
        BY <2>3, <4>1, <4>3, SeqRetyped, Zenon
      <4>6. QED
        BY <4>4, <4>5
    <3> HIDE DEF U
    <3>2. c \in Nat
      OBVIOUS
    <3>3. /\ T \o A \in Seq(U) /\ Len(T \o A) = Len(T) + c
          /\ \A i \in 1..Len(T) + c : (T \o A)[i] = IF i <= Len(T) THEN T[i] ELSE A[i - Len(T)]
      BY <2>3, <3>1, ConcatProperties
    <3>4. DOMAIN (T \o A) = 1..(Len(T) + c)
      BY <3>3, LenProperties
    <3>5. \A n \in 1..Len(T) : (T \o A)[n] = T[n]
      BY <1>2, <3>2, <3>3
    <3>6. ASSUME NEW n \in 1..c PROVE (T \o A)[Len(T) + n] = A[n]
      <4>1. Len(T) + n \in 1..Len(T) + c /\ ~(Len(T) + n <= Len(T)) /\ (Len(T) + n) - Len(T) = n
        BY <1>2, <3>2
      <4>2. QED
        BY <3>3, <4>1
    <3>7. QED
      BY <3>4, <3>5, <3>6
  <2>5. SentLines("Content-Length")' = {Len(T) + c}
    <3>1. ASSUME NEW n \in 1..(Len(T) + c)
          PROVE  (T \o A)[n][1].name = "Content-Length" <=> n = Len(T) + c
      <4>1. CASE n \in 1..Len(T)
        <5>1. n # Len(T) + c
          BY <1>2, <4>1
        <5>2. QED
          BY <1>4, <2>4, <4>1, <5>1
      <4>2. CASE n = Len(T) + c
        <5>1. (T \o A)[n] = A[c]
          BY <2>4, <4>2
        <5>2. QED
          BY <2>3, <4>2, <5>1
      <4>3. CASE c = 2 /\ n = Len(T) + 1
        <5>1. (T \o A)[n] = A[1] /\ n # Len(T) + c
          BY <1>2, <2>4, <4>3
        <5>2. QED
          BY <2>3, <4>3, <5>1
      <4>4. n \in 1..Len(T) \/ n = Len(T) + c \/ (c = 2 /\ n = Len(T) + 1)
        BY <1>2
      <4>5. QED
        BY <4>1, <4>2, <4>3, <4>4
    <3>2. Len(T) + c \in 1..(Len(T) + c)
      BY <1>2
    <3>3. \A n : n \in SentLines("Content-Length")' <=> n \in {Len(T) + c}
      BY <2>2, <2>4, <3>1, <3>2, Zenon DEF SentLines
    <3>4. QED
      BY <3>3, Zenon
  <2>6. Cardinality(SentLines("Content-Length")') = 1
    BY <2>5, FS_Singleton
  <2>7. ~(out'.status = 204 \/ out'.status < 200 \/ (out'.status < 300 /\ method' = "CONNECT"))
    BY <1>0, <1>1, <1>5, <2>2 DEF should_set_content_len
  <2>8. body => SentLines("Content-Type")' # {}
    <3> SUFFICES ASSUME body PROVE \E n \in 1..(Len(T) + c) : (T \o A)[n][1].name = "Content-Type"
      BY <2>2, <2>4, Zenon DEF SentLines
    <3>1. CASE c = 1
      <4>1. PICK k \in DOMAIN resTable : k.name = "Content-Type"
        BY <2>3, <3>1 DEF HasContentType
      <4>2. PICK n \in 1..Len(T) : T[n] = <<k, resTable[k]>>
        BY <1>0, <4>1, TableLinesAreTable DEF T
      <4>3. n \in 1..(Len(T) + c)
        BY <1>2
      <4>4. (T \o A)[n][1].name = "Content-Type"
        BY <2>4, <4>1, <4>2
      <4>5. QED
        BY <4>3, <4>4
    <3>2. CASE c = 2
      <4>1. (T \o A)[Len(T) + 1] = A[1] /\ Len(T) + 1 \in 1..(Len(T) + c)
        BY <1>2, <2>4, <3>2
      <4>2. QED
        BY <2>3, <3>2, <4>1
    <3>3. QED
      BY <3>1, <3>2
  <2>9. ResponseFraming'
    BY <1>1, <2>2, <2>5, <2>6, <2>7, <2>8 DEF ResponseFraming
  <2>10. QED
    BY <1>1, <2>9 DEF FramingInv, TableInv
<1>6. CASE ~should_set_content_len
  <2>1. out' = [status |-> status, lines |-> T, body |-> FALSE]
    BY <1>6 DEF response_serialize, T
  <2>2. SentLines("Content-Length")' = {}
    BY <1>2, <1>4, <2>1 DEF SentLines
  <2>3. Cardinality(SentLines("Content-Length")') = 0
    BY <2>2, FS_EmptySet
  <2>4. out'.status = 204 \/ out'.status < 200 \/ (out'.status < 300 /\ method' = "CONNECT")
    BY <1>0, <1>1, <1>6, <2>1 DEF should_set_content_len
  <2>5. ResponseFraming'
    BY <1>1, <2>1, <2>3, <2>4 DEF ResponseFraming
  <2>6. QED
    BY <1>1, <2>5 DEF FramingInv, TableInv
<1>7. QED
  BY <1>5, <1>6

\* Whatever the handlers set, in whatever order and however often, the response
\* that response_serialize makes is framed.
THEOREM ResponsesFramed == Spec => []ResponseFraming
<1>1. Init => FramingInv
  BY DEF Init, FramingInv, TableInv, ResponseFraming
<1>2. FramingInv /\ [Next]_vars => FramingInv'
  <2> SUFFICES ASSUME FramingInv, [Next]_vars PROVE FramingInv'
    OBVIOUS
  <2>1. CASE InsertLine
    BY <2>1 DEF InsertLine, FramingInv, TableInv, ResponseFraming
  <2>2. CASE Parsed
    <3>1. DOMAIN Empty = {}
      BY DEF Empty
    <3>2. DOMAIN resTable' = {Canonical("X-Powered-By")} /\ IsFiniteSet(DOMAIN resTable')
      <4>1. resTable' = PushValue(Empty, Canonical("X-Powered-By"), "Ys")
        BY <2>2 DEF Parsed
      <4>2. IsFiniteSet(DOMAIN Empty)
        BY <3>1, FS_EmptySet, Zenon
      <4>3. DOMAIN resTable' = DOMAIN Empty \cup {Canonical("X-Powered-By")}
            /\ IsFiniteSet(DOMAIN resTable')
        BY <4>1, <4>2, PushKeepsTable, Zenon
      <4>4. QED
        BY <3>1, <4>3, Zenon
    <3>3. Canonical("X-Powered-By").name # "Content-Length"
      BY DEF Canonical, Key
    <3>4. QED
      BY <2>2, <3>2, <3>3 DEF Parsed, FramingInv, TableInv, ResponseFraming
  <2>3. CASE \/ \E k \in ResKeys, v \in Values : ys_set_header(k, v)
             \/ \E valid \in BOOLEAN : ys_set_cookie(valid)
             \/ \E s \in Statuses : ys_set_status(s)
             \/ ys_set_body
    <3>1. Calling
      BY <2>3 DEF ys_set_header, ys_set_cookie, ys_set_status, ys_set_body
    <3>2. QED
      BY <2>3, <3>1, CallFraming
  <2>4. CASE response_serialize
    BY <2>4, SerializeFraming
  <2>5. CASE UNCHANGED vars
    BY <2>5 DEF vars, resVars, FramingInv, TableInv, ResponseFraming, SentLines
  <2>6. QED
    BY <2>1, <2>2, <2>3, <2>4, <2>5 DEF Next, Ended
<1>3. FramingInv => ResponseFraming
  BY DEF FramingInv
<1>4. QED
  BY <1>1, <1>2, <1>3, PTL DEF Spec

-----------------------------------------------------------------------------
(* Requests. *)

\* The keys the table of a request can have.
AllKeys == ReqKeys \cup {Pragma, CacheControl} \cup {Canonical(name) : name \in Singletons}

\* What the client sent, and how far it is parsed.
LinesInv == /\ lines \in Seq(ReqKeys \X Values) /\ pos \in 0..Len(lines)
            /\ pc \in {"parse", "refused", "handle", "sent"}

\* The table holds the lines inserted so far, of each singleton at most one.
KeptSoFar(k) ==
  /\ k \in DOMAIN reqTable <=> Seen(k, pos) # {}
  /\ ht_get(reqTable, k) \in Seq(Values)
  /\ InLineOrder(ht_get(reqTable, k), k, pos)
  /\ is_singleton_header(k) => Cardinality(Seen(k, pos)) <= 1

\* The inductive invariant: what is kept so far, then what is kept in the end.
HeadersInv == /\ LinesInv
              /\ pc = "parse" => \A k \in AllKeys : KeptSoFar(k)
              /\ RequestHeadersKept

\* The lines with a key among the first p, and how many there are.
LEMMA SeenCounts ==
  ASSUME LinesInv, NEW k
  PROVE  /\ \A p \in 0..Len(lines) :
              /\ Seen(k, p) \subseteq 1..p /\ IsFiniteSet(Seen(k, p))
              /\ Cardinality(Seen(k, p)) \in Nat
              /\ Cardinality(Seen(k, p)) = 0 <=> Seen(k, p) = {}
         /\ \A p, q \in 0..Len(lines) : p <= q =>
              /\ Seen(k, p) \subseteq Seen(k, q)
              /\ Cardinality(Seen(k, p)) <= Cardinality(Seen(k, q))
         /\ \A p \in 0..Len(lines) - 1 :
              /\ lines[p + 1][1] = k =>
                   /\ Seen(k, p + 1) = Seen(k, p) \cup {p + 1}
                   /\ Cardinality(Seen(k, p + 1)) = Cardinality(Seen(k, p)) + 1
              /\ lines[p + 1][1] # k => Seen(k, p + 1) = Seen(k, p)
<1>0. Len(lines) \in Nat
  BY LenProperties DEF LinesInv
<1>1. ASSUME NEW p \in 0..Len(lines)
      PROVE  /\ Seen(k, p) \subseteq 1..p /\ IsFiniteSet(Seen(k, p))
             /\ Cardinality(Seen(k, p)) \in Nat
             /\ Cardinality(Seen(k, p)) = 0 <=> Seen(k, p) = {}
  <2>1. Seen(k, p) \subseteq 1..p
    BY DEF Seen
  <2>2. IsFiniteSet(1..p)
    BY <1>0, FS_Interval
  <2>3. IsFiniteSet(Seen(k, p))
    BY <2>1, <2>2, FS_Subset
  <2>4. QED
    BY <2>1, <2>3, FS_CardinalityType, FS_EmptySet
<1>2. ASSUME NEW p \in 0..Len(lines), NEW q \in 0..Len(lines), p <= q
      PROVE  /\ Seen(k, p) \subseteq Seen(k, q)
             /\ Cardinality(Seen(k, p)) <= Cardinality(Seen(k, q))
  <2>1. Seen(k, p) \subseteq Seen(k, q)
    BY <1>0, <1>2 DEF Seen
  <2>2. QED
    BY <1>1, <2>1, FS_Subset
<1>3. ASSUME NEW p \in 0..Len(lines) - 1
      PROVE  /\ lines[p + 1][1] = k =>
                  /\ Seen(k, p + 1) = Seen(k, p) \cup {p + 1}
                  /\ Cardinality(Seen(k, p + 1)) = Cardinality(Seen(k, p)) + 1
             /\ lines[p + 1][1] # k => Seen(k, p + 1) = Seen(k, p)
  <2>0. p \in Nat /\ p \in 0..Len(lines)
    BY <1>0
  <2>1. CASE lines[p + 1][1] = k
    <3>1. \A n : n \in Seen(k, p + 1) <=> n \in Seen(k, p) \cup {p + 1}
      BY <2>0, <2>1 DEF Seen
    <3>2. Seen(k, p + 1) = Seen(k, p) \cup {p + 1}
      BY <3>1, Zenon
    <3>3. p + 1 \notin Seen(k, p)
      BY <2>0 DEF Seen
    <3>4. IsFiniteSet(Seen(k, p))
      BY <1>1, <2>0
    <3>5. Cardinality(Seen(k, p) \cup {p + 1}) = Cardinality(Seen(k, p)) + 1
      BY <3>3, <3>4, FS_AddElement
    <3>6. QED
      BY <2>1, <3>2, <3>5
  <2>2. CASE lines[p + 1][1] # k
    <3>1. \A n : n \in Seen(k, p + 1) <=> n \in Seen(k, p)
      BY <2>0, <2>2 DEF Seen
    <3>2. Seen(k, p + 1) = Seen(k, p)
      BY <3>1, Zenon
    <3>3. QED
      BY <2>2, <3>2
  <2>3. QED
    BY <2>1, <2>2
<1>4. QED
  BY <1>1, <1>2, <1>3

\* The place of a line among those of its key.
LEMMA RankInRange ==
  ASSUME LinesInv, NEW k, NEW p \in 0..Len(lines), NEW n \in Seen(k, p)
  PROVE  Cardinality(Seen(k, n)) \in 1..Cardinality(Seen(k, p))
<1>0. Len(lines) \in Nat
  BY LenProperties DEF LinesInv
<1>1. n \in 1..p /\ lines[n][1] = k
  BY DEF Seen
<1>2. n \in 0..Len(lines) /\ n <= p /\ n \in Seen(k, n)
  BY <1>0, <1>1 DEF Seen
<1>3. /\ Cardinality(Seen(k, n)) \in Nat /\ Cardinality(Seen(k, p)) \in Nat
      /\ Cardinality(Seen(k, n)) # 0
      /\ Cardinality(Seen(k, n)) <= Cardinality(Seen(k, p))
  BY <1>2, SeenCounts
<1>4. QED
  BY <1>3

\* One more line in the table.
LEMMA InsertKeeps ==
  ASSUME HeadersInv, InsertLine, NEW k \in AllKeys
  PROVE  LET key == lines[pos + 1][1]
         IN  /\ key \in AllKeys
             /\ Refused(reqTable, key, TRUE) => Cardinality(LinesOf(key)) > 1
             /\ ~Refused(reqTable, key, TRUE) => KeptSoFar(k)'
<1> DEFINE key == lines[pos + 1][1]
           value == lines[pos + 1][2]
           vals == ht_get(reqTable, k)
<1>0. /\ LinesInv /\ pc = "parse" /\ Len(lines) \in Nat
      /\ pos \in 0..Len(lines) - 1 /\ pos \in 0..Len(lines)
      /\ pos + 1 \in 0..Len(lines)
      /\ \A x \in AllKeys : KeptSoFar(x)
      /\ lines' = lines /\ pos' = pos + 1
  BY LenProperties DEF HeadersInv, LinesInv, InsertLine
<1>1. lines[pos + 1] \in ReqKeys \X Values
  BY <1>0, ElementOfSeq DEF LinesInv
<1>2. key \in AllKeys /\ value \in Values
  BY <1>1 DEF AllKeys
<1>3. ASSUME Refused(reqTable, key, TRUE) PROVE Cardinality(LinesOf(key)) > 1
  <2>1. key \in DOMAIN reqTable
    BY <1>3 DEF Refused
  <2>2. Seen(key, pos) # {}
    BY <1>0, <1>2, <2>1 DEF KeptSoFar
  <2>3. /\ Cardinality(Seen(key, pos)) \in Nat /\ Cardinality(Seen(key, pos)) # 0
        /\ Cardinality(Seen(key, pos + 1)) = Cardinality(Seen(key, pos)) + 1
    BY <1>0, <2>2, SeenCounts, SMTT(60)
  <2>4. Len(lines) \in 0..Len(lines) /\ pos + 1 <= Len(lines)
    BY <1>0
  <2>5. Cardinality(Seen(key, pos + 1)) <= Cardinality(LinesOf(key))
        /\ Cardinality(LinesOf(key)) \in Nat
    BY <1>0, <2>4, SeenCounts DEF LinesOf
  <2>6. QED
    BY <2>3, <2>5
<1>4. ASSUME ~Refused(reqTable, key, TRUE) PROVE KeptSoFar(k)'
  <2>0. /\ vals \in Seq(Values) /\ Len(vals) \in Nat
        /\ Len(vals) = Cardinality(Seen(k, pos))
        /\ \A n \in Seen(k, pos) : vals[Cardinality(Seen(k, n))] = lines[n][2]
        /\ k \in DOMAIN reqTable <=> Seen(k, pos) # {}
        /\ is_singleton_header(k) => Cardinality(Seen(k, pos)) <= 1
    BY <1>0, LenProperties DEF KeptSoFar, InLineOrder
  <2>1. reqTable' = PushValue(reqTable, key, value)
    BY <1>4 DEF InsertLine
  <2>2. Seen(k, pos)' = Seen(k, pos + 1) /\ \A n : Seen(k, n)' = Seen(k, n)
    BY <1>0 DEF Seen
  <2>3. DOMAIN reqTable' = DOMAIN reqTable \cup {key}
    BY <2>1 DEF PushValue
  <2>4. CASE k = key
    <3>1. ht_get(reqTable, k)' = Append(vals, value)
      BY <2>1, <2>4 DEF ht_get, PushValue
    <3>2. /\ Seen(k, pos + 1) = Seen(k, pos) \cup {pos + 1}
          /\ Cardinality(Seen(k, pos + 1)) = Cardinality(Seen(k, pos)) + 1
      BY <1>0, <2>4, SeenCounts
    <3>3. /\ Append(vals, value) \in Seq(Values)
          /\ Len(Append(vals, value)) = Len(vals) + 1
          /\ Append(vals, value)[Len(vals) + 1] = value
          /\ \A j \in 1..Len(vals) : Append(vals, value)[j] = vals[j]
      BY <1>2, <2>0, AppendProperties
    <3>4. ASSUME NEW n \in Seen(k, pos + 1)
          PROVE  Append(vals, value)[Cardinality(Seen(k, n))] = lines[n][2]
      <4>1. CASE n = pos + 1
        BY <2>0, <3>2, <3>3, <4>1
      <4>2. CASE n \in Seen(k, pos)
        <5>1. Cardinality(Seen(k, n)) \in 1..Len(vals)
          BY <1>0, <2>0, <4>2, RankInRange
        <5>2. QED
          BY <2>0, <3>3, <4>2, <5>1
      <4>3. QED
        BY <3>2, <4>1, <4>2
    <3>5. InLineOrder(ht_get(reqTable, k), k, pos)'
      BY <1>0, <2>0, <2>2, <3>1, <3>2, <3>3, <3>4, ZenonT(60) DEF InLineOrder
    <3>6. is_singleton_header(k) => Cardinality(Seen(k, pos + 1)) <= 1
      <4> SUFFICES ASSUME is_singleton_header(k) PROVE Cardinality(Seen(k, pos + 1)) <= 1
        OBVIOUS
      <4>1. k \notin DOMAIN reqTable
        BY <1>4, <2>4 DEF Refused
      <4>2. Seen(k, pos) = {}
        BY <2>0, <4>1
      <4>3. Cardinality(Seen(k, pos)) = 0
        BY <4>2, FS_EmptySet
      <4>4. QED
        BY <3>2, <4>3
    <3>7. k \in DOMAIN reqTable' /\ Seen(k, pos)' # {}
      BY <2>2, <2>3, <2>4, <3>2
    <3>8. (is_singleton_header(k) => Cardinality(Seen(k, pos)) <= 1)'
      BY <2>2, <3>6 DEF is_singleton_header
    <3>9. QED
      BY <3>1, <3>3, <3>5, <3>7, <3>8 DEF KeptSoFar
  <2>5. CASE k # key
    <3>1. ht_get(reqTable, k)' = vals
      BY <2>1, <2>3, <2>5 DEF ht_get, PushValue
    <3>2. Seen(k, pos + 1) = Seen(k, pos)
      BY <1>0, <2>5, SeenCounts
    <3>3. InLineOrder(ht_get(reqTable, k), k, pos)'
      BY <1>0, <2>0, <2>2, <3>1, <3>2 DEF InLineOrder
    <3>4. QED
      BY <2>0, <2>2, <2>3, <2>5, <3>1, <3>2, <3>3 DEF KeptSoFar, is_singleton_header
  <2>6. QED
    BY <2>4, <2>5
<1>5. QED
  BY <1>2, <1>3, <1>4

\* Another line, first of its key or not.
LEMMA InsertHeaders ==
  ASSUME HeadersInv, InsertLine
  PROVE  HeadersInv'
<1> DEFINE key == lines[pos + 1][1]
<1>0. /\ LinesInv /\ pc = "parse" /\ lines' = lines /\ pos' = pos + 1 /\ pos < Len(lines)
  BY DEF HeadersInv, InsertLine
<1>1. LinesInv'
  <2>1. Len(lines) \in Nat /\ pos \in 0..Len(lines)
    BY <1>0, LenProperties DEF LinesInv
  <2>2. pos' \in 0..Len(lines')
    BY <1>0, <2>1
  <2>3. pc' \in {"parse", "refused"}
    BY <1>0 DEF InsertLine
  <2>4. QED
    BY <1>0, <2>2, <2>3 DEF LinesInv
<1>2. CASE Refused(reqTable, key, TRUE)
  <2>1. pc' = "refused"
    BY <1>2 DEF InsertLine
  <2>2. CacheControl \in AllKeys
    BY DEF AllKeys
  <2>3. Cardinality(LinesOf(key)) > 1
    BY <1>2, <2>2, InsertKeeps
  <2>4. \E name \in Singletons : key = Canonical(name)
    BY <1>2 DEF Refused, is_singleton_header, Singletons
  <2>5. PICK name \in Singletons : key = Canonical(name)
    BY <2>4
  <2>6. Cardinality(LinesNamed(name))' > 1
    <3>1. LinesOf(key) \subseteq LinesNamed(name)
      BY <2>5 DEF LinesOf, Seen, LinesNamed, Canonical, Key
    <3>2. IsFiniteSet(LinesNamed(name))
      <4>1. Len(lines) \in Int /\ LinesNamed(name) \subseteq 1..Len(lines)
        BY <1>0, LenProperties DEF LinesInv, LinesNamed
      <4>2. IsFiniteSet(1..Len(lines))
        BY <4>1, FS_Interval
      <4>3. QED
        BY <4>1, <4>2, FS_Subset
    <3>3. /\ IsFiniteSet(LinesOf(key))
          /\ Cardinality(LinesOf(key)) <= Cardinality(LinesNamed(name))
      BY <3>1, <3>2, FS_Subset
    <3>4. Cardinality(LinesOf(key)) \in Nat /\ Cardinality(LinesNamed(name)) \in Nat
      BY <3>2, <3>3, FS_CardinalityType
    <3>5. LinesNamed(name)' = LinesNamed(name)
      BY <1>0 DEF LinesNamed
    <3>6. QED
      BY <2>3, <3>3, <3>4, <3>5
  <2>7. RequestHeadersKept'
    BY <2>1, <2>6 DEF RequestHeadersKept
  <2>8. QED
    BY <1>1, <2>1, <2>7 DEF HeadersInv
<1>3. CASE ~Refused(reqTable, key, TRUE)
  <2>1. pc' = "parse"
    BY <1>0, <1>3 DEF InsertLine
  <2>2. AllKeys' = AllKeys
    BY DEF AllKeys, Pragma, CacheControl
  <2>3. \A k \in AllKeys : KeptSoFar(k)'
    BY <1>3, InsertKeeps
  <2>4. RequestHeadersKept'
    BY <2>1 DEF RequestHeadersKept
  <2>5. QED
    BY <1>1, <2>1, <2>2, <2>3, <2>4 DEF HeadersInv
<1>4. QED
  BY <1>2, <1>3

\* The first value of a key is that of its first line.
LEMMA FirstValue ==
  ASSUME LinesInv, NEW k, LinesOf(k) # {}, NEW vals,
         InLineOrder(vals, k, Len(lines))
  PROVE  vals[1] = lines[Min(LinesOf(k))][2]
<1> DEFINE m == Min(LinesOf(k))
<1>0. Len(lines) \in Nat /\ Len(lines) \in 0..Len(lines)
  BY LenProperties DEF LinesInv
<1>1. LinesOf(k) \subseteq Nat
  BY DEF LinesOf, Seen
<1>2. m \in LinesOf(k) /\ \A x \in LinesOf(k) : m <= x
  BY <1>1, MinOfNats
<1> HIDE DEF m
<1>3. m \in 1..Len(lines) /\ lines[m][1] = k
  BY <1>2 DEF LinesOf, Seen
<1>4. Seen(k, m) = {m}
  <2>1. ASSUME NEW n PROVE n \in Seen(k, m) <=> n \in {m}
    <3>1. n \in Seen(k, m) => n \in LinesOf(k) /\ n \in Nat /\ n <= m
      BY <1>0, <1>3 DEF LinesOf, Seen
    <3>2. n \in Seen(k, m) => n = m
      BY <1>2, <1>3, <3>1
    <3>3. m \in Seen(k, m)
      BY <1>3 DEF Seen
    <3>4. QED
      BY <3>2, <3>3
  <2>2. QED
    BY <2>1, Zenon
<1>5. Cardinality(Seen(k, m)) = 1
  BY <1>4, FS_Singleton
<1>6. vals[Cardinality(Seen(k, m))] = lines[m][2]
  BY <1>2 DEF InLineOrder, LinesOf
<1>7. QED
  BY <1>5, <1>6 DEF m

\* The end of the head, where Cache-Control is made of Pragma.
LEMMA ParsedHeaders ==
  ASSUME HeadersInv, Parsed
  PROVE  HeadersInv'
<1> DEFINE n == Len(lines)
           fixed == /\ LinesOf(CacheControl) = {} /\ LinesOf(Pragma) # {}
                    /\ lines[Min(LinesOf(Pragma))][2] = "no-cache"
<1>0. /\ LinesInv /\ pc = "parse" /\ pos = n /\ n \in Nat
      /\ lines' = lines /\ pos' = pos /\ pc' = "handle"
      /\ reqTable' = fix_pragma_cache_control(reqTable)
  BY LenProperties DEF HeadersInv, Parsed, LinesInv
<1>1. LinesInv'
  BY <1>0 DEF LinesInv
<1>2. \A k \in AllKeys :
        /\ k \in DOMAIN reqTable <=> LinesOf(k) # {}
        /\ ht_get(reqTable, k) \in Seq(Values)
        /\ InLineOrder(ht_get(reqTable, k), k, n)
        /\ is_singleton_header(k) => Cardinality(LinesOf(k)) <= 1
  BY <1>0 DEF HeadersInv, KeptSoFar, LinesOf
<1>3. \A name \in Singletons : ~(Cardinality(LinesOf(Canonical(name))) > 1)
  <2> SUFFICES ASSUME NEW name \in Singletons
               PROVE  ~(Cardinality(LinesOf(Canonical(name))) > 1)
    OBVIOUS
  <2>1. Canonical(name) \in AllKeys /\ is_singleton_header(Canonical(name))
    BY DEF AllKeys, is_singleton_header, Singletons
  <2>2. Cardinality(LinesOf(Canonical(name))) <= 1
    BY <1>2, <2>1
  <2>3. n \in 0..n
    BY <1>0
  <2>4. Cardinality(LinesOf(Canonical(name))) \in Nat
    BY <1>0, <2>3, SeenCounts DEF LinesOf
  <2>5. QED
    BY <2>2, <2>4
<1>4. Pragma \in AllKeys /\ CacheControl \in AllKeys
  BY DEF AllKeys
<1>5. fixed <=> /\ Pragma \in DOMAIN reqTable
                /\ get_first_header(reqTable, Pragma) = "no-cache"
                /\ CacheControl \notin DOMAIN reqTable
  <2>1. LinesOf(Pragma) # {} =>
          get_first_header(reqTable, Pragma) = lines[Min(LinesOf(Pragma))][2]
    <3> SUFFICES ASSUME LinesOf(Pragma) # {}
                 PROVE  get_first_header(reqTable, Pragma) = lines[Min(LinesOf(Pragma))][2]
      OBVIOUS
    <3>1. ht_get(reqTable, Pragma)[1] = lines[Min(LinesOf(Pragma))][2]
      BY <1>0, <1>2, <1>4, FirstValue
    <3>2. Head(ht_get(reqTable, Pragma)) = ht_get(reqTable, Pragma)[1]
      OBVIOUS
    <3>3. QED
      BY <3>1, <3>2 DEF get_first_header
  <2>2. QED
    BY <1>2, <1>4, <2>1
<1> HIDE DEF n, fixed
<1>6. ASSUME NEW k \in ReqKeys \cup {CacheControl}
      PROVE  IF k = CacheControl /\ fixed THEN ht_get(reqTable, k)' = <<"no-cache">>
             ELSE InLineOrder(ht_get(reqTable, k)', k, n)
  <2>1. k \in AllKeys
    BY DEF AllKeys
  <2>2. CASE fixed
    <3>1. reqTable' = PushValue(reqTable, CacheControl, "no-cache")
          /\ CacheControl \notin DOMAIN reqTable
      BY <1>0, <1>5, <2>2 DEF fix_pragma_cache_control
    <3>2. DOMAIN reqTable' = DOMAIN reqTable \cup {CacheControl}
      BY <3>1 DEF PushValue
    <3>3. CASE k = CacheControl
      <4>1. ht_get(reqTable, k)' = Append(<<>>, "no-cache")
        BY <3>1, <3>2, <3>3 DEF ht_get, PushValue
      <4>2. Append(<<>>, "no-cache") = <<"no-cache">>
        OBVIOUS
      <4>3. QED
        BY <2>2, <3>3, <4>1, <4>2
    <3>4. CASE k # CacheControl
      <4>1. ht_get(reqTable, k)' = ht_get(reqTable, k)
        BY <3>1, <3>2, <3>4 DEF ht_get, PushValue
      <4>2. QED
        BY <1>2, <2>1, <3>4, <4>1
    <3>5. QED
      BY <3>3, <3>4
  <2>3. CASE ~fixed
    <3>1. reqTable' = reqTable
      BY <1>0, <1>5, <2>3 DEF fix_pragma_cache_control
    <3>2. ht_get(reqTable, k)' = ht_get(reqTable, k)
      BY <3>1 DEF ht_get
    <3>3. QED
      BY <1>2, <2>1, <2>3, <3>2
  <2>4. QED
    BY <2>2, <2>3
<1>7. \A k : LinesOf(k)' = LinesOf(k)
  BY <1>0 DEF LinesOf, Seen
<1>8. RequestHeadersKept'
  <2>1. \A k \in ReqKeys \cup {CacheControl} :
          IF /\ k = CacheControl /\ LinesOf(k)' = {}
             /\ LinesOf(Pragma)' # {} /\ lines'[Min(LinesOf(Pragma)')][2] = "no-cache"
          THEN ht_get(reqTable, k)' = <<"no-cache">>
          ELSE InLineOrder(ht_get(reqTable, k), k, Len(lines))'
    <3> SUFFICES ASSUME NEW k \in ReqKeys \cup {CacheControl}
                 PROVE  IF /\ k = CacheControl /\ LinesOf(k) = {}
                           /\ LinesOf(Pragma) # {} /\ lines[Min(LinesOf(Pragma))][2] = "no-cache"
                        THEN ht_get(reqTable, k)' = <<"no-cache">>
                        ELSE InLineOrder(ht_get(reqTable, k), k, Len(lines))'
      BY <1>0, <1>7
    <3>1. InLineOrder(ht_get(reqTable, k)', k, n) => InLineOrder(ht_get(reqTable, k), k, Len(lines))'
      BY <1>0 DEF InLineOrder, Seen, n
    <3>2. k = CacheControl => (fixed <=> /\ LinesOf(k) = {} /\ LinesOf(Pragma) # {}
                                         /\ lines[Min(LinesOf(Pragma))][2] = "no-cache")
      BY DEF fixed
    <3>3. QED
      BY <1>6, <3>1, <3>2
  <2>2. pc' = "handle" /\ \A name \in Singletons : ~(Cardinality(LinesOf(Canonical(name)))' > 1)
    BY <1>0, <1>3, <1>7
  <2>3. QED
    BY <2>1, <2>2 DEF RequestHeadersKept
<1>9. QED
  BY <1>0, <1>1, <1>8 DEF HeadersInv

\* Nothing touches the table of the request afterwards.
LEMMA HandledHeaders ==
  ASSUME HeadersInv, UNCHANGED <<lines, pos, reqTable>>,
         \/ pc \in {"handle", "sent"} /\ pc' \in {"handle", "sent"}
         \/ UNCHANGED pc
  PROVE  HeadersInv'
<1>1. LinesInv'
  BY DEF HeadersInv, LinesInv
<1>2. \A k, p : Seen(k, p)' = Seen(k, p)
  BY DEF Seen
<1>3. \A k : LinesOf(k)' = LinesOf(k) /\ ht_get(reqTable, k)' = ht_get(reqTable, k)
  BY <1>2 DEF LinesOf, ht_get
<1>4. \A k : Seen(k, pos)' = Seen(k, pos)
             /\ (InLineOrder(ht_get(reqTable, k), k, pos)' <=> InLineOrder(ht_get(reqTable, k), k, pos))
             /\ (InLineOrder(ht_get(reqTable, k), k, Len(lines))' <=>
                   InLineOrder(ht_get(reqTable, k), k, Len(lines)))
  BY <1>2, <1>3 DEF InLineOrder, Seen
<1>5. \A k : KeptSoFar(k)' <=> KeptSoFar(k)
  BY <1>3, <1>4 DEF KeptSoFar, is_singleton_header
<1>6. RequestHeadersKept'
  BY <1>3, <1>4 DEF HeadersInv, RequestHeadersKept, LinesNamed
<1>7. QED
  BY <1>1, <1>5, <1>6 DEF HeadersInv

\* What req_read_and_parse and insert_header keep of a request, for any number
\* of header lines.
THEOREM RequestHeadersAreKept == Spec => []RequestHeadersKept
<1>1. Init => HeadersInv
  <2> SUFFICES ASSUME Init PROVE HeadersInv
    OBVIOUS
  <2>1. PICK n \in 0..MaxLines : lines \in [1..n -> ReqKeys \X Values]
    BY DEF Init, ReqLines
  <2>2. n \in Nat
    BY LinesAssumption
  <2>3. lines \in Seq(ReqKeys \X Values)
    BY <2>1, <2>2, FunctionIsSeq
  <2>4. LinesInv /\ pos = 0 /\ pc = "parse" /\ reqTable = Empty
    BY <2>3, LenProperties DEF Init, LinesInv
  <2>5. ASSUME NEW k PROVE KeptSoFar(k)
    <3>1. Seen(k, pos) = {}
      BY <2>4 DEF Seen
    <3>2. DOMAIN reqTable = {}
      BY <2>4 DEF Empty
    <3>3. ht_get(reqTable, k) = <<>>
      BY <3>2 DEF ht_get
    <3>4. Cardinality(Seen(k, pos)) = 0
      BY <3>1, FS_EmptySet
    <3>5. <<>> \in Seq(Values) /\ Len(<<>>) = 0
      OBVIOUS
    <3>6. InLineOrder(ht_get(reqTable, k), k, pos)
      BY <3>1, <3>3, <3>4, <3>5 DEF InLineOrder
    <3>7. QED
      BY <3>1, <3>2, <3>3, <3>4, <3>5, <3>6 DEF KeptSoFar
  <2>6. QED
    BY <2>4, <2>5 DEF HeadersInv, RequestHeadersKept
<1>2. HeadersInv /\ [Next]_vars => HeadersInv'
  <2> SUFFICES ASSUME HeadersInv, [Next]_vars PROVE HeadersInv'
    OBVIOUS
  <2>1. CASE InsertLine
    BY <2>1, InsertHeaders
  <2>2. CASE Parsed
    BY <2>2, ParsedHeaders
  <2>3. CASE \/ \E k \in ResKeys, v \in Values : ys_set_header(k, v)
             \/ \E valid \in BOOLEAN : ys_set_cookie(valid)
             \/ \E s \in Statuses : ys_set_status(s)
             \/ ys_set_body
    <3>1. Calling
      BY <2>3 DEF ys_set_header, ys_set_cookie, ys_set_status, ys_set_body
    <3>2. QED
      BY <3>1, HandledHeaders DEF Calling
  <2>4. CASE response_serialize
    BY <2>4, HandledHeaders DEF response_serialize
  <2>5. CASE UNCHANGED vars
    BY <2>5, HandledHeaders DEF vars
  <2>6. QED
    BY <2>1, <2>2, <2>3, <2>4, <2>5 DEF Next, Ended
<1>3. HeadersInv => RequestHeadersKept
  BY DEF HeadersInv
<1>4. QED
  BY <1>1, <1>2, <1>3, PTL DEF Spec

-----------------------------------------------------------------------------
(* Header names. *)

CanonicalKey(t) ==
  [n \in DOMAIN t |-> IF UpperAt(t, n) THEN Upper(t[n]) ELSE Lower(t[n])]

\* t with letters in another case.
Respells(u, t) ==
  /\ u \in [DOMAIN t -> {u[n] : n \in DOMAIN t}]
  /\ \A n \in DOMAIN t : u[n] \in {t[n], Upper(t[n]), Lower(t[n])}

\* What the case conversions do to one character.
LEMMA CasesOf ==
  ASSUME NEW c, NEW d \in {c, Upper(c), Lower(c)}
  PROVE  /\ Upper(d) = Upper(c) /\ Lower(d) = Lower(c) /\ (d = "-" <=> c = "-")
         /\ is_valid_header_field_char(d) <=> is_valid_header_field_char(c)
         /\ Upper(c) # "a" /\ Lower(c) # "A" /\ (Upper(c) = "A" <=> c \in {"a", "A"})
BY DEF Upper, Lower, is_valid_header_field_char

\* Other spellings of a name have the dashes in the same places, and the same
\* canonical key.
LEMMA RespelledSame ==
  ASSUME NEW t \in Seq(KeyChars), NEW u, Respells(u, t)
  PROVE  /\ DOMAIN u = DOMAIN t /\ CanonicalKey(u) = CanonicalKey(t)
         /\ \A n \in DOMAIN t : UpperAt(u, n) <=> UpperAt(t, n)
         /\ IsName(u) <=> IsName(t)
<1>1. DOMAIN t = 1..Len(t) /\ Len(t) \in Nat
  BY LenProperties
<1>2. \A n \in DOMAIN t : n # 1 => n - 1 \in DOMAIN t
  BY <1>1
<1>3. DOMAIN u = DOMAIN t /\ \A n \in DOMAIN t : u[n] \in {t[n], Upper(t[n]), Lower(t[n])}
  BY Zenon DEF Respells
<1>4. \A n \in DOMAIN t :
        /\ Upper(u[n]) = Upper(t[n]) /\ Lower(u[n]) = Lower(t[n]) /\ (u[n] = "-" <=> t[n] = "-")
        /\ is_valid_header_field_char(u[n]) <=> is_valid_header_field_char(t[n])
  <2> TAKE n \in DOMAIN t
  <2>1. PICK c, d : c = t[n] /\ d = u[n] /\ d \in {c, Upper(c), Lower(c)}
    BY <1>3, Zenon
  <2>2. QED
    BY <2>1, CasesOf
<1>5. \A n \in DOMAIN t : UpperAt(u, n) <=> UpperAt(t, n)
  BY <1>2, <1>4, Zenon DEF UpperAt
<1>6. IsName(u) <=> IsName(t)
  BY <1>3, <1>4, Zenon DEF IsName
<1>7. CanonicalKey(u) = CanonicalKey(t)
  <2>1. \A n \in DOMAIN t : (IF UpperAt(u, n) THEN Upper(u[n]) ELSE Lower(u[n]))
                              = (IF UpperAt(t, n) THEN Upper(t[n]) ELSE Lower(t[n]))
    BY <1>4, <1>5, Zenon
  <2>2. QED
    BY <1>3, <2>1, Zenon DEF CanonicalKey
<1>8. QED
  BY <1>3, <1>5, <1>6, <1>7, Zenon

\* The conversions of case are respellings.
LEMMA ConversionsRespell ==
  ASSUME NEW t
  PROVE  Respells(LowerCase(t), t) /\ Respells(UpperCase(t), t) /\ Respells(CanonicalKey(t), t)
BY DEF Respells, LowerCase, UpperCase, CanonicalKey

\* Whether or not it is among the common names, a name comes back canonical.
LEMMA NameIsCanonical ==
  ASSUME NEW t, DOMAIN t \in SUBSET Nat, IsName(t), \A n \in DOMAIN t : 1..n \subseteq DOMAIN t,
         t = [n \in DOMAIN t |-> t[n]]
  PROVE  to_canonical_mime_header_key(t) = CanonicalKey(t)
<1>1. CASE \E n \in DOMAIN t : WrongCase(t, n)
  <2>1. t \notin CommonHeaders
    BY <1>1, CommonHeadersAssumption, Zenon
  <2>2. canonical_mime_header_key(t) = CanonicalKey(t)
    BY <2>1, Zenon DEF canonical_mime_header_key, CanonicalKey, IsName
  <2>3. \E n \in DOMAIN t : WrongCase(t, n) /\ \A i \in 1..n : is_valid_header_field_char(t[i])
    BY <1>1, Zenon DEF IsName
  <2>4. QED
    BY <2>2, <2>3, Zenon DEF to_canonical_mime_header_key
<1>2. CASE \A n \in DOMAIN t : ~WrongCase(t, n)
  <2>1. to_canonical_mime_header_key(t) = t
    BY <1>2, Zenon DEF to_canonical_mime_header_key
  <2>2. \A n \in DOMAIN t : (IF UpperAt(t, n) THEN Upper(t[n]) ELSE Lower(t[n])) = t[n]
    BY <1>2, Zenon DEF WrongCase, Upper, Lower
  <2>3. CanonicalKey(t) = [n \in DOMAIN t |-> t[n]]
    BY <2>2, Zenon DEF CanonicalKey
  <2>4. QED
    BY <2>1, <2>3, Zenon
<1>3. QED
  BY <1>1, <1>2, Zenon

\* All spellings of a header name become one key, which is canonical and stays as
\* it is, whatever the characters, the length and the table of common names; any
\* other text is left alone.
THEOREM HeaderNamesHaveOneKey == KeySpec => []OneSpelling
<1>1. KeyInit => keyText \in Seq(KeyChars)
  BY DEF KeyInit
<1>2. keyText \in Seq(KeyChars) /\ [KeyNext]_keyText => (keyText \in Seq(KeyChars))'
  BY DEF KeyNext
<1>3. keyText \in Seq(KeyChars) => OneSpelling
  <2> SUFFICES ASSUME keyText \in Seq(KeyChars) PROVE OneSpelling
    OBVIOUS
  <2> DEFINE t   == keyText
             key == to_canonical_mime_header_key(t)
             C   == CanonicalKey(t)
  <2>1. CASE ~IsName(t)
    <3>1. canonical_mime_header_key(t) = t
      BY <2>1, Zenon DEF IsName, canonical_mime_header_key
    <3>2. QED
      BY <2>1, <3>1, Zenon DEF OneSpelling, to_canonical_mime_header_key
  <2>2. CASE IsName(t)
    <3>1. /\ DOMAIN t \in SUBSET Nat /\ \A n \in DOMAIN t : 1..n \subseteq DOMAIN t
          /\ t = [n \in DOMAIN t |-> t[n]]
      <4>1. DOMAIN t = 1..Len(t) /\ Len(t) \in Nat
        BY LenProperties
      <4>2. DOMAIN t \in SUBSET Nat /\ \A n \in DOMAIN t : 1..n \subseteq DOMAIN t
        BY <4>1
      <4>3. t \in [1..Len(t) -> KeyChars]
        BY LenProperties
      <4>4. t = [n \in DOMAIN t |-> t[n]]
        BY <4>3, Zenon
      <4>5. QED
        BY <4>2, <4>4, Zenon
    <3> HIDE DEF t
    <3>2. key = C
      BY <2>2, <3>1, NameIsCanonical, Zenon
    <3>3. \A u : Respells(u, t) /\ u = [n \in DOMAIN u |-> u[n]]
                   => to_canonical_mime_header_key(u) = C
      <4> SUFFICES ASSUME NEW u, Respells(u, t), u = [n \in DOMAIN u |-> u[n]]
                   PROVE  to_canonical_mime_header_key(u) = C
        OBVIOUS
      <4>1. DOMAIN u = DOMAIN t /\ CanonicalKey(u) = C /\ IsName(u)
        BY <2>2, RespelledSame, Zenon DEF t
      <4>2. QED
        BY <3>1, <4>1, NameIsCanonical, Zenon
    <3>4. key = to_canonical_mime_header_key(LowerCase(t))
      <4>1. LowerCase(t) = [n \in DOMAIN LowerCase(t) |-> LowerCase(t)[n]]
        BY Zenon DEF LowerCase
      <4>2. QED
        BY <3>2, <3>3, <4>1, ConversionsRespell, Zenon
    <3>5. key = to_canonical_mime_header_key(UpperCase(t))
      <4>1. UpperCase(t) = [n \in DOMAIN UpperCase(t) |-> UpperCase(t)[n]]
        BY Zenon DEF UpperCase
      <4>2. QED
        BY <3>2, <3>3, <4>1, ConversionsRespell, Zenon
    <3>6. key = to_canonical_mime_header_key(key)
      <4>1. C = [n \in DOMAIN C |-> C[n]]
        BY Zenon DEF CanonicalKey
      <4>2. QED
        BY <3>2, <3>3, <4>1, ConversionsRespell, Zenon
    <3>7. DOMAIN C = DOMAIN t /\ \A n \in DOMAIN t :
            C[n] = IF UpperAt(t, n) THEN Upper(t[n]) ELSE Lower(t[n])
      BY Zenon DEF CanonicalKey
    <3>8. LowerCase(key) = LowerCase(t)
      <4>1. \A n \in DOMAIN t : Lower(C[n]) = Lower(t[n])
        BY <3>7, CasesOf, Zenon
      <4>2. LowerCase(C) = LowerCase(t)
        BY <3>7, <4>1, Zenon DEF LowerCase
      <4>3. QED
        BY <3>2, <4>2, Zenon
    <3>9. \A n \in DOMAIN C : C[n] = "A" <=> UpperAt(C, n) /\ t[n] \in {"a", "A"}
      <4>1. \A n \in DOMAIN t : UpperAt(C, n) <=> UpperAt(t, n)
        BY ConversionsRespell, RespelledSame, Zenon DEF t
      <4>2. \A c : Lower(c) # "A" /\ (Upper(c) = "A" <=> c \in {"a", "A"})
        BY CasesOf, Zenon
      <4> HIDE DEF C
      <4>3. QED
        BY <3>7, <4>1, <4>2, Zenon
    <3>10. QED
      BY <2>2, <3>2, <3>4, <3>5, <3>6, <3>8, <3>9, Zenon DEF OneSpelling, t
  <2>3. QED
    BY <2>1, <2>2
<1>4. QED
  BY <1>1, <1>2, <1>3, PTL DEF KeySpec

-----------------------------------------------------------------------------
(* Queries. *)

\* Where a character stands for the first time.
LEMMA IndexIs ==
  ASSUME NEW S, NEW s \in Seq(S), NEW c
  PROVE  /\ ~Contains(s, c) => s_indexof(s, c) = 0
         /\ Contains(s, c) => /\ s_indexof(s, c) \in 1..Len(s) /\ s[s_indexof(s, c)] = c
                              /\ \A j \in 1 .. s_indexof(s, c) - 1 : s[j] # c
<1> DEFINE I == {i \in 1..Len(s) : s[i] = c}
<1>1. s_indexof(s, c) = IF I # {} THEN Min(I) ELSE 0
  BY DEF s_indexof, SelectInSeq
<1>2. Contains(s, c) <=> I # {}
  BY Zenon DEF Contains
<1>3. ASSUME Contains(s, c)
      PROVE  /\ Min(I) \in 1..Len(s) /\ s[Min(I)] = c
             /\ \A j \in 1 .. Min(I) - 1 : s[j] # c
  <2>1. Len(s) \in Nat
    BY LenProperties
  <2>2. I \subseteq Nat
    BY <2>1
  <2>3. Min(I) \in I /\ \A x \in I : Min(I) <= x
    BY <1>2, <1>3, <2>2, MinOfNats, Zenon
  <2>4. Min(I) \in 1..Len(s) /\ s[Min(I)] = c
    BY <2>3, Zenon
  <2>5. PICK m \in 1..Len(s) : m = Min(I)
    BY <2>4, Zenon
  <2> HIDE DEF I
  <2>6. \A j \in 1 .. m - 1 : j \in 1..Len(s) /\ ~ (m <= j)
    BY <2>1
  <2>7. \A j \in 1 .. m - 1 : s[j] # c
    BY <2>3, <2>5, <2>6, Zenon DEF I
  <2>8. QED
    BY <2>4, <2>5, <2>7, Zenon
<1>4. QED
  BY <1>1, <1>2, <1>3, Zenon

\* str_cut around the first c.
LEMMA CutIs ==
  ASSUME NEW S, NEW s \in Seq(S), NEW c
  PROVE  /\ ~Contains(s, c) => str_cut(s, c) = <<s, NULL>>
         /\ \A i \in 1..Len(s) :
              s[i] = c /\ (\A j \in 1 .. i - 1 : s[j] # c) =>
                /\ Contains(s, c) /\ s_indexof(s, c) = i
                /\ str_cut(s, c) = <<OrNull(SubSeq(s, 1, i - 1)), OrNull(SubSeq(s, i + 1, Len(s)))>>
<1>1. ~Contains(s, c) => str_cut(s, c) = <<s, NULL>>
  BY IndexIs, Zenon DEF str_cut
<1>2. ASSUME NEW i \in 1..Len(s), s[i] = c, \A j \in 1 .. i - 1 : s[j] # c
      PROVE  /\ Contains(s, c) /\ s_indexof(s, c) = i
             /\ str_cut(s, c) = <<OrNull(SubSeq(s, 1, i - 1)), OrNull(SubSeq(s, i + 1, Len(s)))>>
  <2>1. Contains(s, c)
    BY <1>2, Zenon DEF Contains
  <2>2. PICK m : /\ m = s_indexof(s, c) /\ m \in 1..Len(s) /\ s[m] = c
                 /\ \A j \in 1 .. m - 1 : s[j] # c
    BY <2>1, IndexIs, Zenon
  <2>3. ~ (m \in 1 .. i - 1) /\ ~ (i \in 1 .. m - 1)
    BY <1>2, <2>2, Zenon
  <2>4. Len(s) \in Nat
    BY LenProperties
  <2>5. m = i
    BY <2>2, <2>3, <2>4
  <2>6. s_indexof(s, c) = i /\ i # 0
    BY <2>2, <2>4, <2>5
  <2>7. QED
    BY <2>1, <2>6, Zenon DEF str_cut
<1>3. QED
  BY <1>1, <1>2, Zenon

\* A part of a text, character by character.
LEMMA SubSeqIs ==
  ASSUME NEW S, NEW s \in Seq(S), NEW t \in Seq(S), NEW m \in Nat, NEW n \in Nat,
         m >= 1, n <= Len(s), m <= n + 1, Len(t) = n - m + 1,
         \A j \in 1 .. n - m + 1 : t[j] = s[m + j - 1]
  PROVE  SubSeq(s, m, n) = t
<1>1. Len(s) \in Nat
  BY LenProperties
<1>2. \A j \in m..n : j \in 1..Len(s)
  BY <1>1
<1>3. \A j \in m..n : s[j] \in S
  BY <1>2, ElementOfSeq, Zenon
<1>4. /\ SubSeq(s, m, n) \in Seq(S)
      /\ Len(SubSeq(s, m, n)) = IF m <= n THEN n - m + 1 ELSE 0
      /\ \A j \in 1 .. n - m + 1 : SubSeq(s, m, n)[j] = s[m + j - 1]
  <2>1. m \in Int /\ n \in Int
    OBVIOUS
  <2>2. QED
    BY <1>3, <2>1, SubSeqProperties, SMT
<1>5. (IF m <= n THEN n - m + 1 ELSE 0) = n - m + 1
  OBVIOUS
<1>6. Len(SubSeq(s, m, n)) = Len(t)
  BY <1>4, <1>5, Zenon
<1>7. \A j \in 1 .. Len(SubSeq(s, m, n)) : SubSeq(s, m, n)[j] = t[j]
  BY <1>4, <1>6, Zenon
<1>8. QED
  BY <1>4, <1>6, <1>7, SeqEqual, Zenon

\* The first setting of a query and the rest of it.
LEMMA CutJoined ==
  ASSUME NEW S, NEW w \in Seq(S), NEW r \in Seq(S), NEW c \in S, ~Contains(w, c)
  PROVE  /\ str_cut(w \o <<c>> \o r, c) = <<OrNull(w), OrNull(r)>>
         /\ w \o <<c>> \o r \in Seq(S) /\ w \o <<c>> \o r # <<>>
<1> DEFINE v == w \o <<c>>
           s == v \o r
<1>1. PICK a \in Nat, b \in Nat : a = Len(w) /\ b = Len(r)
  BY LenProperties
<1>2. /\ <<c>> \in Seq(S) /\ Len(<<c>>) = 1 /\ <<c>>[1] = c
      /\ \A j \in 1..a : w[j] # c
  BY <1>1 DEF Contains
<1>3. v \in Seq(S) /\ Len(v) = a + 1
      /\ \A j \in 1 .. a + 1 : v[j] = IF j <= a THEN w[j] ELSE <<c>>[j - a]
  BY <1>1, <1>2, ConcatProperties, ZenonT(60)
<1>4. v[a + 1] = c /\ \A j \in 1..a : v[j] = w[j]
  BY <1>2, <1>3
<1> HIDE DEF v
<1>5. s \in Seq(S) /\ Len(s) = (a + 1) + b
      /\ \A j \in 1 .. (a + 1) + b : s[j] = IF j <= a + 1 THEN v[j] ELSE r[j - (a + 1)]
  <2>1. s \in Seq(S) /\ Len(s) = Len(v) + Len(r)
        /\ \A j \in 1 .. Len(v) + Len(r) : s[j] = IF j <= Len(v) THEN v[j] ELSE r[j - Len(v)]
    BY <1>3, ConcatProperties, Zenon
  <2> HIDE DEF s
  <2>2. QED
    BY <1>1, <1>3, <2>1
<1> HIDE DEF s
<1>6. PICK i \in Nat, L \in Nat : i = a + 1 /\ L = i + b /\ L = Len(s)
  BY <1>5
<1>7. /\ i \in 1..Len(s) /\ s[i] = c /\ \A j \in 1 .. i - 1 : s[j] = w[j]
      /\ \A j \in 1..b : s[i + j] = r[j]
  <2>1. i \in 1..L /\ \A j \in 1..L : s[j] = IF j <= i THEN v[j] ELSE r[j - i]
    BY <1>5, <1>6
  <2>2. s[i] = c /\ \A j \in 1 .. i - 1 : s[j] = w[j]
    BY <1>4, <1>6, <2>1
  <2>3. \A j \in 1..b : i + j \in 1..L /\ ~ (i + j <= i) /\ i + j - i = j
    BY <1>6
  <2>4. ASSUME NEW j \in 1..b PROVE s[i + j] = r[j]
    <3>1. PICK k \in 1..L : k = i + j /\ ~ (k <= i) /\ k - i = j
      BY <2>3
    <3>2. s[k] = r[k - i]
      BY <2>1, <3>1, Zenon
    <3>3. QED
      BY <3>1, <3>2, Zenon
  <2>5. QED
    BY <1>6, <2>1, <2>2, <2>4, Zenon
<1>8. \A j \in 1 .. i - 1 : s[j] # c
  <2>1. \A j \in 1 .. i - 1 : j \in 1..a
    BY <1>6
  <2>2. QED
    BY <1>2, <1>7, <2>1, Zenon
<1>9. str_cut(s, c) = <<OrNull(SubSeq(s, 1, i - 1)), OrNull(SubSeq(s, i + 1, Len(s)))>>
  BY <1>5, <1>7, <1>8, CutIs, Zenon
<1>10. SubSeq(s, 1, i - 1) = w
  <2>1. PICK n \in Nat : n = i - 1 /\ n <= Len(s) /\ 1 <= n + 1 /\ Len(w) = n - 1 + 1
    BY <1>1, <1>6
  <2>2. \A j \in 1 .. n - 1 + 1 : w[j] = s[1 + j - 1]
    <3>1. \A j \in 1 .. n - 1 + 1 : j \in 1 .. i - 1 /\ 1 + j - 1 = j
      BY <2>1
    <3>2. QED
      BY <1>7, <3>1
  <2>3. 1 \in Nat /\ 1 >= 1
    OBVIOUS
  <2>4. SubSeq(s, 1, n) = w
    BY <1>5, <2>1, <2>2, <2>3, SubSeqIs, Zenon
  <2>5. QED
    BY <2>1, <2>4, Zenon
<1>11. SubSeq(s, i + 1, Len(s)) = r
  <2>1. PICK m \in Nat : m = i + 1 /\ m >= 1 /\ L <= Len(s) /\ m <= L + 1 /\ Len(r) = L - m + 1
    BY <1>1, <1>6
  <2>2. \A j \in 1 .. L - m + 1 : r[j] = s[m + j - 1]
    <3>1. \A j \in 1 .. L - m + 1 : j \in 1..b /\ m + j - 1 = i + j
      BY <1>6, <2>1
    <3>2. QED
      BY <1>7, <3>1
  <2>3. SubSeq(s, m, L) = r
    BY <1>5, <2>1, <2>2, SubSeqIs, Zenon
  <2>4. QED
    BY <1>6, <2>1, <2>3, Zenon
<1>12. s # <<>>
  <2>1. Len(<<>>) = 0 /\ Len(s) # 0
    BY <1>6
  <2>2. QED
    BY <2>1, Zenon
<1>13. QED
  BY <1>5, <1>9, <1>10, <1>11, <1>12, Zenon DEF s, v

-----------------------------------------------------------------------------
(* Places in a set of numbers. *)

Rank(K, x) == Cardinality({y \in K : y < x})

\* Going over a number adds one to the rank where the number is in the set.
LEMMA RankIs ==
  ASSUME NEW K, IsFiniteSet(K), K \subseteq Int, NEW x \in Int
  PROVE  /\ Rank(K, x) \in Nat /\ Rank(K, x) <= Cardinality(K)
         /\ x \notin K => Rank(K, x + 1) = Rank(K, x)
         /\ x \in K => Rank(K, x + 1) = Rank(K, x) + 1 /\ Rank(K, x) < Cardinality(K)
         /\ (\A y \in K : y < x) => Rank(K, x) = Cardinality(K)
         /\ (\A y \in K : ~ (y < x)) => Rank(K, x) = 0
<1> DEFINE B(z) == {y \in K : y < z}
<1>1. \A z : B(z) \in SUBSET K
  OBVIOUS
<1>2. Cardinality(K) \in Nat /\ \A z : IsFiniteSet(B(z)) /\ Cardinality(B(z)) \in Nat
                                       /\ Cardinality(B(z)) <= Cardinality(K)
  <2> HIDE DEF B
  <2>1. QED
    BY <1>1, FS_Subset, FS_CardinalityType, Zenon
<1>3. \A z : Rank(K, z) = Cardinality(B(z))
  BY Zenon DEF Rank
<1>4. \A y \in K : y < x + 1 <=> y < x \/ y = x
  OBVIOUS
<1>5. ASSUME x \notin K PROVE Rank(K, x + 1) = Rank(K, x)
  <2>1. \A y : y \in B(x + 1) <=> y \in B(x)
    BY <1>4, <1>5, Zenon
  <2> HIDE DEF B
  <2>2. B(x + 1) = B(x)
    BY <2>1, Zenon
  <2>3. QED
    BY <1>3, <2>2, Zenon
<1>6. ASSUME x \in K PROVE Rank(K, x + 1) = Rank(K, x) + 1 /\ Rank(K, x) < Cardinality(K)
  <2>1. \A y : y \in B(x + 1) <=> y \in B(x) \cup {x}
    BY <1>4, <1>6, Zenon
  <2>2. x \notin B(x)
    OBVIOUS
  <2> HIDE DEF B
  <2>3. B(x + 1) = B(x) \cup {x}
    BY <2>1, Zenon
  <2>4. Cardinality(B(x + 1)) = Cardinality(B(x)) + 1
    BY <1>2, <2>2, <2>3, FS_AddElement, Zenon
  <2>5. Cardinality(B(x)) \in Nat /\ Cardinality(B(x + 1)) <= Cardinality(K)
    BY <1>2, Zenon
  <2>6. Cardinality(B(x)) < Cardinality(K)
    BY <1>2, <2>4, <2>5
  <2>7. QED
    BY <1>3, <2>4, <2>6, Zenon
<1>7. ASSUME \A y \in K : y < x PROVE Rank(K, x) = Cardinality(K)
  <2>1. \A y : y \in B(x) <=> y \in K
    BY <1>7, Zenon
  <2> HIDE DEF B
  <2>2. B(x) = K
    BY <2>1, Zenon
  <2>3. QED
    BY <1>3, <2>2, Zenon
<1>8. ASSUME \A y \in K : ~ (y < x) PROVE Rank(K, x) = 0
  <2>1. B(x) = {}
    BY <1>8, Zenon
  <2> HIDE DEF B
  <2>2. QED
    BY <1>3, <2>1, FS_EmptySet, Zenon
<1> HIDE DEF B
<1>9. QED
  BY <1>2, <1>3, <1>5, <1>6, <1>7, <1>8, Zenon

\* Two elements have different ranks.
LEMMA RankGrows ==
  ASSUME NEW K, IsFiniteSet(K), K \subseteq Int, NEW x \in K, NEW y \in K, x < y
  PROVE  Rank(K, x) < Rank(K, y)
<1> DEFINE B == {z \in K : z < x}
           C == {z \in K : z < y}
<1>0. x \in Int /\ y \in Int
  OBVIOUS
<1>1. B \in SUBSET C /\ x \in C /\ x \notin B /\ C \in SUBSET K
  <2>1. ~ (x < x) /\ \A z \in K : z < x => z < y
    BY <1>0
  <2>2. QED
    BY <2>1, Zenon
<1> HIDE DEF B, C
<1>2. IsFiniteSet(C)
  BY <1>1, FS_Subset, Zenon
<1>3. Cardinality(B) <= Cardinality(C) /\ Cardinality(B) # Cardinality(C)
  BY <1>1, <1>2, FS_Subset, Zenon
<1>4. Cardinality(C) \in Nat /\ Cardinality(B) \in Nat
  BY <1>1, <1>2, FS_Subset, FS_CardinalityType, Zenon
<1>5. Cardinality(B) < Cardinality(C)
  BY <1>3, <1>4
<1>6. QED
  BY <1>5, Zenon DEF Rank, B, C

\* InOrder puts each element where its rank says.
LEMMA InOrderIs ==
  ASSUME NEW K, IsFiniteSet(K), K \subseteq Int, NEW x \in K, NEW n, n = Rank(K, x) + 1
  PROVE  n \in 1..Cardinality(K) /\ InOrder(K)[n] = x
<1>1. x \in Int /\ Rank(K, x) \in Nat /\ Rank(K, x) < Cardinality(K) /\ Cardinality(K) \in Nat
  BY RankIs, FS_CardinalityType, Zenon
<1>2. n \in 1..Cardinality(K) /\ n - 1 = Rank(K, x)
  BY <1>1
<1>3. \A y \in K : Rank(K, y) = n - 1 => y = x
  <2> SUFFICES ASSUME NEW y \in K, Rank(K, y) = n - 1 PROVE y = x
    OBVIOUS
  <2>1. ~ (x < y) /\ ~ (y < x)
    <3>1. x < y => Rank(K, x) < Rank(K, y)
      BY RankGrows, Zenon
    <3>2. y < x => Rank(K, y) < Rank(K, x)
      BY RankGrows, Zenon
    <3>3. Rank(K, y) = Rank(K, x)
      BY <1>2, Zenon
    <3>4. QED
      BY <1>1, <3>1, <3>2, <3>3
  <2>2. QED
    BY <1>1, <2>1
<1>4. (CHOOSE y \in K : Rank(K, y) = n - 1) = x
  BY <1>2, <1>3, Zenon
<1>5. InOrder(K)[n] = CHOOSE y \in K : Rank(K, y) = n - 1
  BY <1>2, Zenon DEF InOrder, Rank
<1>6. QED
  BY <1>2, <1>4, <1>5, Zenon

-----------------------------------------------------------------------------
(* Keys and values of a setting. *)

\* A table of numbered entries is a sequence.
LEMMA TableIsSeq ==
  ASSUME NEW f, NEW n \in Nat, f \in [1..n -> {f[i] : i \in 1..n}]
  PROVE  Len(f) = n /\ (1 \in 1..n => Head(f) = f[1])
<1> DEFINE T == {f[i] : i \in 1..n}
<1> HIDE DEF T
<1>1. f \in Seq(T) /\ f \in [1..n -> T]
  BY FunctionIsSeq DEF T
<1>2. Len(f) \in Nat /\ DOMAIN f = 1..Len(f) /\ DOMAIN f = 1..n
  BY <1>1, LenProperties
<1>3. Len(f) = n
  BY <1>2
<1>4. 1 \in 1..n => Head(f) = f[1]
  BY <1>1, <1>3
<1>5. QED
  BY <1>3, <1>4, Zenon

\* The first field of a text ends at the first c.
LEMMA FirstField ==
  ASSUME NEW S, NEW s \in Seq(S), NEW c, Contains(s, c)
  PROVE  Head(Fields(s, c)) = SubSeq(s, 1, s_indexof(s, c) - 1)
<1> DEFINE i == s_indexof(s, c)
           P == {j \in DOMAIN s : s[j] = c}
           K == {0, Len(s) + 1} \cup P
           at == InOrder(K)
           F == Fields(s, c)
<1>1. PICK L \in Nat : L = Len(s) /\ DOMAIN s = 1..L
  BY LenProperties
<1>2. i \in 1..L /\ s[i] = c /\ \A j \in 1 .. i - 1 : s[j] # c
  BY <1>1, IndexIs, Zenon
<1>3. K \subseteq 0 .. L + 1 /\ K \subseteq Int /\ 0 \in K /\ i \in K /\ L + 1 \in K
  BY <1>1, <1>2
<1>4. IsFiniteSet(K)
  <2>1. IsFiniteSet(0 .. L + 1)
    BY FS_Interval, <1>1
  <2>2. K \in SUBSET (0 .. L + 1)
    BY <1>3
  <2> HIDE DEF K
  <2>3. QED
    BY <2>1, <2>2, FS_Subset, Zenon
<1>5. \A y \in K : ~ (y < 0) /\ (y < i <=> y = 0)
  <2>1. \A y \in P : y \in 1..L /\ s[y] = c
    BY <1>1, Zenon
  <2>2. \A y \in P : ~ (y \in 1 .. i - 1)
    BY <1>2, <2>1, Zenon
  <2>3. \A y \in P : ~ (y < 0) /\ ~ (y < i) /\ y # 0
    BY <1>2, <2>1, <2>2
  <2>4. /\ ~ (0 < 0) /\ 0 < i /\ ~ (L + 1 < 0) /\ ~ (L + 1 < i) /\ L + 1 # 0
    BY <1>2
  <2>5. QED
    BY <1>1, <2>3, <2>4, Zenon
<1> HIDE DEF K, i, P
<1>6. Rank(K, 0) = 0
  BY <1>3, <1>4, <1>5, RankIs, Zenon
<1>7. Rank(K, i) = 1
  <2>1. {y \in K : y < i} = {0}
    BY <1>3, <1>5, Zenon
  <2>2. Cardinality({0}) = 1
    BY FS_Singleton
  <2>3. QED
    BY <2>1, <2>2, Zenon DEF Rank
<1>8. at[1] = 0 /\ at[2] = i /\ 2 \in 1..Cardinality(K)
  <2>1. 1 = Rank(K, 0) + 1 /\ 2 = Rank(K, i) + 1
    BY <1>6, <1>7
  <2>2. \A x, n : x \in K /\ n = Rank(K, x) + 1 => n \in 1..Cardinality(K) /\ at[n] = x
    BY <1>3, <1>4, InOrderIs, Zenon
  <2> HIDE DEF at
  <2>3. QED
    BY <1>3, <2>1, <2>2, Zenon
<1>9. Cardinality(K) \in Nat
  BY <1>4, FS_CardinalityType, Zenon
<1>10. Len(at) = Cardinality(K)
  BY <1>9, TableIsSeq DEF InOrder
<1>11. F = [n \in 1 .. Len(at) - 1 |-> SubSeq(s, at[n] + 1, at[n + 1] - 1)]
  BY Zenon DEF Fields, K, P
<1>12. PICK k \in Nat : k = Len(at) - 1 /\ 1 \in 1..k
  BY <1>8, <1>9, <1>10
<1> HIDE DEF at, F
<1>13. F[1] = SubSeq(s, at[1] + 1, at[2] - 1)
  <2>1. F[1] = SubSeq(s, at[1] + 1, at[1 + 1] - 1)
    BY <1>11, <1>12, Zenon
  <2>2. QED
    BY <2>1
<1>14. Head(F) = F[1]
  BY <1>11, <1>12, TableIsSeq
<1>15. QED
  BY <1>8, <1>13, <1>14 DEF F, i

\* str_cut finds the key and the value of a setting.
LEMMA SettingIs ==
  ASSUME NEW S, NEW s \in Seq(S), NEW i, i = s_indexof(s, "="), Contains(s, "=")
  PROVE  /\ i \in 1..Len(s) /\ s[i] = "="
         /\ KeyOf(s) = SubSeq(s, 1, i - 1) /\ KeyOf(s) \in Seq(S)
         /\ ValueOf(s) = SubSeq(s, i + 1, Len(s)) /\ ValueOf(s) \in Seq(S)
         /\ \A c : c # "=" => (Contains(s, c) <=> Contains(KeyOf(s), c) \/ Contains(ValueOf(s), c))
         /\ str_cut(s, "=") = <<OrNull(KeyOf(s)), OrNull(ValueOf(s))>>
<1>1. PICK L \in Nat : L = Len(s)
  BY LenProperties
<1>2. i \in 1..L /\ s[i] = "=" /\ \A j \in 1 .. i - 1 : s[j] # "="
  BY <1>1, IndexIs, Zenon
<1> DEFINE k == SubSeq(s, 1, i - 1)
           v == SubSeq(s, i + 1, Len(s))
<1>3. /\ \A j \in 1 .. i - 1 : s[j] \in S
      /\ \A j \in i + 1 .. L : s[j] \in S
  <2>1. /\ \A j \in 1 .. i - 1 : j \in 1..L
        /\ \A j \in i + 1 .. L : j \in 1..L
    BY <1>2
  <2>2. QED
    BY <1>1, <2>1, ElementOfSeq, Zenon
<1>4. k \in Seq(S) /\ Len(k) = i - 1 /\ \A j \in 1 .. i - 1 : k[j] = s[j]
  <2>1. /\ k \in Seq(S) /\ Len(k) = IF 1 <= i - 1 THEN i - 1 - 1 + 1 ELSE 0
        /\ \A j \in 1 .. i - 1 - 1 + 1 : k[j] = s[1 + j - 1]
    BY <1>2, <1>3, SubSeqProperties, SMT
  <2>2. QED
    BY <1>2, <2>1
<1>5. v \in Seq(S) /\ Len(v) = L - i /\ \A j \in 1 .. L - i : v[j] = s[i + j]
  <2>1. /\ v \in Seq(S) /\ Len(v) = IF i + 1 <= L THEN L - (i + 1) + 1 ELSE 0
        /\ \A j \in 1 .. L - (i + 1) + 1 : v[j] = s[(i + 1) + j - 1]
    BY <1>1, <1>2, <1>3, SubSeqProperties, SMT
  <2>2. QED
    BY <1>2, <2>1, SMTT(60)
<1>6. KeyOf(s) = k
  BY FirstField, Zenon DEF KeyOf
<1> HIDE DEF k
<1>7. ValueOf(s) = v
  <2>1. ValueOf(s) = SubSeq(s, (i - 1) + 2, Len(s))
    BY <1>4, <1>6, Zenon DEF ValueOf
  <2>2. (i - 1) + 2 = i + 1
    BY <1>2
  <2>3. QED
    BY <2>1, <2>2, Zenon
<1>8. str_cut(s, "=") = <<OrNull(k), OrNull(v)>>
  <2>1. i # 0
    BY <1>2
  <2>2. QED
    BY <2>1, Zenon DEF str_cut, k
<1> HIDE DEF v
<1>9. ASSUME NEW c, c # "="
      PROVE  Contains(s, c) <=> Contains(k, c) \/ Contains(v, c)
  <2>1. ASSUME Contains(s, c) PROVE Contains(k, c) \/ Contains(v, c)
    <3>1. PICK j \in 1..L : s[j] = c
      BY <1>1, <2>1, Zenon DEF Contains
    <3>2. j # i
      BY <1>2, <1>9, <3>1
    <3>3. CASE j < i
      <4>1. j \in 1 .. i - 1
        BY <1>2, <3>3
      <4>2. QED
        BY <1>4, <3>1, <4>1, Zenon DEF Contains
    <3>4. CASE j > i
      <4>1. j - i \in 1 .. L - i /\ i + (j - i) = j
        BY <1>2, <3>4
      <4>2. v[j - i] = s[i + (j - i)]
        BY <1>5, <4>1, Zenon
      <4>3. QED
        BY <1>5, <3>1, <4>1, <4>2, Zenon DEF Contains
    <3>5. QED
      BY <1>2, <3>2, <3>3, <3>4
  <2>2. ASSUME Contains(k, c) PROVE Contains(s, c)
    <3>1. PICK j \in 1 .. i - 1 : k[j] = c
      BY <1>4, <2>2, Zenon DEF Contains
    <3>2. j \in 1..L
      BY <1>2
    <3>3. QED
      BY <1>1, <1>4, <3>1, <3>2, Zenon DEF Contains
  <2>3. ASSUME Contains(v, c) PROVE Contains(s, c)
    <3>1. PICK j \in 1 .. L - i : v[j] = c
      BY <1>5, <2>3, Zenon DEF Contains
    <3>2. i + j \in 1..L
      BY <1>2
    <3>3. QED
      BY <1>1, <1>5, <3>1, <3>2, Zenon DEF Contains
  <2>4. QED
    BY <2>1, <2>2, <2>3, Zenon
<1>10. QED
  BY <1>1, <1>2, <1>4, <1>5, <1>6, <1>7, <1>8, <1>9, Zenon DEF k, v

-----------------------------------------------------------------------------
(* unescape *)

\* The recursive function of unescape exists.
LEMMA UnescapeUnfolds ==
  ASSUME NEW s, Len(s) \in Nat, ~Contains(s, "%")
  PROVE  \E b : /\ unescape(s) = b[Len(s)] /\ b[0] = <<>>
                /\ \A i \in 1..Len(s) : b[i] = b[i - 1] \o Unescaped(s[i])
<1> DEFINE L == Len(s)
           Turn(i, f) == IF i = 0 THEN <<>> ELSE f[i - 1] \o Unescaped(s[i])
           Turns(f) == [i \in 0..L |-> Turn(i, f)]
           buffer == CHOOSE f : f = Turns(f)
           S == {n \in 0..L : \E g : \A i \in 0..n : g[i] = Turn(i, g)}
<1>1. unescape(s) = buffer[L]
  BY DEF unescape
<1>2. 0 \in S
  <2> DEFINE g == [i \in 0..L |-> <<>>]
  <2>1. 0 \in 0..L /\ \A i \in 0..0 : i = 0
    OBVIOUS
  <2>2. g[0] = Turn(0, g)
    BY <2>1, Zenon
  <2> HIDE DEF g
  <2>3. QED
    BY <2>1, <2>2, Zenon
<1>3. ASSUME NEW n \in 0 .. L - 1, n \in S PROVE n + 1 \in S
  <2>1. PICK g : \A i \in 0..n : g[i] = Turn(i, g)
    BY <1>3, Zenon
  <2> DEFINE h == [i \in 0..L |-> IF i = n + 1 THEN Turn(n + 1, g) ELSE g[i]]
  <2>2. /\ n + 1 \in 0..L /\ n + 1 # 0
        /\ \A i \in 0 .. n + 1 : i # n + 1 => i \in 0..n /\ i \in 0..L
        /\ \A i \in 0 .. n + 1 : i # 0 => i - 1 \in 0..L /\ i - 1 # n + 1
    OBVIOUS
  <2>3. ASSUME NEW i \in 0 .. n + 1 PROVE h[i] = Turn(i, h)
    <3>1. h[i] = Turn(i, g)
      BY <2>1, <2>2, Zenon
    <3>2. i # 0 => h[i - 1] = g[i - 1]
      BY <2>2, Zenon
    <3> HIDE DEF h
    <3>3. QED
      BY <3>1, <3>2, Zenon
  <2> HIDE DEF h
  <2>4. QED
    BY <2>2, <2>3, Zenon
<1>4. \E g : g = Turns(g)
  <2>1. L \in S
    <3> HIDE DEF S
    <3>1. 0..L \subseteq S
      BY <1>2, <1>3, NatInductionIn, Zenon
    <3>2. L \in 0..L
      OBVIOUS
    <3>3. QED
      BY <3>1, <3>2, Zenon
  <2>2. PICK g : \A i \in 0..L : g[i] = Turn(i, g)
    BY <2>1, Zenon
  <2> DEFINE h == [i \in 0..L |-> g[i]]
  <2>3. \A i \in 0..L : i # 0 => i - 1 \in 0..L
    OBVIOUS
  <2>4. \A i \in 0..L : Turn(i, h) = Turn(i, g)
    BY <2>3, Zenon
  <2>5. h = Turns(h)
    <3>1. \A i \in 0..L : h[i] = Turn(i, h)
      BY <2>2, <2>4, Zenon
    <3>2. h = [i \in 0..L |-> h[i]]
      BY Zenon
    <3> HIDE DEF h
    <3>3. [i \in 0..L |-> h[i]] = Turns(h)
      BY <3>1, Zenon
    <3>4. QED
      BY <3>2, <3>3, Zenon
  <2> HIDE DEF h
  <2>6. QED
    BY <2>5, Zenon
<1>5. buffer = Turns(buffer)
  <2> HIDE DEF Turns
  <2>1. QED
    BY <1>4, Zenon
<1> HIDE DEF buffer
<1>6. \A i \in 0..L : buffer[i] = Turn(i, buffer)
  BY <1>5, Zenon
<1>7. 0 \in 0..L /\ \A i \in 1..L : i \in 0..L /\ i # 0
  OBVIOUS
<1>8. buffer[0] = <<>> /\ \A i \in 1..L : buffer[i] = buffer[i - 1] \o Unescaped(s[i])
  BY <1>6, <1>7, Zenon
<1>9. QED
  BY <1>1, <1>8, Zenon

\* What is appended for a character.
LEMMA UnescapedIs ==
  ASSUME NEW c \in QueryChars
  PROVE  /\ c = "%00" => Unescaped(c) = <<>>
         /\ c # "%00" => Unescaped(c) = <<DecodedChar(c)>> /\ DecodedChar(c) \in QueryChars
<1>1. " " \in QueryChars /\ "&" \in QueryChars
  BY DEF QueryChars
<1>2. QED
  BY <1>1 DEF Unescaped, DecodedChar

\* unescape computes what its reference says: the characters in their order, those
\* that decode to a terminator left out.
LEMMA UnescapeIs ==
  ASSUME NEW s \in Seq(QueryChars)
  PROVE  /\ Contains(s, "%") => unescape(s) = NULL
         /\ ~Contains(s, "%") => unescape(s) = Decoded(s) /\ Decoded(s) \in Seq(QueryChars)
<1> DEFINE K == Kept(s)
<1>1. PICK L \in Nat : L = Len(s) /\ DOMAIN s = 1..L
  BY LenProperties
<1>2. Contains(s, "%") => unescape(s) = NULL
  BY Zenon DEF unescape
<1>3. K \in SUBSET (1..L) /\ K \subseteq Int
  BY <1>1 DEF Kept
<1>4. IsFiniteSet(K)
  <2>1. IsFiniteSet(1..L)
    BY FS_Interval
  <2> HIDE DEF K
  <2>2. QED
    BY <1>3, <2>1, FS_Subset, Zenon
<1>5. ASSUME ~Contains(s, "%")
      PROVE  unescape(s) = Decoded(s) /\ Decoded(s) \in Seq(QueryChars)
  <2>1. PICK b : /\ unescape(s) = b[L] /\ b[0] = <<>>
                 /\ \A i \in 1..L : b[i] = b[i - 1] \o Unescaped(s[i])
    <3>1. Len(s) \in Nat
      BY <1>1, Zenon
    <3>2. \E b : /\ unescape(s) = b[Len(s)] /\ b[0] = <<>>
                 /\ \A i \in 1..Len(s) : b[i] = b[i - 1] \o Unescaped(s[i])
      BY <1>5, <3>1, UnescapeUnfolds, Zenon
    <3>3. QED
      BY <1>1, <3>2, Zenon
  <2> DEFINE Q(n) == /\ b[n] \in Seq(QueryChars) /\ Len(b[n]) = Rank(K, n + 1)
                     /\ \A r \in 1..Len(b[n]) : \E i \in K :
                          r = Rank(K, i) + 1 /\ b[n][r] = DecodedChar(s[i])
             S == {n \in 0..L : Q(n)}
  <2>2. 0 \in S
    <3>1. \A y \in K : ~ (y < 1)
      BY <1>3
    <3>2. Rank(K, 1) = 0
      <4> HIDE DEF K
      <4>1. 1 \in Int
        OBVIOUS
      <4>2. QED
        BY <1>3, <1>4, <3>1, <4>1, RankIs, Zenon
    <3>3. <<>> \in Seq(QueryChars) /\ Len(<<>>) = 0 /\ 0 + 1 = 1 /\ \A r : ~ (r \in 1..0)
      OBVIOUS
    <3> HIDE DEF K
    <3>4. Q(0)
      BY <2>1, <3>2, <3>3
    <3>5. 0 \in 0..L
      OBVIOUS
    <3>6. QED
      BY <3>4, <3>5, Zenon
  <2>3. ASSUME NEW n \in 0 .. L - 1, n \in S PROVE n + 1 \in S
    <3>0. Q(n)
      BY <2>3, Zenon
    <3>1. PICK m \in 1..L : m = n + 1 /\ m - 1 = n /\ m \in 0..L /\ m \in Int
      OBVIOUS
    <3>2. b[m] = b[n] \o Unescaped(s[m]) /\ s[m] \in QueryChars
      BY <1>1, <2>1, <3>1, ElementOfSeq
    <3>3. CASE s[m] = "%00"
      <4>1. b[m] = b[n]
        BY <3>0, <3>2, <3>3, UnescapedIs, ConcatEmptySeq, Zenon
      <4>2. m \notin K
        BY <3>3, Zenon DEF Kept
      <4> HIDE DEF K
      <4>3. Rank(K, m + 1) = Rank(K, m)
        BY <1>3, <1>4, <3>1, <4>2, RankIs, Zenon
      <4>4. Q(m)
        BY <3>0, <3>1, <4>1, <4>3, Zenon
      <4>5. QED
        BY <3>1, <4>4, Zenon
    <3>4. CASE s[m] # "%00"
      <4> DEFINE d == DecodedChar(s[m])
      <4>1. b[m] = b[n] \o <<d>> /\ d \in QueryChars
        BY <3>2, <3>4, UnescapedIs, Zenon
      <4>2. m \in K
        BY <1>1, <3>1, <3>4, Zenon DEF Kept
      <4> HIDE DEF K, d
      <4>3. Rank(K, m + 1) = Rank(K, m) + 1 /\ Rank(K, m) \in Nat
        BY <1>3, <1>4, <3>1, <4>2, RankIs, Zenon
      <4>4. PICK a \in Nat : a = Rank(K, m) /\ Len(b[n]) = a
        BY <3>0, <3>1, <4>3, Zenon
      <4>5. b[n] \in Seq(QueryChars) /\ <<d>> \in Seq(QueryChars) /\ Len(<<d>>) = 1 /\ <<d>>[1] = d
        BY <3>0, <4>1
      <4>6. /\ b[m] \in Seq(QueryChars) /\ Len(b[m]) = a + 1
            /\ \A r \in 1 .. a + 1 : b[m][r] = IF r <= a THEN b[n][r] ELSE <<d>>[r - a]
        <5> DEFINE e == b[n]
                   u == e \o <<d>>
        <5>1. /\ u \in Seq(QueryChars) /\ Len(u) = Len(e) + Len(<<d>>)
              /\ \A r \in 1 .. Len(e) + Len(<<d>>) :
                   u[r] = IF r <= Len(e) THEN e[r] ELSE <<d>>[r - Len(e)]
          BY <4>5, ConcatProperties, Zenon
        <5> HIDE DEF u
        <5>2. /\ u \in Seq(QueryChars) /\ Len(u) = a + 1
              /\ \A r \in 1 .. a + 1 : u[r] = IF r <= a THEN e[r] ELSE <<d>>[r - a]
          BY <4>4, <4>5, <5>1, Zenon
        <5>3. QED
          BY <4>1, <5>2, Zenon DEF u
      <4>7. \A r \in 1 .. a + 1 : \E i \in K :
              r = Rank(K, i) + 1 /\ b[m][r] = DecodedChar(s[i])
        <5> SUFFICES ASSUME NEW r \in 1 .. a + 1
                     PROVE  \E i \in K : r = Rank(K, i) + 1 /\ b[m][r] = DecodedChar(s[i])
          OBVIOUS
        <5>1. CASE r <= a
          <6>1. r \in 1..a /\ b[m][r] = b[n][r]
            BY <4>6, <5>1
          <6>2. QED
            BY <3>0, <4>4, <6>1, Zenon
        <5>2. CASE r = a + 1
          <6>1. b[m][r] = <<d>>[1]
            BY <4>6, <5>2
          <6>2. QED
            BY <4>2, <4>4, <4>5, <5>2, <6>1, Zenon DEF d
        <5>3. QED
          BY <5>1, <5>2
      <4>8. Q(m)
        BY <4>3, <4>4, <4>6, <4>7, Zenon
      <4>9. QED
        BY <3>1, <4>8, Zenon
    <3>5. QED
      BY <3>3, <3>4, Zenon
  <2>4. Q(L)
    <3> HIDE DEF Q
    <3>1. 0..L \subseteq S
      <4> HIDE DEF S
      <4>1. QED
        BY <2>2, <2>3, NatInductionIn, Zenon
    <3>2. L \in 0..L
      OBVIOUS
    <3>3. QED
      BY <3>1, <3>2, Zenon
  <2>5. Rank(K, L + 1) = Cardinality(K) /\ Cardinality(K) \in Nat
    <3>1. L + 1 \in Int /\ \A y \in K : y < L + 1
      BY <1>3
    <3> HIDE DEF K
    <3>2. QED
      BY <1>3, <1>4, <3>1, RankIs, FS_CardinalityType, Zenon
  <2> DEFINE t == b[L]
             D == Decoded(s)
  <2>6. /\ t \in Seq(QueryChars) /\ Len(t) = Cardinality(K)
        /\ \A r \in 1..Len(t) : \E i \in K : r = Rank(K, i) + 1 /\ t[r] = DecodedChar(s[i])
    BY <2>4, <2>5, Zenon
  <2>7. D = [r \in 1..Cardinality(K) |-> DecodedChar(s[InOrder(K)[r]])]
    BY Zenon DEF Decoded
  <2> HIDE DEF K, t, D
  <2>8. \A r \in 1..Cardinality(K) : t[r] = D[r]
    <3> TAKE r \in 1..Cardinality(K)
    <3>1. PICK i \in K : r = Rank(K, i) + 1 /\ t[r] = DecodedChar(s[i])
      BY <2>6, Zenon
    <3>2. InOrder(K)[r] = i
      BY <1>3, <1>4, <3>1, InOrderIs, Zenon
    <3>3. QED
      BY <2>7, <3>1, <3>2, Zenon
  <2>9. t \in [1..Cardinality(K) -> QueryChars]
    BY <2>6, LenProperties, Zenon
  <2>10. t = D
    BY <2>7, <2>8, <2>9
  <2>11. QED
    BY <2>1, <2>6, <2>10, Zenon DEF t, D
<1>6. QED
  BY <1>2, <1>5, Zenon

\* One iteration of parse_query adds the key and the value of a setting that
\* counts, decoded, and passes over any other.
LEMMA AddSettingIs ==
  ASSUME NEW s \in Seq(QueryChars)
  PROVE  /\ Counts(s) =>
              /\ AddSetting(s) = PutQuery(queries, Decoded(KeyOf(s)), Decoded(ValueOf(s)))
              /\ Decoded(ValueOf(s)) \in Seq(QueryChars)
         /\ ~Counts(s) => AddSetting(s) = queries
<1>1. \A t \in Seq(QueryChars) : t # NULL
  BY SettingsAssumption, Zenon
<1>2. \A c : Contains(s, c) <=> c \in ToSet(s)
  <2>1. DOMAIN s = 1..Len(s)
    BY LenProperties, Zenon
  <2>2. QED
    BY <2>1, Zenon DEF Contains, ToSet
<1>3. CASE ~Contains(s, "=")
  <2>1. str_cut(s, "=") = <<s, NULL>> /\ ~Counts(s)
    BY <1>3, CutIs, Zenon DEF Counts
  <2>2. <<s, NULL>>[2] = NULL
    OBVIOUS
  <2>3. AddSetting(s) = queries
    BY <2>1, <2>2, Zenon DEF AddSetting
  <2>4. QED
    BY <2>1, <2>3, Zenon
<1>4. CASE Contains(s, "=")
  <2> DEFINE k == KeyOf(s)
             v == ValueOf(s)
             kv == str_cut(s, "=")
  <2>1. /\ k \in Seq(QueryChars) /\ v \in Seq(QueryChars)
        /\ \A c : c # "=" => (Contains(s, c) <=> Contains(k, c) \/ Contains(v, c))
        /\ kv = <<OrNull(k), OrNull(v)>>
    BY <1>4, SettingIs, Zenon
  <2> HIDE DEF k, v, kv
  <2>2. kv[1] = OrNull(k) /\ kv[2] = OrNull(v)
    BY <2>1
  <2>3. /\ kv[1] = NULL <=> k = <<>>
        /\ kv[2] = NULL <=> v = <<>>
        /\ k # <<>> => kv[1] = k
        /\ v # <<>> => kv[2] = v
    BY <1>1, <2>1, <2>2, Zenon DEF OrNull
  <2>4. s # <<>>
    <3>1. \E i \in 1..Len(s) : TRUE
      BY <1>4, Zenon DEF Contains
    <3>2. ~ \E i \in 1..Len(<<>>) : TRUE
      OBVIOUS
    <3>3. QED
      BY <3>1, <3>2, Zenon
  <2>5. Counts(s) <=> /\ k # <<>> /\ v # <<>> /\ ~Contains(s, ";")
                      /\ ~Contains(k, "%") /\ ~Contains(v, "%")
    <3>1. "%" # "="
      OBVIOUS
    <3>2. Contains(s, "%") <=> Contains(k, "%") \/ Contains(v, "%")
      BY <2>1, <3>1, Zenon
    <3>3. ToSet(s) \cap {";", "%"} = {} <=> ~Contains(s, ";") /\ ~Contains(s, "%")
      BY <1>2, Zenon
    <3>4. QED
      BY <1>4, <3>2, <3>3, Zenon DEF Counts, k, v
  <2>6. /\ unescape(k) = NULL <=> Contains(k, "%")
        /\ unescape(v) = NULL <=> Contains(v, "%")
        /\ ~Contains(k, "%") => unescape(k) = Decoded(k)
        /\ ~Contains(v, "%") => unescape(v) = Decoded(v) /\ Decoded(v) \in Seq(QueryChars)
    BY <1>1, <2>1, UnescapeIs, Zenon
  <2>7. AddSetting(s) =
          IF Contains(s, ";") \/ s = <<>> \/ NULL \in {kv[1], kv[2]} THEN queries
          ELSE IF NULL \in {unescape(kv[1]), unescape(kv[2])} THEN queries
          ELSE PutQuery(queries, unescape(kv[1]), unescape(kv[2]))
    BY Zenon DEF AddSetting, kv
  <2>8. CASE Counts(s)
    <3>1. /\ k # <<>> /\ v # <<>> /\ ~Contains(s, ";")
          /\ ~Contains(k, "%") /\ ~Contains(v, "%")
      BY <2>5, <2>8, Zenon
    <3>2. kv[1] = k /\ kv[2] = v /\ kv[1] # NULL /\ kv[2] # NULL
      BY <2>3, <3>1, Zenon
    <3>3. /\ unescape(kv[1]) # NULL /\ unescape(kv[2]) # NULL
          /\ unescape(kv[1]) = Decoded(k) /\ unescape(kv[2]) = Decoded(v)
      BY <2>6, <3>1, <3>2, Zenon
    <3>4. AddSetting(s) = PutQuery(queries, Decoded(k), Decoded(v))
      BY <2>4, <2>7, <3>1, <3>2, <3>3, Zenon
    <3>5. QED
      BY <2>6, <2>8, <3>1, <3>4, Zenon DEF k, v
  <2>9. CASE ~Counts(s)
    <3>1. \/ Contains(s, ";") \/ NULL \in {kv[1], kv[2]}
          \/ /\ kv[1] = k /\ kv[2] = v
             /\ NULL \in {unescape(k), unescape(v)}
      BY <2>3, <2>5, <2>6, <2>9, Zenon
    <3>2. AddSetting(s) = queries
      BY <2>7, <3>1, Zenon
    <3>3. QED
      BY <2>9, <3>2, Zenon
  <2>10. QED
    BY <2>8, <2>9, Zenon
<1>5. QED
  BY <1>3, <1>4, Zenon

-----------------------------------------------------------------------------
(* What the table says of the settings parsed so far. *)

\* The settings that count for a key, of the first m.
CountedIn(w, m, key) == {n \in 1..m : Counts(w[n]) /\ Decoded(KeyOf(w[n])) = key}

\* The table has the values of the settings that count, in their order.
Tabled(q, w, m) ==
  /\ \A key : key \notin DOMAIN q => CountedIn(w, m, key) = {}
  /\ \A key \in DOMAIN q :
       /\ q[key] \in Seq(Seq(QueryChars))
       /\ Len(q[key]) = Cardinality(CountedIn(w, m, key))
       /\ \A n \in CountedIn(w, m, key) :
            q[key][Rank(CountedIn(w, m, key), n) + 1] = Decoded(ValueOf(w[n]))

\* The settings of a key that count, one setting after the other.
LEMMA CountedIs ==
  ASSUME NEW w, NEW m \in Nat, NEW key
  PROVE  /\ CountedIn(w, m, key) \in SUBSET (1..m) /\ CountedIn(w, m, key) \subseteq Int
         /\ IsFiniteSet(CountedIn(w, m, key))
         /\ CountedIn(w, m + 1, key) =
              IF Counts(w[m + 1]) /\ Decoded(KeyOf(w[m + 1])) = key
              THEN CountedIn(w, m, key) \cup {m + 1} ELSE CountedIn(w, m, key)
<1> DEFINE C == CountedIn(w, m, key)
<1>1. C \in SUBSET (1..m) /\ C \subseteq Int
  BY DEF CountedIn
<1>2. IsFiniteSet(1..m)
  BY FS_Interval
<1>3. IsFiniteSet(C)
  <2> HIDE DEF C
  <2>1. QED
    BY <1>1, <1>2, FS_Subset, Zenon
<1>4. PICK p \in Nat : p = m + 1
  OBVIOUS
<1>5. \A n : n \in 1..p <=> n \in 1..m \/ n = p
  BY <1>4
<1>6. CountedIn(w, p, key) =
        IF Counts(w[p]) /\ Decoded(KeyOf(w[p])) = key THEN C \cup {p} ELSE C
  <2>1. CASE Counts(w[p]) /\ Decoded(KeyOf(w[p])) = key
    <3>1. \A n : n \in CountedIn(w, p, key) <=> n \in C \cup {p}
      BY <1>5, <2>1, Zenon DEF CountedIn
    <3> HIDE DEF C
    <3>2. QED
      BY <2>1, <3>1, Zenon
  <2>2. CASE ~ (Counts(w[p]) /\ Decoded(KeyOf(w[p])) = key)
    <3>1. \A n : n \in CountedIn(w, p, key) <=> n \in C
      BY <1>5, <2>2, Zenon DEF CountedIn
    <3> HIDE DEF C
    <3>2. CountedIn(w, p, key) = C
      BY <3>1, Zenon
    <3>3. QED
      BY <2>2, <3>2, Zenon
  <2>3. QED
    BY <2>1, <2>2, Zenon
<1>7. QED
  BY <1>1, <1>3, <1>4, <1>6, Zenon

\* A setting that does not count changes nothing.
LEMMA PassedOver ==
  ASSUME NEW q, NEW w, NEW m \in Nat, Tabled(q, w, m), ~Counts(w[m + 1])
  PROVE  Tabled(q, w, m + 1)
<1>1. \A key : CountedIn(w, m + 1, key) = CountedIn(w, m, key)
  BY CountedIs, Zenon
<1>2. QED
  BY <1>1, Zenon DEF Tabled

\* One that counts adds its value behind those of its key.
LEMMA PutKeepsTable ==
  ASSUME NEW q, NEW w, NEW m \in Nat, Tabled(q, w, m), Counts(w[m + 1]),
         NEW v \in Seq(QueryChars), v = Decoded(ValueOf(w[m + 1]))
  PROVE  Tabled(PutQuery(q, Decoded(KeyOf(w[m + 1])), v), w, m + 1)
<1> DEFINE k == Decoded(KeyOf(w[m + 1]))
           r == PutQuery(q, k, v)
           old == IF k \in DOMAIN q THEN q[k] ELSE <<>>
<1>1. PICK p \in Nat : p = m + 1
  OBVIOUS
<1>2. /\ DOMAIN r = DOMAIN q \cup {k}
      /\ \A key \in DOMAIN q : key # k => r[key] = q[key]
      /\ r[k] = IF k \in DOMAIN q THEN Append(q[k], v) ELSE <<v>>
  BY Zenon DEF PutQuery
<1>3. r[k] = Append(old, v)
  <2>1. <<v>> = Append(<<>>, v)
    OBVIOUS
  <2> HIDE DEF r, k
  <2>2. QED
    BY <1>2, <2>1, Zenon
<1> DEFINE C(key) == CountedIn(w, m, key)
           D(key) == CountedIn(w, p, key)
<1>4. \A key : key # k => D(key) = C(key)
  BY <1>1, CountedIs, Zenon
<1>5. D(k) = C(k) \cup {p}
  BY <1>1, CountedIs, Zenon
<1>6. C(k) \in SUBSET (1..m) /\ C(k) \subseteq Int /\ IsFiniteSet(C(k))
  BY CountedIs, Zenon
<1>7. /\ old \in Seq(Seq(QueryChars)) /\ Len(old) = Cardinality(C(k))
      /\ \A n \in C(k) : old[Rank(C(k), n) + 1] = Decoded(ValueOf(w[n]))
  <2> HIDE DEF k
  <2>1. CASE k \in DOMAIN q
    BY <2>1, Zenon DEF Tabled
  <2>2. CASE k \notin DOMAIN q
    <3>1. C(k) = {} /\ old = <<>>
      BY <2>2, Zenon DEF Tabled
    <3> HIDE DEF C, old
    <3>2. Cardinality(C(k)) = 0
      BY <3>1, FS_EmptySet, Zenon
    <3>3. <<>> \in Seq(Seq(QueryChars)) /\ Len(<<>>) = 0
      OBVIOUS
    <3>4. QED
      BY <3>1, <3>2, <3>3, Zenon
  <2>3. QED
    BY <2>1, <2>2, Zenon
<1> HIDE DEF k, r, old
<1>8. PICK a \in Nat : a = Cardinality(C(k)) /\ a = Len(old)
  BY <1>6, <1>7, FS_CardinalityType, Zenon
<1>9. /\ r[k] \in Seq(Seq(QueryChars)) /\ Len(r[k]) = a + 1 /\ r[k][a + 1] = v
      /\ \A j \in 1..a : r[k][j] = old[j]
  <2>1. /\ Append(old, v) \in Seq(Seq(QueryChars)) /\ Len(Append(old, v)) = Len(old) + 1
        /\ Append(old, v)[Len(old) + 1] = v
        /\ \A j \in 1..Len(old) : Append(old, v)[j] = old[j]
    BY <1>7, AppendProperties
  <2>2. QED
    BY <1>3, <1>8, <2>1, Zenon
<1>10. p \notin C(k) /\ (\A n \in C(k) : n < p /\ n \in Int) /\ p \in Int
  BY <1>1, <1>6
<1>11. Cardinality(D(k)) = a + 1
  <2> HIDE DEF C, D
  <2>1. p \notin C(k)
    BY <1>10, Zenon
  <2>2. Cardinality(C(k) \cup {p}) = Cardinality(C(k)) + 1
    BY <1>6, <2>1, FS_AddElement, Zenon
  <2>3. QED
    BY <1>5, <1>8, <2>2, Zenon
<1>12. Rank(D(k), p) = a
  <2>1. ~ (p < p)
    BY <1>1
  <2> HIDE DEF C, D
  <2>2. \A n : n \in {y \in D(k) : y < p} <=> n \in C(k)
    BY <1>5, <1>10, <2>1, Zenon
  <2>3. {y \in D(k) : y < p} = C(k)
    BY <2>2, Zenon
  <2>4. QED
    BY <1>8, <2>3, Zenon DEF Rank
<1>13. ASSUME NEW n \in C(k) PROVE Rank(D(k), n) = Rank(C(k), n)
  <2>1. ~ (p < n)
    BY <1>10
  <2> HIDE DEF C, D
  <2>2. \A y : y \in {x \in D(k) : x < n} <=> y \in {x \in C(k) : x < n}
    BY <1>5, <2>1, Zenon
  <2>3. {x \in D(k) : x < n} = {x \in C(k) : x < n}
    BY <2>2, Zenon
  <2>4. QED
    BY <2>3, Zenon DEF Rank
<1>14. \A n \in D(k) : r[k][Rank(D(k), n) + 1] = Decoded(ValueOf(w[n]))
  <2> SUFFICES ASSUME NEW n \in D(k) PROVE r[k][Rank(D(k), n) + 1] = Decoded(ValueOf(w[n]))
    OBVIOUS
  <2>1. CASE n = p
    BY <1>1, <1>9, <1>12, <2>1, Zenon
  <2>2. CASE n \in C(k)
    <3>1. Rank(C(k), n) \in Nat /\ Rank(C(k), n) < a
      BY <1>6, <1>8, <1>10, <2>2, RankIs, Zenon
    <3>2. Rank(C(k), n) + 1 \in 1..a
      BY <3>1
    <3>3. r[k][Rank(C(k), n) + 1] = old[Rank(C(k), n) + 1]
      BY <1>9, <3>2, Zenon
    <3>4. QED
      BY <1>7, <1>13, <2>2, <3>3, Zenon
  <2>3. QED
    BY <1>5, <2>1, <2>2, Zenon
<1>15. Tabled(r, w, p)
  <2>1. \A key : key \notin DOMAIN r => D(key) = {}
    BY <1>2, <1>4, Zenon DEF Tabled
  <2>2. ASSUME NEW key \in DOMAIN r
        PROVE  /\ r[key] \in Seq(Seq(QueryChars)) /\ Len(r[key]) = Cardinality(D(key))
               /\ \A n \in D(key) : r[key][Rank(D(key), n) + 1] = Decoded(ValueOf(w[n]))
    <3>1. CASE key = k
      BY <1>9, <1>11, <1>14, <3>1, Zenon
    <3>2. CASE key # k
      <4>1. key \in DOMAIN q /\ r[key] = q[key] /\ D(key) = C(key)
        BY <1>2, <1>4, <3>2, Zenon
      <4>2. /\ q[key] \in Seq(Seq(QueryChars)) /\ Len(q[key]) = Cardinality(C(key))
            /\ \A n \in C(key) : q[key][Rank(C(key), n) + 1] = Decoded(ValueOf(w[n]))
        BY <4>1, Zenon DEF Tabled
      <4> HIDE DEF C, D
      <4>3. QED
        BY <4>1, <4>2, Zenon
    <3>3. QED
      BY <3>1, <3>2, Zenon
  <2>3. QED
    BY <2>1, <2>2, Zenon DEF Tabled
<1>16. QED
  BY <1>1, <1>15, Zenon DEF r, k

-----------------------------------------------------------------------------
(* What is left of the query string. *)

\* f[i] is the query string from setting i on.
Tails(f, w) ==
  /\ f \in [1..Len(w) -> Seq(QueryChars)]
  /\ \A i \in 1..Len(w) :
       f[i] = IF i = Len(w) THEN w[i] ELSE w[i] \o <<"&">> \o f[i + 1]

\* m settings have been parsed; str_cut makes an empty rest a null pointer.
Left(q, f, w, m) ==
  /\ m = Len(w) => q = NULL
  /\ m < Len(w) => q \in {f[m + 1], OrNull(f[m + 1])}

\* One more setting at the end of the query string.
LEMMA TailsGrow ==
  ASSUME NEW w \in Seq(Settings), NEW f, Tails(f, w), NEW s \in Settings
  PROVE  \E g : /\ Tails(g, Append(w, s)) /\ 1 \in DOMAIN g
                /\ g[1] = IF w = <<>> THEN s ELSE f[1] \o <<"&">> \o s
<1>1. PICK L \in Nat : L = Len(w)
  OBVIOUS
<1>2. PICK p \in Nat : p = L + 1
  OBVIOUS
<1> DEFINE u == Append(w, s)
           Longer(t) == t \o <<"&">> \o s
           g == [i \in 1..p |-> IF i = p THEN s ELSE Longer(f[i])]
<1>3. u \in Seq(Settings) /\ Len(u) = p /\ u[p] = s /\ \A i \in 1..L : u[i] = w[i]
  <2>1. /\ Append(w, s) \in Seq(Settings) /\ Len(Append(w, s)) = Len(w) + 1
        /\ Append(w, s)[Len(w) + 1] = s
        /\ \A i \in 1..Len(w) : Append(w, s)[i] = w[i]
    BY AppendProperties
  <2>2. QED
    BY <1>1, <1>2, <2>1, Zenon
<1>4. s \in Seq(QueryChars) /\ \A i \in 1..L : w[i] \in Seq(QueryChars)
  <2>1. \A i \in 1..L : w[i] \in Settings
    BY <1>1
  <2>2. QED
    BY <2>1, SettingsAssumption, Zenon
<1>5. f \in [1..L -> Seq(QueryChars)]
      /\ \A i \in 1..L : f[i] = IF i = L THEN w[i] ELSE w[i] \o <<"&">> \o f[i + 1]
  BY <1>1, Zenon DEF Tails
<1>6. <<"&">> \in Seq(QueryChars)
  <2>1. "&" \in QueryChars
    BY Zenon DEF QueryChars
  <2> HIDE DEF QueryChars
  <2>2. QED
    BY <2>1
<1>7. \A a, b \in Seq(QueryChars) : a \o b \in Seq(QueryChars)
  BY ConcatProperties
<1>8. \A a, b, c \in Seq(QueryChars) : (a \o b) \o c = a \o (b \o c)
  BY ConcatAssociative
<1>9. \A t \in Seq(QueryChars) : Longer(t) \in Seq(QueryChars)
  BY <1>4, <1>6, <1>7, Zenon
<1>10. \A a, b \in Seq(QueryChars) : Longer(a \o <<"&">> \o b) = a \o <<"&">> \o Longer(b)
  <2> SUFFICES ASSUME NEW a \in Seq(QueryChars), NEW b \in Seq(QueryChars)
               PROVE  ((a \o <<"&">>) \o b) \o <<"&">> \o s
                        = (a \o <<"&">>) \o (b \o <<"&">> \o s)
    BY Zenon
  <2>1. PICK x \in Seq(QueryChars) : x = a \o <<"&">>
    BY <1>6, <1>7, Zenon
  <2>2. ((x \o b) \o <<"&">>) \o s = (x \o (b \o <<"&">>)) \o s
    BY <1>6, <1>8, Zenon
  <2>3. (x \o (b \o <<"&">>)) \o s = x \o ((b \o <<"&">>) \o s)
    <3>1. PICK y \in Seq(QueryChars) : y = b \o <<"&">>
      BY <1>6, <1>7, Zenon
    <3>2. (x \o y) \o s = x \o (y \o s)
      BY <1>4, <1>8, ZenonT(60)
    <3>3. QED
      BY <3>1, <3>2, Zenon
  <2>4. QED
    BY <2>1, <2>2, <2>3, Zenon
<1> HIDE DEF Longer
<1>11. DOMAIN g = 1..p /\ \A i \in 1..p : g[i] = IF i = p THEN s ELSE Longer(f[i])
  OBVIOUS
<1>12. \A i \in 1..p : i # p => i \in 1..L /\ i + 1 \in 1..p /\ (i # L => i + 1 # p)
  BY <1>2
<1>13. g \in [1..p -> Seq(QueryChars)]
  <2>1. \A i \in 1..p : (IF i = p THEN s ELSE Longer(f[i])) \in Seq(QueryChars)
    BY <1>4, <1>5, <1>9, <1>12, Zenon
  <2>2. QED
    BY <2>1, Zenon
<1> HIDE DEF g
<1>14. ASSUME NEW i \in 1..p
       PROVE  g[i] = IF i = p THEN u[i] ELSE u[i] \o <<"&">> \o g[i + 1]
  <2>1. CASE i = p
    BY <1>3, <1>11, <2>1, Zenon
  <2>2. CASE i # p /\ i = L
    <3>1. i \in 1..L /\ L + 1 \in 1..p
      BY <1>12, <2>2, Zenon
    <3>2. g[L + 1] = s
      BY <1>2, <1>11, <3>1, Zenon
    <3>3. f[i] = w[i] /\ u[i] = w[i]
      BY <1>3, <1>5, <2>2, <3>1, Zenon
    <3>4. g[i] = Longer(w[i])
      BY <1>11, <2>2, <3>3, Zenon
    <3>5. QED
      BY <2>2, <3>2, <3>3, <3>4, Zenon DEF Longer
  <2>3. CASE i # p /\ i # L
    <3>1. i \in 1..L /\ i + 1 \in 1..p /\ i + 1 # p
      BY <1>12, <2>3, Zenon
    <3>2. i + 1 \in 1..L
      BY <1>12, <3>1, Zenon
    <3>3. f[i] = w[i] \o <<"&">> \o f[i + 1] /\ u[i] = w[i]
      BY <1>3, <1>5, <2>3, <3>1, Zenon
    <3>4. g[i] = Longer(f[i]) /\ g[i + 1] = Longer(f[i + 1])
      BY <1>11, <2>3, <3>1, Zenon
    <3>5. w[i] \in Seq(QueryChars) /\ f[i + 1] \in Seq(QueryChars)
      BY <1>4, <1>5, <3>1, <3>2, Zenon
    <3>6. QED
      BY <1>10, <2>3, <3>3, <3>4, <3>5, Zenon
  <2>4. QED
    BY <2>1, <2>2, <2>3, Zenon
<1>15. Tails(g, u)
  <2> HIDE DEF u
  <2>1. QED
    BY <1>3, <1>13, <1>14, Zenon DEF Tails
<1>16. 1 \in 1..p /\ (w = <<>> <=> 1 = p)
  BY <1>1, <1>2
<1>17. g[1] = IF w = <<>> THEN s ELSE f[1] \o <<"&">> \o s
  BY <1>11, <1>16, Zenon DEF Longer
<1>18. QED
  BY <1>11, <1>15, <1>16, <1>17, Zenon DEF u

\* What str_cut makes of the rest: the next setting and the rest behind it.
LEMMA NextSetting ==
  ASSUME NEW w \in Seq(Settings), NEW f, Tails(f, w), NEW m \in 0..Len(w),
         NEW q, Left(q, f, w, m), ~s_nullish(q)
  PROVE  /\ m + 1 \in 1..Len(w)
         /\ str_cut(q, "&")[1] = NULL => m + 1 \in 1 .. Len(w) - 1 /\ w[m + 1] = <<>>
         /\ str_cut(q, "&")[1] # NULL =>
              str_cut(q, "&")[1] = w[m + 1] /\ Left(str_cut(q, "&")[2], f, w, m + 1)
<1>1. PICK L \in Nat : L = Len(w)
  OBVIOUS
<1>2. m # L
  BY <1>1, Zenon DEF Left, s_nullish
<1>3. PICK p \in Nat : p = m + 1 /\ p \in 1..L /\ m < L
  BY <1>1, <1>2
<1>4. q = f[p]
  <2>1. q # NULL /\ q # <<>>
    BY Zenon DEF s_nullish
  <2>2. q = f[m + 1] \/ q = OrNull(f[m + 1])
    BY <1>1, <1>3, Zenon DEF Left
  <2>3. QED
    BY <1>3, <2>1, <2>2, Zenon DEF OrNull
<1>5. w[p] \in Seq(QueryChars) /\ ~Contains(w[p], "&") /\ w[p] # NULL
  <2>1. w[p] \in Settings
    BY <1>1, <1>3
  <2>2. QED
    BY <2>1, SettingsAssumption, Zenon
<1>6. /\ f[p] \in Seq(QueryChars) /\ (p + 1 \in 1..L => f[p + 1] \in Seq(QueryChars))
      /\ f[p] = IF p = L THEN w[p] ELSE w[p] \o <<"&">> \o f[p + 1]
  <2>1. f \in [1..L -> Seq(QueryChars)]
    BY <1>1, Zenon DEF Tails
  <2>2. QED
    BY <1>1, <1>3, <2>1, Zenon DEF Tails
<1>7. CASE p = L
  <2>1. str_cut(q, "&") = <<w[p], NULL>>
    BY <1>4, <1>5, <1>6, <1>7, CutIs, Zenon
  <2>2. str_cut(q, "&")[1] = w[p] /\ str_cut(q, "&")[2] = NULL
    BY <2>1
  <2>3. ~ (p < L)
    BY <1>7
  <2>4. Left(NULL, f, w, p)
    BY <1>1, <2>3, Zenon DEF Left
  <2>5. QED
    BY <1>1, <1>3, <1>5, <2>2, <2>4, Zenon
<1>8. CASE p # L
  <2>1. p + 1 \in 1..L /\ p \in 1 .. L - 1
    BY <1>3, <1>8
  <2>2. "&" \in QueryChars
    BY Zenon DEF QueryChars
  <2>3. str_cut(w[p] \o <<"&">> \o f[p + 1], "&") = <<OrNull(w[p]), OrNull(f[p + 1])>>
    BY <1>5, <1>6, <2>1, <2>2, CutJoined, ZenonT(60)
  <2>4. str_cut(q, "&") = <<OrNull(w[p]), OrNull(f[p + 1])>>
    BY <1>4, <1>6, <1>8, <2>3, Zenon
  <2>5. str_cut(q, "&")[1] = OrNull(w[p]) /\ str_cut(q, "&")[2] = OrNull(f[p + 1])
    BY <2>4
  <2>6. Left(OrNull(f[p + 1]), f, w, p)
    BY <1>1, <1>8, Zenon DEF Left
  <2>7. QED
    BY <1>1, <1>3, <1>5, <2>1, <2>5, <2>6, Zenon DEF OrNull
<1>9. QED
  BY <1>7, <1>8, Zenon

\* When nothing is left, at most an empty setting has not been parsed.
LEMMA NothingLeft ==
  ASSUME NEW w \in Seq(Settings), NEW f, Tails(f, w), NEW m \in 0..Len(w),
         NEW q, Left(q, f, w, m), s_nullish(q)
  PROVE  m = Len(w) \/ (m + 1 = Len(w) /\ w[m + 1] = <<>>)
<1>1. PICK L \in Nat : L = Len(w)
  OBVIOUS
<1>2. SUFFICES ASSUME m # L PROVE m + 1 = L /\ w[m + 1] = <<>>
  BY <1>1, Zenon
<1>3. PICK p \in Nat : p = m + 1 /\ p \in 1..L /\ m < L
  BY <1>1, <1>2
<1>4. w[p] \in Seq(QueryChars)
  <2>1. w[p] \in Settings
    BY <1>1, <1>3
  <2>2. QED
    BY <2>1, SettingsAssumption, Zenon
<1>5. /\ f[p] \in Seq(QueryChars) /\ (p + 1 \in 1..L => f[p + 1] \in Seq(QueryChars))
      /\ f[p] = IF p = L THEN w[p] ELSE w[p] \o <<"&">> \o f[p + 1]
  <2>1. f \in [1..L -> Seq(QueryChars)]
    BY <1>1, Zenon DEF Tails
  <2>2. QED
    BY <1>1, <1>3, <2>1, Zenon DEF Tails
<1>6. f[p] = <<>>
  <2>1. q = f[p] \/ q = OrNull(f[p])
    BY <1>1, <1>3, Zenon DEF Left
  <2>2. q = NULL \/ q = <<>>
    BY Zenon DEF s_nullish
  <2>3. NULL \notin Seq(QueryChars)
    BY SettingsAssumption, Zenon
  <2>4. QED
    BY <1>5, <2>1, <2>2, <2>3, Zenon DEF OrNull
<1>7. p = L
  <2> SUFFICES ASSUME p # L PROVE FALSE
    BY Zenon
  <2>1. p + 1 \in 1..L
    BY <1>3
  <2>2. f[p] = w[p] \o <<"&">> \o f[p + 1] /\ f[p + 1] \in Seq(QueryChars)
    BY <1>5, <2>1, Zenon
  <2>3. PICK x \in Seq(QueryChars) : x = f[p + 1]
    BY <2>2, Zenon
  <2>4. PICK y \in Seq(QueryChars) : y = w[p]
    BY <1>4, Zenon
  <2>5. "&" \in QueryChars
    BY Zenon DEF QueryChars
  <2> HIDE DEF QueryChars
  <2>6. y \o <<"&">> \o x # <<>>
    BY <2>5
  <2>7. QED
    BY <1>6, <2>2, <2>3, <2>4, <2>6, Zenon
<1>8. QED
  BY <1>3, <1>5, <1>6, <1>7, Zenon

-----------------------------------------------------------------------------
(* The inductive invariant of the parser. *)

\* While the query string is written nothing is parsed; then what is left is a
\* tail of what was written, and the table holds the settings in front of it.
QueryInv ==
  /\ written \in Seq(Settings)
  /\ \E f : /\ Tails(f, written)
            /\ qPc = "write" =>
                 /\ queries = NoQueries
                 /\ query = IF written = <<>> THEN NULL ELSE f[1]
            /\ qPc = "parse" =>
                 \E m \in 0..Len(written) :
                   Left(query, f, written, m) /\ Tabled(queries, written, m)
  /\ qPc = "done" => Tabled(queries, written, Len(written))
  /\ qPc = "crashed" => EmptyInside

\* No setting, no entry.
LEMMA NothingTabled ==
  ASSUME NEW w PROVE Tabled(NoQueries, w, 0)
<1>1. DOMAIN NoQueries = {}
  BY Zenon DEF NoQueries
<1>2. \A n : n \notin 1..0
  OBVIOUS
<1>3. \A key : CountedIn(w, 0, key) = {}
  BY <1>2, Zenon DEF CountedIn
<1>4. QED
  BY <1>1, <1>3, Zenon DEF Tabled

\* The empty setting is passed over.
LEMMA EmptyDoesNotCount == ~Counts(<<>>)
<1>1. ~ \E i \in 1..Len(<<>>) : TRUE
  OBVIOUS
<1>2. QED
  BY <1>1, Zenon DEF Counts, Contains

\* At the start there is no query string.
LEMMA QueryStarts == QueryInit => QueryInv
<1> SUFFICES ASSUME QueryInit PROVE QueryInv
  OBVIOUS
<1>1. written = <<>> /\ qPc = "write" /\ query = NULL /\ queries = NoQueries
  BY Zenon DEF QueryInit
<1>2. <<>> \in Seq(Settings) /\ \A i : i \notin 1..Len(<<>>)
  OBVIOUS
<1> DEFINE f == [i \in 1..Len(<<>>) |-> <<>>]
<1>3. Tails(f, <<>>)
  <2>1. f \in [1..Len(<<>>) -> Seq(QueryChars)]
    BY <1>2, Zenon
  <2> HIDE DEF f
  <2>2. QED
    BY <1>2, <2>1, Zenon DEF Tails
<1>4. "write" # "parse" /\ "write" # "done" /\ "write" # "crashed"
  OBVIOUS
<1> HIDE DEF f
<1>5. QED
  BY <1>1, <1>2, <1>3, <1>4, Zenon DEF QueryInv

\* A setting is written, the whole is taken, or a setting is parsed.
LEMMA QueryStep == QueryInv /\ [QueryNext]_queryVars => QueryInv'
<1> SUFFICES ASSUME QueryInv, [QueryNext]_queryVars PROVE QueryInv'
  OBVIOUS
<1>1. PICK f : /\ Tails(f, written)
               /\ qPc = "write" =>
                    /\ queries = NoQueries
                    /\ query = IF written = <<>> THEN NULL ELSE f[1]
               /\ qPc = "parse" =>
                    \E m \in 0..Len(written) :
                      Left(query, f, written, m) /\ Tabled(queries, written, m)
  BY Zenon DEF QueryInv
<1>2. written \in Seq(Settings)
  BY Zenon DEF QueryInv
<1>3. /\ "write" # "parse" /\ "write" # "done" /\ "write" # "crashed"
      /\ "parse" # "done" /\ "parse" # "crashed" /\ "done" # "crashed"
  OBVIOUS
<1>4. ASSUME NEW setting \in Settings, WriteSetting(setting) PROVE QueryInv'
  <2>1. /\ qPc = "write" /\ qPc' = "write" /\ queries' = queries
        /\ written' = Append(written, setting)
        /\ query' = IF written = <<>> THEN setting ELSE query \o <<"&">> \o setting
    BY <1>4, Zenon DEF WriteSetting
  <2>2. PICK g : /\ Tails(g, Append(written, setting)) /\ 1 \in DOMAIN g
                 /\ g[1] = IF written = <<>> THEN setting ELSE f[1] \o <<"&">> \o setting
    BY <1>1, <1>2, TailsGrow, Zenon
  <2>3. Append(written, setting) \in Seq(Settings) /\ Append(written, setting) # <<>>
    BY <1>2, <1>4, AppendProperties
  <2>4. query' = g[1] /\ queries' = NoQueries
    BY <1>1, <2>1, <2>2, Zenon
  <2>5. Tails(g, written') /\ written' \in Seq(Settings) /\ written' # <<>>
    BY <2>1, <2>2, <2>3, Zenon
  <2>6. QED
    BY <1>3, <2>1, <2>4, <2>5, Zenon DEF QueryInv
<1>5. CASE SendQuery
  <2>1. /\ qPc = "write" /\ qPc' = "parse"
        /\ written' = written /\ query' = query /\ queries' = queries
    BY <1>5, Zenon DEF SendQuery
  <2>2. Tabled(queries, written, 0)
    BY <1>1, <2>1, NothingTabled, Zenon
  <2>3. 0 \in 0..Len(written) /\ (written = <<>> <=> 0 = Len(written)) /\ 0 + 1 = 1
        /\ (0 < Len(written) => written # <<>>)
    BY <1>2
  <2>4. Left(query, f, written, 0)
    BY <1>1, <2>1, <2>3, Zenon DEF Left
  <2>5. \E m \in 0..Len(written) : Left(query, f, written, m) /\ Tabled(queries, written, m)
    BY <2>2, <2>3, <2>4, Zenon
  <2>6. \E m \in 0..Len(written') :
          Left(query', f, written', m) /\ Tabled(queries', written', m)
    BY <2>1, <2>5, Zenon
  <2>7. Tails(f, written') /\ written' \in Seq(Settings)
    BY <1>1, <1>2, <2>1, Zenon
  <2>8. QED
    BY <1>3, <2>1, <2>6, <2>7, Zenon DEF QueryInv
<1>6. CASE ParseSetting
  <2> DEFINE pair == str_cut(query, "&")
  <2>1. /\ qPc = "parse" /\ ~s_nullish(query) /\ written' = written
        /\ IF pair[1] = NULL
           THEN qPc' = "crashed"
           ELSE query' = pair[2] /\ queries' = AddSetting(pair[1]) /\ qPc' = qPc
    BY <1>6, Zenon DEF ParseSetting
  <2>2. PICK m \in 0..Len(written) : Left(query, f, written, m) /\ Tabled(queries, written, m)
    BY <1>1, <2>1, Zenon
  <2>3. /\ m + 1 \in 1..Len(written)
        /\ pair[1] = NULL => m + 1 \in 1 .. Len(written) - 1 /\ written[m + 1] = <<>>
        /\ pair[1] # NULL => pair[1] = written[m + 1] /\ Left(pair[2], f, written, m + 1)
    BY <1>1, <1>2, <2>1, <2>2, NextSetting, Zenon
  <2>4. Tails(f, written') /\ written' \in Seq(Settings)
    BY <1>1, <1>2, <2>1, Zenon
  <2> HIDE DEF pair
  <2>5. CASE pair[1] = NULL
    <3>1. EmptyInside'
      BY <2>1, <2>3, <2>5, Zenon DEF EmptyInside
    <3>2. qPc' = "crashed"
      BY <2>1, <2>5, Zenon
    <3>3. QED
      BY <1>3, <2>4, <3>1, <3>2, Zenon DEF QueryInv
  <2>6. CASE pair[1] # NULL
    <3>1. PICK s : s = written[m + 1] /\ s = pair[1]
      BY <2>3, <2>6, Zenon
    <3>2. s \in Settings
      <4>1. \A i \in 1..Len(written) : written[i] \in Settings
        BY <1>2
      <4>2. QED
        BY <2>3, <3>1, <4>1, Zenon
    <3>3. s \in Seq(QueryChars)
      BY <3>2, SettingsAssumption, Zenon
    <3>4. m \in Nat
      BY <2>2
    <3>5. Tabled(AddSetting(s), written, m + 1)
      <4>1. CASE Counts(s)
        <5>1. /\ AddSetting(s) = PutQuery(queries, Decoded(KeyOf(s)), Decoded(ValueOf(s)))
              /\ Decoded(ValueOf(s)) \in Seq(QueryChars)
          BY <3>3, <4>1, AddSettingIs, Zenon
        <5>2. Tabled(PutQuery(queries, Decoded(KeyOf(s)), Decoded(ValueOf(s))), written, m + 1)
          BY <2>2, <3>1, <3>4, <4>1, <5>1, PutKeepsTable, Zenon
        <5>3. QED
          BY <5>1, <5>2, Zenon
      <4>2. CASE ~Counts(s)
        <5>1. AddSetting(s) = queries
          BY <3>3, <4>2, AddSettingIs, Zenon
        <5>2. Tabled(queries, written, m + 1)
          BY <2>2, <3>1, <3>4, <4>2, PassedOver, Zenon
        <5>3. QED
          BY <5>1, <5>2, Zenon
      <4>3. QED
        BY <4>1, <4>2, Zenon
    <3>6. m + 1 \in 0..Len(written)
      BY <1>2, <2>3
    <3>7. queries' = AddSetting(s) /\ query' = pair[2] /\ qPc' = "parse"
      BY <2>1, <2>6, <3>1, Zenon
    <3>8. Left(query', f, written', m + 1) /\ Tabled(queries', written', m + 1)
          /\ m + 1 \in 0..Len(written')
      BY <2>1, <2>3, <2>6, <3>5, <3>6, <3>7, Zenon
    <3>9. \E n \in 0..Len(written') :
            Left(query', f, written', n) /\ Tabled(queries', written', n)
      BY <3>8, Zenon
    <3>10. QED
      BY <1>3, <2>4, <3>7, <3>9, Zenon DEF QueryInv
  <2>7. QED
    BY <2>5, <2>6, Zenon
<1>7. CASE ParseEnds
  <2>1. /\ qPc = "parse" /\ s_nullish(query) /\ qPc' = "done"
        /\ written' = written /\ query' = query /\ queries' = queries
    BY <1>7, Zenon DEF ParseEnds
  <2>2. PICK m \in 0..Len(written) : Left(query, f, written, m) /\ Tabled(queries, written, m)
    BY <1>1, <2>1, Zenon
  <2>3. m = Len(written) \/ (m + 1 = Len(written) /\ written[m + 1] = <<>>)
    BY <1>1, <1>2, <2>1, <2>2, NothingLeft, Zenon
  <2>4. Tabled(queries, written, Len(written))
    <3>1. CASE m = Len(written)
      BY <2>2, <3>1, Zenon
    <3>2. CASE m + 1 = Len(written) /\ written[m + 1] = <<>>
      <4>1. ~Counts(written[m + 1])
        BY <3>2, EmptyDoesNotCount, Zenon
      <4>2. m \in Nat
        BY <2>2
      <4>3. Tabled(queries, written, m + 1)
        BY <2>2, <4>1, <4>2, PassedOver, Zenon
      <4>4. QED
        BY <3>2, <4>3, Zenon
    <3>3. QED
      BY <2>3, <3>1, <3>2, Zenon
  <2>5. Tabled(queries', written', Len(written')) /\ Tails(f, written')
        /\ written' \in Seq(Settings)
    BY <1>1, <1>2, <2>1, <2>4, Zenon
  <2>6. QED
    BY <1>3, <2>1, <2>5, Zenon DEF QueryInv
<1>8. CASE UNCHANGED queryVars
  <2>1. qPc' = qPc /\ written' = written /\ query' = query /\ queries' = queries
    BY <1>8, Zenon DEF queryVars
  <2>2. EmptyInside => EmptyInside'
    BY <2>1, Zenon DEF EmptyInside
  <2>3. /\ qPc' = "done" => Tabled(queries', written', Len(written'))
        /\ qPc' = "crashed" => EmptyInside'
    BY <2>1, <2>2, Zenon DEF QueryInv
  <2>4. /\ Tails(f, written') /\ written' \in Seq(Settings)
        /\ qPc' = "write" => /\ queries' = NoQueries
                             /\ query' = IF written' = <<>> THEN NULL ELSE f[1]
        /\ qPc' = "parse" =>
             \E m \in 0..Len(written') :
               Left(query', f, written', m) /\ Tabled(queries', written', m)
    BY <1>1, <1>2, <2>1, Zenon
  <2>5. QED
    BY <2>3, <2>4, Zenon DEF QueryInv
<1>9. QED
  BY <1>4, <1>5, <1>6, <1>7, <1>8, Zenon DEF QueryNext, QueryEnd

\* With nothing left the table holds all settings.
LEMMA QueryInvSays == QueryInv => QueriesAsWritten
<1> SUFFICES ASSUME QueryInv PROVE QueriesAsWritten
  OBVIOUS
<1>1. SUFFICES ASSUME qPc = "done", NEW key
               PROVE  /\ ys_req_num_queries(key) = Cardinality(CountedFor(key))
                      /\ \A n \in CountedFor(key) :
                           ys_req_get_query(key)[Cardinality({i \in CountedFor(key) : i <= n})]
                             = Decoded(ValueOf(written[n]))
  <2>1. ~EmptyInside => qPc # "crashed"
    BY Zenon DEF QueryInv
  <2>2. QED
    BY <1>1, <2>1, Zenon DEF QueriesAsWritten
<1>2. PICK L \in Nat : L = Len(written) /\ DOMAIN written = 1..L
  <2>1. written \in Seq(Settings)
    BY Zenon DEF QueryInv
  <2>2. QED
    BY <2>1
<1>3. Tabled(queries, written, L)
  BY <1>1, <1>2, Zenon DEF QueryInv
<1> DEFINE C == CountedIn(written, L, key)
<1>4. CountedFor(key) = C
  BY <1>2, Zenon DEF CountedFor, CountedIn
<1>5. C \subseteq Int /\ IsFiniteSet(C)
  BY <1>2, CountedIs, Zenon
<1>6. CASE key \notin DOMAIN queries
  <2>1. C = {}
    BY <1>3, <1>6, Zenon DEF Tabled
  <2> HIDE DEF C
  <2>2. Cardinality(C) = 0
    BY <2>1, FS_EmptySet, Zenon
  <2>3. QED
    BY <1>4, <1>6, <2>1, <2>2, Zenon DEF ys_req_num_queries, ys_req_has_query
<1>7. CASE key \in DOMAIN queries
  <2>1. /\ Len(queries[key]) = Cardinality(C)
        /\ \A n \in C : queries[key][Rank(C, n) + 1] = Decoded(ValueOf(written[n]))
    BY <1>3, <1>7, Zenon DEF Tabled
  <2> HIDE DEF C
  <2>2. ASSUME NEW n \in C PROVE Cardinality({i \in C : i <= n}) = Rank(C, n) + 1
    <3>1. n \in Int /\ (\A i : i \in C => i \in Int)
      BY <1>5, Zenon
    <3>2. \A i \in C : i <= n <=> i < n + 1
      BY <3>1
    <3>3. \A i : i \in {j \in C : j <= n} <=> i \in {j \in C : j < n + 1}
      BY <3>2, Zenon
    <3>4. {i \in C : i <= n} = {j \in C : j < n + 1}
      BY <3>3, Zenon
    <3>5. Rank(C, n + 1) = Rank(C, n) + 1
      BY <1>5, <2>2, <3>1, RankIs, Zenon
    <3>6. QED
      BY <3>4, <3>5, Zenon DEF Rank
  <2>3. QED
    BY <1>4, <1>7, <2>1, <2>2, Zenon
      DEF ys_req_num_queries, ys_req_has_query, ys_req_get_query
<1>8. QED
  BY <1>6, <1>7, Zenon

\* Whatever the client wrote: what ys_req_num_queries, ys_req_has_query and
\* ys_req_get_query answer is what the settings of its query string say.
THEOREM QueriesParsed == QuerySpec => []QueriesAsWritten
  BY QueryStarts, QueryStep, QueryInvSays, PTL DEF QuerySpec

-----------------------------------------------------------------------------
(* Fields of a text. *)

\* Where the fields of a text end, with the places before and behind the text.
Ends(s, c) == {0, Len(s) + 1} \cup {j \in DOMAIN s : s[j] = c}

\* Every number below the size of a set is the rank of one of its elements.
LEMMA RankReached ==
  ASSUME NEW b \in Nat, NEW K, IsFiniteSet(K), K \subseteq 0..b,
         NEW n \in Nat, n < Cardinality(K)
  PROVE  \E x \in K : Rank(K, x) = n
<1>1. K \subseteq Int /\ \A x \in K : x \in Nat
  OBVIOUS
<1>2. \A x \in Nat : /\ Rank(K, x) \in Nat
                     /\ x \notin K => Rank(K, x + 1) = Rank(K, x)
                     /\ x \in K => Rank(K, x + 1) = Rank(K, x) + 1
  <2>1. \A x \in Nat : x \in Int
    OBVIOUS
  <2>2. QED
    BY <1>1, <2>1, RankIs, Zenon
<1>3. Rank(K, 0) = 0
  <2>1. \A y \in K : ~ (y < 0)
    BY <1>1
  <2>2. 0 \in Int
    OBVIOUS
  <2>3. QED
    BY <1>1, <2>1, <2>2, RankIs, Zenon
<1>4. SUFFICES ASSUME \A x \in K : Rank(K, x) # n PROVE FALSE
  OBVIOUS
<1> DEFINE P(x) == Rank(K, x) <= n
<1>5. P(0)
  BY <1>3
<1>6. \A x \in Nat : P(x) => P(x + 1)
  <2> SUFFICES ASSUME NEW x \in Nat, Rank(K, x) <= n PROVE Rank(K, x + 1) <= n
    OBVIOUS
  <2>1. CASE x \in K
    BY <1>2, <1>4, <2>1
  <2>2. CASE x \notin K
    BY <1>2, <2>2
  <2>3. QED
    BY <2>1, <2>2
<1> HIDE DEF P
<1>7. P(b + 1)
  <2> DEFINE A == {x \in Nat : P(x)}
  <2>1. 0 \in A /\ \A x \in 0 .. (b + 1) - 1 : x \in A => x + 1 \in A
    BY <1>5, <1>6
  <2>2. b + 1 \in Nat
    OBVIOUS
  <2> HIDE DEF A
  <2>3. 0 .. b + 1 \subseteq A
    BY <2>1, <2>2, NatInductionIn, Zenon
  <2>4. b + 1 \in 0 .. b + 1
    OBVIOUS
  <2>5. QED
    BY <2>3, <2>4, Zenon DEF A
<1>8. b + 1 \in Int /\ \A y \in K : y < b + 1
  BY <1>1
<1>9. Rank(K, b + 1) = Cardinality(K)
  BY <1>1, <1>8, RankIs, Zenon
<1>10. Cardinality(K) <= n
  BY <1>7, <1>9, Zenon DEF P
<1>11. QED
  BY <1>10, FS_CardinalityType

\* What the ends of the fields are.
LEMMA EndsAre ==
  ASSUME NEW S, NEW s \in Seq(S), NEW c
  PROVE  /\ Ends(s, c) \subseteq 0 .. Len(s) + 1 /\ Ends(s, c) \subseteq Int
         /\ IsFiniteSet(Ends(s, c)) /\ Cardinality(Ends(s, c)) \in Nat
         /\ \A j \in 1..Len(s) : j \in Ends(s, c) <=> s[j] = c
         /\ 0 \in Ends(s, c) /\ Len(s) + 1 \in Ends(s, c)
<1>1. PICK L \in Nat : L = Len(s) /\ DOMAIN s = 1..L
  BY LenProperties
<1> DEFINE K == Ends(s, c)
<1>2. K = {0, L + 1} \cup {j \in 1..L : s[j] = c}
  BY <1>1, Zenon DEF Ends
<1> HIDE DEF K
<1>3. K \subseteq 0 .. L + 1 /\ K \subseteq Int /\ K \in SUBSET (0 .. L + 1)
  BY <1>2
<1>4. IsFiniteSet(K)
  <2>1. IsFiniteSet(0 .. L + 1)
    BY FS_Interval
  <2>2. QED
    BY <1>3, <2>1, FS_Subset, Zenon
<1>5. Cardinality(K) \in Nat
  BY <1>4, FS_CardinalityType, Zenon
<1>6. 0 \in K /\ L + 1 \in K
  BY <1>2, Zenon
<1>7. \A j \in 1..L : j \in K <=> s[j] = c
  <2>1. \A j \in 1..L : j # 0 /\ j # L + 1
    OBVIOUS
  <2>2. QED
    BY <1>2, <2>1, Zenon
<1>8. QED
  BY <1>1, <1>3, <1>4, <1>5, <1>6, <1>7, Zenon DEF K

\* A field lies between two neighbours among the ends.
LEMMA FieldIs ==
  ASSUME NEW S, NEW s \in Seq(S), NEW c
  PROVE  /\ Len(Fields(s, c)) = Cardinality(Ends(s, c)) - 1
         /\ DOMAIN Fields(s, c) = 1 .. Cardinality(Ends(s, c)) - 1
         /\ Cardinality(Ends(s, c)) - 1 \in Nat \ {0}
         /\ \A x \in Ends(s, c), y \in Ends(s, c) :
              Rank(Ends(s, c), y) = Rank(Ends(s, c), x) + 1 =>
                /\ Rank(Ends(s, c), x) + 1 \in 1 .. Cardinality(Ends(s, c)) - 1
                /\ Fields(s, c)[Rank(Ends(s, c), x) + 1] = SubSeq(s, x + 1, y - 1)
<1> DEFINE K == Ends(s, c)
           at == InOrder(K)
           F == Fields(s, c)
<1>1. /\ K \subseteq Int /\ IsFiniteSet(K) /\ Cardinality(K) \in Nat
      /\ 0 \in K /\ Len(s) + 1 \in K
  BY EndsAre, Zenon
<1>2. PICK k \in Nat : k = Cardinality(K)
  BY <1>1, Zenon
<1>3. Len(at) = k
  BY <1>2, TableIsSeq DEF InOrder
<1>4. F = [n \in 1 .. Len(at) - 1 |-> SubSeq(s, at[n] + 1, at[n + 1] - 1)]
  BY Zenon DEF Fields, Ends
<1> HIDE DEF K
<1>5. \A x, n : x \in K /\ n = Rank(K, x) + 1 => n \in 1..k /\ at[n] = x
  BY <1>1, <1>2, InOrderIs, Zenon
<1> HIDE DEF at, F
<1>6. \A x \in K : Rank(K, x) \in Nat /\ Rank(K, x) + 1 \in 1..k
  <2>1. \A x \in K : x \in Int
    BY <1>1
  <2>2. QED
    BY <1>1, <1>5, <2>1, RankIs, Zenon
<1>7. k - 1 \in Nat \ {0}
  <2>1. Rank(K, 0) # Rank(K, Len(s) + 1)
    <3>1. 0 < Len(s) + 1
      OBVIOUS
    <3>2. Rank(K, 0) < Rank(K, Len(s) + 1)
      BY <1>1, <3>1, RankGrows, Zenon
    <3>3. QED
      BY <1>1, <1>6, <3>2
  <2>2. Rank(K, 0) \in Nat /\ Rank(K, Len(s) + 1) \in Nat
        /\ Rank(K, 0) + 1 \in 1..k /\ Rank(K, Len(s) + 1) + 1 \in 1..k
    BY <1>1, <1>6, Zenon
  <2>3. QED
    BY <2>1, <2>2
<1>8. PICK h \in Nat : h = k - 1 /\ h # 0
  BY <1>7
<1>9. F = [n \in 1 .. h |-> SubSeq(s, at[n] + 1, at[n + 1] - 1)]
  BY <1>3, <1>4, <1>8, Zenon
<1>10. Len(F) = h /\ DOMAIN F = 1..h
  BY <1>9, TableIsSeq
<1>11. ASSUME NEW x \in K, NEW y \in K, Rank(K, y) = Rank(K, x) + 1
       PROVE  /\ Rank(K, x) + 1 \in 1..h
              /\ F[Rank(K, x) + 1] = SubSeq(s, x + 1, y - 1)
  <2>1. PICK n \in Nat : n = Rank(K, x) + 1
    BY <1>6
  <2>2. n + 1 \in 1..k
    BY <1>6, <1>11, <2>1, Zenon
  <2>3. n \in 1..h
    BY <1>6, <1>8, <2>1, <2>2
  <2>4. at[n] = x /\ at[n + 1] = y
    BY <1>5, <1>11, <2>1, Zenon
  <2>5. F[n] = SubSeq(s, at[n] + 1, at[n + 1] - 1)
    BY <1>9, <2>3, Zenon
  <2>6. QED
    BY <2>1, <2>3, <2>4, <2>5, Zenon
<1>12. QED
  BY <1>2, <1>8, <1>10, <1>11, Zenon DEF K, F

\* A text without c is one field.
LEMMA FieldsOne ==
  ASSUME NEW S, NEW s \in Seq(S), NEW c, ~Contains(s, c)
  PROVE  Len(Fields(s, c)) = 1 /\ DOMAIN Fields(s, c) = 1..1 /\ Fields(s, c)[1] = s
<1> DEFINE K == Ends(s, c)
<1>1. PICK L \in Nat : L = Len(s) /\ DOMAIN s = 1..L
  BY LenProperties
<1>2. \A j \in 1..L : s[j] # c
  BY <1>1, Zenon DEF Contains
<1>3. K = {0, L + 1}
  BY <1>1, <1>2, Zenon DEF Ends
<1>4. K \subseteq Int /\ IsFiniteSet(K) /\ 0 \in K /\ L + 1 \in K
  BY <1>1, EndsAre, Zenon
<1> HIDE DEF K
<1>5. Rank(K, 0) = 0
  <2>1. 0 \in Int /\ \A y \in K : ~ (y < 0)
    BY <1>3
  <2>2. QED
    BY <1>4, <2>1, RankIs, Zenon
<1>6. Rank(K, L + 1) = 1 /\ Cardinality(K) = 2
  <2>1. {y \in K : y < L + 1} = {0}
    BY <1>3
  <2>2. Cardinality({0}) = 1
    BY FS_Singleton
  <2>3. Rank(K, L + 1) = 1
    BY <2>1, <2>2, Zenon DEF Rank
  <2>4. L + 1 \in Int /\ L + 2 \in Int /\ (\A y \in K : y < L + 2) /\ (L + 1) + 1 = L + 2
    BY <1>3
  <2>5. Rank(K, L + 2) = Rank(K, L + 1) + 1
    BY <1>4, <2>4, RankIs, Zenon
  <2>6. Rank(K, L + 2) = Cardinality(K)
    BY <1>4, <2>4, RankIs, Zenon
  <2>7. QED
    BY <2>3, <2>5, <2>6
<1>7. 1 = 0 + 1 /\ 2 - 1 = 1 /\ (L + 1) - 1 = L
  OBVIOUS
<1>8. Len(Fields(s, c)) = 2 - 1 /\ DOMAIN Fields(s, c) = 1 .. 2 - 1
  BY <1>6, FieldIs, Zenon DEF K
<1>9. Fields(s, c)[0 + 1] = SubSeq(s, 0 + 1, (L + 1) - 1)
  <2>1. Rank(K, L + 1) = Rank(K, 0) + 1
    BY <1>5, <1>6
  <2>2. Fields(s, c)[Rank(K, 0) + 1] = SubSeq(s, 0 + 1, (L + 1) - 1)
    BY <1>4, <2>1, FieldIs, ZenonT(60) DEF K
  <2>3. QED
    BY <1>5, <2>2, Zenon
<1>10. SubSeq(s, 1, L) = s
  BY <1>1
<1>11. QED
  BY <1>7, <1>8, <1>9, <1>10

\* FieldIs for a pair of neighbours.
LEMMA FieldBetween ==
  ASSUME NEW S, NEW s \in Seq(S), NEW c, NEW K, K = Ends(s, c), NEW x \in K, NEW y \in K,
         NEW n, n = Rank(K, x) + 1, Rank(K, y) = n
  PROVE  Fields(s, c)[n] = SubSeq(s, x + 1, y - 1)
<1>1. /\ Len(Fields(s, c)) = Cardinality(Ends(s, c)) - 1
      /\ DOMAIN Fields(s, c) = 1 .. Cardinality(Ends(s, c)) - 1
      /\ Cardinality(Ends(s, c)) - 1 \in Nat \ {0}
      /\ \A a \in Ends(s, c), b \in Ends(s, c) :
           Rank(Ends(s, c), b) = Rank(Ends(s, c), a) + 1 =>
             /\ Rank(Ends(s, c), a) + 1 \in 1 .. Cardinality(Ends(s, c)) - 1
             /\ Fields(s, c)[Rank(Ends(s, c), a) + 1] = SubSeq(s, a + 1, b - 1)
  BY FieldIs
<1>2. QED
  BY <1>1, Zenon

\* A part of a rest of a text is a part of the text.
LEMMA SubSeqOfRest ==
  ASSUME NEW S, NEW s \in Seq(S), NEW t \in Seq(S), NEW i \in Nat,
         NEW L \in Nat, L = Len(s), NEW M \in Nat, M = Len(t), M + i = L,
         \A j \in 1..M : t[j] = s[j + i],
         NEW x \in Nat, NEW y \in Nat, x < y, y <= M + 1
  PROVE  SubSeq(s, (x + i) + 1, (y + i) - 1) = SubSeq(t, x + 1, y - 1)
<1>1. PICK p \in Nat, q \in Nat : p = (x + i) + 1 /\ q = (y + i) - 1
  OBVIOUS
<1>2. PICK u \in Nat, v \in Nat : u = x + 1 /\ v = y - 1
  OBVIOUS
<1>3. PICK k \in Nat : k = v - u + 1 /\ k = q - p + 1
  BY <1>1, <1>2
<1>4. p >= 1 /\ q <= L /\ p <= q + 1
  BY <1>1
<1>5. \A j \in 1..k : j + x \in 1..M /\ u + j - 1 = j + x /\ p + j - 1 = (j + x) + i
  BY <1>1, <1>2, <1>3
<1>6. \A j \in u..v : j \in 1..M
  BY <1>2
<1>7. \A j \in u..v : t[j] \in S
  <2>1. \A j \in 1..Len(t) : t[j] \in S
    BY ElementOfSeq
  <2>2. QED
    BY <1>6, <2>1, Zenon
<1>8. u \in Int /\ v \in Int
  OBVIOUS
<1>9. /\ SubSeq(t, u, v) \in Seq(S)
      /\ Len(SubSeq(t, u, v)) = IF u <= v THEN v - u + 1 ELSE 0
      /\ \A j \in 1 .. v - u + 1 : SubSeq(t, u, v)[j] = t[u + j - 1]
  BY <1>7, <1>8, SubSeqProperties
<1>10. PICK r \in Seq(S) : r = SubSeq(t, u, v)
  BY <1>9, Zenon
<1>11. Len(r) = k
  <2>1. Len(r) = IF u <= v THEN v - u + 1 ELSE 0
    BY <1>9, <1>10, Zenon
  <2>2. (IF u <= v THEN v - u + 1 ELSE 0) = k
    BY <1>2, <1>3
  <2>3. QED
    BY <2>1, <2>2, Zenon
<1>12. \A j \in 1..k : r[j] = s[p + j - 1]
  <2>1. \A j \in 1..k : r[j] = t[u + j - 1]
    BY <1>3, <1>9, <1>10, Zenon
  <2>2. \A j \in 1..k : t[j + x] = s[(j + x) + i]
    BY <1>5, Zenon
  <2>3. QED
    BY <1>5, <2>1, <2>2, Zenon
<1>13. Len(r) = q - p + 1 /\ q <= Len(s) /\ \A j \in 1 .. q - p + 1 : r[j] = s[p + j - 1]
  BY <1>3, <1>4, <1>11, <1>12, Zenon
<1>14. SubSeq(s, p, q) = r
  BY <1>4, <1>13, SubSeqIs, Zenon
<1>15. QED
  BY <1>1, <1>2, <1>10, <1>14, Zenon

\* The first c of s is at i, and t is what is behind it.
CutAt(s, c, i, t) ==
  /\ s[i] = c /\ \A j \in 1 .. i - 1 : s[j] # c
  /\ Len(t) = Len(s) - i /\ \A j \in 1..Len(t) : t[j] = s[j + i]

\* Behind the first c are the fields of the rest.
LEMMA FieldsCut ==
  ASSUME NEW S, NEW s \in Seq(S), NEW c, NEW i \in 1..Len(s), NEW t \in Seq(S),
         CutAt(s, c, i, t)
  PROVE  /\ Len(Fields(s, c)) = Len(Fields(t, c)) + 1
         /\ DOMAIN Fields(s, c) = 1 .. Len(Fields(t, c)) + 1
         /\ Fields(s, c)[1] = SubSeq(s, 1, i - 1)
         /\ \A n \in 1..Len(Fields(t, c)) : Fields(s, c)[n + 1] = Fields(t, c)[n]
<1> DEFINE K == Ends(s, c)
           J == Ends(t, c)
<1>1. PICK L \in Nat, M \in Nat : L = Len(s) /\ M = Len(t) /\ i \in 1..L
  BY LenProperties
<1>2. /\ K \subseteq 0 .. L + 1 /\ K \subseteq Int /\ IsFiniteSet(K)
      /\ \A j \in 1..L : j \in K <=> s[j] = c
      /\ 0 \in K /\ L + 1 \in K /\ Cardinality(K) \in Nat
  BY <1>1, EndsAre, Zenon
<1>3. /\ J \subseteq 0 .. M + 1 /\ J \subseteq Int /\ IsFiniteSet(J)
      /\ \A j \in 1..M : j \in J <=> t[j] = c
      /\ 0 \in J /\ M + 1 \in J /\ Cardinality(J) \in Nat
  BY <1>1, EndsAre, Zenon
<1>4. \A x \in Nat, y \in Nat : M + i = L /\ (\A j \in 1..M : t[j] = s[j + i])
         /\ x < y /\ y <= M + 1 =>
           SubSeq(s, (x + i) + 1, (y + i) - 1) = SubSeq(t, x + 1, y - 1)
  <2>1. i \in Nat
    OBVIOUS
  <2> SUFFICES ASSUME NEW x \in Nat, NEW y \in Nat, M + i = L,
                      \A j \in 1..M : t[j] = s[j + i], x < y, y <= M + 1
               PROVE  SubSeq(s, (x + i) + 1, (y + i) - 1) = SubSeq(t, x + 1, y - 1)
    OBVIOUS
  <2>2. QED
    BY <1>1, <2>1, SubSeqOfRest
<1>5. \A x, y, n : x \in K /\ y \in K /\ n = Rank(K, x) + 1 /\ Rank(K, y) = n =>
         Fields(s, c)[n] = SubSeq(s, x + 1, y - 1)
  <2> SUFFICES ASSUME NEW x, NEW y, NEW n, x \in K, y \in K, n = Rank(K, x) + 1, Rank(K, y) = n
               PROVE  Fields(s, c)[n] = SubSeq(s, x + 1, y - 1)
    OBVIOUS
  <2>1. K = Ends(s, c)
    OBVIOUS
  <2> HIDE DEF K
  <2>2. QED
    BY <2>1, FieldBetween
<1>6. \A x, y, n : x \in J /\ y \in J /\ n = Rank(J, x) + 1 /\ Rank(J, y) = n =>
         Fields(t, c)[n] = SubSeq(t, x + 1, y - 1)
  <2> SUFFICES ASSUME NEW x, NEW y, NEW n, x \in J, y \in J, n = Rank(J, x) + 1, Rank(J, y) = n
               PROVE  Fields(t, c)[n] = SubSeq(t, x + 1, y - 1)
    OBVIOUS
  <2>1. J = Ends(t, c)
    OBVIOUS
  <2> HIDE DEF J
  <2>2. QED
    BY <2>1, FieldBetween
<1> HIDE DEF K, J
<1>7. /\ M = L - i /\ \A j \in 1..M : t[j] = s[j + i]
      /\ s[i] = c /\ \A j \in 1 .. i - 1 : s[j] # c
  BY <1>1, Zenon DEF CutAt
<1>8. M = L - i /\ i \in Nat /\ 1 <= i /\ i <= L /\ M + i = L
  BY <1>1, <1>7
<1>9. s[i] = c /\ \A j \in 1 .. i - 1 : s[j] # c
  BY <1>7, Zenon
<1>10. \A x \in 0 .. M + 1 : x \in J <=> x + i \in K
  <2> SUFFICES ASSUME NEW x \in 0 .. M + 1 PROVE x \in J <=> x + i \in K
    OBVIOUS
  <2>1. CASE x = 0
    BY <1>1, <1>9, <1>8, <1>2, <1>3, <2>1
  <2>2. CASE x = M + 1
    <3>1. x + i = L + 1
      BY <1>8, <2>2
    <3>2. QED
      BY <1>2, <1>3, <2>2, <3>1, Zenon
  <2>3. CASE x \in 1..M
    <3>1. x + i \in 1..L
      BY <1>8, <2>3
    <3>2. QED
      BY <1>7, <1>2, <1>3, <2>3, <3>1, Zenon
  <2>4. QED
    BY <2>1, <2>2, <2>3
<1>11. Rank(K, 0) = 0 /\ Rank(J, 0) = 0
  <2>1. 0 \in Int /\ (\A y \in K : ~ (y < 0)) /\ (\A y \in J : ~ (y < 0))
    BY <1>2, <1>3
  <2>2. QED
    BY <1>2, <1>3, <2>1, RankIs, Zenon
<1>12. Rank(K, i) = 1 /\ i \in K
  <2>1. \A x : x \in {y \in K : y < i} <=> x \in {0}
    <3>1. \A y \in K : y < i => y = 0
      BY <1>9, <1>8, <1>2
    <3>2. 0 < i
      BY <1>1
    <3>3. QED
      BY <1>2, <3>1, <3>2, Zenon
  <2>2. {y \in K : y < i} = {0}
    BY <2>1, Zenon
  <2>3. Cardinality({0}) = 1
    BY FS_Singleton
  <2>4. QED
    BY <1>1, <1>9, <1>2, <2>2, <2>3, Zenon DEF Rank
<1>13. \A x \in 0 .. M + 2 : Rank(K, x + i) = Rank(J, x) + 1
  <2> DEFINE A == {x \in Nat : Rank(K, x + i) = Rank(J, x) + 1}
  <2>1. 0 \in A
    BY <1>1, <1>11, <1>12
  <2>2. \A x \in 0 .. (M + 2) - 1 : x \in A => x + 1 \in A
    <3> SUFFICES ASSUME NEW x \in 0 .. (M + 2) - 1, x \in A PROVE x + 1 \in A
      OBVIOUS
    <3>1. x \in 0 .. M + 1 /\ x \in Int /\ x + i \in Int /\ (x + i) + 1 = (x + 1) + i
      BY <1>1
    <3>2. Rank(K, x + i) = Rank(J, x) + 1
      BY Zenon
    <3>3. CASE x \in J
      <4>1. Rank(J, x + 1) = Rank(J, x) + 1
        BY <1>3, <3>1, <3>3, RankIs, Zenon
      <4>2. Rank(K, (x + i) + 1) = Rank(K, x + i) + 1
        BY <1>2, <1>10, <3>1, <3>3, RankIs, Zenon
      <4>3. x + 1 \in Nat /\ Rank(K, (x + 1) + i) = Rank(J, x + 1) + 1
        BY <3>1, <3>2, <4>1, <4>2
      <4>4. QED
        BY <4>3, Zenon
    <3>4. CASE x \notin J
      <4>1. Rank(J, x + 1) = Rank(J, x)
        BY <1>3, <3>1, <3>4, RankIs, Zenon
      <4>2. Rank(K, (x + i) + 1) = Rank(K, x + i)
        BY <1>2, <1>10, <3>1, <3>4, RankIs, Zenon
      <4>3. x + 1 \in Nat /\ Rank(K, (x + 1) + i) = Rank(J, x + 1) + 1
        BY <3>1, <3>2, <4>1, <4>2
      <4>4. QED
        BY <4>3, Zenon
    <3>5. QED
      BY <3>3, <3>4, Zenon
  <2> HIDE DEF A
  <2>3. M + 2 \in Nat
    OBVIOUS
  <2>4. 0 .. M + 2 \subseteq A
    BY <2>1, <2>2, <2>3, NatInductionIn, Zenon
  <2>5. QED
    BY <2>4, Zenon DEF A
<1>14. Cardinality(K) = Cardinality(J) + 1
  <2>1. M + 2 \in 0 .. M + 2 /\ M + 2 \in Int /\ (M + 2) + i \in Int
        /\ (\A y \in J : y < M + 2) /\ (\A y \in K : y < (M + 2) + i)
    <3>1. \A y \in 0 .. M + 1 : y < M + 2
      OBVIOUS
    <3>2. \A y \in 0 .. L + 1 : y < (M + 2) + i
      BY <1>8
    <3>3. M + 2 \in 0 .. M + 2 /\ M + 2 \in Int /\ (M + 2) + i \in Int
      BY <1>8
    <3>4. J \subseteq 0 .. M + 1 /\ K \subseteq 0 .. L + 1
      BY <1>2, <1>3, Zenon
    <3>5. QED
      BY <3>1, <3>2, <3>3, <3>4, Zenon
  <2>2. Rank(J, M + 2) = Cardinality(J)
    BY <1>3, <2>1, RankIs, Zenon
  <2>3. Rank(K, (M + 2) + i) = Cardinality(K)
    BY <1>2, <2>1, RankIs, Zenon
  <2>4. QED
    BY <1>13, <2>1, <2>2, <2>3, Zenon
<1>15. PICK h \in Nat : h = Cardinality(J) - 1 /\ h + 1 = Cardinality(K) - 1
  <2>1. Cardinality(J) - 1 \in Nat
    BY FieldIs, Zenon DEF J
  <2>2. QED
    BY <1>2, <1>3, <1>14, <2>1
<1>16. /\ Len(Fields(s, c)) = h + 1 /\ DOMAIN Fields(s, c) = 1 .. h + 1
       /\ Len(Fields(t, c)) = h
  BY <1>15, FieldIs, Zenon DEF K, J
<1>17. Fields(s, c)[1] = SubSeq(s, 1, i - 1)
  <2>2. 1 = Rank(K, 0) + 1 /\ Rank(K, i) = 1
    BY <1>11, <1>12
  <2>3. Fields(s, c)[1] = SubSeq(s, 0 + 1, i - 1)
    BY <1>2, <1>12, <1>5, <2>2, Zenon
  <2>4. QED
    BY <2>3
<1>18. ASSUME NEW n \in 1..h PROVE Fields(s, c)[n + 1] = Fields(t, c)[n]
  <2>1. PICK m \in Nat : n = m + 1 /\ m < Cardinality(J) /\ n < Cardinality(J) /\ n \in Nat
    <3>1. n - 1 \in Nat /\ n = (n - 1) + 1 /\ n - 1 < Cardinality(J)
          /\ n < Cardinality(J) /\ n \in Nat
      BY <1>3, <1>15
    <3>2. QED
      BY <3>1
  <2>2. M + 1 \in Nat
    OBVIOUS
  <2>3. PICK x \in J : Rank(J, x) = m
    BY <1>3, <2>1, <2>2, RankReached, Zenon
  <2>4. PICK y \in J : Rank(J, y) = n
    BY <1>3, <2>1, <2>2, RankReached, Zenon
  <2>5. x \in 0 .. M + 1 /\ y \in 0 .. M + 1 /\ x < y
    <3>1. x \in 0 .. M + 1 /\ y \in 0 .. M + 1
      BY <1>3
    <3>2. x # y
      BY <2>1, <2>3, <2>4
    <3>3. ~ (y < x)
      <4>1. y < x => Rank(J, y) < Rank(J, x)
        BY <1>3, RankGrows, Zenon
      <4>2. QED
        BY <2>1, <2>3, <2>4, <4>1
    <3>4. QED
      BY <3>1, <3>2, <3>3
  <2>6. x + i \in K /\ y + i \in K
    BY <1>10, <2>5, Zenon
  <2>7. x \in 0 .. M + 2 /\ y \in 0 .. M + 2
    BY <2>5
  <2>8. Rank(K, x + i) = n /\ Rank(K, y + i) = n + 1
    BY <1>13, <2>1, <2>3, <2>4, <2>7, Zenon
  <2>9. Fields(s, c)[n + 1] = SubSeq(s, (x + i) + 1, (y + i) - 1)
    <3>1. n + 1 = Rank(K, x + i) + 1 /\ Rank(K, y + i) = n + 1
      BY <2>8, Zenon
    <3>2. QED
      BY <1>5, <2>6, <3>1, Zenon
  <2>10. Fields(t, c)[n] = SubSeq(t, x + 1, y - 1)
    BY <1>6, <2>1, <2>3, <2>4, Zenon
  <2>11. SubSeq(s, (x + i) + 1, (y + i) - 1) = SubSeq(t, x + 1, y - 1)
    <3>1. x \in Nat /\ y \in Nat /\ y <= M + 1 /\ M + i = L
      BY <1>1, <1>7, <2>5
    <3>2. QED
      BY <1>7, <1>4, <2>5, <3>1, Zenon
  <2>12. QED
    BY <2>9, <2>10, <2>11, Zenon
<1>19. \A n \in 1..Len(Fields(t, c)) : Fields(s, c)[n + 1] = Fields(t, c)[n]
  BY <1>16, <1>18, Zenon
<1>20. Len(Fields(s, c)) = Len(Fields(t, c)) + 1 /\ DOMAIN Fields(s, c) = 1 .. Len(Fields(t, c)) + 1
  BY <1>16, Zenon
<1>21. QED
  BY <1>17, <1>19, <1>20, Zenon

-----------------------------------------------------------------------------
(* Numbers and IPv4 addresses. *)

\* What digits are not, and that they have values.
LEMMA DigitsAre ==
  /\ DecDigits \subseteq HexDigits /\ NULL \notin HexDigits
  /\ "." \notin HexDigits /\ ":" \notin HexDigits
  /\ \A d \in HexDigits : DigitValue[d] \in Nat
<1>1. DecDigits \subseteq HexDigits
  <2>1. \A n \in 1..10 : n \in 1..16
    OBVIOUS
  <2>2. QED
    BY <2>1, Zenon DEF DecDigits, HexDigits
<1>2. \A n \in 1..16 : "." \notin Digit[n] /\ ":" \notin Digit[n]
  BY DEF Digit
<1>3. \A d \in HexDigits : DigitValue[d] \in Nat
  <2> SUFFICES ASSUME NEW d \in HexDigits PROVE DigitValue[d] \in Nat
    OBVIOUS
  <2>1. \E n \in 1..16 : d \in Digit[n]
    BY Zenon DEF HexDigits
  <2>2. PICK k : k = CHOOSE n \in 1..16 : d \in Digit[n]
    OBVIOUS
  <2>3. k \in 1..16 /\ DigitValue[d] = k - 1
    BY <2>1, <2>2, Zenon DEF DigitValue
  <2>4. QED
    BY <2>3
<1>4. QED
  BY <1>1, <1>2, <1>3, TextAssumption, Zenon DEF HexDigits

\* Span counts the characters of a set at the front of a text.
LEMMA SpanIs ==
  ASSUME NEW S, NEW s \in Seq(S), NEW chars, NULL \notin chars
  PROVE  /\ Span(s, chars) \in 0..Len(s)
         /\ \A j \in 1..Span(s, chars) : s[j] \in chars
         /\ Span(s, chars) < Len(s) => s[Span(s, chars) + 1] \notin chars
<1>1. PICK L \in Nat : L = Len(s)
  OBVIOUS
<1>2. PICK p \in Nat : p = L + 1
  OBVIOUS
<1> DEFINE u == Append(s, NULL)
           I == {i \in 1..Len(u) : u[i] \notin chars}
<1>3. Len(u) = p /\ u[p] = NULL /\ \A i \in 1..L : u[i] = s[i]
  BY <1>1, <1>2
<1>4. Span(s, chars) = (IF I # {} THEN Min(I) ELSE 0) - 1
  BY DEF Span, SelectInSeq
<1>5. I = {i \in 1..p : u[i] \notin chars}
  BY <1>3, Zenon
<1> HIDE DEF u, I
<1>6. p \in I
  <2>1. p \in 1..p
    BY <1>2
  <2>2. QED
    BY <1>3, <1>5, <2>1, Zenon
<1>7. PICK m \in I : m = Min(I) /\ \A x \in I : m <= x
  <2>1. I \subseteq Nat
    BY <1>5
  <2>2. QED
    BY <1>6, <2>1, MinOfNats, Zenon
<1>8. m \in 1..p /\ u[m] \notin chars
  BY <1>5, <1>7, Zenon
<1>9. Span(s, chars) = m - 1
  BY <1>4, <1>6, <1>7
<1>10. \A j \in 1 .. m - 1 : s[j] \in chars
  <2>1. \A j \in 1 .. m - 1 : j \in 1..p /\ j \in 1..L /\ ~ (m <= j)
    BY <1>2, <1>8
  <2>2. \A j \in 1 .. m - 1 : j \notin I
    BY <1>7, <2>1, Zenon
  <2>3. QED
    BY <1>3, <1>5, <2>1, <2>2, Zenon
<1>11. m - 1 \in 0..L /\ (m - 1 < L => m \in 1..L) /\ (m - 1) + 1 = m
  BY <1>2, <1>8
<1>12. m - 1 < L => s[(m - 1) + 1] \notin chars
  BY <1>3, <1>8, <1>11, Zenon
<1>13. QED
  BY <1>1, <1>9, <1>10, <1>11, <1>12, Zenon

\* It is the only number that does.
LEMMA SpanOf ==
  ASSUME NEW S, NEW s \in Seq(S), NEW chars, NULL \notin chars, NEW k \in 0..Len(s),
         \A j \in 1..k : s[j] \in chars, k < Len(s) => s[k + 1] \notin chars
  PROVE  Span(s, chars) = k
<1>1. PICK L \in Nat : L = Len(s)
  OBVIOUS
<1>2. PICK c \in 0..L : /\ c = Span(s, chars) /\ \A j \in 1..c : s[j] \in chars
                        /\ c < L => s[c + 1] \notin chars
  BY <1>1, SpanIs, Zenon
<1>3. ~ (c < k)
  <2> SUFFICES ASSUME c < k PROVE FALSE
    OBVIOUS
  <2>1. c + 1 \in 1..k /\ c < L
    BY <1>1, <1>2
  <2>2. QED
    BY <1>2, <2>1, Zenon
<1>4. ~ (k < c)
  <2> SUFFICES ASSUME k < c PROVE FALSE
    OBVIOUS
  <2>1. k + 1 \in 1..c /\ k < L
    BY <1>1, <1>2
  <2>2. QED
    BY <1>1, <1>2, <2>1, Zenon
<1>5. QED
  BY <1>1, <1>2, <1>3, <1>4

\* v[n] is the value of the first n digits.
Adds(v, s, base) ==
  v[0] = 0 /\ \A n \in 1..Len(s) : v[n] = v[n - 1] * base + DigitValue[s[n]]

\* The value of digits is what adding them up comes to.
LEMMA ValueUnfolds ==
  ASSUME NEW s \in Seq(HexDigits), NEW base \in Nat
  PROVE  \E v : v \in [0..Len(s) -> Nat] /\ Adds(v, s, base) /\ Value(s, base) = v[Len(s)]
<1>1. PICK L \in Nat : L = Len(s)
  OBVIOUS
<1>2. \A i \in 1..L : DigitValue[s[i]] \in Nat
  <2>1. \A i \in 1..L : s[i] \in HexDigits
    BY <1>1
  <2>2. \A d \in HexDigits : DigitValue[d] \in Nat
    BY DigitsAre, Zenon
  <2>3. QED
    BY <2>1, <2>2, Zenon
<1> DEFINE Add(i, x) == x * base + DigitValue[s[i]]
           F == [i \in 1..L |-> [x \in Nat |-> Add(i, x)]]
           Turn(i, f) == IF i = 0 THEN 0 ELSE Add(i, f[i - 1])
           v == CHOOSE f : f = [i \in 0..L |-> Turn(i, f)]
<1>3. Value(s, base) = v[L]
  BY <1>1 DEF Value
<1>4. \A i \in 1..L, x \in Nat : Add(i, x) \in Nat
  <2>1. \A x \in Nat : x * base \in Nat
    OBVIOUS
  <2>2. \A x, y \in Nat : x + y \in Nat
    OBVIOUS
  <2>3. QED
    BY <1>2, <2>1, <2>2, Zenon
<1> HIDE DEF Add
<1>5. F \in [1..L -> [Nat -> Nat]]
  BY <1>4, Zenon
<1>6. PICK g : g \in [0..L -> Nat] /\ g[0] = 0 /\ \A i \in 1..L : g[i] = F[i][g[i - 1]]
  <2>1. PICK a \in Nat : a = 0
    OBVIOUS
  <2> HIDE DEF F
  <2>2. PICK g : g \in [0..L -> Nat] /\ Recurses(g, L, a, F)
    BY <1>5, RecursionIn, Zenon
  <2>3. QED
    BY <2>1, <2>2, Zenon DEF Recurses
<1>7. g = [i \in 0..L |-> Turn(i, g)]
  <2>1. \A i \in 0..L : i # 0 => i \in 1..L /\ i - 1 \in 0..L
    OBVIOUS
  <2>2. \A i \in 0..L : g[i] = Turn(i, g)
    BY <1>6, <2>1, Zenon
  <2>3. g = [i \in 0..L |-> g[i]]
    BY <1>6, Zenon
  <2> HIDE DEF Turn
  <2>4. [i \in 0..L |-> g[i]] = [i \in 0..L |-> Turn(i, g)]
    BY <2>2, Zenon
  <2>5. QED
    BY <2>3, <2>4, Zenon
<1>8. v = [i \in 0..L |-> Turn(i, v)]
  <2> HIDE DEF Turn
  <2>1. QED
    BY <1>7, Zenon
<1> HIDE DEF v
<1>9. v \in [0..L -> Nat]
  <2> DEFINE A == {i \in 0..L : v[i] \in Nat}
  <2>1. 0 \in 0..L /\ \A i \in 0 .. L - 1 : i + 1 \in 0..L /\ i + 1 # 0 /\ (i + 1) - 1 = i
          /\ i + 1 \in 1..L
    OBVIOUS
  <2>2. v[0] = 0 /\ \A i \in 0 .. L - 1 : v[i + 1] = Add(i + 1, v[i])
    BY <1>8, <2>1, Zenon
  <2>3. 0 \in A
    BY <2>1, <2>2
  <2>4. \A i \in 0 .. L - 1 : i \in A => i + 1 \in A
    BY <1>4, <2>1, <2>2, Zenon
  <2> HIDE DEF A
  <2>5. 0..L \subseteq A
    BY <2>3, <2>4, NatInductionIn, Zenon
  <2>6. \A i \in 0..L : v[i] \in Nat
    BY <2>5, Zenon DEF A
  <2>7. v = [i \in 0..L |-> v[i]]
    BY <1>8, Zenon
  <2>8. QED
    BY <2>6, <2>7, Zenon
<1>10. Adds(v, s, base)
  <2>1. 0 \in 0..L /\ \A i \in 1..L : i \in 0..L /\ i # 0
    OBVIOUS
  <2>2. v[0] = 0 /\ \A i \in 1..L : v[i] = v[i - 1] * base + DigitValue[s[i]]
    BY <1>8, <2>1, Zenon DEF Add
  <2>3. QED
    BY <1>1, <2>2, Zenon DEF Adds
<1>11. QED
  BY <1>1, <1>3, <1>9, <1>10, Zenon

\* The value of digits is a number.
LEMMA ValueIsNat ==
  ASSUME NEW s \in Seq(HexDigits), NEW base \in Nat
  PROVE  Value(s, base) \in Nat
<1>1. PICK v : v \in [0..Len(s) -> Nat] /\ Value(s, base) = v[Len(s)]
  BY ValueUnfolds, Zenon
<1>2. Len(s) \in 0..Len(s)
  BY LenProperties
<1>3. QED
  BY <1>1, <1>2, Zenon

\* In hexadecimal, decimal digits are worth at most the square of their value.
LEMMA HexOfDecimal ==
  ASSUME NEW s \in Seq(DecDigits)
  PROVE  Value(s, 16) <= Value(s, 10) * Value(s, 10)
<1>1. PICK L \in Nat : L = Len(s)
  OBVIOUS
<1>2. s \in Seq(HexDigits) /\ \A n \in 1..L : DigitValue[s[n]] \in Nat
  <2>1. \A n \in 1..L : s[n] \in DecDigits
    BY <1>1
  <2>2. s \in Seq(HexDigits)
    BY <1>1, <2>1, DigitsAre, SeqRetyped, Zenon
  <2>3. QED
    BY <2>1, <2>2, DigitsAre, Zenon
<1>3. PICK x \in Nat, y \in Nat : x = 16 /\ y = 10
  OBVIOUS
<1>4. PICK h : h \in [0..L -> Nat] /\ Adds(h, s, x) /\ Value(s, x) = h[L]
  BY <1>1, <1>2, ValueUnfolds, Zenon
<1>5. PICK d : d \in [0..L -> Nat] /\ Adds(d, s, y) /\ Value(s, y) = d[L]
  BY <1>1, <1>2, ValueUnfolds, Zenon
<1>6. /\ h[0] = 0 /\ d[0] = 0
      /\ \A n \in 1..L : /\ h[n] = h[n - 1] * 16 + DigitValue[s[n]]
                         /\ d[n] = d[n - 1] * 10 + DigitValue[s[n]]
  BY <1>1, <1>3, <1>4, <1>5, Zenon DEF Adds
<1>7. \A p, q, c \in Nat : p <= q * q => p * 16 + c <= (q * 10 + c) * (q * 10 + c)
  <2> SUFFICES ASSUME NEW p \in Nat, NEW q \in Nat, NEW c \in Nat, p <= q * q
               PROVE  p * 16 + c <= (q * 10 + c) * (q * 10 + c)
    OBVIOUS
  <2>1. PICK r \in Nat, e \in Nat, m \in Nat : r = q * q /\ e = c * c /\ m = q * c
    OBVIOUS
  <2>2. (q * 10 + c) * (q * 10 + c) = 100 * r + 20 * m + e
    BY <2>1
  <2>3. c <= e
    BY <2>1
  <2>4. QED
    BY <2>1, <2>2, <2>3
<1> DEFINE A == {n \in 0..L : h[n] <= d[n] * d[n]}
<1>8. 0 \in A
  BY <1>6
<1>9. \A n \in 0 .. L - 1 : n \in A => n + 1 \in A
  <2> SUFFICES ASSUME NEW n \in 0 .. L - 1, n \in A PROVE n + 1 \in A
    OBVIOUS
  <2>1. n \in 0..L /\ n + 1 \in 1..L /\ n + 1 \in 0..L /\ (n + 1) - 1 = n
    OBVIOUS
  <2>2. h[n] \in Nat /\ d[n] \in Nat /\ DigitValue[s[n + 1]] \in Nat /\ h[n] <= d[n] * d[n]
    BY <1>2, <1>4, <1>5, <2>1, Zenon
  <2>3. /\ h[n + 1] = h[n] * 16 + DigitValue[s[n + 1]]
        /\ d[n + 1] = d[n] * 10 + DigitValue[s[n + 1]]
    BY <1>6, <2>1, Zenon
  <2>4. h[n + 1] <= d[n + 1] * d[n + 1]
    BY <1>7, <2>2, <2>3, Zenon
  <2>5. QED
    BY <2>1, <2>4, Zenon
<1> HIDE DEF A
<1>10. L \in A
  <2>1. 0..L \subseteq A
    BY <1>8, <1>9, NatInductionIn, Zenon
  <2>2. L \in 0..L
    OBVIOUS
  <2>3. QED
    BY <2>1, <2>2, Zenon
<1>11. QED
  BY <1>3, <1>4, <1>5, <1>10, Zenon DEF A
\* What ToInt finds, where the digits end before i or with the text.
LEMMA ToIntIs ==
  ASSUME NEW S, NEW s \in Seq(S), NEW digits, digits \subseteq HexDigits, NEW base \in Nat
  PROVE  /\ ToInt(s, digits, base).c = Span(s, digits)
         /\ ToInt(s, digits, base).n = Value(SubSeq(s, 1, Span(s, digits)), base)
         /\ ToInt(s, digits, base).n \in Nat
         /\ ToInt(s, digits, base).ok <=> Span(s, digits) > 0 /\ ToInt(s, digits, base).n < BIG
         /\ \A k \in 1..Len(s) : s[k] \notin digits => Span(s, digits) < k
<1> DEFINE c == Span(s, digits)
<1>1. PICK L \in Nat : L = Len(s)
  OBVIOUS
<1>2. NULL \notin digits
  BY TextAssumption, Zenon
<1>3. c \in 0..L /\ \A j \in 1..c : s[j] \in digits
  BY <1>1, <1>2, SpanIs, Zenon
<1>4. /\ ToInt(s, digits, base).c = c
      /\ ToInt(s, digits, base).n = Value(SubSeq(s, 1, c), base)
      /\ ToInt(s, digits, base).ok = (c > 0 /\ Value(SubSeq(s, 1, c), base) < BIG)
  BY DEF ToInt
<1>5. SubSeq(s, 1, c) \in Seq(HexDigits)
  <2>1. \A j \in 1..c : s[j] \in HexDigits
    BY <1>3, Zenon
  <2>2. 1 \in Int /\ c \in Int
    BY <1>3
  <2> HIDE DEF c
  <2>3. QED
    BY <2>1, <2>2, SubSeqProperties
<1>6. Value(SubSeq(s, 1, c), base) \in Nat
  BY <1>5, ValueIsNat, Zenon
<1>7. \A k \in 1..Len(s) : s[k] \notin digits => c < k
  <2> HIDE DEF c
  <2> SUFFICES ASSUME NEW k \in 1..Len(s), s[k] \notin digits, ~ (c < k) PROVE FALSE
    BY Zenon
  <2>1. k \in 1..c
    BY <1>1, <1>3
  <2>2. QED
    BY <1>3, <2>1, Zenon
<1>8. QED
  BY <1>4, <1>6, <1>7, Zenon

\* The front of a text.
LEMMA PrefixIs ==
  ASSUME NEW S, NEW s \in Seq(S), NEW i \in 1 .. Len(s) + 1
  PROVE  /\ SubSeq(s, 1, i - 1) \in Seq(S) /\ Len(SubSeq(s, 1, i - 1)) = i - 1
         /\ \A j \in 1 .. i - 1 : SubSeq(s, 1, i - 1)[j] = s[j]
         /\ i - 1 > 0 => Head(SubSeq(s, 1, i - 1)) = s[1]
<1>1. PICK k \in Nat : k = i - 1 /\ k <= Len(s)
  BY LenProperties
<1>2. \A j \in 1..k : s[j] \in S
  <2>1. \A j \in 1..k : j \in 1..Len(s)
    BY <1>1
  <2>2. QED
    BY <2>1, ElementOfSeq
<1>3. /\ SubSeq(s, 1, k) \in Seq(S)
      /\ Len(SubSeq(s, 1, k)) = IF 1 <= k THEN k - 1 + 1 ELSE 0
      /\ \A j \in 1 .. k - 1 + 1 : SubSeq(s, 1, k)[j] = s[1 + j - 1]
  BY <1>2, SubSeqProperties
<1>4. /\ (IF 1 <= k THEN k - 1 + 1 ELSE 0) = k /\ k - 1 + 1 = k
      /\ (k > 0 => 1 \in 1..k) /\ \A j \in 1..k : 1 + j - 1 = j
  OBVIOUS
<1>5. Len(SubSeq(s, 1, k)) = k /\ \A j \in 1..k : SubSeq(s, 1, k)[j] = s[j]
  BY <1>3, <1>4, Zenon
<1>6. k > 0 => Head(SubSeq(s, 1, k)) = s[1]
  <2>1. PICK f \in Seq(S) : f = SubSeq(s, 1, k)
    BY <1>3, Zenon
  <2>2. k > 0 => Head(f) = f[1]
    BY <1>5, <2>1
  <2>3. QED
    BY <1>4, <1>5, <2>1, <2>2, Zenon
<1>7. QED
  BY <1>1, <1>3, <1>5, <1>6, Zenon

\* A number of a text is what ToInt finds at its front, if it ends there.
LEMMA NumberInFront ==
  ASSUME NEW S, NEW s \in Seq(S), NEW i \in 1 .. Len(s) + 1,
         NEW digits, digits \subseteq HexDigits, i <= Len(s) => s[i] \notin digits,
         NEW base \in Nat, NEW max \in Nat, max < BIG, BIG \in Nat
  PROVE  IsNumber(SubSeq(s, 1, i - 1), digits, base, max) <=>
           /\ ToInt(s, digits, base).ok /\ ToInt(s, digits, base).n <= max
           /\ ToInt(s, digits, base).c = i - 1
<1>1. PICK L \in Nat : L = Len(s) /\ i \in 1 .. L + 1
  OBVIOUS
<1>2. PICK f \in Seq(S) : f = SubSeq(s, 1, i - 1)
  BY PrefixIs, Zenon
<1>3. PICK k \in Nat : k = i - 1 /\ k \in 0..L /\ k + 1 = i /\ (k < L <=> i <= L)
  BY <1>1
<1>4. Len(f) = k /\ \A j \in 1..k : f[j] = s[j]
  BY <1>2, <1>3, PrefixIs, Zenon
<1>5. NULL \notin digits
  BY TextAssumption, Zenon
<1> DEFINE c == Span(s, digits)
           d == ToInt(s, digits, base)
<1>6. /\ d.c = c /\ d.n = Value(SubSeq(s, 1, c), base) /\ d.n \in Nat
      /\ d.ok <=> c > 0 /\ d.n < BIG
  BY ToIntIs, Zenon
<1>7. c \in 0..L /\ (\A j \in 1..c : s[j] \in digits) /\ (c < L => s[c + 1] \notin digits)
  BY <1>1, <1>5, SpanIs, Zenon
<1>8. (\A j \in 1..k : s[j] \in digits) <=> c = k
  <2>1. ASSUME \A j \in 1..k : s[j] \in digits PROVE c = k
    <3>1. k \in 0..Len(s) /\ (k < Len(s) => s[k + 1] \notin digits)
      BY <1>1, <1>3, Zenon
    <3>2. QED
      BY <1>5, <2>1, <3>1, SpanOf, Zenon
  <2>2. QED
    BY <1>7, <2>1, Zenon
<1> DEFINE e == Span(f, digits)
<1>9. e \in 0..k /\ (\A j \in 1..e : f[j] \in digits) /\ (e < k => f[e + 1] \notin digits)
  BY <1>4, <1>5, SpanIs, Zenon
<1>10. e = k <=> \A j \in 1..k : f[j] \in digits
  <2> HIDE DEF e
  <2>1. e # k => e < k /\ e + 1 \in 1..k
    BY <1>9
  <2>2. QED
    BY <1>9, <2>1, Zenon
<1>11. SubSeq(f, 1, k) = f
  BY <1>4
<1>12. f = SubSeq(s, 1, k)
  BY <1>2, <1>3, Zenon
<1>13. f # <<>> <=> k > 0
  BY <1>4
<1>14. /\ ToInt(f, digits, base).c = e
       /\ ToInt(f, digits, base).n = Value(SubSeq(f, 1, e), base)
  BY ToIntIs, Zenon
<1>15. IsNumber(f, digits, base, max) <=>
         f # <<>> /\ e = k /\ Value(SubSeq(f, 1, e), base) <= max
  BY <1>4, <1>14, Zenon DEF IsNumber
<1> HIDE DEF c, d, e
<1>16. e = k <=> c = k
  BY <1>4, <1>8, <1>10, Zenon
<1>17. CASE c = k
  <2>1. d.n = Value(f, base) /\ Value(SubSeq(f, 1, e), base) = Value(f, base)
    BY <1>6, <1>11, <1>12, <1>16, <1>17, Zenon
  <2>2. d.n <= max => d.n < BIG
    BY <1>6
  <2>3. QED
    BY <1>2, <1>3, <1>6, <1>13, <1>15, <1>16, <1>17, <2>1, <2>2, Zenon DEF d
<1>18. CASE c # k
  BY <1>2, <1>3, <1>6, <1>15, <1>16, <1>18, Zenon DEF d
<1>19. QED
  BY <1>2, <1>17, <1>18, Zenon

\* A text with c has a first one, with a text behind it.
LEMMA CutFirst ==
  ASSUME NEW S, NEW s \in Seq(S), NEW c, Contains(s, c)
  PROVE  \E i, t : i \in 1..Len(s) /\ t \in Seq(S) /\ t = From(s, i + 1) /\ CutAt(s, c, i, t)
<1>1. PICK L \in Nat : L = Len(s)
  OBVIOUS
<1>2. PICK i \in 1..L : s[i] = c /\ \A j \in 1 .. i - 1 : s[j] # c
  BY <1>1, IndexIs, Zenon
<1>3. \A j \in i + 1 .. L : s[j] \in S
  <2>1. \A j \in i + 1 .. L : j \in 1..Len(s)
    BY <1>1
  <2>2. QED
    BY <2>1, ElementOfSeq
<1>4. i + 1 \in Int /\ L \in Int
  OBVIOUS
<1>5. /\ SubSeq(s, i + 1, L) \in Seq(S)
      /\ Len(SubSeq(s, i + 1, L)) = IF i + 1 <= L THEN L - (i + 1) + 1 ELSE 0
      /\ \A j \in 1 .. L - (i + 1) + 1 : SubSeq(s, i + 1, L)[j] = s[(i + 1) + j - 1]
  BY <1>3, <1>4, SubSeqProperties
<1>6. /\ (IF i + 1 <= L THEN L - (i + 1) + 1 ELSE 0) = L - i /\ L - (i + 1) + 1 = L - i
      /\ \A j \in 1 .. L - i : (i + 1) + j - 1 = j + i
  OBVIOUS
<1>7. PICK t : t = SubSeq(s, i + 1, L)
  OBVIOUS
<1>8. /\ t \in Seq(S) /\ Len(t) = L - i /\ \A j \in 1 .. L - i : t[j] = s[j + i]
  BY <1>5, <1>6, <1>7, Zenon
<1>9. t = From(s, i + 1) /\ CutAt(s, c, i, t)
  BY <1>1, <1>2, <1>7, <1>8, Zenon DEF CutAt, From
<1>10. QED
  BY <1>1, <1>8, <1>9, Zenon

-----------------------------------------------------------------------------
(* IPv4 addresses. *)

\* A text of n octets between dots.
Octets(n, s) ==
  Len(Fields(s, ".")) = n /\ \A j \in DOMAIN Fields(s, ".") : IsOctet(Fields(s, ".")[j])

\* The last octet, and an octet in front of others.
LEMMA OctetsUnfold ==
  ASSUME NEW S, NEW s \in Seq(S)
  PROVE  /\ ~Contains(s, ".") => \A n : Octets(n, s) <=> n = 1 /\ IsOctet(s)
         /\ \A i \in 1..Len(s), t \in Seq(S) :
              CutAt(s, ".", i, t) =>
                \A n \in Nat : Octets(n + 1, s) <=> IsOctet(SubSeq(s, 1, i - 1)) /\ Octets(n, t)
<1>1. ASSUME ~Contains(s, "."), NEW n PROVE Octets(n, s) <=> n = 1 /\ IsOctet(s)
  <2>1. Len(Fields(s, ".")) = 1 /\ DOMAIN Fields(s, ".") = 1..1 /\ Fields(s, ".")[1] = s
    BY <1>1, FieldsOne, Zenon
  <2>2. \A j : j \in 1..1 <=> j = 1
    OBVIOUS
  <2>3. QED
    BY <2>1, <2>2, Zenon DEF Octets
<1>2. ASSUME NEW i \in 1..Len(s), NEW t \in Seq(S), CutAt(s, ".", i, t), NEW n \in Nat
      PROVE  Octets(n + 1, s) <=> IsOctet(SubSeq(s, 1, i - 1)) /\ Octets(n, t)
  <2> DEFINE F == Fields(s, ".")
             G == Fields(t, ".")
  <2>1. /\ Len(F) = Len(G) + 1 /\ DOMAIN F = 1 .. Len(G) + 1
        /\ F[1] = SubSeq(s, 1, i - 1) /\ \A j \in 1..Len(G) : F[j + 1] = G[j]
    BY <1>2, FieldsCut
  <2>2. PICK h \in Nat : h = Len(G) /\ DOMAIN G = 1..h
    <3>1. Len(G) = Cardinality(Ends(t, ".")) - 1 /\ DOMAIN G = 1 .. Cardinality(Ends(t, ".")) - 1
          /\ Cardinality(Ends(t, ".")) - 1 \in Nat \ {0}
      BY FieldIs, Zenon
    <3>2. QED
      BY <3>1
  <2> HIDE DEF F, G
  <2>3. Len(F) = n + 1 <=> Len(G) = n
    BY <2>1, <2>2
  <2>4. (\A j \in 1 .. h + 1 : IsOctet(F[j])) <=> IsOctet(F[1]) /\ \A j \in 1..h : IsOctet(G[j])
    <3>1. \A j \in 1..h : j + 1 \in 1 .. h + 1
      OBVIOUS
    <3>2. \A j \in 1 .. h + 1 : j = 1 \/ \E k \in 1..h : j = k + 1
      <4>1. \A j \in 1 .. h + 1 : j = 1 \/ (j - 1 \in 1..h /\ j = (j - 1) + 1)
        OBVIOUS
      <4>2. QED
        BY <4>1, Zenon
    <3>3. 1 \in 1 .. h + 1
      OBVIOUS
    <3>4. \A j \in 1..h : F[j + 1] = G[j]
      BY <2>1, <2>2, Zenon
    <3>5. QED
      BY <3>1, <3>2, <3>3, <3>4, Zenon
  <2>5. QED
    BY <2>1, <2>2, <2>3, <2>4, Zenon DEF Octets, F, G
<1>3. QED
  BY <1>1, <1>2, Zenon

\* What AfterOctet finds of an octet that ends before i or with the text.
LEMMA AfterOctetIs ==
  ASSUME NEW S, NEW s \in Seq(S), NEW i \in 1 .. Len(s) + 1, i <= Len(s) => s[i] \notin DecDigits
  PROVE  /\ IsOctet(SubSeq(s, 1, i - 1)) => AfterOctet(s) = From(s, i)
         /\ AfterOctet(s) # NULL =>
              \E k \in 1..i : AfterOctet(s) = From(s, k) /\ (k = i => IsOctet(SubSeq(s, 1, i - 1)))
<1>1. PICK L \in Nat : L = Len(s) /\ i \in 1 .. L + 1
  OBVIOUS
<1>2. PICK k \in Nat : k = i - 1 /\ k \in 0..L /\ k + 1 = i
  BY <1>1
<1> DEFINE d == dtoi(s)
<1>3. d = ToInt(s, DecDigits, 10) /\ DecDigits \subseteq HexDigits /\ 10 \in Nat
      /\ OctetMax \in Nat /\ OctetMax < BIG /\ BIG \in Nat
  <2>1. DecDigits \subseteq HexDigits
    BY DigitsAre, Zenon
  <2>2. QED
    BY <2>1, Ipv4Assumption DEF dtoi
<1>4. IsNumber(SubSeq(s, 1, i - 1), DecDigits, 10, OctetMax) <=>
        /\ ToInt(s, DecDigits, 10).ok /\ ToInt(s, DecDigits, 10).n <= OctetMax
        /\ ToInt(s, DecDigits, 10).c = i - 1
  <2>1. PICK b \in Nat : b = 10
    OBVIOUS
  <2>2. IsNumber(SubSeq(s, 1, i - 1), DecDigits, b, OctetMax) <=>
        /\ ToInt(s, DecDigits, b).ok /\ ToInt(s, DecDigits, b).n <= OctetMax
        /\ ToInt(s, DecDigits, b).c = i - 1
    <3>1. DecDigits \subseteq HexDigits /\ OctetMax \in Nat /\ OctetMax < BIG /\ BIG \in Nat
      BY <1>3, Zenon
    <3> HIDE DEF d
    <3>2. QED
      BY <3>1, NumberInFront, ZenonT(60)
  <2>3. QED
    BY <2>1, <2>2, Zenon
<1>5. d.c \in 0..k /\ (d.ok => d.c > 0)
  <2>1. PICK b \in Nat : b = 10
    OBVIOUS
  <2>2. /\ ToInt(s, DecDigits, b).c = Span(s, DecDigits)
        /\ ToInt(s, DecDigits, b).ok => Span(s, DecDigits) > 0
        /\ \A j \in 1..Len(s) : s[j] \notin DecDigits => Span(s, DecDigits) < j
    BY <1>3, ToIntIs, Zenon
  <2>3. NULL \notin DecDigits
    BY DigitsAre, Zenon
  <2>4. Span(s, DecDigits) \in 0..L
    BY <1>1, <2>3, SpanIs, Zenon
  <2>5. Span(s, DecDigits) <= k
    <3>1. CASE i <= L
      <4>1. i \in 1..Len(s) /\ s[i] \notin DecDigits
        BY <1>1, <3>1
      <4>2. Span(s, DecDigits) < i
        BY <2>2, <4>1, Zenon
      <4>3. QED
        BY <1>2, <2>4, <4>2
    <3>2. CASE ~ (i <= L)
      BY <1>1, <1>2, <2>4, <3>2
    <3>3. QED
      BY <3>1, <3>2
  <2>6. d.c = Span(s, DecDigits) /\ (d.ok => Span(s, DecDigits) > 0)
    BY <1>3, <2>1, <2>2, Zenon
  <2>7. QED
    BY <2>4, <2>5, <2>6
<1> DEFINE f == SubSeq(s, 1, i - 1)
<1>6. Len(f) = k /\ (k > 0 => Head(f) = s[1])
  BY <1>2, PrefixIs, Zenon
<1>7. IsOctet(f) <=>
        d.ok /\ d.n <= OctetMax /\ d.c = k /\ ~ (d.c > 1 /\ s[1] = "0")
  <2>1. IsOctet(f) <=> IsNumber(f, DecDigits, 10, OctetMax) /\ (Len(f) = 1 \/ Head(f) # "0")
    BY Zenon DEF IsOctet
  <2>2. d.ok /\ d.c = k => (~ (d.c > 1 /\ s[1] = "0") <=> Len(f) = 1 \/ Head(f) # "0")
    <3> HIDE DEF d
    <3> SUFFICES ASSUME d.ok, d.c = k
                 PROVE  ~ (d.c > 1 /\ s[1] = "0") <=> Len(f) = 1 \/ Head(f) # "0"
      OBVIOUS
    <3>1. k > 0 /\ (k > 1 <=> k # 1)
      BY <1>5
    <3>2. QED
      BY <1>6, <3>1, Zenon
  <2> HIDE DEF d
  <2>3. QED
    BY <1>2, <1>3, <1>4, <2>1, <2>2, Zenon
<1>8. AfterOctet(s) = IF d.ok /\ d.n <= OctetMax /\ ~(d.c > 1 /\ s[1] = "0")
                      THEN From(s, d.c + 1) ELSE NULL
  BY Zenon DEF AfterOctet
<1> HIDE DEF d
<1>9. d.c + 1 \in 1..i /\ (d.c + 1 = i => d.c = k)
  BY <1>2, <1>5
<1>10. QED
  BY <1>2, <1>7, <1>8, <1>9, Zenon

\* The rest of a text.
LEMMA FromIs ==
  ASSUME NEW S, NEW s \in Seq(S), NEW k \in 1 .. Len(s) + 1
  PROVE  /\ From(s, k) \in Seq(S) /\ Len(From(s, k)) = Len(s) - k + 1
         /\ \A j \in 1 .. Len(s) - k + 1 : From(s, k)[j] = s[k + j - 1]
         /\ From(s, k) = <<>> <=> k = Len(s) + 1
         /\ k <= Len(s) => Head(From(s, k)) = s[k] /\ Tail(From(s, k)) = From(s, k + 1)
<1>1. PICK L \in Nat : L = Len(s) /\ k \in 1 .. L + 1
  OBVIOUS
<1>2. ASSUME NEW m \in 1 .. L + 1
      PROVE  /\ From(s, m) \in Seq(S) /\ Len(From(s, m)) = L - m + 1
             /\ \A j \in 1 .. L - m + 1 : From(s, m)[j] = s[m + j - 1]
  <2>1. \A j \in m..L : s[j] \in S
    <3>1. \A j \in m..L : j \in 1..Len(s)
      BY <1>1
    <3>2. QED
      BY <3>1, ElementOfSeq
  <2>2. /\ SubSeq(s, m, L) \in Seq(S)
        /\ Len(SubSeq(s, m, L)) = IF m <= L THEN L - m + 1 ELSE 0
        /\ \A j \in 1 .. L - m + 1 : SubSeq(s, m, L)[j] = s[m + j - 1]
    BY <2>1, SubSeqProperties
  <2>3. (IF m <= L THEN L - m + 1 ELSE 0) = L - m + 1
    OBVIOUS
  <2>4. QED
    BY <1>1, <2>2, <2>3, Zenon DEF From
<1>3. PICK r \in Seq(S) : r = From(s, k)
  BY <1>1, <1>2, Zenon
<1>4. Len(r) = L - k + 1 /\ \A j \in 1 .. L - k + 1 : r[j] = s[k + j - 1]
  BY <1>1, <1>2, <1>3, Zenon
<1>5. r = <<>> <=> k = L + 1
  BY <1>1, <1>4
<1>6. ASSUME k <= L PROVE Head(r) = s[k] /\ Tail(r) = From(s, k + 1)
  <2>1. 1 \in 1 .. L - k + 1 /\ k + 1 - 1 = k
    BY <1>1, <1>6
  <2>2. Head(r) = r[1] /\ r[1] = s[k]
    BY <1>4, <2>1
  <2>3. k + 1 \in 1 .. L + 1 /\ L - (k + 1) + 1 = L - k
    BY <1>1, <1>6
  <2>4. PICK q \in Seq(S) : /\ q = From(s, k + 1) /\ Len(q) = L - k
                            /\ \A j \in 1 .. L - k : q[j] = s[(k + 1) + j - 1]
    BY <1>2, <2>3, Zenon
  <2>5. \A j \in 1 .. L - k : j + 1 \in 1 .. L - k + 1 /\ k + (j + 1) - 1 = (k + 1) + j - 1
    OBVIOUS
  <2>6. \A j \in 1 .. L - k : r[j + 1] = q[j]
    BY <1>4, <2>4, <2>5, Zenon
  <2>7. PICK x \in Nat : x = L - k /\ Len(r) = x + 1 /\ Len(q) = x
    <3>1. L - k \in Nat /\ L - k + 1 = (L - k) + 1
      BY <1>1, <1>6
    <3>2. Len(r) = (L - k) + 1 /\ Len(q) = L - k
      BY <1>4, <2>4, <3>1, Zenon
    <3>3. QED
      BY <3>1, <3>2, Zenon
  <2>8. \A j \in 1..x : r[j + 1] = q[j]
    BY <2>6, <2>7, Zenon
  <2>9. Tail(r) = q
    <3>1. Tail(r) \in Seq(S) /\ Len(Tail(r)) = x /\ \A j \in 1..x : Tail(r)[j] = r[j + 1]
      BY <2>7
    <3>2. QED
      BY <2>7, <2>8, <3>1
  <2>10. QED
    BY <2>2, <2>4, <2>9, Zenon
<1>7. QED
  BY <1>1, <1>2, <1>3, <1>5, <1>6, Zenon

\* One turn of parse_ipv4: the octets of a text are those AfterOctet finds.
LEMMA OctetTurn ==
  ASSUME NEW S, NULL \notin Seq(S), NEW s \in Seq(S)
  PROVE  /\ AfterOctet(s) # NULL => AfterOctet(s) \in Seq(S)
         /\ Octets(1, s) <=> AfterOctet(s) = <<>>
         /\ \A n \in Nat \ {0} :
              Octets(n + 1, s) <=>
                /\ ~ s_nullish(AfterOctet(s)) /\ Head(AfterOctet(s)) = "."
                /\ Octets(n, Tail(AfterOctet(s)))
<1>1. PICK L \in Nat : L = Len(s)
  OBVIOUS
<1>2. "." \notin DecDigits /\ NULL # <<>> /\ \A x \in Seq(S) : x # NULL
  <2>1. "." \notin DecDigits
    BY DigitsAre, Zenon
  <2>2. <<>> \in Seq(S)
    OBVIOUS
  <2>3. QED
    BY <2>1, <2>2, Zenon
<1> DEFINE r == AfterOctet(s)
<1>3. \A k \in 1 .. L + 1 :
        /\ From(s, k) \in Seq(S) /\ From(s, k) # NULL
        /\ From(s, k) = <<>> <=> k = L + 1
        /\ k <= L => Head(From(s, k)) = s[k] /\ Tail(From(s, k)) = From(s, k + 1)
  BY <1>1, <1>2, FromIs, ZenonT(60)
<1>4. CASE ~Contains(s, ".")
  <2>1. PICK k \in Nat : k = L + 1 /\ k \in 1 .. L + 1 /\ ~ (k <= L) /\ k - 1 = L
    OBVIOUS
  <2>2. SubSeq(s, 1, k - 1) = s
    BY <1>1, <2>1
  <2>3. /\ IsOctet(s) => r = From(s, k)
        /\ r # NULL => \E j \in 1..k : r = From(s, j) /\ (j = k => IsOctet(s))
    <3>1. /\ IsOctet(SubSeq(s, 1, k - 1)) => r = From(s, k)
          /\ r # NULL => \E j \in 1..k : r = From(s, j)
                                         /\ (j = k => IsOctet(SubSeq(s, 1, k - 1)))
      BY <1>1, <2>1, AfterOctetIs, Zenon
    <3>2. QED
      BY <2>2, <3>1, Zenon
  <2>4. Octets(1, s) <=> IsOctet(s)
    BY <1>4, OctetsUnfold, Zenon
  <2> HIDE DEF r
  <2>5. IsOctet(s) <=> r = <<>>
    BY <1>2, <1>3, <2>1, <2>3, Zenon
  <2>6. r # NULL => r \in Seq(S)
    BY <1>3, <2>1, <2>3, Zenon
  <2>7. ASSUME NEW n \in Nat \ {0}
        PROVE  ~Octets(n + 1, s) /\ ~ (~ s_nullish(r) /\ Head(r) = ".")
    <3>1. n + 1 # 1
      OBVIOUS
    <3>2. ~Octets(n + 1, s)
      <4>1. \A m : Octets(m, s) <=> m = 1 /\ IsOctet(s)
        BY <1>4, OctetsUnfold, Zenon
      <4>2. QED
        BY <3>1, <4>1, Zenon
    <3>3. ASSUME ~ s_nullish(r), Head(r) = "." PROVE FALSE
      <4>1. r # NULL /\ r # <<>>
        BY <3>3, Zenon DEF s_nullish
      <4>2. PICK j \in 1 .. L + 1 : r = From(s, j) /\ j # L + 1
        BY <1>3, <2>1, <2>3, <4>1, Zenon
      <4>3. j <= L /\ j \in 1..Len(s)
        BY <1>1, <4>2
      <4>4. s[j] = "."
        BY <1>3, <3>3, <4>2, <4>3, Zenon
      <4>5. QED
        BY <1>4, <4>3, <4>4, Zenon DEF Contains
    <3>4. QED
      BY <3>2, <3>3, Zenon
  <2>8. QED
    BY <2>4, <2>5, <2>6, <2>7, Zenon DEF r
<1>5. CASE Contains(s, ".")
  <2>1. PICK i, t : i \in 1..Len(s) /\ t \in Seq(S) /\ t = From(s, i + 1) /\ CutAt(s, ".", i, t)
    BY <1>5, CutFirst, Zenon
  <2>2. i \in 1..L /\ i \in 1 .. Len(s) + 1 /\ i <= L /\ i # L + 1 /\ i \in 1 .. L + 1
        /\ \A j \in 1..i : j \in 1 .. L + 1 /\ j # L + 1 /\ j <= L
                           /\ (j # i => j \in 1 .. i - 1)
    BY <1>1, <2>1
  <2>3. s[i] = "." /\ \A j \in 1 .. i - 1 : s[j] # "."
    BY <2>1, Zenon DEF CutAt
  <2> DEFINE f == SubSeq(s, 1, i - 1)
  <2>4. /\ IsOctet(f) => r = From(s, i)
        /\ r # NULL => \E j \in 1..i : r = From(s, j) /\ (j = i => IsOctet(f))
    <3>1. i \in 1 .. Len(s) + 1 /\ s[i] \notin DecDigits
      BY <1>2, <2>2, <2>3, Zenon
    <3> HIDE DEF r
    <3>2. /\ IsOctet(SubSeq(s, 1, i - 1)) => AfterOctet(s) = From(s, i)
          /\ AfterOctet(s) # NULL =>
               \E k \in 1..i : AfterOctet(s) = From(s, k)
                               /\ (k = i => IsOctet(SubSeq(s, 1, i - 1)))
      BY <3>1, AfterOctetIs, Zenon
    <3>3. QED
      BY <3>2, Zenon DEF r
  <2>5. \A n \in Nat : Octets(n + 1, s) <=> IsOctet(f) /\ Octets(n, t)
    <3>1. \A j \in 1..Len(s), u \in Seq(S) :
            CutAt(s, ".", j, u) =>
              \A n \in Nat : Octets(n + 1, s) <=> IsOctet(SubSeq(s, 1, j - 1)) /\ Octets(n, u)
      BY OctetsUnfold, Zenon
    <3>2. QED
      BY <2>1, <3>1, Zenon
  <2>6. ~Octets(0, t)
    <3>1. Len(Fields(t, ".")) = Cardinality(Ends(t, ".")) - 1
          /\ Cardinality(Ends(t, ".")) - 1 \in Nat \ {0}
      BY <2>1, FieldIs, Zenon
    <3>2. Len(Fields(t, ".")) # 0
      BY <3>1
    <3>3. QED
      BY <3>2, Zenon DEF Octets
  <2> HIDE DEF r, f
  <2>7. r # NULL => r \in Seq(S) /\ r # <<>>
    BY <1>3, <2>2, <2>4, Zenon
  <2>8. ~Octets(1, s) /\ r # <<>>
    <3>1. 0 \in Nat /\ 0 + 1 = 1
      OBVIOUS
    <3>2. ~Octets(0 + 1, s)
      BY <2>5, <2>6, <3>1, Zenon
    <3>3. QED
      BY <1>2, <2>7, <3>1, <3>2, Zenon
  <2>9. IsOctet(f) <=> ~ s_nullish(r) /\ Head(r) = "."
    <3>1. ASSUME IsOctet(f) PROVE ~ s_nullish(r) /\ Head(r) = "."
      BY <1>3, <2>2, <2>3, <2>4, <3>1, Zenon DEF s_nullish
    <3>2. ASSUME ~ s_nullish(r), Head(r) = "." PROVE IsOctet(f)
      <4>1. r # NULL
        BY <3>2, Zenon DEF s_nullish
      <4>2. PICK j \in 1..i : r = From(s, j) /\ (j = i => IsOctet(f))
        BY <2>4, <4>1, Zenon
      <4>3. s[j] = "."
        BY <1>3, <2>2, <3>2, <4>2, Zenon
      <4>4. QED
        BY <2>2, <2>3, <4>2, <4>3, Zenon
    <3>3. QED
      BY <3>1, <3>2, Zenon
  <2>10. IsOctet(f) => Tail(r) = t
    BY <1>3, <2>1, <2>2, <2>4, Zenon
  <2>11. \A n \in Nat \ {0} : n \in Nat
    OBVIOUS
  <2>12. QED
    BY <2>5, <2>7, <2>8, <2>9, <2>10, <2>11, Zenon DEF r
<1>6. QED
  BY <1>4, <1>5, Zenon

\* r[i] is what parse_ipv4 leaves after i octets.
LeftBy(r, s) ==
  /\ r[0] = s
  /\ \A i \in 1..IPV4_LEN :
       r[i] = IF s_nullish(r[i - 1]) THEN NULL
              ELSE IF i = 1 THEN AfterOctet(s)
              ELSE IF Head(r[i - 1]) # "." THEN NULL
              ELSE AfterOctet(Tail(r[i - 1]))

\* The turns of parse_ipv4.
LEMMA Ipv4Unfolds ==
  ASSUME NEW S, NULL \notin Seq(S), NEW s \in Seq(S)
  PROVE  \E r : LeftBy(r, s) /\ (parse_ipv4(s) <=> r[IPV4_LEN] = <<>>)
<1>1. PICK N \in Nat : N = IPV4_LEN
  BY Ipv4Assumption
<1> DEFINE D == Seq(S) \cup {NULL}
           Octet(i, x) == IF s_nullish(x) THEN NULL
                          ELSE IF i = 1 THEN AfterOctet(s)
                          ELSE IF Head(x) # "." THEN NULL
                          ELSE AfterOctet(Tail(x))
           F == [i \in 1..N |-> [x \in D |-> Octet(i, x)]]
           Turn(i, f) == IF i = 0 THEN s ELSE Octet(i, f[i - 1])
           v == CHOOSE f : f = [i \in 0..N |-> Turn(i, f)]
<1>2. parse_ipv4(s) <=> v[N] = <<>>
  BY <1>1, Zenon DEF parse_ipv4
<1>3. \A i \in 1..N, x \in D : Octet(i, x) \in D
  <2> SUFFICES ASSUME NEW i \in 1..N, NEW x \in D PROVE Octet(i, x) \in D
    BY Zenon
  <2>1. \A t \in Seq(S) : AfterOctet(t) # NULL => AfterOctet(t) \in Seq(S)
    BY OctetTurn, Zenon
  <2>2. ~ s_nullish(x) => Tail(x) \in Seq(S)
    <3>1. ~ s_nullish(x) => x \in Seq(S) /\ x # <<>>
      BY Zenon DEF s_nullish
    <3>2. QED
      BY <3>1
  <2>3. QED
    BY <2>1, <2>2, Zenon
<1> HIDE DEF Octet, D
<1>4. F \in [1..N -> [D -> D]]
  BY <1>3, Zenon
<1>5. PICK g : g \in [0..N -> D] /\ g[0] = s /\ \A i \in 1..N : g[i] = F[i][g[i - 1]]
  <2>1. s \in D
    BY Zenon DEF D
  <2> HIDE DEF F
  <2>2. PICK g : g \in [0..N -> D] /\ Recurses(g, N, s, F)
    BY <1>4, <2>1, RecursionIn, Zenon
  <2>3. QED
    BY <2>2, Zenon DEF Recurses
<1>6. g = [i \in 0..N |-> Turn(i, g)]
  <2>1. \A i \in 0..N : i # 0 => i \in 1..N /\ i - 1 \in 0..N
    OBVIOUS
  <2>2. \A i \in 0..N : g[i] = Turn(i, g)
    BY <1>5, <2>1, Zenon
  <2>3. g = [i \in 0..N |-> g[i]]
    BY <1>5, Zenon
  <2> HIDE DEF Turn
  <2>4. [i \in 0..N |-> g[i]] = [i \in 0..N |-> Turn(i, g)]
    BY <2>2, Zenon
  <2>5. QED
    BY <2>3, <2>4, Zenon
<1>7. v = [i \in 0..N |-> Turn(i, v)]
  <2> HIDE DEF Turn
  <2>1. QED
    BY <1>6, Zenon
<1> HIDE DEF v
<1>8. 0 \in 0..N /\ \A i \in 1..N : i \in 0..N /\ i # 0
  OBVIOUS
<1>9. v[0] = s /\ \A i \in 1..N : v[i] = Octet(i, v[i - 1])
  BY <1>7, <1>8, Zenon
<1>10. QED
  BY <1>1, <1>2, <1>9, Zenon DEF Octet, LeftBy

\* parse_ipv4 accepts the IPv4 addresses, for every text.
LEMMA ParsesIpv4 ==
  ASSUME NEW S, NULL \notin Seq(S), NEW s \in Seq(S)
  PROVE  parse_ipv4(s) <=> IsIpv4(s)
<1>1. PICK N \in Nat \ {0} : N = IPV4_LEN
  BY Ipv4Assumption
<1>2. PICK r : LeftBy(r, s) /\ (parse_ipv4(s) <=> r[IPV4_LEN] = <<>>)
  BY Ipv4Unfolds, Zenon
<1>3. /\ parse_ipv4(s) <=> r[N] = <<>>
      /\ r[0] = s
      /\ \A i \in 1..N :
           r[i] = IF s_nullish(r[i - 1]) THEN NULL
                  ELSE IF i = 1 THEN AfterOctet(s)
                  ELSE IF Head(r[i - 1]) # "." THEN NULL
                  ELSE AfterOctet(Tail(r[i - 1]))
  BY <1>1, <1>2, Zenon DEF LeftBy
<1>4. IsIpv4(s) <=> Octets(N, s)
  BY <1>1, Zenon DEF IsIpv4, Octets
<1>5. <<>> \in Seq(S) /\ NULL # <<>> /\ s # NULL
  <2>1. <<>> \in Seq(S)
    OBVIOUS
  <2>2. QED
    BY <2>1, Zenon
<1> DEFINE After(i) ==
             /\ r[i] # NULL => r[i] \in Seq(S)
             /\ i = N => (Octets(N, s) <=> r[i] = <<>>)
             /\ i # N => (Octets(N, s) <=> /\ ~ s_nullish(r[i]) /\ Head(r[i]) = "."
                                           /\ Octets(N - i, Tail(r[i])))
<1>6. After(1)
  <2>1. r[1] = IF s_nullish(s) THEN NULL ELSE AfterOctet(s)
    <3>1. 1 \in 1..N /\ 1 - 1 = 0
      OBVIOUS
    <3>2. QED
      BY <1>3, <3>1, Zenon
  <2>2. CASE s = <<>>
    <3>1. r[1] = NULL /\ s_nullish(NULL)
      BY <2>1, <2>2, Zenon DEF s_nullish
    <3>2. ~Octets(N, s)
      <4>1. ~Contains(s, ".")
        <5>1. \A j : j \notin 1..Len(<<>>)
          OBVIOUS
        <5>2. QED
          BY <2>2, <5>1, Zenon DEF Contains
      <4>2. ~IsOctet(s)
        BY <2>2, Zenon DEF IsOctet, IsNumber
      <4>3. \A m : Octets(m, s) <=> m = 1 /\ IsOctet(s)
        BY <4>1, OctetsUnfold, Zenon
      <4>4. QED
        BY <4>2, <4>3, Zenon
    <3>3. QED
      BY <1>5, <3>1, <3>2, Zenon
  <2>3. CASE s # <<>>
    <3>1. r[1] = AfterOctet(s)
      BY <1>5, <2>1, <2>3, Zenon DEF s_nullish
    <3>2. r[1] # NULL => r[1] \in Seq(S)
      BY <3>1, OctetTurn, Zenon
    <3>3. CASE N = 1
      <4>1. Octets(1, s) <=> r[1] = <<>>
        BY <3>1, OctetTurn, Zenon
      <4>2. QED
        BY <3>2, <3>3, <4>1, Zenon
    <3>4. CASE N # 1
      <4>1. PICK n \in Nat \ {0} : n = N - 1 /\ n + 1 = N
        BY <3>4
      <4>2. Octets(n + 1, s) <=>
              ~ s_nullish(r[1]) /\ Head(r[1]) = "." /\ Octets(n, Tail(r[1]))
        BY <3>1, OctetTurn, Zenon
      <4>3. QED
        BY <3>2, <3>4, <4>1, <4>2, Zenon
    <3>5. QED
      BY <3>3, <3>4, Zenon
  <2>4. QED
    BY <2>2, <2>3, Zenon
<1>7. ASSUME NEW i \in 1 .. N - 1, After(i) PROVE After(i + 1)
  <2>1. i # N /\ i \in Nat
    OBVIOUS
  <2>2. Octets(N, s) <=> /\ ~ s_nullish(r[i]) /\ Head(r[i]) = "."
                         /\ Octets(N - i, Tail(r[i]))
    BY <1>7, <2>1, Zenon
  <2>3. r[i + 1] = IF s_nullish(r[i]) THEN NULL
                   ELSE IF Head(r[i]) # "." THEN NULL
                   ELSE AfterOctet(Tail(r[i]))
    <3>1. i + 1 \in 1..N /\ (i + 1) - 1 = i /\ i + 1 # 1
      OBVIOUS
    <3>2. QED
      BY <1>3, <3>1, Zenon
  <2>4. CASE s_nullish(r[i]) \/ Head(r[i]) # "."
    <3>1. r[i + 1] = NULL /\ ~Octets(N, s) /\ s_nullish(NULL)
      BY <2>2, <2>3, <2>4, Zenon DEF s_nullish
    <3>2. QED
      BY <1>5, <3>1, Zenon
  <2>5. CASE ~ s_nullish(r[i]) /\ Head(r[i]) = "."
    <3>1. PICK t : t = Tail(r[i])
      OBVIOUS
    <3>2. t \in Seq(S)
      <4>1. r[i] \in Seq(S) /\ r[i] # <<>>
        BY <1>7, <2>5, Zenon DEF s_nullish
      <4>2. QED
        BY <3>1, <4>1
    <3>3. r[i + 1] = AfterOctet(t) /\ (Octets(N, s) <=> Octets(N - i, t))
      BY <2>2, <2>3, <2>5, <3>1, Zenon
    <3>4. r[i + 1] # NULL => r[i + 1] \in Seq(S)
      BY <3>2, <3>3, OctetTurn, Zenon
    <3>5. CASE i + 1 = N
      <4>1. N - i = 1
        BY <3>5
      <4>2. Octets(1, t) <=> r[i + 1] = <<>>
        BY <3>2, <3>3, OctetTurn, Zenon
      <4>3. QED
        BY <3>3, <3>4, <3>5, <4>1, <4>2, Zenon
    <3>6. CASE i + 1 # N
      <4>1. PICK n \in Nat \ {0} : n = N - (i + 1) /\ n + 1 = N - i
        BY <3>6
      <4>2. Octets(n + 1, t) <=>
              ~ s_nullish(r[i + 1]) /\ Head(r[i + 1]) = "." /\ Octets(n, Tail(r[i + 1]))
        BY <3>2, <3>3, OctetTurn, Zenon
      <4>3. QED
        BY <3>3, <3>4, <3>6, <4>1, <4>2, Zenon
    <3>7. QED
      BY <3>5, <3>6, Zenon
  <2>6. QED
    BY <2>4, <2>5, Zenon
<1> HIDE DEF After
<1>8. After(N)
  <2> DEFINE A == {k \in 0 .. N - 1 : After(k + 1)}
  <2>1. 0 \in 0 .. N - 1 /\ 0 + 1 = 1 /\ N - 1 \in Nat /\ N - 1 \in 0 .. N - 1
        /\ (N - 1) + 1 = N
    OBVIOUS
  <2>2. 0 \in A
    BY <1>6, <2>1, Zenon
  <2>3. \A k \in 0 .. (N - 1) - 1 : k \in A => k + 1 \in A
    <3>1. \A k \in 0 .. (N - 1) - 1 : k + 1 \in 1 .. N - 1 /\ k + 1 \in 0 .. N - 1
      OBVIOUS
    <3>2. QED
      BY <1>7, <3>1, Zenon
  <2> HIDE DEF A
  <2>4. 0 .. N - 1 \subseteq A
    BY <2>1, <2>2, <2>3, NatInductionIn, Zenon
  <2>5. QED
    BY <2>1, <2>4, Zenon DEF A
<1>9. Octets(N, s) <=> r[N] = <<>>
  BY <1>8, Zenon DEF After
<1>10. QED
  BY <1>3, <1>4, <1>9, Zenon

-----------------------------------------------------------------------------
(* IPv6 addresses: digits of numbers. *)

\* The texts of numbers consist of digits.
LEMMA NumberIsDigits ==
  ASSUME NEW S, NEW s \in Seq(S), NEW digits, digits \subseteq HexDigits,
         NEW base \in Nat, NEW max, IsNumber(s, digits, base, max)
  PROVE  s # <<>> /\ \A j \in 1..Len(s) : s[j] \in digits
<1>1. s # <<>> /\ ToInt(s, digits, base).c = Len(s)
  BY Zenon DEF IsNumber
<1>2. Span(s, digits) = Len(s)
  BY <1>1, ToIntIs, Zenon
<1>3. NULL \notin digits
  BY DigitsAre, Zenon
<1>4. \A j \in 1..Span(s, digits) : s[j] \in digits
  BY <1>3, SpanIs, Zenon
<1>5. QED
  BY <1>1, <1>2, <1>4, Zenon

\* A group consists of hexadecimal digits, an octet of decimal ones.
LEMMA GroupIsDigits ==
  ASSUME NEW S, NEW s \in Seq(S), IsGroup(s)
  PROVE  s # <<>> /\ \A j \in 1..Len(s) : s[j] \in HexDigits
<1>1. PICK b \in Nat : b = 16
  OBVIOUS
<1>2. IsNumber(s, HexDigits, b, GroupMax)
  BY <1>1, Zenon DEF IsGroup
<1>3. QED
  BY <1>2, NumberIsDigits, Zenon

\* Likewise for octets.
LEMMA OctetIsDigits ==
  ASSUME NEW S, NEW s \in Seq(S), IsOctet(s)
  PROVE  s # <<>> /\ \A j \in 1..Len(s) : s[j] \in DecDigits
<1>1. PICK b \in Nat : b = 10
  OBVIOUS
<1>2. IsNumber(s, DecDigits, b, OctetMax)
  BY <1>1, Zenon DEF IsOctet
<1>3. DecDigits \subseteq HexDigits
  BY DigitsAre, Zenon
<1>4. QED
  BY <1>2, <1>3, NumberIsDigits, Zenon

\* Octets between dots consist of digits and dots.
LEMMA OctetsAreDigits ==
  ASSUME NEW S, NEW n \in Nat
  PROVE  \A s \in Seq(S) : Octets(n, s) =>
           s # <<>> /\ \A j \in 1..Len(s) : s[j] \in DecDigits \cup {"."}
<1> DEFINE Plain(s) == s # <<>> /\ \A j \in 1..Len(s) : s[j] \in DecDigits \cup {"."}
           A == {m \in Nat : \A s \in Seq(S) : Octets(m, s) => Plain(s)}
<1>1. ASSUME NEW m \in Nat, NEW s \in Seq(S), Octets(m, s), ~Contains(s, ".") PROVE Plain(s)
  <2>1. IsOctet(s)
    BY <1>1, OctetsUnfold, Zenon
  <2>2. QED
    BY <2>1, OctetIsDigits, Zenon
<1>2. ASSUME NEW m \in Nat, m \in A, NEW s \in Seq(S), Octets(m + 1, s), Contains(s, ".")
      PROVE  Plain(s)
  <2>1. PICK i, t : i \in 1..Len(s) /\ t \in Seq(S) /\ CutAt(s, ".", i, t)
    BY <1>2, CutFirst, Zenon
  <2>2. PICK L \in Nat : L = Len(s) /\ i \in 1..L
    BY <2>1, LenProperties, Zenon
  <2>3. IsOctet(SubSeq(s, 1, i - 1)) /\ Octets(m, t)
    BY <1>2, <2>1, OctetsUnfold, Zenon
  <2>4. Plain(t)
    BY <1>2, <2>1, <2>3, Zenon
  <2>5. /\ SubSeq(s, 1, i - 1) \in Seq(S) /\ Len(SubSeq(s, 1, i - 1)) = i - 1
        /\ \A j \in 1 .. i - 1 : SubSeq(s, 1, i - 1)[j] = s[j]
    <3>1. i \in 1 .. Len(s) + 1
      BY <2>2
    <3>2. QED
      BY <3>1, PrefixIs, Zenon
  <2>6. \A j \in 1 .. i - 1 : s[j] \in DecDigits
    <3>1. \A j \in 1..Len(SubSeq(s, 1, i - 1)) : SubSeq(s, 1, i - 1)[j] \in DecDigits
      BY <2>3, <2>5, OctetIsDigits, Zenon
    <3>2. QED
      BY <2>5, <3>1, Zenon
  <2>7. s[i] = "." /\ Len(t) = L - i /\ \A j \in 1..Len(t) : t[j] = s[j + i]
    BY <2>1, <2>2, Zenon DEF CutAt
  <2>8. ASSUME NEW j \in 1..L PROVE s[j] \in DecDigits \cup {"."}
    <3>1. CASE j \in 1 .. i - 1
      BY <2>6, <3>1, Zenon
    <3>2. CASE j = i
      BY <2>7, <3>2, Zenon
    <3>3. CASE j > i
      <4>1. PICK k \in Nat : k \in 1..Len(t) /\ k + i = j
        <5>1. j - i \in Nat /\ j - i \in 1 .. L - i /\ (j - i) + i = j
          BY <2>2, <3>3
        <5>2. QED
          BY <2>7, <5>1, Zenon
      <4>2. s[j] = t[k]
        BY <2>7, <4>1, Zenon
      <4>3. QED
        BY <2>4, <4>1, <4>2, Zenon
    <3>4. QED
      BY <2>2, <3>1, <3>2, <3>3
  <2>9. s # <<>>
    BY <2>2
  <2>10. QED
    BY <2>2, <2>8, <2>9, Zenon
<1>3. 0 \in A
  <2>1. \A s \in Seq(S) : ~Octets(0, s)
    <3> SUFFICES ASSUME NEW s \in Seq(S), Octets(0, s) PROVE FALSE
      OBVIOUS
    <3>1. Len(Fields(s, ".")) = Cardinality(Ends(s, ".")) - 1
          /\ Cardinality(Ends(s, ".")) - 1 \in Nat \ {0}
      BY FieldIs, Zenon
    <3>2. Len(Fields(s, ".")) # 0
      BY <3>1
    <3>3. QED
      BY <3>2, Zenon DEF Octets
  <2>2. 0 \in Nat
    OBVIOUS
  <2>3. QED
    BY <2>1, <2>2, Zenon
<1>4. \A m \in 0 .. n - 1 : m \in A => m + 1 \in A
  <2> SUFFICES ASSUME NEW m \in 0 .. n - 1, m \in A PROVE m + 1 \in A
    OBVIOUS
  <2>1. m \in Nat /\ m + 1 \in Nat
    OBVIOUS
  <2>2. QED
    BY <1>1, <1>2, <2>1, Zenon
<1> HIDE DEF A
<1>5. 0..n \subseteq A
  BY <1>3, <1>4, NatInductionIn, Zenon
<1>6. n \in 0..n
  OBVIOUS
<1>7. QED
  BY <1>5, <1>6, Zenon DEF A

\* IPv4 addresses have a dot and no colon.
LEMMA Ipv4HasDots ==
  ASSUME NEW S, NEW s \in Seq(S), IsIpv4(s)
  PROVE  s # <<>> /\ Contains(s, ".") /\ ~Contains(s, ":") /\ Octets(IPV4_LEN, s)
<1>1. PICK n \in Nat : n = IPV4_LEN /\ n > 1
  <2>1. IPV4_LEN \in Nat /\ IPV4_LEN # 0 /\ IPV4_LEN % 2 = 0
    BY IpAssumption, Ipv4Assumption
  <2>2. QED
    BY <2>1
<1>2. Octets(n, s)
  BY <1>1, Zenon DEF IsIpv4, Octets
<1>3. s # <<>> /\ \A j \in 1..Len(s) : s[j] \in DecDigits \cup {"."}
  BY <1>2, OctetsAreDigits, Zenon
<1>4. \A x : x \in DecDigits \cup {"."} => x # ":"
  <2>1. ":" \notin DecDigits /\ ":" # "."
    BY DigitsAre, Zenon
  <2>2. QED
    BY <2>1, Zenon
<1>5. Contains(s, ".")
  <2>1. n # 1
    BY <1>1
  <2>2. ASSUME ~Contains(s, ".") PROVE FALSE
    <3>1. \A m : Octets(m, s) <=> m = 1 /\ IsOctet(s)
      BY <2>2, OctetsUnfold, Zenon
    <3>2. QED
      BY <1>2, <2>1, <3>1, Zenon
  <2>3. QED
    BY <2>2, Zenon
<1>6. QED
  BY <1>1, <1>2, <1>3, <1>4, <1>5, Zenon DEF Contains

\* An octet can be read as a group.
LEMMA OctetIsGroup ==
  ASSUME NEW S, NEW s \in Seq(S), IsOctet(s) PROVE IsGroup(s)
<1>1. PICK x \in Nat, y \in Nat : x = 16 /\ y = 10
  OBVIOUS
<1>2. s # <<>> /\ \A j \in 1..Len(s) : s[j] \in DecDigits
  BY OctetIsDigits, Zenon
<1>3. s \in Seq(DecDigits)
  BY <1>2, SeqRetyped, Zenon
<1>4. Len(s) \in 0..Len(s) /\ ~ (Len(s) < Len(s)) /\ SubSeq(s, 1, Len(s)) = s
  BY LenProperties
<1>5. Span(s, DecDigits) = Len(s) /\ Span(s, HexDigits) = Len(s)
  BY <1>2, <1>4, DigitsAre, SpanOf, Zenon
<1>6. /\ ToInt(s, HexDigits, x).c = Len(s) /\ ToInt(s, HexDigits, x).n = Value(s, x)
      /\ ToInt(s, DecDigits, y).n = Value(s, y)
      /\ Value(s, x) \in Nat /\ Value(s, y) \in Nat
  <2>1. HexDigits \subseteq HexDigits /\ DecDigits \subseteq HexDigits
    BY DigitsAre, Zenon
  <2>2. /\ ToInt(s, HexDigits, x).c = Span(s, HexDigits)
        /\ ToInt(s, HexDigits, x).n = Value(SubSeq(s, 1, Span(s, HexDigits)), x)
        /\ ToInt(s, HexDigits, x).n \in Nat
    BY <2>1, ToIntIs, Zenon
  <2>3. /\ ToInt(s, DecDigits, y).n = Value(SubSeq(s, 1, Span(s, DecDigits)), y)
        /\ ToInt(s, DecDigits, y).n \in Nat
    BY <2>1, ToIntIs, Zenon
  <2>4. QED
    BY <1>4, <1>5, <2>2, <2>3, Zenon
<1>7. Value(s, y) <= OctetMax
  BY <1>1, <1>6, Zenon DEF IsOctet, IsNumber
<1>8. PICK v \in Nat, w \in Nat : v = Value(s, x) /\ w = Value(s, y)
  BY <1>6, Zenon
<1>9. v <= w * w
  BY <1>1, <1>3, <1>8, HexOfDecimal, Zenon
<1>10. OctetMax \in Nat /\ GroupMax \in Nat /\ OctetMax * OctetMax <= GroupMax
  BY Ipv4Assumption, IpAssumption, OctetAssumption
<1>11. v <= GroupMax
  <2>1. \A p, q \in Nat : p <= q => p * p <= q * q
    OBVIOUS
  <2>2. w * w <= OctetMax * OctetMax
    BY <1>7, <1>8, <1>10, <2>1, Zenon
  <2>3. w * w \in Nat /\ OctetMax * OctetMax \in Nat
    BY <1>10
  <2>4. QED
    BY <1>9, <1>10, <2>2, <2>3
<1>12. QED
  BY <1>1, <1>2, <1>6, <1>8, <1>11, Zenon DEF IsGroup, IsNumber

-----------------------------------------------------------------------------
(* Lists of groups. *)

\* A list of groups that may end in an IPv4 address, of b bytes.
Groups(b, s, ipv4Allowed) ==
  LET fields == Fields(s, ":")
      last   == Len(fields)
  IN  \/ b = 2 * last /\ \A n \in 1..last : IsGroup(fields[n])
      \/ /\ ipv4Allowed /\ IsIpv4(fields[last]) /\ b = 2 * (last - 1) + IPV4_LEN
         /\ \A n \in 1 .. last - 1 : IsGroup(fields[n])

\* A list that may be empty, as on either side of an ellipsis.
Listed(b, s, ipv4Allowed) ==
  IF s = <<>> THEN b = 0 ELSE Groups(b, s, ipv4Allowed)

\* The lengths of addresses.
LEMMA LengthsAre ==
  \E n \in Nat, m \in Nat :
    n = IPV6_LEN /\ m = IPV4_LEN /\ n % 2 = 0 /\ m % 2 = 0 /\ 2 <= m /\ m + 2 <= n
<1>1. PICK n \in Nat, m \in Nat : n = IPV6_LEN /\ m = IPV4_LEN /\ n % 2 = 0 /\ m % 2 = 0 /\ m # 0 /\ m < n
  BY IpAssumption, Ipv4Assumption
<1>2. 2 <= m /\ m + 2 <= n
  BY <1>1
<1>3. QED
  BY <1>1, <1>2, Zenon

\* The last group, or an IPv4 address in its place.
LEMMA LastGroup ==
  ASSUME NEW S, NEW s \in Seq(S), ~Contains(s, ":"), NEW b, NEW allowed \in BOOLEAN
  PROVE  Groups(b, s, allowed) <=>
           \/ b = 2 /\ IsGroup(s)
           \/ allowed /\ b = IPV4_LEN /\ IsIpv4(s)
<1> DEFINE F == Fields(s, ":")
<1>1. Len(F) = 1 /\ F[1] = s
  BY FieldsOne, Zenon
<1> HIDE DEF F
<1>2. /\ 2 * Len(F) = 2 /\ 2 * (Len(F) - 1) + IPV4_LEN = IPV4_LEN
      /\ \A n : n \in 1..Len(F) <=> n = 1
      /\ \A n : n \notin 1 .. Len(F) - 1
  BY <1>1, Ipv4Assumption
<1>3. Groups(b, s, allowed) <=>
        \/ b = 2 * Len(F) /\ \A n \in 1..Len(F) : IsGroup(F[n])
        \/ /\ allowed /\ IsIpv4(F[Len(F)]) /\ b = 2 * (Len(F) - 1) + IPV4_LEN
           /\ \A n \in 1 .. Len(F) - 1 : IsGroup(F[n])
  BY Zenon DEF Groups, F
<1>4. QED
  BY <1>1, <1>2, <1>3, Zenon

\* A group in front of others.
LEMMA FirstGroup ==
  ASSUME NEW S, NEW s \in Seq(S), NEW i \in 1..Len(s), NEW t \in Seq(S), CutAt(s, ":", i, t),
         NEW b \in Int, NEW allowed \in BOOLEAN
  PROVE  Groups(b, s, allowed) <=> IsGroup(SubSeq(s, 1, i - 1)) /\ Groups(b - 2, t, allowed)
<1> DEFINE F == Fields(s, ":")
           G == Fields(t, ":")
           f == SubSeq(s, 1, i - 1)
<1>1. PICK m \in Nat : m = Len(G) /\ m # 0
  <2>1. Len(G) = Cardinality(Ends(t, ":")) - 1 /\ Cardinality(Ends(t, ":")) - 1 \in Nat \ {0}
    BY FieldIs, Zenon
  <2>2. QED
    BY <2>1
<1>2. /\ Len(F) = m + 1 /\ F[1] = f
      /\ \A n \in 1..m : F[n + 1] = G[n]
  <2>1. /\ Len(F) = Len(G) + 1 /\ F[1] = f
        /\ \A n \in 1..Len(G) : F[n + 1] = G[n]
    BY FieldsCut
  <2>2. QED
    BY <1>1, <2>1, Zenon
<1>3. Groups(b, s, allowed) <=>
        \/ b = 2 * Len(F) /\ \A n \in 1..Len(F) : IsGroup(F[n])
        \/ /\ allowed /\ IsIpv4(F[Len(F)]) /\ b = 2 * (Len(F) - 1) + IPV4_LEN
           /\ \A n \in 1 .. Len(F) - 1 : IsGroup(F[n])
  BY Zenon DEF Groups
<1>4. Groups(b - 2, t, allowed) <=>
        \/ b - 2 = 2 * Len(G) /\ \A n \in 1..Len(G) : IsGroup(G[n])
        \/ /\ allowed /\ IsIpv4(G[Len(G)]) /\ b - 2 = 2 * (Len(G) - 1) + IPV4_LEN
           /\ \A n \in 1 .. Len(G) - 1 : IsGroup(G[n])
  BY Zenon DEF Groups
<1> HIDE DEF F, G, f
<1>5. ASSUME NEW k \in {m, m - 1}
      PROVE  (\A n \in 1 .. k + 1 : IsGroup(F[n])) <=>
               IsGroup(f) /\ \A n \in 1..k : IsGroup(G[n])
  <2>1. /\ 1 \in 1 .. k + 1 /\ \A n \in 1..k : n \in 1..m /\ n + 1 \in 1 .. k + 1
        /\ \A n \in 1 .. k + 1 : n = 1 \/ \E j \in 1..k : n = j + 1
    <3>1. PICK q \in Nat : q = k /\ q <= m
      BY <1>1
    <3>2. 1 \in 1 .. q + 1 /\ \A n \in 1..q : n \in 1..m /\ n + 1 \in 1 .. q + 1
      BY <3>1
    <3>3. \A n \in 1 .. q + 1 : n = 1 \/ (n - 1 \in 1..q /\ n = (n - 1) + 1)
      OBVIOUS
    <3>4. QED
      BY <3>1, <3>2, <3>3, Zenon
  <2>2. QED
    BY <1>2, <2>1, Zenon
<1>6. m - 1 + 1 = m /\ (m + 1) - 1 = m
  BY <1>1
<1>7. /\ (\A n \in 1 .. m + 1 : IsGroup(F[n])) <=> IsGroup(f) /\ \A n \in 1..m : IsGroup(G[n])
      /\ (\A n \in 1..m : IsGroup(F[n])) <=> IsGroup(f) /\ \A n \in 1 .. m - 1 : IsGroup(G[n])
  BY <1>5, <1>6, Zenon
<1>8. F[m + 1] = G[m]
  <2>1. m \in 1..m
    BY <1>1
  <2>2. QED
    BY <1>2, <2>1, Zenon
<1>9. /\ b = 2 * (m + 1) <=> b - 2 = 2 * m
      /\ b = 2 * m + IPV4_LEN <=> b - 2 = 2 * (m - 1) + IPV4_LEN
  BY Ipv4Assumption
<1>10. /\ Groups(b, s, allowed) <=>
            \/ b = 2 * (m + 1) /\ \A n \in 1 .. m + 1 : IsGroup(F[n])
            \/ /\ allowed /\ IsIpv4(F[m + 1]) /\ b = 2 * m + IPV4_LEN
               /\ \A n \in 1..m : IsGroup(F[n])
       /\ Groups(b - 2, t, allowed) <=>
            \/ b - 2 = 2 * m /\ \A n \in 1..m : IsGroup(G[n])
            \/ /\ allowed /\ IsIpv4(G[m]) /\ b - 2 = 2 * (m - 1) + IPV4_LEN
               /\ \A n \in 1 .. m - 1 : IsGroup(G[n])
  BY <1>1, <1>2, <1>3, <1>4, <1>6, Zenon
<1>11. QED
  BY <1>7, <1>8, <1>9, <1>10, Zenon DEF f

\* Nothing is no list of groups, and a list has a first one.
LEMMA GroupsStart ==
  ASSUME NEW S, NEW s \in Seq(S), NEW b \in Int, NEW allowed \in BOOLEAN, Groups(b, s, allowed)
  PROVE  s # <<>> /\ s[1] # ":" /\ 2 <= b
<1>1. CASE ~Contains(s, ":")
  <2>1. \/ b = 2 /\ IsGroup(s)
        \/ allowed /\ b = IPV4_LEN /\ IsIpv4(s)
    BY <1>1, LastGroup, Zenon
  <2>2. s # <<>>
    BY <2>1, GroupIsDigits, Ipv4HasDots, Zenon
  <2>3. 1 \in 1..Len(s)
    BY <2>2
  <2>4. s[1] # ":"
    BY <1>1, <2>3, Zenon DEF Contains
  <2>5. 2 <= b
    <3>1. 2 <= IPV4_LEN
      BY LengthsAre, Zenon
    <3>2. QED
      BY <2>1, <3>1
  <2>6. QED
    BY <2>2, <2>4, <2>5, Zenon
<1>2. CASE Contains(s, ":")
  <2>1. PICK i, t : i \in 1..Len(s) /\ t \in Seq(S) /\ CutAt(s, ":", i, t)
    BY <1>2, CutFirst, Zenon
  <2>2. IsGroup(SubSeq(s, 1, i - 1)) /\ Groups(b - 2, t, allowed)
    BY <2>1, FirstGroup, ZenonT(60)
  <2>3. s # <<>>
    BY <2>1
  <2>4. s[1] # ":"
    <3>1. i \in 1 .. Len(s) + 1
      BY <2>1
    <3>2. PICK f \in Seq(S) : f = SubSeq(s, 1, i - 1) /\ Len(f) = i - 1
                              /\ \A j \in 1 .. i - 1 : f[j] = s[j]
      BY <3>1, PrefixIs, ZenonT(60)
    <3>3. f # <<>>
      BY <2>2, <3>2, GroupIsDigits, Zenon
    <3>4. 1 \in 1 .. i - 1
      BY <2>1, <3>2, <3>3
    <3>5. QED
      BY <2>1, <3>4, Zenon DEF CutAt
  <2>5. 2 <= b
    <3>1. 0 <= b - 2
      <4>1. PICK g : g = Fields(t, ":") /\ Len(g) \in Nat \ {0}
        BY <2>1, FieldIs, Zenon
      <4>2. \/ b - 2 = 2 * Len(g)
            \/ b - 2 = 2 * (Len(g) - 1) + IPV4_LEN
        BY <2>2, <4>1, Zenon DEF Groups
      <4>3. QED
        BY <4>1, <4>2, Ipv4Assumption
    <3>2. QED
      BY <3>1
  <2>6. QED
    BY <2>3, <2>4, <2>5, Zenon
<1>3. QED
  BY <1>1, <1>2, Zenon

\* Fields are texts over the same characters.
LEMMA FieldOver ==
  ASSUME NEW S, NEW s \in Seq(S), NEW c, NEW n \in 1..Len(Fields(s, c))
  PROVE  Fields(s, c)[n] \in Seq(S)
<1>1. PICK L \in Nat : L = Len(s)
  OBVIOUS
<1>2. PICK K : /\ K = Ends(s, c) /\ K \subseteq 0 .. L + 1 /\ K \subseteq Int
               /\ IsFiniteSet(K) /\ Cardinality(K) \in Nat
  BY <1>1, EndsAre, Zenon
<1>3. PICK k \in Nat : k = Cardinality(K)
  BY <1>2, Zenon
<1>4. PICK at : at = InOrder(K)
  OBVIOUS
<1>5. Len(at) = k
  BY <1>3, <1>4, TableIsSeq DEF InOrder
<1>6. Fields(s, c) = [j \in 1 .. k - 1 |-> SubSeq(s, at[j] + 1, at[j + 1] - 1)]
  BY <1>2, <1>4, <1>5, Zenon DEF Fields, Ends
<1>7. n \in 1 .. k - 1
  <2>1. Len(Fields(s, c)) = k - 1
    BY <1>2, <1>3, FieldIs, Zenon
  <2>2. QED
    BY <2>1
<1>8. \A j \in 1..k : at[j] \in 0 .. L + 1
  <2> SUFFICES ASSUME NEW j \in 1..k PROVE at[j] \in 0 .. L + 1
    OBVIOUS
  <2>1. j - 1 \in Nat /\ j - 1 < k /\ j = (j - 1) + 1
    OBVIOUS
  <2>2. L + 1 \in Nat
    BY <1>1
  <2>3. PICK x \in K : Rank(K, x) = j - 1
    BY <1>2, <1>3, <2>1, <2>2, RankReached, ZenonT(60)
  <2>4. at[j] = x
    BY <1>2, <1>4, <2>1, <2>3, InOrderIs, Zenon
  <2>5. QED
    BY <1>2, <2>4, Zenon
<1>9. PICK x \in Int, y \in Int : /\ x = at[n] + 1 /\ y = at[n + 1] - 1
                                 /\ \A j \in x..y : j \in 1..Len(s)
  <2>1. n \in 1..k /\ n + 1 \in 1..k
    BY <1>7
  <2>2. at[n] \in 0 .. L + 1 /\ at[n + 1] \in 0 .. L + 1
    BY <1>8, <2>1, Zenon
  <2>3. QED
    BY <1>1, <2>2
<1>10. \A j \in x..y : s[j] \in S
  BY <1>9, ElementOfSeq, Zenon
<1>11. SubSeq(s, x, y) \in Seq(S)
  BY <1>10, SubSeqProperties
<1>12. QED
  BY <1>6, <1>7, <1>9, <1>11, Zenon

\* What Bytes counts.
LEMMA BytesAre ==
  ASSUME NEW S, NEW s \in Seq(S), NEW allowed \in BOOLEAN
  PROVE  /\ Bytes(s, allowed) \in Nat
         /\ \A b \in 0..IPV6_LEN : Bytes(s, allowed) = b <=> Listed(b, s, allowed)
<1> DEFINE F == Fields(s, ":")
<1>1. PICK m \in Nat : m = Len(F) /\ m # 0
  <2>1. Len(F) = Cardinality(Ends(s, ":")) - 1 /\ Cardinality(Ends(s, ":")) - 1 \in Nat \ {0}
    BY FieldIs, Zenon
  <2>2. QED
    BY <2>1
<1>2. PICK n \in Nat, k \in Nat : n = IPV6_LEN /\ k = IPV4_LEN
  BY IpAssumption, Ipv4Assumption
<1>3. Bytes(s, allowed) =
        IF s = <<>> THEN 0
        ELSE IF \A j \in 1..m : IsGroup(F[j]) THEN 2 * m
        ELSE IF allowed /\ IsIpv4(F[m]) /\ \A j \in 1 .. m - 1 : IsGroup(F[j])
        THEN 2 * (m - 1) + k
        ELSE n + 1
  BY <1>1, <1>2, Zenon DEF Bytes
<1>4. \A b : Groups(b, s, allowed) <=>
        \/ b = 2 * m /\ \A j \in 1..m : IsGroup(F[j])
        \/ /\ allowed /\ IsIpv4(F[m]) /\ b = 2 * (m - 1) + k
           /\ \A j \in 1 .. m - 1 : IsGroup(F[j])
  BY <1>1, <1>2, Zenon DEF Groups
<1>5. /\ 2 * m \in Nat /\ 2 * (m - 1) + k \in Nat /\ n + 1 \in Nat /\ 0 \in Nat
      /\ \A b \in 0..n : b # n + 1
      /\ m \in 1..m
  BY <1>1
<1>6. ~ (IsIpv4(F[m]) /\ IsGroup(F[m]))
  <2> SUFFICES ASSUME IsIpv4(F[m]), IsGroup(F[m]) PROVE FALSE
    OBVIOUS
  <2>1. F[m] \in Seq(S)
    BY <1>1, <1>5, FieldOver, Zenon
  <2>2. Contains(F[m], ".")
    BY <2>1, Ipv4HasDots, Zenon
  <2>3. \A j \in 1..Len(F[m]) : F[m][j] \in HexDigits
    BY <2>1, GroupIsDigits, Zenon
  <2>4. "." \notin HexDigits
    BY DigitsAre, Zenon
  <2>5. QED
    BY <2>2, <2>3, <2>4, Zenon DEF Contains
<1> HIDE DEF F
<1>7. Bytes(s, allowed) \in Nat
  BY <1>3, <1>5, Zenon
<1>8. ASSUME NEW b \in 0..n PROVE Bytes(s, allowed) = b <=> Listed(b, s, allowed)
  <2>1. CASE s = <<>>
    BY <1>3, <2>1, Zenon DEF Listed
  <2>2. CASE s # <<>>
    <3>1. Listed(b, s, allowed) <=> Groups(b, s, allowed)
      BY <2>2, Zenon DEF Listed
    <3>2. QED
      BY <1>3, <1>4, <1>5, <1>6, <2>2, <3>1, Zenon
  <2>3. QED
    BY <2>1, <2>2, Zenon
<1>9. QED
  BY <1>2, <1>7, <1>8, Zenon

-----------------------------------------------------------------------------
(* What is left behind a group or an ellipsis. *)

\* A list that may end in an IPv4 address and leaves room for an ellipsis
\* behind the first i bytes.
Fits(s, i) == \E b \in 0..IPV6_LEN : b + i <= IPV6_LEN - 2 /\ Listed(b, s, TRUE)

\* Lists around an ellipsis at n.
AroundEllipsis(s, n, i) ==
  /\ n \in 1 .. Len(s) - 1 /\ s[n] = ":" /\ s[n + 1] = ":"
  /\ \E b \in 0..IPV6_LEN : Listed(b, SubSeq(s, 1, n - 1), FALSE) /\ Fits(From(s, n + 2), b + i)

\* Fits for no text, a last group and a text with a group in front.
LEMMA FitsNothing ==
  ASSUME NEW i \in Nat
  PROVE  Fits(<<>>, i) <=> i <= IPV6_LEN - 2
<1>1. PICK n \in Nat : n = IPV6_LEN
  BY IpAssumption
<1>2. Fits(<<>>, i) <=> \E b \in 0..n : b + i <= n - 2 /\ b = 0
  BY <1>1, Zenon DEF Fits, Listed
<1>3. (\E b \in 0..n : b + i <= n - 2 /\ b = 0) <=> i <= n - 2
  OBVIOUS
<1>4. QED
  BY <1>1, <1>2, <1>3, Zenon

LEMMA FitsLast ==
  ASSUME NEW S, NEW s \in Seq(S), s # <<>>, ~Contains(s, ":"), NEW i \in Nat
  PROVE  Fits(s, i) <=>
           \/ IsGroup(s) /\ i + 2 <= IPV6_LEN - 2
           \/ IsIpv4(s) /\ i + IPV4_LEN <= IPV6_LEN - 2
<1>1. PICK n \in Nat, m \in Nat :
        n = IPV6_LEN /\ m = IPV4_LEN /\ 2 <= m /\ m + 2 <= n
  BY LengthsAre, Zenon
<1>2. \A b : Listed(b, s, TRUE) <=> (b = 2 /\ IsGroup(s)) \/ (b = m /\ IsIpv4(s))
  <2>1. \A b : Groups(b, s, TRUE) <=>
                 \/ b = 2 /\ IsGroup(s)
                 \/ TRUE /\ b = IPV4_LEN /\ IsIpv4(s)
    BY LastGroup, Zenon
  <2>2. QED
    BY <1>1, <2>1, Zenon DEF Listed
<1>3. Fits(s, i) <=> \E b \in 0..n : b + i <= n - 2 /\ Listed(b, s, TRUE)
  BY <1>1, Zenon DEF Fits
<1>4. 2 \in 0..n /\ m \in 0..n /\ 2 + i = i + 2 /\ m + i = i + m
  BY <1>1
<1>5. Fits(s, i) <=> \/ IsGroup(s) /\ 2 + i <= n - 2
                     \/ IsIpv4(s) /\ m + i <= n - 2
  BY <1>2, <1>3, <1>4, Zenon
<1>6. QED
  BY <1>1, <1>4, <1>5, Zenon

LEMMA FitsBehind ==
  ASSUME NEW S, NEW s \in Seq(S), NEW k \in 1..Len(s), NEW t \in Seq(S), CutAt(s, ":", k, t),
         NEW i \in Nat
  PROVE  Fits(s, i) <=>
           IsGroup(SubSeq(s, 1, k - 1)) /\ t # <<>> /\ t[1] # ":" /\ Fits(t, i + 2)
<1> DEFINE f == SubSeq(s, 1, k - 1)
<1>1. PICK n \in Nat : n = IPV6_LEN
  BY IpAssumption
<1>2. s # <<>>
  OBVIOUS
<1>3. Fits(s, i) <=> \E b \in 0..n : b + i <= n - 2 /\ Groups(b, s, TRUE)
  BY <1>1, <1>2, Zenon DEF Fits, Listed
<1>4. \A b \in Int : Groups(b, s, TRUE) <=> IsGroup(f) /\ Groups(b - 2, t, TRUE)
  BY FirstGroup, Zenon
<1>5. \A b \in Int : Groups(b, t, TRUE) => t # <<>> /\ t[1] # ":" /\ 2 <= b
  BY GroupsStart, Zenon
<1>6. t # <<>> => (Fits(t, i + 2) <=> \E b \in 0..n : b + (i + 2) <= n - 2 /\ Groups(b, t, TRUE))
  BY <1>1, Zenon DEF Fits, Listed
<1>7. \A b \in 0..n : b \in Int /\ b - 2 \in Int
  OBVIOUS
<1> HIDE DEF f
<1>8. ASSUME NEW b \in 0..n, b + i <= n - 2, Groups(b, s, TRUE)
      PROVE  /\ IsGroup(f) /\ t # <<>> /\ t[1] # ":"
             /\ \E a \in 0..n : a + (i + 2) <= n - 2 /\ Groups(a, t, TRUE)
  <2>1. IsGroup(f) /\ Groups(b - 2, t, TRUE) /\ t # <<>> /\ t[1] # ":" /\ 2 <= b - 2
    BY <1>4, <1>5, <1>7, <1>8, Zenon
  <2>2. b - 2 \in 0..n /\ (b - 2) + (i + 2) <= n - 2
    BY <1>8, <2>1
  <2>3. QED
    BY <2>1, <2>2, Zenon
<1>9. ASSUME IsGroup(f), NEW a \in 0..n, a + (i + 2) <= n - 2, Groups(a, t, TRUE)
      PROVE  \E b \in 0..n : b + i <= n - 2 /\ Groups(b, s, TRUE)
  <2>1. PICK b \in Int : b = a + 2 /\ b - 2 = a /\ b \in 0..n /\ b + i <= n - 2
    BY <1>9
  <2>2. Groups(b, s, TRUE)
    BY <1>4, <1>9, <2>1, Zenon
  <2>3. QED
    BY <2>1, <2>2, Zenon
<1>10. QED
  BY <1>3, <1>6, <1>8, <1>9, Zenon DEF f

\* No ellipsis in front of the first colon.
LEMMA NoEllipsisBefore ==
  ASSUME NEW S, NEW s \in Seq(S), NEW k \in 1..Len(s), NEW t, CutAt(s, ":", k, t),
         NEW n, NEW i, AroundEllipsis(s, n, i)
  PROVE  n \in k..Len(s)
<1>1. n \in 1 .. Len(s) - 1 /\ s[n] = ":"
  BY Zenon DEF AroundEllipsis
<1>2. n \notin 1 .. k - 1
  BY <1>1, Zenon DEF CutAt
<1>3. QED
  BY <1>1, <1>2

\* An ellipsis behind the first group.
LEMMA EllipsisHere ==
  ASSUME NEW S, NEW s \in Seq(S), NEW k \in 1..Len(s), NEW t \in Seq(S), CutAt(s, ":", k, t),
         k # 1, NEW i \in Nat
  PROVE  AroundEllipsis(s, k, i) <=>
           /\ t # <<>> /\ t[1] = ":"
           /\ IsGroup(SubSeq(s, 1, k - 1)) /\ Fits(From(s, k + 2), i + 2)
<1> DEFINE f == SubSeq(s, 1, k - 1)
           r == From(s, k + 2)
<1>1. PICK n \in Nat : n = IPV6_LEN /\ 2 <= n
  <2>1. \E n \in Nat, m \in Nat : n = IPV6_LEN /\ 2 <= m /\ m + 2 <= n
    BY LengthsAre, Zenon
  <2>2. QED
    BY <2>1
<1>2. PICK L \in Nat : L = Len(s) /\ k \in 1..L
  OBVIOUS
<1>3. s[k] = ":" /\ Len(t) = L - k /\ (\A j \in 1..Len(t) : t[j] = s[j + k])
      /\ \A j \in 1 .. k - 1 : s[j] # ":"
  BY <1>2, Zenon DEF CutAt
<1>4. k \in 1 .. Len(s) - 1 /\ s[k + 1] = ":" <=> t # <<>> /\ t[1] = ":"
  <2>1. k \in 1 .. Len(s) - 1 <=> t # <<>>
    BY <1>2, <1>3
  <2>2. ASSUME t # <<>> PROVE t[1] = s[k + 1]
    <3>1. 1 \in 1..Len(t) /\ 1 + k = k + 1
      BY <2>2
    <3>2. QED
      BY <1>3, <3>1, Zenon
  <2>3. QED
    BY <2>1, <2>2, Zenon
<1>5. f \in Seq(S) /\ f # <<>> /\ ~Contains(f, ":")
  <2>1. k \in 1 .. Len(s) + 1
    BY <1>2
  <2>2. /\ f \in Seq(S) /\ Len(f) = k - 1 /\ \A j \in 1 .. k - 1 : f[j] = s[j]
    BY <2>1, PrefixIs, Zenon
  <2> HIDE DEF f
  <2>3. f # <<>>
    BY <1>2, <2>2
  <2>4. QED
    BY <1>3, <2>2, <2>3, Zenon DEF Contains
<1>6. \A b : Listed(b, f, FALSE) <=> b = 2 /\ IsGroup(f)
  <2> HIDE DEF f
  <2>1. QED
    BY <1>5, LastGroup, Zenon DEF Listed
<1>7. 2 \in 0..n /\ 2 + i = i + 2
  BY <1>1
<1>8. AroundEllipsis(s, k, i) <=>
        /\ k \in 1 .. Len(s) - 1 /\ s[k] = ":" /\ s[k + 1] = ":"
        /\ \E b \in 0..n : Listed(b, f, FALSE) /\ Fits(r, b + i)
  BY <1>1, Zenon DEF AroundEllipsis
<1> HIDE DEF f, r
<1>9. QED
  BY <1>3, <1>4, <1>6, <1>7, <1>8, Zenon DEF f, r

\* The texts around an ellipsis behind the first colon, in s and in t behind it.
LaterCut(S, s, k, t, n, j) ==
  /\ j \in 1 .. Len(t) - 1 /\ t[j] = s[n] /\ t[j + 1] = s[n + 1]
  /\ From(s, n + 2) = From(t, j + 2)
  /\ SubSeq(s, 1, n - 1) \in Seq(S) /\ SubSeq(t, 1, j - 1) \in Seq(S)
  /\ k \in 1..Len(SubSeq(s, 1, n - 1))
  /\ SubSeq(SubSeq(s, 1, n - 1), 1, k - 1) = SubSeq(s, 1, k - 1)
  /\ CutAt(SubSeq(s, 1, n - 1), ":", k, SubSeq(t, 1, j - 1))
  /\ j # 1 => SubSeq(t, 1, j - 1) # <<>> /\ SubSeq(t, 1, j - 1)[1] = t[1]

\* Cutting a text at n, behind a cut at k, is cutting its rest at j = n - k.
LEMMA LaterParts ==
  ASSUME NEW S, NEW s \in Seq(S), NEW k \in 1..Len(s), NEW t \in Seq(S), CutAt(s, ":", k, t),
         NEW n \in 1..Len(s), NEW j \in Nat, n = j + k, j # 0, n < Len(s)
  PROVE  LaterCut(S, s, k, t, n, j)
<1>1. PICK L \in Nat, M \in Nat : L = Len(s) /\ M = Len(t)
  BY LenProperties
<1>2. s[k] = ":" /\ M = L - k /\ (\A x \in 1..M : t[x] = s[x + k])
      /\ \A x \in 1 .. k - 1 : s[x] # ":"
  BY <1>1, Zenon DEF CutAt
<1>3. k \in 1..L /\ n \in 1..L /\ n < L /\ M + k = L /\ k \in Nat
  BY <1>1, <1>2
<1>4. j \in 1 .. M - 1 /\ j \in 1..M /\ j + 1 \in 1..M /\ (j + 1) + k = n + 1
  BY <1>3
<1>5. t[j] = s[n] /\ t[j + 1] = s[n + 1]
  BY <1>2, <1>4, Zenon
<1>6. From(s, n + 2) = From(t, j + 2)
  <2>1. j + 1 \in Nat /\ M + 1 \in Nat /\ j + 1 < M + 1 /\ M + 1 <= M + 1
        /\ ((j + 1) + k) + 1 = n + 2 /\ ((M + 1) + k) - 1 = L
        /\ (j + 1) + 1 = j + 2 /\ (M + 1) - 1 = M
    BY <1>3, <1>4
  <2>2. \A x \in Nat, y \in Nat : x < y /\ y <= M + 1 =>
          SubSeq(s, (x + k) + 1, (y + k) - 1) = SubSeq(t, x + 1, y - 1)
    <3> SUFFICES ASSUME NEW x \in Nat, NEW y \in Nat, x < y, y <= M + 1
                 PROVE  SubSeq(s, (x + k) + 1, (y + k) - 1) = SubSeq(t, x + 1, y - 1)
      OBVIOUS
    <3>1. QED
      BY <1>1, <1>2, <1>3, SubSeqOfRest
  <2>3. SubSeq(s, n + 2, L) = SubSeq(t, j + 2, M)
    BY <2>1, <2>2, ZenonT(60)
  <2>4. QED
    BY <1>1, <2>3, Zenon DEF From
<1>7. PICK p \in Seq(S) : p = SubSeq(s, 1, n - 1) /\ Len(p) = n - 1 /\ \A x \in 1 .. n - 1 : p[x] = s[x]
  <2>1. n \in 1 .. Len(s) + 1
    BY <1>1, <1>3
  <2>2. SubSeq(s, 1, n - 1) \in Seq(S) /\ Len(SubSeq(s, 1, n - 1)) = n - 1
        /\ \A x \in 1 .. n - 1 : SubSeq(s, 1, n - 1)[x] = s[x]
    BY <2>1, PrefixIs, Zenon
  <2>3. QED
    BY <2>2, Zenon
<1>8. PICK q \in Seq(S) : q = SubSeq(t, 1, j - 1) /\ Len(q) = j - 1 /\ \A x \in 1 .. j - 1 : q[x] = t[x]
  <2>1. j \in 1 .. Len(t) + 1
    BY <1>1, <1>4
  <2>2. SubSeq(t, 1, j - 1) \in Seq(S) /\ Len(SubSeq(t, 1, j - 1)) = j - 1
        /\ \A x \in 1 .. j - 1 : SubSeq(t, 1, j - 1)[x] = t[x]
    BY <2>1, PrefixIs, Zenon
  <2>3. QED
    BY <2>2, Zenon
<1>9. k \in 1 .. n - 1 /\ (n - 1) - k = j - 1
  BY <1>3
<1>10. SubSeq(p, 1, k - 1) = SubSeq(s, 1, k - 1)
  <2>1. PICK f \in Seq(S) : f = SubSeq(s, 1, k - 1) /\ Len(f) = k - 1
                            /\ \A x \in 1 .. k - 1 : f[x] = s[x]
    <3>1. k \in 1 .. Len(s) + 1
      BY <1>1, <1>3
    <3>2. SubSeq(s, 1, k - 1) \in Seq(S) /\ Len(SubSeq(s, 1, k - 1)) = k - 1
          /\ \A x \in 1 .. k - 1 : SubSeq(s, 1, k - 1)[x] = s[x]
      BY <3>1, PrefixIs, Zenon
    <3>3. QED
      BY <3>2, Zenon
  <2>2. PICK g \in Seq(S) : g = SubSeq(p, 1, k - 1) /\ Len(g) = k - 1
                            /\ \A x \in 1 .. k - 1 : g[x] = p[x]
    <3>1. k \in 1 .. Len(p) + 1
      BY <1>7, <1>9
    <3>2. SubSeq(p, 1, k - 1) \in Seq(S) /\ Len(SubSeq(p, 1, k - 1)) = k - 1
          /\ \A x \in 1 .. k - 1 : SubSeq(p, 1, k - 1)[x] = p[x]
      BY <3>1, PrefixIs, Zenon
    <3>3. QED
      BY <3>2, Zenon
  <2>3. \A x \in 1 .. k - 1 : x \in 1 .. n - 1
    BY <1>9
  <2>4. \A x \in 1 .. k - 1 : f[x] = g[x]
    BY <1>7, <2>1, <2>2, <2>3, Zenon
  <2>5. f = g
    BY <2>1, <2>2, <2>4
  <2>6. QED
    BY <2>1, <2>2, <2>5, Zenon
<1>11. CutAt(p, ":", k, q)
  <2>1. p[k] = ":"
    BY <1>2, <1>7, <1>9, Zenon
  <2>2. \A x \in 1 .. k - 1 : p[x] # ":"
    <3>1. \A x \in 1 .. k - 1 : x \in 1 .. n - 1
      BY <1>9
    <3>2. QED
      BY <1>2, <1>7, <3>1, Zenon
  <2>3. \A x \in 1 .. j - 1 : x \in 1..M /\ x + k \in 1 .. n - 1
    BY <1>3, <1>4
  <2>4. \A x \in 1..Len(q) : q[x] = p[x + k]
    BY <1>2, <1>7, <1>8, <2>3, Zenon
  <2>5. Len(q) = Len(p) - k
    BY <1>7, <1>8, <1>9
  <2>6. QED
    BY <2>1, <2>2, <2>4, <2>5, Zenon DEF CutAt
<1>12. j # 1 => q # <<>> /\ q[1] = t[1]
  <2>1. j # 1 => 1 \in 1 .. j - 1 /\ j - 1 # 0
    BY <1>4
  <2>2. Len(<<>>) = 0
    OBVIOUS
  <2>3. QED
    BY <1>8, <2>1, <2>2, Zenon
<1>13. k \in 1..Len(p)
  BY <1>7, <1>9
<1>14. QED
  BY <1>1, <1>4, <1>5, <1>6, <1>7, <1>8, <1>10, <1>11, <1>12, <1>13, Zenon DEF LaterCut

\* An ellipsis behind the first group is one of the rest.
LEMMA EllipsisLater ==
  ASSUME NEW S, NEW s \in Seq(S), NEW k \in 1..Len(s), NEW t \in Seq(S), CutAt(s, ":", k, t),
         NEW n \in 1..Len(s), NEW j \in Nat, n = j + k, j # 0, NEW i \in Nat
  PROVE  AroundEllipsis(s, n, i) <=>
           IsGroup(SubSeq(s, 1, k - 1)) /\ t[1] # ":" /\ AroundEllipsis(t, j, i + 2)
<1>1. PICK L \in Nat, M \in Nat : L = Len(s) /\ M = Len(t) /\ M = L - k /\ k \in 1..L
  BY Zenon, LenProperties DEF CutAt
<1>2. CASE ~ (n < Len(s))
  <2>1. n \notin 1 .. Len(s) - 1 /\ j \notin 1 .. Len(t) - 1
    BY <1>1, <1>2
  <2>2. QED
    BY <2>1, Zenon DEF AroundEllipsis
<1>3. CASE n < Len(s)
  <2>1. PICK p, q, f, r :
          /\ p = SubSeq(s, 1, n - 1) /\ q = SubSeq(t, 1, j - 1)
          /\ f = SubSeq(s, 1, k - 1) /\ r = From(s, n + 2)
    OBVIOUS
  <2>2. /\ j \in 1 .. Len(t) - 1 /\ t[j] = s[n] /\ t[j + 1] = s[n + 1]
        /\ r = From(t, j + 2)
        /\ p \in Seq(S) /\ q \in Seq(S)
        /\ k \in 1..Len(p) /\ SubSeq(p, 1, k - 1) = f /\ CutAt(p, ":", k, q)
        /\ j # 1 => q # <<>> /\ q[1] = t[1]
    <3>1. LaterCut(S, s, k, t, n, j)
      BY <1>3, LaterParts
    <3>2. QED
      BY <2>1, <3>1, Zenon DEF LaterCut
  <2>3. n \in 1 .. Len(s) - 1
    BY <1>1, <1>3
  <2>4. PICK N \in Nat : N = IPV6_LEN
    BY IpAssumption
  <2>5. p # <<>>
    BY <2>2
  <2>6. \A b \in Int : /\ Listed(b, p, FALSE) <=> IsGroup(f) /\ Groups(b - 2, q, FALSE)
                       /\ Groups(b, q, FALSE) => q # <<>> /\ q[1] # ":" /\ 2 <= b
    <3>1. \A b \in Int : Groups(b, p, FALSE) <=> IsGroup(SubSeq(p, 1, k - 1)) /\ Groups(b - 2, q, FALSE)
      BY <2>2, FirstGroup, Zenon
    <3>2. \A b \in Int : Groups(b, q, FALSE) => q # <<>> /\ q[1] # ":" /\ 2 <= b
      BY <2>2, GroupsStart, Zenon
    <3>3. QED
      BY <2>2, <2>5, <3>1, <3>2, Zenon DEF Listed
  <2>7. \A x \in Nat : Fits(r, x) => x <= N - 2
    <3>1. \A x \in Nat : Fits(r, x) => \E b \in 0..N : b + x <= N - 2
      BY <2>4, Zenon DEF Fits
    <3>2. \A x \in Nat, b \in 0..N : b + x <= N - 2 => x <= N - 2
      OBVIOUS
    <3>3. QED
      BY <3>1, <3>2, Zenon
  <2>8. AroundEllipsis(s, n, i) <=>
          /\ s[n] = ":" /\ s[n + 1] = ":"
          /\ \E b \in 0..N : Listed(b, p, FALSE) /\ Fits(r, b + i)
    BY <2>1, <2>3, <2>4, Zenon DEF AroundEllipsis
  <2>9. AroundEllipsis(t, j, i + 2) <=>
          /\ s[n] = ":" /\ s[n + 1] = ":"
          /\ \E b \in 0..N : Listed(b, q, FALSE) /\ Fits(r, b + (i + 2))
    BY <2>1, <2>2, <2>4, Zenon DEF AroundEllipsis
  <2>10. q = <<>> => j = 1
    BY <2>2, Zenon
  <2>11. ASSUME NEW b \in 0..N, Listed(b, p, FALSE), Fits(r, b + i)
         PROVE  /\ IsGroup(f) /\ t[1] # ":"
                /\ \E a \in 0..N : Listed(a, q, FALSE) /\ Fits(r, a + (i + 2))
    <3>1. b \in Int /\ b - 2 \in Int /\ b = (b - 2) + 2
      OBVIOUS
    <3>2. IsGroup(f) /\ Groups(b - 2, q, FALSE) /\ q # <<>> /\ q[1] # ":" /\ 2 <= b - 2
      BY <2>6, <2>11, <3>1, Zenon
    <3>3. b - 2 \in 0..N /\ (b - 2) + (i + 2) = b + i
      BY <3>2
    <3>4. Listed(b - 2, q, FALSE)
      BY <3>2, Zenon DEF Listed
    <3>5. j # 1
      <4>1. SubSeq(t, 1, 0) = <<>> /\ 1 - 1 = 0
        OBVIOUS
      <4>2. QED
        BY <2>1, <3>2, <4>1, Zenon
    <3>6. QED
      BY <2>2, <2>11, <3>2, <3>3, <3>4, <3>5, Zenon
  <2>12. ASSUME IsGroup(f), t[1] # ":", s[n] = ":", NEW a \in 0..N, Listed(a, q, FALSE), Fits(r, a + (i + 2))
         PROVE  \E b \in 0..N : Listed(b, p, FALSE) /\ Fits(r, b + i)
    <3>1. j # 1
      BY <2>2, <2>12, Zenon
    <3>2. Groups(a, q, FALSE)
      BY <2>2, <2>12, <3>1, Zenon DEF Listed
    <3>3. PICK b \in Int : b = a + 2 /\ b - 2 = a /\ a + (i + 2) = b + i /\ b + i \in Nat /\ b \in Nat
      OBVIOUS
    <3>4. b + i <= N - 2
      BY <2>7, <2>12, <3>3, Zenon
    <3>5. b \in 0..N
      BY <3>3, <3>4
    <3>6. QED
      BY <2>6, <2>12, <3>2, <3>3, <3>5, Zenon
  <2>13. QED
    BY <2>1, <2>8, <2>9, <2>11, <2>12, Zenon
<1>4. QED
  BY <1>2, <1>3, Zenon

-----------------------------------------------------------------------------
(* What completes the bytes so far. *)

\* A text that makes an address of the i bytes in front of it, with the
\* ellipsis at byte e of these or, where e is negative, perhaps still to come.
Completes(s, i, e) ==
  IF e >= 0 THEN Fits(s, i)
  ELSE Listed(IPV6_LEN - i, s, TRUE) \/ \E n \in 1..Len(s) : AroundEllipsis(s, n, i)

\* So many bytes are an address, or leave room for the ellipsis.
Enough(i, e) == IF e >= 0 THEN i <= IPV6_LEN - 2 ELSE i = IPV6_LEN

\* BeginsWith(s, "::"), character by character.
StartsWithEllipsis(s) == Len(s) > 1 /\ s[1] = ":" /\ s[2] = ":"

\* Completes for no text, a last group, and so on: the cases of the loop.
LEMMA CompletesNothing ==
  ASSUME NEW i \in Nat, NEW e \in Int
  PROVE  Completes(<<>>, i, e) <=> Enough(i, e)
<1>1. CASE e >= 0
  BY <1>1, FitsNothing, Zenon DEF Completes, Enough
<1>2. CASE ~ (e >= 0)
  <2>1. \A n : n \notin 1..Len(<<>>)
    OBVIOUS
  <2>2. Listed(IPV6_LEN - i, <<>>, TRUE) <=> IPV6_LEN - i = 0
    BY Zenon DEF Listed
  <2>3. IPV6_LEN - i = 0 <=> i = IPV6_LEN
    BY IpAssumption
  <2>4. QED
    BY <1>2, <2>1, <2>2, <2>3, Zenon DEF Completes, Enough
<1>3. QED
  BY <1>1, <1>2, Zenon

LEMMA CompletesLast ==
  ASSUME NEW S, NEW s \in Seq(S), s # <<>>, ~Contains(s, ":"), NEW i \in Nat, NEW e \in Int
  PROVE  Completes(s, i, e) <=>
           \/ IsGroup(s) /\ Enough(i + 2, e)
           \/ IsIpv4(s) /\ Enough(i + IPV4_LEN, e)
<1>1. CASE e >= 0
  BY <1>1, FitsLast, Zenon DEF Completes, Enough
<1>2. CASE ~ (e >= 0)
  <2>1. \A n \in 1..Len(s) : ~AroundEllipsis(s, n, i)
    BY Zenon DEF AroundEllipsis, Contains
  <2>2. Listed(IPV6_LEN - i, s, TRUE) <=>
          \/ IPV6_LEN - i = 2 /\ IsGroup(s)
          \/ TRUE /\ IPV6_LEN - i = IPV4_LEN /\ IsIpv4(s)
    BY LastGroup, Zenon DEF Listed
  <2>3. /\ IPV6_LEN - i = 2 <=> i + 2 = IPV6_LEN
        /\ IPV6_LEN - i = IPV4_LEN <=> i + IPV4_LEN = IPV6_LEN
    BY IpAssumption, Ipv4Assumption
  <2>4. QED
    BY <1>2, <2>1, <2>2, <2>3, Zenon DEF Completes, Enough
<1>3. QED
  BY <1>1, <1>2, Zenon

\* A colon at the end.
LEMMA CompletesColon ==
  ASSUME NEW S, NEW s \in Seq(S), NEW k \in 1..Len(s), CutAt(s, ":", k, <<>>),
         NEW i \in Nat, NEW e \in Int
  PROVE  ~Completes(s, i, e)
<1>1. <<>> \in Seq(S) /\ s # <<>> /\ IPV6_LEN - i \in Int
  BY IpAssumption
<1>2. CASE e >= 0
  <2>1. ~Fits(s, i)
    BY <1>1, FitsBehind, Zenon
  <2>2. QED
    BY <1>2, <2>1, Zenon DEF Completes
<1>3. CASE ~ (e >= 0)
  <2>1. ~Listed(IPV6_LEN - i, s, TRUE)
    <3>1. ~Groups((IPV6_LEN - i) - 2, <<>>, TRUE)
      <4>1. (IPV6_LEN - i) - 2 \in Int
        BY <1>1
      <4>2. QED
        BY <1>1, <4>1, GroupsStart, Zenon
    <3>2. ~Groups(IPV6_LEN - i, s, TRUE)
      BY <1>1, <3>1, FirstGroup, Zenon
    <3>3. QED
      BY <1>1, <3>2, Zenon DEF Listed
  <2>2. \A n \in 1..Len(s) : ~AroundEllipsis(s, n, i)
    <3> SUFFICES ASSUME NEW n \in 1..Len(s), AroundEllipsis(s, n, i) PROVE FALSE
      OBVIOUS
    <3>1. n \in k..Len(s)
      BY NoEllipsisBefore, Zenon
    <3>2. n \in 1 .. Len(s) - 1
      BY Zenon DEF AroundEllipsis
    <3>3. k = Len(s)
      <4>1. Len(<<>>) = Len(s) - k
        BY Zenon DEF CutAt
      <4>2. QED
        BY <4>1
    <3>4. QED
      BY <3>1, <3>2, <3>3
  <2>3. QED
    BY <1>3, <2>1, <2>2, Zenon DEF Completes
<1>4. QED
  BY <1>2, <1>3, Zenon

\* The places behind the first colon of s and those of t behind it.
LEMMA PlacesBehind ==
  ASSUME NEW S, NEW s \in Seq(S), NEW k \in 1..Len(s), NEW t \in Seq(S), CutAt(s, ":", k, t)
  PROVE  /\ \A n \in k..Len(s) : n = k \/ \E j \in 1..Len(t) : j \in Nat /\ n = j + k /\ j # 0
         /\ \A j \in 1..Len(t) : j \in Nat /\ j # 0 /\ j + k \in 1..Len(s)
<1>1. PICK L \in Nat, M \in Nat : L = Len(s) /\ M = Len(t) /\ k \in 1..L
  BY LenProperties
<1>2. M = L - k
  BY <1>1, Zenon DEF CutAt
<1>3. \A n \in k..L : n = k \/ (n - k \in 1..M /\ n - k \in Nat /\ n = (n - k) + k /\ n - k # 0)
  BY <1>1, <1>2
<1>4. \A j \in 1..M : j \in Nat /\ j # 0 /\ j + k \in 1..L
  BY <1>1, <1>2
<1>5. QED
  BY <1>1, <1>3, <1>4, Zenon

\* A group and more.
LEMMA CompletesGroup ==
  ASSUME NEW S, NEW s \in Seq(S), NEW k \in 1..Len(s), NEW t \in Seq(S), CutAt(s, ":", k, t),
         t # <<>>, t[1] # ":", NEW i \in Nat, NEW e \in Int
  PROVE  Completes(s, i, e) <=> IsGroup(SubSeq(s, 1, k - 1)) /\ Completes(t, i + 2, e)
<1> DEFINE f == SubSeq(s, 1, k - 1)
<1>1. s # <<>> /\ IPV6_LEN - i \in Int /\ (IPV6_LEN - i) - 2 = IPV6_LEN - (i + 2)
  BY IpAssumption
<1>2. CASE e >= 0
  <2>1. Fits(s, i) <=> IsGroup(f) /\ t # <<>> /\ t[1] # ":" /\ Fits(t, i + 2)
    BY FitsBehind, Zenon
  <2>2. QED
    BY <1>2, <2>1, Zenon DEF Completes
<1>3. CASE ~ (e >= 0)
  <2>1. Listed(IPV6_LEN - i, s, TRUE) <=> IsGroup(f) /\ Listed(IPV6_LEN - (i + 2), t, TRUE)
    <3>1. Groups(IPV6_LEN - i, s, TRUE) <=> IsGroup(f) /\ Groups((IPV6_LEN - i) - 2, t, TRUE)
      BY <1>1, FirstGroup, Zenon
    <3>2. QED
      BY <1>1, <3>1, Zenon DEF Listed
  <2>2. \A n \in 1..Len(s), j \in Nat : n = j + k /\ j # 0 =>
          (AroundEllipsis(s, n, i) <=> IsGroup(f) /\ AroundEllipsis(t, j, i + 2))
    <3> SUFFICES ASSUME NEW n \in 1..Len(s), NEW j \in Nat, n = j + k, j # 0
                 PROVE  AroundEllipsis(s, n, i) <=> IsGroup(f) /\ AroundEllipsis(t, j, i + 2)
      OBVIOUS
    <3>1. AroundEllipsis(s, n, i) <=> IsGroup(f) /\ t[1] # ":" /\ AroundEllipsis(t, j, i + 2)
      BY EllipsisLater
    <3>2. QED
      BY <3>1, Zenon
  <2>3. ~AroundEllipsis(s, k, i)
    <3>1. 1 \in 1..Len(t) /\ 1 + k = k + 1
      OBVIOUS
    <3>2. t[1] = s[k + 1]
      BY <3>1, Zenon DEF CutAt
    <3>3. QED
      BY <3>2, Zenon DEF AroundEllipsis
  <2>4. \A n \in 1..Len(s) : AroundEllipsis(s, n, i) => n \in k..Len(s)
    BY NoEllipsisBefore, Zenon
  <2>5. /\ \A n \in k..Len(s) : n = k \/ \E j \in 1..Len(t) : j \in Nat /\ n = j + k /\ j # 0
        /\ \A j \in 1..Len(t) : j \in Nat /\ j # 0 /\ j + k \in 1..Len(s)
    BY PlacesBehind
  <2>6. ASSUME NEW n \in 1..Len(s), AroundEllipsis(s, n, i)
        PROVE  IsGroup(f) /\ \E j \in 1..Len(t) : AroundEllipsis(t, j, i + 2)
    <3>1. PICK j \in 1..Len(t) : j \in Nat /\ n = j + k /\ j # 0
      BY <2>3, <2>4, <2>5, <2>6, Zenon
    <3>2. QED
      BY <2>2, <2>6, <3>1, Zenon
  <2>7. ASSUME IsGroup(f), NEW j \in 1..Len(t), AroundEllipsis(t, j, i + 2)
        PROVE  \E n \in 1..Len(s) : AroundEllipsis(s, n, i)
    BY <2>2, <2>5, <2>7, Zenon
  <2> HIDE DEF f
  <2>8. (\E n \in 1..Len(s) : AroundEllipsis(s, n, i)) <=>
          IsGroup(f) /\ \E j \in 1..Len(t) : AroundEllipsis(t, j, i + 2)
    BY <2>6, <2>7, Zenon
  <2>9. QED
    BY <1>3, <2>1, <2>8, Zenon DEF Completes, f
<1>4. QED
  BY <1>2, <1>3, Zenon

\* A group with an ellipsis behind it.
LEMMA CompletesEllipsis ==
  ASSUME NEW S, NEW s \in Seq(S), NEW k \in 1..Len(s), NEW t \in Seq(S), CutAt(s, ":", k, t),
         t # <<>>, t[1] = ":", NEW i \in Nat, NEW e \in Int,
         e < 0 => ~StartsWithEllipsis(s)
  PROVE  Completes(s, i, e) <=>
           /\ e < 0 /\ IsGroup(SubSeq(s, 1, k - 1))
           /\ Completes(From(s, k + 2), i + 2, i + 2)
<1> DEFINE f == SubSeq(s, 1, k - 1)
           r == From(s, k + 2)
<1>1. s # <<>> /\ IPV6_LEN - i \in Int /\ (IPV6_LEN - i) - 2 \in Int /\ i + 2 >= 0
      /\ (e < 0 <=> ~ (e >= 0))
  BY IpAssumption
<1>2. CASE e >= 0
  <2>1. ~Fits(s, i)
    BY FitsBehind, Zenon
  <2>2. QED
    BY <1>1, <1>2, <2>1, Zenon DEF Completes
<1>3. CASE e < 0
  <2>1. ~Listed(IPV6_LEN - i, s, TRUE)
    <3>1. ~Groups((IPV6_LEN - i) - 2, t, TRUE)
      BY <1>1, GroupsStart, Zenon
    <3>2. ~Groups(IPV6_LEN - i, s, TRUE)
      BY <1>1, <3>1, FirstGroup, Zenon
    <3>3. QED
      BY <1>1, <3>2, Zenon DEF Listed
  <2>2. k # 1
    <3> SUFFICES ASSUME k = 1 PROVE FALSE
      OBVIOUS
    <3>1. s[1] = ":" /\ Len(t) = Len(s) - 1 /\ \A j \in 1..Len(t) : t[j] = s[j + 1]
      BY Zenon DEF CutAt
    <3>2. 1 \in 1..Len(t) /\ 1 + 1 = 2 /\ Len(s) > 1
      BY <3>1
    <3>3. s[2] = ":"
      BY <3>1, <3>2, Zenon
    <3>4. QED
      BY <1>3, <3>1, <3>2, <3>3, Zenon DEF StartsWithEllipsis
  <2>3. AroundEllipsis(s, k, i) <=> IsGroup(f) /\ Fits(r, i + 2)
    <3>1. AroundEllipsis(s, k, i) <=> t # <<>> /\ t[1] = ":" /\ IsGroup(f) /\ Fits(r, i + 2)
      BY <2>2, EllipsisHere, Zenon
    <3>2. QED
      BY <3>1, Zenon
  <2>4. \A n \in 1..Len(s) : AroundEllipsis(s, n, i) => n \in k..Len(s)
    BY NoEllipsisBefore, Zenon
  <2>5. \A n \in k..Len(s) : n = k \/ \E j \in 1..Len(t) : j \in Nat /\ n = j + k /\ j # 0
    BY PlacesBehind
  <2>6. \A n \in 1..Len(s), j \in Nat : n = j + k /\ j # 0 => ~AroundEllipsis(s, n, i)
    <3> SUFFICES ASSUME NEW n \in 1..Len(s), NEW j \in Nat, n = j + k, j # 0
                 PROVE  ~AroundEllipsis(s, n, i)
      OBVIOUS
    <3>1. AroundEllipsis(s, n, i) <=> IsGroup(f) /\ t[1] # ":" /\ AroundEllipsis(t, j, i + 2)
      BY EllipsisLater
    <3>2. QED
      BY <3>1, Zenon
  <2>7. (\E n \in 1..Len(s) : AroundEllipsis(s, n, i)) <=> AroundEllipsis(s, k, i)
    BY <2>4, <2>5, <2>6, Zenon
  <2>8. Completes(r, i + 2, i + 2) <=> Fits(r, i + 2)
    BY <1>1, Zenon DEF Completes
  <2> HIDE DEF f, r
  <2>9. Completes(s, i, e) <=> e < 0 /\ IsGroup(f) /\ Completes(r, i + 2, i + 2)
    BY <1>1, <1>3, <2>1, <2>3, <2>7, <2>8, Zenon DEF Completes
  <2>10. QED
    BY <2>9, Zenon DEF f, r
<1>4. QED
  BY <1>1, <1>2, <1>3, Zenon

-----------------------------------------------------------------------------
(* The whole text. *)

\* IsIpv6 in these terms.
LEMMA Ipv6Completes ==
  ASSUME NEW S, NEW s \in Seq(S)
  PROVE  IsIpv6(s) <=> Completes(s, 0, -1)
<1>1. PICK N \in Nat : N = IPV6_LEN /\ 2 <= N
  <2>1. \E n \in Nat, m \in Nat : n = IPV6_LEN /\ 2 <= m /\ m + 2 <= n
    BY LengthsAre, Zenon
  <2>2. QED
    BY <2>1
<1>2. N \in 0..N /\ N - 0 = N /\ ~ (-1 >= 0)
  BY <1>1
<1>3. TRUE \in BOOLEAN /\ FALSE \in BOOLEAN
  OBVIOUS
<1>4. Bytes(s, TRUE) = N <=> Listed(N, s, TRUE)
  BY <1>1, <1>2, <1>3, BytesAre, Zenon
<1>5. ASSUME NEW n \in 1 .. Len(s) - 1
      PROVE  Bytes(SubSeq(s, 1, n - 1), FALSE) + Bytes(From(s, n + 2), TRUE) <= N - 2 <=>
               \E b \in 0..N : Listed(b, SubSeq(s, 1, n - 1), FALSE) /\ Fits(From(s, n + 2), b + 0)
  <2>1. n \in 1 .. Len(s) + 1 /\ n + 2 \in 1 .. Len(s) + 1
    BY LenProperties
  <2>2. PICK p, r : p = SubSeq(s, 1, n - 1) /\ r = From(s, n + 2)
    OBVIOUS
  <2>3. p \in Seq(S) /\ r \in Seq(S)
    <3>1. SubSeq(s, 1, n - 1) \in Seq(S)
      BY <2>1, PrefixIs, Zenon
    <3>2. From(s, n + 2) \in Seq(S)
      BY <2>1, FromIs, Zenon
    <3>3. QED
      BY <2>2, <3>1, <3>2, Zenon
  <2>4. PICK x \in Nat, y \in Nat : x = Bytes(p, FALSE) /\ y = Bytes(r, TRUE)
    BY <1>3, <2>3, BytesAre, Zenon
  <2>5. /\ \A b \in 0..N : x = b <=> Listed(b, p, FALSE)
        /\ \A b \in 0..N : y = b <=> Listed(b, r, TRUE)
    BY <1>1, <1>3, <2>3, <2>4, BytesAre, Zenon
  <2>6. \A b : Fits(r, b + 0) <=> \E d \in 0..N : d + (b + 0) <= N - 2 /\ Listed(d, r, TRUE)
    BY <1>1, Zenon DEF Fits
  <2>7. x + y <= N - 2 => x \in 0..N /\ y \in 0..N /\ y + (x + 0) <= N - 2
    BY <1>1
  <2>8. ASSUME NEW b \in 0..N, NEW d \in 0..N, d + (b + 0) <= N - 2, x = b, y = d
        PROVE  x + y <= N - 2
    BY <2>8
  <2>9. x + y <= N - 2 <=> \E b \in 0..N : Listed(b, p, FALSE) /\ Fits(r, b + 0)
    BY <2>5, <2>6, <2>7, <2>8, Zenon
  <2>10. QED
    BY <2>2, <2>4, <2>9, Zenon
<1>6. \A n \in 1..Len(s) : AroundEllipsis(s, n, 0) <=>
        /\ n \in 1 .. Len(s) - 1 /\ s[n] = ":" /\ s[n + 1] = ":"
        /\ Bytes(SubSeq(s, 1, n - 1), FALSE) + Bytes(From(s, n + 2), TRUE) <= N - 2
  BY <1>1, <1>5, Zenon DEF AroundEllipsis
<1>7. \A n \in 1 .. Len(s) - 1 : n \in 1..Len(s)
  BY LenProperties
<1>8. IsIpv6(s) <=> \/ Bytes(s, TRUE) = N
                    \/ \E n \in 1 .. Len(s) - 1 :
                         /\ s[n] = ":" /\ s[n + 1] = ":"
                         /\ Bytes(SubSeq(s, 1, n - 1), FALSE) + Bytes(From(s, n + 2), TRUE) <= N - 2
  BY <1>1, Zenon DEF IsIpv6
<1>9. Completes(s, 0, -1) <=> Listed(N, s, TRUE) \/ \E n \in 1..Len(s) : AroundEllipsis(s, n, 0)
  BY <1>1, <1>2, Zenon DEF Completes
<1>10. QED
  BY <1>4, <1>6, <1>7, <1>8, <1>9, Zenon

\* An ellipsis in front.
LEMMA EllipsisFirst ==
  ASSUME NEW S, NEW s \in Seq(S), StartsWithEllipsis(s)
  PROVE  /\ Completes(s, 0, -1) <=> Completes(From(s, 3), 0, 0)
         /\ From(s, 3) \in Seq(S)
<1>1. PICK N \in Nat : N = IPV6_LEN /\ N - 0 = N /\ N \in Int /\ ~ (-1 >= 0) /\ 0 >= 0
  BY IpAssumption
<1>2. s[1] = ":" /\ s[2] = ":" /\ Len(s) > 1
  BY Zenon DEF StartsWithEllipsis
<1>3. 1 \in 1..Len(s) /\ 1 \in 1 .. Len(s) - 1 /\ 2 \in 1 .. Len(s) + 1 /\ 3 \in 1 .. Len(s) + 1
      /\ 1 + 1 = 2 /\ 1 + 2 = 3 /\ 1 - 1 = 0 /\ s # <<>>
  BY <1>2
<1>4. PICK i, t : i \in 1..Len(s) /\ t \in Seq(S) /\ CutAt(s, ":", i, t)
  <2>1. Contains(s, ":")
    BY <1>2, <1>3, Zenon DEF Contains
  <2>2. QED
    BY <2>1, CutFirst, Zenon
<1>5. i = 1
  <2>1. 1 \notin 1 .. i - 1
    BY <1>2, <1>4, Zenon DEF CutAt
  <2>2. QED
    BY <1>4, <2>1
<1>6. t[1] = ":" /\ Len(t) # 0
  <2>1. Len(t) = Len(s) - 1 /\ \A j \in 1..Len(t) : t[j] = s[j + 1]
    BY <1>4, <1>5, Zenon DEF CutAt
  <2>2. 1 \in 1..Len(t) /\ Len(t) # 0
    BY <1>2, <2>1
  <2>3. QED
    BY <1>2, <1>3, <2>1, <2>2, Zenon
<1>7. \A n \in 1..Len(s) : n # 1 => ~AroundEllipsis(s, n, 0)
  <2> SUFFICES ASSUME NEW n \in 1..Len(s), n # 1 PROVE ~AroundEllipsis(s, n, 0)
    OBVIOUS
  <2>1. PICK j \in Nat : n = j + 1 /\ j # 0
    <3>1. n - 1 \in Nat /\ n = (n - 1) + 1 /\ n - 1 # 0
      BY LenProperties
    <3>2. QED
      BY <3>1, Zenon
  <2>2. CutAt(s, ":", 1, t)
    BY <1>4, <1>5, Zenon
  <2>3. 0 \in Nat
    OBVIOUS
  <2>4. AroundEllipsis(s, n, 0) <=>
          IsGroup(SubSeq(s, 1, 1 - 1)) /\ t[1] # ":" /\ AroundEllipsis(t, j, 0 + 2)
    BY <1>3, <1>4, <2>1, <2>2, <2>3, EllipsisLater
  <2>5. QED
    BY <1>6, <2>4, Zenon
<1>8. AroundEllipsis(s, 1, 0) <=> Fits(From(s, 3), 0)
  <2>1. SubSeq(s, 1, 0) = <<>> /\ 0 + 0 = 0 /\ 0 \in 0..N
    OBVIOUS
  <2>2. \A b : Listed(b, <<>>, FALSE) <=> b = 0
    BY Zenon DEF Listed
  <2>3. AroundEllipsis(s, 1, 0) <=>
          \E b \in 0..N : Listed(b, <<>>, FALSE) /\ Fits(From(s, 3), b + 0)
    BY <1>1, <1>2, <1>3, <2>1, Zenon DEF AroundEllipsis
  <2>4. QED
    BY <2>1, <2>2, <2>3, Zenon
<1>9. ~Listed(N, s, TRUE)
  <2>1. ~Groups(N, s, TRUE)
    BY <1>1, <1>2, GroupsStart, Zenon
  <2>2. QED
    BY <1>3, <2>1, Zenon DEF Listed
<1>10. From(s, 3) \in Seq(S)
  BY <1>3, FromIs, Zenon
<1>11. Completes(s, 0, -1) <=> Completes(From(s, 3), 0, 0)
  BY <1>1, <1>3, <1>7, <1>8, <1>9, Zenon DEF Completes
<1>12. QED
  BY <1>10, <1>11, Zenon

\* A text with neither dots nor colons is no address, one with a dot in front of
\* all colons no IPv6 address.
LEMMA FirstSeparator ==
  ASSUME NEW S, NEW s \in Seq(S)
  PROVE  /\ ~Contains(s, ".") /\ ~Contains(s, ":") => ~IsIpv4(s) /\ ~IsIpv6(s)
         /\ \A j \in 1..Len(s) :
              s[j] = "." /\ (\A i \in 1 .. j - 1 : s[i] # ":") => ~IsIpv6(s)
<1>1. PICK N \in Nat, M \in Nat : N = IPV6_LEN /\ M = IPV4_LEN /\ 2 <= M /\ M + 2 <= N
  BY LengthsAre, Zenon
<1>2. N - 0 = N /\ N # 2 /\ N # M /\ N # 0 /\ ~ (-1 >= 0) /\ 0 \in Nat /\ N \in Int
  BY <1>1
<1>3. Completes(s, 0, -1) <=> Listed(N, s, TRUE) \/ \E n \in 1..Len(s) : AroundEllipsis(s, n, 0)
  BY <1>1, <1>2, Zenon DEF Completes
<1>4. ASSUME ~Contains(s, ":") PROVE ~IsIpv6(s)
  <2>1. \A n \in 1..Len(s) : ~AroundEllipsis(s, n, 0)
    BY <1>4, Zenon DEF AroundEllipsis, Contains
  <2>2. Groups(N, s, TRUE) <=>
          \/ N = 2 /\ IsGroup(s)
          \/ TRUE /\ N = IPV4_LEN /\ IsIpv4(s)
    BY <1>4, LastGroup, Zenon
  <2>3. ~Listed(N, s, TRUE)
    BY <1>1, <1>2, <2>2, Zenon DEF Listed
  <2>4. QED
    BY <1>3, <2>1, <2>3, Ipv6Completes, Zenon
<1>5. ASSUME NEW j \in 1..Len(s), s[j] = ".", \A i \in 1 .. j - 1 : s[i] # ":", Contains(s, ":")
      PROVE  ~IsIpv6(s)
  <2>1. PICK k, t : k \in 1..Len(s) /\ t \in Seq(S) /\ CutAt(s, ":", k, t)
    BY <1>5, CutFirst, Zenon
  <2>2. j \in 1 .. k - 1
    <3>1. s[k] = ":" /\ "." # ":"
      BY <2>1, Zenon DEF CutAt
    <3>2. k # j /\ k \notin 1 .. j - 1
      BY <1>5, <3>1, Zenon
    <3>3. QED
      BY <2>1, <3>2
  <2>3. ~IsGroup(SubSeq(s, 1, k - 1))
    <3>1. k \in 1 .. Len(s) + 1
      BY <2>1
    <3>2. /\ SubSeq(s, 1, k - 1) \in Seq(S) /\ Len(SubSeq(s, 1, k - 1)) = k - 1
          /\ \A i \in 1 .. k - 1 : SubSeq(s, 1, k - 1)[i] = s[i]
      BY <3>1, PrefixIs, Zenon
    <3>3. "." \notin HexDigits
      BY DigitsAre, Zenon
    <3>4. QED
      BY <1>5, <2>2, <3>2, <3>3, GroupIsDigits, Zenon
  <2>4. s # <<>> /\ k # 1
    BY <2>1, <2>2
  <2>5. ~Listed(N, s, TRUE)
    <3>1. ~Groups(N, s, TRUE)
      BY <1>2, <2>1, <2>3, FirstGroup, Zenon
    <3>2. QED
      BY <2>4, <3>1, Zenon DEF Listed
  <2>6. ASSUME NEW n \in 1..Len(s), AroundEllipsis(s, n, 0) PROVE FALSE
    <3>1. n \in k..Len(s)
      BY <2>1, <2>6, NoEllipsisBefore, Zenon
    <3>2. CASE n = k
      BY <1>2, <2>1, <2>3, <2>4, <2>6, <3>2, EllipsisHere, Zenon
    <3>3. CASE n # k
      <4>1. \A x \in k..Len(s) : x = k \/ \E i \in 1..Len(t) : i \in Nat /\ x = i + k /\ i # 0
        BY <2>1, PlacesBehind
      <4>2. PICK i \in Nat : n = i + k /\ i # 0
        BY <3>1, <3>3, <4>1, Zenon
      <4>3. AroundEllipsis(s, n, 0) <=>
              IsGroup(SubSeq(s, 1, k - 1)) /\ t[1] # ":" /\ AroundEllipsis(t, i, 0 + 2)
        BY <1>2, <2>1, <4>2, EllipsisLater
      <4>4. QED
        BY <2>3, <2>6, <4>3, Zenon
    <3>4. QED
      BY <3>2, <3>3, Zenon
  <2>7. QED
    BY <1>3, <2>5, <2>6, Ipv6Completes, Zenon
<1>6. ASSUME ~Contains(s, ".") PROVE ~IsIpv4(s)
  BY <1>6, Ipv4HasDots, Zenon
<1>7. QED
  BY <1>4, <1>5, <1>6, Zenon

-----------------------------------------------------------------------------
(* The look ahead. *)

\* The first dot or colon.
LEMMA SeparatorIs ==
  ASSUME NEW S, NEW s \in Seq(S), NEW k, k = SelectInSeq(s, LAMBDA c : c \in {".", ":"})
  PROVE  /\ k = 0 => ~Contains(s, ".") /\ ~Contains(s, ":")
         /\ k # 0 => /\ k \in 1..Len(s) /\ s[k] \in {".", ":"}
                     /\ \A j \in 1 .. k - 1 : s[j] \notin {".", ":"}
<1>1. PICK L \in Nat : L = Len(s)
  OBVIOUS
<1> DEFINE I == {i \in 1..Len(s) : s[i] \in {".", ":"}}
<1>2. k = IF I # {} THEN Min(I) ELSE 0
  BY DEF SelectInSeq
<1>3. I = {i \in 1..L : s[i] \in {".", ":"}}
  BY <1>1, Zenon
<1> HIDE DEF I
<1>4. I \subseteq Nat /\ I \subseteq 1..L
  BY <1>3
<1>5. CASE I = {}
  <2>1. \A j \in 1..L : s[j] \notin {".", ":"}
    BY <1>3, <1>5, Zenon
  <2>2. k = 0
    BY <1>2, <1>5, Zenon
  <2>3. QED
    BY <1>1, <2>1, <2>2, Zenon DEF Contains
<1>6. CASE I # {}
  <2>1. k = Min(I)
    BY <1>2, <1>6, Zenon
  <2>2. k \in I /\ \A x \in I : k <= x
    BY <1>4, <1>6, <2>1, MinOfNats, Zenon
  <2>3. k \in 1..L /\ s[k] \in {".", ":"}
    BY <1>3, <2>2, Zenon
  <2>4. \A j \in 1 .. k - 1 : j \in 1..L /\ ~ (k <= j)
    BY <2>3
  <2>5. \A j \in 1 .. k - 1 : s[j] \notin {".", ":"}
    BY <1>3, <2>2, <2>4, Zenon
  <2>6. k # 0
    BY <2>3
  <2>7. QED
    BY <1>1, <2>3, <2>5, <2>6, Zenon
<1>7. QED
  BY <1>5, <1>6, Zenon

\* The group at the front of what is left, and the octet of an IPv4 address, are
\* what the parser finds there.
LEMMA NextIs ==
  ASSUME NEW S, cp \in Seq(S), cp # <<>>
  PROVE  /\ xtoi(cp).c \in 0..Len(cp)
         /\ xtoi(cp).c < Len(cp) => cp[xtoi(cp).c + 1] \notin HexDigits
         /\ \A k \in 1..Len(cp) : cp[k] \notin HexDigits =>
              (IsGroup(SubSeq(cp, 1, k - 1)) <=> IsGroupNext /\ xtoi(cp).c = k - 1)
         /\ IsGroup(cp) <=> IsGroupNext /\ xtoi(cp).c = Len(cp)
         /\ IsIpv4(cp) => IsGroupNext /\ DotFollows
<1>1. PICK s \in Seq(S) : s = cp
  OBVIOUS
<1>2. PICK L \in Nat : L = Len(s)
  OBVIOUS
<1>3. PICK x \in Nat : x = 16
  OBVIOUS
<1>4. GroupMax \in Nat /\ GroupMax < BIG /\ BIG \in Nat /\ HexDigits \subseteq HexDigits
      /\ NULL \notin HexDigits
  <2>1. NULL \notin HexDigits
    BY DigitsAre, Zenon
  <2>2. QED
    BY <2>1, IpAssumption, Ipv4Assumption
<1>5. PICK d : d = xtoi(s) /\ d = ToInt(s, HexDigits, x)
  BY <1>3, Zenon DEF xtoi
<1>6. IsGroupNext <=> d.ok /\ d.n <= GroupMax
  BY <1>1, <1>5, Zenon DEF IsGroupNext
<1>7. d.c = Span(s, HexDigits)
  <2>1. ToInt(s, HexDigits, x).c = Span(s, HexDigits)
    BY <1>4, ToIntIs, Zenon
  <2>2. QED
    BY <1>5, <2>1, Zenon
<1>8. d.c \in 0..L /\ (d.c < L => s[d.c + 1] \notin HexDigits)
  <2>1. /\ Span(s, HexDigits) \in 0..Len(s)
        /\ Span(s, HexDigits) < Len(s) => s[Span(s, HexDigits) + 1] \notin HexDigits
    BY <1>4, SpanIs, Zenon
  <2>2. QED
    BY <1>2, <1>7, <2>1, Zenon
<1>9. ASSUME NEW k \in 1 .. L + 1, k <= L => s[k] \notin HexDigits
      PROVE  IsGroup(SubSeq(s, 1, k - 1)) <=> IsGroupNext /\ d.c = k - 1
  <2>1. IsNumber(SubSeq(s, 1, k - 1), HexDigits, x, GroupMax) <=>
          /\ ToInt(s, HexDigits, x).ok /\ ToInt(s, HexDigits, x).n <= GroupMax
          /\ ToInt(s, HexDigits, x).c = k - 1
    BY <1>2, <1>4, <1>9, NumberInFront, Zenon
  <2>2. QED
    BY <1>3, <1>5, <1>6, <2>1, Zenon DEF IsGroup
<1>10. \A k \in 1..L : s[k] \notin HexDigits =>
         (IsGroup(SubSeq(s, 1, k - 1)) <=> IsGroupNext /\ d.c = k - 1)
  <2>1. \A k \in 1..L : k \in 1 .. L + 1
    OBVIOUS
  <2>2. QED
    BY <1>9, <2>1, Zenon
<1>11. IsGroup(s) <=> IsGroupNext /\ d.c = L
  <2>1. L + 1 \in 1 .. L + 1 /\ ~ (L + 1 <= L) /\ (L + 1) - 1 = L /\ SubSeq(s, 1, L) = s
    BY <1>2
  <2>2. QED
    BY <1>9, <2>1, Zenon
<1>12. ASSUME IsIpv4(s) PROVE IsGroupNext /\ DotFollows
  <2>1. Contains(s, ".") /\ Octets(IPV4_LEN, s)
    BY <1>12, Ipv4HasDots, Zenon
  <2>2. PICK i, t : i \in 1..Len(s) /\ t \in Seq(S) /\ CutAt(s, ".", i, t)
    BY <2>1, CutFirst, Zenon
  <2>3. i \in 1..L /\ i \in 1 .. Len(s) + 1 /\ i - 1 < L /\ (i - 1) + 1 = i
    BY <1>2, <2>2
  <2>4. PICK m \in Nat : IPV4_LEN = m + 1
    <3>1. IPV4_LEN - 1 \in Nat /\ IPV4_LEN = (IPV4_LEN - 1) + 1
      BY Ipv4Assumption
    <3>2. QED
      BY <3>1, Zenon
  <2>5. IsOctet(SubSeq(s, 1, i - 1))
    BY <2>1, <2>2, <2>4, OctetsUnfold, Zenon
  <2>6. SubSeq(s, 1, i - 1) \in Seq(S)
    BY <2>3, PrefixIs, Zenon
  <2>7. IsGroup(SubSeq(s, 1, i - 1))
    BY <2>5, <2>6, OctetIsGroup, Zenon
  <2>8. s[i] = "." /\ "." \notin HexDigits
    BY <2>2, DigitsAre, Zenon DEF CutAt
  <2>9. IsGroupNext /\ d.c = i - 1
    BY <1>10, <2>3, <2>7, <2>8, Zenon
  <2>10. QED
    BY <1>1, <1>2, <1>5, <2>3, <2>8, <2>9, Zenon DEF DotFollows
<1>13. QED
  BY <1>1, <1>2, <1>5, <1>8, <1>10, <1>11, <1>12, Zenon

\* Where there is no dot behind a number, only the end or a colon may follow.
LEMMA NextNeeded ==
  ASSUME NEW S, cp \in Seq(S), cp # <<>>, NEW i \in Nat, NEW e \in Int,
         e < 0 => ~StartsWithEllipsis(cp)
  PROVE  /\ Completes(cp, i, e) => IsGroupNext
         /\ DotFollows => (Completes(cp, i, e) <=> IsIpv4(cp) /\ Enough(i + IPV4_LEN, e))
         /\ ~DotFollows /\ Completes(cp, i, e) =>
              xtoi(cp).c = Len(cp) \/ cp[xtoi(cp).c + 1] = ":"
<1>1. PICK s \in Seq(S) : s = cp /\ s # <<>>
  OBVIOUS
<1>2. PICK d : d = xtoi(s).c
  OBVIOUS
<1>3. /\ d \in 0..Len(s)
      /\ \A k \in 1..Len(s) : s[k] \notin HexDigits =>
           (IsGroup(SubSeq(s, 1, k - 1)) <=> IsGroupNext /\ d = k - 1)
      /\ IsGroup(s) <=> IsGroupNext /\ d = Len(s)
      /\ IsIpv4(s) => IsGroupNext /\ DotFollows
  BY <1>1, <1>2, NextIs, Zenon
<1>4. DotFollows <=> d < Len(s) /\ s[d + 1] = "."
  BY <1>1, <1>2, Zenon DEF DotFollows
<1>5. ~ (Len(s) < Len(s)) /\ ":" # "."
  BY LenProperties
<1>6. CASE ~Contains(s, ":")
  <2>1. Completes(s, i, e) <=> \/ IsGroup(s) /\ Enough(i + 2, e)
                               \/ IsIpv4(s) /\ Enough(i + IPV4_LEN, e)
    BY <1>1, <1>6, CompletesLast, Zenon
  <2>2. QED
    BY <1>1, <1>2, <1>3, <1>4, <1>5, <2>1, Zenon
<1>7. CASE Contains(s, ":")
  <2>1. PICK k, t : k \in 1..Len(s) /\ t \in Seq(S) /\ CutAt(s, ":", k, t)
    BY <1>7, CutFirst, Zenon
  <2>2. s[k] = ":" /\ s[k] \notin HexDigits
    BY <2>1, DigitsAre, Zenon DEF CutAt
  <2>3. ~IsIpv4(s)
    BY <1>7, Ipv4HasDots, Zenon
  <2>4. Completes(s, i, e) => IsGroup(SubSeq(s, 1, k - 1))
    <3>1. CASE t = <<>>
      BY <2>1, <3>1, CompletesColon, Zenon
    <3>2. CASE t # <<>> /\ t[1] # ":"
      BY <2>1, <3>2, CompletesGroup, Zenon
    <3>3. CASE t # <<>> /\ t[1] = ":"
      BY <1>1, <2>1, <3>3, CompletesEllipsis, Zenon
    <3>4. QED
      BY <3>1, <3>2, <3>3, Zenon
  <2>5. (k - 1) + 1 = k
    BY <2>1
  <2>6. Completes(s, i, e) => IsGroupNext /\ d + 1 = k
    BY <1>3, <2>1, <2>2, <2>4, <2>5, Zenon
  <2>7. QED
    BY <1>1, <1>2, <1>4, <1>5, <2>2, <2>3, <2>6, Zenon
<1>8. QED
  BY <1>6, <1>7, Zenon

\* No room for anything.
LEMMA NothingCompletes ==
  ASSUME NEW S, NEW s \in Seq(S), s # <<>>, NEW e \in Int PROVE ~Completes(s, IPV6_LEN, e)
<1>1. PICK N \in Nat : N = IPV6_LEN
  BY IpAssumption
<1>2. \A b \in Nat : ~Fits(s, b + N)
  <2>1. \A b \in Nat, c \in 0..N : ~ (c + (b + N) <= N - 2)
    OBVIOUS
  <2>2. QED
    BY <1>1, <2>1, Zenon DEF Fits
<1>3. CASE e >= 0
  <2>1. 0 \in Nat /\ 0 + N = N
    OBVIOUS
  <2>2. QED
    BY <1>1, <1>2, <1>3, <2>1, Zenon DEF Completes
<1>4. CASE ~ (e >= 0)
  <2>1. ~Listed(N - N, s, TRUE)
    <3>1. N - N \in Int /\ ~ (2 <= N - N)
      OBVIOUS
    <3>2. ~Groups(N - N, s, TRUE)
      BY <3>1, GroupsStart, Zenon
    <3>3. QED
      BY <3>2, Zenon DEF Listed
  <2>2. \A n \in 1..Len(s) : ~AroundEllipsis(s, n, N)
    <3>1. \A r, b : b \in 0..N => ~Fits(r, b + N)
      <4>1. \A b \in 0..N, c \in 0..N : ~ (c + (b + N) <= N - 2)
        OBVIOUS
      <4>2. QED
        BY <1>1, <4>1, Zenon DEF Fits
    <3>2. QED
      BY <1>1, <3>1, Zenon DEF AroundEllipsis
  <2>3. QED
    BY <1>1, <1>4, <2>1, <2>2, Zenon DEF Completes
<1>5. QED
  BY <1>3, <1>4, Zenon

-----------------------------------------------------------------------------
(* The inductive invariant of the parser. *)

\* While the loop runs, what is left completes the bytes so far if and only if
\* the text is an IPv6 address; it is no IPv4 address.
ParserInv ==
  /\ ipText \in Seq(IpChars)
  /\ ipPc \in {"loop", "end"} =>
       /\ cp \in Seq(IpChars) /\ ~IsIpv4(ipText)
       /\ IsIpv6(ipText) <=> Completes(cp, ix, ellipsis)
  /\ ipPc = "loop" => cp # <<>> /\ (ellipsis < 0 => ~StartsWithEllipsis(cp))
  /\ ipPc = "end" => cp = <<>>
  /\ ValidatesAddresses

\* The labels of the parser.
LEMMA PcsDiffer ==
  /\ "type" \notin {"loop", "end"} /\ "done" \notin {"loop", "end"}
  /\ "type" # "done" /\ "loop" # "end" /\ "loop" # "done" /\ "end" # "done"
  /\ "type" # "loop" /\ "type" # "end"
OBVIOUS

\* A result that is right keeps the invariant.
LEMMA ReturnsRight ==
  ASSUME ipText \in Seq(IpChars), ipText' = ipText, NEW ret, IpReturn(ret),
         ret <=> IsIpv4(ipText) \/ IsIpv6(ipText)
  PROVE  ParserInv'
<1>1. ipPc' = "done" /\ ipRet' = ret
  BY Zenon DEF IpReturn
<1>2. ipText' \in Seq(IpChars)
  BY Zenon
<1>3. ValidatesAddresses'
  <2>1. ipRet' <=> IsIpv4(ipText') \/ IsIpv6(ipText')
    BY <1>1, Zenon
  <2>2. QED
    BY <2>1, Zenon DEF ValidatesAddresses
<1>4. QED
  BY <1>1, <1>2, <1>3, PcsDiffer, Zenon DEF ParserInv

\* A step that goes on with the parser keeps it where what is left still tells
\* whether the text is an address.
LEMMA GoesOn ==
  ASSUME ipText \in Seq(IpChars), ipText' = ipText, ~IsIpv4(ipText),
         cp' \in Seq(IpChars), IsIpv6(ipText) <=> Completes(cp', ix', ellipsis'),
         \/ /\ ipPc' = "loop" /\ cp' # <<>>
            /\ ellipsis' < 0 => ~StartsWithEllipsis(cp')
         \/ ipPc' = "end" /\ cp' = <<>>
  PROVE  ParserInv'
<1>1. ipText' \in Seq(IpChars) /\ ~IsIpv4(ipText') /\ (IsIpv6(ipText') <=> Completes(cp', ix', ellipsis'))
  BY Zenon
<1>2. ValidatesAddresses'
  BY PcsDiffer, Zenon DEF ValidatesAddresses
<1>3. QED
  BY <1>1, <1>2, PcsDiffer, Zenon DEF ParserInv

\* The empty text, before validate_ip is called.
LEMMA ParserStarts == IpInit => ParserInv
<1> SUFFICES ASSUME IpInit PROVE ParserInv
  OBVIOUS
<1>1. ipPc = "type" /\ ipText = <<>>
  BY Zenon DEF IpInit
<1>2. <<>> \in Seq(IpChars)
  OBVIOUS
<1>3. QED
  BY <1>1, <1>2, PcsDiffer, Zenon DEF ParserInv, ValidatesAddresses

\* The text grows.
LEMMA AddPieceStep ==
  ASSUME ParserInv, NEW piece \in IpPieces, AddPiece(piece) PROVE ParserInv'
<1>1. ipPc' = "type" /\ ipText' = ipText \o piece /\ ipText \in Seq(IpChars)
  BY Zenon DEF AddPiece, ParserInv
<1>2. piece \in Seq(IpChars)
  BY TextAssumption, Zenon
<1>3. ipText \o piece \in Seq(IpChars)
  BY <1>1, <1>2, ConcatProperties, Zenon
<1>4. ipText' \in Seq(IpChars)
  BY <1>1, <1>3, Zenon
<1>5. QED
  BY <1>1, <1>4, PcsDiffer, Zenon DEF ParserInv, ValidatesAddresses

\* A group that is no number completes nothing, so FALSE is right.
LEMMA BadGroupStep ==
  ASSUME IpInv, ParserInv, BadGroup PROVE ParserInv'
<1>1. /\ ipPc = "loop" /\ ~IsGroupNext /\ IpReturn(FALSE) /\ ipText' = ipText
      /\ ipText \in Seq(IpChars) /\ cp \in Seq(IpChars) /\ ~IsIpv4(ipText) /\ cp # <<>>
      /\ (IsIpv6(ipText) <=> Completes(cp, ix, ellipsis))
      /\ (ellipsis < 0 => ~StartsWithEllipsis(cp))
  BY Zenon DEF BadGroup, ParserInv
<1>2. ix \in Nat /\ ellipsis \in Int
  BY IpAssumption DEF IpInv, IpTypeOK
<1>3. ~Completes(cp, ix, ellipsis)
  BY <1>1, <1>2, NextNeeded, Zenon
<1>4. QED
  BY <1>1, <1>3, ReturnsRight, Zenon

\* A dot behind digits: what is left must be an IPv4 address that fits.
LEMMA TrailingIpv4Step ==
  ASSUME IpInv, ParserInv, TrailingIpv4 PROVE ParserInv'
<1>1. /\ ipPc = "loop" /\ DotFollows /\ ipText' = ipText /\ ellipsis' = ellipsis
      /\ ipText \in Seq(IpChars) /\ cp \in Seq(IpChars) /\ ~IsIpv4(ipText) /\ cp # <<>>
      /\ (IsIpv6(ipText) <=> Completes(cp, ix, ellipsis))
      /\ (ellipsis < 0 => ~StartsWithEllipsis(cp))
  BY Zenon DEF TrailingIpv4, ParserInv
<1>2. ix \in Nat /\ ellipsis \in Int
  BY IpAssumption DEF IpInv, IpTypeOK
<1>3. Completes(cp, ix, ellipsis) <=> IsIpv4(cp) /\ Enough(ix + IPV4_LEN, ellipsis)
  BY <1>1, <1>2, NextNeeded, Zenon
<1>4. parse_ipv4(cp) <=> IsIpv4(cp)
  <2>1. NULL \notin Seq(IpChars)
    BY TextAssumption, Zenon
  <2>2. QED
    BY <1>1, <2>1, ParsesIpv4, Zenon
<1>5. ix + IPV4_LEN \in Nat /\ (Enough(ix + IPV4_LEN, ellipsis) => RoomForIpv4)
  <2>1. ix + IPV4_LEN \in Nat
    BY <1>2, Ipv4Assumption
  <2>2. CASE ellipsis >= 0
    BY <1>2, <2>2, IpAssumption, Ipv4Assumption DEF Enough, RoomForIpv4
  <2>3. CASE ~ (ellipsis >= 0)
    BY <1>2, <2>3, IpAssumption, Ipv4Assumption DEF Enough, RoomForIpv4
  <2>4. QED
    BY <2>1, <2>2, <2>3, Zenon
<1>6. CASE RoomForIpv4 /\ parse_ipv4(cp)
  <2>1. ix' = ix + IPV4_LEN /\ cp' = <<>> /\ ipPc' = "end"
    BY <1>6, Zenon DEF TrailingIpv4
  <2>2. Completes(<<>>, ix + IPV4_LEN, ellipsis) <=> Enough(ix + IPV4_LEN, ellipsis)
    BY <1>2, <1>5, CompletesNothing, Zenon
  <2>3. IsIpv6(ipText) <=> Completes(cp', ix', ellipsis')
    BY <1>1, <1>3, <1>4, <1>6, <2>1, <2>2, Zenon
  <2>4. cp' \in Seq(IpChars)
    BY <2>1
  <2>5. QED
    BY <1>1, <2>1, <2>3, <2>4, GoesOn, Zenon
<1>7. CASE ~ (RoomForIpv4 /\ parse_ipv4(cp))
  <2>1. IpReturn(FALSE)
    BY <1>7, Zenon DEF TrailingIpv4
  <2>2. ~IsIpv6(ipText)
    BY <1>1, <1>3, <1>4, <1>5, <1>7, Zenon
  <2>3. QED
    BY <1>1, <2>1, <2>2, ReturnsRight, Zenon
<1>8. QED
  BY <1>6, <1>7, Zenon

\* A text begins with "::" where its first two characters are colons.
LEMMA EllipsisInFront ==
  ASSUME NEW S, NEW s \in Seq(S)
  PROVE  BeginsWith(s, <<":", ":">>) <=> Len(s) > 1 /\ s[1] = ":" /\ s[2] = ":"
<1>1. BeginsWith(s, <<":", ":">>) <=> 2 <= Len(s) /\ \A i \in 1..2 : s[i] = ":"
  BY DEF BeginsWith, IsPrefix
<1>2. QED
  BY <1>1

\* The second character of a text is the first one of its tail.
LEMMA TwoLong ==
  ASSUME NEW S, NEW s \in Seq(S), Len(s) > 1
  PROVE  s # <<>> /\ Tail(s) # <<>> /\ Tail(s)[1] = s[2]
<1>1. PICK L \in Nat : L = Len(s) /\ L > 1
  OBVIOUS
<1>2. s # <<>>
  BY <1>1
<1>3. Tail(s) \in Seq(S) /\ Len(Tail(s)) = L - 1 /\ Tail(s)[1] = s[2]
  BY <1>1, <1>2
<1>4. Tail(s) # <<>>
  <2>1. \A t \in Seq(S) : Len(t) > 0 => t # <<>>
    OBVIOUS
  <2>2. Len(Tail(s)) > 0
    BY <1>1, <1>3
  <2>3. QED
    BY <1>3, <2>1, <2>2, Zenon
<1>5. QED
  BY <1>2, <1>3, <1>4, Zenon

\* The text behind its group: what Group calls rest, and where it cuts it.
LEMMA BehindNext ==
  ASSUME NEW S, cp \in Seq(S), cp # <<>>, NEW rest, rest = From(cp, xtoi(cp).c + 1)
  PROVE  /\ rest \in Seq(S)
         /\ rest = <<>> <=> xtoi(cp).c = Len(cp)
         /\ rest # <<>> => rest[1] = cp[xtoi(cp).c + 1] /\ xtoi(cp).c < Len(cp)
         /\ rest # <<>> /\ rest[1] = ":" /\ IsGroupNext =>
              /\ xtoi(cp).c + 1 \in 1..Len(cp) /\ Tail(rest) \in Seq(S)
              /\ CutAt(cp, ":", xtoi(cp).c + 1, Tail(rest))
              /\ IsGroup(SubSeq(cp, 1, (xtoi(cp).c + 1) - 1))
              /\ Tail(rest) = From(cp, (xtoi(cp).c + 1) + 1)
<1>1. PICK s \in Seq(S) : s = cp
  OBVIOUS
<1>2. PICK L \in Nat : L = Len(s) /\ L # 0
  BY <1>1
<1>3. PICK d : d = xtoi(s).c
  OBVIOUS
<1>4. /\ d \in 0..L /\ (d < L => s[d + 1] \notin HexDigits)
      /\ \A k \in 1..L : s[k] \notin HexDigits =>
           (IsGroup(SubSeq(s, 1, k - 1)) <=> IsGroupNext /\ d = k - 1)
  BY <1>1, <1>2, <1>3, NextIs, Zenon
<1>5. PICK p \in Nat : p = d + 1 /\ p \in 1 .. Len(s) + 1 /\ p \in 1 .. L + 1 /\ p - 1 = d
                       /\ (p <= L <=> d < L) /\ (p = L + 1 <=> d = L)
  BY <1>2, <1>4
<1>6. /\ From(s, p) \in Seq(S)
      /\ From(s, p) = <<>> <=> p = Len(s) + 1
      /\ p <= Len(s) => Head(From(s, p)) = s[p] /\ Tail(From(s, p)) = From(s, p + 1)
  BY <1>5, FromIs, Zenon
<1>7. From(s, p) # <<>> => p <= L /\ p \in 1..L
  BY <1>2, <1>5, <1>6
<1>8. From(s, p) # <<>> => Head(From(s, p)) = From(s, p)[1]
  BY <1>6
<1>9. ASSUME From(s, p) # <<>>, From(s, p)[1] = ":", IsGroupNext
      PROVE  /\ Tail(From(s, p)) \in Seq(S) /\ CutAt(s, ":", p, Tail(From(s, p)))
             /\ IsGroup(SubSeq(s, 1, p - 1))
  <2>1. p \in 1..L /\ p <= L /\ s[p] = ":"
    BY <1>2, <1>6, <1>7, <1>8, <1>9, Zenon
  <2>2. s[p] \notin HexDigits
    BY <2>1, DigitsAre, Zenon
  <2>3. IsGroup(SubSeq(s, 1, p - 1))
    BY <1>4, <1>5, <1>9, <2>1, <2>2, Zenon
  <2>4. PICK q \in Nat : q = p + 1 /\ q \in 1 .. Len(s) + 1 /\ Len(s) - q + 1 = L - p
    BY <1>2, <2>1
  <2>5. /\ From(s, q) \in Seq(S) /\ Len(From(s, q)) = L - p
        /\ \A j \in 1 .. L - p : From(s, q)[j] = s[q + j - 1]
    <3>1. /\ From(s, q) \in Seq(S) /\ Len(From(s, q)) = Len(s) - q + 1
          /\ \A j \in 1 .. Len(s) - q + 1 : From(s, q)[j] = s[q + j - 1]
      BY <2>4, FromIs, Zenon
    <3>2. QED
      BY <2>4, <3>1, Zenon
  <2>6. Tail(From(s, p)) = From(s, q)
    BY <1>2, <1>6, <2>1, <2>4, Zenon
  <2>7. \A j \in 1 .. L - p : q + j - 1 = j + p
    BY <2>4
  <2>8. \A j \in 1 .. p - 1 : s[j] # ":"
    <3>1. /\ SubSeq(s, 1, p - 1) \in Seq(S) /\ Len(SubSeq(s, 1, p - 1)) = p - 1
          /\ \A j \in 1 .. p - 1 : SubSeq(s, 1, p - 1)[j] = s[j]
      BY <1>5, PrefixIs, Zenon
    <3>2. \A j \in 1..Len(SubSeq(s, 1, p - 1)) : SubSeq(s, 1, p - 1)[j] \in HexDigits
      BY <2>3, <3>1, GroupIsDigits, Zenon
    <3>3. \A j \in 1 .. p - 1 : s[j] \in HexDigits
      BY <3>1, <3>2, Zenon
    <3>4. QED
      BY <3>3, DigitsAre, Zenon
  <2>9. CutAt(s, ":", p, From(s, q))
    BY <1>2, <2>1, <2>5, <2>7, <2>8, Zenon DEF CutAt
  <2>10. QED
    BY <2>3, <2>5, <2>6, <2>9, Zenon
<1>10. rest = From(s, p)
  BY <1>1, <1>3, <1>5, Zenon
<1>11. QED
  BY <1>1, <1>2, <1>3, <1>5, <1>6, <1>7, <1>8, <1>9, <1>10, Zenon

\* A group: its two bytes, then a colon, an ellipsis or the end.
LEMMA GroupStep ==
  ASSUME IpInv, ParserInv, Group PROVE ParserInv'
<1>1. /\ ipPc = "loop" /\ IsGroupNext /\ ~DotFollows /\ ipText' = ipText /\ ix' = ix + 2
      /\ ipText \in Seq(IpChars) /\ cp \in Seq(IpChars) /\ ~IsIpv4(ipText) /\ cp # <<>>
      /\ (IsIpv6(ipText) <=> Completes(cp, ix, ellipsis))
      /\ (ellipsis < 0 => ~StartsWithEllipsis(cp))
  BY Zenon DEF Group, ParserInv
<1>2. ix \in Nat /\ ix + 2 \in Nat /\ ellipsis \in Int
  BY IpAssumption DEF IpInv, IpTypeOK
<1>3. PICK rest : rest = From(cp, xtoi(cp).c + 1)
  OBVIOUS
<1>4. PICK d \in Nat : d = xtoi(cp).c
  BY <1>1, NextIs
<1>5. /\ rest \in Seq(IpChars)
      /\ rest = <<>> <=> d = Len(cp)
      /\ rest # <<>> => rest[1] = cp[d + 1] /\ d < Len(cp)
      /\ rest # <<>> /\ rest[1] = ":" =>
           /\ d + 1 \in 1..Len(cp) /\ Tail(rest) \in Seq(IpChars)
           /\ CutAt(cp, ":", d + 1, Tail(rest))
           /\ IsGroup(SubSeq(cp, 1, (d + 1) - 1))
           /\ Tail(rest) = From(cp, (d + 1) + 1)
  BY <1>1, <1>3, <1>4, BehindNext, Zenon
<1>6. \/ rest = <<>> /\ cp' = rest /\ ipPc' = "end" /\ UNCHANGED <<ellipsis, ipRet>>
      \/ /\ rest # <<>> /\ (rest[1] # ":" \/ Len(rest) = 1)
         /\ IpReturn(FALSE) /\ UNCHANGED <<cp, ellipsis>>
      \/ /\ Len(rest) > 1 /\ rest[1] = ":" /\ rest[2] # ":"
         /\ cp' = Tail(rest) /\ UNCHANGED <<ipPc, ellipsis, ipRet>>
      \/ /\ BeginsWith(rest, <<":", ":">>) /\ ellipsis >= 0
         /\ IpReturn(FALSE) /\ UNCHANGED <<cp, ellipsis>>
      \/ /\ BeginsWith(rest, <<":", ":">>) /\ ellipsis < 0
         /\ ellipsis' = ix + 2 /\ cp' = From(rest, 3)
         /\ ipPc' = IF cp' = <<>> THEN "end" ELSE "loop"
         /\ UNCHANGED ipRet
  BY <1>3, Zenon DEF Group
<1>7. CASE rest = <<>> /\ cp' = rest /\ ipPc' = "end" /\ ellipsis' = ellipsis
  <2>1. IsGroup(cp) /\ ~IsIpv4(cp)
    BY <1>1, <1>4, <1>5, <1>7, NextIs, Zenon
  <2>2. ~Contains(cp, ":")
    BY <1>1, <2>1, DigitsAre, GroupIsDigits, Zenon DEF Contains
  <2>3. Completes(cp, ix, ellipsis) <=> Enough(ix + 2, ellipsis)
    BY <1>1, <1>2, <2>1, <2>2, CompletesLast, Zenon
  <2>4. Completes(<<>>, ix + 2, ellipsis) <=> Enough(ix + 2, ellipsis)
    BY <1>2, CompletesNothing, Zenon
  <2>5. IsIpv6(ipText) <=> Completes(cp', ix', ellipsis')
    BY <1>1, <1>7, <2>3, <2>4, Zenon
  <2>6. cp' \in Seq(IpChars)
    BY <1>5, <1>7, Zenon
  <2>7. QED
    BY <1>1, <1>7, <2>5, <2>6, GoesOn, Zenon
<1>8. CASE rest # <<>> /\ rest[1] # ":" /\ IpReturn(FALSE)
  <2>1. d # Len(cp) /\ cp[d + 1] # ":"
    BY <1>5, <1>8, Zenon
  <2>2. ~Completes(cp, ix, ellipsis)
    BY <1>1, <1>2, <1>4, <2>1, NextNeeded, Zenon
  <2>3. QED
    BY <1>1, <1>8, <2>2, ReturnsRight, Zenon
<1>9. ASSUME rest # <<>>, rest[1] = ":" PROVE rest \in Seq(IpChars) /\ Tail(rest) \in Seq(IpChars)
        /\ d + 1 \in 1..Len(cp) /\ CutAt(cp, ":", d + 1, Tail(rest))
        /\ IsGroup(SubSeq(cp, 1, (d + 1) - 1)) /\ Tail(rest) = From(cp, (d + 1) + 1)
  BY <1>5, <1>9, Zenon
<1>10. CASE rest # <<>> /\ rest[1] = ":" /\ Len(rest) = 1 /\ IpReturn(FALSE)
  <2>1. Tail(rest) = <<>>
    BY <1>5, <1>10
  <2>2. CutAt(cp, ":", d + 1, <<>>) /\ d + 1 \in 1..Len(cp)
    BY <1>9, <1>10, <2>1, Zenon
  <2>3. ~Completes(cp, ix, ellipsis)
    BY <1>1, <1>2, <2>2, CompletesColon, Zenon
  <2>4. QED
    BY <1>1, <1>10, <2>3, ReturnsRight, Zenon
<1>11. CASE Len(rest) > 1 /\ rest[1] = ":" /\ rest[2] # ":" /\ cp' = Tail(rest)
            /\ ipPc' = ipPc /\ ellipsis' = ellipsis
  <2>1. PICK r \in Seq(IpChars) : r = rest /\ r # <<>>
    BY <1>5, <1>11
  <2>2. Tail(r) # <<>> /\ Tail(r)[1] = r[2]
    BY <1>11, <2>1
  <2>3. /\ d + 1 \in 1..Len(cp) /\ CutAt(cp, ":", d + 1, Tail(r)) /\ Tail(r) \in Seq(IpChars)
        /\ IsGroup(SubSeq(cp, 1, (d + 1) - 1))
    BY <1>9, <1>11, <2>1, Zenon
  <2>4. Tail(r)[1] # ":"
    BY <1>11, <2>1, <2>2, Zenon
  <2>5. Completes(cp, ix, ellipsis) <=>
          IsGroup(SubSeq(cp, 1, (d + 1) - 1)) /\ Completes(Tail(r), ix + 2, ellipsis)
    BY <1>1, <1>2, <2>2, <2>3, <2>4, CompletesGroup, Zenon
  <2>6. IsIpv6(ipText) <=> Completes(cp', ix', ellipsis')
    BY <1>1, <1>11, <2>1, <2>3, <2>5, Zenon
  <2>7. ipPc' = "loop" /\ cp' # <<>> /\ cp' \in Seq(IpChars) /\ ~StartsWithEllipsis(cp')
    BY <1>1, <1>11, <2>1, <2>2, <2>3, <2>4, Zenon DEF StartsWithEllipsis
  <2>8. QED
    BY <1>1, <2>6, <2>7, GoesOn, Zenon
<1>12. ASSUME BeginsWith(rest, <<":", ":">>)
       PROVE  /\ rest # <<>> /\ rest[1] = ":" /\ Tail(rest) # <<>> /\ Tail(rest)[1] = ":"
              /\ From(rest, 3) = From(cp, (d + 1) + 2) /\ From(rest, 3) \in Seq(IpChars)
  <2>1. PICK r \in Seq(IpChars) : r = rest
    BY <1>5
  <2>2. Len(r) > 1 /\ r[1] = ":" /\ r[2] = ":"
    BY <1>12, <2>1, EllipsisInFront
  <2>3. r # <<>> /\ Tail(r) # <<>> /\ Tail(r)[1] = r[2]
    BY <2>2, TwoLong, Zenon
  <2>4. PICK L \in Nat : L = Len(cp)
    BY <1>1
  <2>5. d + 1 \in 1..L /\ Tail(r) = From(cp, (d + 1) + 1) /\ r = From(cp, d + 1)
    BY <1>3, <1>4, <1>9, <2>1, <2>2, <2>3, <2>4, Zenon
  <2>6. PICK q \in Nat : q = d + 2 /\ q \in 1 .. Len(cp) + 1 /\ (d + 1) + 1 = q /\ (d + 1) + 2 = q + 1
    BY <2>4, <2>5
  <2>7. /\ From(cp, q) = <<>> <=> q = Len(cp) + 1
        /\ q <= Len(cp) => Tail(From(cp, q)) = From(cp, q + 1)
    BY <1>1, <2>6, FromIs, Zenon
  <2>8. q <= Len(cp)
    <3>1. q # Len(cp) + 1
      BY <2>3, <2>5, <2>6, <2>7, Zenon
    <3>2. QED
      BY <2>4, <2>6, <3>1
  <2>9. Tail(Tail(r)) = From(cp, (d + 1) + 2)
    BY <2>5, <2>6, <2>7, <2>8, Zenon
  <2>10. Tail(Tail(r)) = From(r, 3) /\ From(r, 3) \in Seq(IpChars)
    <3>1. 1 \in 1 .. Len(r) + 1 /\ 2 \in 1 .. Len(r) + 1 /\ 3 \in 1 .. Len(r) + 1
          /\ 1 <= Len(r) /\ 2 <= Len(r) /\ 1 + 1 = 2 /\ 2 + 1 = 3
      BY <2>2
    <3>2. From(r, 1) = r
      BY DEF From
    <3>3. Tail(From(r, 1)) = From(r, 1 + 1) /\ Tail(From(r, 2)) = From(r, 2 + 1)
      BY <3>1, FromIs, Zenon
    <3>4. From(r, 3) \in Seq(IpChars)
      BY <3>1, FromIs, Zenon
    <3>5. QED
      BY <3>1, <3>2, <3>3, <3>4, Zenon
  <2>11. QED
    BY <2>1, <2>2, <2>3, <2>9, <2>10, Zenon
<1>13. ASSUME BeginsWith(rest, <<":", ":">>)
       PROVE  Completes(cp, ix, ellipsis) <=>
                ellipsis < 0 /\ Completes(From(rest, 3), ix + 2, ix + 2)
  <2>1. /\ d + 1 \in 1..Len(cp) /\ Tail(rest) \in Seq(IpChars) /\ CutAt(cp, ":", d + 1, Tail(rest))
        /\ Tail(rest) # <<>> /\ Tail(rest)[1] = ":"
        /\ IsGroup(SubSeq(cp, 1, (d + 1) - 1))
        /\ From(rest, 3) = From(cp, (d + 1) + 2)
    BY <1>9, <1>12, <1>13, Zenon
  <2>2. Completes(cp, ix, ellipsis) <=>
          /\ ellipsis < 0 /\ IsGroup(SubSeq(cp, 1, (d + 1) - 1))
          /\ Completes(From(cp, (d + 1) + 2), ix + 2, ix + 2)
    BY <1>1, <1>2, <2>1, CompletesEllipsis, Zenon
  <2>3. QED
    BY <2>1, <2>2, Zenon
<1>14. CASE BeginsWith(rest, <<":", ":">>) /\ ellipsis >= 0 /\ IpReturn(FALSE)
  <2>1. ~ (ellipsis < 0)
    BY <1>2, <1>14
  <2>2. ~IsIpv6(ipText)
    BY <1>1, <1>13, <1>14, <2>1, Zenon
  <2>3. QED
    BY <1>1, <1>14, <2>2, ReturnsRight, Zenon
<1>15. CASE BeginsWith(rest, <<":", ":">>) /\ ellipsis < 0 /\ ellipsis' = ix + 2
            /\ cp' = From(rest, 3) /\ ipPc' = IF cp' = <<>> THEN "end" ELSE "loop"
  <2>1. cp' \in Seq(IpChars)
    BY <1>12, <1>15, Zenon
  <2>2. IsIpv6(ipText) <=> Completes(cp', ix', ellipsis')
    BY <1>1, <1>13, <1>15, Zenon
  <2>3. ~ (ellipsis' < 0)
    BY <1>2, <1>15
  <2>4. QED
    BY <1>1, <1>15, <2>1, <2>2, <2>3, GoesOn, Zenon
<1>16. QED
  BY <1>6, <1>7, <1>8, <1>10, <1>11, <1>14, <1>15, Zenon

\* The look at the first dot or colon.
LEMMA ValidateStep ==
  ASSUME IpInv, ParserInv, validate_ip PROVE ParserInv'
<1>1. /\ ipPc = "type" /\ ipText' = ipText /\ ix' = ix /\ ipText \in Seq(IpChars)
      /\ ix = 0 /\ ellipsis = -1
  BY Zenon DEF validate_ip, ParserInv, IpInv, Typing
<1>2. PICK s \in Seq(IpChars) : s = ipText
  BY <1>1, Zenon
<1>3. PICK k : k = SelectInSeq(ipText, LAMBDA c : c \in {".", ":"})
  OBVIOUS
<1>4. /\ k = 0 => ~Contains(s, ".") /\ ~Contains(s, ":")
      /\ k # 0 => /\ k \in 1..Len(s) /\ s[k] \in {".", ":"}
                  /\ \A j \in 1 .. k - 1 : s[j] \notin {".", ":"}
  <2>1. k = SelectInSeq(s, LAMBDA c : c \in {".", ":"})
    BY <1>2, <1>3
  <2>2. QED
    BY <2>1, SeparatorIs
<1>5. \/ k = 0 /\ IpReturn(FALSE)
      \/ k # 0 /\ ipText[k] = "." /\ IpReturn(parse_ipv4(ipText))
      \/ k # 0 /\ ipText[k] = ":" /\ StartIpv6
  BY <1>3 DEF validate_ip
<1>6. CASE k = 0 /\ IpReturn(FALSE)
  <2>1. ~IsIpv4(ipText) /\ ~IsIpv6(ipText)
    BY <1>2, <1>4, <1>6, FirstSeparator, Zenon
  <2>2. QED
    BY <1>1, <1>6, <2>1, ReturnsRight, Zenon
<1>7. CASE k # 0 /\ ipText[k] = "." /\ IpReturn(parse_ipv4(ipText))
  <2>1. ~IsIpv6(ipText)
    BY <1>2, <1>4, <1>7, FirstSeparator, Zenon
  <2>2. parse_ipv4(ipText) <=> IsIpv4(ipText)
    <3>1. NULL \notin Seq(IpChars)
      BY TextAssumption, Zenon
    <3>2. QED
      BY <1>1, <3>1, ParsesIpv4, Zenon
  <2>3. QED
    BY <1>1, <1>7, <2>1, <2>2, ReturnsRight, Zenon
<1>8. CASE k # 0 /\ ipText[k] = ":" /\ StartIpv6
  <2>1. ~IsIpv4(ipText)
    <3>1. Contains(s, ":")
      BY <1>2, <1>4, <1>8, Zenon DEF Contains
    <3>2. QED
      BY <1>2, <3>1, Ipv4HasDots, Zenon
  <2>2. ipText # <<>>
    BY <1>2, <1>4, <1>8
  <2>3. IsIpv6(ipText) <=> Completes(ipText, 0, -1)
    BY <1>1, Ipv6Completes, Zenon
  <2>4. BeginsWith(ipText, <<":", ":">>) <=> StartsWithEllipsis(ipText)
    BY <1>1, EllipsisInFront, Zenon DEF StartsWithEllipsis
  <2>5. 0 \in Nat /\ ~ (0 < 0)
    OBVIOUS
  <2>6. CASE StartsWithEllipsis(ipText)
    <3>1. ellipsis' = 0 /\ cp' = From(ipText, 3)
      BY <1>8, <2>4, <2>6, Zenon DEF StartIpv6
    <3>2. cp' \in Seq(IpChars) /\ (IsIpv6(ipText) <=> Completes(cp', 0, 0))
      BY <1>1, <2>3, <2>6, <3>1, EllipsisFirst, Zenon
    <3>3. CASE cp' = <<>>
      <4>1. IpReturn(TRUE)
        BY <1>8, <3>3, Zenon DEF StartIpv6
      <4>2. Enough(0, 0)
        <5>1. \E n \in Nat, m \in Nat : n = IPV6_LEN /\ 2 <= m /\ m + 2 <= n
          BY LengthsAre, Zenon
        <5>2. QED
          BY <5>1 DEF Enough
      <4>3. IsIpv6(ipText)
        <5>1. 0 \in Nat /\ 0 \in Int
          OBVIOUS
        <5>2. Completes(<<>>, 0, 0) <=> Enough(0, 0)
          BY <5>1, CompletesNothing, Zenon
        <5>3. QED
          BY <3>2, <3>3, <4>2, <5>2, Zenon
      <4>4. QED
        BY <1>1, <4>1, <4>3, ReturnsRight, Zenon
    <3>4. CASE cp' # <<>>
      <4>1. ipPc' = "loop"
        BY <1>8, <3>4, Zenon DEF StartIpv6
      <4>2. IsIpv6(ipText) <=> Completes(cp', ix', ellipsis')
        BY <1>1, <3>1, <3>2, Zenon
      <4>3. ~ (ellipsis' < 0)
        BY <2>5, <3>1, Zenon
      <4>4. QED
        BY <1>1, <2>1, <3>2, <3>4, <4>1, <4>2, <4>3, GoesOn, Zenon
    <3>5. QED
      BY <3>3, <3>4, Zenon
  <2>7. CASE ~StartsWithEllipsis(ipText)
    <3>1. ellipsis' = ellipsis /\ cp' = ipText /\ ipPc' = "loop"
      BY <1>8, <2>2, <2>4, <2>7, Zenon DEF StartIpv6
    <3>2. IsIpv6(ipText) <=> Completes(cp', ix', ellipsis')
      BY <1>1, <2>3, <3>1, Zenon
    <3>3. cp' \in Seq(IpChars) /\ cp' # <<>> /\ ~StartsWithEllipsis(cp')
      BY <1>1, <2>2, <2>7, <3>1, Zenon
    <3>4. QED
      BY <1>1, <2>1, <3>1, <3>2, <3>3, GoesOn, Zenon
  <2>8. QED
    BY <2>6, <2>7, Zenon
<1>9. QED
  BY <1>5, <1>6, <1>7, <1>8, Zenon

\* Behind the loop: the text is used up, or the bytes are.
LEMMA ExpandStep ==
  ASSUME IpInv, ParserInv, Expand PROVE ParserInv'
<1>1. /\ ipText' = ipText /\ IpReturn(Complete) /\ ipText \in Seq(IpChars)
      /\ ipPc = "end" \/ (ipPc = "loop" /\ ix >= IPV6_LEN)
  BY Zenon DEF Expand, ParserInv
<1>2. /\ cp \in Seq(IpChars) /\ ~IsIpv4(ipText)
      /\ (IsIpv6(ipText) <=> Completes(cp, ix, ellipsis))
      /\ ipPc = "end" => cp = <<>>
      /\ ipPc = "loop" => cp # <<>>
  BY <1>1, Zenon DEF ParserInv
<1>3. ix \in Nat /\ ix <= IPV6_LEN /\ ix % 2 = 0 /\ ellipsis \in Int
  BY <1>1, IpAssumption DEF IpInv, IpTypeOK, Filling
<1>4. CASE ipPc = "end"
  <2>1. Completes(<<>>, ix, ellipsis) <=> Enough(ix, ellipsis)
    BY <1>3, CompletesNothing, Zenon
  <2>2. PICK n \in Nat : n = IPV6_LEN /\ n % 2 = 0
    BY IpAssumption
  <2>3. ix <= n - 2 <=> ix < n
    BY <1>3, <2>2
  <2>4. CASE ellipsis >= 0
    BY <1>2, <1>4, <2>1, <2>2, <2>3, <2>4, <1>1, ReturnsRight, Zenon DEF Enough, Complete
  <2>5. CASE ~ (ellipsis >= 0)
    <3>1. ix = n <=> ~ (ix < n)
      BY <1>3, <2>2
    <3>2. QED
      BY <1>2, <1>4, <2>1, <2>2, <2>5, <3>1, <1>1, ReturnsRight, Zenon DEF Enough, Complete
  <2>6. QED
    BY <2>4, <2>5, Zenon
<1>5. CASE ipPc = "loop" /\ ix >= IPV6_LEN
  <2>1. ix = IPV6_LEN
    BY <1>3, <1>5, IpAssumption
  <2>2. ~Completes(cp, IPV6_LEN, ellipsis)
    BY <1>2, <1>3, <1>5, NothingCompletes, Zenon
  <2>3. ~Complete /\ ~IsIpv6(ipText)
    BY <1>2, <1>5, <2>1, <2>2, Zenon DEF Complete
  <2>4. QED
    BY <1>1, <1>2, <2>3, ReturnsRight, Zenon
<1>6. QED
  BY <1>1, <1>4, <1>5, Zenon

\* What is left of the text completes what is written, at every turn.
LEMMA ParserInvariance == IpSpec => []ParserInv
<1>1. IpInv /\ ParserInv /\ [IpNext]_ipVars => ParserInv'
  <2> SUFFICES ASSUME IpInv, ParserInv, [IpNext]_ipVars PROVE ParserInv'
    OBVIOUS
  <2>1. CASE \E piece \in IpPieces : AddPiece(piece)
    BY <2>1, AddPieceStep, Zenon
  <2>2. CASE validate_ip
    BY <2>2, ValidateStep, Zenon
  <2>3. CASE BadGroup
    BY <2>3, BadGroupStep, Zenon
  <2>4. CASE TrailingIpv4
    BY <2>4, TrailingIpv4Step, Zenon
  <2>5. CASE Group
    BY <2>5, GroupStep, Zenon
  <2>6. CASE Expand
    BY <2>6, ExpandStep, Zenon
  <2>7. CASE UNCHANGED ipVars
    BY <2>7, Zenon DEF ipVars, ParserInv, ValidatesAddresses
  <2>8. QED
    BY <2>1, <2>2, <2>3, <2>4, <2>5, <2>6, <2>7, Zenon DEF IpNext, Validated
<1>2. QED
  BY ParserStarts, IpInvariance, <1>1, PTL DEF IpSpec

\* A text is accepted exactly when it is an IPv4 or an IPv6 address, for every
\* text, every length of addresses and all bounds on octets and groups of
\* which OctetAssumption holds.
THEOREM AddressesValidated == IpSpec => []ValidatesAddresses
<1>1. ParserInv => ValidatesAddresses
  BY Zenon DEF ParserInv
<1>2. QED
  BY ParserInvariance, <1>1, PTL

-----------------------------------------------------------------------------
(* Domains of cookies. *)

\* What the loop over a name knows.
DomainStates(S) == [prev : S \cup {"."}, len : Nat, letter : BOOLEAN, refused : BOOLEAN]

\* What it knows in front of a label.
AtLabel(l) == [prev |-> ".", len |-> 0, letter |-> l, refused |-> FALSE]

LabelChars == Letters \cup Digits \cup {"-"}

\* Dots and dashes are no letters and no digits.
LEMMA SeparatorsAre == "." \notin LabelChars /\ "-" \notin Letters \cup Digits /\ "-" # "."
<1>1. \A n \in 1..10 : "." \notin Digit[n] /\ "-" \notin Digit[n]
  BY DEF Digit
<1>2. "." \notin Letters /\ "-" \notin Letters /\ "-" # "."
  BY DEF Letters
<1>3. QED
  BY <1>1, <1>2, Zenon DEF LabelChars, Digits, DecDigits

\* DomainChar, case by case.
CharStep(S, q, c, r) ==
  /\ r \in DomainStates(S)
  /\ q.refused => r.refused
  /\ ~q.refused /\ c \in LabelChars /\ ~(c = "-" /\ q.prev = ".") =>
       /\ ~r.refused /\ r.prev = c
       /\ r.len = q.len + 1
       /\ r.letter <=> q.letter \/ c \in Letters
  /\ ~q.refused /\ c = "-" /\ q.prev = "." => r.refused
  /\ ~q.refused /\ c = "." /\ q.prev \notin {".", "-"} /\ q.len \in 1..MaxLabel =>
       r = AtLabel(q.letter)
  /\ ~q.refused /\ c = "." /\ ~(q.prev \notin {".", "-"} /\ q.len \in 1..MaxLabel) =>
       r.refused
  /\ ~q.refused /\ c \notin LabelChars \cup {"."} => r.refused

LEMMA CharIs ==
  ASSUME NEW S, NEW q \in DomainStates(S), NEW c \in S
  PROVE  CharStep(S, q, c, DomainChar(q, c))
<1>1. q = [prev |-> q.prev, len |-> q.len, letter |-> q.letter, refused |-> q.refused]
      /\ q.prev \in S \cup {"."} /\ q.len \in Nat /\ q.letter \in BOOLEAN /\ q.refused \in BOOLEAN
  BY DEF DomainStates
<1>2. PICK p \in S \cup {"."}, n \in Nat, l \in BOOLEAN, r \in BOOLEAN :
        p = q.prev /\ n = q.len /\ l = q.letter /\ r = q.refused
        /\ q = [prev |-> p, len |-> n, letter |-> l, refused |-> r]
  BY <1>1, Zenon
<1> DEFINE T == DomainChar(q, c)
<1>3. CASE r
  <2>1. T = q
    BY <1>2, <1>3, Zenon DEF DomainChar
  <2>2. QED
    BY <1>2, <1>3, <2>1, Zenon DEF CharStep
<1>4. CASE ~r /\ c \in Letters \cup Digits
  <2>1. c # "-" /\ c # "." /\ c \in LabelChars
    BY <1>4, SeparatorsAre, Zenon DEF LabelChars
  <2>2. T = [q EXCEPT !.prev = c, !.len = @ + 1, !.letter = @ \/ c \in Letters]
    BY <1>2, <1>4, Zenon DEF DomainChar
  <2>3. PICK k \in BOOLEAN : k = (l \/ c \in Letters)
    BY Zenon
  <2>4. T = [prev |-> c, len |-> n + 1, letter |-> k, refused |-> r]
    BY <1>2, <2>2, <2>3
  <2>5. T.prev = c /\ T.len = n + 1 /\ T.letter = k /\ T.refused = r /\ T \in DomainStates(S)
    BY <2>4 DEF DomainStates
  <2>6. QED
    BY <1>2, <1>4, <2>1, <2>3, <2>5, Zenon DEF CharStep
<1>5. CASE ~r /\ c = "-" /\ p # "."
  <2>1. c \notin Letters \cup Digits /\ c # "." /\ c \in LabelChars /\ c \notin Letters
    BY <1>5, SeparatorsAre, Zenon DEF LabelChars
  <2>2. T = [q EXCEPT !.prev = c, !.len = @ + 1]
    BY <1>2, <1>5, <2>1, Zenon DEF DomainChar
  <2>4. T = [prev |-> c, len |-> n + 1, letter |-> l, refused |-> r]
    BY <1>2, <2>2
  <2>5. T.prev = c /\ T.len = n + 1 /\ T.letter = l /\ T.refused = r /\ T \in DomainStates(S)
    BY <2>4 DEF DomainStates
  <2>6. QED
    BY <1>2, <1>5, <2>1, <2>5, Zenon DEF CharStep
<1>6. CASE ~r /\ c = "." /\ p \notin {".", "-"} /\ n \in 1..MaxLabel
  <2>1. c \notin Letters \cup Digits /\ c # "-" /\ c \notin LabelChars
    BY <1>6, SeparatorsAre, Zenon DEF LabelChars
  <2>2. T = [q EXCEPT !.prev = c, !.len = 0]
    BY <1>2, <1>6, <2>1, Zenon DEF DomainChar
  <2>4. T = [prev |-> c, len |-> 0, letter |-> l, refused |-> r]
    BY <1>2, <2>2
  <2>5. T = AtLabel(l) /\ T \in DomainStates(S)
    BY <1>6, <2>4 DEF AtLabel, DomainStates
  <2>6. QED
    BY <1>2, <1>6, <2>1, <2>5, Zenon DEF CharStep
<1>7. CASE /\ ~r /\ c \notin Letters \cup Digits /\ ~(c = "-" /\ p # ".")
           /\ ~(c = "." /\ p \notin {".", "-"} /\ n \in 1..MaxLabel)
  <2>1. T = [q EXCEPT !.refused = TRUE]
    BY <1>2, <1>7, Zenon DEF DomainChar
  <2>2. T.refused /\ T \in DomainStates(S)
    BY <1>2, <2>1 DEF DomainStates
  <2>3. c \in LabelChars => c = "-"
    BY <1>7, Zenon DEF LabelChars
  <2>4. QED
    BY <1>2, <1>7, <2>2, <2>3, SeparatorsAre, Zenon DEF CharStep
<1>8. QED
  BY <1>3, <1>4, <1>5, <1>6, <1>7, Zenon

\* f runs over a name s and starts in the state q.
RunsOver(f, q, s, S) ==
  /\ f \in [0..Len(s) -> DomainStates(S)] /\ f[0] = q
  /\ \A n \in 1..Len(s) : f[n] = DomainChar(f[n - 1], s[n])

\* DomainScan is where the run that starts in front of the name ends.
LEMMA ScanRuns ==
  ASSUME NEW S, NEW s \in Seq(S)
  PROVE  \E f : RunsOver(f, AtLabel(FALSE), s, S) /\ DomainScan(s) = f[Len(s)]
<1>1. PICK L \in Nat : L = Len(s)
  OBVIOUS
<1> DEFINE D == DomainStates(S)
           F == [i \in 1..L |-> [x \in D |-> DomainChar(x, s[i])]]
           Turn(i, f) == IF i = 0
                         THEN [prev |-> ".", len |-> 0, letter |-> FALSE, refused |-> FALSE]
                         ELSE DomainChar(f[i - 1], s[i])
           v == CHOOSE f : f = [i \in 0..L |-> Turn(i, f)]
<1>2. DomainScan(s) = v[L]
  BY <1>1 DEF DomainScan
<1>3. \A i \in 1..L : s[i] \in S
  BY <1>1
<1>4. \A i \in 1..L, x \in D : DomainChar(x, s[i]) \in D
  BY <1>3, CharIs, Zenon DEF CharStep
<1>5. AtLabel(FALSE) \in D
  BY DEF AtLabel, DomainStates
<1> HIDE DEF D
<1>6. F \in [1..L -> [D -> D]]
  BY <1>4, Zenon
<1>7. PICK g : g \in [0..L -> D] /\ g[0] = AtLabel(FALSE) /\ \A i \in 1..L : g[i] = F[i][g[i - 1]]
  <2> HIDE DEF F
  <2>1. PICK g : g \in [0..L -> D] /\ Recurses(g, L, AtLabel(FALSE), F)
    BY <1>5, <1>6, RecursionIn, Zenon
  <2>2. QED
    BY <2>1, Zenon DEF Recurses
<1>8. \A i \in 1..L : g[i - 1] \in D
  <2>1. \A i \in 1..L : i - 1 \in 0..L
    OBVIOUS
  <2>2. QED
    BY <1>7, <2>1, Zenon
<1>9. \A i \in 1..L : g[i] = DomainChar(g[i - 1], s[i])
  BY <1>7, <1>8, Zenon
<1>10. g = [i \in 0..L |-> Turn(i, g)]
  <2>1. \A i \in 0..L : i # 0 => i \in 1..L
    OBVIOUS
  <2>2. \A i \in 0..L : g[i] = Turn(i, g)
    BY <1>7, <1>9, <2>1, Zenon DEF AtLabel
  <2>3. g = [i \in 0..L |-> g[i]]
    BY <1>7, Zenon
  <2> HIDE DEF Turn
  <2>4. [i \in 0..L |-> g[i]] = [i \in 0..L |-> Turn(i, g)]
    BY <2>2, Zenon
  <2>5. QED
    BY <2>3, <2>4, Zenon
<1>11. v = [i \in 0..L |-> Turn(i, v)]
  <2> HIDE DEF Turn
  <2>1. QED
    BY <1>10, Zenon
<1>12. v[L] = g[L]
  <2> HIDE DEF v
  <2> DEFINE A == {m \in 0..L : v[m] = g[m]}
  <2>1. v[0] = g[0] /\ 0 \in 0..L
    <3>1. 0 \in 0..L
      OBVIOUS
    <3>2. QED
      BY <1>10, <1>11, <3>1, Zenon
  <2>2. ASSUME NEW k \in 0 .. L - 1, k \in A PROVE k + 1 \in A
    <3>1. k + 1 \in 0..L /\ k + 1 # 0 /\ (k + 1) - 1 = k
      OBVIOUS
    <3>2. v[k + 1] = DomainChar(v[k], s[k + 1]) /\ g[k + 1] = DomainChar(g[k], s[k + 1])
      BY <1>10, <1>11, <3>1, Zenon
    <3>3. QED
      BY <2>2, <3>1, <3>2, Zenon
  <2>3. 0 \in A
    BY <2>1, Zenon
  <2> HIDE DEF A
  <2>4. 0..L \subseteq A
    BY <2>2, <2>3, NatInductionIn, Zenon
  <2>5. L \in 0..L
    OBVIOUS
  <2>6. QED
    BY <2>4, <2>5, Zenon DEF A
<1>13. RunsOver(g, AtLabel(FALSE), s, S)
  BY <1>1, <1>7, <1>9, Zenon DEF RunsOver, D
<1>14. QED
  BY <1>1, <1>2, <1>12, <1>13, Zenon

\* A name that is refused stays refused.
LEMMA RefusedStays ==
  ASSUME NEW S, NEW s \in Seq(S), NEW f, NEW q, RunsOver(f, q, s, S),
         NEW k \in 0..Len(s), f[k].refused
  PROVE  f[Len(s)].refused
<1>1. PICK L \in Nat : L = Len(s) /\ k \in 0..L
  OBVIOUS
<1>2. \A n \in 1..L : f[n] = DomainChar(f[n - 1], s[n]) /\ f[n - 1] \in DomainStates(S) /\ s[n] \in S
  <2>1. \A n \in 1..L : n - 1 \in 0..L
    OBVIOUS
  <2>2. \A n \in 1..L : s[n] \in S
    BY <1>1
  <2>3. QED
    BY <1>1, <2>1, <2>2, Zenon DEF RunsOver
<1> DEFINE A == {m \in 0..L : m >= k => f[m].refused}
<1>3. 0 \in A
  <2>1. 0 \in 0..L /\ (0 >= k => k = 0)
    BY <1>1
  <2>2. QED
    BY <2>1, Zenon
<1>4. ASSUME NEW m \in 0 .. L - 1, m \in A PROVE m + 1 \in A
  <2>1. m + 1 \in 0..L /\ m + 1 \in 1..L /\ (m + 1) - 1 = m /\ (m + 1 >= k => m >= k \/ m + 1 = k)
    BY <1>1
  <2>2. f[m].refused => f[m + 1].refused
    <3>1. f[m] \in DomainStates(S) /\ s[m + 1] \in S /\ f[m + 1] = DomainChar(f[m], s[m + 1])
      BY <1>2, <2>1, Zenon
    <3>2. CharStep(S, f[m], s[m + 1], DomainChar(f[m], s[m + 1]))
      BY <3>1, CharIs, Zenon
    <3>3. QED
      BY <3>1, <3>2, Zenon DEF CharStep
  <2>3. QED
    BY <1>4, <2>1, <2>2, Zenon
<1> HIDE DEF A
<1>5. 0..L \subseteq A
  BY <1>3, <1>4, NatInductionIn, Zenon
<1>6. L \in 0..L /\ L >= k
  BY <1>1
<1>7. QED
  BY <1>1, <1>5, <1>6, Zenon DEF A

\* A character no label has, or a dash in front of a label.
BadAt(s, j) == s[j] \notin LabelChars \/ (j = 1 /\ s[j] = "-")

\* What is known behind the first k characters, all of one label.
SoFar(q, s, k, l) ==
  /\ q.refused <=> \E j \in 1..k : BadAt(s, j)
  /\ ~q.refused => /\ q.prev = IF k = 0 THEN "." ELSE s[k]
                   /\ q.len = k
                   /\ q.letter <=> l \/ \E j \in 1..k : s[j] \in Letters

LEMMA LabelRuns ==
  ASSUME NEW S, NEW s \in Seq(S), NEW l \in BOOLEAN, NEW f, RunsOver(f, AtLabel(l), s, S),
         NEW k \in 0..Len(s), \A j \in 1..k : s[j] # "."
  PROVE  SoFar(f[k], s, k, l)
<1>1. PICK L \in Nat : L = Len(s) /\ k \in 0..L
  OBVIOUS
<1>2. \A n \in 1..L : /\ f[n] = DomainChar(f[n - 1], s[n]) /\ f[n - 1] \in DomainStates(S)
                      /\ s[n] \in S
  <2>1. \A n \in 1..L : n - 1 \in 0..L
    OBVIOUS
  <2>2. \A n \in 1..L : s[n] \in S
    BY <1>1
  <2>3. QED
    BY <1>1, <2>1, <2>2, Zenon DEF RunsOver
<1> DEFINE A == {m \in 0..k : SoFar(f[m], s, m, l)}
<1>3. 0 \in A
  <2>1. f[0] = AtLabel(l)
    BY Zenon DEF RunsOver
  <2>2. ~f[0].refused /\ f[0].prev = "." /\ f[0].len = 0 /\ f[0].letter = l
    BY <2>1 DEF AtLabel
  <2>3. 0 \in 0..k /\ \A j : j \notin 1..0
    OBVIOUS
  <2>4. QED
    BY <2>2, <2>3, Zenon DEF SoFar
<1>4. ASSUME NEW m \in 0 .. k - 1, m \in A PROVE m + 1 \in A
  <2>1. PICK n \in 1..k : n = m + 1 /\ n \in 1..L /\ n - 1 = m /\ m + 1 \in 0..k /\ n # 0 /\ (n = 1 <=> m = 0)
                          /\ (m # 0 => m \in 1..k)
    BY <1>1
  <2>3. \A j : j \in 1..n <=> j \in 1..m \/ j = n
    BY <2>1
  <2>4. PICK q \in DomainStates(S), c \in S : q = f[m] /\ c = s[n] /\ c # "." /\ f[n] = DomainChar(q, c)
    BY <1>2, <2>1, Zenon
  <2>5. SoFar(q, s, m, l)
    BY <1>4, <2>4, Zenon
  <2>10. CharStep(S, q, c, f[n])
    <3>1. CharStep(S, q, c, DomainChar(q, c))
      BY CharIs, Zenon
    <3>2. QED
      BY <2>4, <3>1, Zenon
  <2>11. c \notin LabelChars \cup {"."} <=> c \notin LabelChars
    BY <2>4, Zenon
  <2>6. (\E j \in 1..n : BadAt(s, j)) <=> (\E j \in 1..m : BadAt(s, j)) \/ BadAt(s, n)
    BY <2>3, Zenon
  <2>7. (\E j \in 1..n : s[j] \in Letters) <=> (\E j \in 1..m : s[j] \in Letters) \/ s[n] \in Letters
    BY <2>3, Zenon
  <2>8. SoFar(f[n], s, n, l)
    <3>1. CASE q.refused
      <4>1. f[n].refused
        BY <2>10, <3>1, Zenon DEF CharStep
      <4>2. QED
        BY <2>5, <2>6, <3>1, <4>1, Zenon DEF SoFar
    <3>2. CASE ~q.refused
      <4>1. q.prev = "." <=> m = 0
        BY <2>1, <2>5, <3>2, Zenon DEF SoFar
      <4>2. BadAt(s, n) <=> c \notin LabelChars \/ (c = "-" /\ q.prev = ".")
        <5>1. BadAt(s, n) <=> c \notin LabelChars \/ (n = 1 /\ c = "-")
          BY <2>4, Zenon DEF BadAt
        <5>2. n = 1 <=> q.prev = "."
          BY <2>1, <4>1, Zenon
        <5>3. QED
          BY <5>1, <5>2, Zenon
      <4>3. CASE BadAt(s, n)
        <5>1. f[n].refused
          BY <2>10, <2>11, <3>2, <4>2, <4>3, Zenon DEF CharStep
        <5>2. QED
          BY <2>6, <4>3, <5>1, Zenon DEF SoFar
      <4>4. CASE ~BadAt(s, n)
        <5>1. /\ ~f[n].refused /\ f[n].prev = c /\ f[n].len = q.len + 1
              /\ f[n].letter <=> q.letter \/ c \in Letters
          <6>1. c \in LabelChars /\ ~(c = "-" /\ q.prev = ".")
            BY <4>2, <4>4, Zenon
          <6>2. QED
            BY <2>10, <3>2, <6>1, Zenon DEF CharStep
        <5>2. ~ \E j \in 1..n : BadAt(s, j)
          BY <2>5, <2>6, <3>2, <4>4, Zenon DEF SoFar
        <5>3. q.len + 1 = n
          BY <2>1, <2>5, <3>2, Zenon DEF SoFar
        <5>4. q.letter <=> l \/ \E j \in 1..m : s[j] \in Letters
          BY <2>5, <3>2, Zenon DEF SoFar
        <5>5. QED
          BY <2>1, <2>4, <2>7, <5>1, <5>2, <5>3, <5>4, Zenon DEF SoFar
      <4>5. QED
        BY <4>3, <4>4, Zenon
    <3>3. QED
      BY <3>1, <3>2, Zenon
  <2>9. QED
    BY <2>1, <2>8, Zenon
<1> HIDE DEF A
<1>5. 0..k \subseteq A
  <2>1. k \in Nat
    OBVIOUS
  <2>2. QED
    BY <1>3, <1>4, <2>1, NatInductionIn, Zenon
<1>6. k \in 0..k
  OBVIOUS
<1>7. QED
  BY <1>5, <1>6, Zenon DEF A

\* A label in these terms.
LEMMA LabelIs ==
  ASSUME NEW S, NEW p \in Seq(S), NEW k \in Nat, k = Len(p)
  PROVE  IsLabel(p) <=> k \in 1..MaxLabel /\ (\A j \in 1..k : ~BadAt(p, j)) /\ p[k] # "-"
<1>1. DOMAIN p = 1..k
  BY LenProperties
<1>2. IsLabel(p) <=> /\ k \in 1..MaxLabel /\ (\A j \in 1..k : p[j] \in LabelChars)
                     /\ p[1] # "-" /\ p[k] # "-"
  <2>1. k \in 1..MaxLabel => Head(p) = p[1]
    OBVIOUS
  <2>2. QED
    BY <1>1, <2>1, Zenon DEF IsLabel, LabelChars, Last
<1>3. \A j \in 1..k : BadAt(p, j) <=> p[j] \notin LabelChars \/ (j = 1 /\ p[1] = "-")
  BY Zenon DEF BadAt
<1>4. k \in 1..MaxLabel => 1 \in 1..k
  BY CookieAssumption
<1>5. QED
  BY <1>2, <1>3, <1>4, Zenon

\* A name is accepted where the loop ends like this.
Accepted(q) == ~q.refused /\ q.prev # "-" /\ q.len <= MaxLabel /\ q.letter

HasLetter(s) == \E j \in 1..Len(s) : s[j] \in Letters

\* The labels of a name, with nothing behind a dot at its end.
Labelled(s) ==
  \A n \in 1..Len(Fields(s, ".")) :
    \/ IsLabel(Fields(s, ".")[n])
    \/ n = Len(Fields(s, ".")) /\ Fields(s, ".")[n] = <<>>

\* The last label of a name.
LEMMA LastLabelRuns ==
  ASSUME NEW S, NEW s \in Seq(S), NEW l \in BOOLEAN, NEW f, RunsOver(f, AtLabel(l), s, S),
         ~Contains(s, ".")
  PROVE  Accepted(f[Len(s)]) <=> Labelled(s) /\ (l \/ HasLetter(s))
<1>1. PICK L \in Nat : L = Len(s) /\ L \in 0..L
  OBVIOUS
<1>2. \A j \in 1..L : s[j] # "."
  BY <1>1, LenProperties, Zenon DEF Contains
<1>3. SoFar(f[L], s, L, l)
  BY <1>1, <1>2, LabelRuns, Zenon
<1>4. Labelled(s) <=> IsLabel(s) \/ s = <<>>
  <2>1. Len(Fields(s, ".")) = 1 /\ Fields(s, ".")[1] = s
    BY FieldsOne, Zenon
  <2>2. \A n : n \in 1..1 <=> n = 1
    OBVIOUS
  <2>3. QED
    BY <2>1, <2>2, Zenon DEF Labelled
<1>5. CASE L = 0
  <2>1. s = <<>> /\ (\A j : j \notin 1..0) /\ 0 <= MaxLabel
    <3>1. s = <<>>
      BY <1>1, <1>5, EmptySeq, Zenon
    <3>2. (\A j : j \notin 1..0) /\ 0 <= MaxLabel
      BY CookieAssumption
    <3>3. QED
      BY <3>1, <3>2, Zenon
  <2>2. "." # "-"
    BY SeparatorsAre, Zenon
  <2>3. ~HasLetter(s)
    BY <1>1, <1>5, <2>1, Zenon DEF HasLetter
  <2>4. Accepted(f[L]) <=> l
    BY <1>3, <1>5, <2>1, <2>2, Zenon DEF SoFar, Accepted
  <2>5. QED
    BY <1>1, <1>4, <2>1, <2>3, <2>4, Zenon
<1>6. CASE L # 0
  <2>1. s # <<>> /\ (L <= MaxLabel <=> L \in 1..MaxLabel)
    BY <1>1, <1>6, CookieAssumption
  <2>2. IsLabel(s) <=> L \in 1..MaxLabel /\ (\A j \in 1..L : ~BadAt(s, j)) /\ s[L] # "-"
    BY <1>1, LabelIs, Zenon
  <2>3. HasLetter(s) <=> \E j \in 1..L : s[j] \in Letters
    BY <1>1, Zenon DEF HasLetter
  <2>4. Accepted(f[L]) <=> (\A j \in 1..L : ~BadAt(s, j)) /\ s[L] # "-" /\ L <= MaxLabel
                           /\ (l \/ \E j \in 1..L : s[j] \in Letters)
    BY <1>3, <1>6, Zenon DEF SoFar, Accepted
  <2>5. QED
    BY <1>1, <1>4, <2>1, <2>2, <2>3, <2>4, Zenon
<1>7. QED
  BY <1>5, <1>6, Zenon

\* What a label with a dot behind it leads to.
LEMMA LabelEnds ==
  ASSUME NEW S, NEW s \in Seq(S), NEW l \in BOOLEAN, NEW f, RunsOver(f, AtLabel(l), s, S),
         NEW i \in 1..Len(s), s[i] = ".", \A j \in 1 .. i - 1 : s[j] # "."
  PROVE  IF IsLabel(SubSeq(s, 1, i - 1))
         THEN f[i] = AtLabel(l \/ HasLetter(SubSeq(s, 1, i - 1)))
         ELSE f[i].refused
<1>0. PICK p : p = SubSeq(s, 1, i - 1)
  OBVIOUS
<1>1. PICK L \in Nat, k \in Nat : L = Len(s) /\ k = i - 1 /\ i \in 1..L /\ k \in 0..L
                                  /\ (k # 0 => k \in 1..k)
  OBVIOUS
<1>2. SoFar(f[k], s, k, l)
  BY <1>1, LabelRuns, Zenon
<1>3. p \in Seq(S) /\ Len(p) = k /\ \A j \in 1..k : p[j] = s[j]
  <2>1. i \in 1 .. Len(s) + 1
    BY <1>1
  <2>2. QED
    BY <1>0, <1>1, <2>1, PrefixIs, Zenon
<1>4. IsLabel(p) <=> k \in 1..MaxLabel /\ (\A j \in 1..k : ~BadAt(p, j)) /\ p[k] # "-"
  BY <1>3, LabelIs, Zenon
<1>5. \A j \in 1..k : BadAt(p, j) <=> BadAt(s, j)
  BY <1>3, Zenon DEF BadAt
<1>6. HasLetter(p) <=> \E j \in 1..k : s[j] \in Letters
  BY <1>3, Zenon DEF HasLetter
<1>7. PICK q \in DomainStates(S) : q = f[k] /\ f[i] = DomainChar(q, ".") /\ "." \in S
  <2>1. s[i] \in S
    BY <1>1
  <2>2. QED
    BY <1>1, <2>1, Zenon DEF RunsOver
<1>8. CharStep(S, q, ".", f[i])
  <2>1. CharStep(S, q, ".", DomainChar(q, "."))
    BY <1>7, CharIs, Zenon
  <2>2. QED
    BY <1>7, <2>1, Zenon
<1>9. q.letter \in BOOLEAN /\ k \notin {0} \cap 1..MaxLabel
  BY <1>7 DEF DomainStates
<1>10. ASSUME q.refused PROVE ~IsLabel(p) /\ f[i].refused
  <2>1. f[i].refused
    BY <1>8, <1>10, Zenon DEF CharStep
  <2>2. ~IsLabel(p)
    BY <1>2, <1>4, <1>5, <1>7, <1>10, Zenon DEF SoFar
  <2>3. QED
    BY <2>1, <2>2, Zenon
<1>11. ASSUME ~q.refused
       PROVE  IF IsLabel(p) THEN f[i] = AtLabel(l \/ HasLetter(p)) ELSE f[i].refused
  <2>1. /\ \A j \in 1..k : ~BadAt(s, j)
        /\ q.prev = (IF k = 0 THEN "." ELSE s[k]) /\ q.len = k
        /\ q.letter <=> l \/ HasLetter(p)
    BY <1>2, <1>6, <1>7, <1>11, Zenon DEF SoFar
  <2>2. IsLabel(p) <=> q.prev \notin {".", "-"} /\ q.len \in 1..MaxLabel
    <3>1. CASE k = 0
      <4>1. k \notin 1..MaxLabel
        BY <3>1
      <4>2. QED
        BY <1>4, <2>1, <4>1, Zenon
    <3>2. CASE k # 0
      <4>1. q.prev = s[k] /\ s[k] = p[k] /\ s[k] # "."
        BY <1>1, <1>3, <2>1, <3>2, Zenon
      <4>2. IsLabel(p) <=> k \in 1..MaxLabel /\ s[k] # "-"
        BY <1>4, <1>5, <2>1, <4>1, Zenon
      <4>3. QED
        BY <2>1, <4>1, <4>2, Zenon
    <3>3. QED
      BY <3>1, <3>2, Zenon
  <2>3. CASE IsLabel(p)
    <3>1. f[i] = AtLabel(q.letter)
      BY <1>8, <1>11, <2>2, <2>3, Zenon DEF CharStep
    <3>2. q.letter = (l \/ HasLetter(p))
      BY <1>9, <2>1, Zenon
    <3>3. QED
      BY <2>3, <3>1, <3>2, Zenon
  <2>4. CASE ~IsLabel(p)
    <3>1. f[i].refused
      BY <1>8, <1>11, <2>2, <2>4, Zenon DEF CharStep
    <3>2. QED
      BY <2>4, <3>1, Zenon
  <2>5. QED
    BY <2>3, <2>4, Zenon
<1>12. QED
  BY <1>0, <1>10, <1>11, Zenon

\* A run f over a name is a run over its first label p and one over the rest t.
RunsBehind(f, s, l, p, t, S) ==
  IF IsLabel(p)
  THEN \E g : RunsOver(g, AtLabel(l \/ HasLetter(p)), t, S) /\ g[Len(t)] = f[Len(s)]
  ELSE f[Len(s)].refused

LEMMA FirstLabelRuns ==
  ASSUME NEW S, NEW s \in Seq(S), NEW l \in BOOLEAN, NEW f, RunsOver(f, AtLabel(l), s, S),
         NEW i \in 1..Len(s), NEW t \in Seq(S), CutAt(s, ".", i, t)
  PROVE  RunsBehind(f, s, l, SubSeq(s, 1, i - 1), t, S)
<1>0. PICK p : p = SubSeq(s, 1, i - 1)
  OBVIOUS
<1>1. PICK L \in Nat, M \in Nat : L = Len(s) /\ M = Len(t) /\ i \in 1..L /\ i \in 0..L
  OBVIOUS
<1>2. /\ s[i] = "." /\ (\A j \in 1 .. i - 1 : s[j] # ".")
      /\ M = L - i /\ \A j \in 1..M : t[j] = s[j + i]
  BY <1>1, Zenon DEF CutAt
<1>3. IF IsLabel(p) THEN f[i] = AtLabel(l \/ HasLetter(p)) ELSE f[i].refused
  <2>1. s[i] = "." /\ \A j \in 1 .. i - 1 : s[j] # "."
    BY <1>2, Zenon
  <2>2. IF IsLabel(SubSeq(s, 1, i - 1))
        THEN f[i] = AtLabel(l \/ HasLetter(SubSeq(s, 1, i - 1)))
        ELSE f[i].refused
    BY <2>1, LabelEnds, Zenon
  <2>3. QED
    BY <1>0, <2>2, Zenon
<1>4. CASE ~IsLabel(p)
  <2>1. f[L].refused
    BY <1>1, <1>3, <1>4, RefusedStays, Zenon
  <2>2. QED
    BY <1>0, <1>1, <1>4, <2>1, Zenon DEF RunsBehind
<1>5. CASE IsLabel(p)
  <2> DEFINE g == [n \in 0..M |-> f[n + i]]
  <2>1. \A n \in 0..M : n + i \in 0..L
    BY <1>1, <1>2
  <2>2. f \in [0..L -> DomainStates(S)] /\ \A n \in 1..L : f[n] = DomainChar(f[n - 1], s[n])
    BY <1>1, Zenon DEF RunsOver
  <2>3. g \in [0..M -> DomainStates(S)]
    BY <2>1, <2>2, Zenon
  <2>4. g[0] = f[i] /\ g[M] = f[L]
    <3>1. 0 \in 0..M /\ M \in 0..M /\ 0 + i = i /\ M + i = L
      BY <1>1, <1>2
    <3>2. QED
      BY <3>1, Zenon
  <2>5. ASSUME NEW n \in 1..M PROVE g[n] = DomainChar(g[n - 1], t[n])
    <3>1. n \in 0..M /\ n - 1 \in 0..M /\ n + i \in 1..L /\ (n - 1) + i = (n + i) - 1
      BY <1>1, <1>2
    <3>2. g[n] = f[n + i] /\ g[n - 1] = f[(n + i) - 1]
      BY <3>1, Zenon
    <3> HIDE DEF g
    <3>3. QED
      BY <1>2, <2>2, <3>1, <3>2, Zenon
  <2> HIDE DEF g
  <2>6. RunsOver(g, f[i], t, S)
    BY <1>1, <2>3, <2>4, <2>5, Zenon DEF RunsOver
  <2>7. QED
    BY <1>0, <1>1, <1>3, <1>5, <2>4, <2>6, Zenon DEF RunsBehind
<1>6. QED
  BY <1>4, <1>5, Zenon

\* So are its labels and letters.
LEMMA LabelledCut ==
  ASSUME NEW S, NEW s \in Seq(S), NEW i \in 1..Len(s), NEW t \in Seq(S), CutAt(s, ".", i, t)
  PROVE  /\ Labelled(s) <=> IsLabel(SubSeq(s, 1, i - 1)) /\ Labelled(t)
         /\ HasLetter(s) <=> HasLetter(SubSeq(s, 1, i - 1)) \/ HasLetter(t)
<1>0. PICK p : p = SubSeq(s, 1, i - 1)
  OBVIOUS
<1>1. PICK L \in Nat, M \in Nat, k \in Nat :
        L = Len(s) /\ M = Len(t) /\ i \in 1..L /\ k = i - 1
  OBVIOUS
<1>2. s[i] = "." /\ M = L - i /\ \A j \in 1..M : t[j] = s[j + i]
  BY <1>1, Zenon DEF CutAt
<1>3. p \in Seq(S) /\ Len(p) = k /\ \A j \in 1..k : p[j] = s[j]
  <2>1. i \in 1 .. Len(s) + 1
    BY <1>1
  <2>2. QED
    BY <1>0, <1>1, <2>1, PrefixIs, Zenon
<1>4. Labelled(s) <=> IsLabel(p) /\ Labelled(t)
  <2>1. /\ Len(Fields(s, ".")) = Len(Fields(t, ".")) + 1
        /\ Fields(s, ".")[1] = p
        /\ \A n \in 1..Len(Fields(t, ".")) : Fields(s, ".")[n + 1] = Fields(t, ".")[n]
    <3>1. /\ Len(Fields(s, ".")) = Len(Fields(t, ".")) + 1
          /\ DOMAIN Fields(s, ".") = 1 .. Len(Fields(t, ".")) + 1
          /\ Fields(s, ".")[1] = SubSeq(s, 1, i - 1)
          /\ \A n \in 1..Len(Fields(t, ".")) : Fields(s, ".")[n + 1] = Fields(t, ".")[n]
      BY FieldsCut
    <3>2. QED
      BY <1>0, <3>1, Zenon
  <2>2. Len(Fields(t, ".")) \in Nat \ {0}
    <3>1. /\ Len(Fields(t, ".")) = Cardinality(Ends(t, ".")) - 1
          /\ Cardinality(Ends(t, ".")) - 1 \in Nat \ {0}
      BY FieldIs, Zenon
    <3>2. QED
      BY <3>1, Zenon
  <2>3. PICK m \in Nat \ {0} : m = Len(Fields(t, "."))
    BY <2>2, Zenon
  <2> DEFINE Good(x) == IsLabel(x)
             F == Fields(s, ".")
             G == Fields(t, ".")
             Fine(H, b) == \A n \in 1..b : IsLabel(H[n]) \/ (n = b /\ H[n] = <<>>)
  <2>4. (Labelled(s) <=> Fine(F, m + 1)) /\ (Labelled(t) <=> Fine(G, m))
    BY <2>1, <2>3, Zenon DEF Labelled
  <2>5. F[1] = p /\ \A n \in 1..m : F[n + 1] = G[n]
    BY <2>1, <2>3, Zenon
  <2> HIDE DEF F, G
  <2>6. ASSUME Fine(F, m + 1) PROVE IsLabel(p) /\ Fine(G, m)
    <3>1. 1 \in 1 .. m + 1 /\ 1 # m + 1
      OBVIOUS
    <3>2. \A n \in 1..m : n + 1 \in 1 .. m + 1 /\ (n + 1 = m + 1 => n = m)
      OBVIOUS
    <3>3. QED
      BY <2>5, <2>6, <3>1, <3>2, Zenon
  <2>7. ASSUME IsLabel(p), Fine(G, m) PROVE Fine(F, m + 1)
    <3>1. \A n \in 1 .. m + 1 : n = 1 \/ (n - 1 \in 1..m /\ (n - 1) + 1 = n /\ (n - 1 = m => n = m + 1))
      OBVIOUS
    <3>2. QED
      BY <2>5, <2>7, <3>1, ZenonT(60)
  <2>8. QED
    BY <2>4, <2>6, <2>7, Zenon
<1>5. HasLetter(s) <=> HasLetter(p) \/ HasLetter(t)
  <2>1. HasLetter(p) => HasLetter(s)
    <3>1. \A j \in 1..k : j \in 1..L
      BY <1>1
    <3>2. QED
      BY <1>1, <1>3, <3>1, Zenon DEF HasLetter
  <2>2. HasLetter(t) => HasLetter(s)
    <3>1. \A j \in 1..M : j + i \in 1..L
      BY <1>1, <1>2
    <3>2. QED
      BY <1>1, <1>2, <3>1, Zenon DEF HasLetter
  <2>3. HasLetter(s) => HasLetter(p) \/ HasLetter(t)
    <3>1. \A j \in 1..L : j \in 1..k \/ j = i \/ (j - i \in 1..M /\ (j - i) + i = j)
      BY <1>1, <1>2
    <3>2. s[i] \notin Letters
      BY <1>2, SeparatorsAre, Zenon DEF LabelChars
    <3>3. ASSUME NEW j \in 1..L, s[j] \in Letters PROVE HasLetter(p) \/ HasLetter(t)
      <4>1. CASE j \in 1..k
        BY <1>3, <3>3, <4>1, Zenon DEF HasLetter
      <4>2. CASE j - i \in 1..M /\ (j - i) + i = j
        BY <1>1, <1>2, <3>3, <4>2, Zenon DEF HasLetter
      <4>3. QED
        BY <3>1, <3>2, <3>3, <4>1, <4>2, Zenon
    <3>4. QED
      BY <1>1, <3>3, Zenon DEF HasLetter
  <2>4. QED
    BY <2>1, <2>2, <2>3, Zenon
<1>6. QED
  BY <1>0, <1>4, <1>5, Zenon

\* Where a run over a name ends, for every name.
LEMMA NamesAccepted ==
  ASSUME NEW S, NEW s \in Seq(S), NEW f, RunsOver(f, AtLabel(FALSE), s, S)
  PROVE  Accepted(f[Len(s)]) <=> Labelled(s) /\ HasLetter(s)
<1> DEFINE Claim(u, g, l) == Accepted(g[Len(u)]) <=> Labelled(u) /\ (l \/ HasLetter(u))
           A == {m \in Nat : \A u \in Seq(S), l \in BOOLEAN : \A g :
                   Len(u) <= m /\ RunsOver(g, AtLabel(l), u, S) => Claim(u, g, l)}
<1>1. ASSUME NEW u \in Seq(S), NEW l \in BOOLEAN, NEW g, RunsOver(g, AtLabel(l), u, S),
             ~Contains(u, ".")
      PROVE  Claim(u, g, l)
  BY <1>1, LastLabelRuns, Zenon
<1>2. 0 \in A
  <2> SUFFICES ASSUME NEW u \in Seq(S), NEW l \in BOOLEAN, NEW g,
                      RunsOver(g, AtLabel(l), u, S), Len(u) <= 0
               PROVE  Claim(u, g, l)
    <3>1. 0 \in Nat
      OBVIOUS
    <3>2. QED
      BY <3>1, Zenon
  <2>1. \A j : j \notin 1..Len(u)
    OBVIOUS
  <2>2. ~Contains(u, ".")
    BY <2>1, LenProperties, Zenon DEF Contains
  <2>3. QED
    BY <1>1, <2>2, Zenon
<1>3. ASSUME NEW m \in Nat, m \in A PROVE m + 1 \in A
  <2> SUFFICES ASSUME NEW u \in Seq(S), NEW l \in BOOLEAN, NEW g,
                      RunsOver(g, AtLabel(l), u, S), Len(u) <= m + 1
               PROVE  Claim(u, g, l)
    <3>1. m + 1 \in Nat
      OBVIOUS
    <3>2. QED
      BY <3>1, Zenon
  <2>1. CASE ~Contains(u, ".")
    BY <1>1, <2>1, Zenon
  <2>2. CASE Contains(u, ".")
    <3>1. PICK i, t : i \in 1..Len(u) /\ t \in Seq(S) /\ CutAt(u, ".", i, t)
      BY <2>2, CutFirst, Zenon
    <3>2. PICK p : p = SubSeq(u, 1, i - 1)
      OBVIOUS
    <3>3. /\ Labelled(u) <=> IsLabel(p) /\ Labelled(t)
          /\ HasLetter(u) <=> HasLetter(p) \/ HasLetter(t)
      <4>1. /\ Labelled(u) <=> IsLabel(SubSeq(u, 1, i - 1)) /\ Labelled(t)
            /\ HasLetter(u) <=> HasLetter(SubSeq(u, 1, i - 1)) \/ HasLetter(t)
        BY <3>1, LabelledCut, Zenon
      <4>2. QED
        BY <3>2, <4>1, Zenon
    <3>4. IF IsLabel(p)
          THEN \E h : RunsOver(h, AtLabel(l \/ HasLetter(p)), t, S) /\ h[Len(t)] = g[Len(u)]
          ELSE g[Len(u)].refused
      <4>1. RunsBehind(g, u, l, SubSeq(u, 1, i - 1), t, S)
        BY <3>1, FirstLabelRuns, Zenon
      <4>2. QED
        BY <3>2, <4>1, Zenon DEF RunsBehind
    <3>5. CASE IsLabel(p)
      <4>1. PICK h : RunsOver(h, AtLabel(l \/ HasLetter(p)), t, S) /\ h[Len(t)] = g[Len(u)]
        BY <3>4, <3>5, Zenon
      <4>2. Len(t) <= m
        <5>1. Len(t) = Len(u) - i
          BY <3>1, Zenon DEF CutAt
        <5>2. QED
          BY <3>1, <5>1
      <4>3. PICK b \in BOOLEAN : b = (l \/ HasLetter(p))
        BY Zenon
      <4>4. Claim(t, h, b)
        BY <1>3, <3>1, <4>1, <4>2, <4>3, Zenon
      <4>5. QED
        BY <3>3, <3>5, <4>1, <4>3, <4>4, Zenon
    <3>6. CASE ~IsLabel(p)
      <4>1. ~Accepted(g[Len(u)])
        BY <3>4, <3>6, Zenon DEF Accepted
      <4>2. QED
        BY <3>3, <3>6, <4>1, Zenon
    <3>7. QED
      BY <3>5, <3>6, Zenon
  <2>3. QED
    BY <2>1, <2>2, Zenon
<1> HIDE DEF A
<1>4. PICK L \in Nat : L = Len(s) /\ L <= L /\ L \in 0..L
  OBVIOUS
<1>5. 0..L \subseteq A
  <2>1. \A m \in 0 .. L - 1 : m \in A => m + 1 \in A
    <3>1. \A m \in 0 .. L - 1 : m \in Nat
      OBVIOUS
    <3>2. QED
      BY <1>3, <3>1, Zenon
  <2>2. QED
    BY <1>2, <2>1, NatInductionIn, Zenon
<1>6. Claim(s, f, FALSE)
  <2>1. L \in A
    BY <1>4, <1>5, Zenon
  <2>2. QED
    BY <1>4, <2>1, Zenon DEF A
<1>7. QED
  BY <1>6, Zenon

\* The labels as IsDomainName has them.
LEMMA LabelsAreNamed ==
  ASSUME NEW S, NEW t \in Seq(S)
  PROVE  LET labels == Fields(t, ".")
             named  == IF Last(labels) = <<>> THEN Front(labels) ELSE labels
         IN  (\A n \in DOMAIN named : IsLabel(named[n])) <=> Labelled(t)
<1>1. PICK F : F = Fields(t, ".")
  OBVIOUS
<1>2. PICK m \in Nat \ {0} : m = Len(F) /\ DOMAIN F = 1..m
  <2>1. /\ Len(F) = Cardinality(Ends(t, ".")) - 1 /\ DOMAIN F = 1 .. Cardinality(Ends(t, ".")) - 1
        /\ Cardinality(Ends(t, ".")) - 1 \in Nat \ {0}
    BY <1>1, FieldIs, Zenon
  <2>2. QED
    BY <2>1, Zenon
<1>3. PICK G : G = Front(F)
  OBVIOUS
<1>4. DOMAIN G = 1 .. m - 1 /\ \A n \in 1 .. m - 1 : G[n] = F[n]
  <2> DEFINE X == {F[n] : n \in 1..m}
  <2>1. \A n \in 1 .. m - 1 : F[n] \in X
    <3>1. \A n \in 1 .. m - 1 : n \in 1..m
      OBVIOUS
    <3>2. QED
      BY <3>1, Zenon
  <2> HIDE DEF X
  <2>2. PICK k \in Nat : k = m - 1
    OBVIOUS
  <2>3. G = SubSeq(F, 1, k)
    BY <1>2, <1>3, <2>2, Zenon DEF Front
  <2>4. 1 \in Int /\ k \in Int /\ \A n \in 1..k : F[n] \in X
    BY <2>1, <2>2
  <2>5. /\ SubSeq(F, 1, k) \in Seq(X) /\ Len(SubSeq(F, 1, k)) = IF 1 <= k THEN k - 1 + 1 ELSE 0
        /\ \A n \in 1 .. k - 1 + 1 : SubSeq(F, 1, k)[n] = F[1 + n - 1]
    BY <2>4, SubSeqProperties
  <2>6. G \in Seq(X) /\ Len(G) = k
    BY <2>3, <2>5
  <2>7. DOMAIN G = 1..k
    BY <2>6, LenProperties
  <2>8. \A n \in 1..k : n \in 1 .. k - 1 + 1 /\ 1 + n - 1 = n
    OBVIOUS
  <2>9. \A n \in 1..k : G[n] = F[n]
    BY <2>3, <2>5, <2>8, Zenon
  <2>10. QED
    BY <2>2, <2>7, <2>9, Zenon
<1>5. Labelled(t) <=> \A n \in 1..m : IsLabel(F[n]) \/ (n = m /\ F[n] = <<>>)
  BY <1>1, <1>2, Zenon DEF Labelled
<1>6. Last(F) = F[m]
  BY <1>2, Zenon DEF Last
<1>7. ~IsLabel(<<>>)
  <2>1. Len(<<>>) \notin 1..MaxLabel
    OBVIOUS
  <2>2. QED
    BY <2>1, Zenon DEF IsLabel
<1>8. CASE F[m] = <<>>
  <2>1. \A n \in 1..m : n \in 1 .. m - 1 \/ n = m
    OBVIOUS
  <2>2. \A n \in 1 .. m - 1 : n \in 1..m /\ n # m
    OBVIOUS
  <2>3. (\A n \in DOMAIN G : IsLabel(G[n])) <=> Labelled(t)
    BY <1>4, <1>5, <1>8, <2>1, <2>2, Zenon
  <2>4. QED
    BY <1>1, <1>3, <1>6, <1>8, <2>3, Zenon
<1>9. CASE F[m] # <<>>
  <2>1. (\A n \in DOMAIN F : IsLabel(F[n])) <=> Labelled(t)
    BY <1>2, <1>5, <1>9, Zenon
  <2>2. QED
    BY <1>1, <1>6, <1>9, <2>1, Zenon
<1>10. QED
  BY <1>8, <1>9, Zenon

\* A leading dot holds no letter.
LEMMA BehindDot ==
  ASSUME NEW S, NEW d \in Seq(S), d # <<>>
  PROVE  /\ WithoutDot(d) \in Seq(S)
         /\ ToSet(d) \cap Letters # {} <=> HasLetter(WithoutDot(d))
<1>1. PICK L \in Nat : L = Len(d) /\ L # 0 /\ DOMAIN d = 1..L /\ Head(d) = d[1]
  BY LenProperties
<1>2. ToSet(d) \cap Letters # {} <=> \E j \in 1..L : d[j] \in Letters
  BY <1>1, Zenon DEF ToSet
<1>3. CASE d[1] = "."
  <2>1. PICK t \in Seq(S) : t = Tail(d) /\ Len(t) = L - 1 /\ \A j \in 1 .. L - 1 : t[j] = d[j + 1]
    <3>1. Tail(d) \in Seq(S) /\ Len(Tail(d)) = L - 1 /\ \A j \in 1 .. L - 1 : Tail(d)[j] = d[j + 1]
      BY <1>1
    <3>2. QED
      BY <3>1, Zenon
  <2>2. WithoutDot(d) = t
    BY <1>1, <1>3, <2>1, Zenon DEF WithoutDot
  <2>3. d[1] \notin Letters
    BY <1>3, SeparatorsAre, Zenon DEF LabelChars
  <2>4. \A j \in 1..L : j = 1 \/ (j - 1 \in 1 .. L - 1 /\ (j - 1) + 1 = j)
    OBVIOUS
  <2>5. \A j \in 1 .. L - 1 : j + 1 \in 1..L
    OBVIOUS
  <2>6. HasLetter(t) <=> \E j \in 1 .. L - 1 : d[j + 1] \in Letters
    BY <2>1, Zenon DEF HasLetter
  <2>7. (\E j \in 1 .. L - 1 : d[j + 1] \in Letters) <=> (\E j \in 1..L : d[j] \in Letters)
    <3>1. ASSUME NEW j \in 1..L, d[j] \in Letters PROVE \E i \in 1 .. L - 1 : d[i + 1] \in Letters
      BY <2>3, <2>4, <3>1, Zenon
    <3>2. QED
      BY <2>5, <3>1, Zenon
  <2>8. QED
    BY <1>2, <2>2, <2>6, <2>7, Zenon
<1>4. CASE d[1] # "."
  <2>1. WithoutDot(d) = d
    BY <1>1, <1>4, Zenon DEF WithoutDot
  <2>2. QED
    BY <1>1, <1>2, <2>1, Zenon DEF HasLetter
<1>5. QED
  BY <1>3, <1>4, Zenon

\* The domains that are kept are domain names and addresses.
LEMMA DomainIs ==
  ASSUME NEW S, NEW d \in Seq(S), NULL \notin Seq(S), d # <<>>
  PROVE  is_valid_cookie_domain(d) <=> IsDomainName(d) \/ IsIpv4(d)
<1>1. PICK t \in Seq(S) : t = WithoutDot(d)
  BY BehindDot, Zenon
<1>2. PICK f : RunsOver(f, AtLabel(FALSE), t, S) /\ DomainScan(t) = f[Len(t)]
  BY ScanRuns, Zenon
<1>3. Accepted(DomainScan(t)) <=> Labelled(t) /\ HasLetter(t)
  BY <1>2, NamesAccepted, Zenon
<1>4. is_valid_cookie_domain_name(d) <=> Len(d) \in 1..MaxDomain /\ Accepted(DomainScan(t))
  BY <1>1, Zenon DEF is_valid_cookie_domain_name, Accepted
<1>5. IsDomainName(d) <=> Len(d) \in 1..MaxDomain /\ ToSet(d) \cap Letters # {} /\ Labelled(t)
  <2>1. LET labels == Fields(t, ".")
            named  == IF Last(labels) = <<>> THEN Front(labels) ELSE labels
        IN  (\A n \in DOMAIN named : IsLabel(named[n])) <=> Labelled(t)
    BY LabelsAreNamed, Zenon
  <2>2. QED
    BY <1>1, <2>1, Zenon DEF IsDomainName
<1>6. ToSet(d) \cap Letters # {} <=> HasLetter(t)
  BY <1>1, BehindDot, Zenon
<1>7. IsIpv4(d) <=> Contains(d, ".") /\ parse_ipv4(d) /\ ~Contains(d, ":")
  BY ParsesIpv4, Ipv4HasDots, Zenon
<1>8. QED
  BY <1>3, <1>4, <1>5, <1>6, <1>7, Zenon DEF is_valid_cookie_domain

\* Every domain that a program sets is put into the text of its cookie exactly
\* if it is a domain name or an IPv4 address, however long it is and whatever
\* bounds its labels have.
THEOREM DomainsAccepted == IpSpec => []DomainsKept
<1>1. ParserInv => DomainsKept
  <2> SUFFICES ASSUME ParserInv, ipText # <<>>
               PROVE  is_valid_cookie_domain(ipText) <=> IsDomainName(ipText) \/ IsIpv4(ipText)
    BY Zenon DEF DomainsKept
  <2>1. ipText \in Seq(IpChars)
    BY Zenon DEF ParserInv
  <2>2. NULL \notin Seq(IpChars)
    BY TextAssumption, Zenon
  <2>3. QED
    BY <2>1, <2>2, DomainIs, Zenon
<1>2. QED
  BY ParserInvariance, <1>1, PTL

-----------------------------------------------------------------------------
(* Lists of header names. *)

\* What derive_headers keeps of the characters of a list, and the lists without
\* the characters it drops.
NameChars == {"a", "-"}
ListChars == {"a", "A", "-", " ", ","}

\* What the pass over a list has.
ListStates == [names : Seq(Seq(NameChars)), tmp : Seq(NameChars)]

NothingTaken == [names |-> <<>>, tmp |-> <<>>]

\* TakeChar, case by case.
TakeStep(q, r, c, finishes) ==
  /\ r \in ListStates
  /\ IsSeparator(c) /\ q.tmp = <<>> => r.names = q.names /\ r.tmp = <<>>
  /\ IsSeparator(c) /\ q.tmp # <<>> => r.names = Append(q.names, q.tmp) /\ r.tmp = <<>>
  /\ ~IsSeparator(c) /\ ~finishes => r.names = q.names /\ r.tmp = Append(q.tmp, Lower(c))
  /\ ~IsSeparator(c) /\ finishes =>
       r.names = Append(q.names, Append(q.tmp, Lower(c))) /\ r.tmp = <<>>

LEMMA TakeIs ==
  ASSUME NEW s, NEW n, NEW last, NEW q \in ListStates, s[n] \in ListChars
  PROVE  TakeStep(q, TakeChar(q, s, n, last), s[n], n = last)
<1>1. PICK c \in ListChars : c = s[n]
  OBVIOUS
<1>2. PICK N \in Seq(Seq(NameChars)), w \in Seq(NameChars) : N = q.names /\ w = q.tmp
  BY DEF ListStates
<1>3. PICK r : r = TakeChar(q, s, n, last)
  OBVIOUS
<1>4. CASE IsSeparator(c)
  <2>1. c \notin {"a", "A", "-"} /\ c \in {" ", ","}
    BY <1>4 DEF IsSeparator
  <2>2. w \o <<>> = w
    BY ConcatEmptySeq, Zenon
  <2>3. r = IF w # <<>> THEN [names |-> Append(N, w), tmp |-> <<>>] ELSE [names |-> N, tmp |-> w]
    BY <1>1, <1>2, <1>3, <2>1, <2>2, Zenon DEF TakeChar
  <2>4. Append(N, w) \in Seq(Seq(NameChars)) /\ <<>> \in Seq(NameChars)
    BY AppendProperties, EmptySeq, Zenon
  <2>5. CASE w = <<>>
    <3>1. r.names = N /\ r.tmp = <<>> /\ r \in ListStates
      BY <2>3, <2>4, <2>5 DEF ListStates
    <3>2. QED
      BY <1>1, <1>2, <1>3, <1>4, <2>5, <3>1, Zenon DEF TakeStep
  <2>6. CASE w # <<>>
    <3>1. r = [names |-> Append(N, w), tmp |-> <<>>]
      BY <2>3, <2>6, Zenon
    <3>2. r.names = Append(N, w) /\ r.tmp = <<>> /\ r \in ListStates
      BY <2>4, <3>1 DEF ListStates
    <3>3. QED
      BY <1>1, <1>2, <1>3, <1>4, <2>6, <3>2, Zenon DEF TakeStep
  <2>7. QED
    BY <2>5, <2>6, Zenon
<1>5. CASE ~IsSeparator(c)
  <2>1. c \in {"a", "A", "-"} /\ c \notin {" ", ","} /\ Lower(c) \in NameChars
    BY <1>5 DEF IsSeparator, ListChars, NameChars, Lower
  <2>2. PICK u \in Seq(NameChars) : u = Append(w, Lower(c)) /\ u # <<>> /\ w \o <<Lower(c)>> = u
    <3>0. PICK d \in NameChars : d = Lower(c)
      BY <2>1, Zenon
    <3>1. Append(w, d) \in Seq(NameChars) /\ Append(w, d) # <<>>
      BY AppendProperties
    <3>2. Append(w, d) = w \o <<d>>
      BY AppendIsConcat, Zenon
    <3>3. QED
      BY <3>0, <3>1, <3>2, Zenon
  <2>3. r = IF n = last THEN [names |-> Append(N, u), tmp |-> <<>>] ELSE [names |-> N, tmp |-> u]
    BY <1>1, <1>2, <1>3, <2>1, <2>2, Zenon DEF TakeChar
  <2>4. Append(N, u) \in Seq(Seq(NameChars)) /\ <<>> \in Seq(NameChars)
    BY AppendProperties, EmptySeq, Zenon
  <2>5. CASE n # last
    <3>0. r = [names |-> N, tmp |-> u]
      BY <2>3, <2>5, Zenon
    <3>1. r.names = N /\ r.tmp = u /\ r \in ListStates
      BY <3>0 DEF ListStates
    <3>2. QED
      BY <1>1, <1>2, <1>3, <1>5, <2>2, <2>5, <3>1, Zenon DEF TakeStep
  <2>6. CASE n = last
    <3>1. r = [names |-> Append(N, u), tmp |-> <<>>]
      BY <2>3, <2>6, Zenon
    <3>2. r.names = Append(N, u) /\ r.tmp = <<>> /\ r \in ListStates
      BY <2>4, <3>1 DEF ListStates
    <3>3. QED
      BY <1>1, <1>2, <1>3, <1>5, <2>2, <2>6, <3>2, Zenon DEF TakeStep
  <2>7. QED
    BY <2>5, <2>6, Zenon
<1>6. QED
  BY <1>4, <1>5, Zenon

\* f is a pass over the list s.
TakesAll(f, s, last) ==
  /\ f \in [0..Len(s) -> ListStates] /\ f[0] = NothingTaken
  /\ \A n \in 1..Len(s) : f[n] = TakeChar(f[n - 1], s, n, last)

\* NamesUpTo is what such a pass has in the end.
LEMMA ListIsTaken ==
  ASSUME NEW s \in Seq(ListChars), NEW last
  PROVE  \E f : TakesAll(f, s, last) /\ NamesUpTo(s, last) = f[Len(s)].names
<1>1. PICK L \in Nat : L = Len(s)
  OBVIOUS
<1> DEFINE D == ListStates
           F == [i \in 1..L |-> [x \in D |-> TakeChar(x, s, i, last)]]
           Turn(i, f) == IF i = 0 THEN [names |-> <<>>, tmp |-> <<>>]
                         ELSE TakeChar(f[i - 1], s, i, last)
           v == CHOOSE f : f = [i \in 0..L |-> Turn(i, f)]
<1>2. NamesUpTo(s, last) = v[L].names
  BY <1>1 DEF NamesUpTo
<1>3. \A i \in 1..L : s[i] \in ListChars
  BY <1>1
<1>4. \A i \in 1..L, x \in D : TakeChar(x, s, i, last) \in D
  BY <1>3, TakeIs, Zenon DEF TakeStep
<1>5. NothingTaken \in D
  BY DEF NothingTaken, ListStates
<1> HIDE DEF D
<1>6. F \in [1..L -> [D -> D]]
  BY <1>4, Zenon
<1>7. PICK g : g \in [0..L -> D] /\ g[0] = NothingTaken /\ \A i \in 1..L : g[i] = F[i][g[i - 1]]
  <2> HIDE DEF F
  <2>1. PICK g : g \in [0..L -> D] /\ Recurses(g, L, NothingTaken, F)
    BY <1>5, <1>6, RecursionIn, Zenon
  <2>2. QED
    BY <2>1, Zenon DEF Recurses
<1>8. \A i \in 1..L : g[i - 1] \in D
  <2>1. \A i \in 1..L : i - 1 \in 0..L
    OBVIOUS
  <2>2. QED
    BY <1>7, <2>1, Zenon
<1>9. \A i \in 1..L : g[i] = TakeChar(g[i - 1], s, i, last)
  BY <1>7, <1>8, Zenon
<1>10. g = [i \in 0..L |-> Turn(i, g)]
  <2>1. \A i \in 0..L : i # 0 => i \in 1..L
    OBVIOUS
  <2>2. \A i \in 0..L : g[i] = Turn(i, g)
    BY <1>7, <1>9, <2>1, Zenon DEF NothingTaken
  <2>3. g = [i \in 0..L |-> g[i]]
    BY <1>7, Zenon
  <2> HIDE DEF Turn
  <2>4. [i \in 0..L |-> g[i]] = [i \in 0..L |-> Turn(i, g)]
    BY <2>2, Zenon
  <2>5. QED
    BY <2>3, <2>4, Zenon
<1>11. v = [i \in 0..L |-> Turn(i, v)]
  <2> HIDE DEF Turn
  <2>1. QED
    BY <1>10, Zenon
<1>12. v[L] = g[L]
  <2> HIDE DEF v
  <2> DEFINE A == {m \in 0..L : v[m] = g[m]}
  <2>1. v[0] = g[0] /\ 0 \in 0..L
    <3>1. 0 \in 0..L
      OBVIOUS
    <3>2. QED
      BY <1>10, <1>11, <3>1, Zenon
  <2>2. ASSUME NEW k \in 0 .. L - 1, k \in A PROVE k + 1 \in A
    <3>1. k + 1 \in 0..L /\ k + 1 # 0 /\ (k + 1) - 1 = k
      OBVIOUS
    <3>2. v[k + 1] = TakeChar(v[k], s, k + 1, last) /\ g[k + 1] = TakeChar(g[k], s, k + 1, last)
      BY <1>10, <1>11, <3>1, Zenon
    <3>3. QED
      BY <2>2, <3>1, <3>2, Zenon
  <2>3. 0 \in A
    BY <2>1, Zenon
  <2> HIDE DEF A
  <2>4. 0..L \subseteq A
    BY <2>2, <2>3, NatInductionIn, Zenon
  <2>5. L \in 0..L
    OBVIOUS
  <2>6. QED
    BY <2>4, <2>5, Zenon DEF A
<1>13. TakesAll(g, s, last)
  BY <1>1, <1>7, <1>9, Zenon DEF TakesAll, D
<1>14. QED
  BY <1>1, <1>2, <1>12, <1>13, Zenon

\* How ranks grow.
RankSteps(K) ==
  \A x \in Nat : /\ Rank(K, x) \in Nat
                 /\ x \notin K => Rank(K, x + 1) = Rank(K, x)
                 /\ x \in K => Rank(K, x + 1) = Rank(K, x) + 1

\* B and E are where the names of the list s of L characters start and end.
StartsAndEnds(s, L, B, E) ==
  /\ B \subseteq Int /\ IsFiniteSet(B) /\ RankSteps(B) /\ B \subseteq 1..L
  /\ E \subseteq Int /\ IsFiniteSet(E) /\ RankSteps(E) /\ E \subseteq 1..L
  /\ Rank(B, L + 1) = Cardinality(B) /\ Rank(E, L + 1) = Cardinality(E)
  /\ Rank(B, 1) = 0 /\ Rank(E, 1) = 0
  /\ \A i \in 1..L : i \in B <=> ~IsSeparator(s[i]) /\ (i = 1 \/ IsSeparator(s[i - 1]))
  /\ \A i \in 1..L : i \in E <=> ~IsSeparator(s[i]) /\ (i = L \/ IsSeparator(s[i + 1]))

\* So are the sets of ListMatchesNames.
LEMMA NamesStartAndEnd ==
  ASSUME NEW s \in Seq(ListChars), NEW L \in Nat, L = Len(s)
  PROVE  StartsAndEnds(s, L, NameStarts(s), NameEnds(s))
<1>0. PICK B, E : B = NameStarts(s) /\ E = NameEnds(s)
  OBVIOUS
<1>1. DOMAIN s = 1..L
  BY LenProperties
<1>2. B \subseteq 1..L /\ E \subseteq 1..L
  BY <1>0, <1>1, Zenon DEF NameStarts, NameEnds
<1>3. /\ \A i \in 1..L : i \in B <=> ~IsSeparator(s[i]) /\ (i = 1 \/ IsSeparator(s[i - 1]))
      /\ \A i \in 1..L : i \in E <=> ~IsSeparator(s[i]) /\ (i = L \/ IsSeparator(s[i + 1]))
  BY <1>0, <1>1, Zenon DEF NameStarts, NameEnds
<1>4. ASSUME NEW K, K \subseteq 1..L
      PROVE  /\ K \subseteq Int /\ IsFiniteSet(K) /\ RankSteps(K)
             /\ Rank(K, L + 1) = Cardinality(K) /\ Rank(K, 1) = 0
  <2>1. K \subseteq Int
    BY <1>4
  <2>2. IsFiniteSet(K)
    <3>1. IsFiniteSet(1..L)
      BY FS_Interval
    <3>2. QED
      BY <1>4, <3>1, FS_Subset, Zenon
  <2>3. RankSteps(K)
    <3>1. \A x \in Nat : x \in Int
      OBVIOUS
    <3>2. QED
      BY <2>1, <2>2, <3>1, RankIs, Zenon DEF RankSteps
  <2>4. Rank(K, L + 1) = Cardinality(K)
    <3>1. L + 1 \in Int /\ \A y \in K : y < L + 1
      BY <1>4
    <3>2. QED
      BY <2>1, <2>2, <3>1, RankIs, Zenon
  <2>5. Rank(K, 1) = 0
    <3>1. 1 \in Int /\ \A y \in K : ~ (y < 1)
      BY <1>4
    <3>2. QED
      BY <2>1, <2>2, <3>1, RankIs, Zenon
  <2>6. QED
    BY <2>1, <2>2, <2>3, <2>4, <2>5, Zenon
<1>5. StartsAndEnds(s, L, B, E)
  BY <1>2, <1>3, <1>4, Zenon DEF StartsAndEnds
<1>6. QED
  BY <1>0, <1>5, Zenon

\* The text w spells the characters b to e of the list s, none of them a separator.
Spells(w, s, b, e) ==
  /\ b <= e /\ w \in Seq(NameChars) /\ Len(w) = e - b + 1
  /\ \A j \in 1 .. e - b + 1 : w[j] = Lower(s[b + j - 1])
  /\ \A j \in b..e : ~IsSeparator(s[j])

\* The names that end at m or before.
NamesDone(names, s, B, E, m) ==
  /\ Len(names) = Rank(E, m + 1)
  /\ \A e \in E : e <= m =>
       \E b \in B : Rank(B, b) = Rank(E, e) /\ Spells(names[Rank(E, e) + 1], s, b, e)

\* At n the name that starts at b goes on.
NameOpen(names, w, s, B, E, n) ==
  /\ NamesDone(names, s, B, E, n - 1) /\ Rank(B, n + 1) = Rank(E, n) + 1
  /\ \E b \in B : Rank(B, b) = Rank(E, n) /\ Spells(w, s, b, n)

\* At n no name goes on.
NamesClosed(q, s, B, E, n) ==
  /\ q.tmp = <<>> /\ NamesDone(q.names, s, B, E, n) /\ Rank(B, n + 1) = Rank(E, n + 1)

\* One more character.
LEMMA SpellsOn ==
  ASSUME NEW s \in Seq(ListChars), NEW b \in Nat, NEW m \in Nat, NEW n \in 1..Len(s), m + 1 = n,
         ~IsSeparator(s[n]), NEW w \in Seq(NameChars),
         Spells(w, s, b, m) \/ (w = <<>> /\ b = n)
  PROVE  Spells(Append(w, Lower(s[n])), s, b, n)
<1>1. PICK c \in ListChars : c = s[n]
  OBVIOUS
<1>2. PICK d \in NameChars : d = Lower(c)
  <2>1. Lower(c) \in NameChars
    BY <1>1 DEF IsSeparator, ListChars, NameChars, Lower
  <2>2. QED
    BY <2>1, Zenon
<1>3. PICK k \in Nat : k = Len(w)
  OBVIOUS
<1>4. b <= n /\ k = n - b /\ (\A j \in 1..k : w[j] = Lower(s[b + j - 1]))
      /\ \A j \in b..m : ~IsSeparator(s[j])
  <2>1. CASE Spells(w, s, b, m)
    <3>1. b <= m /\ k = m - b + 1 /\ (\A j \in 1 .. m - b + 1 : w[j] = Lower(s[b + j - 1]))
          /\ \A j \in b..m : ~IsSeparator(s[j])
      BY <1>3, <2>1, Zenon DEF Spells
    <3>2. b <= n /\ k = n - b
      BY <3>1
    <3>3. QED
      BY <3>1, <3>2, Zenon
  <2>2. CASE w = <<>> /\ b = n
    <3>1. b <= n /\ k = n - b /\ (\A j : j \notin 1..k) /\ (\A j : j \notin b..m)
      BY <1>3, <2>2
    <3>2. QED
      BY <3>1, Zenon
  <2>3. QED
    BY <2>1, <2>2, Zenon
<1>5. PICK u \in Seq(NameChars) : /\ u = Append(w, d) /\ Len(u) = k + 1 /\ u[k + 1] = d
                                 /\ \A j \in 1..k : u[j] = w[j]
  <2>1. /\ Append(w, d) \in Seq(NameChars) /\ Len(Append(w, d)) = k + 1
        /\ Append(w, d)[k + 1] = d /\ \A j \in 1..k : Append(w, d)[j] = w[j]
    BY <1>3, AppendProperties
  <2>2. QED
    BY <2>1, Zenon
<1>6. k + 1 = n - b + 1 /\ b + (k + 1) - 1 = n
  BY <1>4
<1>7. \A j \in 1 .. n - b + 1 : u[j] = Lower(s[b + j - 1])
  <2>1. \A j \in 1 .. n - b + 1 : j \in 1..k \/ j = k + 1
    BY <1>4
  <2>2. u[k + 1] = Lower(s[b + (k + 1) - 1])
    BY <1>1, <1>2, <1>5, <1>6, Zenon
  <2>3. QED
    BY <1>4, <1>5, <2>1, <2>2, Zenon
<1>8. \A j \in b..n : ~IsSeparator(s[j])
  <2>1. \A j \in b..n : j \in b..m \/ j = n
    OBVIOUS
  <2>2. QED
    BY <1>4, <2>1, Zenon
<1>9. QED
  BY <1>1, <1>2, <1>4, <1>5, <1>6, <1>7, <1>8, Zenon DEF Spells

\* A name that ends at e is put behind the others.
LEMMA NameFinished ==
  ASSUME NEW s, NEW B, NEW E, E \subseteq Int, IsFiniteSet(E), RankSteps(E),
         NEW e \in Nat \ {0}, e \in E, NEW names \in Seq(Seq(NameChars)), NEW w \in Seq(NameChars),
         NamesDone(names, s, B, E, e - 1),
         \E b \in B : Rank(B, b) = Rank(E, e) /\ Spells(w, s, b, e)
  PROVE  NamesDone(Append(names, w), s, B, E, e)
<1>1. PICK k \in Nat : k = Rank(E, e)
  BY Zenon DEF RankSteps
<1>2. (e - 1) + 1 = e /\ e \in Nat /\ e \in Int
  OBVIOUS
<1>0. \A x \in E : (x <= e => x <= e - 1 \/ x = e) /\ (x <= e - 1 => x < e)
  <2>1. \A x \in Int : (x <= e => x <= e - 1 \/ x = e) /\ (x <= e - 1 => x < e)
    BY <1>2
  <2>2. QED
    BY <2>1, Zenon
<1>3. Len(names) = k /\ Rank(E, e + 1) = k + 1
  BY <1>1, <1>2, Zenon DEF RankSteps, NamesDone
<1>4. PICK M : /\ M = Append(names, w) /\ Len(M) = k + 1 /\ M[k + 1] = w
               /\ \A j \in 1..k : M[j] = names[j]
  <2>1. /\ Len(Append(names, w)) = k + 1 /\ Append(names, w)[k + 1] = w
        /\ \A j \in 1..k : Append(names, w)[j] = names[j]
    BY <1>3, AppendProperties
  <2>2. QED
    BY <2>1, Zenon
<1>5. ASSUME NEW x \in E, x <= e
      PROVE  \E b \in B : Rank(B, b) = Rank(E, x) /\ Spells(M[Rank(E, x) + 1], s, b, x)
  <2>1. CASE x = e
    BY <1>1, <1>4, <2>1, Zenon
  <2>2. CASE x <= e - 1
    <3>1. PICK b \in B : Rank(B, b) = Rank(E, x) /\ Spells(names[Rank(E, x) + 1], s, b, x)
      BY <2>2, Zenon DEF NamesDone
    <3>2. x < e
      BY <1>0, <2>2, Zenon
    <3>3. Rank(E, x) < k
      BY <1>1, <3>2, RankGrows, Zenon
    <3>4. Rank(E, x) \in Nat
      <4>1. x \in Int
        OBVIOUS
      <4>2. QED
        BY <4>1, RankIs, Zenon
    <3>5. Rank(E, x) + 1 \in 1..k
      BY <3>3, <3>4
    <3>6. QED
      BY <1>4, <3>1, <3>5, Zenon
  <2>3. QED
    BY <1>0, <1>5, <2>1, <2>2, Zenon
<1>6. QED
  BY <1>3, <1>4, <1>5, Zenon DEF NamesDone

\* A place where no name ends adds none.
LEMMA NothingFinished ==
  ASSUME NEW s, NEW B, NEW E, E \subseteq Int, RankSteps(E), NEW n \in Nat \ {0}, n \notin E,
         NEW names, NamesDone(names, s, B, E, n - 1)
  PROVE  NamesDone(names, s, B, E, n)
<1>1. (n - 1) + 1 = n /\ n \in Nat /\ \A x \in E : x <= n => x <= n - 1 \/ x = n
  OBVIOUS
<1>2. QED
  BY <1>1, Zenon DEF NamesDone, RankSteps

\* What the pass has behind the n-th of L characters.
AtPlace(q, s, B, E, L, n) ==
  IF n = 0 \/ n = L \/ IsSeparator(s[n]) THEN NamesClosed(q, s, B, E, n)
  ELSE NameOpen(q.names, q.tmp, s, B, E, n)

\* One character more.
LEMMA PassGoesOn ==
  ASSUME NEW s \in Seq(ListChars), NEW L \in Nat, L = Len(s),
         NEW B, NEW E, StartsAndEnds(s, L, B, E),
         NEW m \in 0 .. L - 1, NEW n \in 1..L, n = m + 1,
         NEW q \in ListStates, NEW r, TakeStep(q, r, s[n], n = L), AtPlace(q, s, B, E, L, m)
  PROVE  AtPlace(r, s, B, E, L, n)
<1>1. /\ B \subseteq Int /\ IsFiniteSet(B) /\ RankSteps(B) /\ B \subseteq 1..L
      /\ E \subseteq Int /\ IsFiniteSet(E) /\ RankSteps(E) /\ E \subseteq 1..L
      /\ Rank(B, 1) = 0 /\ Rank(E, 1) = 0
      /\ \A i \in 1..L : i \in B <=> ~IsSeparator(s[i]) /\ (i = 1 \/ IsSeparator(s[i - 1]))
      /\ \A i \in 1..L : i \in E <=> ~IsSeparator(s[i]) /\ (i = L \/ IsSeparator(s[i + 1]))
  BY Zenon DEF StartsAndEnds
<1>2. /\ m \in Nat /\ n \in Nat \ {0} /\ n - 1 = m /\ m + 1 = n /\ n # 0 /\ m # L /\ n \in Nat
      /\ (n = 1 <=> m = 0) /\ (m # 0 => m \in 1..L /\ m \in Nat \ {0} /\ (m - 1) + 1 = m)
  OBVIOUS
<1>3. PICK c \in ListChars : c = s[n]
  <2>1. n \in 1..Len(s)
    OBVIOUS
  <2>2. QED
    BY <2>1, ElementOfSeq, Zenon
<1>4. q.names \in Seq(Seq(NameChars)) /\ q.tmp \in Seq(NameChars)
  BY DEF ListStates
<1>5. PICK x \in Nat, y \in Nat : x = Rank(B, n) /\ y = Rank(E, n)
  BY <1>2, <1>1, Zenon DEF RankSteps
<1>6. /\ n \in B <=> ~IsSeparator(c) /\ (m = 0 \/ IsSeparator(s[m]))
      /\ n \in E <=> ~IsSeparator(c) /\ (n = L \/ IsSeparator(s[n + 1]))
  BY <1>1, <1>2, <1>3, Zenon
<1>7. /\ Rank(B, n + 1) = IF n \in B THEN x + 1 ELSE x
      /\ Rank(E, n + 1) = IF n \in E THEN y + 1 ELSE y
  BY <1>1, <1>2, <1>5, Zenon DEF RankSteps
\* A name that is open at n is finished by the end of the list.
<1>8. ASSUME ~IsSeparator(c), NEW w, w = Append(q.tmp, Lower(c)), w \in Seq(NameChars),
             NameOpen(q.names, w, s, B, E, n)
      PROVE  AtPlace(r, s, B, E, L, n)
  <2>1. CASE n # L
    <3>1. r.names = q.names /\ r.tmp = w
      BY <1>3, <1>8, <2>1, Zenon DEF TakeStep
    <3>2. QED
      BY <1>2, <1>3, <1>8, <2>1, <3>1, Zenon DEF AtPlace
  <2>2. CASE n = L
    <3>1. r.names = Append(q.names, w) /\ r.tmp = <<>>
      BY <1>3, <1>8, <2>2, Zenon DEF TakeStep
    <3>2. n \in E
      BY <1>6, <1>8, <2>2, Zenon
    <3>3. NamesDone(q.names, s, B, E, n - 1)
          /\ \E b \in B : Rank(B, b) = Rank(E, n) /\ Spells(w, s, b, n)
      BY <1>8, Zenon DEF NameOpen
    <3>4. NamesDone(Append(q.names, w), s, B, E, n)
      BY <1>1, <1>2, <1>4, <1>8, <3>2, <3>3, NameFinished, Zenon
    <3>5. Rank(B, n + 1) = Rank(E, n + 1)
      BY <1>5, <1>7, <1>8, <3>2, Zenon DEF NameOpen
    <3>6. QED
      BY <2>2, <3>1, <3>4, <3>5, Zenon DEF AtPlace, NamesClosed
  <2>3. QED
    BY <2>1, <2>2, Zenon
<1>9. ~IsSeparator(c) => Append(q.tmp, Lower(c)) \in Seq(NameChars)
  <2>1. ~IsSeparator(c) => Lower(c) \in NameChars
    BY DEF IsSeparator, ListChars, NameChars, Lower
  <2>2. QED
    BY <1>4, <2>1, AppendProperties, Zenon
<1>10. CASE m = 0 \/ IsSeparator(s[m])
  <2>1. q.tmp = <<>> /\ NamesDone(q.names, s, B, E, m) /\ x = y
    BY <1>2, <1>5, <1>10, Zenon DEF AtPlace, NamesClosed
  <2>2. CASE IsSeparator(c)
    <3>1. r.names = q.names /\ r.tmp = <<>> /\ n \notin B /\ n \notin E
      BY <1>3, <1>6, <2>1, <2>2, Zenon DEF TakeStep
    <3>0. NamesDone(q.names, s, B, E, n - 1)
      BY <1>2, <2>1, Zenon
    <3>2. NamesDone(q.names, s, B, E, n)
      BY <1>1, <1>2, <3>0, <3>1, NothingFinished, Zenon
    <3>3. QED
      BY <1>3, <1>7, <2>1, <2>2, <3>1, <3>2, Zenon DEF AtPlace, NamesClosed
  <2>3. CASE ~IsSeparator(c)
    <3>1. n \in B
      BY <1>6, <1>10, <2>3, Zenon
    <3>2. PICK w \in Seq(NameChars) : w = Append(q.tmp, Lower(c))
      BY <1>9, <2>3, Zenon
    <3>3. Spells(Append(<<>>, Lower(s[n])), s, n, n)
      <4>1. n \in 1..Len(s) /\ <<>> \in Seq(NameChars)
        OBVIOUS
      <4>2. QED
        BY <1>2, <1>3, <2>3, <4>1, SpellsOn, Zenon
    <3>4. Spells(w, s, n, n)
      BY <1>3, <2>1, <3>2, <3>3, Zenon
    <3>5. NameOpen(q.names, w, s, B, E, n)
      BY <1>2, <1>5, <1>7, <2>1, <3>1, <3>4, Zenon DEF NameOpen
    <3>6. QED
      BY <1>8, <2>3, <3>2, <3>5, Zenon
  <2>4. QED
    BY <2>2, <2>3, Zenon
<1>11. CASE m # 0 /\ ~IsSeparator(s[m])
  <2>1. NameOpen(q.names, q.tmp, s, B, E, m) /\ m \in 1..L
    BY <1>2, <1>11, Zenon DEF AtPlace
  <2>2. PICK b \in B : Rank(B, b) = Rank(E, m) /\ Spells(q.tmp, s, b, m)
    BY <2>1, Zenon DEF NameOpen
  <2>3. NamesDone(q.names, s, B, E, m - 1) /\ x = Rank(E, m) + 1
    BY <1>2, <1>5, <2>1, Zenon DEF NameOpen
  <2>4. n \notin B
    BY <1>6, <1>11, Zenon
  <2>5. m \in E <=> IsSeparator(c)
    BY <1>1, <1>2, <1>3, <1>11, <2>1, Zenon
  <2>6. y = IF m \in E THEN Rank(E, m) + 1 ELSE Rank(E, m)
    BY <1>1, <1>2, <1>5, ZenonT(60) DEF RankSteps
  <2>7. CASE IsSeparator(c)
    <3>1. q.tmp # <<>>
      <4>1. Len(q.tmp) = m - b + 1 /\ b <= m /\ b \in Int /\ m \in Int
        BY <1>1, <1>2, <2>2 DEF Spells
      <4>2. Len(q.tmp) > 0
        BY <4>1
      <4>3. \A u \in Seq(NameChars) : Len(u) > 0 => u # <<>>
        OBVIOUS
      <4>4. QED
        BY <1>4, <4>2, <4>3, Zenon
    <3>2. r.names = Append(q.names, q.tmp) /\ r.tmp = <<>> /\ n \notin E /\ m \in E
      BY <1>3, <1>6, <2>5, <2>7, <3>1, Zenon DEF TakeStep
    <3>3. NamesDone(Append(q.names, q.tmp), s, B, E, m)
      BY <1>1, <1>2, <1>4, <2>1, <2>2, <2>3, <1>11, <3>2, NameFinished, Zenon
    <3>0. NamesDone(Append(q.names, q.tmp), s, B, E, n - 1)
      BY <1>2, <3>3, Zenon
    <3>4. NamesDone(Append(q.names, q.tmp), s, B, E, n)
      BY <1>1, <1>2, <3>0, <3>2, NothingFinished, Zenon
    <3>5. Rank(B, n + 1) = Rank(E, n + 1)
      BY <1>7, <2>3, <2>4, <2>6, <3>2, Zenon
    <3>6. QED
      BY <1>3, <2>7, <3>2, <3>4, <3>5, Zenon DEF AtPlace, NamesClosed
  <2>8. CASE ~IsSeparator(c)
    <3>1. PICK w \in Seq(NameChars) : w = Append(q.tmp, Lower(c))
      BY <1>9, <2>8, Zenon
    <3>2. Spells(Append(q.tmp, Lower(s[n])), s, b, n)
      <4>1. n \in 1..Len(s) /\ b \in Nat
        BY <1>1
      <4>2. QED
        BY <1>2, <1>3, <1>4, <2>2, <2>8, <4>1, SpellsOn, Zenon
    <3>3. Spells(w, s, b, n) /\ m \notin E
      BY <1>3, <2>5, <2>8, <3>1, <3>2, Zenon
    <3>4. NamesDone(q.names, s, B, E, m)
      BY <1>1, <1>2, <1>11, <2>3, <3>3, NothingFinished, Zenon
    <3>5. NameOpen(q.names, w, s, B, E, n)
      BY <1>2, <1>5, <1>7, <2>2, <2>3, <2>4, <2>6, <3>3, <3>4, Zenon DEF NameOpen
    <3>6. QED
      BY <1>8, <2>8, <3>1, <3>5, Zenon
  <2>9. QED
    BY <2>7, <2>8, Zenon
<1>12. QED
  BY <1>10, <1>11, Zenon

\* At the end of the list no name goes on.
LEMMA PassEnds ==
  ASSUME NEW s \in Seq(ListChars), NEW L \in Nat, L = Len(s),
         NEW B, NEW E, StartsAndEnds(s, L, B, E), NEW f, TakesAll(f, s, L)
  PROVE  NamesClosed(f[L], s, B, E, L)
<1>1. /\ f \in [0..L -> ListStates] /\ f[0] = NothingTaken
      /\ \A n \in 1..L : f[n] = TakeChar(f[n - 1], s, n, L)
  BY Zenon DEF TakesAll
<1> DEFINE A == {n \in 0..L : AtPlace(f[n], s, B, E, L, n)}
<1>2. 0 \in A
  <2>1. 0 \in 0..L /\ 0 + 1 = 1 /\ \A e \in 1..L : ~ (e <= 0)
    OBVIOUS
  <2>2. E \subseteq 1..L /\ Rank(B, 1) = 0 /\ Rank(E, 1) = 0
    BY Zenon DEF StartsAndEnds
  <2>3. PICK q : q = f[0] /\ q.names = <<>> /\ q.tmp = <<>>
    BY <1>1 DEF NothingTaken
  <2>4. Len(q.names) = 0
    BY <2>3
  <2>5. NamesDone(q.names, s, B, E, 0)
    BY <2>1, <2>2, <2>4, Zenon DEF NamesDone
  <2>6. AtPlace(q, s, B, E, L, 0)
    BY <2>1, <2>2, <2>3, <2>5, Zenon DEF AtPlace, NamesClosed
  <2>7. QED
    BY <2>1, <2>3, <2>6, Zenon
<1>3. ASSUME NEW m \in 0 .. L - 1, m \in A PROVE m + 1 \in A
  <2>1. PICK n \in 1..L : n = m + 1 /\ n \in 0..L /\ n - 1 = m /\ m \in 0..L
    <3>1. m + 1 \in 1..L /\ m + 1 \in 0..L /\ (m + 1) - 1 = m /\ m \in 0..L
      OBVIOUS
    <3>2. QED
      BY <3>1, Zenon
  <2>2. PICK q \in ListStates : q = f[m]
    BY <1>1, <2>1, Zenon
  <2>3. PICK r : r = f[n] /\ r = TakeChar(q, s, n, L)
    BY <1>1, <2>1, <2>2, Zenon
  <2>4. s[n] \in ListChars
    OBVIOUS
  <2>5. TakeStep(q, TakeChar(q, s, n, L), s[n], n = L)
    BY <2>4, TakeIs, Zenon
  <2>6. TakeStep(q, r, s[n], n = L) /\ AtPlace(q, s, B, E, L, m)
    BY <1>3, <2>2, <2>3, <2>5, Zenon
  <2>7. AtPlace(r, s, B, E, L, n)
    BY <2>1, <2>6, PassGoesOn, Zenon
  <2>8. QED
    BY <2>1, <2>3, <2>7, Zenon
<1> HIDE DEF A
<1>4. 0..L \subseteq A
  BY <1>2, <1>3, NatInductionIn, Zenon
<1>5. L \in 0..L
  OBVIOUS
<1>6. QED
  BY <1>4, <1>5, Zenon DEF A, AtPlace

\* The n-th of the names spells what is between the n-th start and the n-th end.
NameAt(names, s, B, E, n) ==
  \E b \in B, e \in E : InOrder(B)[n] = b /\ InOrder(E)[n] = e /\ Spells(names[n], s, b, e)

LEMMA NamesInPlace ==
  ASSUME NEW s, NEW L \in Nat, NEW B, NEW E, StartsAndEnds(s, L, B, E), NEW q,
         NamesClosed(q, s, B, E, L)
  PROVE  /\ Len(q.names) = Cardinality(B)
         /\ \A n \in 1..Cardinality(B) : NameAt(q.names, s, B, E, n)
<1>1. B \subseteq Int /\ IsFiniteSet(B) /\ E \subseteq Int /\ IsFiniteSet(E) /\ E \subseteq 1..L
  BY Zenon DEF StartsAndEnds
<1>2. PICK k \in Nat : k = Cardinality(B)
  BY <1>1, FS_CardinalityType, Zenon
<1>3. k = Cardinality(E)
  BY <1>2, Zenon DEF StartsAndEnds, NamesClosed
<1>4. PICK names : names = q.names /\ NamesDone(names, s, B, E, L)
  BY Zenon DEF NamesClosed
<1>5. Len(names) = k
  BY <1>2, <1>4, Zenon DEF StartsAndEnds, NamesClosed, NamesDone
<1>6. ASSUME NEW n \in 1..k
      PROVE  NameAt(names, s, B, E, n)
  <2>1. PICK m \in Nat : m + 1 = n /\ m < k
    <3>1. n - 1 \in Nat /\ (n - 1) + 1 = n /\ n - 1 < k
      OBVIOUS
    <3>2. QED
      BY <3>1, Zenon
  <2>2. E \subseteq 0..L /\ \A e \in E : e <= L
    BY <1>1
  <2>3. PICK e \in E : Rank(E, e) = m
    <3>1. m < Cardinality(E)
      BY <1>3, <2>1, Zenon
    <3>2. QED
      BY <1>1, <2>2, <3>1, RankReached, Zenon
  <2>4. PICK b \in B : Rank(B, b) = m /\ Spells(names[m + 1], s, b, e)
    BY <1>4, <2>2, <2>3, Zenon DEF NamesDone
  <2>5. InOrder(B)[n] = b /\ InOrder(E)[n] = e
    BY <1>1, <2>1, <2>3, <2>4, InOrderIs, Zenon
  <2>6. QED
    BY <2>1, <2>4, <2>5, Zenon DEF NameAt
<1>7. QED
  BY <1>2, <1>4, <1>5, <1>6, Zenon

\* A part of a list without a separator and its spelling have the same key.
LEMMA SpelledSame ==
  ASSUME NEW s \in Seq(KeyChars), s \in Seq(ListChars),
         NEW b \in 1..Len(s), NEW e \in 1..Len(s), NEW w, Spells(w, s, b, e)
  PROVE  to_canonical_mime_header_key(w) = to_canonical_mime_header_key(SubSeq(s, b, e))
<1>1. /\ b <= e /\ w \in Seq(NameChars) /\ Len(w) = e - b + 1
      /\ \A j \in 1 .. e - b + 1 : w[j] = Lower(s[b + j - 1])
      /\ \A j \in b..e : ~IsSeparator(s[j])
  BY Zenon DEF Spells
<1>2. PICK k \in Nat : k = e - b + 1 /\ \A j \in 1..k : b + j - 1 \in b..e
  BY <1>1
<1>3. PICK p \in Seq(KeyChars) : /\ p = SubSeq(s, b, e) /\ Len(p) = k
                                /\ \A j \in 1..k : p[j] = s[b + j - 1]
  <2>1. /\ SubSeq(s, b, e) \in Seq(KeyChars) /\ Len(SubSeq(s, b, e)) = e - b + 1
        /\ \A j \in 1 .. e - b + 1 : SubSeq(s, b, e)[j] = s[b + j - 1]
    BY <1>1, SubSeqProperties
  <2>2. QED
    BY <1>2, <2>1, Zenon
<1>4. /\ DOMAIN p = 1..k /\ DOMAIN w = 1..k /\ p \in [1..k -> KeyChars] /\ w \in [1..k -> NameChars]
  <2>1. DOMAIN p = 1..Len(p) /\ p \in [1..Len(p) -> KeyChars]
    BY LenProperties
  <2>2. DOMAIN w = 1..Len(w) /\ w \in [1..Len(w) -> NameChars]
    BY <1>1, LenProperties, Zenon
  <2>3. Len(w) = k
    BY <1>1, <1>2, Zenon
  <2>4. QED
    BY <1>3, <2>1, <2>2, <2>3, Zenon
<1>5. \A j \in 1..k : w[j] = Lower(p[j])
  BY <1>1, <1>2, <1>3, Zenon
<1>6. IsName(p)
  <2>1. \A c \in ListChars : ~IsSeparator(c) => is_valid_header_field_char(c)
    BY DEF ListChars, IsSeparator, is_valid_header_field_char
  <2>2. \A j \in b..e : s[j] \in ListChars
    OBVIOUS
  <2>3. QED
    BY <1>1, <1>2, <1>3, <1>4, <2>1, <2>2, Zenon DEF IsName
<1>7. Respells(w, p)
  <2>1. w \in [1..k -> {w[j] : j \in 1..k}]
    BY <1>4, Zenon
  <2>2. QED
    BY <1>4, <1>5, <2>1, Zenon DEF Respells
<1>8. IsName(w) /\ CanonicalKey(w) = CanonicalKey(p)
  BY <1>6, <1>7, RespelledSame, Zenon
<1>9. 1..k \in SUBSET Nat /\ \A n \in 1..k : 1..n \subseteq 1..k
  OBVIOUS
<1>10. p = [n \in DOMAIN p |-> p[n]] /\ w = [n \in DOMAIN w |-> w[n]]
  BY <1>4, Zenon
<1>11. to_canonical_mime_header_key(p) = CanonicalKey(p)
  BY <1>4, <1>6, <1>9, <1>10, NameIsCanonical, Zenon
<1>12. to_canonical_mime_header_key(w) = CanonicalKey(w)
  BY <1>4, <1>8, <1>9, <1>10, NameIsCanonical, Zenon
<1>13. QED
  BY <1>3, <1>8, <1>11, <1>12, Zenon

\* A table of numbered elements has as many of them as the set.
LEMMA InOrderSize ==
  ASSUME NEW K, IsFiniteSet(K)
  PROVE  Len(InOrder(K)) = Cardinality(K) /\ DOMAIN InOrder(K) = 1..Cardinality(K)
<1>1. PICK k \in Nat : k = Cardinality(K)
  BY FS_CardinalityType, Zenon
<1>2. PICK f : f = InOrder(K)
  OBVIOUS
<1>3. DOMAIN f = 1..k /\ f \in [1..k -> {f[i] : i \in 1..k}]
  BY <1>1, <1>2, Zenon DEF InOrder
<1>4. Len(f) = k
  BY <1>3, TableIsSeq, Zenon
<1>5. QED
  BY <1>1, <1>2, <1>3, <1>4, Zenon

\* A name with a character behind it, or without.
LEMMA NameThenByte ==
  ASSUME NEW w \in Seq(NameChars), NEW k \in Nat, k = Len(w),
         NEW t \in {<<>>} \cup {<<c>> : c \in Leftover}
  PROVE  /\ Len(w \o t) \in k .. k + 1
         /\ SubSeq(w \o t, 1, k) = w
<1>1. PICK S : S = NameChars \cup Leftover
  OBVIOUS
<1>2. w \in Seq(S)
  BY <1>1
<1>3. t \in Seq(S) /\ Len(t) \in 0..1
  <2>1. CASE t = <<>>
    BY <2>1
  <2>2. CASE \E c \in Leftover : t = <<c>>
    BY <1>1, <2>2
  <2>3. QED
    BY <2>1, <2>2
<1>4. PICK x \in Seq(S) : x = w \o t
  BY <1>2, <1>3, ConcatProperties
<1>5. Len(x) = k + Len(t) /\ \A j \in 1..k : x[j] = w[j]
  BY <1>2, <1>3, <1>4, ConcatProperties
<1>6. PICK l \in 0..1 : l = Len(t)
  BY <1>3, Zenon
<1>7. Len(x) \in k .. k + 1 /\ k <= Len(x)
  <2>1. Len(x) = k + l
    BY <1>5, <1>6, Zenon
  <2>2. k + l \in k .. k + 1 /\ k <= k + l
    OBVIOUS
  <2>3. QED
    BY <2>1, <2>2, Zenon
<1>8. PICK y \in Seq(S) : /\ y = SubSeq(x, 1, k) /\ Len(y) = k
                          /\ \A j \in 1..k : y[j] = x[j]
  <2>1. PICK m \in Nat : m = Len(x) /\ k <= m
    BY <1>7
  <2>2. /\ SubSeq(x, 1, k) \in Seq(S) /\ Len(SubSeq(x, 1, k)) = k
        /\ \A j \in 1..k : SubSeq(x, 1, k)[j] = x[j]
    BY <2>1, SubSeqProperties
  <2>3. QED
    BY <2>2, Zenon
<1>9. DOMAIN y = 1..k /\ DOMAIN w = 1..k /\ y \in [1..k -> S] /\ w \in [1..k -> S]
  BY <1>2, <1>8, LenProperties
<1>10. \A j \in 1..k : y[j] = w[j]
  BY <1>5, <1>8, Zenon
<1>11. y = w
  BY <1>9, <1>10
<1>12. QED
  BY <1>4, <1>7, <1>8, <1>11, Zenon

\* What is read of the n-th name, between b and e.
ReadName(a, s, b, e) ==
  /\ Len(a) \in Len(SubSeq(s, b, e)) .. Len(SubSeq(s, b, e)) + 1
  /\ to_canonical_mime_header_key(SubSeq(a, 1, Len(SubSeq(s, b, e)))) =
       to_canonical_mime_header_key(SubSeq(s, b, e))

LEMMA NameIsRead ==
  ASSUME NEW s \in Seq(KeyChars), s \in Seq(ListChars),
         NEW b \in 1..Len(s), NEW e \in 1..Len(s), NEW w, Spells(w, s, b, e),
         NEW t \in {<<>>} \cup {<<c>> : c \in Leftover}
  PROVE  ReadName(w \o t, s, b, e)
<1>1. b <= e /\ w \in Seq(NameChars) /\ Len(w) = e - b + 1
  BY Zenon DEF Spells
<1>2. PICK k \in Nat : k = e - b + 1
  BY <1>1
<1>3. Len(SubSeq(s, b, e)) = k
  <2>1. Len(SubSeq(s, b, e)) = e - b + 1
    BY <1>1, SubSeqProperties
  <2>2. QED
    BY <1>2, <2>1, Zenon
<1>4. Len(w \o t) \in k .. k + 1 /\ SubSeq(w \o t, 1, k) = w
  BY <1>1, <1>2, NameThenByte, Zenon
<1>5. to_canonical_mime_header_key(w) = to_canonical_mime_header_key(SubSeq(s, b, e))
  BY SpelledSame, Zenon
<1>6. QED
  BY <1>3, <1>4, <1>5, Zenon DEF ReadName

\* The list a client sends is taken apart into its names: as many as there are,
\* each with the key of the name that stands there, and with one character more
\* at most, whatever memory holds (derive_headers and
\* to_canonical_mime_header_key, on lists of any length).
THEOREM ListsAskForNames == KeySpec => []ListMatchesNames
<1>1. KeyInit => keyText \in Seq(KeyChars)
  BY DEF KeyInit
<1>2. keyText \in Seq(KeyChars) /\ [KeyNext]_keyText => (keyText \in Seq(KeyChars))'
  BY DEF KeyNext
<1>3. keyText \in Seq(KeyChars) => ListMatchesNames
  <2>1. SUFFICES ASSUME keyText \in Seq(KeyChars), ToSet(keyText) \cap {"!", "("} = {}
                 PROVE  LET starts == InOrder(NameStarts(keyText))
                            ends   == InOrder(NameEnds(keyText))
                        IN  \A asked \in derive_headers(keyText) :
                              /\ Len(asked) = Len(starts)
                              /\ \A n \in DOMAIN starts :
                                   ReadName(asked[n], keyText, starts[n], ends[n])
    BY Zenon DEF ListMatchesNames, ReadName
  <2>2. PICK s \in Seq(KeyChars) : s = keyText
    BY <2>1, Zenon
  <2>3. s \in Seq(ListChars)
    <3>1. \A i \in 1..Len(s) : s[i] \in KeyChars /\ s[i] \in ToSet(s)
      <4>1. DOMAIN s = 1..Len(s)
        BY LenProperties
      <4>2. \A i \in 1..Len(s) : s[i] \in KeyChars
        OBVIOUS
      <4>3. QED
        BY <4>1, <4>2, Zenon DEF ToSet
    <3>2. \A c \in KeyChars : c \notin {"!", "("} => c \in ListChars
      BY KeyCharsAssumption DEF ListChars
    <3>3. \A i \in 1..Len(s) : s[i] \in ListChars
      BY <2>1, <2>2, <3>1, <3>2, Zenon
    <3>4. QED
      BY <3>3, SeqRetyped, Zenon
  <2>4. PICK L \in Nat : L = Len(s)
    OBVIOUS
  <2>5. PICK B, E : B = NameStarts(s) /\ E = NameEnds(s) /\ StartsAndEnds(s, L, B, E)
    BY <2>3, <2>4, NamesStartAndEnd, Zenon
  <2>6. PICK f : TakesAll(f, s, L) /\ NamesUpTo(s, L) = f[L].names
    BY <2>3, <2>4, ListIsTaken, Zenon
  <2>7. NamesClosed(f[L], s, B, E, L)
    BY <2>3, <2>4, <2>5, <2>6, PassEnds, Zenon
  <2>8. PICK q : q = f[L] /\ NamesClosed(q, s, B, E, L) /\ NamesUpTo(s, Len(s)) = q.names
    BY <2>4, <2>6, <2>7, Zenon
  <2>9. PICK names : /\ names = NamesUpTo(s, Len(s)) /\ Len(names) = Cardinality(B)
                     /\ \A n \in 1..Cardinality(B) : NameAt(names, s, B, E, n)
    <3>1. /\ Len(q.names) = Cardinality(B)
          /\ \A n \in 1..Cardinality(B) : NameAt(q.names, s, B, E, n)
      BY <2>5, <2>8, NamesInPlace, Zenon
    <3>2. QED
      BY <2>8, <3>1, Zenon
  <2>10. IsFiniteSet(B) /\ B \subseteq 1..L /\ E \subseteq 1..L
    BY <2>5, Zenon DEF StartsAndEnds
  <2>11. PICK starts, ends : starts = InOrder(B) /\ ends = InOrder(E)
    OBVIOUS
  <2>12. Len(starts) = Cardinality(B) /\ DOMAIN starts = 1..Cardinality(B)
    BY <2>10, <2>11, InOrderSize, Zenon
  <2>13. ASSUME NEW asked \in derive_headers(s)
         PROVE  /\ Len(asked) = Len(starts)
                /\ \A n \in DOMAIN starts : ReadName(asked[n], s, starts[n], ends[n])
    <3>1. PICK behind \in [DOMAIN names -> {<<>>} \cup {<<c>> : c \in Leftover}] :
            asked = [n \in DOMAIN names |-> names[n] \o behind[n]]
      BY <2>9, <2>13, Zenon DEF derive_headers, Unterminated
    <3>2. PICK k \in Nat : k = Cardinality(B) /\ DOMAIN names = 1..k
      <4>1. Cardinality(B) \in Nat
        BY <2>10, FS_CardinalityType, Zenon
      <4>2. names \in Seq(Seq(NameChars))
        <5>1. L \in 0..Len(s)
          BY <2>4
        <5>2. f[L] \in ListStates
          BY <2>6, <5>1, Zenon DEF TakesAll
        <5>3. f[L].names \in Seq(Seq(NameChars))
          BY <5>2 DEF ListStates
        <5>4. QED
          BY <2>8, <2>9, <5>3, Zenon
      <4>3. DOMAIN names = 1..Len(names)
        BY <4>2, LenProperties, Zenon
      <4>4. QED
        BY <2>9, <4>1, <4>3, Zenon
    <3>3. Len(asked) = k
      <4>1. asked \in [1..k -> {asked[i] : i \in 1..k}]
        BY <3>1, <3>2, Zenon
      <4>2. QED
        BY <4>1, TableIsSeq, Zenon
    <3>4. ASSUME NEW n \in DOMAIN starts PROVE ReadName(asked[n], s, starts[n], ends[n])
      <4>1. PICK b \in B, e \in E : starts[n] = b /\ ends[n] = e /\ Spells(names[n], s, b, e)
        BY <2>9, <2>11, <2>12, Zenon DEF NameAt
      <4>2. b \in 1..Len(s) /\ e \in 1..Len(s)
        BY <2>4, <2>10, Zenon
      <4>3. PICK w : w = names[n] /\ \E t \in {<<>>} \cup {<<c>> : c \in Leftover} : asked[n] = w \o t
        <5>1. n \in DOMAIN names
          BY <2>12, <3>2, Zenon
        <5>2. behind[n] \in {<<>>} \cup {<<c>> : c \in Leftover}
          BY <3>1, <5>1, Zenon
        <5>3. asked[n] = names[n] \o behind[n]
          BY <3>1, <5>1, Zenon
        <5>4. QED
          BY <5>2, <5>3, Zenon
      <4>4. PICK t \in {<<>>} \cup {<<c>> : c \in Leftover} : asked[n] = w \o t
        BY <4>3, Zenon
      <4>5. ReadName(w \o t, s, b, e)
        BY <2>3, <4>1, <4>2, <4>3, NameIsRead, Zenon
      <4>6. QED
        BY <4>1, <4>4, <4>5, Zenon
    <3>5. QED
      BY <2>12, <3>2, <3>3, <3>4, Zenon
  <2>14. QED
    BY <2>2, <2>5, <2>11, <2>13, Zenon
<1>4. QED
  BY <1>1, <1>2, <1>3, PTL DEF KeySpec

-----------------------------------------------------------------------------
(* Texts of cookies. *)

\* Texts that agree between a and b have the same part there.
LEMMA SameSubSeq ==
  ASSUME NEW S, NEW s \in Seq(S), NEW t \in Seq(S), NEW a \in Int, NEW b \in Int,
         a >= 1, b <= Len(s), b <= Len(t), \A j \in a..b : s[j] = t[j]
  PROVE  SubSeq(s, a, b) = SubSeq(t, a, b)
<1>1. PICK n \in Nat : n = IF a <= b THEN b - a + 1 ELSE 0
  <2>1. (IF a <= b THEN b - a + 1 ELSE 0) \in Nat
    OBVIOUS
  <2>2. QED
    BY <2>1, Zenon
<1>2. PICK p \in Seq(S) : p = SubSeq(s, a, b) /\ Len(p) = n /\ \A j \in 1..n : p[j] = s[a + j - 1]
  <2>1. /\ SubSeq(s, a, b) \in Seq(S) /\ Len(SubSeq(s, a, b)) = n
        /\ \A j \in 1..n : SubSeq(s, a, b)[j] = s[a + j - 1]
    BY <1>1, SubSeqProperties
  <2>2. QED
    BY <2>1, Zenon
<1>3. PICK q \in Seq(S) : q = SubSeq(t, a, b) /\ Len(q) = n /\ \A j \in 1..n : q[j] = t[a + j - 1]
  <2>1. /\ SubSeq(t, a, b) \in Seq(S) /\ Len(SubSeq(t, a, b)) = n
        /\ \A j \in 1..n : SubSeq(t, a, b)[j] = t[a + j - 1]
    BY <1>1, SubSeqProperties
  <2>2. QED
    BY <2>1, Zenon
<1>4. \A j \in 1..n : a + j - 1 \in a..b
  BY <1>1
<1>5. p = q
  <2>1. Len(p) = Len(q) /\ \A j \in 1..Len(p) : p[j] = q[j]
    BY <1>2, <1>3, <1>4, Zenon
  <2>2. QED
    BY <2>1, SeqEqual, Zenon
<1>6. QED
  BY <1>2, <1>3, <1>5, Zenon

\* The text t is w, then c, then u.
JoinedAt(w, c, u, t) ==
  /\ Len(t) = Len(w) + 1 + Len(u) /\ t[Len(w) + 1] = c
  /\ \A j \in 1..Len(w) : t[j] = w[j]
  /\ \A j \in 1..Len(u) : t[Len(w) + 1 + j] = u[j]

\* The text t has the fields of w and the field u.
FieldAdded(w, c, u, t) ==
  /\ Len(Fields(t, c)) = Len(Fields(w, c)) + 1
  /\ \A n \in 1..Len(Fields(w, c)) : Fields(t, c)[n] = Fields(w, c)[n]
  /\ Fields(t, c)[Len(Fields(w, c)) + 1] = u

\* Behind a text, a c and a text without a c add a field.
LEMMA FieldsJoined ==
  ASSUME NEW S, NEW w \in Seq(S), NEW u \in Seq(S), NEW t \in Seq(S), NEW c,
         JoinedAt(w, c, u, t), ~Contains(u, c)
  PROVE  FieldAdded(w, c, u, t)
<1>1. PICK p \in Nat, q \in Nat, L \in Nat :
        p = Len(w) /\ q = Len(u) /\ L = Len(t) /\ L = p + 1 + q
  <2>1. Len(w) \in Nat /\ Len(u) \in Nat /\ Len(t) \in Nat
    OBVIOUS
  <2>2. QED
    BY <2>1, Zenon DEF JoinedAt
<1>2. t[p + 1] = c /\ (\A j \in 1..p : t[j] = w[j]) /\ \A j \in 1..q : t[p + 1 + j] = u[j]
  BY <1>1, Zenon DEF JoinedAt
<1>3. PICK J, K : J = Ends(w, c) /\ K = Ends(t, c)
  OBVIOUS
<1>15. \A x, y, n : x \in J /\ y \in J /\ n = Rank(J, x) + 1 /\ Rank(J, y) = n =>
          Fields(w, c)[n] = SubSeq(w, x + 1, y - 1)
  <2> SUFFICES ASSUME NEW x, NEW y, NEW n, x \in J, y \in J, n = Rank(J, x) + 1, Rank(J, y) = n
               PROVE  Fields(w, c)[n] = SubSeq(w, x + 1, y - 1)
    OBVIOUS
  <2>1. J = Ends(w, c)
    BY <1>3, Zenon
  <2>2. QED
    BY <2>1, FieldBetween
<1>16. \A x, y, n : x \in K /\ y \in K /\ n = Rank(K, x) + 1 /\ Rank(K, y) = n =>
          Fields(t, c)[n] = SubSeq(t, x + 1, y - 1)
  <2> SUFFICES ASSUME NEW x, NEW y, NEW n, x \in K, y \in K, n = Rank(K, x) + 1, Rank(K, y) = n
               PROVE  Fields(t, c)[n] = SubSeq(t, x + 1, y - 1)
    OBVIOUS
  <2>1. K = Ends(t, c)
    BY <1>3, Zenon
  <2>2. QED
    BY <2>1, FieldBetween
<1>4. /\ J \subseteq 0 .. p + 1 /\ J \subseteq Int /\ IsFiniteSet(J) /\ Cardinality(J) \in Nat
      /\ \A j \in 1..p : j \in J <=> w[j] = c
      /\ 0 \in J /\ p + 1 \in J
  BY <1>1, <1>3, EndsAre, Zenon
<1>5. /\ K \subseteq 0 .. L + 1 /\ K \subseteq Int /\ IsFiniteSet(K) /\ Cardinality(K) \in Nat
      /\ \A j \in 1..L : j \in K <=> t[j] = c
      /\ 0 \in K /\ L + 1 \in K
  BY <1>1, <1>3, EndsAre, Zenon
<1>6. L + 1 \notin J /\ L + 1 \in Int /\ p + 1 < L + 1
  BY <1>1, <1>4
<1>7. K = J \cup {L + 1}
  <2>1. ASSUME NEW j \in J PROVE j \in K
    <3>1. j = 0 \/ j = p + 1 \/ j \in 1..p
      BY <1>4
    <3>2. p + 1 \in 1..L /\ \A i \in 1..p : i \in 1..L
      BY <1>1
    <3>3. QED
      BY <1>2, <1>4, <1>5, <3>1, <3>2, Zenon
  <2>2. ASSUME NEW j \in K, j # L + 1 PROVE j \in J
    <3>1. j = 0 \/ j = p + 1 \/ j \in 1..p \/ (j \in 1..L /\ j - (p + 1) \in 1..q /\ p + 1 + (j - (p + 1)) = j)
      BY <1>1, <1>5, <2>2, SMTT(60)
    <3>2. \A i \in 1..q : u[i] # c
      BY <1>1, Zenon DEF Contains
    <3>3. \A i \in 1..p : i \in 1..L
      BY <1>1
    <3>4. QED
      BY <1>2, <1>4, <1>5, <2>2, <3>1, <3>2, <3>3, ZenonT(60)
  <2>3. \A j : j \in K <=> j \in J \cup {L + 1}
    BY <1>5, <2>1, <2>2, Zenon
  <2>4. QED
    BY <2>3, Zenon
<1>8. \A x \in J : Rank(K, x) = Rank(J, x) /\ x < L + 1
  <2> SUFFICES ASSUME NEW x \in J PROVE Rank(K, x) = Rank(J, x) /\ x < L + 1
    OBVIOUS
  <2>1. x < L + 1 /\ ~ (L + 1 < x)
    BY <1>1, <1>4
  <2>2. \A y : y \in {z \in K : z < x} <=> y \in {z \in J : z < x}
    BY <1>7, <2>1, Zenon
  <2>3. {z \in K : z < x} = {z \in J : z < x}
    BY <2>2, Zenon
  <2>4. QED
    BY <2>1, <2>3, Zenon DEF Rank
<1>9. PICK k \in Nat : k = Cardinality(J) /\ Cardinality(K) = k + 1
  BY <1>4, <1>6, <1>7, FS_AddElement, Zenon
<1>10. PICK m \in Nat \ {0} : m = Len(Fields(w, c)) /\ m = k - 1 /\ Len(Fields(t, c)) = k
  <2>1. Len(Fields(w, c)) = Cardinality(J) - 1 /\ Cardinality(J) - 1 \in Nat \ {0}
    BY <1>3, FieldIs, Zenon
  <2>2. Len(Fields(t, c)) = Cardinality(K) - 1
    BY <1>3, FieldIs, Zenon
  <2>3. (k + 1) - 1 = k
    OBVIOUS
  <2>4. QED
    BY <1>9, <2>1, <2>2, <2>3, Zenon
<1>11. k = m + 1
  BY <1>10
<1>12. ASSUME NEW n \in 1..m
       PROVE  Fields(t, c)[n] = Fields(w, c)[n]
  <2>1. PICK i \in Nat : i + 1 = n /\ i < k /\ n < k /\ n \in Nat
    <3>1. n - 1 \in Nat /\ (n - 1) + 1 = n /\ n - 1 < k /\ n < k /\ n \in Nat
      BY <1>11
    <3>2. QED
      BY <3>1, Zenon
  <2>2. p + 1 \in Nat
    OBVIOUS
  <2>3. PICK x \in J : Rank(J, x) = i
    BY <1>4, <1>9, <2>1, <2>2, RankReached, Zenon
  <2>4. PICK y \in J : Rank(J, y) = n
    BY <1>4, <1>9, <2>1, <2>2, RankReached, Zenon
  <2>5. x \in K /\ y \in K /\ Rank(K, x) = i /\ Rank(K, y) = n
    BY <1>7, <1>8, <2>3, <2>4, Zenon
  <2>6. Fields(w, c)[n] = SubSeq(w, x + 1, y - 1)
    <3>1. n = Rank(J, x) + 1 /\ Rank(J, y) = n
      BY <2>1, <2>3, <2>4, Zenon
    <3>2. QED
      BY <1>15, <2>3, <2>4, <3>1, Zenon
  <2>7. Fields(t, c)[n] = SubSeq(t, x + 1, y - 1)
    <3>1. n = Rank(K, x) + 1 /\ Rank(K, y) = n
      BY <2>1, <2>5, Zenon
    <3>2. QED
      BY <1>16, <2>5, <3>1, Zenon
  <2>8. x + 1 \in Int /\ y - 1 \in Int /\ x + 1 >= 1 /\ y - 1 <= p
    BY <1>4
  <2>9. SubSeq(w, x + 1, y - 1) = SubSeq(t, x + 1, y - 1)
    <3>1. \A j \in x + 1 .. y - 1 : w[j] = t[j]
      BY <1>2, <2>8
    <3>2. y - 1 <= Len(w) /\ y - 1 <= Len(t)
      BY <1>1, <2>8
    <3>3. QED
      BY <2>8, <3>1, <3>2, SameSubSeq, Zenon
  <2>10. QED
    BY <2>6, <2>7, <2>9, Zenon
<1>13. Fields(t, c)[m + 1] = u
  <2>1. Rank(K, p + 1) = m
    <3>1. Rank(J, p + 1) + 1 = k /\ Rank(J, p + 1) \in Nat
      <4>1. (\A y \in J : y < p + 2) /\ p + 2 \in Int /\ p + 1 \in Int /\ (p + 1) + 1 = p + 2
        BY <1>4
      <4>2. Rank(J, p + 2) = k
        BY <1>4, <1>9, <4>1, RankIs, Zenon
      <4>3. Rank(J, (p + 1) + 1) = Rank(J, p + 1) + 1 /\ Rank(J, p + 1) \in Nat
        BY <1>4, <4>1, RankIs, Zenon
      <4>4. QED
        BY <4>1, <4>2, <4>3, Zenon
    <3>2. Rank(J, p + 1) = m
      BY <1>11, <3>1
    <3>3. QED
      BY <1>4, <1>8, <3>2, Zenon
  <2>2. Rank(K, L + 1) = m + 1
    <3>1. (\A y \in J : y < L + 1) /\ ~ (L + 1 < L + 1)
      BY <1>6, <1>8
    <3>2. \A y : y \in {z \in K : z < L + 1} <=> y \in J
      BY <1>7, <3>1, Zenon
    <3>3. {z \in K : z < L + 1} = J
      BY <3>2, Zenon
    <3>4. QED
      BY <1>9, <1>11, <3>3, Zenon DEF Rank
  <2>3. p + 1 \in K /\ L + 1 \in K
    BY <1>4, <1>7, Zenon
  <2>4. Fields(t, c)[m + 1] = SubSeq(t, (p + 1) + 1, (L + 1) - 1)
    <3>1. m + 1 = Rank(K, p + 1) + 1 /\ Rank(K, L + 1) = m + 1
      BY <2>1, <2>2, Zenon
    <3>2. QED
      BY <1>16, <2>3, <3>1, Zenon
  <2>5. SubSeq(t, (p + 1) + 1, (L + 1) - 1) = u
    <3>1. (p + 1) + 1 = p + 2 /\ (L + 1) - 1 = L /\ p + 2 \in Int /\ L \in Int
          /\ p + 2 >= 1 /\ L <= L /\ L - (p + 2) + 1 = q /\ p + 2 <= L + 1
      BY <1>1
    <3>2. PICK v \in Seq(S) : v = SubSeq(t, p + 2, L) /\ Len(v) = q
                             /\ \A j \in 1..q : v[j] = t[p + 2 + j - 1]
      <4>0. p + 2 >= 1 /\ p + 2 \in Int /\ L <= Len(t) /\ L \in Int
        BY <1>1
      <4>1. /\ SubSeq(t, p + 2, L) \in Seq(S)
            /\ Len(SubSeq(t, p + 2, L)) = IF p + 2 <= L THEN L - (p + 2) + 1 ELSE 0
            /\ \A j \in 1 .. L - (p + 2) + 1 : SubSeq(t, p + 2, L)[j] = t[p + 2 + j - 1]
        BY <4>0, SubSeqProperties
      <4>2. q = IF p + 2 <= L THEN L - (p + 2) + 1 ELSE 0
        BY <1>1
      <4>3. QED
        BY <3>1, <4>1, <4>2, Zenon
    <3>3. \A j \in 1..q : v[j] = u[j]
      <4>1. \A j \in 1..q : p + 2 + j - 1 = p + 1 + j
        OBVIOUS
      <4>2. QED
        BY <1>2, <3>2, <4>1, Zenon
    <3>4. v = u
      BY <1>1, <3>2, <3>3, SeqEqual, Zenon
    <3>5. QED
      BY <3>1, <3>2, <3>4, Zenon
  <2>6. QED
    BY <2>4, <2>5, Zenon
<1>14. QED
  BY <1>10, <1>11, <1>12, <1>13, Zenon DEF FieldAdded

\* The text u reads w: behind g spaces, in front of its end or of a "=".
Reads(u, g, w) ==
  /\ g + Len(w) <= Len(u)
  /\ \A j \in 1..g : u[j] = " "
  /\ \A j \in 1..Len(w) : u[g + j] = w[j] /\ w[j] # " " /\ w[j] # "="
  /\ Len(u) = g + Len(w) \/ u[g + Len(w) + 1] = "="

\* The first field of a text is there.
LEMMA FieldsHead ==
  ASSUME NEW S, NEW s \in Seq(S), NEW c
  PROVE  Head(Fields(s, c)) = Fields(s, c)[1]
<1>1. PICK n \in Nat \ {0} : DOMAIN Fields(s, c) = 1..n
  BY FieldIs, Zenon
<1>2. PICK f : f = Fields(s, c) /\ DOMAIN f = 1..n /\ f \in [1..n -> {f[i] : i \in 1..n}]
  <2>1. Fields(s, c) = [i \in DOMAIN Fields(s, c) |-> Fields(s, c)[i]]
    BY Zenon DEF Fields
  <2>2. PICK f : f = Fields(s, c) /\ DOMAIN f = 1..n /\ f = [i \in 1..n |-> f[i]]
    BY <1>1, <2>1, Zenon
  <2>3. QED
    BY <2>2, Zenon
<1>3. 1 \in 1..n
  OBVIOUS
<1>4. QED
  BY <1>2, <1>3, TableIsSeq, Zenon

\* Trimmed and cut at the "=", such a text gives the word.
LEMMA NameRead ==
  ASSUME NEW S, NEW u \in Seq(S), NEW w \in Seq(S), NEW g \in Nat, w # <<>>, Reads(u, g, w)
  PROVE  Head(Fields(s_trim(u), "=")) = w
<1>1. PICK k \in Nat, L \in Nat : k = Len(w) /\ L = Len(u) /\ DOMAIN u = 1..L
  BY LenProperties
<1>2. k # 0
  <2>1. \A t \in Seq(S) : Len(t) = 0 => t = <<>>
    BY EmptySeq
  <2>2. QED
    BY <1>1, <2>1, Zenon
<1>3. /\ g + k <= L /\ \A j \in 1..g : u[j] = " "
      /\ \A j \in 1..k : u[g + j] = w[j] /\ w[j] # " " /\ w[j] # "="
      /\ L = g + k \/ u[g + k + 1] = "="
  BY <1>1, Zenon DEF Reads
<1>17. g + k <= L
  BY <1>3, Zenon
<1> DEFINE K == {i \in 1..L : u[i] # " "}
<1>4. K \subseteq Nat /\ K \subseteq 0..L /\ g + 1 \in K /\ g + k \in K
  <2>1. g + 1 \in 1..L /\ g + k \in 1..L /\ 1 \in 1..k /\ k \in 1..k
    BY <1>2, <1>17
  <2>2. u[g + 1] # " " /\ u[g + k] # " "
    BY <1>3, <2>1, Zenon
  <2>3. 1..L \subseteq 0..L /\ 1..L \subseteq Nat
    OBVIOUS
  <2>4. QED
    BY <2>1, <2>2, <2>3, Zenon
<1>5. L # g + k => g + k + 1 \in K
  <2>1. L # g + k => g + k + 1 \in 1..L
    BY <1>17
  <2>2. "=" # " "
    OBVIOUS
  <2>3. QED
    BY <1>3, <2>1, <2>2, Zenon
<1>6. s_trim(u) = SubSeq(u, Min(K), Max(K))
  BY <1>1, <1>4, Zenon DEF s_trim
<1>7. \A j \in 1..g : j \notin K
  BY <1>3, Zenon
<1>8. \A i \in K : i \in 1..L
  BY Zenon
<1> HIDE DEF K
<1>9. Min(K) = g + 1
  <2>1. Min(K) \in K /\ Min(K) <= g + 1
    BY <1>4, MinOfNats, Zenon
  <2>2. PICK i \in Nat : i = Min(K) /\ i \in K /\ i <= g + 1 /\ i \in 1..L
    BY <1>4, <1>8, <2>1, Zenon
  <2>3. i \notin 1..g
    BY <1>7, <2>2, Zenon
  <2>4. i = g + 1
    BY <2>2, <2>3
  <2>5. QED
    BY <2>2, <2>4, Zenon
<1>10. PICK M \in Nat : M = Max(K) /\ M <= L /\ g + k <= M /\ (L # g + k => g + k + 1 <= M)
  <2>1. Max(K) \in K /\ \A x \in K : x <= Max(K)
    BY <1>4, MaxBounded, Zenon
  <2>2. PICK M \in Nat : M = Max(K) /\ M \in 1..L
    BY <1>4, <1>8, <2>1, Zenon
  <2>3. M <= L
    BY <2>2
  <2>4. QED
    BY <1>4, <1>5, <2>1, <2>2, <2>3, Zenon
<1>11. PICK l \in Nat : l = M - g /\ l >= k /\ g + l = M /\ (l # k => l >= k + 1 /\ L # g + k)
  <2>1. M - g \in Nat /\ M - g >= k /\ g + (M - g) = M
        /\ (M - g # k => M - g >= k + 1 /\ L # g + k)
    BY <1>10
  <2>2. QED
    BY <2>1, Zenon
<1>12. PICK v \in Seq(S) : v = s_trim(u) /\ Len(v) = l /\ \A j \in 1..l : v[j] = u[g + j]
  <2>1. g + 1 \in Int /\ M \in Int /\ \A i \in g + 1 .. M : u[i] \in S
    BY <1>1, <1>10
  <2>2. /\ SubSeq(u, g + 1, M) \in Seq(S)
        /\ Len(SubSeq(u, g + 1, M)) = IF g + 1 <= M THEN M - (g + 1) + 1 ELSE 0
        /\ \A j \in 1 .. M - (g + 1) + 1 : SubSeq(u, g + 1, M)[j] = u[(g + 1) + j - 1]
    BY <2>1, SubSeqProperties
  <2>3. (IF g + 1 <= M THEN M - (g + 1) + 1 ELSE 0) = l /\ M - (g + 1) + 1 = l
        /\ \A j \in 1..l : (g + 1) + j - 1 = g + j
    BY <1>2, <1>11
  <2>5. SubSeq(u, g + 1, M) = s_trim(u)
    BY <1>6, <1>9, <1>10, Zenon
  <2>4. /\ SubSeq(u, g + 1, M) \in Seq(S) /\ Len(SubSeq(u, g + 1, M)) = l
        /\ \A j \in 1..l : SubSeq(u, g + 1, M)[j] = u[g + j]
    BY <2>2, <2>3, Zenon
  <2>6. QED
    BY <2>4, <2>5, Zenon
<1>13. \A j \in 1..k : v[j] = w[j] /\ v[j] # "="
  <2>1. \A j \in 1..k : j \in 1..l
    BY <1>11
  <2>2. QED
    BY <1>3, <1>12, <2>1, Zenon
<1>14. CASE l = k
  <2>1. Len(v) = Len(w) /\ \A j \in 1..Len(v) : v[j] = w[j]
    BY <1>1, <1>12, <1>13, <1>14, Zenon
  <2>2. v = w
    BY <2>1, SeqEqual, Zenon
  <2>3. ~Contains(v, "=")
    BY <1>12, <1>13, <1>14, Zenon DEF Contains
  <2>4. Fields(v, "=")[1] = v
    BY <2>3, FieldsOne, Zenon
  <2>5. Head(Fields(v, "=")) = Fields(v, "=")[1]
    BY FieldsHead, Zenon
  <2>6. QED
    BY <1>12, <2>2, <2>4, <2>5, Zenon
<1>15. CASE l # k
  <2>1. PICK n \in Nat : n = k + 1 /\ n \in 1..l /\ g + n = g + k + 1 /\ n - 1 = k
    <3>1. k + 1 \in Nat /\ k + 1 \in 1..l /\ g + (k + 1) = g + k + 1 /\ (k + 1) - 1 = k
      BY <1>11, <1>15
    <3>2. QED
      BY <3>1, Zenon
  <2>2. v[n] = "="
    BY <1>3, <1>11, <1>12, <1>15, <2>1, Zenon
  <2>3. Contains(v, "=")
    BY <1>12, <2>1, <2>2, Zenon DEF Contains
  <2>4. PICK i \in Nat : i = s_indexof(v, "=") /\ i \in 1..l /\ v[i] = "=" /\ \A j \in 1 .. i - 1 : v[j] # "="
    <3>1. /\ s_indexof(v, "=") \in 1..Len(v) /\ v[s_indexof(v, "=")] = "="
          /\ \A j \in 1 .. s_indexof(v, "=") - 1 : v[j] # "="
      BY <2>3, IndexIs, Zenon
    <3>2. \A j \in 1..l : j \in Nat
      OBVIOUS
    <3>3. QED
      BY <1>12, <3>1, <3>2, Zenon
  <2>5. i \notin 1..k /\ n \notin 1 .. i - 1
    BY <1>13, <2>2, <2>4, Zenon
  <2>6. i = n
    BY <2>1, <2>4, <2>5
  <2>7. Head(Fields(v, "=")) = SubSeq(v, 1, k)
    <3>1. Head(Fields(v, "=")) = SubSeq(v, 1, s_indexof(v, "=") - 1)
      BY <2>3, FirstField, Zenon
    <3>2. QED
      BY <2>1, <2>4, <2>6, <3>1, Zenon
  <2>8. PICK p \in Seq(S) : p = SubSeq(v, 1, k) /\ Len(p) = k /\ \A j \in 1..k : p[j] = v[j]
    <3>1. 1 \in Int /\ k \in Int /\ \A j \in 1..k : v[j] \in S
      BY <1>11, <1>12
    <3>2. /\ SubSeq(v, 1, k) \in Seq(S)
          /\ Len(SubSeq(v, 1, k)) = IF 1 <= k THEN k - 1 + 1 ELSE 0
          /\ \A j \in 1 .. k - 1 + 1 : SubSeq(v, 1, k)[j] = v[1 + j - 1]
      BY <3>1, SubSeqProperties
    <3>3. (IF 1 <= k THEN k - 1 + 1 ELSE 0) = k /\ k - 1 + 1 = k /\ \A j \in 1..k : 1 + j - 1 = j
      BY <1>2
    <3>4. QED
      BY <3>2, <3>3, Zenon
  <2>9. p = w
    <3>1. Len(p) = Len(w) /\ \A j \in 1..Len(p) : p[j] = w[j]
      BY <1>1, <1>13, <2>8, Zenon
    <3>2. QED
      BY <3>1, SeqEqual, Zenon
  <2>10. QED
    BY <1>12, <2>7, <2>8, <2>9, Zenon
<1>16. QED
  BY <1>14, <1>15, Zenon

\* The name of the k-th attribute of a text, that of the cookie for the first.
NameIn(t, k) == Head(Fields(s_trim(Fields(t, ";")[k]), "="))

\* The text t of characters of S has the name and the attributes A, each once.
Shows(t, S, name, A) ==
  /\ t \in Seq(S) /\ IsFiniteSet(A)
  /\ Len(Fields(t, ";")) = Cardinality(A) + 1
  /\ NameIn(t, 1) = name
  /\ {NameIn(t, k) : k \in 2..Len(Fields(t, ";"))} = {<<a>> : a \in A}

\* The text x sets the attribute a and no other.
IsAttr(x, a) ==
  /\ a # " " /\ a # "="
  /\ Len(x) >= 3 /\ x[1] = ";" /\ x[2] = " " /\ x[3] = a
  /\ Len(x) = 3 \/ x[4] = "="
  /\ \A j \in 2..Len(x) : x[j] # ";"

\* Such a text adds its attribute.
LEMMA AttributeAdded ==
  ASSUME NEW S, NEW t, NEW name, NEW A, Shows(t, S, name, A),
         NEW a \in S, a \notin A, NEW x \in Seq(S), IsAttr(x, a)
  PROVE  Shows(t \o x, S, name, A \cup {a})
<1>1. t \in Seq(S) /\ IsFiniteSet(A) /\ Len(Fields(t, ";")) = Cardinality(A) + 1
  BY Zenon DEF Shows
<1>2. PICK p \in Nat, q \in Nat : p = Len(t) /\ q + 1 = Len(x) /\ q >= 2
  <2>1. Len(x) >= 3 /\ Len(x) \in Nat
    BY Zenon, LenProperties DEF IsAttr
  <2>2. Len(x) - 1 \in Nat /\ Len(x) - 1 + 1 = Len(x) /\ Len(x) - 1 >= 2
    BY <2>1
  <2>3. Len(t) \in Nat
    BY <1>1, LenProperties, Zenon
  <2>4. QED
    BY <2>2, <2>3, Zenon
<1>3. PICK r \in Seq(S) : /\ r = t \o x /\ Len(r) = p + (q + 1)
                          /\ \A j \in 1..p : r[j] = t[j]
                          /\ \A j \in 1 .. q + 1 : r[p + j] = x[j]
  <2>1. /\ t \o x \in Seq(S) /\ Len(t \o x) = Len(t) + Len(x)
        /\ \A i \in 1 .. Len(t) + Len(x) :
             (t \o x)[i] = IF i <= Len(t) THEN t[i] ELSE x[i - Len(t)]
    BY <1>1, ConcatProperties
  <2>2. /\ \A i \in 1..p : i \in 1 .. p + (q + 1) /\ i <= p
        /\ \A j \in 1 .. q + 1 : p + j \in 1 .. p + (q + 1) /\ ~ (p + j <= p) /\ (p + j) - p = j
    OBVIOUS
  <2>3. /\ t \o x \in Seq(S) /\ Len(t \o x) = p + (q + 1)
        /\ \A i \in 1 .. p + (q + 1) : (t \o x)[i] = IF i <= p THEN t[i] ELSE x[i - p]
    BY <1>2, <2>1, Zenon
  <2>4. /\ \A i \in 1..p : (t \o x)[i] = t[i]
        /\ \A j \in 1 .. q + 1 : (t \o x)[p + j] = x[j]
    BY <2>2, <2>3, Zenon
  <2>5. QED
    BY <2>3, <2>4, Zenon
<1>4. PICK u \in Seq(S) : Len(u) = q /\ \A j \in 1..q : u[j] = x[1 + j]
  <2>1. x # <<>>
    BY <1>2
  <2>2. Tail(x) \in Seq(S) /\ Len(Tail(x)) = Len(x) - 1 /\ \A i \in 1 .. Len(x) - 1 : Tail(x)[i] = x[i + 1]
    BY <2>1, HeadTailProperties
  <2>3. Len(x) - 1 = q /\ \A i \in 1..q : i + 1 = 1 + i
    BY <1>2
  <2>4. QED
    BY <2>2, <2>3, ZenonT(60)
<1>5. /\ a # " " /\ a # "=" /\ x[1] = ";" /\ x[2] = " " /\ x[3] = a /\ (q + 1 = 3 \/ x[4] = "=")
      /\ \A j \in 2 .. q + 1 : x[j] # ";"
  BY <1>2, Zenon DEF IsAttr
<1>6. JoinedAt(t, ";", u, r)
  <2>1. p + (q + 1) = p + 1 + q /\ 1 \in 1 .. q + 1
        /\ \A j \in 1..q : p + 1 + j = p + (1 + j) /\ 1 + j \in 1 .. q + 1
    OBVIOUS
  <2>2. Len(r) = p + 1 + q /\ r[p + 1] = ";"
    <3>1. r[p + 1] = x[1]
      BY <1>3, <2>1, Zenon
    <3>2. Len(r) = p + 1 + q
      BY <1>3, <2>1, Zenon
    <3>3. QED
      BY <1>5, <3>1, <3>2, Zenon
  <2>3. \A j \in 1..q : r[p + 1 + j] = u[j]
    <3> SUFFICES ASSUME NEW j \in 1..q PROVE r[p + 1 + j] = u[j]
      OBVIOUS
    <3>1. r[p + (1 + j)] = x[1 + j] /\ p + 1 + j = p + (1 + j)
      BY <1>3, <2>1, Zenon
    <3>2. QED
      BY <1>4, <3>1, Zenon
  <2>4. p = Len(t) /\ q = Len(u) /\ \A j \in 1..p : r[j] = t[j]
    BY <1>2, <1>3, <1>4, Zenon
  <2>5. QED
    BY <2>2, <2>3, <2>4, Zenon DEF JoinedAt
<1>7. ~Contains(u, ";")
  <2>1. \A j \in 1..q : 1 + j \in 2 .. q + 1
    OBVIOUS
  <2>2. QED
    BY <1>4, <1>5, <2>1, Zenon DEF Contains
<1>8. PICK n \in Nat \ {0} : n = Len(Fields(t, ";")) /\ n = Cardinality(A) + 1
  <2>1. Cardinality(A) \in Nat
    BY <1>1, FS_CardinalityType, Zenon
  <2>2. Cardinality(A) + 1 \in Nat \ {0}
    BY <2>1
  <2>3. QED
    BY <1>1, <2>2, Zenon
<1>9. /\ Len(Fields(r, ";")) = n + 1
      /\ \A k \in 1..n : Fields(r, ";")[k] = Fields(t, ";")[k]
      /\ Fields(r, ";")[n + 1] = u
  <2>1. FieldAdded(t, ";", u, r)
    BY <1>1, <1>6, <1>7, FieldsJoined, Zenon
  <2>2. QED
    BY <1>8, <2>1, Zenon DEF FieldAdded
<1>10. \A k \in 1..n : NameIn(r, k) = NameIn(t, k)
  BY <1>9, Zenon DEF NameIn
<1>11. NameIn(r, n + 1) = <<a>>
  <2>1. PICK w \in Seq(S) : w = <<a>> /\ Len(w) = 1 /\ w[1] = a /\ w # <<>>
    <3>1. <<a>> \in Seq(S) /\ Len(<<a>>) = 1 /\ <<a>>[1] = a /\ <<a>> # <<>>
      OBVIOUS
    <3>2. QED
      BY <3>1, Zenon
  <2>2. Reads(u, 1, w)
    <3>1. /\ 1 + 1 <= q /\ (\A j \in 1..1 : j = 1) /\ 1 \in 1..q /\ 2 \in 1..q /\ 1 + 1 = 2
          /\ 1 + 2 = 3 /\ (q + 1 = 3 => q = 1 + 1)
          /\ (q # 1 + 1 => 1 + 1 + 1 \in 1..q) /\ 1 + (1 + 1 + 1) = 4
      BY <1>2
    <3>2. u[1] = " " /\ u[1 + 1] = a
      BY <1>4, <1>5, <3>1, Zenon
    <3>3. q = 1 + 1 \/ u[1 + 1 + 1] = "="
      BY <1>4, <1>5, <3>1, Zenon
    <3>4. /\ \A j \in 1..1 : u[j] = " "
          /\ \A j \in 1..1 : u[1 + j] = w[j] /\ w[j] # " " /\ w[j] # "="
      BY <1>5, <2>1, <3>1, <3>2, Zenon
    <3>5. QED
      BY <1>4, <2>1, <3>1, <3>3, <3>4, Zenon DEF Reads
  <2>3. 1 \in Nat
    OBVIOUS
  <2>4. Head(Fields(s_trim(u), "=")) = w
    BY <2>1, <2>2, <2>3, NameRead, Zenon
  <2>5. QED
    BY <1>9, <2>1, <2>4, Zenon DEF NameIn
<1>12. NameIn(r, 1) = name
  <2>1. 1 \in 1..n
    OBVIOUS
  <2>2. QED
    BY <1>10, <2>1, Zenon DEF Shows
<1>13. {NameIn(r, k) : k \in 2..Len(Fields(r, ";"))} = {<<b>> : b \in A \cup {a}}
  <2>1. {NameIn(t, k) : k \in 2..n} = {<<b>> : b \in A}
    BY <1>8, Zenon DEF Shows
  <2>2. /\ \A k \in 2 .. n + 1 : (k \in 2..n /\ k \in 1..n) \/ k = n + 1
        /\ \A k \in 2..n : k \in 2 .. n + 1 /\ k \in 1..n
        /\ n + 1 \in 2 .. n + 1
    OBVIOUS
  <2>3. ASSUME NEW k \in 2 .. n + 1 PROVE NameIn(r, k) \in {<<b>> : b \in A \cup {a}}
    BY <1>10, <1>11, <2>1, <2>2, Zenon
  <2>4. ASSUME NEW b \in A \cup {a} PROVE \E k \in 2 .. n + 1 : NameIn(r, k) = <<b>>
    <3>1. CASE b = a
      BY <1>11, <2>2, <3>1, Zenon
    <3>2. CASE b \in A
      <4>1. PICK k \in 2..n : NameIn(t, k) = <<b>>
        BY <2>1, <3>2, Zenon
      <4>2. QED
        BY <1>10, <2>2, <4>1, Zenon
    <3>3. QED
      BY <3>1, <3>2, Zenon
  <2>5. \A y : y \in {NameIn(r, k) : k \in 2 .. n + 1} <=> y \in {<<b>> : b \in A \cup {a}}
    BY <2>3, <2>4, Zenon
  <2>6. {NameIn(r, k) : k \in 2 .. n + 1} = {<<b>> : b \in A \cup {a}}
    BY <2>5, Zenon
  <2>7. QED
    BY <1>9, <2>6, Zenon
<1>14. IsFiniteSet(A \cup {a}) /\ Cardinality(A \cup {a}) = n
  <2>1. IsFiniteSet(A \cup {a}) /\ Cardinality(A \cup {a}) = Cardinality(A) + 1
    BY <1>1, FS_AddElement, Zenon
  <2>2. QED
    BY <1>8, <2>1, Zenon
<1>15. QED
  BY <1>3, <1>9, <1>12, <1>13, <1>14, Zenon DEF Shows

\* The attributes, and the characters of the texts that are sent.
AttrNames == {"Path", "Domain", "Expires", "Max-Age", "HttpOnly", "Secure", "SameSite"}

TextChars ==
  CookieChars \cup AttrNames \cup {";", " ", "=", "\"", "date", "1", "0"}
    \cup {"default", "None", "Lax", "Strict"}

\* A text without a semicolon.
IsPlain(v) == v \in Seq(TextChars) /\ ~Contains(v, ";")

\* Short texts, character by character.
FourCase(t, S, x, y, z, u) ==
  t \in Seq(S) /\ Len(t) = 4 /\ t[1] = x /\ t[2] = y /\ t[3] = z /\ t[4] = u

ThreeCase(t, S, x, y, z) ==
  t \in Seq(S) /\ Len(t) = 3 /\ t[1] = x /\ t[2] = y /\ t[3] = z

LEMMA FourIn ==
  ASSUME NEW S, NEW x \in S, NEW y \in S, NEW z \in S, NEW u \in S
  PROVE  FourCase(<<x, y, z, u>>, S, x, y, z, u)
BY DEF FourCase

LEMMA ThreeIn ==
  ASSUME NEW S, NEW x \in S, NEW y \in S, NEW z \in S
  PROVE  ThreeCase(<<x, y, z>>, S, x, y, z)
BY DEF ThreeCase

LEMMA AttrIs ==
  ASSUME NEW a \in AttrNames, NEW v, v = NULL \/ IsPlain(v)
  PROVE  Attr(a, v) \in Seq(TextChars) /\ IsAttr(Attr(a, v), a)
<1>1. PICK w \in Seq(TextChars) : w = (IF v = NULL THEN <<>> ELSE v) /\ ~Contains(w, ";")
  <2>1. <<>> \in Seq(TextChars) /\ ~Contains(<<>>, ";")
    BY DEF Contains
  <2>2. QED
    BY <2>1, Zenon DEF IsPlain
<1>2. PICK k \in Nat : k = Len(w)
  OBVIOUS
<1>3. PICK h \in Seq(TextChars) : /\ h = <<";", " ", a, "=">> /\ Len(h) = 4
                                  /\ h[1] = ";" /\ h[2] = " " /\ h[3] = a /\ h[4] = "="
  <2>1. ";" \in TextChars /\ " " \in TextChars /\ a \in TextChars /\ "=" \in TextChars
    BY DEF TextChars
  <2>2. PICK x \in TextChars, y \in TextChars, z \in TextChars :
          x = ";" /\ y = " " /\ z = "="
    BY <2>1, Zenon
  <2>3. FourCase(<<x, y, a, z>>, TextChars, x, y, a, z)
    BY <2>1, FourIn, Zenon
  <2>4. <<x, y, a, z>> = <<";", " ", a, "=">>
    BY <2>2, Zenon
  <2>5. QED
    BY <2>2, <2>3, <2>4, Zenon DEF FourCase
<1>4. PICK x \in Seq(TextChars) : /\ x = Attr(a, v) /\ Len(x) = 4 + k
                                  /\ \A j \in 1..4 : x[j] = h[j]
                                  /\ \A j \in 5 .. 4 + k : x[j] = w[j - 4]
  <2>1. /\ h \o w \in Seq(TextChars) /\ Len(h \o w) = Len(h) + Len(w)
        /\ \A i \in 1 .. Len(h) + Len(w) :
             (h \o w)[i] = IF i <= Len(h) THEN h[i] ELSE w[i - Len(h)]
    BY ConcatProperties
  <2>2. /\ h \o w \in Seq(TextChars) /\ Len(h \o w) = 4 + k
        /\ \A i \in 1 .. 4 + k : (h \o w)[i] = IF i <= 4 THEN h[i] ELSE w[i - 4]
    BY <1>2, <1>3, <2>1, Zenon
  <2>3. /\ \A i \in 1..4 : i \in 1 .. 4 + k /\ i <= 4
        /\ \A i \in 5 .. 4 + k : i \in 1 .. 4 + k /\ ~ (i <= 4)
    OBVIOUS
  <2>4. Attr(a, v) = h \o w
    BY <1>1, <1>3, Zenon DEF Attr
  <2>5. QED
    BY <2>2, <2>3, <2>4, Zenon
<1>5. /\ 1 \in 1..4 /\ 2 \in 1..4 /\ 3 \in 1..4 /\ 4 \in 1..4 /\ 4 + k >= 3
      /\ \A j \in 2 .. 4 + k : j = 2 \/ j = 3 \/ j = 4 \/ (j \in 5 .. 4 + k /\ j - 4 \in 1..k)
  OBVIOUS
<1>6. a # " " /\ a # "=" /\ a # ";" /\ " " # ";" /\ "=" # ";"
  BY DEF AttrNames
<1>7. \A j \in 1..k : w[j] # ";"
  BY <1>1, <1>2, Zenon DEF Contains
<1>8. \A j \in 2 .. 4 + k : x[j] # ";"
  BY <1>3, <1>4, <1>5, <1>6, <1>7, Zenon
<1>9. IsAttr(x, a)
  BY <1>3, <1>4, <1>5, <1>6, <1>8, Zenon DEF IsAttr
<1>10. QED
  BY <1>4, <1>9, Zenon

LEMMA FlagIs ==
  ASSUME NEW a \in AttrNames
  PROVE  Flag(a) \in Seq(TextChars) /\ IsAttr(Flag(a), a)
<1>1. ";" \in TextChars /\ " " \in TextChars /\ a \in TextChars
  BY DEF TextChars
<1>3. PICK h \in Seq(TextChars) : /\ h = Flag(a) /\ Len(h) = 3
                                  /\ h[1] = ";" /\ h[2] = " " /\ h[3] = a
  <2>1. PICK x \in TextChars, y \in TextChars : x = ";" /\ y = " "
    BY <1>1, Zenon
  <2>2. ThreeCase(<<x, y, a>>, TextChars, x, y, a)
    BY <1>1, ThreeIn, Zenon
  <2>3. <<x, y, a>> = <<";", " ", a>>
    BY <2>1, Zenon
  <2>4. QED
    BY <2>1, <2>2, <2>3, Zenon DEF ThreeCase, Flag
<1>4. 3 >= 3 /\ \A j \in 2..3 : j = 2 \/ j = 3
  OBVIOUS
<1>5. a # " " /\ a # "=" /\ a # ";" /\ " " # ";"
  BY DEF AttrNames
<1>6. \A j \in 2..3 : h[j] # ";"
  BY <1>3, <1>4, <1>5, Zenon
<1>7. IsAttr(h, a)
  BY <1>3, <1>4, <1>5, <1>6, Zenon DEF IsAttr
<1>8. QED
  BY <1>3, <1>7, Zenon

\* A sequence is as long as its domain.
LEMMA LenIs ==
  ASSUME NEW S, NEW q \in Seq(S), NEW k \in Nat, DOMAIN q = 1..k
  PROVE  Len(q) = k
<1>1. PICK n \in Nat : n = Len(q) /\ 1..n = 1..k
  <2>1. Len(q) \in Nat /\ DOMAIN q = 1..Len(q)
    BY LenProperties
  <2>2. QED
    BY <2>1, Zenon
<1>2. n = k
  BY <1>1
<1>3. QED
  BY <1>1, <1>2, Zenon

\* The characters of the text w are characters of v at the positions P.
ComesFrom(w, v, P, S) ==
  w \in Seq(S) /\ \A j \in 1..Len(w) : \E i \in P : w[j] = v[i]

\* What sanitize keeps are characters of the text at the positions P.
LEMMA Sanitized ==
  ASSUME NEW S, NEW v \in Seq(S), NEW P, P \subseteq DOMAIN v, sanitize(v, P) # NULL
  PROVE  ComesFrom(sanitize(v, P), v, P, S)
<1>1. PICK L \in Nat : L = Len(v) /\ DOMAIN v = 1..L
  BY LenProperties
<1>2. CASE P = DOMAIN v
  <2>1. sanitize(v, P) = v
    BY <1>2, Zenon DEF sanitize
  <2>2. QED
    BY <1>1, <1>2, <2>1, Zenon DEF ComesFrom
<1>3. CASE P # DOMAIN v
  <2>1. IsFiniteSet(P) /\ P \subseteq Int /\ P \subseteq 0..L
    <3>1. IsFiniteSet(1..L) /\ 1..L \subseteq Int /\ 1..L \subseteq 0..L
      BY FS_Interval
    <3>2. QED
      BY <1>1, <3>1, FS_Subset, Zenon
  <2>2. PICK k \in Nat : k = Cardinality(P)
    BY <2>1, FS_CardinalityType, Zenon
  <2>3. PICK at : at = InOrder(P) /\ DOMAIN at = 1..k
    BY <2>1, <2>2, InOrderSize, Zenon
  <2>4. \A n \in 1..k : at[n] \in P
    <3> SUFFICES ASSUME NEW n \in 1..k PROVE at[n] \in P
      OBVIOUS
    <3>1. PICK m \in Nat : m + 1 = n /\ m < k
      <4>1. n - 1 \in Nat /\ (n - 1) + 1 = n /\ n - 1 < k
        OBVIOUS
      <4>2. QED
        BY <4>1, Zenon
    <3>2. PICK x \in P : Rank(P, x) = m
      BY <2>1, <2>2, <3>1, RankReached, Zenon
    <3>3. at[n] = x
      BY <2>1, <2>3, <3>1, <3>2, InOrderIs, Zenon
    <3>4. QED
      BY <3>3, Zenon
  <2>5. PICK q : q = [n \in 1..k |-> v[at[n]]]
    OBVIOUS
  <2>6. \A i \in 1..L : v[i] \in S
    BY <1>1
  <2>7. q \in [1..k -> S]
    BY <1>1, <2>4, <2>5, <2>6, Zenon
  <2>8. q \in Seq(S) /\ Len(q) = k
    <3>1. q \in Seq(S)
      BY <2>7, FunctionIsSeq
    <3>2. DOMAIN q = 1..k
      BY <2>7, Zenon
    <3>3. Len(q) = k
      BY <3>1, <3>2, LenIs, Zenon
    <3>4. QED
      BY <3>1, <3>3, Zenon
  <2>9. sanitize(v, P) = q
    <3>1. sanitize(v, P) = OrNull(q)
      BY <1>3, <2>3, <2>5, Zenon DEF sanitize
    <3>2. QED
      BY <3>1, Zenon DEF OrNull
  <2>10. \A j \in 1..k : q[j] = v[at[j]]
    BY <2>5, Zenon
  <2>11. QED
    BY <2>4, <2>8, <2>9, <2>10, Zenon DEF ComesFrom
<1>4. QED
  BY <1>2, <1>3, Zenon

\* Texts of a program are texts.
LEMMA PassedIsText ==
  ASSUME NEW v \in Seq(CookieChars)
  PROVE  v \in Seq(TextChars)
<1>1. CookieChars \subseteq TextChars
  BY Zenon DEF TextChars
<1>2. QED
  BY <1>1, SeqMonotonic, Zenon

\* The value of a cookie has no semicolon left.
LEMMA ValueIsPlain ==
  ASSUME NEW v \in Seq(CookieChars), sanitize_cookie_value(v) # CRASH
  PROVE  IsPlain(sanitize_cookie_value(v))
<1>1. PICK P : P = {n \in DOMAIN v : is_valid_cookie_value_char(v[n])}
  OBVIOUS
<1>2. sanitize(v, P) # NULL
  BY <1>1, Zenon DEF sanitize_cookie_value
<1>3. PICK w \in Seq(CookieChars) : /\ w = sanitize(v, P)
                                    /\ \A j \in 1..Len(w) : \E i \in P : w[j] = v[i]
  <2>1. P \subseteq DOMAIN v
    BY <1>1, Zenon
  <2>2. ComesFrom(sanitize(v, P), v, P, CookieChars)
    BY <1>2, <2>1, Sanitized, Zenon
  <2>3. QED
    BY <2>2, Zenon DEF ComesFrom
<1>4. \A i \in P : v[i] # ";"
  <2>1. \A x : is_valid_cookie_value_char(x) => x # ";"
    BY DEF is_valid_cookie_value_char
  <2>2. QED
    BY <1>1, <2>1, Zenon
<1>5. \A j \in 1..Len(w) : w[j] # ";"
  BY <1>3, <1>4, Zenon
<1>6. w \in Seq(TextChars)
  BY PassedIsText, Zenon
<1>7. PICK q \in Seq(TextChars) : q = <<"\"">> /\ Len(q) = 1 /\ q[1] = "\""
  <2>1. "\"" \in TextChars
    BY DEF TextChars
  <2>2. \A x \in TextChars : <<x>> \in Seq(TextChars) /\ Len(<<x>>) = 1 /\ <<x>>[1] = x
    OBVIOUS
  <2>3. QED
    BY <2>1, <2>2, Zenon
<1>8. PICK k \in Nat : k = Len(w)
  OBVIOUS
<1>9. PICK a \in Seq(TextChars) : a = q \o w /\ Len(a) = 1 + k /\ \A j \in 1 .. 1 + k : a[j] # ";"
  <2>1. /\ q \o w \in Seq(TextChars) /\ Len(q \o w) = Len(q) + Len(w)
        /\ \A i \in 1 .. Len(q) + Len(w) :
             (q \o w)[i] = IF i <= Len(q) THEN q[i] ELSE w[i - Len(q)]
    BY <1>6, ConcatProperties
  <2>2. /\ Len(q \o w) = 1 + k
        /\ \A i \in 1 .. 1 + k : (q \o w)[i] = IF i <= 1 THEN q[i] ELSE w[i - 1]
    BY <1>7, <1>8, <2>1, Zenon
  <2>3. \A i \in 1 .. 1 + k : (i <= 1 /\ i = 1) \/ (~ (i <= 1) /\ i - 1 \in 1..k)
    OBVIOUS
  <2>4. "\"" # ";"
    OBVIOUS
  <2>5. \A j \in 1 .. 1 + k : (q \o w)[j] # ";"
    BY <1>5, <1>7, <1>8, <2>2, <2>3, <2>4, Zenon
  <2>6. QED
    BY <2>1, <2>2, <2>5, Zenon
<1>10. PICK b \in Seq(TextChars) : b = a \o q /\ \A j \in 1..Len(b) : b[j] # ";"
  <2>1. /\ a \o q \in Seq(TextChars) /\ Len(a \o q) = Len(a) + Len(q)
        /\ \A i \in 1 .. Len(a) + Len(q) :
             (a \o q)[i] = IF i <= Len(a) THEN a[i] ELSE q[i - Len(a)]
    BY ConcatProperties
  <2>2. /\ Len(a \o q) = (1 + k) + 1
        /\ \A i \in 1 .. (1 + k) + 1 : (a \o q)[i] = IF i <= 1 + k THEN a[i] ELSE q[i - (1 + k)]
    BY <1>7, <1>9, <2>1, Zenon
  <2>3. \A i \in 1 .. (1 + k) + 1 : (i <= 1 + k /\ i \in 1 .. 1 + k)
                                   \/ (~ (i <= 1 + k) /\ i - (1 + k) = 1)
    OBVIOUS
  <2>4. "\"" # ";"
    OBVIOUS
  <2>5. \A j \in 1 .. (1 + k) + 1 : (a \o q)[j] # ";"
    BY <1>7, <1>9, <2>2, <2>3, <2>4, Zenon
  <2>6. QED
    BY <2>1, <2>2, <2>5, Zenon
<1>11. sanitize_cookie_value(v) \in {b, w}
  BY <1>1, <1>2, <1>3, <1>7, <1>9, <1>10, Zenon DEF sanitize_cookie_value
<1>12. QED
  BY <1>5, <1>6, <1>10, <1>11, Zenon DEF IsPlain, Contains

\* Neither has its path.
LEMMA PathIsPlain ==
  ASSUME NEW v \in Seq(CookieChars)
  PROVE  sanitize_cookie_path(v) = NULL \/ IsPlain(sanitize_cookie_path(v))
<1>1. PICK P : P = {n \in DOMAIN v : is_valid_cookie_path_char(v[n])}
  OBVIOUS
<1>2. sanitize_cookie_path(v) = sanitize(v, P)
  BY <1>1, Zenon DEF sanitize_cookie_path
<1>3. CASE sanitize(v, P) # NULL
  <2>1. PICK w \in Seq(CookieChars) : /\ w = sanitize(v, P)
                                      /\ \A j \in 1..Len(w) : \E i \in P : w[j] = v[i]
    <3>1. P \subseteq DOMAIN v
      BY <1>1, Zenon
    <3>2. ComesFrom(sanitize(v, P), v, P, CookieChars)
      BY <1>3, <3>1, Sanitized, Zenon
    <3>3. QED
      BY <3>2, Zenon DEF ComesFrom
  <2>2. \A i \in P : v[i] # ";"
    <3>1. \A x : is_valid_cookie_path_char(x) => x # ";"
      BY DEF is_valid_cookie_path_char
    <3>2. QED
      BY <1>1, <3>1, Zenon
  <2>3. \A j \in 1..Len(w) : w[j] # ";"
    BY <2>1, <2>2, Zenon
  <2>4. w \in Seq(TextChars)
    BY PassedIsText, Zenon
  <2>5. QED
    BY <1>2, <2>1, <2>3, <2>4, Zenon DEF IsPlain, Contains
<1>4. QED
  BY <1>2, <1>3, Zenon

\* The characters of a domain without its leading dot are characters of it.
LEMMA DomainChars ==
  ASSUME NEW S, NEW d \in Seq(S), d # <<>>
  PROVE  \A j \in 1..Len(WithoutDot(d)) : \E i \in 1..Len(d) : WithoutDot(d)[j] = d[i]
<1>1. PICK L \in Nat : L = Len(d) /\ L # 0
  OBVIOUS
<1>2. CASE Head(d) = "."
  <2>1. WithoutDot(d) = Tail(d)
    BY <1>2, Zenon DEF WithoutDot
  <2>2. Len(Tail(d)) = Len(d) - 1 /\ \A i \in 1 .. Len(d) - 1 : Tail(d)[i] = d[i + 1]
    BY HeadTailProperties
  <2>3. \A j \in 1 .. L - 1 : j + 1 \in 1..L
    OBVIOUS
  <2>4. QED
    BY <1>1, <2>1, <2>2, <2>3, Zenon
<1>3. CASE Head(d) # "."
  BY <1>3, Zenon DEF WithoutDot
<1>4. QED
  BY <1>2, <1>3, Zenon

LEMMA NoSemicolon == ";" \notin LabelChars /\ ";" # "." /\ ";" \notin DecDigits
<1>1. \A n \in 1..10 : \A c \in Digit[n] :
        c \in {"0", "1", "2", "3", "4", "5", "6", "7", "8", "9"}
  BY DEF Digit
<1>2. ";" \notin Letters /\ ";" # "-" /\ ";" # "."
  BY Zenon DEF Letters
<1>3. ";" \notin {"0", "1", "2", "3", "4", "5", "6", "7", "8", "9"}
  BY Zenon
<1>4. QED
  BY <1>1, <1>2, <1>3, Zenon DEF LabelChars, Digits, DecDigits

\* No domain that is kept has a semicolon.
LEMMA DomainIsPlain ==
  ASSUME NEW d \in Seq(CookieChars), d # <<>>, is_valid_cookie_domain(d)
  PROVE  IsPlain(WithoutDot(d))
<1>1. PICK t \in Seq(CookieChars) : t = WithoutDot(d)
  BY BehindDot, Zenon
<1>2. CASE is_valid_cookie_domain_name(d)
  <2>1. PICK f : RunsOver(f, AtLabel(FALSE), t, CookieChars) /\ DomainScan(t) = f[Len(t)]
    BY ScanRuns, Zenon
  <2>2. ~f[Len(t)].refused
    BY <1>1, <1>2, <2>1, Zenon DEF is_valid_cookie_domain_name
  <2>5. \A j \in 1..Len(t) : t[j] \in CookieChars
    OBVIOUS
  <2>3. ASSUME NEW j \in 1..Len(t), t[j] = ";" PROVE FALSE
    <3>1. PICK L \in Nat : L = Len(t) /\ j \in 1..L
      OBVIOUS
    <3>2. j \in 0..L /\ j - 1 \in 0..L
      BY <3>1
    <3>3. t[j] \in CookieChars
      BY <2>5, Zenon
    <3>4. f[j] = DomainChar(f[j - 1], t[j]) /\ f[j - 1] \in DomainStates(CookieChars)
      BY <2>1, <3>1, <3>2, Zenon DEF RunsOver
    <3>5. CharStep(CookieChars, f[j - 1], t[j], f[j])
      BY <3>3, <3>4, CharIs, Zenon
    <3>6. f[j].refused
      BY <2>3, <3>5, NoSemicolon, Zenon DEF CharStep
    <3>7. QED
      BY <2>1, <2>2, <3>1, <3>2, <3>6, RefusedStays, Zenon
  <2>4. QED
    BY <1>1, <2>3, PassedIsText, Zenon DEF IsPlain, Contains
<1>3. CASE parse_ipv4(d)
  <2>1. IsIpv4(d)
    BY <1>3, ParsesIpv4, PassedAssumption, Zenon
  <2>2. Octets(IPV4_LEN, d)
    BY <2>1, Ipv4HasDots, Zenon
  <2>3. IPV4_LEN \in Nat
    BY Ipv4Assumption
  <2>4. \A j \in 1..Len(d) : d[j] \in DecDigits \cup {"."}
    BY <2>2, <2>3, OctetsAreDigits, Zenon
  <2>5. \A j \in 1..Len(d) : d[j] # ";"
    BY <2>4, NoSemicolon, Zenon
  <2>6. QED
    BY <1>1, <2>5, DomainChars, PassedIsText, Zenon DEF IsPlain, Contains
<1>4. QED
  BY <1>2, <1>3, Zenon DEF is_valid_cookie_domain

\* A text of one character.
LEMMA OneIn ==
  ASSUME NEW S, NEW x \in S
  PROVE  <<x>> \in Seq(S) /\ \A j \in 1..Len(<<x>>) : <<x>>[j] = x
OBVIOUS

LEMMA OneIsPlain ==
  ASSUME NEW x \in TextChars \ {";"}
  PROVE  IsPlain(<<x>>)
BY OneIn, Zenon DEF IsPlain, Contains

\* The cookies of a program.
CookieSet ==
  [name : Names, value : CookieValues, path : Paths \cup {NULL}, domain : Domains \cup {NULL},
   expires : {-1, 0, 1}, maxAge : {-1, 0, 1}, httpOnly : BOOLEAN, secure : BOOLEAN,
   sameSite : {"default", "None", "Lax", "Strict"}]

\* The text x sets the attribute a if it is one of B, and else nothing.
Sets(x, a, B) ==
  x \in Seq(TextChars) /\ (a \in B => IsAttr(x, a)) /\ (a \notin B => x = <<>>)

LEMMA PartAdded ==
  ASSUME NEW t, NEW name, NEW B, NEW K, Shows(t, TextChars, name, B \cap K),
         NEW a \in AttrNames, a \notin K, NEW x, Sets(x, a, B)
  PROVE  Shows(t \o x, TextChars, name, B \cap (K \cup {a}))
<1>1. a \in TextChars
  BY Zenon DEF TextChars
<1>2. CASE a \in B
  <2>1. B \cap (K \cup {a}) = (B \cap K) \cup {a} /\ a \notin B \cap K
    BY <1>2
  <2>2. x \in Seq(TextChars) /\ IsAttr(x, a)
    BY <1>2, Zenon DEF Sets
  <2>3. Shows(t \o x, TextChars, name, (B \cap K) \cup {a})
    BY <1>1, <2>1, <2>2, AttributeAdded, Zenon
  <2>4. QED
    BY <2>1, <2>3, Zenon
<1>3. CASE a \notin B
  <2>1. B \cap (K \cup {a}) = B \cap K
    BY <1>3
  <2>2. t \in Seq(TextChars) /\ x = <<>>
    BY <1>3, Zenon DEF Sets, Shows
  <2>3. t \o <<>> = t
    BY <2>2, ConcatEmptySeq, Zenon
  <2>4. QED
    BY <2>1, <2>2, <2>3, Zenon
<1>4. QED
  BY <1>2, <1>3, Zenon

\* Which attributes a cookie has.
LEMMA AttributesAre ==
  ASSUME NEW c
  PROVE  /\ AttributeNames(c) \subseteq AttrNames
         /\ "Path" \in AttributeNames(c) <=> ~s_nullish(c.path)
         /\ "Domain" \in AttributeNames(c) <=>
              ~s_nullish(c.domain) /\ (IsDomainName(c.domain) \/ IsIpv4(c.domain))
         /\ "Expires" \in AttributeNames(c) <=> c.expires > 0
         /\ "Max-Age" \in AttributeNames(c) <=> c.maxAge # 0
         /\ "HttpOnly" \in AttributeNames(c) <=> c.httpOnly
         /\ "Secure" \in AttributeNames(c) <=> c.secure
         /\ "SameSite" \in AttributeNames(c) <=> c.sameSite # "default"
BY Zenon DEF AttributeNames, AttrNames

\* What a program sets is a text or NULL.
LEMMA PassedAre ==
  ASSUME NEW c \in CookieSet
  PROVE  /\ c.name \in Seq(CookieChars) /\ c.value \in Seq(CookieChars)
         /\ ~s_nullish(c.path) => c.path \in Seq(CookieChars)
         /\ ~s_nullish(c.domain) => c.domain \in Seq(CookieChars) /\ c.domain # <<>>
<1>1. /\ c.name \in Names /\ c.value \in CookieValues
      /\ c.path \in Paths \cup {NULL} /\ c.domain \in Domains \cup {NULL}
  BY DEF CookieSet
<1>2. \A v : ~s_nullish(v) => v # NULL /\ v # <<>>
  BY Zenon DEF s_nullish
<1>3. \A v \in PassedTexts : v \in Seq(CookieChars)
  BY PassedAssumption, Zenon
<1>4. QED
  BY <1>1, <1>2, <1>3, Zenon DEF PassedTexts

LEMMA WhenSets ==
  ASSUME NEW a \in AttrNames, NEW B, NEW x, NEW cond, cond \in BOOLEAN, a \in B <=> cond,
         cond => x \in Seq(TextChars) /\ IsAttr(x, a)
  PROVE  Sets(When(cond, x), a, B)
<1>1. <<>> \in Seq(TextChars)
  OBVIOUS
<1>2. CASE cond
  BY <1>2, Zenon DEF When, Sets
<1>3. CASE ~cond
  BY <1>1, <1>3, Zenon DEF When, Sets
<1>4. QED
  BY <1>2, <1>3, Zenon

LEMMA NamesIn == \A a \in AttrNames : a \in TextChars
BY Zenon DEF TextChars

LEMMA PathSet ==
  ASSUME NEW c \in CookieSet
  PROVE  Sets(When(~s_nullish(c.path), Attr("Path", sanitize_cookie_path(c.path))),
              "Path", AttributeNames(c))
<1>1. "Path" \in AttrNames
  BY Zenon DEF AttrNames
<1>2. ASSUME ~s_nullish(c.path)
      PROVE  LET x == Attr("Path", sanitize_cookie_path(c.path))
             IN  x \in Seq(TextChars) /\ IsAttr(x, "Path")
  <2>1. c.path \in Seq(CookieChars)
    BY <1>2, PassedAre, Zenon
  <2>2. sanitize_cookie_path(c.path) = NULL \/ IsPlain(sanitize_cookie_path(c.path))
    BY <2>1, PathIsPlain, Zenon
  <2>3. QED
    BY <1>1, <2>2, AttrIs, Zenon
<1>3. (~s_nullish(c.path)) \in BOOLEAN
  BY Zenon
<1>4. QED
  BY <1>1, <1>2, <1>3, AttributesAre, WhenSets, Zenon

LEMMA DomainSet ==
  ASSUME NEW c \in CookieSet
  PROVE  Sets(IF s_nullish(c.domain) THEN <<>>
              ELSE When(is_valid_cookie_domain(c.domain), Attr("Domain", WithoutDot(c.domain))),
              "Domain", AttributeNames(c))
<1>1. "Domain" \in AttrNames
  BY Zenon DEF AttrNames
<1>2. CASE s_nullish(c.domain)
  <2>1. <<>> \in Seq(TextChars)
    OBVIOUS
  <2>2. "Domain" \notin AttributeNames(c)
    BY <1>2, AttributesAre, Zenon
  <2>3. QED
    BY <1>2, <2>1, <2>2, Zenon DEF Sets
<1>3. CASE ~s_nullish(c.domain)
  <2>1. c.domain \in Seq(CookieChars) /\ c.domain # <<>>
    BY <1>3, PassedAre, Zenon
  <2>2. is_valid_cookie_domain(c.domain) <=> IsDomainName(c.domain) \/ IsIpv4(c.domain)
    BY <2>1, DomainIs, PassedAssumption, Zenon
  <2>3. "Domain" \in AttributeNames(c) <=> is_valid_cookie_domain(c.domain)
    BY <1>3, <2>2, AttributesAre, Zenon
  <2>4. ASSUME is_valid_cookie_domain(c.domain)
        PROVE  LET x == Attr("Domain", WithoutDot(c.domain))
               IN  x \in Seq(TextChars) /\ IsAttr(x, "Domain")
    <3>1. IsPlain(WithoutDot(c.domain))
      BY <2>1, <2>4, DomainIsPlain, Zenon
    <3>2. QED
      BY <1>1, <3>1, AttrIs, Zenon
  <2>5. Sets(When(is_valid_cookie_domain(c.domain), Attr("Domain", WithoutDot(c.domain))),
             "Domain", AttributeNames(c))
    <3>1. is_valid_cookie_domain(c.domain) \in BOOLEAN
      BY Zenon DEF is_valid_cookie_domain
    <3>2. QED
      BY <1>1, <2>3, <2>4, <3>1, WhenSets, Zenon
  <2>6. QED
    BY <1>3, <2>5, Zenon
<1>4. QED
  BY <1>2, <1>3, Zenon

LEMMA ExpiresSet ==
  ASSUME NEW c \in CookieSet
  PROVE  Sets(When(is_valid_cookie_expiry(c.expires), Attr("Expires", <<"date">>)),
              "Expires", AttributeNames(c))
<1>1. "Expires" \in AttrNames
  BY Zenon DEF AttrNames
<1>2. "date" \in TextChars \ {";"}
  BY Zenon DEF TextChars
<1>3. Attr("Expires", <<"date">>) \in Seq(TextChars) /\ IsAttr(Attr("Expires", <<"date">>), "Expires")
  BY <1>1, <1>2, AttrIs, OneIsPlain, Zenon
<1>4. (c.expires > 0) \in BOOLEAN
  <2>1. c.expires \in {-1, 0, 1}
    BY DEF CookieSet
  <2>2. \A n \in {-1, 0, 1} : (n > 0) \in BOOLEAN
    OBVIOUS
  <2>3. QED
    BY <2>1, <2>2, Zenon
<1>5. QED
  BY <1>1, <1>3, <1>4, AttributesAre, WhenSets, Zenon DEF is_valid_cookie_expiry

LEMMA AgeSet ==
  ASSUME NEW c \in CookieSet
  PROVE  Sets(When(c.maxAge # 0, Attr("Max-Age", IF c.maxAge > 0 THEN <<"1">> ELSE <<"0">>)),
              "Max-Age", AttributeNames(c))
<1>1. "Max-Age" \in AttrNames
  BY Zenon DEF AttrNames
<1>2. "1" \in TextChars \ {";"} /\ "0" \in TextChars \ {";"}
  BY Zenon DEF TextChars
<1>3. PICK v : v = (IF c.maxAge > 0 THEN <<"1">> ELSE <<"0">>)
  OBVIOUS
<1>4. IsPlain(v)
  BY <1>2, <1>3, OneIsPlain, Zenon
<1>5. Attr("Max-Age", v) \in Seq(TextChars) /\ IsAttr(Attr("Max-Age", v), "Max-Age")
  BY <1>1, <1>4, AttrIs, Zenon
<1>6. (c.maxAge # 0) \in BOOLEAN
  BY Zenon
<1>7. QED
  BY <1>1, <1>3, <1>5, <1>6, AttributesAre, WhenSets, Zenon

LEMMA FlagsSet ==
  ASSUME NEW c \in CookieSet
  PROVE  /\ Sets(When(c.httpOnly, Flag("HttpOnly")), "HttpOnly", AttributeNames(c))
         /\ Sets(When(c.secure, Flag("Secure")), "Secure", AttributeNames(c))
<1>1. "HttpOnly" \in AttrNames /\ "Secure" \in AttrNames
  BY Zenon DEF AttrNames
<1>2. c.httpOnly \in BOOLEAN /\ c.secure \in BOOLEAN
  BY DEF CookieSet
<1>3. QED
  BY <1>1, <1>2, AttributesAre, FlagIs, WhenSets, Zenon

LEMMA SameSiteSet ==
  ASSUME NEW c \in CookieSet
  PROVE  Sets(When(c.sameSite # "default", Attr("SameSite", <<c.sameSite>>)),
              "SameSite", AttributeNames(c))
<1>1. "SameSite" \in AttrNames
  BY Zenon DEF AttrNames
<1>2. c.sameSite \in {"default", "None", "Lax", "Strict"}
  BY DEF CookieSet
<1>3. c.sameSite \in TextChars \ {";"}
  BY <1>2, Zenon DEF TextChars
<1>4. Attr("SameSite", <<c.sameSite>>) \in Seq(TextChars)
      /\ IsAttr(Attr("SameSite", <<c.sameSite>>), "SameSite")
  BY <1>1, <1>3, AttrIs, OneIsPlain, Zenon
<1>5. (c.sameSite # "default") \in BOOLEAN
  BY Zenon
<1>6. QED
  BY <1>1, <1>4, <1>5, AttributesAre, WhenSets, Zenon

\* The name and the value alone.
LEMMA PairShows ==
  ASSUME NEW name \in Seq(CookieChars), is_valid_cookie_name(name), NEW v, IsPlain(v)
  PROVE  Shows(name \o <<"=">> \o v, TextChars, name, {})
<1>1. PICK k \in Nat, m \in Nat : k = Len(name) /\ m = Len(v) /\ DOMAIN name = 1..k
  <2>1. v \in Seq(TextChars)
    BY Zenon DEF IsPlain
  <2>2. Len(name) \in Nat /\ Len(v) \in Nat /\ DOMAIN name = 1..Len(name)
    BY <2>1, LenProperties
  <2>3. QED
    BY <2>2, Zenon
<1>2. name # <<>> /\ \A j \in 1..k : name[j] \notin NotToken
  BY <1>1, Zenon DEF is_valid_cookie_name, s_nullish
<1>3. \A x : x \notin NotToken => x # " " /\ x # "=" /\ x # ";"
  BY Zenon DEF NotToken
<1>4. v \in Seq(TextChars) /\ name \in Seq(TextChars) /\ \A j \in 1..m : v[j] # ";"
  BY <1>1, PassedIsText, Zenon DEF IsPlain, Contains
<1>5. PICK e \in Seq(TextChars) : e = <<"=">> /\ Len(e) = 1 /\ e[1] = "="
  <2>1. "=" \in TextChars
    BY Zenon DEF TextChars
  <2>2. \A x \in TextChars : <<x>> \in Seq(TextChars) /\ Len(<<x>>) = 1 /\ <<x>>[1] = x
    OBVIOUS
  <2>3. QED
    BY <2>1, <2>2, Zenon
<1>6. PICK b \in Seq(TextChars) : /\ b = name \o e /\ Len(b) = k + 1
                                  /\ \A j \in 1..k : b[j] = name[j]
                                  /\ b[k + 1] = "="
  <2>1. /\ name \o e \in Seq(TextChars) /\ Len(name \o e) = Len(name) + Len(e)
        /\ \A i \in 1 .. Len(name) + Len(e) :
             (name \o e)[i] = IF i <= Len(name) THEN name[i] ELSE e[i - Len(name)]
    BY <1>4, ConcatProperties
  <2>2. /\ Len(name \o e) = k + 1
        /\ \A i \in 1 .. k + 1 : (name \o e)[i] = IF i <= k THEN name[i] ELSE e[i - k]
    BY <1>1, <1>5, <2>1, Zenon
  <2>3. /\ \A i \in 1..k : i \in 1 .. k + 1 /\ i <= k
        /\ k + 1 \in 1 .. k + 1 /\ ~ (k + 1 <= k) /\ (k + 1) - k = 1
    OBVIOUS
  <2>4. QED
    BY <1>5, <2>1, <2>2, <2>3, ZenonT(60)
<1>7. PICK t \in Seq(TextChars) : /\ t = name \o <<"=">> \o v /\ Len(t) = (k + 1) + m
                                  /\ \A j \in 1 .. k + 1 : t[j] = b[j]
                                  /\ \A j \in k + 2 .. (k + 1) + m : t[j] = v[j - (k + 1)]
  <2>1. /\ b \o v \in Seq(TextChars) /\ Len(b \o v) = Len(b) + Len(v)
        /\ \A i \in 1 .. Len(b) + Len(v) :
             (b \o v)[i] = IF i <= Len(b) THEN b[i] ELSE v[i - Len(b)]
    BY <1>4, ConcatProperties
  <2>2. /\ Len(b \o v) = (k + 1) + m
        /\ \A i \in 1 .. (k + 1) + m : (b \o v)[i] = IF i <= k + 1 THEN b[i] ELSE v[i - (k + 1)]
    BY <1>1, <1>6, <2>1, Zenon
  <2>3. /\ \A i \in 1 .. k + 1 : i \in 1 .. (k + 1) + m /\ i <= k + 1
        /\ \A i \in k + 2 .. (k + 1) + m : i \in 1 .. (k + 1) + m /\ ~ (i <= k + 1)
    OBVIOUS
  <2>4. b \o v = name \o <<"=">> \o v
    BY <1>5, <1>6, Zenon
  <2>5. QED
    BY <2>1, <2>2, <2>3, <2>4, Zenon
<1>8. \A j \in 1 .. (k + 1) + m : t[j] # ";"
  <2>1. \A j \in 1 .. (k + 1) + m : \/ j \in 1..k /\ j \in 1 .. k + 1
                                    \/ j = k + 1 /\ j \in 1 .. k + 1
                                    \/ j \in k + 2 .. (k + 1) + m /\ j - (k + 1) \in 1..m
    OBVIOUS
  <2>2. "=" # ";"
    BY Zenon
  <2>3. QED
    BY <1>2, <1>3, <1>4, <1>6, <1>7, <2>1, <2>2, Zenon
<1>9. Len(Fields(t, ";")) = 1 /\ Fields(t, ";")[1] = t
  BY <1>7, <1>8, FieldsOne, ZenonT(60) DEF Contains
<1>10. NameIn(t, 1) = name
  <2>1. Reads(t, 0, name)
    <3>1. /\ 0 + k <= (k + 1) + m /\ (\A j \in 1..0 : FALSE) /\ \A j \in 1..k : 0 + j = j
          /\ k + 1 \in 1 .. k + 1 /\ 0 + k + 1 = k + 1 /\ \A j \in 1..k : j \in 1 .. k + 1
      OBVIOUS
    <3>2. \A j \in 1..k : t[0 + j] = name[j] /\ name[j] # " " /\ name[j] # "="
      BY <1>2, <1>3, <1>6, <1>7, <3>1, Zenon
    <3>3. t[0 + k + 1] = "="
      BY <1>6, <1>7, <3>1, Zenon
    <3>4. QED
      BY <1>1, <1>7, <3>1, <3>2, <3>3, Zenon DEF Reads
  <2>2. 0 \in Nat
    OBVIOUS
  <2>3. Head(Fields(s_trim(t), "=")) = name
    BY <1>2, <1>4, <2>1, <2>2, NameRead, Zenon
  <2>4. QED
    BY <1>9, <2>3, Zenon DEF NameIn
<1>11. IsFiniteSet({}) /\ Cardinality({}) = 0 /\ 0 + 1 = 1
  BY FS_EmptySet
<1>12. {NameIn(t, j) : j \in 2..Len(Fields(t, ";"))} = {<<a>> : a \in {}}
  <2>1. \A j \in 2..1 : FALSE
    OBVIOUS
  <2>2. QED
    BY <1>9, <2>1, Zenon
<1>13. Shows(t, TextChars, name, {})
  BY <1>9, <1>10, <1>11, <1>12, Zenon DEF Shows
<1>14. QED
  BY <1>7, <1>13, Zenon

\* The text of a cookie has its name and its attributes.
LEMMA SerializedShows ==
  ASSUME NEW c \in CookieSet, cookie_serialize(c) # NULL, cookie_serialize(c) # CRASH
  PROVE  Shows(cookie_serialize(c), TextChars, c.name, AttributeNames(c))
<1> DEFINE B == AttributeNames(c)
<1>1. /\ is_valid_cookie_name(c.name) /\ sanitize_cookie_value(c.value) # CRASH
      /\ cookie_serialize(c) =
           c.name \o <<"=">> \o sanitize_cookie_value(c.value)
             \o When(~s_nullish(c.path), Attr("Path", sanitize_cookie_path(c.path)))
             \o (IF s_nullish(c.domain) THEN <<>>
                 ELSE When(is_valid_cookie_domain(c.domain), Attr("Domain", WithoutDot(c.domain))))
             \o When(is_valid_cookie_expiry(c.expires), Attr("Expires", <<"date">>))
             \o When(c.maxAge # 0, Attr("Max-Age", IF c.maxAge > 0 THEN <<"1">> ELSE <<"0">>))
             \o When(c.httpOnly, Flag("HttpOnly"))
             \o When(c.secure, Flag("Secure"))
             \o When(c.sameSite # "default", Attr("SameSite", <<c.sameSite>>))
  BY Zenon DEF cookie_serialize
<1>2. c.name \in Seq(CookieChars) /\ IsPlain(sanitize_cookie_value(c.value))
  BY <1>1, PassedAre, ValueIsPlain, Zenon
<1>3. PICK t : t = c.name \o <<"=">> \o sanitize_cookie_value(c.value)
  OBVIOUS
<1>4. PICK x1 : /\ x1 = When(~s_nullish(c.path), Attr("Path", sanitize_cookie_path(c.path)))
                /\ Sets(x1, "Path", B)
  BY PathSet, Zenon
<1>5. PICK x2 : /\ x2 = (IF s_nullish(c.domain) THEN <<>>
                         ELSE When(is_valid_cookie_domain(c.domain),
                                   Attr("Domain", WithoutDot(c.domain))))
                /\ Sets(x2, "Domain", B)
  BY DomainSet, Zenon
<1>6. PICK x3 : /\ x3 = When(is_valid_cookie_expiry(c.expires), Attr("Expires", <<"date">>))
                /\ Sets(x3, "Expires", B)
  BY ExpiresSet, Zenon
<1>7. PICK x4 : /\ x4 = When(c.maxAge # 0,
                             Attr("Max-Age", IF c.maxAge > 0 THEN <<"1">> ELSE <<"0">>))
                /\ Sets(x4, "Max-Age", B)
  BY AgeSet, Zenon
<1>8. PICK x5, x6 : /\ x5 = When(c.httpOnly, Flag("HttpOnly")) /\ Sets(x5, "HttpOnly", B)
                    /\ x6 = When(c.secure, Flag("Secure")) /\ Sets(x6, "Secure", B)
  BY FlagsSet, Zenon
<1>9. PICK x7 : /\ x7 = When(c.sameSite # "default", Attr("SameSite", <<c.sameSite>>))
                /\ Sets(x7, "SameSite", B)
  BY SameSiteSet, Zenon
<1>10. cookie_serialize(c) = t \o x1 \o x2 \o x3 \o x4 \o x5 \o x6 \o x7
  BY <1>1, <1>3, <1>4, <1>5, <1>6, <1>7, <1>8, <1>9, Zenon
<1> HIDE DEF B
<1> DEFINE K1 == {} \cup {"Path"}
           K2 == K1 \cup {"Domain"}
           K3 == K2 \cup {"Expires"}
           K4 == K3 \cup {"Max-Age"}
           K5 == K4 \cup {"HttpOnly"}
           K6 == K5 \cup {"Secure"}
           K7 == K6 \cup {"SameSite"}
<1>11. /\ "Path" \in AttrNames /\ "Domain" \in AttrNames /\ "Expires" \in AttrNames
       /\ "Max-Age" \in AttrNames /\ "HttpOnly" \in AttrNames /\ "Secure" \in AttrNames
       /\ "SameSite" \in AttrNames /\ "Path" \notin {} /\ "Domain" \notin K1
       /\ "Expires" \notin K2 /\ "Max-Age" \notin K3 /\ "HttpOnly" \notin K4
       /\ "Secure" \notin K5 /\ "SameSite" \notin K6
  BY Zenon DEF AttrNames
<1>12. B \cap K7 = B
  <2>1. B \subseteq AttrNames
    BY AttributesAre, Zenon DEF B
  <2>2. \A a \in AttrNames : a \in K7
    BY Zenon DEF AttrNames
  <2>3. QED
    BY <2>1, <2>2, Zenon
<1>13. Shows(t, TextChars, c.name, B \cap {})
  <2>1. B \cap {} = {}
    BY Zenon
  <2>2. Shows(t, TextChars, c.name, {})
    BY <1>1, <1>2, <1>3, PairShows, Zenon
  <2>3. QED
    BY <2>1, <2>2, Zenon
<1> HIDE DEF K1, K2, K3, K4, K5, K6, K7
<1>14. Shows(t \o x1, TextChars, c.name, B \cap K1)
  BY <1>4, <1>11, <1>13, PartAdded, Zenon DEF K1
<1>15. Shows(t \o x1 \o x2, TextChars, c.name, B \cap K2)
  BY <1>5, <1>11, <1>14, PartAdded, Zenon DEF K2
<1>16. Shows(t \o x1 \o x2 \o x3, TextChars, c.name, B \cap K3)
  BY <1>6, <1>11, <1>15, PartAdded, Zenon DEF K3
<1>17. Shows(t \o x1 \o x2 \o x3 \o x4, TextChars, c.name, B \cap K4)
  BY <1>7, <1>11, <1>16, PartAdded, Zenon DEF K4
<1>18. Shows(t \o x1 \o x2 \o x3 \o x4 \o x5, TextChars, c.name, B \cap K5)
  BY <1>8, <1>11, <1>17, PartAdded, Zenon DEF K5
<1>19. Shows(t \o x1 \o x2 \o x3 \o x4 \o x5 \o x6, TextChars, c.name, B \cap K6)
  BY <1>8, <1>11, <1>18, PartAdded, Zenon DEF K6
<1>20. Shows(t \o x1 \o x2 \o x3 \o x4 \o x5 \o x6 \o x7, TextChars, c.name, B \cap K7)
  BY <1>9, <1>11, <1>19, PartAdded, Zenon DEF K7
<1>21. QED
  BY <1>10, <1>12, <1>20, Zenon DEF B

\* The texts of a response are those of the cookies that were put into it, in
\* their order, and none of them ended the process.
Written(cookies, texts) ==
  /\ cookies \in Seq(CookieSet) /\ Len(texts) = Len(cookies)
  /\ texts \in Seq({cookie_serialize(c) : c \in CookieSet})
  /\ \A n \in 1..Len(cookies) :
       texts[n] = cookie_serialize(cookies[n]) /\ texts[n] # CRASH

CookieInv == cookie \in CookieSet \cup {NULL} /\ Written(made, setCookies)

LEMMA CookieWritten ==
  ASSUME NEW cookies, NEW texts, Written(cookies, texts), NEW c \in CookieSet,
         cookie_serialize(c) # CRASH
  PROVE  Written(Append(cookies, c), Append(texts, cookie_serialize(c)))
<1> DEFINE T == {cookie_serialize(d) : d \in CookieSet}
<1>1. PICK e \in T : e = cookie_serialize(c)
  BY Zenon
<1>2. cookies \in Seq(CookieSet) /\ texts \in Seq(T) /\ Len(texts) = Len(cookies)
  BY Zenon DEF Written
<1>3. PICK k \in Nat : k = Len(cookies) /\ k = Len(texts)
  BY <1>2, LenProperties, Zenon
<1> HIDE DEF T
<1>4. /\ Append(cookies, c) \in Seq(CookieSet) /\ Len(Append(cookies, c)) = Len(cookies) + 1
      /\ \A i \in 1..Len(cookies) : Append(cookies, c)[i] = cookies[i]
      /\ Append(cookies, c)[Len(cookies) + 1] = c
  BY <1>2, AppendProperties
<1>5. /\ Append(texts, e) \in Seq(T) /\ Len(Append(texts, e)) = Len(texts) + 1
      /\ \A i \in 1..Len(texts) : Append(texts, e)[i] = texts[i]
      /\ Append(texts, e)[Len(texts) + 1] = e
  BY <1>2, AppendProperties
<1>6. \A i \in 1 .. k + 1 : i \in 1..k \/ i = k + 1
  OBVIOUS
<1>7. ASSUME NEW i \in 1 .. k + 1
      PROVE  /\ Append(texts, e)[i] = cookie_serialize(Append(cookies, c)[i])
             /\ Append(texts, e)[i] # CRASH
  <2>1. CASE i \in 1..k
    <3>1. Append(texts, e)[i] = texts[i] /\ Append(cookies, c)[i] = cookies[i]
      BY <1>3, <1>4, <1>5, <2>1, Zenon
    <3>2. QED
      BY <1>3, <2>1, <3>1, Zenon DEF Written
  <2>2. CASE i = k + 1
    BY <1>1, <1>3, <1>4, <1>5, <2>2, Zenon
  <2>3. QED
    BY <1>6, <2>1, <2>2, Zenon
<1>8. QED
  BY <1>1, <1>3, <1>4, <1>5, <1>7, Zenon DEF Written, T

LEMMA AttributeSet ==
  ASSUME CookieInv, NEW field, NEW value, SetAttribute(field, value),
         \A c \in CookieSet : [c EXCEPT ![field] = value] \in CookieSet
  PROVE  CookieInv'
<1>1. cookie \in CookieSet /\ cookie' = [cookie EXCEPT ![field] = value]
      /\ made' = made /\ setCookies' = setCookies
  BY Zenon DEF CookieInv, SetAttribute
<1>2. cookie' \in CookieSet
  BY <1>1, Zenon
<1>3. Written(made', setCookies')
  BY <1>1, Zenon DEF CookieInv
<1>4. QED
  BY <1>2, <1>3, Zenon DEF CookieInv

LEMMA CookieInvariance == CookieSpec => []CookieInv
<1>1. CookieInit => CookieInv
  <2> SUFFICES ASSUME CookieInit PROVE CookieInv
    OBVIOUS
  <2>1. cookie = NULL /\ made = <<>> /\ setCookies = <<>>
    BY Zenon DEF CookieInit
  <2>2. /\ <<>> \in Seq(CookieSet) /\ <<>> \in Seq({cookie_serialize(c) : c \in CookieSet})
        /\ Len(<<>>) = 0 /\ \A n \in 1..0 : FALSE
    <3>1. \A S : <<>> \in Seq(S)
      OBVIOUS
    <3>2. Len(<<>>) = 0 /\ \A n \in 1..0 : FALSE
      OBVIOUS
    <3>3. QED
      BY <3>1, <3>2, Zenon
  <2>3. Written(<<>>, <<>>)
    BY <2>2, Zenon DEF Written
  <2>4. QED
    BY <2>1, <2>3, Zenon DEF CookieInv
<1>2. CookieInv /\ [CookieNext]_cookieVars => CookieInv'
  <2> SUFFICES ASSUME CookieInv, [CookieNext]_cookieVars PROVE CookieInv'
    OBVIOUS
  <2>1. ASSUME NEW name \in Names, NEW value \in CookieValues, NewCookie(name, value)
        PROVE  CookieInv'
    <3>1. ys_cookie_init(name, value) \in CookieSet
      BY DEF ys_cookie_init, CookieSet
    <3>2. cookie' = ys_cookie_init(name, value) /\ made' = made /\ setCookies' = setCookies
      BY <2>1, Zenon DEF NewCookie
    <3>3. cookie' \in CookieSet /\ Written(made', setCookies')
      BY <3>1, <3>2, Zenon DEF CookieInv
    <3>4. QED
      BY <3>3, Zenon DEF CookieInv
  <2>2. ASSUME CookieSetters PROVE CookieInv'
    <3>1. ASSUME NEW d \in Domains, SetAttribute("domain", d) PROVE CookieInv'
      <4>1. \A c \in CookieSet : [c EXCEPT !["domain"] = d] \in CookieSet
        BY DEF CookieSet
      <4>2. QED
        BY <3>1, <4>1, AttributeSet, Zenon
    <3>2. ASSUME NEW p \in Paths, SetAttribute("path", p) PROVE CookieInv'
      <4>1. \A c \in CookieSet : [c EXCEPT !["path"] = p] \in CookieSet
        BY DEF CookieSet
      <4>2. QED
        BY <3>2, <4>1, AttributeSet, Zenon
    <3>3. ASSUME NEW t \in {0, 1}, SetAttribute("expires", t) PROVE CookieInv'
      <4>1. \A c \in CookieSet : [c EXCEPT !["expires"] = t] \in CookieSet
        BY DEF CookieSet
      <4>2. QED
        BY <3>3, <4>1, AttributeSet, Zenon
    <3>4. ASSUME NEW age \in {-1, 1}, SetAttribute("maxAge", age) PROVE CookieInv'
      <4>1. \A c \in CookieSet : [c EXCEPT !["maxAge"] = age] \in CookieSet
        BY DEF CookieSet
      <4>2. QED
        BY <3>4, <4>1, AttributeSet, Zenon
    <3>5. ASSUME NEW b \in BOOLEAN, SetAttribute("httpOnly", b) PROVE CookieInv'
      <4>1. \A c \in CookieSet : [c EXCEPT !["httpOnly"] = b] \in CookieSet
        BY DEF CookieSet
      <4>2. QED
        BY <3>5, <4>1, AttributeSet, Zenon
    <3>6. ASSUME NEW b \in BOOLEAN, SetAttribute("secure", b) PROVE CookieInv'
      <4>1. \A c \in CookieSet : [c EXCEPT !["secure"] = b] \in CookieSet
        BY DEF CookieSet
      <4>2. QED
        BY <3>6, <4>1, AttributeSet, Zenon
    <3>7. ASSUME NEW mode \in {"default", "None", "Lax", "Strict"}, SetAttribute("sameSite", mode)
          PROVE  CookieInv'
      <4>1. \A c \in CookieSet : [c EXCEPT !["sameSite"] = mode] \in CookieSet
        BY DEF CookieSet
      <4>2. QED
        BY <3>7, <4>1, AttributeSet, Zenon
    <3>8. QED
      BY <2>2, <3>1, <3>2, <3>3, <3>4, <3>5, <3>6, <3>7, Zenon DEF CookieSetters
  <2>3. CASE PutCookie
    <3>1. /\ cookie \in CookieSet /\ cookie_serialize(cookie) # CRASH /\ cookie' = NULL
          /\ made' = Append(made, cookie)
          /\ setCookies' = Append(setCookies, cookie_serialize(cookie))
      BY <2>3, Zenon DEF CookieInv, PutCookie
    <3>2. Written(Append(made, cookie), Append(setCookies, cookie_serialize(cookie)))
      BY <3>1, CookieWritten, Zenon DEF CookieInv
    <3>3. cookie' \in CookieSet \cup {NULL} /\ Written(made', setCookies')
      BY <3>1, <3>2, Zenon
    <3>4. QED
      BY <3>3, Zenon DEF CookieInv
  <2>4. ASSUME cookie' = cookie, made' = made, setCookies' = setCookies PROVE CookieInv'
    <3>1. cookie' \in CookieSet \cup {NULL} /\ Written(made', setCookies')
      BY <2>4, Zenon DEF CookieInv
    <3>2. QED
      BY <3>1, Zenon DEF CookieInv
  <2>5. CASE PutCookieCrashes
    BY <2>4, <2>5, Zenon DEF PutCookieCrashes
  <2>6. ASSUME NEW kind \in {"echo", "browser"}, ClientSends(kind) PROVE CookieInv'
    BY <2>4, <2>6, Zenon DEF ClientSends
  <2>7. ASSUME NEW name \in Names, ys_get_cookie(name) PROVE CookieInv'
    BY <2>4, <2>7, Zenon DEF ys_get_cookie
  <2>8. CASE CookieEnd \/ UNCHANGED cookieVars
    BY <2>4, <2>8, Zenon DEF CookieEnd, cookieVars
  <2>9. QED
    BY <2>1, <2>2, <2>3, <2>5, <2>6, <2>7, <2>8, Zenon DEF CookieNext
<1>3. QED
  BY <1>1, <1>2, PTL DEF CookieSpec

\* The text of every cookie that a program puts into a response has the name of
\* the cookie and exactly the attributes that were set, each once, whatever texts
\* the program passes: no character of a value or of a path starts another one.
THEOREM TextsHaveAttributes == CookieSpec => []TextHasAttributes
<1>1. CookieInv => TextHasAttributes
  <2> SUFFICES ASSUME CookieInv, NEW n \in DOMAIN made, setCookies[n] # NULL
               PROVE  LET t == setCookies[n]
                      IN  /\ NameIn(t, 1) = made[n].name
                          /\ Len(Fields(t, ";")) = 1 + Cardinality(AttributeNames(made[n]))
                          /\ {NameIn(t, k) : k \in 2..Len(Fields(t, ";"))}
                               = {<<a>> : a \in AttributeNames(made[n])}
    BY Zenon DEF TextHasAttributes, NameIn
  <2>1. made \in Seq(CookieSet)
    BY Zenon DEF CookieInv, Written
  <2>2. n \in 1..Len(made) /\ made[n] \in CookieSet
    BY <2>1, ElementOfSeq, LenProperties
  <2>3. setCookies[n] = cookie_serialize(made[n]) /\ setCookies[n] # CRASH
    BY <2>2, Zenon DEF CookieInv, Written
  <2>4. Shows(setCookies[n], TextChars, made[n].name, AttributeNames(made[n]))
    BY <2>2, <2>3, SerializedShows, Zenon
  <2>5. Cardinality(AttributeNames(made[n])) + 1 = 1 + Cardinality(AttributeNames(made[n]))
    <3>1. IsFiniteSet(AttributeNames(made[n]))
      BY <2>4, Zenon DEF Shows
    <3>2. PICK k \in Nat : k = Cardinality(AttributeNames(made[n]))
      BY <3>1, FS_CardinalityType, Zenon
    <3>3. k + 1 = 1 + k
      OBVIOUS
    <3>4. QED
      BY <3>2, <3>3, Zenon
  <2>6. QED
    BY <2>4, <2>5, Zenon DEF Shows
<1>2. QED
  BY CookieInvariance, <1>1, PTL
=============================================================================
