--------------------------- MODULE ExchangeProofs ---------------------------
(***************************************************************************)
(* Proofs about Exchange, for every size of the request buffer, of bodies   *)
(* and of responses, and every way in which the client cuts its request     *)
(* into segments, stops reading and leaves.                                 *)
(***************************************************************************)
EXTENDS Exchange, ProofLemmas

\* No byte is read that was not sent, and the parser saw all that were read:
\* the loop goes on only in front of the deciding byte.
ReadInv ==
  /\ buflen <= sent
  /\ pc = "read" => err = "none" /\ buflen < req.head
  /\ pc = "parsed" => buflen >= req.head /\ req.kind \notin Malformed
  /\ pc = "route" => req.kind = "ok" /\ req.head <= BufSize

\* Each error is one the request, or a client that left, accounts for.
ErrorInv ==
  pc = "error" =>
    \/ err = "PARSE_ERR" /\ req.kind \in Malformed
    \/ err = "DUP_HDR" /\ req.kind = "duplicate" /\ req.head <= BufSize
    \/ err = "IO_ERR" /\ (peer # "open" \/ req.head > BufSize)

\* Nothing is written before there is a response; then every position handed to
\* the socket is its own number.
WriteInv ==
  /\ pc \in {"read", "parsed", "error", "route"} =>
       status = "none" /\ out = <<>> /\ resp = 0
  /\ Len(out) <= resp
  /\ \A i \in DOMAIN out : out[i] = i
  /\ pc \in {"close", "done"} /\ peer # "reset" => Len(out) = resp

ExchangeInv == /\ ExchangeTypeOK /\ ReadInv /\ ErrorInv /\ WriteInv
               /\ AnswerDeserved

-----------------------------------------------------------------------------

\* Min is FiniteSetsExt's CHOOSE.
LEMMA BelowMin ==
  ASSUME NEW a \in Int, NEW b \in Int, NEW n \in Int, n <= Min({a, b})
  PROVE  n <= a /\ n <= b
<1>1. \E x \in {a, b} : \A y \in {a, b} : x <= y
  OBVIOUS
<1>2. Min({a, b}) \in {a, b} /\ \A y \in {a, b} : Min({a, b}) <= y
  BY <1>1, Zenon DEF Min
<1>3. QED
  BY <1>2

LEMMA RequestFields ==
  ASSUME req \in Requests
  PROVE  /\ req.kind \in {"ok", "duplicate"} \cup Malformed
         /\ req.head \in 1 .. BufSize + 1 /\ req.body \in 0 .. MaxBody
         /\ req.bad \in 1 .. BufSize + 1 /\ req.bad <= req.head
         /\ BufSize \in Nat \ {0} /\ MaxBody \in Nat /\ MaxResp \in Nat \ {0}
BY SizesAssumption DEF Requests

LEMMA InitIInv == ExchangeInit => ExchangeInv
<1> SUFFICES ASSUME ExchangeInit PROVE ExchangeInv
  OBVIOUS
<1>1. Length(req) \in Nat /\ req.head \in Nat \ {0} /\ BufSize \in Nat /\ MaxResp \in Nat
  BY RequestFields DEF ExchangeInit, Length
<1>2. req \in Requests /\ sent \in 0..Length(req)
  BY <1>1 DEF ExchangeInit
<1>3. out \in Seq(1..MaxResp) /\ Len(out) = 0 /\ DOMAIN out = {}
  BY DEF ExchangeInit
<1>4. ExchangeTypeOK
  <2>1. 0 \in 0..BufSize /\ 0 \in 0..MaxResp
    BY <1>1
  <2>2. QED
    BY <1>2, <1>3, <2>1, Zenon DEF ExchangeInit, ExchangeTypeOK, Statuses
<1>5. ReadInv /\ ErrorInv /\ WriteInv /\ AnswerDeserved
  BY <1>1, <1>3 DEF ExchangeInit, ReadInv, ErrorInv, WriteInv, AnswerDeserved
<1>6. QED
  BY <1>4, <1>5 DEF ExchangeInv

\* A client that sends or leaves changes nothing the handler has decided.
LEMMA StepClient ==
  ASSUME ExchangeInv,
         \/ \E n \in 1 .. BufSize + 1 + MaxBody : ClientSend(n)
         \/ \E how \in {"closed", "reset"} : ClientLeave(how)
         \/ \E stops \in BOOLEAN : ClientReads(stops)
  PROVE  ExchangeInv'
<1> USE RequestFields DEF ExchangeInv, ExchangeTypeOK, readVars, writeVars
<1>1. CASE \E n \in 1 .. BufSize + 1 + MaxBody : ClientSend(n)
  BY <1>1 DEF ClientSend, ReadInv, ErrorInv, WriteInv, Length,
              AnswerDeserved, AnswerOf
<1>2. CASE \E how \in {"closed", "reset"} : ClientLeave(how)
  BY <1>2 DEF ClientLeave, ReadInv, ErrorInv, WriteInv, Length,
              AnswerDeserved, AnswerOf
<1>3. CASE \E stops \in BOOLEAN : ClientReads(stops)
  BY <1>3 DEF ClientReads, ReadInv, ErrorInv, WriteInv, Length,
              AnswerDeserved, AnswerOf
<1>4. QED
  BY <1>1, <1>2, <1>3

\* The read loop stays inside the buffer and stops at the deciding byte.
LEMMA StepRead ==
  ASSUME ExchangeInv, NEW n \in 1 .. BufSize + MaxBody, Read(n)
  PROVE  ExchangeInv'
<1> USE RequestFields DEF ExchangeInv, ExchangeTypeOK, clientVars, writeVars
<1>1. n <= sent - buflen /\ n <= BufSize - buflen
  <2>1. sent - buflen \in Int /\ Room \in Int /\ n \in Int
    BY DEF Length, Room
  <2>2. n <= Min({sent - buflen, Room})
    BY DEF Read
  <2>3. QED
    BY <2>1, <2>2, BelowMin DEF Room
<1>2. buflen' = buflen + n /\ buflen' \in 0..BufSize /\ buflen' <= sent
  BY <1>1 DEF Read, Length
<1>3. /\ pc = "read"
      /\ \/ buflen' < req.head /\ pc' = "read" /\ err' = "none"
         \/ /\ req.kind \in Malformed
            /\ pc' = "error" /\ err' = "PARSE_ERR"
         \/ /\ buflen' >= req.head /\ req.kind \notin Malformed
            /\ pc' = "parsed" /\ err' = "none"
  <2>1. pc = "read" /\ buflen < req.head /\ buflen \in Nat /\ buflen' \in Nat
        /\ req.head \in Nat /\ req.head > 0
    BY <1>2 DEF Read, ReadInv
  <2> DEFINE pret == phr_parse_request(buflen', buflen)
  <2>2. \/ pret = -2 /\ buflen' < req.head
        \/ pret = -1 /\ req.kind \in Malformed
        \/ pret = req.head /\ buflen' >= req.head /\ req.kind \notin Malformed
    BY <2>1, SMTT(60) DEF phr_parse_request, parse_request, is_complete, Malformed
  <2>3. AfterParse(pret)
    BY DEF Read, PrevBuflen
  <2>4. QED
    BY <2>1, <2>2, <2>3 DEF AfterParse
<1>4. UNCHANGED <<req, sent, peer, stalled, body, status, resp, out, sock>>
  BY DEF Read
<1>5. ExchangeTypeOK'
  BY <1>2, <1>3, <1>4
<1>6. ReadInv' /\ ErrorInv'
  BY <1>2, <1>3, <1>4 DEF ReadInv, ErrorInv
<1>7. WriteInv' /\ AnswerDeserved'
  BY <1>3, <1>4 DEF WriteInv, AnswerDeserved
<1>8. QED
  BY <1>5, <1>6, <1>7

\* A failed read is the client's doing, or a head longer than the buffer.
LEMMA StepReadFails ==
  ASSUME ExchangeInv, ReadFails
  PROVE  ExchangeInv'
BY RequestFields
DEF ExchangeInv, ExchangeTypeOK, ReadFails, Room, clientVars, writeVars, ReadInv, ErrorInv,
    WriteInv, AnswerDeserved, Length

\* The request object holds the bytes behind the head, or is refused.
LEMMA StepBuild ==
  ASSUME ExchangeInv, BuildRequest
  PROVE  ExchangeInv'
<1> USE RequestFields DEF ExchangeInv, ExchangeTypeOK, clientVars, writeVars
<1>1. parse_request(buflen) = req.head
  BY DEF BuildRequest, ReadInv, parse_request
<1>2. body' \in 0..BufSize
  BY <1>1, SMTT(60) DEF BuildRequest, BodyLengths, Room, ReadInv
<1>3. QED
  BY <1>2 DEF BuildRequest, ReadInv, ErrorInv, WriteInv,
              AnswerDeserved, Length

\* The status answers the request, whichever way the handler came here.
LEMMA StepRespond ==
  ASSUME ExchangeInv, NEW n \in 1..MaxResp, response_send_error(n) \/ router_run(n)
  PROVE  ExchangeInv'
<1> USE RequestFields DEF ExchangeInv, ExchangeTypeOK, clientVars, readVars
<1>1. CASE response_send_error(n)
  <2>1. AnswerDeserved'
    BY <1>1 DEF response_send_error, ErrorStatus, ErrorInv, AnswerOf, Malformed,
                AnswerDeserved
  <2>2. ExchangeTypeOK' /\ ReadInv' /\ ErrorInv'
    BY <1>1 DEF response_send_error, ErrorStatus, ReadInv, ErrorInv, Statuses
  <2>3. WriteInv'
    BY <1>1 DEF response_send_error, WriteInv
  <2>4. QED
    BY <2>1, <2>2, <2>3
<1>2. CASE router_run(n)
  BY <1>2 DEF router_run, ReadInv, ErrorInv, WriteInv, Statuses, AnswerOf, Malformed,
              AnswerDeserved
<1>3. QED
  BY <1>1, <1>2

LEMMA Appended ==
  ASSUME NEW s \in Seq(Nat), NEW c \in Seq(Nat)
  PROVE  /\ s \o c \in Seq(Nat)
         /\ Len(s \o c) = Len(s) + Len(c)
         /\ \A i \in 1 .. Len(s) + Len(c) :
              (s \o c)[i] = IF i <= Len(s) THEN s[i] ELSE c[i - Len(s)]
BY ConcatProperties, Zenon

\* A partial write goes on where the last one stopped.
LEMMA StepWrite ==
  ASSUME ExchangeInv, NEW n \in 1..MaxResp, Write(n)
  PROVE  ExchangeInv'
<1> USE RequestFields DEF ExchangeInv, ExchangeTypeOK, clientVars, readVars
<1>1. /\ pc = "write" /\ n <= resp - Len(out)
      /\ out' = out \o Chunk(n)
      /\ UNCHANGED <<req, sent, peer, stalled, pc, buflen, err, body, status, resp, sock>>
  BY DEF Write
<1>2. /\ Chunk(n) \in Seq(Nat) /\ Len(Chunk(n)) = n
      /\ \A i \in 1..n : Chunk(n)[i] = Len(out) + i
  BY DEF Chunk
<1>3. /\ Len(out') = Len(out) + n /\ DOMAIN out' = 1 .. Len(out) + n
      /\ \A i \in 1 .. Len(out) + n :
           out'[i] = IF i <= Len(out) THEN out[i] ELSE Chunk(n)[i - Len(out)]
  <2>1. out \in Seq(Nat) /\ Len(out) \in Nat
    OBVIOUS
  <2>2. /\ out \o Chunk(n) \in Seq(Nat)
        /\ Len(out \o Chunk(n)) = Len(out) + Len(Chunk(n))
        /\ \A i \in 1 .. Len(out) + Len(Chunk(n)) : (out \o Chunk(n))[i] =
             IF i <= Len(out) THEN out[i] ELSE Chunk(n)[i - Len(out)]
    BY ONLY <1>2, <2>1, Appended, Zenon
  <2>3. Len(Chunk(n)) = n /\ DOMAIN (out \o Chunk(n)) = 1 .. Len(out \o Chunk(n))
    BY <1>2, <2>2, LenProperties
  <2>4. QED
    BY <1>1, <2>2, <2>3, Zenon
<1>4. \A i \in DOMAIN out' : out'[i] = i
  <2> SUFFICES ASSUME NEW i \in DOMAIN out' PROVE out'[i] = i
    OBVIOUS
  <2>1. CASE i <= Len(out)
    <3>1. i \in DOMAIN out /\ i \in 1 .. Len(out) + n
      BY <1>3, <2>1
    <3>2. QED
      BY <1>3, <2>1, <3>1, Zenon DEF WriteInv
  <2>2. CASE i > Len(out)
    <3>1. Len(out) \in Nat /\ i \in Nat /\ n \in Nat /\ i <= Len(out) + n
      BY <1>3
    <3>2. i - Len(out) \in 1..n /\ ~(i <= Len(out)) /\ Len(out) + (i - Len(out)) = i
      BY <2>2, <3>1, SMTT(60)
    <3>3. QED
      BY <1>2, <1>3, <3>2, Zenon
  <2>3. QED
    BY <1>3, <2>1, <2>2
<1>5. out' \in Seq(1..MaxResp)
  <2>1. out' \in Seq(Nat)
    BY <1>1, <1>2
  <2>2. 1 .. Len(out) + n \subseteq 1..MaxResp
    BY <1>1
  <2>3. \A i \in 1..Len(out') : out'[i] \in 1..MaxResp
    BY <1>3, <1>4, <2>2, Zenon
  <2>4. QED
    BY <2>1, <2>3, SeqRetyped
<1>6. ExchangeTypeOK'
  BY <1>1, <1>5
<1>7. ReadInv' /\ ErrorInv' /\ AnswerDeserved'
  BY <1>1 DEF ReadInv, ErrorInv, AnswerDeserved, AnswerOf
<1>8. WriteInv'
  BY <1>1, <1>3, <1>4 DEF WriteInv
<1>9. QED
  BY <1>6, <1>7, <1>8

\* The loop ends with everything written or on a broken connection.
LEMMA StepEnd ==
  ASSUME ExchangeInv, WriteFails \/ WriteKills \/ AllWritten \/ CloseAndFree
  PROVE  ExchangeInv'
<1> USE RequestFields
    DEF ExchangeInv, ExchangeTypeOK, clientVars, readVars, writeVars, ReadInv, ErrorInv,
        WriteInv, AnswerDeserved, AnswerOf, Length
<1>1. CASE WriteFails
  BY <1>1 DEF WriteFails
<1>2. CASE WriteKills
  BY <1>2 DEF WriteKills
<1>3. CASE AllWritten
  BY <1>3 DEF AllWritten
<1>4. CASE CloseAndFree
  BY <1>4 DEF CloseAndFree
<1>5. QED
  BY <1>1, <1>2, <1>3, <1>4, Zenon

LEMMA StepIInv == ExchangeInv /\ [ExchangeNext]_exchangeVars => ExchangeInv'
<1> SUFFICES ASSUME ExchangeInv, [ExchangeNext]_exchangeVars PROVE ExchangeInv'
  OBVIOUS
<1>1. CASE ExchangeNext
  <2>1. CASE ServerStep
    BY <2>1, StepRead, StepReadFails, StepBuild, StepRespond, StepWrite,
       StepEnd DEF ServerStep
  <2>2. CASE ExchangeEnded
    BY <2>2 DEF ExchangeEnded, ExchangeInv, ExchangeTypeOK, ReadInv, ErrorInv, WriteInv, exchangeVars,
                AnswerDeserved, AnswerOf, clientVars, readVars, writeVars
  <2>3. QED
    BY <1>1, <2>1, <2>2, StepClient DEF ExchangeNext
<1>2. CASE UNCHANGED exchangeVars
  BY <1>2 DEF ExchangeInv, ExchangeTypeOK, ReadInv, ErrorInv, WriteInv, exchangeVars,
              AnswerDeserved, AnswerOf, clientVars, readVars, writeVars
<1>3. QED
  BY <1>1, <1>2

\* The invariant that the three properties rest on.
THEOREM IInvHolds == ExchangeSpec => []ExchangeInv
BY InitIInv, StepIInv, PTL DEF ExchangeSpec

\* The request buffer never holds more than REQ_BUFFER_SIZE bytes, the body of
\* the request object is not longer, and the response is not longer than what
\* was serialized (req_read_and_parse, response_send).
THEOREM TypeCorrect == ExchangeSpec => []ExchangeTypeOK
<1>1. ExchangeInv => ExchangeTypeOK
  BY DEF ExchangeInv
<1>2. QED
  BY <1>1, IInvHolds, PTL

\* What a client that stays connected is answered depends on its request only,
\* not on the segments that read() returned, nor on whether the parser or its
\* look-out for the blank line saw an error first (req_read_and_parse,
\* phr_parse_request).
THEOREM AnswerDependsOnRequest == ExchangeSpec => []AnswerDeserved
<1>1. ExchangeInv => AnswerDeserved
  BY DEF ExchangeInv
<1>2. QED
  BY <1>1, IInvHolds, PTL

\* The partial writes of response_send deliver every byte once and in order,
\* and all of them unless the connection broke.
THEOREM ResponseDelivered == ExchangeSpec => []ResponseInOrder
<1>1. ExchangeInv => ResponseInOrder
  BY DEF ExchangeInv, WriteInv, ResponseInOrder
<1>2. QED
  BY <1>1, IInvHolds, PTL
=============================================================================
