------------------------------ MODULE Exchange ------------------------------
(***************************************************************************)
(* One request and its answer on an accepted connection: the body of        *)
(* client_thread_handler with req_read_and_parse, response_send_error and   *)
(* response_send, against a client that sends in pieces of any size, stops   *)
(* reading, closes or resets the connection at any time.                    *)
(*                                                                         *)
(* Bytes are counted, not represented.  A request is its kind, the length   *)
(* of its head (the blank line included), the first byte of the head that   *)
(* phr_parse_request refuses, and the number of body bytes behind the head. *)
(* SSL_read and SSL_write are used like read and write and not told apart    *)
(* from them.                                                               *)
(***************************************************************************)
EXTENDS Naturals, Integers, Sequences, FiniteSetsExt

CONSTANTS BufSize,   \* REQ_BUFFER_SIZE
          MaxBody,   \* longest body a client sends
          MaxResp    \* longest serialised response

ASSUME SizesAssumption == BufSize \in Nat \ {0} /\ MaxBody \in Nat /\ MaxResp \in Nat \ {0}

\* "cr" is a malformed head too: a carriage return without a line feed, which
\* the parser's look-out for the blank line stops at as well.  A client that
\* never ends its head is one that stops sending.
Malformed == {"malformed", "cr"}

Requests == {r \in [kind : {"ok", "duplicate"} \cup Malformed,
                    head : 1 .. BufSize + 1,
                    bad  : 1 .. BufSize + 1,
                    body : 0 .. MaxBody] :
               /\ r.bad <= r.head
               /\ r.kind \notin Malformed => r.bad = r.head}

Length(r) == r.head + r.body

VARIABLES
  req,     \* what the client means to send
  sent,    \* bytes it has put on the wire
  peer,    \* its side of the connection: "open", "closed" (FIN) or "reset"
  stalled, \* it does not read, and what the kernel buffers for it is full
  pc,      \* where the handler thread is
  buflen,  \* bytes in the request buffer
  err,     \* maybe_req.err.code, "none" for a request
  body,    \* length of req->body
  status,  \* status line of the response, "routed" for what router_run produces
  resp,    \* buffer_size(buf)
  out,     \* the response bytes handed to the socket, by position
  sock     \* "open" or "closed", with the SSL object and client_context

clientVars == <<req, sent, peer, stalled>>
readVars   == <<buflen, err, body>>
writeVars  == <<status, resp, out>>
exchangeVars == <<clientVars, pc, readVars, writeVars, sock>>

Statuses == {"none", "routed", "400", "413", "500"}

ExchangeInit ==
  /\ req \in Requests
  /\ sent = 0 /\ peer = "open" /\ stalled = FALSE
  /\ pc = "read" /\ buflen = 0 /\ err = "none" /\ body = 0
  /\ status = "none" /\ resp = 0 /\ out = <<>>
  /\ sock = "open"

-----------------------------------------------------------------------------
(* The client. *)

ClientSend(n) ==
  /\ peer = "open" /\ pc \notin {"done", "killed"}
  /\ sent + n <= Length(req)
  /\ sent' = sent + n
  /\ UNCHANGED <<req, peer, stalled, pc, readVars, writeVars, sock>>

ClientLeave(how) ==
  /\ peer = "open" \/ (peer = "closed" /\ how = "reset")
  /\ pc \notin {"done", "killed"}
  /\ peer' = how
  /\ UNCHANGED <<req, sent, stalled, pc, readVars, writeVars, sock>>

\* The client stops reading until the buffers between it and the server are
\* full, or goes on reading.
ClientReads(stops) ==
  /\ pc \notin {"done", "killed"}
  /\ stalled' = stops
  /\ UNCHANGED <<req, sent, peer, pc, readVars, writeVars, sock>>

-----------------------------------------------------------------------------
(* req_read_and_parse *)

\* is_complete: is the blank line among the first len bytes?  The search starts
\* three bytes before last_len, far enough to see both its line ends.
is_complete(len, last_len) == req.head <= len /\ last_len <= req.head

\* parse_request, from the first byte: the length of the head, -1 for a
\* malformed request, -2 for an incomplete one.
parse_request(len) ==
  IF req.kind \in Malformed /\ req.bad <= len THEN -1
  ELSE IF req.head <= len THEN req.head ELSE -2

\* With a previous length nothing is parsed before the blank line is there: a
\* malformed byte that comes in a later segment waits for it, unless it is one
\* that is_complete trips over.
phr_parse_request(len, last_len) ==
  IF last_len # 0 /\ ~is_complete(len, last_len)
  THEN IF req.kind = "cr" /\ req.bad <= len /\ req.bad > last_len - 2 THEN -1 ELSE -2
  ELSE parse_request(len)

\* Mutant: the previous length is taken behind the addition.
LastLenIsLen(n) == buflen + n

\* prev_buflen of a read of n bytes.
PrevBuflen(n) == buflen

\* Mutant: every read asks for a whole buffer.
RoomWholeBuffer == BufSize

\* sizeof(buf) - buflen
Room == BufSize - buflen

\* The tests on pret, in the code's order.  The test of a full buffer comes
\* last, behind the `continue' of an incomplete request, and is never reached.
AfterParse(pret) ==
  IF pret > 0 THEN pc' = "parsed" /\ err' = "none"
  ELSE IF pret = -1 THEN pc' = "error" /\ err' = "PARSE_ERR"
  ELSE pc' = "read" /\ err' = "none"

\* read() or SSL_read() returns n bytes; the parser runs on all bytes so far.
Read(n) ==
  /\ pc = "read" /\ peer # "reset"
  /\ n <= Min({sent - buflen, Room})
  /\ buflen' = buflen + n
  /\ AfterParse(phr_parse_request(buflen', PrevBuflen(n)))
  /\ UNCHANGED <<clientVars, body, writeVars, sock>>

\* It returns 0 at the end of the stream or for a full buffer (a read of 0
\* bytes), -1 for a reset connection.  An EINTR is retried.
ReadFails ==
  /\ pc = "read"
  /\ peer = "reset" \/ Room = 0 \/ (peer = "closed" /\ sent = buflen)
  /\ pc' = "error" /\ err' = "IO_ERR"
  /\ UNCHANGED <<clientVars, buflen, body, writeVars, sock>>

\* s_copy(buf + pret) of what was read behind the head, whatever Content-Length
\* says.  Behind a full buffer there is no terminator: the copy goes on with
\* what the stack holds, bounded here by BufSize in all.
BodyLengths == IF Room > 0 THEN {buflen - parse_request(buflen)}
               ELSE buflen - parse_request(buflen) .. BufSize

\* Mutant: the result of insert_header is ignored.
DuplicatesAccepted ==
  /\ pc = "parsed"
  /\ body' \in BodyLengths
  /\ pc' = "route" /\ UNCHANGED err
  /\ UNCHANGED <<clientVars, buflen, writeVars, sock>>

\* The request object; a singleton header that occurs twice is refused.
BuildRequest ==
  /\ pc = "parsed"
  /\ body' \in BodyLengths
  /\ IF req.kind = "duplicate" THEN pc' = "error" /\ err' = "DUP_HDR"
                               ELSE pc' = "route" /\ UNCHANGED err
  /\ UNCHANGED <<clientVars, buflen, writeVars, sock>>

-----------------------------------------------------------------------------
(* Responses. *)

ErrorStatus(e) == CASE e = "DUP_HDR"      -> "400"
                    [] e = "REQ_TOO_LONG" -> "413"
                    [] OTHER              -> "500"

response_send_error(n) ==
  /\ pc = "error"
  /\ status' = ErrorStatus(err) /\ resp' = n
  /\ pc' = "write"
  /\ UNCHANGED <<clientVars, readVars, out, sock>>

\* router_run produces the response; Router models how.
router_run(n) ==
  /\ pc = "route"
  /\ status' = "routed" /\ resp' = n
  /\ pc' = "write"
  /\ UNCHANGED <<clientVars, readVars, out, sock>>

\* Mutant: every write starts at the beginning of the buffer.
ChunkFromStart(n) == [i \in 1..n |-> i]

\* The n bytes behind the total_sent first ones.
Chunk(n) == [i \in 1..n |-> Len(out) + i]

\* One turn of response_send's loop: write() takes n bytes, or blocks for as long
\* as the client does not read.  EINTR, EAGAIN and EWOULDBLOCK are retried.
Write(n) ==
  /\ pc = "write" /\ peer # "reset" /\ ~stalled
  /\ n <= resp - Len(out)
  /\ out' = out \o Chunk(n)
  /\ UNCHANGED <<clientVars, pc, readVars, status, resp, sock>>

\* Any other error ends the loop.
WriteFails ==
  /\ pc = "write" /\ peer = "reset" /\ Len(out) < resp
  /\ pc' = "close"
  /\ UNCHANGED <<clientVars, readVars, writeVars, sock>>

\* A write on a reset connection may also raise SIGPIPE, whose default action
\* nobody changes: the process ends.
WriteKills ==
  /\ pc = "write" /\ peer = "reset" /\ Len(out) < resp
  /\ pc' = "killed"
  /\ UNCHANGED <<clientVars, readVars, writeVars, sock>>

AllWritten ==
  /\ pc = "write" /\ Len(out) >= resp
  /\ pc' = "close"
  /\ UNCHANGED <<clientVars, readVars, writeVars, sock>>

\* SSL_shutdown and SSL_free with TLS, close, free of the contexts.
CloseAndFree ==
  /\ pc = "close"
  /\ sock' = "closed"
  /\ pc' = "done"
  /\ UNCHANGED <<clientVars, readVars, writeVars>>

-----------------------------------------------------------------------------

ServerStep ==
  \/ \E n \in 1..BufSize + MaxBody : Read(n)
  \/ ReadFails \/ BuildRequest
  \/ \E n \in 1..MaxResp : response_send_error(n)
  \/ \E n \in 1..MaxResp : router_run(n)
  \/ \E n \in 1..MaxResp : Write(n)
  \/ WriteFails \/ WriteKills \/ AllWritten \/ CloseAndFree

ExchangeEnded == pc \in {"done", "killed"} /\ UNCHANGED exchangeVars

ExchangeNext ==
  \/ \E n \in 1 .. BufSize + 1 + MaxBody : ClientSend(n)
  \/ \E how \in {"closed", "reset"} : ClientLeave(how)
  \/ \E stops \in BOOLEAN : ClientReads(stops)
  \/ ServerStep
  \/ ExchangeEnded

\* The scheduler runs the handler's thread and the kernel completes its calls;
\* nothing is assumed of the client.
ExchangeFairness == WF_exchangeVars(ServerStep)

ExchangeSpec == ExchangeInit /\ [][ExchangeNext]_exchangeVars /\ ExchangeFairness

-----------------------------------------------------------------------------

\* The buffer never holds more than REQ_BUFFER_SIZE bytes, the rest is typed.
ExchangeTypeOK ==
  /\ req \in Requests /\ sent \in 0..Length(req)
  /\ peer \in {"open", "closed", "reset"} /\ stalled \in BOOLEAN
  /\ pc \in {"read", "parsed", "error", "route", "write", "close", "done",
             "killed"}
  /\ buflen \in 0..BufSize
  /\ err \in {"none", "IO_ERR", "PARSE_ERR", "REQ_TOO_LONG", "DUP_HDR"}
  /\ body \in 0..BufSize
  /\ status \in Statuses
  /\ resp \in 0..MaxResp
  /\ out \in Seq(1..MaxResp)
  /\ sock \in {"open", "closed"}

\* If and when a client that stays connected is answered, it is told what its
\* request deserves, however TCP cut it into segments and whichever of the
\* parser's two ways noticed an error: routed, 400 for a duplicate singleton
\* header, 500 for a malformed head or one that fills the buffer.
AnswerOf(r) == IF r.head > BufSize \/ r.kind \in Malformed THEN "500"
               ELSE IF r.kind = "duplicate" THEN "400" ELSE "routed"

AnswerDeserved ==
  peer = "open" /\ status # "none" => status = AnswerOf(req)

\* The client receives the bytes of the response in order, none twice and none
\* left out, whatever the sizes of the partial writes; all of them unless the
\* connection broke.
ResponseInOrder ==
  /\ \A i \in DOMAIN out : out[i] = i
  /\ pc = "done" /\ peer # "reset" => Len(out) = resp

\* Once the head of a request is on the wire, in whatever segments, the
\* connection is answered and closed, or the process ended, with no more help
\* from the client than that it does not stop reading for good (write blocks
\* without a timeout).
EveryRequestEnds ==
  <>[]~stalled => (sent >= req.head ~> sock = "closed" \/ pc = "killed")

\* "ys_req_get_body returns the full request body" (include/libys.h).
BodyComplete == status = "routed" => body = req.body
=============================================================================
