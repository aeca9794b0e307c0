--------------------------- MODULE RequestParser ---------------------------
(***************************************************************************)
(* The requests of one keep-alive connection, from the bytes the peer      *)
(* sends to what the server answers: RequestParser::parseRequestBuffer     *)
(* called after every read() on what has accumulated in the read buffer,   *)
(* and resetClientState between two requests.  EventLoop has the same      *)
(* steps with a request reduced to parsed or not.                          *)
(*                                                                         *)
(* A unit stands for bytes that travel together, except that CR and LF are *)
(* apart: a read() may end anywhere a search for CRLF could go wrong.      *)
(***************************************************************************)
EXTENDS Integers, Sequences, FiniteSets, SequencesExt, FiniteSetsExt

CONSTANTS
  Conversations,  \* sequences of requests a peer may send
  Pipelining,     \* whether a peer may send a request before the last answer
  MaxBody,        \* client_max_body_size
  MaxBuffer,      \* client_body_buffer_size: a larger body goes to a file
  WordSize,       \* how many values a size_t has
  ErrorPages      \* whether there are error_page files for 413 and 500

Unit(kind, n) == <<kind, n>>
Line == Unit("request line", 0)
KeepAlive == Unit("keep alive", 0)
Chunked == Unit("chunked", 0)
ContentLength(n) == Unit("length", n)
CRLF == <<Unit("CR", 0), Unit("LF", 0)>>
Kinds == {"request line", "keep alive", "chunked", "host", "length", "size",
          "CR", "LF", "data"}

\* A request: its header lines and its body, cut in the chunks it is sent in
\* (one when it is not sent in chunks).
Request == [headers: Seq(Kinds \X Nat), chunks: Seq(Seq(Kinds \X Nat))]

ASSUME ConversationsAssumption == Conversations \subseteq Seq(Request)
ASSUME PipeliningAssumption == Pipelining \subseteq BOOLEAN
ASSUME LimitsAssumption == MaxBody \in Nat /\ MaxBuffer \in Nat
ASSUME WordSizeAssumption == WordSize \in Nat /\ MaxBody < WordSize
ASSUME ErrorPagesAssumption == ErrorPages \in BOOLEAN

VARIABLES
  conversation,  \* what the peer sends
  pipelined,     \* TRUE: all at once.  FALSE: a request after each answer
  received,      \* how many units read() has taken
  client,        \* the Client with its Request
  disk,          \* "ok" or "full": whether a body can be written to a file
  answers        \* the responses sent, each with the body its request had

peer == <<conversation, pipelined>>
vars == <<conversation, pipelined, received, client, disk, answers>>

NewChunk == [state |-> "CHUNK_SIZE", size |-> 0, read |-> 0]

NewClient ==
  [state |-> "RESET", phase |-> "START", buffer |-> <<>>, headers |-> {},
   chunk |-> NewChunk, hasLength |-> FALSE, length |-> 0, bytesRead |-> 0,
   discarding |-> FALSE, toDiscard |-> 0, body |-> <<>>, inDisk |-> FALSE]

Parsed == {"PARSE_OK", "PARSE_TOO_LARGE", "PARSE_ERROR"}

-----------------------------------------------------------------------------
(* What the peer sends *)

Body(req) == FlattenSeq(req.chunks)

\* What a chunk announces.  A peer that announces more than it ever sends is
\* one whose chunk has not arrived to its end: nothing makes the rest arrive.
Size(chunk) == <<Unit("size", Len(chunk))>>

\* A request as it is sent.
Bytes(req) ==
  LET heads == FlattenSeq([k \in 1..Len(req.headers) |-> <<req.headers[k]>> \o CRLF])
      body == IF Contains(req.headers, Chunked)
              THEN FlattenSeq([k \in 1..Len(req.chunks) |->
                     Size(req.chunks[k]) \o CRLF \o req.chunks[k] \o CRLF])
                   \o Size(<<>>) \o CRLF \o CRLF
              ELSE Body(req)
  IN <<Line>> \o CRLF \o heads \o CRLF \o body

\* The first n requests of each conversation, as they are sent.
Requested == [q \in Conversations |->
  [n \in 0..Len(q) |-> FlattenSeq([k \in 1..n |-> Bytes(q[k])])]]

Sent(n) == Requested[conversation][n]
Stream == Sent(Len(conversation))

\* What can have arrived by now.
Arrived ==
  IF pipelined \/ Len(answers) >= Len(conversation) THEN Len(Stream)
  ELSE Len(Sent(Len(answers) + 1))

Init ==
  /\ conversation \in Conversations /\ pipelined \in Pipelining
  /\ received = 0 /\ client = NewClient /\ disk = "ok" /\ answers = <<>>

-----------------------------------------------------------------------------
(* The buffer *)

\* string::find: where p begins in b, 0 if it does not.
Find(b, p) ==
  LET at == {k \in 1..(Len(b) - Len(p) + 1) : SubSeq(b, k, k + Len(p) - 1) = p}
  IN IF Len(p) > Len(b) \/ at = {} THEN 0 ELSE Min(at)

\* erase(0, n), which also is consumeReadBuffer(n).
Erase(b, n) == SubSeq(b, n + 1, Len(b))

Least(m, n) == IF m <= n THEN m ELSE n

-----------------------------------------------------------------------------
(* Request::appendBody *)

\* It fails when the body is in a file, or has to go to one, and cannot.
AppendFails(c, n) ==
  /\ disk = "full" /\ n > 0
  /\ c.inDisk \/ n > MaxBuffer - Len(c.body)

\* The first n units of the buffer, which the caller then erases.
AppendBody(c, n) ==
  [c EXCEPT !.inDisk = @ \/ n > MaxBuffer - Len(c.body),
            !.body = @ \o SubSeq(c.buffer, 1, n), !.buffer = Erase(@, n)]

\* The caller gives up: the buffer keeps the rest of the body.
AppendError(c) == [c EXCEPT !.state = "PARSE_ERROR", !.phase = "FINISHED"]

-----------------------------------------------------------------------------
(* The bodies with a Content-Length *)

\* discardingBody, called when the units just read are already erased.
DiscardingBody(c) ==
  IF Len(c.buffer) >= c.toDiscard
  THEN [c EXCEPT !.buffer = Erase(@, c.toDiscard), !.toDiscard = 0, !.discarding = FALSE]
  ELSE [c EXCEPT !.toDiscard = @ - Len(c.buffer), !.buffer = <<>>]

\* parseContentLengthBody, first call for a request.
StartLength(c) ==
  IF c.hasLength THEN c
  ELSE LET n == (CHOOSE h \in c.headers : h[1] = "length")[2] IN
       [c EXCEPT !.hasLength = TRUE, !.length = n, !.discarding = @ \/ n > MaxBody,
                 !.toDiscard = IF n > MaxBody THEN n ELSE @]

\* (mutant) all that has arrived is taken; an empty body is waited for.
ParseLengthGreedy(c0) ==
  LET c == StartLength(c0)
      n == Len(c.buffer)
      d == AppendBody([c EXCEPT !.bytesRead = @ + n], n)
  IN IF n = 0 /\ c.length > 0 THEN c
     ELSE IF d.bytesRead >= d.length THEN [d EXCEPT !.phase = "FINISHED"] ELSE d
ParseLengthWaits(c0) ==
  LET c == StartLength(c0)
      n == Least(Len(c.buffer), c.length - c.bytesRead)
      d == AppendBody([c EXCEPT !.bytesRead = @ + n], n)
  IN IF n = 0 THEN c
     ELSE IF d.bytesRead >= d.length THEN [d EXCEPT !.phase = "FINISHED"] ELSE d

\* parseContentLengthBody; the phase is FINISHED where it returns true.
ParseContentLength(c0) ==
  LET c == StartLength(c0)
      n == Least(Len(c.buffer), c.length - c.bytesRead)
      ended == c.bytesRead + n >= c.length
      Taken(d) == [d EXCEPT !.bytesRead = @ + n,
                            !.phase = IF ended THEN "FINISHED" ELSE @]
  IN
  IF n = 0 /\ c.length > 0 THEN c
  ELSE IF c.discarding
       THEN [Taken(DiscardingBody([c EXCEPT !.buffer = Erase(@, n)])) EXCEPT
               !.state = "PARSE_TOO_LARGE"]
  ELSE IF AppendFails(c, n) THEN AppendError(c)
  ELSE Taken(AppendBody(c, n))

-----------------------------------------------------------------------------
(* The chunked bodies *)

\* (mutant) the size of one chunk is held against the limit.
ChunkSizeAlone(c) ==
  LET e == Find(c.buffer, CRLF)
      n == Least(c.buffer[1][2], WordSize - 1)
  IN IF e = 0 THEN c
     ELSE [c EXCEPT !.buffer = Erase(@, e + 1), !.discarding = @ \/ n > MaxBody,
                    !.chunk = IF n = 0 THEN [@ EXCEPT !.size = 0, !.state = "CHUNK_DONE"]
                              ELSE [state |-> "CHUNK_DATA", size |-> n, read |-> 0]]

\* A size line: strtoul() saturates ("-1" gives the same number), and the sum
\* held against the limit is one of size_t, which wraps.
ChunkSize(c) ==
  LET e == Find(c.buffer, CRLF)
      n == Least(c.buffer[1][2], WordSize - 1)
  IN IF e = 0 THEN c
     ELSE [c EXCEPT !.buffer = Erase(@, e + 1),
                    !.discarding = @ \/ (Len(c.body) + n) % WordSize > MaxBody,
                    !.chunk = IF n = 0 THEN [@ EXCEPT !.size = 0, !.state = "CHUNK_DONE"]
                              ELSE [state |-> "CHUNK_DATA", size |-> n, read |-> 0]]

ChunkData(c) ==
  LET n == Least(Len(c.buffer), c.chunk.size - c.chunk.read)
      Taken(d) == [d EXCEPT !.chunk.read = @ + n,
                            !.chunk.state = IF c.chunk.read + n = c.chunk.size
                                            THEN "CHUNK_CRLF" ELSE @]
  IN
  IF c.discarding THEN Taken([c EXCEPT !.buffer = Erase(@, n)])
  ELSE IF AppendFails(c, n) THEN AppendError(c)
  ELSE Taken(AppendBody(c, n))

ChunkCRLF(c) ==
  IF Len(c.buffer) < 2 THEN c
  ELSE [c EXCEPT !.buffer = Erase(@, 2), !.chunk.state = "CHUNK_SIZE"]

\* (mutant) the line end after the last chunk is left.
ChunkDoneLeaves(c) ==
  [c EXCEPT !.phase = "FINISHED",
            !.state = IF c.discarding THEN "PARSE_TOO_LARGE" ELSE @]

ChunkDone(c) ==
  IF Len(c.buffer) < 2 THEN c
  ELSE [c EXCEPT !.buffer = Erase(@, 2), !.phase = "FINISHED",
                 !.state = IF c.discarding THEN "PARSE_TOO_LARGE" ELSE @]

\* One turn of parseChunkBody's loop.  A turn that returns changes nothing
\* or leaves an empty buffer.
ChunkStep(c) ==
  IF c.buffer = <<>> \/ c.phase = "FINISHED" THEN c
  ELSE CASE c.chunk.state = "CHUNK_SIZE" -> ChunkSize(c)
         [] c.chunk.state = "CHUNK_DATA" -> ChunkData(c)
         [] c.chunk.state = "CHUNK_CRLF" -> ChunkCRLF(c)
         [] c.chunk.state = "CHUNK_DONE" -> ChunkDone(c)

\* parseChunkBody: every turn that goes on takes something from the buffer,
\* so the loop has returned after as many turns as there are units.
ParseChunks(c) ==
  LET turn[k \in 0..Len(c.buffer)] == IF k = 0 THEN c ELSE ChunkStep(turn[k - 1])
  IN turn[Len(c.buffer)]

-----------------------------------------------------------------------------
(* parseRequestBuffer *)

\* A line is well formed when it has its two spaces, here in one unit.
ParseLine(c) ==
  LET e == Find(c.buffer, CRLF) IN
  IF c.phase # "START" \/ e = 0 \/ ~Contains(SubSeq(c.buffer, 1, e - 1), Line) THEN c
  ELSE [c EXCEPT !.phase = "HEADER", !.buffer = Erase(@, e + 1)]

ParseHeaders(c) ==
  LET e == Find(c.buffer, CRLF \o CRLF) IN
  IF c.phase # "HEADER" \/ e = 0 THEN c
  ELSE [c EXCEPT !.phase = "BODY", !.headers = ToSet(SubSeq(c.buffer, 1, e - 1)) \ ToSet(CRLF),
                 !.buffer = Erase(@, e + 3)]

ParseBody(c) ==
  IF c.phase # "BODY" THEN c
  ELSE IF Chunked \in c.headers THEN ParseChunks(c)
  ELSE IF \E h \in c.headers : h[1] = "length" THEN ParseContentLength(c)
  ELSE [c EXCEPT !.phase = "FINISHED"]

ParseRequestBuffer(c) ==
  LET d == ParseBody(ParseHeaders(ParseLine(c))) IN
  IF d.phase # "FINISHED" THEN [d EXCEPT !.state = "PARSE_INCOMPLETE"]
  ELSE [d EXCEPT !.phase = "START", !.chunk = NewChunk,
                 !.state = IF @ \in Parsed THEN @ ELSE "PARSE_OK"]

-----------------------------------------------------------------------------
(* The connection *)

\* processRead: a read() of some of what has arrived, and the parser.
ProcessRead ==
  /\ client.state \notin Parsed \cup {"closed"}
  /\ \E n \in 1..(Arrived - received) :
       /\ received' = received + n
       /\ client' = ParseRequestBuffer(
            [client EXCEPT !.state = "READ_SUCCESS",
                           !.buffer = @ \o SubSeq(Stream, received + 1, received + n)])
  /\ UNCHANGED <<peer, disk, answers>>

\* (mutant) the length parser is not reset.
ResetKeepsLength(c) ==
  [NewClient EXCEPT !.buffer = c.buffer, !.discarding = c.discarding,
                    !.toDiscard = c.toDiscard, !.hasLength = c.hasLength,
                    !.length = c.length]

\* resetClientState: clearBuffers, cleanup and a new Response.  The read
\* buffer, _discardingBody and _bytesToDiscard stay.
ResetClientState(c) ==
  [NewClient EXCEPT !.buffer = c.buffer, !.discarding = c.discarding,
                    !.toDiscard = c.toDiscard]

\* shouldCloseConnection: an error response without an error page says
\* "close", any other one what the request says.
ShouldClose(c) ==
  \/ KeepAlive \notin c.headers
  \/ c.state # "PARSE_OK" /\ ~ErrorPages

\* The response is sent: processRequest and handleResponse.
Respond ==
  /\ client.state \in Parsed
  /\ answers' = Append(answers,
       [status |-> client.state,
        body |-> IF client.state = "PARSE_OK" THEN client.body ELSE <<>>])
  /\ client' = IF ShouldClose(client) THEN [NewClient EXCEPT !.state = "closed"]
               ELSE ResetClientState(client)
  /\ UNCHANGED <<peer, received, disk>>

DiskFills ==
  /\ disk = "ok" /\ disk' = "full"
  /\ UNCHANGED <<peer, received, client, answers>>

\* Nothing more comes, or nobody listens.
Quiet ==
  /\ \/ client.state = "closed"
     \/ client.state \notin Parsed /\ received = Len(Stream)
  /\ UNCHANGED vars

Next == ProcessRead \/ Respond \/ DiskFills \/ Quiet

Spec == Init /\ [][Next]_vars

-----------------------------------------------------------------------------
(* Properties *)

Units == Kinds \X Nat

TypeOK ==
  /\ conversation \in Conversations /\ pipelined \in Pipelining
  /\ received \in 0..Arrived /\ disk \in {"ok", "full"}
  /\ client \in
       [state: {"RESET", "PARSE_INCOMPLETE", "closed"} \cup Parsed,
        phase: {"START", "HEADER", "BODY"}, buffer: Seq(Units),
        headers: SUBSET Units, chunk:
          [state: {"CHUNK_SIZE", "CHUNK_DATA", "CHUNK_CRLF", "CHUNK_DONE"},
           size: Nat, read: Nat],
        hasLength: BOOLEAN, length: Nat, bytesRead: Nat, discarding: BOOLEAN,
        toDiscard: Nat, body: Seq(Units), inDisk: BOOLEAN]
  /\ client.bytesRead <= client.length
  /\ client.chunk.state = "CHUNK_DATA" => client.chunk.read < client.chunk.size
  /\ answers \in Seq([status: Parsed, body: Seq(Units)])

\* The answers a request may get, whatever reads it came in and whatever was
\* sent before it on the connection.
Due(req) ==
  (IF Len(Body(req)) > MaxBody THEN {[status |-> "PARSE_TOO_LARGE", body |-> <<>>]}
   ELSE {[status |-> "PARSE_OK", body |-> Body(req)]})
  \cup (IF Len(Body(req)) > MaxBuffer /\ disk = "full"
        THEN {[status |-> "PARSE_ERROR", body |-> <<>>]} ELSE {})

\* The k-th answer is one the k-th request is due: its own body, whole and
\* nothing else, or the refusal its size calls for.
AnswersAreDue ==
  \A k \in 1..Len(answers) : answers[k] \in Due(conversation[k])

\* Between two requests the read buffer holds what has come of the next one
\* from its first byte on: the parser has taken each request to its end and
\* not a byte further.
StaysInStep ==
  LET n == Len(answers) + (IF client.state = "PARSE_OK" THEN 1 ELSE 0) IN
  client.state \in {"RESET", "PARSE_OK"} =>
    client.buffer = SubSeq(Stream, Len(Sent(n)) + 1, received)

\* What is kept of a body never exceeds client_max_body_size, nor what is
\* kept in memory client_body_buffer_size.  The first holds only of peers
\* that announce nothing so large that the sum in CHUNK_SIZE wraps.
BodyIsBounded ==
  /\ Len(client.body) <= MaxBody
  /\ ~client.inDisk => Len(client.body) <= MaxBuffer

\* The conversations of which it is claimed: no number sent wraps the sum.
NothingWraps ==
  \A q \in Conversations : \A k \in 1..Len(q) : \A u \in ToSet(Bytes(q[k])) :
    u[2] + MaxBody < WordSize

\* A request that has arrived whole is answered: however it was cut into
\* reads, the parser does not wait for more of it.  (Of a peer that sends one
\* request at a time: a pipelined one waits in the buffer for the next read.)
CompleteIsAnswered ==
  ~pipelined /\ received = Arrived /\ client.state # "closed" =>
    client.state \in Parsed \/ Len(answers) = Len(conversation)
=============================================================================
