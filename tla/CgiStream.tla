------------------------------ MODULE CgiStream ------------------------------
(***************************************************************************)
(* One CGI process and the client it answers: what happens to each byte    *)
(* from the process's stdout to the client's socket.  The bytes cross the  *)
(* pipe, Cgi::_outputBuffer, the chunks of Response::_outBuffer,           *)
(* Client::_writeBuffer and short send()s; EventLoop has the same steps    *)
(* with the buffers reduced to empty or not.                               *)
(*                                                                         *)
(* A unit stands for bytes that travel together: "h" a header line, "rnrn" *)
(* the two line ends CRLF CRLF, "nn" LF LF, anything else a byte of body.  *)
(***************************************************************************)
EXTENDS Naturals, Sequences, SequencesExt

CONSTANTS
  Scripts,  \* what the process may write, and how it exits
  PipeCap,  \* capacity of the pipe
  BufSize   \* BUFFER_SIZE, what one read() takes at most

Unit == STRING
Script == [out: Seq(Unit), exit: {"ok", "failed"}]

ASSUME ScriptsAssumption == Scripts \subseteq Script

\* 64 KiB both: one readFromPipe after the process has ended takes the rest.
ASSUME CapacityAssumption ==
  /\ PipeCap \in Nat \ {0} /\ BufSize \in Nat
  /\ PipeCap <= BufSize

VARIABLES
  script,    \* the CGI that runs
  written,   \* how many units it has written
  life,      \* "writing", "closed" (stdout) or "exited"
  pipe,      \* written and not yet read
  buffer,    \* Cgi::_outputBuffer
  attached,  \* the Cgi exists: cleanupCgi has not been called
  state,     \* the client's: CGI_JUST_STARTED, CGI_COMPLETED, RESET
  stage,     \* Response::_chunkState
  chunked,   \* Response::_isChunked
  out,       \* Response::_outBuffer
  message,   \* what buildResponseString returns when not chunked
  wbuf,      \* Client::_writeBuffer
  wire       \* what the client has received

process == <<script, written, life>>
response == <<stage, chunked, out, message>>
vars == <<script, written, life, pipe, buffer, attached, state, stage,
          chunked, out, message, wbuf, wire>>

\* What is sent: a status line with its headers, a chunk's size line, units
\* of data, the line end after them, the last chunk, an error response.
Piece(kind, size, data) == [kind |-> kind, size |-> size, data |-> data]
StatusLine == Piece("head", 0, "")
Size(n) == Piece("size", n, "")
Data(u) == Piece("data", 0, u)
LineEnd == Piece("line end", 0, "")
LastChunk == Piece("last chunk", 0, "")
ErrorResponse == <<Piece("error head", 0, ""), Piece("error body", 0, "")>>

Init ==
  /\ script \in Scripts /\ written = 0 /\ life = "writing"
  /\ pipe = <<>> /\ buffer = <<>> /\ attached = TRUE
  /\ state = "CGI_JUST_STARTED"
  /\ stage = "headers" /\ chunked = FALSE /\ out = <<>> /\ message = <<>>
  /\ wbuf = <<>> /\ wire = <<>>

-----------------------------------------------------------------------------
(* The CGI process *)

CgiWrites ==
  /\ life = "writing"
  /\ \E n \in 1..(PipeCap - Len(pipe)) :
       /\ written + n <= Len(script.out)
       /\ pipe' = pipe \o SubSeq(script.out, written + 1, written + n)
       /\ written' = written + n
  /\ UNCHANGED <<script, life, buffer, attached, state, response, wbuf, wire>>

\* A failing process may stop anywhere.
CgiCloses ==
  /\ life = "writing" /\ (script.exit = "ok" => written = Len(script.out))
  /\ life' = "closed"
  /\ UNCHANGED <<script, written, pipe, buffer, attached, state, response, wbuf, wire>>

CgiExits ==
  /\ life = "closed" /\ life' = "exited"
  /\ UNCHANGED <<script, written, pipe, buffer, attached, state, response, wbuf, wire>>

-----------------------------------------------------------------------------
(* processClientEvents on the pipe *)

\* (mutant) a hangup never completes the request.
PipeEventsOnlyRead(in, hup) ==
  /\ buffer' = buffer \o pipe /\ pipe' = <<>> /\ UNCHANGED state

\* readFromPipe, once for POLLIN and once more when the process is reaped.
\* With PipeCap <= BufSize the first read leaves nothing to the second.
PipeEvents(in, hup) ==
  LET done == hup /\ life = "exited"
      n == IF in \/ done THEN IF Len(pipe) <= BufSize THEN Len(pipe) ELSE BufSize
           ELSE 0
  IN
  /\ buffer' = buffer \o SubSeq(pipe, 1, n)
  /\ pipe' = SubSeq(pipe, n + 1, Len(pipe))
  /\ state' = IF done THEN "CGI_COMPLETED" ELSE state

\* The events are those of the last poll(): what came since may be missing,
\* but a pipe that had hung up gets nothing more.
ProcessPipe ==
  /\ attached
  /\ \E in, hup \in BOOLEAN :
       /\ in \/ hup
       /\ in => pipe # <<>>
       /\ hup => life # "writing" /\ (pipe # <<>> => in)
       /\ PipeEvents(in, hup)
  /\ UNCHANGED <<process, attached, response, wbuf, wire>>

-----------------------------------------------------------------------------
(* Response::appendCgiChunk *)

\* Where parseCgiHeaders ends the headers: at the first CRLF CRLF, in the
\* body if need be, else at the first LF LF; 0 if neither has arrived.
HeaderEnd(b) ==
  IF Contains(b, "rnrn") THEN SelectInSeq(b, LAMBDA u : u = "rnrn")
  ELSE SelectInSeq(b, LAMBDA u : u = "nn")

\* (mutant) an empty buffer makes an empty chunk, which ends the body.
ChunkOfAny(b) ==
  <<Size(Len(b))>> \o [k \in 1..Len(b) |-> Data(b[k])] \o <<LineEnd>>

\* appendChunk, without its check for an empty buffer.
Chunk(b) == IF b = <<>> THEN <<>>
            ELSE <<Size(Len(b))>> \o [k \in 1..Len(b) |-> Data(b[k])] \o <<LineEnd>>

\* A Response and the buffer it is built from, between calls of a handler.
Current == [stage |-> stage, chunked |-> chunked, out |-> out, buffer |-> buffer]

\* initChunked and the status line, without the first n units of the buffer.
Begin(r, n) == [r EXCEPT !.stage = "body", !.chunked = TRUE, !.out = @ \o <<StatusLine>>,
                         !.buffer = SubSeq(@, n + 1, Len(@))]

\* (mutant) the buffer is kept.
StreamKeeps(r) ==
  IF r.stage = "body" THEN [r EXCEPT !.out = @ \o Chunk(r.buffer)] ELSE r

\* The body states of appendCgiChunk: the buffer becomes a chunk.
Stream(r) ==
  IF r.stage = "body"
  THEN [r EXCEPT !.out = @ \o Chunk(r.buffer), !.buffer = <<>>] ELSE r

\* appendCgiChunk(buffer): nothing before the headers are complete.
AppendOutput(r) ==
  IF r.stage # "headers" THEN Stream(r)
  ELSE IF HeaderEnd(r.buffer) = 0 THEN r
  ELSE Stream(Begin(r, HeaderEnd(r.buffer)))

\* (mutant) the state says finished, the last chunk is not sent.
FinishUnended(r) == [r EXCEPT !.stage = "finished"]

\* finishCgiChunked.
Finish(r) == IF r.stage = "finished" THEN r
             ELSE [r EXCEPT !.out = @ \o <<LastChunk>>, !.stage = "finished"]

\* (mutant) what has no headers is ended without being begun.
AppendFinalUnbegun(r) == Finish(Stream(r))

\* appendCgiChunk(buffer, true): headers that never ended are sent as body.
AppendFinal(r) ==
  Finish(IF r.stage = "headers" THEN Stream(Begin(r, 0)) ELSE Stream(r))

-----------------------------------------------------------------------------
(* handleCgiIO and handleResponse: one POLLOUT of the client *)

\* prepareWriteBuffer, with m for buildResponseString.
Prepared(r, m) == IF r.chunked THEN wbuf \o r.out
                  ELSE IF wbuf = <<>> THEN m ELSE wbuf

\* handleResponse: a send() of 1..Len(w) pieces, finalizeChunkedWrite and,
\* once all is sent, resetClientState.
HandleResponse(r, m) ==
  LET w == Prepared(r, m) IN
  \/ /\ w = <<>>
     /\ stage' = r.stage /\ chunked' = r.chunked /\ out' = r.out /\ message' = m
     /\ UNCHANGED <<state, wbuf, wire>>
  \/ \E n \in 1..Len(w) :
       LET all == n = Len(w)
           streaming == r.chunked /\ ~(all /\ r.stage = "finished")
       IN
       /\ wire' = wire \o SubSeq(w, 1, n)
       /\ wbuf' = SubSeq(w, n + 1, Len(w))
       /\ IF all /\ ~streaming
          THEN /\ state' = "RESET"
               /\ stage' = "headers" /\ chunked' = FALSE
               /\ out' = <<>> /\ message' = <<>>
          ELSE /\ UNCHANGED state
               /\ stage' = r.stage /\ chunked' = streaming
               /\ out' = (IF r.chunked THEN <<>> ELSE r.out) /\ message' = m

\* cleanupCgi: the process has been reaped, the pipe is closed, the Cgi gone.
CleanupCgi == attached' = FALSE /\ buffer' = <<>> /\ pipe' = <<>>

RelayOutput ==
  /\ attached /\ state = "CGI_JUST_STARTED"
  /\ LET r == AppendOutput(Current) IN
     HandleResponse(r, message) /\ buffer' = r.buffer
  /\ UNCHANGED <<process, pipe, attached>>

FinishOutput ==
  /\ attached /\ state = "CGI_COMPLETED" /\ script.exit = "ok"
  /\ HandleResponse(AppendFinal(AppendOutput(Current)), message)
  /\ CleanupCgi
  /\ UNCHANGED process

\* hasSuccessfullyFinished is false: buildErrorResponse, whatever was sent.
FailOutput ==
  /\ attached /\ state = "CGI_COMPLETED" /\ script.exit = "failed"
  /\ HandleResponse(Current, ErrorResponse)
  /\ CleanupCgi
  /\ UNCHANGED process

SendRest ==
  /\ ~attached /\ state # "RESET"
  /\ HandleResponse(Current, message)
  /\ UNCHANGED <<process, pipe, buffer, attached>>

Answered == state = "RESET" /\ UNCHANGED vars

ProcessWrite == RelayOutput \/ FinishOutput \/ FailOutput \/ SendRest

Next == \/ CgiWrites \/ CgiCloses \/ CgiExits
        \/ ProcessPipe \/ ProcessWrite \/ Answered

Spec == Init /\ [][Next]_vars

\* The loop polls both descriptors again and again, the client reads what it
\* is sent, and the process runs to its end.
Fairness == /\ WF_vars(CgiWrites) /\ WF_vars(CgiCloses) /\ WF_vars(CgiExits)
            /\ WF_vars(ProcessPipe) /\ WF_vars(ProcessWrite)

LiveSpec == Spec /\ Fairness

-----------------------------------------------------------------------------
(* Properties *)

Pieces == [kind: {"head", "size", "data", "line end", "last chunk",
                  "error head", "error body"}, size: Nat, data: Unit \cup {""}]

TypeOK ==
  /\ script \in Scripts /\ written \in 0..Len(script.out)
  /\ life \in {"writing", "closed", "exited"}
  /\ pipe \in Seq(Unit) /\ Len(pipe) <= PipeCap /\ buffer \in Seq(Unit)
  /\ attached \in BOOLEAN
  /\ state \in {"CGI_JUST_STARTED", "CGI_COMPLETED", "RESET"}
  /\ stage \in {"headers", "body", "finished"} /\ chunked \in BOOLEAN
  /\ chunked <=> stage # "headers"
  /\ out \in Seq(Pieces) /\ message \in Seq(Pieces)
  /\ wbuf \in Seq(Pieces) /\ wire \in Seq(Pieces)

\* The body of a CGI's output: what follows the first blank line, all of it
\* when there is none.
BlankLine(o) == SelectInSeq(o, LAMBDA u : u \in {"rnrn", "nn"})
BodyOf(o) == SubSeq(o, BlankLine(o) + 1, Len(o))

\* What the client makes of the pieces it received.
Has(kind) == \E k \in 1..Len(wire) : wire[k].kind = kind
DataOf(p) == IF p.kind = "data" THEN <<p.data>> ELSE <<>>
DataIn(s) == FlattenSeq([k \in 1..Len(s) |-> DataOf(s[k])])
Delivered == DataIn(wire)
Status == CASE Has("error body") -> "error"
            [] Has("last chunk") -> "complete"
            [] Has("head") /\ ~Has("last chunk") -> "streaming"
            [] OTHER -> "waiting"

\* The stream keeps the promises of CgiRelay.
Relay == INSTANCE CgiRelay WITH
  body <- BodyOf(script.out), succeeds <- script.exit = "ok",
  delivered <- Delivered, status <- Status
RelaySpec == Relay!Spec

\* The pieces of a chunked response, or its beginning: every chunk has the size
\* its size line says, only the last one is empty, and nothing follows the end.
WellFormed(s) ==
  /\ \A k \in 1..Len(s) : s[k].kind = "head" <=> k = 1
  /\ \A k \in 1..Len(s) : s[k].kind = "size" =>
       /\ s[k].size > 0 /\ k + s[k].size < Len(s)
       /\ \A j \in 1..s[k].size : s[k + j].kind = "data"
       /\ s[k + s[k].size + 1] = LineEnd
  /\ \A k \in 2..Len(s) : s[k - 1].kind \in {"head", "line end"} =>
       s[k].kind \in {"size", "last chunk"}
  /\ \A k \in 1..Len(s) : s[k].kind = "last chunk" => k = Len(s)
  /\ ~Contains(s, ErrorResponse[1])

\* What is sent is one well-formed chunked response, or one error response.
Framed ==
  LET s == wire \o wbuf \o out IN IsPrefix(s, ErrorResponse) \/ WellFormed(s)

\* A CGI that succeeds is answered in full.
SuccessIsAnswered == script.exit = "ok" ~> Status = "complete"

\* One that fails is answered with an error unless its body had begun.
FailureIsTold == script.exit = "failed" ~> (Status = "error" \/ stage = "body")

\* Both ways to end the headers are accepted, and the body is what follows
\* (violated, see the run LfHeaders).
BodyIsIntact == IsPrefix(Delivered, BodyOf(script.out))
==============================================================================
