--------------------------- MODULE CgiStreamProofs ---------------------------
(***************************************************************************)
(* Proofs about CgiStream, for every script, capacity of the pipe and size *)
(* of the buffer: types; that what is sent is always one well-formed       *)
(* chunked response or one error response; and that the client is told     *)
(* what CgiRelay promises, whatever the script, unless it ends its headers *)
(* in both ways.                                                           *)
(***************************************************************************)
EXTENDS CgiStream, SequenceLemmas

-----------------------------------------------------------------------------
(* Sequences *)

\* A send() of n pieces of w, after u: x has been sent, y is left.
Sends(u, w, n, x, y) == x = u \o SubSeq(w, 1, n) /\ y = SubSeq(w, n + 1, Len(w))

\* It loses nothing.
Kept(u, w, n, x, y) ==
  /\ x \in Seq(Pieces) /\ y \in Seq(Pieces) /\ x \o y = u \o w
  /\ y = <<>> <=> n = Len(w)

LEMMA SendKeeps ==
  \A u, w \in Seq(Pieces) : \A n \in 1..Len(w) : \A x, y :
    Sends(u, w, n, x, y) => Kept(u, w, n, x, y)
<1> SUFFICES ASSUME NEW u \in Seq(Pieces), NEW w \in Seq(Pieces), NEW n \in 1..Len(w),
                    NEW x, NEW y, Sends(u, w, n, x, y)
             PROVE  Kept(u, w, n, x, y)
  OBVIOUS
<1> DEFINE s == SubSeq(w, 1, n)
<1>1. n \in 0..Len(w) /\ Len(w) \in Nat
  OBVIOUS
<1>2. s \in Seq(Pieces) /\ y \in Seq(Pieces) /\ s \o y = w /\ Len(y) = Len(w) - n
  BY <1>1, Cut DEF Sends
<1>3. y = <<>> <=> n = Len(w)
  <2>1. Len(<<>>) = 0 /\ (y # <<>> => Len(y) \in Nat \ {0})
    BY <1>2, EmptySeq
  <2> QED BY <1>1, <1>2, <2>1
<1>4. x = u \o s
  BY DEF Sends
<1> HIDE DEF s
<1>5. u \o s \in Seq(Pieces)
  BY <1>2, Joined
<1>6. Assoc(u, s, y)
  BY <1>2, Associated
<1>7. (u \o s) \o y = u \o w
  BY <1>2, <1>6 DEF Assoc
<1> QED BY <1>2, <1>3, <1>4, <1>5, <1>7 DEF Kept

\* A chunk piece by piece.
LEMMA ChunkPieces ==
  ASSUME NEW b \in Seq(Unit), b # <<>>
  PROVE  /\ Chunk(b) \in Seq(Pieces) /\ Len(b) \in Nat \ {0}
         /\ Len(Chunk(b)) = Len(b) + 2
         /\ Chunk(b)[1] = Size(Len(b))
         /\ \A j \in 1..Len(b) : Chunk(b)[j + 1] = Data(b[j])
         /\ Chunk(b)[Len(b) + 2] = LineEnd
<1> DEFINE n == Len(b)
           d == [k \in 1..n |-> Data(b[k])]
           x == <<Size(n)>>
           y == <<LineEnd>>
<1>1. n \in Nat \ {0}
  BY EmptySeq
<1>2. Size(n) \in Pieces /\ LineEnd \in Pieces /\ \A k \in 1..n : Data(b[k]) \in Pieces
  <2>1. \A k \in 1..n : b[k] \in Unit
    BY ElementOfSeq
  <2> HIDE DEF n
  <2>2. Size(n) \in Pieces /\ LineEnd \in Pieces
    BY <1>1 DEF Size, LineEnd, Piece, Pieces
  <2>3. \A k \in 1..n : Data(b[k]) \in Pieces
    BY <2>1 DEF Data, Piece, Pieces
  <2> QED BY <2>2, <2>3
<1>3. Chunk(b) = x \o d \o y
  BY DEF Chunk
<1>4. x \in Seq(Pieces) /\ Len(x) = 1 /\ x[1] = Size(n)
      /\ y \in Seq(Pieces) /\ Len(y) = 1 /\ y[1] = LineEnd
  BY <1>2
<1>5. d \in Seq(Pieces) /\ Len(d) = n /\ \A k \in 1..n : d[k] = Data(b[k])
  BY <1>1, <1>2
<1> HIDE DEF n, d, x, y
<1> DEFINE z == x \o d
<1>6. z \in Seq(Pieces) /\ Len(z) = n + 1 /\ z[1] = Size(n)
      /\ \A k \in 1..n : z[1 + k] = Data(b[k])
  <2>1. 1 \in 1..Len(x)
    BY <1>4
  <2>2. x \o d \in Seq(Pieces) /\ Len(x \o d) = Len(x) + Len(d)
        /\ \A i \in 1..Len(x) : (x \o d)[i] = x[i]
        /\ \A k \in 1..Len(d) : (x \o d)[Len(x) + k] = d[k]
    <3>1. x \in Seq(Pieces) /\ d \in Seq(Pieces)
      BY <1>4, <1>5
    <3> QED BY <3>1, Joined
  <2>3. (x \o d)[1] = x[1]
    BY <2>1, <2>2
  <2> QED BY <1>1, <1>4, <1>5, <2>2, <2>3
<1> HIDE DEF z
<1>7. /\ z \o y \in Seq(Pieces) /\ Len(z \o y) = n + 2
      /\ \A i \in 1..(n + 1) : (z \o y)[i] = z[i]
      /\ (z \o y)[n + 2] = LineEnd
  <2>1. 1 \in 1..Len(y) /\ (n + 1) + 1 = n + 2
    BY <1>1, <1>4
  <2>2. (z \o y)[Len(z) + 1] = y[1]
    BY <1>4, <1>6, <2>1, Joined
  <2>3. z \o y \in Seq(Pieces) /\ Len(z \o y) = Len(z) + Len(y)
        /\ \A i \in 1..Len(z) : (z \o y)[i] = z[i]
    <3>1. z \in Seq(Pieces) /\ y \in Seq(Pieces)
      BY <1>4, <1>6
    <3> QED BY <3>1, Joined
  <2> QED BY <1>1, <1>4, <1>6, <2>1, <2>2, <2>3
<1>8. (z \o y)[1] = Size(n)
  BY <1>1, <1>6, <1>7
<1>9. ASSUME NEW j \in 1..n PROVE (z \o y)[j + 1] = Data(b[j])
  BY <1>1, <1>6, <1>7
<1> QED BY <1>1, <1>3, <1>7, <1>8, <1>9 DEF z, n

-----------------------------------------------------------------------------
(* Types *)

\* What the pieces are.
LEMMA PiecesTyped ==
  /\ StatusLine \in Pieces /\ LastChunk \in Pieces
  /\ <<StatusLine>> \in Seq(Pieces) /\ <<LastChunk>> \in Seq(Pieces)
  /\ <<>> \in Seq(Pieces) /\ ErrorResponse \in Seq(Pieces)
<1>1. StatusLine \in Pieces /\ LastChunk \in Pieces
  BY DEF StatusLine, LastChunk, Piece, Pieces
<1>2. Piece("error head", 0, "") \in Pieces /\ Piece("error body", 0, "") \in Pieces
  BY DEF Piece, Pieces
<1>3. <<StatusLine>> \in Seq(Pieces) /\ <<LastChunk>> \in Seq(Pieces)
  BY <1>1
<1> DEFINE h == Piece("error head", 0, "")
           b == Piece("error body", 0, "")
<1>4. ErrorResponse \in Seq(Pieces)
  <2>1. ErrorResponse = <<h, b>>
    BY DEF ErrorResponse
  <2>2. h \in Pieces /\ b \in Pieces
    BY <1>2
  <2> HIDE DEF h, b
  <2>3. <<h, b>> \in Seq(Pieces)
    BY <2>2
  <2> QED BY <2>1, <2>3
<1>5. <<>> \in Seq(Pieces)
  BY EmptySeq
<1> QED BY <1>1, <1>3, <1>4, <1>5

LEMMA ChunkTyped ==
  ASSUME NEW b \in Seq(Unit)
  PROVE  Chunk(b) \in Seq(Pieces)
<1>1. CASE b = <<>>
  BY <1>1, PiecesTyped DEF Chunk
<1>2. CASE b # <<>>
  BY <1>2, ChunkPieces
<1> QED BY <1>1, <1>2

\* A response between the calls of a handler.
Response ==
  {r \in [stage: {"headers", "body", "finished"}, chunked: BOOLEAN,
          out: Seq(Pieces), buffer: Seq(Unit)] : r.chunked <=> r.stage # "headers"}

LEMMA CurrentTyped == TypeOK => Current \in Response
BY DEF TypeOK, Current, Response

\* What the calls of appendCgiChunk add to a response.
LEMMA BeginStep ==
  ASSUME NEW r \in Response, r.stage = "headers", NEW n \in 0..Len(r.buffer)
  PROVE  /\ Begin(r, n) \in Response /\ Begin(r, n).stage = "body"
         /\ Begin(r, n).out = r.out \o <<StatusLine>>
         /\ Begin(r, n).buffer = SubSeq(r.buffer, n + 1, Len(r.buffer))
<1> DEFINE o == r.out \o <<StatusLine>>
           b == SubSeq(r.buffer, n + 1, Len(r.buffer))
<1>1. r.out \in Seq(Pieces) /\ r.buffer \in Seq(Unit)
  BY DEF Response
<1>2. o \in Seq(Pieces) /\ b \in Seq(Unit)
  BY <1>1, PiecesTyped, Cut, ConcatProperties
<1>3. Begin(r, n) = [stage |-> "body", chunked |-> TRUE, out |-> o, buffer |-> b]
  <2>1. r \in [stage: {"headers", "body", "finished"}, chunked: BOOLEAN,
              out: Seq(Pieces), buffer: Seq(Unit)]
    BY DEF Response
  <2>2. Begin(r, n) = [r EXCEPT !.stage = "body", !.chunked = TRUE, !.out = o, !.buffer = b]
    BY DEF Begin
  <2> HIDE DEF o, b
  <2> QED BY <2>1, <2>2
<1> HIDE DEF o, b
<1>4. Begin(r, n) \in Response /\ Begin(r, n).stage = "body" /\ Begin(r, n).out = o
      /\ Begin(r, n).buffer = b
  BY <1>2, <1>3 DEF Response
<1> QED BY <1>4 DEF o, b

LEMMA StreamStep ==
  ASSUME NEW r \in Response
  PROVE  /\ Stream(r) \in Response /\ Stream(r).stage = r.stage
         /\ r.stage # "body" => Stream(r) = r
         /\ r.stage = "body" => /\ Stream(r).out = r.out \o Chunk(r.buffer)
                               /\ Stream(r).buffer = <<>>
<1>1. CASE r.stage # "body"
  BY <1>1 DEF Stream
<1>2. CASE r.stage = "body"
  <2> DEFINE o == r.out \o Chunk(r.buffer)
  <2>1. r.out \in Seq(Pieces) /\ r.buffer \in Seq(Unit)
    BY DEF Response
  <2>2. o \in Seq(Pieces) /\ <<>> \in Seq(Unit)
    BY <2>1, ChunkTyped, ConcatProperties
  <2>3. Stream(r) = [stage |-> "body", chunked |-> TRUE, out |-> o, buffer |-> <<>>]
    BY <1>2 DEF Stream, Response
  <2> HIDE DEF o
  <2>4. Stream(r) \in Response /\ Stream(r).stage = "body" /\ Stream(r).out = o
        /\ Stream(r).buffer = <<>>
    BY <2>2, <2>3 DEF Response
  <2> QED BY <1>2, <2>4 DEF o
<1> QED BY <1>1, <1>2

LEMMA FinishStep ==
  ASSUME NEW r \in Response, r.stage # "headers"
  PROVE  /\ Finish(r) \in Response /\ Finish(r).stage = "finished"
         /\ r.stage = "body" => Finish(r).out = r.out \o <<LastChunk>>
         /\ r.stage = "finished" => Finish(r) = r
<1>1. CASE r.stage = "finished"
  BY <1>1 DEF Finish
<1>2. CASE r.stage = "body"
  <2> DEFINE o == r.out \o <<LastChunk>>
  <2>1. o \in Seq(Pieces)
    BY PiecesTyped, ConcatProperties DEF Response
  <2>2. Finish(r) = [stage |-> "finished", chunked |-> TRUE, out |-> o,
                     buffer |-> r.buffer]
    BY <1>2 DEF Finish, Response
  <2> HIDE DEF o
  <2>3. Finish(r) \in Response /\ Finish(r).stage = "finished" /\ Finish(r).out = o
    BY <2>1, <2>2 DEF Response
  <2> QED BY <1>2, <2>3 DEF o
<1> QED BY <1>1, <1>2 DEF Response

-----------------------------------------------------------------------------
(* Where the headers end *)

LEMMA HeaderEndInRange ==
  ASSUME NEW b \in Seq(Unit)
  PROVE  HeaderEnd(b) \in 0..Len(b)
<1> DEFINE At(u) == {i \in 1..Len(b) : b[i] = u}
           First(u) == IF At(u) # {} THEN Min(At(u)) ELSE 0
<1>1. HeaderEnd(b) = First("rnrn") \/ HeaderEnd(b) = First("nn")
  BY Zenon DEF HeaderEnd, SelectInSeq
<1>2. ASSUME NEW u PROVE First(u) \in 0..Len(b)
  <2>1. CASE At(u) # {}
    <3>1. At(u) \in SUBSET Nat
      OBVIOUS
    <3> HIDE DEF At
    <3>2. Min(At(u)) \in At(u)
      BY <2>1, <3>1, LeastExists
    <3> QED BY <2>1, <3>2 DEF At
  <2>2. CASE At(u) = {}
    BY <2>2
  <2> QED BY <2>1, <2>2
<1> QED BY <1>1, <1>2
-----------------------------------------------------------------------------
(* The calls of appendCgiChunk *)

LEMMA AppendOutputStep ==
  ASSUME NEW r \in Response
  PROVE  LET q == AppendOutput(r) IN
         /\ q \in Response
         /\ \/ q = r
            \/ q.stage = "body" /\ r.stage = "body" /\ q.out = r.out \o Chunk(r.buffer)
            \/ /\ q.stage = "body" /\ r.stage = "headers"
               /\ \E b \in Seq(Unit) : q.out = (r.out \o <<StatusLine>>) \o Chunk(b)
<1>1. CASE r.stage # "headers"
  BY <1>1, StreamStep DEF AppendOutput
<1>2. CASE r.stage = "headers" /\ HeaderEnd(r.buffer) = 0
  BY <1>2 DEF AppendOutput
<1>3. CASE r.stage = "headers" /\ HeaderEnd(r.buffer) # 0
  <2> DEFINE n == HeaderEnd(r.buffer)
             s == Begin(r, n)
  <2>1. r.buffer \in Seq(Unit)
    BY DEF Response
  <2>2. n \in 0..Len(r.buffer)
    BY <2>1, HeaderEndInRange
  <2>3. AppendOutput(r) = Stream(s)
    BY <1>3 DEF AppendOutput
  <2>4. s \in Response /\ s.stage = "body" /\ s.out = r.out \o <<StatusLine>>
    BY <1>3, <2>2, BeginStep
  <2> HIDE DEF s, n
  <2>5. s.buffer \in Seq(Unit)
    BY <2>4 DEF Response
  <2>6. Stream(s) \in Response /\ Stream(s).stage = "body"
        /\ Stream(s).out = (r.out \o <<StatusLine>>) \o Chunk(s.buffer)
    BY <2>4, StreamStep
  <2> QED BY <1>3, <2>3, <2>5, <2>6
<1> QED BY <1>1, <1>2, <1>3

LEMMA AppendFinalStep ==
  ASSUME NEW r \in Response, r.stage # "finished"
  PROVE  LET q == AppendFinal(r) IN
         /\ q \in Response /\ q.stage = "finished"
         /\ \/ r.stage = "body" /\ q.out = (r.out \o Chunk(r.buffer)) \o <<LastChunk>>
            \/ /\ r.stage = "headers"
               /\ \E b \in Seq(Unit) :
                    q.out = ((r.out \o <<StatusLine>>) \o Chunk(b)) \o <<LastChunk>>
<1>1. CASE r.stage = "body"
  <2>1. AppendFinal(r) = Finish(Stream(r))
    BY <1>1 DEF AppendFinal
  <2>2. Stream(r) \in Response /\ Stream(r).stage = "body"
        /\ Stream(r).out = r.out \o Chunk(r.buffer)
    BY <1>1, StreamStep
  <2> QED BY <1>1, <2>1, <2>2, FinishStep
<1>2. CASE r.stage = "headers"
  <2> DEFINE s == Begin(r, 0)
  <2>1. AppendFinal(r) = Finish(Stream(s))
    BY <1>2 DEF AppendFinal
  <2>2. s \in Response /\ s.stage = "body" /\ s.out = r.out \o <<StatusLine>>
    <3>1. 0 \in 0..Len(r.buffer)
      BY DEF Response
    <3> QED BY <1>2, <3>1, BeginStep
  <2> HIDE DEF s
  <2>3. s.buffer \in Seq(Unit)
    BY <2>2 DEF Response
  <2>4. Stream(s) \in Response /\ Stream(s).stage = "body"
        /\ Stream(s).out = (r.out \o <<StatusLine>>) \o Chunk(s.buffer)
    BY <2>2, StreamStep
  <2> QED BY <1>2, <2>1, <2>3, <2>4, FinishStep
<1> QED BY <1>1, <1>2 DEF Response

-----------------------------------------------------------------------------
(* What handleResponse does with a prepared response *)

\* The variables it may change.
ClientTyped ==
  /\ state \in {"CGI_JUST_STARTED", "CGI_COMPLETED", "RESET"}
  /\ stage \in {"headers", "body", "finished"} /\ chunked \in BOOLEAN
  /\ chunked <=> stage # "headers"
  /\ out \in Seq(Pieces) /\ message \in Seq(Pieces)
  /\ wbuf \in Seq(Pieces) /\ wire \in Seq(Pieces)

\* All that was or is to be sent.
Sent == wire \o wbuf \o out

\* A chunked response: nothing is lost between the buffers.
LEMMA HandlesChunked ==
  ASSUME ClientTyped, NEW r \in Response, r.chunked, NEW m \in Seq(Pieces),
         HandleResponse(r, m)
  PROVE  /\ ClientTyped' /\ Sent' = wire \o wbuf \o r.out
         /\ \/ /\ state' = "RESET" /\ stage' = "headers" /\ r.stage = "finished"
               /\ wbuf' = <<>> /\ out' = <<>>
            \/ state' = state /\ stage' = r.stage
<1> DEFINE w == wbuf \o r.out
<1>1. r.stage \in {"body", "finished"} /\ r.out \in Seq(Pieces)
      /\ wire \in Seq(Pieces) /\ wbuf \in Seq(Pieces)
  BY DEF Response, ClientTyped
<1>2. w \in Seq(Pieces) /\ wire \o wbuf \o r.out = wire \o w
  <2>1. w \in Seq(Pieces)
    BY <1>1, Joined
  <2>2. Assoc(wire, wbuf, r.out)
    BY <1>1, Associated
  <2> QED BY <2>1, <2>2 DEF Assoc
<1>3. Prepared(r, m) = w
  BY DEF Prepared
<1> HIDE DEF w
<1>4. CASE /\ w = <<>>
           /\ stage' = r.stage /\ chunked' = r.chunked /\ out' = r.out /\ message' = m
           /\ UNCHANGED <<state, wbuf, wire>>
  BY <1>1, <1>4 DEF Sent, ClientTyped, Response
<1>5. ASSUME NEW n \in 1..Len(w), Sends(wire, w, n, wire', wbuf'),
             n = Len(w), r.stage = "finished",
             state' = "RESET", stage' = "headers", chunked' = FALSE,
             out' = <<>>, message' = <<>>
      PROVE  ClientTyped' /\ Sent' = wire \o w /\ wbuf' = <<>>
  <2>1. /\ wire' \in Seq(Pieces) /\ wbuf' \in Seq(Pieces)
        /\ wire' \o wbuf' = wire \o w
        /\ wbuf' = <<>> <=> n = Len(w)
    <3>1. wire \in Seq(Pieces) /\ w \in Seq(Pieces) /\ Sends(wire, w, n, wire', wbuf')
      BY <1>1, <1>2, <1>5
    <3>2. Kept(wire, w, n, wire', wbuf')
      BY <3>1, SendKeeps
    <3> QED BY <3>2 DEF Kept
  <2>2. wire \o w \in Seq(Pieces)
    BY <1>1, <1>2, Joined
  <2>3. (wire \o w) \o <<>> = wire \o w
    BY <2>2, ConcatEmptySeq
  <2>4. wbuf' = <<>>
    BY <1>5, <2>1
  <2> QED BY <1>5, <2>1, <2>3, <2>4, PiecesTyped DEF Sent, ClientTyped
<1>6. ASSUME NEW n \in 1..Len(w), Sends(wire, w, n, wire', wbuf'),
             state' = state, stage' = r.stage, chunked' = TRUE,
             out' = <<>>, message' = m
      PROVE  ClientTyped' /\ Sent' = wire \o w
  <2>1. /\ wire' \in Seq(Pieces) /\ wbuf' \in Seq(Pieces)
        /\ wire' \o wbuf' = wire \o w
    <3>1. wire \in Seq(Pieces) /\ w \in Seq(Pieces) /\ Sends(wire, w, n, wire', wbuf')
      BY <1>1, <1>2, <1>6
    <3>2. Kept(wire, w, n, wire', wbuf')
      BY <3>1, SendKeeps
    <3> QED BY <3>2 DEF Kept
  <2>2. wire \o w \in Seq(Pieces)
    BY <1>1, <1>2, Joined
  <2>3. (wire \o w) \o <<>> = wire \o w
    BY <2>2, ConcatEmptySeq
  <2> QED BY <1>1, <1>6, <2>1, <2>3, PiecesTyped DEF Sent, ClientTyped
<1>7. \/ /\ w = <<>>
         /\ stage' = r.stage /\ chunked' = r.chunked /\ out' = r.out /\ message' = m
         /\ UNCHANGED <<state, wbuf, wire>>
      \/ \E n \in 1..Len(w) :
           /\ Sends(wire, w, n, wire', wbuf')
           /\ \/ /\ n = Len(w) /\ r.stage = "finished"
                 /\ state' = "RESET" /\ stage' = "headers" /\ chunked' = FALSE
                 /\ out' = <<>> /\ message' = <<>>
              \/ /\ state' = state /\ stage' = r.stage /\ chunked' = TRUE
                 /\ out' = <<>> /\ message' = m
  BY <1>3 DEF HandleResponse, Sends
<1> QED BY <1>2, <1>4, <1>5, <1>6, <1>7

\* A response that is not chunked is sent whole.
LEMMA HandlesPlain ==
  ASSUME ClientTyped, NEW r \in Response, ~r.chunked, NEW m \in Seq(Pieces),
         HandleResponse(r, m)
  PROVE  LET w == IF wbuf = <<>> THEN m ELSE wbuf IN
         /\ ClientTyped' /\ stage' = "headers"
         /\ \/ /\ w = <<>> /\ out' = r.out /\ message' = m
               /\ UNCHANGED <<state, wbuf, wire>>
            \/ /\ w # <<>> /\ wire' \o wbuf' = wire \o w /\ wbuf' = <<>>
               /\ out' = <<>> /\ state' = "RESET"
            \/ /\ w # <<>> /\ wire' \o wbuf' = wire \o w /\ wbuf' # <<>> /\ out' = r.out
               /\ message' = m /\ state' = state
<1> DEFINE w == IF wbuf = <<>> THEN m ELSE wbuf
<1>1. r.stage = "headers" /\ r.out \in Seq(Pieces)
      /\ wire \in Seq(Pieces) /\ wbuf \in Seq(Pieces)
  BY DEF Response, ClientTyped
<1>2. w \in Seq(Pieces)
  BY <1>1
<1>3. Prepared(r, m) = w
  BY DEF Prepared
<1> HIDE DEF w
<1>4. \/ /\ w = <<>>
         /\ stage' = r.stage /\ chunked' = r.chunked /\ out' = r.out /\ message' = m
         /\ UNCHANGED <<state, wbuf, wire>>
      \/ \E n \in 1..Len(w) :
           /\ Sends(wire, w, n, wire', wbuf')
           /\ \/ /\ n = Len(w)
                 /\ state' = "RESET" /\ stage' = "headers" /\ chunked' = FALSE
                 /\ out' = <<>> /\ message' = <<>>
              \/ /\ n # Len(w) /\ state' = state /\ stage' = r.stage /\ chunked' = FALSE
                 /\ out' = r.out /\ message' = m
  BY <1>3 DEF HandleResponse, Sends
<1>5. CASE /\ w = <<>>
           /\ stage' = r.stage /\ chunked' = r.chunked /\ out' = r.out /\ message' = m
           /\ UNCHANGED <<state, wbuf, wire>>
  BY <1>1, <1>5 DEF ClientTyped, Response, w
<1>6. ASSUME NEW n \in 1..Len(w), Sends(wire, w, n, wire', wbuf')
      PROVE  /\ wire' \in Seq(Pieces) /\ wbuf' \in Seq(Pieces)
             /\ wire' \o wbuf' = wire \o w
             /\ wbuf' = <<>> <=> n = Len(w)
  <2>1. wire \in Seq(Pieces) /\ w \in Seq(Pieces) /\ Sends(wire, w, n, wire', wbuf')
    BY <1>1, <1>2, <1>6
  <2>2. Kept(wire, w, n, wire', wbuf')
    BY <2>1, SendKeeps
  <2> QED BY <2>2 DEF Kept
<1>7. ASSUME NEW n \in 1..Len(w), Sends(wire, w, n, wire', wbuf'), n = Len(w),
             state' = "RESET", stage' = "headers", chunked' = FALSE,
             out' = <<>>, message' = <<>>
      PROVE  ClientTyped' /\ wire' \o wbuf' = wire \o w /\ wbuf' = <<>>
  BY <1>6, <1>7, PiecesTyped DEF ClientTyped
<1>8. ASSUME NEW n \in 1..Len(w), Sends(wire, w, n, wire', wbuf'), n # Len(w),
             state' = state, stage' = r.stage, chunked' = FALSE,
             out' = r.out, message' = m
      PROVE  ClientTyped' /\ wire' \o wbuf' = wire \o w /\ wbuf' # <<>>
  BY <1>1, <1>6, <1>8 DEF ClientTyped
<1>9. ASSUME NEW n \in 1..Len(w) PROVE w # <<>>
  <2>1. Len(<<>>) = 0
    OBVIOUS
  <2> QED BY <1>9, <2>1
<1> QED BY <1>1, <1>4, <1>5, <1>7, <1>8, <1>9 DEF w
-----------------------------------------------------------------------------
(* What is well formed *)

\* A chunked response that may go on with a chunk.
Open(s) ==
  /\ WellFormed(s) /\ s # <<>> /\ Len(s) > 0
  /\ s[Len(s)].kind \in {"head", "line end"}
  /\ \A k \in 1..Len(s) : s[k].kind # "last chunk"

\* The kinds of the pieces.
LEMMA Kinds ==
  /\ ErrorResponse[1].kind = "error head" /\ LineEnd.kind = "line end"
  /\ LastChunk.kind = "last chunk" /\ StatusLine.kind = "head"
  /\ \A n : Size(n).kind = "size" /\ Size(n).size = n
  /\ \A u : Data(u).kind = "data"
BY DEF ErrorResponse, LineEnd, LastChunk, StatusLine, Size, Data, Piece

LEMMA OpenHead == Open(<<StatusLine>>)
<1> DEFINE s == <<StatusLine>>
<1>1. Len(s) = 1 /\ s[1] = StatusLine /\ s # <<>>
  OBVIOUS
<1> HIDE DEF s
<1>2. 1..Len(s) = {1} /\ 2..Len(s) = {}
  BY <1>1
<1>3. s[1].kind = "head" /\ s[1] # ErrorResponse[1]
  BY <1>1, Kinds
<1>4. WellFormed(s)
  BY <1>2, <1>3 DEF WellFormed, Contains
<1>5. Len(s) > 0 /\ s[Len(s)].kind = "head" /\ \A j \in 1..Len(s) : s[j].kind # "last chunk"
  <2>1. Len(s) = 1 /\ s[1].kind = "head"
    BY <1>1, <1>3
  <2>2. \A j \in 1..Len(s) : j = 1
    BY <1>2
  <2>3. s[Len(s)].kind = "head" /\ Len(s) > 0
    BY <2>1
  <2>4. \A j \in 1..Len(s) : s[j].kind # "last chunk"
    BY <2>1, <2>2
  <2> QED BY <2>3, <2>4
<1>6. Open(s)
  BY <1>1, <1>4, <1>5 DEF Open
<1> QED BY <1>6 DEF s

\* A chunk's data lies where its chunk does.
LEMMA Within ==
  \A l, n \in Nat : \A k \in 1..l : \A j \in 1..n : k + n < l => k + j \in 1..l
OBVIOUS

LEMMA OpenChunk ==
  ASSUME NEW s \in Seq(Pieces), Open(s), NEW b \in Seq(Unit), b # <<>>
  PROVE  Open(s \o Chunk(b))
<1> DEFINE c == Chunk(b)
           t == s \o c
           l == Len(s)
           n == Len(b)
<1>1. /\ c \in Seq(Pieces) /\ n \in Nat \ {0} /\ Len(c) = n + 2 /\ c[1] = Size(n)
      /\ \A j \in 1..n : c[j + 1] = Data(b[j])
      /\ c[n + 2] = LineEnd
  BY ChunkPieces
<1> HIDE DEF c
<1>2. /\ Len(t) = l + Len(c) /\ l \in Nat
      /\ \A k \in 1..l : t[k] = s[k]
      /\ \A k \in 1..Len(c) : t[l + k] = c[k]
  <2>1. c \in Seq(Pieces)
    BY <1>1
  <2> QED BY <2>1, Joined
<1>3. /\ l > 0 /\ s[l].kind \in {"head", "line end"}
      /\ \A k \in 1..l : s[k].kind # "last chunk" /\ (s[k].kind = "head" <=> k = 1)
      /\ \A k \in 1..l : s[k] # ErrorResponse[1]
  BY DEF Open, WellFormed, Contains
<1>4. \A k \in 1..l : s[k].kind = "size" =>
        /\ s[k].size > 0 /\ k + s[k].size < l
        /\ \A j \in 1..s[k].size : s[k + j].kind = "data"
        /\ s[k + s[k].size + 1] = LineEnd
  BY DEF Open, WellFormed
<1>5. ASSUME NEW k \in 2..l, s[k - 1].kind \in {"head", "line end"}
      PROVE  s[k].kind = "size"
  <2>1. s[k].kind \in {"size", "last chunk"}
    BY <1>5 DEF Open, WellFormed
  <2>2. k \in 1..l
    OBVIOUS
  <2> QED BY <1>3, <2>1, <2>2
<1>6. ASSUME NEW k \in 1..l PROVE s[k].size \in Nat
  <2>1. s[k] \in Pieces
    BY ElementOfSeq
  <2> QED BY <2>1 DEF Pieces
<1> HIDE DEF t, l, n
<1>7. /\ Len(t) = l + n + 2 /\ t[l + 1] = Size(n) /\ t[l + n + 2] = LineEnd
      /\ \A j \in 1..n : t[l + 1 + j] = Data(b[j])
  <2>1. t[l + 1] = c[1] /\ t[l + (n + 2)] = c[n + 2]
    BY <1>1, <1>2
  <2>2. ASSUME NEW j \in 1..n PROVE t[l + 1 + j] = Data(b[j])
    <3>1. j + 1 \in 1..Len(c) /\ l + (j + 1) = l + 1 + j
      BY <1>1, <1>2
    <3>2. t[l + (j + 1)] = c[j + 1]
      BY <1>2, <3>1
    <3> QED BY <1>1, <3>1, <3>2
  <2>3. l + (n + 2) = l + n + 2
    BY <1>1, <1>2
  <2> QED BY <1>1, <1>2, <2>1, <2>2, <2>3
<1>8. \A k \in 1..Len(t) :
        \/ k \in 1..l
        \/ k = l + 1
        \/ k = l + n + 2
        \/ k - l - 1 \in 1..n /\ k = l + 1 + (k - l - 1)
  BY <1>1, <1>2, <1>7
<1>9. \A k \in 1..Len(t) :
        \/ k \in 1..l /\ t[k] = s[k]
        \/ k = l + 1 /\ t[k].kind = "size" /\ t[k].size = n
        \/ k = l + n + 2 /\ t[k] = LineEnd /\ t[k].kind = "line end"
        \/ k > l + 1 /\ k < l + n + 2 /\ t[k].kind = "data"
  <2> SUFFICES ASSUME NEW k \in 1..Len(t)
               PROVE  \/ k \in 1..l /\ t[k] = s[k]
                      \/ k = l + 1 /\ t[k].kind = "size" /\ t[k].size = n
                      \/ k = l + n + 2 /\ t[k] = LineEnd /\ t[k].kind = "line end"
                      \/ k > l + 1 /\ k < l + n + 2 /\ t[k].kind = "data"
    OBVIOUS
  <2>1. CASE k \in 1..l
    BY <1>2, <2>1
  <2>2. CASE k = l + 1
    BY <1>7, <2>2, Kinds
  <2>3. CASE k = l + n + 2
    <3>1. t[k] = LineEnd
      BY <1>7, <2>3
    <3>2. t[k].kind = "line end"
      BY <3>1, Kinds
    <3> QED BY <2>3, <3>1, <3>2
  <2>4. CASE k - l - 1 \in 1..n /\ k = l + 1 + (k - l - 1)
    <3>1. t[k] = Data(b[k - l - 1])
      BY <1>7, <2>4
    <3>2. t[k].kind = "data"
      BY <3>1, Kinds
    <3> QED BY <1>1, <1>2, <2>4, <3>2
  <2> QED BY <1>8, <2>1, <2>2, <2>3, <2>4
<1>10. \A k \in 1..Len(t) : t[k].kind = "head" <=> k = 1
  <2> SUFFICES ASSUME NEW k \in 1..Len(t) PROVE t[k].kind = "head" <=> k = 1
    OBVIOUS
  <2>1. CASE k \in 1..l /\ t[k] = s[k]
    BY <1>3, <2>1
  <2>2. CASE k > l /\ t[k].kind \in {"size", "line end", "data"}
    <3>1. k # 1
      <4>1. l \in Nat /\ l > 0 /\ k > l
        BY <1>2, <1>3, <2>2
      <4> QED BY <4>1
    <3>2. t[k].kind # "head"
      BY <2>2
    <3> QED BY <3>1, <3>2
  <2>3. l + 1 > l /\ l + n + 2 > l /\ (k > l + 1 => k > l)
    BY <1>1, <1>2
  <2> QED BY <1>9, <2>1, <2>2, <2>3
<1>11. ASSUME NEW k \in 1..Len(t), t[k].kind = "size"
       PROVE  /\ t[k].size > 0 /\ k + t[k].size < Len(t)
              /\ \A j \in 1..t[k].size : t[k + j].kind = "data"
              /\ t[k + t[k].size + 1] = LineEnd
  <2>1. CASE k \in 1..l /\ t[k] = s[k]
    <3>1. /\ s[k].size \in Nat /\ s[k].size > 0 /\ k + s[k].size < l
          /\ \A j \in 1..s[k].size : s[k + j].kind = "data"
          /\ s[k + s[k].size + 1] = LineEnd
      BY <1>4, <1>6, <1>11, <2>1
    <3>2. ASSUME NEW j \in 1..s[k].size
          PROVE  k + j \in 1..l /\ t[k + j] = s[k + j]
      <4>1. k \in 1..l /\ l \in Nat /\ s[k].size \in Nat /\ k + s[k].size < l
        BY <1>2, <2>1, <3>1
      <4>2. k + j \in 1..l
        BY <4>1, Within
      <4> QED BY <1>2, <4>2
    <3>3. k + s[k].size + 1 \in 1..l
      BY <1>2, <2>1, <3>1
    <3>4. t[k + s[k].size + 1] = LineEnd
      BY <1>2, <3>1, <3>3
    <3>5. t[k].size = s[k].size /\ l < Len(t)
      BY <1>1, <1>2, <1>7, <2>1
    <3>6. k + s[k].size < Len(t)
      BY <1>2, <3>1, <3>5
    <3> QED BY <3>1, <3>2, <3>4, <3>5, <3>6
  <2>2. CASE k = l + 1 /\ t[k].size = n
    <3>1. ASSUME NEW j \in 1..n PROVE t[k + j].kind = "data"
      <4>1. t[l + 1 + j] = Data(b[j])
        BY <1>7
      <4> QED BY <2>2, <4>1, Kinds
    <3>2. k + n + 1 = l + n + 2 /\ n > 0 /\ k + n < Len(t)
      BY <1>1, <1>2, <1>7, <2>2
    <3>3. t[k + n + 1] = LineEnd
      BY <1>7, <3>2
    <3> QED BY <2>2, <3>1, <3>2, <3>3
  <2> QED BY <1>9, <1>11, <2>1, <2>2
<1>12. ASSUME NEW k \in 2..Len(t), t[k - 1].kind \in {"head", "line end"}
       PROVE  t[k].kind = "size"
  <2>1. k \in 1..Len(t) /\ k - 1 \in 1..Len(t)
    BY <1>1, <1>2, <1>7
  <2>2. CASE k - 1 \in 1..l /\ t[k - 1] = s[k - 1]
    <3>1. CASE k \in 2..l
      <4>1. s[k - 1].kind \in {"head", "line end"}
        BY <1>12, <2>2
      <4>2. k \in 1..l
        BY <1>2, <3>1
      <4>3. s[k].kind = "size" /\ t[k] = s[k]
        BY <1>2, <1>5, <3>1, <4>1, <4>2
      <4> QED BY <4>3
    <3>2. CASE k = l + 1
      BY <1>7, <3>2, Kinds
    <3> QED BY <1>2, <2>1, <2>2, <3>1, <3>2
  <2>3. CASE k - 1 = l + n + 2
    BY <1>1, <1>2, <1>7, <2>1, <2>3
  <2> QED BY <1>9, <1>12, <2>1, <2>2, <2>3
<1>13. \A k \in 1..Len(t) : t[k].kind # "last chunk" /\ t[k] # ErrorResponse[1]
  BY <1>3, <1>9, Kinds
<1>14. Len(t) > 0 /\ t # <<>> /\ t[Len(t)].kind = "line end"
  <2>1. Len(t) > 0 /\ t[Len(t)] = LineEnd
    BY <1>1, <1>2, <1>7
  <2>2. Len(<<>>) = 0
    OBVIOUS
  <2>3. t[Len(t)].kind = "line end"
    BY <2>1, Kinds
  <2>4. t # <<>>
    BY <2>1, <2>2
  <2> QED BY <2>1, <2>3, <2>4
<1>15. WellFormed(t)
  BY <1>10, <1>11, <1>12, <1>13 DEF WellFormed, Contains
<1> QED BY <1>13, <1>14, <1>15 DEF Open, t, c

LEMMA ClosedByLast ==
  ASSUME NEW s \in Seq(Pieces), Open(s)
  PROVE  WellFormed(s \o <<LastChunk>>)
<1> DEFINE c == <<LastChunk>>
           t == s \o c
           l == Len(s)
<1>1. c \in Seq(Pieces) /\ Len(c) = 1 /\ c[1] = LastChunk
  BY PiecesTyped
<1> HIDE DEF c
<1>2. /\ Len(t) = l + 1 /\ l \in Nat
      /\ \A k \in 1..l : t[k] = s[k]
      /\ t[l + 1] = LastChunk
  <2>1. /\ Len(t) = l + Len(c) /\ l \in Nat
        /\ \A k \in 1..l : t[k] = s[k]
        /\ \A k \in 1..Len(c) : t[l + k] = c[k]
    <3>1. c \in Seq(Pieces)
      BY <1>1
    <3> QED BY <3>1, Joined
  <2> QED BY <1>1, <2>1
<1>3. l > 0 /\ \A k \in 1..l : s[k].kind # "last chunk" /\ (s[k].kind = "head" <=> k = 1)
  BY DEF Open, WellFormed
<1>4. \A k \in 1..l : s[k] # ErrorResponse[1]
  BY DEF Open, WellFormed, Contains
<1>5. \A k \in 1..l : s[k].kind = "size" =>
        /\ s[k].size > 0 /\ k + s[k].size < l
        /\ \A j \in 1..s[k].size : s[k + j].kind = "data"
        /\ s[k + s[k].size + 1] = LineEnd
  BY DEF Open, WellFormed
<1>6. \A k \in 2..l :
        s[k - 1].kind \in {"head", "line end"} => s[k].kind \in {"size", "last chunk"}
  BY DEF Open, WellFormed
<1>7. ASSUME NEW k \in 1..l PROVE s[k].size \in Nat
  <2>1. s[k] \in Pieces
    BY ElementOfSeq
  <2> QED BY <2>1 DEF Pieces
<1> HIDE DEF t, l
<1>8. \A k \in 1..Len(t) :
        \/ k \in 1..l /\ t[k] = s[k]
        \/ k = l + 1 /\ t[k] = LastChunk /\ t[k].kind = "last chunk"
  <2> SUFFICES ASSUME NEW k \in 1..Len(t)
               PROVE  \/ k \in 1..l /\ t[k] = s[k]
                      \/ k = l + 1 /\ t[k] = LastChunk /\ t[k].kind = "last chunk"
    OBVIOUS
  <2>1. CASE k \in 1..l
    BY <1>2, <2>1
  <2>2. CASE k \notin 1..l
    <3>1. k = l + 1
      BY <1>2, <2>2
    <3> QED BY <1>2, <3>1, Kinds
  <2> QED BY <2>1, <2>2
<1>9. ASSUME NEW k \in 1..Len(t) PROVE t[k].kind = "head" <=> k = 1
  <2>1. CASE k \in 1..l /\ t[k] = s[k]
    BY <1>3, <2>1
  <2>2. CASE k = l + 1 /\ t[k].kind = "last chunk"
    <3>1. k = l + 1 /\ l \in Nat /\ l > 0
      BY <1>2, <1>3, <2>2
    <3>2. k # 1
      BY ONLY <3>1
    <3>3. t[k].kind # "head"
      BY <2>2
    <3> QED BY <3>2, <3>3
  <2> QED BY <1>8, <2>1, <2>2
<1>10. ASSUME NEW k \in 1..Len(t), t[k].kind = "size"
       PROVE  /\ t[k].size > 0 /\ k + t[k].size < Len(t)
              /\ \A j \in 1..t[k].size : t[k + j].kind = "data"
              /\ t[k + t[k].size + 1] = LineEnd
  <2>1. k \in 1..l /\ t[k] = s[k]
    BY <1>8, <1>10
  <2>2. /\ s[k].size \in Nat /\ s[k].size > 0 /\ k + s[k].size < l
        /\ \A j \in 1..s[k].size : s[k + j].kind = "data"
        /\ s[k + s[k].size + 1] = LineEnd
    BY <1>5, <1>7, <1>10, <2>1
  <2>3. ASSUME NEW j \in 1..s[k].size
        PROVE  k + j \in 1..l /\ t[k + j] = s[k + j]
    <3>1. k \in 1..l /\ l \in Nat /\ s[k].size \in Nat /\ k + s[k].size < l
      BY <1>2, <2>1, <2>2
    <3>2. k + j \in 1..l
      BY <3>1, Within
    <3> QED BY <1>2, <3>2
  <2>4. k + s[k].size + 1 \in 1..l
    BY <1>2, <2>1, <2>2
  <2>5. t[k + s[k].size + 1] = LineEnd
    BY <1>2, <2>2, <2>4
  <2>6. t[k].size = s[k].size /\ l < Len(t)
    BY <1>2, <2>1
  <2>7. k + s[k].size < Len(t)
    BY <1>2, <2>2, <2>6
  <2> QED BY <2>2, <2>3, <2>5, <2>6, <2>7
<1>11. ASSUME NEW k \in 2..Len(t), t[k - 1].kind \in {"head", "line end"}
       PROVE  t[k].kind \in {"size", "last chunk"}
  <2>1. k \in 1..Len(t) /\ k - 1 \in 1..Len(t)
    BY <1>2
  <2>2. CASE k \in 1..l
    <3>1. k \in 2..l /\ k - 1 \in 1..l
      BY <1>2, <2>2
    <3>2. s[k - 1].kind \in {"head", "line end"}
      BY <1>2, <1>11, <3>1
    <3>3. s[k].kind \in {"size", "last chunk"}
      BY <1>6, <3>1, <3>2
    <3> QED BY <1>2, <2>2, <3>3
  <2>3. CASE t[k].kind = "last chunk"
    BY <2>3
  <2> QED BY <1>8, <2>1, <2>2, <2>3
<1>12. \A k \in 1..Len(t) : t[k].kind = "last chunk" => k = Len(t)
  BY <1>2, <1>3, <1>8
<1>13. \A k \in 1..Len(t) : t[k] # ErrorResponse[1]
  BY <1>4, <1>8, Kinds
<1>14. WellFormed(t)
  BY <1>9, <1>10, <1>11, <1>12, <1>13 DEF WellFormed, Contains
<1> QED BY <1>14 DEF t, c

\* The same of a response whose parts are still apart.
LEMMA OpenMore ==
  \A u, o \in Seq(Pieces), b \in Seq(Unit) :
    Open(u \o o) => Open(u \o (o \o Chunk(b)))
<1> SUFFICES ASSUME NEW u \in Seq(Pieces), NEW o \in Seq(Pieces), NEW b \in Seq(Unit),
                    Open(u \o o)
             PROVE  Open(u \o (o \o Chunk(b)))
  OBVIOUS
<1>1. Chunk(b) \in Seq(Pieces) /\ u \o o \in Seq(Pieces)
  BY ChunkTyped, Joined
<1>2. CASE b = <<>>
  <2>1. Chunk(b) = <<>>
    BY <1>2 DEF Chunk
  <2>2. o \o Chunk(b) = o
    BY <2>1, ConcatEmptySeq
  <2> QED BY <2>2
<1>3. CASE b # <<>>
  <2>1. Open((u \o o) \o Chunk(b))
    BY <1>1, <1>3, OpenChunk
  <2>2. Assoc(u, o, Chunk(b))
    BY <1>1, Associated
  <2> QED BY <2>1, <2>2 DEF Assoc
<1> QED BY <1>2, <1>3

LEMMA ClosedMore ==
  \A u, o \in Seq(Pieces) : Open(u \o o) => WellFormed(u \o (o \o <<LastChunk>>))
<1> SUFFICES ASSUME NEW u \in Seq(Pieces), NEW o \in Seq(Pieces), Open(u \o o)
             PROVE  WellFormed(u \o (o \o <<LastChunk>>))
  OBVIOUS
<1>1. u \o o \in Seq(Pieces)
  BY Joined
<1>2. WellFormed((u \o o) \o <<LastChunk>>)
  BY <1>1, ClosedByLast
<1>3. Assoc(u, o, <<LastChunk>>)
  BY PiecesTyped, Associated
<1> QED BY <1>2, <1>3 DEF Assoc

-----------------------------------------------------------------------------
(* The inductive invariant *)

\* The variables handleResponse leaves alone.
ProcessTyped ==
  /\ script \in Scripts /\ written \in 0..Len(script.out)
  /\ life \in {"writing", "closed", "exited"}
  /\ pipe \in Seq(Unit) /\ Len(pipe) <= PipeCap /\ buffer \in Seq(Unit)
  /\ attached \in BOOLEAN

LEMMA Typed == ProcessTyped /\ ClientTyped => TypeOK
BY DEF TypeOK, ProcessTyped, ClientTyped

\* Framed is not inductive: it does not say which of the two responses may
\* still grow, nor that nothing was sent before the first header line.
Sending ==
  /\ attached => state # "RESET" /\ stage # "finished"
  /\ attached /\ stage = "headers" =>
       wire = <<>> /\ wbuf = <<>> /\ out = <<>> /\ message = <<>>
  /\ ~attached /\ stage = "headers" /\ state # "RESET" =>
       wbuf # <<>> /\ out = <<>> /\ wire \o wbuf = ErrorResponse
  /\ state = "RESET" =>
       /\ stage = "headers" /\ wbuf = <<>> /\ out = <<>>
       /\ Sent = ErrorResponse \/ WellFormed(Sent)
  /\ stage = "body" => Open(Sent)
  /\ stage = "finished" => WellFormed(Sent)

StreamInv == ProcessTyped /\ ClientTyped /\ Sending

LEMMA StreamInit == Init => StreamInv
<1> SUFFICES ASSUME Init PROVE StreamInv
  OBVIOUS
<1>1. <<>> \in Seq(Unit) /\ <<>> \in Seq(Pieces) /\ Len(<<>>) = 0
  BY EmptySeq
<1>2. script.out \in Seq(Unit)
  BY ScriptsAssumption DEF Init, Script
<1>3. 0 \in 0..Len(script.out)
  BY <1>2
<1>4. ProcessTyped
  BY <1>1, <1>3, CapacityAssumption DEF Init, ProcessTyped
<1>5. ClientTyped
  BY <1>1 DEF Init, ClientTyped
<1>6. Sending
  BY DEF Init, Sending
<1> QED BY <1>4, <1>5, <1>6 DEF StreamInv

\* What the process and its pipe do leaves the responses alone.
LEMMA SendingKept ==
  ASSUME Sending, UNCHANGED <<attached, state, response, wbuf, wire>>
  PROVE  Sending'
BY DEF Sending, Sent, response

LEMMA ClientKept ==
  ASSUME ClientTyped, UNCHANGED <<state, response, wbuf, wire>>
  PROVE  ClientTyped'
BY DEF ClientTyped, response

LEMMA WritesStep == StreamInv /\ CgiWrites => StreamInv'
<1> SUFFICES ASSUME StreamInv, CgiWrites PROVE StreamInv'
  OBVIOUS
<1>1. ProcessTyped /\ ClientTyped /\ Sending
  BY DEF StreamInv
<1>2. script.out \in Seq(Unit)
  BY <1>1, ScriptsAssumption DEF ProcessTyped, Script
<1> DEFINE o == script.out
<1>3. PICK n \in 1..(PipeCap - Len(pipe)) :
        /\ written + n <= Len(o)
        /\ pipe' = pipe \o SubSeq(o, written + 1, written + n)
        /\ written' = written + n
  BY DEF CgiWrites
<1>4. o \in Seq(Unit) /\ written \in 0..Len(o) /\ Len(o) \in Nat
      /\ pipe \in Seq(Unit) /\ Len(pipe) \in Nat
  BY <1>1, <1>2 DEF ProcessTyped
<1> HIDE DEF o
<1> DEFINE x == SubSeq(o, written + 1, written + n)
<1>5. n \in Nat /\ n <= PipeCap - Len(pipe)
  BY <1>4, CapacityAssumption
<1>6. x \in Seq(Unit) /\ Len(x) = n
  BY <1>3, <1>4, <1>5
<1> HIDE DEF x
<1>7. pipe \o x \in Seq(Unit) /\ Len(pipe \o x) = Len(pipe) + n
  BY <1>4, <1>6, Joined
<1>8. pipe' \in Seq(Unit) /\ Len(pipe') <= PipeCap
  BY <1>3, <1>4, <1>5, <1>7, CapacityAssumption DEF x
<1>9. written' \in 0..Len(o)
  BY <1>3, <1>4, <1>5
<1>10. ProcessTyped'
  BY <1>1, <1>8, <1>9 DEF CgiWrites, ProcessTyped, o
<1>11. ClientTyped'
  BY <1>1, ClientKept DEF CgiWrites
<1>12. Sending'
  BY <1>1, SendingKept DEF CgiWrites
<1> QED BY <1>10, <1>11, <1>12 DEF StreamInv

LEMMA ExitStep == StreamInv /\ (CgiCloses \/ CgiExits) => StreamInv'
<1> SUFFICES ASSUME StreamInv, CgiCloses \/ CgiExits PROVE StreamInv'
  OBVIOUS
<1>1. ProcessTyped /\ ClientTyped /\ Sending
  BY DEF StreamInv
<1>2. ProcessTyped'
  BY <1>1 DEF CgiCloses, CgiExits, ProcessTyped
<1>3. ClientTyped'
  BY <1>1, ClientKept DEF CgiCloses, CgiExits
<1>4. Sending'
  BY <1>1, SendingKept DEF CgiCloses, CgiExits
<1> QED BY <1>2, <1>3, <1>4 DEF StreamInv

LEMMA PipeStep == StreamInv /\ ProcessPipe => StreamInv'
<1> SUFFICES ASSUME StreamInv, ProcessPipe PROVE StreamInv'
  OBVIOUS
<1>1. ProcessTyped /\ ClientTyped /\ Sending /\ attached
  BY DEF StreamInv, ProcessPipe
<1>2. pipe \in Seq(Unit) /\ Len(pipe) \in Nat /\ Len(pipe) <= PipeCap
      /\ buffer \in Seq(Unit)
  BY <1>1 DEF ProcessTyped
<1>3. PICK n \in 0..Len(pipe) :
        /\ buffer' = buffer \o SubSeq(pipe, 1, n)
        /\ pipe' = SubSeq(pipe, n + 1, Len(pipe))
        /\ state' = state \/ state' = "CGI_COMPLETED"
  <2>1. PICK in \in BOOLEAN, hup \in BOOLEAN : PipeEvents(in, hup)
    BY DEF ProcessPipe
  <2> DEFINE n == IF in \/ (hup /\ life = "exited")
                  THEN IF Len(pipe) <= BufSize THEN Len(pipe) ELSE BufSize
                  ELSE 0
  <2>2. n \in 0..Len(pipe)
    BY <1>2, CapacityAssumption
  <2>3. /\ buffer' = buffer \o SubSeq(pipe, 1, n)
        /\ pipe' = SubSeq(pipe, n + 1, Len(pipe))
        /\ state' = state \/ state' = "CGI_COMPLETED"
    BY <2>1 DEF PipeEvents
  <2> HIDE DEF n
  <2> QED BY <2>2, <2>3
<1>4. /\ SubSeq(pipe, 1, n) \in Seq(Unit) /\ SubSeq(pipe, n + 1, Len(pipe)) \in Seq(Unit)
      /\ Len(SubSeq(pipe, n + 1, Len(pipe))) = Len(pipe) - n
  BY <1>2, Cut
<1>5. buffer' \in Seq(Unit)
  <2> DEFINE x == SubSeq(pipe, 1, n)
  <2>1. x \in Seq(Unit) /\ buffer' = buffer \o x
    BY <1>3, <1>4
  <2> HIDE DEF x
  <2> QED BY <1>2, <2>1, Joined
<1>6. pipe' \in Seq(Unit) /\ Len(pipe') <= PipeCap
  BY <1>2, <1>3, <1>4, CapacityAssumption
<1>7. ProcessTyped'
  BY <1>1, <1>5, <1>6 DEF ProcessPipe, ProcessTyped, process
<1>8. ClientTyped'
  BY <1>1, <1>3 DEF ProcessPipe, ClientTyped, response
<1>9. Sending'
  <2>1. UNCHANGED <<attached, stage, chunked, out, message, wbuf, wire>> /\ Sent' = Sent
    BY DEF ProcessPipe, response, Sent
  <2>2. state # "RESET" /\ state' # "RESET" /\ attached'
    BY <1>1, <1>3, <2>1 DEF Sending
  <2> QED BY <1>1, <2>1, <2>2 DEF Sending
<1> QED BY <1>7, <1>8, <1>9 DEF StreamInv

-----------------------------------------------------------------------------
(* The client's turn *)

\* What is sent so far, apart from what the response still holds.
Before == wire \o wbuf

LEMMA SentIs == Sent = Before \o out /\ (ClientTyped => Before \in Seq(Pieces))
BY Joined DEF Sent, Before, ClientTyped

\* The Cgi goes or stays; what is sent decides the rest.
LEMMA ChunkedKeeps ==
  ASSUME ClientTyped, NEW r \in Response, r.chunked, NEW m \in Seq(Pieces),
         HandleResponse(r, m), state # "RESET",
         r.stage = "body" => Open(Before \o r.out),
         r.stage = "finished" => WellFormed(Before \o r.out),
         attached' => r.stage = "body"
  PROVE  ClientTyped' /\ Sending'
<1>1. /\ ClientTyped' /\ Sent' = Before \o r.out
      /\ \/ /\ state' = "RESET" /\ stage' = "headers" /\ r.stage = "finished"
            /\ wbuf' = <<>> /\ out' = <<>>
         \/ state' = state /\ stage' = r.stage
  BY HandlesChunked DEF Before
<1>2. r.stage \in {"body", "finished"}
  BY DEF Response
<1>3. CASE /\ state' = "RESET" /\ stage' = "headers" /\ r.stage = "finished"
           /\ wbuf' = <<>> /\ out' = <<>>
  BY <1>1, <1>3 DEF Sending
<1>4. CASE state' = state /\ stage' = r.stage
  BY <1>1, <1>2, <1>4 DEF Sending
<1> QED BY <1>1, <1>3, <1>4

\* A response that is not chunked is the error response.
LEMMA PlainKeeps ==
  ASSUME ClientTyped, NEW r \in Response, ~r.chunked, NEW m \in Seq(Pieces),
         HandleResponse(r, m), state # "RESET", r.out = <<>>, ~attached',
         LET w == IF wbuf = <<>> THEN m ELSE wbuf IN
         w # <<>> /\ wire \o w = ErrorResponse
  PROVE  ClientTyped' /\ Sending'
<1> DEFINE w == IF wbuf = <<>> THEN m ELSE wbuf
<1>1. w # <<>> /\ wire \o w = ErrorResponse
  OBVIOUS
<1>2. /\ ClientTyped' /\ stage' = "headers"
      /\ \/ /\ wire' \o wbuf' = wire \o w /\ wbuf' = <<>>
            /\ out' = <<>> /\ state' = "RESET"
         \/ /\ wire' \o wbuf' = wire \o w /\ wbuf' # <<>> /\ out' = <<>>
            /\ state' = state
  <2>1. LET v == IF wbuf = <<>> THEN m ELSE wbuf IN
         /\ ClientTyped' /\ stage' = "headers"
         /\ \/ /\ v = <<>> /\ out' = r.out /\ message' = m
               /\ UNCHANGED <<state, wbuf, wire>>
            \/ /\ v # <<>> /\ wire' \o wbuf' = wire \o v /\ wbuf' = <<>>
               /\ out' = <<>> /\ state' = "RESET"
            \/ /\ v # <<>> /\ wire' \o wbuf' = wire \o v /\ wbuf' # <<>> /\ out' = r.out
               /\ message' = m /\ state' = state
    BY HandlesPlain
  <2> QED BY <1>1, <2>1
<1> HIDE DEF w
<1>3. wire' \o wbuf' = ErrorResponse
  BY <1>1, <1>2
<1>4. Sent' = ErrorResponse
  <2>1. Sent' = ErrorResponse \o <<>>
    BY <1>2, <1>3 DEF Sent
  <2> QED BY <2>1, PiecesTyped, ConcatEmptySeq
<1>5. Sending'
  BY <1>2, <1>3, <1>4 DEF Sending
<1> QED BY <1>2, <1>5

\* Before anything is ready nothing is sent.
LEMMA SilentKeeps ==
  ASSUME ClientTyped, Sending, NEW r \in Response, ~r.chunked, r.out = <<>>,
         wire = <<>>, wbuf = <<>>, HandleResponse(r, <<>>),
         state # "RESET", UNCHANGED attached, attached
  PROVE  ClientTyped' /\ Sending'
<1>1. /\ ClientTyped' /\ stage' = "headers"
      /\ out' = <<>> /\ message' = <<>> /\ UNCHANGED <<state, wbuf, wire>>
  <2>1. LET v == IF wbuf = <<>> THEN <<>> ELSE wbuf IN
         /\ ClientTyped' /\ stage' = "headers"
         /\ \/ /\ v = <<>> /\ out' = r.out /\ message' = <<>>
               /\ UNCHANGED <<state, wbuf, wire>>
            \/ /\ v # <<>> /\ wire' \o wbuf' = wire \o v /\ wbuf' = <<>>
               /\ out' = <<>> /\ state' = "RESET"
            \/ /\ v # <<>> /\ wire' \o wbuf' = wire \o v /\ wbuf' # <<>> /\ out' = r.out
               /\ message' = <<>> /\ state' = state
    BY HandlesPlain, PiecesTyped
  <2> QED BY <2>1
<1>2. Sending'
  BY <1>1 DEF Sending
<1> QED BY <1>1, <1>2

\* The first chunk of a response.
LEMMA OpenFirst ==
  \A u, o : u = <<>> /\ o = <<>> =>
    \A b \in Seq(Unit) : Open(u \o ((o \o <<StatusLine>>) \o Chunk(b)))
<1> SUFFICES ASSUME NEW b \in Seq(Unit)
             PROVE  Open(<<>> \o ((<<>> \o <<StatusLine>>) \o Chunk(b)))
  OBVIOUS
<1>1. <<>> \o <<StatusLine>> = <<StatusLine>>
  BY PiecesTyped, ConcatEmptySeq
<1>2. Open(<<>> \o <<StatusLine>>)
  BY <1>1, OpenHead
<1>3. Open(<<>> \o (<<StatusLine>> \o Chunk(b)))
  BY <1>2, PiecesTyped, OpenMore
<1> QED BY <1>1, <1>3

\* What the relay of a response being built adds to it.
LEMMA OutputGrows ==
  ASSUME ClientTyped, Sending, attached, NEW r \in Response,
         r.stage = stage, r.out = out
  PROVE  LET q == AppendOutput(r) IN
         /\ q \in Response
         /\ \/ q = r
            \/ q.stage = "body" /\ Open(Before \o q.out)
<1> DEFINE q == AppendOutput(r)
<1>1. /\ q \in Response
      /\ \/ q = r
         \/ q.stage = "body" /\ r.stage = "body" /\ q.out = r.out \o Chunk(r.buffer)
         \/ /\ q.stage = "body" /\ r.stage = "headers"
            /\ \E b \in Seq(Unit) : q.out = (r.out \o <<StatusLine>>) \o Chunk(b)
  BY AppendOutputStep
<1>2. Before \in Seq(Pieces) /\ r.out \in Seq(Pieces) /\ r.buffer \in Seq(Unit)
  BY SentIs DEF Response
<1> HIDE DEF q
<1>3. ASSUME q.stage = "body", r.stage = "body", q.out = r.out \o Chunk(r.buffer)
      PROVE  Open(Before \o q.out)
  <2>1. Open(Before \o r.out)
    BY <1>3, SentIs DEF Sending
  <2> QED BY <1>2, <1>3, <2>1, OpenMore
<1>4. ASSUME q.stage = "body", r.stage = "headers",
             NEW b \in Seq(Unit), q.out = (r.out \o <<StatusLine>>) \o Chunk(b)
      PROVE  Open(Before \o q.out)
  <2>1. Before = <<>> /\ r.out = <<>>
    <3>1. wire = <<>> /\ wbuf = <<>> /\ out = <<>>
      BY <1>4 DEF Sending
    <3>2. <<>> \o <<>> = <<>>
      BY PiecesTyped, ConcatEmptySeq
    <3> QED BY <3>1, <3>2 DEF Before
  <2> QED BY <1>4, <2>1, OpenFirst
<1> QED BY <1>1, <1>3, <1>4 DEF q

\* finishCgiChunked ends what was begun, or is begun here.
LEMMA FinalGrows ==
  ASSUME ClientTyped, NEW r \in Response, r.stage # "finished",
         r.stage = "body" => Open(Before \o r.out),
         r.stage = "headers" => Before = <<>> /\ r.out = <<>>
  PROVE  LET q == AppendFinal(r) IN
         q \in Response /\ q.stage = "finished" /\ WellFormed(Before \o q.out)
<1> DEFINE q == AppendFinal(r)
<1>1. /\ q \in Response /\ q.stage = "finished"
      /\ \/ r.stage = "body" /\ q.out = (r.out \o Chunk(r.buffer)) \o <<LastChunk>>
         \/ /\ r.stage = "headers"
            /\ \E b \in Seq(Unit) :
                 q.out = ((r.out \o <<StatusLine>>) \o Chunk(b)) \o <<LastChunk>>
  BY AppendFinalStep
<1>2. Before \in Seq(Pieces) /\ r.out \in Seq(Pieces) /\ r.buffer \in Seq(Unit)
  BY SentIs DEF Response
<1> HIDE DEF q
<1>3. ASSUME NEW o \in Seq(Pieces), Open(Before \o o), q.out = o \o <<LastChunk>>
      PROVE  WellFormed(Before \o q.out)
  BY <1>2, <1>3, ClosedMore
<1>4. ASSUME r.stage = "body", q.out = (r.out \o Chunk(r.buffer)) \o <<LastChunk>>
      PROVE  WellFormed(Before \o q.out)
  <2> DEFINE o == r.out \o Chunk(r.buffer)
  <2>1. o \in Seq(Pieces)
    BY <1>2, ChunkTyped, Joined
  <2>2. Open(Before \o o)
    BY <1>2, <1>4, OpenMore
  <2> QED BY <1>3, <1>4, <2>1, <2>2
<1>5. ASSUME r.stage = "headers", NEW b \in Seq(Unit),
             q.out = ((r.out \o <<StatusLine>>) \o Chunk(b)) \o <<LastChunk>>
      PROVE  WellFormed(Before \o q.out)
  <2> DEFINE o == (r.out \o <<StatusLine>>) \o Chunk(b)
  <2>1. o \in Seq(Pieces)
    BY <1>2, ChunkTyped, PiecesTyped, Joined
  <2>2. Open(Before \o o)
    BY <1>5, OpenFirst
  <2> QED BY <1>3, <1>5, <2>1, <2>2
<1> QED BY <1>1, <1>4, <1>5 DEF q

LEMMA RelayStep == StreamInv /\ RelayOutput => StreamInv'
<1> SUFFICES ASSUME StreamInv, RelayOutput PROVE StreamInv'
  OBVIOUS
<1> DEFINE q == AppendOutput(Current)
<1>1. ProcessTyped /\ ClientTyped /\ Sending /\ attached /\ state # "RESET"
      /\ attached' = attached /\ HandleResponse(q, message) /\ buffer' = q.buffer
  BY DEF StreamInv, RelayOutput
<1>2. Current \in Response /\ Current.stage = stage /\ Current.out = out
      /\ Current.chunked = chunked
  BY <1>1, Typed, CurrentTyped DEF Current
<1>3. /\ q \in Response
      /\ \/ q = Current
         \/ q.stage = "body" /\ Open(Before \o q.out)
  BY <1>1, <1>2, OutputGrows
<1> HIDE DEF q
<1>4. message \in Seq(Pieces) /\ stage \in {"headers", "body"}
  BY <1>1 DEF ClientTyped, Sending
<1>5. ASSUME q.stage = "body" PROVE ClientTyped' /\ Sending'
  <2>1. q.chunked
    BY <1>3, <1>5 DEF Response
  <2>2. Open(Before \o q.out)
    <3>1. q = Current /\ stage = "body" => Open(Before \o q.out)
      BY <1>1, <1>2, SentIs DEF Sending
    <3> QED BY <1>2, <1>3, <1>5, <3>1
  <2> QED BY <1>1, <1>3, <1>4, <1>5, <2>1, <2>2, ChunkedKeeps
<1>6. ASSUME q.stage # "body" PROVE ClientTyped' /\ Sending'
  <2>1. q = Current /\ stage = "headers"
    BY <1>2, <1>3, <1>4, <1>6
  <2>2. wire = <<>> /\ wbuf = <<>> /\ q.out = <<>> /\ message = <<>>
    BY <1>1, <1>2, <2>1 DEF Sending
  <2>3. ~q.chunked
    BY <1>1, <1>2, <2>1 DEF ClientTyped
  <2>4. HandleResponse(q, <<>>)
    BY <1>1, <2>2
  <2> QED BY <1>1, <1>3, <2>2, <2>3, <2>4, SilentKeeps
<1>7. ClientTyped' /\ Sending'
  BY <1>5, <1>6
<1>8. ProcessTyped'
  <2>1. q.buffer \in Seq(Unit)
    BY <1>3 DEF Response
  <2> QED BY <1>1, <2>1 DEF RelayOutput, ProcessTyped, process
<1> QED BY <1>7, <1>8 DEF StreamInv

\* The Cgi is gone.
LEMMA CleanupKeeps ==
  ASSUME ProcessTyped, UNCHANGED process, CleanupCgi
  PROVE  ProcessTyped' /\ ~attached'
<1>1. <<>> \in Seq(Unit) /\ Len(<<>>) = 0
  BY EmptySeq
<1>2. pipe' = <<>> /\ buffer' = <<>> /\ attached' = FALSE
      /\ UNCHANGED <<script, written, life>>
  BY DEF CleanupCgi, process
<1>3. 0 <= PipeCap
  BY CapacityAssumption
<1> QED BY <1>1, <1>2, <1>3 DEF ProcessTyped

LEMMA FinishOutputStep == StreamInv /\ FinishOutput => StreamInv'
<1> SUFFICES ASSUME StreamInv, FinishOutput PROVE StreamInv'
  OBVIOUS
<1> DEFINE r == AppendOutput(Current)
           q == AppendFinal(r)
<1>1. ProcessTyped /\ ClientTyped /\ Sending /\ attached /\ state # "RESET"
      /\ HandleResponse(q, message) /\ CleanupCgi /\ UNCHANGED process
  BY DEF StreamInv, FinishOutput
<1>2. Current \in Response /\ Current.stage = stage /\ Current.out = out
      /\ Current.chunked = chunked
  BY <1>1, Typed, CurrentTyped DEF Current
<1>3. /\ r \in Response
      /\ \/ r = Current
         \/ r.stage = "body" /\ Open(Before \o r.out)
  BY <1>1, <1>2, OutputGrows
<1> HIDE DEF r
<1>4. message \in Seq(Pieces) /\ stage \in {"headers", "body"}
  BY <1>1 DEF ClientTyped, Sending
<1>5. /\ r.stage # "finished"
      /\ r.stage = "body" => Open(Before \o r.out)
      /\ r.stage = "headers" => Before = <<>> /\ r.out = <<>>
  <2>1. CASE r.stage = "body" /\ Open(Before \o r.out)
    BY <2>1
  <2>2. CASE r = Current /\ stage = "body"
    BY <1>1, <1>2, <2>2, SentIs DEF Sending
  <2>3. CASE r = Current /\ stage = "headers"
    <3>1. wire = <<>> /\ wbuf = <<>> /\ r.out = <<>> /\ r.stage = "headers"
      BY <1>1, <1>2, <2>3 DEF Sending
    <3>2. <<>> \o <<>> = <<>>
      BY PiecesTyped, ConcatEmptySeq
    <3> QED BY <3>1, <3>2 DEF Before
  <2> QED BY <1>3, <1>4, <2>1, <2>2, <2>3
<1>6. q \in Response /\ q.stage = "finished" /\ WellFormed(Before \o q.out)
  BY <1>1, <1>3, <1>5, FinalGrows
<1> HIDE DEF q
<1>7. q.chunked
  BY <1>6 DEF Response
<1>8. ProcessTyped' /\ ~attached'
  BY <1>1, CleanupKeeps
<1>9. ClientTyped' /\ Sending'
  BY <1>1, <1>4, <1>6, <1>7, <1>8, ChunkedKeeps
<1> QED BY <1>8, <1>9 DEF StreamInv

LEMMA FailOutputStep == StreamInv /\ FailOutput => StreamInv'
<1> SUFFICES ASSUME StreamInv, FailOutput PROVE StreamInv'
  OBVIOUS
<1>1. ProcessTyped /\ ClientTyped /\ Sending /\ attached /\ state # "RESET"
      /\ HandleResponse(Current, ErrorResponse) /\ CleanupCgi /\ UNCHANGED process
  BY DEF StreamInv, FailOutput
<1>2. Current \in Response /\ Current.stage = stage /\ Current.out = out
      /\ Current.chunked = chunked
  BY <1>1, Typed, CurrentTyped DEF Current
<1>3. stage \in {"headers", "body"} /\ (chunked <=> stage # "headers")
  BY <1>1 DEF ClientTyped, Sending
<1>4. ProcessTyped' /\ ~attached'
  BY <1>1, CleanupKeeps
<1>5. CASE stage = "body"
  <2>1. Open(Before \o out)
    BY <1>1, <1>5, SentIs DEF Sending
  <2> QED BY <1>1, <1>2, <1>3, <1>4, <1>5, <2>1, PiecesTyped, ChunkedKeeps DEF StreamInv
<1>6. CASE stage = "headers"
  <2>1. wire = <<>> /\ wbuf = <<>> /\ out = <<>>
    BY <1>1, <1>6 DEF Sending
  <2>2. ErrorResponse # <<>> /\ wire \o ErrorResponse = ErrorResponse
    <3>1. ErrorResponse # <<>>
      BY DEF ErrorResponse
    <3> QED BY <2>1, <3>1, PiecesTyped, ConcatEmptySeq
  <2> QED BY <1>1, <1>2, <1>3, <1>4, <1>6, <2>1, <2>2, PiecesTyped, PlainKeeps
        DEF StreamInv
<1> QED BY <1>3, <1>5, <1>6

LEMMA SendRestStep == StreamInv /\ SendRest => StreamInv'
<1> SUFFICES ASSUME StreamInv, SendRest PROVE StreamInv'
  OBVIOUS
<1>1. ProcessTyped /\ ClientTyped /\ Sending /\ ~attached /\ state # "RESET"
      /\ HandleResponse(Current, message) /\ UNCHANGED <<process, pipe, buffer, attached>>
  BY DEF StreamInv, SendRest
<1>2. Current \in Response /\ Current.stage = stage /\ Current.out = out
      /\ Current.chunked = chunked
  BY <1>1, Typed, CurrentTyped DEF Current
<1>3. stage \in {"headers", "body", "finished"} /\ (chunked <=> stage # "headers")
      /\ message \in Seq(Pieces)
  BY <1>1 DEF ClientTyped
<1>4. ProcessTyped' /\ ~attached'
  BY <1>1 DEF ProcessTyped, process
<1>5. CASE stage # "headers"
  <2>1. /\ stage = "body" => Open(Before \o out)
        /\ stage = "finished" => WellFormed(Before \o out)
    BY <1>1, SentIs DEF Sending
  <2> QED BY <1>1, <1>2, <1>3, <1>4, <1>5, <2>1, ChunkedKeeps DEF StreamInv
<1>6. CASE stage = "headers"
  <2>1. wbuf # <<>> /\ out = <<>> /\ wire \o wbuf = ErrorResponse
    BY <1>1, <1>6 DEF Sending
  <2> QED BY <1>1, <1>2, <1>3, <1>4, <1>6, <2>1, PlainKeeps DEF StreamInv
<1> QED BY <1>5, <1>6

-----------------------------------------------------------------------------
(* The theorems *)

LEMMA StreamNext == StreamInv /\ [Next]_vars => StreamInv'
<1> SUFFICES ASSUME StreamInv, [Next]_vars PROVE StreamInv'
  OBVIOUS
<1>1. CASE CgiWrites
  BY <1>1, WritesStep
<1>2. CASE CgiCloses \/ CgiExits
  BY <1>2, ExitStep
<1>3. CASE ProcessPipe
  BY <1>3, PipeStep
<1>4. CASE RelayOutput
  BY <1>4, RelayStep
<1>5. CASE FinishOutput
  BY <1>5, FinishOutputStep
<1>6. CASE FailOutput
  BY <1>6, FailOutputStep
<1>7. CASE SendRest
  BY <1>7, SendRestStep
<1>8. CASE UNCHANGED vars
  BY <1>8 DEF StreamInv, ProcessTyped, ClientTyped, Sending, Sent, vars, response
<1> QED BY <1>1, <1>2, <1>3, <1>4, <1>5, <1>6, <1>7, <1>8 DEF Next, ProcessWrite, Answered

\* A prefix that is cut off says nothing the whole does not say.
LEMMA InvFramed == StreamInv => Framed
<1> SUFFICES ASSUME StreamInv PROVE Framed
  OBVIOUS
<1>1. ClientTyped /\ Sending
  BY DEF StreamInv
<1>2. wire \in Seq(Pieces) /\ wbuf \in Seq(Pieces) /\ out \in Seq(Pieces)
      /\ stage \in {"headers", "body", "finished"}
      /\ state \in {"CGI_JUST_STARTED", "CGI_COMPLETED", "RESET"}
  BY <1>1 DEF ClientTyped
<1>3. Framed <=> IsPrefix(Sent, ErrorResponse) \/ WellFormed(Sent)
  BY DEF Framed, Sent
<1>4. IsPrefix(ErrorResponse, ErrorResponse) /\ IsPrefix(<<>>, ErrorResponse)
  <2>1. Len(ErrorResponse) \in Nat /\ Len(<<>>) = 0
    BY PiecesTyped, EmptySeq
  <2>2. SubSeq(<<>>, 1, 0) = <<>> /\ SubSeq(ErrorResponse, 1, 0) = <<>>
    OBVIOUS
  <2> QED BY <2>1, <2>2 DEF IsPrefix
<1>5. CASE stage # "headers"
  BY <1>1, <1>2, <1>3, <1>5 DEF Sending, Open
<1>6. CASE state = "RESET"
  BY <1>1, <1>3, <1>4, <1>6 DEF Sending
<1>7. CASE stage = "headers" /\ state # "RESET"
  <2>1. wire \o wbuf = ErrorResponse \/ (wire = <<>> /\ wbuf = <<>>)
    BY <1>1, <1>7 DEF Sending, ProcessTyped
  <2>2. out = <<>>
    BY <1>1, <1>7 DEF Sending
  <2>3. <<>> \o <<>> = <<>> /\ ErrorResponse \o <<>> = ErrorResponse
    BY PiecesTyped, ConcatEmptySeq
  <2>4. Sent = ErrorResponse \/ Sent = <<>>
    BY <2>1, <2>2, <2>3 DEF Sent
  <2> QED BY <1>3, <1>4, <2>4
<1> QED BY <1>5, <1>6, <1>7

\* Every variable has its type in every reachable state.
THEOREM StreamTypeCorrect == Spec => []TypeOK
<1>1. StreamInv => TypeOK
  BY Typed DEF StreamInv
<1> QED BY <1>1, StreamInit, StreamNext, PTL DEF Spec

\* Response::appendCgiChunk, finishCgiChunked and handleResponse: whatever the
\* script writes and however reads and sends cut it, what is sent is always one
\* well-formed chunked response or its beginning, or one error response.
THEOREM AlwaysFramed == Spec => []Framed
BY StreamInit, StreamNext, InvFramed, PTL DEF Spec

-----------------------------------------------------------------------------
(* The data in what is sent *)

\* What a piece has for data, which is "" where it has none.
Datum == Unit \cup {""}

Datas(s) == [k \in 1..Len(s) |-> DataOf(s[k])]

LEMMA DataOfTyped == \A p \in Pieces : DataOf(p) \in Seq(Datum)
<1> SUFFICES ASSUME NEW p \in Pieces PROVE DataOf(p) \in Seq(Datum)
  OBVIOUS
<1>1. p.data \in Datum
  BY DEF Pieces, Datum
<1> DEFINE u == p.data
<1>2. u \in Datum
  BY <1>1
<1> HIDE DEF u
<1>3. <<u>> \in Seq(Datum) /\ <<>> \in Seq(Datum)
  BY <1>2, EmptySeq
<1> QED BY <1>3 DEF DataOf, u

LEMMA DatasTyped ==
  \A s \in Seq(Pieces) :
    /\ Datas(s) \in Seq(Seq(Datum)) /\ Len(Datas(s)) = Len(s)
    /\ \A k \in 1..Len(s) : Datas(s)[k] = DataOf(s[k])
<1> SUFFICES ASSUME NEW s \in Seq(Pieces)
             PROVE  /\ Datas(s) \in Seq(Seq(Datum)) /\ Len(Datas(s)) = Len(s)
                    /\ \A k \in 1..Len(s) : Datas(s)[k] = DataOf(s[k])
  OBVIOUS
<1> DEFINE S == Seq(Datum)
           n == Len(s)
           f == [k \in 1..n |-> DataOf(s[k])]
<1>1. n \in Nat /\ \A k \in 1..n : DataOf(s[k]) \in S
  BY ElementOfSeq, DataOfTyped
<1> HIDE DEF S, n
<1>2. f \in Seq(S) /\ Len(f) = n /\ \A k \in 1..n : f[k] = DataOf(s[k])
  BY <1>1
<1>3. Datas(s) = f
  BY DEF Datas, n
<1> HIDE DEF f
<1> QED BY <1>2, <1>3 DEF S, n

LEMMA DataInTyped == \A s \in Seq(Pieces) : DataIn(s) \in Seq(Datum)
BY DatasTyped, FlattenTyped DEF DataIn, Datas

\* Nothing is lost where pieces are put together.
LEMMA DataInJoined ==
  \A s, t \in Seq(Pieces) : DataIn(s \o t) = DataIn(s) \o DataIn(t)
<1> SUFFICES ASSUME NEW s \in Seq(Pieces), NEW t \in Seq(Pieces)
             PROVE  DataIn(s \o t) = DataIn(s) \o DataIn(t)
  OBVIOUS
<1> DEFINE w == s \o t
           x == Datas(s)
           y == Datas(t)
           z == Datas(w)
<1>1. /\ w \in Seq(Pieces) /\ Len(w) = Len(s) + Len(t)
      /\ Len(s) \in Nat /\ Len(t) \in Nat
      /\ \A i \in 1..Len(s) : w[i] = s[i]
      /\ \A j \in 1..Len(t) : w[Len(s) + j] = t[j]
  BY Joined
<1> HIDE DEF w
<1>2. /\ x \in Seq(Seq(Datum)) /\ Len(x) = Len(s) /\ \A k \in 1..Len(s) : x[k] = DataOf(s[k])
      /\ y \in Seq(Seq(Datum)) /\ Len(y) = Len(t) /\ \A k \in 1..Len(t) : y[k] = DataOf(t[k])
  BY DatasTyped
<1>3. z \in Seq(Seq(Datum)) /\ Len(z) = Len(w) /\ \A k \in 1..Len(w) : z[k] = DataOf(w[k])
  BY <1>1, DatasTyped
<1> HIDE DEF x, y, z
<1>4. /\ x \o y \in Seq(Seq(Datum)) /\ Len(x \o y) = Len(s) + Len(t)
      /\ \A i \in 1..Len(s) : (x \o y)[i] = x[i]
      /\ \A j \in 1..Len(t) : (x \o y)[Len(s) + j] = y[j]
  <2>1. /\ x \o y \in Seq(Seq(Datum)) /\ Len(x \o y) = Len(x) + Len(y)
        /\ \A i \in 1..Len(x) : (x \o y)[i] = x[i]
        /\ \A j \in 1..Len(y) : (x \o y)[Len(x) + j] = y[j]
    <3>1. x \in Seq(Seq(Datum)) /\ y \in Seq(Seq(Datum))
      BY <1>2
    <3> QED BY <3>1, Joined
  <2>2. Len(x) = Len(s) /\ Len(y) = Len(t)
    BY <1>2
  <2> QED BY <2>1, <2>2
<1>5. ASSUME NEW i \in 1..(Len(s) + Len(t)) PROVE (x \o y)[i] = z[i]
  <2>1. z[i] = DataOf(w[i])
    BY <1>1, <1>3
  <2>2. CASE i \in 1..Len(s)
    <3>1. w[i] = s[i] /\ (x \o y)[i] = x[i] /\ x[i] = DataOf(s[i])
      BY <1>1, <1>2, <1>4, <2>2
    <3> QED BY <2>1, <3>1
  <2>3. CASE i \notin 1..Len(s)
    <3> DEFINE l == Len(s)
               j == i - l
    <3>1. j \in 1..Len(t) /\ l + j = i
      BY <1>1, <2>3
    <3>2. w[l + j] = t[j] /\ (x \o y)[l + j] = y[j] /\ y[j] = DataOf(t[j])
      BY <1>1, <1>2, <1>4, <3>1
    <3> HIDE DEF j, l
    <3> QED BY <2>1, <3>1, <3>2
  <2> QED BY <2>2, <2>3
<1>6. x \o y = z
  <2>1. Len(x \o y) = Len(z)
    BY <1>1, <1>3, <1>4
  <2> QED BY <1>3, <1>4, <1>5, <2>1, SeqEqual
<1>7. FlattenSeq(z) = FlattenSeq(x) \o FlattenSeq(y)
  BY <1>2, <1>6, FlattenJoined
<1> QED BY <1>7 DEF DataIn, Datas, x, y, z, w

\* A piece that is no data.
LEMMA DataInOther == \A p \in Pieces : p.kind # "data" => DataIn(<<p>>) = <<>>
<1> SUFFICES ASSUME NEW p \in Pieces, p.kind # "data" PROVE DataIn(<<p>>) = <<>>
  OBVIOUS
<1> DEFINE s == <<p>>
           e == <<>>
<1>1. s \in Seq(Pieces) /\ Len(s) = 1 /\ s[1] = p
  OBVIOUS
<1>2. DataOf(p) = e
  BY DEF DataOf
<1> HIDE DEF s
<1>3. Datas(s) \in Seq(Seq(Datum)) /\ Len(Datas(s)) = 1 /\ Datas(s)[1] = e
  BY <1>1, <1>2, DatasTyped
<1>4. e \in Seq(Datum)
  BY EmptySeq
<1> HIDE DEF e
<1>5. Datas(s) = <<e>>
  <2> DEFINE x == Datas(s)
             S == Seq(Datum)
  <2>1. x \in Seq(S) /\ Len(x) = 1 /\ x[1] = e /\ e \in S
    BY <1>3, <1>4
  <2> HIDE DEF x, S
  <2>2. <<e>> \in Seq(S) /\ Len(<<e>>) = 1 /\ <<e>>[1] = e
    BY <2>1
  <2>3. x = <<e>>
    BY <2>1, <2>2, SeqEqual
  <2> QED BY <2>3 DEF x
<1>6. FlattenSeq(<<e>>) = e
  BY <1>4, FlattenFew
<1>7. DataIn(s) = FlattenSeq(Datas(s))
  BY DEF DataIn, Datas
<1> QED BY <1>5, <1>6, <1>7 DEF s, e

\* Data units one by one.
LEMMA DataInUnits ==
  \A b \in Seq(Unit) : DataIn([k \in 1..Len(b) |-> Data(b[k])]) = b
<1> SUFFICES ASSUME NEW b \in Seq(Unit)
             PROVE  DataIn([k \in 1..Len(b) |-> Data(b[k])]) = b
  OBVIOUS
<1> DEFINE n == Len(b)
           d == [k \in 1..n |-> Data(b[k])]
           x == Datas(d)
           T == {k \in Nat : k <= n => FlattenSeq(Firsts(x, k)) = Stretch(b, 0, k)}
<1>1. n \in Nat /\ \A k \in 1..n : b[k] \in Unit
  BY ElementOfSeq
<1>2. ASSUME NEW k \in 1..n PROVE Data(b[k]) \in Pieces /\ DataOf(Data(b[k])) = <<b[k]>>
  <2>1. b[k] \in Unit
    BY <1>1
  <2> QED BY <2>1 DEF Data, Piece, Pieces, DataOf
<1>3. d \in Seq(Pieces) /\ Len(d) = n /\ \A k \in 1..n : d[k] = Data(b[k])
  <2> HIDE DEF n
  <2> QED BY <1>1, <1>2
<1> HIDE DEF d
<1>4. x \in Seq(Seq(Datum)) /\ Len(x) = n /\ \A k \in 1..n : x[k] = <<b[k]>>
  BY <1>2, <1>3, DatasTyped
<1> HIDE DEF x
<1>5. 0 \in T
  <2>1. Firsts(x, 0) = <<>>
    BY <1>4, FirstsAll
  <2>2. FlattenSeq(Firsts(x, 0)) = <<>>
    BY <2>1, FlattenFew
  <2>3. IsStretch(Stretch(b, 0, 0), b, 0, 0, Unit)
    BY <1>1, PartIs
  <2>4. Stretch(b, 0, 0) = <<>>
    BY <2>3, EmptySeq DEF IsStretch
  <2> QED BY <2>2, <2>4
<1>6. ASSUME NEW k \in Nat, k \in T PROVE k + 1 \in T
  <2> SUFFICES ASSUME k + 1 <= n PROVE FlattenSeq(Firsts(x, k + 1)) = Stretch(b, 0, k + 1)
    OBVIOUS
  <2>1. k <= n /\ k + 1 \in 1..n /\ k + 1 \in Nat /\ k <= k + 1 /\ 0 <= k
    BY <1>1
  <2>2. FlattenSeq(Firsts(x, k)) = Stretch(b, 0, k)
    BY <1>6, <2>1
  <2>3. FlattenSeq(Firsts(x, k + 1)) = FlattenSeq(Firsts(x, k)) \o x[k + 1]
    <3>1. k + 1 <= Len(x)
      BY <1>4, <2>1
    <3> QED BY <1>4, <3>1, FlattenGrows
  <2>4. Stretch(b, k, k + 1) = <<b[k + 1]>>
    <3>1. IsStretch(Stretch(b, k, k + 1), b, k, k + 1, Unit)
      BY <2>1, PartIs
    <3>2. Stretch(b, k, k + 1) \in Seq(Unit) /\ Len(Stretch(b, k, k + 1)) = 1
          /\ Stretch(b, k, k + 1)[1] = b[k + 1]
      BY <3>1 DEF IsStretch
    <3> DEFINE u == b[k + 1]
    <3>3. u \in Unit
      BY <1>1, <2>1
    <3> HIDE DEF u
    <3>4. <<u>> \in Seq(Unit) /\ Len(<<u>>) = 1 /\ <<u>>[1] = u
      BY <3>3
    <3>5. Stretch(b, k, k + 1) = <<u>>
      BY <3>2, <3>4, SeqEqual DEF u
    <3> QED BY <3>5 DEF u
  <2>5. Stretch(b, 0, k) \o Stretch(b, k, k + 1) = Stretch(b, 0, k + 1)
    BY <2>1, PartsMeet
  <2>6. x[k + 1] = Stretch(b, k, k + 1)
    BY <1>4, <2>1, <2>4
  <2> QED BY <2>2, <2>3, <2>5, <2>6
<1> HIDE DEF T
<1>7. Nat \subseteq T
  BY <1>5, <1>6, SetInduction
<1>8. FlattenSeq(Firsts(x, n)) = Stretch(b, 0, n)
  <2>1. n \in T /\ n <= n
    BY <1>1, <1>7
  <2> QED BY <2>1 DEF T
<1>9. Firsts(x, n) = x
  <2>1. Firsts(x, Len(x)) = x
    BY <1>4, FirstsAll
  <2> QED BY <1>4, <2>1
<1>10. Stretch(b, 0, n) = b
  <2>1. IsStretch(Stretch(b, 0, n), b, 0, n, Unit)
    BY <1>1, PartIs
  <2>2. Stretch(b, 0, n) \in Seq(Unit) /\ Len(Stretch(b, 0, n)) = n
        /\ \A i \in 1..n : Stretch(b, 0, n)[i] = b[i]
    BY <1>1, <2>1 DEF IsStretch
  <2> QED BY <2>2, SeqEqual
<1>11. DataIn(d) = FlattenSeq(x)
  BY DEF DataIn, Datas, x
<1> QED BY <1>8, <1>9, <1>10, <1>11 DEF d

LEMMA DataInNothing == DataIn(<<>>) = <<>>
<1> DEFINE e == <<>>
<1>1. e \in Seq(Pieces) /\ Len(e) = 0
  BY EmptySeq
<1> HIDE DEF e
<1>2. Datas(e) \in Seq(Seq(Datum)) /\ Len(Datas(e)) = 0
  BY <1>1, DatasTyped
<1>3. Datas(e) = <<>>
  <2> DEFINE x == Datas(e)
             S == Seq(Datum)
  <2>1. x \in Seq(S) /\ Len(x) = 0
    BY <1>2
  <2> HIDE DEF x, S
  <2>2. x = <<>>
    BY <2>1, EmptySeq
  <2> QED BY <2>2 DEF x
<1>4. DataIn(e) = FlattenSeq(Datas(e))
  BY DEF DataIn, Datas
<1> QED BY <1>3, <1>4, FlattenFew DEF e

\* No part of an error response.
Errorless(s) == \A k \in 1..Len(s) : s[k].kind # "error body"

\* Pieces that carry d and no error.
Carries(s, d) == s \in Seq(Pieces) /\ Errorless(s) /\ DataIn(s) = d

LEMMA CarriesJoined ==
  \A s, t, d, e : Carries(s, d) /\ Carries(t, e) => Carries(s \o t, d \o e)
<1> SUFFICES ASSUME NEW s, NEW t, NEW d, NEW e, Carries(s, d), Carries(t, e)
             PROVE  Carries(s \o t, d \o e)
  OBVIOUS
<1>1. s \in Seq(Pieces) /\ t \in Seq(Pieces) /\ DataIn(s) = d /\ DataIn(t) = e
      /\ Errorless(s) /\ Errorless(t)
  BY DEF Carries
<1>2. DataIn(s \o t) = d \o e
  BY <1>1, DataInJoined
<1> DEFINE w == s \o t
           l == Len(s)
<1>3. /\ w \in Seq(Pieces) /\ Len(w) = l + Len(t) /\ l \in Nat /\ Len(t) \in Nat
      /\ \A i \in 1..l : w[i] = s[i]
      /\ \A j \in 1..Len(t) : w[l + j] = t[j]
  BY <1>1, Joined
<1> HIDE DEF w
<1>4. ASSUME NEW k \in 1..Len(w) PROVE w[k].kind # "error body"
  <2>1. CASE k \in 1..l
    BY <1>1, <1>3, <2>1 DEF Errorless
  <2>2. CASE k \notin 1..l
    <3> DEFINE j == k - l
    <3> HIDE DEF l
    <3>1. j \in 1..Len(t) /\ l + j = k
      BY <1>3, <2>2
    <3> HIDE DEF j
    <3>2. w[k] = t[j]
      BY <1>3, <3>1
    <3>3. t[j].kind # "error body"
      BY <1>1, <3>1 DEF Errorless
    <3> QED BY <3>2, <3>3
  <2> QED BY <2>1, <2>2
<1> QED BY <1>2, <1>3, <1>4 DEF Carries, Errorless, w

LEMMA CarriesNothing ==
  /\ Carries(<<>>, <<>>)
  /\ \A p \in Pieces : p.kind \notin {"data", "error body"} => Carries(<<p>>, <<>>)
<1>1. Carries(<<>>, <<>>)
  BY PiecesTyped, DataInNothing DEF Carries, Errorless
<1>2. ASSUME NEW p \in Pieces, p.kind \notin {"data", "error body"}
      PROVE  Carries(<<p>>, <<>>)
  <2> DEFINE s == <<p>>
  <2>1. DataIn(s) = <<>>
    BY <1>2, DataInOther
  <2>2. s \in Seq(Pieces) /\ Len(s) = 1 /\ s[1] = p
    OBVIOUS
  <2> HIDE DEF s
  <2>3. Errorless(s)
    <3>1. \A k \in 1..Len(s) : k = 1
      BY <2>2
    <3>2. s[1].kind # "error body"
      BY <1>2, <2>2
    <3> QED BY <3>1, <3>2 DEF Errorless
  <2>4. Carries(s, <<>>)
    BY <2>1, <2>2, <2>3 DEF Carries
  <2> QED BY <2>4 DEF s
<1> QED BY <1>1, <1>2

LEMMA UnitsAreData == \A b \in Seq(Unit) : b \in Seq(Datum)
<1> SUFFICES ASSUME NEW b \in Seq(Unit) PROVE b \in Seq(Datum)
  OBVIOUS
<1> DEFINE n == Len(b)
<1>1. n \in Nat /\ \A k \in 1..n : b[k] \in Datum
  <2>1. \A u \in Unit : u \in Datum
    BY DEF Datum
  <2>2. n \in Nat /\ \A k \in 1..n : b[k] \in Unit
    BY ElementOfSeq
  <2> QED BY <2>1, <2>2
<1>2. b = [k \in 1..n |-> b[k]]
  OBVIOUS
<1> HIDE DEF n
<1> QED BY <1>1, <1>2

\* A chunk carries the buffer it is made of.
LEMMA CarriesChunk == \A b \in Seq(Unit) : Carries(Chunk(b), b)
<1> SUFFICES ASSUME NEW b \in Seq(Unit) PROVE Carries(Chunk(b), b)
  OBVIOUS
<1>1. CASE b = <<>>
  BY <1>1, CarriesNothing DEF Chunk
<1>2. CASE b # <<>>
  <2> DEFINE n == Len(b)
             d == [k \in 1..n |-> Data(b[k])]
             x == <<Size(n)>>
             y == <<LineEnd>>
  <2>1. n \in Nat /\ \A k \in 1..n : b[k] \in Unit
    BY ElementOfSeq
  <2>2. DataIn(d) = b
    BY DataInUnits
  <2>3. Chunk(b) = (x \o d) \o y
    BY <1>2 DEF Chunk
  <2> HIDE DEF n
  <2>4. Carries(x, <<>>) /\ Carries(y, <<>>)
    <3>1. Size(n) \in Pieces /\ LineEnd \in Pieces
      BY <2>1 DEF Size, LineEnd, Piece, Pieces
    <3> QED BY <3>1, Kinds, CarriesNothing
  <2>5. d \in Seq(Pieces) /\ Len(d) = n /\ \A k \in 1..n : d[k] = Data(b[k])
    <3>1. \A k \in 1..n : Data(b[k]) \in Pieces
      BY <2>1 DEF Data, Piece, Pieces
    <3> QED BY <2>1, <3>1
  <2> HIDE DEF d, x, y
  <2>6. Carries(d, b)
    BY <2>2, <2>5, Kinds DEF Carries, Errorless
  <2>7. Carries((x \o d) \o y, (<<>> \o b) \o <<>>)
    BY <2>4, <2>6, CarriesJoined
  <2>8. (<<>> \o b) \o <<>> = b
    BY ConcatEmptySeq
  <2> QED BY <2>3, <2>7, <2>8
<1> QED BY <1>1, <1>2

\* What appendCgiChunk adds to what is sent.
LEMMA CarriesMore ==
  ASSUME NEW u \in Seq(Pieces), NEW o \in Seq(Pieces), NEW d \in Seq(Datum),
         Carries(u \o o, d)
  PROVE  /\ \A b \in Seq(Unit) : Carries(u \o (o \o Chunk(b)), d \o b)
         /\ Carries(u \o (o \o <<StatusLine>>), d)
         /\ Carries(u \o (o \o <<LastChunk>>), d)
<1>1. ASSUME NEW p \in Pieces, p.kind \notin {"data", "error body"}
      PROVE  Carries(u \o (o \o <<p>>), d)
  <2>1. Carries((u \o o) \o <<p>>, d \o <<>>)
    BY <1>1, CarriesNothing, CarriesJoined
  <2>2. <<p>> \in Seq(Pieces)
    OBVIOUS
  <2>3. Assoc(u, o, <<p>>)
    BY <2>2, Associated
  <2>4. d \o <<>> = d
    BY ConcatEmptySeq
  <2> QED BY <2>1, <2>3, <2>4 DEF Assoc
<1>2. ASSUME NEW b \in Seq(Unit) PROVE Carries(u \o (o \o Chunk(b)), d \o b)
  <2>1. Carries((u \o o) \o Chunk(b), d \o b)
    BY CarriesChunk, CarriesJoined
  <2>2. Chunk(b) \in Seq(Pieces)
    BY ChunkTyped
  <2>3. Assoc(u, o, Chunk(b))
    BY <2>2, Associated
  <2> QED BY <2>1, <2>3 DEF Assoc
<1> QED BY <1>1, <1>2, Kinds, PiecesTyped

-----------------------------------------------------------------------------
(* Where the headers of a growing output end *)

\* i is where a unit of U is met first in b, or 0.
IsFirst(i, b, U) ==
  \/ i = 0 /\ \A k \in 1..Len(b) : b[k] \notin U
  \/ i \in 1..Len(b) /\ b[i] \in U /\ \A k \in 1..Len(b) : b[k] \in U => i <= k

LEMMA FirstIs ==
  ASSUME NEW U, NEW b \in Seq(Unit), NEW i,
         LET I == {k \in 1..Len(b) : b[k] \in U} IN i = IF I # {} THEN Min(I) ELSE 0
  PROVE  IsFirst(i, b, U)
<1> DEFINE I == {k \in 1..Len(b) : b[k] \in U}
<1>1. i = IF I # {} THEN Min(I) ELSE 0
  OBVIOUS
<1>2. CASE I = {}
  <2>1. i = 0
    BY <1>1, <1>2
  <2>2. \A k \in 1..Len(b) : b[k] \notin U
    BY <1>2
  <2> QED BY <2>1, <2>2 DEF IsFirst
<1>3. CASE I # {}
  <2>1. I \in SUBSET Nat
    OBVIOUS
  <2> HIDE DEF I
  <2>2. i \in I /\ \A y \in I : i <= y
    BY <1>1, <1>3, <2>1, LeastExists
  <2> QED BY <2>2 DEF IsFirst, I
<1> QED BY <1>2, <1>3

LEMMA HeaderEndIs ==
  ASSUME NEW b \in Seq(Unit)
  PROVE  /\ \/ IsFirst(HeaderEnd(b), b, {"rnrn"}) /\ HeaderEnd(b) # 0
            \/ IsFirst(HeaderEnd(b), b, {"nn"}) /\ \A k \in 1..Len(b) : b[k] # "rnrn"
         /\ IsFirst(BlankLine(b), b, {"rnrn", "nn"})
<1> DEFINE At(U) == {k \in 1..Len(b) : b[k] \in U}
           First(U) == IF At(U) # {} THEN Min(At(U)) ELSE 0
<1>1. ASSUME NEW U PROVE IsFirst(First(U), b, U)
  <2> DEFINE i == First(U)
  <2>1. LET I == {k \in 1..Len(b) : b[k] \in U} IN i = IF I # {} THEN Min(I) ELSE 0
    OBVIOUS
  <2> HIDE DEF i
  <2>2. IsFirst(i, b, U)
    BY <2>1, FirstIs
  <2> QED BY <2>2 DEF i
<1>2. BlankLine(b) = First({"rnrn", "nn"})
  BY Zenon DEF BlankLine, SelectInSeq
<1>3. ASSUME NEW u PROVE {k \in 1..Len(b) : b[k] = u} = At({u})
  OBVIOUS
<1>4. CASE Contains(b, "rnrn")
  <2>1. HeaderEnd(b) = First({"rnrn"})
    <3>1. HeaderEnd(b) = LET I == {k \in 1..Len(b) : b[k] = "rnrn"}
                         IN IF I # {} THEN Min(I) ELSE 0
      BY <1>4, Zenon DEF HeaderEnd, SelectInSeq
    <3> QED BY <1>3, <3>1
  <2>2. IsFirst(HeaderEnd(b), b, {"rnrn"})
    BY <1>1, <2>1
  <2>3. HeaderEnd(b) # 0
    BY <1>4, <2>2 DEF IsFirst, Contains
  <2> HIDE DEF First
  <2> QED BY <1>1, <1>2, <2>2, <2>3
<1>5. CASE ~Contains(b, "rnrn")
  <2>1. HeaderEnd(b) = First({"nn"})
    <3>1. HeaderEnd(b) = LET I == {k \in 1..Len(b) : b[k] = "nn"}
                         IN IF I # {} THEN Min(I) ELSE 0
      BY <1>5, Zenon DEF HeaderEnd, SelectInSeq
    <3> QED BY <1>3, <3>1
  <2>2. IsFirst(HeaderEnd(b), b, {"nn"})
    BY <1>1, <2>1
  <2>3. \A k \in 1..Len(b) : b[k] # "rnrn"
    BY <1>5 DEF Contains
  <2> HIDE DEF First
  <2> QED BY <1>1, <1>2, <2>2, <2>3
<1> QED BY <1>4, <1>5

\* The two ways to end the headers do not meet: no CRLF CRLF comes after an
\* LF LF unless the headers had ended before it.
HeadersEndOnce(o) ==
  \A i, j \in 1..Len(o) :
    i < j /\ o[i] = "nn" /\ o[j] = "rnrn" => \E k \in 1..(i - 1) : o[k] = "rnrn"

\* Then parseCgiHeaders finds the blank line as soon as it has arrived.
LEMMA HeadersKnown ==
  ASSUME NEW o \in Seq(Unit), HeadersEndOnce(o), NEW m \in 0..Len(o)
  PROVE  LET h == HeaderEnd(Stretch(o, 0, m)) IN
         /\ h # 0 => h = BlankLine(o) /\ h \in 1..m
         /\ h = 0 /\ m = Len(o) => BlankLine(o) = 0
<1> DEFINE p == Stretch(o, 0, m)
           h == HeaderEnd(p)
           l == BlankLine(o)
           n == Len(o)
<1>1. p \in Seq(Unit) /\ Len(p) = m /\ \A k \in 1..m : p[k] = o[k]
  <2>1. IsStretch(p, o, 0, m, Unit)
    BY PartIs
  <2> QED BY <2>1 DEF IsStretch
<1> HIDE DEF p
<1>2. \/ IsFirst(h, p, {"rnrn"}) /\ h # 0
      \/ IsFirst(h, p, {"nn"}) /\ \A k \in 1..Len(p) : p[k] # "rnrn"
  BY <1>1, HeaderEndIs
<1>3. IsFirst(l, o, {"rnrn", "nn"})
  BY HeaderEndIs
<1>4. n \in Nat /\ m \in Nat /\ m <= n
  OBVIOUS
<1>5. \A i, j \in 1..n :
        i < j /\ o[i] = "nn" /\ o[j] = "rnrn" => \E k \in 1..(i - 1) : o[k] = "rnrn"
  BY DEF HeadersEndOnce
<1> HIDE DEF h, l, n
<1>6. \/ l = 0 /\ \A k \in 1..n : o[k] \notin {"rnrn", "nn"}
      \/ /\ l \in 1..n /\ o[l] \in {"rnrn", "nn"}
         /\ \A k \in 1..n : o[k] \in {"rnrn", "nn"} => l <= k
  BY <1>3 DEF IsFirst, n
<1>7. \/ /\ h \in 1..m /\ o[h] = "rnrn" /\ \A k \in 1..m : o[k] = "rnrn" => h <= k
      \/ /\ h \in 1..m /\ o[h] = "nn" /\ \A k \in 1..m : o[k] = "nn" => h <= k
         /\ \A k \in 1..m : o[k] # "rnrn"
      \/ h = 0 /\ \A k \in 1..m : o[k] \notin {"rnrn", "nn"}
  BY <1>1, <1>2 DEF IsFirst
<1>8. CASE h \in 1..m /\ o[h] = "rnrn" /\ \A k \in 1..m : o[k] = "rnrn" => h <= k
  <2>1. h \in 1..n /\ l \in 1..n /\ l <= h
    BY <1>4, <1>6, <1>8
  <2>2. l = h
    <3> SUFFICES ASSUME l # h PROVE FALSE
      OBVIOUS
    <3>1. l < h /\ l \in 1..m
      BY <1>4, <1>8, <2>1
    <3>2. o[l] # "rnrn"
      BY <1>8, <2>1, <3>1
    <3>3. o[l] = "nn"
      BY <1>6, <2>1, <3>2
    <3>4. PICK k \in 1..(l - 1) : o[k] = "rnrn"
      BY <1>5, <1>8, <2>1, <3>1, <3>3
    <3>5. k \in 1..n /\ k < l
      BY <1>4, <2>1
    <3> QED BY <1>6, <2>1, <3>4, <3>5
  <2>3. h # 0
    BY <1>4, <1>8
  <2> QED BY <1>8, <2>2, <2>3 DEF h, l, p
<1>9. CASE /\ h \in 1..m /\ o[h] = "nn" /\ \A k \in 1..m : o[k] = "nn" => h <= k
           /\ \A k \in 1..m : o[k] # "rnrn"
  <2>1. h \in 1..n /\ l \in 1..n /\ l <= h
    BY <1>4, <1>6, <1>9
  <2>2. l \in 1..m
    BY <1>4, <1>9, <2>1
  <2>3. o[l] = "nn"
    BY <1>6, <1>9, <2>1, <2>2
  <2>4. l = h
    BY <1>4, <1>9, <2>1, <2>2, <2>3
  <2>5. h # 0
    BY <1>4, <1>9
  <2> QED BY <1>9, <2>4, <2>5 DEF h, l, p
<1>10. CASE h = 0 /\ \A k \in 1..m : o[k] \notin {"rnrn", "nn"}
  <2>1. m = n => l = 0
    BY <1>4, <1>6, <1>10
  <2> QED BY <1>10, <2>1 DEF h, l, p, n
<1> QED BY <1>7, <1>8, <1>9, <1>10

-----------------------------------------------------------------------------
(* The output of the script, between the process and what is sent *)

\* u is sent and r is the response being built, when the first m units of o
\* have been read: what is not in r's buffer has become data.
Flowing(u, r, o, m) ==
  /\ r.stage = "headers" => u = <<>> /\ r.out = <<>> /\ r.buffer = Stretch(o, 0, m)
  /\ r.stage = "body" =>
       /\ BlankLine(o) <= m
       /\ \E d \in Seq(Datum) :
            Carries(u \o r.out, d) /\ d \o r.buffer = Stretch(o, BlankLine(o), m)

LEMMA BlankLineInRange == \A o \in Seq(Unit) : BlankLine(o) \in 0..Len(o)
BY HeaderEndIs DEF IsFirst

LEMMA FlowBegun ==
  ASSUME NEW o \in Seq(Unit), NEW m \in 0..Len(o), BlankLine(o) <= m,
         NEW u, NEW r \in Response, r.stage = "headers", Flowing(u, r, o, m)
  PROVE  LET s == Begin(r, BlankLine(o)) IN
         s \in Response /\ s.stage = "body" /\ Flowing(u, s, o, m)
<1> DEFINE h == BlankLine(o)
           s == Begin(r, h)
<1>1. u = <<>> /\ r.out = <<>> /\ r.buffer = Stretch(o, 0, m)
  BY DEF Flowing
<1>2. h \in Nat /\ h <= m /\ m \in Nat /\ m <= Len(o)
  BY BlankLineInRange
<1> HIDE DEF h
<1>3. r.buffer \in Seq(Unit) /\ Len(r.buffer) = m
  <2>1. IsStretch(Stretch(o, 0, m), o, 0, m, Unit)
    BY <1>2, PartIs
  <2> QED BY <1>1, <1>2, <2>1 DEF IsStretch
<1>4. /\ s \in Response /\ s.stage = "body" /\ s.out = r.out \o <<StatusLine>>
      /\ s.buffer = SubSeq(r.buffer, h + 1, Len(r.buffer))
  <2>1. h \in 0..Len(r.buffer)
    BY <1>2, <1>3
  <2> QED BY <2>1, BeginStep
<1> HIDE DEF s
<1>5. s.buffer = Stretch(o, h, m)
  <2>1. s.buffer = Stretch(Stretch(o, 0, m), h, m)
    BY <1>1, <1>3, <1>4 DEF Stretch
  <2>2. Stretch(Stretch(o, 0, m), h, m) = Stretch(o, 0 + h, 0 + m)
    <3>1. 0 \in Nat /\ 0 <= m /\ h <= m /\ m <= m - 0
      BY <1>2
    <3> QED BY <1>2, <3>1, PartOfPart
  <2> QED BY <1>2, <2>1, <2>2
<1> DEFINE e == <<>>
<1>6. e \in Seq(Pieces) /\ e \in Seq(Datum) /\ Carries(e \o e, e)
  <2>1. e \o e = e
    BY PiecesTyped, ConcatEmptySeq
  <2> QED BY <2>1, CarriesNothing, EmptySeq
<1>7. u = e /\ r.out = e
  BY <1>1
<1> HIDE DEF e
<1>8. Carries(u \o s.out, e)
  <2>1. Carries(e \o (e \o <<StatusLine>>), e)
    BY <1>6, CarriesMore
  <2> QED BY <1>4, <1>7, <2>1
<1>9. e \o s.buffer = Stretch(o, h, m)
  <2>1. s.buffer \in Seq(Unit)
    BY <1>4 DEF Response
  <2>2. e \o s.buffer = s.buffer
    BY <2>1, ConcatEmptySeq DEF e
  <2> QED BY <1>5, <2>2
<1>10. Flowing(u, s, o, m)
  BY <1>2, <1>4, <1>6, <1>8, <1>9 DEF Flowing, h
<1> QED BY <1>4, <1>10 DEF s, h

LEMMA FlowStreamed ==
  ASSUME NEW o \in Seq(Unit), NEW m \in 0..Len(o),
         NEW u \in Seq(Pieces), NEW r \in Response, r.stage = "body", Flowing(u, r, o, m)
  PROVE  LET s == Stream(r) IN
         /\ s \in Response /\ s.stage = "body" /\ Flowing(u, s, o, m)
         /\ Carries(u \o s.out, Stretch(o, BlankLine(o), m))
<1> DEFINE h == BlankLine(o)
           s == Stream(r)
<1>1. h <= m /\ h \in Nat
  BY BlankLineInRange DEF Flowing
<1>2. PICK d \in Seq(Datum) : Carries(u \o r.out, d) /\ d \o r.buffer = Stretch(o, h, m)
  BY DEF Flowing
<1>3. r.out \in Seq(Pieces) /\ r.buffer \in Seq(Unit)
  BY DEF Response
<1>4. /\ s \in Response /\ s.stage = "body" /\ s.buffer = <<>>
      /\ s.out = r.out \o Chunk(r.buffer)
  BY StreamStep
<1> HIDE DEF s, h
<1>5. Carries(u \o s.out, Stretch(o, h, m))
  <2>1. Carries(u \o (r.out \o Chunk(r.buffer)), d \o r.buffer)
    BY <1>2, <1>3, CarriesMore
  <2> QED BY <1>2, <1>4, <2>1
<1>6. Stretch(o, h, m) \in Seq(Datum)
  <2>1. IsStretch(Stretch(o, h, m), o, h, m, Unit)
    BY <1>1, PartIs
  <2>2. Stretch(o, h, m) \in Seq(Unit)
    BY <2>1 DEF IsStretch
  <2> QED BY <2>2, UnitsAreData
<1>7. Stretch(o, h, m) \o s.buffer = Stretch(o, h, m)
  BY <1>4, <1>6, ConcatEmptySeq
<1>8. Flowing(u, s, o, m)
  BY <1>1, <1>4, <1>5, <1>6, <1>7 DEF Flowing, h
<1> QED BY <1>4, <1>5, <1>8 DEF s, h

\* appendCgiChunk loses nothing, and takes what follows the blank line for body.
LEMMA FlowOutput ==
  ASSUME NEW o \in Seq(Unit), HeadersEndOnce(o), NEW m \in 0..Len(o),
         NEW u \in Seq(Pieces), NEW r \in Response, r.stage \in {"headers", "body"},
         Flowing(u, r, o, m)
  PROVE  LET q == AppendOutput(r) IN
         /\ q \in Response /\ q.stage \in {"headers", "body"} /\ Flowing(u, q, o, m)
         /\ q.stage = "headers" => q = r /\ HeaderEnd(Stretch(o, 0, m)) = 0
<1> DEFINE q == AppendOutput(r)
<1>1. CASE r.stage = "body"
  <2>1. q = Stream(r)
    BY <1>1 DEF AppendOutput
  <2> QED BY <1>1, <2>1, FlowStreamed
<1>2. CASE r.stage = "headers" /\ HeaderEnd(r.buffer) = 0
  <2>1. q = r /\ r.buffer = Stretch(o, 0, m)
    BY <1>2 DEF AppendOutput, Flowing
  <2> QED BY <1>2, <2>1
<1>3. CASE r.stage = "headers" /\ HeaderEnd(r.buffer) # 0
  <2> DEFINE h == HeaderEnd(r.buffer)
             s == Begin(r, h)
  <2>1. r.buffer = Stretch(o, 0, m)
    BY <1>3 DEF Flowing
  <2>2. h = BlankLine(o) /\ h \in 1..m
    BY <1>3, <2>1, HeadersKnown
  <2>3. q = Stream(s)
    BY <1>3 DEF AppendOutput
  <2>4. s \in Response /\ s.stage = "body" /\ Flowing(u, s, o, m)
    <3>1. BlankLine(o) <= m /\ s = Begin(r, BlankLine(o))
      BY <2>2
    <3> HIDE DEF s, h
    <3> QED BY <1>3, <3>1, FlowBegun
  <2> HIDE DEF s, h, q
  <2>5. Stream(s) \in Response /\ Stream(s).stage = "body" /\ Flowing(u, Stream(s), o, m)
    BY <2>4, FlowStreamed
  <2> QED BY <2>3, <2>5 DEF q
<1> QED BY <1>1, <1>2, <1>3

\* At the end of the output all of the body has become data.
LEMMA FlowFinal ==
  ASSUME NEW o \in Seq(Unit), HeadersEndOnce(o), NEW u \in Seq(Pieces),
         NEW r \in Response, r.stage \in {"headers", "body"}, Flowing(u, r, o, Len(o)),
         r.stage = "headers" => HeaderEnd(Stretch(o, 0, Len(o))) = 0
  PROVE  LET q == AppendFinal(r) IN
         q \in Response /\ q.stage = "finished" /\ Carries(u \o q.out, BodyOf(o))
<1> DEFINE q == AppendFinal(r)
           n == Len(o)
           s == IF r.stage = "headers" THEN Begin(r, 0) ELSE r
<1>1. q = Finish(Stream(s))
  BY DEF AppendFinal
<1>2. n \in 0..n /\ n \in Nat
  OBVIOUS
<1>3. s \in Response /\ s.stage = "body" /\ Flowing(u, s, o, n)
  <2>1. CASE r.stage = "body"
    BY <2>1
  <2>2. CASE r.stage = "headers"
    <3>1. BlankLine(o) = 0
      BY <1>2, <2>2, HeadersKnown
    <3>2. s = Begin(r, BlankLine(o)) /\ BlankLine(o) <= n
      BY <1>2, <2>2, <3>1
    <3> HIDE DEF s
    <3> QED BY <1>2, <2>2, <3>2, FlowBegun
  <2> QED BY <2>1, <2>2
<1> HIDE DEF s, n, q
<1> DEFINE t == Stream(s)
<1>4. t \in Response /\ t.stage = "body" /\ Carries(u \o t.out, Stretch(o, BlankLine(o), n))
  BY <1>2, <1>3, FlowStreamed DEF n
<1> HIDE DEF t
<1>5. q \in Response /\ q.stage = "finished" /\ q.out = t.out \o <<LastChunk>>
  <2>1. Finish(t) \in Response /\ Finish(t).stage = "finished"
        /\ Finish(t).out = t.out \o <<LastChunk>>
    BY <1>4, FinishStep
  <2> QED BY <1>1, <2>1 DEF t
<1>6. t.out \in Seq(Pieces)
  BY <1>4 DEF Response
<1>7. Stretch(o, BlankLine(o), n) = BodyOf(o)
  BY DEF Stretch, BodyOf, n
<1>8. Stretch(o, BlankLine(o), n) \in Seq(Datum)
  <2>1. BlankLine(o) \in Nat /\ BlankLine(o) <= n
    BY <1>2, BlankLineInRange DEF n
  <2>2. IsStretch(Stretch(o, BlankLine(o), n), o, BlankLine(o), n, Unit)
    BY <1>2, <2>1, PartIs DEF n
  <2>3. Stretch(o, BlankLine(o), n) \in Seq(Unit)
    BY <2>2 DEF IsStretch
  <2> QED BY <2>3, UnitsAreData
<1>9. Carries(u \o q.out, Stretch(o, BlankLine(o), n))
  BY <1>4, <1>5, <1>6, <1>8, CarriesMore
<1> QED BY <1>5, <1>7, <1>9 DEF q

-----------------------------------------------------------------------------
(* The inductive invariant of the relay *)

\* How much of the output has been read from the pipe.
Taken == written - Len(pipe)

Body == BodyOf(script.out)

Starts(d, b) == \E n \in 0..Len(b) : d = Stretch(b, 0, n)

\* s is a response, or the beginning of one, that is true of the CGI.
Telling(s) ==
  \/ s = <<>>
  \/ s = ErrorResponse /\ script.exit = "failed"
  \/ /\ WellFormed(s)
     /\ \E d \in Seq(Datum) :
          /\ Carries(s, d) /\ Starts(d, Body)
          /\ (\E k \in 1..Len(s) : s[k].kind = "last chunk") =>
               script.exit = "ok" /\ d = Body

\* The process has written to the pipe what has not been read from it.
Piped ==
  /\ attached => Taken \in 0..Len(script.out) /\ pipe = Stretch(script.out, Taken, written)
  /\ life # "writing" /\ script.exit = "ok" => written = Len(script.out)
  /\ attached /\ state = "CGI_COMPLETED" => life = "exited" /\ pipe = <<>>

\* What has been read is sent or is still to be sent.
Conserved ==
  /\ attached => Flowing(Before, Current, script.out, Taken)
  /\ stage = "finished" => script.exit = "ok" /\ Carries(Sent, Body)
  /\ ~attached /\ stage = "body" =>
       \E d \in Seq(Datum) : Carries(Sent, d) /\ Starts(d, Body)
  /\ ~attached /\ stage = "headers" /\ state # "RESET" => script.exit = "failed"
  /\ state = "RESET" => Telling(Sent)

RelayInv == StreamInv /\ Piped /\ Conserved

LEMMA RelayInit == Init => RelayInv
<1> SUFFICES ASSUME Init PROVE RelayInv
  OBVIOUS
<1>1. StreamInv
  BY StreamInit
<1>2. script.out \in Seq(Unit)
  BY ScriptsAssumption DEF Init, Script
<1>3. Stretch(script.out, 0, 0) = <<>>
  <2> DEFINE o == script.out
  <2>1. IsStretch(Stretch(o, 0, 0), o, 0, 0, Unit)
    <3>1. o \in Seq(Unit) /\ 0 \in Nat /\ 0 <= 0 /\ 0 <= Len(o)
      BY <1>2
    <3> QED BY <3>1, PartIs
  <2>2. Stretch(o, 0, 0) \in Seq(Unit) /\ Len(Stretch(o, 0, 0)) = 0
    BY <2>1 DEF IsStretch
  <2> QED BY <2>2, EmptySeq
<1>4. Taken = 0 /\ written = 0 /\ pipe = <<>> /\ buffer = <<>>
  <2>1. written = 0 /\ pipe = <<>> /\ buffer = <<>>
    BY DEF Init
  <2>2. Len(pipe) = 0 /\ written = 0
    BY <2>1, EmptySeq
  <2>3. Taken = 0
    BY <2>2 DEF Taken
  <2> QED BY <2>1, <2>3
<1>5. Piped
  <2>1. 0 \in 0..Len(script.out)
    BY <1>2
  <2> QED BY <1>3, <1>4, <2>1 DEF Init, Piped
<1>6. Before = <<>> /\ Current.stage = "headers" /\ Current.out = <<>> /\ Current.buffer = <<>>
  <2>1. <<>> \o <<>> = <<>>
    BY PiecesTyped, ConcatEmptySeq
  <2> QED BY <2>1 DEF Init, Before, Current
<1>7. Conserved
  BY <1>3, <1>4, <1>6 DEF Init, Conserved, Flowing
<1> QED BY <1>1, <1>5, <1>7 DEF RelayInv

\* The script, and what Piped says of a state where the Cgi exists.
LEMMA ScriptTyped ==
  ProcessTyped =>
    /\ script.out \in Seq(Unit) /\ Len(script.out) \in Nat /\ written \in Nat
    /\ pipe \in Seq(Unit) /\ Len(pipe) \in Nat /\ buffer \in Seq(Unit)
    /\ written <= Len(script.out) /\ script.exit \in {"ok", "failed"}
<1> SUFFICES ASSUME ProcessTyped
             PROVE  /\ script.out \in Seq(Unit) /\ Len(script.out) \in Nat
                    /\ written \in Nat
                    /\ pipe \in Seq(Unit) /\ Len(pipe) \in Nat /\ buffer \in Seq(Unit)
                    /\ written <= Len(script.out) /\ script.exit \in {"ok", "failed"}
  OBVIOUS
<1>1. script.out \in Seq(Unit) /\ script.exit \in {"ok", "failed"}
  BY ScriptsAssumption DEF ProcessTyped, Script
<1> QED BY <1>1 DEF ProcessTyped

\* What the process does changes nothing that has been read.
LEMMA ConservedKept ==
  ASSUME Conserved, UNCHANGED <<script, buffer, attached, state, response, wbuf, wire>>,
         attached => Taken' = Taken
  PROVE  Conserved'
<1>1. UNCHANGED <<Before, Current, Sent, Body>>
  BY DEF Before, Current, Sent, Body, response
<1>2. Telling(Sent) => Telling(Sent)'
  BY <1>1 DEF Telling
<1> QED BY <1>1, <1>2 DEF Conserved, response

LEMMA WritesConserved == RelayInv /\ CgiWrites => Piped' /\ Conserved'
<1> SUFFICES ASSUME RelayInv, CgiWrites PROVE Piped' /\ Conserved'
  OBVIOUS
<1>1. ProcessTyped /\ Piped /\ Conserved /\ life = "writing"
      /\ UNCHANGED <<script, life, buffer, attached, state, response, wbuf, wire>>
  BY DEF RelayInv, StreamInv, CgiWrites
<1> DEFINE o == script.out
           t == Taken
           l == Len(pipe)
<1>2. o \in Seq(Unit) /\ Len(o) \in Nat /\ written \in Nat /\ pipe \in Seq(Unit)
      /\ l \in Nat /\ written <= Len(o)
  BY <1>1, ScriptTyped
<1>3. PICK n \in 1..(PipeCap - l) :
        /\ written + n <= Len(o)
        /\ pipe' = pipe \o SubSeq(o, written + 1, written + n)
        /\ written' = written + n
  BY DEF CgiWrites
<1>4. n \in Nat
  BY <1>2, CapacityAssumption
<1> DEFINE x == Stretch(o, written, written + n)
<1>5. x \in Seq(Unit) /\ Len(x) = n
  <2>1. written + n \in Nat /\ written <= written + n
    BY <1>2, <1>4
  <2>2. IsStretch(x, o, written, written + n, Unit)
    BY <1>2, <1>3, <2>1, PartIs
  <2>3. (written + n) - written = n
    BY <1>2, <1>4
  <2> QED BY <2>2, <2>3 DEF IsStretch
<1>6. pipe' = pipe \o x
  BY <1>3 DEF Stretch
<1> HIDE DEF x
<1>7. Len(pipe') = l + n
  BY <1>2, <1>5, <1>6, Joined
<1>8. Taken' = t
  <2>1. t = written - l /\ Taken' = written' - Len(pipe')
    BY DEF Taken
  <2> HIDE DEF l, t
  <2> QED BY <1>2, <1>3, <1>4, <1>7, <2>1
<1>9. attached => t \in 0..Len(o) /\ pipe = Stretch(o, t, written) /\ t <= written
  <2>1. attached => t \in 0..Len(o) /\ pipe = Stretch(o, t, written)
    BY <1>1 DEF Piped
  <2>2. t <= written
    BY <1>2 DEF Taken
  <2> QED BY <2>1, <2>2
<1> HIDE DEF t, l, o
<1>10. attached => pipe' = Stretch(o, t, written')
  <2> SUFFICES ASSUME attached PROVE pipe' = Stretch(o, t, written')
    OBVIOUS
  <2>1. t \in Nat /\ t <= written /\ written + n \in Nat /\ written <= written + n
    BY <1>2, <1>4, <1>9
  <2>2. Stretch(o, t, written) \o Stretch(o, written, written + n) = Stretch(o, t, written + n)
    <3>1. o \in Seq(Unit) /\ written \in Nat /\ written + n <= Len(o)
      BY <1>2, <1>3
    <3> QED BY <2>1, <3>1, PartsMeet
  <2> QED BY <1>3, <1>6, <1>9, <2>2 DEF x
<1>11. o' = o
  BY <1>1 DEF o
<1>12. attached /\ state = "CGI_COMPLETED" => FALSE
  BY <1>1 DEF Piped
<1>13. Piped'
  BY <1>1, <1>8, <1>9, <1>10, <1>11, <1>12 DEF Piped, o
<1>14. Conserved'
  BY <1>1, <1>8, ConservedKept DEF t
<1> QED BY <1>13, <1>14

LEMMA ExitConserved == RelayInv /\ (CgiCloses \/ CgiExits) => Piped' /\ Conserved'
<1> SUFFICES ASSUME RelayInv, CgiCloses \/ CgiExits PROVE Piped' /\ Conserved'
  OBVIOUS
<1>1. Piped /\ Conserved
      /\ UNCHANGED <<script, written, pipe, buffer, attached, state, response, wbuf, wire>>
  BY DEF RelayInv, CgiCloses, CgiExits
<1>2. Taken' = Taken
  BY <1>1 DEF Taken
<1>3. ASSUME CgiCloses PROVE Piped'
  BY <1>1, <1>2, <1>3 DEF Piped, CgiCloses
<1>4. ASSUME CgiExits PROVE Piped'
  BY <1>1, <1>2, <1>4 DEF Piped, CgiExits
<1>5. Conserved'
  BY <1>1, <1>2, ConservedKept
<1> QED BY <1>3, <1>4, <1>5

\* readFromPipe only moves what was in the pipe.
LEMMA FlowRead ==
  ASSUME NEW o \in Seq(Unit), NEW m \in 0..Len(o), NEW n \in 0..Len(o), m <= n,
         NEW u, NEW r \in Response, NEW q \in Response, r.stage # "finished",
         q.stage = r.stage, q.out = r.out, q.buffer = r.buffer \o Stretch(o, m, n),
         Flowing(u, r, o, m)
  PROVE  Flowing(u, q, o, n)
<1> DEFINE x == Stretch(o, m, n)
           h == BlankLine(o)
<1>1. m \in Nat /\ n \in Nat /\ n <= Len(o) /\ h \in Nat
  BY BlankLineInRange
<1>2. r.buffer \in Seq(Unit)
  BY DEF Response
<1>3. CASE r.stage = "headers"
  <2>1. Stretch(o, 0, m) \o Stretch(o, m, n) = Stretch(o, 0, n)
    BY <1>1, PartsMeet
  <2> QED BY <1>3, <2>1 DEF Flowing
<1>4. CASE r.stage = "body"
  <2>1. h <= m
    BY <1>4 DEF Flowing
  <2>2. PICK d \in Seq(Datum) : Carries(u \o r.out, d) /\ d \o r.buffer = Stretch(o, h, m)
    BY <1>4 DEF Flowing
  <2> HIDE DEF h
  <2>3. Stretch(o, h, m) \o x = Stretch(o, h, n)
    BY <1>1, <2>1, PartsMeet
  <2>4. x \in Seq(Unit)
    <3>1. IsStretch(x, o, m, n, Unit)
      BY <1>1, PartIs
    <3> QED BY <3>1 DEF IsStretch
  <2>5. d \o (r.buffer \o x) = (d \o r.buffer) \o x
    <3>1. r.buffer \in Seq(Datum) /\ x \in Seq(Datum)
      BY <1>2, <2>4, UnitsAreData
    <3> HIDE DEF x
    <3>2. Assoc(d, r.buffer, x)
      BY <3>1, Associated
    <3> QED BY <3>2 DEF Assoc
  <2>6. d \o q.buffer = Stretch(o, h, n)
    BY <2>2, <2>3, <2>5
  <2>7. h <= n
    BY <1>1, <2>1
  <2> QED BY <1>4, <2>2, <2>6, <2>7 DEF Flowing, h
<1> QED BY <1>3, <1>4 DEF Response

LEMMA PipeConserved == RelayInv /\ ProcessPipe => Piped' /\ Conserved'
<1> SUFFICES ASSUME RelayInv, ProcessPipe PROVE Piped' /\ Conserved'
  OBVIOUS
<1>1. ProcessTyped /\ ClientTyped /\ Sending /\ Piped /\ Conserved /\ attached
      /\ ProcessTyped' /\ ClientTyped'
      /\ UNCHANGED <<script, written, life, attached, stage, chunked, out, message, wbuf, wire>>
  <2>1. StreamInv'
    BY PipeStep DEF RelayInv
  <2> QED BY <2>1 DEF RelayInv, StreamInv, ProcessPipe, process, response
<1> DEFINE o == script.out
           t == Taken
           l == Len(pipe)
<1>2. o \in Seq(Unit) /\ Len(o) \in Nat /\ written \in Nat /\ pipe \in Seq(Unit)
      /\ l \in Nat /\ written <= Len(o) /\ buffer \in Seq(Unit)
  BY <1>1, ScriptTyped
<1>3. PICK n \in 0..l :
        /\ buffer' = buffer \o SubSeq(pipe, 1, n)
        /\ pipe' = SubSeq(pipe, n + 1, l)
        /\ \/ state' = state
           \/ state' = "CGI_COMPLETED" /\ life = "exited" /\ n = l
  <2>1. PICK in \in BOOLEAN, hup \in BOOLEAN : PipeEvents(in, hup)
    BY DEF ProcessPipe
  <2>2. l <= BufSize /\ BufSize \in Nat
    BY <1>1, <1>2, CapacityAssumption DEF ProcessTyped
  <2> DEFINE n == IF in \/ (hup /\ life = "exited")
                  THEN IF l <= BufSize THEN l ELSE BufSize
                  ELSE 0
  <2>3. n \in 0..l
    BY <1>2, <2>2
  <2>4. /\ buffer' = buffer \o SubSeq(pipe, 1, n)
        /\ pipe' = SubSeq(pipe, n + 1, l)
        /\ state' = IF hup /\ life = "exited" THEN "CGI_COMPLETED" ELSE state
    BY <2>1 DEF PipeEvents
  <2>5. \/ state' = state
        \/ state' = "CGI_COMPLETED" /\ life = "exited" /\ n = l
    BY <2>2, <2>4
  <2> HIDE DEF n
  <2> QED BY <2>3, <2>4, <2>5
<1>4. t \in 0..Len(o) /\ pipe = Stretch(o, t, written) /\ t = written - l
  BY <1>1 DEF Piped, Taken
<1>5. Len(pipe') = l - n /\ (n = l => pipe' = <<>>)
  <2>1. SubSeq(pipe, n + 1, l) \in Seq(Unit) /\ Len(SubSeq(pipe, n + 1, l)) = l - n
    BY <1>2, Cut
  <2> HIDE DEF l
  <2>2. pipe' \in Seq(Unit) /\ Len(pipe') = l - n
    BY <1>3, <2>1
  <2>3. n = l => Len(pipe') = 0
    BY <1>2, <2>2
  <2> QED BY <2>2, <2>3, EmptySeq
<1> HIDE DEF l
<1>6. Taken' = t + n /\ t + n \in 0..Len(o) /\ t <= t + n /\ t \in Nat
  <2>1. Taken' = written - (l - n)
    BY <1>1, <1>5 DEF Taken
  <2> HIDE DEF t, o
  <2> QED BY <1>2, <1>3, <1>4, <2>1
<1>7. SubSeq(pipe, 1, n) = Stretch(o, t, t + n) /\ pipe' = Stretch(o, t + n, written)
  <2>1. t \in Nat /\ t <= written /\ l = written - t /\ n \in Nat /\ 0 <= n /\ n <= l
    BY <1>2, <1>4, <1>6
  <2> HIDE DEF t, o
  <2>2. Stretch(Stretch(o, t, written), 0, n) = Stretch(o, t + 0, t + n)
    BY <1>2, <2>1, PartOfPart
  <2>3. Stretch(Stretch(o, t, written), n, l) = Stretch(o, t + n, t + l)
    BY <1>2, <2>1, PartOfPart
  <2>4. t + 0 = t /\ t + l = written
    BY <1>2, <2>1
  <2>5. Stretch(pipe, 0, n) = SubSeq(pipe, 1, n) /\ Stretch(pipe, n, l) = pipe'
    BY <1>3 DEF Stretch
  <2> QED BY <1>4, <2>2, <2>3, <2>4, <2>5
<1>8. Current \in Response /\ Current' \in Response
  BY <1>1 DEF ProcessTyped, ClientTyped, Current, Response
<1>9. Flowing(Before, Current, o, t)
  BY <1>1 DEF Conserved
<1>10. /\ Current.stage = stage /\ Current'.stage = stage
       /\ Current.out = out /\ Current'.out = out
       /\ Current.buffer = buffer /\ Current'.buffer = buffer'
       /\ Before' = Before /\ Sent' = Sent /\ o' = o
  BY <1>1 DEF Current, Before, Sent
<1>11. stage # "finished" /\ state # "RESET" /\ state' # "RESET"
  BY <1>1, <1>3 DEF Sending
<1> HIDE DEF t, o
<1>12. Flowing(Before, Current', o, t + n)
  <2>1. Current'.buffer = Current.buffer \o Stretch(o, t, t + n)
    BY <1>3, <1>7, <1>10
  <2>2. t \in 0..Len(o)
    BY <1>4
  <2> QED BY <1>2, <1>6, <1>8, <1>9, <1>10, <1>11, <2>1, <2>2, FlowRead
<1>13. Conserved'
  <2>1. Flowing(Before, Current, script.out, Taken)'
    BY <1>6, <1>10, <1>12 DEF o
  <2> QED BY <1>1, <1>11, <2>1 DEF Conserved
<1>14. Piped'
  <2>1. (Taken \in 0..Len(script.out) /\ pipe = Stretch(script.out, Taken, written))'
    BY <1>1, <1>6, <1>7, <1>10 DEF o
  <2>2. life' # "writing" /\ script'.exit = "ok" => written' = Len(script'.out)
    BY <1>1 DEF Piped
  <2>3. state' = "CGI_COMPLETED" => life' = "exited" /\ pipe' = <<>>
    <3>1. CASE state' = state /\ state = "CGI_COMPLETED"
      <4>1. life = "exited" /\ pipe = <<>>
        BY <1>1, <3>1 DEF Piped
      <4>2. l = 0
        BY <4>1, EmptySeq DEF l
      <4>3. n = l
        BY <1>3, <4>2
      <4> QED BY <1>1, <1>5, <4>1, <4>3
    <3>2. CASE state' = "CGI_COMPLETED" /\ life = "exited" /\ n = l
      BY <1>1, <1>5, <3>2
    <3> QED BY <1>3, <3>1, <3>2
  <2> QED BY <2>1, <2>2, <2>3 DEF Piped
<1> QED BY <1>13, <1>14

-----------------------------------------------------------------------------
(* The client's turn *)

\* What has become data is the beginning of the body.
LEMMA FlowStarts ==
  ASSUME NEW o \in Seq(Unit), NEW m \in 0..Len(o), BlankLine(o) <= m,
         NEW d \in Seq(Datum), NEW b \in Seq(Unit), d \o b = Stretch(o, BlankLine(o), m)
  PROVE  Starts(d, BodyOf(o))
<1> DEFINE h == BlankLine(o)
           n == Len(d)
           l == Len(o)
           x == Stretch(o, h, m)
           z == Stretch(o, h, h + n)
<1>1. h \in Nat /\ h <= m /\ m \in Nat /\ m <= l /\ l \in Nat /\ n \in Nat
  BY BlankLineInRange
<1> HIDE DEF h, l
<1>2. BodyOf(o) = Stretch(o, h, l)
  BY DEF BodyOf, Stretch, h, l
<1>3. b \in Seq(Datum) /\ d \o b = x
  BY UnitsAreData DEF h
<1>4. /\ Len(d \o b) = n + Len(b) /\ Len(b) \in Nat
      /\ \A i \in 1..n : (d \o b)[i] = d[i]
  BY <1>3, Joined
<1>5. Len(x) = m - h /\ \A i \in 1..(m - h) : x[i] = o[h + i]
  <2>1. IsStretch(x, o, h, m, Unit)
    BY <1>1, PartIs DEF l
  <2> QED BY <2>1 DEF IsStretch
<1> HIDE DEF x, n
<1>6. n <= m - h
  BY <1>1, <1>3, <1>4, <1>5
<1>7. ASSUME NEW i \in 1..n PROVE d[i] = o[h + i]
  <2>1. i \in 1..(m - h)
    BY <1>1, <1>6
  <2> QED BY <1>3, <1>4, <1>5, <2>1
<1>8. h + n \in Nat /\ h <= h + n /\ h + n <= l /\ (h + n) - h = n
  BY <1>1, <1>6
<1>9. z \in Seq(Unit) /\ Len(z) = n /\ \A i \in 1..n : z[i] = o[h + i]
  <2>1. IsStretch(z, o, h, h + n, Unit)
    BY <1>1, <1>8, PartIs DEF l
  <2> QED BY <1>8, <2>1 DEF IsStretch
<1> HIDE DEF z
<1>10. d = z
  <2>1. z \in Seq(Datum)
    BY <1>9, UnitsAreData
  <2>2. Len(d) = n
    BY DEF n
  <2> QED BY <1>7, <1>9, <2>1, <2>2, SeqEqual
<1>11. Stretch(Stretch(o, h, l), 0, n) = z
  <2>1. 0 \in Nat /\ 0 <= n /\ n <= l - h /\ h <= l /\ h + 0 = h
    BY <1>1, <1>8
  <2>2. Stretch(Stretch(o, h, l), 0, n) = Stretch(o, h + 0, h + n)
    BY <1>1, <2>1, PartOfPart DEF l
  <2> QED BY <2>1, <2>2 DEF z
<1>12. Len(Stretch(o, h, l)) = l - h
  <2>1. IsStretch(Stretch(o, h, l), o, h, l, Unit)
    BY <1>1, <1>8, PartIs DEF l
  <2> QED BY <2>1 DEF IsStretch
<1>13. n \in 0..Len(Stretch(o, h, l))
  BY <1>1, <1>8, <1>12
<1> QED BY <1>2, <1>10, <1>11, <1>13 DEF Starts

LEMMA BodyTyped ==
  \A o \in Seq(Unit) : BodyOf(o) \in Seq(Datum) /\ Starts(BodyOf(o), BodyOf(o))
<1> SUFFICES ASSUME NEW o \in Seq(Unit)
             PROVE  BodyOf(o) \in Seq(Datum) /\ Starts(BodyOf(o), BodyOf(o))
  OBVIOUS
<1> DEFINE h == BlankLine(o)
           l == Len(o)
           b == BodyOf(o)
<1>1. h \in Nat /\ h <= l /\ l \in Nat
  BY BlankLineInRange
<1>2. b = Stretch(o, h, l)
  BY DEF BodyOf, Stretch
<1> HIDE DEF h, b
<1>3. b \in Seq(Unit)
  <2>1. IsStretch(Stretch(o, h, l), o, h, l, Unit)
    BY <1>1, PartIs
  <2> QED BY <1>2, <2>1 DEF IsStretch
<1>4. b \in Seq(Datum)
  BY <1>3, UnitsAreData
<1>5. b \o <<>> = Stretch(o, BlankLine(o), l)
  BY <1>2, <1>4, ConcatEmptySeq DEF h
<1>6. <<>> \in Seq(Unit) /\ l \in 0..l /\ BlankLine(o) <= l
  BY <1>1, EmptySeq DEF h
<1>7. Starts(b, BodyOf(o))
  BY <1>4, <1>5, <1>6, FlowStarts
<1> QED BY <1>4, <1>7 DEF b

\* All that is, or was, to be sent is true of the CGI.
LEMMA Tells == RelayInv => Telling(Sent)
<1> SUFFICES ASSUME RelayInv PROVE Telling(Sent)
  OBVIOUS
<1>1. ProcessTyped /\ ClientTyped /\ Sending /\ Piped /\ Conserved
  BY DEF RelayInv, StreamInv
<1> DEFINE o == script.out
<1>2. o \in Seq(Unit) /\ buffer \in Seq(Unit)
  BY <1>1, ScriptTyped
<1>3. Body = BodyOf(o) /\ Body \in Seq(Datum) /\ Starts(Body, Body)
  BY <1>2, BodyTyped DEF Body
<1>4. stage \in {"headers", "body", "finished"} /\ attached \in BOOLEAN
  BY <1>1 DEF ProcessTyped, ClientTyped
<1>5. CASE state = "RESET"
  BY <1>1, <1>5 DEF Conserved
<1>6. CASE stage = "finished"
  <2>1. WellFormed(Sent) /\ script.exit = "ok" /\ Carries(Sent, Body)
    BY <1>1, <1>6 DEF Sending, Conserved
  <2> QED BY <1>3, <2>1 DEF Telling
<1>7. CASE stage = "body"
  <2>1. WellFormed(Sent) /\ \A k \in 1..Len(Sent) : Sent[k].kind # "last chunk"
    BY <1>1, <1>7 DEF Sending, Open
  <2>2. \E d \in Seq(Datum) : Carries(Sent, d) /\ Starts(d, Body)
    <3>1. CASE ~attached
      BY <1>1, <1>7, <3>1 DEF Conserved
    <3>2. CASE attached
      <4>1. Flowing(Before, Current, o, Taken) /\ Taken \in 0..Len(o)
        BY <1>1, <3>2 DEF Conserved, Piped
      <4>2. Current.stage = "body" /\ Current.out = out /\ Current.buffer = buffer
        BY <1>7 DEF Current
      <4>3. PICK d \in Seq(Datum) :
              Carries(Before \o out, d) /\ d \o buffer = Stretch(o, BlankLine(o), Taken)
        BY <4>1, <4>2 DEF Flowing
      <4>4. BlankLine(o) <= Taken
        BY <4>1, <4>2 DEF Flowing
      <4> HIDE DEF o
      <4>5. Starts(d, BodyOf(o))
        BY <1>2, <4>1, <4>3, <4>4, FlowStarts
      <4> QED BY <1>3, <4>3, <4>5, SentIs
    <3> QED BY <1>4, <3>1, <3>2
  <2> QED BY <2>1, <2>2 DEF Telling
<1>8. CASE stage = "headers" /\ state # "RESET" /\ attached
  <2>1. wire = <<>> /\ wbuf = <<>> /\ out = <<>>
    BY <1>1, <1>8 DEF Sending
  <2>2. <<>> \o <<>> = <<>>
    BY PiecesTyped, ConcatEmptySeq
  <2> QED BY <2>1, <2>2 DEF Telling, Sent
<1>9. CASE stage = "headers" /\ state # "RESET" /\ ~attached
  <2>1. wire \o wbuf = ErrorResponse /\ out = <<>> /\ script.exit = "failed"
    BY <1>1, <1>9 DEF Sending, Conserved
  <2>2. ErrorResponse \o <<>> = ErrorResponse
    BY PiecesTyped, ConcatEmptySeq
  <2> QED BY <2>1, <2>2 DEF Telling, Sent
<1> QED BY <1>4, <1>5, <1>6, <1>7, <1>8, <1>9

LEMMA RelayConserved ==
  RelayInv /\ HeadersEndOnce(script.out) /\ RelayOutput => Piped' /\ Conserved'
<1> SUFFICES ASSUME RelayInv, HeadersEndOnce(script.out), RelayOutput
             PROVE  Piped' /\ Conserved'
  OBVIOUS
<1> DEFINE q == AppendOutput(Current)
           o == script.out
           t == Taken
<1>1. ProcessTyped /\ ClientTyped /\ Sending /\ Piped /\ Conserved /\ attached
      /\ state = "CGI_JUST_STARTED" /\ ClientTyped' /\ Sending'
  <2>1. StreamInv'
    BY RelayStep DEF RelayInv
  <2> QED BY <2>1 DEF RelayInv, StreamInv, RelayOutput
<1>2. UNCHANGED <<script, written, life, pipe, attached>> /\ buffer' = q.buffer
      /\ HandleResponse(q, message)
  BY DEF RelayOutput, process
<1>3. o \in Seq(Unit) /\ t \in 0..Len(o) /\ message \in Seq(Pieces)
      /\ Before \in Seq(Pieces) /\ HeadersEndOnce(o)
  BY <1>1, ScriptTyped, SentIs DEF Piped, ClientTyped
<1>4. Current \in Response /\ Current.stage = stage /\ Current.out = out
      /\ stage \in {"headers", "body"}
  <2>1. stage \in {"headers", "body"}
    BY <1>1 DEF ClientTyped, Sending
  <2> QED BY <1>1, <2>1, Typed, CurrentTyped DEF Current
<1>5. Flowing(Before, Current, o, t)
  BY <1>1 DEF Conserved
<1> HIDE DEF o, t
<1>6. q \in Response /\ q.stage \in {"headers", "body"} /\ Flowing(Before, q, o, t)
      /\ (q.stage = "headers" => q = Current)
  BY <1>3, <1>4, <1>5, FlowOutput
<1> HIDE DEF q
<1>7. Taken' = t /\ o' = o
  BY <1>2 DEF Taken, t, o
<1>8. ASSUME q.stage = "body"
      PROVE  state' = state /\ stage' = "body" /\ Sent' = Before \o q.out
  <2>1. q.chunked
    BY <1>6, <1>8 DEF Response
  <2>2. /\ Sent' = wire \o wbuf \o q.out
        /\ \/ state' = "RESET" /\ q.stage = "finished"
           \/ state' = state /\ stage' = q.stage
    BY <1>1, <1>2, <1>3, <1>6, <2>1, HandlesChunked
  <2> QED BY <1>8, <2>2 DEF Before
<1>9. ASSUME q.stage = "headers"
      PROVE  state' = state /\ stage' = "headers"
  <2>1. q = Current
    BY <1>6, <1>9
  <2>2. wbuf = <<>> /\ message = <<>> /\ ~q.chunked
    BY <1>1, <1>4, <1>9, <2>1 DEF Sending, ClientTyped, Current
  <2>3. LET w == IF wbuf = <<>> THEN message ELSE wbuf IN
         /\ ClientTyped' /\ stage' = "headers"
         /\ \/ /\ w = <<>> /\ out' = q.out /\ message' = message
               /\ UNCHANGED <<state, wbuf, wire>>
            \/ /\ w # <<>> /\ wire' \o wbuf' = wire \o w /\ wbuf' = <<>>
               /\ out' = <<>> /\ state' = "RESET"
            \/ /\ w # <<>> /\ wire' \o wbuf' = wire \o w /\ wbuf' # <<>> /\ out' = q.out
               /\ message' = message /\ state' = state
    BY <1>1, <1>2, <1>3, <1>6, <2>2, HandlesPlain
  <2> QED BY <2>2, <2>3
<1>10. Flowing(Before', Current', o, t)
  <2>1. Current'.stage = stage' /\ Current'.out = out' /\ Current'.buffer = q.buffer
    BY <1>2 DEF Current
  <2>2. CASE q.stage = "body"
    <3>1. Before' \o out' = Before \o q.out
      BY <1>8, <2>2 DEF Sent, Before
    <3> QED BY <1>6, <1>8, <2>1, <2>2, <3>1 DEF Flowing
  <2>3. CASE q.stage = "headers"
    <3>1. wire' = <<>> /\ wbuf' = <<>> /\ out' = <<>>
      BY <1>1, <1>2, <1>9, <2>3 DEF Sending
    <3>2. Before' = <<>>
      <4>1. <<>> \o <<>> = <<>>
        BY PiecesTyped, ConcatEmptySeq
      <4> QED BY <3>1, <4>1 DEF Before
    <3>3. q.buffer = Stretch(o, 0, t)
      BY <1>6, <2>3 DEF Flowing
    <3> QED BY <1>9, <2>1, <2>3, <3>1, <3>2, <3>3 DEF Flowing
  <2> QED BY <1>6, <2>2, <2>3
<1>11. state' = state /\ stage' \in {"headers", "body"}
  BY <1>6, <1>8, <1>9
<1>12. Conserved'
  <2>1. Flowing(Before, Current, script.out, Taken)'
    BY <1>7, <1>10 DEF o
  <2> QED BY <1>1, <1>2, <1>11, <2>1 DEF Conserved
<1>13. Piped'
  BY <1>1, <1>2, <1>7, <1>11 DEF Piped, t
<1> QED BY <1>12, <1>13

\* A chunked response that loses its Cgi.
LEMMA LastConserved ==
  ASSUME ProcessTyped, ClientTyped, state # "RESET", ~attached', Sending',
         UNCHANGED process, NEW r \in Response, r.chunked, NEW m \in Seq(Pieces),
         HandleResponse(r, m),
         r.stage = "finished" => script.exit = "ok" /\ Carries(Before \o r.out, Body),
         r.stage = "body" =>
           \E d \in Seq(Datum) : Carries(Before \o r.out, d) /\ Starts(d, Body)
  PROVE  Conserved'
<1>1. /\ Sent' = Before \o r.out
      /\ \/ /\ state' = "RESET" /\ stage' = "headers" /\ r.stage = "finished"
         \/ state' = state /\ stage' = r.stage
  BY HandlesChunked DEF Before
<1>2. r.stage \in {"body", "finished"} /\ Body' = Body /\ script' = script
  BY DEF Response, Body, process
<1>3. CASE state' = "RESET" /\ stage' = "headers" /\ r.stage = "finished"
  <2>1. script.exit = "ok" /\ Carries(Sent', Body)
    BY <1>1, <1>3
  <2>2. WellFormed(Sent')
    <3>1. Sent' = ErrorResponse \/ WellFormed(Sent')
      BY <1>3 DEF Sending
    <3>2. Sent' # ErrorResponse
      <4>1. ~Errorless(ErrorResponse)
        <5>1. Len(ErrorResponse) = 2
          BY DEF ErrorResponse
        <5>2. 2 \in 1..Len(ErrorResponse)
          BY <5>1
        <5>3. ErrorResponse[2].kind = "error body"
          BY DEF ErrorResponse, Piece
        <5> QED BY <5>2, <5>3 DEF Errorless
      <4> QED BY <2>1, <4>1 DEF Carries
    <3> QED BY <3>1, <3>2
  <2>3. Body \in Seq(Datum) /\ Starts(Body, Body)
    <3>1. script.out \in Seq(Unit)
      BY ScriptTyped
    <3> QED BY <3>1, BodyTyped DEF Body
  <2>4. Telling(Sent)'
    BY <1>2, <2>1, <2>2, <2>3 DEF Telling
  <2> QED BY <1>3, <2>4 DEF Conserved
<1>4. CASE state' = state /\ stage' = r.stage
  <2>1. CASE r.stage = "finished"
    BY <1>1, <1>2, <1>4, <2>1 DEF Conserved
  <2>2. CASE r.stage = "body"
    BY <1>1, <1>2, <1>4, <2>2 DEF Conserved
  <2> QED BY <1>2, <2>1, <2>2
<1> QED BY <1>1, <1>3, <1>4

\* An error response in place of everything.
LEMMA ErrorConserved ==
  ASSUME ClientTyped, state # "RESET", ~attached', script' = script,
         script.exit = "failed", NEW r \in Response, ~r.chunked, r.out = <<>>,
         NEW m \in Seq(Pieces), HandleResponse(r, m),
         LET w == IF wbuf = <<>> THEN m ELSE wbuf IN wire \o w = ErrorResponse /\ w # <<>>
  PROVE  Conserved'
<1> DEFINE w == IF wbuf = <<>> THEN m ELSE wbuf
<1>1. /\ stage' = "headers" /\ wire' \o wbuf' = wire \o w /\ out' = <<>>
  <2>1. LET v == IF wbuf = <<>> THEN m ELSE wbuf IN
         /\ ClientTyped' /\ stage' = "headers"
         /\ \/ /\ v = <<>> /\ out' = r.out /\ message' = m
               /\ UNCHANGED <<state, wbuf, wire>>
            \/ /\ v # <<>> /\ wire' \o wbuf' = wire \o v /\ wbuf' = <<>>
               /\ out' = <<>> /\ state' = "RESET"
            \/ /\ v # <<>> /\ wire' \o wbuf' = wire \o v /\ wbuf' # <<>> /\ out' = r.out
               /\ message' = m /\ state' = state
    BY HandlesPlain
  <2> QED BY <2>1
<1>2. wire \o w = ErrorResponse
  OBVIOUS
<1> HIDE DEF w
<1>3. Sent' = ErrorResponse
  <2>1. ErrorResponse \o <<>> = ErrorResponse
    BY PiecesTyped, ConcatEmptySeq
  <2> QED BY <1>1, <1>2, <2>1 DEF Sent
<1>4. Telling(Sent)'
  BY <1>3 DEF Telling
<1> QED BY <1>1, <1>4 DEF Conserved

\* Without a Cgi nothing is left to flow.
LEMMA CleanPiped ==
  ASSUME Piped, UNCHANGED process, ~attached'
  PROVE  Piped'
BY DEF Piped, process

LEMMA FinishConserved ==
  RelayInv /\ HeadersEndOnce(script.out) /\ FinishOutput => Piped' /\ Conserved'
<1> SUFFICES ASSUME RelayInv, HeadersEndOnce(script.out), FinishOutput
             PROVE  Piped' /\ Conserved'
  OBVIOUS
<1> DEFINE p == AppendOutput(Current)
           q == AppendFinal(p)
           o == script.out
<1>1. ProcessTyped /\ ClientTyped /\ Sending /\ Piped /\ Conserved /\ attached
      /\ state = "CGI_COMPLETED" /\ script.exit = "ok"
      /\ HandleResponse(q, message) /\ CleanupCgi /\ UNCHANGED process /\ Sending'
  <2>1. StreamInv'
    BY FinishOutputStep DEF RelayInv
  <2> QED BY <2>1 DEF RelayInv, StreamInv, FinishOutput
<1>2. ~attached' /\ state # "RESET"
  BY <1>1 DEF CleanupCgi
<1>3. o \in Seq(Unit) /\ message \in Seq(Pieces) /\ Before \in Seq(Pieces)
      /\ HeadersEndOnce(o) /\ Len(o) \in 0..Len(o)
  <2>1. Len(o) \in Nat
    BY <1>1, ScriptTyped
  <2>2. Len(o) \in 0..Len(o)
    BY <2>1
  <2> QED BY <1>1, <2>2, ScriptTyped, SentIs DEF ClientTyped
<1>4. Current \in Response /\ Current.stage = stage /\ stage \in {"headers", "body"}
  <2>1. stage \in {"headers", "body"}
    BY <1>1 DEF ClientTyped, Sending
  <2> QED BY <1>1, <2>1, Typed, CurrentTyped DEF Current
<1>5. Taken = Len(o)
  <2>1. pipe = <<>> /\ written = Len(o)
    BY <1>1 DEF Piped
  <2>2. Len(pipe) = 0
    BY <2>1, EmptySeq
  <2>3. Len(o) \in Nat
    BY <1>3
  <2>4. Taken = Len(o) - 0
    BY <2>1, <2>2 DEF Taken
  <2> HIDE DEF o
  <2> QED BY <2>3, <2>4
<1>6. Flowing(Before, Current, o, Len(o))
  <2>1. Flowing(Before, Current, o, Taken)
    BY <1>1 DEF Conserved
  <2> QED BY <1>5, <2>1
<1> HIDE DEF o
<1>7. p \in Response /\ p.stage \in {"headers", "body"} /\ Flowing(Before, p, o, Len(o))
      /\ (p.stage = "headers" => HeaderEnd(Stretch(o, 0, Len(o))) = 0)
  BY <1>3, <1>4, <1>6, FlowOutput
<1> HIDE DEF p
<1>8. q \in Response /\ q.stage = "finished" /\ Carries(Before \o q.out, BodyOf(o))
  BY <1>3, <1>7, FlowFinal
<1> HIDE DEF q
<1>9. q.chunked /\ Body = BodyOf(o)
  BY <1>8 DEF Response, Body, o
<1>10. Conserved'
  BY <1>1, <1>2, <1>3, <1>8, <1>9, LastConserved
<1> QED BY <1>1, <1>2, <1>10, CleanPiped

LEMMA FailConserved == RelayInv /\ FailOutput => Piped' /\ Conserved'
<1> SUFFICES ASSUME RelayInv, FailOutput PROVE Piped' /\ Conserved'
  OBVIOUS
<1>1. ProcessTyped /\ ClientTyped /\ Sending /\ Piped /\ Conserved /\ attached
      /\ state # "RESET" /\ script.exit = "failed" /\ UNCHANGED process
      /\ HandleResponse(Current, ErrorResponse) /\ CleanupCgi /\ Sending'
  <2>1. StreamInv'
    BY FailOutputStep DEF RelayInv
  <2> QED BY <2>1 DEF RelayInv, StreamInv, FailOutput
<1>2. ~attached' /\ script' = script
  BY <1>1 DEF CleanupCgi, process
<1>3. Current \in Response /\ Current.stage = stage /\ Current.out = out
      /\ Current.chunked = chunked /\ stage \in {"headers", "body"}
      /\ (chunked <=> stage # "headers") /\ ErrorResponse \in Seq(Pieces)
  <2>1. stage \in {"headers", "body"} /\ (chunked <=> stage # "headers")
    BY <1>1 DEF ClientTyped, Sending
  <2> QED BY <1>1, <2>1, Typed, CurrentTyped, PiecesTyped DEF Current
<1>4. ASSUME stage = "body" PROVE Conserved'
  <2>1. Telling(Sent)
    BY Tells
  <2>2. Sent # ErrorResponse /\ Sent # <<>>
    <3>1. Open(Sent)
      BY <1>1, <1>4 DEF Sending
    <3>2. Sent # <<>> /\ ~Contains(Sent, ErrorResponse[1])
      BY <3>1 DEF Open, WellFormed
    <3>3. Contains(ErrorResponse, ErrorResponse[1])
      <4>1. Len(ErrorResponse) = 2
        BY DEF ErrorResponse
      <4>2. 1 \in 1..Len(ErrorResponse)
        BY <4>1
      <4> QED BY <4>2 DEF Contains
    <3> QED BY <3>2, <3>3
  <2>3. \E d \in Seq(Datum) : Carries(Sent, d) /\ Starts(d, Body)
    BY <2>1, <2>2 DEF Telling
  <2>4. \E d \in Seq(Datum) : Carries(Before \o Current.out, d) /\ Starts(d, Body)
    BY <1>3, <2>3, SentIs
  <2> QED BY <1>1, <1>2, <1>3, <1>4, <2>4, LastConserved
<1>5. ASSUME stage = "headers" PROVE Conserved'
  <2>1. wire = <<>> /\ wbuf = <<>> /\ out = <<>>
    BY <1>1, <1>5 DEF Sending
  <2>2. ErrorResponse # <<>> /\ wire \o ErrorResponse = ErrorResponse
    <3>1. ErrorResponse # <<>>
      BY DEF ErrorResponse
    <3> QED BY <2>1, <3>1, PiecesTyped, ConcatEmptySeq
  <2> QED BY <1>1, <1>2, <1>3, <1>5, <2>1, <2>2, ErrorConserved
<1>6. Piped'
  BY <1>1, <1>2, CleanPiped
<1> QED BY <1>3, <1>4, <1>5, <1>6

LEMMA RestConserved == RelayInv /\ SendRest => Piped' /\ Conserved'
<1> SUFFICES ASSUME RelayInv, SendRest PROVE Piped' /\ Conserved'
  OBVIOUS
<1>1. ProcessTyped /\ ClientTyped /\ Sending /\ Piped /\ Conserved /\ ~attached
      /\ state # "RESET" /\ UNCHANGED process /\ attached' = attached
      /\ HandleResponse(Current, message) /\ Sending'
  <2>1. StreamInv'
    BY SendRestStep DEF RelayInv
  <2> QED BY <2>1 DEF RelayInv, StreamInv, SendRest
<1>2. ~attached' /\ script' = script /\ message \in Seq(Pieces)
  BY <1>1 DEF process, ClientTyped
<1>3. Current \in Response /\ Current.stage = stage /\ Current.out = out
      /\ Current.chunked = chunked /\ stage \in {"headers", "body", "finished"}
      /\ (chunked <=> stage # "headers")
  BY <1>1, Typed, CurrentTyped DEF Current, ClientTyped
<1>4. ASSUME stage # "headers" PROVE Conserved'
  <2>1. /\ stage = "finished" => script.exit = "ok" /\ Carries(Before \o out, Body)
        /\ stage = "body" =>
             \E d \in Seq(Datum) : Carries(Before \o out, d) /\ Starts(d, Body)
    BY <1>1, SentIs DEF Conserved
  <2> QED BY <1>1, <1>2, <1>3, <1>4, <2>1, LastConserved
<1>5. ASSUME stage = "headers" PROVE Conserved'
  <2>1. wbuf # <<>> /\ out = <<>> /\ wire \o wbuf = ErrorResponse
        /\ script.exit = "failed"
    BY <1>1, <1>5 DEF Sending, Conserved
  <2> QED BY <1>1, <1>2, <1>3, <1>5, <2>1, ErrorConserved
<1>6. Piped'
  BY <1>1, <1>2, CleanPiped
<1> QED BY <1>4, <1>5, <1>6

LEMMA RelayNext ==
  RelayInv /\ HeadersEndOnce(script.out) /\ [Next]_vars => RelayInv'
<1> SUFFICES ASSUME RelayInv, HeadersEndOnce(script.out), [Next]_vars PROVE RelayInv'
  OBVIOUS
<1>1. StreamInv'
  BY StreamNext DEF RelayInv
<1>2. CASE CgiWrites
  BY <1>1, <1>2, WritesConserved DEF RelayInv
<1>3. CASE CgiCloses \/ CgiExits
  BY <1>1, <1>3, ExitConserved DEF RelayInv
<1>4. CASE ProcessPipe
  BY <1>1, <1>4, PipeConserved DEF RelayInv
<1>5. CASE RelayOutput
  BY <1>1, <1>5, RelayConserved DEF RelayInv
<1>6. CASE FinishOutput
  BY <1>1, <1>6, FinishConserved DEF RelayInv
<1>7. CASE FailOutput
  BY <1>1, <1>7, FailConserved DEF RelayInv
<1>8. CASE SendRest
  BY <1>1, <1>8, RestConserved DEF RelayInv
<1>9. CASE UNCHANGED vars
  <2>1. UNCHANGED <<script, written, life, pipe, buffer, attached, state, response, wbuf, wire>>
    BY <1>9 DEF vars, response
  <2>2. Taken' = Taken
    BY <2>1 DEF Taken
  <2>3. Conserved'
    BY <2>1, <2>2, ConservedKept DEF RelayInv
  <2>4. Piped'
    BY <2>1, <2>2 DEF RelayInv, Piped
  <2> QED BY <1>1, <2>3, <2>4 DEF RelayInv
<1> QED BY <1>2, <1>3, <1>4, <1>5, <1>6, <1>7, <1>8, <1>9 DEF Next, ProcessWrite, Answered

-----------------------------------------------------------------------------
(* What the client makes of what it has received *)

Shows(w, kind) == \E k \in 1..Len(w) : w[k].kind = kind

StatusOf(w) == CASE Shows(w, "error body") -> "error"
                 [] Shows(w, "last chunk") -> "complete"
                 [] Shows(w, "head") /\ ~Shows(w, "last chunk") -> "streaming"
                 [] OTHER -> "waiting"

LEMMA StatusIs ==
  /\ Status = StatusOf(wire) /\ Status' = StatusOf(wire')
  /\ Delivered = DataIn(wire) /\ Delivered' = DataIn(wire')
BY DEF Status, StatusOf, Has, Shows, Delivered

\* Nothing, part or all of an error, part or all of a true response.
Waits(w) == StatusOf(w) = "waiting" /\ DataIn(w) = <<>>

Fails(w) == StatusOf(w) = "error" /\ DataIn(w) = <<>> /\ script.exit = "failed"

Streams(w) ==
  /\ Starts(DataIn(w), Body)
  /\ \/ StatusOf(w) = "streaming"
     \/ StatusOf(w) = "complete" /\ DataIn(w) = Body /\ script.exit = "ok"

\* w is what a client has that will have w \o y.
View(w) ==
  \/ w = <<>>
  \/ w = <<ErrorResponse[1]>> /\ script.exit = "failed"
  \/ w = ErrorResponse /\ script.exit = "failed"
  \/ /\ w # <<>> /\ w[1].kind = "head" /\ Errorless(w) /\ Starts(DataIn(w), Body)
     /\ \A k \in 1..Len(w) : w[k].kind = "last chunk" =>
          k = Len(w) /\ DataIn(w) = Body /\ script.exit = "ok"

\* The beginnings of an error response.
LEMMA ErrorBegun ==
  \A w, y \in Seq(Pieces) :
    w \o y = ErrorResponse => w \in {<<>>, <<ErrorResponse[1]>>, ErrorResponse}
<1> SUFFICES ASSUME NEW w \in Seq(Pieces), NEW y \in Seq(Pieces), w \o y = ErrorResponse
             PROVE  w \in {<<>>, <<ErrorResponse[1]>>, ErrorResponse}
  OBVIOUS
<1> DEFINE e == ErrorResponse
           p == e[1]
<1>1. e \in Seq(Pieces) /\ Len(e) = 2 /\ p \in Pieces
  <2>1. e \in Seq(Pieces)
    BY PiecesTyped
  <2>2. Len(e) = 2
    BY DEF ErrorResponse
  <2> HIDE DEF e
  <2>3. 1 \in 1..Len(e)
    BY <2>2
  <2> QED BY <2>1, <2>2, <2>3, ElementOfSeq
<1>2. w \o y = e
  OBVIOUS
<1> HIDE DEF e
<1>3. /\ Len(e) = Len(w) + Len(y) /\ Len(w) \in Nat /\ Len(y) \in Nat
      /\ \A i \in 1..Len(w) : e[i] = w[i]
  BY <1>2, Joined
<1>4. CASE Len(w) = 0
  BY <1>4, EmptySeq
<1>5. CASE Len(w) = 1
  <2>1. 1 \in 1..Len(w)
    BY <1>5
  <2>2. w[1] = p
    BY <1>3, <2>1
  <2> HIDE DEF p
  <2>3. <<p>> \in Seq(Pieces) /\ Len(<<p>>) = 1 /\ <<p>>[1] = p
    BY <1>1
  <2>4. w = <<p>>
    <3> DEFINE s == <<p>>
    <3>1. s \in Seq(Pieces) /\ Len(s) = 1 /\ s[1] = p
      BY <2>3
    <3> HIDE DEF s
    <3>2. w = s
      BY <1>5, <2>2, <3>1, SeqEqual
    <3> QED BY <3>2 DEF s
  <2> QED BY <2>4 DEF p, e
<1>6. CASE Len(w) = 2
  <2>1. w = e
    BY <1>1, <1>3, <1>6, SeqEqual
  <2> QED BY <2>1 DEF e
<1>7. Len(w) \in {0, 1, 2}
  <2>1. \A a, b \in Nat : 2 = a + b => a \in {0, 1, 2}
    OBVIOUS
  <2>2. 2 = Len(w) + Len(y) /\ Len(w) \in Nat /\ Len(y) \in Nat
    BY <1>1, <1>3
  <2> QED BY <2>1, <2>2
<1> QED BY <1>4, <1>5, <1>6, <1>7

\* The beginning of a beginning.
LEMMA StartsStarts ==
  \A b \in Seq(Datum) : \A d, e \in Seq(Datum) :
    Starts(d \o e, b) => Starts(d, b)
<1> SUFFICES ASSUME NEW b \in Seq(Datum), NEW d \in Seq(Datum), NEW e \in Seq(Datum),
                    Starts(d \o e, b)
             PROVE  Starts(d, b)
  OBVIOUS
<1>1. PICK n \in 0..Len(b) : d \o e = Stretch(b, 0, n)
  BY DEF Starts
<1> DEFINE m == Len(d)
           x == Stretch(b, 0, n)
           z == Stretch(b, 0, m)
<1>2. n \in Nat /\ n <= Len(b) /\ m \in Nat
  OBVIOUS
<1>3. Len(x) = n /\ \A i \in 1..n : x[i] = b[i]
  <2>1. IsStretch(x, b, 0, n, Datum)
    BY <1>2, PartIs
  <2> HIDE DEF x
  <2>2. Len(x) = n - 0 /\ \A i \in 1..(n - 0) : x[i] = b[0 + i]
    BY <2>1 DEF IsStretch
  <2>3. n - 0 = n /\ \A i \in 1..n : 0 + i = i
    BY <1>2
  <2> QED BY <2>2, <2>3
<1>4. /\ Len(d \o e) = m + Len(e) /\ Len(e) \in Nat
      /\ \A i \in 1..m : (d \o e)[i] = d[i]
  BY Joined
<1>5. d \o e = x
  BY <1>1
<1> HIDE DEF x, m
<1>6. m <= n
  BY <1>2, <1>3, <1>4, <1>5
<1>7. z \in Seq(Datum) /\ Len(z) = m /\ \A i \in 1..m : z[i] = b[i]
  <2>1. 0 \in Nat /\ 0 <= m /\ m <= Len(b)
    BY <1>2, <1>6
  <2>2. IsStretch(z, b, 0, m, Datum)
    BY <1>2, <2>1, PartIs
  <2> HIDE DEF z
  <2>3. z \in Seq(Datum) /\ Len(z) = m - 0 /\ \A i \in 1..(m - 0) : z[i] = b[0 + i]
    BY <2>2 DEF IsStretch
  <2>4. m - 0 = m /\ \A i \in 1..m : 0 + i = i
    BY <1>2
  <2> QED BY <2>3, <2>4
<1> HIDE DEF z
<1>8. \A i \in 1..m : d[i] = z[i]
  <2> SUFFICES ASSUME NEW i \in 1..m PROVE d[i] = z[i]
    OBVIOUS
  <2>1. i \in 1..n
    BY <1>2, <1>6
  <2> QED BY <1>3, <1>4, <1>5, <1>7, <2>1
<1>9. d = z
  BY <1>7, <1>8, SeqEqual DEF m
<1>10. m \in 0..Len(b)
  BY <1>2, <1>6
<1> QED BY <1>9, <1>10 DEF Starts, z

\* What is received of what is true.
LEMMA ViewOf ==
  ASSUME Body \in Seq(Datum), NEW w \in Seq(Pieces), NEW y \in Seq(Pieces), Telling(w \o y)
  PROVE  View(w)
<1> DEFINE s == w \o y
           l == Len(w)
<1>1. /\ s \in Seq(Pieces) /\ Len(s) = l + Len(y) /\ l \in Nat /\ Len(y) \in Nat
      /\ \A i \in 1..l : s[i] = w[i]
  BY Joined
<1>2. DataIn(s) = DataIn(w) \o DataIn(y) /\ DataIn(w) \in Seq(Datum)
      /\ DataIn(y) \in Seq(Datum)
  BY DataInJoined, DataInTyped
<1>3. Telling(s) /\ s = w \o y
  OBVIOUS
<1> HIDE DEF s
<1>4. CASE s = <<>>
  <2>1. Len(s) = 0
    BY <1>4, EmptySeq
  <2>2. l = 0
    BY <1>1, <2>1
  <2> QED BY <2>2, EmptySeq DEF View
<1>5. CASE s = ErrorResponse /\ script.exit = "failed"
  <2>1. w \in {<<>>, <<ErrorResponse[1]>>, ErrorResponse}
    BY <1>3, <1>5, ErrorBegun
  <2> QED BY <1>5, <2>1 DEF View
<1>6. CASE /\ WellFormed(s)
           /\ \E d \in Seq(Datum) :
                /\ Carries(s, d) /\ Starts(d, Body)
                /\ (\E k \in 1..Len(s) : s[k].kind = "last chunk") =>
                     script.exit = "ok" /\ d = Body
  <2>1. /\ Errorless(s) /\ Starts(DataIn(s), Body)
        /\ (\E k \in 1..Len(s) : s[k].kind = "last chunk") =>
             script.exit = "ok" /\ DataIn(s) = Body
    BY <1>6 DEF Carries
  <2>2. \A k \in 1..Len(s) : /\ s[k].kind = "head" <=> k = 1
                             /\ s[k].kind = "last chunk" => k = Len(s)
    BY <1>6 DEF WellFormed
  <2>3. CASE l = 0
    BY <2>3, EmptySeq DEF View
  <2>4. CASE l # 0
    <3> HIDE DEF l
    <3>1. \A i \in 1..l : i \in 1..Len(s)
      BY <1>1
    <3>2. w # <<>>
      BY <2>4, EmptySeq DEF l
    <3>3. w[1].kind = "head"
      <4>1. 1 \in 1..l
        BY <1>1, <2>4
      <4> QED BY <1>1, <2>2, <3>1, <4>1
    <3>4. Errorless(w)
      BY <1>1, <2>1, <3>1 DEF Errorless, l
    <3>5. Starts(DataIn(w), Body)
      BY <1>2, <2>1, StartsStarts
    <3>6. ASSUME NEW k \in 1..l, w[k].kind = "last chunk"
          PROVE  k = l /\ DataIn(w) = Body /\ script.exit = "ok"
      <4>1. k \in 1..Len(s) /\ s[k].kind = "last chunk"
        BY <1>1, <3>1, <3>6
      <4>2. k = Len(s)
        BY <2>2, <4>1
      <4>3. k = l /\ Len(y) = 0
        BY <1>1, <4>2
      <4>4. y = <<>>
        BY <4>3, EmptySeq
      <4>5. s = w
        BY <1>3, <4>4, ConcatEmptySeq
      <4>6. script.exit = "ok" /\ DataIn(s) = Body
        BY <2>1, <4>1
      <4> QED BY <4>3, <4>5, <4>6
    <3> QED BY <3>2, <3>3, <3>4, <3>5, <3>6 DEF View, l
  <2> QED BY <2>3, <2>4
<1> QED BY <1>3, <1>4, <1>5, <1>6 DEF Telling

LEMMA ErrorHeads ==
  /\ ErrorResponse[1] \in Pieces /\ ErrorResponse[2] \in Pieces
  /\ ErrorResponse[1].kind = "error head" /\ ErrorResponse[2].kind = "error body"
  /\ ErrorResponse = <<ErrorResponse[1]>> \o <<ErrorResponse[2]>>
  /\ Len(ErrorResponse) = 2
<1>1. Piece("error head", 0, "") \in Pieces /\ Piece("error body", 0, "") \in Pieces
  BY DEF Piece, Pieces
<1>2. Len(ErrorResponse) = 2
  BY DEF ErrorResponse
<1>3. ErrorResponse[1] = Piece("error head", 0, "")
      /\ ErrorResponse[2] = Piece("error body", 0, "")
  BY DEF ErrorResponse
<1> DEFINE p == Piece("error head", 0, "")
           q == Piece("error body", 0, "")
<1>4. ErrorResponse = <<p, q>>
  BY DEF ErrorResponse
<1>5. p \in Pieces /\ q \in Pieces
  BY <1>1
<1>6. p.kind = "error head" /\ q.kind = "error body"
  BY DEF Piece
<1> HIDE DEF p, q
<1>7. <<p, q>> = <<p>> \o <<q>>
  <2> DEFINE x == <<p>>
             y == <<q>>
             z == <<p, q>>
  <2>1. /\ x \in Seq(Pieces) /\ Len(x) = 1 /\ x[1] = p
        /\ y \in Seq(Pieces) /\ Len(y) = 1 /\ y[1] = q
    BY <1>5
  <2>2. z \in Seq(Pieces) /\ Len(z) = 2 /\ z[1] = p /\ z[2] = q
    BY <1>5
  <2> HIDE DEF x, y, z
  <2>3. /\ x \o y \in Seq(Pieces) /\ Len(x \o y) = Len(x) + Len(y)
        /\ \A i \in 1..Len(x) : (x \o y)[i] = x[i]
        /\ \A j \in 1..Len(y) : (x \o y)[Len(x) + j] = y[j]
    BY <2>1, Joined
  <2>4. 1 \in 1..Len(x) /\ 1 \in 1..Len(y) /\ Len(x) + 1 = 2 /\ Len(x) + Len(y) = 2
    BY <2>1
  <2>5. Len(x \o y) = 2 /\ (x \o y)[1] = p /\ (x \o y)[2] = q
    <3>1. (x \o y)[Len(x) + 1] = y[1]
      BY <2>3, <2>4
    <3> QED BY <2>1, <2>3, <2>4, <3>1
  <2>6. \A i \in 1..2 : i = 1 \/ i = 2
    OBVIOUS
  <2>7. \A i \in 1..2 : (x \o y)[i] = z[i]
    BY <2>2, <2>5, <2>6
  <2>8. x \o y = z
    BY <2>2, <2>3, <2>5, <2>7, SeqEqual
  <2> QED BY <2>8 DEF x, y, z
<1> QED BY <1>2, <1>3, <1>4, <1>5, <1>6, <1>7 DEF p, q

\* How each view looks.
LEMMA Looks ==
  \A w \in Seq(Pieces) :
    /\ w = <<>> \/ w = <<ErrorResponse[1]>> => Waits(w)
    /\ w = ErrorResponse /\ script.exit = "failed" => Fails(w)
    /\ w # <<>> /\ View(w) /\ w[1].kind = "head" => Streams(w)
<1>1. Waits(<<>>)
  <2>1. \A kind : ~Shows(<<>>, kind)
    <3>1. Len(<<>>) = 0
      OBVIOUS
    <3> QED BY <3>1 DEF Shows
  <2>2. StatusOf(<<>>) = "waiting"
    BY <2>1 DEF StatusOf
  <2> QED BY <2>2, DataInNothing DEF Waits
<1> DEFINE p == ErrorResponse[1]
           q == ErrorResponse[2]
<1>2. p \in Pieces /\ q \in Pieces /\ p.kind = "error head" /\ q.kind = "error body"
      /\ ErrorResponse = <<p>> \o <<q>> /\ Len(ErrorResponse) = 2
  BY ErrorHeads
<1> DEFINE s == <<p>>
           t == <<q>>
<1>3. s \in Seq(Pieces) /\ t \in Seq(Pieces)
      /\ DataIn(s) = <<>> /\ DataIn(t) = <<>>
  <2>1. p.kind # "data" /\ q.kind # "data" /\ p \in Pieces /\ q \in Pieces
    BY <1>2
  <2> HIDE DEF p, q
  <2>2. DataIn(<<p>>) = <<>> /\ DataIn(<<q>>) = <<>>
    BY <2>1, DataInOther
  <2>3. <<p>> \in Seq(Pieces) /\ <<q>> \in Seq(Pieces)
    BY <2>1
  <2> QED BY <2>2, <2>3
<1>4. Len(s) = 1 /\ s[1] = p
  OBVIOUS
<1>5. Waits(s)
  <2> HIDE DEF s, p, q
  <2>1. \A k \in 1..Len(s) : s[k].kind = "error head"
    <3>1. \A k \in 1..Len(s) : k = 1
      BY <1>4
    <3> QED BY <1>2, <1>4, <3>1
  <2>2. StatusOf(s) = "waiting"
    BY <2>1 DEF StatusOf, Shows
  <2> QED BY <1>3, <2>2 DEF Waits
<1>6. StatusOf(ErrorResponse) = "error" /\ DataIn(ErrorResponse) = <<>>
  <2>1. Shows(ErrorResponse, "error body")
    <3>1. Len(ErrorResponse) = 2 /\ ErrorResponse[2].kind = "error body"
      BY ErrorHeads
    <3>2. 2 \in 1..2
      OBVIOUS
    <3> QED BY <3>1, <3>2 DEF Shows
  <2>2. StatusOf(ErrorResponse) = "error"
    <3>1. \A k \in 1..2 : k = 1 \/ k = 2
      OBVIOUS
    <3>2. ~Shows(ErrorResponse, "last chunk") /\ ~Shows(ErrorResponse, "head")
      BY <3>1, ErrorHeads DEF Shows
    <3> QED BY <2>1, <3>2 DEF StatusOf
  <2> HIDE DEF s, t
  <2>3. DataIn(s \o t) = DataIn(s) \o DataIn(t)
    BY <1>3, DataInJoined
  <2>4. <<>> \o <<>> = <<>>
    BY PiecesTyped, ConcatEmptySeq
  <2>5. ErrorResponse = s \o t
    BY <1>2 DEF s, t
  <2>6. DataIn(ErrorResponse) = <<>>
    BY <1>3, <2>3, <2>4, <2>5
  <2> QED BY <2>2, <2>6
<1>7. ASSUME NEW w \in Seq(Pieces), w # <<>>, View(w), w[1].kind = "head"
      PROVE  Streams(w)
  <2>1. 1 \in 1..Len(w)
    <3>1. Len(w) \in Nat /\ Len(w) # 0
      BY <1>7, EmptySeq
    <3> QED BY <3>1
  <2>2. w # s /\ w # ErrorResponse
    BY <1>2, <1>4, <1>7
  <2>3. Errorless(w) /\ Starts(DataIn(w), Body)
        /\ \A k \in 1..Len(w) : w[k].kind = "last chunk" =>
             k = Len(w) /\ DataIn(w) = Body /\ script.exit = "ok"
    BY <1>7, <2>2 DEF View
  <2>4. ~Shows(w, "error body") /\ Shows(w, "head")
    BY <1>7, <2>1, <2>3 DEF Errorless, Shows
  <2>5. CASE Shows(w, "last chunk")
    <3>1. StatusOf(w) = "complete"
      BY <2>4, <2>5 DEF StatusOf
    <3>2. DataIn(w) = Body /\ script.exit = "ok"
      BY <2>3, <2>5 DEF Shows
    <3> QED BY <2>3, <3>1, <3>2 DEF Streams
  <2>6. CASE ~Shows(w, "last chunk")
    <3>1. StatusOf(w) = "streaming"
      BY <2>4, <2>6 DEF StatusOf
    <3> QED BY <2>3, <3>1 DEF Streams
  <2> QED BY <2>5, <2>6
<1>8. ASSUME script.exit = "failed" PROVE Fails(ErrorResponse)
  BY <1>6, <1>8 DEF Fails
<1> QED BY <1>1, <1>5, <1>7, <1>8

\* What more of a response tells.
Continues(w, v) ==
  \/ v = w
  \/ Waits(w) /\ (Waits(v) \/ Fails(v) \/ Streams(v))
  \/ StatusOf(w) = "streaming" /\ Streams(v)

LEMMA ViewStep ==
  \A w, x \in Seq(Pieces) : View(w) /\ View(w \o x) => Continues(w, w \o x)
<1> SUFFICES ASSUME NEW w \in Seq(Pieces), NEW x \in Seq(Pieces), View(w), View(w \o x)
             PROVE  Continues(w, w \o x)
  OBVIOUS
<1> DEFINE v == w \o x
           p == ErrorResponse[1]
<1>1. /\ v \in Seq(Pieces) /\ Len(v) = Len(w) + Len(x)
      /\ Len(w) \in Nat /\ Len(x) \in Nat
      /\ \A i \in 1..Len(w) : v[i] = w[i]
  BY Joined
<1>2. p.kind = "error head" /\ Len(<<p>>) = 1 /\ <<p>>[1] = p
  BY ErrorHeads
<1>3. x = <<>> => v = w
  BY ConcatEmptySeq
<1>4. x # <<>> => Len(x) # 0
  BY EmptySeq
<1>5. View(v)
  OBVIOUS
<1> HIDE DEF v
<1>6. CASE w = <<>>
  <2>1. Waits(w)
    BY <1>6, Looks
  <2>2. Waits(v) \/ Fails(v) \/ Streams(v)
    BY <1>1, <1>5, Looks DEF View
  <2> QED BY <2>1, <2>2 DEF Continues, v
<1>7. CASE w # <<>>
  <2>1. 1 \in 1..Len(w)
    <3>1. Len(w) # 0
      BY <1>7, EmptySeq
    <3> QED BY <1>1, <3>1
  <2>2. v[1] = w[1] /\ v # <<>>
    <3>1. v[1] = w[1]
      BY <1>1, <2>1
    <3>2. Len(v) # 0
      BY <1>1, <2>1
    <3> QED BY <3>1, <3>2, EmptySeq
  <2>3. CASE w[1].kind = "head"
    <3>1. w # <<p>> /\ w # ErrorResponse
      BY <1>2, <2>3
    <3>2. Streams(w) /\ Streams(v)
      BY <1>1, <1>5, <1>7, <2>2, <2>3, Looks
    <3>3. CASE StatusOf(w) = "streaming"
      BY <3>2, <3>3 DEF Continues, v
    <3>4. CASE StatusOf(w) # "streaming"
      <4>1. Shows(w, "last chunk")
        <5>1. StatusOf(w) = "complete"
          BY <3>2, <3>4 DEF Streams
        <5>2. Shows(w, "head") /\ ~Shows(w, "error body")
          BY <1>7, <2>1, <2>3, <3>1 DEF View, Errorless, Shows
        <5> QED BY <3>4, <5>2 DEF StatusOf
      <4>2. PICK k \in 1..Len(w) : w[k].kind = "last chunk"
        BY <4>1 DEF Shows
      <4>3. k \in 1..Len(v) /\ v[k].kind = "last chunk"
        <5>1. k \in 1..Len(v)
          BY <1>1
        <5> QED BY <1>1, <4>2, <5>1
      <4>4. v # <<p>> /\ v # ErrorResponse
        BY <1>2, <2>2, <2>3
      <4>5. k = Len(v)
        BY <1>5, <2>2, <4>3, <4>4 DEF View
      <4>6. Len(x) = 0
        BY <1>1, <4>5
      <4>7. v = w
        BY <1>3, <1>4, <4>6
      <4> QED BY <4>7 DEF Continues, v
    <3> QED BY <3>3, <3>4
  <2>4. CASE w[1].kind # "head"
    <3>1. w \in {<<p>>, ErrorResponse} /\ v \in {<<p>>, ErrorResponse}
          /\ script.exit = "failed"
      BY <1>5, <1>7, <2>2, <2>4 DEF View
    <3>2. CASE w = <<p>>
      <4>1. Waits(w) /\ (Waits(v) \/ Fails(v))
        BY <1>1, <3>1, <3>2, Looks
      <4> QED BY <4>1 DEF Continues, v
    <3>3. CASE w = ErrorResponse
      <4>1. Len(w) = 2
        BY <3>3, ErrorHeads
      <4>2. Len(v) <= 2
        <5>1. Len(<<p>>) <= 2 /\ Len(ErrorResponse) <= 2
          <6>1. Len(<<p>>) = 1
            BY <1>2
          <6>2. Len(ErrorResponse) = 2
            BY ErrorHeads
          <6> QED BY <6>1, <6>2
        <5> QED BY <3>1, <5>1
      <4>3. Len(x) = 0
        BY <1>1, <4>1, <4>2
      <4>4. v = w
        BY <1>3, <1>4, <4>3
      <4> QED BY <4>4 DEF Continues, v
    <3> QED BY <3>1, <3>2, <3>3
  <2> QED BY <2>3, <2>4
<1> QED BY <1>6, <1>7

\* handleResponse only adds to what has been received.
LEMMA HandleGrows ==
  ASSUME ClientTyped, NEW r \in Response, NEW m \in Seq(Pieces), HandleResponse(r, m)
  PROVE  \E x \in Seq(Pieces) : wire' = wire \o x
<1> DEFINE w == Prepared(r, m)
<1>1. wire \in Seq(Pieces) /\ wbuf \in Seq(Pieces) /\ r.out \in Seq(Pieces)
  BY DEF ClientTyped, Response
<1>2. w \in Seq(Pieces)
  <2>1. wbuf \o r.out \in Seq(Pieces)
    BY <1>1, Joined
  <2> QED BY <1>1, <2>1 DEF Prepared
<1> HIDE DEF w
<1>3. CASE wire' = wire
  <2>1. wire' = wire \o <<>> /\ <<>> \in Seq(Pieces)
    BY <1>1, <1>3, PiecesTyped, ConcatEmptySeq
  <2> QED BY <2>1
<1>4. CASE \E n \in 1..Len(w) : wire' = wire \o SubSeq(w, 1, n)
  <2>1. PICK n \in 1..Len(w) : wire' = wire \o SubSeq(w, 1, n)
    BY <1>4
  <2>2. n \in 0..Len(w)
    OBVIOUS
  <2>3. SubSeq(w, 1, n) \in Seq(Pieces)
    BY <1>2, <2>2, Cut
  <2> QED BY <2>1, <2>3
<1> QED BY <1>3, <1>4 DEF HandleResponse, w

LEMMA WireGrows ==
  StreamInv /\ [Next]_vars => script' = script /\ \E x \in Seq(Pieces) : wire' = wire \o x
<1> SUFFICES ASSUME StreamInv, [Next]_vars
             PROVE  script' = script /\ \E x \in Seq(Pieces) : wire' = wire \o x
  OBVIOUS
<1>1. ProcessTyped /\ ClientTyped /\ Sending
  BY DEF StreamInv
<1>2. Current \in Response /\ message \in Seq(Pieces) /\ ErrorResponse \in Seq(Pieces)
      /\ wire \in Seq(Pieces) /\ Current.stage = stage
  BY <1>1, Typed, CurrentTyped, PiecesTyped DEF ClientTyped, Current
<1>3. ASSUME wire' = wire PROVE \E x \in Seq(Pieces) : wire' = wire \o x
  <2>1. wire' = wire \o <<>> /\ <<>> \in Seq(Pieces)
    BY <1>2, <1>3, PiecesTyped, ConcatEmptySeq
  <2> QED BY <2>1
<1>4. CASE CgiWrites \/ CgiCloses \/ CgiExits \/ ProcessPipe \/ UNCHANGED vars
  <2>1. script' = script /\ wire' = wire
    BY <1>4 DEF CgiWrites, CgiCloses, CgiExits, ProcessPipe, vars, process
  <2> QED BY <1>3, <2>1
<1>5. CASE RelayOutput
  <2>1. HandleResponse(AppendOutput(Current), message) /\ script' = script
    BY <1>5 DEF RelayOutput, process
  <2>2. AppendOutput(Current) \in Response
    BY <1>2, AppendOutputStep
  <2> QED BY <1>1, <1>2, <2>1, <2>2, HandleGrows
<1>6. CASE FinishOutput
  <2>1. HandleResponse(AppendFinal(AppendOutput(Current)), message) /\ script' = script
        /\ attached
    BY <1>6 DEF FinishOutput, process
  <2> DEFINE p == AppendOutput(Current)
  <2>2. p \in Response /\ (p = Current \/ p.stage = "body")
    BY <1>2, AppendOutputStep
  <2>3. p.stage # "finished"
    BY <1>1, <1>2, <2>1, <2>2 DEF Sending
  <2> HIDE DEF p
  <2>4. AppendFinal(p) \in Response
    BY <2>2, <2>3, AppendFinalStep
  <2>5. HandleResponse(AppendFinal(p), message)
    BY <2>1 DEF p
  <2> QED BY <1>1, <1>2, <2>1, <2>4, <2>5, HandleGrows
<1>7. CASE FailOutput
  <2>1. HandleResponse(Current, ErrorResponse) /\ script' = script
    BY <1>7 DEF FailOutput, process
  <2> QED BY <1>1, <1>2, <2>1, HandleGrows
<1>8. CASE SendRest
  <2>1. HandleResponse(Current, message) /\ script' = script
    BY <1>8 DEF SendRest, process
  <2> QED BY <1>1, <1>2, <2>1, HandleGrows
<1> QED BY <1>4, <1>5, <1>6, <1>7, <1>8 DEF Next, ProcessWrite, Answered

Seen == View(wire) /\ wire \in Seq(Pieces)

LEMMA WireSeen == RelayInv => Seen
<1> SUFFICES ASSUME RelayInv PROVE View(wire) /\ wire \in Seq(Pieces)
  BY DEF Seen
<1>1. ProcessTyped /\ ClientTyped
  BY DEF RelayInv, StreamInv
<1>2. wire \in Seq(Pieces) /\ wbuf \in Seq(Pieces) /\ out \in Seq(Pieces)
  BY <1>1 DEF ClientTyped
<1>3. wbuf \o out \in Seq(Pieces) /\ Sent = wire \o (wbuf \o out)
  <2>1. Assoc(wire, wbuf, out)
    BY <1>2, Associated
  <2> QED BY <1>2, <2>1, Joined DEF Assoc, Sent
<1>4. Body \in Seq(Datum)
  BY <1>1, ScriptTyped, BodyTyped DEF Body
<1>5. Telling(wire \o (wbuf \o out))
  BY <1>3, Tells
<1> QED BY <1>2, <1>3, <1>4, <1>5, ViewOf

\* A step of the relay: what the client makes of what it has and of what it gets.
LEMMA RelayStepIs ==
  ASSUME Body \in Seq(Datum), NEW w \in Seq(Pieces), NEW v \in Seq(Pieces),
         NEW x \in Seq(Pieces), v = w \o x, Continues(w, v),
         script' = script, Delivered = DataIn(w), Delivered' = DataIn(v),
         Status = StatusOf(w), Status' = StatusOf(v)
  PROVE  [Relay!Deliver \/ Relay!Refuse]_Relay!vars
<1>1. UNCHANGED <<BodyOf(script.out), script.exit = "ok">> /\ Body = BodyOf(script.out)
  BY DEF Body
<1>2. DataIn(v) = DataIn(w) \o DataIn(x) /\ DataIn(w) \in Seq(Datum)
      /\ DataIn(x) \in Seq(Datum)
  BY DataInJoined, DataInTyped
<1>3. Len(DataIn(w)) <= Len(DataIn(v)) /\ Len(DataIn(w)) \in Nat
  <2> DEFINE d == DataIn(w)
             e == DataIn(x)
             f == DataIn(v)
  <2>1. f = d \o e /\ d \in Seq(Datum) /\ e \in Seq(Datum)
    BY <1>2
  <2> HIDE DEF d, e, f
  <2>2. Len(d \o e) = Len(d) + Len(e) /\ Len(d) \in Nat /\ Len(e) \in Nat
    BY <2>1, Joined
  <2>3. Len(d) <= Len(f) /\ Len(d) \in Nat
    BY <2>1, <2>2
  <2> QED BY <2>3 DEF d, f
<1>4. CASE v = w
  BY <1>1, <1>4 DEF Relay!vars
<1>5. ASSUME Streams(v), StatusOf(w) \in {"waiting", "streaming"} PROVE Relay!Deliver
  <2>1. PICK n \in 0..Len(Body) : DataIn(v) = Stretch(Body, 0, n)
    BY <1>5 DEF Streams, Starts
  <2>2. Len(Stretch(Body, 0, n)) = n
    <3>1. n \in Nat /\ n <= Len(Body) /\ 0 \in Nat /\ 0 <= n /\ n - 0 = n
      OBVIOUS
    <3>2. IsStretch(Stretch(Body, 0, n), Body, 0, n, Datum)
      BY <3>1, PartIs
    <3> QED BY <3>1, <3>2 DEF IsStretch
  <2>3. n \in Len(DataIn(w))..Len(Body)
    BY <1>3, <2>1, <2>2
  <2>4. Stretch(Body, 0, n) = SubSeq(Body, 1, n)
    BY DEF Stretch
  <2>5. \E k \in Len(Delivered)..Len(Body) : Delivered' = SubSeq(Body, 1, k)
    BY <2>1, <2>3, <2>4
  <2>6. \/ Status' = "streaming"
        \/ Status' = "complete" /\ Delivered' = Body /\ script.exit = "ok"
    BY <1>5 DEF Streams
  <2>7. Status \in {"waiting", "streaming"}
    BY <1>5
  <2> QED BY <1>1, <2>5, <2>6, <2>7 DEF Relay!Deliver
<1>6. ASSUME Waits(w), Fails(v) PROVE Relay!Refuse
  <2>1. Status = "waiting" /\ Status' = "error" /\ Delivered' = Delivered
    BY <1>6 DEF Waits, Fails
  <2>2. script.exit # "ok"
    BY <1>6 DEF Fails
  <2> QED BY <1>1, <2>1, <2>2 DEF Relay!Refuse
<1>7. ASSUME Waits(w), Waits(v) PROVE UNCHANGED Relay!vars
  <2>1. Status' = Status /\ Delivered' = Delivered
    BY <1>7 DEF Waits
  <2> QED BY <1>1, <2>1 DEF Relay!vars
<1>8. Waits(w) => StatusOf(w) = "waiting"
  BY DEF Waits
<1> QED BY <1>4, <1>5, <1>6, <1>7, <1>8 DEF Continues

LEMMA RelayInitIs == Init => Relay!Init
<1> SUFFICES ASSUME Init PROVE Relay!Init
  OBVIOUS
<1>1. wire = <<>>
  BY DEF Init
<1>2. Waits(wire)
  BY <1>1, PiecesTyped, Looks
<1> QED BY <1>2, StatusIs DEF Waits, Relay!Init

\* Response::appendCgiChunk and what is around it: when no script ends its
\* headers in both ways, the client gets the body in order and whole, an end
\* only after all of it from a script that succeeded, an error only in its place.
THEOREM StreamImplementsRelay ==
  ASSUME \A s \in Scripts : HeadersEndOnce(s.out)
  PROVE  Spec => RelaySpec
<1> DEFINE OneEnd == HeadersEndOnce(script.out)
<1>1. RelayInv => OneEnd
  BY DEF RelayInv, StreamInv, ProcessTyped
<1>2. RelayInv /\ [Next]_vars => RelayInv'
  BY <1>1, RelayNext
<1>3. RelayInv /\ Seen /\ Seen' /\ [Next]_vars => [Relay!Deliver \/ Relay!Refuse]_Relay!vars
  <2> SUFFICES ASSUME RelayInv, Seen, Seen', [Next]_vars
               PROVE  [Relay!Deliver \/ Relay!Refuse]_Relay!vars
    OBVIOUS
  <2>1. View(wire) /\ wire \in Seq(Pieces)
    BY DEF Seen
  <2>2. PICK x \in Seq(Pieces) : wire' = wire \o x /\ script' = script
    BY WireGrows DEF RelayInv
  <2>3. View(wire)' /\ wire' \in Seq(Pieces)
    BY DEF Seen
  <2>4. View(wire')
    BY <2>2, <2>3 DEF View, Body
  <2>5. Continues(wire, wire')
    BY <2>1, <2>2, <2>4, ViewStep
  <2>6. Body \in Seq(Datum)
    BY ScriptTyped, BodyTyped DEF Body, RelayInv, StreamInv
  <2> QED BY <2>1, <2>2, <2>3, <2>5, <2>6, StatusIs, RelayStepIs
<1> QED BY <1>2, <1>3, RelayInit, RelayInitIs, WireSeen, PTL DEF Spec, RelaySpec, Relay!Spec
===============================================================================
