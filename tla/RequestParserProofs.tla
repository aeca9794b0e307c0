------------------------- MODULE RequestParserProofs -------------------------
(***************************************************************************)
(* Proofs about RequestParser, for every conversation of any requests,     *)
(* every limit and every way the reads cut it: types, and that what is     *)
(* kept of a body stays within the limits.  For requests that can be made  *)
(* out, on connections closed after a refused body: every answer is due,   *)
(* the parser stays in step with the peer, and a whole request is answered *)
(* without another read.                                                   *)
(***************************************************************************)
EXTENDS RequestParser, SequenceLemmas

-----------------------------------------------------------------------------
(* What the peer sends *)

LEMMA PiecesOfRequests ==
  /\ Line \in Units /\ CRLF \in Seq(Units) /\ Len(CRLF) = 2
  /\ \A n \in Nat : Unit("size", n) \in Units
<1>1. \A k \in Kinds : \A n \in Nat : Unit(k, n) \in Units
  BY DEF Unit, Units
<1>2. Line \in Units /\ \A n \in Nat : Unit("size", n) \in Units
  BY <1>1 DEF Line, Kinds
<1>3. Unit("CR", 0) \in Units /\ Unit("LF", 0) \in Units
  BY <1>1 DEF Kinds
<1> DEFINE x == Unit("CR", 0)
           y == Unit("LF", 0)
<1>4. CRLF = <<x, y>>
  BY DEF CRLF
<1>5. x \in Units /\ y \in Units
  BY <1>3
<1> HIDE DEF x, y
<1>6. <<x, y>> \in Seq(Units) /\ Len(<<x, y>>) = 2
  BY <1>5
<1> QED BY <1>2, <1>4, <1>6

LEMMA BytesTyped == \A req \in Request : Bytes(req) \in Seq(Units)
<1> SUFFICES ASSUME NEW req \in Request PROVE Bytes(req) \in Seq(Units)
  OBVIOUS
<1>1. req.headers \in Seq(Units) /\ req.chunks \in Seq(Seq(Units))
  BY DEF Request, Units
<1> DEFINE h == [k \in 1..Len(req.headers) |-> <<req.headers[k]>> \o CRLF]
           b == [k \in 1..Len(req.chunks) |->
                  Size(req.chunks[k]) \o CRLF \o req.chunks[k] \o CRLF]
           end == Size(<<>>)
           body == IF Contains(req.headers, Chunked)
                   THEN FlattenSeq(b) \o end \o CRLF \o CRLF ELSE Body(req)
<1>2. h \in Seq(Seq(Units))
  <2>1. ASSUME NEW k \in 1..Len(req.headers)
        PROVE  <<req.headers[k]>> \o CRLF \in Seq(Units)
    <3>1. req.headers[k] \in Units
      BY <1>1, ElementOfSeq
    <3>2. <<req.headers[k]>> \in Seq(Units)
      BY <3>1
    <3> QED BY <3>2, PiecesOfRequests, ThreeJoined
  <2>2. Len(req.headers) \in Nat
    BY <1>1
  <2> QED BY <2>1, <2>2
<1>3. \A s \in Seq(Units) : Size(s) \in Seq(Units)
  <2> SUFFICES ASSUME NEW s \in Seq(Units) PROVE Size(s) \in Seq(Units)
    OBVIOUS
  <2>1. Unit("size", Len(s)) \in Units
    BY PiecesOfRequests
  <2> QED BY <2>1 DEF Size
<1>4. b \in Seq(Seq(Units))
  <2>1. ASSUME NEW k \in 1..Len(req.chunks)
        PROVE  Size(req.chunks[k]) \o CRLF \o req.chunks[k] \o CRLF \in Seq(Units)
    <3>1. req.chunks[k] \in Seq(Units)
      BY <1>1, ElementOfSeq
    <3>2. Size(req.chunks[k]) \in Seq(Units)
      BY <1>3, <3>1
    <3> QED BY <3>1, <3>2, PiecesOfRequests, ThreeJoined
  <2>2. Len(req.chunks) \in Nat
    BY <1>1
  <2> QED BY <2>1, <2>2
<1>5. end \in Seq(Units)
  BY <1>3, EmptySeq
<1>6. Body(req) \in Seq(Units) /\ FlattenSeq(b) \in Seq(Units) /\ FlattenSeq(h) \in Seq(Units)
  BY <1>1, <1>2, <1>4, FlattenTyped DEF Body
<1>7. Bytes(req) = <<Line>> \o CRLF \o FlattenSeq(h) \o CRLF \o body
  BY DEF Bytes
<1> HIDE DEF h, b, end
<1>8. FlattenSeq(b) \o end \o CRLF \o CRLF \in Seq(Units)
  BY <1>5, <1>6, PiecesOfRequests, ThreeJoined
<1>9. body \in Seq(Units)
  BY <1>6, <1>8
<1> HIDE DEF body
<1>10. <<Line>> \in Seq(Units)
  BY PiecesOfRequests
<1> QED BY <1>6, <1>7, <1>9, <1>10, PiecesOfRequests, ThreeJoined

\* What a peer may send: where it is claimed that no sum wraps, nothing that
\* makes one wrap.
Sendable == {u \in Units : NothingWraps => u[2] + MaxBody < WordSize}

LEMMA SendableTyped == \A s : s \in Seq(Sendable) => s \in Seq(Units)
<1> SUFFICES ASSUME NEW s, s \in Seq(Sendable) PROVE s \in Seq(Units)
  OBVIOUS
<1>1. Sendable \subseteq Units
  BY DEF Sendable
<1> HIDE DEF Sendable
<1>2. Len(s) \in Nat /\ s = [k \in 1..Len(s) |-> s[k]] /\ \A k \in 1..Len(s) : s[k] \in Units
  BY <1>1, ElementOfSeq
<1> QED BY <1>2

LEMMA BytesSendable ==
  ASSUME NEW q \in Conversations, NEW k \in 1..Len(q), q[k] \in Request
  PROVE  Bytes(q[k]) \in Seq(Sendable)
<1> DEFINE b == Bytes(q[k])
<1>1. b \in Seq(Units)
  BY BytesTyped
<1>2. NothingWraps => \A u \in ToSet(b) : u[2] + MaxBody < WordSize
  BY DEF NothingWraps
<1> HIDE DEF b
<1>3. Len(b) \in Nat /\ b = [j \in 1..Len(b) |-> b[j]] /\ DOMAIN b = 1..Len(b)
  BY <1>1
<1>4. ASSUME NEW j \in 1..Len(b) PROVE b[j] \in Sendable
  <2>1. b[j] \in Units
    BY <1>1, ElementOfSeq
  <2>2. b[j] \in ToSet(b)
    BY <1>3 DEF ToSet
  <2> QED BY <1>2, <2>1, <2>2 DEF Sendable
<1>5. b \in Seq(Sendable)
  <2> HIDE DEF Sendable
  <2> QED BY <1>3, <1>4
<1> QED BY <1>5 DEF b

\* All the requests of a conversation.
Wires(q) == [k \in 1..Len(q) |-> Bytes(q[k])]

LEMMA SentIs ==
  ASSUME conversation \in Conversations
  PROVE  /\ Wires(conversation) \in Seq(Seq(Units))
         /\ Wires(conversation) \in Seq(Seq(Sendable))
         /\ Len(conversation) \in Nat /\ Len(Wires(conversation)) = Len(conversation)
         /\ \A n \in 0..Len(conversation) : Sent(n) = FlattenSeq(Firsts(Wires(conversation), n))
<1> DEFINE q == conversation
<1>1. q \in Seq(Request)
  BY ConversationsAssumption
<1>2. Len(q) \in Nat /\ \A k \in 1..Len(q) : q[k] \in Request
  BY <1>1, ElementOfSeq
<1>3. Wires(q) \in Seq(Seq(Units)) /\ Len(Wires(q)) = Len(q)
      /\ \A k \in 1..Len(q) : Wires(q)[k] = Bytes(q[k])
  BY <1>2, BytesTyped DEF Wires
<1>5. Wires(q) \in Seq(Seq(Sendable))
  <2>1. \A k \in 1..Len(q) : Bytes(q[k]) \in Seq(Sendable)
    BY <1>2, BytesSendable
  <2> HIDE DEF Sendable
  <2> QED BY <1>2, <2>1 DEF Wires
<1>4. ASSUME NEW n \in 0..Len(q) PROVE Sent(n) = FlattenSeq(Firsts(Wires(q), n))
  <2>1. Sent(n) = FlattenSeq([k \in 1..n |-> Bytes(q[k])])
    BY DEF Sent, Requested
  <2>2. \A k \in 1..n : Wires(q)[k] = Bytes(q[k])
    BY <1>2, <1>3
  <2>3. [k \in 1..n |-> Bytes(q[k])] = Firsts(Wires(q), n)
    BY <2>2 DEF Firsts
  <2> QED BY <2>1, <2>3
<1> QED BY <1>2, <1>3, <1>4, <1>5

\* The more requests, the more is sent.
LEMMA SentGrows ==
  ASSUME conversation \in Conversations
  PROVE  \A n \in 0..Len(conversation) : \A k \in 0..n :
           /\ Sent(n) \in Seq(Units) /\ Len(Sent(n)) \in Nat
           /\ Len(Sent(k)) \in Nat /\ Len(Sent(k)) <= Len(Sent(n))
<1> DEFINE w == Wires(conversation)
           m == Len(conversation)
<1>1. /\ w \in Seq(Seq(Units)) /\ m \in Nat /\ Len(w) = m
      /\ \A n \in 0..m : Sent(n) = FlattenSeq(Firsts(w, n))
  BY SentIs
<1> HIDE DEF w, m
<1>2. ASSUME NEW n \in 0..m PROVE Sent(n) \in Seq(Units)
  <2>1. \A k \in 1..n : w[k] \in Seq(Units)
    BY <1>1, ElementOfSeq
  <2>2. Firsts(w, n) \in Seq(Seq(Units))
    BY <2>1 DEF Firsts
  <2>3. FlattenSeq(Firsts(w, n)) \in Seq(Units)
    BY <2>2, FlattenTyped
  <2> QED BY <1>1, <2>3
<1>3. ASSUME NEW n \in 0..m, NEW k \in 0..n PROVE k \in 0..m /\ Len(Sent(k)) <= Len(Sent(n))
  <2>1. k \in Nat /\ n \in Nat /\ k <= n /\ n <= Len(w) /\ k \in 0..m
    BY <1>1
  <2>2. Len(FlattenSeq(Firsts(w, k))) <= Len(FlattenSeq(Firsts(w, n)))
    BY <1>1, <2>1, FlattenLonger
  <2> QED BY <1>1, <2>1, <2>2
<1>4. ASSUME NEW n \in 0..m, NEW k \in 0..n
      PROVE  /\ Sent(n) \in Seq(Units) /\ Len(Sent(n)) \in Nat
             /\ Len(Sent(k)) \in Nat /\ Len(Sent(k)) <= Len(Sent(n))
  <2>1. Sent(n) \in Seq(Units) /\ Sent(k) \in Seq(Units)
    BY <1>2, <1>3
  <2>2. Len(Sent(n)) \in Nat /\ Len(Sent(k)) \in Nat
    BY <2>1
  <2> QED BY <1>3, <2>1, <2>2
<1> QED BY <1>4 DEF m

\* What has arrived is the beginning of what is sent.
LEMMA ArrivedInStream ==
  ASSUME conversation \in Conversations, answers \in Seq([status: Parsed, body: Seq(Units)])
  PROVE  Stream \in Seq(Units) /\ Arrived \in Nat /\ Arrived <= Len(Stream)
<1> DEFINE m == Len(conversation)
<1>1. m \in Nat /\ m \in 0..m
  BY SentIs
<1>2. Stream = Sent(m)
  BY DEF Stream
<1>3. \A k \in 0..m : Sent(m) \in Seq(Units) /\ Len(Sent(m)) \in Nat
        /\ Len(Sent(k)) \in Nat /\ Len(Sent(k)) <= Len(Sent(m))
  BY <1>1, SentGrows
<1>4. Len(answers) \in Nat
  OBVIOUS
<1>5. Arrived = IF pipelined \/ Len(answers) >= m THEN Len(Stream)
                ELSE Len(Sent(Len(answers) + 1))
  BY DEF Arrived
<1> HIDE DEF m
<1>6. CASE pipelined \/ Len(answers) >= m
  BY <1>1, <1>2, <1>3, <1>5, <1>6
<1>7. CASE ~(pipelined \/ Len(answers) >= m)
  <2>1. Len(answers) + 1 \in 0..m
    BY <1>1, <1>4, <1>7
  <2> QED BY <1>2, <1>3, <1>5, <1>7, <2>1
<1> QED BY <1>6, <1>7

LEMMA StreamSendable ==
  ASSUME conversation \in Conversations
  PROVE  Stream \in Seq(Sendable)
<1> DEFINE w == Wires(conversation)
           m == Len(conversation)
<1>1. /\ w \in Seq(Seq(Sendable)) /\ m \in Nat /\ Len(w) = m
      /\ Sent(m) = FlattenSeq(Firsts(w, m))
  BY SentIs
<1>2. Stream = Sent(m)
  BY DEF Stream
<1> HIDE DEF w, m, Sendable
<1>3. \A k \in 1..m : w[k] \in Seq(Sendable)
  BY <1>1, ElementOfSeq
<1>4. Firsts(w, m) \in Seq(Seq(Sendable))
  BY <1>1, <1>3 DEF Firsts
<1>5. FlattenSeq(Firsts(w, m)) \in Seq(Sendable)
  BY <1>4, FlattenTyped
<1> QED BY <1>1, <1>2, <1>5

\* A part of the stream.
LEMMA PartSendable ==
  ASSUME conversation \in Conversations, NEW i \in Nat, NEW n \in Nat, i + n <= Len(Stream)
  PROVE  SubSeq(Stream, i + 1, i + n) \in Seq(Sendable)
<1>1. Stream \in Seq(Sendable)
  BY StreamSendable
<1> HIDE DEF Sendable
<1>2. \A j \in (i + 1)..(i + n) : Stream[j] \in Sendable
  <2>1. \A j \in (i + 1)..(i + n) : j \in 1..Len(Stream)
    BY <1>1
  <2> QED BY <1>1, <2>1, ElementOfSeq
<1> QED BY <1>1, <1>2, SubSeqProperties

\* An answer lets more arrive.
LEMMA ArrivedGrows ==
  ASSUME conversation \in Conversations, answers \in Seq([status: Parsed, body: Seq(Units)]),
         UNCHANGED peer, Len(answers') = Len(answers) + 1
  PROVE  Arrived' \in Nat /\ Arrived <= Arrived'
<1> DEFINE m == Len(conversation)
           a == Len(answers)
<1>1. m \in Nat /\ m \in 0..m /\ a \in Nat
  BY SentIs
<1>2. \A n \in 0..m : \A k \in 0..n : Len(Sent(n)) \in Nat /\ Len(Sent(k)) <= Len(Sent(n))
  BY SentGrows
<1>3. Arrived = IF pipelined \/ a >= m THEN Len(Sent(m)) ELSE Len(Sent(a + 1))
  BY DEF Arrived, Stream
<1>4. Arrived' = IF pipelined \/ a + 1 >= m THEN Len(Sent(m)) ELSE Len(Sent(a + 2))
  <2>1. conversation' = conversation /\ pipelined' = pipelined
    BY DEF peer
  <2>2. Arrived' = IF pipelined' \/ Len(answers') >= Len(conversation') THEN Len(Stream')
                   ELSE Len(Requested[conversation'][Len(answers') + 1])
    BY DEF Arrived, Sent
  <2>3. Stream' = Stream
    BY <2>1 DEF Stream, Sent
  <2>4. Len(answers') + 1 = a + 2
    BY <1>1
  <2> QED BY <2>1, <2>2, <2>3, <2>4 DEF Stream, Sent
<1> HIDE DEF m, a
<1>5. CASE pipelined \/ a >= m
  <2>1. pipelined \/ a + 1 >= m
    BY <1>1, <1>5
  <2> QED BY <1>1, <1>2, <1>3, <1>4, <1>5, <2>1
<1>6. CASE ~(pipelined \/ a >= m)
  <2>1. a + 1 \in 0..m /\ a + 1 \in 0..(a + 1) /\ a + 1 \in 0..(a + 2)
    BY <1>1, <1>6
  <2>2. CASE pipelined \/ a + 1 >= m
    BY <1>1, <1>2, <1>3, <1>4, <1>6, <2>1, <2>2
  <2>3. CASE ~(pipelined \/ a + 1 >= m)
    <3>1. a + 2 \in 0..m
      BY <1>1, <2>3
    <3> QED BY <1>2, <1>3, <1>4, <1>6, <2>1, <2>3, <3>1
  <2> QED BY <2>2, <2>3
<1> QED BY <1>5, <1>6

-----------------------------------------------------------------------------
(* The loop of parseChunkBody *)

\* The function ParseChunks(c) is the last value of.
IsTurn(c, f) ==
  f = [k \in 0..Len(c.buffer) |-> IF k = 0 THEN c ELSE ChunkStep(f[k - 1])]

LEMMA ParseChunksIs ==
  ASSUME NEW c
  PROVE  ParseChunks(c) = (CHOOSE f : IsTurn(c, f))[Len(c.buffer)]
BY Zenon DEF ParseChunks, IsTurn

\* Part of it, as far as n.
TurnsTo(c, n, f) ==
  /\ f = [k \in 0..n |-> f[k]]
  /\ \A k \in 0..n : f[k] = IF k = 0 THEN c ELSE ChunkStep(f[k - 1])

LEMMA TurnsExist ==
  ASSUME NEW c, NEW m \in Nat
  PROVE  \E f : TurnsTo(c, m, f)
<1> DEFINE T == {n \in Nat : \E f : TurnsTo(c, n, f)}
<1>1. 0 \in T
  <2> DEFINE f == [k \in 0..0 |-> c]
  <2>1. \A k \in 0..0 : k = 0 /\ f[k] = c
    OBVIOUS
  <2>2. f = [k \in 0..0 |-> f[k]]
    OBVIOUS
  <2> HIDE DEF f
  <2>3. TurnsTo(c, 0, f)
    BY <2>1, <2>2 DEF TurnsTo
  <2> QED BY <2>3
<1>2. ASSUME NEW n \in Nat, n \in T PROVE n + 1 \in T
  <2>1. PICK f : TurnsTo(c, n, f)
    BY <1>2
  <2> DEFINE g == [k \in 0..(n + 1) |-> IF k <= n THEN f[k] ELSE ChunkStep(f[n])]
  <2>2. g = [k \in 0..(n + 1) |-> g[k]]
    OBVIOUS
  <2>3. ASSUME NEW k \in 0..(n + 1)
        PROVE  g[k] = IF k = 0 THEN c ELSE ChunkStep(g[k - 1])
    <3>1. CASE k <= n
      <4>1. k \in 0..n /\ (k # 0 => k - 1 \in 0..(n + 1) /\ k - 1 <= n)
        BY <3>1
      <4>2. g[k] = f[k] /\ (k # 0 => g[k - 1] = f[k - 1])
        BY <4>1
      <4>3. f[k] = IF k = 0 THEN c ELSE ChunkStep(f[k - 1])
        BY <2>1, <4>1 DEF TurnsTo
      <4> HIDE DEF g
      <4> QED BY <4>2, <4>3
    <3>2. CASE k = n + 1
      <4>1. k # 0 /\ k - 1 = n /\ n \in 0..(n + 1) /\ n <= n /\ ~(k <= n)
        BY <3>2
      <4>2. g[k] = ChunkStep(f[n]) /\ g[k - 1] = f[n]
        BY <4>1
      <4> HIDE DEF g
      <4> QED BY <4>1, <4>2
    <3> QED BY <3>1, <3>2
  <2> HIDE DEF g
  <2>4. TurnsTo(c, n + 1, g)
    BY <2>2, <2>3 DEF TurnsTo
  <2> QED BY <2>4
<1> HIDE DEF T
<1>3. Nat \subseteq T
  BY <1>1, <1>2, SetInduction
<1> QED BY <1>3 DEF T

\* What holds with the number of turns done holds of the loop after the last.
LEMMA LoopCounts ==
  ASSUME NEW G, NEW c, Len(c.buffer) \in Nat, <<0, c>> \in G,
         \A k \in Nat : \A d : <<k, d>> \in G => <<k + 1, ChunkStep(d)>> \in G
  PROVE  <<Len(c.buffer), ParseChunks(c)>> \in G
<1> DEFINE m == Len(c.buffer)
           h == CHOOSE f : IsTurn(c, f)
           T == {k \in Nat : k \in 0..m => <<k, h[k]>> \in G}
<1>1. PICK f : TurnsTo(c, m, f)
  BY TurnsExist
<1>2. IsTurn(c, f)
  <2>1. f = [k \in 0..m |-> f[k]]
    BY <1>1 DEF TurnsTo
  <2>2. \A k \in 0..m : f[k] = IF k = 0 THEN c ELSE ChunkStep(f[k - 1])
    BY <1>1 DEF TurnsTo
  <2>3. [k \in 0..m |-> f[k]] = [k \in 0..m |-> IF k = 0 THEN c ELSE ChunkStep(f[k - 1])]
    BY <2>2
  <2> QED BY <2>1, <2>3 DEF IsTurn
<1>3. IsTurn(c, h)
  BY <1>2
<1> HIDE DEF h
<1>4. \A k \in 0..m : h[k] = IF k = 0 THEN c ELSE ChunkStep(h[k - 1])
  BY <1>3 DEF IsTurn
<1>5. 0 \in T
  BY <1>4
<1>6. ASSUME NEW k \in Nat, k \in T PROVE k + 1 \in T
  <2> SUFFICES ASSUME k + 1 \in 0..m PROVE <<k + 1, h[k + 1]>> \in G
    OBVIOUS
  <2>1. k \in 0..m /\ k + 1 # 0 /\ (k + 1) - 1 = k
    OBVIOUS
  <2>2. h[k + 1] = ChunkStep(h[k])
    BY <1>4, <2>1
  <2>3. <<k, h[k]>> \in G
    BY <1>6, <2>1
  <2> HIDE DEF T
  <2> QED BY <2>2, <2>3
<1> HIDE DEF T
<1>7. Nat \subseteq T
  BY <1>5, <1>6, SetInduction
<1>8. m \in 0..m /\ m \in T
  BY <1>7
<1>9. <<m, h[m]>> \in G
  BY <1>8 DEF T
<1>10. ParseChunks(c) = h[m]
  BY ParseChunksIs DEF h
<1> QED BY <1>9, <1>10

\* What every turn keeps, the loop keeps.
LEMMA LoopKeeps ==
  ASSUME NEW G, NEW c \in G, Len(c.buffer) \in Nat, \A d \in G : ChunkStep(d) \in G
  PROVE  ParseChunks(c) \in G
<1> DEFINE H == Nat \X G
<1>1. <<0, c>> \in H /\ \A k \in Nat : \A d : <<k, d>> \in H => <<k + 1, ChunkStep(d)>> \in H
  OBVIOUS
<1> HIDE DEF H
<1>2. <<Len(c.buffer), ParseChunks(c)>> \in H
  BY <1>1, LoopCounts
<1> QED BY <1>2 DEF H

-----------------------------------------------------------------------------
(* The buffer *)

LEMMA FindIs ==
  ASSUME NEW b \in Seq(Units), NEW p \in Seq(Units)
  PROVE  Find(b, p) \in Nat /\ Find(b, p) <= Len(b) + 1
<1> DEFINE at == {k \in 1..(Len(b) - Len(p) + 1) : SubSeq(b, k, k + Len(p) - 1) = p}
<1>1. at \in SUBSET Nat /\ Len(b) \in Nat /\ \A k \in at : k <= Len(b) + 1
  <2>1. Len(b) \in Nat /\ Len(p) \in Nat
    OBVIOUS
  <2>2. \A k \in 1..(Len(b) - Len(p) + 1) : k \in Nat /\ k <= Len(b) + 1
    BY <2>1
  <2> QED BY <2>1, <2>2
<1>2. Find(b, p) = IF Len(p) > Len(b) \/ at = {} THEN 0 ELSE Min(at)
  BY DEF Find
<1> HIDE DEF at
<1>3. CASE Len(p) > Len(b) \/ at = {}
  BY <1>2, <1>3
<1>4. CASE ~(Len(p) > Len(b) \/ at = {})
  <2>1. Min(at) \in at
    BY <1>1, <1>4, LeastExists
  <2> QED BY <1>1, <1>2, <1>4, <2>1
<1> QED BY <1>3, <1>4

LEMMA EraseIs ==
  \A b \in Seq(Units) : \A n \in Nat :
    Erase(b, n) \in Seq(Units) /\ (Len(b) <= n => Erase(b, n) = <<>>)
<1> SUFFICES ASSUME NEW b \in Seq(Units), NEW n \in Nat
             PROVE  Erase(b, n) \in Seq(Units) /\ (Len(b) <= n => Erase(b, n) = <<>>)
  OBVIOUS
<1>1. Erase(b, n) \in Seq(Units)
  <2>1. \A i \in (n + 1)..Len(b) : b[i] \in Units
    BY ElementOfSeq
  <2> QED BY <2>1, SubSeqProperties DEF Erase
<1>2. ASSUME Len(b) <= n PROVE Erase(b, n) = <<>>
  <2>1. Len(Erase(b, n)) = 0
    BY <1>2 DEF Erase
  <2> QED BY <1>1, <2>1, EmptySeq
<1> QED BY <1>1, <1>2

LEMMA EraseSendable ==
  \A b \in Seq(Sendable) : \A n \in Nat :
    Erase(b, n) \in Seq(Sendable) /\ (Len(b) <= n => Erase(b, n) = <<>>)
<1> SUFFICES ASSUME NEW b \in Seq(Sendable), NEW n \in Nat
             PROVE  Erase(b, n) \in Seq(Sendable) /\ (Len(b) <= n => Erase(b, n) = <<>>)
  OBVIOUS
<1>1. Erase(b, n) \in Seq(Sendable)
  <2> HIDE DEF Sendable
  <2>1. \A i \in (n + 1)..Len(b) : b[i] \in Sendable
    BY ElementOfSeq
  <2> QED BY <2>1, SubSeqProperties DEF Erase
<1>2. b \in Seq(Units)
  BY SendableTyped
<1> QED BY <1>1, <1>2, EraseIs

-----------------------------------------------------------------------------
(* The client while it is parsed *)

ChunkRec == [state: {"CHUNK_SIZE", "CHUNK_DATA", "CHUNK_CRLF", "CHUNK_DONE"},
             size: Nat, read: Nat]

ClientRec ==
  [state: {"RESET", "READ_SUCCESS", "PARSE_INCOMPLETE", "closed"} \cup Parsed,
   phase: {"START", "HEADER", "BODY", "FINISHED"}, buffer: Seq(Sendable),
   headers: SUBSET Units, chunk: ChunkRec, hasLength: BOOLEAN, length: Nat,
   bytesRead: Nat, discarding: BOOLEAN, toDiscard: Nat, body: Seq(Units),
   inDisk: BOOLEAN]

\* BodyIsBounded of a client.
Limited(c) ==
  /\ NothingWraps => Len(c.body) <= MaxBody
  /\ ~c.inDisk => Len(c.body) <= MaxBuffer

Consistent(c) ==
  /\ c.bytesRead <= c.length
  /\ c.chunk.state = "CHUNK_DATA" => c.chunk.read < c.chunk.size
  /\ Limited(c)

\* Why the limit holds is told by how far the request was parsed: nothing is kept
\* before the body; the rest of a chunk fits, or it is discarded; what is kept of a
\* body with a length is no more than was read, and the length fits unless
\* the whole body is being discarded.
Bare(c) == c.body = <<>> /\ c.bytesRead = 0 /\ ~c.hasLength

ChunkFits(c) ==
  NothingWraps /\ c.chunk.state = "CHUNK_DATA" /\ ~c.discarding =>
    Len(c.body) + c.chunk.size <= MaxBody + c.chunk.read

LengthFits(c) ==
  \/ Bare(c)
  \/ /\ c.hasLength /\ Len(c.body) <= c.bytesRead
     /\ c.length <= MaxBody \/ (c.discarding /\ c.toDiscard > 0)

PhaseOK(c) ==
  /\ c.phase \in {"START", "HEADER"} => Bare(c) /\ c.chunk = NewChunk
  /\ c.phase = "BODY" =>
       IF Chunked \in c.headers THEN ChunkFits(c) ELSE LengthFits(c)

Parsers == {c \in ClientRec : Consistent(c) /\ PhaseOK(c)}

LEMMA ParserFields ==
  ASSUME NEW c \in ClientRec
  PROVE  /\ c.buffer \in Seq(Sendable) /\ c.buffer \in Seq(Units) /\ Len(c.buffer) \in Nat
         /\ c.body \in Seq(Units) /\ Len(c.body) \in Nat
         /\ c.chunk \in ChunkRec /\ c.chunk.size \in Nat /\ c.chunk.read \in Nat
         /\ c.chunk.state \in {"CHUNK_SIZE", "CHUNK_DATA", "CHUNK_CRLF", "CHUNK_DONE"}
         /\ c.length \in Nat /\ c.bytesRead \in Nat /\ c.toDiscard \in Nat
         /\ c.hasLength \in BOOLEAN /\ c.discarding \in BOOLEAN /\ c.inDisk \in BOOLEAN
         /\ c.headers \in SUBSET Units
         /\ c.phase \in {"START", "HEADER", "BODY", "FINISHED"}
<1>1. /\ c.buffer \in Seq(Sendable) /\ c.body \in Seq(Units) /\ c.chunk \in ChunkRec
      /\ c.length \in Nat /\ c.bytesRead \in Nat /\ c.toDiscard \in Nat
      /\ c.hasLength \in BOOLEAN /\ c.discarding \in BOOLEAN /\ c.inDisk \in BOOLEAN
      /\ c.headers \in SUBSET Units
      /\ c.phase \in {"START", "HEADER", "BODY", "FINISHED"}
  BY DEF ClientRec
<1>2. c.chunk.size \in Nat /\ c.chunk.read \in Nat
      /\ c.chunk.state \in {"CHUNK_SIZE", "CHUNK_DATA", "CHUNK_CRLF", "CHUNK_DONE"}
  BY <1>1 DEF ChunkRec
<1> HIDE DEF Sendable
<1>3. c.buffer \in Seq(Units)
  BY <1>1, SendableTyped
<1> QED BY <1>1, <1>2, <1>3

\* What appendBody keeps in memory fits there; the rest of the client is left alone.
LEMMA AppendStep ==
  ASSUME NEW c \in ClientRec, NEW n \in 0..Len(c.buffer)
  PROVE  \E x \in BOOLEAN, y \in Seq(Units), z \in Seq(Sendable) :
           /\ AppendBody(c, n) = [c EXCEPT !.inDisk = x, !.body = y, !.buffer = z]
           /\ Len(y) = Len(c.body) + n
           /\ ~x => Len(y) <= MaxBuffer
<1> DEFINE x == c.inDisk \/ n > MaxBuffer - Len(c.body)
           y == c.body \o SubSeq(c.buffer, 1, n)
           z == Erase(c.buffer, n)
<1>1. c.buffer \in Seq(Units) /\ Len(c.buffer) \in Nat
      /\ c.body \in Seq(Units) /\ Len(c.body) \in Nat /\ c.inDisk \in BOOLEAN
  BY ParserFields
<1>2. n \in Nat /\ n <= Len(c.buffer)
  BY <1>1
<1>3. SubSeq(c.buffer, 1, n) \in Seq(Units) /\ Len(SubSeq(c.buffer, 1, n)) = n
  BY <1>1, <1>2
<1> DEFINE s == SubSeq(c.buffer, 1, n)
           b == c.body
<1>4. s \in Seq(Units) /\ Len(s) = n /\ b \in Seq(Units)
  BY <1>1, <1>3
<1> HIDE DEF s, b
<1>5. b \o s \in Seq(Units) /\ Len(b \o s) = Len(b) + n
  BY <1>4
<1>6. y \in Seq(Units) /\ Len(y) = Len(c.body) + n
  BY <1>5 DEF s, b
<1>7. z \in Seq(Sendable)
  BY <1>2, ParserFields, EraseSendable
<1>8. x \in BOOLEAN /\ (~x => Len(y) <= MaxBuffer)
  <2>1. x \in BOOLEAN
    BY Zenon
  <2>2. ASSUME ~x PROVE Len(y) <= MaxBuffer
    <3>1. ~(n > MaxBuffer - Len(c.body))
      BY <2>2, Zenon
    <3>2. MaxBuffer \in Nat
      BY LimitsAssumption
    <3> HIDE DEF x, y
    <3> QED BY <1>1, <1>2, <1>6, <3>1, <3>2
  <2> QED BY <2>1, <2>2
<1>9. AppendBody(c, n) = [c EXCEPT !.inDisk = x, !.body = y, !.buffer = z]
  BY DEF AppendBody
<1> HIDE DEF x, y, z
<1> QED BY <1>6, <1>7, <1>8, <1>9

-----------------------------------------------------------------------------
(* The turns of parseChunkBody *)

\* The clients the loop runs on.
Chunking == {c \in Parsers : c.phase \in {"BODY", "FINISHED"} /\ Chunked \in c.headers}

LEMMA ErrorKeeps == \A c \in Chunking : AppendError(c) \in Chunking
<1> SUFFICES ASSUME NEW c \in Chunking PROVE AppendError(c) \in Chunking
  OBVIOUS
<1> DEFINE d == AppendError(c)
<1>1. c \in ClientRec /\ Consistent(c) /\ Chunked \in c.headers
  BY DEF Chunking, Parsers
<1>2. d = [c EXCEPT !.state = "PARSE_ERROR", !.phase = "FINISHED"]
  BY DEF AppendError
<1>3. d \in ClientRec
  BY <1>1, <1>2 DEF ClientRec, Parsed
<1>4. d.phase = "FINISHED" /\ d.headers = c.headers /\ d.bytesRead = c.bytesRead
      /\ d.length = c.length /\ d.chunk = c.chunk /\ d.body = c.body /\ d.inDisk = c.inDisk
  BY <1>1, <1>2 DEF ClientRec
<1> HIDE DEF d
<1>5. Consistent(d)
  BY <1>1, <1>4 DEF Consistent, Limited
<1>6. PhaseOK(d)
  BY <1>4 DEF PhaseOK
<1> QED BY <1>1, <1>3, <1>4, <1>5, <1>6 DEF Chunking, Parsers, d

\* A new buffer and a new state of the chunk parser, nothing appended.
LEMMA ChunkKeeps ==
  ASSUME NEW c \in Chunking, NEW b \in Seq(Sendable), NEW k \in ChunkRec,
         NEW x \in BOOLEAN, c.discarding => x,
         k.state = "CHUNK_DATA" =>
           /\ k.read < k.size
           /\ NothingWraps /\ ~x => Len(c.body) + k.size <= MaxBody + k.read
  PROVE  [c EXCEPT !.buffer = b, !.discarding = x, !.chunk = k] \in Chunking
<1> DEFINE d == [c EXCEPT !.buffer = b, !.discarding = x, !.chunk = k]
<1>1. c \in ClientRec /\ Consistent(c) /\ Chunked \in c.headers
      /\ c.phase \in {"BODY", "FINISHED"}
  BY DEF Chunking, Parsers
<1>2. d \in ClientRec
  BY <1>1 DEF ClientRec
<1>3. d.phase = c.phase /\ d.headers = c.headers /\ d.bytesRead = c.bytesRead
      /\ d.length = c.length /\ d.chunk = k /\ d.body = c.body /\ d.inDisk = c.inDisk
      /\ d.discarding = x
  BY <1>1 DEF ClientRec
<1> HIDE DEF d
<1>4. Consistent(d)
  BY <1>1, <1>3 DEF Consistent, Limited
<1>5. PhaseOK(d)
  <2>1. ChunkFits(d)
    BY <1>3 DEF ChunkFits
  <2> QED BY <1>1, <1>3, <2>1 DEF PhaseOK
<1> QED BY <1>1, <1>2, <1>3, <1>4, <1>5 DEF Chunking, Parsers, d

\* The size of a chunk and the sum it is part of, where neither is too wide.
LEMMA SumFits ==
  ASSUME NEW z \in Nat, NEW l \in Nat
  PROVE  /\ Least(z, WordSize - 1) \in Nat
         /\ z + MaxBody < WordSize => Least(z, WordSize - 1) = z
         /\ z + MaxBody < WordSize /\ l <= MaxBody =>
              (l + Least(z, WordSize - 1)) % WordSize = l + Least(z, WordSize - 1)
<1>1. WordSize \in Nat /\ MaxBody \in Nat /\ MaxBody < WordSize
  BY WordSizeAssumption, LimitsAssumption
<1>2. Least(z, WordSize - 1) \in Nat /\ (z + MaxBody < WordSize => Least(z, WordSize - 1) = z)
  BY <1>1 DEF Least
<1>3. ASSUME z + MaxBody < WordSize, l <= MaxBody PROVE (l + z) % WordSize = l + z
  <2>1. l + z \in Nat /\ l + z < WordSize
    BY <1>1, <1>3
  <2> DEFINE t == l + z
  <2>2. t \in Nat /\ t < WordSize
    BY <2>1
  <2> HIDE DEF t
  <2>3. t % WordSize = t
    BY <1>1, <2>2
  <2> QED BY <2>3 DEF t
<1> QED BY <1>2, <1>3

LEMMA ChunkSizeKeeps ==
  ASSUME NEW c \in Chunking, c.buffer # <<>>
  PROVE  ChunkSize(c) \in Chunking
<1> DEFINE e == Find(c.buffer, CRLF)
           u == c.buffer[1]
           n == Least(u[2], WordSize - 1)
           v == (Len(c.body) + n) % WordSize
           x == c.discarding \/ v > MaxBody
           k == IF n = 0 THEN [c.chunk EXCEPT !.size = 0, !.state = "CHUNK_DONE"]
                ELSE [state |-> "CHUNK_DATA", size |-> n, read |-> 0]
           b == Erase(c.buffer, e + 1)
<1>1. c \in ClientRec
  BY DEF Chunking, Parsers
<1>2. c.buffer \in Seq(Units) /\ c.buffer \in Seq(Sendable) /\ Len(c.body) \in Nat
      /\ c.chunk \in ChunkRec /\ c.discarding \in BOOLEAN
  BY <1>1, ParserFields
<1>3. e \in Nat
  BY <1>2, FindIs, PiecesOfRequests
<1>4. n \in Nat /\ (NothingWraps => v = Len(c.body) + n)
  <2>1. u \in Sendable
    <3>1. 1 \in 1..Len(c.buffer)
      BY <1>2, EmptySeq
    <3> HIDE DEF Sendable
    <3> QED BY <1>2, <3>1, ElementOfSeq
  <2> HIDE DEF u
  <2>2. u[2] \in Nat /\ (NothingWraps => u[2] + MaxBody < WordSize)
    BY <2>1 DEF Sendable, Units
  <2>3. NothingWraps => Len(c.body) <= MaxBody
    BY DEF Chunking, Parsers, Consistent, Limited
  <2> DEFINE z == u[2]
             l == Len(c.body)
  <2>4. z \in Nat /\ l \in Nat /\ (NothingWraps => z + MaxBody < WordSize /\ l <= MaxBody)
    BY <1>2, <2>2, <2>3
  <2> HIDE DEF z, l
  <2>5. /\ Least(z, WordSize - 1) \in Nat
        /\ NothingWraps => (l + Least(z, WordSize - 1)) % WordSize = l + Least(z, WordSize - 1)
    BY <2>4, SumFits
  <2> QED BY <2>5 DEF z, l
<1>5. ChunkSize(c) = IF e = 0 THEN c
                     ELSE [c EXCEPT !.buffer = b, !.discarding = x, !.chunk = k]
  BY DEF ChunkSize
<1>6. b \in Seq(Sendable)
  BY <1>2, <1>3, EraseSendable
<1> HIDE DEF e, u, n, v, b
<1>7. k \in ChunkRec /\ (k.state = "CHUNK_DATA" => k.size = n /\ k.read = 0 /\ n > 0)
  <2>1. CASE n = 0
    <3>1. k = [state |-> "CHUNK_DONE", size |-> 0, read |-> c.chunk.read]
      BY <1>2, <2>1 DEF ChunkRec
    <3>2. c.chunk.read \in Nat
      BY <1>1, ParserFields
    <3> HIDE DEF k
    <3> QED BY <3>1, <3>2 DEF ChunkRec
  <2>2. CASE n # 0
    <3>1. k = [state |-> "CHUNK_DATA", size |-> n, read |-> 0]
      BY <2>2
    <3> HIDE DEF k
    <3> QED BY <1>4, <2>2, <3>1 DEF ChunkRec
  <2> QED BY <2>1, <2>2
<1>8. x \in BOOLEAN /\ (c.discarding => x) /\ (~x => ~(v > MaxBody))
  BY Zenon
<1> HIDE DEF x, k
<1>9. k.state = "CHUNK_DATA" =>
        /\ k.read < k.size
        /\ NothingWraps /\ ~x => Len(c.body) + k.size <= MaxBody + k.read
  <2>1. MaxBody \in Nat
    BY LimitsAssumption
  <2>2. NothingWraps /\ ~x => Len(c.body) + n <= MaxBody
    BY <1>2, <1>4, <1>8, <2>1
  <2> QED BY <1>2, <1>4, <1>7, <2>1, <2>2
<1>10. [c EXCEPT !.buffer = b, !.discarding = x, !.chunk = k] \in Chunking
  BY <1>6, <1>7, <1>8, <1>9, ChunkKeeps
<1> QED BY <1>5, <1>10

LEMMA ChunkCRLFKeeps ==
  ASSUME NEW c \in Chunking
  PROVE  ChunkCRLF(c) \in Chunking
<1> DEFINE b == Erase(c.buffer, 2)
           k == [c.chunk EXCEPT !.state = "CHUNK_SIZE"]
<1>1. c \in ClientRec
  BY DEF Chunking, Parsers
<1>2. b \in Seq(Sendable) /\ c.chunk \in ChunkRec /\ c.discarding \in BOOLEAN
  BY <1>1, ParserFields, EraseSendable
<1>3. k \in ChunkRec /\ k.state # "CHUNK_DATA"
  BY <1>2 DEF ChunkRec
<1>4. ChunkCRLF(c) = c
      \/ ChunkCRLF(c) = [c EXCEPT !.buffer = b, !.discarding = c.discarding, !.chunk = k]
  <2>1. [c EXCEPT !.buffer = b, !.chunk = k] =
          [c EXCEPT !.buffer = b, !.discarding = c.discarding, !.chunk = k]
    BY <1>1 DEF ClientRec
  <2> QED BY <2>1 DEF ChunkCRLF
<1> HIDE DEF b, k
<1>5. [c EXCEPT !.buffer = b, !.discarding = c.discarding, !.chunk = k] \in Chunking
  BY <1>2, <1>3, ChunkKeeps
<1> QED BY <1>4, <1>5

LEMMA ChunkDoneKeeps ==
  ASSUME NEW c \in Chunking
  PROVE  ChunkDone(c) \in Chunking
<1> DEFINE b == Erase(c.buffer, 2)
           st == IF c.discarding THEN "PARSE_TOO_LARGE" ELSE c.state
           d == [c EXCEPT !.buffer = b, !.phase = "FINISHED", !.state = st]
<1>1. c \in ClientRec /\ Consistent(c) /\ Chunked \in c.headers
  BY DEF Chunking, Parsers
<1>2. b \in Seq(Sendable)
  BY <1>1, ParserFields, EraseSendable
<1>3. ChunkDone(c) = c \/ ChunkDone(c) = d
  BY DEF ChunkDone
<1>4. d \in ClientRec
  <2>1. st \in {"RESET", "READ_SUCCESS", "PARSE_INCOMPLETE", "closed"} \cup Parsed
    BY <1>1 DEF ClientRec, Parsed
  <2> HIDE DEF b, st
  <2> QED BY <1>1, <1>2, <2>1 DEF ClientRec
<1>5. d.phase = "FINISHED" /\ d.headers = c.headers /\ d.bytesRead = c.bytesRead
      /\ d.length = c.length /\ d.chunk = c.chunk /\ d.body = c.body /\ d.inDisk = c.inDisk
  BY <1>1 DEF ClientRec
<1> HIDE DEF d
<1>6. Consistent(d) /\ PhaseOK(d)
  BY <1>1, <1>5 DEF Consistent, Limited, PhaseOK
<1>7. d \in Chunking
  BY <1>1, <1>4, <1>5, <1>6 DEF Chunking, Parsers
<1> QED BY <1>3, <1>7

LEMMA ChunkDataKeeps ==
  ASSUME NEW c \in Chunking, c.chunk.state = "CHUNK_DATA", c.phase = "BODY"
  PROVE  ChunkData(c) \in Chunking
<1> DEFINE n == Least(Len(c.buffer), c.chunk.size - c.chunk.read)
           st == IF c.chunk.read + n = c.chunk.size THEN "CHUNK_CRLF" ELSE c.chunk.state
           k == [c.chunk EXCEPT !.read = c.chunk.read + n, !.state = st]
           b == Erase(c.buffer, n)
           Taken(d) == [d EXCEPT !.chunk.read = @ + n,
                                 !.chunk.state = IF c.chunk.read + n = c.chunk.size
                                                 THEN "CHUNK_CRLF" ELSE @]
<1>1. c \in ClientRec /\ Consistent(c) /\ Chunked \in c.headers /\ PhaseOK(c)
  BY DEF Chunking, Parsers
<1>2. /\ c.buffer \in Seq(Sendable) /\ Len(c.buffer) \in Nat
      /\ c.body \in Seq(Units) /\ Len(c.body) \in Nat
      /\ c.chunk \in ChunkRec /\ c.chunk.size \in Nat /\ c.chunk.read \in Nat
      /\ c.chunk.read < c.chunk.size /\ c.discarding \in BOOLEAN
  BY <1>1, ParserFields DEF Consistent
<1>3. n \in 0..Len(c.buffer) /\ c.chunk.read + n <= c.chunk.size
  BY <1>2 DEF Least
<1>4. ChunkData(c) =
        IF c.discarding THEN Taken([c EXCEPT !.buffer = b])
        ELSE IF AppendFails(c, n) THEN AppendError(c)
        ELSE Taken(AppendBody(c, n))
  BY DEF ChunkData
<1>5. b \in Seq(Sendable)
  <2>1. n \in Nat
    BY <1>3
  <2> HIDE DEF n
  <2> QED BY <1>2, <2>1, EraseSendable
<1> HIDE DEF n, b
<1>6. /\ k \in ChunkRec /\ k.read = c.chunk.read + n /\ k.size = c.chunk.size
      /\ k.state = "CHUNK_DATA" => k.read < k.size
  <2>0. c.chunk.state = "CHUNK_DATA" /\ n \in Nat
        /\ (c.chunk.read + n # c.chunk.size => c.chunk.read + n < c.chunk.size)
    <3> DEFINE r == c.chunk.read
               z == c.chunk.size
    <3>1. n \in Nat /\ r \in Nat /\ z \in Nat /\ r + n <= z
      BY <1>2, <1>3
    <3> HIDE DEF r, z
    <3>2. r + n # z => r + n < z
      BY <3>1
    <3> QED BY <3>1, <3>2 DEF r, z
  <2>1. st \in {"CHUNK_SIZE", "CHUNK_DATA", "CHUNK_CRLF", "CHUNK_DONE"}
        /\ (st = "CHUNK_DATA" => c.chunk.read + n < c.chunk.size)
    <3>1. CASE c.chunk.read + n = c.chunk.size
      BY <3>1
    <3>2. CASE c.chunk.read + n # c.chunk.size
      BY <2>0, <3>2
    <3> QED BY <3>1, <3>2
  <2> HIDE DEF st
  <2>2. c.chunk.read + n \in Nat
    BY <1>2, <1>3
  <2>3. k \in ChunkRec
    BY <1>2, <2>1, <2>2 DEF ChunkRec
  <2>4. k.state = st /\ k.read = c.chunk.read + n /\ k.size = c.chunk.size
    BY <1>2 DEF ChunkRec
  <2> HIDE DEF k
  <2> QED BY <2>1, <2>3, <2>4
<1>7. ASSUME NEW d, d.chunk = c.chunk, d = [d EXCEPT !.chunk = c.chunk]
      PROVE  Taken(d) = [d EXCEPT !.chunk = k]
  BY <1>7
<1> HIDE DEF Taken
<1>8. CASE c.discarding
  <2> DEFINE d == [c EXCEPT !.buffer = b]
  <2>1. d.chunk = c.chunk /\ d = [d EXCEPT !.chunk = c.chunk]
    BY <1>1 DEF ClientRec
  <2>2. Taken(d) = [d EXCEPT !.chunk = k]
    BY <1>7, <2>1
  <2> HIDE DEF k
  <2>3. [d EXCEPT !.chunk = k] =
          [c EXCEPT !.buffer = b, !.discarding = c.discarding, !.chunk = k]
    BY <1>1 DEF ClientRec
  <2>4. [c EXCEPT !.buffer = b, !.discarding = c.discarding, !.chunk = k] \in Chunking
    BY <1>2, <1>5, <1>6, <1>8, ChunkKeeps
  <2> QED BY <1>4, <1>8, <2>2, <2>3, <2>4
<1>9. CASE ~c.discarding /\ AppendFails(c, n)
  BY <1>4, <1>9, ErrorKeeps
<1>10. CASE ~c.discarding /\ ~AppendFails(c, n)
  <2>1. PICK x \in BOOLEAN, y \in Seq(Units), z \in Seq(Sendable) :
          /\ AppendBody(c, n) = [c EXCEPT !.inDisk = x, !.body = y, !.buffer = z]
          /\ Len(y) = Len(c.body) + n
          /\ ~x => Len(y) <= MaxBuffer
    BY <1>1, <1>3, AppendStep
  <2> DEFINE d == [c EXCEPT !.inDisk = x, !.body = y, !.buffer = z]
             r == [d EXCEPT !.chunk = k]
  <2>2. d.chunk = c.chunk /\ d = [d EXCEPT !.chunk = c.chunk]
    BY <1>1 DEF ClientRec
  <2>3. ChunkData(c) = r
    BY <1>4, <1>7, <1>10, <2>1, <2>2
  <2> HIDE DEF k
  <2>4. r \in ClientRec
    BY <1>1, <1>6 DEF ClientRec
  <2>5. r.phase = c.phase /\ r.headers = c.headers /\ r.bytesRead = c.bytesRead
        /\ r.length = c.length /\ r.chunk = k /\ r.body = y /\ r.inDisk = x
        /\ r.discarding = c.discarding
    BY <1>1 DEF ClientRec
  <2> HIDE DEF r
  <2>6. NothingWraps => Len(c.body) + c.chunk.size <= MaxBody + c.chunk.read
    BY <1>1, <1>10 DEF PhaseOK, ChunkFits
  <2>7. NothingWraps => Len(y) <= MaxBody /\ Len(y) + k.size <= MaxBody + k.read
    <3>1. n \in Nat /\ MaxBody \in Nat
      BY <1>3, LimitsAssumption
    <3>2. \A l, sz, rd : l \in Nat /\ sz \in Nat /\ rd \in Nat
            /\ l + sz <= MaxBody + rd /\ rd + n <= sz =>
            l + n <= MaxBody /\ (l + n) + sz <= MaxBody + (rd + n)
      BY <3>1
    <3>3. NothingWraps =>
          /\ Len(c.body) + n <= MaxBody
          /\ (Len(c.body) + n) + c.chunk.size <= MaxBody + (c.chunk.read + n)
      BY <1>2, <1>3, <2>6, <3>2
    <3> QED BY <1>6, <2>1, <3>3
  <2>8. Consistent(r)
    BY <1>1, <1>6, <2>1, <2>5, <2>7 DEF Consistent, Limited
  <2>9. PhaseOK(r)
    BY <1>1, <2>5, <2>7 DEF PhaseOK, ChunkFits
  <2> QED BY <1>1, <2>3, <2>4, <2>5, <2>8, <2>9 DEF Chunking, Parsers
<1> QED BY <1>8, <1>9, <1>10

LEMMA ChunkStepKeeps == \A c \in Chunking : ChunkStep(c) \in Chunking
<1> SUFFICES ASSUME NEW c \in Chunking PROVE ChunkStep(c) \in Chunking
  OBVIOUS
<1>1. c.phase \in {"BODY", "FINISHED"}
      /\ c.chunk.state \in {"CHUNK_SIZE", "CHUNK_DATA", "CHUNK_CRLF", "CHUNK_DONE"}
  BY ParserFields DEF Chunking, Parsers
<1>2. CASE c.buffer = <<>> \/ c.phase = "FINISHED"
  BY <1>2 DEF ChunkStep
<1>3. CASE c.buffer # <<>> /\ c.phase = "BODY"
  <2>1. CASE c.chunk.state = "CHUNK_SIZE"
    <3>1. ChunkStep(c) = ChunkSize(c)
      BY <1>3, <2>1 DEF ChunkStep
    <3> QED BY <1>3, <3>1, ChunkSizeKeeps
  <2>2. CASE c.chunk.state = "CHUNK_DATA"
    <3>1. ChunkStep(c) = ChunkData(c)
      BY <1>3, <2>2 DEF ChunkStep
    <3> QED BY <1>3, <2>2, <3>1, ChunkDataKeeps
  <2>3. CASE c.chunk.state = "CHUNK_CRLF"
    <3>1. ChunkStep(c) = ChunkCRLF(c)
      BY <1>3, <2>3 DEF ChunkStep
    <3> QED BY <3>1, ChunkCRLFKeeps
  <2>4. CASE c.chunk.state = "CHUNK_DONE"
    <3>1. ChunkStep(c) = ChunkDone(c)
      BY <1>3, <2>4 DEF ChunkStep
    <3> QED BY <3>1, ChunkDoneKeeps
  <2> QED BY <1>1, <2>1, <2>2, <2>3, <2>4
<1> QED BY <1>1, <1>2, <1>3

LEMMA ParseChunksKeeps == \A c \in Chunking : ParseChunks(c) \in Chunking
<1> SUFFICES ASSUME NEW c \in Chunking PROVE ParseChunks(c) \in Chunking
  OBVIOUS
<1>1. Len(c.buffer) \in Nat
  BY ParserFields DEF Chunking, Parsers
<1> QED BY <1>1, ChunkStepKeeps, LoopKeeps

-----------------------------------------------------------------------------
(* The bodies with a length *)

LEMMA StartLengthKeeps ==
  ASSUME NEW c \in Parsers, c.phase = "BODY", Chunked \notin c.headers,
         \E h \in c.headers : h[1] = "length"
  PROVE  LET d == StartLength(c) IN
         d \in Parsers /\ d.phase = "BODY" /\ d.hasLength /\ d.headers = c.headers
<1>1. c \in ClientRec /\ Consistent(c) /\ LengthFits(c) /\ c.hasLength \in BOOLEAN
  BY ParserFields DEF Parsers, PhaseOK
<1>2. CASE c.hasLength
  BY <1>2 DEF StartLength
<1>3. CASE ~c.hasLength
  <2> DEFINE n == (CHOOSE h \in c.headers : h[1] = "length")[2]
             x == c.discarding \/ n > MaxBody
             t == IF n > MaxBody THEN n ELSE c.toDiscard
             d == [c EXCEPT !.hasLength = TRUE, !.length = n, !.discarding = x,
                            !.toDiscard = t]
  <2>1. StartLength(c) = d
    BY <1>3 DEF StartLength
  <2>2. n \in Nat
    <3> DEFINE h == CHOOSE h \in c.headers : h[1] = "length"
    <3>1. h \in c.headers
      OBVIOUS
    <3>2. c.headers \in SUBSET Units
      BY <1>1, ParserFields
    <3> HIDE DEF h
    <3>3. h \in Units
      BY <3>1, <3>2
    <3>4. h[2] \in Nat
      BY <3>3 DEF Units
    <3> QED BY <3>4 DEF h
  <2> HIDE DEF n
  <2>3. x \in BOOLEAN /\ (n > MaxBody => x) /\ t \in Nat /\ (n > MaxBody => t = n)
    <3>1. c.toDiscard \in Nat
      BY <1>1, ParserFields
    <3>2. t \in Nat /\ (n > MaxBody => t = n)
      BY <2>2, <3>1
    <3>3. x \in BOOLEAN /\ (n > MaxBody => x)
      BY Zenon
    <3> QED BY <3>2, <3>3
  <2> HIDE DEF x, t
  <2>4. d \in ClientRec
    BY <1>1, <2>2, <2>3 DEF ClientRec
  <2>5. d.phase = c.phase /\ d.headers = c.headers /\ d.bytesRead = c.bytesRead
        /\ d.length = n /\ d.chunk = c.chunk /\ d.body = c.body /\ d.inDisk = c.inDisk
        /\ d.discarding = x /\ d.toDiscard = t /\ d.hasLength = TRUE
    BY <1>1 DEF ClientRec
  <2> HIDE DEF d
  <2>6. c.body = <<>> /\ c.bytesRead = 0
    BY <1>1, <1>3 DEF LengthFits, Bare
  <2>7. Consistent(d)
    BY <1>1, <2>2, <2>5, <2>6 DEF Consistent, Limited
  <2>8. n <= MaxBody \/ (x /\ t > 0)
    BY <2>2, <2>3, LimitsAssumption
  <2>9. LengthFits(d)
    <3>1. Len(d.body) <= d.bytesRead
      BY <2>5, <2>6, EmptySeq
    <3> QED BY <2>5, <2>8, <3>1 DEF LengthFits
  <2>10. PhaseOK(d)
    BY <2>5, <2>9 DEF PhaseOK
  <2> QED BY <2>1, <2>4, <2>5, <2>7, <2>10 DEF Parsers
<1> QED BY <1>1, <1>2, <1>3

\* discardingBody erases or counts; while nothing is left in the buffer to erase,
\* it goes on.
LEMMA DiscardStep ==
  ASSUME NEW c \in ClientRec, c.discarding
  PROVE  \E b \in Seq(Sendable), t \in Nat, x \in BOOLEAN :
           /\ DiscardingBody(c) = [c EXCEPT !.buffer = b, !.toDiscard = t, !.discarding = x]
           /\ c.buffer = <<>> /\ c.toDiscard > 0 => t = c.toDiscard /\ x /\ b = <<>>
<1>1. c.buffer \in Seq(Sendable) /\ Len(c.buffer) \in Nat /\ c.toDiscard \in Nat
  BY ParserFields
<1>2. CASE Len(c.buffer) >= c.toDiscard
  <2> DEFINE b == Erase(c.buffer, c.toDiscard)
  <2>1. b \in Seq(Sendable)
    BY <1>1, EraseSendable
  <2>2. DiscardingBody(c) = [c EXCEPT !.buffer = b, !.toDiscard = 0, !.discarding = FALSE]
    BY <1>2 DEF DiscardingBody
  <2>3. ~(c.buffer = <<>> /\ c.toDiscard > 0)
    BY <1>1, <1>2, EmptySeq
  <2> HIDE DEF b
  <2> QED BY <2>1, <2>2, <2>3
<1>3. CASE ~(Len(c.buffer) >= c.toDiscard)
  <2> DEFINE t == c.toDiscard - Len(c.buffer)
  <2>1. t \in Nat /\ (c.buffer = <<>> => t = c.toDiscard)
    BY <1>1, <1>3, EmptySeq
  <2>2. DiscardingBody(c) = [c EXCEPT !.buffer = <<>>, !.toDiscard = t, !.discarding = TRUE]
    <3>1. DiscardingBody(c) = [c EXCEPT !.toDiscard = t, !.buffer = <<>>]
      BY <1>3 DEF DiscardingBody
    <3> HIDE DEF t
    <3> QED BY <3>1 DEF ClientRec
  <2>3. <<>> \in Seq(Sendable)
    BY EmptySeq
  <2> DEFINE z == <<>>
  <2> HIDE DEF t
  <2>4. /\ z \in Seq(Sendable) /\ z = <<>>
        /\ DiscardingBody(c) = [c EXCEPT !.buffer = z, !.toDiscard = t, !.discarding = TRUE]
    BY <2>2, <2>3
  <2> HIDE DEF z
  <2> QED BY <2>1, <2>4
<1> QED BY <1>2, <1>3

LEMMA ParseLengthKeeps ==
  ASSUME NEW c0 \in Parsers, c0.phase = "BODY", Chunked \notin c0.headers,
         \E h \in c0.headers : h[1] = "length"
  PROVE  ParseContentLength(c0) \in Parsers
<1> DEFINE c == StartLength(c0)
<1>1. c \in Parsers /\ c.phase = "BODY" /\ c.hasLength /\ Chunked \notin c.headers
  BY StartLengthKeeps
<1> DEFINE n == Least(Len(c.buffer), c.length - c.bytesRead)
           ended == c.bytesRead + n >= c.length
           ph == IF ended THEN "FINISHED" ELSE c.phase
           Taken(d) == [d EXCEPT !.bytesRead = @ + n,
                                 !.phase = IF ended THEN "FINISHED" ELSE @]
           b == Erase(c.buffer, n)
           e == [c EXCEPT !.buffer = b]
<1>2. ParseContentLength(c0) =
        IF n = 0 /\ c.length > 0 THEN c
        ELSE IF c.discarding
             THEN [Taken(DiscardingBody(e)) EXCEPT !.state = "PARSE_TOO_LARGE"]
        ELSE IF AppendFails(c, n) THEN AppendError(c)
        ELSE Taken(AppendBody(c, n))
  BY DEF ParseContentLength
<1> HIDE DEF c
<1>3. c \in ClientRec /\ Consistent(c) /\ PhaseOK(c) /\ c.hasLength \in BOOLEAN
  BY <1>1, ParserFields DEF Parsers
<1>4. /\ c.buffer \in Seq(Sendable) /\ Len(c.buffer) \in Nat
      /\ c.body \in Seq(Units) /\ Len(c.body) \in Nat
      /\ c.length \in Nat /\ c.bytesRead \in Nat /\ c.bytesRead <= c.length
      /\ c.discarding \in BOOLEAN /\ c.toDiscard \in Nat
  BY <1>3, ParserFields DEF Consistent
<1>5. /\ Len(c.body) <= c.bytesRead
      /\ c.length <= MaxBody \/ (c.discarding /\ c.toDiscard > 0)
  BY <1>1, <1>3 DEF PhaseOK, LengthFits, Bare
<1>6. /\ n \in 0..Len(c.buffer) /\ n \in Nat /\ c.bytesRead + n <= c.length
      /\ n = Len(c.buffer) \/ c.bytesRead + n >= c.length
  BY <1>4 DEF Least
<1> HIDE DEF n
<1>7. b \in Seq(Sendable) /\ (n = Len(c.buffer) => b = <<>>)
  <2>1. n = Len(c.buffer) => Len(c.buffer) <= n
    BY <1>4
  <2>2. c.buffer \in Seq(Sendable) /\ n \in Nat
    BY <1>4, <1>6
  <2> QED BY <2>1, <2>2, EraseSendable
<1>8. ph \in {"BODY", "FINISHED"} /\ (ph = "BODY" => ~(c.bytesRead + n >= c.length))
  BY <1>1
<1>9. c.bytesRead + n \in Nat
  BY <1>4, <1>6
<1>10. ASSUME NEW d, d.bytesRead = c.bytesRead, d.phase = c.phase
       PROVE  Taken(d) = [d EXCEPT !.bytesRead = c.bytesRead + n, !.phase = ph]
  BY <1>10
<1> HIDE DEF b, ended, ph, Taken
<1>11. CASE n = 0 /\ c.length > 0
  BY <1>1, <1>2, <1>11
<1>12. CASE ~(n = 0 /\ c.length > 0) /\ c.discarding
  <2>1. e \in ClientRec /\ e.discarding /\ e.buffer = b /\ e.toDiscard = c.toDiscard
    BY <1>3, <1>7, <1>12 DEF ClientRec
  <2>2. PICK z \in Seq(Sendable), t \in Nat, x \in BOOLEAN :
          /\ DiscardingBody(e) = [e EXCEPT !.buffer = z, !.toDiscard = t, !.discarding = x]
          /\ e.buffer = <<>> /\ e.toDiscard > 0 => t = e.toDiscard /\ x /\ z = <<>>
    BY <2>1, DiscardStep
  <2> DEFINE d == [e EXCEPT !.buffer = z, !.toDiscard = t, !.discarding = x]
             r == [[d EXCEPT !.bytesRead = c.bytesRead + n, !.phase = ph]
                    EXCEPT !.state = "PARSE_TOO_LARGE"]
  <2>3. d.bytesRead = c.bytesRead /\ d.phase = c.phase
    BY <1>3 DEF ClientRec
  <2>4. ParseContentLength(c0) = r
    BY <1>2, <1>10, <1>12, <2>2, <2>3
  <2>5. r \in ClientRec
    BY <1>3, <1>8, <1>9 DEF ClientRec, Parsed
  <2>6. r.phase = ph /\ r.headers = c.headers /\ r.bytesRead = c.bytesRead + n
        /\ r.length = c.length /\ r.chunk = c.chunk /\ r.body = c.body
        /\ r.inDisk = c.inDisk /\ r.hasLength = c.hasLength
        /\ r.discarding = x /\ r.toDiscard = t
    BY <1>3 DEF ClientRec
  <2> HIDE DEF d, r
  <2>7. Consistent(r)
    BY <1>3, <1>6, <2>6 DEF Consistent, Limited
  <2>8. ph = "BODY" => LengthFits(r)
    <3> SUFFICES ASSUME ph = "BODY" PROVE LengthFits(r)
      OBVIOUS
    <3>1. b = <<>>
      BY <1>6, <1>7, <1>8
    <3>2. c.toDiscard > 0 => t > 0 /\ x
      BY <2>1, <2>2, <3>1
    <3>3. Len(c.body) <= c.bytesRead + n
      BY <1>4, <1>5, <1>6
    <3> QED BY <1>1, <1>5, <2>6, <3>2, <3>3 DEF LengthFits
  <2>9. PhaseOK(r)
    BY <1>1, <1>8, <2>6, <2>8 DEF PhaseOK
  <2> QED BY <2>4, <2>5, <2>7, <2>9 DEF Parsers
<1>13. CASE ~(n = 0 /\ c.length > 0) /\ ~c.discarding /\ AppendFails(c, n)
  <2> DEFINE r == [c EXCEPT !.state = "PARSE_ERROR", !.phase = "FINISHED"]
  <2>1. ParseContentLength(c0) = r
    BY <1>2, <1>13 DEF AppendError
  <2>2. r \in ClientRec
    BY <1>3 DEF ClientRec, Parsed
  <2>3. r.phase = "FINISHED" /\ r.bytesRead = c.bytesRead
        /\ r.length = c.length /\ r.chunk = c.chunk /\ r.body = c.body
        /\ r.inDisk = c.inDisk
    BY <1>3 DEF ClientRec
  <2> HIDE DEF r
  <2> QED BY <1>3, <2>1, <2>2, <2>3 DEF Parsers, Consistent, Limited, PhaseOK
<1>14. CASE ~(n = 0 /\ c.length > 0) /\ ~c.discarding /\ ~AppendFails(c, n)
  <2>1. PICK x \in BOOLEAN, y \in Seq(Units), z \in Seq(Sendable) :
          /\ AppendBody(c, n) = [c EXCEPT !.inDisk = x, !.body = y, !.buffer = z]
          /\ Len(y) = Len(c.body) + n
          /\ ~x => Len(y) <= MaxBuffer
    BY <1>3, <1>6, AppendStep
  <2> DEFINE d == [c EXCEPT !.inDisk = x, !.body = y, !.buffer = z]
             r == [d EXCEPT !.bytesRead = c.bytesRead + n, !.phase = ph]
  <2>2. d.bytesRead = c.bytesRead /\ d.phase = c.phase
    BY <1>3 DEF ClientRec
  <2>3. ParseContentLength(c0) = r
    BY <1>2, <1>10, <1>14, <2>1, <2>2
  <2>4. r \in ClientRec
    BY <1>3, <1>8, <1>9 DEF ClientRec
  <2>5. r.phase = ph /\ r.headers = c.headers /\ r.bytesRead = c.bytesRead + n
        /\ r.length = c.length /\ r.chunk = c.chunk /\ r.body = y
        /\ r.inDisk = x /\ r.hasLength = c.hasLength
        /\ r.discarding = c.discarding /\ r.toDiscard = c.toDiscard
    BY <1>3 DEF ClientRec
  <2> HIDE DEF d, r
  <2>6. c.length <= MaxBody
    BY <1>5, <1>14
  <2>7. Len(y) <= c.bytesRead + n /\ Len(y) <= MaxBody
    <3>1. MaxBody \in Nat
      BY LimitsAssumption
    <3> QED BY <1>4, <1>5, <1>6, <2>1, <2>6, <3>1
  <2>8. Consistent(r)
    BY <1>3, <1>6, <2>1, <2>5, <2>7 DEF Consistent, Limited
  <2>9. LengthFits(r)
    BY <1>1, <2>5, <2>6, <2>7 DEF LengthFits
  <2>10. PhaseOK(r)
    BY <1>1, <1>8, <2>5, <2>9 DEF PhaseOK
  <2> QED BY <2>3, <2>4, <2>8, <2>10 DEF Parsers
<1> QED BY <1>4, <1>11, <1>12, <1>13, <1>14

-----------------------------------------------------------------------------
(* parseRequestBuffer *)

LEMMA ParseLineKeeps == \A c \in Parsers : ParseLine(c) \in Parsers
<1> SUFFICES ASSUME NEW c \in Parsers PROVE ParseLine(c) \in Parsers
  OBVIOUS
<1> DEFINE e == Find(c.buffer, CRLF)
           b == Erase(c.buffer, e + 1)
           d == [c EXCEPT !.phase = "HEADER", !.buffer = b]
<1>1. c \in ClientRec /\ Consistent(c) /\ PhaseOK(c)
  BY DEF Parsers
<1>2. ParseLine(c) = c \/ (c.phase = "START" /\ ParseLine(c) = d)
  BY DEF ParseLine
<1>3. b \in Seq(Sendable)
  <2>1. c.buffer \in Seq(Sendable) /\ c.buffer \in Seq(Units)
    BY <1>1, ParserFields
  <2>2. e \in Nat
    BY <2>1, FindIs, PiecesOfRequests
  <2> HIDE DEF e
  <2> QED BY <2>1, <2>2, EraseSendable
<1> HIDE DEF b
<1>4. d \in ClientRec
  BY <1>1, <1>3 DEF ClientRec
<1>5. d.phase = "HEADER" /\ d.bytesRead = c.bytesRead /\ d.hasLength = c.hasLength
      /\ d.length = c.length /\ d.chunk = c.chunk /\ d.body = c.body /\ d.inDisk = c.inDisk
  BY <1>1 DEF ClientRec
<1> HIDE DEF d
<1>6. Consistent(d)
  BY <1>1, <1>5 DEF Consistent, Limited
<1>7. c.phase = "START" => PhaseOK(d)
  BY <1>1, <1>5 DEF PhaseOK, Bare
<1> QED BY <1>2, <1>4, <1>6, <1>7 DEF Parsers

LEMMA ParseHeadersKeeps == \A c \in Parsers : ParseHeaders(c) \in Parsers
<1> SUFFICES ASSUME NEW c \in Parsers PROVE ParseHeaders(c) \in Parsers
  OBVIOUS
<1> DEFINE e == Find(c.buffer, CRLF \o CRLF)
           b == Erase(c.buffer, e + 3)
           h == ToSet(SubSeq(c.buffer, 1, e - 1)) \ ToSet(CRLF)
           d == [c EXCEPT !.phase = "BODY", !.headers = h, !.buffer = b]
<1>1. c \in ClientRec /\ Consistent(c) /\ PhaseOK(c)
  BY DEF Parsers
<1>2. ParseHeaders(c) = c \/ (c.phase = "HEADER" /\ e # 0 /\ ParseHeaders(c) = d)
  BY DEF ParseHeaders
<1>3. c.buffer \in Seq(Sendable) /\ c.buffer \in Seq(Units) /\ Len(c.buffer) \in Nat
  BY <1>1, ParserFields
<1>4. e \in Nat /\ e <= Len(c.buffer) + 1
  <2>1. CRLF \o CRLF \in Seq(Units)
    BY PiecesOfRequests, ThreeJoined
  <2> QED BY <1>3, <2>1, FindIs
<1> HIDE DEF e
<1>5. b \in Seq(Sendable)
  BY <1>3, <1>4, EraseSendable
<1>6. e # 0 => h \in SUBSET Units
  <2> SUFFICES ASSUME e # 0 PROVE h \in SUBSET Units
    OBVIOUS
  <2>1. e - 1 \in Nat /\ e - 1 <= Len(c.buffer)
    BY <1>3, <1>4
  <2>2. SubSeq(c.buffer, 1, e - 1) \in Seq(Units)
    BY <1>3, <2>1
  <2> DEFINE s == SubSeq(c.buffer, 1, e - 1)
  <2>3. s \in Seq(Units)
    BY <2>2
  <2> HIDE DEF s
  <2>4. \A i \in DOMAIN s : s[i] \in Units
    <3>1. DOMAIN s = 1..Len(s)
      BY <2>3
    <3> QED BY <2>3, <3>1, ElementOfSeq
  <2>5. ToSet(s) \subseteq Units
    BY <2>4 DEF ToSet
  <2> QED BY <2>5 DEF s
<1> HIDE DEF b, h
<1>7. e # 0 => d \in ClientRec
  BY <1>1, <1>5, <1>6 DEF ClientRec
<1>8. d.phase = "BODY" /\ d.bytesRead = c.bytesRead /\ d.hasLength = c.hasLength
      /\ d.length = c.length /\ d.chunk = c.chunk /\ d.body = c.body /\ d.inDisk = c.inDisk
  BY <1>1 DEF ClientRec
<1> HIDE DEF d
<1>9. Consistent(d)
  BY <1>1, <1>8 DEF Consistent, Limited
<1>10. c.phase = "HEADER" => PhaseOK(d)
  <2> SUFFICES ASSUME c.phase = "HEADER" PROVE PhaseOK(d)
    OBVIOUS
  <2>1. Bare(d) /\ d.chunk = NewChunk
    BY <1>1, <1>8 DEF PhaseOK, Bare
  <2>2. LengthFits(d) /\ ChunkFits(d)
    BY <2>1 DEF LengthFits, ChunkFits, NewChunk
  <2> QED BY <1>8, <2>2 DEF PhaseOK
<1> QED BY <1>2, <1>7, <1>9, <1>10 DEF Parsers

LEMMA ParseBodyKeeps == \A c \in Parsers : ParseBody(c) \in Parsers
<1> SUFFICES ASSUME NEW c \in Parsers PROVE ParseBody(c) \in Parsers
  OBVIOUS
<1>1. CASE c.phase # "BODY"
  BY <1>1 DEF ParseBody
<1>2. CASE c.phase = "BODY" /\ Chunked \in c.headers
  <2>1. c \in Chunking
    BY <1>2 DEF Chunking
  <2>2. ParseBody(c) = ParseChunks(c)
    BY <1>2 DEF ParseBody
  <2> QED BY <2>1, <2>2, ParseChunksKeeps DEF Chunking
<1>3. CASE /\ c.phase = "BODY" /\ Chunked \notin c.headers
           /\ \E h \in c.headers : h[1] = "length"
  <2>1. ParseBody(c) = ParseContentLength(c)
    BY <1>3 DEF ParseBody
  <2> QED BY <1>3, <2>1, ParseLengthKeeps
<1>4. CASE /\ c.phase = "BODY" /\ Chunked \notin c.headers
           /\ ~\E h \in c.headers : h[1] = "length"
  <2> DEFINE d == [c EXCEPT !.phase = "FINISHED"]
  <2>1. ParseBody(c) = d
    BY <1>4 DEF ParseBody
  <2>2. c \in ClientRec /\ Consistent(c)
    BY DEF Parsers
  <2>3. d \in ClientRec
    BY <2>2 DEF ClientRec
  <2>4. d.phase = "FINISHED" /\ d.bytesRead = c.bytesRead
        /\ d.length = c.length /\ d.chunk = c.chunk /\ d.body = c.body
        /\ d.inDisk = c.inDisk
    BY <2>2 DEF ClientRec
  <2> HIDE DEF d
  <2> QED BY <2>1, <2>2, <2>3, <2>4 DEF Parsers, Consistent, Limited, PhaseOK
<1> QED BY <1>1, <1>2, <1>3, <1>4

\* The client between two calls: a request that was parsed waits for its answer,
\* any other is still parsed.
Clients ==
  {c \in ClientRec : /\ Consistent(c)
                     /\ c.phase # "FINISHED" /\ c.state # "READ_SUCCESS"
                     /\ c.state \notin Parsed => PhaseOK(c)}

LEMMA ParserKeeps == \A c \in Parsers : ParseRequestBuffer(c) \in Clients
<1> SUFFICES ASSUME NEW c \in Parsers PROVE ParseRequestBuffer(c) \in Clients
  OBVIOUS
<1> DEFINE d == ParseBody(ParseHeaders(ParseLine(c)))
<1>1. d \in Parsers
  BY ParseLineKeeps, ParseHeadersKeeps, ParseBodyKeeps
<1>2. ParseRequestBuffer(c) =
        IF d.phase # "FINISHED" THEN [d EXCEPT !.state = "PARSE_INCOMPLETE"]
        ELSE [d EXCEPT !.phase = "START", !.chunk = NewChunk,
                       !.state = IF @ \in Parsed THEN @ ELSE "PARSE_OK"]
  BY DEF ParseRequestBuffer
<1> HIDE DEF d
<1>3. d \in ClientRec /\ Consistent(d) /\ PhaseOK(d)
  BY <1>1 DEF Parsers
<1>4. CASE d.phase # "FINISHED"
  <2> DEFINE r == [d EXCEPT !.state = "PARSE_INCOMPLETE"]
  <2>1. r \in ClientRec
    BY <1>3 DEF ClientRec
  <2>2. r.phase = d.phase /\ r.bytesRead = d.bytesRead /\ r.hasLength = d.hasLength
        /\ r.length = d.length /\ r.chunk = d.chunk /\ r.body = d.body
        /\ r.inDisk = d.inDisk /\ r.headers = d.headers
        /\ r.discarding = d.discarding /\ r.toDiscard = d.toDiscard
        /\ r.state = "PARSE_INCOMPLETE"
    BY <1>3 DEF ClientRec
  <2> HIDE DEF r
  <2>3. Consistent(r)
    BY <1>3, <2>2 DEF Consistent, Limited
  <2>4. PhaseOK(r)
    BY <1>3, <2>2 DEF PhaseOK, ChunkFits, LengthFits, Bare
  <2>5. r \in Clients
    BY <1>4, <2>1, <2>2, <2>3, <2>4 DEF Clients
  <2> QED BY <1>2, <1>4, <2>5 DEF r
<1>5. CASE d.phase = "FINISHED"
  <2> DEFINE st == IF d.state \in Parsed THEN d.state ELSE "PARSE_OK"
             r == [d EXCEPT !.phase = "START", !.chunk = NewChunk, !.state = st]
  <2>1. ParseRequestBuffer(c) = r
    BY <1>2, <1>5
  <2>2. st \in Parsed /\ NewChunk \in ChunkRec
    BY DEF Parsed, NewChunk, ChunkRec
  <2> HIDE DEF st
  <2>3. r \in ClientRec
    BY <1>3, <2>2 DEF ClientRec
  <2>4. r.phase = "START" /\ r.bytesRead = d.bytesRead /\ r.length = d.length
        /\ r.chunk = NewChunk /\ r.body = d.body /\ r.inDisk = d.inDisk /\ r.state = st
    BY <1>3 DEF ClientRec
  <2> HIDE DEF r
  <2>5. Consistent(r)
    BY <1>3, <2>4 DEF Consistent, Limited, NewChunk
  <2>6. st # "READ_SUCCESS"
    BY <2>2 DEF Parsed
  <2> QED BY <2>1, <2>2, <2>3, <2>4, <2>5, <2>6 DEF Clients
<1> QED BY <1>4, <1>5

-----------------------------------------------------------------------------
(* The connection *)

ParserInv ==
  /\ conversation \in Conversations /\ pipelined \in Pipelining
  /\ received \in Nat /\ received <= Arrived /\ disk \in {"ok", "full"}
  /\ answers \in Seq([status: Parsed, body: Seq(Units)])
  /\ client \in Clients

\* A request is begun with nothing of the one before it but the read buffer and
\* what is left to discard.
LEMMA FreshClient ==
  /\ NewClient \in Clients
  /\ [NewClient EXCEPT !.state = "closed"] \in Clients
  /\ \A c \in ClientRec : ResetClientState(c) \in Clients
<1>1. NewChunk \in ChunkRec /\ NewChunk.state = "CHUNK_SIZE"
      /\ <<>> \in Seq(Units) /\ <<>> \in Seq(Sendable)
      /\ MaxBody \in Nat /\ MaxBuffer \in Nat
  BY EmptySeq, LimitsAssumption DEF NewChunk, ChunkRec
<1>2. ASSUME NEW c \in ClientRec, c.body = <<>>, c.phase = "START", c.chunk = NewChunk,
             c.bytesRead = 0, c.length = 0, ~c.hasLength, c.state \in {"RESET", "closed"}
      PROVE  c \in Clients
  <2>1. Len(c.body) = 0
    BY <1>2, EmptySeq
  <2>2. Consistent(c)
    BY <1>1, <1>2, <2>1 DEF Consistent, Limited
  <2>3. PhaseOK(c)
    BY <1>2 DEF PhaseOK, Bare
  <2> QED BY <1>2, <2>2, <2>3 DEF Clients
<1> DEFINE shut == [NewClient EXCEPT !.state = "closed"]
<1>3. NewClient \in ClientRec /\ shut \in ClientRec
  BY <1>1 DEF NewClient, ClientRec
<1>4. /\ NewClient.body = <<>> /\ NewClient.phase = "START" /\ NewClient.chunk = NewChunk
      /\ NewClient.bytesRead = 0 /\ NewClient.length = 0 /\ ~NewClient.hasLength
      /\ NewClient.state = "RESET"
  BY DEF NewClient
<1>5. /\ shut.body = <<>> /\ shut.phase = "START" /\ shut.chunk = NewChunk
      /\ shut.bytesRead = 0 /\ shut.length = 0 /\ ~shut.hasLength
      /\ shut.state = "closed"
  BY DEF NewClient
<1>6. ASSUME NEW c \in ClientRec PROVE ResetClientState(c) \in Clients
  <2> DEFINE r == ResetClientState(c)
  <2>1. c.buffer \in Seq(Sendable) /\ c.discarding \in BOOLEAN /\ c.toDiscard \in Nat
    BY ParserFields
  <2>2. r = [NewClient EXCEPT !.buffer = c.buffer, !.discarding = c.discarding,
                              !.toDiscard = c.toDiscard]
    BY DEF ResetClientState
  <2>3. r \in ClientRec
    BY <1>3, <2>1, <2>2 DEF ClientRec
  <2>4. /\ r.body = <<>> /\ r.phase = "START" /\ r.chunk = NewChunk
        /\ r.bytesRead = 0 /\ r.length = 0 /\ ~r.hasLength /\ r.state = "RESET"
    BY <2>2 DEF NewClient
  <2> HIDE DEF r
  <2>5. r \in Clients
    BY <1>2, <2>3, <2>4
  <2> QED BY <2>5 DEF r
<1> HIDE DEF shut
<1>7. NewClient \in Clients
  BY <1>2, <1>3, <1>4
<1>8. shut \in Clients
  BY <1>2, <1>3, <1>5
<1> QED BY <1>6, <1>7, <1>8 DEF shut

LEMMA ParserInit == Init => ParserInv
<1> SUFFICES ASSUME Init PROVE ParserInv
  OBVIOUS
<1>1. /\ conversation \in Conversations /\ pipelined \in Pipelining
      /\ received = 0 /\ client = NewClient /\ disk = "ok" /\ answers = <<>>
  BY DEF Init
<1>2. answers \in Seq([status: Parsed, body: Seq(Units)])
  BY <1>1, EmptySeq
<1>3. Arrived \in Nat
  BY <1>1, <1>2, ArrivedInStream
<1>4. client \in Clients
  BY <1>1, FreshClient
<1>5. received \in Nat /\ received <= Arrived
  BY <1>1, <1>3
<1> QED BY <1>1, <1>2, <1>4, <1>5 DEF ParserInv

\* A read() takes what has arrived, and the parser keeps the limits.
LEMMA ReadKeeps == ParserInv /\ ProcessRead => ParserInv'
<1> SUFFICES ASSUME ParserInv, ProcessRead PROVE ParserInv'
  OBVIOUS
<1>1. /\ conversation \in Conversations /\ pipelined \in Pipelining
      /\ received \in Nat /\ received <= Arrived /\ disk \in {"ok", "full"}
      /\ answers \in Seq([status: Parsed, body: Seq(Units)])
      /\ client \in Clients
  BY DEF ParserInv
<1>2. Stream \in Seq(Units) /\ Arrived \in Nat /\ Arrived <= Len(Stream)
  BY <1>1, ArrivedInStream
<1> DEFINE Fed(n) ==
      [client EXCEPT !.state = "READ_SUCCESS",
                     !.buffer = @ \o SubSeq(Stream, received + 1, received + n)]
<1>3. PICK n \in 1..(Arrived - received) :
        received' = received + n /\ client' = ParseRequestBuffer(Fed(n))
  BY DEF ProcessRead
<1>4. client.state \notin Parsed /\ UNCHANGED <<peer, disk, answers>>
  BY DEF ProcessRead
<1>5. /\ conversation' = conversation /\ pipelined' = pipelined
      /\ disk' = disk /\ answers' = answers
  BY <1>4 DEF peer
<1>6. client \in ClientRec /\ Consistent(client) /\ PhaseOK(client)
  BY <1>1, <1>4 DEF Clients
<1>7. n \in Nat /\ received + n \in Nat /\ received + n <= Arrived
      /\ received + n <= Len(Stream)
  BY <1>1, <1>2, <1>3
<1>8. SubSeq(Stream, received + 1, received + n) \in Seq(Sendable)
  BY <1>1, <1>7, PartSendable
<1>9. client.buffer \in Seq(Sendable)
  BY <1>6, ParserFields
<1>10. client.buffer \o SubSeq(Stream, received + 1, received + n) \in Seq(Sendable)
  BY <1>8, <1>9, ThreeJoined
<1> DEFINE f == Fed(n)
<1>11. f \in ClientRec
  BY <1>6, <1>10 DEF ClientRec
<1>12. f.phase = client.phase /\ f.bytesRead = client.bytesRead
       /\ f.hasLength = client.hasLength /\ f.length = client.length
       /\ f.chunk = client.chunk /\ f.body = client.body /\ f.inDisk = client.inDisk
       /\ f.headers = client.headers /\ f.discarding = client.discarding
       /\ f.toDiscard = client.toDiscard
  BY <1>6 DEF ClientRec
<1>13. client' = ParseRequestBuffer(f)
  BY <1>3
<1> HIDE DEF f, Fed
<1>14. Consistent(f)
  BY <1>6, <1>12 DEF Consistent, Limited
<1>15. PhaseOK(f)
  BY <1>6, <1>12 DEF PhaseOK, ChunkFits, LengthFits, Bare
<1>16. client' \in Clients
  <2>1. f \in Parsers
    BY <1>11, <1>14, <1>15 DEF Parsers
  <2> QED BY <1>13, <2>1, ParserKeeps
<1>17. Arrived' = Arrived
  BY <1>5 DEF Arrived, Stream, Sent
<1>18. Clients' = Clients
  BY DEF Clients, ClientRec, Consistent, Limited, PhaseOK, ChunkFits, LengthFits, Bare
<1>19. received' \in Nat /\ received' <= Arrived'
  BY <1>3, <1>7, <1>17
<1> HIDE DEF Clients
<1> QED BY <1>1, <1>5, <1>16, <1>19 DEF ParserInv

\* An answer carries the body, and the client begins anew.
LEMMA RespondKeeps == ParserInv /\ Respond => ParserInv'
<1> SUFFICES ASSUME ParserInv, Respond PROVE ParserInv'
  OBVIOUS
<1> DEFINE Answers == [status: Parsed, body: Seq(Units)]
           a == [status |-> client.state,
                 body |-> IF client.state = "PARSE_OK" THEN client.body ELSE <<>>]
<1>1. /\ conversation \in Conversations /\ pipelined \in Pipelining
      /\ received \in Nat /\ received <= Arrived /\ disk \in {"ok", "full"}
      /\ answers \in Seq(Answers) /\ client \in Clients
  BY DEF ParserInv
<1>2. /\ client.state \in Parsed /\ answers' = Append(answers, a)
      /\ client' = IF ShouldClose(client) THEN [NewClient EXCEPT !.state = "closed"]
                   ELSE ResetClientState(client)
      /\ UNCHANGED <<peer, received, disk>>
  BY DEF Respond
<1>3. /\ conversation' = conversation /\ pipelined' = pipelined
      /\ received' = received /\ disk' = disk /\ UNCHANGED peer
  BY <1>2 DEF peer
<1>4. client \in ClientRec
  BY <1>1 DEF Clients
<1>5. a \in Answers
  <2>1. client.body \in Seq(Units) /\ <<>> \in Seq(Units)
    BY <1>4, ParserFields, EmptySeq
  <2> QED BY <1>2, <2>1
<1>6. client' \in Clients
  BY <1>2, <1>4, FreshClient
<1> HIDE DEF a
<1>7. answers' \in Seq(Answers) /\ Len(answers') = Len(answers) + 1
  <2> HIDE DEF Answers
  <2> QED BY <1>1, <1>2, <1>5, AppendProperties
<1>8. Arrived \in Nat /\ Arrived' \in Nat /\ Arrived <= Arrived'
  BY <1>1, <1>3, <1>7, ArrivedInStream, ArrivedGrows
<1>9. received' \in Nat /\ received' <= Arrived'
  BY <1>1, <1>3, <1>8
<1> QED BY <1>1, <1>3, <1>6, <1>7, <1>9 DEF ParserInv

LEMMA ParserStep == ParserInv /\ [Next]_vars => ParserInv'
<1> SUFFICES ASSUME ParserInv, [Next]_vars PROVE ParserInv'
  OBVIOUS
<1>1. CASE ProcessRead
  BY <1>1, ReadKeeps
<1>2. CASE Respond
  BY <1>2, RespondKeeps
<1>3. CASE DiskFills
  <2>1. /\ conversation' = conversation /\ pipelined' = pipelined
        /\ received' = received /\ client' = client /\ answers' = answers
        /\ disk' = "full"
    BY <1>3 DEF DiskFills, peer
  <2>2. Arrived' = Arrived
    BY <2>1 DEF Arrived, Stream, Sent
  <2> QED BY <2>1, <2>2 DEF ParserInv
<1>4. CASE UNCHANGED vars
  <2>1. /\ conversation' = conversation /\ pipelined' = pipelined
        /\ received' = received /\ client' = client /\ answers' = answers
        /\ disk' = disk
    BY <1>4 DEF vars
  <2>2. Arrived' = Arrived
    BY <2>1 DEF Arrived, Stream, Sent
  <2> QED BY <2>1, <2>2 DEF ParserInv
<1>5. CASE Quiet
  BY <1>4, <1>5 DEF Quiet
<1> QED BY <1>1, <1>2, <1>3, <1>4, <1>5 DEF Next

LEMMA AlwaysParserInv == Spec => []ParserInv
<1>1. Init => ParserInv
  BY ParserInit
<1>2. ParserInv /\ [Next]_vars => ParserInv'
  BY ParserStep
<1> QED BY <1>1, <1>2, PTL DEF Spec

LEMMA ParserInvTypes == ParserInv => TypeOK
<1> SUFFICES ASSUME ParserInv PROVE TypeOK
  OBVIOUS
<1>1. /\ conversation \in Conversations /\ pipelined \in Pipelining
      /\ received \in Nat /\ received <= Arrived /\ disk \in {"ok", "full"}
      /\ answers \in Seq([status: Parsed, body: Seq(Units)])
      /\ client \in Clients
  BY DEF ParserInv
<1>2. received \in 0..Arrived
  <2>1. Arrived \in Nat
    BY <1>1, ArrivedInStream
  <2> QED BY <1>1, <2>1
<1>3. /\ client \in ClientRec /\ Consistent(client)
      /\ client.phase # "FINISHED" /\ client.state # "READ_SUCCESS"
  BY <1>1 DEF Clients
<1> HIDE DEF Sendable
<1>6. client.buffer \in Seq(Units)
  BY <1>3, ParserFields
<1>4. client \in
       [state: {"RESET", "PARSE_INCOMPLETE", "closed"} \cup Parsed,
        phase: {"START", "HEADER", "BODY"}, buffer: Seq(Units),
        headers: SUBSET Units, chunk:
          [state: {"CHUNK_SIZE", "CHUNK_DATA", "CHUNK_CRLF", "CHUNK_DONE"},
           size: Nat, read: Nat],
        hasLength: BOOLEAN, length: Nat, bytesRead: Nat, discarding: BOOLEAN,
        toDiscard: Nat, body: Seq(Units), inDisk: BOOLEAN]
  BY <1>3, <1>6 DEF ClientRec, ChunkRec
<1>5. /\ client.bytesRead <= client.length
      /\ client.chunk.state = "CHUNK_DATA" => client.chunk.read < client.chunk.size
  BY <1>3 DEF Consistent
<1> QED BY <1>1, <1>2, <1>4, <1>5 DEF TypeOK

\* Every variable of RequestParser always has its type: parseRequestBuffer leaves
\* none of its phases half done between two reads, takes no more of a body than
\* its length or the size of its chunk, and read() no more than has arrived.
THEOREM ParserTypeCorrect == Spec => []TypeOK
BY AlwaysParserInv, ParserInvTypes, PTL

\* What is kept of a request's body never exceeds client_max_body_size: whatever
\* the sizes of the chunks appendBody is called with, or the Content-Length says,
\* however reads cut them, and after bodies that were discarded on the
\* connection.  Of peers that announce nothing that wraps the sum in CHUNK_SIZE:
\* of others it is false, which the run not_due shows.
THEOREM BodyAlwaysBounded == ASSUME NothingWraps PROVE Spec => []BodyIsBounded
<1>1. ParserInv => BodyIsBounded
  BY DEF ParserInv, Clients, Consistent, Limited, BodyIsBounded
<1> QED BY <1>1, AlwaysParserInv, PTL

-----------------------------------------------------------------------------
(* Where a piece of a sequence lies *)

\* From p to q in w, which is from k to l in the x that lies behind a.
PieceAt(x, w, a, p, q, k, l) ==
  /\ x \in Seq(Units) /\ w \in Seq(Units) /\ a \in Nat
  /\ Inside(x, w, a) /\ a + Len(x) <= Len(w)
  /\ p \in Nat /\ q \in Nat /\ k \in Nat /\ l \in Nat
  /\ k + a = p /\ l + a = q /\ k <= l /\ l <= Len(x)

LEMMA PieceOf ==
  \A x, w, a, p, q, k, l : PieceAt(x, w, a, p, q, k, l) => Stretch(w, p, q) = Stretch(x, k, l)
<1> SUFFICES ASSUME NEW x, NEW w, NEW a, NEW p, NEW q, NEW k, NEW l, PieceAt(x, w, a, p, q, k, l)
             PROVE  Stretch(w, p, q) = Stretch(x, k, l)
  OBVIOUS
<1>0. /\ x \in Seq(Units) /\ w \in Seq(Units) /\ a \in Nat
      /\ Inside(x, w, a) /\ a + Len(x) <= Len(w)
      /\ p \in Nat /\ q \in Nat /\ k \in Nat /\ l \in Nat
      /\ k + a = p /\ l + a = q /\ k <= l /\ l <= Len(x)
  BY DEF PieceAt
<1> DEFINE y == Stretch(w, p, q)
           z == Stretch(x, k, l)
           n == q - p
<1>1. /\ Len(x) \in Nat /\ Len(w) \in Nat /\ n \in Nat /\ q <= Len(w) /\ k <= l /\ l <= Len(x)
      /\ l - k = n /\ p <= q
  BY <1>0
<1>2. y \in Seq(Units) /\ Len(y) = n /\ \A j \in 1..n : y[j] = w[p + j]
  <2>1. IsStretch(y, w, p, q, Units)
    BY <1>0, <1>1, PartIs
  <2> QED BY <2>1 DEF IsStretch
<1>3. z \in Seq(Units) /\ Len(z) = n /\ \A j \in 1..n : z[j] = x[k + j]
  <2>1. IsStretch(z, x, k, l, Units)
    BY <1>0, <1>1, PartIs
  <2> QED BY <1>1, <2>1 DEF IsStretch
<1>4. ASSUME NEW j \in 1..n PROVE w[p + j] = x[k + j]
  <2>1. k + j \in 1..Len(x) /\ p + j = a + (k + j)
    BY <1>0, <1>1
  <2> QED BY <1>0, <2>1 DEF Inside
<1> HIDE DEF y, z, n
<1>5. y = z
  BY <1>2, <1>3, <1>4, SeqEqual
<1> QED BY <1>5 DEF y, z

-----------------------------------------------------------------------------
(* The buffer and what has been read *)

Cr == Unit("CR", 0)
Lf == Unit("LF", 0)

LEMMA LineEnds ==
  /\ Cr # Lf /\ Line # Cr /\ Line # Lf
  /\ \A n \in Nat : Unit("size", n) # Cr /\ Unit("size", n)[2] = n
  /\ CRLF[1] = Cr /\ CRLF[2] = Lf /\ ToSet(CRLF) = {Cr, Lf}
<1>1. \A k, l : \A m, n \in Nat : k # l => Unit(k, m) # Unit(l, n)
  BY DEF Unit
<1>2. /\ Cr # Lf /\ Line # Cr /\ Line # Lf
      /\ \A n \in Nat : Unit("size", n) # Cr /\ Unit("size", n)[2] = n
  <2>1. "CR" # "LF" /\ "request line" # "CR" /\ "request line" # "LF" /\ "size" # "CR"
    OBVIOUS
  <2>2. \A n \in Nat : Unit("size", n)[2] = n
    BY DEF Unit
  <2> QED BY <1>1, <2>1, <2>2 DEF Cr, Lf, Line
<1>3. CRLF[1] = Cr /\ CRLF[2] = Lf
  <2>1. CRLF = <<Cr, Lf>>
    BY DEF CRLF, Cr, Lf
  <2> QED BY <2>1
<1>4. ToSet(CRLF) = {Cr, Lf}
  <2>1. CRLF = <<Cr, Lf>>
    BY DEF CRLF, Cr, Lf
  <2> HIDE DEF Cr, Lf
  <2>2. DOMAIN <<Cr, Lf>> = {1, 2} /\ <<Cr, Lf>>[1] = Cr /\ <<Cr, Lf>>[2] = Lf
    OBVIOUS
  <2> QED BY <2>1, <2>2 DEF ToSet
<1> QED BY <1>2, <1>3, <1>4

\* The buffer b holds what was read of w and not taken: from p on, up to r.
Holds(b, w, p, r) ==
  /\ w \in Seq(Units) /\ p \in Nat /\ r \in Nat /\ p <= r /\ r <= Len(w)
  /\ b = Stretch(w, p, r)

LEMMA HoldsIs ==
  ASSUME NEW b, NEW w, NEW p, NEW r, Holds(b, w, p, r)
  PROVE  /\ b \in Seq(Units) /\ Len(b) = r - p
         /\ p \in Nat /\ r \in Nat /\ p <= r /\ r <= Len(w) /\ Len(w) \in Nat
         /\ \A i \in 1..(r - p) : b[i] = w[p + i]
<1>1. w \in Seq(Units) /\ p \in Nat /\ r \in Nat /\ p <= r /\ r <= Len(w)
  BY DEF Holds
<1>2. IsStretch(b, w, p, r, Units)
  BY <1>1, PartIs DEF Holds
<1>3. Len(w) \in Nat
  BY <1>1
<1> QED BY <1>1, <1>2, <1>3 DEF IsStretch

\* What is taken from the buffer and what is left.
LEMMA HoldsLess ==
  ASSUME NEW b, NEW w, NEW p, NEW r, Holds(b, w, p, r), NEW n \in Nat, n <= r - p
  PROVE  /\ Holds(Erase(b, n), w, p + n, r)
         /\ SubSeq(b, 1, n) = Stretch(w, p, p + n)
<1>1. /\ w \in Seq(Units) /\ p \in Nat /\ r \in Nat /\ p <= r /\ r <= Len(w)
      /\ b = Stretch(w, p, r)
  BY DEF Holds
<1>2. /\ r - p \in Nat /\ p + (r - p) = r /\ p + 0 = p /\ 0 \in Nat /\ 0 <= n
      /\ p + n \in Nat /\ p + n <= r /\ r - p <= r - p
  BY <1>1
<1>3. Len(b) = r - p
  BY HoldsIs
<1>4. Stretch(Stretch(w, p, r), n, r - p) = Stretch(w, p + n, p + (r - p))
  BY <1>1, <1>2, PartOfPart
<1>5. Stretch(Stretch(w, p, r), 0, n) = Stretch(w, p + 0, p + n)
  BY <1>1, <1>2, PartOfPart
<1>6. Erase(b, n) = Stretch(w, p + n, r)
  BY <1>1, <1>2, <1>3, <1>4 DEF Erase, Stretch
<1>7. SubSeq(b, 1, n) = Stretch(b, 0, n)
  BY DEF Stretch
<1>8. SubSeq(b, 1, n) = Stretch(w, p, p + n)
  BY <1>1, <1>2, <1>5, <1>7
<1> QED BY <1>1, <1>2, <1>6, <1>8 DEF Holds

\* A read() adds to it.
LEMMA HoldsMore ==
  ASSUME NEW b, NEW w, NEW p, NEW r, Holds(b, w, p, r), NEW n \in Nat, r + n <= Len(w)
  PROVE  Holds(b \o SubSeq(w, r + 1, r + n), w, p, r + n)
<1>1. /\ w \in Seq(Units) /\ p \in Nat /\ r \in Nat /\ p <= r /\ r <= Len(w)
      /\ b = Stretch(w, p, r)
  BY DEF Holds
<1>2. r + n \in Nat /\ r <= r + n /\ p <= r + n
  BY <1>1
<1>3. Stretch(w, p, r) \o Stretch(w, r, r + n) = Stretch(w, p, r + n)
  BY <1>1, <1>2, PartsMeet
<1>4. b \o SubSeq(w, r + 1, r + n) = Stretch(w, p, r + n)
  BY <1>1, <1>3 DEF Stretch
<1> QED BY <1>1, <1>2, <1>4 DEF Holds

\* Where x is found in b.
Begins(b, x, k) == \A i \in 1..Len(x) : b[(k - 1) + i] = x[i]

LEMMA FindFirst ==
  ASSUME NEW b \in Seq(Units), NEW x \in Seq(Units), NEW k \in Nat,
         k >= 1, Len(x) >= 1,
         \A j \in 1..(k - 1) : j + Len(x) <= Len(b) + 1 => ~Begins(b, x, j),
         k + Len(x) <= Len(b) + 1 => Begins(b, x, k)
  PROVE  Find(b, x) = IF k + Len(x) <= Len(b) + 1 THEN k ELSE 0
<1> DEFINE at == {j \in 1..(Len(b) - Len(x) + 1) : SubSeq(b, j, j + Len(x) - 1) = x}
           l == Len(b)
           m == Len(x)
<1>1. l \in Nat /\ m \in Nat
  OBVIOUS
<1>2. ASSUME NEW j \in 1..(l - m + 1)
      PROVE  j \in at <=> Begins(b, x, j)
  <2> DEFINE s == SubSeq(b, j, j + Len(x) - 1)
  <2>1. s = Stretch(b, j - 1, (j - 1) + m)
    <3>1. (j - 1) + 1 = j /\ j + m - 1 = (j - 1) + m
      BY <1>1
    <3> QED BY <3>1 DEF Stretch
  <2>2. j - 1 \in Nat /\ (j - 1) + m \in Nat /\ j - 1 <= (j - 1) + m /\ (j - 1) + m <= l
        /\ ((j - 1) + m) - (j - 1) = m
    BY <1>1
  <2>3. IsStretch(s, b, j - 1, (j - 1) + m, Units)
    <3> HIDE DEF s
    <3> QED BY <2>1, <2>2, PartIs
  <2> HIDE DEF s
  <2>4. s \in Seq(Units) /\ Len(s) = m /\ \A i \in 1..m : s[i] = b[(j - 1) + i]
    BY <2>2, <2>3 DEF IsStretch
  <2>5. s = x <=> \A i \in 1..m : s[i] = x[i]
    BY <2>4, SeqEqual
  <2>6. s = x <=> Begins(b, x, j)
    BY <2>4, <2>5 DEF Begins
  <2> QED BY <2>6 DEF s
<1>3. Find(b, x) = IF m > l \/ at = {} THEN 0 ELSE Min(at)
  BY DEF Find
<1>4. at \in SUBSET Nat /\ at \subseteq 1..(l - m + 1)
  <2>1. \A j \in 1..(l - m + 1) : j \in Nat
    BY <1>1
  <2> QED BY <2>1
<1> HIDE DEF at, l, m
<1>5. \A j \in at : j >= k
  <2> SUFFICES ASSUME NEW j \in at, ~(j >= k) PROVE FALSE
    OBVIOUS
  <2>1. j \in 1..(l - m + 1) /\ j \in 1..(k - 1) /\ j + m <= l + 1
    BY <1>1, <1>4
  <2> QED BY <1>2, <2>1 DEF l, m
<1>6. CASE k + m <= l + 1
  <2>1. k \in 1..(l - m + 1)
    BY <1>1, <1>6
  <2>2. k \in at
    BY <1>2, <1>6, <2>1 DEF l, m
  <2>3. Min(at) \in at /\ Min(at) <= k /\ Min(at) >= k
    BY <1>4, <1>5, <2>2, LeastExists
  <2>4. Min(at) = k
    <3> DEFINE v == Min(at)
    <3>1. v \in Nat /\ v <= k /\ v >= k
      BY <1>4, <2>3
    <3> HIDE DEF v
    <3>2. v = k
      BY <3>1
    <3> QED BY <3>2 DEF v
  <2>5. ~(m > l)
    BY <1>1, <1>6
  <2> QED BY <1>3, <1>6, <2>2, <2>4, <2>5 DEF l, m
<1>7. CASE ~(k + m <= l + 1)
  <2>1. at = {} \/ m > l
    <3> SUFFICES ASSUME NEW j \in at PROVE FALSE
      OBVIOUS
    <3>1. j \in 1..(l - m + 1) /\ j >= k
      BY <1>4, <1>5
    <3> QED BY <1>1, <1>7, <3>1
  <2> QED BY <1>3, <1>7, <2>1 DEF l, m
<1> QED BY <1>6, <1>7 DEF l, m

-----------------------------------------------------------------------------
(* A request as it is sent *)

HeadsOf(req) == [k \in 1..Len(req.headers) |-> <<req.headers[k]>> \o CRLF]

ChunkSent(chunk) == Size(chunk) \o CRLF \o chunk \o CRLF
ChunksOf(req) == [k \in 1..Len(req.chunks) |-> ChunkSent(req.chunks[k])]

BodySent(req) ==
  IF Contains(req.headers, Chunked)
  THEN FlattenSeq(ChunksOf(req)) \o Size(<<>>) \o CRLF \o CRLF
  ELSE Body(req)

\* How long its lines are, up to the body.
HeadLong(req) == 5 + 3 * Len(req.headers)

LEMMA LensJoined ==
  \A S : \A x, y \in Seq(S) :
    /\ x \o y \in Seq(S) /\ Len(x \o y) = Len(x) + Len(y)
    /\ Len(x) \in Nat /\ Len(y) \in Nat
BY Joined

\* The types of its parts.
LEMMA PartsTyped ==
  ASSUME NEW req \in Request
  PROVE  /\ req.headers \in Seq(Units) /\ Len(req.headers) \in Nat
         /\ req.chunks \in Seq(Seq(Units)) /\ Len(req.chunks) \in Nat
         /\ HeadsOf(req) \in Seq(Seq(Units)) /\ Len(HeadsOf(req)) = Len(req.headers)
         /\ ChunksOf(req) \in Seq(Seq(Units)) /\ Len(ChunksOf(req)) = Len(req.chunks)
         /\ Body(req) \in Seq(Units) /\ Len(Body(req)) \in Nat
         /\ BodySent(req) \in Seq(Units) /\ Len(BodySent(req)) \in Nat
<1>1. req.headers \in Seq(Units) /\ req.chunks \in Seq(Seq(Units))
  BY DEF Request, Units
<1>2. Len(req.headers) \in Nat /\ Len(req.chunks) \in Nat
  BY <1>1
<1>3. HeadsOf(req) \in Seq(Seq(Units)) /\ Len(HeadsOf(req)) = Len(req.headers)
  <2>1. ASSUME NEW k \in 1..Len(req.headers)
        PROVE  <<req.headers[k]>> \o CRLF \in Seq(Units)
    <3>1. req.headers[k] \in Units
      BY <1>1, ElementOfSeq
    <3>2. <<req.headers[k]>> \in Seq(Units)
      BY <3>1
    <3> QED BY <3>2, PiecesOfRequests, ThreeJoined
  <2> QED BY <1>2, <2>1 DEF HeadsOf
<1>4. \A s \in Seq(Units) : Size(s) \in Seq(Units) /\ ChunkSent(s) \in Seq(Units)
  <2> SUFFICES ASSUME NEW s \in Seq(Units)
               PROVE  Size(s) \in Seq(Units) /\ ChunkSent(s) \in Seq(Units)
    OBVIOUS
  <2>1. Unit("size", Len(s)) \in Units
    BY PiecesOfRequests
  <2>2. Size(s) \in Seq(Units)
    BY <2>1 DEF Size
  <2> QED BY <2>2, PiecesOfRequests, ThreeJoined DEF ChunkSent
<1>5. ChunksOf(req) \in Seq(Seq(Units)) /\ Len(ChunksOf(req)) = Len(req.chunks)
  <2>1. ASSUME NEW k \in 1..Len(req.chunks)
        PROVE  ChunkSent(req.chunks[k]) \in Seq(Units)
    <3>1. req.chunks[k] \in Seq(Units)
      BY <1>1, ElementOfSeq
    <3> QED BY <1>4, <3>1
  <2> QED BY <1>2, <2>1 DEF ChunksOf
<1>6. Body(req) \in Seq(Units) /\ FlattenSeq(ChunksOf(req)) \in Seq(Units)
  BY <1>1, <1>5, FlattenTyped DEF Body
<1>7. BodySent(req) \in Seq(Units)
  <2>1. Size(<<>>) \in Seq(Units)
    BY <1>4, EmptySeq
  <2>2. FlattenSeq(ChunksOf(req)) \o Size(<<>>) \o CRLF \o CRLF \in Seq(Units)
    BY <1>6, <2>1, PiecesOfRequests, ThreeJoined
  <2> QED BY <1>6, <2>2 DEF BodySent
<1> QED BY <1>1, <1>2, <1>3, <1>5, <1>6, <1>7

LEMMA BytesAre ==
  \A req : Bytes(req) = <<Line>> \o CRLF \o FlattenSeq(HeadsOf(req)) \o CRLF \o BodySent(req)
BY DEF Bytes, HeadsOf, BodySent, ChunksOf, ChunkSent

\* The request lies in what was sent, behind the first o units.
Placed(req, w, o) ==
  /\ req \in Request /\ w \in Seq(Units) /\ o \in Nat
  /\ Len(Bytes(req)) \in Nat /\ o + Len(Bytes(req)) <= Len(w)
  /\ Inside(Bytes(req), w, o)

LineEnd(w, p) == w[p + 1] = Cr /\ w[p + 2] = Lf

LEMMA LineEndIs == \A w, p : Inside(CRLF, w, p) => LineEnd(w, p)
<1>1. 1 \in 1..Len(CRLF) /\ 2 \in 1..Len(CRLF)
  BY PiecesOfRequests
<1> QED BY <1>1, LineEnds DEF Inside, LineEnd

LEMMA OneIs == \A w, x, p : Inside(<<x>>, w, p) => w[p + 1] = x
<1> SUFFICES ASSUME NEW w, NEW x, NEW p, Inside(<<x>>, w, p) PROVE w[p + 1] = x
  OBVIOUS
<1>1. 1 \in 1..Len(<<x>>) /\ <<x>>[1] = x
  OBVIOUS
<1> QED BY <1>1 DEF Inside

\* All header lines are as long as each other.
LEMMA HeadsLong ==
  ASSUME NEW req \in Request, NEW n \in Nat, n <= Len(req.headers)
  PROVE  Long(HeadsOf(req), n) = 3 * n
<1> DEFINE h == HeadsOf(req)
           T == {k \in Nat : k <= Len(h) => Long(h, k) = 3 * k}
<1>1. h \in Seq(Seq(Units)) /\ Len(h) = Len(req.headers) /\ Len(h) \in Nat
      /\ req.headers \in Seq(Units)
  BY PartsTyped
<1>2. \A k \in 1..Len(h) : Len(h[k]) = 3
  <2> SUFFICES ASSUME NEW k \in 1..Len(h) PROVE Len(h[k]) = 3
    OBVIOUS
  <2>1. h[k] = <<req.headers[k]>> \o CRLF
    BY <1>1 DEF HeadsOf
  <2>2. req.headers[k] \in Units
    BY <1>1, ElementOfSeq
  <2>3. <<req.headers[k]>> \in Seq(Units) /\ Len(<<req.headers[k]>>) = 1
    BY <2>2
  <2>4. Len(<<req.headers[k]>> \o CRLF) = Len(<<req.headers[k]>>) + Len(CRLF)
    BY <2>3, PiecesOfRequests, LensJoined
  <2>5. 1 + 2 = 3
    OBVIOUS
  <2> QED BY <2>1, <2>3, <2>4, <2>5, PiecesOfRequests
<1> HIDE DEF h
<1>3. 0 \in T
  <2>1. 0 \in 0..Len(h)
    BY <1>1
  <2>2. Long(h, 0) = 0
    BY <1>1, <2>1, LongFirsts
  <2> QED BY <2>2
<1>4. ASSUME NEW k \in Nat, k \in T PROVE k + 1 \in T
  <2> SUFFICES ASSUME k + 1 <= Len(h) PROVE Long(h, k + 1) = 3 * (k + 1)
    OBVIOUS
  <2>1. k < Len(h) /\ k <= Len(h) /\ k + 1 \in 1..Len(h)
    BY <1>1
  <2>2. Longs(h, k)
    BY <1>1, <2>1, InsideFlatten
  <2>3. Long(h, k + 1) = Long(h, k) + 3 /\ Long(h, k) = 3 * k
    BY <1>2, <1>4, <2>1, <2>2 DEF Longs
  <2> QED BY <2>3
<1> HIDE DEF T
<1>5. n \in T
  BY <1>3, <1>4, SetInduction
<1> QED BY <1>1, <1>5 DEF T, h

\* Where the lines of a request are.
HeadLaid(req, w, o) ==
  LET n == Len(req.headers) IN
  /\ w[o + 1] = Line /\ LineEnd(w, o + 1)
  /\ \A k \in 1..n : w[o + 3 * k + 1] = req.headers[k] /\ LineEnd(w, o + 3 * k + 1)
  /\ LineEnd(w, o + 3 * n + 3)

LEMMA RequestLaid ==
  ASSUME NEW req, NEW w, NEW o, Placed(req, w, o)
  PROVE  /\ Len(Bytes(req)) = HeadLong(req) + Len(BodySent(req))
         /\ HeadLaid(req, w, o)
         /\ Inside(BodySent(req), w, o + HeadLong(req))
<1> DEFINE n == Len(req.headers)
           h == HeadsOf(req)
           f == FlattenSeq(h)
           d == BodySent(req)
           l == <<Line>>
<1>1. req \in Request /\ w \in Seq(Units) /\ o \in Nat /\ Inside(Bytes(req), w, o)
  BY DEF Placed
<1>2. /\ h \in Seq(Seq(Units)) /\ Len(h) = n /\ n \in Nat /\ d \in Seq(Units)
      /\ req.headers \in Seq(Units)
  BY <1>1, PartsTyped
<1>3. f \in Seq(Units) /\ Len(f) = 3 * n
  <2>1. f \in Seq(Units)
    BY <1>2, FlattenTyped
  <2>2. Long(h, n) = Len(f)
    <3>1. n \in 0..Len(h)
      BY <1>2
    <3> QED BY <1>2, <3>1, LongFirsts
  <2>3. n <= Len(req.headers)
    BY <1>2
  <2>4. Long(h, n) = 3 * n
    BY <1>1, <1>2, <2>3, HeadsLong
  <2> QED BY <2>1, <2>2, <2>4
<1>4. l \in Seq(Units) /\ Len(l) = 1 /\ CRLF \in Seq(Units) /\ Len(CRLF) = 2
  BY PiecesOfRequests
<1>5. Bytes(req) = l \o CRLF \o f \o CRLF \o d
  BY BytesAre
<1> HIDE DEF n, f, d, l
<1>6. l \o CRLF \in Seq(Units) /\ Len(l \o CRLF) = 3
  <2>1. l \o CRLF \in Seq(Units) /\ Len(l \o CRLF) = Len(l) + Len(CRLF)
    BY <1>4, LensJoined
  <2>2. 1 + 2 = 3
    OBVIOUS
  <2> QED BY <1>4, <2>1, <2>2
<1>7. l \o CRLF \o f \in Seq(Units) /\ Len(l \o CRLF \o f) = 3 + 3 * n
  <2>1. l \o CRLF \o f \in Seq(Units) /\ Len(l \o CRLF \o f) = Len(l \o CRLF) + Len(f)
    BY <1>3, <1>6, LensJoined
  <2> QED BY <1>3, <1>6, <2>1
<1>8. l \o CRLF \o f \o CRLF \in Seq(Units) /\ Len(l \o CRLF \o f \o CRLF) = 5 + 3 * n
  <2>1. l \o CRLF \o f \o CRLF \in Seq(Units)
        /\ Len(l \o CRLF \o f \o CRLF) = Len(l \o CRLF \o f) + Len(CRLF)
    BY <1>4, <1>7, LensJoined
  <2>2. (3 + 3 * n) + 2 = 5 + 3 * n
    BY <1>2
  <2> QED BY <1>4, <1>7, <2>1, <2>2
<1>9. Len(Bytes(req)) = (5 + 3 * n) + Len(d)
  BY <1>2, <1>5, <1>8, LensJoined
<1>10. Inside(l \o CRLF \o f \o CRLF, w, o) /\ Inside(d, w, o + (5 + 3 * n))
  BY <1>1, <1>2, <1>5, <1>8, InsideJoined
<1>11. Inside(l \o CRLF \o f, w, o) /\ Inside(CRLF, w, o + (3 + 3 * n))
  BY <1>1, <1>4, <1>7, <1>10, InsideJoined
<1>12. Inside(l \o CRLF, w, o) /\ Inside(f, w, o + 3)
  BY <1>1, <1>3, <1>6, <1>11, InsideJoined
<1>13. Inside(l, w, o) /\ Inside(CRLF, w, o + 1)
  BY <1>1, <1>4, <1>12, InsideJoined
<1>14. w[o + 1] = Line /\ LineEnd(w, o + 1)
  BY <1>13, OneIs, LineEndIs DEF l
<1>15. LineEnd(w, o + 3 * n + 3)
  <2>1. o + (3 + 3 * n) = o + 3 * n + 3
    BY <1>1, <1>2
  <2> QED BY <1>11, <2>1, LineEndIs
<1>16. ASSUME NEW k \in 1..n
       PROVE  w[o + 3 * k + 1] = req.headers[k] /\ LineEnd(w, o + 3 * k + 1)
  <2>1. k - 1 \in Nat /\ k - 1 < Len(h) /\ (k - 1) + 1 = k /\ k - 1 <= n
        /\ k - 1 + 1 = k
    BY <1>2
  <2>2. Inside(h[(k - 1) + 1], f, Long(h, k - 1)) /\ Longs(h, k - 1)
    BY <1>2, <2>1, InsideFlatten DEF f
  <2>3. Long(h, k - 1) = 3 * (k - 1)
    BY <1>1, <2>1, HeadsLong DEF n
  <2>4. req.headers[k] \in Units /\ h[k] = <<req.headers[k]>> \o CRLF
    <3>1. k \in 1..Len(req.headers)
      BY DEF n
    <3> QED BY <1>2, <3>1, ElementOfSeq DEF HeadsOf
  <2>5. <<req.headers[k]>> \in Seq(Units) /\ Len(<<req.headers[k]>>) = 1
    BY <2>4
  <2> DEFINE x == <<req.headers[k]>>
  <2>6. x \in Seq(Units) /\ Len(x) = 1
    BY <2>5
  <2>7. Inside(x \o CRLF, f, 3 * (k - 1))
    BY <2>1, <2>2, <2>3, <2>4
  <2> HIDE DEF x, h
  <2>8. Len(x \o CRLF) = 3
    <3>1. Len(x \o CRLF) = Len(x) + Len(CRLF)
      BY <1>4, <2>6, LensJoined
    <3>2. 1 + 2 = 3
      OBVIOUS
    <3> QED BY <1>4, <2>6, <3>1, <3>2
  <2>9. Inside(x \o CRLF, w, (o + 3) + 3 * (k - 1))
    <3>1. 3 * (k - 1) \in Nat /\ o + 3 \in Nat /\ 3 \in Nat /\ 3 * (k - 1) + 3 <= 3 * n
          /\ 3 * n \in Nat
      BY <1>1, <1>2
    <3> QED BY <1>3, <1>12, <2>7, <2>8, <3>1, InsideTrans
  <2>10. (o + 3) + 3 * (k - 1) = o + 3 * k /\ o + 3 * k \in Nat
    BY <1>1, <1>2
  <2>11. Inside(x, w, o + 3 * k) /\ Inside(CRLF, w, (o + 3 * k) + 1)
    BY <1>4, <2>6, <2>9, <2>10, InsideJoined
  <2> QED BY <2>11, OneIs, LineEndIs DEF x
<1>17. HeadLaid(req, w, o)
  BY <1>14, <1>15, <1>16 DEF HeadLaid, n
<1>18. o + (5 + 3 * n) = o + HeadLong(req) /\ 5 + 3 * n = HeadLong(req)
  BY DEF HeadLong, n
<1> QED BY <1>9, <1>10, <1>17, <1>18 DEF d

-----------------------------------------------------------------------------
(* A body in chunks as it is sent *)

\* A chunk behind the first b units, with j of them before it.
ChunkLaid(req, w, b, j) ==
  LET n == Len(req.chunks[j + 1]) IN
  /\ w[b + 1] = Unit("size", n) /\ LineEnd(w, b + 1)
  /\ Inside(req.chunks[j + 1], w, b + 3)
  /\ LineEnd(w, b + 3 + n)

\* What follows the last one.
EndLaid(w, b) == w[b + 1] = Unit("size", 0) /\ LineEnd(w, b + 1) /\ LineEnd(w, b + 3)

\* Where the chunk with j before it begins, when the request begins behind o, and
\* how much of the body is before it.
Start(req, o, j) == o + HeadLong(req) + Long(ChunksOf(req), j)
Before(req, j) == Long(req.chunks, j)

LEMMA ChunkSentIs ==
  ASSUME NEW s \in Seq(Units)
  PROVE  /\ Size(s) \in Seq(Units) /\ Len(Size(s)) = 1
         /\ ChunkSent(s) \in Seq(Units) /\ Len(ChunkSent(s)) = Len(s) + 5
         /\ \A w : \A b \in Nat : Inside(ChunkSent(s), w, b) =>
              /\ w[b + 1] = Unit("size", Len(s)) /\ LineEnd(w, b + 1)
              /\ Inside(s, w, b + 3) /\ LineEnd(w, b + 3 + Len(s))
<1> DEFINE u == Unit("size", Len(s))
           x == <<u>>
<1>1. u \in Units /\ CRLF \in Seq(Units) /\ Len(CRLF) = 2 /\ Len(s) \in Nat
  BY PiecesOfRequests
<1>2. Size(s) = x
  BY DEF Size
<1>3. x \in Seq(Units) /\ Len(x) = 1
  BY <1>1
<1>4. ChunkSent(s) = x \o CRLF \o s \o CRLF
  BY <1>2 DEF ChunkSent
<1> HIDE DEF x
<1>5. x \o CRLF \in Seq(Units) /\ Len(x \o CRLF) = 3
  <2>1. x \o CRLF \in Seq(Units) /\ Len(x \o CRLF) = Len(x) + Len(CRLF)
    BY <1>1, <1>3, LensJoined
  <2>2. 1 + 2 = 3
    OBVIOUS
  <2> QED BY <1>1, <1>3, <2>1, <2>2
<1>6. x \o CRLF \o s \in Seq(Units) /\ Len(x \o CRLF \o s) = 3 + Len(s)
  <2>1. x \o CRLF \o s \in Seq(Units) /\ Len(x \o CRLF \o s) = Len(x \o CRLF) + Len(s)
    BY <1>5, LensJoined
  <2> QED BY <1>5, <2>1
<1>7. ChunkSent(s) \in Seq(Units) /\ Len(ChunkSent(s)) = Len(s) + 5
  <2>1. x \o CRLF \o s \o CRLF \in Seq(Units)
        /\ Len(x \o CRLF \o s \o CRLF) = Len(x \o CRLF \o s) + Len(CRLF)
    BY <1>1, <1>6, LensJoined
  <2>2. (3 + Len(s)) + 2 = Len(s) + 5
    BY <1>1
  <2> QED BY <1>1, <1>4, <1>6, <2>1, <2>2
<1>8. ASSUME NEW w, NEW b \in Nat, Inside(ChunkSent(s), w, b)
      PROVE  /\ w[b + 1] = u /\ LineEnd(w, b + 1)
             /\ Inside(s, w, b + 3) /\ LineEnd(w, b + 3 + Len(s))
  <2>1. Inside(x \o CRLF \o s, w, b) /\ Inside(CRLF, w, b + (3 + Len(s)))
    BY <1>1, <1>4, <1>6, <1>8, InsideJoined
  <2>2. Inside(x \o CRLF, w, b) /\ Inside(s, w, b + 3)
    BY <1>5, <2>1, InsideJoined
  <2>3. Inside(x, w, b) /\ Inside(CRLF, w, b + 1)
    BY <1>1, <1>3, <2>2, InsideJoined
  <2>4. b + (3 + Len(s)) = b + 3 + Len(s)
    BY <1>1
  <2> QED BY <2>1, <2>2, <2>3, <2>4, OneIs, LineEndIs DEF x
<1> QED BY <1>2, <1>3, <1>7, <1>8

LEMMA ChunksLaid ==
  ASSUME NEW req, NEW w, NEW o, Placed(req, w, o), Contains(req.headers, Chunked)
  PROVE  /\ EndLaid(w, Start(req, o, Len(req.chunks)))
         /\ o + Len(Bytes(req)) = Start(req, o, Len(req.chunks)) + 5
         /\ Start(req, o, 0) = o + HeadLong(req)
         /\ \A j \in 0..Len(req.chunks) :
              Start(req, o, j) \in Nat /\ Start(req, o, j) + 5 <= o + Len(Bytes(req))
         /\ \A j \in Nat : j < Len(req.chunks) =>
              /\ ChunkLaid(req, w, Start(req, o, j), j)
              /\ Start(req, o, j + 1) = Start(req, o, j) + 5 + Len(req.chunks[j + 1])
<1> DEFINE n == Len(req.chunks)
           c == ChunksOf(req)
           f == FlattenSeq(c)
           h == o + HeadLong(req)
           z == Size(<<>>)
<1>1. req \in Request /\ w \in Seq(Units) /\ o \in Nat
  BY DEF Placed
<1>2. /\ c \in Seq(Seq(Units)) /\ Len(c) = n /\ n \in Nat
      /\ req.chunks \in Seq(Seq(Units)) /\ Len(req.headers) \in Nat
  BY <1>1, PartsTyped
<1>3. h \in Nat
  BY <1>1, <1>2 DEF HeadLong
<1>4. f \in Seq(Units)
  BY <1>2, FlattenTyped
<1>5. z \in Seq(Units) /\ Len(z) = 1 /\ CRLF \in Seq(Units) /\ Len(CRLF) = 2 /\ Len(f) \in Nat
  <2>1. <<>> \in Seq(Units)
    BY EmptySeq
  <2>2. z \in Seq(Units) /\ Len(z) = 1
    BY <2>1, ChunkSentIs
  <2> HIDE DEF z, f
  <2>3. Len(f) \in Nat
    BY <1>4
  <2> QED BY <2>2, <2>3, PiecesOfRequests
<1>6. BodySent(req) = f \o z \o CRLF \o CRLF
  BY DEF BodySent
<1>7. Inside(BodySent(req), w, h) /\ Len(Bytes(req)) = HeadLong(req) + Len(BodySent(req))
  BY RequestLaid
<1>8. z = <<Unit("size", 0)>>
  BY EmptySeq DEF Size
<1> HIDE DEF f, z, n, h, c
<1>9. f \o z \in Seq(Units) /\ Len(f \o z) = Len(f) + 1
  BY <1>4, <1>5, LensJoined
<1>10. f \o z \o CRLF \in Seq(Units) /\ Len(f \o z \o CRLF) = Len(f) + 3
  <2>1. f \o z \o CRLF \in Seq(Units) /\ Len(f \o z \o CRLF) = Len(f \o z) + Len(CRLF)
    BY <1>5, <1>9, LensJoined
  <2>2. (Len(f) + 1) + 2 = Len(f) + 3
    BY <1>5
  <2> QED BY <1>5, <1>9, <2>1, <2>2
<1>11. Len(BodySent(req)) = Len(f) + 5
  <2>1. Len(f \o z \o CRLF \o CRLF) = Len(f \o z \o CRLF) + Len(CRLF)
    BY <1>5, <1>10, LensJoined
  <2>2. (Len(f) + 3) + 2 = Len(f) + 5
    BY <1>5
  <2> QED BY <1>5, <1>6, <1>10, <2>1, <2>2
<1>12. Inside(f \o z \o CRLF, w, h) /\ Inside(CRLF, w, h + (Len(f) + 3))
  BY <1>3, <1>5, <1>6, <1>7, <1>10, InsideJoined
<1>13. Inside(f \o z, w, h) /\ Inside(CRLF, w, h + (Len(f) + 1))
  BY <1>3, <1>5, <1>9, <1>12, InsideJoined
<1>14. Inside(f, w, h) /\ Inside(z, w, h + Len(f))
  BY <1>3, <1>4, <1>5, <1>13, InsideJoined
<1>15. \A j \in 0..n : Long(c, j) \in Nat /\ Long(c, j) <= Len(f)
  BY <1>2, LongFirsts DEF f
<1>16. Long(c, n) = Len(f) /\ Long(c, 0) = 0
  <2>1. n \in 0..Len(c)
    BY <1>2
  <2> QED BY <1>2, <2>1, LongFirsts DEF f
<1>17. \A j : Start(req, o, j) = h + Long(c, j)
  BY DEF Start, h, c
<1>18. EndLaid(w, Start(req, o, n))
  <2>1. h + (Len(f) + 3) = (h + Len(f)) + 3 /\ h + (Len(f) + 1) = (h + Len(f)) + 1
    BY <1>3, <1>5
  <2>2. LineEnd(w, (h + Len(f)) + 3) /\ LineEnd(w, (h + Len(f)) + 1)
    BY <1>12, <1>13, <2>1, LineEndIs
  <2>3. w[(h + Len(f)) + 1] = Unit("size", 0)
    BY <1>8, <1>14, OneIs
  <2> QED BY <1>16, <1>17, <2>2, <2>3 DEF EndLaid
<1>19. o + Len(Bytes(req)) = h + Len(f) + 5 /\ Start(req, o, n) = h + Len(f)
  <2>1. HeadLong(req) \in Nat
    BY <1>2 DEF HeadLong
  <2>2. o + Len(Bytes(req)) = h + Len(f) + 5
    BY <1>1, <1>5, <1>7, <1>11, <2>1 DEF h
  <2> QED BY <1>16, <1>17, <2>2
<1>20. Start(req, o, 0) = h
  BY <1>3, <1>16, <1>17
<1>21. ASSUME NEW j \in 0..n
       PROVE  Start(req, o, j) \in Nat /\ Start(req, o, j) + 5 <= o + Len(Bytes(req))
  BY <1>3, <1>5, <1>15, <1>17, <1>19
<1>22. ASSUME NEW j \in Nat, j < n
       PROVE  /\ ChunkLaid(req, w, Start(req, o, j), j)
              /\ Start(req, o, j + 1) = Start(req, o, j) + 5 + Len(req.chunks[j + 1])
  <2> DEFINE s == req.chunks[j + 1]
  <2>1. j + 1 \in 1..n /\ j \in 0..n /\ j < Len(c)
    BY <1>2, <1>22
  <2>2. s \in Seq(Units) /\ c[j + 1] = ChunkSent(s)
    BY <1>2, <2>1, ElementOfSeq DEF c, ChunksOf, n
  <2>3. Longs(c, j) /\ Inside(c[j + 1], f, Long(c, j))
    BY <1>2, <2>1, InsideFlatten DEF f
  <2> HIDE DEF s
  <2>4. Len(ChunkSent(s)) = Len(s) + 5 /\ Len(s) \in Nat
    <3>1. s \in Seq(Units)
      BY <2>2
    <3>2. Len(ChunkSent(s)) = Len(s) + 5
      BY <3>1, ChunkSentIs
    <3>3. Len(s) \in Nat
      BY <3>1
    <3> QED BY <3>2, <3>3
  <2>5. /\ Long(c, j) \in Nat /\ Long(c, j) + Len(ChunkSent(s)) <= Len(f)
        /\ Long(c, j + 1) = Long(c, j) + Len(ChunkSent(s)) /\ Len(ChunkSent(s)) \in Nat
    BY <2>2, <2>3 DEF Longs, f
  <2>6. Inside(ChunkSent(s), w, h + Long(c, j))
    BY <1>3, <1>5, <1>14, <2>2, <2>3, <2>5, InsideTrans
  <2>7. h + Long(c, j) \in Nat
    BY <1>3, <2>5
  <2> DEFINE b == h + Long(c, j)
  <2>8. /\ w[b + 1] = Unit("size", Len(s)) /\ LineEnd(w, b + 1)
        /\ Inside(s, w, b + 3) /\ LineEnd(w, b + 3 + Len(s))
    BY <2>2, <2>6, <2>7, ChunkSentIs
  <2>9. ChunkLaid(req, w, b, j)
    BY <2>8 DEF ChunkLaid, s
  <2>10. h + Long(c, j + 1) = (h + Long(c, j)) + 5 + Len(s)
    BY <1>3, <2>4, <2>5
  <2> QED BY <1>17, <2>9, <2>10 DEF s
<1> QED BY <1>18, <1>19, <1>20, <1>21, <1>22 DEF n, h

\* The same chunk in the body.
ChunkOfBody(req, j) ==
  /\ Before(req, j) \in Nat /\ Len(req.chunks[j + 1]) \in Nat
  /\ Before(req, j + 1) = Before(req, j) + Len(req.chunks[j + 1])
  /\ Before(req, j + 1) <= Len(Body(req))
  /\ Inside(req.chunks[j + 1], Body(req), Before(req, j))

LEMMA ChunksOfBody ==
  \A req \in Request :
    /\ Before(req, 0) = 0 /\ Before(req, Len(req.chunks)) = Len(Body(req))
    /\ \A j \in Nat : j < Len(req.chunks) => ChunkOfBody(req, j)
<1> SUFFICES ASSUME NEW req \in Request
             PROVE  /\ Before(req, 0) = 0 /\ Before(req, Len(req.chunks)) = Len(Body(req))
                    /\ \A j \in Nat : j < Len(req.chunks) => ChunkOfBody(req, j)
  OBVIOUS
<1>1. req.chunks \in Seq(Seq(Units)) /\ Len(req.chunks) \in Nat
  BY PartsTyped
<1>2. Before(req, 0) = 0 /\ Before(req, Len(req.chunks)) = Len(Body(req))
  <2>1. 0 \in 0..Len(req.chunks)
    BY <1>1
  <2> QED BY <1>1, <2>1, LongFirsts DEF Before, Body
<1>3. ASSUME NEW j \in Nat, j < Len(req.chunks) PROVE ChunkOfBody(req, j)
  <2>1. Longs(req.chunks, j)
        /\ Inside(req.chunks[j + 1], FlattenSeq(req.chunks), Long(req.chunks, j))
    BY <1>1, <1>3, InsideFlatten
  <2> QED BY <2>1 DEF ChunkOfBody, Longs, Before, Body
<1> QED BY <1>2, <1>3

-----------------------------------------------------------------------------
(* The lines of a request are parsed *)

\* A request the parser can make out: it has header lines, none of them is a line
\* end, no chunk but the last is empty or wraps the sum in CHUNK_SIZE, and a body in
\* one piece is as long as its Content-Length says, or empty when there is none.
WellFormed(req) ==
  /\ Len(req.headers) >= 1
  /\ \A k \in 1..Len(req.headers) : req.headers[k] # Cr /\ req.headers[k] # Lf
  /\ IF Contains(req.headers, Chunked)
     THEN \A k \in 1..Len(req.chunks) : /\ Len(req.chunks[k]) > 0
                                         /\ Len(req.chunks[k]) + MaxBody < WordSize
     ELSE /\ \A k \in 1..Len(req.headers) :
               req.headers[k][1] = "length" => req.headers[k][2] = Len(Body(req))
          /\ (\A k \in 1..Len(req.headers) : req.headers[k][1] # "length") => Body(req) = <<>>

\* Nothing of the body yet.
Fresh(c) == ~c.discarding /\ ~c.inDisk /\ c.body = <<>>

\* How far the request behind the first o units of w is parsed, of which r have been
\* read: not its first line; that line; all its lines.
LineLeft(c, w, o, r) == c.phase = "START" /\ Holds(c.buffer, w, o, r) /\ Fresh(c)
HeadLeft(c, w, o, r) == c.phase = "HEADER" /\ Holds(c.buffer, w, o + 3, r) /\ Fresh(c)
BodyLeft(c, req, w, o, r) ==
  /\ c.phase = "BODY" /\ c.headers = ToSet(req.headers) /\ Fresh(c)
  /\ Holds(c.buffer, w, o + HeadLong(req), r)
  /\ ~c.hasLength /\ c.bytesRead = 0 /\ c.chunk = NewChunk

LEMMA TwoEnds ==
  /\ CRLF \o CRLF \in Seq(Units) /\ Len(CRLF \o CRLF) = 4
  /\ (CRLF \o CRLF)[1] = Cr /\ (CRLF \o CRLF)[2] = Lf
  /\ (CRLF \o CRLF)[3] = Cr /\ (CRLF \o CRLF)[4] = Lf
<1>1. CRLF \in Seq(Units) /\ Len(CRLF) = 2 /\ CRLF[1] = Cr /\ CRLF[2] = Lf
  BY PiecesOfRequests, LineEnds
<1> DEFINE x == CRLF
           y == CRLF
<1>4. /\ x \in Seq(Units) /\ Len(x) = 2 /\ x[1] = Cr /\ x[2] = Lf
      /\ y \in Seq(Units) /\ Len(y) = 2 /\ y[1] = Cr /\ y[2] = Lf
  BY <1>1
<1> HIDE DEF x, y
<1>2. /\ x \o y \in Seq(Units) /\ Len(x \o y) = Len(x) + Len(y)
      /\ \A i \in 1..Len(x) : (x \o y)[i] = x[i]
      /\ \A j \in 1..Len(y) : (x \o y)[Len(x) + j] = y[j]
  <2>1. x \in Seq(Units) /\ y \in Seq(Units)
    BY <1>4
  <2> QED BY <2>1, Joined
<1>3. 1 \in 1..2 /\ 2 \in 1..2 /\ 2 + 1 = 3 /\ 2 + 2 = 4
  OBVIOUS
<1>5. /\ x \o y \in Seq(Units) /\ Len(x \o y) = 4
      /\ (x \o y)[1] = Cr /\ (x \o y)[2] = Lf
      /\ (x \o y)[3] = Cr /\ (x \o y)[4] = Lf
  BY <1>2, <1>3, <1>4
<1> QED BY <1>5 DEF x, y

\* A unit and a line end: where the first line end is found.
LEMMA FindLineEnd ==
  ASSUME NEW b, NEW w, NEW p, NEW r, Holds(b, w, p, r), w[p + 1] # Cr, LineEnd(w, p + 1)
  PROVE  Find(b, CRLF) = IF 3 <= r - p THEN 2 ELSE 0
<1>3. w[p + 1] # Cr /\ w[(p + 1) + 1] = Cr /\ w[(p + 1) + 2] = Lf
  BY DEF LineEnd
<1>4. /\ b \in Seq(Units) /\ Len(b) = r - p /\ p \in Nat /\ r \in Nat /\ p <= r
      /\ \A i \in 1..(r - p) : b[i] = w[p + i]
  BY HoldsIs
<1>5. CRLF \in Seq(Units) /\ Len(CRLF) = 2 /\ CRLF[1] = Cr /\ CRLF[2] = Lf
  BY PiecesOfRequests, LineEnds
<1>6. \A j \in 1..(2 - 1) : j + Len(CRLF) <= Len(b) + 1 => ~Begins(b, CRLF, j)
  <2> SUFFICES ASSUME 1 + 2 <= Len(b) + 1, Begins(b, CRLF, 1) PROVE FALSE
    BY <1>5
  <2>1. 1 \in 1..2 /\ (1 - 1) + 1 = 1 /\ 1 \in 1..(r - p)
    BY <1>4
  <2>2. b[1] = Cr
    BY <1>5, <2>1 DEF Begins
  <2> QED BY <1>3, <1>4, <2>1, <2>2
<1>7. 2 + Len(CRLF) <= Len(b) + 1 => Begins(b, CRLF, 2)
  <2> SUFFICES ASSUME 2 + 2 <= Len(b) + 1 PROVE Begins(b, CRLF, 2)
    BY <1>5
  <2>1. 2 \in 1..(r - p) /\ 3 \in 1..(r - p) /\ p + 2 = (p + 1) + 1 /\ p + 3 = (p + 1) + 2
    BY <1>4
  <2>2. b[2] = Cr /\ b[3] = Lf
    BY <1>3, <1>4, <2>1
  <2>3. \A i \in 1..2 : i = 1 \/ i = 2
    OBVIOUS
  <2>4. (2 - 1) + 1 = 2 /\ (2 - 1) + 2 = 3
    OBVIOUS
  <2> QED BY <1>5, <2>2, <2>3, <2>4 DEF Begins
<1>8. Find(b, CRLF) = IF 2 + Len(CRLF) <= Len(b) + 1 THEN 2 ELSE 0
  <2>1. 2 \in Nat /\ 2 >= 1 /\ Len(CRLF) >= 1
    BY <1>5
  <2> QED BY <1>4, <1>5, <1>6, <1>7, <2>1, FindFirst
<1>9. (2 + 2 <= Len(b) + 1) <=> (3 <= r - p)
  BY <1>4
<1> QED BY <1>5, <1>8, <1>9

LEMMA LineParsed ==
  ASSUME NEW c \in Parsers, NEW req, NEW w, NEW o, NEW r,
         Placed(req, w, o), LineLeft(c, w, o, r)
  PROVE  \/ ParseLine(c) = c /\ r < o + 3
         \/ HeadLeft(ParseLine(c), w, o, r) /\ ParseLine(c).state = c.state
<1> DEFINE b == c.buffer
           d == [c EXCEPT !.phase = "HEADER", !.buffer = Erase(b, 3)]
<1>1. /\ c \in ClientRec /\ c.phase = "START" /\ Holds(b, w, o, r) /\ Fresh(c)
  BY DEF Parsers, LineLeft
<1>2. HeadLaid(req, w, o)
  BY RequestLaid
<1>3. w[o + 1] = Line /\ w[(o + 1) + 1] = Cr /\ w[(o + 1) + 2] = Lf
  BY <1>2 DEF HeadLaid, LineEnd
<1>4. /\ b \in Seq(Units) /\ Len(b) = r - o /\ o \in Nat /\ r \in Nat /\ o <= r
      /\ \A i \in 1..(r - o) : b[i] = w[o + i]
  BY <1>1, HoldsIs
<1>9. Find(b, CRLF) = IF 3 <= r - o THEN 2 ELSE 0
  <2>1. w[o + 1] # Cr /\ LineEnd(w, o + 1)
    BY <1>3, LineEnds DEF LineEnd
  <2> QED BY <1>1, <2>1, FindLineEnd
<1> HIDE DEF b
<1>10. CASE ~(3 <= r - o)
  <2>1. ParseLine(c) = c
    BY <1>9, <1>10 DEF ParseLine, b
  <2> QED BY <1>4, <1>10, <2>1
<1>11. CASE 3 <= r - o
  <2>1. Contains(SubSeq(b, 1, 2 - 1), Line)
    <3>1. 1 <= Len(b) /\ 2 - 1 = 1 /\ 1 \in 1..(r - o) /\ 1 \in 1..1
      BY <1>4, <1>11
    <3>2. Len(SubSeq(b, 1, 1)) = 1 /\ SubSeq(b, 1, 1)[1] = b[1]
      BY <1>4, <3>1
    <3>3. b[1] = Line
      BY <1>3, <1>4, <3>1
    <3> DEFINE s == SubSeq(b, 1, 1)
    <3>4. Len(s) = 1 /\ s[1] = Line
      BY <3>2, <3>3
    <3> HIDE DEF s
    <3>5. Contains(s, Line)
      BY <3>1, <3>4 DEF Contains
    <3> QED BY <3>1, <3>5 DEF s
  <2>2. ParseLine(c) = [c EXCEPT !.phase = "HEADER", !.buffer = Erase(b, 2 + 1)]
    BY <1>1, <1>9, <1>11, <2>1 DEF ParseLine, b
  <2>3. ParseLine(c) = d
    BY <2>2
  <2>4. Holds(Erase(b, 3), w, o + 3, r)
    BY <1>1, <1>11, HoldsLess
  <2> DEFINE x == Erase(b, 3)
  <2>5. Holds(x, w, o + 3, r)
    BY <2>4
  <2> HIDE DEF x
  <2>6. /\ d.phase = "HEADER" /\ d.buffer = x /\ d.state = c.state
        /\ d.discarding = c.discarding /\ d.inDisk = c.inDisk /\ d.body = c.body
    BY <1>1 DEF ClientRec, x
  <2> HIDE DEF d
  <2>7. HeadLeft(d, w, o, r)
    BY <1>1, <2>5, <2>6 DEF HeadLeft, Fresh
  <2> QED BY <2>3, <2>6, <2>7
<1> QED BY <1>10, <1>11

\* What is there of the header lines, in threes, and of the empty line.
InThrees(req, b) ==
  LET n == Len(req.headers) IN
  /\ \A i \in Nat : i < n =>
       /\ 3 * i + 1 <= Len(b) => b[3 * i + 1] = req.headers[i + 1]
       /\ 3 * i + 2 <= Len(b) => b[3 * i + 2] = Cr
       /\ 3 * i + 3 <= Len(b) => b[3 * i + 3] = Lf
  /\ 3 * n + 1 <= Len(b) => b[3 * n + 1] = Cr
  /\ 3 * n + 2 <= Len(b) => b[3 * n + 2] = Lf

\* A buffer that holds what follows the request line holds the header lines so.
LEMMA HeadUnits ==
  ASSUME NEW req, NEW w, NEW o, Placed(req, w, o), NEW b, NEW r, Holds(b, w, o + 3, r)
  PROVE  InThrees(req, b)
<1> DEFINE n == Len(req.headers)
<1>1. HeadLaid(req, w, o) /\ req \in Request /\ o \in Nat
  BY RequestLaid DEF Placed
<1>2. n \in Nat
  BY <1>1, PartsTyped
<1>3. /\ Len(b) = r - (o + 3) /\ Len(b) \in Nat
      /\ \A i \in 1..Len(b) : b[i] = w[(o + 3) + i]
  <2>1. /\ Len(b) = r - (o + 3) /\ r \in Nat /\ o + 3 \in Nat /\ o + 3 <= r
        /\ \A i \in 1..(r - (o + 3)) : b[i] = w[(o + 3) + i]
    BY HoldsIs
  <2>2. r - (o + 3) \in Nat
    BY <2>1
  <2> QED BY <2>1, <2>2
<1>4. /\ \A k \in 1..n : w[o + 3 * k + 1] = req.headers[k] /\ LineEnd(w, o + 3 * k + 1)
      /\ LineEnd(w, o + 3 * n + 3)
  BY <1>1 DEF HeadLaid
<1> HIDE DEF n
<1>5. ASSUME NEW i \in Nat, i < n
      PROVE  /\ 3 * i + 1 <= Len(b) => b[3 * i + 1] = req.headers[i + 1]
             /\ 3 * i + 2 <= Len(b) => b[3 * i + 2] = Cr
             /\ 3 * i + 3 <= Len(b) => b[3 * i + 3] = Lf
  <2>1. i + 1 \in 1..n
    BY <1>2, <1>5
  <2>2. w[o + 3 * (i + 1) + 1] = req.headers[i + 1] /\ LineEnd(w, o + 3 * (i + 1) + 1)
    BY <1>4, <2>1
  <2>3. /\ o + 3 * (i + 1) + 1 = (o + 3) + (3 * i + 1)
        /\ (o + 3 * (i + 1) + 1) + 1 = (o + 3) + (3 * i + 2)
        /\ (o + 3 * (i + 1) + 1) + 2 = (o + 3) + (3 * i + 3)
    BY <1>1
  <2>4. /\ w[(o + 3) + (3 * i + 1)] = req.headers[i + 1]
        /\ w[(o + 3) + (3 * i + 2)] = Cr /\ w[(o + 3) + (3 * i + 3)] = Lf
    BY <2>2, <2>3 DEF LineEnd
  <2>5. /\ 3 * i + 1 <= Len(b) => 3 * i + 1 \in 1..Len(b)
        /\ 3 * i + 2 <= Len(b) => 3 * i + 2 \in 1..Len(b)
        /\ 3 * i + 3 <= Len(b) => 3 * i + 3 \in 1..Len(b)
    BY <1>3
  <2> QED BY <1>3, <2>4, <2>5
<1>6. /\ 3 * n + 1 <= Len(b) => b[3 * n + 1] = Cr
      /\ 3 * n + 2 <= Len(b) => b[3 * n + 2] = Lf
  <2>1. /\ (o + 3 * n + 3) + 1 = (o + 3) + (3 * n + 1)
        /\ (o + 3 * n + 3) + 2 = (o + 3) + (3 * n + 2)
    BY <1>1, <1>2
  <2>2. w[(o + 3) + (3 * n + 1)] = Cr /\ w[(o + 3) + (3 * n + 2)] = Lf
    BY <1>4, <2>1 DEF LineEnd
  <2>3. /\ 3 * n + 1 <= Len(b) => 3 * n + 1 \in 1..Len(b)
        /\ 3 * n + 2 <= Len(b) => 3 * n + 2 \in 1..Len(b)
    BY <1>2, <1>3
  <2> QED BY <1>3, <2>2, <2>3
<1> QED BY <1>5, <1>6 DEF n, InThrees

\* Every place is the first, the second or the third of its three.
LEMMA Thirds ==
  \A j \in Nat : j >= 1 => \E i \in Nat : j = 3 * i + 1 \/ j = 3 * i + 2 \/ j = 3 * i + 3
<1> SUFFICES ASSUME NEW j \in Nat, j >= 1
             PROVE  \E i \in Nat : j = 3 * i + 1 \/ j = 3 * i + 2 \/ j = 3 * i + 3
  OBVIOUS
<1>1. (j - 1) \div 3 \in Nat
  OBVIOUS
<1>2. j = 3 * ((j - 1) \div 3) + 1 \/ j = 3 * ((j - 1) \div 3) + 2
      \/ j = 3 * ((j - 1) \div 3) + 3
  OBVIOUS
<1> QED BY <1>1, <1>2

\* What parseHeaders keeps of the lines.
LEMMA HeadersKept ==
  ASSUME NEW req, NEW w, NEW o, Placed(req, w, o), WellFormed(req),
         NEW b, NEW r, Holds(b, w, o + 3, r), 3 * Len(req.headers) + 2 <= Len(b)
  PROVE  ToSet(SubSeq(b, 1, 3 * Len(req.headers) - 2)) \ ToSet(CRLF) = ToSet(req.headers)
<1> DEFINE n == Len(req.headers)
           m == 3 * n - 2
           s == SubSeq(b, 1, m)
<1>1. req.headers \in Seq(Units) /\ n \in Nat /\ n >= 1
      /\ \A k \in 1..n : req.headers[k] # Cr /\ req.headers[k] # Lf
  <2>1. req \in Request
    BY DEF Placed
  <2> QED BY <2>1, PartsTyped DEF WellFormed
<1>2. b \in Seq(Units) /\ Len(b) \in Nat /\ m \in Nat /\ m <= Len(b) /\ 1 <= m
  <2>1. b \in Seq(Units)
    BY HoldsIs
  <2>2. Len(b) \in Nat
    BY <2>1
  <2> QED BY <1>1, <2>1, <2>2
<1>3. \A i \in Nat : i < n =>
        /\ 3 * i + 1 <= Len(b) => b[3 * i + 1] = req.headers[i + 1]
        /\ 3 * i + 2 <= Len(b) => b[3 * i + 2] = Cr
        /\ 3 * i + 3 <= Len(b) => b[3 * i + 3] = Lf
  <2>1. InThrees(req, b)
    BY HeadUnits
  <2> QED BY <2>1 DEF InThrees
<1>4. s \in Seq(Units) /\ Len(s) = m /\ \A i \in 1..m : s[i] = b[i]
  BY <1>2
<1>5. DOMAIN s = 1..m /\ DOMAIN req.headers = 1..n
  BY <1>1, <1>2, <1>4
<1> HIDE DEF s
<1>6. ASSUME NEW i \in 1..m, s[i] # Cr, s[i] # Lf
      PROVE  \E k \in 1..n : s[i] = req.headers[k]
  <2>1. PICK j \in Nat : i = 3 * j + 1 \/ i = 3 * j + 2 \/ i = 3 * j + 3
    <3>1. i \in Nat /\ i >= 1
      BY <1>2
    <3> QED BY <3>1, Thirds
  <2>2. j < n /\ i <= Len(b) /\ j + 1 \in 1..n
    BY <1>1, <1>2, <2>1
  <2>3. s[i] = b[i]
    BY <1>4
  <2>4. i = 3 * j + 1
    BY <1>3, <1>6, <2>1, <2>2, <2>3
  <2>5. b[i] = req.headers[j + 1]
    BY <1>3, <2>2, <2>4
  <2> QED BY <2>2, <2>3, <2>5
<1>7. ASSUME NEW k \in 1..n PROVE \E i \in 1..m : s[i] = req.headers[k]
  <2>1. k - 1 \in Nat /\ k - 1 < n /\ 3 * (k - 1) + 1 \in 1..m /\ 3 * (k - 1) + 1 <= Len(b)
        /\ (k - 1) + 1 = k
    BY <1>1, <1>2
  <2>2. b[3 * (k - 1) + 1] = req.headers[k]
    BY <1>3, <2>1
  <2> QED BY <1>4, <2>1, <2>2
<1> HIDE DEF m
<1>8. ToSet(s) \ {Cr, Lf} = ToSet(req.headers)
  <2>1. ASSUME NEW x \in ToSet(s) \ {Cr, Lf} PROVE x \in ToSet(req.headers)
    <3>1. PICK i \in 1..m : x = s[i]
      BY <1>5, <2>1 DEF ToSet
    <3>2. s[i] # Cr /\ s[i] # Lf
      BY <2>1, <3>1
    <3> QED BY <1>5, <1>6, <3>1, <3>2 DEF ToSet
  <2>2. ASSUME NEW x \in ToSet(req.headers) PROVE x \in ToSet(s) \ {Cr, Lf}
    <3>1. PICK k \in 1..n : x = req.headers[k]
      BY <1>5, <2>2 DEF ToSet
    <3>2. x # Cr /\ x # Lf
      BY <1>1, <3>1
    <3>3. PICK i \in 1..m : s[i] = req.headers[k]
      BY <1>7
    <3>4. x \in ToSet(s)
      BY <1>5, <3>1, <3>3 DEF ToSet
    <3> QED BY <3>2, <3>4
  <2> QED BY <2>1, <2>2
<1> QED BY <1>8, LineEnds DEF s, m

\* The lines are parsed when the empty one behind them is there, and the search
\* for it finds no other.
LEMMA HeadersParsed ==
  ASSUME NEW c \in Parsers, NEW req, NEW w, NEW o, NEW r,
         Placed(req, w, o), WellFormed(req), HeadLeft(c, w, o, r)
  PROVE  \/ ParseHeaders(c) = c /\ r < o + HeadLong(req)
         \/ BodyLeft(ParseHeaders(c), req, w, o, r) /\ ParseHeaders(c).state = c.state
<1> DEFINE b == c.buffer
           n == Len(req.headers)
           k == 3 * n - 1
           x == CRLF \o CRLF
           h == ToSet(SubSeq(b, 1, k - 1)) \ ToSet(CRLF)
           d == [c EXCEPT !.phase = "BODY", !.headers = h, !.buffer = Erase(b, k + 3)]
<1>1. c \in ClientRec /\ PhaseOK(c) /\ c.phase = "HEADER" /\ Holds(b, w, o + 3, r) /\ Fresh(c)
  BY DEF Parsers, HeadLeft
<1>2. req \in Request /\ o \in Nat
  BY DEF Placed
<1>3. n \in Nat /\ n >= 1 /\ \A i \in 1..n : req.headers[i] # Cr /\ req.headers[i] # Lf
  BY <1>2, PartsTyped DEF WellFormed
<1>4. /\ b \in Seq(Units) /\ Len(b) = r - (o + 3) /\ Len(b) \in Nat /\ r \in Nat
  <2>1. /\ b \in Seq(Units) /\ Len(b) = r - (o + 3) /\ r \in Nat /\ o + 3 <= r
    BY <1>1, HoldsIs
  <2>2. r - (o + 3) \in Nat
    BY <1>2, <2>1
  <2> QED BY <2>1, <2>2
<1>5. /\ \A i \in Nat : i < n =>
           /\ 3 * i + 1 <= Len(b) => b[3 * i + 1] = req.headers[i + 1]
           /\ 3 * i + 2 <= Len(b) => b[3 * i + 2] = Cr
           /\ 3 * i + 3 <= Len(b) => b[3 * i + 3] = Lf
      /\ 3 * n + 1 <= Len(b) => b[3 * n + 1] = Cr
      /\ 3 * n + 2 <= Len(b) => b[3 * n + 2] = Lf
  <2>1. InThrees(req, b)
    <3> HIDE DEF b
    <3> QED BY <1>1, HeadUnits
  <2> HIDE DEF b
  <2> QED BY <2>1 DEF InThrees
<1>6. /\ x \in Seq(Units) /\ Len(x) = 4 /\ x[1] = Cr /\ x[2] = Lf /\ x[3] = Cr /\ x[4] = Lf
      /\ Cr # Lf
  BY TwoEnds, LineEnds
<1> HIDE DEF b, n, x
<1>7. k \in Nat /\ k >= 1
  BY <1>3
<1>8. ASSUME NEW j \in 1..(k - 1), j + Len(x) <= Len(b) + 1, Begins(b, x, j) PROVE FALSE
  <2>1. 1 \in 1..4 /\ 3 \in 1..4 /\ (j - 1) + 1 = j /\ (j - 1) + 3 = j + 2 /\ j \in Nat
        /\ j >= 1 /\ j + 2 <= Len(b) /\ j <= Len(b) /\ j + 2 <= 3 * n
    BY <1>3, <1>4, <1>6, <1>8
  <2>2. b[j] = Cr /\ b[j + 2] = Cr
    BY <1>6, <1>8, <2>1 DEF Begins
  <2>3. PICK i \in Nat : j = 3 * i + 1 \/ j = 3 * i + 2 \/ j = 3 * i + 3
    BY <2>1, Thirds
  <2>4. CASE j = 3 * i + 1
    <3>1. i < n /\ i + 1 \in 1..n /\ 3 * i + 1 <= Len(b)
      BY <1>3, <2>1, <2>4
    <3> QED BY <1>3, <1>5, <2>2, <2>4, <3>1
  <2>5. CASE j = 3 * i + 2
    <3>1. i + 1 < n /\ (i + 1) + 1 \in 1..n /\ i + 1 \in Nat
          /\ 3 * (i + 1) + 1 = j + 2 /\ 3 * (i + 1) + 1 <= Len(b)
      BY <1>3, <2>1, <2>5
    <3>2. b[j + 2] = req.headers[(i + 1) + 1]
      BY <1>5, <3>1
    <3> QED BY <1>3, <2>2, <3>1, <3>2
  <2>6. CASE j = 3 * i + 3
    <3>1. i < n /\ 3 * i + 3 <= Len(b)
      BY <1>3, <2>1, <2>6
    <3> QED BY <1>5, <1>6, <2>2, <2>6, <3>1
  <2> QED BY <2>3, <2>4, <2>5, <2>6
<1>9. k + Len(x) <= Len(b) + 1 => Begins(b, x, k)
  <2> SUFFICES ASSUME k + 4 <= Len(b) + 1 PROVE Begins(b, x, k)
    BY <1>6
  <2>1. n - 1 \in Nat /\ n - 1 < n /\ 3 * (n - 1) + 2 = k /\ 3 * (n - 1) + 3 = k + 1
        /\ 3 * n + 1 = k + 2 /\ 3 * n + 2 = k + 3 /\ k + 3 <= Len(b)
        /\ 3 * (n - 1) + 2 <= Len(b) /\ 3 * (n - 1) + 3 <= Len(b)
        /\ 3 * n + 1 <= Len(b) /\ 3 * n + 2 <= Len(b)
    BY <1>3, <1>4
  <2>2. b[k] = Cr /\ b[k + 1] = Lf
    BY <1>5, <2>1
  <2>3. b[k + 2] = Cr /\ b[k + 3] = Lf
    BY <1>5, <2>1
  <2>4. \A i \in 1..4 : i = 1 \/ i = 2 \/ i = 3 \/ i = 4
    OBVIOUS
  <2>5. (k - 1) + 1 = k /\ (k - 1) + 2 = k + 1 /\ (k - 1) + 3 = k + 2 /\ (k - 1) + 4 = k + 3
    BY <1>3
  <2> HIDE DEF k
  <2> QED BY <1>6, <2>2, <2>3, <2>4, <2>5 DEF Begins
<1>10. Find(b, x) = IF k + Len(x) <= Len(b) + 1 THEN k ELSE 0
  <2>1. Len(x) >= 1
    BY <1>6
  <2> HIDE DEF k
  <2> QED BY <1>4, <1>6, <1>7, <1>8, <1>9, <2>1, FindFirst
<1>11. k + Len(x) <= Len(b) + 1 <=> o + HeadLong(req) <= r
  BY <1>2, <1>3, <1>4, <1>6 DEF HeadLong, n
<1>12. CASE ~(o + HeadLong(req) <= r)
  <2>1. ParseHeaders(c) = c
    BY <1>10, <1>11, <1>12 DEF ParseHeaders, b, x
  <2>2. HeadLong(req) \in Nat
    BY <1>3 DEF HeadLong, n
  <2> QED BY <1>2, <1>4, <1>12, <2>1, <2>2
<1>13. CASE o + HeadLong(req) <= r
  <2>1. Find(b, x) = k /\ k # 0
    BY <1>7, <1>10, <1>11, <1>13
  <2>2. ParseHeaders(c) = d
    BY <1>1, <2>1 DEF ParseHeaders, b, x
  <2>3. Holds(Erase(b, k + 3), w, o + HeadLong(req), r)
    <3>1. k + 3 \in Nat /\ k + 3 <= r - (o + 3) /\ (o + 3) + (k + 3) = o + HeadLong(req)
      <4>1. HeadLong(req) = 5 + 3 * n
        BY DEF HeadLong, n
      <4> QED BY <1>2, <1>3, <1>4, <1>13, <4>1
    <3>2. Holds(Erase(b, k + 3), w, (o + 3) + (k + 3), r)
      <4> HIDE DEF k
      <4> QED BY <1>1, <3>1, HoldsLess
    <3> QED BY <3>1, <3>2
  <2>4. h = ToSet(req.headers)
    <3>1. 3 * n + 2 <= Len(b) /\ k - 1 = 3 * n - 2
      BY <1>2, <1>3, <1>4, <1>13 DEF HeadLong, n
    <3> QED BY <1>1, <3>1, HeadersKept DEF n
  <2> DEFINE y == Erase(b, k + 3)
  <2> HIDE DEF y, h
  <2>5. d = [c EXCEPT !.phase = "BODY", !.headers = h, !.buffer = y]
    BY DEF y
  <2> HIDE DEF d
  <2>6. /\ d.phase = "BODY" /\ d.buffer = y /\ d.state = c.state /\ d.headers = h
        /\ d.discarding = c.discarding /\ d.inDisk = c.inDisk /\ d.body = c.body
        /\ d.hasLength = c.hasLength /\ d.bytesRead = c.bytesRead /\ d.chunk = c.chunk
    BY <1>1, <2>5 DEF ClientRec
  <2>7. ~c.hasLength /\ c.bytesRead = 0 /\ c.chunk = NewChunk
    BY <1>1 DEF PhaseOK, Bare
  <2>8. BodyLeft(d, req, w, o, r)
    BY <1>1, <2>3, <2>4, <2>6, <2>7 DEF BodyLeft, Fresh, y
  <2> QED BY <2>2, <2>6, <2>8
<1> QED BY <1>12, <1>13

-----------------------------------------------------------------------------
(* A body with a length is parsed *)

\* What is kept when m units of the body are taken; disk only when they are too
\* many for the memory.
Kept(c, req, m) ==
  /\ m \in Nat /\ m <= Len(Body(req))
  /\ ~c.discarding => c.body = Stretch(Body(req), 0, m) /\ (c.inDisk => m > MaxBuffer)
  /\ c.discarding => Len(Body(req)) > MaxBody

HasLength(req) == \E k \in 1..Len(req.headers) : req.headers[k][1] = "length"

\* Some of the body has been taken, and some is missing.
LengthTaken(c, req, w, o, r) ==
  /\ c.phase = "BODY" /\ c.headers = ToSet(req.headers)
  /\ c.hasLength /\ c.length = Len(Body(req)) /\ c.bytesRead <= c.length
  /\ Holds(c.buffer, w, o + HeadLong(req) + c.bytesRead, r)
  /\ Kept(c, req, c.bytesRead)
LengthLeft(c, req, w, o, r) ==
  /\ ~Contains(req.headers, Chunked) /\ HasLength(req)
  /\ LengthTaken(c, req, w, o, r) /\ c.bytesRead < c.length

\* The request is parsed to its end, and how.
Ended(c, req, w, o, r) ==
  /\ c.phase = "FINISHED"
  /\ \/ /\ c.state \notin Parsed /\ Holds(c.buffer, w, o + Len(Bytes(req)), r)
        /\ ~c.discarding /\ c.body = Body(req) /\ Len(Body(req)) <= MaxBody
     \/ c.state = "PARSE_TOO_LARGE" /\ Len(Body(req)) > MaxBody
     \/ c.state = "PARSE_ERROR" /\ Len(Body(req)) > MaxBuffer /\ disk = "full"

LEMMA StretchAll ==
  \A s \in Seq(Units) : Stretch(s, 0, Len(s)) = s /\ Stretch(s, 0, 0) = <<>>
<1> SUFFICES ASSUME NEW s \in Seq(Units)
             PROVE  Stretch(s, 0, Len(s)) = s /\ Stretch(s, 0, 0) = <<>>
  OBVIOUS
<1> DEFINE x == Stretch(s, 0, Len(s))
           y == Stretch(s, 0, 0)
<1>1. Len(s) \in Nat /\ 0 \in Nat /\ 0 <= Len(s) /\ Len(s) <= Len(s) /\ 0 <= 0
  OBVIOUS
<1>2. IsStretch(x, s, 0, Len(s), Units) /\ IsStretch(y, s, 0, 0, Units)
  BY <1>1, PartIs
<1> HIDE DEF x, y
<1>3. x \in Seq(Units) /\ Len(x) = Len(s) /\ \A i \in 1..Len(s) : x[i] = s[i]
  <2>1. Len(s) - 0 = Len(s) /\ \A i \in 1..Len(s) : 0 + i = i
    BY <1>1
  <2> QED BY <1>2, <2>1 DEF IsStretch
<1>4. y \in Seq(Units) /\ Len(y) = 0
  <2>1. y \in Seq(Units) /\ Len(y) = 0 - 0
    BY <1>2 DEF IsStretch
  <2> QED BY <2>1
<1>5. x = s
  BY <1>3, SeqEqual
<1>6. y = <<>>
  BY <1>4, EmptySeq
<1> QED BY <1>5, <1>6 DEF x, y

LEMMA HeadersHave ==
  \A req \in Request :
    /\ Chunked \in ToSet(req.headers) <=> Contains(req.headers, Chunked)
    /\ HasLength(req) <=> \E h \in ToSet(req.headers) : h[1] = "length"
<1> SUFFICES ASSUME NEW req \in Request
             PROVE  /\ Chunked \in ToSet(req.headers) <=> Contains(req.headers, Chunked)
                    /\ HasLength(req) <=> \E h \in ToSet(req.headers) : h[1] = "length"
  OBVIOUS
<1>1. req.headers \in Seq(Units)
  BY PartsTyped
<1>2. DOMAIN req.headers = 1..Len(req.headers)
  BY <1>1
<1> QED BY <1>2 DEF ToSet, Contains, HasLength

\* What appendBody takes is the next of the body.
Takes(c, req, w, p, q, r, m, k, n) ==
  /\ c \in ClientRec /\ req \in Request
  /\ Holds(c.buffer, w, p, r) /\ ~c.discarding /\ Kept(c, req, m)
  /\ n \in Nat /\ n <= r - p /\ q = p + n /\ k = m + n /\ k <= Len(Body(req))
  /\ Stretch(w, p, q) = Stretch(Body(req), m, k)

TookOrFailed(c, req, w, q, r, k, n) ==
  /\ AppendFails(c, n) => Len(Body(req)) > MaxBuffer /\ disk = "full"
  /\ \E x \in BOOLEAN, y \in Seq(Units), z \in Seq(Units) :
       /\ AppendBody(c, n) = [c EXCEPT !.inDisk = x, !.body = y, !.buffer = z]
       /\ Holds(z, w, q, r) /\ y = Stretch(Body(req), 0, k)
       /\ x => k > MaxBuffer

LEMMA AppendTakes ==
  ASSUME NEW c, NEW req, NEW w, NEW p, NEW q, NEW r, NEW m, NEW k, NEW n,
         Takes(c, req, w, p, q, r, m, k, n)
  PROVE  TookOrFailed(c, req, w, q, r, k, n)
<1>0. /\ c \in ClientRec /\ req \in Request
      /\ Holds(c.buffer, w, p, r) /\ ~c.discarding /\ Kept(c, req, m)
      /\ n \in Nat /\ n <= r - p /\ q = p + n /\ k = m + n /\ k <= Len(Body(req))
      /\ Stretch(w, p, q) = Stretch(Body(req), m, k)
  BY DEF Takes
<1> DEFINE x == c.inDisk \/ n > MaxBuffer - Len(c.body)
           s == SubSeq(c.buffer, 1, n)
           y == c.body \o s
           z == Erase(c.buffer, n)
           b == Body(req)
<1>1. b \in Seq(Units) /\ Len(b) \in Nat /\ MaxBuffer \in Nat
  BY <1>0, PartsTyped, LimitsAssumption
<1>2. m \in Nat /\ m <= Len(b) /\ c.body = Stretch(b, 0, m) /\ (c.inDisk => m > MaxBuffer)
  BY <1>0 DEF Kept
<1>3. Len(c.body) = m
  <2> HIDE DEF b
  <2>1. 0 \in Nat /\ 0 <= m /\ m - 0 = m
    BY <1>2
  <2>2. IsStretch(c.body, b, 0, m, Units)
    BY <1>1, <1>2, <2>1, PartIs
  <2> QED BY <2>1, <2>2 DEF IsStretch
<1>4. c.inDisk \in BOOLEAN
  BY <1>0, ParserFields
<1>5. Holds(z, w, q, r) /\ s = Stretch(w, p, q)
  BY <1>0, HoldsLess
<1>6. y = Stretch(b, 0, k)
  <2> HIDE DEF b, s
  <2>1. 0 \in Nat /\ 0 <= m /\ m <= k /\ k \in Nat
    BY <1>0, <1>2
  <2>2. ASSUME NEW i \in Nat, NEW j \in Nat, i <= j, j <= Len(b)
        PROVE  Stretch(b, 0, i) \o Stretch(b, i, j) = Stretch(b, 0, j)
    <3>1. 0 \in Nat /\ 0 <= i
      OBVIOUS
    <3> QED BY <1>1, <2>2, <3>1, PartsMeet
  <2>4. Stretch(b, 0, m) \o Stretch(b, m, k) = Stretch(b, 0, k)
    <3>1. k <= Len(b)
      BY <1>0 DEF b
    <3> QED BY <1>2, <2>1, <2>2, <3>1
  <2>3. s = Stretch(b, m, k)
    BY <1>0, <1>5 DEF b
  <2> QED BY <1>2, <2>4, <2>3
<1>7. y \in Seq(Units) /\ z \in Seq(Units)
  <2>1. z \in Seq(Units)
    BY <1>5, HoldsIs
  <2>2. IsStretch(y, b, 0, k, Units)
    <3>1. 0 \in Nat /\ 0 <= k /\ k \in Nat /\ k <= Len(b)
      BY <1>0, <1>2
    <3> HIDE DEF b, y
    <3> QED BY <1>1, <1>6, <3>1, PartIs
  <2> HIDE DEF y, z, b
  <2> QED BY <2>1, <2>2 DEF IsStretch
<1>8. x \in BOOLEAN /\ (x => k > MaxBuffer)
  <2>1. x \in BOOLEAN
    BY Zenon
  <2>2. ASSUME c.inDisk PROVE k > MaxBuffer
    <3> HIDE DEF b
    <3> QED BY <1>0, <1>1, <1>2, <2>2
  <2>3. ASSUME n > MaxBuffer - Len(c.body) PROVE k > MaxBuffer
    <3> HIDE DEF b
    <3> QED BY <1>0, <1>1, <1>2, <1>3, <2>3
  <2> QED BY <2>1, <2>2, <2>3, Zenon
<1>9. AppendBody(c, n) = [c EXCEPT !.inDisk = x, !.body = y, !.buffer = z]
  BY DEF AppendBody
<1>10. AppendFails(c, n) => x /\ disk = "full"
  BY Zenon DEF AppendFails
<1> HIDE DEF x, y, z, b
<1>11. AppendFails(c, n) => Len(b) > MaxBuffer /\ disk = "full"
  <2> SUFFICES ASSUME AppendFails(c, n) PROVE Len(b) > MaxBuffer /\ disk = "full"
    OBVIOUS
  <2>1. k <= Len(b) /\ k > MaxBuffer
    BY <1>0, <1>8, <1>10 DEF b
  <2>2. Len(b) > MaxBuffer
    BY <1>0, <1>1, <1>2, <2>1
  <2> QED BY <1>10, <2>2
<1> QED BY <1>5, <1>6, <1>7, <1>8, <1>9, <1>11 DEF TookOrFailed, b

\* A request without chunks is as long as its lines and its body.
LEMMA LengthLaid ==
  ASSUME NEW req, NEW w, NEW o, Placed(req, w, o), ~Contains(req.headers, Chunked)
  PROVE  /\ Inside(Body(req), w, o + HeadLong(req))
         /\ o + Len(Bytes(req)) = o + HeadLong(req) + Len(Body(req))
         /\ o + HeadLong(req) \in Nat /\ Len(Body(req)) \in Nat /\ w \in Seq(Units)
         /\ o + HeadLong(req) + Len(Body(req)) <= Len(w)
<1>1. /\ req \in Request /\ o \in Nat /\ w \in Seq(Units) /\ o + Len(Bytes(req)) <= Len(w)
  BY DEF Placed
<1>2. BodySent(req) = Body(req)
  BY DEF BodySent
<1>3. Len(Body(req)) \in Nat /\ HeadLong(req) \in Nat
  <2>1. Len(Body(req)) \in Nat /\ Len(req.headers) \in Nat
    BY <1>1, PartsTyped
  <2> QED BY <2>1 DEF HeadLong
<1>4. Inside(Body(req), w, o + HeadLong(req))
      /\ Len(Bytes(req)) = HeadLong(req) + Len(Body(req))
  BY <1>2, RequestLaid
<1>5. o + Len(Bytes(req)) = o + HeadLong(req) + Len(Body(req)) /\ o + HeadLong(req) \in Nat
  BY <1>1, <1>3, <1>4
<1> QED BY <1>1, <1>3, <1>4, <1>5

\* The first call for a request.
LEMMA LengthStarts ==
  ASSUME NEW c \in Parsers, NEW req, NEW w, NEW o, NEW r,
         Placed(req, w, o), WellFormed(req), ~Contains(req.headers, Chunked), HasLength(req),
         BodyLeft(c, req, w, o, r) \/ LengthLeft(c, req, w, o, r)
  PROVE  /\ StartLength(c) \in Parsers /\ StartLength(c).state = c.state
         /\ LengthTaken(StartLength(c), req, w, o, r)
         /\ StartLength(c).bytesRead < StartLength(c).length \/ StartLength(c).length = 0
<1> DEFINE e == StartLength(c)
           l == Len(Body(req))
<1>1. req \in Request /\ c \in ClientRec /\ c.phase = "BODY" /\ c.headers = ToSet(req.headers)
  BY DEF Placed, Parsers, BodyLeft, LengthLeft, LengthTaken
<1>2. Chunked \notin c.headers /\ \E h \in c.headers : h[1] = "length"
  BY <1>1, HeadersHave
<1>3. e \in Parsers /\ e.phase = "BODY" /\ e.hasLength /\ e.headers = c.headers
  BY <1>1, <1>2, StartLengthKeeps
<1>4. /\ o + HeadLong(req) \in Nat /\ l \in Nat
  BY LengthLaid
<1>5. CASE LengthLeft(c, req, w, o, r)
  <2>1. e = c
    BY <1>5 DEF LengthLeft, LengthTaken, StartLength
  <2> HIDE DEF e
  <2> QED BY <1>3, <1>5, <2>1 DEF LengthLeft, LengthTaken, e
<1>6. CASE BodyLeft(c, req, w, o, r)
  <2> DEFINE u == CHOOSE h \in c.headers : h[1] = "length"
             n == u[2]
             x == c.discarding \/ n > MaxBody
             t == IF n > MaxBody THEN n ELSE c.toDiscard
             d == [c EXCEPT !.hasLength = TRUE, !.length = n, !.discarding = x,
                            !.toDiscard = t]
  <2>1. ~c.hasLength /\ c.bytesRead = 0 /\ Fresh(c) /\ Holds(c.buffer, w, o + HeadLong(req), r)
    BY <1>6 DEF BodyLeft
  <2>2. e = d
    BY <2>1 DEF StartLength
  <2>3. n = l
    <3>1. u \in c.headers /\ u[1] = "length"
      BY <1>2
    <3> HIDE DEF u
    <3>2. req.headers \in Seq(Units)
      BY <1>1, PartsTyped
    <3>3. PICK k \in 1..Len(req.headers) : u = req.headers[k]
      <4>1. DOMAIN req.headers = 1..Len(req.headers)
        BY <3>2
      <4> QED BY <1>1, <3>1, <4>1 DEF ToSet
    <3> QED BY <3>1, <3>3 DEF WellFormed
  <2> HIDE DEF n
  <2>4. x \in BOOLEAN /\ (x => n > MaxBody)
    BY <2>1, Zenon DEF Fresh
  <2> HIDE DEF x, t
  <2>5. d.phase = c.phase /\ d.headers = c.headers /\ d.bytesRead = c.bytesRead
        /\ d.length = n /\ d.body = c.body /\ d.inDisk = c.inDisk
        /\ d.discarding = x /\ d.hasLength = TRUE /\ d.buffer = c.buffer /\ d.state = c.state
    BY <1>1 DEF ClientRec
  <2> HIDE DEF d, e
  <2>6. d.body = Stretch(Body(req), 0, 0) /\ ~d.inDisk
    <3>1. Body(req) \in Seq(Units)
      BY <1>1, PartsTyped
    <3>2. Stretch(Body(req), 0, 0) = <<>>
      BY <3>1, StretchAll
    <3> QED BY <2>1, <2>5, <3>2 DEF Fresh
  <2>7. 0 \in Nat /\ 0 <= l /\ o + HeadLong(req) + 0 = o + HeadLong(req) /\ (0 < l \/ l = 0)
    BY <1>4
  <2>8. Kept(d, req, 0)
    BY <2>3, <2>4, <2>5, <2>6, <2>7 DEF Kept
  <2>9. LengthTaken(d, req, w, o, r)
    BY <1>1, <2>1, <2>3, <2>5, <2>7, <2>8 DEF LengthTaken
  <2>10. d.bytesRead < d.length \/ d.length = 0
    BY <2>1, <2>3, <2>5, <2>7
  <2> QED BY <1>3, <2>2, <2>5, <2>9, <2>10 DEF e
<1> QED BY <1>5, <1>6

\* parseContentLengthBody takes what there is of the body, and no more.
LEMMA LengthParsed ==
  ASSUME NEW c0 \in Parsers, NEW req, NEW w, NEW o, NEW r,
         Placed(req, w, o), WellFormed(req), ~Contains(req.headers, Chunked), HasLength(req),
         BodyLeft(c0, req, w, o, r) \/ LengthLeft(c0, req, w, o, r), c0.state \notin Parsed
  PROVE  \/ LengthLeft(ParseContentLength(c0), req, w, o, r) /\ r < o + Len(Bytes(req))
         \/ Ended(ParseContentLength(c0), req, w, o, r)
<1> DEFINE c == StartLength(c0)
           l == Len(Body(req))
           h == o + HeadLong(req)
           m == c.bytesRead
<1>1. /\ c \in Parsers /\ c.state \notin Parsed
      /\ LengthTaken(c, req, w, o, r) /\ (m < c.length \/ c.length = 0)
  BY LengthStarts
<1> DEFINE n == Least(Len(c.buffer), c.length - c.bytesRead)
           ended == c.bytesRead + n >= c.length
           ph == IF ended THEN "FINISHED" ELSE c.phase
           Taken(d) == [d EXCEPT !.bytesRead = @ + n,
                                 !.phase = IF ended THEN "FINISHED" ELSE @]
           b == Erase(c.buffer, n)
           e == [c EXCEPT !.buffer = b]
<1>2. ParseContentLength(c0) =
        IF n = 0 /\ c.length > 0 THEN c
        ELSE IF c.discarding
             THEN [Taken(DiscardingBody(e)) EXCEPT !.state = "PARSE_TOO_LARGE"]
        ELSE IF AppendFails(c, n) THEN AppendError(c)
        ELSE Taken(AppendBody(c, n))
  BY DEF ParseContentLength
<1> HIDE DEF c
<1>3. /\ c \in ClientRec /\ c.phase = "BODY" /\ c.headers = ToSet(req.headers)
      /\ c.hasLength /\ c.length = l /\ m <= l /\ (m < l \/ l = 0)
      /\ Holds(c.buffer, w, h + m, r) /\ Kept(c, req, m) /\ m \in Nat
  BY <1>1 DEF Parsers, LengthTaken, Kept
<1>4. /\ Inside(Body(req), w, h) /\ o + Len(Bytes(req)) = h + l
      /\ h \in Nat /\ l \in Nat /\ w \in Seq(Units) /\ h + l <= Len(w)
  BY LengthLaid
<1>5. req \in Request /\ Chunked \notin c.headers
  BY <1>3, HeadersHave DEF Placed
<1>6. l <= MaxBody \/ (c.discarding /\ c.toDiscard > 0)
  <2>1. LengthFits(c) /\ c.hasLength
    BY <1>1, <1>3, <1>5 DEF Parsers, PhaseOK
  <2> QED BY <1>3, <2>1 DEF LengthFits, Bare
<1>7. /\ Len(c.buffer) = r - (h + m) /\ c.buffer \in Seq(Units) /\ r \in Nat /\ h + m <= r
  BY <1>3, HoldsIs
<1>8. /\ n \in Nat /\ n <= r - (h + m) /\ m + n <= l
      /\ n = r - (h + m) \/ m + n >= l
  <2> HIDE DEF l, m, h
  <2>1. n = Least(r - (h + m), l - m)
    BY <1>3, <1>7 DEF m
  <2>2. r - (h + m) \in Nat /\ l - m \in Nat
    BY <1>3, <1>4, <1>7
  <2> HIDE DEF n
  <2> QED BY <1>3, <1>4, <1>7, <2>1, <2>2 DEF Least
<1> HIDE DEF n, l, m, h
<1>9. ended <=> m + n >= l
  BY <1>3 DEF m
<1>10. ASSUME NEW d, d.bytesRead = m, d.phase = "BODY"
       PROVE  Taken(d) = [d EXCEPT !.bytesRead = m + n, !.phase = ph]
  BY <1>3, <1>10
<1>11. Holds(b, w, (h + m) + n, r) /\ (n = r - (h + m) => b = <<>>)
  <2>1. Holds(b, w, (h + m) + n, r)
    BY <1>3, <1>8, HoldsLess
  <2>2. n = r - (h + m) => b = <<>>
    <3>1. n = r - (h + m) => Len(c.buffer) <= n
      BY <1>7, <1>8
    <3> QED BY <1>7, <1>8, <3>1, EraseIs
  <2> QED BY <2>1, <2>2
<1>12. /\ ph = "FINISHED" \/ ph = "BODY"
       /\ ph = "BODY" => m + n < l /\ n = r - (h + m) /\ r < o + Len(Bytes(req))
       /\ ph = "FINISHED" => (h + m) + n = o + Len(Bytes(req)) /\ m + n = l
  <2>1. CASE ended
    <3>1. m + n >= l
      BY <1>9, <2>1
    <3>2. m + n = l /\ (h + m) + n = h + l
      BY <1>3, <1>4, <1>8, <3>1
    <3>3. ph = "FINISHED"
      BY <2>1
    <3> HIDE DEF ph
    <3> QED BY <1>4, <3>2, <3>3
  <2>2. CASE ~ended
    <3>1. m + n < l /\ n = r - (h + m)
      BY <1>3, <1>4, <1>8, <1>9, <2>2
    <3>2. r < h + l
      BY <1>3, <1>4, <1>7, <1>8, <3>1
    <3>3. ph = "BODY"
      BY <1>3, <2>2
    <3> HIDE DEF ph
    <3> QED BY <1>4, <3>1, <3>2, <3>3
  <2> QED BY <2>1, <2>2
<1> HIDE DEF ph, ended, Taken, b, e
<1>13. CASE n = 0 /\ c.length > 0
  <2>1. m < l /\ r = h + m /\ r < h + l
    BY <1>3, <1>4, <1>7, <1>8, <1>13
  <2>2. LengthLeft(c, req, w, o, r)
    BY <1>1, <1>3, <2>1 DEF LengthLeft, m
  <2>3. ParseContentLength(c0) = c
    BY <1>2, <1>13
  <2> QED BY <1>4, <2>1, <2>2, <2>3
\* What the record that is left makes of it.
<1>14. ASSUME NEW d, d.phase = ph, ph = "BODY", d.headers = c.headers,
              d.hasLength = c.hasLength, d.length = c.length, d.bytesRead = m + n,
              Holds(d.buffer, w, (h + m) + n, r), Kept(d, req, m + n)
       PROVE  LengthLeft(d, req, w, o, r)
  <2>1. h + (m + n) = (h + m) + n /\ m + n < l /\ m + n <= l
    BY <1>3, <1>4, <1>8, <1>12, <1>14
  <2>2. o + HeadLong(req) + d.bytesRead = (h + m) + n
    BY <1>14, <2>1 DEF h
  <2>3. LengthTaken(d, req, w, o, r)
    BY <1>3, <1>14, <2>1, <2>2 DEF LengthTaken, l
  <2> QED BY <1>3, <1>14, <2>1, <2>3 DEF LengthLeft
<1>15. CASE ~(n = 0 /\ c.length > 0) /\ c.discarding
  <2>1. l > MaxBody
    BY <1>3, <1>15 DEF Kept, l
  <2>2. c.toDiscard > 0
    BY <1>4, <1>6, <2>1, LimitsAssumption
  <2>3. b \in Seq(Sendable)
    <3>1. c.buffer \in Seq(Sendable) /\ n \in Nat
      BY <1>3, <1>8, ParserFields
    <3> HIDE DEF Sendable, n
    <3> QED BY <3>1, EraseSendable DEF b
  <2>4. /\ e \in ClientRec /\ e.discarding /\ e.buffer = b /\ e.toDiscard = c.toDiscard
        /\ e.bytesRead = m /\ e.phase = "BODY"
    BY <1>3, <1>15, <2>3 DEF ClientRec, e, m
  <2>5. PICK z \in Seq(Sendable), t \in Nat, x \in BOOLEAN :
          /\ DiscardingBody(e) = [e EXCEPT !.buffer = z, !.toDiscard = t, !.discarding = x]
          /\ e.buffer = <<>> /\ e.toDiscard > 0 => t = e.toDiscard /\ x /\ z = <<>>
    BY <2>4, DiscardStep
  <2> DEFINE d == [e EXCEPT !.buffer = z, !.toDiscard = t, !.discarding = x]
             q == [[d EXCEPT !.bytesRead = m + n, !.phase = ph]
                    EXCEPT !.state = "PARSE_TOO_LARGE"]
  <2>6. d.bytesRead = m /\ d.phase = "BODY"
    BY <2>4 DEF ClientRec
  <2>7. ParseContentLength(c0) = q
    BY <1>2, <1>10, <1>15, <2>5, <2>6
  <2>8. q.phase = ph /\ q.headers = c.headers /\ q.bytesRead = m + n
        /\ q.length = c.length /\ q.hasLength = c.hasLength /\ q.buffer = z
        /\ q.discarding = x /\ q.state = "PARSE_TOO_LARGE"
    BY <1>3 DEF ClientRec, e
  <2> HIDE DEF d, q
  <2>9. CASE ph = "FINISHED"
    BY <2>1, <2>7, <2>8, <2>9 DEF Ended, l
  <2>10. CASE ph = "BODY"
    <3>1. b = <<>>
      BY <1>11, <1>12, <2>10
    <3>2. z = b /\ x
      BY <2>2, <2>4, <2>5, <3>1
    <3>3. Kept(q, req, m + n)
      <4>1. m + n \in Nat /\ m + n <= l
        BY <1>3, <1>8
      <4> QED BY <2>1, <2>8, <3>2, <4>1 DEF Kept, l
    <3>4. LengthLeft(q, req, w, o, r)
      BY <1>11, <1>14, <2>8, <2>10, <3>2, <3>3
    <3> QED BY <1>12, <2>7, <2>10, <3>4
  <2> QED BY <1>12, <2>9, <2>10
<1>16. ASSUME ~c.discarding
       PROVE  /\ AppendFails(c, n) => l > MaxBuffer /\ disk = "full"
              /\ \E x \in BOOLEAN, y \in Seq(Units), z \in Seq(Units) :
                   /\ AppendBody(c, n) = [c EXCEPT !.inDisk = x, !.body = y, !.buffer = z]
                   /\ Holds(z, w, (h + m) + n, r) /\ y = Stretch(Body(req), 0, m + n)
                   /\ x => m + n > MaxBuffer
  <2> DEFINE s == Body(req)
             p == h + m
             q == (h + m) + n
             k == m + n
  <2>1. p \in Nat /\ q \in Nat /\ q = p + n /\ k \in Nat /\ k = m + n /\ n <= r - p
    BY <1>3, <1>4, <1>8
  <2>2. h <= p /\ p <= q /\ q <= h + l /\ m + h = p /\ k + h = q /\ k <= l /\ m <= k
    BY <1>3, <1>4, <1>8
  <2>3. Holds(c.buffer, w, p, r)
    BY <1>3
  <2> HIDE DEF p, q, k
  <2>4. Stretch(w, p, q) = Stretch(s, m, k)
    <3>1. s \in Seq(Units)
      BY <1>5, PartsTyped
    <3>2. Inside(s, w, h) /\ h + Len(s) <= Len(w) /\ k <= Len(s) /\ m <= k
      BY <1>4, <2>2 DEF l
    <3> HIDE DEF s
    <3>3. PieceAt(s, w, h, p, q, m, k)
      BY <1>3, <1>4, <2>1, <2>2, <3>1, <3>2 DEF PieceAt
    <3> QED BY <3>3, PieceOf
  <2>5. k <= Len(Body(req))
    BY <2>2 DEF l
  <2>6. /\ AppendFails(c, n) => Len(Body(req)) > MaxBuffer /\ disk = "full"
        /\ \E x \in BOOLEAN, y \in Seq(Units), z \in Seq(Units) :
             /\ AppendBody(c, n) = [c EXCEPT !.inDisk = x, !.body = y, !.buffer = z]
             /\ Holds(z, w, q, r) /\ y = Stretch(Body(req), 0, k)
             /\ x => k > MaxBuffer
    <3>1. Takes(c, req, w, p, q, r, m, k, n)
      BY <1>3, <1>5, <1>8, <1>16, <2>1, <2>3, <2>4, <2>5 DEF Takes
    <3>2. TookOrFailed(c, req, w, q, r, k, n)
      BY <3>1, AppendTakes
    <3> QED BY <3>2 DEF TookOrFailed
  <2> QED BY <2>6 DEF l, q, k
<1>17. CASE ~(n = 0 /\ c.length > 0) /\ ~c.discarding /\ AppendFails(c, n)
  <2> DEFINE q == [c EXCEPT !.state = "PARSE_ERROR", !.phase = "FINISHED"]
  <2>1. ParseContentLength(c0) = q
    BY <1>2, <1>17 DEF AppendError
  <2>2. q.phase = "FINISHED" /\ q.state = "PARSE_ERROR"
    BY <1>3 DEF ClientRec
  <2> HIDE DEF q
  <2>3. l > MaxBuffer /\ disk = "full"
    BY <1>16, <1>17
  <2> QED BY <2>1, <2>2, <2>3 DEF Ended, l
<1>18. CASE ~(n = 0 /\ c.length > 0) /\ ~c.discarding /\ ~AppendFails(c, n)
  <2>1. PICK x \in BOOLEAN, y \in Seq(Units), z \in Seq(Units) :
          /\ AppendBody(c, n) = [c EXCEPT !.inDisk = x, !.body = y, !.buffer = z]
          /\ Holds(z, w, (h + m) + n, r) /\ y = Stretch(Body(req), 0, m + n)
          /\ x => m + n > MaxBuffer
    BY <1>16, <1>18
  <2> DEFINE d == [c EXCEPT !.inDisk = x, !.body = y, !.buffer = z]
             q == [d EXCEPT !.bytesRead = m + n, !.phase = ph]
  <2>2. d.bytesRead = m /\ d.phase = "BODY"
    BY <1>3 DEF ClientRec, m
  <2>3. ParseContentLength(c0) = q
    BY <1>2, <1>10, <1>18, <2>1, <2>2
  <2>4. q.phase = ph /\ q.headers = c.headers /\ q.bytesRead = m + n
        /\ q.length = c.length /\ q.hasLength = c.hasLength /\ q.buffer = z
        /\ q.discarding = c.discarding /\ q.state = c.state /\ q.body = y /\ q.inDisk = x
    BY <1>3 DEF ClientRec
  <2> HIDE DEF d, q
  <2>5. CASE ph = "FINISHED"
    <3>1. m + n = l /\ (h + m) + n = o + Len(Bytes(req))
      BY <1>12, <2>5
    <3>2. y = Body(req)
      <4>1. Body(req) \in Seq(Units)
        BY <1>5, PartsTyped
      <4> QED BY <2>1, <3>1, <4>1, StretchAll DEF l
    <3>3. Holds(q.buffer, w, o + Len(Bytes(req)), r)
      BY <2>1, <2>4, <3>1
    <3>4. l <= MaxBody
      BY <1>6, <1>18
    <3> QED BY <1>1, <1>18, <2>3, <2>4, <2>5, <3>2, <3>3, <3>4 DEF Ended, l
  <2>6. CASE ph = "BODY"
    <3>1. Kept(q, req, m + n)
      <4>1. m + n \in Nat /\ m + n <= l
        BY <1>3, <1>8
      <4> QED BY <1>18, <2>1, <2>4, <4>1 DEF Kept, l
    <3>2. LengthLeft(q, req, w, o, r)
      BY <1>14, <2>1, <2>4, <2>6, <3>1
    <3> QED BY <1>12, <2>3, <2>6, <3>2
  <2> QED BY <1>12, <2>5, <2>6
<1>19. c.discarding \in BOOLEAN
  BY <1>3, ParserFields
<1> QED BY <1>13, <1>15, <1>17, <1>18, <1>19

\* A request without a body.
LEMMA NoBodyParsed ==
  ASSUME NEW c \in Parsers, NEW req, NEW w, NEW o, NEW r,
         Placed(req, w, o), WellFormed(req), ~Contains(req.headers, Chunked), ~HasLength(req),
         BodyLeft(c, req, w, o, r), c.state \notin Parsed
  PROVE  Ended([c EXCEPT !.phase = "FINISHED"], req, w, o, r)
<1> DEFINE d == [c EXCEPT !.phase = "FINISHED"]
<1>1. c \in ClientRec /\ req \in Request
  BY DEF Parsers, Placed
<1>2. /\ d.phase = "FINISHED" /\ d.state = c.state /\ d.buffer = c.buffer
      /\ d.discarding = c.discarding /\ d.body = c.body
  BY <1>1 DEF ClientRec
<1> HIDE DEF d
<1>3. Body(req) = <<>>
  BY DEF WellFormed, HasLength
<1>4. ~c.discarding /\ c.body = <<>> /\ Holds(c.buffer, w, o + HeadLong(req), r)
  BY DEF BodyLeft, Fresh
<1>5. Len(Body(req)) = 0 /\ 0 <= MaxBody
  BY <1>3, EmptySeq, LimitsAssumption
<1>6. o + Len(Bytes(req)) = o + HeadLong(req)
  BY <1>5, LengthLaid
<1>7. Ended(d, req, w, o, r)
  BY <1>2, <1>3, <1>4, <1>5, <1>6 DEF Ended
<1> QED BY <1>7 DEF d

-----------------------------------------------------------------------------
(* A body in chunks is parsed *)

\* The size said in front of a chunk with j before it: 0 after the last one.
Said(req, j) == IF j < Len(req.chunks) THEN Len(req.chunks[j + 1]) ELSE 0

\* Where the size line with j chunks before it lies, in the stream and in the body.
SizeAt(req, w, o, j) ==
  LET s == Start(req, o, j)
      n == Said(req, j)
  IN
  /\ j \in Nat /\ j <= Len(req.chunks) /\ s \in Nat /\ o + Len(Bytes(req)) \in Nat
  /\ s + 5 + n <= o + Len(Bytes(req)) /\ n \in Nat
  /\ w[s + 1] = Unit("size", n) /\ LineEnd(w, s + 1)
  /\ Before(req, j) \in Nat /\ Before(req, j) + n <= Len(Body(req)) /\ Len(Body(req)) \in Nat
  /\ n = 0 <=> j = Len(req.chunks)

LEMMA SizeLies ==
  ASSUME NEW req, NEW w, NEW o, Placed(req, w, o), WellFormed(req),
         Contains(req.headers, Chunked), NEW j \in 0..Len(req.chunks)
  PROVE  SizeAt(req, w, o, j)
<1> DEFINE s == Start(req, o, j)
           n == Said(req, j)
<1>1. req \in Request /\ o \in Nat
  BY DEF Placed
<1>2. Len(req.chunks) \in Nat /\ j \in Nat /\ j <= Len(req.chunks) /\ Len(Body(req)) \in Nat
  BY <1>1, PartsTyped
<1>3. /\ EndLaid(w, Start(req, o, Len(req.chunks)))
      /\ o + Len(Bytes(req)) = Start(req, o, Len(req.chunks)) + 5
      /\ s \in Nat /\ s + 5 <= o + Len(Bytes(req))
      /\ j < Len(req.chunks) => ChunkLaid(req, w, s, j)
  BY <1>2, ChunksLaid
<1>4. o + Len(Bytes(req)) \in Nat
  <2>1. Len(req.chunks) \in 0..Len(req.chunks)
    BY <1>2
  <2>2. Start(req, o, Len(req.chunks)) \in Nat
    BY <2>1, ChunksLaid
  <2> QED BY <1>3, <2>2
<1>5. CASE j < Len(req.chunks)
  <2>1. n = Len(req.chunks[j + 1])
    BY <1>5 DEF Said
  <2>2. ChunkOfBody(req, j)
    BY <1>1, <1>2, <1>5, ChunksOfBody
  <2>3. /\ Before(req, j) \in Nat /\ n \in Nat /\ Before(req, j) + n <= Len(Body(req))
    BY <2>1, <2>2 DEF ChunkOfBody
  <2>4. n > 0
    <3>1. j + 1 \in 1..Len(req.chunks)
      BY <1>2, <1>5
    <3> QED BY <2>1, <3>1 DEF WellFormed
  <2>5. w[s + 1] = Unit("size", n) /\ LineEnd(w, s + 1)
    BY <1>3, <1>5, <2>1 DEF ChunkLaid
  <2>6. n # 0 /\ j # Len(req.chunks)
    BY <1>2, <1>5, <2>3, <2>4
  <2>8. s + 5 + n <= o + Len(Bytes(req))
    <3>1. Start(req, o, j + 1) = s + 5 + n
      BY <1>2, <1>5, <2>1, ChunksLaid
    <3>2. j + 1 \in 0..Len(req.chunks)
      BY <1>2, <1>5
    <3>3. Start(req, o, j + 1) \in Nat /\ Start(req, o, j + 1) + 5 <= o + Len(Bytes(req))
      BY <3>2, ChunksLaid
    <3> HIDE DEF n, s
    <3> QED BY <1>3, <1>4, <2>3, <3>1, <3>3
  <2> HIDE DEF n, s
  <2>7. n = 0 <=> j = Len(req.chunks)
    BY <2>6
  <2> QED BY <1>2, <1>3, <1>4, <2>3, <2>5, <2>7, <2>8 DEF SizeAt, n, s
<1>6. CASE ~(j < Len(req.chunks))
  <2>1. n = 0 /\ j = Len(req.chunks)
    BY <1>2, <1>6 DEF Said
  <2>2. Before(req, j) = Len(Body(req))
    BY <1>1, <2>1, ChunksOfBody
  <2>3. w[s + 1] = Unit("size", n) /\ LineEnd(w, s + 1)
    BY <1>3, <2>1 DEF EndLaid
  <2>4. Before(req, j) \in Nat /\ Before(req, j) + n <= Len(Body(req)) /\ n \in Nat
    BY <1>2, <2>1, <2>2
  <2>5. n = 0 <=> j = Len(req.chunks)
    BY <2>1
  <2> HIDE DEF n, s
  <2>6. s + 5 + n <= o + Len(Bytes(req))
    BY <1>3, <1>4, <2>1
  <2> QED BY <1>2, <1>3, <1>4, <2>3, <2>4, <2>5, <2>6 DEF SizeAt, n, s
<1> QED BY <1>5, <1>6

\* What is kept when m units of the body are taken, and the next is known to go
\* up to n.
KeptTo(c, req, m, n) == Kept(c, req, m) /\ (n > MaxBody => c.discarding)

\* Behind p: a size line, the rest of a chunk, the line end of a chunk, and that of
\* the body.
AtSize(c, req, o, p, j) ==
  /\ c.chunk.state = "CHUNK_SIZE" /\ p = Start(req, o, j)
  /\ KeptTo(c, req, Before(req, j), Before(req, j))
AtData(c, req, o, p, j) ==
  /\ c.chunk.state = "CHUNK_DATA" /\ j < Len(req.chunks)
  /\ c.chunk.size = Said(req, j) /\ c.chunk.read \in Nat /\ c.chunk.read < Said(req, j)
  /\ p = Start(req, o, j) + 3 + c.chunk.read
  /\ KeptTo(c, req, Before(req, j) + c.chunk.read, Before(req, j) + Said(req, j))
AtLineEnd(c, req, o, p, j) ==
  /\ c.chunk.state = "CHUNK_CRLF" /\ j < Len(req.chunks)
  /\ p = Start(req, o, j) + 3 + Said(req, j)
  /\ KeptTo(c, req, Before(req, j) + Said(req, j), Before(req, j) + Said(req, j))
AtEnd(c, req, o, p, j) ==
  /\ c.chunk.state = "CHUNK_DONE" /\ j = Len(req.chunks)
  /\ p = Start(req, o, j) + 3
  /\ KeptTo(c, req, Before(req, j), Before(req, j))

InChunk(c, req, o, p, j) ==
  \/ AtSize(c, req, o, p, j) \/ AtData(c, req, o, p, j)
  \/ AtLineEnd(c, req, o, p, j) \/ AtEnd(c, req, o, p, j)

\* The chunks are parsed up to p.
ChunksLeft(c, req, w, o, r, p) ==
  /\ c.phase = "BODY" /\ c.headers = ToSet(req.headers) /\ Contains(req.headers, Chunked)
  /\ Holds(c.buffer, w, p, r)
  /\ \E j \in 0..Len(req.chunks) : InChunk(c, req, o, p, j)

\* A turn from p: it needs more than has been read, or it takes something.
Turned(c, d, req, w, o, r, p) ==
  \/ d = c /\ r < o + Len(Bytes(req))
  \/ d.state = c.state /\ \E q \in Nat : q > p /\ ChunksLeft(d, req, w, o, r, q)
  \/ Ended(d, req, w, o, r)

\* What the lemmas about the turns start from.
Turning(c, req, w, o, r, p, j) ==
  /\ c \in ClientRec /\ req \in Request /\ c.state \notin Parsed
  /\ c.phase = "BODY" /\ c.headers = ToSet(req.headers) /\ Contains(req.headers, Chunked)
  /\ Holds(c.buffer, w, p, r) /\ j \in 0..Len(req.chunks)
  /\ SizeAt(req, w, o, j) /\ Said(req, j) + MaxBody < WordSize

\* The client a turn leaves.
LEMMA GoesOn ==
  ASSUME NEW c, NEW req, NEW w, NEW o, NEW r, NEW p, NEW j, Turning(c, req, w, o, r, p, j),
         NEW d, d.phase = c.phase, d.headers = c.headers, d.state = c.state,
         NEW q \in Nat, q > p, Holds(d.buffer, w, q, r),
         NEW i \in 0..Len(req.chunks), InChunk(d, req, o, q, i)
  PROVE  Turned(c, d, req, w, o, r, p)
BY DEF Turned, Turning, ChunksLeft

LEMMA SizeTurns ==
  ASSUME NEW c, NEW req, NEW w, NEW o, NEW r, NEW p, NEW j, Turning(c, req, w, o, r, p, j),
         AtSize(c, req, o, p, j), c.buffer # <<>>
  PROVE  Turned(c, ChunkSize(c), req, w, o, r, p)
<1> DEFINE s == Start(req, o, j)
           n == Said(req, j)
           m == Before(req, j)
           l == Len(Body(req))
           e == Find(c.buffer, CRLF)
           u == c.buffer[1][2]
           nn == Least(u, WordSize - 1)
           v == (Len(c.body) + nn) % WordSize
           x == c.discarding \/ v > MaxBody
           k == IF nn = 0 THEN [c.chunk EXCEPT !.size = 0, !.state = "CHUNK_DONE"]
                ELSE [state |-> "CHUNK_DATA", size |-> nn, read |-> 0]
           b == Erase(c.buffer, e + 1)
           d == [c EXCEPT !.buffer = b, !.discarding = x, !.chunk = k]
<1>1. /\ c \in ClientRec /\ req \in Request /\ c.phase = "BODY"
      /\ Holds(c.buffer, w, p, r) /\ SizeAt(req, w, o, j) /\ j \in 0..Len(req.chunks)
  BY DEF Turning
<1>2. /\ p = s /\ Kept(c, req, m) /\ (m > MaxBody => c.discarding)
  BY DEF AtSize, KeptTo
<1>3. /\ j \in Nat /\ j <= Len(req.chunks) /\ s \in Nat /\ o + Len(Bytes(req)) \in Nat
      /\ s + 5 + n <= o + Len(Bytes(req)) /\ n \in Nat
      /\ w[s + 1] = Unit("size", n) /\ LineEnd(w, s + 1)
      /\ m \in Nat /\ m + n <= l /\ l \in Nat
      /\ n = 0 <=> j = Len(req.chunks)
  BY <1>1 DEF SizeAt
<1>4. /\ c.buffer \in Seq(Units) /\ Len(c.buffer) = r - p /\ p \in Nat /\ r \in Nat
      /\ p <= r /\ \A i \in 1..(r - p) : c.buffer[i] = w[p + i]
  BY <1>1, HoldsIs
<1>5. u = n /\ nn = n /\ (Len(c.body) \in Nat /\ Len(c.body) <= MaxBody => v = Len(c.body) + nn)
  <2>1. 1 \in 1..(r - p)
    BY <1>4, EmptySeq
  <2>2. c.buffer[1] = Unit("size", n)
    BY <1>2, <1>3, <1>4, <2>1
  <2>3. u = n
    BY <1>3, <2>2, LineEnds
  <2>4. n \in Nat /\ n + MaxBody < WordSize
    BY <1>3 DEF Turning
  <2> DEFINE h == Len(c.body)
  <2> HIDE DEF u, n, h
  <2>5. nn = n /\ (h \in Nat /\ h <= MaxBody => v = h + nn)
    <3>1. nn = n
      <4>1. 0 \in Nat
        OBVIOUS
      <4> QED BY <2>3, <2>4, <4>1, SumFits
    <3>2. ASSUME h \in Nat, h <= MaxBody PROVE (h + Least(n, WordSize - 1)) % WordSize = h + n
      BY <2>3, <2>4, <3>1, <3>2, SumFits
    <3>3. v = (h + Least(n, WordSize - 1)) % WordSize
      BY <2>3 DEF h
    <3> QED BY <2>3, <3>1, <3>2, <3>3
  <2> QED BY <2>3, <2>5 DEF h
<1>6. e = IF 3 <= r - p THEN 2 ELSE 0
  <2>1. w[p + 1] # Cr /\ LineEnd(w, p + 1)
    BY <1>2, <1>3, LineEnds
  <2> QED BY <1>1, <2>1, FindLineEnd
<1>7. ChunkSize(c) = IF e = 0 THEN c ELSE d
  BY DEF ChunkSize
<1> HIDE DEF e, d, u, v
<1>8. CASE ~(3 <= r - p)
  <2>1. ChunkSize(c) = c
    BY <1>6, <1>7, <1>8
  <2> HIDE DEF s, n, m, l
  <2>2. r < o + Len(Bytes(req))
    BY <1>2, <1>3, <1>4, <1>8
  <2> QED BY <2>1, <2>2 DEF Turned
<1>9. CASE 3 <= r - p
  <2>1. e = 2 /\ ChunkSize(c) = d
    BY <1>6, <1>7, <1>9
  <2>2. b = Erase(c.buffer, 3)
    BY <2>1
  <2>3. Holds(b, w, p + 3, r)
    <3>1. Holds(Erase(c.buffer, 3), w, p + 3, r)
      BY <1>1, <1>9, HoldsLess
    <3> QED BY <2>2, <3>1
  <2>4. c.discarding \in BOOLEAN /\ c.body \in Seq(Units) /\ c.chunk \in ChunkRec
    BY <1>1, ParserFields
  <2>5. x \in BOOLEAN /\ (x <=> c.discarding \/ v > MaxBody)
    BY Zenon
  <2> HIDE DEF x, b
  <2>6. /\ k.state = IF n = 0 THEN "CHUNK_DONE" ELSE "CHUNK_DATA"
        /\ n # 0 => k.size = n /\ k.read = 0
    BY <1>5, <2>4 DEF ChunkRec
  <2> HIDE DEF k, nn
  <2>7. /\ d.phase = c.phase /\ d.headers = c.headers /\ d.state = c.state
        /\ d.buffer = b /\ d.discarding = x /\ d.chunk = k
        /\ d.body = c.body /\ d.inDisk = c.inDisk
    BY <1>1 DEF ClientRec, d
  <2> HIDE DEF s, n, m, l
  <2>8. ~c.discarding => c.body = Stretch(Body(req), 0, m) /\ Len(c.body) = m
                         /\ (c.inDisk => m > MaxBuffer)
    <3> SUFFICES ASSUME ~c.discarding PROVE c.body = Stretch(Body(req), 0, m)
                         /\ Len(c.body) = m /\ (c.inDisk => m > MaxBuffer)
      OBVIOUS
    <3>1. c.body = Stretch(Body(req), 0, m) /\ (c.inDisk => m > MaxBuffer)
      BY <1>2 DEF Kept
    <3>2. Body(req) \in Seq(Units) /\ 0 \in Nat /\ 0 <= m /\ m <= Len(Body(req)) /\ m - 0 = m
      BY <1>1, <1>3, PartsTyped DEF l
    <3>3. IsStretch(c.body, Body(req), 0, m, Units)
      BY <1>3, <3>1, <3>2, PartIs
    <3> QED BY <3>1, <3>2, <3>3 DEF IsStretch
  <2>9. c.discarding => l > MaxBody
    BY <1>2 DEF Kept, l
  <2>10. MaxBody \in Nat
    BY LimitsAssumption
  <2>11. (x => l > MaxBody) /\ (m + n > MaxBody => x) /\ (~x => ~c.discarding)
    <3>1. CASE c.discarding
      BY <2>5, <2>9, <3>1
    <3>2. CASE ~c.discarding
      <4>1. Len(c.body) = m /\ m <= MaxBody
        BY <1>2, <1>3, <2>8, <2>10, <3>2
      <4>2. v = m + n
        BY <1>3, <1>5, <4>1
      <4> QED BY <1>3, <2>5, <2>10, <3>2, <4>2
    <3> QED BY <3>1, <3>2
  <2>12. Kept(d, req, m)
    <3>1. m <= l
      BY <1>3
    <3> QED BY <1>3, <2>7, <2>8, <2>11, <3>1 DEF Kept, l
  <2>13. InChunk(d, req, o, p + 3, j)
    <3>1. CASE n = 0
      <4>1. j = Len(req.chunks) /\ m + n = m /\ p + 3 = s + 3
        BY <1>2, <1>3, <3>1
      <4>2. KeptTo(d, req, m, m)
        BY <2>7, <2>11, <2>12, <4>1 DEF KeptTo
      <4> QED BY <2>6, <2>7, <3>1, <4>1, <4>2 DEF InChunk, AtEnd, m, s
    <3>2. CASE n # 0
      <4>1. j < Len(req.chunks) /\ m + 0 = m /\ p + 3 = s + 3 + 0 /\ 0 \in Nat /\ 0 < n
        <5>1. Len(req.chunks) \in Nat
          BY <1>1, PartsTyped
        <5> QED BY <1>2, <1>3, <3>2, <5>1
      <4>2. KeptTo(d, req, m + 0, m + n)
        BY <2>7, <2>11, <2>12, <4>1 DEF KeptTo
      <4>3. d.chunk.state = "CHUNK_DATA" /\ d.chunk.size = n /\ d.chunk.read = 0
        BY <2>6, <2>7, <3>2
      <4>4. AtData(d, req, o, p + 3, j)
        BY <4>1, <4>2, <4>3 DEF AtData, m, n, s
      <4> QED BY <4>4 DEF InChunk
    <3> QED BY <3>1, <3>2
  <2>14. p + 3 \in Nat /\ p + 3 > p
    BY <1>4
  <2>15. Turned(c, d, req, w, o, r, p)
    BY <1>1, <2>3, <2>7, <2>13, <2>14, GoesOn
  <2> QED BY <2>1, <2>15
<1> QED BY <1>8, <1>9

LEMMA DataTurns ==
  ASSUME NEW c, NEW req, NEW w, NEW o, NEW r, NEW p, NEW j, Turning(c, req, w, o, r, p, j),
         AtData(c, req, o, p, j), c.buffer # <<>>, Placed(req, w, o)
  PROVE  Turned(c, ChunkData(c), req, w, o, r, p)
<1> DEFINE s == Start(req, o, j)
           n == Said(req, j)
           h == Before(req, j)
           l == Len(Body(req))
           rd == c.chunk.read
           t == Least(Len(c.buffer), c.chunk.size - c.chunk.read)
           st == IF c.chunk.read + t = c.chunk.size THEN "CHUNK_CRLF" ELSE c.chunk.state
           k == [c.chunk EXCEPT !.read = c.chunk.read + t, !.state = st]
           b == Erase(c.buffer, t)
           Taken(d) == [d EXCEPT !.chunk.read = @ + t,
                                 !.chunk.state = IF c.chunk.read + t = c.chunk.size
                                                 THEN "CHUNK_CRLF" ELSE @]
<1>1. /\ c \in ClientRec /\ req \in Request /\ c.phase = "BODY"
      /\ Holds(c.buffer, w, p, r) /\ SizeAt(req, w, o, j) /\ j \in 0..Len(req.chunks)
      /\ Contains(req.headers, Chunked)
  BY DEF Turning
<1>2. /\ c.chunk.state = "CHUNK_DATA" /\ j < Len(req.chunks) /\ c.chunk.size = n
      /\ rd \in Nat /\ rd < n /\ p = s + 3 + rd
      /\ Kept(c, req, h + rd) /\ (h + n > MaxBody => c.discarding)
  BY DEF AtData, KeptTo
<1>3. /\ j \in Nat /\ s \in Nat /\ n \in Nat /\ h \in Nat /\ h + n <= l /\ l \in Nat
  BY <1>1 DEF SizeAt
<1>4. /\ c.buffer \in Seq(Units) /\ Len(c.buffer) = r - p /\ p \in Nat /\ r \in Nat
      /\ p <= r /\ c.chunk \in ChunkRec
  BY <1>1, HoldsIs, ParserFields
<1>5. t \in Nat /\ t > 0 /\ t <= r - p /\ rd + t <= n
  <2>1. Len(c.buffer) # 0
    BY <1>4, EmptySeq
  <2>2. t = Least(r - p, n - rd) /\ r - p # 0
    BY <1>2, <1>4, <2>1
  <2> HIDE DEF t, rd, n, s, h, l
  <2>3. /\ r \in Nat /\ p \in Nat /\ p <= r /\ r - p # 0
        /\ n \in Nat /\ rd \in Nat /\ rd < n
    BY <1>2, <1>3, <1>4, <2>2
  <2>4. t = IF r - p <= n - rd THEN r - p ELSE n - rd
    BY <2>2 DEF Least
  <2> QED BY <2>3, <2>4
<1>6. ChunkData(c) =
        IF c.discarding THEN Taken([c EXCEPT !.buffer = b])
        ELSE IF AppendFails(c, t) THEN AppendError(c)
        ELSE Taken(AppendBody(c, t))
  BY DEF ChunkData
<1> HIDE DEF t, b
<1>7. /\ k.read = rd + t /\ k.size = n
      /\ k.state = IF rd + t = n THEN "CHUNK_CRLF" ELSE "CHUNK_DATA"
  BY <1>2, <1>4 DEF ChunkRec
<1>8. ASSUME NEW d, d.chunk = c.chunk, d = [d EXCEPT !.chunk = c.chunk]
      PROVE  Taken(d) = [d EXCEPT !.chunk = k]
  BY <1>8
<1> HIDE DEF Taken, k, rd, n, s, h, l
<1>9. /\ p + t \in Nat /\ p + t > p /\ h + (rd + t) \in Nat /\ h + (rd + t) <= l
      /\ h + rd \in Nat /\ (h + rd) + t = h + (rd + t) /\ p + t = s + 3 + (rd + t)
      /\ rd + t \in Nat /\ (rd + t # n => rd + t < n)
  BY <1>2, <1>3, <1>4, <1>5
\* The chunk that is left.
<1>10. ASSUME NEW d, d.chunk = k, d.discarding = c.discarding, Kept(d, req, h + (rd + t))
       PROVE  InChunk(d, req, o, p + t, j)
  <2>1. KeptTo(d, req, h + (rd + t), h + n)
    BY <1>2, <1>10 DEF KeptTo
  <2>2. CASE rd + t = n
    <3>1. d.chunk.state = "CHUNK_CRLF" /\ p + t = s + 3 + n /\ KeptTo(d, req, h + n, h + n)
      BY <1>7, <1>9, <1>10, <2>1, <2>2
    <3>2. AtLineEnd(d, req, o, p + t, j)
      BY <1>2, <3>1 DEF AtLineEnd, s, n, h
    <3> QED BY <3>2 DEF InChunk
  <2>3. CASE rd + t # n
    <3>1. d.chunk.state = "CHUNK_DATA" /\ d.chunk.size = n /\ d.chunk.read = rd + t
      BY <1>7, <1>10, <2>3
    <3> DEFINE v == rd + t
    <3>2. v \in Nat /\ v < n /\ p + t = s + 3 + v /\ KeptTo(d, req, h + v, h + n)
      BY <1>9, <2>1, <2>3
    <3>3. d.chunk.read = v
      BY <3>1
    <3> HIDE DEF v
    <3>4. AtData(d, req, o, p + t, j)
      BY <1>2, <3>1, <3>2, <3>3 DEF AtData, s, n, h
    <3> QED BY <3>4 DEF InChunk
  <2> QED BY <2>2, <2>3
<1>11. CASE c.discarding
  <2> DEFINE d == [c EXCEPT !.buffer = b]
             f == [d EXCEPT !.chunk = k]
  <2>1. d.chunk = c.chunk /\ d = [d EXCEPT !.chunk = c.chunk]
    BY <1>1 DEF ClientRec
  <2>2. ChunkData(c) = f
    BY <1>6, <1>8, <1>11, <2>1
  <2>3. /\ f.phase = c.phase /\ f.headers = c.headers /\ f.state = c.state
        /\ f.buffer = b /\ f.discarding = c.discarding /\ f.chunk = k
    BY <1>1 DEF ClientRec
  <2> HIDE DEF d, f
  <2>4. Holds(b, w, p + t, r)
    BY <1>1, <1>5, HoldsLess DEF b
  <2>5. Kept(f, req, h + (rd + t))
    BY <1>2, <1>9, <1>11, <2>3 DEF Kept, l
  <2>6. InChunk(f, req, o, p + t, j)
    BY <1>10, <2>3, <2>5
  <2>7. Turned(c, f, req, w, o, r, p)
    BY <1>1, <1>9, <2>3, <2>4, <2>6, GoesOn
  <2> QED BY <2>2, <2>7
<1>12. ASSUME ~c.discarding
       PROVE  TookOrFailed(c, req, w, p + t, r, h + (rd + t), t)
  <2> DEFINE x == req.chunks[j + 1]
             a == s + 3
             q == p + t
             m == h + rd
             z == h + (rd + t)
             u == rd + t
  <2>1. /\ ChunkLaid(req, w, s, j) /\ ChunkOfBody(req, j) /\ n = Len(x)
    <3>1. ChunkOfBody(req, j)
      BY <1>1, <1>2, <1>3, ChunksOfBody
    <3>2. ChunkLaid(req, w, s, j)
      BY <1>1, <1>2, <1>3, ChunksLaid DEF s
    <3> QED BY <1>2, <3>1, <3>2 DEF Said, n
  <2>2. Inside(x, w, a) /\ Inside(x, Body(req), h)
    BY <2>1 DEF ChunkLaid, ChunkOfBody, h
  <2>3. x \in Seq(Units) /\ Body(req) \in Seq(Units) /\ w \in Seq(Units)
    <3>0. req.chunks \in Seq(Seq(Units)) /\ Body(req) \in Seq(Units) /\ Len(req.chunks) \in Nat
      BY <1>1, PartsTyped
    <3>1. req.chunks \in Seq(Seq(Units)) /\ j + 1 \in 1..Len(req.chunks)
          /\ Body(req) \in Seq(Units)
      BY <1>1, <1>2, <1>3, <3>0
    <3>2. x \in Seq(Units)
      BY <3>1, ElementOfSeq
    <3> QED BY <1>1, <3>1, <3>2 DEF Holds
  <2>4. a \in Nat /\ a + n <= Len(w)
    <3>1. s + 5 + n <= o + Len(Bytes(req)) /\ o + Len(Bytes(req)) <= Len(w)
          /\ o + Len(Bytes(req)) \in Nat /\ Len(w) \in Nat
      BY <1>1, <2>3 DEF SizeAt, Placed, s, n
    <3> QED BY <1>3, <3>1
  <2>5. /\ rd \in Nat /\ u \in Nat /\ rd <= u /\ u <= n
        /\ rd + a = p /\ u + a = q /\ rd + h = m /\ u + h = z
        /\ p \in Nat /\ q \in Nat /\ m \in Nat /\ z \in Nat /\ h \in Nat
        /\ h + n <= l /\ q = p + t /\ z = m + t /\ z <= l
    <3>1. /\ rd \in Nat /\ rd <= u /\ u \in Nat /\ u <= n
      BY <1>2, <1>3, <1>5
    <3>2. rd + a = p /\ u + a = q
      BY <1>2, <1>3, <1>5, <1>9
    <3>3. rd + h = m /\ u + h = z /\ z = m + t
      BY <1>2, <1>3, <1>5
    <3> QED BY <1>3, <1>4, <1>9, <3>1, <3>2, <3>3
  <2> HIDE DEF a, q, m, z, u, x
  <2>6. PieceAt(x, w, a, p, q, rd, u)
    BY <2>1, <2>2, <2>3, <2>4, <2>5 DEF PieceAt
  <2>7. PieceAt(x, Body(req), h, m, z, rd, u)
    BY <2>1, <2>2, <2>3, <2>5 DEF PieceAt, l
  <2>8. Stretch(w, p, q) = Stretch(Body(req), m, z)
    <3>1. Stretch(w, p, q) = Stretch(x, rd, u)
      BY <2>6, PieceOf
    <3>2. Stretch(Body(req), m, z) = Stretch(x, rd, u)
      BY <2>7, PieceOf
    <3> QED BY <3>1, <3>2
  <2>9. Kept(c, req, m)
    BY <1>2 DEF m
  <2>10. Takes(c, req, w, p, q, r, m, z, t)
    BY <1>1, <1>5, <1>12, <2>5, <2>8, <2>9 DEF Takes, l
  <2>11. TookOrFailed(c, req, w, q, r, z, t)
    BY <2>10, AppendTakes
  <2> QED BY <2>11 DEF q, z
<1>13. CASE ~c.discarding /\ AppendFails(c, t)
  <2> DEFINE q == [c EXCEPT !.state = "PARSE_ERROR", !.phase = "FINISHED"]
  <2>1. ChunkData(c) = q
    BY <1>6, <1>13 DEF AppendError
  <2>2. q.phase = "FINISHED" /\ q.state = "PARSE_ERROR"
    BY <1>1 DEF ClientRec
  <2> HIDE DEF q
  <2>3. Len(Body(req)) > MaxBuffer /\ disk = "full"
    BY <1>12, <1>13 DEF TookOrFailed
  <2>4. Ended(q, req, w, o, r)
    BY <2>2, <2>3 DEF Ended
  <2> QED BY <2>1, <2>4 DEF Turned
<1>14. CASE ~c.discarding /\ ~AppendFails(c, t)
  <2> DEFINE q == p + t
             v == h + (rd + t)
  <2>1. TookOrFailed(c, req, w, q, r, v, t)
    BY <1>12, <1>14
  <2> HIDE DEF q, v
  <2>2. PICK x \in BOOLEAN, y \in Seq(Units), z \in Seq(Units) :
          /\ AppendBody(c, t) = [c EXCEPT !.inDisk = x, !.body = y, !.buffer = z]
          /\ Holds(z, w, q, r) /\ y = Stretch(Body(req), 0, v)
          /\ x => v > MaxBuffer
    BY <2>1 DEF TookOrFailed
  <2> DEFINE d == [c EXCEPT !.inDisk = x, !.body = y, !.buffer = z]
             f == [d EXCEPT !.chunk = k]
  <2>3. d.chunk = c.chunk /\ d = [d EXCEPT !.chunk = c.chunk]
    BY <1>1 DEF ClientRec
  <2>4. ChunkData(c) = f
    BY <1>6, <1>8, <1>14, <2>2, <2>3
  <2>5. /\ f.phase = c.phase /\ f.headers = c.headers /\ f.state = c.state
        /\ f.buffer = z /\ f.discarding = c.discarding /\ f.chunk = k
        /\ f.body = y /\ f.inDisk = x
    BY <1>1 DEF ClientRec
  <2> HIDE DEF d, f
  <2>6. v \in Nat /\ v <= l
    BY <1>9 DEF v
  <2>7. Kept(f, req, v)
    BY <1>14, <2>2, <2>5, <2>6 DEF Kept, l
  <2>8. InChunk(f, req, o, p + t, j)
    BY <1>10, <2>5, <2>7 DEF v
  <2>9. q \in Nat /\ q > p /\ InChunk(f, req, o, q, j)
    BY <1>9, <2>8 DEF q
  <2>10. Turned(c, f, req, w, o, r, p)
    BY <1>1, <2>2, <2>5, <2>9, GoesOn
  <2> QED BY <2>4, <2>10
<1>15. c.discarding \in BOOLEAN
  BY <1>1, ParserFields
<1> QED BY <1>11, <1>13, <1>14, <1>15

LEMMA LineEndTurns ==
  ASSUME NEW c, NEW req, NEW w, NEW o, NEW r, NEW p, NEW j, Turning(c, req, w, o, r, p, j),
         AtLineEnd(c, req, o, p, j), Placed(req, w, o)
  PROVE  Turned(c, ChunkCRLF(c), req, w, o, r, p)
<1> DEFINE s == Start(req, o, j)
           n == Said(req, j)
           h == Before(req, j)
           b == Erase(c.buffer, 2)
           k == [c.chunk EXCEPT !.state = "CHUNK_SIZE"]
           d == [c EXCEPT !.buffer = b, !.chunk = k]
           i == j + 1
<1>1. /\ c \in ClientRec /\ req \in Request /\ c.phase = "BODY"
      /\ Holds(c.buffer, w, p, r) /\ SizeAt(req, w, o, j) /\ j \in 0..Len(req.chunks)
      /\ Contains(req.headers, Chunked)
  BY DEF Turning
<1>2. /\ j < Len(req.chunks) /\ p = s + 3 + n
      /\ KeptTo(c, req, h + n, h + n)
  BY DEF AtLineEnd
<1>3. /\ j \in Nat /\ s \in Nat /\ n \in Nat /\ h \in Nat /\ Len(req.chunks) \in Nat
  BY <1>1, PartsTyped DEF SizeAt
<1>4. Len(c.buffer) = r - p /\ p \in Nat /\ r \in Nat /\ p <= r /\ c.chunk \in ChunkRec
  BY <1>1, HoldsIs, ParserFields
<1>5. /\ i \in 0..Len(req.chunks) /\ Start(req, o, i) = s + 5 + n /\ Before(req, i) = h + n
      /\ Start(req, o, i) + 5 <= o + Len(Bytes(req)) /\ o + Len(Bytes(req)) \in Nat
  <2>1. i \in 0..Len(req.chunks) /\ n = Len(req.chunks[j + 1])
    BY <1>2, <1>3 DEF Said
  <2>2. ChunkOfBody(req, j)
    BY <1>1, <1>2, <1>3, ChunksOfBody
  <2>3. Start(req, o, i) = s + 5 + n
    BY <1>1, <1>2, <1>3, <2>1, ChunksLaid
  <2>4. Start(req, o, i) + 5 <= o + Len(Bytes(req))
    BY <1>1, <2>1, ChunksLaid
  <2> QED BY <1>1, <2>1, <2>2, <2>3, <2>4 DEF ChunkOfBody, SizeAt
<1> HIDE DEF s, n, h, i
<1>6. CASE Len(c.buffer) < 2
  <2>1. ChunkCRLF(c) = c
    BY <1>6 DEF ChunkCRLF
  <2>2. r < o + Len(Bytes(req))
    BY <1>2, <1>3, <1>4, <1>5, <1>6
  <2> QED BY <2>1, <2>2 DEF Turned
<1>7. CASE ~(Len(c.buffer) < 2)
  <2>1. ChunkCRLF(c) = d
    BY <1>7 DEF ChunkCRLF
  <2>2. k.state = "CHUNK_SIZE"
    BY <1>4 DEF ChunkRec
  <2> HIDE DEF k
  <2>3. Holds(b, w, p + 2, r)
    <3>1. 2 \in Nat /\ 2 <= r - p
      BY <1>4, <1>7
    <3> QED BY <1>1, <3>1, HoldsLess
  <2> HIDE DEF b
  <2>4. /\ d.phase = c.phase /\ d.headers = c.headers /\ d.state = c.state
        /\ d.buffer = b /\ d.discarding = c.discarding /\ d.chunk = k
        /\ d.body = c.body /\ d.inDisk = c.inDisk
    BY <1>1 DEF ClientRec
  <2> HIDE DEF d
  <2>5. p + 2 \in Nat /\ p + 2 > p /\ p + 2 = Start(req, o, i)
    BY <1>2, <1>3, <1>4, <1>5
  <2>6. KeptTo(d, req, Before(req, i), Before(req, i))
    BY <1>2, <1>5, <2>4 DEF KeptTo, Kept
  <2>7. InChunk(d, req, o, p + 2, i)
    BY <2>2, <2>4, <2>5, <2>6 DEF InChunk, AtSize
  <2>8. Turned(c, d, req, w, o, r, p)
    BY <1>1, <1>5, <2>3, <2>4, <2>5, <2>7, GoesOn
  <2> QED BY <2>1, <2>8
<1> QED BY <1>6, <1>7

LEMMA EndTurns ==
  ASSUME NEW c, NEW req, NEW w, NEW o, NEW r, NEW p, NEW j, Turning(c, req, w, o, r, p, j),
         AtEnd(c, req, o, p, j), Placed(req, w, o)
  PROVE  Turned(c, ChunkDone(c), req, w, o, r, p)
<1> DEFINE s == Start(req, o, j)
           l == Len(Body(req))
           b == Erase(c.buffer, 2)
           st == IF c.discarding THEN "PARSE_TOO_LARGE" ELSE c.state
           d == [c EXCEPT !.buffer = b, !.phase = "FINISHED", !.state = st]
<1>1. /\ c \in ClientRec /\ req \in Request /\ c.phase = "BODY" /\ c.state \notin Parsed
      /\ Holds(c.buffer, w, p, r) /\ SizeAt(req, w, o, j) /\ j \in 0..Len(req.chunks)
      /\ Contains(req.headers, Chunked)
  BY DEF Turning
<1>2. /\ j = Len(req.chunks) /\ p = s + 3
      /\ Kept(c, req, Before(req, j)) /\ (Before(req, j) > MaxBody => c.discarding)
  BY DEF AtEnd, KeptTo
<1>3. Before(req, j) = l
  BY <1>1, <1>2, ChunksOfBody
<1>4. Len(c.buffer) = r - p /\ p \in Nat /\ r \in Nat /\ p <= r /\ c.discarding \in BOOLEAN
  BY <1>1, HoldsIs, ParserFields
<1>5. s \in Nat /\ o + Len(Bytes(req)) \in Nat /\ s + 5 = o + Len(Bytes(req)) /\ l \in Nat
  <2>1. s \in Nat /\ o + Len(Bytes(req)) \in Nat /\ l \in Nat
    BY <1>1 DEF SizeAt
  <2>2. s + 5 = o + Len(Bytes(req))
    BY <1>1, <1>2, ChunksLaid
  <2> QED BY <2>1, <2>2
<1> HIDE DEF s, l
<1>6. CASE Len(c.buffer) < 2
  <2>1. ChunkDone(c) = c
    BY <1>6 DEF ChunkDone
  <2>2. r < o + Len(Bytes(req))
    BY <1>2, <1>4, <1>5, <1>6
  <2> QED BY <2>1, <2>2 DEF Turned
<1>7. CASE ~(Len(c.buffer) < 2)
  <2>1. ChunkDone(c) = d
    BY <1>7 DEF ChunkDone
  <2>2. Holds(b, w, p + 2, r)
    <3>1. 2 \in Nat /\ 2 <= r - p
      BY <1>4, <1>7
    <3> QED BY <1>1, <3>1, HoldsLess
  <2>3. p + 2 = o + Len(Bytes(req))
    BY <1>2, <1>4, <1>5
  <2>4. d.phase = "FINISHED" /\ d.state = st /\ d.buffer = b /\ d.discarding = c.discarding
        /\ d.body = c.body
    BY <1>1 DEF ClientRec
  <2> HIDE DEF d, b
  <2>5. CASE c.discarding
    <3>1. l > MaxBody /\ d.state = "PARSE_TOO_LARGE"
      BY <1>2, <2>4, <2>5 DEF Kept, l
    <3>2. Ended(d, req, w, o, r)
      BY <2>4, <3>1 DEF Ended, l
    <3> QED BY <2>1, <3>2 DEF Turned
  <2>6. CASE ~c.discarding
    <3>1. c.body = Body(req)
      <4>1. Body(req) \in Seq(Units)
        BY <1>1, PartsTyped
      <4>2. c.body = Stretch(Body(req), 0, l)
        BY <1>2, <1>3, <2>6 DEF Kept
      <4> QED BY <4>1, <4>2, StretchAll DEF l
    <3>2. l <= MaxBody
      <4>1. ~(l > MaxBody)
        BY <1>2, <1>3, <2>6
      <4> QED BY <1>5, <4>1, LimitsAssumption
    <3>3. Holds(d.buffer, w, o + Len(Bytes(req)), r) /\ d.state \notin Parsed
      BY <1>1, <2>2, <2>3, <2>4, <2>6
    <3>4. Ended(d, req, w, o, r)
      BY <2>4, <2>6, <3>1, <3>2, <3>3 DEF Ended, l
    <3> QED BY <2>1, <3>4 DEF Turned
  <2> QED BY <1>4, <2>5, <2>6
<1> QED BY <1>6, <1>7

\* What a turn leads to is left or ended.
LEMMA StepTurns ==
  ASSUME NEW c \in Parsers, NEW req, NEW w, NEW o, NEW r, NEW p,
         Placed(req, w, o), WellFormed(req), ChunksLeft(c, req, w, o, r, p), c.state \notin Parsed
  PROVE  Turned(c, ChunkStep(c), req, w, o, r, p)
<1>1. /\ c.phase = "BODY" /\ c.headers = ToSet(req.headers) /\ Contains(req.headers, Chunked)
      /\ Holds(c.buffer, w, p, r) /\ c \in ClientRec /\ req \in Request
  BY DEF ChunksLeft, Parsers, Placed
<1>2. PICK j \in 0..Len(req.chunks) : InChunk(c, req, o, p, j)
  BY DEF ChunksLeft
<1>3. SizeAt(req, w, o, j)
  BY <1>1, SizeLies
<1>4. Turning(c, req, w, o, r, p, j)
  <2>1. Said(req, j) + MaxBody < WordSize
    <3>1. CASE j < Len(req.chunks)
      <4>1. j + 1 \in 1..Len(req.chunks)
        BY <1>1, <3>1, PartsTyped
      <4>2. Len(req.chunks[j + 1]) + MaxBody < WordSize
        BY <1>1, <4>1 DEF WellFormed
      <4> QED BY <3>1, <4>2 DEF Said
    <3>2. CASE ~(j < Len(req.chunks))
      <4>1. Said(req, j) = 0
        BY <3>2 DEF Said
      <4> QED BY <4>1, WordSizeAssumption, LimitsAssumption
    <3> QED BY <3>1, <3>2
  <2> QED BY <1>1, <1>3, <2>1 DEF Turning
<1>5. CASE c.buffer = <<>>
  <2> DEFINE s == Start(req, o, j)
             n == Said(req, j)
             e == o + Len(Bytes(req))
  <2>1. s \in Nat /\ n \in Nat /\ e \in Nat /\ s + 5 + n <= e
    BY <1>3 DEF SizeAt
  <2>2. p \in Nat /\ r \in Nat /\ r = p
    <3>1. Len(c.buffer) = r - p /\ p \in Nat /\ r \in Nat
      BY <1>1, HoldsIs
    <3>2. Len(c.buffer) = 0
      BY <1>5, EmptySeq
    <3> QED BY <3>1, <3>2
  <2>3. \/ p = s \/ p = s + 3 \/ p = s + 3 + n
        \/ c.chunk.read \in Nat /\ c.chunk.read < n /\ p = s + 3 + c.chunk.read
    BY <1>2 DEF InChunk, AtSize, AtData, AtLineEnd, AtEnd
  <2> HIDE DEF s, n, e
  <2>4. r < e
    BY <2>1, <2>2, <2>3
  <2>5. ChunkStep(c) = c
    BY <1>5 DEF ChunkStep
  <2> QED BY <2>4, <2>5 DEF Turned, e
<1>6. CASE c.buffer # <<>>
  <2>0. c.phase # "FINISHED"
    BY <1>1
  <2>1. CASE AtSize(c, req, o, p, j)
    <3>1. ChunkStep(c) = ChunkSize(c)
      BY <1>6, <2>0, <2>1 DEF ChunkStep, AtSize
    <3> QED BY <1>4, <1>6, <2>1, <3>1, SizeTurns
  <2>2. CASE AtData(c, req, o, p, j)
    <3>1. ChunkStep(c) = ChunkData(c)
      BY <1>6, <2>0, <2>2 DEF ChunkStep, AtData
    <3> QED BY <1>4, <1>6, <2>2, <3>1, DataTurns
  <2>3. CASE AtLineEnd(c, req, o, p, j)
    <3>1. ChunkStep(c) = ChunkCRLF(c)
      BY <1>6, <2>0, <2>3 DEF ChunkStep, AtLineEnd
    <3> QED BY <1>4, <1>6, <2>3, <3>1, LineEndTurns
  <2>4. CASE AtEnd(c, req, o, p, j)
    <3>1. ChunkStep(c) = ChunkDone(c)
      BY <1>6, <2>0, <2>4 DEF ChunkStep, AtEnd
    <3> QED BY <1>4, <1>6, <2>4, <3>1, EndTurns
  <2> QED BY <1>2, <2>1, <2>2, <2>3, <2>4 DEF InChunk
<1> QED BY <1>5, <1>6

\* After n turns: the end, or at least n units more, or nothing to go on with.
AfterTurns(d, req, w, o, r, p, n) ==
  \/ Ended(d, req, w, o, r)
  \/ /\ d.state \notin Parsed
     /\ \E q \in Nat : /\ ChunksLeft(d, req, w, o, r, q)
                       /\ q >= p + n \/ (ChunkStep(d) = d /\ r < o + Len(Bytes(req)))

LEMMA OneMoreTurn ==
  ASSUME NEW d \in Chunking, NEW req, NEW w, NEW o, NEW r, NEW p \in Nat, NEW n \in Nat,
         Placed(req, w, o), WellFormed(req), AfterTurns(d, req, w, o, r, p, n)
  PROVE  AfterTurns(ChunkStep(d), req, w, o, r, p, n + 1)
<1> DEFINE e == ChunkStep(d)
<1>1. CASE Ended(d, req, w, o, r)
  <2>1. e = d
    BY <1>1 DEF Ended, ChunkStep
  <2> QED BY <1>1, <2>1 DEF AfterTurns
<1>2. CASE ~Ended(d, req, w, o, r)
  <2>1. PICK q \in Nat : /\ d.state \notin Parsed /\ ChunksLeft(d, req, w, o, r, q)
                         /\ q >= p + n \/ (e = d /\ r < o + Len(Bytes(req)))
    BY <1>2 DEF AfterTurns
  <2>2. CASE e = d /\ r < o + Len(Bytes(req))
    <3>1. ChunkStep(e) = e /\ ChunksLeft(e, req, w, o, r, q) /\ e.state \notin Parsed
      BY <2>1, <2>2
    <3> HIDE DEF e
    <3>2. AfterTurns(e, req, w, o, r, p, n + 1)
      BY <2>2, <3>1 DEF AfterTurns
    <3> QED BY <3>2 DEF e
  <2>3. CASE q >= p + n /\ ~(e = d /\ r < o + Len(Bytes(req)))
    <3>1. Turned(d, e, req, w, o, r, q)
      BY <2>1, StepTurns DEF Chunking
    <3> HIDE DEF e
    <3>2. CASE Ended(e, req, w, o, r)
      BY <3>2 DEF AfterTurns, e
    <3>3. CASE ~Ended(e, req, w, o, r)
      <4>1. PICK v \in Nat : e.state = d.state /\ v > q /\ ChunksLeft(e, req, w, o, r, v)
        BY <2>3, <3>1, <3>3 DEF Turned
      <4>2. v >= p + (n + 1)
        BY <2>3, <4>1
      <4>3. AfterTurns(e, req, w, o, r, p, n + 1)
        BY <2>1, <4>1, <4>2 DEF AfterTurns
      <4> QED BY <4>3 DEF e
    <3> QED BY <3>2, <3>3
  <2> QED BY <2>1, <2>2, <2>3
<1> QED BY <1>1, <1>2

\* parseChunkBody goes as far as what has been read.
LEMMA ChunksParsed ==
  ASSUME NEW c \in Parsers, NEW req, NEW w, NEW o, NEW r, NEW p,
         Placed(req, w, o), WellFormed(req), ChunksLeft(c, req, w, o, r, p), c.state \notin Parsed
  PROVE  \/ r < o + Len(Bytes(req)) /\ \E q \in Nat : ChunksLeft(ParseChunks(c), req, w, o, r, q)
         \/ Ended(ParseChunks(c), req, w, o, r)
<1> DEFINE G == {x \in Nat \X Chunking : AfterTurns(x[2], req, w, o, r, p, x[1])}
           m == Len(c.buffer)
           z == ParseChunks(c)
<1>1. /\ Holds(c.buffer, w, p, r) /\ req \in Request /\ c \in Chunking
  <2>1. /\ c.phase = "BODY" /\ c.headers = ToSet(req.headers) /\ Contains(req.headers, Chunked)
        /\ Holds(c.buffer, w, p, r) /\ req \in Request
    BY DEF ChunksLeft, Placed
  <2>2. Chunked \in c.headers
    BY <2>1, HeadersHave
  <2> QED BY <2>1, <2>2 DEF Chunking
<1>2. m = r - p /\ m \in Nat /\ p \in Nat /\ r \in Nat
  <2>1. m = r - p /\ p \in Nat /\ r \in Nat /\ p <= r
    BY <1>1, HoldsIs
  <2> QED BY <2>1
<1> HIDE DEF m
<1>3. <<0, c>> \in G
  <2>1. p >= p + 0
    BY <1>2
  <2>2. AfterTurns(c, req, w, o, r, p, 0)
    BY <1>2, <2>1 DEF AfterTurns
  <2> QED BY <1>1, <2>2
<1>4. ASSUME NEW k \in Nat, NEW d, <<k, d>> \in G
      PROVE  <<k + 1, ChunkStep(d)>> \in G
  <2>1. d \in Chunking /\ AfterTurns(d, req, w, o, r, p, k)
    BY <1>4
  <2>2. AfterTurns(ChunkStep(d), req, w, o, r, p, k + 1)
    BY <1>2, <2>1, OneMoreTurn
  <2>3. ChunkStep(d) \in Chunking /\ k + 1 \in Nat
    BY <2>1, ChunkStepKeeps
  <2> QED BY <2>2, <2>3
<1> HIDE DEF G
<1>5. <<m, z>> \in G
  BY <1>2, <1>3, <1>4, LoopCounts DEF m
<1> HIDE DEF z
<1>6. AfterTurns(z, req, w, o, r, p, m)
  BY <1>5 DEF G
<1>7. CASE ~Ended(z, req, w, o, r)
  <2>1. PICK q \in Nat : /\ ChunksLeft(z, req, w, o, r, q) /\ z.state \notin Parsed
                         /\ q >= p + m \/ (ChunkStep(z) = z /\ r < o + Len(Bytes(req)))
    BY <1>6, <1>7 DEF AfterTurns
  <2>2. r < o + Len(Bytes(req))
    <3> SUFFICES ASSUME q >= p + m PROVE r < o + Len(Bytes(req))
      BY <2>1
    <3>1. Holds(z.buffer, w, q, r)
      BY <2>1 DEF ChunksLeft
    <3>2. q <= r
      BY <3>1, HoldsIs
    <3>3. q = r
      BY <1>2, <3>2
    <3>4. PICK j \in 0..Len(req.chunks) : InChunk(z, req, o, q, j)
      BY <2>1 DEF ChunksLeft
    <3>5. SizeAt(req, w, o, j)
      <4>1. Contains(req.headers, Chunked)
        BY <2>1 DEF ChunksLeft
      <4> QED BY <4>1, SizeLies
    <3> DEFINE s == Start(req, o, j)
               n == Said(req, j)
               e == o + Len(Bytes(req))
    <3>6. s \in Nat /\ n \in Nat /\ e \in Nat /\ s + 5 + n <= e
      BY <3>5 DEF SizeAt
    <3>7. \/ q = s \/ q = s + 3 \/ q = s + 3 + n
          \/ z.chunk.read \in Nat /\ z.chunk.read < n /\ q = s + 3 + z.chunk.read
      BY <3>4 DEF InChunk, AtSize, AtData, AtLineEnd, AtEnd
    <3> HIDE DEF s, n, e
    <3>8. r < e
      BY <1>2, <3>3, <3>6, <3>7
    <3> QED BY <3>8 DEF e
  <2> QED BY <2>1, <2>2 DEF z
<1> QED BY <1>7 DEF z

-----------------------------------------------------------------------------
(* A request is parsed *)

\* The parser waits for more of the request that is sent behind the first o units
\* of w, of which r have been read.
Waits(c, req, w, o, r) ==
  \/ LineLeft(c, w, o, r) \/ HeadLeft(c, w, o, r) \/ LengthLeft(c, req, w, o, r)
  \/ \E q \in Nat : ChunksLeft(c, req, w, o, r, q)

\* What it waits for is not told by the state of the client.
LEMMA WaitsOn ==
  ASSUME NEW c, NEW d, NEW req, NEW w, NEW o, NEW r, NEW s, Waits(c, req, w, o, r),
         d.phase = c.phase, d.headers = c.headers, d.chunk = c.chunk,
         d.hasLength = c.hasLength, d.length = c.length, d.bytesRead = c.bytesRead,
         d.discarding = c.discarding, d.body = c.body, d.inDisk = c.inDisk,
         \A p : Holds(c.buffer, w, p, r) => Holds(d.buffer, w, p, s)
  PROVE  Waits(d, req, w, o, s)
<1>1. Fresh(c) => Fresh(d)
  BY DEF Fresh
<1>2. \A m : Kept(c, req, m) => Kept(d, req, m)
  BY DEF Kept
<1>3. CASE LineLeft(c, w, o, r)
  BY <1>1, <1>3 DEF LineLeft, Waits
<1>4. CASE HeadLeft(c, w, o, r)
  BY <1>1, <1>4 DEF HeadLeft, Waits
<1>5. CASE LengthLeft(c, req, w, o, r)
  <2>1. LengthTaken(d, req, w, o, s)
    BY <1>2, <1>5 DEF LengthLeft, LengthTaken
  <2>2. LengthLeft(d, req, w, o, s)
    BY <1>5, <2>1 DEF LengthLeft
  <2> QED BY <2>2 DEF Waits
<1>6. CASE \E q \in Nat : ChunksLeft(c, req, w, o, r, q)
  <2>1. PICK q \in Nat : ChunksLeft(c, req, w, o, r, q)
    BY <1>6
  <2>2. PICK j \in 0..Len(req.chunks) : InChunk(c, req, o, q, j)
    BY <2>1 DEF ChunksLeft
  <2>3. \A m, n : KeptTo(c, req, m, n) => KeptTo(d, req, m, n)
    BY <1>2 DEF KeptTo
  <2>4. InChunk(d, req, o, q, j)
    BY <2>2, <2>3 DEF InChunk, AtSize, AtData, AtLineEnd, AtEnd
  <2>5. ChunksLeft(d, req, w, o, s, q)
    BY <2>1, <2>4 DEF ChunksLeft
  <2> QED BY <2>5 DEF Waits
<1> QED BY <1>3, <1>4, <1>5, <1>6 DEF Waits

\* A body in chunks begins with a size line.
LEMMA ChunksStart ==
  ASSUME NEW c \in Parsers, NEW req, NEW w, NEW o, NEW r,
         Placed(req, w, o), WellFormed(req), Contains(req.headers, Chunked),
         BodyLeft(c, req, w, o, r)
  PROVE  ChunksLeft(c, req, w, o, r, Start(req, o, 0))
<1>1. /\ c.phase = "BODY" /\ c.headers = ToSet(req.headers) /\ Fresh(c)
      /\ Holds(c.buffer, w, o + HeadLong(req), r) /\ c.chunk = NewChunk
  BY DEF BodyLeft
<1>2. req \in Request /\ Start(req, o, 0) = o + HeadLong(req)
  BY ChunksLaid DEF Placed
<1>3. Before(req, 0) = 0
  BY <1>2, ChunksOfBody
<1>4. /\ Body(req) \in Seq(Units) /\ Len(Body(req)) \in Nat /\ Len(req.chunks) \in Nat
      /\ MaxBody \in Nat
  BY <1>2, PartsTyped, LimitsAssumption
<1>5. Stretch(Body(req), 0, 0) = <<>>
  BY <1>4, StretchAll
<1>6. ~(0 > MaxBody) /\ 0 \in Nat /\ 0 <= Len(Body(req)) /\ 0 \in 0..Len(req.chunks)
  BY <1>4
<1>7. KeptTo(c, req, 0, 0)
  BY <1>1, <1>5, <1>6 DEF KeptTo, Kept, Fresh
<1>8. InChunk(c, req, o, Start(req, o, 0), 0)
  BY <1>1, <1>3, <1>7 DEF InChunk, AtSize, NewChunk
<1> QED BY <1>1, <1>2, <1>6, <1>8 DEF ChunksLeft

LEMMA BodyParsed ==
  ASSUME NEW c \in Parsers, NEW req, NEW w, NEW o, NEW r,
         Placed(req, w, o), WellFormed(req), c.state \notin Parsed,
         \/ BodyLeft(c, req, w, o, r) \/ LengthLeft(c, req, w, o, r)
         \/ \E q \in Nat : ChunksLeft(c, req, w, o, r, q)
  PROVE  \/ r < o + Len(Bytes(req)) /\ Waits(ParseBody(c), req, w, o, r)
         \/ Ended(ParseBody(c), req, w, o, r)
<1>1. c.phase = "BODY" /\ c.headers = ToSet(req.headers) /\ req \in Request
  BY DEF Placed, BodyLeft, LengthLeft, LengthTaken, ChunksLeft
<1>2. /\ Chunked \in c.headers <=> Contains(req.headers, Chunked)
      /\ HasLength(req) <=> \E h \in c.headers : h[1] = "length"
  BY <1>1, HeadersHave
<1>3. CASE Contains(req.headers, Chunked)
  <2>1. ParseBody(c) = ParseChunks(c)
    BY <1>1, <1>2, <1>3 DEF ParseBody
  <2>2. \E q : ChunksLeft(c, req, w, o, r, q)
    <3>1. CASE BodyLeft(c, req, w, o, r)
      BY <1>3, <3>1, ChunksStart
    <3>2. ~LengthLeft(c, req, w, o, r)
      BY <1>3 DEF LengthLeft
    <3> QED BY <3>1, <3>2
  <2>3. PICK q : ChunksLeft(c, req, w, o, r, q)
    BY <2>2
  <2>4. \/ r < o + Len(Bytes(req)) /\ \E v \in Nat : ChunksLeft(ParseChunks(c), req, w, o, r, v)
        \/ Ended(ParseChunks(c), req, w, o, r)
    BY <2>3, ChunksParsed
  <2> QED BY <2>1, <2>4 DEF Waits
<1>4. CASE ~Contains(req.headers, Chunked) /\ HasLength(req)
  <2>1. ParseBody(c) = ParseContentLength(c)
    BY <1>1, <1>2, <1>4 DEF ParseBody
  <2>2. BodyLeft(c, req, w, o, r) \/ LengthLeft(c, req, w, o, r)
    BY <1>4 DEF ChunksLeft
  <2>3. \/ LengthLeft(ParseContentLength(c), req, w, o, r) /\ r < o + Len(Bytes(req))
        \/ Ended(ParseContentLength(c), req, w, o, r)
    BY <1>4, <2>2, LengthParsed
  <2> QED BY <2>1, <2>3 DEF Waits
<1>5. CASE ~Contains(req.headers, Chunked) /\ ~HasLength(req)
  <2>1. ParseBody(c) = [c EXCEPT !.phase = "FINISHED"]
    BY <1>1, <1>2, <1>5 DEF ParseBody
  <2>2. BodyLeft(c, req, w, o, r)
    BY <1>5 DEF ChunksLeft, LengthLeft
  <2>3. Ended([c EXCEPT !.phase = "FINISHED"], req, w, o, r)
    BY <1>5, <2>2, NoBodyParsed
  <2> QED BY <2>1, <2>3
<1> QED BY <1>3, <1>4, <1>5

\* How long a request is.
LEMMA BytesLong ==
  ASSUME NEW req, NEW w, NEW o, Placed(req, w, o)
  PROVE  /\ o \in Nat /\ o + Len(Bytes(req)) \in Nat /\ HeadLong(req) \in Nat
         /\ o + 5 <= o + Len(Bytes(req)) /\ o + HeadLong(req) <= o + Len(Bytes(req))
<1>1. req \in Request /\ o \in Nat /\ Len(Bytes(req)) \in Nat
  BY DEF Placed
<1>2. Len(req.headers) \in Nat /\ Len(BodySent(req)) \in Nat
  BY <1>1, PartsTyped
<1>3. Len(Bytes(req)) = HeadLong(req) + Len(BodySent(req))
  BY RequestLaid
<1>4. HeadLong(req) \in Nat /\ HeadLong(req) >= 5
  BY <1>2 DEF HeadLong
<1> QED BY <1>1, <1>2, <1>3, <1>4

LEMMA RequestParsed ==
  ASSUME NEW c \in Parsers, NEW req, NEW w, NEW o, NEW r,
         Placed(req, w, o), WellFormed(req), c.state \notin Parsed, Waits(c, req, w, o, r)
  PROVE  LET d == ParseBody(ParseHeaders(ParseLine(c))) IN
         \/ r < o + Len(Bytes(req)) /\ Waits(d, req, w, o, r)
         \/ Ended(d, req, w, o, r)
<1> DEFINE a == ParseLine(c)
           b == ParseHeaders(a)
           d == ParseBody(b)
           Done == \/ r < o + Len(Bytes(req)) /\ Waits(d, req, w, o, r)
                   \/ Ended(d, req, w, o, r)
<1>1. a \in Parsers /\ b \in Parsers
  BY ParseLineKeeps, ParseHeadersKeeps
<1>2. /\ o \in Nat /\ o + Len(Bytes(req)) \in Nat /\ HeadLong(req) \in Nat
      /\ o + 5 <= o + Len(Bytes(req)) /\ o + HeadLong(req) <= o + Len(Bytes(req))
  BY BytesLong
<1>3. r \in Nat
  <2>1. \E p : Holds(c.buffer, w, p, r)
    BY DEF Waits, LineLeft, HeadLeft, LengthLeft, LengthTaken, ChunksLeft
  <2> QED BY <2>1 DEF Holds
<1>4. ASSUME b.state \notin Parsed,
             \/ BodyLeft(b, req, w, o, r) \/ LengthLeft(b, req, w, o, r)
             \/ \E q \in Nat : ChunksLeft(b, req, w, o, r, q)
      PROVE  Done
  BY <1>1, <1>4, BodyParsed
<1>5. ASSUME a.state \notin Parsed, HeadLeft(a, w, o, r) PROVE Done
  <2>1. CASE b = a /\ r < o + HeadLong(req)
    <3>1. d = a
      BY <1>5, <2>1 DEF ParseBody, HeadLeft
    <3>2. r < o + Len(Bytes(req))
      BY <1>2, <1>3, <2>1
    <3> QED BY <1>5, <3>1, <3>2 DEF Waits
  <2>2. CASE BodyLeft(b, req, w, o, r) /\ b.state = a.state
    BY <1>4, <1>5, <2>2
  <2> QED BY <1>1, <1>5, <2>1, <2>2, HeadersParsed
<1>6. CASE LineLeft(c, w, o, r)
  <2>1. CASE a = c /\ r < o + 3
    <3>1. c.phase = "START"
      BY <1>6 DEF LineLeft
    <3>2. d = c
      BY <2>1, <3>1 DEF ParseBody, ParseHeaders
    <3>3. r < o + Len(Bytes(req))
      BY <1>2, <1>3, <2>1
    <3> QED BY <1>6, <3>2, <3>3 DEF Waits
  <2>2. CASE HeadLeft(a, w, o, r) /\ a.state = c.state
    BY <1>5, <2>2
  <2> QED BY <1>6, <2>1, <2>2, LineParsed
<1>7. CASE HeadLeft(c, w, o, r)
  <2>1. a = c
    BY <1>7 DEF HeadLeft, ParseLine
  <2> QED BY <1>5, <1>7, <2>1
<1>8. CASE LengthLeft(c, req, w, o, r) \/ \E q \in Nat : ChunksLeft(c, req, w, o, r, q)
  <2>1. c.phase = "BODY"
    BY <1>8 DEF LengthLeft, LengthTaken, ChunksLeft
  <2>2. b = c
    BY <2>1 DEF ParseLine, ParseHeaders
  <2> QED BY <1>4, <1>8, <2>2
<1> QED BY <1>6, <1>7, <1>8 DEF Waits

\* What parseRequestBuffer says, and what it is said of.
Outcome(d, req, w, o, r, full) ==
  \/ /\ d.state = "PARSE_OK" /\ Holds(d.buffer, w, o + Len(Bytes(req)), r)
     /\ ~d.discarding /\ d.body = Body(req) /\ Len(Body(req)) <= MaxBody
  \/ d.state = "PARSE_TOO_LARGE" /\ Len(Body(req)) > MaxBody
  \/ d.state = "PARSE_ERROR" /\ Len(Body(req)) > MaxBuffer /\ full

LEMMA BufferParsed ==
  ASSUME NEW c \in Parsers, NEW req, NEW w, NEW o, NEW r,
         Placed(req, w, o), WellFormed(req), c.state \notin Parsed, Waits(c, req, w, o, r)
  PROVE  LET d == ParseRequestBuffer(c) IN
         \/ /\ d.state = "PARSE_INCOMPLETE" /\ r < o + Len(Bytes(req))
            /\ Waits(d, req, w, o, r)
         \/ Outcome(d, req, w, o, r, disk = "full")
<1> DEFINE e == ParseBody(ParseHeaders(ParseLine(c)))
           d == ParseRequestBuffer(c)
<1>1. e \in Parsers
  BY ParseLineKeeps, ParseHeadersKeeps, ParseBodyKeeps
<1>2. \/ r < o + Len(Bytes(req)) /\ Waits(e, req, w, o, r)
      \/ Ended(e, req, w, o, r)
  BY RequestParsed
<1>3. d = IF e.phase # "FINISHED" THEN [e EXCEPT !.state = "PARSE_INCOMPLETE"]
          ELSE [e EXCEPT !.phase = "START", !.chunk = NewChunk,
                         !.state = IF @ \in Parsed THEN @ ELSE "PARSE_OK"]
  BY DEF ParseRequestBuffer
<1> HIDE DEF e, d
<1>4. e \in ClientRec
  BY <1>1 DEF Parsers
<1>5. CASE r < o + Len(Bytes(req)) /\ Waits(e, req, w, o, r) /\ ~Ended(e, req, w, o, r)
  <2>1. e.phase # "FINISHED"
    BY <1>5 DEF Waits, LineLeft, HeadLeft, LengthLeft, LengthTaken, ChunksLeft
  <2>2. d = [e EXCEPT !.state = "PARSE_INCOMPLETE"]
    BY <1>3, <2>1
  <2>3. /\ d.state = "PARSE_INCOMPLETE" /\ d.phase = e.phase /\ d.headers = e.headers
        /\ d.chunk = e.chunk /\ d.hasLength = e.hasLength /\ d.length = e.length
        /\ d.bytesRead = e.bytesRead /\ d.discarding = e.discarding /\ d.body = e.body
        /\ d.inDisk = e.inDisk /\ d.buffer = e.buffer
    BY <1>4, <2>2 DEF ClientRec
  <2>4. Waits(d, req, w, o, r)
    BY <1>5, <2>3, WaitsOn
  <2> QED BY <1>5, <2>3, <2>4 DEF d
<1>6. CASE Ended(e, req, w, o, r)
  <2> DEFINE st == IF e.state \in Parsed THEN e.state ELSE "PARSE_OK"
  <2>1. d = [e EXCEPT !.phase = "START", !.chunk = NewChunk, !.state = st]
    BY <1>3, <1>6 DEF Ended
  <2>2. st = IF e.state \in Parsed THEN e.state ELSE "PARSE_OK"
    OBVIOUS
  <2> HIDE DEF st
  <2>3. d.state = st /\ d.buffer = e.buffer /\ d.discarding = e.discarding /\ d.body = e.body
    BY <1>4, <2>1 DEF ClientRec
  <2>4. Outcome(d, req, w, o, r, disk = "full")
    <3>1. "PARSE_TOO_LARGE" \in Parsed /\ "PARSE_ERROR" \in Parsed
      BY DEF Parsed
    <3> QED BY <1>6, <2>2, <2>3, <3>1 DEF Outcome, Ended
  <2> QED BY <2>4 DEF d
<1> QED BY <1>2, <1>5, <1>6

-----------------------------------------------------------------------------
(* The parser and the peer keep in step *)

\* Every request can be made out, and the connection is closed after a body that
\* was refused.  (With error pages it is kept, and the rest of that body taken
\* for a request: run not_due.)
Conversable ==
  /\ \A q \in Conversations : \A k \in 1..Len(q) : WellFormed(q[k])
  /\ ErrorPages = FALSE

\* The request after the first k of the conversation lies in the stream.
LEMMA NextPlaced ==
  ASSUME conversation \in Conversations, NEW k \in Nat, k < Len(conversation)
  PROVE  LET o == Len(Sent(k)) IN
         /\ Placed(conversation[k + 1], Stream, o)
         /\ Len(Sent(k + 1)) = o + Len(Bytes(conversation[k + 1]))
         /\ o \in Nat /\ Len(Sent(k + 1)) \in Nat
         /\ o < Len(Sent(k + 1)) /\ Len(Sent(k + 1)) <= Len(Stream) /\ Len(Stream) \in Nat
<1> DEFINE q == conversation
           s == Wires(q)
           o == Len(Sent(k))
           x == q[k + 1]
<1>1. /\ s \in Seq(Seq(Units)) /\ Len(q) \in Nat /\ Len(s) = Len(q)
      /\ \A n \in 0..Len(q) : Sent(n) = FlattenSeq(Firsts(s, n))
  BY SentIs
<1>2. k \in 0..Len(q) /\ k + 1 \in 0..Len(q) /\ Len(q) \in 0..Len(q) /\ k + 1 \in 1..Len(q)
  BY <1>1
<1>3. x \in Request /\ s[k + 1] = Bytes(x)
  <2>1. q \in Seq(Request)
    BY ConversationsAssumption
  <2> QED BY <1>2, <2>1, ElementOfSeq DEF Wires
<1>4. Stream = FlattenSeq(s)
  <2>1. Firsts(s, Len(s)) = s
    BY <1>1, FirstsAll
  <2> QED BY <1>1, <1>2, <2>1 DEF Stream
<1>5. Stream \in Seq(Units) /\ Len(Stream) \in Nat
  <2>1. Stream \in Seq(Units)
    BY <1>1, <1>4, FlattenTyped
  <2> QED BY <2>1
<1>6. o = Long(s, k) /\ Len(Sent(k + 1)) = Long(s, k + 1)
  BY <1>1, <1>2 DEF Long
<1>7. Longs(s, k) /\ Inside(s[k + 1], FlattenSeq(s), Long(s, k))
  <2> HIDE DEF s
  <2> QED BY <1>1, InsideFlatten
<1>8. /\ o \in Nat /\ Len(Sent(k + 1)) \in Nat /\ Len(Bytes(x)) \in Nat
      /\ Len(Sent(k + 1)) = o + Len(Bytes(x)) /\ Len(Sent(k + 1)) <= Len(Stream)
      /\ Inside(Bytes(x), Stream, o)
  BY <1>3, <1>4, <1>6, <1>7 DEF Longs
<1> HIDE DEF o, x, s, q
<1>9. Placed(x, Stream, o)
  BY <1>3, <1>5, <1>8 DEF Placed
<1>10. o < Len(Sent(k + 1))
  <2>1. o + 5 <= o + Len(Bytes(x))
    BY <1>9, BytesLong
  <2> QED BY <1>8, <2>1
<1> QED BY <1>5, <1>8, <1>9, <1>10 DEF o, x, q

\* Nothing is kept of the request before but what has been read of the next, and
\* of a peer that waits for each answer that is nothing.
Between(c, w, o, r, waiting) ==
  LineLeft(c, w, o, r) /\ (waiting => r = o)

StepInv ==
  LET k == Len(answers)
      o == Len(Sent(k))
      req == conversation[k + 1]
  IN
  /\ k <= Len(conversation)
  /\ AnswersAreDue
  /\ client.state = "RESET" => Between(client, Stream, o, received, ~pipelined)
  /\ client.state = "PARSE_INCOMPLETE" =>
       /\ k < Len(conversation) /\ received < Len(Sent(k + 1))
       /\ Waits(client, req, Stream, o, received)
  /\ client.state \in Parsed =>
       /\ k < Len(conversation)
       /\ Outcome(client, req, Stream, o, received, disk = "full")

LEMMA StepInit == Init => StepInv
<1> SUFFICES ASSUME Init PROVE StepInv
  OBVIOUS
<1>1. conversation \in Conversations /\ received = 0 /\ client = NewClient /\ answers = <<>>
  BY DEF Init
<1>2. /\ Wires(conversation) \in Seq(Seq(Units)) /\ Len(conversation) \in Nat
      /\ \A n \in 0..Len(conversation) : Sent(n) = FlattenSeq(Firsts(Wires(conversation), n))
  BY <1>1, SentIs
<1>3. Len(answers) = 0 /\ 0 \in 0..Len(conversation) /\ 0 <= Len(conversation)
  BY <1>1, <1>2, EmptySeq
<1>4. Len(Sent(0)) = 0
  <2>1. Firsts(Wires(conversation), 0) = <<>>
    BY <1>2, FirstsAll
  <2>2. Sent(0) = FlattenSeq(<<>>)
    BY <1>2, <1>3, <2>1
  <2>3. FlattenSeq(<<>>) = <<>>
    BY FlattenFew
  <2> QED BY <2>2, <2>3, EmptySeq
<1>5. Holds(client.buffer, Stream, 0, 0)
  <2>1. Stream \in Seq(Units)
    <3>1. answers \in Seq([status: Parsed, body: Seq(Units)])
      BY <1>1, EmptySeq
    <3> QED BY <1>1, <3>1, ArrivedInStream
  <2>2. Stretch(Stream, 0, 0) = <<>> /\ Len(Stream) \in Nat
    BY <2>1, StretchAll
  <2>3. client.buffer = <<>>
    BY <1>1 DEF NewClient
  <2>4. 0 \in Nat /\ 0 <= 0 /\ 0 <= Len(Stream)
    BY <2>2
  <2> QED BY <2>1, <2>2, <2>3, <2>4 DEF Holds
<1>6. Between(client, Stream, 0, 0, ~pipelined)
  <2>1. client.phase = "START" /\ Fresh(client)
    BY <1>1 DEF NewClient, Fresh
  <2> QED BY <1>5, <2>1 DEF Between, LineLeft
<1>7. client.state = "RESET" /\ "RESET" \notin Parsed
  BY <1>1 DEF NewClient, Parsed
<1>8. AnswersAreDue
  <2>1. 1..Len(answers) = {}
    BY <1>3
  <2> QED BY <2>1 DEF AnswersAreDue
<1> QED BY <1>1, <1>3, <1>4, <1>6, <1>7, <1>8 DEF StepInv

\* A read(): what was read is behind what was there, and the parser goes on with it.
LEMMA ReadInStep ==
  ASSUME Conversable, ParserInv, StepInv, ProcessRead
  PROVE  StepInv'
<1> DEFINE k == Len(answers)
           o == Len(Sent(k))
           req == conversation[k + 1]
<1>1. /\ conversation \in Conversations /\ pipelined \in Pipelining
      /\ received \in Nat /\ received <= Arrived
      /\ answers \in Seq([status: Parsed, body: Seq(Units)])
      /\ client \in Clients
  BY DEF ParserInv
<1>2. Stream \in Seq(Units) /\ Arrived \in Nat /\ Arrived <= Len(Stream)
      /\ Len(Stream) \in Nat /\ k \in Nat /\ Len(conversation) \in Nat
  <2>1. Stream \in Seq(Units) /\ Arrived \in Nat /\ Arrived <= Len(Stream)
    BY <1>1, ArrivedInStream
  <2>2. Len(conversation) \in Nat
    BY <1>1, SentIs
  <2> QED BY <1>1, <2>1, <2>2
<1> DEFINE Fed(n) ==
      [client EXCEPT !.state = "READ_SUCCESS",
                     !.buffer = @ \o SubSeq(Stream, received + 1, received + n)]
<1>3. PICK n \in 1..(Arrived - received) :
        received' = received + n /\ client' = ParseRequestBuffer(Fed(n))
  BY DEF ProcessRead
<1>4. client.state \notin Parsed /\ client.state # "closed" /\ UNCHANGED <<peer, disk, answers>>
  BY DEF ProcessRead
<1>5. /\ conversation' = conversation /\ pipelined' = pipelined
      /\ disk' = disk /\ answers' = answers
  BY <1>4 DEF peer
<1>6. client \in ClientRec /\ Consistent(client) /\ PhaseOK(client)
      /\ client.state # "READ_SUCCESS"
  BY <1>1, <1>4 DEF Clients
<1>7. n \in Nat /\ n > 0 /\ received + n \in Nat /\ received + n <= Arrived
      /\ received + n <= Len(Stream) /\ received < Len(Stream)
  BY <1>1, <1>2, <1>3
<1>8. client.state = "RESET" \/ client.state = "PARSE_INCOMPLETE"
  BY <1>4, <1>6 DEF ClientRec
<1>9. k < Len(conversation) /\ Waits(client, req, Stream, o, received)
  <2>1. CASE client.state = "PARSE_INCOMPLETE"
    BY <2>1 DEF StepInv
  <2>2. CASE client.state = "RESET"
    <3>1. LineLeft(client, Stream, o, received) /\ k <= Len(conversation)
      BY <2>2 DEF StepInv, Between
    <3>2. o <= received
      <4>1. Holds(client.buffer, Stream, o, received)
        BY <3>1 DEF LineLeft
      <4> QED BY <4>1, HoldsIs
    <3>3. k # Len(conversation)
      <4> SUFFICES ASSUME k = Len(conversation) PROVE FALSE
        OBVIOUS
      <4>1. o = Len(Stream)
        BY DEF Stream
      <4> HIDE DEF o
      <4> QED BY <1>1, <1>2, <1>7, <3>2, <4>1
    <3> QED BY <1>2, <3>1, <3>3 DEF Waits
  <2> QED BY <1>8, <2>1, <2>2
<1>10. /\ Placed(req, Stream, o) /\ Len(Sent(k + 1)) = o + Len(Bytes(req))
  BY <1>1, <1>2, <1>9, NextPlaced
<1>11. WellFormed(req)
  <2>1. k + 1 \in 1..Len(conversation)
    BY <1>2, <1>9
  <2> QED BY <1>1, <2>1 DEF Conversable
<1> DEFINE f == Fed(n)
           s == SubSeq(Stream, received + 1, received + n)
<1>12. \A p : Holds(client.buffer, Stream, p, received) =>
                Holds(client.buffer \o s, Stream, p, received + n)
  BY <1>7, HoldsMore
<1>13. client.buffer \o s \in Seq(Sendable)
  <2>1. s \in Seq(Sendable)
    BY <1>1, <1>7, PartSendable
  <2>2. client.buffer \in Seq(Sendable)
    BY <1>6, ParserFields
  <2> HIDE DEF s, Sendable
  <2> QED BY <2>1, <2>2, ThreeJoined
<1>14. f = [client EXCEPT !.state = "READ_SUCCESS", !.buffer = client.buffer \o s]
  BY DEF Fed
<1>15. client' = ParseRequestBuffer(f)
  BY <1>3
<1> HIDE DEF f, Fed, s
<1>16. f \in ClientRec
  BY <1>6, <1>13, <1>14 DEF ClientRec
<1>17. f.phase = client.phase /\ f.bytesRead = client.bytesRead
       /\ f.hasLength = client.hasLength /\ f.length = client.length
       /\ f.chunk = client.chunk /\ f.body = client.body /\ f.inDisk = client.inDisk
       /\ f.headers = client.headers /\ f.discarding = client.discarding
       /\ f.toDiscard = client.toDiscard /\ f.state = "READ_SUCCESS"
       /\ f.buffer = client.buffer \o s
  BY <1>6, <1>14 DEF ClientRec
<1>18. f \in Parsers
  <2>1. Consistent(f)
    BY <1>6, <1>17 DEF Consistent, Limited
  <2>2. PhaseOK(f)
    BY <1>6, <1>17 DEF PhaseOK, ChunkFits, LengthFits, Bare
  <2> QED BY <1>16, <2>1, <2>2 DEF Parsers
<1> HIDE DEF req, o, k
<1>19. Waits(f, req, Stream, o, received + n)
  <2> DEFINE v == received + n
  <2>1. \A p : Holds(client.buffer, Stream, p, received) => Holds(f.buffer, Stream, p, v)
    BY <1>12, <1>17
  <2> HIDE DEF v
  <2>2. Waits(f, req, Stream, o, v)
    BY <1>9, <1>17, <2>1, WaitsOn
  <2> QED BY <2>2 DEF v
<1>20. f.state \notin Parsed
  BY <1>17 DEF Parsed
<1> DEFINE d == ParseRequestBuffer(f)
<1>21. \/ /\ d.state = "PARSE_INCOMPLETE" /\ received + n < o + Len(Bytes(req))
          /\ Waits(d, req, Stream, o, received + n)
       \/ Outcome(d, req, Stream, o, received + n, disk = "full")
  BY <1>10, <1>11, <1>18, <1>19, <1>20, BufferParsed
<1> HIDE DEF d
<1>22. Outcome(d, req, Stream, o, received + n, disk = "full") => d.state \in Parsed
  BY DEF Outcome, Parsed
<1>23. "PARSE_INCOMPLETE" \notin Parsed /\ "RESET" \notin Parsed
  BY DEF Parsed
<1>24. AnswersAreDue'
  BY <1>5 DEF StepInv, AnswersAreDue, Due
<1>25. Stream' = Stream /\ client' = d
       /\ k' = k /\ o' = o /\ req' = req /\ Sent(k + 1)' = Sent(k + 1)
  BY <1>5, <1>15 DEF Stream, Sent, k, o, req, d
<1>26. k <= Len(conversation)
  BY <1>2, <1>9
<1> QED BY <1>3, <1>5, <1>9, <1>10, <1>21, <1>22, <1>23, <1>24, <1>25, <1>26 DEF StepInv, k, o, req

\* An answer: it is the one due, and the next request begins where this one ended.
LEMMA RespondInStep ==
  ASSUME Conversable, ParserInv, StepInv, Respond
  PROVE  StepInv'
<1> DEFINE k == Len(answers)
           o == Len(Sent(k))
           req == conversation[k + 1]
           a == [status |-> client.state,
                 body |-> IF client.state = "PARSE_OK" THEN client.body ELSE <<>>]
           r == ResetClientState(client)
           Answers == [status: Parsed, body: Seq(Units)]
<1>1. /\ conversation \in Conversations /\ received \in Nat /\ received <= Arrived
      /\ answers \in Seq(Answers) /\ client \in ClientRec
  BY DEF ParserInv, Clients
<1>2. /\ client.state \in Parsed /\ answers' = Append(answers, a)
      /\ client' = IF ShouldClose(client) THEN [NewClient EXCEPT !.state = "closed"] ELSE r
      /\ UNCHANGED <<peer, received, disk>>
  BY DEF Respond
<1>3. /\ conversation' = conversation /\ pipelined' = pipelined
      /\ received' = received /\ disk' = disk
  BY <1>2 DEF peer
<1>4. k < Len(conversation) /\ Outcome(client, req, Stream, o, received, disk = "full")
  BY <1>2 DEF StepInv
<1>5. k \in Nat /\ Len(conversation) \in Nat
  BY <1>1, SentIs
<1>6. /\ Len(Sent(k + 1)) = o + Len(Bytes(req)) /\ Len(Sent(k + 1)) \in Nat
  BY <1>1, <1>4, <1>5, NextPlaced
<1>7. a \in Answers
  <2>1. client.body \in Seq(Units) /\ <<>> \in Seq(Units)
    BY <1>1, ParserFields, EmptySeq
  <2> QED BY <1>2, <2>1
<1>8. a \in Due(req)
  <2>1. req \in Request
    <3>1. conversation \in Seq(Request) /\ k + 1 \in 1..Len(conversation)
      BY <1>1, <1>4, <1>5, ConversationsAssumption
    <3> QED BY <3>1, ElementOfSeq
  <2>2. Len(Body(req)) \in Nat /\ MaxBody \in Nat
    BY <2>1, PartsTyped, LimitsAssumption
  <2> HIDE DEF req
  <2>3. CASE client.state = "PARSE_OK"
    <3>1. client.body = Body(req) /\ ~(Len(Body(req)) > MaxBody)
      BY <1>4, <2>2, <2>3 DEF Outcome
    <3> QED BY <2>3, <3>1 DEF Due
  <2>4. CASE client.state = "PARSE_TOO_LARGE"
    <3>1. Len(Body(req)) > MaxBody
      BY <1>4, <2>4 DEF Outcome
    <3> QED BY <2>4, <3>1 DEF Due
  <2>5. CASE client.state = "PARSE_ERROR"
    <3>1. Len(Body(req)) > MaxBuffer /\ disk = "full"
      BY <1>4, <2>5 DEF Outcome
    <3> QED BY <2>5, <3>1 DEF Due
  <2> QED BY <1>2, <2>3, <2>4, <2>5 DEF Parsed
<1> HIDE DEF a
<1>9. /\ Len(answers') = k + 1 /\ answers'[k + 1] = a
      /\ \A i \in 1..k : answers'[i] = answers[i]
  <2> HIDE DEF Answers
  <2> QED BY <1>1, <1>2, <1>7, AppendProperties
<1>10. AnswersAreDue'
  <2>1. \A q : Due(q)' = Due(q)
    BY <1>3 DEF Due
  <2>2. ASSUME NEW i \in 1..(k + 1) PROVE answers'[i] \in Due(conversation[i])
    <3>1. CASE i = k + 1
      BY <1>8, <1>9, <3>1
    <3>2. CASE i # k + 1
      <4>1. i \in 1..k
        BY <1>5, <3>2
      <4>2. answers[i] \in Due(conversation[i])
        BY <4>1 DEF StepInv, AnswersAreDue
      <4> QED BY <1>9, <4>1, <4>2
    <3> QED BY <3>1, <3>2
  <2>3. \A i \in 1..Len(answers') : answers'[i] \in Due(conversation'[i])
    BY <1>3, <1>9, <2>2
  <2>4. \A i \in 1..Len(answers') : answers'[i] \in Due(conversation[i])'
    BY <1>3, <2>3 DEF Due
  <2> QED BY <2>4 DEF AnswersAreDue
<1>11. Stream' = Stream /\ k' = k + 1 /\ o' = Len(Sent(k + 1))
  BY <1>3, <1>9 DEF Stream, Sent, o
<1>12. k + 1 <= Len(conversation)
  BY <1>4, <1>5
<1>13. /\ "RESET" \notin Parsed /\ "closed" \notin Parsed
       /\ [NewClient EXCEPT !.state = "closed"].state = "closed"
  BY DEF Parsed, NewClient
<1>14. CASE ShouldClose(client)
  <2>1. client'.state = "closed"
    BY <1>2, <1>13, <1>14
  <2> QED BY <1>3, <1>9, <1>10, <1>12, <1>13, <2>1 DEF StepInv
<1>15. CASE ~ShouldClose(client)
  <2>1. client' = r /\ client.state = "PARSE_OK"
    BY <1>2, <1>15 DEF ShouldClose, Conversable
  <2>2. /\ r.state = "RESET" /\ r.phase = "START" /\ r.buffer = client.buffer
        /\ r.discarding = client.discarding /\ r.body = <<>> /\ ~r.inDisk
    BY DEF ResetClientState, NewClient
  <2> DEFINE e == Len(Sent(k + 1))
  <2>3. Holds(client.buffer, Stream, e, received) /\ ~client.discarding
    BY <1>4, <1>6, <2>1 DEF Outcome
  <2> HIDE DEF r
  <2>4. LineLeft(r, Stream, e, received)
    BY <2>2, <2>3 DEF LineLeft, Fresh
  <2>5. ~pipelined => received = e
    <3> SUFFICES ASSUME ~pipelined PROVE received = e
      OBVIOUS
    <3>1. Arrived = e
      BY <1>4, <1>5 DEF Arrived
    <3>2. e <= received
      BY <2>3, HoldsIs
    <3> QED BY <1>1, <1>6, <3>1, <3>2
  <2>6. Between(r, Stream, e, received, ~pipelined)
    BY <2>4, <2>5 DEF Between
  <2>7. Between(client', Stream', Len(Sent(Len(answers)))', received', ~pipelined')
    BY <1>3, <1>11, <2>1, <2>6 DEF o
  <2> QED BY <1>3, <1>9, <1>10, <1>12, <1>13, <2>1, <2>2, <2>7 DEF StepInv
<1> QED BY <1>14, <1>15

LEMMA StepKept == Conversable /\ ParserInv /\ StepInv /\ [Next]_vars => StepInv'
<1> SUFFICES ASSUME Conversable, ParserInv, StepInv, [Next]_vars PROVE StepInv'
  OBVIOUS
<1>1. CASE ProcessRead
  BY <1>1, ReadInStep
<1>2. CASE Respond
  BY <1>2, RespondInStep
<1>3. ASSUME UNCHANGED <<peer, received, client, answers>>, disk' = disk \/ disk' = "full"
      PROVE  StepInv'
  <2>1. /\ conversation' = conversation /\ pipelined' = pipelined
        /\ received' = received /\ client' = client /\ answers' = answers
    BY <1>3 DEF peer
  <2>2. Stream' = Stream /\ \A n : Sent(n)' = Sent(n)
    BY <2>1 DEF Stream, Sent
  <2>3. Len(Sent(Len(answers)))' = Len(Sent(Len(answers)))
        /\ Len(Sent(Len(answers) + 1))' = Len(Sent(Len(answers) + 1))
    BY <2>1 DEF Sent
  <2>4. AnswersAreDue'
    <3>1. ASSUME NEW i \in 1..Len(answers) PROVE answers[i] \in Due(conversation[i])'
      <4>1. answers[i] \in Due(conversation[i])
        BY DEF StepInv, AnswersAreDue
      <4> QED BY <1>3, <2>1, <4>1 DEF Due
    <3> QED BY <2>1, <3>1 DEF AnswersAreDue
  <2>5. ASSUME NEW q, NEW w, NEW o, Outcome(client, q, w, o, received, disk = "full")
        PROVE  Outcome(client, q, w, o, received, disk' = "full")
    BY <1>3, <2>5 DEF Outcome
  <2> QED BY <2>1, <2>2, <2>3, <2>4, <2>5 DEF StepInv
<1>4. CASE DiskFills
  BY <1>3, <1>4 DEF DiskFills
<1>5. CASE UNCHANGED vars
  BY <1>3, <1>5 DEF vars, peer
<1>6. CASE Quiet
  BY <1>5, <1>6 DEF Quiet
<1> QED BY <1>1, <1>2, <1>4, <1>5, <1>6 DEF Next

LEMMA AlwaysInStep == ASSUME Conversable PROVE Spec => [](ParserInv /\ StepInv)
<1>1. Init => ParserInv /\ StepInv
  BY ParserInit, StepInit
<1>2. ParserInv /\ StepInv /\ [Next]_vars => (ParserInv /\ StepInv)'
  BY ParserStep, StepKept
<1> QED BY <1>1, <1>2, PTL DEF Spec

\* Every request of a conversation gets an answer it is due: its own body, whole
\* and nothing else, or the refusal its size calls for, whatever reads
\* parseRequestBuffer got it in and whatever was sent before it.
THEOREM EveryAnswerIsDue == ASSUME Conversable PROVE Spec => []AnswersAreDue
<1>1. StepInv => AnswersAreDue
  BY DEF StepInv
<1> QED BY <1>1, AlwaysInStep, PTL

\* When a request is parsed, and when its answer is sent, the read buffer begins
\* with the first unit of the next one: parseRequestBuffer takes a request to its
\* end and not further, and resetClientState keeps what is behind it.
THEOREM AlwaysInStepWithPeer == ASSUME Conversable PROVE Spec => []StaysInStep
<1>1. ASSUME ParserInv, StepInv PROVE StaysInStep
  <2> DEFINE k == Len(answers)
  <2>1. conversation \in Conversations /\ k \in Nat
    BY <1>1 DEF ParserInv
  <2>2. CASE client.state = "RESET"
    <3>1. Holds(client.buffer, Stream, Len(Sent(k)), received)
      BY <1>1, <2>2 DEF StepInv, Between, LineLeft
    <3>2. k + 0 = k
      BY <2>1
    <3> QED BY <2>2, <3>1, <3>2 DEF StaysInStep, Holds, Stretch
  <2>3. CASE client.state = "PARSE_OK"
    <3>1. k < Len(conversation)
          /\ Holds(client.buffer, Stream, Len(Sent(k)) + Len(Bytes(conversation[k + 1])), received)
      BY <1>1, <2>3 DEF StepInv, Outcome, Parsed
    <3>2. Len(Sent(k + 1)) = Len(Sent(k)) + Len(Bytes(conversation[k + 1]))
      BY <2>1, <3>1, NextPlaced
    <3>3. Holds(client.buffer, Stream, Len(Sent(k + 1)), received)
      BY <3>1, <3>2
    <3> QED BY <2>3, <3>3 DEF StaysInStep, Holds, Stretch
  <2> QED BY <2>2, <2>3 DEF StaysInStep
<1> QED BY <1>1, AlwaysInStep, PTL

\* A request of a peer that waits for its answers is answered once it has arrived
\* whole: the parser is never left waiting for what will not come.
THEOREM WholeIsAnswered == ASSUME Conversable PROVE Spec => []CompleteIsAnswered
<1>1. ASSUME ParserInv, StepInv PROVE CompleteIsAnswered
  <2> DEFINE k == Len(answers)
  <2>1. conversation \in Conversations /\ k \in Nat /\ Len(conversation) \in Nat
        /\ k <= Len(conversation) /\ received \in Nat
    BY <1>1, SentIs DEF ParserInv, StepInv
  <2>2. client.state \in {"RESET", "PARSE_INCOMPLETE", "closed"} \cup Parsed
    BY <1>1 DEF ParserInv, Clients, ClientRec
  <2> SUFFICES ASSUME ~pipelined, received = Arrived, k # Len(conversation),
                      client.state = "RESET" \/ client.state = "PARSE_INCOMPLETE"
               PROVE  FALSE
    BY <2>2 DEF CompleteIsAnswered
  <2>3. k < Len(conversation)
    BY <2>1
  <2>4. Arrived = Len(Sent(k + 1))
    BY <2>1, <2>3 DEF Arrived
  <2>5. Len(Sent(k)) \in Nat /\ Len(Sent(k + 1)) \in Nat /\ Len(Sent(k)) < Len(Sent(k + 1))
    BY <2>1, <2>3, NextPlaced
  <2>6. received = Len(Sent(k)) \/ received < Len(Sent(k + 1))
    BY <1>1 DEF StepInv, Between
  <2> QED BY <2>4, <2>5, <2>6
<1> QED BY <1>1, AlwaysInStep, PTL
==============================================================================
