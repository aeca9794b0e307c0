---------------------------- MODULE ServingProofs ----------------------------
(***************************************************************************)
(* The types and the sessions of Serving, for every set of connections,    *)
(* browsers and deployments and every number of file names: connections,   *)
(* bodies, files and answers keep their shape; no two browsers share a     *)
(* session, what a browser knows is in the table, and a session that is    *)
(* logged in belongs to who logged in.                                     *)
(***************************************************************************)
EXTENDS Serving, TLAPS

-----------------------------------------------------------------------------
(* What the operators on bodies, sessions and answers return, and types *)

(* What the phase of a connection says of its fields. *)
Busy == Phases \ {"closed", "idle"}
ConnOK(k, most) ==
  /\ k \in ConnType
  /\ k.n <= most
  /\ k.phase = "closed" => k = ClosedConn
  /\ k.phase # "closed" => k.owner \in Browsers
  /\ k.phase \in Busy => k.ask \in dep.asks /\ k.n \in Requests
  /\ k.phase # "refused" /\ k.body.inDisk => k.body.file \in Requests
ConnsOK == conn \in [Conns -> ConnType] /\ \A c \in Conns : ConnOK(conn[c], asked)

ReplyOK(a) == a.to \in Browsers /\ a.n \in Requests /\ a.cookie \in Nat
DeliveryOK(d) == d.n \in Requests /\ d.data \in Seq(Part)

TypeInv == TypeOK /\ ConnsOK

-----------------------------------------------------------------------------
(* Bodies and files *)

\* The greater of two numbers.
LEMMA MaxOfTwo ==
  ASSUME NEW a \in Nat, NEW b \in Nat
  PROVE  Max({a, b}) = IF a >= b THEN a ELSE b
<1> DEFINE m == IF a >= b THEN a ELSE b
<1>1. m \in {a, b} /\ \A y \in {a, b} : m >= y
  OBVIOUS
<1>2. \A x \in {a, b} : (\A y \in {a, b} : x >= y) => x = m
  OBVIOUS
<1> HIDE DEF m
<1>3. (CHOOSE x \in {a, b} : \A y \in {a, b} : x >= y) = m
  BY <1>1, <1>2
<1>4. Max({a, b}) = m
  BY <1>3 DEF Max
<1>5. QED
  BY <1>4 DEF m

\* A file that is written to is as long as it was, or as what was written reaches.
LEMMA WrittenFacts ==
  ASSUME NEW old \in Seq(Part), NEW at \in Nat, NEW parts \in Seq(Part)
  PROVE  /\ Written(old, at, parts) \in Seq(Part)
         /\ Len(Written(old, at, parts)) =
              IF Len(old) >= at + Len(parts) THEN Len(old) ELSE at + Len(parts)
         /\ \A i \in 1 .. Len(Written(old, at, parts)) :
              Written(old, at, parts)[i] =
                IF i > at /\ i <= at + Len(parts) THEN parts[i - at]
                ELSE IF i <= Len(old) THEN old[i] ELSE Hole
<1> DEFINE n == IF Len(old) >= at + Len(parts) THEN Len(old) ELSE at + Len(parts)
           val(i) == IF i > at /\ i <= at + Len(parts) THEN parts[i - at]
                     ELSE IF i <= Len(old) THEN old[i] ELSE Hole
<1>1. n \in Nat /\ at + Len(parts) \in Nat
  OBVIOUS
<1>2. Max({Len(old), at + Len(parts)}) = n
  BY MaxOfTwo
<1>3. Written(old, at, parts) = [i \in 1 .. n |-> val(i)]
  BY <1>2 DEF Written
<1>4. \A i \in 1 .. n : val(i) \in Part
  <2>1. Hole \in Part
    BY DEF Hole, Part
  <2>2. TAKE i \in 1 .. n
  <2>3. CASE i > at /\ i <= at + Len(parts)
    <3>1. i - at \in 1 .. Len(parts)
      BY <2>3, <1>1
    <3>2. QED
      BY <2>3, <3>1
  <2>4. CASE ~(i > at /\ i <= at + Len(parts))
    BY <2>1, <2>4, <1>1
  <2>5. QED
    BY <2>3, <2>4
<1> HIDE DEF n, val
<1>5. [i \in 1 .. n |-> val(i)] \in Seq(Part) /\ Len([i \in 1 .. n |-> val(i)]) = n
  BY <1>1, <1>4
<1>6. QED
  BY <1>1, <1>3, <1>5 DEF n, val

\* A list of one part.
LEMMA OnePart ==
  ASSUME NEW p \in Part
  PROVE  <<p>> \in Seq(Part) /\ Len(<<p>>) = 1 /\ <<p>>[1] = p
OBVIOUS

\* Every number in turn is one.
LEMMA NumberFacts ==
  ASSUME NEW number \in 0 .. Names - 1
  PROVE  NextNumber(number) \in 0 .. Names - 1
BY NamesAssumption DEF NextNumber

\* An empty disk is one.
LEMMA EmptyDiskType == EmptyDisk \in Disk /\ NoBody \in Body
<1>1. 0 \in 0 .. Names - 1 /\ <<>> \in Seq(Part)
  BY NamesAssumption
<1>2. QED
  BY <1>1 DEF EmptyDisk, Disk, NoBody, Body, NoFile

Pair == [disk : Disk, body : Body]

\* A name is taken for a body.
LEMMA TakeNameType ==
  ASSUME NEW d \in Disk, NEW b \in Body
  PROVE  /\ TakeName(d, b) \in Pair
         /\ TakeName(d, b).body = [b EXCEPT !.inDisk = TRUE, !.name = d.number,
                                            !.serial = d.created + 1]
         /\ TakeName(d, b).disk = [d EXCEPT !.number = NextNumber(d.number),
                                            !.created = d.created + 1]
<1> DEFINE next == NextNumber(d.number)
           count == d.created + 1
           number == d.number
<1>1. number \in 0 .. Names - 1 /\ count \in Nat
  BY DEF Disk
<1>2. next \in 0 .. Names - 1
  BY <1>1, NumberFacts
<1>3. TakeName(d, b) = [disk |-> [d EXCEPT !.number = next, !.created = count],
                        body |-> [b EXCEPT !.inDisk = TRUE, !.name = number, !.serial = count]]
  BY DEF TakeName, Both
<1> HIDE DEF next, count, number
<1>4. [d EXCEPT !.number = next, !.created = count] \in Disk
  BY <1>1, <1>2 DEF Disk
<1>5. [b EXCEPT !.inDisk = TRUE, !.name = number, !.serial = count] \in Body
  BY <1>1 DEF Body
<1>6. QED
  BY <1>3, <1>4, <1>5 DEF Pair, next, count, number

\* The file a name leads to, or a new one.
FileOf(d, b, n) == IF d.entry[b.name] = NoFile THEN n ELSE d.entry[b.name]
LEMMA OpenFileType ==
  ASSUME NEW p \in Pair, NEW n \in Requests
  PROVE  /\ OpenFile(p, n) \in Pair
         /\ FileOf(p.disk, p.body, n) \in Requests
         /\ OpenFile(p, n).body = [p.body EXCEPT !.file = FileOf(p.disk, p.body, n), !.at = 0,
                                    !.late = FileOf(p.disk, p.body, n) # n]
         /\ OpenFile(p, n).disk =
              [p.disk EXCEPT !.entry[p.body.name] = FileOf(p.disk, p.body, n),
                             !.content[FileOf(p.disk, p.body, n)] = <<>>]
<1> DEFINE f == FileOf(p.disk, p.body, n)
<1>1. p.disk \in Disk /\ p.body \in Body
  BY DEF Pair
<1>2. f \in Requests
  BY <1>1 DEF FileOf, Disk, Body
<1>3. OpenFile(p, n) =
        [disk |-> [p.disk EXCEPT !.entry[p.body.name] = f, !.content[f] = <<>>],
         body |-> [p.body EXCEPT !.file = f, !.at = 0, !.late = f # n]]
  BY DEF OpenFile, Both, FileOf
<1> HIDE DEF f
<1>4. [p.disk EXCEPT !.entry[p.body.name] = f, !.content[f] = <<>>] \in Disk
  <2>1. <<>> \in Seq(Part)
    OBVIOUS
  <2>2. QED
    BY <1>1, <1>2, <2>1 DEF Disk, Body
<1>5. [p.body EXCEPT !.file = f, !.at = 0, !.late = f # n] \in Body
  BY <1>1, <1>2 DEF Body
<1>6. QED
  BY <1>2, <1>3, <1>4, <1>5 DEF f, Pair

\* What is written behind the position of a descriptor.
LEMMA WriteAllType ==
  ASSUME NEW p \in Pair, p.body.file \in Requests, NEW parts \in Seq(Part)
  PROVE  /\ WriteAll(p, parts) \in Pair
         /\ WriteAll(p, parts).body = [p.body EXCEPT !.at = p.body.at + Len(parts)]
         /\ WriteAll(p, parts).disk =
              [p.disk EXCEPT !.content[p.body.file] =
                 Written(p.disk.content[p.body.file], p.body.at, parts)]
<1> DEFINE w == Written(p.disk.content[p.body.file], p.body.at, parts)
<1>1. p.disk \in Disk /\ p.body \in Body
  BY DEF Pair
<1>2. p.disk.content[p.body.file] \in Seq(Part) /\ p.body.at \in Nat
  BY <1>1 DEF Disk, Body
<1>3. w \in Seq(Part)
  BY <1>2, WrittenFacts
<1>4. WriteAll(p, parts) =
        [disk |-> [p.disk EXCEPT !.content[p.body.file] = w],
         body |-> [p.body EXCEPT !.at = p.body.at + Len(parts)]]
  <2>1. [p.disk EXCEPT !.content[p.body.file] = Written(@, p.body.at, parts)]
          = [p.disk EXCEPT !.content[p.body.file] = w]
    BY <1>1 DEF Disk
  <2>2. QED
    BY <2>1 DEF WriteAll, Both
<1> HIDE DEF w
<1>5. [p.disk EXCEPT !.content[p.body.file] = w] \in Disk
  BY <1>1, <1>3 DEF Disk
<1>6. [p.body EXCEPT !.at = p.body.at + Len(parts)] \in Body
  BY <1>1, <1>2 DEF Body
<1>7. QED
  BY <1>4, <1>5, <1>6 DEF w, Pair

\* The body in memory moves to a new file.
LEMMA SpillType ==
  ASSUME NEW p \in Pair, NEW n \in Requests,
         NEW moved, moved = WriteAll(OpenFile(p, n), OpenFile(p, n).body.memory)
  PROVE  /\ Spill(p, n) \in Pair
         /\ Spill(p, n).disk = moved.disk
         /\ Spill(p, n).body = [moved.body EXCEPT !.memory = <<>>]
         /\ Spill(p, n).body.file \in Requests
         /\ moved \in Pair
<1> DEFINE o == OpenFile(p, n)
           f == FileOf(p.disk, p.body, n)
           b == [moved.body EXCEPT !.memory = <<>>]
<1>1. o \in Pair /\ f \in Requests /\ o.body = [p.body EXCEPT !.file = f, !.at = 0, !.late = f # n]
  BY OpenFileType
<1>2. Spill(p, n) = [disk |-> moved.disk, body |-> b]
  <2>1. p.body \in Body
    BY DEF Pair
  <2>2. o.body.memory = p.body.memory
    <3> HIDE DEF o, f
    <3> QED BY <1>1, <2>1 DEF Body
  <2>3. QED
    BY <2>2 DEF Spill, Both
<1> HIDE DEF f
<1>3. o.body.file \in Requests /\ o.body.memory \in Seq(Part)
  <2>1. p.body \in Body /\ o.body \in Body
    BY <1>1 DEF Pair
  <2> HIDE DEF o
  <2>2. QED
    BY <1>1, <2>1 DEF Body
<1>4. moved \in Pair /\ moved.body = [o.body EXCEPT !.at = o.body.at + Len(o.body.memory)]
  <2> HIDE DEF o
  <2>1. WriteAll(o, o.body.memory) \in Pair
        /\ WriteAll(o, o.body.memory).body = [o.body EXCEPT !.at = o.body.at + Len(o.body.memory)]
    BY <1>1, <1>3, WriteAllType
  <2>2. QED
    BY <2>1 DEF o
<1> HIDE DEF o
<1>5. moved.disk \in Disk /\ moved.body \in Body /\ moved.body.file \in Requests
  <2>1. o.body \in Body
    BY <1>1 DEF Pair
  <2>2. QED
    BY <1>3, <1>4, <2>1 DEF Pair, Body
<1>6. b \in Body /\ b.file = moved.body.file
  <2>1. <<>> \in Seq(Part)
    OBVIOUS
  <2>2. QED
    BY <1>5, <2>1 DEF Body
<1> HIDE DEF b
<1>7. Spill(p, n) \in Pair /\ Spill(p, n).disk = moved.disk /\ Spill(p, n).body = b
  BY <1>2, <1>5, <1>6 DEF Pair
<1>8. QED
  BY <1>4, <1>5, <1>6, <1>7 DEF b

\* A part is added to a body, in memory or in its file.
LEMMA AppendBodyType ==
  ASSUME NEW d \in Disk, NEW b \in Body, NEW n \in Requests, NEW part \in Part,
         b.inDisk => b.file \in Requests
  PROVE  /\ AppendBody(d, b, n, part) \in Pair
         /\ AppendBody(d, b, n, part).body.inDisk =>
              AppendBody(d, b, n, part).body.file \in Requests
<1>1. <<part>> \in Seq(Part)
  BY OnePart
<1>2. CASE Spills(b)
  <2> DEFINE t == TakeName(d, b)
             s == Spill(t, n)
             w == WriteAll(s, <<part>>)
  <2>1. t \in Pair
    BY TakeNameType
  <2>2. s \in Pair /\ s.body.file \in Requests
    <3> HIDE DEF t
    <3> QED BY <2>1, SpillType
  <2>3. w \in Pair /\ w.body = [s.body EXCEPT !.at = s.body.at + Len(<<part>>)]
    <3> HIDE DEF s
    <3> QED BY <1>1, <2>2, WriteAllType
  <2>4. AppendBody(d, b, n, part) = w
    BY <1>2 DEF AppendBody
  <2> HIDE DEF s, w
  <2>5. w.body.file = s.body.file
    <3>1. s.body \in Body
      BY <2>2 DEF Pair
    <3>2. QED
      BY <2>3, <3>1 DEF Body
  <2>6. QED
    BY <2>2, <2>3, <2>4, <2>5
<1>3. CASE ~Spills(b) /\ b.inDisk
  <2> DEFINE q == [disk |-> d, body |-> b]
             w == WriteAll(q, <<part>>)
  <2>1. q \in Pair /\ q.body = b
    BY DEF Pair
  <2>2. AppendBody(d, b, n, part) = w
    BY <1>3 DEF AppendBody, Both
  <2> HIDE DEF q
  <2>3. w \in Pair /\ w.body = [b EXCEPT !.at = b.at + Len(<<part>>)]
    BY <1>1, <1>3, <2>1, WriteAllType
  <2>4. w.body.file = b.file
    <3> HIDE DEF w
    <3> QED BY <2>3 DEF Body
  <2>5. QED
    BY <1>3, <2>2, <2>3, <2>4
<1>4. CASE ~Spills(b) /\ ~b.inDisk
  <2> DEFINE m == Append(b.memory, part)
             e == [b EXCEPT !.memory = m]
  <2>1. m \in Seq(Part)
    BY DEF Body
  <2>2. AppendBody(d, b, n, part) = [disk |-> d, body |-> e]
    BY <1>4 DEF AppendBody, Both
  <2> HIDE DEF m
  <2>3. e \in Body /\ e.inDisk = b.inDisk
    BY <2>1 DEF Body
  <2> HIDE DEF e
  <2>4. QED
    BY <1>4, <2>2, <2>3 DEF Pair
<1>5. QED
  BY <1>2, <1>3, <1>4

\* What is left when appendBody fails.
LEMMA AppendFailsType ==
  ASSUME NEW d \in Disk, NEW b \in Body, NEW n \in Requests,
         NEW p \in AppendFails(d, b, n)
  PROVE  p \in Pair
<1>1. TakeName(d, b) \in Pair
  BY TakeNameType
<1>2. OpenFile(TakeName(d, b), n) \in Pair
  BY <1>1, OpenFileType
<1>3. [disk |-> d, body |-> b] \in Pair
  BY DEF Pair
<1>4. QED
  BY <1>1, <1>2, <1>3 DEF AppendFails, Both

\* A body that is complete can be read.
LEMMA WholeBodyType ==
  ASSUME NEW d \in Disk, NEW b \in Body, b.inDisk => b.file \in Requests
  PROVE  WholeBody(d, b) \in Seq(Part)
BY DEF WholeBody, Disk, Body

\* Removing files leaves a disk.
LEMMA RemovalType ==
  ASSUME NEW d \in Disk, NEW b \in Body, NEW n \in Requests
  PROVE  /\ Cleanup(d, b) \in Disk
         /\ CreateInput(d, n) \in Disk /\ RemoveInput(d, n) \in Disk
<1>1. Cleanup(d, b) \in Disk
  BY DEF Cleanup, Disk, Body, NoFile
<1>2. d.inputs \cup {n} \in SUBSET Requests /\ d.inputs \ {n} \in SUBSET Requests
  BY DEF Disk
<1>3. QED
  BY <1>1, <1>2 DEF CreateInput, RemoveInput, Disk

-----------------------------------------------------------------------------
(* Sessions *)

\* A look-up finds the session that was asked for, or adds one.
LEMMA GetSessionFacts ==
  ASSUME NEW table \in SessionTable, NEW id \in Nat,
         NEW g, g = GetSession(table, id)
  PROVE  /\ g.table \in SessionTable /\ g.id \in 1 .. Len(g.table)
         /\ \/ /\ id \in 1 .. Len(table) /\ ~table[id].expired
               /\ g.table = table /\ g.id = id
            \/ /\ g.table = Append(table, FreshSession) /\ g.id = Len(table) + 1
               /\ id \in 1 .. Len(table) => table[id].expired
<1>1. FreshSession \in Session
  BY DEF FreshSession, Session
<1>2. Append(table, FreshSession) \in Seq(Session)
      /\ Len(Append(table, FreshSession)) = Len(table) + 1
  BY <1>1 DEF SessionTable
<1>3. QED
  BY <1>2 DEF GetSession, CreateSession, Found, SessionTable

\* A login marks one session and no other.
LEMMA ApplyAuthFacts ==
  ASSUME NEW table \in SessionTable, NEW id \in Nat,
         NEW g, g = GetSession(table, id),
         NEW a, a = ApplyAuth(table, id)
  PROVE  /\ a.table \in SessionTable /\ a.id = g.id
         /\ Len(a.table) = Len(g.table)
         /\ \A i \in 1 .. Len(g.table) :
              /\ i # g.id => a.table[i] = g.table[i]
              /\ i = g.id => a.table[i].authenticated /\ a.table[i].expired = g.table[i].expired
<1>1. g.table \in SessionTable /\ g.id \in 1 .. Len(g.table)
  BY GetSessionFacts
<1>2. a.table = [g.table EXCEPT ![g.id].authenticated = TRUE] /\ a.id = g.id
  BY DEF ApplyAuth, Mark, Found
<1> DEFINE marked == [g.table[g.id] EXCEPT !.authenticated = TRUE]
           t == [g.table EXCEPT ![g.id] = marked]
<1>3. marked \in Session /\ marked.authenticated /\ marked.expired = g.table[g.id].expired
  <2>1. \A e \in Session : LET f == [e EXCEPT !.authenticated = TRUE]
          IN  f \in Session /\ f.authenticated /\ f.expired = e.expired
    BY DEF Session
  <2>2. g.table[g.id] \in Session
    BY <1>1 DEF SessionTable
  <2>3. QED
    BY <2>1, <2>2
<1>4. a.table = t
  BY <1>1, <1>2 DEF SessionTable
<1> HIDE DEF marked
<1>5. /\ t \in Seq(Session) /\ Len(t) = Len(g.table)
      /\ \A i \in 1 .. Len(g.table) : t[i] = IF i = g.id THEN marked ELSE g.table[i]
  BY <1>1, <1>3 DEF SessionTable
<1> HIDE DEF t
<1>6. QED
  BY <1>2, <1>3, <1>4, <1>5 DEF SessionTable

-----------------------------------------------------------------------------
(* Connections *)

\* What is known of a deployment.
LEMMA DepFacts ==
  ASSUME run \in DOMAIN Deployments
  PROVE  /\ dep.site \in Site /\ dep.asks \subseteq Ask
         /\ dep.files \in [DOMAIN dep.files -> Nat]
         /\ dep.most \in 0 .. MaxRequests /\ dep.browsers \subseteq Browsers
         /\ dep.conns \subseteq Conns
BY DeploymentsAssumption DEF dep

\* An ask of the deployment is one of any.
LEMMA NoAsk == <<>> \in AnyAsk
<1> DEFINE all == UNION {Deployments[i].asks : i \in DOMAIN Deployments}
<1>1. AnyAsk = all \cup {<<>>}
  BY DEF AnyAsk
<1> HIDE DEF all
<1>2. QED
  BY <1>1

LEMMA AsksFacts ==
  ASSUME run \in DOMAIN Deployments
  PROVE  dep.asks \subseteq AnyAsk
<1>1. Deployments[run].asks \in {Deployments[i].asks : i \in DOMAIN Deployments}
  OBVIOUS
<1>2. QED
  BY <1>1, Zenon DEF dep, AnyAsk

\* A connection that is closed is one.
LEMMA ClosedConnOK ==
  ASSUME NEW most \in Nat
  PROVE  ConnOK(ClosedConn, most) /\ ClosedConn \in ConnType
<1>1. NoBody \in Body
  BY EmptyDiskType
<1>2. 0 \in 0 .. MaxRequests /\ <<>> \in AnyAsk
  BY NamesAssumption, NoAsk
<1>3. ClosedConn \in ConnType
  BY <1>1, <1>2 DEF ClosedConn, ConnType, Phases, None
<1>4. ClosedConn.n = 0 /\ ClosedConn.phase = "closed" /\ ~ClosedConn.body.inDisk
  BY DEF ClosedConn, NoBody
<1>5. QED
  BY <1>3, <1>4 DEF ConnOK, Busy

\* A request that is answered leaves a connection.
LEMMA ResetConnOK ==
  ASSUME NEW most \in Nat, NEW k, ConnOK(k, most), k.phase # "closed"
  PROVE  ConnOK(ResetConn(k), most) /\ ResetConn(k).phase = "idle"
         /\ ResetConn(k) \in ConnType
<1>1. NoBody \in Body /\ <<>> \in AnyAsk
  BY EmptyDiskType, NoAsk
<1>2. k \in ConnType /\ k.n <= most /\ k.owner \in Browsers
  BY DEF ConnOK
<1>3. ResetConn(k) \in ConnType
  BY <1>1, <1>2 DEF ResetConn, ConnType, Phases, None
<1>4. /\ ResetConn(k).phase = "idle" /\ ResetConn(k).n = k.n
      /\ ResetConn(k).owner = k.owner /\ ~ResetConn(k).body.inDisk
  BY <1>2 DEF ResetConn, ConnType, NoBody
<1>5. QED
  BY <1>2, <1>3, <1>4 DEF ConnOK, Busy

\* One connection changes.
LEMMA OneConn ==
  ASSUME ConnsOK, NEW c \in Conns, NEW k, ConnOK(k, asked'), conn' = [conn EXCEPT ![c] = k],
         run' = run, asked \in Nat, asked' \in Nat, asked <= asked'
  PROVE  ConnsOK'
<1>1. k \in ConnType
  BY DEF ConnOK
<1>2. conn' \in [Conns -> ConnType]
  BY <1>1 DEF ConnsOK
<1>3. ASSUME NEW d \in Conns
      PROVE  ConnOK(conn'[d], asked')
  <2>1. CASE d = c
    BY <2>1 DEF ConnsOK
  <2>2. CASE d # c
    <3>1. conn'[d] = conn[d] /\ ConnOK(conn[d], asked)
      BY <2>2 DEF ConnsOK
    <3>2. conn[d].n \in Nat
      BY <3>1 DEF ConnOK, ConnType
    <3>3. QED
      BY <3>1, <3>2 DEF ConnOK
  <2>3. QED
    BY <2>1, <2>2
<1>4. dep' = dep
  BY DEF dep
<1>5. QED
  BY <1>2, <1>3, <1>4 DEF ConnsOK, ConnOK

\* Nothing changes.
LEMMA SameConns ==
  ASSUME ConnsOK, conn' = conn, run' = run, asked' = asked
  PROVE  ConnsOK'
BY DEF ConnsOK, ConnOK, dep

\* The files of a request are removed.
LEMMA WithoutRequestType ==
  ASSUME NEW most, NEW d \in Disk, NEW k, ConnOK(k, most)
  PROVE  WithoutRequest(d, k) \in Disk
<1>1. k.body \in Body /\ (k.phase = "cgi" => k.n \in Requests)
  BY DEF ConnOK, ConnType, Busy, Phases
<1>2. Cleanup(d, k.body) \in Disk
  <2>1. CASE k.body.inDisk
    BY <1>1 DEF Cleanup, Disk, Body, NoFile
  <2>2. CASE ~k.body.inDisk
    BY <2>2 DEF Cleanup
  <2>3. QED
    BY <2>1, <2>2
<1>3. CASE k.phase = "cgi"
  BY <1>1, <1>2, <1>3, RemovalType DEF WithoutRequest
<1>4. QED
  BY <1>2, <1>3 DEF WithoutRequest

\* An answer is sent.
LEMMA RespondType ==
  ASSUME TypeInv, NEW c \in Conns, conn[c].phase \in Busy, NEW r, ReplyOK(r), Respond(c, r),
         run' = run, asked' = asked
  PROVE  ConnsOK' /\ disk' \in Disk /\ \A a \in replies' : ReplyOK(a)
<1>1. asked \in Nat /\ ConnsOK /\ disk \in Disk
  BY NamesAssumption, DepFacts DEF TypeInv, TypeOK
<1>2. ConnOK(conn[c], asked) /\ conn[c].phase # "closed"
  BY <1>1 DEF ConnsOK, Busy
<1>3. PICK k : conn' = [conn EXCEPT ![c] = k] /\ k \in {ClosedConn, ResetConn(conn[c])}
  BY DEF Respond, RemoveClient
<1>4. ConnOK(k, asked)
  BY <1>1, <1>2, <1>3, ClosedConnOK, ResetConnOK
<1>5. ConnsOK'
  <2>1. asked' \in Nat /\ asked <= asked' /\ ConnOK(k, asked')
    BY <1>1, <1>4
  <2>2. QED
    BY <1>1, <1>3, <2>1, OneConn
<1>6. disk' \in Disk
  BY <1>1, <1>2, WithoutRequestType DEF Respond
<1>7. \A a \in replies' : ReplyOK(a)
  BY DEF Respond, TypeInv, TypeOK, ReplyOK
<1>8. QED
  BY <1>5, <1>6, <1>7

\* An answer to a request at hand is in order.
LEMMA ReplyType ==
  ASSUME ConnsOK, NEW c \in Conns, conn[c].phase \in Busy, NEW part, NEW verdict
  PROVE  ReplyOK(Reply(c, part, verdict)) /\ ReplyOK(RoutedReply(c, part, verdict))
<1>1. conn[c].owner \in Browsers /\ conn[c].n \in Requests /\ conn[c].cookie \in Nat
  BY DEF ConnsOK, ConnOK, ConnType, Busy
<1>2. ReplyOK(Reply(c, part, verdict))
  BY <1>1 DEF ReplyOK, Reply
<1>3. QED
  BY <1>1, <1>2 DEF ReplyOK, RoutedReply, Reply

\* The browser's cookie is looked up, or a session made for it.
LEMMA SetSessionType ==
  ASSUME TypeInv, NEW c \in Conns, NEW k, ConnOK(k, asked), k.phase # "closed",
         SetSession(c, k), run' = run, asked' = asked
  PROVE  ConnsOK' /\ sessions' \in SessionTable
<1> DEFINE requested == EnsureSessionId(k.sid, k.presented)
           found == GetSession(sessions, requested)
           cookie == IF found.id = requested THEN None ELSE found.id
           id == found.id
           e == [k EXCEPT !.sid = id, !.cookie = cookie]
<1>1. asked \in Nat /\ ConnsOK /\ sessions \in SessionTable
  BY NamesAssumption, DepFacts DEF TypeInv, TypeOK
<1>2. k \in ConnType
  BY DEF ConnOK
<1>3. requested \in Nat
  BY <1>2 DEF EnsureSessionId, ConnType
<1>4. found.table \in SessionTable /\ found.id \in 1 .. Len(found.table)
  <2> HIDE DEF requested
  <2> QED BY <1>1, <1>3, GetSessionFacts
<1>5. sessions' = found.table /\ conn' = [conn EXCEPT ![c] = e]
  BY DEF SetSession
<1> HIDE DEF found
<1>6. id \in Nat /\ cookie \in Nat
  BY <1>4 DEF SessionTable, None
<1> HIDE DEF id, cookie
<1>7. e \in ConnType /\ e.n = k.n /\ e.phase = k.phase /\ e.owner = k.owner /\ e.ask = k.ask
      /\ e.body = k.body
  BY <1>2, <1>6 DEF ConnType
<1> HIDE DEF e
<1>8. ConnOK(e, asked)
  BY <1>7 DEF ConnOK
<1>9. ConnsOK'
  <2>1. asked' \in Nat /\ asked <= asked' /\ ConnOK(e, asked')
    BY <1>1, <1>8
  <2>2. QED
    BY <1>1, <1>5, <2>1, OneConn
<1>10. QED
  BY <1>4, <1>5, <1>9

-----------------------------------------------------------------------------
(* Every step keeps the types. *)

\* The parts of the type invariant after a step.
LEMMA TypeFromParts ==
  ASSUME TypeInv, run' = run, up' \in BOOLEAN, sessions' \in SessionTable, disk' \in Disk,
         files' \in [DOMAIN files' -> Nat], ConnsOK', jar' \in [Browsers -> Nat],
         asked' \in 0 .. dep.most, members' \subseteq Browsers,
         \A a \in replies' : ReplyOK(a), \A d \in delivered' : DeliveryOK(d)
  PROVE  TypeInv'
<1>1. dep' = dep
  BY DEF dep
<1>2. QED
  BY <1>1 DEF TypeInv, TypeOK, ConnsOK, ReplyOK, DeliveryOK

\* What the type invariant says, part by part.
LEMMA TypeParts ==
  ASSUME TypeInv
  PROVE  /\ run \in DOMAIN Deployments /\ up \in BOOLEAN /\ sessions \in SessionTable
         /\ disk \in Disk /\ files \in [DOMAIN files -> Nat] /\ ConnsOK
         /\ jar \in [Browsers -> Nat] /\ asked \in 0 .. dep.most /\ members \subseteq Browsers
         /\ \A a \in replies : ReplyOK(a)
         /\ \A d \in delivered : DeliveryOK(d)
         /\ dep.most \in Nat /\ asked \in Nat
BY NamesAssumption, DepFacts DEF TypeInv, TypeOK, ReplyOK, DeliveryOK

\* What is known of a connection.
LEMMA ConnParts ==
  ASSUME TypeInv, NEW c \in Conns
  PROVE  /\ conn[c] \in ConnType /\ ConnOK(conn[c], asked)
         /\ conn[c].sid \in Nat /\ conn[c].body \in Body /\ conn[c].n \in Nat
         /\ conn[c].phase \in Busy =>
              /\ conn[c].owner \in Browsers /\ conn[c].n \in Requests
              /\ conn[c].ask \in dep.asks /\ conn[c].ask.size \in Nat
<1>1. ConnOK(conn[c], asked) /\ conn[c] \in ConnType
  BY TypeParts DEF ConnsOK, ConnOK
<1>2. dep.asks \subseteq Ask
  BY TypeParts, DepFacts
<1>3. conn[c].phase \in Busy => conn[c].ask \in Ask
  BY <1>1, <1>2 DEF ConnOK
<1>4. conn[c].phase \in Busy => conn[c].ask.size \in Nat
  BY <1>3 DEF Ask
<1>5. QED
  BY <1>1, <1>4 DEF ConnOK, ConnType, Busy

LEMMA OneConnSame ==
  ASSUME TypeInv, NEW c \in Conns, NEW k, ConnOK(k, asked), conn' = [conn EXCEPT ![c] = k],
         run' = run, asked' = asked
  PROVE  ConnsOK'
<1>1. asked \in Nat /\ ConnsOK
  BY TypeParts
<1>2. asked' \in Nat /\ asked <= asked' /\ ConnOK(k, asked')
  BY <1>1
<1>3. QED
  BY <1>1, <1>2, OneConn

LEMMA ConnectType == ASSUME TypeInv, NEW c \in Conns, Connect(c) PROVE TypeInv'
<1>1. PICK b \in dep.browsers : conn' = [conn EXCEPT ![c] = AddClient(c, b)]
  BY DEF Connect
<1> DEFINE k == [conn[c] EXCEPT !.owner = b, !.phase = "idle"]
<1>2. b \in Browsers
  BY TypeParts, DepFacts
<1>3. /\ k \in ConnType /\ k.owner = b /\ k.phase = "idle"
      /\ k.n = conn[c].n /\ k.body = conn[c].body
  BY <1>2, ConnParts DEF ConnType, Phases
<1>4. conn' = [conn EXCEPT ![c] = k]
  BY <1>1 DEF AddClient
<1> HIDE DEF k
<1>5. ConnOK(k, asked)
  BY <1>2, <1>3, ConnParts DEF ConnOK, Busy, Connect
<1>6. ConnsOK'
  <2>1. asked \in Nat /\ asked' = asked /\ run' = run /\ ConnsOK /\ ConnOK(k, asked')
    BY <1>5, TypeParts DEF Connect
  <2>2. asked <= asked'
    BY <2>1
  <2>3. QED
    BY <1>4, <2>1, <2>2, OneConn
<1>7. QED
  <2> USE DEF Connect
  <2> QED BY <1>6, TypeParts, TypeFromParts

LEMMA SendType == ASSUME TypeInv, NEW c \in Conns, Send(c) PROVE TypeInv'
<1>1. PICK a \in dep.asks :
        conn' = [conn EXCEPT ![c].phase = "sent", ![c].n = asked + 1, ![c].ask = a,
                             ![c].presented = jar[conn[c].owner]]
  BY DEF Send
<1> DEFINE m == asked + 1
           p == jar[conn[c].owner]
           k == [conn[c] EXCEPT !.phase = "sent", !.n = m, !.ask = a, !.presented = p]
<1>2. m \in 1 .. dep.most /\ m \in Requests /\ asked <= m
  BY TypeParts, DepFacts, NamesAssumption DEF Send, Requests
<1>3. a \in AnyAsk
  BY TypeParts, AsksFacts
<1>4. conn[c].owner \in Browsers /\ p \in Nat
  BY TypeParts, ConnParts DEF Send, ConnOK
<1>5. conn' = [conn EXCEPT ![c] = k]
  BY <1>1, TypeParts DEF ConnsOK
<1>6. m \in 0 .. MaxRequests
  BY <1>2 DEF Requests
<1> HIDE DEF p, m
<1>7. k \in ConnType /\ k.owner = conn[c].owner /\ k.phase = "sent" /\ k.n = m /\ k.ask = a
      /\ k.body = conn[c].body
  BY <1>3, <1>4, <1>6, ConnParts DEF ConnType, Phases
<1> HIDE DEF k
<1>8. ConnOK(k, m)
  BY <1>2, <1>4, <1>7, ConnParts DEF ConnOK, Send
<1>9. ConnsOK'
  <2>1. asked' = m /\ run' = run
    BY DEF Send, m
  <2>2. asked \in Nat /\ asked' \in Nat /\ asked <= asked' /\ ConnsOK /\ ConnOK(k, asked')
    BY <1>2, <1>8, <2>1, TypeParts
  <2>3. QED
    BY <1>5, <2>1, <2>2, OneConn
<1>10. asked' \in 0 .. dep.most
  BY <1>2, TypeParts DEF Send, m
<1>11. QED
  <2> USE DEF Send
  <2> QED BY <1>9, <1>10, TypeParts, TypeFromParts

LEMMA ReceiveType == ASSUME TypeInv, NEW a \in replies, Receive(a) PROVE TypeInv'
<1>1. a.to \in Browsers /\ a.cookie \in Nat
  BY TypeParts DEF ReplyOK
<1>2. jar' \in [Browsers -> Nat]
  BY <1>1, TypeParts DEF Receive
<1>3. ConnsOK'
  BY TypeParts, SameConns DEF Receive, server
<1>4. \A r \in replies' : ReplyOK(r)
  BY TypeParts DEF Receive
<1>5. run' = run /\ up' = up /\ sessions' = sessions /\ disk' = disk /\ files' = files
      /\ asked' = asked /\ members' = members /\ delivered' = delivered
  BY DEF Receive, server
<1>6. QED
  BY <1>2, <1>3, <1>4, <1>5, TypeParts, TypeFromParts


LEMMA ReadHeadType == ASSUME TypeInv, NEW c \in Conns, ReadHead(c) PROVE TypeInv'
<1> DEFINE k(phase) == [conn[c] EXCEPT !.phase = phase]
<1>1. conn[c].phase = "sent" /\ run' = run /\ asked' = asked
  BY DEF ReadHead
<1>2. conn[c] \in ConnType /\ ConnOK(conn[c], asked)
  BY ConnParts
<1>3. ASSUME NEW phase \in {"ready", "body"}
      PROVE  ConnOK(k(phase), asked) /\ k(phase).phase = phase
  <2>1. k(phase) \in ConnType /\ k(phase).phase = phase /\ k(phase).owner = conn[c].owner
        /\ k(phase).n = conn[c].n /\ k(phase).ask = conn[c].ask /\ k(phase).body = conn[c].body
    BY <1>2 DEF ConnType, Phases
  <2>2. QED
    BY <1>1, <1>2, <2>1 DEF ConnOK, Busy, Phases
<1>4. CASE conn[c].ask.size = 0
  <2>1. SetSession(c, k("ready"))
    BY <1>4 DEF ReadHead
  <2>2. ConnOK(k("ready"), asked) /\ k("ready").phase # "closed"
    BY <1>3
  <2> HIDE DEF k
  <2>3. ConnsOK' /\ sessions' \in SessionTable
    BY <1>1, <2>1, <2>2, SetSessionType
  <2>4. QED
    BY <2>3, TypeParts, TypeFromParts DEF ReadHead
<1>5. CASE conn[c].ask.size # 0
  <2>1. conn' = [conn EXCEPT ![c] = k("body")] /\ sessions' = sessions
    BY <1>5, TypeParts DEF ReadHead, ConnsOK
  <2>2. ConnOK(k("body"), asked)
    BY <1>3
  <2> HIDE DEF k
  <2>3. ConnsOK'
    BY <1>1, <2>1, <2>2, OneConnSame
  <2>4. QED
    BY <2>1, <2>3, TypeParts, TypeFromParts DEF ReadHead
<1>6. QED
  BY <1>4, <1>5


LEMMA ReadBodyType == ASSUME TypeInv, NEW c \in Conns, ReadBody(c) PROVE TypeInv'
<1> DEFINE next == PartsRead(conn[c].body) + 1
           part == <<conn[c].n, next>>
           both == AppendBody(disk, conn[c].body, conn[c].n, part)
           k(body) == [conn[c] EXCEPT !.body = body]
           r(body) == [conn[c] EXCEPT !.phase = "ready", !.body = body]
           body == both.body
<1>1. conn[c].phase = "body" /\ run' = run /\ asked' = asked
  BY DEF ReadBody
<1>2. conn[c] \in ConnType /\ ConnOK(conn[c], asked) /\ conn[c].body \in Body
      /\ conn[c].n \in Requests /\ disk \in Disk
  BY <1>1, ConnParts, TypeParts DEF Busy, Phases
<1>3. part \in Part
  <2>1. next \in Nat
    BY <1>2 DEF PartsRead, Body
  <2> HIDE DEF next
  <2>2. QED
    BY <1>2, <2>1 DEF Part, Requests
<1> HIDE DEF part
<1>4. both \in Pair /\ (both.body.inDisk => both.body.file \in Requests)
  BY <1>1, <1>2, <1>3, AppendBodyType DEF ConnOK
<1>5. disk' = both.disk
  BY DEF ReadBody, part
<1>6. \/ SetSession(c, r(body))
      \/ conn' = [conn EXCEPT ![c] = k(body)] /\ sessions' = sessions
  BY TypeParts DEF ReadBody, part, ConnsOK
<1> HIDE DEF both
<1>7. body \in Body /\ both.disk \in Disk
  BY <1>4 DEF Pair
<1> HIDE DEF body
<1>8. ConnOK(k(body), asked) /\ ConnOK(r(body), asked) /\ r(body).phase = "ready"
  <2>1. /\ k(body) \in ConnType /\ k(body).phase = "body" /\ k(body).owner = conn[c].owner
        /\ k(body).n = conn[c].n /\ k(body).ask = conn[c].ask /\ k(body).body = body
    BY <1>1, <1>2, <1>7 DEF ConnType
  <2>2. /\ r(body) \in ConnType /\ r(body).phase = "ready" /\ r(body).owner = conn[c].owner
        /\ r(body).n = conn[c].n /\ r(body).ask = conn[c].ask /\ r(body).body = body
    BY <1>2, <1>7 DEF ConnType, Phases
  <2>3. body.inDisk => body.file \in Requests
    BY <1>4 DEF body
  <2>4. QED
    BY <1>1, <1>2, <2>1, <2>2, <2>3 DEF ConnOK, Busy, Phases
<1> HIDE DEF k, r
<1>9. ConnsOK' /\ sessions' \in SessionTable
  <2>1. CASE SetSession(c, r(body))
    BY <1>1, <1>8, <2>1, SetSessionType
  <2>2. CASE conn' = [conn EXCEPT ![c] = k(body)] /\ sessions' = sessions
    BY <1>1, <1>8, <2>2, OneConnSame, TypeParts
  <2>3. QED
    BY <1>6, <2>1, <2>2
<1>10. disk' \in Disk
  BY <1>5, <1>7
<1>11. QED
  BY <1>9, <1>10, TypeParts, TypeFromParts DEF ReadBody

LEMMA ReadBodyFailsType == ASSUME TypeInv, NEW c \in Conns, ReadBodyFails(c) PROVE TypeInv'
<1>1. PICK both \in AppendFails(disk, conn[c].body, conn[c].n) :
        /\ disk' = both.disk
        /\ SetSession(c, [conn[c] EXCEPT !.phase = "refused", !.body = both.body])
  BY DEF ReadBodyFails
<1> DEFINE body == both.body
           k == [conn[c] EXCEPT !.phase = "refused", !.body = body]
<1>2. conn[c].phase = "body" /\ run' = run /\ asked' = asked
  BY DEF ReadBodyFails
<1>3. conn[c] \in ConnType /\ ConnOK(conn[c], asked) /\ conn[c].body \in Body
      /\ conn[c].n \in Requests /\ disk \in Disk
  BY <1>2, ConnParts, TypeParts DEF Busy, Phases
<1>4. both \in Pair
  BY <1>1, <1>3, AppendFailsType
<1>5. body \in Body /\ both.disk \in Disk
  BY <1>4 DEF Pair
<1> HIDE DEF body
<1>6. ConnOK(k, asked) /\ k.phase = "refused"
  <2>1. /\ k \in ConnType /\ k.phase = "refused" /\ k.owner = conn[c].owner
        /\ k.n = conn[c].n /\ k.ask = conn[c].ask
    BY <1>3, <1>5 DEF ConnType, Phases
  <2>2. QED
    BY <1>2, <1>3, <2>1 DEF ConnOK, Busy, Phases
<1>7. SetSession(c, k)
  BY <1>1 DEF body
<1> HIDE DEF k
<1>8. ConnsOK' /\ sessions' \in SessionTable
  BY <1>2, <1>6, <1>7, SetSessionType
<1>9. disk' \in Disk
  BY <1>1, <1>5
<1>10. QED
  BY <1>8, <1>9, TypeParts, TypeFromParts DEF ReadBodyFails

LEMMA ReportErrorType == ASSUME TypeInv, NEW c \in Conns, ReportError(c) PROVE TypeInv'
<1> DEFINE r == Reply(c, "whole", ErrorAnswer(dep.site, 500, conn[c].ask.request.range))
<1>1. conn[c].phase \in Busy /\ run' = run /\ asked' = asked /\ Respond(c, r)
  BY DEF ReportError, Busy, Phases
<1>2. ReplyOK(r)
  BY <1>1, TypeParts, ReplyType
<1> HIDE DEF r
<1>3. ConnsOK' /\ disk' \in Disk /\ \A a \in replies' : ReplyOK(a)
  BY <1>1, <1>2, RespondType
<1>4. QED
  BY <1>3, TypeParts, TypeFromParts DEF ReportError

\* A request that is routed, and answered at once.
LEMMA RoutesType ==
  ASSUME TypeInv, NEW c \in Conns, NEW deed, Routes(c, deed)
  PROVE  /\ conn[c].phase \in Busy /\ conn[c].phase # "refused" /\ sessions' \in SessionTable
         /\ run' = run /\ jar' = jar /\ asked' = asked /\ members' = members
         /\ up
<1>1. conn[c].sid \in Nat /\ sessions \in SessionTable
  BY ConnParts, TypeParts
<1>2. Looked(c).table \in SessionTable
  BY <1>1, GetSessionFacts DEF Looked
<1>3. QED
  BY <1>2 DEF Routes, Busy, Phases

LEMMA RoutedType ==
  ASSUME TypeInv, NEW c \in Conns, NEW deed, Routes(c, deed),
         NEW verdict, Respond(c, RoutedReply(c, "whole", verdict)),
         up' = up, files' \in [DOMAIN files' -> Nat], \A d \in delivered' : DeliveryOK(d)
  PROVE  TypeInv'
<1> DEFINE r == RoutedReply(c, "whole", verdict)
<1>1. /\ conn[c].phase \in Busy /\ sessions' \in SessionTable
      /\ run' = run /\ jar' = jar /\ asked' = asked /\ members' = members
  BY RoutesType
<1>2. ReplyOK(r)
  BY <1>1, TypeParts, ReplyType
<1>3. Respond(c, r)
  OBVIOUS
<1> HIDE DEF r
<1>4. ConnsOK' /\ disk' \in Disk /\ \A a \in replies' : ReplyOK(a)
  BY <1>1, <1>2, <1>3, RespondType
<1>5. QED
  BY <1>1, <1>4, TypeParts, TypeFromParts

LEMMA RouterFailsType ==
  ASSUME TypeInv, NEW c \in Conns, NEW deed, Routes(c, deed), RouterFails(c)
  PROVE  TypeInv'
<1>1. up' = up /\ files' \in [DOMAIN files' -> Nat] /\ \A d \in delivered' : DeliveryOK(d)
  BY TypeParts DEF RouterFails
<1>2. QED
  BY <1>1, RoutedType DEF RouterFails

\* A body that is handed on.
LEMMA DeliveryType ==
  ASSUME TypeInv, NEW c \in Conns, NEW deed, Routes(c, deed)
  PROVE  DeliveryOK(Delivery(c))
<1>1. conn[c].n \in Requests /\ conn[c].body \in Body /\ disk \in Disk
      /\ (conn[c].body.inDisk => conn[c].body.file \in Requests)
  BY RoutesType, ConnParts, TypeParts DEF ConnOK
<1>2. WholeBody(disk, conn[c].body) \in Seq(Part)
  BY <1>1, WholeBodyType
<1>3. QED
  BY <1>1, <1>2 DEF DeliveryOK, Delivery

LEMMA AnswerPageType == ASSUME TypeInv, NEW c \in Conns, AnswerPage(c) PROVE TypeInv'
<1>1. up' = up /\ files' \in [DOMAIN files' -> Nat] /\ \A d \in delivered' : DeliveryOK(d)
  BY TypeParts DEF AnswerPage
<1>2. QED
  BY <1>1, RoutedType DEF AnswerPage

LEMMA UploadType == ASSUME TypeInv, NEW c \in Conns, Upload(c) PROVE TypeInv'
<1>1. Routes(c, "upload")
  BY DEF Upload
<1>2. CASE RouterFails(c)
  BY <1>1, <1>2, RouterFailsType
<1>3. CASE /\ files' = WithFile(UploadPath(Verdict(c).path, conn[c].sid), conn[c].ask.size)
           /\ delivered' = delivered \cup {Delivery(c)}
           /\ Respond(c, RoutedReply(c, "whole", Answer(200)))
           /\ UNCHANGED up
  <2>1. conn[c].ask.size \in Nat
    BY <1>1, RoutesType, ConnParts
  <2>2. \A path, size : size \in Nat => WithFile(path, size) \in [DOMAIN WithFile(path, size) -> Nat]
    BY TypeParts DEF WithFile
  <2>3. files' \in [DOMAIN files' -> Nat]
    BY <1>3, <2>1, <2>2
  <2>4. \A d \in delivered' : DeliveryOK(d)
    BY <1>1, <1>3, DeliveryType, TypeParts
  <2>5. QED
    BY <1>1, <1>3, <2>3, <2>4, RoutedType
<1>4. QED
  BY <1>2, <1>3 DEF Upload

LEMMA DeleteFileType == ASSUME TypeInv, NEW c \in Conns, DeleteFile(c) PROVE TypeInv'
<1>1. Routes(c, "delete")
  BY DEF DeleteFile
<1>2. CASE RouterFails(c)
  BY <1>1, <1>2, RouterFailsType
<1>3. CASE /\ files' = [p \in DOMAIN files \ {Verdict(c).path} |-> files[p]]
           /\ Respond(c, RoutedReply(c, "whole", Answer(204)))
           /\ UNCHANGED <<up, delivered>>
  <2>1. files' \in [DOMAIN files' -> Nat]
    BY <1>3, TypeParts
  <2>2. QED
    BY <1>1, <1>3, <2>1, RoutedType, TypeParts
<1>4. QED
  BY <1>2, <1>3 DEF DeleteFile


LEMMA LaunchType == ASSUME TypeInv, NEW c \in Conns, Launch(c) PROVE TypeInv'
<1>1. Routes(c, "run")
  BY DEF Launch
<1>2. /\ conn[c].phase \in Busy /\ conn[c].phase # "refused" /\ sessions' \in SessionTable
      /\ run' = run /\ jar' = jar /\ asked' = asked /\ members' = members
  BY <1>1, RoutesType
<1>3. CASE RouterFails(c)
  BY <1>1, <1>3, RouterFailsType
<1>4. CASE /\ disk' = CreateInput(disk, conn[c].n)
           /\ delivered' = delivered \cup {Delivery(c)}
           /\ conn' = [conn EXCEPT ![c].phase = "cgi", ![c].cgi = "running"]
           /\ UNCHANGED <<up, files, replies>>
  <2> DEFINE k == [conn[c] EXCEPT !.phase = "cgi", !.cgi = "running"]
  <2>1. conn' = [conn EXCEPT ![c] = k]
    BY <1>4, TypeParts DEF ConnsOK
  <2>2. conn[c] \in ConnType /\ ConnOK(conn[c], asked) /\ conn[c].n \in Requests
    BY <1>2, ConnParts
  <2>3. /\ k \in ConnType /\ k.phase = "cgi" /\ k.owner = conn[c].owner /\ k.n = conn[c].n
        /\ k.ask = conn[c].ask /\ k.body = conn[c].body
    BY <2>2 DEF ConnType, Phases
  <2> HIDE DEF k
  <2>4. ConnOK(k, asked)
    BY <1>2, <2>2, <2>3 DEF ConnOK, Busy
  <2>5. ConnsOK'
    BY <1>2, <2>1, <2>4, OneConnSame
  <2>6. disk' \in Disk
    BY <1>4, <2>2, ConnParts, TypeParts, RemovalType
  <2>7. \A d \in delivered' : DeliveryOK(d)
    BY <1>1, <1>4, DeliveryType, TypeParts
  <2>8. QED
    BY <1>2, <1>4, <2>5, <2>6, <2>7, TypeParts, TypeFromParts
<1>5. QED
  BY <1>3, <1>4 DEF Launch

\* The end of run().
LEMMA ShutDownType ==
  ASSUME TypeInv, ShutDown, run' = run, asked' = asked
  PROVE  ConnsOK' /\ up' \in BOOLEAN /\ disk' \in Disk
<1>1. conn' = [c \in Conns |-> ClosedConn]
  BY DEF ShutDown
<1>2. asked \in Nat
  BY TypeParts
<1>3. ConnOK(ClosedConn, asked) /\ ClosedConn \in ConnType
  BY <1>2, ClosedConnOK
<1>4. dep' = dep
  BY DEF dep
<1>5. ConnsOK'
  BY <1>1, <1>3, <1>4 DEF ConnsOK, ConnOK
<1>6. PICK named, inputs :
        disk' = [disk EXCEPT !.entry = [k \in DOMAIN @ |-> IF k \in named THEN NoFile ELSE @[k]],
                             !.inputs = @ \ inputs]
  BY DEF ShutDown
<1> DEFINE entry == [k \in DOMAIN disk.entry |-> IF k \in named THEN NoFile ELSE disk.entry[k]]
           left == disk.inputs \ inputs
<1>7. disk \in Disk
  BY TypeParts
<1>8. entry \in [0 .. Names - 1 -> Requests \cup {NoFile}] /\ left \in SUBSET Requests
  BY <1>7 DEF Disk
<1>9. disk' = [disk EXCEPT !.entry = entry, !.inputs = left]
  BY <1>6, <1>7 DEF Disk
<1> HIDE DEF entry, left
<1>10. disk' \in Disk
  BY <1>7, <1>8, <1>9 DEF Disk
<1>11. QED
  BY <1>5, <1>10 DEF ShutDown

LEMMA ThrowType == ASSUME TypeInv, NEW c \in Conns, Throw(c) PROVE TypeInv'
<1>1. Routes(c, "throw") /\ ShutDown
  BY DEF Throw
<1>2. /\ sessions' \in SessionTable
      /\ run' = run /\ jar' = jar /\ asked' = asked /\ members' = members
  BY <1>1, RoutesType
<1>3. ConnsOK' /\ up' \in BOOLEAN /\ disk' \in Disk
  BY <1>1, <1>2, ShutDownType
<1>4. QED
  BY <1>2, <1>3, TypeParts, TypeFromParts DEF Throw

LEMMA StopType == ASSUME TypeInv, Stop PROVE TypeInv'
<1>1. ConnsOK' /\ up' \in BOOLEAN /\ disk' \in Disk
  BY ShutDownType DEF Stop
<1>2. QED
  BY <1>1, TypeParts, TypeFromParts DEF Stop

LEMMA CgiWritesType == ASSUME TypeInv, NEW c \in Conns, CgiWrites(c) PROVE TypeInv'
<1> DEFINE k == [conn[c] EXCEPT !.wrote = TRUE]
<1>1. conn' = [conn EXCEPT ![c] = k] /\ run' = run /\ asked' = asked
  BY TypeParts DEF CgiWrites, ConnsOK
<1>2. conn[c] \in ConnType /\ ConnOK(conn[c], asked) /\ conn[c].phase = "cgi"
  BY ConnParts DEF CgiWrites
<1>3. /\ k \in ConnType /\ k.phase = "cgi" /\ k.owner = conn[c].owner /\ k.n = conn[c].n
      /\ k.ask = conn[c].ask /\ k.body = conn[c].body
  BY <1>2 DEF ConnType
<1> HIDE DEF k
<1>4. ConnOK(k, asked)
  BY <1>2, <1>3 DEF ConnOK
<1>5. ConnsOK'
  BY <1>1, <1>4, OneConnSame
<1>6. QED
  BY <1>5, TypeParts, TypeFromParts DEF CgiWrites

LEMMA CgiExitsType == ASSUME TypeInv, NEW c \in Conns, CgiExits(c) PROVE TypeInv'
<1>1. PICK end \in {"ok", "failed"} : conn' = [conn EXCEPT ![c].cgi = end]
  BY DEF CgiExits
<1> DEFINE k == [conn[c] EXCEPT !.cgi = end]
<1>2. conn' = [conn EXCEPT ![c] = k] /\ run' = run /\ asked' = asked
  BY <1>1, TypeParts DEF CgiExits, ConnsOK
<1>3. conn[c] \in ConnType /\ ConnOK(conn[c], asked) /\ conn[c].phase = "cgi"
  BY ConnParts DEF CgiExits
<1>4. /\ k \in ConnType /\ k.phase = "cgi" /\ k.owner = conn[c].owner /\ k.n = conn[c].n
      /\ k.ask = conn[c].ask /\ k.body = conn[c].body
  BY <1>3 DEF ConnType
<1> HIDE DEF k
<1>5. ConnOK(k, asked)
  BY <1>3, <1>4 DEF ConnOK
<1>6. ConnsOK'
  BY <1>2, <1>5, OneConnSame
<1>7. QED
  BY <1>6, TypeParts, TypeFromParts DEF CgiExits

LEMMA RelayHeadType == ASSUME TypeInv, NEW c \in Conns, RelayHead(c) PROVE TypeInv'
<1> DEFINE k == [conn[c] EXCEPT !.streamed = TRUE]
           r == RoutedReply(c, "head", ScriptAnswer(c))
<1>1. conn' = [conn EXCEPT ![c] = k] /\ run' = run /\ asked' = asked
  BY TypeParts DEF RelayHead, ConnsOK
<1>2. conn[c] \in ConnType /\ ConnOK(conn[c], asked) /\ conn[c].phase = "cgi"
  BY ConnParts DEF RelayHead
<1>3. /\ k \in ConnType /\ k.phase = "cgi" /\ k.owner = conn[c].owner /\ k.n = conn[c].n
      /\ k.ask = conn[c].ask /\ k.body = conn[c].body
  BY <1>2 DEF ConnType
<1> HIDE DEF k
<1>4. ConnOK(k, asked)
  BY <1>2, <1>3 DEF ConnOK
<1>5. ConnsOK'
  BY <1>1, <1>4, OneConnSame
<1>6. ReplyOK(r)
  BY <1>2, TypeParts, ReplyType DEF Busy, Phases
<1>7. replies' = replies \cup {r}
  BY DEF RelayHead
<1> HIDE DEF r
<1>8. \A a \in replies' : ReplyOK(a)
  BY <1>6, <1>7, TypeParts
<1>9. QED
  BY <1>5, <1>8, TypeParts, TypeFromParts DEF RelayHead

\* The end of an answer is in order.
LEMMA LastReplyType ==
  ASSUME TypeInv, NEW c \in Conns, conn[c].phase = "cgi"
  PROVE  ReplyOK(LastReply(c))
<1>1. \A part : ReplyOK(RoutedReply(c, part, ScriptAnswer(c)))
  BY TypeParts, ReplyType DEF Busy, Phases
<1>2. conn[c].cookie \in Nat
  BY ConnParts DEF ConnType
<1>3. \A r, cookie, login : ReplyOK(r) /\ cookie \in Nat
        => ReplyOK([r EXCEPT !.cookie = cookie, !.login = login])
        \/ ~("to" \in DOMAIN r /\ "n" \in DOMAIN r /\ "cookie" \in DOMAIN r)
  BY DEF ReplyOK
<1>4. QED
  BY <1>1, <1>2 DEF LastReply, ReplyOK, RoutedReply, Reply, None

LEMMA FinishCgiType == ASSUME TypeInv, NEW c \in Conns, FinishCgi(c) PROVE TypeInv'
<1> DEFINE sid == IF NamesUser(c) THEN ApplyAuth(sessions, conn[c].sid).id ELSE conn[c].sid
           reset == ResetConn(conn[c])
           kept == [reset EXCEPT !.sid = sid]
<1>1. /\ conn[c].phase = "cgi" /\ run' = run /\ asked' = asked
      /\ conn[c] \in ConnType /\ ConnOK(conn[c], asked)
      /\ conn[c].sid \in Nat /\ sessions \in SessionTable /\ asked \in Nat
  BY ConnParts, TypeParts DEF FinishCgi
<1>2. ApplyAuth(sessions, conn[c].sid).table \in SessionTable
      /\ ApplyAuth(sessions, conn[c].sid).id \in Nat
  <2>1. GetSession(sessions, conn[c].sid).id \in Nat
    BY <1>1, GetSessionFacts DEF SessionTable
  <2>2. QED
    <3> DEFINE g == GetSession(sessions, conn[c].sid)
               a == ApplyAuth(sessions, conn[c].sid)
    <3>1. g.id \in Nat /\ g = GetSession(sessions, conn[c].sid)
          /\ a = ApplyAuth(sessions, conn[c].sid)
      BY <2>1
    <3>2. conn[c].sid \in Nat /\ sessions \in SessionTable
      BY <1>1
    <3> HIDE DEF g, a
    <3>3. a.table \in SessionTable /\ a.id = g.id
      BY <3>1, <3>2, ApplyAuthFacts
    <3>4. QED
      BY <3>1, <3>3 DEF g, a
<1>3. sid \in Nat /\ sessions' \in SessionTable
  BY <1>1, <1>2 DEF FinishCgi
<1>4. PICK k : conn' = [conn EXCEPT ![c] = k] /\ k \in {ClosedConn, kept}
  <2>1. [reset EXCEPT !.sid = IF NamesUser(c) THEN ApplyAuth(sessions, conn[c].sid).id ELSE @]
          = kept
    BY <1>1 DEF ResetConn, ConnType
  <2> HIDE DEF kept
  <2>2. conn' = [conn EXCEPT ![c] = IF ~conn[c].ask.keep THEN ClosedConn ELSE kept]
    BY <2>1 DEF FinishCgi, RemoveClient
  <2>3. QED
    BY <2>2
<1> HIDE DEF sid
<1>5. ConnOK(kept, asked)
  <2>1. reset \in ConnType /\ ConnOK(reset, asked) /\ reset.phase = "idle"
    BY <1>1, ResetConnOK
  <2> HIDE DEF reset
  <2>2. /\ kept \in ConnType /\ kept.phase = "idle" /\ kept.owner = reset.owner
        /\ kept.n = reset.n /\ kept.ask = reset.ask /\ kept.body = reset.body
    BY <1>3, <2>1 DEF ConnType
  <2>3. QED
    BY <2>1, <2>2 DEF ConnOK
<1> HIDE DEF kept
<1>6. ConnsOK'
  <2>1. ConnOK(k, asked)
    BY <1>1, <1>4, <1>5, ClosedConnOK
  <2>2. QED
    BY <1>1, <1>4, <2>1, OneConnSame
<1>7. disk' \in Disk
  BY <1>1, TypeParts, WithoutRequestType DEF FinishCgi
<1>8. \A a \in replies' : ReplyOK(a)
  BY <1>1, LastReplyType, TypeParts DEF FinishCgi
<1>9. members' \subseteq Browsers
  BY <1>1, ConnParts, TypeParts DEF FinishCgi, Busy, Phases
<1>10. QED
  BY <1>3, <1>6, <1>7, <1>8, <1>9, TypeParts, TypeFromParts DEF FinishCgi

LEMMA FailCgiType == ASSUME TypeInv, NEW c \in Conns, FailCgi(c) PROVE TypeInv'
<1>1. conn[c].phase = "cgi" /\ run' = run /\ asked' = asked
      /\ conn[c] \in ConnType /\ ConnOK(conn[c], asked) /\ conn[c].phase \in Busy
  BY ConnParts DEF FailCgi, Busy, Phases
<1>2. CASE conn[c].streamed
  <2> DEFINE k == [conn[c] EXCEPT !.phase = "stuck", !.cgi = "none"]
  <2>1. conn' = [conn EXCEPT ![c] = k] /\ replies' = replies
    BY <1>2, TypeParts DEF FailCgi, ConnsOK
  <2>2. /\ k \in ConnType /\ k.phase = "stuck" /\ k.owner = conn[c].owner /\ k.n = conn[c].n
        /\ k.ask = conn[c].ask /\ k.body = conn[c].body
    BY <1>1 DEF ConnType, Phases
  <2> HIDE DEF k
  <2>3. ConnOK(k, asked)
    BY <1>1, <2>2 DEF ConnOK, Busy
  <2>4. ConnsOK'
    BY <1>1, <2>1, <2>3, OneConnSame
  <2>5. disk' \in Disk
    BY <1>1, <1>2, ConnParts, TypeParts, RemovalType DEF FailCgi
  <2>6. QED
    BY <2>1, <2>4, <2>5, TypeParts, TypeFromParts DEF FailCgi
<1>3. CASE ~conn[c].streamed
  <2> DEFINE r == RoutedReply(c, "whole",
                              ErrorAnswer(dep.site, 500, conn[c].ask.request.range))
  <2>1. Respond(c, r)
    BY <1>3 DEF FailCgi
  <2>2. ReplyOK(r)
    BY <1>1, TypeParts, ReplyType
  <2> HIDE DEF r
  <2>3. ConnsOK' /\ disk' \in Disk /\ \A a \in replies' : ReplyOK(a)
    BY <1>1, <2>1, <2>2, RespondType
  <2>4. QED
    BY <2>3, TypeParts, TypeFromParts DEF FailCgi
<1>4. QED
  BY <1>2, <1>3

LEMMA DropType == ASSUME TypeInv, NEW c \in Conns, Drop(c) PROVE TypeInv'
<1>1. conn' = [conn EXCEPT ![c] = ClosedConn] /\ run' = run /\ asked' = asked
  BY DEF Drop, RemoveClient
<1>2. ConnOK(ClosedConn, asked)
  BY TypeParts, ClosedConnOK
<1>3. ConnsOK'
  BY <1>1, <1>2, OneConnSame
<1>4. disk' \in Disk
  BY ConnParts, TypeParts, WithoutRequestType DEF Drop
<1>5. QED
  BY <1>3, <1>4, TypeParts, TypeFromParts DEF Drop

LEMMA ExpireType == ASSUME TypeInv, NEW s \in DOMAIN sessions, Expire(s) PROVE TypeInv'
<1> DEFINE e == [sessions[s] EXCEPT !.expired = TRUE]
<1>1. sessions \in Seq(Session) /\ sessions' = [sessions EXCEPT ![s] = e]
  BY TypeParts DEF Expire, SessionTable
<1>2. e \in Session
  <2>1. sessions[s] \in Session
    BY <1>1
  <2>2. QED
    BY <2>1 DEF Session
<1> HIDE DEF e
<1>3. sessions' \in SessionTable
  BY <1>1, <1>2 DEF SessionTable
<1>4. ConnsOK'
  BY TypeParts, SameConns DEF Expire
<1>5. QED
  BY <1>3, <1>4, TypeParts, TypeFromParts DEF Expire

\* The state keeps its shape, for every set of deployments: among others, a body that
\* is read from a file has one, and a busy connection has its browser and its request.
LEMMA TypeInit == Init => TypeInv
<1> SUFFICES ASSUME Init PROVE TypeInv
  OBVIOUS
<1>1. run \in DOMAIN Deployments /\ dep.files \in [DOMAIN dep.files -> Nat] /\ dep.most \in Nat
  BY DepFacts, NamesAssumption DEF Init
<1>2. <<>> \in SessionTable
  BY DEF SessionTable
<1>3. ConnOK(ClosedConn, 0) /\ ClosedConn \in ConnType
  BY ClosedConnOK
<1>4. ConnsOK /\ conn \in [Conns -> ConnType]
  BY <1>3 DEF Init, ConnsOK
<1>5. asked \in 0 .. dep.most /\ jar \in [Browsers -> Nat]
  BY <1>1 DEF Init, None
<1>6. QED
  BY <1>1, <1>2, <1>4, <1>5, EmptyDiskType, Zenon DEF Init, TypeInv, TypeOK

LEMMA TypeNext == TypeInv /\ [Next]_vars => TypeInv'
<1> SUFFICES ASSUME TypeInv, [Next]_vars PROVE TypeInv'
  OBVIOUS
<1>1. ASSUME NEW c \in Conns, Handle(c) PROVE TypeInv'
  BY <1>1, ReadHeadType, ReadBodyType, ReadBodyFailsType, ReportErrorType, AnswerPageType,
     UploadType, DeleteFileType, LaunchType, ThrowType, RelayHeadType, FinishCgiType,
     FailCgiType, DropType DEF Handle
<1>2. ASSUME NEW c \in Conns, Environment(c) PROVE TypeInv'
  BY <1>2, ConnectType, SendType, CgiWritesType, CgiExitsType DEF Environment
<1>3. CASE UNCHANGED vars
  BY <1>3, TypeParts, SameConns, TypeFromParts DEF vars
<1>4. QED
  BY <1>1, <1>2, <1>3, ReceiveType, ExpireType, StopType DEF Next

THEOREM ServingTypeCorrect == Spec => []TypeOK
<1>1. TypeInv => TypeOK
  BY DEF TypeInv
<1>2. QED
  BY <1>1, TypeInit, TypeNext, PTL DEF Spec

-----------------------------------------------------------------------------
(* Whose session is whose *)

(* What is known of a browser is in the table; it is known of no other; and who is known
   under a session that is logged in has logged in. *)
HeldExist == \A b \in Browsers : \A s \in Nat : Holds(b, s) => s \in 1 .. Len(sessions)
HeldApart ==
  \A b1, b2 \in Browsers : \A s \in Nat : Holds(b1, s) /\ Holds(b2, s) => b1 = b2
HeldByMembers ==
  \A b \in Browsers : \A s \in 1 .. Len(sessions) :
    Holds(b, s) /\ sessions[s].authenticated => b \in members
SessionInv == HeldExist /\ HeldApart /\ HeldByMembers

-----------------------------------------------------------------------------
(* A step of one browser *)

NewId(s) == s = Len(sessions) + 1 /\ s = Len(sessions')

(* Sessions stay, and stay logged in or expired. *)
Grows ==
  /\ Len(sessions) <= Len(sessions')
  /\ \A s \in 1 .. Len(sessions) :
       /\ sessions[s].authenticated => sessions'[s].authenticated
       /\ sessions[s].expired => sessions'[s].expired

(* Who is logged in by the step is o, under a session of its own. *)
LogsInOnly(o) ==
  \A s \in 1 .. Len(sessions') : sessions'[s].authenticated =>
    \/ s <= Len(sessions) /\ sessions[s].authenticated
    \/ o \in members' /\ (s > Len(sessions) \/ Holds(o, s))

(* Nobody comes to know a session but o, and o only a new one. *)
TellsOnly(o) ==
  \A b \in Browsers : \A s \in Nat : Holds(b, s)' => Holds(b, s) \/ (b = o /\ NewId(s))

\* A step after which only one browser knows more keeps the sessions apart.
LEMMA SessionStep ==
  ASSUME SessionInv, sessions \in SessionTable, sessions' \in SessionTable, NEW o \in Browsers,
         Grows, LogsInOnly(o), TellsOnly(o), members \subseteq members'
  PROVE  SessionInv'
<1>1. Len(sessions) \in Nat /\ Len(sessions') \in Nat /\ Len(sessions) <= Len(sessions')
  BY DEF Grows, SessionTable
<1>2. ASSUME NEW b \in Browsers, NEW s \in Nat, Holds(b, s)'
      PROVE  /\ s \in 1 .. Len(sessions')
             /\ s \in 1 .. Len(sessions) => Holds(b, s)
             /\ s \notin 1 .. Len(sessions) => b = o
  <2>1. Holds(b, s) \/ (b = o /\ NewId(s))
    BY <1>2 DEF TellsOnly
  <2>2. CASE Holds(b, s)
    BY <1>1, <2>2 DEF SessionInv, HeldExist
  <2>3. CASE b = o /\ NewId(s)
    BY <1>1, <2>3 DEF NewId
  <2>4. QED
    BY <2>1, <2>2, <2>3
<1>3. HeldExist'
  BY <1>2 DEF HeldExist
<1>4. ASSUME NEW b1 \in Browsers, NEW b2 \in Browsers, NEW s \in Nat, Holds(b1, s)', Holds(b2, s)'
      PROVE  b1 = b2
  <2>1. CASE s \in 1 .. Len(sessions)
    BY <1>2, <1>4, <2>1 DEF SessionInv, HeldApart
  <2>2. CASE s \notin 1 .. Len(sessions)
    BY <1>2, <1>4, <2>2
  <2>3. QED
    BY <2>1, <2>2
<1>5. ASSUME NEW b \in Browsers, NEW s \in 1 .. Len(sessions'), Holds(b, s)',
             sessions'[s].authenticated
      PROVE  b \in members'
  <2>1. s \in Nat
    BY <1>1
  <2>2. CASE s <= Len(sessions) /\ sessions[s].authenticated
    <3>1. s \in 1 .. Len(sessions)
      BY <1>1, <2>2
    <3>2. Holds(b, s)
      BY <1>2, <1>5, <2>1, <3>1
    <3>3. b \in members
      BY <2>2, <3>1, <3>2 DEF SessionInv, HeldByMembers
    <3>4. QED
      BY <3>3
  <2>3. CASE o \in members' /\ s > Len(sessions)
    BY <1>1, <1>2, <1>5, <2>1, <2>3
  <2>4. CASE o \in members' /\ Holds(o, s)
    <3>1. s \in 1 .. Len(sessions)
      BY <2>1, <2>4 DEF SessionInv, HeldExist
    <3>2. Holds(b, s)
      BY <1>2, <1>5, <2>1, <3>1
    <3>3. b = o
      BY <2>1, <2>4, <3>2 DEF SessionInv, HeldApart
    <3>4. QED
      BY <2>4, <3>3
  <2>5. QED
    BY <1>5, <2>2, <2>3, <2>4 DEF LogsInOnly
<1>6. HeldApart'
  BY <1>4 DEF HeldApart
<1>7. HeldByMembers'
  BY <1>5 DEF HeldByMembers
<1>8. QED
  BY <1>3, <1>6, <1>7 DEF SessionInv

(* What o may come to hold in a step. *)
MayHold(o, s) == Holds(o, s) \/ NewId(s)

\* One connection changes and one browser may be answered.
LEMMA ConnTells ==
  ASSUME ConnsOK, NEW c \in Conns, NEW k, NEW o \in Browsers,
         conn' = [conn EXCEPT ![c] = k], jar' = jar,
         \A s \in Held(k) : k.owner = o /\ MayHold(o, s),
         \A a \in replies' \ replies : a.to = o /\ \A s \in Told(a) : MayHold(o, s)
  PROVE  TellsOnly(o)
<1> SUFFICES ASSUME NEW b \in Browsers, NEW s \in Nat, Holds(b, s)'
             PROVE  Holds(b, s) \/ (b = o /\ NewId(s))
  BY DEF TellsOnly
<1>1. CASE s = jar'[b] /\ s # None
  BY <1>1 DEF Holds
<1>2. CASE \E d \in Conns : conn'[d].owner = b /\ s \in Held(conn'[d])
  <2>1. PICK d \in Conns : conn'[d].owner = b /\ s \in Held(conn'[d])
    BY <1>2
  <2>2. CASE d = c
    <3>1. conn'[d] = k
      BY <2>2 DEF ConnsOK
    <3>2. QED
      BY <2>1, <3>1 DEF MayHold
  <2>3. CASE d # c
    <3>1. conn'[d] = conn[d]
      BY <2>3 DEF ConnsOK
    <3>2. QED
      BY <2>1, <3>1 DEF Holds
  <2>4. QED
    BY <2>2, <2>3
<1>3. CASE \E a \in replies' : a.to = b /\ s \in Told(a)
  <2>1. PICK a \in replies' : a.to = b /\ s \in Told(a)
    BY <1>3
  <2>2. CASE a \in replies
    BY <2>1, <2>2 DEF Holds
  <2>3. CASE a \notin replies
    BY <2>1, <2>3 DEF MayHold
  <2>4. QED
    BY <2>2, <2>3
<1>4. QED
  BY <1>1, <1>2, <1>3 DEF Holds

\* A step that leaves the sessions alone.
LEMMA SameSessions ==
  ASSUME sessions \in SessionTable, sessions' = sessions, NEW o
  PROVE  Grows /\ LogsInOnly(o)
BY DEF Grows, LogsInOnly, SessionTable

\* A step that may add a session, which is not logged in.
LEMMA LookedGrows ==
  ASSUME sessions \in SessionTable, NEW id \in Nat,
         sessions' = GetSession(sessions, id).table, NEW o
  PROVE  Grows /\ LogsInOnly(o) /\ sessions' \in SessionTable
<1>1. sessions' \in SessionTable /\
      \/ sessions' = sessions \/ sessions' = Append(sessions, FreshSession)
  BY GetSessionFacts
<1>2. CASE sessions' = sessions
  BY <1>1, <1>2, SameSessions
<1>3. CASE sessions' = Append(sessions, FreshSession)
  <2>1. /\ Len(sessions) \in Nat /\ Len(sessions') = Len(sessions) + 1
        /\ \A s \in 1 .. Len(sessions) : sessions'[s] = sessions[s]
        /\ sessions'[Len(sessions) + 1] = FreshSession
    BY <1>3 DEF SessionTable
  <2>2. ~FreshSession.authenticated
    BY DEF FreshSession
  <2>3. Grows
    BY <2>1 DEF Grows
  <2>4. ASSUME NEW s \in 1 .. Len(sessions'), sessions'[s].authenticated
        PROVE  s <= Len(sessions) /\ sessions[s].authenticated
    <3>1. s # Len(sessions) + 1
      BY <2>1, <2>2, <2>4
    <3>2. s \in 1 .. Len(sessions)
      BY <2>1, <3>1
    <3>3. QED
      BY <2>1, <2>4, <3>2
  <2>5. QED
    BY <1>1, <2>3, <2>4 DEF LogsInOnly
<1>4. QED
  BY <1>1, <1>2, <1>3

\* A login marks a session of the browser whose it is, or a new one.
LEMMA AuthGrows ==
  ASSUME sessions \in SessionTable, NEW id \in Nat, NEW o,
         sessions' = ApplyAuth(sessions, id).table, o \in members',
         id \in 1 .. Len(sessions) => Holds(o, id)
  PROVE  /\ Grows /\ LogsInOnly(o) /\ sessions' \in SessionTable
         /\ id \in 1 .. Len(sessions) =>
              sessions'[id].authenticated \/ sessions'[id].expired
         /\ ApplyAuth(sessions, id).id = id \/ NewId(ApplyAuth(sessions, id).id)
<1> DEFINE g == GetSession(sessions, id)
           a == ApplyAuth(sessions, id)
           t == g.table
<1>1. g = GetSession(sessions, id) /\ a = ApplyAuth(sessions, id)
  OBVIOUS
<1> HIDE DEF g, a
<1>2. /\ t \in SessionTable /\ g.id \in 1 .. Len(t)
      /\ \/ /\ id \in 1 .. Len(sessions) /\ ~sessions[id].expired
            /\ t = sessions /\ g.id = id
         \/ /\ t = Append(sessions, FreshSession) /\ g.id = Len(sessions) + 1
            /\ id \in 1 .. Len(sessions) => sessions[id].expired
  BY <1>1, GetSessionFacts
<1>3. /\ a.table \in SessionTable /\ a.id = g.id
      /\ Len(a.table) = Len(t)
      /\ \A i \in 1 .. Len(t) :
           /\ i # g.id => a.table[i] = t[i]
           /\ i = g.id => a.table[i].authenticated /\ a.table[i].expired = t[i].expired
  BY <1>1, ApplyAuthFacts
<1>4. sessions' = a.table
  BY <1>1
<1> HIDE DEF t
<1>5. CASE t = sessions /\ g.id = id /\ id \in 1 .. Len(sessions)
  <2>1. Len(sessions) \in Nat
    BY DEF SessionTable
  <2>2. Grows
    BY <1>3, <1>4, <1>5, <2>1 DEF Grows
  <2>3. LogsInOnly(o)
    <3> SUFFICES ASSUME NEW s \in 1 .. Len(sessions'), sessions'[s].authenticated
                 PROVE  \/ s <= Len(sessions) /\ sessions[s].authenticated
                        \/ o \in members' /\ (s > Len(sessions) \/ Holds(o, s))
      BY DEF LogsInOnly
    <3>1. s \in 1 .. Len(t) /\ s <= Len(sessions)
      BY <1>3, <1>4, <1>5, <2>1
    <3>2. CASE s = id
      BY <1>5, <3>2
    <3>3. CASE s # id
      BY <1>3, <1>4, <1>5, <3>1, <3>3
    <3>4. QED
      BY <3>2, <3>3
  <2>4. QED
    BY <1>1, <1>3, <1>4, <1>5, <2>2, <2>3
<1>6. CASE t = Append(sessions, FreshSession) /\ g.id = Len(sessions) + 1
           /\ (id \in 1 .. Len(sessions) => sessions[id].expired)
  <2>1. /\ Len(sessions) \in Nat /\ Len(t) = Len(sessions) + 1
        /\ \A s \in 1 .. Len(sessions) : t[s] = sessions[s]
    BY <1>6 DEF SessionTable
  <2>2. \A s \in 1 .. Len(sessions) : sessions'[s] = sessions[s]
    BY <1>3, <1>4, <1>6, <2>1
  <2>3. Grows /\ Len(sessions') = Len(sessions) + 1
    BY <1>3, <1>4, <2>1, <2>2 DEF Grows
  <2>4. LogsInOnly(o)
    <3> SUFFICES ASSUME NEW s \in 1 .. Len(sessions'), sessions'[s].authenticated
                 PROVE  \/ s <= Len(sessions) /\ sessions[s].authenticated
                        \/ o \in members' /\ (s > Len(sessions) \/ Holds(o, s))
      BY DEF LogsInOnly
    <3>1. CASE s = Len(sessions) + 1
      BY <2>1, <3>1
    <3>2. CASE s # Len(sessions) + 1
      <4>1. s \in 1 .. Len(sessions)
        BY <2>1, <2>3, <3>2
      <4>2. QED
        BY <2>2, <4>1
    <3>3. QED
      BY <3>1, <3>2
  <2>5. id \in 1 .. Len(sessions) => sessions'[id].expired
    BY <1>6, <2>2
  <2>6. NewId(a.id)
    BY <1>3, <1>6, <2>3 DEF NewId
  <2>7. QED
    BY <1>1, <1>3, <1>4, <2>3, <2>4, <2>5, <2>6
<1>7. QED
  BY <1>2, <1>5, <1>6

-----------------------------------------------------------------------------
(* What each handler tells *)

\* What a connection holds, its browser does.
LEMMA OwnHeld ==
  ASSUME NEW c \in Conns, NEW s \in Held(conn[c])
  PROVE  Holds(conn[c].owner, s)
BY DEF Holds

\* What an answer tells, the connection held.
LEMMA ReplyTold ==
  ASSUME NEW c \in Conns, NEW part, NEW verdict,
         NEW a \in {Reply(c, part, verdict), RoutedReply(c, part, verdict)}
  PROVE  /\ a.to = conn[c].owner /\ Told(a) \subseteq Held(conn[c])
         /\ a.n = conn[c].n /\ a.cookie = conn[c].cookie /\ a.session = conn[c].sid
         /\ ~a.login /\ a.ask = conn[c].ask /\ a.verdict = verdict /\ a.part = part
BY DEF Reply, RoutedReply, Told, Held

\* So does the end of an answer.
LEMMA LastReplyTold ==
  ASSUME NEW c \in Conns
  PROVE  LET a == LastReply(c)
         IN  /\ a.to = conn[c].owner /\ Told(a) \subseteq Held(conn[c])
             /\ a.n = conn[c].n /\ a.session = conn[c].sid
             /\ a.cookie = IF conn[c].streamed THEN None ELSE conn[c].cookie
             /\ a.login = (conn[c].wrote /\ conn[c].ask.names)
             /\ a.ask = conn[c].ask /\ a.verdict = ScriptAnswer(c)
BY DEF LastReply, RoutedReply, Reply, Told, Held

\* What a connection holds after an answer.
LEMMA ResetHeld ==
  ASSUME NEW k \in ConnType
  PROVE  /\ ResetConn(k).owner = k.owner /\ ResetConn(k).sid = k.sid /\ ResetConn(k).n = k.n
         /\ ResetConn(k).phase = "idle" /\ ResetConn(k).presented = None
         /\ ResetConn(k).cookie = None /\ ~ResetConn(k).streamed
         /\ Held(ResetConn(k)) \subseteq Held(k)
BY DEF ResetConn, ConnType, Held

LEMMA ClosedHeld ==
  /\ Held(ClosedConn) = {} /\ ClosedConn.phase = "closed" /\ ClosedConn.owner = Nobody
  /\ ClosedConn.sid = None
BY DEF ClosedConn, Held

\* An answer tells a browser of no session but its own.
LEMMA RespondTells ==
  ASSUME TypeInv, NEW c \in Conns, conn[c].phase \in Busy, NEW part, NEW verdict,
         NEW r \in {Reply(c, part, verdict), RoutedReply(c, part, verdict)},
         Respond(c, r), jar' = jar
  PROVE  TellsOnly(conn[c].owner)
<1>1. ConnsOK /\ conn[c] \in ConnType /\ conn[c].owner \in Browsers
  BY TypeParts, ConnParts
<1>2. PICK k : conn' = [conn EXCEPT ![c] = k] /\ k \in {ClosedConn, ResetConn(conn[c])}
  BY DEF Respond, RemoveClient
<1>3. \A s \in Held(k) : k.owner = conn[c].owner /\ MayHold(conn[c].owner, s)
  BY <1>1, <1>2, ResetHeld, ClosedHeld, OwnHeld DEF MayHold
<1>4. r.to = conn[c].owner /\ \A s \in Told(r) : MayHold(conn[c].owner, s)
  BY ReplyTold, OwnHeld DEF MayHold
<1>5. replies' \ replies \subseteq {r}
  BY DEF Respond
<1>6. QED
  BY <1>1, <1>2, <1>3, <1>4, <1>5, ConnTells

\* A connection that holds what it held.
LEMMA SameHeldTells ==
  ASSUME TypeInv, NEW c \in Conns, conn[c].phase \in Busy, NEW k,
         conn' = [conn EXCEPT ![c] = k], k.owner = conn[c].owner, Held(k) \subseteq Held(conn[c]),
         jar' = jar,
         \A a \in replies' \ replies : a.to = conn[c].owner /\ Told(a) \subseteq Held(conn[c])
  PROVE  TellsOnly(conn[c].owner)
<1>1. ConnsOK /\ conn[c].owner \in Browsers
  BY TypeParts, ConnParts
<1>2. \A s \in Held(k) : k.owner = conn[c].owner /\ MayHold(conn[c].owner, s)
  BY OwnHeld DEF MayHold
<1>3. \A a \in replies' \ replies :
        a.to = conn[c].owner /\ \A s \in Told(a) : MayHold(conn[c].owner, s)
  BY OwnHeld DEF MayHold
<1>4. QED
  BY <1>1, <1>2, <1>3, ConnTells

\* What SetSession leaves: the session asked for, or a new one that the answer tells of.
LEMMA SetSessionFacts ==
  ASSUME TypeInv, NEW c \in Conns, NEW k \in ConnType, SetSession(c, k), NEW o
  PROVE  /\ Grows /\ LogsInOnly(o) /\ sessions' \in SessionTable
         /\ \E e : /\ conn' = [conn EXCEPT ![c] = e]
                   /\ e.owner = k.owner /\ e.phase = k.phase /\ e.n = k.n /\ e.ask = k.ask
                   /\ e.presented = k.presented /\ e.body = k.body
                   /\ e.cgi = k.cgi /\ e.streamed = k.streamed
                   /\ e.sid # None
                   /\ \/ e.sid = EnsureSessionId(k.sid, k.presented) /\ e.cookie = None
                      \/ NewId(e.sid) /\ e.cookie = e.sid
<1> DEFINE requested == EnsureSessionId(k.sid, k.presented)
           found == GetSession(sessions, requested)
           cookie == IF found.id = requested THEN None ELSE found.id
           id == found.id
           e == [k EXCEPT !.sid = id, !.cookie = cookie]
<1>1. requested \in Nat /\ sessions \in SessionTable
  BY TypeParts DEF EnsureSessionId, ConnType
<1>2. sessions' = found.table /\ conn' = [conn EXCEPT ![c] = e]
  BY DEF SetSession
<1>3. Grows /\ LogsInOnly(o) /\ sessions' \in SessionTable
  <2> HIDE DEF requested
  <2> QED BY <1>1, <1>2, LookedGrows
<1>4. /\ id \in 1 .. Len(found.table)
      /\ \/ found.table = sessions /\ id = requested
         \/ found.table = Append(sessions, FreshSession) /\ id = Len(sessions) + 1
  <2>1. found = GetSession(sessions, requested)
    OBVIOUS
  <2> HIDE DEF found, requested
  <2> QED BY <1>1, <2>1, GetSessionFacts
<1> HIDE DEF found, requested
<1>5. id # None /\ (id = requested \/ NewId(id))
  <2>1. Len(sessions) \in Nat
    BY <1>1 DEF SessionTable
  <2>2. CASE found.table = sessions /\ id = requested
    BY <1>4, <2>1, <2>2 DEF None
  <2>3. CASE found.table = Append(sessions, FreshSession) /\ id = Len(sessions) + 1
    <3>1. Len(found.table) = Len(sessions) + 1
      BY <1>1, <2>3 DEF SessionTable
    <3>2. QED
      BY <1>2, <2>1, <2>3, <3>1 DEF NewId, None
  <2>4. QED
    BY <1>4, <2>2, <2>3
<1>6. (id = requested /\ cookie = None) \/ (NewId(id) /\ cookie = id)
  BY <1>5
<1> HIDE DEF id, cookie
<1>7. /\ e.owner = k.owner /\ e.phase = k.phase /\ e.n = k.n /\ e.ask = k.ask
      /\ e.presented = k.presented /\ e.body = k.body
      /\ e.cgi = k.cgi /\ e.streamed = k.streamed /\ e.sid = id /\ e.cookie = cookie
  BY DEF ConnType
<1> HIDE DEF e
<1>8. QED
  BY <1>2, <1>3, <1>5, <1>6, <1>7 DEF requested

\* A request that is read tells a browser of its own session or of a new one.
LEMMA SetSessionTells ==
  ASSUME TypeInv, SessionInv, NEW c \in Conns, conn[c].phase \in Busy, NEW k \in ConnType,
         SetSession(c, k), k.owner = conn[c].owner, k.sid = conn[c].sid,
         k.presented = conn[c].presented, jar' = jar, replies' = replies, members' = members
  PROVE  SessionInv'
<1> DEFINE o == conn[c].owner
<1>1. ConnsOK /\ o \in Browsers /\ sessions \in SessionTable
  BY TypeParts, ConnParts
<1>2. Grows /\ LogsInOnly(o) /\ sessions' \in SessionTable
  BY SetSessionFacts
<1>3. PICK e : /\ conn' = [conn EXCEPT ![c] = e]
               /\ e.owner = k.owner /\ e.presented = k.presented
               /\ \/ e.sid = EnsureSessionId(k.sid, k.presented) /\ e.cookie = None
                  \/ NewId(e.sid) /\ e.cookie = e.sid
  BY SetSessionFacts
<1>4. \A s \in Held(e) : s \in Held(conn[c]) \/ NewId(s)
  BY <1>3 DEF Held, EnsureSessionId
<1>5. \A s \in Held(e) : e.owner = o /\ MayHold(o, s)
  BY <1>3, <1>4, OwnHeld DEF MayHold
<1> HIDE DEF o
<1>6. TellsOnly(o)
  BY <1>1, <1>3, <1>5, ConnTells
<1>7. QED
  BY <1>1, <1>2, <1>6, SessionStep


\* A part of a body is read: the last one, or another.
LEMMA ReadBodyShape ==
  ASSUME TypeInv, NEW c \in Conns, ReadBody(c)
  PROVE  \E body \in Body :
           \/ SetSession(c, [conn[c] EXCEPT !.phase = "ready", !.body = body])
           \/ conn' = [conn EXCEPT ![c] = [conn[c] EXCEPT !.body = body]] /\ sessions' = sessions
<1> DEFINE next == PartsRead(conn[c].body) + 1
           part == <<conn[c].n, next>>
           both == AppendBody(disk, conn[c].body, conn[c].n, part)
           body == both.body
<1>1. conn[c].body \in Body /\ conn[c].n \in Requests /\ disk \in Disk
      /\ (conn[c].body.inDisk => conn[c].body.file \in Requests)
  BY ConnParts, TypeParts DEF ReadBody, ConnOK, Busy, Phases
<1>2. part \in Part
  <2>1. next \in Nat
    BY <1>1 DEF PartsRead, Body
  <2> HIDE DEF next
  <2>2. QED
    BY <1>1, <2>1 DEF Part, Requests
<1>3. \/ SetSession(c, [conn[c] EXCEPT !.phase = "ready", !.body = body])
      \/ conn' = [conn EXCEPT ![c] = [conn[c] EXCEPT !.body = body]] /\ sessions' = sessions
  BY TypeParts DEF ReadBody, ConnsOK
<1> HIDE DEF part
<1>4. both \in Pair
  BY <1>1, <1>2, AppendBodyType
<1>5. body \in Body
  <2> HIDE DEF both
  <2> QED BY <1>4 DEF Pair
<1> HIDE DEF body
<1>6. QED
  BY <1>3, <1>5

\* The disk is full: the request is refused.
LEMMA ReadBodyFailsShape ==
  ASSUME TypeInv, NEW c \in Conns, ReadBodyFails(c)
  PROVE  \E body \in Body :
           SetSession(c, [conn[c] EXCEPT !.phase = "refused", !.body = body])
<1>1. conn[c].body \in Body /\ conn[c].n \in Requests /\ disk \in Disk
  BY ConnParts, TypeParts DEF ReadBodyFails, Busy, Phases
<1>2. PICK both \in AppendFails(disk, conn[c].body, conn[c].n) :
        SetSession(c, [conn[c] EXCEPT !.phase = "refused", !.body = both.body])
  BY DEF ReadBodyFails
<1>3. both.body \in Body
  BY <1>1, AppendFailsType DEF Pair
<1>4. QED
  BY <1>2, <1>3

\* A CGI has ended: the connection is closed, or goes on with the session that was used.
LEMMA FinishCgiShape ==
  ASSUME TypeInv, NEW c \in Conns, FinishCgi(c)
  PROVE  \E k, sid :
           /\ conn' = [conn EXCEPT ![c] = k]
           /\ sid = IF NamesUser(c) THEN ApplyAuth(sessions, conn[c].sid).id ELSE conn[c].sid
           /\ k = ClosedConn \/ k = [ResetConn(conn[c]) EXCEPT !.sid = sid]
<1> DEFINE sid == IF NamesUser(c) THEN ApplyAuth(sessions, conn[c].sid).id ELSE conn[c].sid
           kept == [ResetConn(conn[c]) EXCEPT !.sid = sid]
<1>1. conn[c] \in ConnType
  BY ConnParts
<1>2. [ResetConn(conn[c]) EXCEPT
         !.sid = IF NamesUser(c) THEN ApplyAuth(sessions, conn[c].sid).id ELSE @] = kept
  BY <1>1 DEF ResetConn, ConnType
<1> HIDE DEF kept
<1>3. conn' = [conn EXCEPT ![c] = IF ~conn[c].ask.keep THEN ClosedConn ELSE kept]
  BY <1>2 DEF FinishCgi, RemoveClient
<1>4. QED
  BY <1>3 DEF kept

-----------------------------------------------------------------------------
(* Every step keeps the sessions apart. *)

\* A step of the browser of a connection that looks no session up.
LEMMA QuietStep ==
  ASSUME TypeInv, SessionInv, NEW o \in Browsers, sessions' = sessions, TellsOnly(o),
         members \subseteq members'
  PROVE  SessionInv'
<1>1. sessions \in SessionTable /\ sessions' \in SessionTable
  BY TypeParts
<1>2. Grows /\ LogsInOnly(o)
  BY <1>1, SameSessions
<1>3. QED
  BY <1>1, <1>2, SessionStep

\* A request that is routed, whatever is sent.
LEMMA RoutedStep ==
  ASSUME TypeInv, SessionInv, NEW c \in Conns, NEW deed, Routes(c, deed),
         TellsOnly(conn[c].owner)
  PROVE  SessionInv'
<1>1. conn[c].sid \in Nat /\ sessions \in SessionTable /\ conn[c].owner \in Browsers
      /\ members' = members
  BY ConnParts, TypeParts, RoutesType
<1>2. sessions' = GetSession(sessions, conn[c].sid).table
  BY DEF Routes, Looked
<1> DEFINE o == conn[c].owner
<1> HIDE DEF o
<1>3. Grows /\ LogsInOnly(o) /\ sessions' \in SessionTable
  BY <1>1, <1>2, LookedGrows
<1>4. QED
  BY <1>1, <1>3, SessionStep DEF o

LEMMA ConnectSessions == ASSUME TypeInv, SessionInv, NEW c \in Conns, Connect(c) PROVE SessionInv'
<1>1. PICK b \in dep.browsers : conn' = [conn EXCEPT ![c] = AddClient(c, b)]
  BY DEF Connect
<1>2. b \in Browsers /\ conn[c] = ClosedConn /\ ConnsOK
  BY TypeParts, ConnParts, DepFacts DEF Connect, ConnOK
<1>3. Held(AddClient(c, b)) = {}
  BY <1>2 DEF AddClient, ClosedConn, Held
<1>4. TellsOnly(b)
  BY <1>1, <1>2, <1>3, ConnTells DEF Connect
<1>5. QED
  BY <1>2, <1>4, QuietStep DEF Connect

LEMMA SendSessions == ASSUME TypeInv, SessionInv, NEW c \in Conns, Send(c) PROVE SessionInv'
<1>1. PICK a \in dep.asks :
        conn' = [conn EXCEPT ![c].phase = "sent", ![c].n = asked + 1, ![c].ask = a,
                             ![c].presented = jar[conn[c].owner]]
  BY DEF Send
<1> DEFINE m == asked + 1
           o == conn[c].owner
           p == jar[o]
           k == [conn[c] EXCEPT !.phase = "sent", !.n = m, !.ask = a, !.presented = p]
<1>2. conn' = [conn EXCEPT ![c] = k] /\ ConnsOK
  BY <1>1, TypeParts DEF ConnsOK
<1>3. o \in Browsers /\ conn[c] \in ConnType
  BY ConnParts DEF Send, ConnOK
<1> HIDE DEF p, m
<1>4. k.owner = o /\ Held(k) \subseteq Held(conn[c]) \cup ({p} \ {None})
  BY <1>3 DEF ConnType, Held
<1>5. \A s \in {p} \ {None} : Holds(o, s)
  BY DEF Holds, p
<1> HIDE DEF k
<1>6. \A s \in Held(k) : k.owner = o /\ MayHold(o, s)
  BY <1>4, <1>5, OwnHeld DEF MayHold
<1>7. TellsOnly(o)
  <2> HIDE DEF o
  <2>1. jar' = jar /\ replies' = replies
    BY DEF Send
  <2>2. QED
    BY <1>2, <1>3, <1>6, <2>1, ConnTells
<1>8. QED
  BY <1>3, <1>7, QuietStep DEF Send

LEMMA ReceiveSessions ==
  ASSUME TypeInv, SessionInv, NEW a \in replies, Receive(a) PROVE SessionInv'
<1>1. /\ a.to \in Browsers /\ a.cookie \in Nat /\ jar \in [Browsers -> Nat]
      /\ replies' = replies \ {a} /\ conn' = conn /\ sessions' = sessions
      /\ jar' = IF a.cookie = None THEN jar ELSE [jar EXCEPT ![a.to] = a.cookie]
      /\ members' = members
  BY TypeParts DEF Receive, ReplyOK, server
<1>2. ASSUME NEW b \in Browsers, NEW s \in Nat, Holds(b, s)'
      PROVE  Holds(b, s)
  <2>1. CASE s = jar'[b] /\ s # None
    <3>1. CASE a.cookie # None /\ b = a.to
      <4>1. s = a.cookie
        BY <1>1, <2>1, <3>1
      <4>2. s \in Told(a)
        BY <3>1, <4>1 DEF Told
      <4>3. QED
        BY <3>1, <4>2 DEF Holds
    <3>2. CASE ~(a.cookie # None /\ b = a.to)
      <4>1. jar'[b] = jar[b]
        BY <1>1, <3>2
      <4>2. QED
        BY <2>1, <4>1 DEF Holds
    <3>3. QED
      BY <3>1, <3>2
  <2>2. CASE \E c \in Conns : conn'[c].owner = b /\ s \in Held(conn'[c])
    BY <1>1, <2>2 DEF Holds
  <2>3. CASE \E r \in replies' : r.to = b /\ s \in Told(r)
    BY <1>1, <2>3 DEF Holds
  <2>4. QED
    BY <1>2, <2>1, <2>2, <2>3 DEF Holds
<1>3. TellsOnly(a.to)
  BY <1>2 DEF TellsOnly
<1>4. QED
  BY <1>1, <1>3, QuietStep

LEMMA ReadHeadSessions == ASSUME TypeInv, SessionInv, NEW c \in Conns, ReadHead(c) PROVE SessionInv'
<1>1. conn[c].phase \in Busy /\ conn[c] \in ConnType /\ conn[c].owner \in Browsers
      /\ jar' = jar /\ replies' = replies /\ members' = members
  BY ConnParts DEF ReadHead, Busy, Phases
<1>2. CASE conn[c].ask.size = 0
  <2> DEFINE k == [conn[c] EXCEPT !.phase = "ready"]
  <2>1. SetSession(c, k)
    BY <1>2 DEF ReadHead
  <2>2. /\ k \in ConnType /\ k.owner = conn[c].owner /\ k.sid = conn[c].sid
        /\ k.presented = conn[c].presented
    BY <1>1 DEF ConnType, Phases
  <2> HIDE DEF k
  <2>3. QED
    BY <1>1, <2>1, <2>2, SetSessionTells
<1>3. CASE conn[c].ask.size # 0
  <2> DEFINE k == [conn[c] EXCEPT !.phase = "body"]
  <2>1. conn' = [conn EXCEPT ![c] = k] /\ sessions' = sessions
    BY <1>3, TypeParts DEF ReadHead, ConnsOK
  <2>2. k.owner = conn[c].owner /\ Held(k) \subseteq Held(conn[c])
    BY <1>1 DEF ConnType, Held
  <2> HIDE DEF k
  <2>3. TellsOnly(conn[c].owner)
    BY <1>1, <2>1, <2>2, SameHeldTells
  <2>4. QED
    BY <1>1, <2>1, <2>3, QuietStep
<1>4. QED
  BY <1>2, <1>3

LEMMA ReadBodySessions == ASSUME TypeInv, SessionInv, NEW c \in Conns, ReadBody(c) PROVE SessionInv'
<1>1. conn[c].phase \in Busy /\ conn[c] \in ConnType /\ conn[c].owner \in Browsers
      /\ jar' = jar /\ replies' = replies /\ members' = members
  BY ConnParts DEF ReadBody, Busy, Phases
<1>2. PICK body \in Body :
        \/ SetSession(c, [conn[c] EXCEPT !.phase = "ready", !.body = body])
        \/ conn' = [conn EXCEPT ![c] = [conn[c] EXCEPT !.body = body]] /\ sessions' = sessions
  BY ReadBodyShape
<1> DEFINE r == [conn[c] EXCEPT !.phase = "ready", !.body = body]
           k == [conn[c] EXCEPT !.body = body]
<1>3. CASE SetSession(c, r)
  <2>1. /\ r \in ConnType /\ r.owner = conn[c].owner /\ r.sid = conn[c].sid
        /\ r.presented = conn[c].presented
    BY <1>1 DEF ConnType, Phases
  <2> HIDE DEF r
  <2>2. QED
    BY <1>1, <1>3, <2>1, SetSessionTells
<1>4. CASE conn' = [conn EXCEPT ![c] = k] /\ sessions' = sessions
  <2>1. k.owner = conn[c].owner /\ Held(k) \subseteq Held(conn[c])
    BY <1>1 DEF ConnType, Held
  <2> HIDE DEF k
  <2>2. TellsOnly(conn[c].owner)
    BY <1>1, <1>4, <2>1, SameHeldTells
  <2>3. QED
    BY <1>1, <1>4, <2>2, QuietStep
<1>5. QED
  BY <1>2, <1>3, <1>4

LEMMA ReadBodyFailsSessions ==
  ASSUME TypeInv, SessionInv, NEW c \in Conns, ReadBodyFails(c) PROVE SessionInv'
<1>1. conn[c].phase \in Busy /\ conn[c] \in ConnType /\ conn[c].owner \in Browsers
      /\ jar' = jar /\ replies' = replies /\ members' = members
  BY ConnParts DEF ReadBodyFails, Busy, Phases
<1>2. PICK body \in Body : SetSession(c, [conn[c] EXCEPT !.phase = "refused", !.body = body])
  BY ReadBodyFailsShape
<1> DEFINE k == [conn[c] EXCEPT !.phase = "refused", !.body = body]
<1>3. SetSession(c, k)
  BY <1>2
<1>4. /\ k \in ConnType /\ k.owner = conn[c].owner /\ k.sid = conn[c].sid
      /\ k.presented = conn[c].presented
  BY <1>1 DEF ConnType, Phases
<1> HIDE DEF k
<1>5. QED
  BY <1>1, <1>3, <1>4, SetSessionTells

LEMMA ReportErrorSessions ==
  ASSUME TypeInv, SessionInv, NEW c \in Conns, ReportError(c) PROVE SessionInv'
<1> DEFINE v == ErrorAnswer(dep.site, 500, conn[c].ask.request.range)
<1>1. conn[c].phase \in Busy /\ conn[c].owner \in Browsers /\ Respond(c, Reply(c, "whole", v))
      /\ jar' = jar /\ sessions' = sessions /\ members' = members
  BY ConnParts DEF ReportError, Busy, Phases
<1> HIDE DEF v
<1>2. TellsOnly(conn[c].owner)
  BY <1>1, RespondTells
<1>3. QED
  BY <1>1, <1>2, QuietStep

\* A request that is routed and answered.
LEMMA AnsweredSessions ==
  ASSUME TypeInv, SessionInv, NEW c \in Conns, NEW deed, Routes(c, deed), NEW verdict,
         Respond(c, RoutedReply(c, "whole", verdict))
  PROVE  SessionInv'
<1>1. conn[c].phase \in Busy /\ jar' = jar
  BY RoutesType
<1>2. TellsOnly(conn[c].owner)
  BY <1>1, RespondTells
<1>3. QED
  BY <1>2, RoutedStep

LEMMA LaunchSessions == ASSUME TypeInv, SessionInv, NEW c \in Conns, Launch(c) PROVE SessionInv'
<1>1. Routes(c, "run")
  BY DEF Launch
<1>2. conn[c].phase \in Busy /\ jar' = jar /\ conn[c] \in ConnType
  BY <1>1, RoutesType, ConnParts
<1>3. CASE RouterFails(c)
  BY <1>1, <1>3, AnsweredSessions DEF RouterFails
<1>4. CASE /\ conn' = [conn EXCEPT ![c].phase = "cgi", ![c].cgi = "running"]
           /\ replies' = replies
  <2> DEFINE k == [conn[c] EXCEPT !.phase = "cgi", !.cgi = "running"]
  <2>1. conn' = [conn EXCEPT ![c] = k]
    BY <1>4, TypeParts DEF ConnsOK
  <2>2. k.owner = conn[c].owner /\ Held(k) \subseteq Held(conn[c])
    BY <1>2 DEF ConnType, Held
  <2> HIDE DEF k
  <2>3. TellsOnly(conn[c].owner)
    BY <1>2, <1>4, <2>1, <2>2, SameHeldTells
  <2>4. QED
    BY <1>1, <2>3, RoutedStep
<1>5. QED
  BY <1>3, <1>4 DEF Launch

\* Every connection is closed.
LEMMA ShutDownTells ==
  ASSUME ShutDown, jar' = jar, replies' = replies, NEW o
  PROVE  TellsOnly(o)
<1>1. \A c \in Conns : Held(conn'[c]) = {}
  BY ClosedHeld DEF ShutDown
<1>2. QED
  BY <1>1 DEF TellsOnly, Holds

LEMMA ThrowSessions == ASSUME TypeInv, SessionInv, NEW c \in Conns, Throw(c) PROVE SessionInv'
<1>1. Routes(c, "throw") /\ ShutDown /\ jar' = jar /\ replies' = replies
  BY RoutesType DEF Throw
<1>2. TellsOnly(conn[c].owner)
  BY <1>1, ShutDownTells
<1>3. QED
  BY <1>1, <1>2, RoutedStep

\* Nothing that browsers hold changes, except that connections are closed.
LEMMA StopSessions == ASSUME TypeInv, SessionInv, Stop PROVE SessionInv'
<1>1. ShutDown /\ jar' = jar /\ replies' = replies /\ sessions' = sessions /\ members' = members
  BY DEF Stop
<1>2. CASE Browsers = {}
  BY <1>2 DEF SessionInv, HeldExist, HeldApart, HeldByMembers
<1>3. CASE Browsers # {}
  <2>1. PICK o \in Browsers : TRUE
    BY <1>3
  <2>2. TellsOnly(o)
    BY <1>1, ShutDownTells
  <2>3. QED
    BY <1>1, <2>1, <2>2, QuietStep
<1>4. QED
  BY <1>2, <1>3

LEMMA CgiWritesSessions == ASSUME TypeInv, SessionInv, NEW c \in Conns, CgiWrites(c) PROVE SessionInv'
<1> DEFINE k == [conn[c] EXCEPT !.wrote = TRUE]
<1>1. conn' = [conn EXCEPT ![c] = k] /\ conn[c].phase \in Busy /\ conn[c].owner \in Browsers
      /\ conn[c] \in ConnType
  BY TypeParts, ConnParts DEF CgiWrites, ConnsOK, Busy, Phases
<1>2. k.owner = conn[c].owner /\ Held(k) \subseteq Held(conn[c])
  BY <1>1 DEF ConnType, Held
<1> HIDE DEF k
<1>3. TellsOnly(conn[c].owner)
  BY <1>1, <1>2, SameHeldTells DEF CgiWrites
<1>4. QED
  BY <1>1, <1>3, QuietStep DEF CgiWrites

LEMMA CgiExitsSessions == ASSUME TypeInv, SessionInv, NEW c \in Conns, CgiExits(c) PROVE SessionInv'
<1>1. PICK end \in {"ok", "failed"} : conn' = [conn EXCEPT ![c].cgi = end]
  BY DEF CgiExits
<1> DEFINE k == [conn[c] EXCEPT !.cgi = end]
<1>2. conn' = [conn EXCEPT ![c] = k] /\ conn[c].phase \in Busy /\ conn[c].owner \in Browsers
      /\ conn[c] \in ConnType
  BY <1>1, TypeParts, ConnParts DEF CgiExits, ConnsOK, Busy, Phases
<1>3. k.owner = conn[c].owner /\ Held(k) \subseteq Held(conn[c])
  BY <1>2 DEF ConnType, Held
<1> HIDE DEF k
<1>4. TellsOnly(conn[c].owner)
  BY <1>2, <1>3, SameHeldTells DEF CgiExits
<1>5. QED
  BY <1>2, <1>4, QuietStep DEF CgiExits

LEMMA RelayHeadSessions == ASSUME TypeInv, SessionInv, NEW c \in Conns, RelayHead(c) PROVE SessionInv'
<1> DEFINE k == [conn[c] EXCEPT !.streamed = TRUE]
           v == ScriptAnswer(c)
<1>1. conn' = [conn EXCEPT ![c] = k] /\ conn[c].phase \in Busy /\ conn[c].owner \in Browsers
      /\ conn[c] \in ConnType /\ replies' = replies \cup {RoutedReply(c, "head", v)}
  BY TypeParts, ConnParts DEF RelayHead, ConnsOK, Busy, Phases
<1>2. k.owner = conn[c].owner /\ Held(k) \subseteq Held(conn[c])
  BY <1>1 DEF ConnType, Held
<1> HIDE DEF k, v
<1>3. \A a \in replies' \ replies : a.to = conn[c].owner /\ Told(a) \subseteq Held(conn[c])
  BY <1>1, ReplyTold
<1>4. TellsOnly(conn[c].owner)
  BY <1>1, <1>2, <1>3, SameHeldTells DEF RelayHead
<1>5. QED
  BY <1>1, <1>4, QuietStep DEF RelayHead

LEMMA FailCgiSessions == ASSUME TypeInv, SessionInv, NEW c \in Conns, FailCgi(c) PROVE SessionInv'
<1>1. conn[c].phase \in Busy /\ conn[c].owner \in Browsers /\ conn[c] \in ConnType
      /\ jar' = jar /\ sessions' = sessions /\ members' = members
  BY ConnParts DEF FailCgi, Busy, Phases
<1>2. CASE conn[c].streamed
  <2> DEFINE k == [conn[c] EXCEPT !.phase = "stuck", !.cgi = "none"]
  <2>1. conn' = [conn EXCEPT ![c] = k] /\ replies' = replies
    BY <1>2, TypeParts DEF FailCgi, ConnsOK
  <2>2. k.owner = conn[c].owner /\ Held(k) \subseteq Held(conn[c])
    BY <1>1 DEF ConnType, Held
  <2> HIDE DEF k
  <2>3. TellsOnly(conn[c].owner)
    BY <1>1, <2>1, <2>2, SameHeldTells
  <2>4. QED
    BY <1>1, <2>3, QuietStep
<1>3. CASE ~conn[c].streamed
  <2> DEFINE v == ErrorAnswer(dep.site, 500, conn[c].ask.request.range)
  <2>1. Respond(c, RoutedReply(c, "whole", v))
    BY <1>3 DEF FailCgi
  <2> HIDE DEF v
  <2>2. TellsOnly(conn[c].owner)
    BY <1>1, <2>1, RespondTells
  <2>3. QED
    BY <1>1, <2>2, QuietStep
<1>4. QED
  BY <1>2, <1>3

LEMMA FinishCgiSessions == ASSUME TypeInv, SessionInv, NEW c \in Conns, FinishCgi(c) PROVE SessionInv'
<1> DEFINE o == conn[c].owner
           sid == IF NamesUser(c) THEN ApplyAuth(sessions, conn[c].sid).id ELSE conn[c].sid
           reset == ResetConn(conn[c])
           kept == [reset EXCEPT !.sid = sid]
<1>1. /\ conn[c].phase \in Busy /\ o \in Browsers /\ conn[c] \in ConnType /\ ConnsOK
      /\ conn[c].sid \in Nat /\ sessions \in SessionTable /\ jar' = jar
      /\ members \subseteq members'
  BY ConnParts, TypeParts DEF FinishCgi, Busy, Phases
<1>2. conn[c].sid \in 1 .. Len(sessions) => Holds(o, conn[c].sid)
  BY OwnHeld DEF Held, None
<1>3. /\ Grows /\ LogsInOnly(o) /\ sessions' \in SessionTable
      /\ sid = conn[c].sid \/ NewId(sid)
  <2>1. CASE NamesUser(c)
    <3>1. sessions' = ApplyAuth(sessions, conn[c].sid).table /\ o \in members'
          /\ sid = ApplyAuth(sessions, conn[c].sid).id
      BY <2>1 DEF FinishCgi
    <3> HIDE DEF o, sid
    <3>2. QED
      BY <1>1, <1>2, <3>1, AuthGrows
  <2>2. CASE ~NamesUser(c)
    BY <1>1, <2>2, SameSessions DEF FinishCgi
  <2>3. QED
    BY <2>1, <2>2
<1>4. PICK k : conn' = [conn EXCEPT ![c] = k] /\ k \in {ClosedConn, kept}
  BY FinishCgiShape
<1> HIDE DEF sid
<1>5. kept.owner = o /\ Held(kept) = {sid} \ {None}
  BY <1>1 DEF ResetConn, ConnType, Held
<1>6. \A s \in Held(kept) : MayHold(o, s)
  BY <1>3, <1>5, OwnHeld DEF MayHold, Held
<1> HIDE DEF kept
<1>7. \A s \in Held(k) : k.owner = o /\ MayHold(o, s)
  BY <1>4, <1>5, <1>6, ClosedHeld
<1>8. \A a \in replies' \ replies : a.to = o /\ \A s \in Told(a) : MayHold(o, s)
  BY LastReplyTold, OwnHeld DEF FinishCgi, MayHold
<1> HIDE DEF o
<1>9. TellsOnly(o)
  BY <1>1, <1>4, <1>7, <1>8, ConnTells
<1>10. QED
  BY <1>1, <1>3, <1>9, SessionStep

LEMMA DropSessions == ASSUME TypeInv, SessionInv, NEW c \in Conns, Drop(c) PROVE SessionInv'
<1>1. conn' = [conn EXCEPT ![c] = ClosedConn] /\ conn[c].owner \in Browsers /\ ConnsOK
  BY TypeParts, ConnParts DEF Drop, RemoveClient, ConnOK
<1>2. TellsOnly(conn[c].owner)
  BY <1>1, ClosedHeld, ConnTells DEF Drop
<1>3. QED
  BY <1>1, <1>2, QuietStep DEF Drop

LEMMA ExpireSessions ==
  ASSUME TypeInv, SessionInv, NEW s \in DOMAIN sessions, Expire(s)
  PROVE  SessionInv' /\ Grows
<1> DEFINE e == [sessions[s] EXCEPT !.expired = TRUE]
<1>1. sessions \in Seq(Session) /\ sessions' = [sessions EXCEPT ![s] = e]
  BY TypeParts DEF Expire, SessionTable
<1>2. e \in Session /\ e.authenticated = sessions[s].authenticated /\ e.expired
  <2>1. sessions[s] \in Session
    BY <1>1
  <2>2. QED
    BY <2>1 DEF Session
<1> HIDE DEF e
<1>3. /\ Len(sessions') = Len(sessions)
      /\ \A i \in 1 .. Len(sessions) : /\ sessions'[i].authenticated = sessions[i].authenticated
                                       /\ sessions[i].expired => sessions'[i].expired
  BY <1>1, <1>2
<1>4. conn' = conn /\ jar' = jar /\ replies' = replies /\ members' = members
  BY DEF Expire
<1>5. \A b, i : Holds(b, i)' = Holds(b, i)
  BY <1>4 DEF Holds
<1>6. Len(sessions) \in Nat
  BY <1>1
<1>7. Grows
  BY <1>3, <1>6 DEF Grows
<1>8. HeldExist' /\ HeldApart' /\ HeldByMembers'
  BY <1>3, <1>4, <1>5 DEF SessionInv, HeldExist, HeldApart, HeldByMembers
<1>9. QED
  BY <1>7, <1>8 DEF SessionInv


LEMMA SessionInit == Init => SessionInv
<1> SUFFICES ASSUME Init PROVE SessionInv
  OBVIOUS
<1>1. \A b \in Browsers : \A s \in Nat : ~Holds(b, s)
  BY ClosedHeld DEF Init, Holds
<1>2. sessions = <<>>
  BY DEF Init
<1>3. QED
  BY <1>1, <1>2 DEF SessionInv, HeldExist, HeldApart, HeldByMembers

LEMMA SessionNext == TypeInv /\ SessionInv /\ [Next]_vars => SessionInv'
<1> SUFFICES ASSUME TypeInv, SessionInv, [Next]_vars PROVE SessionInv'
  OBVIOUS
<1>1. ASSUME NEW c \in Conns, Handle(c) PROVE SessionInv'
  <2>1. CASE AnswerPage(c)
    BY <2>1, AnsweredSessions DEF AnswerPage
  <2>2. CASE Upload(c)
    BY <2>2, AnsweredSessions DEF Upload, RouterFails
  <2>3. CASE DeleteFile(c)
    BY <2>3, AnsweredSessions DEF DeleteFile, RouterFails
  <2>4. QED
    BY <1>1, <2>1, <2>2, <2>3, ReadHeadSessions, ReadBodySessions, ReadBodyFailsSessions,
       ReportErrorSessions, LaunchSessions, ThrowSessions, RelayHeadSessions,
       FinishCgiSessions, FailCgiSessions, DropSessions DEF Handle
<1>2. ASSUME NEW c \in Conns, Environment(c) PROVE SessionInv'
  BY <1>2, ConnectSessions, SendSessions, CgiWritesSessions, CgiExitsSessions DEF Environment
<1>3. CASE UNCHANGED vars
  BY <1>3 DEF vars, server, SessionInv, HeldExist, HeldApart, HeldByMembers, Holds
<1>4. QED
  BY <1>1, <1>2, <1>3, ReceiveSessions, ExpireSessions, StopSessions DEF Next

\* No two browsers ever share a session: not through a descriptor or a connection that
\* is used again, not through a cookie or an answer that arrives late (setSession,
\* SessionManager::getSession and applyAuthFromResponse).
THEOREM NoSharedSession == Spec => []SessionsArePrivate
<1>1. TypeInv /\ SessionInv => SessionsArePrivate
  <2> SUFFICES ASSUME TypeInv, SessionInv PROVE SessionsArePrivate
    OBVIOUS
  <2>1. \A s \in DOMAIN sessions : s \in Nat
    BY TypeParts DEF SessionTable
  <2>2. QED
    BY <2>1 DEF SessionInv, HeldApart, SessionsArePrivate
<1>2. QED
  BY <1>1, TypeInit, TypeNext, SessionInit, SessionNext, PTL DEF Spec

=============================================================================
