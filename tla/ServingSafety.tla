---------------------------- MODULE ServingSafety ----------------------------
(***************************************************************************)
(* What answers say and what becomes of temporary files, proved on top of  *)
(* ServingProofs for every number of names, requests and connections: a    *)
(* browser is told of the session that it was answered under, a login is   *)
(* not forgotten, a page behind a login goes to members only, a partial    *)
(* answer lies in its file, a body is handed on as it was sent unless      *)
(* another was given its name, no file is left behind, and what is sent    *)
(* for a straightforward path is the file that its location means.         *)
(***************************************************************************)
EXTENDS ServingProofs, SequenceLemmas

(* The browser of k has a cookie, or an answer with one is on its way. *)
Owed(k, cookies, sent) ==
  \/ cookies[k.owner] # None
  \/ \E a \in sent : a.n = k.n /\ a.to = k.owner /\ a.cookie # None

(* A cookie that was presented is one the browser has; without one there is no session
   before the request is complete; an answered request leaves a cookie, or the session
   of the connection would be used again by a browser that does not know of it. *)
ToldOK(k, cookies, sent) ==
  /\ k.phase \in Busy /\ k.presented # None => cookies[k.owner] # None
  /\ k.phase \in {"sent", "body"} /\ k.presented = None => k.sid = None
  /\ k.phase \in {"ready", "refused", "cgi", "stuck"} =>
       k.sid # None /\ k.sid \in {k.presented, k.cookie}
  /\ k.phase = "idle" /\ k.sid # None => Owed(k, cookies, sent)
  /\ k.streamed => k.phase \in {"cgi", "stuck"}
  /\ k.phase = "cgi" /\ k.streamed /\ k.cookie # None => Owed(k, cookies, sent)
TellsInv == \A c \in Conns : ToldOK(conn[c], jar, replies)

-----------------------------------------------------------------------------
(* TellsSession *)

\* What is known of the other connections stays.
LEMMA ToldStep ==
  ASSUME TypeInv, TellsInv, NEW c \in Conns, NEW k, conn' = [conn EXCEPT ![c] = k],
         jar' = jar, replies \subseteq replies', ToldOK(k, jar, replies')
  PROVE  TellsInv'
<1> SUFFICES ASSUME NEW d \in Conns PROVE ToldOK(conn'[d], jar', replies')
  BY DEF TellsInv, ToldOK, Owed
<1>1. ConnsOK
  BY TypeParts
<1>2. CASE d = c
  <2>1. conn'[d] = k
    BY <1>1, <1>2 DEF ConnsOK
  <2>2. QED
    BY <2>1
<1>3. CASE d # c
  <2>1. conn'[d] = conn[d]
    BY <1>1, <1>3 DEF ConnsOK
  <2>2. ToldOK(conn[d], jar, replies)
    BY DEF TellsInv
  <2>3. ToldOK(conn[d], jar, replies')
    BY <2>2 DEF ToldOK, Owed
  <2>4. QED
    BY <2>1, <2>3
<1>4. QED
  BY <1>2, <1>3

\* A connection that is closed owes nothing.
LEMMA ClosedTold ==
  ASSUME NEW cookies, NEW sent
  PROVE  ToldOK(ClosedConn, cookies, sent)
BY DEF ToldOK, ClosedConn, Busy

\* A request whose session was looked up.
LEMMA SetSessionTold ==
  ASSUME TypeInv, TellsInv, NEW c \in Conns, conn[c].phase \in {"sent", "body"},
         NEW k \in ConnType, SetSession(c, k), k.owner = conn[c].owner, k.sid = conn[c].sid,
         k.presented = conn[c].presented, k.streamed = conn[c].streamed,
         k.phase \in {"ready", "refused"}, jar' = jar, replies' = replies
  PROVE  TellsInv'
<1>1. PICK e : /\ conn' = [conn EXCEPT ![c] = e]
               /\ e.owner = k.owner /\ e.phase = k.phase /\ e.presented = k.presented
               /\ e.streamed = k.streamed /\ e.sid # None
               /\ \/ e.sid = EnsureSessionId(k.sid, k.presented) /\ e.cookie = None
                  \/ NewId(e.sid) /\ e.cookie = e.sid
  BY SetSessionFacts
<1>2. ToldOK(conn[c], jar, replies)
  BY DEF TellsInv
<1>3. e.sid \in {e.presented, e.cookie}
  BY <1>1, <1>2 DEF ToldOK, EnsureSessionId
<1>4. ToldOK(e, jar, replies')
  BY <1>1, <1>2, <1>3 DEF ToldOK, Busy, Phases
<1>5. QED
  BY <1>1, <1>4, ToldStep

\* A request that is answered leaves the browser with a cookie, or one on its way.
LEMMA RespondTold ==
  ASSUME TypeInv, TellsInv, NEW c \in Conns, NEW part, NEW verdict,
         conn[c].phase \in {"ready", "refused", "cgi"},
         NEW r \in {Reply(c, part, verdict), RoutedReply(c, part, verdict)},
         Respond(c, r), jar' = jar
  PROVE  TellsInv'
<1>1. conn[c] \in ConnType /\ ToldOK(conn[c], jar, replies)
  BY ConnParts DEF TellsInv
<1>2. PICK k : conn' = [conn EXCEPT ![c] = k] /\ k \in {ClosedConn, ResetConn(conn[c])}
  BY DEF Respond, RemoveClient
<1>3. r.n = conn[c].n /\ r.to = conn[c].owner /\ r.cookie = conn[c].cookie
  BY ReplyTold
<1>4. replies' = replies \cup {r}
  BY DEF Respond
<1>5. conn[c].sid # None /\ conn[c].sid \in {conn[c].presented, conn[c].cookie}
      /\ (conn[c].presented # None => jar[conn[c].owner] # None)
  BY <1>1 DEF ToldOK, Busy, Phases
<1>6. Owed(conn[c], jar, replies')
  BY <1>3, <1>4, <1>5 DEF Owed
<1>7. ToldOK(ResetConn(conn[c]), jar, replies')
  BY <1>1, <1>6, ResetHeld DEF ToldOK, Owed, Busy
<1>8. ToldOK(k, jar, replies')
  BY <1>2, <1>7, ClosedTold
<1>9. QED
  BY <1>2, <1>4, <1>8, ToldStep

LEMMA ConnectTold == ASSUME TypeInv, TellsInv, NEW c \in Conns, Connect(c) PROVE TellsInv'
<1>1. PICK b \in dep.browsers : conn' = [conn EXCEPT ![c] = AddClient(c, b)]
  BY DEF Connect
<1>2. conn[c] = ClosedConn
  BY ConnParts DEF Connect, ConnOK
<1>3. ToldOK(AddClient(c, b), jar, replies)
  BY <1>2 DEF AddClient, ClosedConn, ToldOK, Busy
<1>4. QED
  BY <1>1, <1>3, ToldStep DEF Connect

LEMMA SendTold == ASSUME TypeInv, TellsInv, NEW c \in Conns, Send(c) PROVE TellsInv'
<1>1. PICK a \in dep.asks :
        conn' = [conn EXCEPT ![c].phase = "sent", ![c].n = asked + 1, ![c].ask = a,
                             ![c].presented = jar[conn[c].owner]]
  BY DEF Send
<1> DEFINE m == asked + 1
           p == jar[conn[c].owner]
           k == [conn[c] EXCEPT !.phase = "sent", !.n = m, !.ask = a, !.presented = p]
<1>2. conn' = [conn EXCEPT ![c] = k] /\ conn[c] \in ConnType
  BY <1>1, TypeParts, ConnParts DEF ConnsOK
<1>3. ToldOK(conn[c], jar, replies) /\ conn[c].phase = "idle"
      /\ \A r \in replies : r.n # conn[c].n
  BY DEF TellsInv, Send
<1>4. p = None => conn[c].sid = None
  BY <1>3 DEF ToldOK, Owed
<1>5. ~conn[c].streamed
  BY <1>3 DEF ToldOK
<1> HIDE DEF p, m
<1>6. k.phase = "sent" /\ k.owner = conn[c].owner /\ k.sid = conn[c].sid /\ k.presented = p
      /\ k.streamed = conn[c].streamed
  BY <1>2 DEF ConnType
<1> HIDE DEF k
<1>7. ToldOK(k, jar, replies)
  BY <1>4, <1>5, <1>6 DEF ToldOK, p
<1>8. QED
  BY <1>2, <1>7, ToldStep DEF Send

LEMMA ReceiveTold ==
  ASSUME TypeInv, TellsInv, NEW a \in replies, Receive(a) PROVE TellsInv'
<1>1. /\ jar \in [Browsers -> Nat] /\ a.to \in Browsers
      /\ replies' = replies \ {a} /\ conn' = conn
      /\ jar' = IF a.cookie = None THEN jar ELSE [jar EXCEPT ![a.to] = a.cookie]
  BY TypeParts DEF Receive, ReplyOK, server
<1> SUFFICES ASSUME NEW c \in Conns PROVE ToldOK(conn[c], jar', replies')
  BY <1>1 DEF TellsInv, ToldOK, Owed
<1>2. ToldOK(conn[c], jar, replies)
  BY DEF TellsInv
<1>3. ASSUME jar[conn[c].owner] # None, conn[c].phase # "closed"
      PROVE  jar'[conn[c].owner] # None
  BY <1>1, <1>3, ConnParts DEF ConnOK
<1>4. ASSUME Owed(conn[c], jar, replies), conn[c].phase # "closed"
      PROVE  Owed(conn[c], jar', replies')
  <2>1. CASE jar[conn[c].owner] # None
    BY <1>3, <1>4, <2>1 DEF Owed
  <2>2. CASE \E r \in replies : r.n = conn[c].n /\ r.to = conn[c].owner /\ r.cookie # None
    <3>1. PICK r \in replies : r.n = conn[c].n /\ r.to = conn[c].owner /\ r.cookie # None
      BY <2>2
    <3>2. CASE r = a
      BY <1>1, <3>1, <3>2 DEF Owed
    <3>3. CASE r # a
      BY <1>1, <3>1, <3>3 DEF Owed
    <3>4. QED
      BY <3>2, <3>3
  <2>3. QED
    BY <1>4, <2>1, <2>2 DEF Owed
<1>5. QED
  BY <1>2, <1>3, <1>4 DEF ToldOK, Busy

LEMMA ReadHeadTold == ASSUME TypeInv, TellsInv, NEW c \in Conns, ReadHead(c) PROVE TellsInv'
<1>1. conn[c].phase = "sent" /\ conn[c] \in ConnType /\ jar' = jar /\ replies' = replies
  BY ConnParts DEF ReadHead
<1>2. CASE conn[c].ask.size = 0
  <2> DEFINE k == [conn[c] EXCEPT !.phase = "ready"]
  <2>1. SetSession(c, k)
    BY <1>2 DEF ReadHead
  <2>2. /\ k \in ConnType /\ k.owner = conn[c].owner /\ k.sid = conn[c].sid
        /\ k.presented = conn[c].presented /\ k.phase = "ready"
        /\ k.streamed = conn[c].streamed
    BY <1>1 DEF ConnType, Phases
  <2> HIDE DEF k
  <2>3. QED
    BY <1>1, <2>1, <2>2, SetSessionTold
<1>3. CASE conn[c].ask.size # 0
  <2> DEFINE k == [conn[c] EXCEPT !.phase = "body"]
  <2>1. conn' = [conn EXCEPT ![c] = k]
    BY <1>3, TypeParts DEF ReadHead, ConnsOK
  <2>2. /\ k.owner = conn[c].owner /\ k.sid = conn[c].sid
        /\ k.presented = conn[c].presented /\ k.phase = "body"
        /\ k.streamed = conn[c].streamed
    BY <1>1 DEF ConnType
  <2> HIDE DEF k
  <2>3. ToldOK(k, jar, replies)
    BY <1>1, <2>2 DEF TellsInv, ToldOK, Busy, Phases
  <2>4. QED
    BY <1>1, <2>1, <2>3, ToldStep
<1>4. QED
  BY <1>2, <1>3

LEMMA ReadBodyTold == ASSUME TypeInv, TellsInv, NEW c \in Conns, ReadBody(c) PROVE TellsInv'
<1>1. conn[c].phase = "body" /\ conn[c] \in ConnType /\ jar' = jar /\ replies' = replies
  BY ConnParts DEF ReadBody
<1>2. PICK body \in Body :
        \/ SetSession(c, [conn[c] EXCEPT !.phase = "ready", !.body = body])
        \/ conn' = [conn EXCEPT ![c] = [conn[c] EXCEPT !.body = body]] /\ sessions' = sessions
  BY ReadBodyShape
<1> DEFINE r == [conn[c] EXCEPT !.phase = "ready", !.body = body]
           k == [conn[c] EXCEPT !.body = body]
<1>3. CASE SetSession(c, r)
  <2>1. /\ r \in ConnType /\ r.owner = conn[c].owner /\ r.sid = conn[c].sid
        /\ r.presented = conn[c].presented /\ r.phase = "ready"
        /\ r.streamed = conn[c].streamed
    BY <1>1 DEF ConnType, Phases
  <2> HIDE DEF r
  <2>2. QED
    BY <1>1, <1>3, <2>1, SetSessionTold
<1>4. CASE conn' = [conn EXCEPT ![c] = k]
  <2>1. /\ k.owner = conn[c].owner /\ k.sid = conn[c].sid
        /\ k.presented = conn[c].presented /\ k.phase = conn[c].phase
        /\ k.streamed = conn[c].streamed
    BY <1>1 DEF ConnType
  <2> HIDE DEF k
  <2>2. ToldOK(k, jar, replies)
    BY <1>1, <2>1 DEF TellsInv, ToldOK, Busy
  <2>3. QED
    BY <1>1, <1>4, <2>2, ToldStep
<1>5. QED
  BY <1>2, <1>3, <1>4

LEMMA ReadBodyFailsTold ==
  ASSUME TypeInv, TellsInv, NEW c \in Conns, ReadBodyFails(c) PROVE TellsInv'
<1>1. conn[c].phase = "body" /\ conn[c] \in ConnType /\ jar' = jar /\ replies' = replies
  BY ConnParts DEF ReadBodyFails
<1>2. PICK body \in Body : SetSession(c, [conn[c] EXCEPT !.phase = "refused", !.body = body])
  BY ReadBodyFailsShape
<1> DEFINE k == [conn[c] EXCEPT !.phase = "refused", !.body = body]
<1>3. SetSession(c, k)
  BY <1>2
<1>4. /\ k \in ConnType /\ k.owner = conn[c].owner /\ k.sid = conn[c].sid
      /\ k.presented = conn[c].presented /\ k.phase = "refused"
      /\ k.streamed = conn[c].streamed
  BY <1>1 DEF ConnType, Phases
<1> HIDE DEF k
<1>5. QED
  BY <1>1, <1>3, <1>4, SetSessionTold

LEMMA ReportErrorTold == ASSUME TypeInv, TellsInv, NEW c \in Conns, ReportError(c) PROVE TellsInv'
<1> DEFINE v == ErrorAnswer(dep.site, 500, conn[c].ask.request.range)
<1>1. conn[c].phase = "refused" /\ Respond(c, Reply(c, "whole", v)) /\ jar' = jar
  BY DEF ReportError
<1> HIDE DEF v
<1>2. QED
  BY <1>1, RespondTold

\* A request that is routed and answered.
LEMMA AnsweredTold ==
  ASSUME TypeInv, TellsInv, NEW c \in Conns, NEW deed, Routes(c, deed), NEW verdict,
         Respond(c, RoutedReply(c, "whole", verdict))
  PROVE  TellsInv'
<1>1. conn[c].phase = "ready" /\ jar' = jar
  BY DEF Routes
<1>2. QED
  BY <1>1, RespondTold

LEMMA LaunchTold == ASSUME TypeInv, TellsInv, NEW c \in Conns, Launch(c) PROVE TellsInv'
<1>1. Routes(c, "run") /\ conn[c].phase = "ready" /\ jar' = jar /\ conn[c] \in ConnType
  BY ConnParts DEF Launch, Routes
<1>2. CASE RouterFails(c)
  BY <1>1, <1>2, AnsweredTold DEF RouterFails
<1>3. CASE /\ conn' = [conn EXCEPT ![c].phase = "cgi", ![c].cgi = "running"]
           /\ replies' = replies
  <2> DEFINE k == [conn[c] EXCEPT !.phase = "cgi", !.cgi = "running"]
  <2>1. conn' = [conn EXCEPT ![c] = k]
    BY <1>3, TypeParts DEF ConnsOK
  <2>2. /\ k.owner = conn[c].owner /\ k.sid = conn[c].sid /\ k.cookie = conn[c].cookie
        /\ k.presented = conn[c].presented /\ k.phase = "cgi"
        /\ k.streamed = conn[c].streamed
    BY <1>1 DEF ConnType
  <2> HIDE DEF k
  <2>3. ToldOK(k, jar, replies)
    BY <1>1, <2>2 DEF TellsInv, ToldOK, Busy, Phases
  <2>4. QED
    BY <1>1, <1>3, <2>1, <2>3, ToldStep
<1>4. QED
  BY <1>2, <1>3 DEF Launch

LEMMA ShutDownTold == ASSUME ShutDown PROVE TellsInv'
<1>1. \A c \in Conns : conn'[c] = ClosedConn
  BY DEF ShutDown
<1>2. QED
  BY <1>1, ClosedTold DEF TellsInv, ToldOK, Owed

LEMMA CgiWritesTold == ASSUME TypeInv, TellsInv, NEW c \in Conns, CgiWrites(c) PROVE TellsInv'
<1> DEFINE k == [conn[c] EXCEPT !.wrote = TRUE]
<1>1. conn' = [conn EXCEPT ![c] = k] /\ conn[c] \in ConnType /\ jar' = jar /\ replies' = replies
  BY TypeParts, ConnParts DEF CgiWrites, ConnsOK
<1>2. /\ k.owner = conn[c].owner /\ k.sid = conn[c].sid /\ k.cookie = conn[c].cookie
      /\ k.presented = conn[c].presented /\ k.phase = conn[c].phase /\ k.n = conn[c].n
      /\ k.streamed = conn[c].streamed
  BY <1>1 DEF ConnType
<1> HIDE DEF k
<1>3. ToldOK(k, jar, replies)
  BY <1>2 DEF TellsInv, ToldOK, Owed
<1>4. QED
  BY <1>1, <1>3, ToldStep

LEMMA CgiExitsTold == ASSUME TypeInv, TellsInv, NEW c \in Conns, CgiExits(c) PROVE TellsInv'
<1>1. PICK end \in {"ok", "failed"} : conn' = [conn EXCEPT ![c].cgi = end]
  BY DEF CgiExits
<1> DEFINE k == [conn[c] EXCEPT !.cgi = end]
<1>2. conn' = [conn EXCEPT ![c] = k] /\ conn[c] \in ConnType /\ jar' = jar /\ replies' = replies
  BY <1>1, TypeParts, ConnParts DEF CgiExits, ConnsOK
<1>3. /\ k.owner = conn[c].owner /\ k.sid = conn[c].sid /\ k.cookie = conn[c].cookie
      /\ k.presented = conn[c].presented /\ k.phase = conn[c].phase /\ k.n = conn[c].n
      /\ k.streamed = conn[c].streamed
  BY <1>2 DEF ConnType
<1> HIDE DEF k
<1>4. ToldOK(k, jar, replies)
  BY <1>3 DEF TellsInv, ToldOK, Owed
<1>5. QED
  BY <1>2, <1>4, ToldStep

LEMMA RelayHeadTold == ASSUME TypeInv, TellsInv, NEW c \in Conns, RelayHead(c) PROVE TellsInv'
<1> DEFINE k == [conn[c] EXCEPT !.streamed = TRUE]
           v == ScriptAnswer(c)
           r == RoutedReply(c, "head", v)
<1>1. conn' = [conn EXCEPT ![c] = k] /\ conn[c] \in ConnType /\ jar' = jar
      /\ replies' = replies \cup {r} /\ conn[c].phase = "cgi"
  BY TypeParts, ConnParts DEF RelayHead, ConnsOK
<1> HIDE DEF v
<1>2. r.n = conn[c].n /\ r.to = conn[c].owner /\ r.cookie = conn[c].cookie
  BY ReplyTold
<1>3. /\ k.owner = conn[c].owner /\ k.sid = conn[c].sid /\ k.cookie = conn[c].cookie
      /\ k.presented = conn[c].presented /\ k.phase = conn[c].phase /\ k.n = conn[c].n
  BY <1>1 DEF ConnType
<1> HIDE DEF k, r
<1>4. ToldOK(conn[c], jar, replies)
  BY DEF TellsInv
<1>5. k.cookie # None => Owed(k, jar, replies')
  BY <1>1, <1>2, <1>3 DEF Owed
<1>6. ToldOK(k, jar, replies')
  BY <1>1, <1>3, <1>4, <1>5 DEF ToldOK
<1>7. QED
  BY <1>1, <1>6, ToldStep

LEMMA FinishCgiTold == ASSUME TypeInv, TellsInv, NEW c \in Conns, FinishCgi(c) PROVE TellsInv'
<1> DEFINE reset == ResetConn(conn[c])
<1>1. conn[c] \in ConnType /\ jar' = jar /\ conn[c].phase = "cgi"
      /\ replies' = replies \cup {LastReply(c)} /\ ToldOK(conn[c], jar, replies)
  BY ConnParts DEF FinishCgi, TellsInv
<1>2. PICK k, sid : /\ conn' = [conn EXCEPT ![c] = k]
                    /\ k = ClosedConn \/ k = [reset EXCEPT !.sid = sid]
  BY FinishCgiShape
<1>3. conn[c].sid # None /\ conn[c].sid \in {conn[c].presented, conn[c].cookie}
      /\ (conn[c].presented # None => jar[conn[c].owner] # None)
      /\ (conn[c].streamed /\ conn[c].cookie # None => Owed(conn[c], jar, replies))
  BY <1>1 DEF ToldOK, Busy, Phases
<1>4. Owed(conn[c], jar, replies')
  <2>1. CASE conn[c].presented # None
    BY <1>3, <2>1 DEF Owed
  <2>2. CASE conn[c].presented = None /\ conn[c].streamed
    BY <1>1, <1>3, <2>2 DEF Owed
  <2>3. CASE conn[c].presented = None /\ ~conn[c].streamed
    <3> DEFINE r == LastReply(c)
    <3>1. r.n = conn[c].n /\ r.to = conn[c].owner /\ r.cookie = conn[c].cookie
      BY <2>3, LastReplyTold
    <3> HIDE DEF r
    <3>2. r \in replies'
      BY <1>1 DEF r
    <3>3. QED
      BY <1>3, <2>3, <3>1, <3>2 DEF Owed
  <2>4. QED
    BY <2>1, <2>2, <2>3
<1>5. CASE k = ClosedConn
  <2>1. ToldOK(k, jar, replies')
    BY <1>5, ClosedTold
  <2>2. QED
    BY <1>1, <1>2, <2>1, ToldStep
<1>6. CASE k = [reset EXCEPT !.sid = sid]
  <2>1. /\ k.phase = "idle" /\ k.owner = conn[c].owner /\ k.n = conn[c].n
        /\ ~k.streamed
    BY <1>1, <1>6 DEF ResetConn, ConnType
  <2>2. ToldOK(k, jar, replies')
    BY <1>4, <2>1 DEF ToldOK, Owed, Busy
  <2>3. QED
    BY <1>1, <1>2, <2>2, ToldStep
<1>7. QED
  BY <1>2, <1>5, <1>6

LEMMA FailCgiTold == ASSUME TypeInv, TellsInv, NEW c \in Conns, FailCgi(c) PROVE TellsInv'
<1>1. conn[c].phase = "cgi" /\ conn[c] \in ConnType /\ jar' = jar
  BY ConnParts DEF FailCgi
<1>2. CASE conn[c].streamed
  <2> DEFINE k == [conn[c] EXCEPT !.phase = "stuck", !.cgi = "none"]
  <2>1. conn' = [conn EXCEPT ![c] = k] /\ replies' = replies
    BY <1>2, TypeParts DEF FailCgi, ConnsOK
  <2>2. /\ k.owner = conn[c].owner /\ k.sid = conn[c].sid /\ k.cookie = conn[c].cookie
        /\ k.presented = conn[c].presented /\ k.phase = "stuck"
    BY <1>1 DEF ConnType
  <2> HIDE DEF k
  <2>3. ToldOK(k, jar, replies)
    BY <1>1, <2>2 DEF TellsInv, ToldOK, Busy, Phases
  <2>4. QED
    BY <1>1, <2>1, <2>3, ToldStep
<1>3. CASE ~conn[c].streamed
  <2> DEFINE v == ErrorAnswer(dep.site, 500, conn[c].ask.request.range)
  <2>1. Respond(c, RoutedReply(c, "whole", v))
    BY <1>3 DEF FailCgi
  <2> HIDE DEF v
  <2>2. QED
    BY <1>1, <2>1, RespondTold
<1>4. QED
  BY <1>2, <1>3

LEMMA DropTold == ASSUME TypeInv, TellsInv, NEW c \in Conns, Drop(c) PROVE TellsInv'
BY ClosedTold, ToldStep DEF Drop, RemoveClient

LEMMA ToldInit == Init => TellsInv
BY ClosedTold DEF Init, TellsInv

LEMMA ToldNext == TypeInv /\ TellsInv /\ [Next]_vars => TellsInv'
<1> SUFFICES ASSUME TypeInv, TellsInv, [Next]_vars PROVE TellsInv'
  OBVIOUS
<1>1. ASSUME NEW c \in Conns, Handle(c) PROVE TellsInv'
  <2>1. CASE AnswerPage(c)
    BY <2>1, AnsweredTold DEF AnswerPage
  <2>2. CASE Upload(c)
    BY <2>2, AnsweredTold DEF Upload, RouterFails
  <2>3. CASE DeleteFile(c)
    BY <2>3, AnsweredTold DEF DeleteFile, RouterFails
  <2>4. CASE Throw(c)
    BY <2>4, ShutDownTold DEF Throw
  <2>5. QED
    BY <1>1, <2>1, <2>2, <2>3, <2>4, ReadHeadTold, ReadBodyTold, ReadBodyFailsTold,
       ReportErrorTold, LaunchTold, RelayHeadTold, FinishCgiTold, FailCgiTold, DropTold
       DEF Handle
<1>2. ASSUME NEW c \in Conns, Environment(c) PROVE TellsInv'
  BY <1>2, ConnectTold, SendTold, CgiWritesTold, CgiExitsTold DEF Environment
<1>3. CASE Stop
  BY <1>3, ShutDownTold DEF Stop
<1>4. CASE UNCHANGED vars \/ \E s \in DOMAIN sessions : Expire(s)
  BY <1>4 DEF vars, Expire, TellsInv, ToldOK, Owed
<1>5. QED
  BY <1>1, <1>2, <1>3, <1>4, ReceiveTold DEF Next

\* A request is answered under the session its browser asked for, or under one that the
\* answer tells it of: a connection never goes on with a session its browser was not
\* told (ensureSessionId and setSession on connections that are kept).
THEOREM BrowserIsTold == Spec => []TellsSession
<1>1. TellsInv => TellsSession
  BY DEF TellsInv, ToldOK, TellsSession
<1>2. QED
  BY <1>1, TypeInit, TypeNext, ToldInit, ToldNext, PTL DEF Spec

-----------------------------------------------------------------------------
(* LoginSticks *)

LoginOK(a) ==
  a.login => /\ a.session \in 1 .. Len(sessions)
             /\ sessions[a.session].authenticated \/ sessions[a.session].expired
LoginInv == \A a \in replies : LoginOK(a)

\* The session of a request whose CGI names a user is logged in, unless it has expired.
LEMMA FinishMarks ==
  ASSUME TypeInv, SessionInv, NEW c \in Conns, FinishCgi(c), NamesUser(c)
  PROVE  /\ Grows
         /\ conn[c].sid \in 1 .. Len(sessions) =>
              \/ sessions'[conn[c].sid].authenticated
              \/ sessions'[conn[c].sid].expired
<1> DEFINE o == conn[c].owner
           id == conn[c].sid
<1>1. id \in Nat /\ sessions \in SessionTable /\ sessions' = ApplyAuth(sessions, id).table
      /\ o \in members'
  BY ConnParts, TypeParts DEF FinishCgi
<1>2. id \in 1 .. Len(sessions) => Holds(o, id)
  BY OwnHeld DEF Held, None
<1> HIDE DEF o, id
<1>3. Grows /\ (id \in 1 .. Len(sessions) => sessions'[id].authenticated \/ sessions'[id].expired)
  BY <1>1, <1>2, AuthGrows
<1>4. QED
  BY <1>3 DEF id

\* Sessions are only ever added, logged in or expired.
LEMMA GrowsNext ==
  ASSUME TypeInv, SessionInv, [Next]_vars
  PROVE  Grows
<1>1. sessions \in SessionTable
  BY TypeParts
<1>2. CASE sessions' = sessions
  BY <1>1, <1>2, SameSessions
<1>3. ASSUME NEW c \in Conns, NEW deed, Routes(c, deed) PROVE Grows
  BY <1>1, <1>3, ConnParts, LookedGrows DEF Routes, Looked
<1>4. ASSUME NEW c \in Conns, ReadHead(c) PROVE Grows
  <2> DEFINE k == [conn[c] EXCEPT !.phase = "ready"]
  <2>1. CASE SetSession(c, k)
    <3>1. k \in ConnType
      BY ConnParts DEF ConnType, Phases
    <3> HIDE DEF k
    <3>2. QED
      BY <2>1, <3>1, SetSessionFacts
  <2>2. QED
    BY <1>2, <1>4, <2>1 DEF ReadHead
<1>5. ASSUME NEW c \in Conns, ReadBody(c) PROVE Grows
  <2>1. PICK body \in Body :
          \/ SetSession(c, [conn[c] EXCEPT !.phase = "ready", !.body = body])
          \/ sessions' = sessions
    BY <1>5, ReadBodyShape
  <2> DEFINE k == [conn[c] EXCEPT !.phase = "ready", !.body = body]
  <2>2. k \in ConnType
    BY ConnParts DEF ConnType, Phases
  <2>3. SetSession(c, k) \/ sessions' = sessions
    BY <2>1
  <2> HIDE DEF k
  <2>4. QED
    BY <1>2, <2>2, <2>3, SetSessionFacts
<1>6. ASSUME NEW c \in Conns, ReadBodyFails(c) PROVE Grows
  <2>1. PICK body \in Body : SetSession(c, [conn[c] EXCEPT !.phase = "refused", !.body = body])
    BY <1>6, ReadBodyFailsShape
  <2> DEFINE k == [conn[c] EXCEPT !.phase = "refused", !.body = body]
  <2>2. k \in ConnType
    BY ConnParts DEF ConnType, Phases
  <2>3. SetSession(c, k)
    BY <2>1
  <2> HIDE DEF k
  <2>4. QED
    BY <2>2, <2>3, SetSessionFacts
<1>7. ASSUME NEW c \in Conns, FinishCgi(c) PROVE Grows
  <2>1. conn[c].sid \in Nat
    BY ConnParts
  <2>2. CASE NamesUser(c)
    BY <1>1, <1>7, <2>1, <2>2, FinishMarks
  <2>3. CASE ~NamesUser(c)
    BY <1>2, <1>7, <2>3 DEF FinishCgi
  <2>4. QED
    BY <2>2, <2>3
<1>8. ASSUME NEW c \in Conns, Handle(c) PROVE Grows
  <2>1. CASE ReportError(c) \/ RelayHead(c) \/ FailCgi(c) \/ Drop(c)
    BY <1>2, <2>1 DEF ReportError, RelayHead, FailCgi, Drop
  <2>2. CASE AnswerPage(c) \/ Upload(c) \/ DeleteFile(c) \/ Launch(c) \/ Throw(c)
    BY <1>3, <2>2 DEF AnswerPage, Upload, DeleteFile, Launch, Throw
  <2>3. QED
    BY <1>4, <1>5, <1>6, <1>7, <1>8, <2>1, <2>2 DEF Handle
<1>9. ASSUME NEW c \in Conns, Environment(c) PROVE Grows
  BY <1>2, <1>9 DEF Environment, Connect, Send, CgiWrites, CgiExits
<1>10. CASE Stop \/ UNCHANGED vars \/ \E a \in replies : Receive(a)
  BY <1>2, <1>10 DEF Stop, vars, Receive, server
<1>11. QED
  BY <1>8, <1>9, <1>10, ExpireSessions DEF Next

\* Only the end of a CGI's answer reports a login.
LEMMA OnlyLastReports ==
  ASSUME TypeInv, [Next]_vars
  PROVE  \/ \A a \in replies' \ replies : ~a.login
         \/ \E c \in Conns : FinishCgi(c)
<1>1. ASSUME NEW c \in Conns, NEW part, NEW verdict,
             NEW r \in {Reply(c, part, verdict), RoutedReply(c, part, verdict)}, Respond(c, r)
      PROVE  \A a \in replies' \ replies : ~a.login
  BY <1>1, ReplyTold DEF Respond
<1>2. CASE replies' \subseteq replies
  BY <1>2
<1>3. ASSUME NEW c \in Conns, Handle(c), ~FinishCgi(c)
      PROVE  \A a \in replies' \ replies : ~a.login
  <2>1. CASE ReadHead(c) \/ ReadBody(c) \/ ReadBodyFails(c) \/ Throw(c) \/ Drop(c)
    BY <1>2, <2>1 DEF ReadHead, ReadBody, ReadBodyFails, Throw, Drop
  <2>2. CASE ReportError(c)
    BY <1>1, <2>2 DEF ReportError
  <2>3. CASE AnswerPage(c) \/ Upload(c) \/ DeleteFile(c)
    BY <1>1, <2>3 DEF AnswerPage, Upload, DeleteFile, RouterFails
  <2>4. CASE Launch(c)
    BY <1>1, <1>2, <2>4 DEF Launch, RouterFails
  <2>5. CASE RelayHead(c)
    BY <2>5, ReplyTold DEF RelayHead
  <2>6. CASE FailCgi(c)
    BY <1>1, <1>2, <2>6 DEF FailCgi
  <2>7. QED
    BY <1>3, <2>1, <2>2, <2>3, <2>4, <2>5, <2>6 DEF Handle
<1>4. ASSUME NEW c \in Conns, Environment(c) PROVE \A a \in replies' \ replies : ~a.login
  BY <1>2, <1>4 DEF Environment, Connect, Send, CgiWrites, CgiExits
<1>5. CASE Stop \/ UNCHANGED vars \/ (\E a \in replies : Receive(a))
             \/ \E s \in DOMAIN sessions : Expire(s)
  BY <1>2, <1>5 DEF Stop, vars, Receive, Expire
<1>6. QED
  BY <1>3, <1>4, <1>5 DEF Next

LEMMA LoginInit == Init => LoginInv
BY DEF Init, LoginInv

LEMMA LoginNext == TypeInv /\ SessionInv /\ TellsInv /\ LoginInv /\ [Next]_vars => LoginInv'
<1> SUFFICES ASSUME TypeInv, SessionInv, TellsInv, LoginInv, [Next]_vars, NEW a \in replies'
             PROVE  LoginOK(a)'
  BY DEF LoginInv
<1>1. Grows
  BY GrowsNext
<1>2. Len(sessions) \in Nat /\ Len(sessions') \in Nat
  BY TypeParts, TypeNext DEF SessionTable
<1>3. CASE a \in replies
  BY <1>1, <1>2, <1>3 DEF LoginInv, LoginOK, Grows
<1>4. CASE ~a.login
  BY <1>4 DEF LoginOK
<1>5. CASE a \notin replies /\ a.login
  <2>1. PICK c \in Conns : FinishCgi(c)
    BY <1>5, OnlyLastReports
  <2> DEFINE r == LastReply(c)
  <2>2. r.session = conn[c].sid /\ r.login = NamesUser(c)
    BY LastReplyTold DEF NamesUser
  <2> HIDE DEF r
  <2>3. a = r
    BY <1>5, <2>1 DEF FinishCgi, r
  <2>4. NamesUser(c) /\ a.session = conn[c].sid
    BY <1>5, <2>2, <2>3
  <2>5. conn[c].sid \in 1 .. Len(sessions)
    <3>1. conn[c].sid # None /\ conn[c].sid \in Nat /\ conn[c].owner \in Browsers
      BY <2>1, ConnParts DEF FinishCgi, TellsInv, ToldOK, Busy, Phases
    <3>2. Holds(conn[c].owner, conn[c].sid)
      BY <3>1, OwnHeld DEF Held
    <3>3. QED
      BY <3>1, <3>2 DEF SessionInv, HeldExist
  <2>6. sessions'[conn[c].sid].authenticated \/ sessions'[conn[c].sid].expired
    BY <2>1, <2>4, <2>5, FinishMarks
  <2>7. conn[c].sid \in 1 .. Len(sessions')
    BY <1>1, <1>2, <2>5 DEF Grows
  <2>8. QED
    BY <2>4, <2>6, <2>7 DEF LoginOK
<1>6. QED
  BY <1>3, <1>4, <1>5

\* Whoever is told of a login by a CGI has had the session of that request logged in,
\* and it stays so until it expires (SessionManager::applyAuthFromResponse at the end of
\* a CGI, with everything other connections do with the sessions meanwhile).
THEOREM LoginIsKept == Spec => []LoginSticks
<1>1. TypeInv /\ LoginInv => LoginSticks
  BY TypeParts DEF LoginInv, LoginOK, LoginSticks, SessionTable
<1>2. QED
  BY <1>1, TypeInit, TypeNext, SessionInit, SessionNext, ToldInit, ToldNext, LoginInit,
     LoginNext, PTL DEF Spec

-----------------------------------------------------------------------------
(* Where answers come from *)

AsksLogin(k) == Locations(dep.site)[FirstLocation(dep.site, k.ask.request)].auth
ServedBehindLogin(k) == Locations(dep.site)[SecondLocation(dep.site, k.ask.request)].auth
PassedGate(c) == Verdict(c).deed # "answer" \/ Verdict(c).status # 307
ErrorOf(c) == ErrorAnswer(dep.site, 500, conn[c].ask.request.range)

(* An answer is that of a request at hand, and a page behind a login is of a request that
   was let through by the router, just now or when its CGI was launched. *)
AnswerOf(a, c) ==
  /\ conn[c].phase \in {"ready", "refused", "cgi"}
  /\ a.to = conn[c].owner /\ a.ask = conn[c].ask
  /\ a.verdict \in {Verdict(c), ErrorOf(c), Answer(200), Answer(204), ScriptAnswer(c)}
  /\ a.verdict.deed = "answer"
  /\ a.guarded => /\ ServedBehindLogin(conn[c])
                  /\ conn[c].phase = "cgi" \/ (conn[c].phase = "ready" /\ PassedGate(c))

\* What is not from the router is an answer.
LEMMA IsAnAnswer ==
  \A c : /\ ErrorOf(c).deed = "answer" /\ ScriptAnswer(c).deed = "answer"
         /\ Answer(200).deed = "answer" /\ Answer(204).deed = "answer"
BY DEF ErrorOf, ScriptAnswer, ErrorAnswer, FileAnswer, Plain, Answer

\* The answers of the router.
LEMMA RoutedAnswer ==
  ASSUME NEW c \in Conns, NEW verdict, NEW part, NEW a, a = RoutedReply(c, part, verdict),
         verdict \in {Verdict(c), ErrorOf(c), Answer(200), Answer(204), ScriptAnswer(c)},
         verdict.deed = "answer",
         conn[c].phase \in {"ready", "cgi"},
         conn[c].phase = "ready" /\ verdict.status # 307 => PassedGate(c)
  PROVE  AnswerOf(a, c)
<1>1. a.to = conn[c].owner /\ a.ask = conn[c].ask /\ a.verdict = verdict
  BY ReplyTold
<1>2. a.guarded = Guarded(c, verdict)
  BY DEF RoutedReply, Reply
<1>3. Guarded(c, verdict) => ServedBehindLogin(conn[c]) /\ verdict.status # 307
  BY DEF Guarded, ServedBehindLogin
<1>4. QED
  BY <1>1, <1>2, <1>3 DEF AnswerOf

\* Every answer a step sends is one of these.
LEMMA AnswerShape ==
  ASSUME TypeInv, [Next]_vars, NEW a \in replies' \ replies
  PROVE  \E c \in Conns : AnswerOf(a, c)
<1>1. ASSUME NEW c \in Conns, Handle(c) PROVE AnswerOf(a, c)
  <2>1. ASSUME NEW deed, Routes(c, deed), NEW verdict,
               \/ deed = "answer" /\ verdict = Verdict(c)
               \/ deed # "answer" /\ verdict \in {ErrorOf(c), Answer(200), Answer(204)},
               Respond(c, RoutedReply(c, "whole", verdict))
        PROVE  AnswerOf(a, c)
    <3>1. a = RoutedReply(c, "whole", verdict) /\ conn[c].phase = "ready"
          /\ Verdict(c).deed = deed
      BY <2>1 DEF Respond, Routes
    <3>2. verdict.status # 307 => PassedGate(c)
      BY <2>1, <3>1 DEF PassedGate
    <3>3. verdict.deed = "answer"
      BY <2>1, <3>1, IsAnAnswer
    <3>4. verdict \in {Verdict(c), ErrorOf(c), Answer(200), Answer(204), ScriptAnswer(c)}
      BY <2>1
    <3>5. QED
      BY <3>1, <3>2, <3>3, <3>4, RoutedAnswer
  <2>2. ASSUME NEW deed, Routes(c, deed), deed # "answer", RouterFails(c)
        PROVE  AnswerOf(a, c)
    BY <2>1, <2>2 DEF RouterFails, ErrorOf
  <2>3. CASE AnswerPage(c)
    BY <2>1, <2>3 DEF AnswerPage
  <2>4. CASE Upload(c)
    BY <2>1, <2>2, <2>4 DEF Upload
  <2>5. CASE DeleteFile(c)
    BY <2>1, <2>2, <2>5 DEF DeleteFile
  <2>6. CASE Launch(c)
    BY <2>2, <2>6 DEF Launch
  <2>7. CASE ReadHead(c) \/ ReadBody(c) \/ ReadBodyFails(c) \/ Throw(c) \/ Drop(c)
    BY <2>7 DEF ReadHead, ReadBody, ReadBodyFails, Throw, Drop
  <2>8. CASE ReportError(c)
    <3> DEFINE v == ErrorOf(c)
               r == Reply(c, "whole", v)
    <3>1. a = r /\ conn[c].phase = "refused"
      BY <2>8 DEF ReportError, Respond, ErrorOf
    <3>2. ~r.guarded /\ r.to = conn[c].owner /\ r.ask = conn[c].ask /\ r.verdict = v
      BY DEF Reply
    <3> HIDE DEF r
    <3>3. QED
      BY <3>1, <3>2, IsAnAnswer DEF AnswerOf
  <2>9. CASE RelayHead(c)
    <3>1. a = RoutedReply(c, "head", ScriptAnswer(c)) /\ conn[c].phase = "cgi"
      BY <2>9 DEF RelayHead
    <3>2. QED
      BY <3>1, IsAnAnswer, RoutedAnswer
  <2>10. CASE FinishCgi(c)
    <3> DEFINE r == LastReply(c)
    <3>1. a = r /\ conn[c].phase = "cgi"
      BY <2>10 DEF FinishCgi
    <3>2. r.to = conn[c].owner /\ r.ask = conn[c].ask /\ r.verdict = ScriptAnswer(c)
      BY LastReplyTold
    <3>3. r.guarded = Guarded(c, ScriptAnswer(c))
      BY DEF LastReply, RoutedReply, Reply
    <3>4. Guarded(c, ScriptAnswer(c)) => ServedBehindLogin(conn[c])
      BY DEF Guarded, ServedBehindLogin
    <3> HIDE DEF r
    <3>5. QED
      BY <3>1, <3>2, <3>3, <3>4, IsAnAnswer DEF AnswerOf
  <2>11. CASE FailCgi(c)
    <3>1. a = RoutedReply(c, "whole", ErrorOf(c)) /\ conn[c].phase = "cgi"
      BY <2>11 DEF FailCgi, Respond, ErrorOf
    <3>2. QED
      BY <3>1, IsAnAnswer, RoutedAnswer
  <2>12. QED
    BY <1>1, <2>3, <2>4, <2>5, <2>6, <2>7, <2>8, <2>9, <2>10, <2>11 DEF Handle
<1>2. CASE \E c \in Conns : Environment(c)
  BY <1>2 DEF Environment, Connect, Send, CgiWrites, CgiExits
<1>3. CASE Stop \/ UNCHANGED vars \/ (\E r \in replies : Receive(r))
             \/ \E s \in DOMAIN sessions : Expire(s)
  BY <1>3 DEF Stop, vars, Receive, Expire
<1>4. QED
  BY <1>1, <1>2, <1>3 DEF Next

-----------------------------------------------------------------------------
(* SliceFits *)

(* What SliceFits says of one answer. *)
Fits(v, range) ==
  v.status = 206 =>
    /\ 0 <= v.first /\ v.first <= v.last /\ v.last < v.size
    /\ v.last - v.first < MaxSlice
    /\ range.start \in {Open, v.first}

\* parseRange and buildRangeResponse.
LEMMA FileAnswerFits ==
  ASSUME NEW status \in Nat, status # 206, NEW path, NEW size \in Nat, NEW range \in ByteRange
  PROVE  Fits(FileAnswer(status, path, size, range), range)
<1> DEFINE first == FirstByte(range)
           last == LastByte(range, size)
           v == FileAnswer(status, path, size, range)
<1>1. range.start \in Nat \cup {Open} /\ range.end \in Nat \cup {Open}
  BY DEF ByteRange
<1>2. first \in Nat /\ range.start \in {Open, first}
  BY <1>1 DEF FirstByte, Open
<1>3. last \in Int /\ last - first < MaxSlice
      /\ (first < size => last < size)
  <2> DEFINE end == IF range.end = Open \/ range.end >= size THEN size - 1 ELSE range.end
  <2>1. end \in Int /\ end < size
    BY <1>1 DEF Open
  <2>2. last = IF end - first + 1 > MaxSlice THEN first + MaxSlice - 1 ELSE end
    BY DEF LastByte
  <2> HIDE DEF end, first, last
  <2>3. QED
    BY <1>2, <2>1, <2>2, MaxSliceAssumption
<1>4. CASE ~range.asked
  BY <1>4 DEF FileAnswer, Answer, Fits
<1>5. CASE range.asked /\ Satisfiable(range, size)
  <2>1. first < size /\ first <= last
    BY <1>5 DEF Satisfiable
  <2>2. v.first = first /\ v.last = last /\ v.size = size
    BY <1>5 DEF FileAnswer, Answer
  <2> HIDE DEF first, last, v
  <2>3. Fits(v, range)
    BY <1>2, <1>3, <2>1, <2>2 DEF Fits
  <2>4. QED
    BY <2>3 DEF v
<1>6. CASE range.asked /\ ~Satisfiable(range, size)
  BY <1>6 DEF FileAnswer, Plain, Answer, Fits
<1>7. QED
  BY <1>4, <1>5, <1>6

LEMMA AnswerFits ==
  ASSUME NEW status, status # 206, NEW range
  PROVE  /\ Fits(Answer(status), range) /\ Fits(Plain(status), range)
         /\ \A deed, path : Fits(Do(deed, path), range)
BY DEF Answer, Plain, Do, Fits

LEMMA ErrorAnswerFits ==
  ASSUME NEW site \in Site, NEW status \in Errors, NEW range \in ByteRange
  PROVE  Fits(ErrorAnswer(site, status, range), range)
<1>1. status \in Nat /\ status # 206
  BY DEF Errors
<1>2. site.pages[status] \in Nat \cup {NoPage}
  BY DEF Site
<1>3. QED
  BY <1>1, <1>2, FileAnswerFits, AnswerFits DEF ErrorAnswer

\* Every answer of the router fits.
LEMMA ProcessFits ==
  ASSUME NEW site \in Site, NEW held, held \in [DOMAIN held -> Nat], NEW r \in Request,
         NEW authenticated
  PROVE  Fits(Process(site, held, r, authenticated), r.range)
<1>1. r.range \in ByteRange /\ r.method \in Methods
      /\ r.form \in {"none", "other", "broken", "file"}
  BY DEF Request
<1>2. \A status : status # 206 => Fits(Answer(status), r.range)
  BY AnswerFits
<1>3. \A deed, path : Fits(Do(deed, path), r.range)
  BY AnswerFits
<1>4. \A status \in Errors : Fits(ErrorAnswer(site, status, r.range), r.range)
  BY <1>1, ErrorAnswerFits
<1>5. \A path \in DOMAIN held : Fits(FileAnswer(200, path, held[path], r.range), r.range)
  BY <1>1, FileAnswerFits
<1>6. ASSUME NEW location, NEW path
      PROVE  Fits(Get(site, held, location, path, r.range), r.range)
  BY <1>2, <1>4, <1>5 DEF Get, Errors
<1>7. ASSUME NEW location
      PROVE  Fits(Post(site, location, r.form, r.range), r.range)
  BY <1>1, <1>2, <1>3, <1>4 DEF Post, Errors
<1>8. ASSUME NEW path
      PROVE  Fits(Delete(site, held, path, r.range), r.range)
  BY <1>3, <1>4 DEF Delete, Errors
<1>9. ASSUME NEW location, NEW path
      PROVE  Fits(Run(site, held, location, path, r.range), r.range)
  BY <1>3, <1>4 DEF Run, Errors
<1>10. ASSUME NEW location, NEW path
       PROVE  Fits(Execute(site, held, r, location, path), r.range)
  BY <1>1, <1>4, <1>6, <1>7, <1>8, <1>9 DEF Execute, Errors, Methods
<1>11. QED
  BY <1>2, <1>3, <1>4, <1>10 DEF Process, Errors

SliceInv == \A a \in replies : Fits(a.verdict, a.ask.request.range)

LEMMA SliceNext == TypeInv /\ SliceInv /\ [Next]_vars => SliceInv'
<1> SUFFICES ASSUME TypeInv, SliceInv, [Next]_vars, NEW a \in replies'
             PROVE  Fits(a.verdict, a.ask.request.range)
  BY DEF SliceInv
<1>1. CASE a \in replies
  BY <1>1 DEF SliceInv
<1>2. CASE a \notin replies
  <2>1. PICK c \in Conns : AnswerOf(a, c)
    BY <1>2, AnswerShape
  <2> DEFINE r == conn[c].ask.request
  <2>2. a.ask.request = r
        /\ a.verdict \in {Verdict(c), ErrorOf(c), Answer(200), Answer(204), ScriptAnswer(c)}
    BY <2>1 DEF AnswerOf
  <2>3. r \in Request /\ dep.site \in Site /\ files \in [DOMAIN files -> Nat]
    BY <2>1, ConnParts, TypeParts, DepFacts DEF AnswerOf, Busy, Phases, Ask
  <2>4. r.range \in ByteRange
    BY <2>3 DEF Request
  <2>5. Fits(Verdict(c), r.range)
    BY <2>3, ProcessFits DEF Verdict
  <2>6. Fits(ErrorOf(c), r.range)
    BY <2>3, <2>4, ErrorAnswerFits DEF ErrorOf, Errors
  <2>7. Fits(Answer(200), r.range) /\ Fits(Answer(204), r.range)
    BY AnswerFits
  <2>8. Fits(ScriptAnswer(c), r.range)
    <3>1. ScriptAnswer(c).status = 200
      BY DEF ScriptAnswer, Answer
    <3>2. QED
      BY <3>1 DEF Fits
  <2> HIDE DEF r
  <2>9. QED
    BY <2>2, <2>5, <2>6, <2>7, <2>8
<1>3. QED
  BY <1>1, <1>2

\* A partial answer is a part of its file, no larger than MAX_CHUNK, that begins where it
\* was asked to, for every range, size and error page (parseRange, buildRangeResponse).
THEOREM SlicesFit == Spec => []SliceFits
<1>1. Init => SliceInv
  BY DEF Init, SliceInv
<1>2. SliceInv => SliceFits
  BY DEF SliceInv, SliceFits, Fits
<1>3. QED
  BY <1>1, <1>2, SliceNext, TypeInit, TypeNext, PTL DEF Spec

-----------------------------------------------------------------------------
(* The temporary files *)

FileNames == 0 .. Names - 1

(* A request that has no file yet; one whose body is in a file; and one that is alone
   in it. *)
Reading == {"body", "ready"}
Fresh(k) == k.phase = "sent" \/ (k.phase = "body" /\ ~k.body.inDisk)
InFile(k) == k.phase \in Reading /\ k.body.inDisk
Alone(d, k) == InFile(k) /\ ~k.body.late /\ ~Overtaken(d, k.body)

(* The next number is as far behind a name as numbers were used since it was given. *)
NumberFits(d, b) ==
  /\ b.serial <= d.created
  /\ d.created - b.serial < Names =>
       \/ d.number = b.name + 1 + (d.created - b.serial)
       \/ d.number = b.name + 1 + (d.created - b.serial) - Names

(* A body as far as it was read, in memory or in a file that no other request uses. *)
OwnOK(d, k) ==
  /\ k.body.file # NoFile => k.body.inDisk
  /\ k.phase \in {"closed", "idle", "sent"} => k.body = NoBody
  /\ k.phase \in Reading /\ ~k.body.inDisk => k.body.memory = Sent(k.n, Len(k.body.memory))
  /\ InFile(k) => NumberFits(d, k.body) /\ (~k.body.late => k.body.file = k.n)
  /\ Alone(d, k) =>
       /\ d.content[k.n] = Sent(k.n, k.body.at)
       /\ \A name \in FileNames : d.entry[name] = k.n => name = k.body.name
  /\ k.phase = "ready" => PartsRead(k.body) = k.ask.size

BodiesOK == \A c \in Conns : OwnOK(disk, conn[c])
RequestsApart ==
  \A c, e \in Conns : c # e /\ conn[c].phase \in Busy /\ conn[e].phase \in Busy =>
    conn[c].n # conn[e].n
NotYetAFile ==
  \A c \in Conns : Fresh(conn[c]) =>
    /\ \A name \in FileNames : disk.entry[name] # conn[c].n
    /\ \A e \in Conns : conn[e].body.file # conn[c].n
NobodyElses ==
  \A c, e \in Conns : c # e /\ Alone(disk, conn[c]) => conn[e].body.file # conn[c].n
FilesKnown ==
  /\ \A name \in FileNames : disk.entry[name] <= asked
  /\ \A c \in Conns : conn[c].body.file <= asked

FilesInv ==
  BodiesOK /\ RequestsApart /\ NotYetAFile /\ NobodyElses /\ FilesKnown /\ NoFileLeft

-----------------------------------------------------------------------------
(* A step of one connection *)

SameContent(d, e, f) == \A g \in Requests : g # f => e.content[g] = d.content[g]

(* At most file f is written, and names may be removed. *)
WriteStep(d, e, f) ==
  /\ e.number = d.number /\ e.created = d.created
  /\ SameContent(d, e, f)
  /\ \A name \in FileNames : e.entry[name] = d.entry[name] \/ e.entry[name] = NoFile

(* A number is used, and its name may lead to f. *)
TakeStep(d, e, f) ==
  /\ e.number = NextNumber(d.number) /\ e.created = d.created + 1
  /\ SameContent(d, e, f)
  /\ \A name \in FileNames :
       e.entry[name] = d.entry[name] \/ (name = d.number /\ e.entry[name] = f)

HasName(k, name) == k.body.file # NoFile /\ k.body.name = name
HasInput(k, n) == k.phase = "cgi" /\ k.n = n

(* Names and input files that were there stay with their connections, and those of c are
   k's or are gone. *)
LeavesNone(c, k) ==
  /\ \A name \in FileNames : disk'.entry[name] # NoFile =>
       HasName(k, name) \/ (disk.entry[name] # NoFile /\ ~HasName(conn[c], name))
  /\ \A n \in disk'.inputs : HasInput(k, n) \/ (n \in disk.inputs /\ ~HasInput(conn[c], n))

FileStep(c, k, f) ==
  /\ conn' = [conn EXCEPT ![c] = k] /\ k \in ConnType
  /\ f \in Requests \cup {NoFile} /\ k.body.file \in {NoFile, f}
  /\ \/ WriteStep(disk, disk', f) /\ f \in {NoFile, conn[c].body.file}
     \/ /\ TakeStep(disk, disk', f) /\ conn[c].phase \in Busy
        /\ f \in {NoFile, conn[c].n, disk.entry[disk.number]}
  /\ OwnOK(disk', k)
  /\ k.phase \in Busy => k.n > asked \/ (k.n = conn[c].n /\ conn[c].phase \in Busy)
  /\ Fresh(k) => /\ disk'.entry = disk.entry
                 /\ k.n > asked \/ (k.n = conn[c].n /\ Fresh(conn[c]))
  /\ Alone(disk', k) => k.n = conn[c].n /\ (Fresh(conn[c]) \/ Alone(disk, conn[c]))
  /\ LeavesNone(c, k)

\* The types of what the lemmas below are about.
LEMMA FileTypes ==
  ASSUME TypeInv
  PROVE  /\ disk \in Disk /\ disk.number \in FileNames /\ disk.created \in Nat
         /\ \A name \in FileNames : disk.entry[name] \in Requests \cup {NoFile}
         /\ asked \in Nat /\ Names \in Nat /\ Names > 0
         /\ conn \in [Conns -> ConnType]
         /\ \A c \in Conns :
              /\ conn[c].n \in Nat /\ conn[c].n <= asked /\ conn[c].body \in Body
              /\ conn[c].body.file \in Requests \cup {NoFile} /\ conn[c].body.name \in FileNames
              /\ conn[c].body.serial \in Nat /\ conn[c].body.at \in Nat
              /\ conn[c].body.memory \in Seq(Part)
              /\ conn[c].phase \in Busy => conn[c].n \in Requests
<1>1. disk \in Disk /\ asked \in Nat /\ ConnsOK
  BY TypeParts
<1>2. ASSUME NEW c \in Conns
      PROVE  /\ conn[c].n \in Nat /\ conn[c].n <= asked /\ conn[c].body \in Body
             /\ conn[c].phase \in Busy => conn[c].n \in Requests
  BY ConnParts DEF ConnOK
<1>3. \A b \in Body : /\ b.file \in Requests \cup {NoFile} /\ b.name \in FileNames
                      /\ b.serial \in Nat /\ b.at \in Nat /\ b.memory \in Seq(Part)
  BY DEF Body, FileNames
<1>4. QED
  BY <1>1, <1>2, <1>3, NamesAssumption DEF Disk, FileNames, ConnsOK

\* Another number is used: the next one stays as far behind.
LEMMA NumberStep ==
  ASSUME NEW name \in FileNames, NEW number \in FileNames, NEW serial \in Nat, NEW created \in Nat,
         serial <= created,
         created - serial < Names =>
           \/ number = name + 1 + (created - serial)
           \/ number = name + 1 + (created - serial) - Names
  PROVE  /\ created + 1 - serial < Names =>
              /\ number # name
              /\ \/ NextNumber(number) = name + 1 + (created + 1 - serial)
                 \/ NextNumber(number) = name + 1 + (created + 1 - serial) - Names
<1> DEFINE age == created - serial
<1>1. age \in Nat /\ created + 1 - serial = age + 1
  OBVIOUS
<1> HIDE DEF age
<1>2. age < Names => number = name + 1 + age \/ number = name + 1 + age - Names
  BY DEF age
<1>3. Names \in Nat /\ name \in Nat /\ number \in Nat /\ name < Names /\ number < Names
  BY NamesAssumption DEF FileNames
<1>4. ASSUME age + 1 < Names
      PROVE  /\ number # name
             /\ \/ NextNumber(number) = name + 1 + (age + 1)
                \/ NextNumber(number) = name + 1 + (age + 1) - Names
  <2>1. number = name + 1 + age \/ number = name + 1 + age - Names
    BY <1>1, <1>2, <1>3, <1>4
  <2>2. number # name
    BY <1>1, <1>3, <1>4, <2>1
  <2>3. NextNumber(number) = IF number < Names - 1 THEN number + 1 ELSE 0
    BY DEF NextNumber
  <2>4. QED
    BY <1>1, <1>3, <1>4, <2>1, <2>2, <2>3
<1>5. QED
  BY <1>1, <1>4

\* A step of one connection leaves the body of another as it is.
LEMMA OthersKeep ==
  ASSUME TypeInv, FilesInv, NEW c \in Conns, NEW k, NEW f, FileStep(c, k, f), NEW e \in Conns, e # c
  PROVE  /\ OwnOK(disk', conn[e])
         /\ Alone(disk', conn[e]) =>
              Alone(disk, conn[e]) /\ f # conn[e].n /\ k.body.file # conn[e].n
         /\ Fresh(conn[e]) =>
              /\ \A name \in FileNames : disk'.entry[name] # conn[e].n
              /\ f # conn[e].n /\ k.body.file # conn[e].n
<1> DEFINE x == conn[e]
           took == TakeStep(disk, disk', f)
<1>1. /\ x.n \in Nat /\ x.body.name \in FileNames /\ x.body.serial \in Nat
      /\ x.phase \in Busy => x.n \in Requests
      /\ disk.number \in FileNames /\ disk.created \in Nat /\ Names \in Nat
  BY FileTypes
<1>2. OwnOK(disk, x)
  BY DEF FilesInv, BodiesOK
<1>3. /\ WriteStep(disk, disk', f) /\ f \in {NoFile, conn[c].body.file}
      \/ /\ took /\ conn[c].phase \in Busy
         /\ f \in {NoFile, conn[c].n, disk.entry[disk.number]}
  BY DEF FileStep
<1>4. (Fresh(x) \/ InFile(x)) => x.phase \in Busy /\ x.n # NoFile
  BY <1>1 DEF Fresh, InFile, Reading, Busy, Phases, Requests, NoFile
<1>5. conn[c].phase \in Busy /\ x.phase \in Busy => conn[c].n # x.n
  BY DEF FilesInv, RequestsApart
<1> HIDE DEF x
<1>6. InFile(x) => NumberFits(disk', x.body) /\ disk.created <= disk'.created
                   /\ (took /\ ~Overtaken(disk', x.body) => disk.number # x.body.name)
  <2> SUFFICES ASSUME InFile(x)
               PROVE  NumberFits(disk', x.body) /\ disk.created <= disk'.created
                      /\ (took /\ ~Overtaken(disk', x.body) => disk.number # x.body.name)
    OBVIOUS
  <2>1. NumberFits(disk, x.body)
    BY <1>2 DEF OwnOK
  <2>2. ASSUME WriteStep(disk, disk', f), ~took
        PROVE  NumberFits(disk', x.body) /\ disk.created <= disk'.created
    BY <1>1, <2>1, <2>2 DEF WriteStep, NumberFits
  <2>3. ASSUME took
        PROVE  /\ NumberFits(disk', x.body) /\ disk.created <= disk'.created
               /\ ~Overtaken(disk', x.body) => disk.number # x.body.name
    <3>1. disk'.created = disk.created + 1 /\ disk'.number = NextNumber(disk.number)
      BY <2>3 DEF TakeStep
    <3> DEFINE name == x.body.name
               number == disk.number
               serial == x.body.serial
               created == disk.created
    <3>2. /\ name \in FileNames /\ number \in FileNames /\ serial \in Nat /\ created \in Nat
          /\ serial <= created
          /\ created - serial < Names =>
               number = name + 1 + (created - serial) \/ number = name + 1 + (created - serial) - Names
      BY <1>1, <2>1 DEF NumberFits
    <3> HIDE DEF name, number, serial, created
    <3>3. created + 1 - serial < Names =>
            /\ number # name
            /\ \/ NextNumber(number) = name + 1 + (created + 1 - serial)
               \/ NextNumber(number) = name + 1 + (created + 1 - serial) - Names
      BY <3>2, NumberStep
    <3>4. NumberFits(disk', x.body)
      BY <3>1, <3>2, <3>3 DEF NumberFits, name, number, serial, created
    <3>5. ~Overtaken(disk', x.body) => disk.number # x.body.name
      BY <1>1, <3>1, <3>2, <3>3 DEF Overtaken, name, number, serial, created
    <3>6. QED
      BY <3>1, <3>2, <3>4, <3>5 DEF created
  <2>4. QED
    BY <1>3, <2>2, <2>3
<1>7. ASSUME Alone(disk', x)
      PROVE  Alone(disk, x) /\ f # x.n /\ k.body.file # x.n
  <2>1. InFile(x) /\ ~x.body.late /\ ~Overtaken(disk', x.body)
    BY <1>7 DEF Alone
  <2>2. disk.created <= disk'.created /\ disk'.created \in Nat
    BY <1>1, <1>3, <1>6, <2>1 DEF WriteStep, TakeStep
  <2>3. Alone(disk, x)
    BY <1>1, <2>1, <2>2 DEF Alone, Overtaken
  <2>4. conn[c].body.file # x.n
    BY <2>3 DEF FilesInv, NobodyElses, x
  <2>5. took => disk.entry[disk.number] # x.n
    <3>1. \A name \in FileNames : disk.entry[name] = x.n => name = x.body.name
      BY <1>2, <2>3 DEF OwnOK
    <3>2. QED
      BY <1>1, <1>6, <2>1, <3>1
  <2>6. f # x.n
    BY <1>3, <1>4, <1>5, <2>1, <2>4, <2>5
  <2>7. QED
    BY <1>4, <2>1, <2>3, <2>6 DEF FileStep
<1>8. ASSUME Alone(disk', x)
      PROVE  /\ disk'.content[x.n] = Sent(x.n, x.body.at)
             /\ \A name \in FileNames : disk'.entry[name] = x.n => name = x.body.name
  <2>1. Alone(disk, x) /\ f # x.n /\ x.n \in Requests /\ x.n # NoFile
    BY <1>1, <1>4, <1>7, <1>8 DEF Alone, x
  <2>2. disk'.content[x.n] = disk.content[x.n]
    BY <1>3, <2>1 DEF WriteStep, TakeStep, SameContent
  <2>3. \A name \in FileNames : disk'.entry[name] = x.n => disk.entry[name] = x.n
    BY <1>3, <2>1 DEF WriteStep, TakeStep
  <2>4. QED
    BY <1>2, <2>1, <2>2, <2>3 DEF OwnOK
<1>9. OwnOK(disk', x)
  BY <1>2, <1>6, <1>8 DEF OwnOK
<1>10. ASSUME Fresh(x)
       PROVE  /\ \A name \in FileNames : disk'.entry[name] # x.n
              /\ f # x.n /\ k.body.file # x.n
  <2>1. x.n # NoFile /\ x.phase \in Busy
    BY <1>4, <1>10
  <2>2. (\A name \in FileNames : disk.entry[name] # x.n) /\ conn[c].body.file # x.n
    BY <1>10 DEF FilesInv, NotYetAFile, x
  <2>3. f # x.n
    BY <1>1, <1>3, <1>5, <2>1, <2>2
  <2>4. \A name \in FileNames : disk'.entry[name] # x.n
    BY <1>3, <2>1, <2>2, <2>3 DEF WriteStep, TakeStep
  <2>5. QED
    BY <2>1, <2>3, <2>4 DEF FileStep
<1>11. QED
  BY <1>7, <1>9, <1>10 DEF x

\* A step of one connection keeps the files in order.
LEMMA FilesStep ==
  ASSUME TypeInv, TypeInv', FilesInv, NEW c \in Conns, NEW k, NEW f, FileStep(c, k, f),
         asked <= asked'
  PROVE  FilesInv'
<1>1. conn'[c] = k /\ \A e \in Conns : e # c => conn'[e] = conn[e]
  BY FileTypes DEF FileStep
<1>2. \A e \in Conns : e # c =>
        /\ OwnOK(disk', conn[e])
        /\ Alone(disk', conn[e]) => Alone(disk, conn[e]) /\ k.body.file # conn[e].n
        /\ Fresh(conn[e]) => /\ \A name \in FileNames : disk'.entry[name] # conn[e].n
                             /\ k.body.file # conn[e].n
  BY OthersKeep
<1>3. /\ OwnOK(disk', k)
      /\ k.phase \in Busy => k.n > asked \/ (k.n = conn[c].n /\ conn[c].phase \in Busy)
      /\ Fresh(k) => /\ disk'.entry = disk.entry
                     /\ k.n > asked \/ (k.n = conn[c].n /\ Fresh(conn[c]))
      /\ Alone(disk', k) => k.n = conn[c].n /\ (Fresh(conn[c]) \/ Alone(disk, conn[c]))
      /\ LeavesNone(c, k) /\ f \in Requests \cup {NoFile} /\ k.body.file \in {NoFile, f}
  BY DEF FileStep
<1>4. k.n \in Nat /\ (k.phase \in Busy => k.n \in Requests) /\ asked \in Nat /\ asked' \in Nat
  <2>1. conn'[c].n \in Nat /\ (conn'[c].phase \in Busy => conn'[c].n \in Requests) /\ asked' \in Nat
    BY <1>1 DEF TypeInv, TypeOK, ConnsOK, ConnOK, ConnType
  <2>2. QED
    BY <1>1, <2>1, FileTypes
<1>5. BodiesOK'
  BY <1>1, <1>2, <1>3 DEF BodiesOK
<1>6. RequestsApart'
  <2>1. \A e \in Conns : conn[e].n \in Nat /\ conn[e].n <= asked
    BY FileTypes
  <2>2. \A e \in Conns : e # c /\ conn[e].phase \in Busy /\ k.phase \in Busy => conn[e].n # k.n
    BY <1>3, <1>4, <2>1 DEF FilesInv, RequestsApart
  <2>3. QED
    BY <1>1, <2>2 DEF FilesInv, RequestsApart
<1>7. NotYetAFile'
  <2>1. ASSUME Fresh(k)
        PROVE  /\ \A name \in FileNames : disk'.entry[name] # k.n
               /\ \A e \in Conns : e # c => conn[e].body.file # k.n
    <3>1. /\ \A name \in FileNames : disk.entry[name] \in Nat /\ disk.entry[name] <= asked
          /\ \A e \in Conns : conn[e].body.file \in Nat /\ conn[e].body.file <= asked
      BY FileTypes DEF FilesInv, FilesKnown, Requests, NoFile
    <3>2. CASE k.n > asked
      BY <1>3, <1>4, <2>1, <3>1, <3>2
    <3>3. CASE k.n = conn[c].n /\ Fresh(conn[c])
      BY <1>3, <2>1, <3>3 DEF FilesInv, NotYetAFile
    <3>4. QED
      BY <1>3, <2>1, <3>2, <3>3
  <2>2. Fresh(k) => k.body.file # k.n
    <3>1. Fresh(k) => k.body.file = NoFile /\ k.n \in Requests
      BY <1>3, <1>4 DEF OwnOK, Fresh, NoBody, Busy, Phases
    <3>2. QED
      BY <3>1 DEF Requests, NoFile
  <2>3. \A e, x \in Conns : Fresh(conn'[e]) => conn'[x].body.file # conn'[e].n
    <3> SUFFICES ASSUME NEW e \in Conns, NEW x \in Conns, Fresh(conn'[e])
                 PROVE  conn'[x].body.file # conn'[e].n
      OBVIOUS
    <3>1. CASE e = c
      BY <1>1, <2>1, <2>2, <3>1
    <3>2. CASE e # c /\ x = c
      BY <1>1, <1>2, <3>2
    <3>3. CASE e # c /\ x # c
      BY <1>1, <3>3 DEF FilesInv, NotYetAFile
    <3>4. QED
      BY <3>1, <3>2, <3>3
  <2>4. \A e \in Conns : Fresh(conn'[e]) => \A name \in FileNames : disk'.entry[name] # conn'[e].n
    BY <1>1, <1>2, <2>1
  <2>5. QED
    BY <2>3, <2>4 DEF NotYetAFile, Fresh
<1>8. NobodyElses'
  <2> SUFFICES ASSUME NEW e \in Conns, NEW x \in Conns, e # x, Alone(disk', conn'[e])
               PROVE  conn'[x].body.file # conn'[e].n
    BY DEF NobodyElses, Alone, InFile, Overtaken
  <2>1. CASE e = c
    BY <1>1, <1>3, <2>1 DEF FilesInv, NotYetAFile, NobodyElses
  <2>2. CASE e # c /\ x = c
    BY <1>1, <1>2, <2>2
  <2>3. CASE e # c /\ x # c
    BY <1>1, <1>2, <2>3 DEF FilesInv, NobodyElses
  <2>4. QED
    BY <2>1, <2>2, <2>3
<1>9. FilesKnown'
  <2>1. /\ \A name \in FileNames : disk.entry[name] \in Nat /\ disk.entry[name] <= asked
        /\ \A e \in Conns : conn[e].body.file \in Nat /\ conn[e].body.file <= asked
        /\ disk.number \in FileNames /\ conn[c].n <= asked
    BY FileTypes DEF FilesInv, FilesKnown, Requests, NoFile
  <2>2. f \in Nat /\ f <= asked
    BY <1>3, <1>4, <2>1 DEF FileStep, Requests, NoFile
  <2>3. \A name \in FileNames : disk'.entry[name] \in {disk.entry[name], NoFile, f}
    BY DEF FileStep, WriteStep, TakeStep
  <2>4. \A name \in FileNames : disk'.entry[name] <= asked'
    BY <1>4, <2>1, <2>2, <2>3 DEF NoFile
  <2>5. k.body.file <= asked'
    BY <1>3, <1>4, <2>2 DEF NoFile
  <2>6. QED
    BY <1>1, <1>4, <2>1, <2>4, <2>5 DEF FilesKnown
<1>10. NoFileLeft'
  <2>1. DOMAIN disk.entry = FileNames /\ DOMAIN disk'.entry = FileNames
    BY TypeParts DEF TypeInv, TypeOK, Disk, FileNames
  <2>2. ASSUME NEW name \in FileNames, disk'.entry[name] # NoFile
        PROVE  \E e \in Conns : HasName(conn'[e], name)
    <3>1. CASE HasName(k, name)
      BY <1>1, <3>1
    <3>2. CASE disk.entry[name] # NoFile /\ ~HasName(conn[c], name)
      BY <1>1, <2>1, <3>2 DEF FilesInv, NoFileLeft, HasName
    <3>3. QED
      BY <1>3, <2>2, <3>1, <3>2 DEF LeavesNone
  <2>3. ASSUME NEW n \in disk'.inputs
        PROVE  \E e \in Conns : HasInput(conn'[e], n)
    <3>1. CASE HasInput(k, n)
      BY <1>1, <3>1
    <3>2. CASE n \in disk.inputs /\ ~HasInput(conn[c], n)
      BY <1>1, <3>2 DEF FilesInv, NoFileLeft, HasInput
    <3>3. QED
      BY <1>3, <2>3, <3>1, <3>2 DEF LeavesNone
  <2>4. QED
    BY <2>1, <2>2, <2>3 DEF NoFileLeft, HasName, HasInput
<1>11. QED
  BY <1>5, <1>6, <1>7, <1>8, <1>9, <1>10 DEF FilesInv

-----------------------------------------------------------------------------
(* What is written *)

LEMMA SentFacts ==
  ASSUME NEW n \in Requests, NEW size \in Nat
  PROVE  /\ Sent(n, size) \in Seq(Part) /\ Len(Sent(n, size)) = size
         /\ \A i \in 1 .. size : Sent(n, size)[i] = <<n, i>>
<1>1. \A i \in 1 .. size : <<n, i>> \in Part
  BY DEF Part, Requests
<1>2. QED
  BY <1>1 DEF Sent

\* The part that follows makes what was sent longer.
LEMMA AppendSent ==
  ASSUME NEW n \in Requests, NEW size \in Nat
  PROVE  Append(Sent(n, size), <<n, size + 1>>) = Sent(n, size + 1)
<1> DEFINE s == Sent(n, size)
           more == Sent(n, size + 1)
           part == <<n, size + 1>>
<1>1. s \in Seq(Part) /\ Len(s) = size /\ \A i \in 1 .. size : s[i] = <<n, i>>
  BY SentFacts
<1>2. more \in Seq(Part) /\ Len(more) = size + 1 /\ \A i \in 1 .. size + 1 : more[i] = <<n, i>>
  BY SentFacts
<1>3. part \in Part
  BY DEF Part, Requests
<1>4. part = <<n, size + 1>>
  OBVIOUS
<1> HIDE DEF s, more, part
<1>5. /\ Append(s, part) \in Seq(Part) /\ Len(Append(s, part)) = size + 1
      /\ \A i \in 1 .. size : Append(s, part)[i] = s[i]
      /\ Append(s, part)[size + 1] = part
  BY <1>1, <1>3
<1>6. \A i \in 1 .. size + 1 : Append(s, part)[i] = more[i]
  <2> TAKE i \in 1 .. size + 1
  <2>1. CASE i = size + 1
    BY <1>2, <1>4, <1>5, <2>1
  <2>2. CASE i # size + 1
    <3>1. i \in 1 .. size
      BY <2>2
    <3>2. QED
      BY <1>1, <1>2, <1>5, <3>1
  <2>3. QED
    BY <2>1, <2>2
<1>7. QED
  BY <1>2, <1>5, <1>6 DEF s, more, part

\* Written at its end, a file grows by what is written.
LEMMA WrittenAtEnd ==
  ASSUME NEW old \in Seq(Part), NEW parts \in Seq(Part)
  PROVE  Written(old, Len(old), parts) = old \o parts
<1> DEFINE w == Written(old, Len(old), parts)
<1>1. /\ w \in Seq(Part) /\ Len(w) = Len(old) + Len(parts)
      /\ \A i \in 1 .. Len(w) :
           w[i] = IF i > Len(old) /\ i <= Len(old) + Len(parts) THEN parts[i - Len(old)]
                  ELSE IF i <= Len(old) THEN old[i] ELSE Hole
  <2>1. Len(old) \in Nat /\ Len(parts) \in Nat
    OBVIOUS
  <2> DEFINE m == Len(old)
  <2>2. m \in Nat /\ m = Len(old)
    BY <2>1
  <2> HIDE DEF m
  <2>3. /\ Written(old, m, parts) \in Seq(Part)
        /\ Len(Written(old, m, parts)) =
             IF Len(old) >= m + Len(parts) THEN Len(old) ELSE m + Len(parts)
        /\ \A i \in 1 .. Len(Written(old, m, parts)) :
             Written(old, m, parts)[i] =
               IF i > m /\ i <= m + Len(parts) THEN parts[i - m]
               ELSE IF i <= Len(old) THEN old[i] ELSE Hole
    BY <2>2, WrittenFacts
  <2>4. QED
    BY <2>1, <2>2, <2>3
<1> HIDE DEF w
<1> DEFINE both == old \o parts
<1>2. both \in Seq(Part) /\ Len(both) = Len(old) + Len(parts)
  OBVIOUS
<1>3. \A i \in 1 .. Len(w) : w[i] = both[i]
  BY <1>1, <1>2
<1> HIDE DEF both
<1>4. w = both
  BY <1>1, <1>2, <1>3
<1>5. QED
  BY <1>4 DEF w, both

\* The next part, written behind what was sent so far.
LEMMA WrittenSent ==
  ASSUME NEW n \in Requests, NEW at \in Nat
  PROVE  /\ Written(Sent(n, at), at, <<<<n, at + 1>>>>) = Sent(n, at + 1)
         /\ Written(<<>>, 0, Sent(n, at)) = Sent(n, at)
<1> DEFINE s == Sent(n, at)
           part == <<n, at + 1>>
<1>1. s \in Seq(Part) /\ Len(s) = at
  BY SentFacts
<1>2. part \in Part
  BY DEF Part, Requests
<1>3. Append(s, part) = Sent(n, at + 1)
  BY AppendSent
<1> HIDE DEF s, part
<1>4. <<part>> \in Seq(Part) /\ s \o <<part>> = Append(s, part)
  BY <1>1, <1>2
<1>5. Written(s, at, <<part>>) = s \o <<part>>
  BY <1>1, <1>4, WrittenAtEnd
<1>6. Written(<<>>, 0, s) = s
  <2>1. <<>> \in Seq(Part) /\ Len(<<>>) = 0 /\ <<>> \o s = s
    BY <1>1
  <2>2. QED
    BY <1>1, <2>1, WrittenAtEnd
<1>7. QED
  BY <1>3, <1>4, <1>5, <1>6 DEF s, part

\* What a body looks like that was moved to a file and written to.
SpillShape(d, r, f, n) ==
  /\ TakeStep(d, r.disk, f) /\ f \in {n, d.entry[d.number]} /\ f \in Requests
  /\ r.disk.inputs = d.inputs
  /\ r.body.inDisk /\ r.body.file = f /\ r.body.name = d.number
  /\ r.body.serial = d.created + 1 /\ r.body.late = (f # n)
  /\ (d.entry[d.number] = NoFile => f = n) /\ (d.entry[d.number] # NoFile => f = d.entry[d.number])

\* The name of a new file, and what open() does to it.
LEMMA OpenShape ==
  ASSUME NEW d \in Disk, NEW b \in Body, NEW n \in Requests, NEW o,
         o = OpenFile(TakeName(d, b), n)
  PROVE  /\ o \in Pair
         /\ \E f : /\ SpillShape(d, o, f, n) /\ o.disk.content[f] = <<>>
                   /\ o.body.at = 0 /\ o.body.memory = b.memory
<1> DEFINE t == TakeName(d, b)
           f == FileOf(t.disk, t.body, n)
<1>1. /\ t \in Pair
      /\ t.body = [b EXCEPT !.inDisk = TRUE, !.name = d.number, !.serial = d.created + 1]
      /\ t.disk = [d EXCEPT !.number = NextNumber(d.number), !.created = d.created + 1]
  BY TakeNameType
<1>2. /\ t.body \in Body /\ t.body.inDisk /\ t.body.name = d.number
      /\ t.body.serial = d.created + 1 /\ t.body.memory = b.memory
      /\ t.disk \in Disk /\ t.disk.number = NextNumber(d.number) /\ t.disk.created = d.created + 1
      /\ t.disk.entry = d.entry /\ t.disk.content = d.content /\ t.disk.inputs = d.inputs
  <2> HIDE DEF t
  <2>1. /\ t.body \in Body /\ t.body.inDisk /\ t.body.name = d.number
        /\ t.body.serial = d.created + 1 /\ t.body.memory = b.memory
    BY <1>1 DEF Pair, Body
  <2>2. /\ t.disk \in Disk /\ t.disk.number = NextNumber(d.number)
        /\ t.disk.created = d.created + 1 /\ t.disk.entry = d.entry
        /\ t.disk.content = d.content /\ t.disk.inputs = d.inputs
    BY <1>1 DEF Pair, Disk
  <2>3. QED
    BY <2>1, <2>2
<1>3. f = IF d.entry[d.number] = NoFile THEN n ELSE d.entry[d.number]
  BY <1>2 DEF FileOf
<1> HIDE DEF t
<1>4. /\ o \in Pair /\ f \in Requests
      /\ o.body = [t.body EXCEPT !.file = f, !.at = 0, !.late = f # n]
      /\ o.disk = [t.disk EXCEPT !.entry[t.body.name] = f, !.content[f] = <<>>]
  BY <1>1, OpenFileType DEF t
<1> HIDE DEF f
<1>5. /\ o.body.inDisk /\ o.body.file = f /\ o.body.name = d.number
      /\ o.body.serial = d.created + 1 /\ o.body.late = (f # n) /\ o.body.at = 0
      /\ o.body.memory = b.memory
  BY <1>2, <1>4 DEF Body
<1>6. /\ o.disk.number = NextNumber(d.number) /\ o.disk.created = d.created + 1
      /\ o.disk.inputs = d.inputs
      /\ \A g \in Requests : g # f => o.disk.content[g] = d.content[g]
      /\ o.disk.content[f] = <<>>
      /\ \A name \in FileNames :
           o.disk.entry[name] = IF name = d.number THEN f ELSE d.entry[name]
  <2> DEFINE entry == [t.disk.entry EXCEPT ![t.body.name] = f]
             content == [t.disk.content EXCEPT ![f] = <<>>]
  <2>1. o.disk = [t.disk EXCEPT !.entry = entry, !.content = content]
    BY <1>2, <1>4 DEF Disk
  <2>2. \A name \in FileNames : entry[name] = IF name = d.number THEN f ELSE d.entry[name]
    BY <1>2 DEF Disk, FileNames
  <2>3. content[f] = <<>> /\ \A g \in Requests : g # f => content[g] = d.content[g]
    BY <1>2, <1>4 DEF Disk
  <2> HIDE DEF entry, content
  <2>4. /\ o.disk.number = t.disk.number /\ o.disk.created = t.disk.created
        /\ o.disk.entry = entry /\ o.disk.content = content /\ o.disk.inputs = t.disk.inputs
    BY <1>2, <2>1 DEF Disk
  <2>5. QED
    BY <1>2, <2>2, <2>3, <2>4
<1>7. SpillShape(d, o, f, n)
  BY <1>3, <1>4, <1>5, <1>6 DEF SpillShape, TakeStep, SameContent
<1>8. QED
  BY <1>4, <1>5, <1>6, <1>7

\* What write() does to a file.
LEMMA WriteShape ==
  ASSUME NEW p \in Pair, p.body.file \in Requests, NEW parts \in Seq(Part), NEW w,
         w = WriteAll(p, parts)
  PROVE  /\ w \in Pair
         /\ w.body.memory = p.body.memory /\ w.body.inDisk = p.body.inDisk
         /\ w.body.file = p.body.file /\ w.body.name = p.body.name
         /\ w.body.serial = p.body.serial /\ w.body.late = p.body.late
         /\ w.body.at = p.body.at + Len(parts)
         /\ w.disk.entry = p.disk.entry /\ w.disk.number = p.disk.number
         /\ w.disk.created = p.disk.created /\ w.disk.inputs = p.disk.inputs
         /\ SameContent(p.disk, w.disk, p.body.file)
         /\ w.disk.content[p.body.file] =
              Written(p.disk.content[p.body.file], p.body.at, parts)
<1> DEFINE c == Written(p.disk.content[p.body.file], p.body.at, parts)
           n == p.body.at + Len(parts)
<1>1. w \in Pair /\ w.body = [p.body EXCEPT !.at = n]
      /\ w.disk = [p.disk EXCEPT !.content[p.body.file] = c]
  BY WriteAllType
<1> HIDE DEF c, n
<1>2. p.disk \in Disk /\ p.body \in Body
  BY DEF Pair
<1>3. QED
  BY <1>1, <1>2 DEF Disk, Body, SameContent, c, n

\* A new file is still new when it has been written to.
LEMMA SpillWritten ==
  ASSUME NEW d \in Disk, NEW n \in Requests, NEW f, NEW o \in Pair, SpillShape(d, o, f, n),
         NEW parts \in Seq(Part), NEW w, w = WriteAll(o, parts)
  PROVE  /\ w \in Pair /\ SpillShape(d, w, f, n)
         /\ w.body.at = o.body.at + Len(parts)
         /\ w.disk.content[f] = Written(o.disk.content[f], o.body.at, parts)
<1>1. o.body.file = f /\ f \in Requests
  BY DEF SpillShape
<1>2. /\ w \in Pair
      /\ w.body.inDisk = o.body.inDisk
      /\ w.body.file = o.body.file /\ w.body.name = o.body.name
      /\ w.body.serial = o.body.serial /\ w.body.late = o.body.late
      /\ w.body.at = o.body.at + Len(parts)
      /\ w.disk.entry = o.disk.entry /\ w.disk.number = o.disk.number
      /\ w.disk.created = o.disk.created /\ w.disk.inputs = o.disk.inputs
      /\ SameContent(o.disk, w.disk, f)
      /\ w.disk.content[f] = Written(o.disk.content[f], o.body.at, parts)
  BY <1>1, WriteShape
<1>3. TakeStep(d, w.disk, f)
  BY <1>2 DEF SpillShape, TakeStep, SameContent
<1>4. QED
  BY <1>2, <1>3 DEF SpillShape

\* What a part does to a body: it is kept in memory, written behind the last, or written
\* to a new file behind what was in memory.
MemoryShape(d, r, b, part) ==
  /\ ~b.inDisk /\ r.disk = d
  /\ ~r.body.inDisk /\ r.body.file = b.file /\ r.body.memory = Append(b.memory, part)
WrittenShape(d, r, b, part) ==
  /\ b.inDisk /\ WriteStep(d, r.disk, b.file)
  /\ r.disk.entry = d.entry /\ r.disk.inputs = d.inputs
  /\ r.disk.content[b.file] = Written(d.content[b.file], b.at, <<part>>)
  /\ r.body.inDisk /\ r.body.file = b.file /\ r.body.name = b.name
  /\ r.body.serial = b.serial /\ r.body.late = b.late /\ r.body.at = b.at + 1
MovedShape(d, r, b, part, f, n) ==
  /\ ~b.inDisk /\ SpillShape(d, r, f, n)
  /\ r.disk.content[f] = Written(Written(<<>>, 0, b.memory), Len(b.memory), <<part>>)
  /\ r.body.at = Len(b.memory) + 1

LEMMA AppendShape ==
  ASSUME NEW d \in Disk, NEW b \in Body, NEW n \in Requests, NEW part \in Part,
         b.inDisk => b.file \in Requests, NEW r, r = AppendBody(d, b, n, part)
  PROVE  \/ MemoryShape(d, r, b, part) \/ WrittenShape(d, r, b, part)
         \/ \E f : MovedShape(d, r, b, part, f, n)
<1> DEFINE parts == <<part>>
<1>1. parts \in Seq(Part) /\ Len(parts) = 1
  BY OnePart
<1>2. CASE Spills(b)
  <2> DEFINE t == TakeName(d, b)
             o == OpenFile(t, n)
             moved == WriteAll(o, o.body.memory)
             s == Spill(t, n)
             w == WriteAll(s, parts)
  <2>1. t \in Pair
    BY TakeNameType
  <2>2. PICK f : SpillShape(d, o, f, n) /\ o.disk.content[f] = <<>>
                 /\ o.body.at = 0 /\ o.body.memory = b.memory /\ o \in Pair
    BY OpenShape
  <2>3. r = w
    BY <1>2 DEF AppendBody
  <2>4. /\ s \in Pair /\ s.disk = moved.disk /\ moved \in Pair
        /\ s.body = [moved.body EXCEPT !.memory = <<>>]
    <3> HIDE DEF t
    <3> QED BY <2>1, SpillType
  <2> HIDE DEF s, o, parts
  <2>5. b.memory \in Seq(Part) /\ Len(b.memory) \in Nat
    BY DEF Body
  <2>6. /\ moved \in Pair /\ SpillShape(d, moved, f, n)
        /\ moved.body.at = 0 + Len(b.memory)
        /\ moved.disk.content[f] = Written(<<>>, 0, b.memory)
    <3> DEFINE held == o.body.memory
    <3>1. held \in Seq(Part) /\ held = b.memory
      BY <2>2, <2>5
    <3> HIDE DEF held
    <3>2. /\ moved \in Pair /\ SpillShape(d, moved, f, n)
          /\ moved.body.at = o.body.at + Len(held)
          /\ moved.disk.content[f] = Written(o.disk.content[f], o.body.at, held)
      BY <2>2, <3>1, SpillWritten DEF held
    <3>3. QED
      BY <2>2, <3>1, <3>2
  <2> HIDE DEF moved
  <2>7. /\ s.body.inDisk = moved.body.inDisk /\ s.body.file = moved.body.file
        /\ s.body.name = moved.body.name /\ s.body.serial = moved.body.serial
        /\ s.body.late = moved.body.late /\ s.body.at = moved.body.at
    <3>1. moved.body \in Body
      BY <2>6 DEF Pair
    <3>2. QED
      BY <2>4, <3>1 DEF Body
  <2>8. SpillShape(d, s, f, n) /\ s.body.at = Len(b.memory)
        /\ s.disk.content[f] = Written(<<>>, 0, b.memory)
    BY <2>4, <2>5, <2>6, <2>7 DEF SpillShape
  <2>9. w = WriteAll(s, parts) /\ s \in Pair
    BY <2>4
  <2> HIDE DEF w
  <2>10. /\ SpillShape(d, w, f, n) /\ w.body.at = s.body.at + Len(parts)
         /\ w.disk.content[f] = Written(s.disk.content[f], s.body.at, parts)
    <3>1. parts \in Seq(Part)
      BY <1>1
    <3>2. SpillShape(d, s, f, n)
      BY <2>8
    <3>3. w = WriteAll(s, parts)
      BY <2>9
    <3>4. s \in Pair
      BY <2>9
    <3>5. QED
      BY <3>1, <3>2, <3>3, <3>4, SpillWritten
  <2>11. MovedShape(d, r, b, part, f, n)
    BY <1>1, <1>2, <2>3, <2>8, <2>10 DEF MovedShape, Spills, parts
  <2>12. QED
    BY <2>11
<1>3. CASE ~Spills(b) /\ b.inDisk
  <2> DEFINE q == [disk |-> d, body |-> b]
             w == WriteAll(q, parts)
  <2>1. q \in Pair /\ q.body = b /\ q.disk = d
    BY DEF Pair
  <2>2. r = w
    BY <1>3 DEF AppendBody, Both
  <2>3. w = WriteAll(q, parts)
    OBVIOUS
  <2> HIDE DEF q, parts, w
  <2>4. /\ w.body.inDisk = b.inDisk /\ w.body.file = b.file /\ w.body.name = b.name
        /\ w.body.serial = b.serial /\ w.body.late = b.late
        /\ w.body.at = b.at + Len(parts)
        /\ w.disk.entry = d.entry /\ w.disk.number = d.number
        /\ w.disk.created = d.created /\ w.disk.inputs = d.inputs
        /\ SameContent(d, w.disk, b.file)
        /\ w.disk.content[b.file] = Written(d.content[b.file], b.at, parts)
    <3>1. parts \in Seq(Part)
      BY <1>1
    <3>2. q \in Pair /\ q.body.file \in Requests
      BY <1>3, <2>1
    <3>3. /\ w.body.inDisk = q.body.inDisk /\ w.body.file = q.body.file
          /\ w.body.name = q.body.name
          /\ w.body.serial = q.body.serial /\ w.body.late = q.body.late
          /\ w.body.at = q.body.at + Len(parts)
          /\ w.disk.entry = q.disk.entry /\ w.disk.number = q.disk.number
          /\ w.disk.created = q.disk.created /\ w.disk.inputs = q.disk.inputs
          /\ SameContent(q.disk, w.disk, q.body.file)
          /\ w.disk.content[q.body.file] =
               Written(q.disk.content[q.body.file], q.body.at, parts)
      BY <2>3, <3>1, <3>2, WriteShape
    <3>4. QED
      BY <2>1, <3>3
  <2>5. WrittenShape(d, r, b, part)
    BY <1>1, <1>3, <2>2, <2>4 DEF WrittenShape, WriteStep, parts
  <2>6. QED
    BY <2>5
<1>4. CASE ~Spills(b) /\ ~b.inDisk
  <2> DEFINE m == Append(b.memory, part)
  <2>1. r = [disk |-> d, body |-> [b EXCEPT !.memory = m]]
    BY <1>4 DEF AppendBody, Both
  <2> HIDE DEF m
  <2>2. r.disk = d /\ r.body.inDisk = b.inDisk /\ r.body.file = b.file /\ r.body.memory = m
    BY <2>1 DEF Body
  <2>3. MemoryShape(d, r, b, part)
    BY <1>4, <2>2 DEF MemoryShape, m
  <2>4. QED
    BY <2>3
<1>5. QED
  BY <1>2, <1>3, <1>4

\* What is left of a body that could not be written.
LEMMA FailShape ==
  ASSUME NEW d \in Disk, NEW b \in Body, NEW n \in Requests, NEW p \in AppendFails(d, b, n),
         b.file # NoFile => b.inDisk
  PROVE  \/ p.disk = d /\ p.body = b
         \/ \E f : /\ ~b.inDisk /\ TakeStep(d, p.disk, f) /\ p.disk.inputs = d.inputs
                   /\ f \in {NoFile, n, d.entry[d.number]} /\ f \in Requests \cup {NoFile}
                   /\ p.body.inDisk /\ p.body.file = f /\ p.body.name = d.number
                   /\ (f = NoFile => p.disk.entry = d.entry)
<1> DEFINE t == TakeName(d, b)
           o == OpenFile(t, n)
<1>1. CASE ~Spills(b)
  BY <1>1 DEF AppendFails, Both
<1>2. CASE Spills(b) /\ p = t
  <2>1. /\ t.body = [b EXCEPT !.inDisk = TRUE, !.name = d.number, !.serial = d.created + 1]
        /\ t.disk = [d EXCEPT !.number = NextNumber(d.number), !.created = d.created + 1]
    BY TakeNameType
  <2>2. b.file = NoFile /\ ~b.inDisk
    BY <1>2 DEF Spills
  <2> HIDE DEF t
  <2>3. /\ t.body.inDisk /\ t.body.file = NoFile /\ t.body.name = d.number
        /\ t.disk.number = NextNumber(d.number) /\ t.disk.created = d.created + 1
        /\ t.disk.entry = d.entry /\ t.disk.content = d.content /\ t.disk.inputs = d.inputs
    BY <2>1, <2>2 DEF Disk, Body
  <2>4. TakeStep(d, t.disk, NoFile)
    BY <2>3 DEF TakeStep, SameContent
  <2>5. QED
    BY <1>2, <2>2, <2>3, <2>4
<1>3. CASE Spills(b) /\ p = o
  <2>1. PICK f : SpillShape(d, o, f, n)
    BY OpenShape
  <2> HIDE DEF o
  <2>2. f # NoFile /\ ~b.inDisk
    BY <1>3, <2>1 DEF SpillShape, Requests, NoFile, Spills
  <2>3. QED
    BY <1>3, <2>1, <2>2 DEF SpillShape
<1>4. QED
  BY <1>1, <1>2, <1>3 DEF AppendFails

-----------------------------------------------------------------------------
(* A part is read *)

\* The connection of a request whose body is being read.
LEMMA BodyFacts ==
  ASSUME TypeInv, FilesInv, NEW c \in Conns, conn[c].phase = "body"
  PROVE  LET b == conn[c].body IN
         /\ b \in Body /\ conn[c].n \in Requests /\ conn[c].phase \in Busy
         /\ b.file # NoFile => b.inDisk
         /\ b.inDisk => /\ b.file \in Requests /\ b.at \in Nat /\ PartsRead(b) = b.at
                        /\ NumberFits(disk, b) /\ (~b.late => b.file = conn[c].n)
         /\ ~b.inDisk => /\ Fresh(conn[c]) /\ PartsRead(b) = Len(b.memory)
                         /\ b.memory = Sent(conn[c].n, Len(b.memory)) /\ Len(b.memory) \in Nat
                         /\ b.file = NoFile
<1>1. OwnOK(disk, conn[c]) /\ ConnOK(conn[c], asked)
  BY ConnParts DEF FilesInv, BodiesOK
<1>2. conn[c].body \in Body /\ conn[c].body.at \in Nat /\ Len(conn[c].body.memory) \in Nat
      /\ conn[c].phase \in Busy /\ conn[c].n \in Requests
  BY FileTypes DEF Busy, Phases
<1>3. QED
  BY <1>1, <1>2 DEF OwnOK, InFile, Fresh, Reading, PartsRead, ConnOK

\* What a connection keeps while it reads: its request, and no CGI.
ReadsOn(c, k, r) ==
  /\ conn' = [conn EXCEPT ![c] = k] /\ k \in ConnType
  /\ k.n = conn[c].n /\ k.ask = conn[c].ask /\ k.phase \in Reading
  /\ disk' = r.disk /\ k.body = r.body
  /\ k.phase = "ready" => PartsRead(conn[c].body) + 1 = k.ask.size

\* A part that is kept in memory.
LEMMA ReadToMemory ==
  ASSUME TypeInv, FilesInv, NEW c \in Conns, conn[c].phase = "body", NEW k, NEW r,
         ReadsOn(c, k, r),
         MemoryShape(disk, r, conn[c].body, <<conn[c].n, PartsRead(conn[c].body) + 1>>)
  PROVE  FileStep(c, k, NoFile)
<1> DEFINE b == conn[c].body
           n == conn[c].n
           size == Len(b.memory)
<1>1. /\ n \in Requests /\ conn[c].phase \in Busy /\ ~b.inDisk /\ b.file = NoFile
      /\ Fresh(conn[c]) /\ PartsRead(b) = size /\ b.memory = Sent(n, size) /\ size \in Nat
  BY BodyFacts DEF MemoryShape
<1>2. disk' = disk /\ ~k.body.inDisk /\ k.body.file = NoFile
      /\ k.body.memory = Append(b.memory, <<n, size + 1>>)
  BY <1>1 DEF MemoryShape, ReadsOn
<1> HIDE DEF size
<1>3. k.body.memory = Sent(n, size + 1) /\ Len(k.body.memory) = size + 1
  <2>1. size + 1 \in Nat /\ n \in Requests
    BY <1>1
  <2> HIDE DEF n
  <2>2. Append(Sent(n, size), <<n, size + 1>>) = Sent(n, size + 1)
    BY <1>1, <2>1, AppendSent
  <2>3. Len(Sent(n, size + 1)) = size + 1
    BY <2>1, SentFacts
  <2>4. QED
    BY <1>1, <1>2, <2>2, <2>3
<1>4. OwnOK(disk', k)
  BY <1>1, <1>2, <1>3 DEF OwnOK, ReadsOn, InFile, Alone, Reading, PartsRead
<1>5. WriteStep(disk, disk', NoFile)
  BY <1>2 DEF WriteStep, SameContent
<1>6. LeavesNone(c, k)
  BY <1>1, <1>2 DEF LeavesNone, HasName, HasInput
<1>7. k.phase \in Busy /\ ~Alone(disk', k)
  BY <1>2 DEF ReadsOn, Reading, Busy, Phases, Alone, InFile
<1>8. QED
  BY <1>1, <1>2, <1>4, <1>5, <1>6, <1>7 DEF FileStep, ReadsOn

\* A part that is written to the file of the body.
LEMMA ReadToFile ==
  ASSUME TypeInv, FilesInv, NEW c \in Conns, conn[c].phase = "body", NEW k, NEW r,
         ReadsOn(c, k, r),
         WrittenShape(disk, r, conn[c].body, <<conn[c].n, PartsRead(conn[c].body) + 1>>)
  PROVE  FileStep(c, k, conn[c].body.file)
<1> DEFINE b == conn[c].body
           n == conn[c].n
           at == b.at
<1>1. /\ n \in Requests /\ conn[c].phase \in Busy /\ b.inDisk /\ b.file \in Requests
      /\ at \in Nat /\ PartsRead(b) = at
      /\ NumberFits(disk, b) /\ (~b.late => b.file = n)
  BY BodyFacts DEF WrittenShape
<1>2. /\ WriteStep(disk, disk', b.file) /\ disk'.entry = disk.entry /\ disk'.inputs = disk.inputs
      /\ disk'.content[b.file] = Written(disk.content[b.file], at, <<<<n, at + 1>>>>)
      /\ k.body.inDisk /\ k.body.file = b.file /\ k.body.name = b.name
      /\ k.body.serial = b.serial /\ k.body.late = b.late /\ k.body.at = at + 1
  BY <1>1 DEF WrittenShape, ReadsOn
<1>3. disk'.created = disk.created /\ disk'.number = disk.number
  BY <1>2 DEF WriteStep
<1>4. InFile(conn[c]) /\ InFile(k)
  BY <1>1, <1>2 DEF InFile, Reading, ReadsOn
<1>5. Alone(disk', k) => Alone(disk, conn[c])
  BY <1>2, <1>3, <1>4 DEF Alone, Overtaken
<1>6. ASSUME Alone(disk', k)
      PROVE  /\ disk'.content[n] = Sent(n, at + 1)
             /\ \A name \in FileNames : disk'.entry[name] = n => name = b.name
  <2>1. b.file = n /\ disk.content[n] = Sent(n, at)
        /\ \A name \in FileNames : disk.entry[name] = n => name = b.name
    BY <1>1, <1>5, <1>6 DEF FilesInv, BodiesOK, OwnOK, Alone
  <2> HIDE DEF at, n, b
  <2>2. Written(Sent(n, at), at, <<<<n, at + 1>>>>) = Sent(n, at + 1)
    BY <1>1, WrittenSent
  <2>3. QED
    BY <1>2, <2>1, <2>2
<1>7. NumberFits(disk', k.body)
  BY <1>1, <1>2, <1>3 DEF NumberFits
<1>8. OwnOK(disk', k)
  BY <1>1, <1>2, <1>6, <1>7 DEF OwnOK, ReadsOn, InFile, Alone, Reading, PartsRead
<1>9. LeavesNone(c, k)
  BY <1>2 DEF LeavesNone, HasName, HasInput
<1>10. k.phase \in Busy /\ ~Fresh(k)
  BY <1>2 DEF ReadsOn, Reading, Busy, Phases, Fresh
<1>11. QED
  BY <1>1, <1>2, <1>5, <1>8, <1>9, <1>10 DEF FileStep, ReadsOn

\* A body that moves to a file.
LEMMA ReadToNewFile ==
  ASSUME TypeInv, FilesInv, NEW c \in Conns, conn[c].phase = "body", NEW k, NEW r, NEW f,
         ReadsOn(c, k, r),
         MovedShape(disk, r, conn[c].body, <<conn[c].n, PartsRead(conn[c].body) + 1>>, f, conn[c].n)
  PROVE  FileStep(c, k, f)
<1> DEFINE b == conn[c].body
           n == conn[c].n
           size == Len(b.memory)
<1>1. /\ n \in Requests /\ conn[c].phase \in Busy /\ ~b.inDisk /\ b.file = NoFile
      /\ Fresh(conn[c]) /\ PartsRead(b) = size /\ b.memory = Sent(n, size) /\ size \in Nat
  BY BodyFacts DEF MovedShape
<1>2. /\ TakeStep(disk, disk', f) /\ f \in {n, disk.entry[disk.number]} /\ f \in Requests
      /\ disk'.inputs = disk.inputs
      /\ k.body.inDisk /\ k.body.file = f /\ k.body.name = disk.number
      /\ k.body.serial = disk.created + 1 /\ k.body.late = (f # n)
      /\ k.body.at = size + 1
      /\ disk'.content[f] = Written(Written(<<>>, 0, b.memory), size, <<<<n, size + 1>>>>)
  BY <1>1 DEF MovedShape, SpillShape, ReadsOn
<1> HIDE DEF size
<1>3. disk'.content[f] = Sent(n, size + 1)
  BY <1>1, <1>2, WrittenSent
<1>4. \A name \in FileNames : disk'.entry[name] = n => name = disk.number
  BY <1>1, <1>2 DEF FilesInv, NotYetAFile, TakeStep
<1>5. NumberFits(disk', k.body)
  <2>1. disk.number \in Nat /\ disk.number < Names /\ disk.created \in Nat /\ Names \in Nat
    BY FileTypes DEF FileNames
  <2>2. disk'.number = NextNumber(disk.number) /\ disk'.created = disk.created + 1
    BY <1>2 DEF TakeStep
  <2>3. QED
    BY <1>2, <2>1, <2>2 DEF NumberFits, NextNumber
<1>6. OwnOK(disk', k)
  BY <1>1, <1>2, <1>3, <1>4, <1>5 DEF OwnOK, ReadsOn, InFile, Alone, Reading, PartsRead
<1>7. LeavesNone(c, k)
  BY <1>1, <1>2 DEF LeavesNone, HasName, HasInput, TakeStep
<1>8. k.phase \in Busy /\ ~Fresh(k)
  BY <1>2 DEF ReadsOn, Reading, Busy, Phases, Fresh
<1>9. QED
  BY <1>1, <1>2, <1>6, <1>7, <1>8 DEF FileStep, ReadsOn

-----------------------------------------------------------------------------
(* Every step keeps the files in order. *)

\* A connection whose body stays as it is, and so do the names.
SameBody(c, k) ==
  /\ conn' = [conn EXCEPT ![c] = k] /\ k \in ConnType
  /\ k.body = conn[c].body
  /\ disk'.number = disk.number /\ disk'.created = disk.created
  /\ disk'.content = disk.content /\ disk'.entry = disk.entry
  /\ \A n \in disk'.inputs : HasInput(k, n) \/ (n \in disk.inputs /\ ~HasInput(conn[c], n))
  /\ k.phase \in {"closed", "idle", "sent"} => conn[c].phase \in {"closed", "idle", "sent"}
  /\ k.phase \in Busy => k.n > asked \/ (k.n = conn[c].n /\ conn[c].phase \in Busy)
  /\ k.phase \in Reading =>
       k.n = conn[c].n /\ Fresh(conn[c]) /\ conn[c].body = NoBody
  /\ k.phase = "ready" => k.ask.size = 0

LEMMA SameBodyStep ==
  ASSUME TypeInv, FilesInv, NEW c \in Conns, NEW k, SameBody(c, k)
  PROVE  FileStep(c, k, conn[c].body.file)
<1>1. /\ disk.number = disk'.number /\ conn[c].body.file \in Requests \cup {NoFile}
      /\ OwnOK(disk, conn[c])
  BY FileTypes DEF FilesInv, BodiesOK, SameBody
<1>2. WriteStep(disk, disk', conn[c].body.file)
  BY DEF SameBody, WriteStep, SameContent
<1>3. k.phase \in Reading =>
        ~k.body.inDisk /\ k.body.memory = Sent(k.n, Len(k.body.memory)) /\ PartsRead(k.body) = 0
  <2> SUFFICES ASSUME k.phase \in Reading
               PROVE  /\ ~k.body.inDisk /\ k.body.memory = Sent(k.n, Len(k.body.memory))
                      /\ PartsRead(k.body) = 0
    OBVIOUS
  <2>1. k.body = NoBody
    BY DEF SameBody
  <2>2. ~k.body.inDisk /\ k.body.memory = <<>> /\ Len(<<>>) = 0
    BY <2>1 DEF NoBody
  <2>3. Sent(k.n, 0) = <<>>
    BY DEF Sent
  <2>4. QED
    BY <2>2, <2>3 DEF PartsRead
<1>4. ~Alone(disk', k) /\ ~InFile(k)
  BY <1>3 DEF Alone, InFile
<1>5. OwnOK(disk', k)
  <2>1. /\ k.body = conn[c].body
        /\ k.phase \in {"closed", "idle", "sent"} => conn[c].phase \in {"closed", "idle", "sent"}
        /\ k.phase = "ready" => k.ask.size = 0 /\ k.phase \in Reading
    BY DEF SameBody, Reading
  <2>2. /\ k.body.file # NoFile => k.body.inDisk
        /\ k.phase \in {"closed", "idle", "sent"} => k.body = NoBody
    BY <1>1, <2>1 DEF OwnOK
  <2>3. QED
    BY <1>3, <1>4, <2>1, <2>2 DEF OwnOK
<1>6. LeavesNone(c, k)
  BY DEF LeavesNone, SameBody, HasName
<1>7. Fresh(k) => disk'.entry = disk.entry /\ (k.n > asked \/ (k.n = conn[c].n /\ Fresh(conn[c])))
  BY DEF Fresh, SameBody, Reading, Busy, Phases
<1>8. QED
  BY <1>1, <1>2, <1>4, <1>5, <1>6, <1>7 DEF FileStep, SameBody

\* A connection that is done with a request, and its files.
LEMMA LeavingStep ==
  ASSUME TypeInv, FilesInv, NEW c \in Conns, NEW k \in ConnType, conn' = [conn EXCEPT ![c] = k],
         k.phase \in {"closed", "idle"}, k.body = NoBody, disk' = WithoutRequest(disk, conn[c])
  PROVE  FileStep(c, k, NoFile)
<1> DEFINE b == conn[c].body
           cleaned == Cleanup(disk, b)
<1>1. b.file # NoFile => b.inDisk
  BY DEF FilesInv, BodiesOK, OwnOK
<1>2. disk \in Disk /\ b \in Body
  BY FileTypes
<1>3. /\ cleaned.number = disk.number /\ cleaned.created = disk.created
      /\ cleaned.content = disk.content /\ cleaned.inputs = disk.inputs
      /\ \A name \in FileNames :
           cleaned.entry[name] = IF b.file # NoFile /\ b.name = name THEN NoFile
                                 ELSE disk.entry[name]
  BY <1>1, <1>2 DEF Cleanup, Disk, FileNames, Body
<1>4. /\ disk'.number = cleaned.number /\ disk'.created = cleaned.created
      /\ disk'.content = cleaned.content /\ disk'.entry = cleaned.entry
      /\ disk'.inputs = IF conn[c].phase = "cgi" THEN cleaned.inputs \ {conn[c].n}
                        ELSE cleaned.inputs
  <2>1. cleaned \in Disk
    BY <1>2 DEF Cleanup, Disk, Body, NoFile
  <2> HIDE DEF cleaned
  <2>2. disk' = IF conn[c].phase = "cgi" THEN RemoveInput(cleaned, conn[c].n) ELSE cleaned
    BY DEF WithoutRequest, cleaned
  <2>3. QED
    BY <2>1, <2>2 DEF RemoveInput, Disk
<1> HIDE DEF cleaned
<1>5. WriteStep(disk, disk', NoFile)
  BY <1>3, <1>4 DEF WriteStep, SameContent
<1>6. LeavesNone(c, k)
  BY <1>3, <1>4 DEF LeavesNone, HasName, HasInput, NoFile
<1>7. /\ k.phase \notin Reading /\ ~Fresh(k) /\ ~Alone(disk', k) /\ ~InFile(k)
      /\ k.phase \notin Busy /\ k.body.file = NoFile
  BY DEF Reading, Fresh, Alone, InFile, Busy, NoBody
<1>8. OwnOK(disk', k)
  BY <1>7 DEF OwnOK
<1>9. QED
  BY <1>5, <1>6, <1>7, <1>8 DEF FileStep

\* The connection that a step leaves.
LEMMA NextConn ==
  ASSUME TypeInv, TypeInv', NEW c \in Conns, NEW k, conn' = [conn EXCEPT ![c] = k]
  PROVE  k \in ConnType
<1>1. conn \in [Conns -> ConnType] /\ conn' \in [Conns -> ConnType]
  BY DEF TypeInv, TypeOK
<1>2. QED
  BY <1>1

\* An answer takes the files with it.
LEMMA RespondFiles ==
  ASSUME TypeInv, TypeInv', FilesInv, NEW c \in Conns, conn[c].phase # "closed", NEW r,
         Respond(c, r), asked' = asked
  PROVE  FilesInv'
<1>1. PICK k : conn' = [conn EXCEPT ![c] = k] /\ k \in {ClosedConn, ResetConn(conn[c])}
  BY DEF Respond, RemoveClient
<1>2. k \in ConnType /\ asked <= asked'
  <2>1. asked \in Nat
    BY FileTypes
  <2>2. k \in ConnType
    BY <1>1, NextConn
  <2>3. QED
    BY <2>1, <2>2
<1>3. k.phase \in {"closed", "idle"} /\ k.body = NoBody
  <2>1. ClosedConn.phase = "closed" /\ ClosedConn.body = NoBody
    BY DEF ClosedConn
  <2>2. ResetConn(conn[c]).phase = "idle" /\ ResetConn(conn[c]).body = NoBody
    BY ConnParts DEF ResetConn, ConnType
  <2>3. QED
    BY <1>1, <2>1, <2>2
<1>4. FileStep(c, k, NoFile)
  BY <1>1, <1>2, <1>3, LeavingStep DEF Respond
<1>5. QED
  BY <1>2, <1>4, FilesStep

\* Nothing happens to the files.
LEMMA OtherFiles ==
  ASSUME FilesInv, disk' = disk, conn' = conn, asked' = asked
  PROVE  FilesInv'
BY DEF FilesInv, BodiesOK, RequestsApart, NotYetAFile, NobodyElses, FilesKnown, NoFileLeft

\* A step that changes no body.
LEMMA SameBodyFiles ==
  ASSUME TypeInv, TypeInv', FilesInv, NEW c \in Conns, NEW k, SameBody(c, k), asked <= asked'
  PROVE  FilesInv'
<1> DEFINE f == conn[c].body.file
<1>1. FileStep(c, k, f)
  BY SameBodyStep
<1> HIDE DEF f
<1>2. QED
  BY <1>1, FilesStep

\* One lemma for each action: the files stay in order.
LEMMA ConnectFiles ==
  ASSUME TypeInv, TypeInv', FilesInv, NEW c \in Conns, Connect(c) PROVE FilesInv'
<1>1. PICK b : conn' = [conn EXCEPT ![c] = AddClient(c, b)]
  BY DEF Connect
<1> DEFINE k == AddClient(c, b)
<1>2. k \in ConnType /\ conn[c] \in ConnType
  BY <1>1, NextConn, ConnParts
<1>3. k.phase = "idle" /\ k.body = conn[c].body /\ conn[c].phase = "closed" /\ disk' = disk
      /\ asked' = asked
  BY <1>2 DEF AddClient, ConnType, Connect
<1> HIDE DEF k
<1>4. SameBody(c, k)
  BY <1>1, <1>2, <1>3 DEF SameBody, HasInput, Busy, Reading, k
<1>5. QED
  BY <1>3, <1>4, SameBodyFiles, FileTypes

LEMMA SendFiles ==
  ASSUME TypeInv, TypeInv', FilesInv, NEW c \in Conns, Send(c) PROVE FilesInv'
<1>1. PICK a :
        conn' = [conn EXCEPT ![c].phase = "sent", ![c].n = asked + 1, ![c].ask = a,
                             ![c].presented = jar[conn[c].owner]]
  BY DEF Send
<1> DEFINE m == asked + 1
           p == jar[conn[c].owner]
           k == [conn[c] EXCEPT !.phase = "sent", !.n = m, !.ask = a, !.presented = p]
<1>2. conn' = [conn EXCEPT ![c] = k] /\ conn[c] \in ConnType
  BY <1>1, ConnParts, TypeParts DEF ConnsOK
<1>3. k \in ConnType
  BY <1>2, NextConn
<1>4. k.phase = "sent" /\ k.body = conn[c].body /\ k.n = m
  BY <1>2 DEF ConnType
<1>5. conn[c].phase = "idle" /\ disk' = disk /\ m > asked /\ asked <= asked'
  BY FileTypes DEF Send
<1> HIDE DEF k, m, p
<1>6. SameBody(c, k)
  BY <1>2, <1>3, <1>4, <1>5 DEF SameBody, HasInput, Reading
<1>7. QED
  BY <1>5, <1>6, SameBodyFiles

LEMMA ReadHeadFiles ==
  ASSUME TypeInv, TypeInv', FilesInv, NEW c \in Conns, ReadHead(c) PROVE FilesInv'
<1>1. /\ conn[c].phase = "sent" /\ disk' = disk /\ asked' = asked /\ asked \in Nat
      /\ conn[c] \in ConnType
  BY FileTypes, ConnParts DEF ReadHead
<1>2. \E k : /\ conn' = [conn EXCEPT ![c] = k]
             /\ k.body = conn[c].body /\ k.n = conn[c].n /\ k.phase \in Reading
             /\ k.phase = "ready" => k.ask.size = 0
  <2>1. CASE conn[c].ask.size = 0
    <3> DEFINE r == [conn[c] EXCEPT !.phase = "ready"]
    <3>1. SetSession(c, r)
      BY <2>1 DEF ReadHead
    <3>2. r \in ConnType /\ r.body = conn[c].body /\ r.n = conn[c].n /\ r.ask = conn[c].ask
          /\ r.phase = "ready"
      BY <1>1 DEF ConnType, Phases
    <3> HIDE DEF r
    <3>3. \E e : /\ conn' = [conn EXCEPT ![c] = e]
                 /\ e.phase = r.phase /\ e.n = r.n /\ e.ask = r.ask /\ e.body = r.body
      BY <3>1, <3>2, SetSessionFacts
    <3>4. QED
      BY <2>1, <3>2, <3>3 DEF Reading
  <2>2. CASE conn[c].ask.size # 0
    <3> DEFINE r == [conn[c] EXCEPT !.phase = "body"]
    <3>1. conn' = [conn EXCEPT ![c] = r]
      BY <2>2, TypeParts DEF ReadHead, ConnsOK
    <3>2. r.body = conn[c].body /\ r.n = conn[c].n /\ r.phase = "body"
      BY <1>1 DEF ConnType
    <3> HIDE DEF r
    <3>3. QED
      BY <3>1, <3>2 DEF Reading
  <2>3. QED
    BY <2>1, <2>2
<1>3. PICK k : /\ conn' = [conn EXCEPT ![c] = k]
               /\ k.body = conn[c].body /\ k.n = conn[c].n /\ k.phase \in Reading
               /\ k.phase = "ready" => k.ask.size = 0
  BY <1>2
<1>4. k \in ConnType
  BY <1>3, NextConn
<1>5. Fresh(conn[c]) /\ conn[c].body = NoBody /\ conn[c].phase \in Busy
  BY <1>1 DEF Fresh, FilesInv, BodiesOK, OwnOK, Busy, Phases
<1>6. SameBody(c, k)
  BY <1>1, <1>3, <1>4, <1>5 DEF SameBody, HasInput, Reading
<1>7. QED
  BY <1>1, <1>6, SameBodyFiles

LEMMA ReadBodyFiles ==
  ASSUME TypeInv, TypeInv', FilesInv, NEW c \in Conns, ReadBody(c) PROVE FilesInv'
<1> DEFINE b == conn[c].body
           n == conn[c].n
           part == <<n, PartsRead(b) + 1>>
           r == AppendBody(disk, b, n, part)
<1>1. /\ conn[c].phase = "body" /\ asked' = asked /\ asked \in Nat /\ conn[c] \in ConnType
      /\ disk \in Disk /\ b \in Body /\ n \in Requests /\ (b.inDisk => b.file \in Requests)
  BY FileTypes, ConnParts, BodyFacts DEF ReadBody
<1>2. part \in Part
  <2>1. PartsRead(b) + 1 \in Nat
    BY <1>1 DEF PartsRead, Body
  <2>2. QED
    BY <1>1, <2>1 DEF Part, Requests
<1>3. disk' = r.disk
  BY DEF ReadBody
<1>4. \/ PartsRead(b) + 1 = conn[c].ask.size
         /\ SetSession(c, [conn[c] EXCEPT !.phase = "ready", !.body = r.body])
      \/ conn' = [conn EXCEPT ![c] = [conn[c] EXCEPT !.body = r.body]]
  BY TypeParts DEF ReadBody, ConnsOK
<1>5. r \in Pair
  <2> HIDE DEF part
  <2> QED BY <1>1, <1>2, AppendBodyType
<1>6. r = AppendBody(disk, b, n, part)
  OBVIOUS
<1> HIDE DEF r
<1>7. \E k : /\ conn' = [conn EXCEPT ![c] = k]
             /\ k.body = r.body /\ k.n = n /\ k.ask = conn[c].ask /\ k.phase \in Reading
             /\ k.phase = "ready" => PartsRead(b) + 1 = conn[c].ask.size
  <2> DEFINE body == r.body
  <2>1. body \in Body
    BY <1>5 DEF Pair
  <2>2. CASE /\ PartsRead(b) + 1 = conn[c].ask.size
             /\ SetSession(c, [conn[c] EXCEPT !.phase = "ready", !.body = body])
    <3> HIDE DEF body
    <3> DEFINE s == [conn[c] EXCEPT !.phase = "ready", !.body = body]
    <3>1. s \in ConnType /\ s.body = body /\ s.n = n /\ s.ask = conn[c].ask /\ s.phase = "ready"
      BY <1>1, <2>1 DEF ConnType, Phases
    <3>2. SetSession(c, s)
      BY <2>2
    <3> HIDE DEF s
    <3>3. \E e : /\ conn' = [conn EXCEPT ![c] = e]
                 /\ e.phase = s.phase /\ e.n = s.n /\ e.ask = s.ask /\ e.body = s.body
      BY <3>1, <3>2, SetSessionFacts
    <3>4. QED
      BY <2>2, <3>1, <3>3 DEF Reading, body
  <2>3. CASE conn' = [conn EXCEPT ![c] = [conn[c] EXCEPT !.body = body]]
    <3> HIDE DEF body
    <3> DEFINE s == [conn[c] EXCEPT !.body = body]
    <3>1. s.body = body /\ s.n = n /\ s.ask = conn[c].ask /\ s.phase = "body"
      BY <1>1 DEF ConnType
    <3>2. conn' = [conn EXCEPT ![c] = s]
      BY <2>3
    <3> HIDE DEF s
    <3>3. QED
      BY <3>1, <3>2 DEF Reading, body
  <2>4. QED
    BY <1>4, <2>2, <2>3
<1>8. PICK k : /\ conn' = [conn EXCEPT ![c] = k]
               /\ k.body = r.body /\ k.n = n /\ k.ask = conn[c].ask /\ k.phase \in Reading
               /\ k.phase = "ready" => PartsRead(b) + 1 = conn[c].ask.size
  BY <1>7
<1>9. ReadsOn(c, k, r)
  <2>1. k \in ConnType
    BY <1>8, NextConn
  <2>2. QED
    BY <1>3, <1>8, <2>1 DEF ReadsOn
<1>10. \/ MemoryShape(disk, r, b, part) \/ WrittenShape(disk, r, b, part)
       \/ \E f : MovedShape(disk, r, b, part, f, n)
  <2> HIDE DEF part
  <2> QED BY <1>1, <1>2, <1>6, AppendShape
<1>11. \E f : FileStep(c, k, f)
  <2>1. CASE MemoryShape(disk, r, b, part)
    BY <1>1, <1>9, <2>1, ReadToMemory
  <2>2. CASE WrittenShape(disk, r, b, part)
    BY <1>1, <1>9, <2>2, ReadToFile
  <2>3. CASE \E f : MovedShape(disk, r, b, part, f, n)
    BY <1>1, <1>9, <2>3, ReadToNewFile
  <2>4. QED
    BY <1>10, <2>1, <2>2, <2>3
<1>12. QED
  BY <1>1, <1>11, FilesStep

LEMMA ReadBodyFailsFiles ==
  ASSUME TypeInv, TypeInv', FilesInv, NEW c \in Conns, ReadBodyFails(c) PROVE FilesInv'
<1> DEFINE b == conn[c].body
           n == conn[c].n
<1>1. /\ conn[c].phase = "body" /\ asked' = asked /\ asked \in Nat /\ conn[c] \in ConnType
      /\ disk \in Disk /\ b \in Body /\ n \in Requests /\ conn[c].phase \in Busy
      /\ (b.file # NoFile => b.inDisk) /\ b.file \in Requests \cup {NoFile}
  BY FileTypes, ConnParts, BodyFacts DEF ReadBodyFails
<1>2. PICK p \in AppendFails(disk, b, n) :
        /\ disk' = p.disk
        /\ SetSession(c, [conn[c] EXCEPT !.phase = "refused", !.body = p.body])
  BY DEF ReadBodyFails
<1>3. p.body \in Body
  BY <1>1, AppendFailsType DEF Pair
<1>4. PICK k : /\ conn' = [conn EXCEPT ![c] = k]
               /\ k.body = p.body /\ k.n = n /\ k.phase = "refused"
  <2> DEFINE body == p.body
             s == [conn[c] EXCEPT !.phase = "refused", !.body = body]
  <2>1. SetSession(c, s)
    BY <1>2
  <2> HIDE DEF body
  <2>2. s \in ConnType /\ s.body = body /\ s.n = n /\ s.phase = "refused"
    BY <1>1, <1>3 DEF ConnType, Phases, body
  <2> HIDE DEF s
  <2>3. \E e : /\ conn' = [conn EXCEPT ![c] = e]
               /\ e.phase = s.phase /\ e.n = s.n /\ e.body = s.body
    BY <2>1, <2>2, SetSessionFacts
  <2>4. QED
    BY <2>2, <2>3 DEF body
<1>5. k \in ConnType
  BY <1>4, NextConn
<1>6. /\ k.phase \in Busy /\ ~Fresh(k) /\ ~InFile(k) /\ ~Alone(disk', k) /\ k.phase \notin Reading
      /\ ~HasInput(conn[c], n)
  BY <1>1, <1>4 DEF Busy, Phases, Fresh, InFile, Alone, Reading, HasInput
<1>7. \E f : FileStep(c, k, f)
  <2>1. CASE p.disk = disk /\ p.body = b
    <3>1. OwnOK(disk', k)
      BY <1>1, <1>4, <1>6, <2>1 DEF OwnOK
    <3>2. WriteStep(disk, disk', b.file)
      BY <1>2, <2>1 DEF WriteStep, SameContent
    <3>3. LeavesNone(c, k)
      BY <1>1, <1>2, <1>4, <2>1 DEF LeavesNone, HasName, HasInput
    <3>4. FileStep(c, k, b.file)
      BY <1>1, <1>4, <1>5, <1>6, <2>1, <3>1, <3>2, <3>3 DEF FileStep
    <3>5. QED
      BY <3>4
  <2>2. CASE \E f : /\ ~b.inDisk /\ TakeStep(disk, p.disk, f) /\ p.disk.inputs = disk.inputs
                    /\ f \in {NoFile, n, disk.entry[disk.number]}
                    /\ f \in Requests \cup {NoFile}
                    /\ p.body.inDisk /\ p.body.file = f /\ p.body.name = disk.number
                    /\ (f = NoFile => p.disk.entry = disk.entry)
    <3>1. PICK f : /\ ~b.inDisk /\ TakeStep(disk, disk', f) /\ disk'.inputs = disk.inputs
                   /\ f \in {NoFile, n, disk.entry[disk.number]}
                   /\ f \in Requests \cup {NoFile}
                   /\ k.body.inDisk /\ k.body.file = f /\ k.body.name = disk.number
                   /\ (f = NoFile => disk'.entry = disk.entry)
      BY <1>2, <1>4, <2>2
    <3>2. OwnOK(disk', k)
      BY <1>4, <1>6, <3>1 DEF OwnOK
    <3>3. LeavesNone(c, k)
      BY <1>1, <3>1 DEF LeavesNone, HasName, HasInput, TakeStep
    <3>4. FileStep(c, k, f)
      BY <1>1, <1>4, <1>5, <1>6, <3>1, <3>2, <3>3 DEF FileStep
    <3>5. QED
      BY <3>4
  <2>3. QED
    BY <1>1, <2>1, <2>2, FailShape
<1>8. QED
  BY <1>1, <1>7, FilesStep

LEMMA ReportErrorFiles ==
  ASSUME TypeInv, TypeInv', FilesInv, NEW c \in Conns, ReportError(c) PROVE FilesInv'
<1> DEFINE r == Reply(c, "whole", ErrorAnswer(dep.site, 500, conn[c].ask.request.range))
<1>1. conn[c].phase # "closed" /\ Respond(c, r) /\ asked' = asked
  BY DEF ReportError
<1> HIDE DEF r
<1>2. QED
  BY <1>1, RespondFiles

\* A request that is routed and answered.
LEMMA AnsweredFiles ==
  ASSUME TypeInv, TypeInv', FilesInv, NEW c \in Conns, NEW deed, Routes(c, deed), NEW verdict,
         Respond(c, RoutedReply(c, "whole", verdict))
  PROVE  FilesInv'
<1> DEFINE r == RoutedReply(c, "whole", verdict)
<1>1. conn[c].phase # "closed" /\ asked' = asked /\ Respond(c, r)
  BY DEF Routes
<1> HIDE DEF r
<1>2. QED
  BY <1>1, RespondFiles

LEMMA LaunchFiles ==
  ASSUME TypeInv, TypeInv', FilesInv, NEW c \in Conns, Launch(c) PROVE FilesInv'
<1>1. Routes(c, "run")
  BY DEF Launch
<1>2. CASE RouterFails(c)
  BY <1>1, <1>2, AnsweredFiles DEF RouterFails
<1>3. CASE /\ disk' = CreateInput(disk, conn[c].n)
           /\ conn' = [conn EXCEPT ![c].phase = "cgi", ![c].cgi = "running"]
  <2> DEFINE k == [conn[c] EXCEPT !.phase = "cgi", !.cgi = "running"]
  <2>1. conn' = [conn EXCEPT ![c] = k] /\ conn[c] \in ConnType /\ asked' = asked
    BY <1>1, <1>3, ConnParts, TypeParts DEF ConnsOK, Routes
  <2>2. k \in ConnType
    BY <2>1, NextConn
  <2>3. k.phase = "cgi" /\ k.n = conn[c].n /\ k.body = conn[c].body
    BY <2>1 DEF ConnType
  <2>4. conn[c].phase = "ready"
    BY <1>1 DEF Routes
  <2>5. /\ disk'.number = disk.number /\ disk'.created = disk.created
        /\ disk'.content = disk.content /\ disk'.entry = disk.entry
        /\ disk'.inputs = disk.inputs \cup {conn[c].n}
    BY <1>3, TypeParts DEF CreateInput, Disk
  <2> HIDE DEF k
  <2>6. SameBody(c, k)
    BY <2>1, <2>2, <2>3, <2>4, <2>5 DEF SameBody, HasInput, Reading, Busy, Phases
  <2>7. QED
    BY <2>1, <2>6, SameBodyFiles, FileTypes
<1>4. QED
  BY <1>2, <1>3 DEF Launch

\* A CGI goes on, or its headers are relayed.
LEMMA SameRequestFiles ==
  ASSUME TypeInv, TypeInv', FilesInv, NEW c \in Conns, NEW k, conn' = [conn EXCEPT ![c] = k],
         disk' = disk, asked' = asked, conn[c].phase = "cgi",
         k.phase = "cgi", k.n = conn[c].n, k.body = conn[c].body
  PROVE  FilesInv'
<1>1. k \in ConnType
  BY NextConn
<1>2. SameBody(c, k)
  BY <1>1 DEF SameBody, HasInput, Reading, Busy, Phases
<1>3. QED
  BY <1>2, SameBodyFiles, FileTypes

LEMMA CgiWritesFiles ==
  ASSUME TypeInv, TypeInv', FilesInv, NEW c \in Conns, CgiWrites(c) PROVE FilesInv'
<1> DEFINE k == [conn[c] EXCEPT !.wrote = TRUE]
<1>1. conn' = [conn EXCEPT ![c] = k] /\ conn[c] \in ConnType /\ conn[c].phase = "cgi"
      /\ disk' = disk /\ asked' = asked
  BY TypeParts, ConnParts DEF CgiWrites, ConnsOK
<1>2. k.phase = "cgi" /\ k.n = conn[c].n /\ k.body = conn[c].body
  BY <1>1 DEF ConnType
<1> HIDE DEF k
<1>3. QED
  BY <1>1, <1>2, SameRequestFiles

LEMMA CgiExitsFiles ==
  ASSUME TypeInv, TypeInv', FilesInv, NEW c \in Conns, CgiExits(c) PROVE FilesInv'
<1>1. PICK end : conn' = [conn EXCEPT ![c].cgi = end]
  BY DEF CgiExits
<1> DEFINE k == [conn[c] EXCEPT !.cgi = end]
<1>2. conn' = [conn EXCEPT ![c] = k] /\ conn[c] \in ConnType /\ conn[c].phase = "cgi"
      /\ disk' = disk /\ asked' = asked
  BY <1>1, TypeParts, ConnParts DEF CgiExits, ConnsOK
<1>3. k.phase = "cgi" /\ k.n = conn[c].n /\ k.body = conn[c].body
  BY <1>2 DEF ConnType
<1> HIDE DEF k
<1>4. QED
  BY <1>2, <1>3, SameRequestFiles

LEMMA RelayHeadFiles ==
  ASSUME TypeInv, TypeInv', FilesInv, NEW c \in Conns, RelayHead(c) PROVE FilesInv'
<1> DEFINE k == [conn[c] EXCEPT !.streamed = TRUE]
<1>1. conn' = [conn EXCEPT ![c] = k] /\ conn[c] \in ConnType /\ conn[c].phase = "cgi"
      /\ disk' = disk /\ asked' = asked
  BY TypeParts, ConnParts DEF RelayHead, ConnsOK
<1>2. k.phase = "cgi" /\ k.n = conn[c].n /\ k.body = conn[c].body
  BY <1>1 DEF ConnType
<1> HIDE DEF k
<1>3. QED
  BY <1>1, <1>2, SameRequestFiles

LEMMA FailCgiFiles ==
  ASSUME TypeInv, TypeInv', FilesInv, NEW c \in Conns, FailCgi(c) PROVE FilesInv'
<1>1. conn[c].phase = "cgi" /\ conn[c] \in ConnType /\ asked' = asked
  BY ConnParts DEF FailCgi
<1>2. CASE conn[c].streamed
  <2> DEFINE k == [conn[c] EXCEPT !.phase = "stuck", !.cgi = "none"]
  <2>1. conn' = [conn EXCEPT ![c] = k] /\ disk' = RemoveInput(disk, conn[c].n)
    BY <1>2, TypeParts DEF FailCgi, ConnsOK
  <2>2. k \in ConnType
    BY <2>1, NextConn
  <2>3. k.phase = "stuck" /\ k.n = conn[c].n /\ k.body = conn[c].body
    BY <1>1 DEF ConnType
  <2>4. /\ disk'.number = disk.number /\ disk'.created = disk.created
        /\ disk'.content = disk.content /\ disk'.entry = disk.entry
        /\ disk'.inputs = disk.inputs \ {conn[c].n}
    BY <2>1, TypeParts DEF RemoveInput, Disk
  <2> HIDE DEF k
  <2>5. SameBody(c, k)
    BY <1>1, <2>1, <2>2, <2>3, <2>4 DEF SameBody, HasInput, Reading, Busy, Phases
  <2>6. QED
    BY <1>1, <2>5, SameBodyFiles, FileTypes
<1>3. CASE ~conn[c].streamed
  <2> DEFINE r == RoutedReply(c, "whole",
                    ErrorAnswer(dep.site, 500, conn[c].ask.request.range))
  <2>1. Respond(c, r)
    BY <1>3 DEF FailCgi
  <2> HIDE DEF r
  <2>2. QED
    BY <1>1, <2>1, RespondFiles
<1>4. QED
  BY <1>2, <1>3

\* A connection that is closed or idle afterwards takes its files with it.
LEMMA LeavingFiles ==
  ASSUME TypeInv, TypeInv', FilesInv, NEW c \in Conns, NEW k, conn' = [conn EXCEPT ![c] = k],
         k.phase \in {"closed", "idle"}, k.body = NoBody, disk' = WithoutRequest(disk, conn[c]),
         asked' = asked
  PROVE  FilesInv'
<1>1. k \in ConnType
  BY NextConn
<1>2. asked <= asked'
  BY FileTypes
<1>3. FileStep(c, k, NoFile)
  BY <1>1, LeavingStep
<1>4. QED
  BY <1>2, <1>3, FilesStep

LEMMA FinishCgiFiles ==
  ASSUME TypeInv, TypeInv', FilesInv, NEW c \in Conns, FinishCgi(c) PROVE FilesInv'
<1> DEFINE sid == IF NamesUser(c) THEN ApplyAuth(sessions, conn[c].sid).id ELSE conn[c].sid
           kept == [ResetConn(conn[c]) EXCEPT !.sid = sid]
<1>1. PICK k : conn' = [conn EXCEPT ![c] = k] /\ k \in {ClosedConn, kept}
  BY FinishCgiShape
<1> HIDE DEF sid
<1>2. kept.phase = "idle" /\ kept.body = NoBody
  BY ConnParts DEF ResetConn, ConnType
<1>3. ClosedConn.phase = "closed" /\ ClosedConn.body = NoBody
  BY DEF ClosedConn
<1>4. asked' = asked /\ disk' = WithoutRequest(disk, conn[c])
  BY DEF FinishCgi
<1> HIDE DEF kept
<1>5. QED
  BY <1>1, <1>2, <1>3, <1>4, LeavingFiles

LEMMA DropFiles ==
  ASSUME TypeInv, TypeInv', FilesInv, NEW c \in Conns, Drop(c) PROVE FilesInv'
<1>1. ClosedConn.phase = "closed" /\ ClosedConn.body = NoBody
  BY DEF ClosedConn
<1>2. conn' = [conn EXCEPT ![c] = ClosedConn] /\ asked' = asked
      /\ disk' = WithoutRequest(disk, conn[c])
  BY DEF Drop, RemoveClient
<1>3. QED
  BY <1>1, <1>2, LeavingFiles

\* The server stops: every connection is closed, and every file goes with its own.
LEMMA ShutDownFiles ==
  ASSUME TypeInv, FilesInv, ShutDown, asked' = asked
  PROVE  FilesInv'
<1> DEFINE clients == {c \in Conns : conn[c].phase # "closed"}
           named == {conn[c].body.name : c \in {k \in clients : conn[k].body.file # NoFile}}
           inputs == {conn[c].n : c \in {k \in clients : conn[k].phase = "cgi"}}
<1>1. conn' = [c \in Conns |-> ClosedConn]
  BY DEF ShutDown
<1>2. /\ disk'.inputs = disk.inputs \ inputs
      /\ DOMAIN disk.entry = FileNames /\ DOMAIN disk'.entry = FileNames
      /\ \A name \in FileNames :
           disk'.entry[name] = IF name \in named THEN NoFile ELSE disk.entry[name]
  <2> HIDE DEF clients, named, inputs
  <2>1. disk' = [disk EXCEPT
           !.entry = [k \in DOMAIN disk.entry |-> IF k \in named THEN NoFile ELSE disk.entry[k]],
           !.inputs = disk.inputs \ inputs]
    BY TypeParts DEF ShutDown, Disk, clients, named, inputs
  <2>2. disk \in Disk
    BY TypeParts
  <2>3. QED
    BY <2>1, <2>2 DEF Disk, FileNames
<1>3. \A c \in Conns : conn[c].body.file # NoFile => conn[c].phase # "closed"
  <2>1. \A c \in Conns : conn[c].phase = "closed" => conn[c].body = NoBody
    BY DEF FilesInv, BodiesOK, OwnOK
  <2>2. QED
    BY <2>1 DEF NoBody
<1>4. \A name \in FileNames : disk'.entry[name] = NoFile
  <2> SUFFICES ASSUME NEW name \in FileNames, name \notin named PROVE disk.entry[name] = NoFile
    BY <1>2
  <2>1. disk.entry[name] # NoFile =>
          \E c \in Conns : conn[c].body.file # NoFile /\ conn[c].body.name = name
    BY <1>2 DEF FilesInv, NoFileLeft
  <2>2. QED
    BY <1>3, <2>1
<1>5. disk'.inputs = {}
  <2> SUFFICES ASSUME NEW n \in disk.inputs PROVE n \in inputs
    BY <1>2
  <2>1. PICK c \in Conns : conn[c].phase = "cgi" /\ conn[c].n = n
    BY DEF FilesInv, NoFileLeft
  <2>2. QED
    BY <2>1
<1> HIDE DEF clients, named, inputs
<1>6. ClosedConn.phase = "closed" /\ ClosedConn.body = NoBody
  BY DEF ClosedConn
<1>7. NoBody.file = NoFile /\ ~NoBody.inDisk
  BY DEF NoBody
<1>8. OwnOK(disk', ClosedConn) /\ ~Fresh(ClosedConn) /\ ~Alone(disk', ClosedConn)
      /\ ClosedConn.phase \notin Busy
  BY <1>6, <1>7 DEF OwnOK, Fresh, Alone, InFile, Reading, Busy
<1>9. BodiesOK' /\ RequestsApart' /\ NotYetAFile' /\ NobodyElses'
  BY <1>1, <1>8 DEF BodiesOK, RequestsApart, NotYetAFile, NobodyElses
<1>10. FilesKnown'
  <2>1. NoFile <= asked'
    BY FileTypes DEF NoFile
  <2>2. QED
    BY <1>1, <1>4, <1>6, <1>7, <2>1 DEF FilesKnown
<1>11. NoFileLeft'
  BY <1>2, <1>4, <1>5 DEF NoFileLeft
<1>12. QED
  BY <1>9, <1>10, <1>11 DEF FilesInv

\* The invariant holds at the start, and every step keeps it.
LEMMA FilesInit == Init => FilesInv
<1> SUFFICES ASSUME Init PROVE FilesInv
  OBVIOUS
<1>1. conn = [c \in Conns |-> ClosedConn] /\ asked = 0 /\ disk = EmptyDisk
  BY DEF Init
<1>2. /\ disk.inputs = {} /\ DOMAIN disk.entry = FileNames
      /\ \A name \in FileNames : disk.entry[name] = NoFile
  BY <1>1 DEF EmptyDisk, FileNames
<1>3. ClosedConn.phase = "closed" /\ ClosedConn.body = NoBody
  BY DEF ClosedConn
<1>4. NoBody.file = NoFile /\ ~NoBody.inDisk
  BY DEF NoBody
<1>5. OwnOK(disk, ClosedConn) /\ ~Fresh(ClosedConn) /\ ~Alone(disk, ClosedConn)
      /\ ClosedConn.phase \notin Busy
  BY <1>3, <1>4 DEF OwnOK, Fresh, Alone, InFile, Reading, Busy
<1>6. BodiesOK /\ RequestsApart /\ NotYetAFile /\ NobodyElses
  BY <1>1, <1>5 DEF BodiesOK, RequestsApart, NotYetAFile, NobodyElses
<1>7. FilesKnown
  BY <1>1, <1>2, <1>3, <1>4 DEF FilesKnown, NoFile
<1>8. NoFileLeft
  BY <1>2 DEF NoFileLeft
<1>9. QED
  BY <1>6, <1>7, <1>8 DEF FilesInv

LEMMA FilesNext == TypeInv /\ FilesInv /\ [Next]_vars => FilesInv'
<1> SUFFICES ASSUME TypeInv, FilesInv, [Next]_vars PROVE FilesInv'
  OBVIOUS
<1>1. TypeInv'
  BY TypeNext
<1>2. ASSUME NEW c \in Conns, Handle(c) PROVE FilesInv'
  <2>1. CASE AnswerPage(c)
    BY <1>1, <2>1, AnsweredFiles DEF AnswerPage
  <2>2. CASE Upload(c)
    BY <1>1, <2>2, AnsweredFiles DEF Upload, RouterFails
  <2>3. CASE DeleteFile(c)
    BY <1>1, <2>3, AnsweredFiles DEF DeleteFile, RouterFails
  <2>4. CASE Throw(c)
    BY <1>1, <2>4, ShutDownFiles DEF Throw, Routes
  <2>5. QED
    BY <1>1, <1>2, <2>1, <2>2, <2>3, <2>4, ReadHeadFiles, ReadBodyFiles, ReadBodyFailsFiles,
       ReportErrorFiles, LaunchFiles, RelayHeadFiles, FinishCgiFiles, FailCgiFiles, DropFiles
       DEF Handle
<1>3. ASSUME NEW c \in Conns, Environment(c) PROVE FilesInv'
  BY <1>1, <1>3, ConnectFiles, SendFiles, CgiWritesFiles, CgiExitsFiles DEF Environment
<1>4. ASSUME NEW a \in replies, Receive(a) PROVE FilesInv'
  BY <1>4, OtherFiles DEF Receive, server
<1>5. ASSUME NEW s \in DOMAIN sessions, Expire(s) PROVE FilesInv'
  BY <1>5, OtherFiles DEF Expire
<1>6. CASE Stop
  BY <1>6, ShutDownFiles DEF Stop
<1>7. CASE UNCHANGED vars
  BY <1>7, OtherFiles DEF vars, server
<1>8. QED
  BY <1>2, <1>3, <1>4, <1>5, <1>6, <1>7 DEF Next

\* Every temporary file is that of a request at hand, and none is left when the server
\* has stopped: after an answer, a dropped connection, a failed CGI and an exception,
\* cleanup() and ~Cgi have removed what createTempFile and prepareCgiInputFile made.
THEOREM NoFileStays == Spec => []NoFileLeft
<1>1. TypeInv /\ FilesInv => NoFileLeft
  BY DEF FilesInv
<1>2. QED
  BY <1>1, TypeInit, TypeNext, FilesInit, FilesNext, PTL DEF Spec

-----------------------------------------------------------------------------
(* Bodies that are handed on *)

\* A complete body is what was sent, unless its file was shared.
LEMMA CompleteBody ==
  ASSUME TypeInv, FilesInv, NEW c \in Conns, conn[c].phase = "ready", ~Delivery(c).shared
  PROVE  Delivery(c).data = Sent(Delivery(c).n, Delivery(c).size)
<1> DEFINE k == conn[c]
<1>1. OwnOK(disk, k) /\ k.phase \in Reading
  BY DEF FilesInv, BodiesOK, Reading
<1>2. PartsRead(k.body) = k.ask.size
  BY <1>1 DEF OwnOK
<1>3. /\ Delivery(c).n = k.n /\ Delivery(c).size = k.ask.size
      /\ Delivery(c).data = WholeBody(disk, k.body)
      /\ ~k.body.late /\ ~(k.body.inDisk /\ Overtaken(disk, k.body))
  BY DEF Delivery
<1> HIDE DEF k
<1>4. CASE k.body.inDisk
  <2>1. Alone(disk, k) /\ InFile(k)
    BY <1>1, <1>3, <1>4 DEF Alone, InFile
  <2>2. disk.content[k.n] = Sent(k.n, k.body.at) /\ k.body.file = k.n
    BY <1>1, <1>3, <2>1 DEF OwnOK
  <2>3. QED
    BY <1>2, <1>3, <1>4, <2>2 DEF WholeBody, PartsRead
<1>5. CASE ~k.body.inDisk
  BY <1>1, <1>2, <1>3, <1>5 DEF OwnOK, WholeBody, PartsRead
<1>6. QED
  BY <1>4, <1>5

\* Only an upload and a CGI are handed a body, and it is the one of their request.
LEMMA DeliveredStep ==
  ASSUME TypeInv, [Next]_vars
  PROVE  \/ delivered' = delivered
         \/ \E c \in Conns : /\ conn[c].phase = "ready"
                             /\ delivered' = delivered \cup {Delivery(c)}
<1>1. ASSUME NEW c \in Conns, Handle(c)
      PROVE  \/ delivered' = delivered
             \/ conn[c].phase = "ready" /\ delivered' = delivered \cup {Delivery(c)}
  BY <1>1 DEF Handle, ReadHead, ReadBody, ReadBodyFails, ReportError, AnswerPage, Upload,
       DeleteFile, Launch, Throw, RelayHead, FinishCgi, FailCgi, Drop, Routes, RouterFails
<1>2. ASSUME NEW c \in Conns, Environment(c) PROVE delivered' = delivered
  BY <1>2 DEF Environment, Connect, Send, CgiWrites, CgiExits
<1>3. QED
  BY <1>1, <1>2 DEF Next, Receive, Expire, Stop, vars

\* An upload or a CGI is handed every part of the body that was sent, in order, whatever
\* other requests wrote, opened and removed in between, unless its file was shared:
\* appendBody and createTempFile count names up and open them with O_TRUNC.
THEOREM DeliveredAsSent == Spec => []DeliveredIsSent
<1>1. Init => DeliveredIsSent
  BY DEF Init, DeliveredIsSent
<1>2. TypeInv /\ FilesInv /\ DeliveredIsSent /\ [Next]_vars => DeliveredIsSent'
  <2> SUFFICES ASSUME TypeInv, FilesInv, DeliveredIsSent, [Next]_vars PROVE DeliveredIsSent'
    OBVIOUS
  <2>1. CASE delivered' = delivered
    BY <2>1 DEF DeliveredIsSent
  <2>2. ASSUME NEW c \in Conns, conn[c].phase = "ready", delivered' = delivered \cup {Delivery(c)}
        PROVE  DeliveredIsSent'
    <3> DEFINE d == Delivery(c)
    <3>1. ~d.shared => d.data = Sent(d.n, d.size)
      BY <2>2, CompleteBody
    <3>2. delivered' = delivered \cup {d}
      BY <2>2
    <3> HIDE DEF d
    <3>3. QED
      BY <3>1, <3>2 DEF DeliveredIsSent
  <2>3. QED
    BY <2>1, <2>2, DeliveredStep
<1>3. QED
  BY <1>1, <1>2, TypeInit, TypeNext, FilesInit, FilesNext, PTL DEF Spec

-----------------------------------------------------------------------------
(* Where a text occurs *)

(* text has part at k. *)
HasAt(part, text, k) == \A i \in 1 .. Len(part) : text[k + i - 1] = part[i]

\* Places and IsPrefix, element by element.
LEMMA PlacesAre ==
  \A part, text \in Text : \A k :
    k \in Places(part, text) <=> k \in 1 .. Len(text) - Len(part) + 1 /\ HasAt(part, text, k)
<1> SUFFICES ASSUME NEW part \in Text, NEW text \in Text,
                    NEW k \in 1 .. Len(text) - Len(part) + 1
             PROVE  SubSeq(text, k, k + Len(part) - 1) = part <=> HasAt(part, text, k)
  BY DEF Places
<1> DEFINE s == SubSeq(text, k, k + Len(part) - 1)
<1>1. Len(part) \in Nat /\ Len(text) \in Nat
  BY DEF Text
<1>2. k + Len(part) - 1 <= Len(text) /\ k + Len(part) - 1 >= k - 1
  BY <1>1
<1>3. s \in Text /\ Len(s) = Len(part) /\ \A i \in 1 .. Len(part) : s[i] = text[k + i - 1]
  BY <1>1, <1>2 DEF Text
<1> HIDE DEF s
<1>4. ASSUME HasAt(part, text, k) PROVE s = part
  <2>1. \A i \in 1 .. Len(s) : s[i] = part[i]
    BY <1>3, <1>4 DEF HasAt
  <2>2. QED
    BY <1>3, <2>1, SeqEqual DEF Text
<1>5. QED
  BY <1>3, <1>4 DEF HasAt, s

LEMMA PrefixIs ==
  \A part, text \in Text :
    IsPrefix(part, text) <=> Len(part) <= Len(text) /\ HasAt(part, text, 1)
<1> SUFFICES ASSUME NEW part \in Text, NEW text \in Text, Len(part) <= Len(text)
             PROVE  SubSeq(part, 1, Len(part)) = SubSeq(text, 1, Len(part))
                      <=> HasAt(part, text, 1)
  BY DEF IsPrefix
<1>1. Len(part) \in Nat /\ Len(text) \in Nat
  BY DEF Text
<1> DEFINE p == SubSeq(part, 1, Len(part))
           s == SubSeq(text, 1, Len(part))
<1>2. /\ p \in Text /\ Len(p) = Len(part) /\ \A i \in 1 .. Len(part) : p[i] = part[i]
      /\ s \in Text /\ Len(s) = Len(part) /\ \A i \in 1 .. Len(part) : s[i] = text[i]
  BY <1>1 DEF Text
<1> HIDE DEF p, s
<1>3. HasAt(part, text, 1) <=> \A i \in 1 .. Len(part) : text[i] = part[i]
  BY <1>1 DEF HasAt
<1>4. ASSUME HasAt(part, text, 1) PROVE p = s
  <2>1. \A i \in 1 .. Len(p) : p[i] = s[i]
    BY <1>2, <1>3, <1>4
  <2>2. QED
    BY <1>2, <2>1, SeqEqual DEF Text
<1>5. p = s => HasAt(part, text, 1)
  BY <1>2, <1>3
<1>6. QED
  BY <1>4, <1>5 DEF p, s

\* What a text begins with occurs in it.
LEMMA PrefixOccurs ==
  \A part, text \in Text : IsPrefix(part, text) => Occurs(part, text)
<1> SUFFICES ASSUME NEW part \in Text, NEW text \in Text, IsPrefix(part, text)
             PROVE  Occurs(part, text)
  OBVIOUS
<1>1. Len(part) <= Len(text) /\ HasAt(part, text, 1)
  BY PrefixIs
<1>2. 1 \in 1 .. Len(text) - Len(part) + 1
  BY <1>1 DEF Text
<1>3. 1 \in Places(part, text)
  BY <1>1, <1>2, PlacesAre
<1>4. QED
  BY <1>3 DEF Occurs

\* What occurs in the beginning of a text occurs in the text.
LEMMA OccursFurther ==
  \A part, text, more \in Text :
    IsPrefix(text, more) /\ Occurs(part, text) => Occurs(part, more)
<1> SUFFICES ASSUME NEW part \in Text, NEW text \in Text, NEW more \in Text,
                    IsPrefix(text, more), Occurs(part, text)
             PROVE  Occurs(part, more)
  OBVIOUS
<1>1. PICK k : k \in Places(part, text)
  BY DEF Occurs
<1>2. k \in 1 .. Len(text) - Len(part) + 1 /\ HasAt(part, text, k)
  BY <1>1, PlacesAre
<1>3. Len(text) <= Len(more) /\ HasAt(text, more, 1)
  BY PrefixIs
<1>4. Len(part) \in Nat /\ Len(text) \in Nat /\ Len(more) \in Nat
  BY DEF Text
<1>5. k \in 1 .. Len(more) - Len(part) + 1
  BY <1>2, <1>3, <1>4
<1>6. ASSUME NEW i \in 1 .. Len(part) PROVE more[k + i - 1] = part[i]
  <2>1. k + i - 1 \in 1 .. Len(text) /\ 1 + (k + i - 1) - 1 = k + i - 1
    BY <1>2, <1>4
  <2>2. more[k + i - 1] = text[k + i - 1]
    BY <1>3, <2>1 DEF HasAt
  <2>3. QED
    BY <1>2, <2>2 DEF HasAt
<1>7. k \in Places(part, more)
  BY <1>5, <1>6, PlacesAre DEF HasAt
<1>8. QED
  BY <1>7 DEF Occurs

\* Two beginnings of one text that are as long are the same.
LEMMA SamePrefix ==
  \A p, q, text \in Text :
    IsPrefix(p, text) /\ IsPrefix(q, text) /\ Len(p) = Len(q) => p = q
<1> SUFFICES ASSUME NEW p \in Text, NEW q \in Text, NEW text \in Text,
                    IsPrefix(p, text), IsPrefix(q, text), Len(p) = Len(q)
             PROVE  p = q
  OBVIOUS
<1>1. HasAt(p, text, 1) /\ HasAt(q, text, 1)
  BY PrefixIs
<1>2. \A i \in 1 .. Len(p) : p[i] = q[i]
  BY <1>1 DEF HasAt
<1>3. QED
  BY <1>2, SeqEqual DEF Text

\* A part of a text up to some place is a beginning of it.
LEMMA UptoIs ==
  \A text \in Text : \A k \in 0 .. Len(text) :
    /\ Upto(text, k) \in Text /\ IsPrefix(Upto(text, k), text) /\ Len(Upto(text, k)) = k
<1> SUFFICES ASSUME NEW text \in Text, NEW k \in 0 .. Len(text)
             PROVE  /\ Upto(text, k) \in Text /\ IsPrefix(Upto(text, k), text)
                    /\ Len(Upto(text, k)) = k
  OBVIOUS
<1> DEFINE s == SubSeq(text, 1, k)
<1>1. s \in Text /\ Len(s) = k /\ \A i \in 1 .. k : s[i] = text[i]
  BY DEF Text
<1>2. Upto(text, k) = s
  BY DEF Upto
<1> HIDE DEF s
<1>3. HasAt(s, text, 1) /\ Len(s) <= Len(text)
  BY <1>1 DEF HasAt, Text
<1>4. IsPrefix(s, text)
  BY <1>1, <1>3, PrefixIs
<1>5. QED
  BY <1>1, <1>2, <1>4

LEMMA PrefixTransitive ==
  \A s, t, u \in Text : IsPrefix(s, t) /\ IsPrefix(t, u) => IsPrefix(s, u)
<1> SUFFICES ASSUME NEW s \in Text, NEW t \in Text, NEW u \in Text,
                    IsPrefix(s, t), IsPrefix(t, u)
             PROVE  IsPrefix(s, u)
  OBVIOUS
<1>1. Len(s) <= Len(t) /\ HasAt(s, t, 1) /\ Len(t) <= Len(u) /\ HasAt(t, u, 1)
  BY PrefixIs
<1>2. Len(s) \in Nat /\ Len(t) \in Nat /\ Len(u) \in Nat
  BY DEF Text
<1>3. ASSUME NEW i \in 1 .. Len(s) PROVE u[1 + i - 1] = s[i]
  <2>1. i \in 1 .. Len(t) /\ 1 + i - 1 = i
    BY <1>1, <1>2
  <2>2. QED
    BY <1>1, <2>1 DEF HasAt
<1>4. HasAt(s, u, 1)
  BY <1>3 DEF HasAt
<1>5. QED
  BY <1>1, <1>2, <1>4, PrefixIs

LEMMA PrefixOfItself == \A s \in Text : IsPrefix(s, s)
BY DEF IsPrefix, Text

-----------------------------------------------------------------------------
(* The path of a request *)

\* The places of a text in another are numbers.
LEMMA FirstPlace ==
  \A text \in Text : \A part : Len(part) \in Nat /\ Occurs(part, text) =>
    Min(Places(part, text)) \in 1 .. Len(text) - Len(part) + 1
<1> SUFFICES ASSUME NEW text \in Text, NEW part, Len(part) \in Nat, Occurs(part, text)
             PROVE  Min(Places(part, text)) \in 1 .. Len(text) - Len(part) + 1
  OBVIOUS
<1>1. Places(part, text) \subseteq 1 .. Len(text) - Len(part) + 1 /\ Places(part, text) # {}
  BY DEF Places, Occurs
<1>2. Places(part, text) \in SUBSET Nat
  BY <1>1 DEF Text
<1>3. QED
  BY <1>1, <1>2, LeastExists

LEMMA WithoutQueryIs ==
  \A uri \in Text : WithoutQuery(uri) \in Text /\ IsPrefix(WithoutQuery(uri), uri)
<1> SUFFICES ASSUME NEW uri \in Text
             PROVE  WithoutQuery(uri) \in Text /\ IsPrefix(WithoutQuery(uri), uri)
  OBVIOUS
<1>1. CASE ~Occurs(<<"?">>, uri)
  BY <1>1, PrefixOfItself DEF WithoutQuery
<1>2. CASE Occurs(<<"?">>, uri)
  <2> DEFINE m == Min(Places(<<"?">>, uri))
  <2>1. Len(<<"?">>) = 1 /\ Len(uri) \in Nat
    BY DEF Text
  <2>2. m \in 1 .. Len(uri) - Len(<<"?">>) + 1
    BY <1>2, <2>1, FirstPlace
  <2>3. WithoutQuery(uri) = Upto(uri, m - 1)
    BY <1>2 DEF WithoutQuery
  <2> HIDE DEF m
  <2>4. m - 1 \in 0 .. Len(uri)
    BY <2>1, <2>2
  <2>5. QED
    BY <2>3, <2>4, UptoIs
<1>3. QED
  BY <1>1, <1>2

\* The CGI extensions of a site are texts.
LEMMA ExtensionsTyped == \A site \in Site : CgiExtensions(site) \in Seq(Text)
<1> SUFFICES ASSUME NEW site \in Site PROVE CgiExtensions(site) \in Seq(Text)
  OBVIOUS
<1> DEFINE d == site.directories
           e == [i \in DOMAIN d |-> d[i].cgiExtension]
<1>1. d \in Seq(Place)
  BY DEF Site
<1> HIDE DEF d
<1>2. Len(d) \in Nat /\ DOMAIN d = 1 .. Len(d)
  BY <1>1
<1>3. \A i \in 1 .. Len(d) : d[i].cgiExtension \in Seq(Text)
  <2> SUFFICES ASSUME NEW i \in 1 .. Len(d) PROVE d[i].cgiExtension \in Seq(Text)
    OBVIOUS
  <2>1. d[i] \in Place
    BY <1>1, ElementOfSeq
  <2>2. QED
    BY <2>1 DEF Place
<1>4. e \in [1 .. Len(d) -> Seq(Text)]
  BY <1>2, <1>3
<1> HIDE DEF e
<1>5. e \in Seq(Seq(Text))
  BY <1>2, <1>4
<1>6. FlattenSeq(e) \in Seq(Text)
  BY <1>5, FlattenTyped
<1>7. QED
  BY <1>6 DEF CgiExtensions, e, d

LEMMA WithoutPathInfoIs ==
  \A site \in Site : \A path \in Text :
    WithoutPathInfo(path, site) \in Text /\ IsPrefix(WithoutPathInfo(path, site), path)
<1> SUFFICES ASSUME NEW site \in Site, NEW path \in Text
             PROVE  /\ WithoutPathInfo(path, site) \in Text
                    /\ IsPrefix(WithoutPathInfo(path, site), path)
  OBVIOUS
<1> DEFINE all == CgiExtensions(site)
           cuts == {k \in DOMAIN all : EndsPart(path, all[k])}
           w == WithoutPathInfo(path, site)
<1>1. w = IF cuts = {} THEN path ELSE Upto(path, EndBehind(path, all[Min(cuts)]))
  BY DEF WithoutPathInfo
<1>2. all \in Seq(Text)
  BY ExtensionsTyped
<1> HIDE DEF all, w
<1>3. CASE cuts = {}
  BY <1>1, <1>3, PrefixOfItself DEF w
<1>4. CASE cuts # {}
  <2>1. cuts \in SUBSET Nat
    BY <1>2
  <2>2. Min(cuts) \in cuts
    BY <1>4, <2>1, LeastExists
  <2> DEFINE x == all[Min(cuts)]
  <2>3. Min(cuts) \in DOMAIN all /\ EndsPart(path, x)
    BY <2>2
  <2>4. x \in Text
    BY <1>2, <2>3
  <2>5. w = Upto(path, EndBehind(path, x))
    BY <1>1, <1>4
  <2> HIDE DEF x, cuts
  <2>6. Occurs(x, path)
    BY <2>3 DEF EndsPart
  <2>7. Min(Places(x, path)) \in 1 .. Len(path) - Len(x) + 1
    BY <2>4, <2>6, FirstPlace DEF Text
  <2>8. EndBehind(path, x) \in 0 .. Len(path)
    <3> DEFINE m == Min(Places(x, path))
    <3>1. EndBehind(path, x) = m + Len(x) - 1
      BY DEF EndBehind
    <3>2. Len(path) \in Nat /\ Len(x) \in Nat
      BY <2>4 DEF Text
    <3> HIDE DEF m
    <3>3. m \in 1 .. Len(path) - Len(x) + 1
      BY <2>7 DEF m
    <3>4. QED
      BY <3>1, <3>2, <3>3
  <2>9. QED
    BY <2>5, <2>8, UptoIs DEF w
<1>5. QED
  BY <1>3, <1>4

\* What parsePath leaves of a URI is a beginning of it.
LEMMA PathIs ==
  \A site \in Site : \A uri \in Text :
    PathOf(uri, site) \in Text /\ IsPrefix(PathOf(uri, site), uri)
<1> SUFFICES ASSUME NEW site \in Site, NEW uri \in Text
             PROVE  PathOf(uri, site) \in Text /\ IsPrefix(PathOf(uri, site), uri)
  OBVIOUS
<1> DEFINE q == WithoutQuery(uri)
           p == WithoutPathInfo(q, site)
<1>1. q \in Text /\ IsPrefix(q, uri)
  BY WithoutQueryIs
<1>2. p \in Text /\ IsPrefix(p, q)
  BY <1>1, WithoutPathInfoIs
<1>3. PathOf(uri, site) = p
  BY DEF PathOf
<1> HIDE DEF p, q
<1>4. QED
  BY <1>1, <1>2, <1>3, PrefixTransitive

-----------------------------------------------------------------------------
(* The location of a request *)

\* What a deployment promises of its site and its requests, and what is asked of it.
SitePlain(site) ==
  /\ site \in Site
  /\ \A k \in DOMAIN site.directories : site.directories[k].extension = <<>>
  /\ \A k \in DOMAIN site.files : site.files[k].path = <<>>
SiteOK(site) ==
  /\ SitePlain(site)
  /\ \E k \in DOMAIN site.directories : site.directories[k].path = <<"/">>
  /\ \A k \in DOMAIN site.directories :
       \A e \in DOMAIN site.directories[k].cgiExtension :
         site.directories[k].cgiExtension[e] # <<>>
UriOK(uri) == uri \in Text /\ uri # <<>> /\ Head(uri) = "/"

\* No CGI extension is empty.  (A ";" on its own is taken for one by getCgi, and is then
\* found at the beginning of every path, of which parsePath leaves nothing.)
ExtensionsAreNamed ==
  \A i \in DOMAIN Deployments : \A k \in DOMAIN Deployments[i].site.directories :
    LET extension == Deployments[i].site.directories[k].cgiExtension
    IN  \A e \in DOMAIN extension : extension[e] # <<>>

LEMMA SitesAreOK ==
  ASSUME run \in DOMAIN Deployments, ExtensionsAreNamed
  PROVE  SiteOK(dep.site) /\ \A a \in dep.asks : UriOK(a.request.uri)
<1>1. /\ SiteOK(dep.site) /\ dep.asks \subseteq Ask
      /\ \A a \in dep.asks : a.request.uri # <<>> /\ Head(a.request.uri) = "/"
  BY DeploymentsAssumption, DepFacts DEF SiteOK, SitePlain, ExtensionsAreNamed, dep
<1>2. \A a \in Ask : a.request.uri \in Text
  BY DEF Ask, Request
<1>3. QED
  BY <1>1, <1>2 DEF UriOK

\* The locations are the directories and then the files.
LEMMA LocationsOf ==
  ASSUME NEW site, SitePlain(site)
  PROVE  /\ site.directories \in Seq(Place) /\ Locations(site) \in Seq(Place)
         /\ DOMAIN site.directories \subseteq DOMAIN Locations(site)
         /\ \A i \in DOMAIN site.directories : Locations(site)[i] = site.directories[i]
         /\ \A i \in DOMAIN Locations(site) \ DOMAIN site.directories :
              /\ Locations(site)[i].path = <<>>
              /\ \E j \in DOMAIN site.files : Locations(site)[i] = site.files[j]
<1> DEFINE d == site.directories
           f == site.files
           l == d \o f
<1>1. d \in Seq(Place) /\ f \in Seq(Place)
  BY DEF SitePlain, Site
<1>2. \A j \in DOMAIN f : f[j].path = <<>>
  BY DEF SitePlain
<1>3. Locations(site) = l
  BY DEF Locations
<1> HIDE DEF d, f
<1>4. /\ l \in Seq(Place) /\ Len(l) = Len(d) + Len(f) /\ Len(d) \in Nat /\ Len(f) \in Nat
      /\ \A i \in 1 .. Len(d) : l[i] = d[i]
      /\ \A j \in 1 .. Len(f) : l[Len(d) + j] = f[j]
  BY <1>1, Joined
<1> HIDE DEF l
<1>5. DOMAIN l = 1 .. Len(d) + Len(f) /\ DOMAIN d = 1 .. Len(d) /\ DOMAIN f = 1 .. Len(f)
  BY <1>1, <1>4
<1>6. ASSUME NEW i \in DOMAIN l \ DOMAIN d
      PROVE  l[i].path = <<>> /\ \E j \in DOMAIN f : l[i] = f[j]
  <2>1. i - Len(d) \in 1 .. Len(f) /\ Len(d) + (i - Len(d)) = i
    BY <1>4, <1>5, <1>6
  <2>2. l[i] = f[i - Len(d)] /\ i - Len(d) \in DOMAIN f
    BY <1>4, <1>5, <2>1
  <2>3. QED
    BY <1>2, <2>2
<1>7. DOMAIN d \subseteq DOMAIN l
  BY <1>4, <1>5
<1>8. QED
  BY <1>1, <1>3, <1>4, <1>5, <1>6, <1>7 DEF d, f

LEMMA LocationsAre ==
  ASSUME NEW site, SiteOK(site)
  PROVE  /\ site.directories \in Seq(Place) /\ Locations(site) \in Seq(Place)
         /\ DOMAIN site.directories \subseteq DOMAIN Locations(site)
         /\ \A i \in DOMAIN site.directories : Locations(site)[i] = site.directories[i]
         /\ \A i \in DOMAIN Locations(site) \ DOMAIN site.directories :
              /\ Locations(site)[i].path = <<>>
              /\ \E j \in DOMAIN site.files : Locations(site)[i] = site.files[j]
  BY LocationsOf DEF SiteOK

\* A set of numbers that are no greater than some number has a greatest one.
LEMMA GreatestExists ==
  ASSUME NEW b \in Nat, NEW T \in SUBSET (0 .. b), T # {}
  PROVE  Max(T) \in T /\ \A y \in T : y <= Max(T)
<1> DEFINE U == {b - y : y \in T}
<1>0. \A y \in T : y \in 0 .. b /\ b - y \in Nat
  OBVIOUS
<1>1. U \in SUBSET Nat /\ U # {}
  <2>1. \A u \in U : u \in Nat
    BY <1>0
  <2>2. PICK y : y \in T
    OBVIOUS
  <2>3. b - y \in U
    BY <2>2
  <2>4. QED
    BY <2>1, <2>3
<1>2. Min(U) \in U /\ \A y \in U : Min(U) <= y
  BY <1>1, LeastExists
<1>3. PICK x \in T : Min(U) = b - x
  BY <1>2
<1>4. ASSUME NEW y \in T PROVE x >= y
  <2>1. b - y \in U
    OBVIOUS
  <2>2. b - x <= b - y
    BY <1>2, <1>3, <2>1
  <2>3. QED
    BY <1>0, <2>2
<1>5. QED
  BY <1>0, <1>3, <1>4 DEF Max

\* The extension of a path is a text.
LEMMA ExtensionIs == \A path \in Text : GetExtension(path) = <<>> \/ GetExtension(path) \in Text
<1> SUFFICES ASSUME NEW path \in Text, GetExtension(path) # <<>>
             PROVE  GetExtension(path) \in Text
  OBVIOUS
<1> DEFINE I == {i \in 1 .. Len(path) : path[i] = "."}
           dot == LastOf(".", path)
<1>1. dot = IF I # {} THEN Max(I) ELSE 0
  BY DEF LastOf, SelectLastInSeq
<1>2. dot # 0 /\ GetExtension(path) = From(path, dot + 1)
  BY DEF GetExtension
<1>3. Len(path) \in Nat
  BY DEF Text
<1>4. dot \in I
  <2>1. I \in SUBSET (0 .. Len(path)) /\ I # {}
    BY <1>1, <1>2, <1>3
  <2>2. QED
    BY <1>1, <1>3, <2>1, GreatestExists
<1>5. dot \in Nat
  BY <1>4, <1>3
<1> HIDE DEF dot
<1>6. SubSeq(path, dot + 1, Len(path)) \in Seq(STRING)
  BY <1>3, <1>5 DEF Text
<1>7. QED
  BY <1>2, <1>6 DEF From, Text

\* A location that has no extension matches by none.
LEMMA NoneOfThese ==
  \A e \in Text : e # <<>> => ~Occurs(e, <<>>)
<1> SUFFICES ASSUME NEW e \in Text, e # <<>> PROVE Places(e, <<>>) = {}
  BY DEF Occurs
<1>1. Len(e) \in Nat /\ Len(e) # 0
  BY DEF Text
<1>2. 1 .. Len(<<>>) - Len(e) + 1 = {}
  BY <1>1
<1>3. QED
  BY <1>2 DEF Places

\* The longest of the locations that match is one of them.
LongestOf(path, places) ==
  LET found == {i \in DOMAIN places : places[i].path # <<>> /\ Occurs(places[i].path, path)}
  IN  {i \in found : \A j \in found : Len(places[j].path) <= Len(places[i].path)}

LEMMA MatchIs ==
  ASSUME NEW path \in Text, NEW places \in Seq(Place),
         NEW k \in DOMAIN places, places[k].path # <<>>, Occurs(places[k].path, path)
  PROVE  /\ LongestMatch(path, places) \in LongestOf(path, places)
         /\ \A i \in LongestOf(path, places) : LongestMatch(path, places) <= i
<1> DEFINE found == {i \in DOMAIN places : places[i].path # <<>> /\ Occurs(places[i].path, path)}
           longest == LongestOf(path, places)
<1>1. longest = {i \in found : \A j \in found : Len(places[j].path) <= Len(places[i].path)}
  BY DEF LongestOf
<1>2. LongestMatch(path, places) = IF found = {} THEN 0 ELSE Min(longest)
  BY <1>1 DEF LongestMatch
<1>3. \A i \in DOMAIN places : places[i].path \in Text /\ Len(places[i].path) \in Nat
  <2> SUFFICES ASSUME NEW i \in DOMAIN places
               PROVE  places[i].path \in Text /\ Len(places[i].path) \in Nat
    OBVIOUS
  <2>1. places[i] \in Place
    OBVIOUS
  <2>2. places[i].path \in Text
    BY <2>1 DEF Place
  <2>3. QED
    BY <2>2 DEF Text
<1>4. Len(path) \in Nat
  BY DEF Text
<1>5. ASSUME NEW i \in found PROVE Len(places[i].path) <= Len(path)
  <2>1. Places(places[i].path, path) # {}
    BY DEF Occurs
  <2>2. PICK n : n \in 1 .. (Len(path) - Len(places[i].path) + 1)
    BY <2>1 DEF Places
  <2>3. i \in DOMAIN places
    OBVIOUS
  <2>4. Len(places[i].path) \in Nat
    BY <1>3, <2>3
  <2>5. QED
    BY <1>4, <2>2, <2>4
<1>6. k \in found
  OBVIOUS
<1>7. \E i \in found : \A j \in found : Len(places[j].path) <= Len(places[i].path)
  <2> DEFINE T == {Len(places[i].path) : i \in found}
  <2>1. T \in SUBSET (0 .. Len(path))
    BY <1>3, <1>4, <1>5
  <2>2. Len(places[k].path) \in T
    BY <1>6
  <2>3. Max(T) \in T /\ \A y \in T : y <= Max(T)
    BY <1>4, <2>1, <2>2, GreatestExists
  <2>4. PICK i \in found : Max(T) = Len(places[i].path)
    BY <2>3
  <2>5. \A j \in found : Len(places[j].path) <= Max(T)
    BY <2>3
  <2>6. QED
    BY <2>4, <2>5
<1> HIDE DEF found
<1>8. longest # {}
  BY <1>1, <1>7
<1>9. longest \in SUBSET Nat
  <2>1. found \subseteq DOMAIN places
    BY DEF found
  <2>2. QED
    BY <1>1, <2>1
<1> HIDE DEF longest
<1>10. Min(longest) \in longest /\ \A i \in longest : Min(longest) <= i
  BY <1>8, <1>9, LeastExists
<1>11. found # {}
  BY <1>6
<1>12. QED
  BY <1>2, <1>10, <1>11 DEF longest

\* The CGI extensions of a site that is in order are not empty.
LEMMA ExtensionsNonEmpty ==
  ASSUME NEW site, SiteOK(site)
  PROVE  CgiExtensions(site) \in Seq(Text \ {<<>>})
<1> DEFINE d == site.directories
           e == [i \in DOMAIN d |-> d[i].cgiExtension]
           T == Text \ {<<>>}
<1>1. d \in Seq(Place) /\ Len(d) \in Nat /\ DOMAIN d = 1 .. Len(d)
  BY LocationsAre
<1>2. \A i \in DOMAIN d : \A k \in DOMAIN d[i].cgiExtension : d[i].cgiExtension[k] # <<>>
  BY DEF SiteOK, SitePlain
<1> HIDE DEF d
<1>3. ASSUME NEW i \in DOMAIN d PROVE d[i].cgiExtension \in Seq(T)
  <2> DEFINE c == d[i].cgiExtension
  <2>1. d[i] \in Place
    BY <1>1, ElementOfSeq
  <2>2. c \in Seq(Text) /\ \A k \in DOMAIN c : c[k] # <<>>
    BY <1>2, <2>1 DEF Place
  <2> HIDE DEF c
  <2>3. Len(c) \in Nat /\ DOMAIN c = 1 .. Len(c) /\ \A k \in 1 .. Len(c) : c[k] \in T
    BY <2>2
  <2>4. c = [k \in 1 .. Len(c) |-> c[k]]
    BY <2>2
  <2>5. c \in Seq(T)
    BY <2>3, <2>4
  <2>6. QED
    BY <2>5 DEF c
<1> HIDE DEF T
<1>4. e \in [1 .. Len(d) -> Seq(T)]
  BY <1>1, <1>3
<1> HIDE DEF e
<1>5. e \in Seq(Seq(T))
  BY <1>1, <1>4
<1>6. FlattenSeq(e) \in Seq(T)
  BY <1>5, FlattenTyped
<1>7. QED
  BY <1>6 DEF CgiExtensions, e, d, T

\* The path of a request begins with "/" as its URI does.
LEMMA PathBegins ==
  ASSUME NEW site, SiteOK(site), NEW uri, UriOK(uri)
  PROVE  UriOK(PathOf(uri, site))
<1> DEFINE q == WithoutQuery(uri)
           p == WithoutPathInfo(q, site)
<1>1. uri \in Text /\ Len(uri) \in Nat /\ Len(uri) >= 1 /\ uri[1] = "/"
  BY DEF UriOK, Text
<1>2. q \in Text /\ Len(q) >= 1 /\ q[1] = "/"
  <2>1. CASE ~Occurs(<<"?">>, uri)
    BY <1>1, <2>1 DEF WithoutQuery
  <2>2. CASE Occurs(<<"?">>, uri)
    <3> DEFINE all == Places(<<"?">>, uri)
               m == Min(all)
    <3>1. q = Upto(uri, m - 1)
      BY <2>2 DEF WithoutQuery
    <3>2. all \subseteq 1 .. Len(uri) /\ all # {} /\ 1 \notin all
      <4>1. Len(<<"?">>) = 1 /\ <<"?">>[1] = "?" /\ Len(uri) - 1 + 1 = Len(uri)
        BY <1>1
      <4>2. all \subseteq 1 .. Len(uri) /\ all # {}
        BY <2>2, <4>1 DEF Places, Occurs
      <4>3. SubSeq(uri, 1, 1 + 1 - 1)[1] = uri[1]
        BY <1>1 DEF Text
      <4>4. 1 \notin all
        BY <1>1, <4>1, <4>3 DEF Places
      <4>5. QED
        BY <4>2, <4>4
    <3> HIDE DEF all
    <3>3. m \in all
      <4>1. all \in SUBSET Nat
        BY <1>1, <3>2
      <4>2. QED
        BY <3>2, <4>1, LeastExists
    <3> HIDE DEF m
    <3>4. m \in 1 .. Len(uri) /\ m # 1
      BY <3>2, <3>3
    <3>5. m - 1 \in 1 .. Len(uri)
      BY <1>1, <3>4
    <3>6. SubSeq(uri, 1, m - 1)[1] = uri[1] /\ Len(SubSeq(uri, 1, m - 1)) = m - 1
      BY <1>1, <3>5 DEF Text
    <3>7. q \in Text
      BY <1>1, WithoutQueryIs
    <3> HIDE DEF q
    <3>8. QED
      BY <1>1, <3>1, <3>5, <3>6, <3>7 DEF Upto
  <2>3. QED
    BY <2>1, <2>2
<1> HIDE DEF q
<1>3. site \in Site
  BY DEF SiteOK, SitePlain
<1>4. p \in Text /\ Len(p) >= 1 /\ p[1] = "/"
  <2> DEFINE all == CgiExtensions(site)
             cuts == {k \in DOMAIN all : EndsPart(q, all[k])}
  <2>1. p = IF cuts = {} THEN q ELSE Upto(q, EndBehind(q, all[Min(cuts)]))
    BY DEF WithoutPathInfo
  <2>2. all \in Seq(Text \ {<<>>})
    BY ExtensionsNonEmpty
  <2> HIDE DEF all
  <2>3. CASE cuts = {}
    BY <1>2, <2>1, <2>3
  <2>4. CASE cuts # {}
    <3>1. cuts \in SUBSET Nat
      BY <2>2
    <3>2. Min(cuts) \in cuts
      BY <2>4, <3>1, LeastExists
    <3> DEFINE x == all[Min(cuts)]
    <3>3. x \in Text /\ x # <<>> /\ EndsPart(q, x)
      BY <2>2, <3>2
    <3>4. p = Upto(q, EndBehind(q, x))
      BY <2>1, <2>4
    <3> HIDE DEF x, cuts
    <3>5. Len(x) \in Nat /\ Len(x) >= 1 /\ Len(q) \in Nat /\ Occurs(x, q)
      BY <1>2, <3>3 DEF Text, EndsPart
    <3>6. EndBehind(q, x) \in 1 .. Len(q)
      <4> DEFINE m == Min(Places(x, q))
      <4>1. m \in 1 .. Len(q) - Len(x) + 1
        BY <1>2, <3>5, FirstPlace
      <4>2. EndBehind(q, x) = m + Len(x) - 1
        BY DEF EndBehind
      <4> HIDE DEF m
      <4>3. QED
        BY <3>5, <4>1, <4>2
    <3> DEFINE n == EndBehind(q, x)
    <3> HIDE DEF n
    <3>7. n \in 1 .. Len(q) /\ p = SubSeq(q, 1, n)
      BY <3>4, <3>6 DEF Upto, n
    <3>8. SubSeq(q, 1, n)[1] = q[1] /\ Len(SubSeq(q, 1, n)) = n /\ n >= 1
      BY <1>2, <3>5, <3>7 DEF Text
    <3>9. p \in Text
      BY <1>2, <1>3, WithoutPathInfoIs
    <3>10. QED
      BY <1>2, <3>7, <3>8, <3>9
  <2>5. QED
    BY <2>3, <2>4
<1>5. PathOf(uri, site) = p
  BY DEF PathOf, q
<1> HIDE DEF p
<1>6. p # <<>> /\ Head(p) = "/"
  BY <1>4 DEF Text
<1>7. QED
  BY <1>4, <1>5, <1>6 DEF UriOK

\* Every request has a location.
LEMMA RootOccurs ==
  ASSUME NEW site, SiteOK(site), NEW uri, UriOK(uri),
         NEW k \in DOMAIN site.directories, site.directories[k].path = <<"/">>
  PROVE  /\ site.directories[k].path \in Text /\ site.directories[k].path # <<>>
         /\ IsPrefix(site.directories[k].path, uri)
         /\ Occurs(site.directories[k].path, uri)
<1> DEFINE slash == site.directories[k].path
<1>1. site.directories[k] \in Place
  BY LocationsAre
<1>2. slash \in Text /\ slash # <<>> /\ Len(slash) = 1 /\ slash[1] = "/"
  BY <1>1 DEF Place
<1> HIDE DEF slash
<1>3. uri \in Text /\ Len(uri) \in Nat /\ Len(uri) >= 1 /\ uri[1] = "/"
  BY DEF UriOK, Text
<1>4. HasAt(slash, uri, 1)
  BY <1>2, <1>3 DEF HasAt
<1>5. IsPrefix(slash, uri)
  BY <1>2, <1>3, <1>4, PrefixIs
<1>6. Occurs(slash, uri)
  BY <1>2, <1>3, <1>5, PrefixOccurs
<1>7. QED
  BY <1>2, <1>5, <1>6 DEF slash

LEMMA LocationFound ==
  ASSUME NEW site, SiteOK(site), NEW r, UriOK(r.uri)
  PROVE  SecondLocation(site, r) \in DOMAIN Locations(site)
<1> DEFINE path == PathOf(r.uri, site)
           e == GetExtension(path)
           by == {i \in DOMAIN Locations(site) : Occurs(e, Locations(site)[i].extension)}
<1>1. UriOK(path)
  BY PathBegins
<1>2. SecondLocation(site, r) =
        IF e # <<>> /\ by # {} THEN Min(by) ELSE LongestMatch(path, Locations(site))
  BY DEF SecondLocation, GetMatchLocation
<1> HIDE DEF path
<1>3. Locations(site) \in Seq(Place)
  BY LocationsAre
<1>4. CASE e # <<>> /\ by # {}
  <2>1. by \in SUBSET Nat
    BY <1>3
  <2>2. Min(by) \in by
    BY <1>4, <2>1, LeastExists
  <2>3. QED
    BY <1>2, <1>4, <2>2
<1>5. CASE ~(e # <<>> /\ by # {})
  <2>1. PICK k \in DOMAIN site.directories : site.directories[k].path = <<"/">>
    BY DEF SiteOK, SitePlain
  <2>2. site.directories[k].path # <<>> /\ Occurs(site.directories[k].path, path)
    BY <1>1, <2>1, RootOccurs
  <2>3. k \in DOMAIN Locations(site) /\ Locations(site)[k] = site.directories[k]
    BY LocationsAre
  <2>4. LongestMatch(path, Locations(site)) \in LongestOf(path, Locations(site))
    BY <1>1, <1>3, <2>2, <2>3, MatchIs DEF UriOK
  <2>5. LongestOf(path, Locations(site)) \subseteq DOMAIN Locations(site)
    BY DEF LongestOf
  <2>6. QED
    BY <1>2, <1>5, <2>4, <2>5
<1>6. QED
  BY <1>4, <1>5

-----------------------------------------------------------------------------
(* Straightforward requests *)

(* The locations that a path begins with. *)
Named(site, path) ==
  {i \in DOMAIN site.directories :
     site.directories[i].path # <<>> /\ IsPrefix(site.directories[i].path, path)}
IsLongest(site, path, m) ==
  /\ m \in Named(site, path)
  /\ \A j \in Named(site, path) :
       \/ Len(site.directories[j].path) < Len(site.directories[m].path)
       \/ site.directories[j].path = site.directories[m].path /\ m <= j

\* A look-up that finds just the locations that the path begins with returns the longest
\* of these.
LEMMA MatchIsLongest ==
  ASSUME NEW site, SiteOK(site), NEW path \in Text, NEW text \in Text,
         NEW places \in Seq(Place), Named(site, path) # {},
         \A i : i \in Named(site, path) <=>
           i \in DOMAIN places /\ places[i].path # <<>> /\ Occurs(places[i].path, text),
         \A i \in Named(site, path) : places[i].path = site.directories[i].path
  PROVE  IsLongest(site, path, LongestMatch(text, places))
<1> DEFINE N == Named(site, path)
           d == site.directories
           m == LongestMatch(text, places)
<1>1. \A i \in N : /\ d[i].path \in Text /\ Len(d[i].path) \in Nat
                   /\ IsPrefix(d[i].path, path) /\ i \in Nat
  <2> SUFFICES ASSUME NEW i \in N
               PROVE  /\ d[i].path \in Text /\ Len(d[i].path) \in Nat
                      /\ IsPrefix(d[i].path, path) /\ i \in Nat
    OBVIOUS
  <2>1. i \in DOMAIN d /\ IsPrefix(d[i].path, path)
    BY DEF Named
  <2>2. d \in Seq(Place)
    BY LocationsAre
  <2>3. d[i] \in Place /\ i \in Nat
    BY <2>1, <2>2
  <2>4. d[i].path \in Text
    BY <2>3 DEF Place
  <2>5. Len(d[i].path) \in Nat
    BY <2>4 DEF Text
  <2>6. QED
    BY <2>1, <2>3, <2>4, <2>5
<1>2. LongestOf(text, places) = {i \in N : \A j \in N : Len(d[j].path) <= Len(d[i].path)}
  <2> DEFINE found == {i \in DOMAIN places : places[i].path # <<>> /\ Occurs(places[i].path, text)}
  <2>1. found = N
    OBVIOUS
  <2>2. LongestOf(text, places) =
          {i \in found : \A j \in found : Len(places[j].path) <= Len(places[i].path)}
    BY DEF LongestOf
  <2> HIDE DEF found, N, d
  <2>3. \A i \in N : places[i].path = d[i].path
    BY DEF N, d
  <2>4. QED
    BY <2>1, <2>2, <2>3
<1>3. m \in LongestOf(text, places) /\ \A i \in LongestOf(text, places) : m <= i
  <2>1. PICK k : k \in N
    OBVIOUS
  <2>2. k \in DOMAIN places /\ places[k].path # <<>> /\ Occurs(places[k].path, text)
    BY <2>1
  <2>3. QED
    BY <2>2, MatchIs
<1> HIDE DEF N, d, m
<1>4. m \in N /\ \A j \in N : Len(d[j].path) <= Len(d[m].path)
  BY <1>2, <1>3
<1>5. ASSUME NEW j \in N
      PROVE  Len(d[j].path) < Len(d[m].path) \/ (d[j].path = d[m].path /\ m <= j)
  <2>1. CASE Len(d[j].path) = Len(d[m].path)
    <3>1. j \in LongestOf(text, places)
      BY <1>2, <1>4, <2>1
    <3>2. d[j].path = d[m].path
      BY <1>1, <1>4, <2>1, SamePrefix
    <3>3. QED
      BY <1>3, <3>1, <3>2
  <2>2. QED
    BY <1>1, <1>4, <2>1
<1>6. QED
  BY <1>4, <1>5 DEF IsLongest, N, d, m

\* There is one longest location, and it is the one that is meant.
LEMMA LongestIsMeant ==
  ASSUME NEW site, SiteOK(site), NEW path \in Text, NEW m, IsLongest(site, path, m)
  PROVE  m = MeantDirectory(site, path)
<1> DEFINE d == site.directories
           Meant(i) == /\ i \in DOMAIN d /\ IsPrefix(d[i].path, path)
                       /\ \A j \in DOMAIN d : IsPrefix(d[j].path, path) =>
                            \/ Len(d[j].path) < Len(d[i].path)
                            \/ d[j].path = d[i].path /\ i <= j
<1>1. \A i \in DOMAIN d : /\ d[i].path \in Text /\ Len(d[i].path) \in Nat /\ i \in Nat
                          /\ d[i].path # <<>> => Len(d[i].path) > 0
  <2> SUFFICES ASSUME NEW i \in DOMAIN d
               PROVE  /\ d[i].path \in Text /\ Len(d[i].path) \in Nat /\ i \in Nat
                      /\ d[i].path # <<>> => Len(d[i].path) > 0
    OBVIOUS
  <2>1. d \in Seq(Place)
    BY LocationsAre
  <2>2. d[i] \in Place /\ i \in Nat
    BY <2>1
  <2>3. d[i].path \in Text
    BY <2>2 DEF Place
  <2>4. QED
    BY <2>2, <2>3 DEF Text
<1>2. m \in DOMAIN d /\ d[m].path # <<>> /\ IsPrefix(d[m].path, path)
  BY DEF IsLongest, Named
<1>3. ASSUME NEW j \in DOMAIN d, IsPrefix(d[j].path, path)
      PROVE  Len(d[j].path) < Len(d[m].path) \/ (d[j].path = d[m].path /\ m <= j)
  <2>1. CASE d[j].path = <<>>
    <3>1. Len(d[j].path) = 0 /\ Len(d[m].path) > 0
      BY <1>1, <1>2, <2>1
    <3>2. QED
      BY <3>1
  <2>2. CASE d[j].path # <<>>
    <3>1. j \in Named(site, path)
      BY <1>3, <2>2 DEF Named
    <3>2. QED
      BY <3>1 DEF IsLongest
  <2>3. QED
    BY <2>1, <2>2
<1>4. Meant(m)
  BY <1>2, <1>3
<1>5. MeantDirectory(site, path) =
        CHOOSE i \in DOMAIN d :
          /\ IsPrefix(d[i].path, path)
          /\ \A j \in DOMAIN d : IsPrefix(d[j].path, path) =>
               \/ Len(d[j].path) < Len(d[i].path)
               \/ d[j].path = d[i].path /\ i <= j
  BY DEF MeantDirectory
<1> DEFINE n == MeantDirectory(site, path)
<1>6. Meant(n)
  BY <1>2, <1>4, <1>5
<1> HIDE DEF n, d
<1>7. m \in DOMAIN d /\ n \in DOMAIN d /\ m \in Nat /\ n \in Nat
      /\ Len(d[m].path) \in Nat /\ Len(d[n].path) \in Nat
  BY <1>1, <1>4, <1>6
<1>8. /\ Len(d[n].path) < Len(d[m].path) \/ (d[n].path = d[m].path /\ m <= n)
      /\ Len(d[m].path) < Len(d[n].path) \/ (d[m].path = d[n].path /\ n <= m)
  BY <1>4, <1>6
<1>9. QED
  BY <1>7, <1>8 DEF n

\* A straightforward request is answered from the location its path means, whichever
\* look-up asks.
LEMMA StraightIsMeant ==
  ASSUME NEW site, SiteOK(site), NEW r, UriOK(r.uri), Straightforward(site, r)
  PROVE  LET path == PathOf(r.uri, site)
             m == MeantDirectory(site, path)
         IN  /\ m \in DOMAIN site.directories
             /\ Directory(site, r) = <<site.directories[m]>>
             /\ SecondLocation(site, r) = m
             /\ Locations(site)[m] = site.directories[m]
<1> DEFINE path == PathOf(r.uri, site)
           m == MeantDirectory(site, path)
           d == site.directories
           l == Locations(site)
           N == Named(site, path)
<1>1. /\ path \in Text /\ IsPrefix(path, r.uri) /\ r.uri \in Text
      /\ \A i \in DOMAIN d : Occurs(d[i].path, r.uri) => IsPrefix(d[i].path, path)
      /\ \A i \in DOMAIN site.files :
           GetExtension(path) = <<>> \/ ~Occurs(GetExtension(path), site.files[i].extension)
  BY PathIs DEF SiteOK, SitePlain, UriOK, Straightforward, NamesOnePlace
<1>2. /\ d \in Seq(Place) /\ l \in Seq(Place) /\ DOMAIN d \subseteq DOMAIN l
      /\ \A i \in DOMAIN d : l[i] = d[i] /\ d[i].extension = <<>>
      /\ \A i \in DOMAIN l \ DOMAIN d :
           l[i].path = <<>> /\ \E j \in DOMAIN site.files : l[i] = site.files[j]
  BY LocationsAre DEF SiteOK, SitePlain
<1>3. \A i \in DOMAIN d : d[i].path \in Text
  <2> SUFFICES ASSUME NEW i \in DOMAIN d PROVE d[i].path \in Text
    OBVIOUS
  <2>1. d[i] \in Place
    BY <1>2
  <2>2. QED
    BY <2>1 DEF Place
<1>4. N = {i \in DOMAIN d : d[i].path # <<>> /\ IsPrefix(d[i].path, path)}
  BY DEF Named
<1>5. N # {}
  <2>1. PICK k \in DOMAIN d : d[k].path = <<"/">>
    BY DEF SiteOK, SitePlain
  <2>2. d[k].path # <<>> /\ Occurs(d[k].path, r.uri)
    BY <2>1, RootOccurs
  <2>3. QED
    BY <1>1, <1>4, <2>2
<1>6. Directory(site, r) = LET i == LongestMatch(r.uri, d) IN IF i = 0 THEN <<>> ELSE <<d[i]>>
  BY DEF Directory
<1>7. SecondLocation(site, r) =
        IF GetExtension(path) # <<>>
           /\ {i \in DOMAIN l : Occurs(GetExtension(path), l[i].extension)} # {}
        THEN Min({i \in DOMAIN l : Occurs(GetExtension(path), l[i].extension)})
        ELSE LongestMatch(path, l)
  BY DEF SecondLocation, GetMatchLocation
<1>8. \A i : i \in N <=> i \in DOMAIN d /\ d[i].path # <<>> /\ Occurs(d[i].path, r.uri)
  <2>1. \A i \in DOMAIN d : IsPrefix(d[i].path, path) => Occurs(d[i].path, r.uri)
    BY <1>1, <1>3, PrefixOccurs, OccursFurther
  <2> HIDE DEF path, d, N
  <2>2. QED
    BY <1>1, <1>4, <2>1
<1>9. \A i : i \in N <=> i \in DOMAIN l /\ l[i].path # <<>> /\ Occurs(l[i].path, path)
  <2>1. \A i \in DOMAIN d : IsPrefix(d[i].path, path) => Occurs(d[i].path, path)
    BY <1>1, <1>3, PrefixOccurs
  <2>2. \A i \in DOMAIN d : Occurs(d[i].path, path) => Occurs(d[i].path, r.uri)
    BY <1>1, <1>3, OccursFurther
  <2> HIDE DEF path, d, l, N
  <2>3. QED
    BY <1>1, <1>2, <1>4, <2>1, <2>2
<1>10. IsLongest(site, path, LongestMatch(r.uri, d))
  BY <1>1, <1>2, <1>5, <1>8, MatchIsLongest
<1>11. IsLongest(site, path, LongestMatch(path, l))
  <2>1. \A i \in N : l[i].path = d[i].path
    BY <1>2, <1>4
  <2>2. QED
    BY <1>1, <1>2, <1>5, <1>9, <2>1, MatchIsLongest
<1>12. LongestMatch(r.uri, d) = m /\ LongestMatch(path, l) = m
  BY <1>1, <1>10, <1>11, LongestIsMeant
<1>13. m \in DOMAIN d
  BY <1>10, <1>12 DEF IsLongest, Named
<1>14. ~(/\ GetExtension(path) # <<>>
         /\ {i \in DOMAIN l : Occurs(GetExtension(path), l[i].extension)} # {})
  <2> SUFFICES ASSUME GetExtension(path) # <<>>, NEW i \in DOMAIN l,
                      Occurs(GetExtension(path), l[i].extension)
               PROVE  FALSE
    OBVIOUS
  <2>1. GetExtension(path) \in Text
    BY <1>1, ExtensionIs
  <2>2. CASE i \in DOMAIN d
    <3>1. l[i].extension = <<>>
      BY <1>2, <2>2
    <3>2. QED
      BY <2>1, <3>1, NoneOfThese
  <2>3. CASE i \notin DOMAIN d
    BY <1>1, <1>2, <2>3
  <2>4. QED
    BY <2>2, <2>3
<1> HIDE DEF path, m, d, l, N
<1>15. m # 0
  BY <1>2, <1>13
<1>16. Directory(site, r) = <<d[m]>>
  BY <1>6, <1>12, <1>15
<1>17. SecondLocation(site, r) = m
  BY <1>7, <1>12, <1>14
<1>18. l[m] = d[m]
  BY <1>2, <1>13
<1>19. QED
  BY <1>13, <1>16, <1>17, <1>18 DEF m, path, d, l

-----------------------------------------------------------------------------
(* GateHolds *)

\* A request that names one place is asked for a login by the location that serves it:
\* both look-ups find the same directories and no rule for files.
LEMMA OneLocation ==
  ASSUME NEW site, SitePlain(site), NEW r, r.uri \in Text, NamesOnePlace(site, r)
  PROVE  FirstLocation(site, r) = SecondLocation(site, r)
<1> DEFINE uri == r.uri
           path == PathOf(uri, site)
           d == site.directories
           l == Locations(site)
           Finds(t) == {i \in DOMAIN l : l[i].path # <<>> /\ Occurs(l[i].path, t)}
           By(t) == {i \in DOMAIN l : Occurs(GetExtension(t), l[i].extension)}
<1>1. uri \in Text /\ path \in Text /\ IsPrefix(path, uri)
  BY PathIs DEF SitePlain
<1>2. /\ \A i \in DOMAIN d : Occurs(d[i].path, uri) => IsPrefix(d[i].path, path)
      /\ \A t \in {uri, path} : \A i \in DOMAIN site.files :
           GetExtension(t) = <<>> \/ ~Occurs(GetExtension(t), site.files[i].extension)
  BY DEF NamesOnePlace
<1>3. /\ d \in Seq(Place) /\ DOMAIN d \subseteq DOMAIN l
      /\ \A i \in DOMAIN d : l[i] = d[i] /\ d[i].extension = <<>>
      /\ \A i \in DOMAIN l \ DOMAIN d :
           l[i].path = <<>> /\ \E j \in DOMAIN site.files : l[i] = site.files[j]
  BY LocationsOf DEF SitePlain
<1>4. ASSUME NEW i \in DOMAIN d PROVE d[i].path \in Text
  <2>1. d[i] \in Place
    BY <1>3
  <2>2. QED
    BY <2>1 DEF Place
<1>5. ASSUME NEW i \in DOMAIN d PROVE Occurs(d[i].path, uri) <=> Occurs(d[i].path, path)
  <2>1. d[i].path \in Text
    BY <1>4
  <2>2. QED
    BY <1>1, <1>2, <2>1, PrefixOccurs, OccursFurther
<1>6. ASSUME NEW t \in {uri, path}, GetExtension(t) # <<>> PROVE By(t) = {}
  <2> SUFFICES ASSUME NEW i \in DOMAIN l, Occurs(GetExtension(t), l[i].extension)
               PROVE  FALSE
    OBVIOUS
  <2>1. GetExtension(t) \in Text
    BY <1>1, <1>6, ExtensionIs
  <2>2. CASE i \in DOMAIN d
    BY <1>3, <1>6, <2>1, <2>2, NoneOfThese
  <2>3. CASE i \notin DOMAIN d
    BY <1>2, <1>3, <1>6, <2>3
  <2>4. QED
    BY <2>2, <2>3
<1>7. ASSUME NEW t \in {uri, path} PROVE GetMatchLocation(t, site) = LongestMatch(t, l)
  BY <1>6, <1>7 DEF GetMatchLocation
<1>8. LongestMatch(uri, l) = LongestMatch(path, l)
  <2>1. Finds(uri) = Finds(path)
    <3> HIDE DEF uri, path, d, l
    <3>1. \A i \in DOMAIN l : l[i].path # <<>> => i \in DOMAIN d /\ l[i] = d[i]
      BY <1>3
    <3>2. QED
      BY <1>5, <3>1
  <2>2. \A t : LongestMatch(t, l) =
          IF Finds(t) = {} THEN 0
          ELSE Min({i \in Finds(t) : \A j \in Finds(t) : Len(l[j].path) <= Len(l[i].path)})
    BY DEF LongestMatch
  <2> HIDE DEF Finds
  <2>3. QED
    BY <2>1, <2>2
<1>9. QED
  BY <1>7, <1>8 DEF FirstLocation, SecondLocation

\* So it is for every request at hand.
LEMMA AskedWhereServed ==
  ASSUME TypeInv, NEW c \in Conns, conn[c].phase \in Busy,
         NamesOnePlace(dep.site, conn[c].ask.request), ServedBehindLogin(conn[c])
  PROVE  AsksLogin(conn[c])
<1>1. conn[c].ask \in dep.asks /\ run \in DOMAIN Deployments
  BY ConnParts, TypeParts
<1>2. SitePlain(dep.site) /\ dep.asks \subseteq Ask
  BY <1>1, DeploymentsAssumption, DepFacts DEF SitePlain, dep
<1>3. conn[c].ask.request.uri \in Text
  BY <1>1, <1>2 DEF Ask, Request
<1>4. QED
  BY <1>2, <1>3, OneLocation DEF ServedBehindLogin, AsksLogin

(* The CGI of a location that asks for a login runs for a member. *)
GateInv ==
  /\ GateHolds
  /\ \A c \in Conns :
       conn[c].phase = "cgi" /\ AsksLogin(conn[c]) => conn[c].owner \in members

\* The router lets a request through to a location that asks for a login only if the
\* session it finds is logged in, and then its browser has logged in.
LEMMA PassedByMember ==
  ASSUME TypeInv, SessionInv, NEW c \in Conns, conn[c].phase = "ready",
         AsksLogin(conn[c]), PassedGate(c)
  PROVE  conn[c].owner \in members
<1> DEFINE id == conn[c].sid
           g == GetSession(sessions, id)
           r == conn[c].ask.request
<1>1. id \in Nat /\ sessions \in SessionTable /\ conn[c].owner \in Browsers
  BY ConnParts, TypeParts DEF Busy, Phases
<1>2. g = Looked(c)
  BY DEF Looked
<1>3. CASE ~g.table[g.id].authenticated
  <2>1. MustLogIn(dep.site, r, g.table[g.id].authenticated)
    BY <1>3 DEF MustLogIn, AsksLogin
  <2>2. Verdict(c) = Answer(307)
    BY <1>2, <2>1 DEF Verdict, Process
  <2>3. QED
    BY <2>2 DEF PassedGate, Answer
<1>4. CASE g.table[g.id].authenticated
  <2> HIDE DEF g
  <2>1. \/ id \in 1 .. Len(sessions) /\ g.table = sessions /\ g.id = id
        \/ g.table = Append(sessions, FreshSession) /\ g.id = Len(sessions) + 1
    <3>1. g = GetSession(sessions, id)
      BY DEF g
    <3> HIDE DEF id
    <3>2. QED
      BY <1>1, <3>1, GetSessionFacts
  <2>2. CASE id \in 1 .. Len(sessions) /\ g.table = sessions /\ g.id = id
    <3>1. id \in Held(conn[c])
      BY <1>1, <2>2 DEF Held, None, SessionTable
    <3>2. Holds(conn[c].owner, id)
      BY <3>1, OwnHeld
    <3>3. QED
      BY <1>1, <1>4, <2>2, <3>2 DEF SessionInv, HeldByMembers
  <2>3. CASE g.table = Append(sessions, FreshSession) /\ g.id = Len(sessions) + 1
    <3>1. g.table[g.id] = FreshSession
      BY <1>1, <2>3 DEF SessionTable
    <3>2. QED
      BY <1>4, <3>1 DEF FreshSession
  <2>4. QED
    BY <2>1, <2>2, <2>3
<1>5. QED
  BY <1>3, <1>4

\* A CGI that is running after a step was running before it, or was launched by it.
LEMMA CgiShape ==
  ASSUME TypeInv, [Next]_vars, NEW c \in Conns, conn'[c].phase = "cgi"
  PROVE  /\ conn'[c].owner = conn[c].owner /\ conn'[c].ask = conn[c].ask
         /\ conn[c].phase = "cgi" \/ (conn[c].phase = "ready" /\ PassedGate(c))
<1> DEFINE Goal == /\ conn'[c].owner = conn[c].owner /\ conn'[c].ask = conn[c].ask
                   /\ conn[c].phase = "cgi" \/ (conn[c].phase = "ready" /\ PassedGate(c))
<1>1. \A d \in Conns : conn[d] \in ConnType
  BY ConnParts
<1>2. conn \in [Conns -> ConnType]
  BY TypeParts DEF ConnsOK
<1>3. ASSUME conn'[c] = conn[c] PROVE Goal
  BY <1>3
<1>4. ASSUME NEW d \in Conns, NEW k, conn' = [conn EXCEPT ![d] = k],
             k.phase = "cgi" => /\ k.owner = conn[d].owner /\ k.ask = conn[d].ask
                                /\ conn[d].phase = "cgi"
      PROVE  Goal
  <2>1. CASE d = c
    BY <1>2, <1>4, <2>1
  <2>2. CASE d # c
    BY <1>2, <1>3, <1>4, <2>2
  <2>3. QED
    BY <2>1, <2>2
<1> HIDE DEF Goal
<1>5. ClosedConn.phase = "closed"
  BY DEF ClosedConn
<1>6. \A d \in Conns : ResetConn(conn[d]).phase = "idle"
  BY <1>1, ResetHeld
<1>7. ASSUME NEW d \in Conns, NEW r, Respond(d, r) PROVE Goal
  <2>1. PICK k : conn' = [conn EXCEPT ![d] = k] /\ k \in {ClosedConn, ResetConn(conn[d])}
    BY <1>7 DEF Respond, RemoveClient
  <2>2. k.phase # "cgi"
    BY <1>5, <1>6, <2>1
  <2>3. QED
    BY <1>4, <2>1, <2>2
<1>8. ASSUME NEW d \in Conns, NEW k \in ConnType, SetSession(d, k), k.phase # "cgi" PROVE Goal
  <2>1. PICK e : conn' = [conn EXCEPT ![d] = e] /\ e.phase = k.phase
    BY <1>8, SetSessionFacts
  <2>2. QED
    BY <1>4, <1>8, <2>1
<1>9. ASSUME ShutDown PROVE Goal
  BY <1>5, <1>9 DEF ShutDown
<1>10. ASSUME NEW d \in Conns, Handle(d) PROVE Goal
  <2>1. CASE ReadHead(d)
    <3> DEFINE k(phase) == [conn[d] EXCEPT !.phase = phase]
    <3>1. \A phase \in {"ready", "body"} : k(phase) \in ConnType /\ k(phase).phase = phase
      BY <1>1 DEF ConnType, Phases
    <3>2. SetSession(d, k("ready")) \/ conn' = [conn EXCEPT ![d] = k("body")]
      BY <1>2, <2>1 DEF ReadHead
    <3> HIDE DEF k
    <3>3. QED
      BY <1>4, <1>8, <3>1, <3>2
  <2>2. CASE ReadBody(d)
    <3>1. PICK body \in Body :
            \/ SetSession(d, [conn[d] EXCEPT !.phase = "ready", !.body = body])
            \/ conn' = [conn EXCEPT ![d] = [conn[d] EXCEPT !.body = body]]
      BY <2>2, ReadBodyShape
    <3> DEFINE r == [conn[d] EXCEPT !.phase = "ready", !.body = body]
               k == [conn[d] EXCEPT !.body = body]
    <3>2. /\ r \in ConnType /\ r.phase = "ready"
          /\ k.phase = conn[d].phase /\ k.owner = conn[d].owner /\ k.ask = conn[d].ask
      BY <1>1 DEF ConnType, Phases
    <3>3. SetSession(d, r) \/ conn' = [conn EXCEPT ![d] = k]
      BY <3>1
    <3> HIDE DEF r, k
    <3>4. QED
      BY <1>4, <1>8, <3>2, <3>3
  <2>3. CASE ReadBodyFails(d)
    <3>1. PICK body \in Body : SetSession(d, [conn[d] EXCEPT !.phase = "refused", !.body = body])
      BY <2>3, ReadBodyFailsShape
    <3> DEFINE r == [conn[d] EXCEPT !.phase = "refused", !.body = body]
    <3>2. r \in ConnType /\ r.phase = "refused" /\ SetSession(d, r)
      BY <1>1, <3>1 DEF ConnType, Phases
    <3> HIDE DEF r
    <3>3. QED
      BY <1>8, <3>2
  <2>4. CASE ReportError(d) \/ AnswerPage(d) \/ Upload(d) \/ DeleteFile(d)
    BY <1>7, <2>4 DEF ReportError, AnswerPage, Upload, DeleteFile, RouterFails
  <2>5. CASE Launch(d)
    <3>1. CASE RouterFails(d)
      BY <1>7, <3>1 DEF RouterFails
    <3>2. CASE conn' = [conn EXCEPT ![d].phase = "cgi", ![d].cgi = "running"]
      <4> DEFINE k == [conn[d] EXCEPT !.phase = "cgi", !.cgi = "running"]
      <4>1. conn' = [conn EXCEPT ![d] = k]
        BY <1>2, <3>2
      <4>2. k.owner = conn[d].owner /\ k.ask = conn[d].ask
        BY <1>1 DEF ConnType
      <4>3. conn[d].phase = "ready" /\ PassedGate(d)
        BY <2>5 DEF Launch, Routes, PassedGate
      <4> HIDE DEF k
      <4>4. CASE d = c
        <5>1. conn'[c] = k
          BY <1>2, <4>1, <4>4
        <5>2. QED
          BY <4>2, <4>3, <4>4, <5>1 DEF Goal
      <4>5. CASE d # c
        BY <1>2, <1>3, <4>1, <4>5
      <4>6. QED
        BY <4>4, <4>5
    <3>3. QED
      BY <2>5, <3>1, <3>2 DEF Launch
  <2>6. CASE Throw(d)
    BY <1>9, <2>6 DEF Throw
  <2>7. CASE RelayHead(d)
    <3> DEFINE k == [conn[d] EXCEPT !.streamed = TRUE]
    <3>1. conn' = [conn EXCEPT ![d] = k] /\ conn[d].phase = "cgi"
      BY <1>2, <2>7 DEF RelayHead
    <3>2. k.owner = conn[d].owner /\ k.ask = conn[d].ask
      BY <1>1 DEF ConnType
    <3> HIDE DEF k
    <3>3. QED
      BY <1>4, <3>1, <3>2
  <2>8. CASE FinishCgi(d)
    <3>1. PICK k, sid : /\ conn' = [conn EXCEPT ![d] = k]
                        /\ k = ClosedConn \/ k = [ResetConn(conn[d]) EXCEPT !.sid = sid]
      BY <2>8, FinishCgiShape
    <3>2. k.phase # "cgi"
      <4> DEFINE reset == ResetConn(conn[d])
      <4>1. reset.phase = "idle" /\ "phase" \in DOMAIN reset
        BY <1>1 DEF ResetConn, ConnType
      <4> HIDE DEF reset
      <4>2. [reset EXCEPT !.sid = sid].phase = "idle"
        BY <4>1
      <4>3. QED
        BY <1>5, <3>1, <4>2 DEF reset
    <3>3. QED
      BY <1>4, <3>1, <3>2
  <2>9. CASE FailCgi(d)
    <3>1. CASE conn[d].streamed
      <4> DEFINE k == [conn[d] EXCEPT !.phase = "stuck", !.cgi = "none"]
      <4>1. conn' = [conn EXCEPT ![d] = k]
        BY <1>2, <2>9, <3>1 DEF FailCgi
      <4>2. k.phase # "cgi"
        BY <1>1 DEF ConnType
      <4> HIDE DEF k
      <4>3. QED
        BY <1>4, <4>1, <4>2
    <3>2. CASE ~conn[d].streamed
      BY <1>7, <2>9, <3>2 DEF FailCgi
    <3>3. QED
      BY <3>1, <3>2
  <2>10. CASE Drop(d)
    BY <1>4, <1>5, <2>10 DEF Drop, RemoveClient
  <2>11. QED
    BY <1>10, <2>1, <2>2, <2>3, <2>4, <2>5, <2>6, <2>7, <2>8, <2>9, <2>10 DEF Handle
<1>11. ASSUME NEW d \in Conns, Environment(d) PROVE Goal
  <2>1. CASE Connect(d)
    <3>1. PICK b : conn' = [conn EXCEPT ![d] = AddClient(d, b)]
      BY <2>1 DEF Connect
    <3>2. AddClient(d, b).phase = "idle"
      BY <1>1 DEF AddClient, ConnType
    <3>3. QED
      BY <1>4, <3>1, <3>2
  <2>2. CASE Send(d)
    <3>1. PICK a : conn' = [conn EXCEPT ![d].phase = "sent", ![d].n = asked + 1, ![d].ask = a,
                                        ![d].presented = jar[conn[d].owner]]
      BY <2>2 DEF Send
    <3> DEFINE m == asked + 1
               p == jar[conn[d].owner]
               k == [conn[d] EXCEPT !.phase = "sent", !.n = m, !.ask = a, !.presented = p]
    <3>2. conn' = [conn EXCEPT ![d] = k]
      BY <1>2, <3>1
    <3> HIDE DEF m, p
    <3>3. k.phase = "sent"
      BY <1>1 DEF ConnType
    <3> HIDE DEF k
    <3>4. QED
      BY <1>4, <3>2, <3>3
  <2>3. CASE CgiWrites(d)
    <3> DEFINE k == [conn[d] EXCEPT !.wrote = TRUE]
    <3>1. conn' = [conn EXCEPT ![d] = k] /\ conn[d].phase = "cgi"
      BY <1>2, <2>3 DEF CgiWrites
    <3>2. k.owner = conn[d].owner /\ k.ask = conn[d].ask
      BY <1>1 DEF ConnType
    <3> HIDE DEF k
    <3>3. QED
      BY <1>4, <3>1, <3>2
  <2>4. CASE CgiExits(d)
    <3>1. PICK end : conn' = [conn EXCEPT ![d].cgi = end]
      BY <2>4 DEF CgiExits
    <3> DEFINE k == [conn[d] EXCEPT !.cgi = end]
    <3>2. conn' = [conn EXCEPT ![d] = k] /\ conn[d].phase = "cgi"
      BY <1>2, <2>4, <3>1 DEF CgiExits
    <3>3. k.owner = conn[d].owner /\ k.ask = conn[d].ask
      BY <1>1 DEF ConnType
    <3> HIDE DEF k
    <3>4. QED
      BY <1>4, <3>2, <3>3
  <2>5. QED
    BY <1>11, <2>1, <2>2, <2>3, <2>4 DEF Environment
<1>12. CASE Stop
  BY <1>9, <1>12 DEF Stop, Goal
<1>13. CASE UNCHANGED vars \/ (\E r \in replies : Receive(r))
              \/ \E s \in DOMAIN sessions : Expire(s)
  BY <1>3, <1>13 DEF vars, Receive, Expire, server
<1>14. QED
  BY <1>10, <1>11, <1>12, <1>13 DEF Next, Goal

LEMMA MembersGrow == [Next]_vars => members \subseteq members' /\ run' = run /\ dep' = dep
<1>1. ASSUME NEW c \in Conns, Handle(c) PROVE members \subseteq members' /\ run' = run
  <2>1. CASE ReadHead(c) \/ ReadBody(c) \/ ReadBodyFails(c) \/ ReportError(c)
    BY <2>1 DEF ReadHead, ReadBody, ReadBodyFails, ReportError
  <2>2. CASE AnswerPage(c) \/ Upload(c) \/ DeleteFile(c) \/ Launch(c) \/ Throw(c)
    BY <2>2 DEF AnswerPage, Upload, DeleteFile, Launch, Throw, Routes
  <2>3. CASE RelayHead(c) \/ FinishCgi(c) \/ FailCgi(c) \/ Drop(c)
    BY <2>3 DEF RelayHead, FinishCgi, FailCgi, Drop
  <2>4. QED
    BY <1>1, <2>1, <2>2, <2>3 DEF Handle
<1>2. ASSUME NEW c \in Conns, Environment(c) PROVE members \subseteq members' /\ run' = run
  BY <1>2 DEF Environment, Connect, Send, CgiWrites, CgiExits, server
<1>3. CASE Stop
  BY <1>3 DEF Stop, dep
<1>4. CASE UNCHANGED vars \/ (\E a \in replies : Receive(a))
             \/ \E s \in DOMAIN sessions : Expire(s)
  BY <1>4 DEF vars, Receive, Expire, server, dep
<1>5. QED
  BY <1>1, <1>2, <1>3, <1>4 DEF Next, dep

LEMMA GateInit == Init => GateInv
BY DEF Init, GateInv, GateHolds, ClosedConn

LEMMA GateNext == TypeInv /\ SessionInv /\ GateInv /\ [Next]_vars => GateInv'
<1> SUFFICES ASSUME TypeInv, SessionInv, GateInv, [Next]_vars PROVE GateInv'
  OBVIOUS
<1>1. members \subseteq members' /\ dep' = dep
  BY MembersGrow
<1>2. ASSUME NEW a \in replies', a.guarded, NamesOnePlace(dep.site, a.ask.request)
      PROVE  a.to \in members'
  <2>1. CASE a \in replies
    BY <1>1, <1>2, <2>1 DEF GateInv, GateHolds
  <2>2. CASE a \notin replies
    <3>1. PICK c \in Conns : AnswerOf(a, c)
      BY <2>2, AnswerShape
    <3>2. a.to = conn[c].owner /\ a.ask = conn[c].ask /\ ServedBehindLogin(conn[c])
          /\ (conn[c].phase = "cgi" \/ (conn[c].phase = "ready" /\ PassedGate(c)))
      BY <1>2, <3>1 DEF AnswerOf
    <3>3. AsksLogin(conn[c])
      BY <1>2, <3>2, AskedWhereServed DEF Busy, Phases
    <3>4. conn[c].owner \in members
      BY <3>2, <3>3, PassedByMember DEF GateInv
    <3>5. QED
      BY <1>1, <3>2, <3>4
  <2>3. QED
    BY <2>1, <2>2
<1>3. ASSUME NEW c \in Conns, conn'[c].phase = "cgi", AsksLogin(conn[c])'
      PROVE  conn'[c].owner \in members'
  <2>1. /\ conn'[c].owner = conn[c].owner /\ conn'[c].ask = conn[c].ask
        /\ conn[c].phase = "cgi" \/ (conn[c].phase = "ready" /\ PassedGate(c))
    BY <1>3, CgiShape
  <2>2. AsksLogin(conn[c])
    BY <1>1, <1>3, <2>1 DEF AsksLogin
  <2>3. conn[c].owner \in members
    BY <2>1, <2>2, PassedByMember DEF GateInv
  <2>4. QED
    BY <1>1, <2>1, <2>3
<1>4. QED
  BY <1>1, <1>2, <1>3 DEF GateInv, GateHolds

\* A page of a location that asks for a login, asked for by a URI that names no other
\* place, reaches those only who have logged in (handleRouteProtected on the session
\* found at that moment, and the CGIs it lets through), however logins, cookies, time
\* and connections cross.  Of other URIs it is not true: see GateHoldsForAll.
THEOREM GateIsKept == Spec => []GateHolds
<1>1. GateInv => GateHolds
  BY DEF GateInv
<1>2. QED
  BY <1>1, TypeInit, TypeNext, SessionInit, SessionNext, GateInit, GateNext, PTL DEF Spec

-----------------------------------------------------------------------------
(* FileIsWhereItsLocationSays *)

(* The files that there may be: those of the deployment, and what may be uploaded. *)
MayBeFiles(i) ==
  LET site == Deployments[i].site
  IN  DOMAIN Deployments[i].files
        \cup {UploadPath(Locations(site)[k].store, s) : k \in DOMAIN Locations(site), s \in Nat}

(* The index of a directory is the name of a file in it, and no directory has that name. *)
IndexOK(x, paths) ==
  \/ x = <<>>
  \/ /\ Head(x) # "/" /\ Last(x) # "/"
     /\ \A f \in paths : ~Occurs(<<"/">> \o x \o <<"/">>, f)
IndexesAreFiles ==
  \A i \in DOMAIN Deployments : \A k \in DOMAIN Deployments[i].site.directories :
    IndexOK(WithoutDot(Deployments[i].site.directories[k].index), MayBeFiles(i))

\* Joining paths.
LEMMA JoinIs ==
  ASSUME NEW base \in Text, NEW sub \in Text, <<"/">> \in Text
  PROVE  /\ JoinPath(base, sub) \in Text
         /\ sub # <<>> => JoinPath(base, sub) # <<>>
         /\ sub = <<>> /\ base # <<>> => JoinPath(base, sub) = base
<1>1. CASE base = <<>>
  BY <1>1 DEF JoinPath
<1>2. CASE base # <<>> /\ sub = <<>>
  BY <1>2 DEF JoinPath
<1>3. CASE base # <<>> /\ sub # <<>>
  <2>1. /\ Tail(sub) \in Text /\ base \o Tail(sub) \in Text /\ base \o sub \in Text
        /\ base \o <<"/">> \o sub \in Text
    BY <1>3 DEF Text
  <2>2. JoinPath(base, sub) \in {base \o Tail(sub), base \o <<"/">> \o sub, base \o sub}
    BY <1>3 DEF JoinPath
  <2>3. base \o Tail(sub) # <<>> /\ base \o <<"/">> \o sub # <<>> /\ base \o sub # <<>>
    BY <1>3 DEF Text
  <2>4. QED
    BY <1>3, <2>1, <2>2, <2>3
<1>4. QED
  BY <1>1, <1>2, <1>3

LEMMA NoIndex == WithoutDot(<<>>) = <<>>
<1>1. Len(<<".", "/">>) = 2 /\ Len(<<>>) = 0
  OBVIOUS
<1>2. QED
  BY <1>1 DEF WithoutDot, IsPrefix

LEMMA IndexTyped == \A x \in Text : WithoutDot(x) \in Text
<1> SUFFICES ASSUME NEW x \in Text PROVE WithoutDot(x) \in Text
  OBVIOUS
<1>1. Len(x) \in Nat /\ SubSeq(x, 3, Len(x)) \in Text
  BY DEF Text
<1>2. QED
  BY <1>1 DEF WithoutDot, From

\* The middle of three texts occurs in them.
LEMMA MiddleOccurs ==
  ASSUME NEW a \in Text, NEW b \in Text, NEW c \in Text
  PROVE  Occurs(b, a \o (b \o c))
<1> DEFINE bc == b \o c
           w == a \o bc
<1>1. /\ bc \in Text /\ Len(bc) = Len(b) + Len(c) /\ Len(b) \in Nat /\ Len(c) \in Nat
      /\ \A i \in 1 .. Len(b) : bc[i] = b[i]
  BY Joined DEF Text
<1> HIDE DEF bc
<1>2. /\ w \in Text /\ Len(w) = Len(a) + Len(bc) /\ Len(a) \in Nat
      /\ \A j \in 1 .. Len(bc) : w[Len(a) + j] = bc[j]
  <2>1. a \in Seq(STRING) /\ bc \in Seq(STRING)
    BY <1>1 DEF Text
  <2>2. QED
    BY <2>1, Joined DEF Text
<1> HIDE DEF w
<1> DEFINE k == Len(a) + 1
<1>3. k \in 1 .. Len(w) - Len(b) + 1
  BY <1>1, <1>2
<1>4. ASSUME NEW i \in 1 .. Len(b) PROVE w[k + i - 1] = b[i]
  <2>1. k + i - 1 = Len(a) + i /\ i \in 1 .. Len(bc)
    BY <1>1, <1>2
  <2>2. QED
    BY <1>1, <1>2, <2>1
<1>5. HasAt(b, w, k)
  BY <1>4 DEF HasAt
<1>6. k \in Places(b, w)
  BY <1>2, <1>3, <1>5, PlacesAre
<1>7. QED
  BY <1>6 DEF Occurs, w, bc

\* Where the file is that resolvePath and handleGet find for a path.
Placed(file, x) == file \o (IF Last(file) = "/" THEN x ELSE <<>>)

LEMMA PlacedIs ==
  ASSUME NEW file \in Text, file # <<>>, NEW x \in Text, <<"/">> \in Text,
         NEW paths, IndexOK(x, paths)
  PROVE  /\ Placed(file, x) \in {file, JoinPath(file, x)}
         /\ JoinPath(Placed(file, x), x) \in paths =>
              JoinPath(Placed(file, x), x) \in {file, JoinPath(file, x)}
<1>1. file \o <<>> = file
  BY DEF Text
<1>2. CASE x = <<>>
  BY <1>1, <1>2, JoinIs DEF Placed
<1>3. CASE x # <<>> /\ Last(file) # "/"
  BY <1>1, <1>3 DEF Placed
<1>4. CASE x # <<>> /\ Last(file) = "/"
  <2>1. /\ Head(x) # "/" /\ Last(x) # "/"
        /\ \A f \in paths : ~Occurs(<<"/">> \o x \o <<"/">>, f)
    BY <1>4 DEF IndexOK
  <2>2. Placed(file, x) = file \o x /\ JoinPath(file, x) = file \o x
    BY <1>4, <2>1 DEF Placed, JoinPath
  <2> DEFINE w == file \o x
  <2>3. w \in Text /\ w # <<>> /\ Last(w) = Last(x)
    BY <1>4 DEF Text, Last
  <2>4. JoinPath(w, x) = w \o <<"/">> \o x
    <3> HIDE DEF w
    <3>1. QED
      BY <1>4, <2>1, <2>3 DEF JoinPath
  <2>5. Occurs(<<"/">> \o x \o <<"/">>, w \o <<"/">> \o x)
    <3> DEFINE n == Len(file)
               a == SubSeq(file, 1, n - 1)
               p == <<"/">> \o x \o <<"/">>
    <3>1. n \in Nat /\ n >= 1 /\ file[n] = "/"
      BY <1>4 DEF Text, Last
    <3>2. a \in Text /\ p \in Text
      BY <3>1 DEF Text
    <3>3. w \o <<"/">> \o x = a \o (p \o x)
      <4>1. file = a \o <<"/">>
        BY <3>1 DEF Text
      <4> HIDE DEF a
      <4>2. QED
        BY <3>2, <4>1 DEF Text
    <3> HIDE DEF a, p
    <3>4. Occurs(p, a \o (p \o x))
      BY <3>2, MiddleOccurs
    <3>5. QED
      BY <3>3, <3>4 DEF p
  <2>6. JoinPath(w, x) \notin paths
    BY <2>1, <2>4, <2>5
  <2>7. QED
    BY <2>2, <2>6
<1>5. QED
  BY <1>2, <1>3, <1>4

\* The path of an answer.
LEMMA AnswerPaths ==
  /\ \A status : Answer(status).path = <<>>
  /\ \A status, path, size, range : FileAnswer(status, path, size, range).path \in {path, <<>>}
  /\ \A site, status, range : ErrorAnswer(site, status, range).path = <<>>
  /\ \A deed, path : Do(deed, path).deed = deed
BY DEF Answer, FileAnswer, ErrorAnswer, Plain, Do

\* resolvePath in the location that is meant.
LEMMA FullPathIs ==
  ASSUME NEW site, SiteOK(site), site.index = <<>>, NEW d \in Place, NEW path \in Text
  PROVE  LET rest == From(path, Len(d.path) + 1)
             file == JoinPath(d.root, IF rest = <<>> THEN <<"/">> ELSE rest)
         IN  /\ FullPath(site, d, <<d>>, path) = Placed(file, WithoutDot(d.index))
             /\ file \in Text /\ file # <<>>
<1> DEFINE rest == From(path, Len(d.path) + 1)
           sub == IF rest = <<>> THEN <<"/">> ELSE rest
           file == JoinPath(d.root, sub)
<1>1. d.path \in Text /\ d.root \in Text /\ d.index \in Text
  BY DEF Place
<1>2. <<"/">> \in Text
  <2>1. PICK k \in DOMAIN site.directories : site.directories[k].path = <<"/">>
    BY DEF SiteOK, SitePlain
  <2>2. site.directories[k] \in Place
    BY LocationsAre
  <2>3. QED
    BY <2>1, <2>2 DEF Place
<1>3. rest \in Text
  BY <1>1 DEF From, Text
<1>4. <<"/">> # <<>>
  OBVIOUS
<1> HIDE DEF rest
<1>5. sub \in Text /\ sub # <<>>
  BY <1>2, <1>3, <1>4
<1>6. GetFilePath(site, d, <<d>>, path) = file
  <2>1. <<d>> # <<>> /\ <<d>>[1] = d
    OBVIOUS
  <2>2. QED
    BY <2>1 DEF GetFilePath, rest
<1> HIDE DEF sub
<1>7. file \in Text /\ file # <<>>
  BY <1>1, <1>2, <1>5, JoinIs
<1> HIDE DEF file
<1> DEFINE full == FullPath(site, d, <<d>>, path)
<1>8. full = file \o (IF Last(file) = "/" THEN WithoutDot(IF d.index # <<>> THEN d.index ELSE <<>>)
                      ELSE <<>>)
  BY <1>6 DEF FullPath
<1> HIDE DEF full
<1>9. full = Placed(file, WithoutDot(d.index))
  BY <1>8, NoIndex DEF Placed
<1>10. QED
  BY <1>7, <1>9 DEF full, file, sub, rest

\* What handleGet sends.
LEMMA GetPath ==
  ASSUME NEW site, NEW fs, NEW d, NEW path, NEW range,
         Get(site, fs, d, path, range).path # <<>>
  PROVE  LET index == JoinPath(path, WithoutDot(d.index))
             sent == Get(site, fs, d, path, range).path
         IN  sent = path \/ (sent = index /\ index \in DOMAIN fs)
BY AnswerPaths DEF Get

\* What the router answers from a location is what it gets there, or nothing.
LEMMA ProcessPath ==
  ASSUME NEW site, NEW fs, NEW r, NEW authenticated,
         r.method \in Methods, r.form \in {"none", "other", "broken", "file"},
         Process(site, fs, r, authenticated).deed = "answer",
         Process(site, fs, r, authenticated).path # <<>>
  PROVE  LET d == Locations(site)[SecondLocation(site, r)]
             full == FullPath(site, d, Directory(site, r), PathOf(r.uri, site))
         IN  Process(site, fs, r, authenticated).path = Get(site, fs, d, full, r.range).path
<1> DEFINE d == Locations(site)[SecondLocation(site, r)]
           full == FullPath(site, d, Directory(site, r), PathOf(r.uri, site))
           p == Process(site, fs, r, authenticated)
<1>1. \/ p = Answer(307) \/ p = Answer(301) \/ p = ErrorAnswer(site, 405, r.range)
      \/ p = Do("throw", <<>>) \/ p = Execute(site, fs, r, d, full)
  BY DEF Process
<1> HIDE DEF d, full, p
<1>2. p = Execute(site, fs, r, d, full)
  BY <1>1, AnswerPaths DEF p
<1>3. \/ p = Run(site, fs, d, full, r.range) \/ p = ErrorAnswer(site, 403, r.range)
      \/ p = Get(site, fs, d, full, r.range) \/ p = Post(site, d, r.form, r.range)
      \/ p = Delete(site, fs, full, r.range)
  BY <1>2 DEF Execute, Methods
<1>4. p # Run(site, fs, d, full, r.range)
  BY AnswerPaths DEF Run, p
<1>5. p # Delete(site, fs, full, r.range)
  BY AnswerPaths DEF Delete, p
<1>6. p # Post(site, d, r.form, r.range)
  BY AnswerPaths DEF Post, p
<1>7. QED
  BY <1>3, <1>4, <1>5, <1>6, AnswerPaths DEF p, d, full

\* An upload is to the store of the location.
LEMMA ProcessUploads ==
  ASSUME NEW site, NEW fs, NEW r, NEW authenticated,
         r.method \in Methods, r.form \in {"none", "other", "broken", "file"},
         Process(site, fs, r, authenticated).deed = "upload"
  PROVE  Process(site, fs, r, authenticated).path
           = Locations(site)[SecondLocation(site, r)].store
<1> DEFINE d == Locations(site)[SecondLocation(site, r)]
           full == FullPath(site, d, Directory(site, r), PathOf(r.uri, site))
           p == Process(site, fs, r, authenticated)
<1>1. \/ p = Answer(307) \/ p = Answer(301) \/ p = ErrorAnswer(site, 405, r.range)
      \/ p = Do("throw", <<>>) \/ p = Execute(site, fs, r, d, full)
  BY DEF Process
<1>2. p.deed = "upload"
  OBVIOUS
<1> HIDE DEF d, full, p
<1>3. /\ \A status : Answer(status).deed = "answer"
      /\ \A status, path, size, range : FileAnswer(status, path, size, range).deed = "answer"
      /\ \A status, range : ErrorAnswer(site, status, range).deed = "answer"
      /\ \A deed, path : Do(deed, path).deed = deed /\ Do(deed, path).path = path
  BY DEF Answer, FileAnswer, ErrorAnswer, Plain, Do
<1>4. p = Execute(site, fs, r, d, full)
  BY <1>1, <1>2, <1>3
<1>5. CASE p \in {Run(site, fs, d, full, r.range), ErrorAnswer(site, 403, r.range)}
  BY <1>2, <1>3, <1>5 DEF Run
<1>6. CASE p = Get(site, fs, d, full, r.range)
  BY <1>2, <1>3, <1>6 DEF Get
<1>7. CASE p = Delete(site, fs, full, r.range)
  BY <1>2, <1>3, <1>7 DEF Delete
<1>8. ASSUME p = Post(site, d, r.form, r.range) PROVE p.path = d.store
  BY <1>2, <1>3, <1>8 DEF Post
<1>9. QED
  BY <1>4, <1>5, <1>6, <1>7, <1>8 DEF Execute, Methods, p, d

\* Where the answer to a straightforward request comes from.
LEMMA StraightAnswer ==
  ASSUME NEW site, SiteOK(site), NEW r \in Request, UriOK(r.uri), Straightforward(site, r),
         NEW fs, NEW authenticated, NEW sent, sent # <<>>,
         \A k \in DOMAIN site.directories :
           IndexOK(WithoutDot(site.directories[k].index), DOMAIN fs),
         \/ /\ Process(site, fs, r, authenticated).deed = "answer"
            /\ sent = Process(site, fs, r, authenticated).path
         \/ sent = FullPath(site, Locations(site)[SecondLocation(site, r)],
                            Directory(site, r), PathOf(r.uri, site))
  PROVE  sent \in MeantPaths(site, PathOf(r.uri, site))
<1> DEFINE path == PathOf(r.uri, site)
           m == MeantDirectory(site, path)
           d == site.directories[m]
           x == WithoutDot(d.index)
           rest == From(path, Len(d.path) + 1)
           file == JoinPath(d.root, IF rest = <<>> THEN <<"/">> ELSE rest)
           full == FullPath(site, d, <<d>>, path)
<1>1. /\ m \in DOMAIN site.directories /\ Directory(site, r) = <<d>>
      /\ Locations(site)[SecondLocation(site, r)] = d
  BY StraightIsMeant
<1>2. path \in Text /\ site.index = <<>>
  BY PathIs DEF SiteOK, SitePlain, UriOK, Straightforward, NamesOnePlace
<1>3. d \in Place
  BY <1>1, LocationsAre
<1>4. full = Placed(file, x) /\ file \in Text /\ file # <<>>
  BY <1>2, <1>3, FullPathIs
<1>5. MeantPaths(site, path) = {file, JoinPath(file, x)}
  BY DEF MeantPaths
<1>6. IndexOK(x, DOMAIN fs)
  BY <1>1
<1>7. x \in Text
  BY <1>3, IndexTyped DEF Place
<1>8. <<"/">> \in Text
  <2>1. PICK k \in DOMAIN site.directories : site.directories[k].path = <<"/">>
    BY DEF SiteOK, SitePlain
  <2>2. site.directories[k] \in Place
    BY LocationsAre
  <2>3. QED
    BY <2>1, <2>2 DEF Place
<1> HIDE DEF file, x
<1>9. /\ full \in {file, JoinPath(file, x)}
      /\ JoinPath(full, x) \in DOMAIN fs => JoinPath(full, x) \in {file, JoinPath(file, x)}
  BY <1>4, <1>6, <1>7, <1>8, PlacedIs
<1>10. sent = full \/ (sent = JoinPath(full, x) /\ JoinPath(full, x) \in DOMAIN fs)
  <2>1. CASE sent = FullPath(site, Locations(site)[SecondLocation(site, r)],
                             Directory(site, r), PathOf(r.uri, site))
    BY <1>1, <2>1
  <2>2. CASE /\ Process(site, fs, r, authenticated).deed = "answer"
             /\ sent = Process(site, fs, r, authenticated).path
    <3>1. r.method \in Methods /\ r.form \in {"none", "other", "broken", "file"}
      BY DEF Request
    <3>2. sent = Get(site, fs, d, full, r.range).path
      BY <1>1, <2>2, <3>1, ProcessPath
    <3> HIDE DEF d, full
    <3>3. QED
      BY <3>2, GetPath DEF x
  <2>3. QED
    BY <2>1, <2>2
<1> HIDE DEF full, path
<1>11. QED
  BY <1>5, <1>9, <1>10 DEF path

(* Files are those of the deployment and uploads. *)
FilesOK == DOMAIN files \subseteq MayBeFiles(run)

LEMMA FilesOKNext ==
  ASSUME ExtensionsAreNamed
  PROVE  TypeInv /\ FilesOK /\ [Next]_vars => FilesOK' /\ run' = run
<1> SUFFICES ASSUME TypeInv, FilesOK, [Next]_vars PROVE FilesOK' /\ run' = run
  OBVIOUS
<1>1. run' = run
  BY MembersGrow
<1>2. CASE DOMAIN files' \subseteq DOMAIN files
  BY <1>1, <1>2 DEF FilesOK
<1>3. CASE files' = files
  BY <1>2, <1>3
<1>4. ASSUME NEW c \in Conns, Upload(c) PROVE FilesOK'
  <2>1. CASE files' = WithFile(UploadPath(Verdict(c).path, conn[c].sid), conn[c].ask.size)
    <3> DEFINE r == conn[c].ask.request
               l == Locations(dep.site)[SecondLocation(dep.site, r)]
    <3>1. conn[c].phase = "ready" /\ Verdict(c).deed = "upload"
      BY <1>4 DEF Upload, Routes
    <3>2. conn[c].ask \in dep.asks /\ conn[c].sid \in Nat /\ run \in DOMAIN Deployments
      BY <3>1, ConnParts, TypeParts DEF Busy, Phases
    <3>3. SiteOK(dep.site) /\ UriOK(r.uri)
      BY <3>2, SitesAreOK
    <3>4. SecondLocation(dep.site, r) \in DOMAIN Locations(dep.site)
      BY <3>3, LocationFound
    <3>5. Verdict(c).path = l.store
      <4>1. dep.asks \subseteq Ask
        BY <3>2, DepFacts
      <4>2. r.method \in Methods /\ r.form \in {"none", "other", "broken", "file"}
        BY <3>2, <4>1 DEF Ask, Request
      <4>3. QED
        BY <3>1, <4>2, ProcessUploads DEF Verdict
    <3> DEFINE p == UploadPath(Verdict(c).path, conn[c].sid)
    <3>6. p \in MayBeFiles(run)
      BY <3>2, <3>4, <3>5 DEF MayBeFiles, dep
    <3> HIDE DEF p
    <3>7. DOMAIN files' = DOMAIN files \cup {p}
      BY <2>1 DEF WithFile, p
    <3>8. QED
      BY <1>1, <3>6, <3>7 DEF FilesOK
  <2>2. QED
    BY <1>3, <1>4, <2>1 DEF Upload, RouterFails
<1>5. ASSUME NEW c \in Conns, DeleteFile(c) PROVE FilesOK'
  BY <1>2, <1>3, <1>5 DEF DeleteFile, RouterFails
<1>6. ASSUME NEW c \in Conns, Handle(c) PROVE FilesOK'
  <2>1. CASE Launch(c) \/ AnswerPage(c) \/ ReportError(c)
    BY <1>3, <2>1 DEF Launch, AnswerPage, ReportError, RouterFails
  <2>2. QED
    BY <1>3, <1>4, <1>5, <1>6, <2>1
       DEF Handle, ReadHead, ReadBody, ReadBodyFails, Throw, RelayHead, FinishCgi, FailCgi, Drop
<1>7. CASE \E c \in Conns : Environment(c)
  BY <1>3, <1>7 DEF Environment, Connect, Send, CgiWrites, CgiExits
<1>8. CASE Stop \/ UNCHANGED vars \/ (\E a \in replies : Receive(a))
             \/ \E s \in DOMAIN sessions : Expire(s)
  BY <1>3, <1>8 DEF Stop, vars, Receive, Expire, server
<1>9. CASE \E c \in Conns : Handle(c)
  BY <1>1, <1>6, <1>9
<1>10. QED
  BY <1>7, <1>8, <1>9 DEF Next

LEMMA PlacesNext ==
  ASSUME IndexesAreFiles, ExtensionsAreNamed
  PROVE  TypeInv /\ FilesOK /\ FileIsWhereItsLocationSays /\ [Next]_vars
           => FileIsWhereItsLocationSays'
<1> SUFFICES ASSUME TypeInv, FilesOK, FileIsWhereItsLocationSays, [Next]_vars
             PROVE  FileIsWhereItsLocationSays'
  OBVIOUS
<1>0. dep' = dep
  BY MembersGrow
<1> SUFFICES ASSUME NEW a \in replies', Straightforward(dep.site, a.ask.request),
                    a.verdict.path # <<>>
             PROVE  a.verdict.path \in MeantPaths(dep.site, PathOf(a.ask.request.uri, dep.site))
  BY <1>0 DEF FileIsWhereItsLocationSays
<1>1. CASE a \in replies
  BY <1>1 DEF FileIsWhereItsLocationSays
<1>2. CASE a \notin replies
  <2>1. PICK c \in Conns : AnswerOf(a, c)
    BY <1>2, AnswerShape
  <2> DEFINE r == conn[c].ask.request
             v == a.verdict
  <2>2. /\ conn[c].phase \in Busy /\ a.ask = conn[c].ask /\ v.deed = "answer"
        /\ v \in {Verdict(c), ErrorOf(c), Answer(200), Answer(204), ScriptAnswer(c)}
    BY <2>1 DEF AnswerOf, Busy, Phases
  <2>3. conn[c].ask \in dep.asks /\ run \in DOMAIN Deployments
    BY <2>2, ConnParts, TypeParts
  <2>4. SiteOK(dep.site) /\ UriOK(r.uri) /\ r \in Request
    <3>1. dep.asks \subseteq Ask
      BY <2>3, DepFacts
    <3>2. QED
      BY <2>3, <3>1, SitesAreOK DEF Ask
  <2>5. \A k \in DOMAIN dep.site.directories :
          IndexOK(WithoutDot(dep.site.directories[k].index), DOMAIN files)
    <3>1. \A k \in DOMAIN dep.site.directories :
            IndexOK(WithoutDot(dep.site.directories[k].index), MayBeFiles(run))
      BY <2>3 DEF IndexesAreFiles, dep
    <3>2. QED
      BY <3>1 DEF FilesOK, IndexOK
  <2>6. v = Verdict(c) \/ v = ScriptAnswer(c)
    BY <2>2, AnswerPaths DEF ErrorOf
  <2> DEFINE authenticated == Looked(c).table[Looked(c).id].authenticated
  <2>7. \/ /\ Process(dep.site, files, r, authenticated).deed = "answer"
           /\ v.path = Process(dep.site, files, r, authenticated).path
        \/ v.path = FullPath(dep.site, Locations(dep.site)[SecondLocation(dep.site, r)],
                             Directory(dep.site, r), PathOf(r.uri, dep.site))
    BY <2>2, <2>6 DEF Verdict, ScriptAnswer, Answer
  <2>8. Straightforward(dep.site, r)
    BY <2>2
  <2> HIDE DEF authenticated
  <2>9. v.path \in MeantPaths(dep.site, PathOf(r.uri, dep.site))
    BY <2>4, <2>5, <2>7, <2>8, StraightAnswer
  <2>10. QED
    BY <2>2, <2>9
<1>3. QED
  BY <1>1, <1>2

\* What is sent for a path that names its locations at its beginning is the file that the
\* configuration means by it, or its index (parseRequestLine, getMatchLocation,
\* getFilePath, resolvePath, handleGet), for every site whose indexes are files and whose
\* CGI extensions are not empty.
THEOREM FilesAreFound ==
  ASSUME IndexesAreFiles, ExtensionsAreNamed
  PROVE  Spec => []FileIsWhereItsLocationSays
<1>1. Init => FilesOK /\ FileIsWhereItsLocationSays
  BY DEF Init, FilesOK, FileIsWhereItsLocationSays, MayBeFiles, dep
<1>2. QED
  BY <1>1, TypeInit, TypeNext, FilesOKNext, PlacesNext, PTL DEF Spec
=============================================================================
