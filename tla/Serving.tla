------------------------------- MODULE Serving ------------------------------
(***************************************************************************)
(* Several browsers on several connections: what a request meets between   *)
(* its first byte and its answer, with everything the requests share --    *)
(* the sessions, the temporary files, the files of the site.  Composes     *)
(* Router, Sessions and BodyFiles.                                         *)
(*                                                                         *)
(* EventLoop has the same handlers with each request reduced to its parse  *)
(* result.  Here requests are whole, and the loop is reduced to one        *)
(* handler at a time, in any order: every send() takes the whole buffer,   *)
(* one read() brings the head or one part of the body, and the pipe of a   *)
(* CGI is read and relayed in one step.                                    *)
(***************************************************************************)
EXTENDS Router, Sessions, BodyFiles

CONSTANTS
  Conns,          \* descriptors of connections
  Browsers,       \* each with its cookies
  Nobody,
  Deployments,    \* what is served, and what may happen, in each of several runs
  AuthorName(_)   \* how a session id is written in the name of a file

ASSUME PeersAssumption == Nobody \notin Browsers

(* What a browser asks: a Router request, the number of parts of its body, whether the
   connection is kept, and whether the CGI's answer names a user. *)
Ask == [request: Request, size: Nat, keep: BOOLEAN, names: BOOLEAN]

(* asks: what may be asked.  most: how many requests are made.  conns and browsers:
   who takes part.  fails: the disk may fill up, fork() and the CGIs may fail.  expires: an
   hour may pass.  Every site has a location "/", and every request's path begins with
   "/": without them the code follows null pointers (see the README).  A location has
   no extension unless it is one for files, and then no path (setServerLocations). *)
ASSUME DeploymentsAssumption ==
  \A i \in DOMAIN Deployments : LET d == Deployments[i] IN
    /\ d.site \in Site
    /\ \E k \in DOMAIN d.site.directories : d.site.directories[k].path = <<"/">>
    /\ \A k \in DOMAIN d.site.directories : d.site.directories[k].extension = <<>>
    /\ \A k \in DOMAIN d.site.files : d.site.files[k].path = <<>>
    /\ DOMAIN d.files \subseteq Text /\ d.files \in [DOMAIN d.files -> Nat]
    /\ \A a \in d.asks : a \in Ask /\ a.request.uri # <<>> /\ Head(a.request.uri) = "/"
    /\ d.most \in 0 .. MaxRequests
    /\ d.conns \subseteq Conns /\ d.browsers \subseteq Browsers
    /\ d.fails \in BOOLEAN /\ d.expires \in BOOLEAN

VARIABLES
  run,        \* which of the deployments, which never changes
  up,         \* run() has not returned
  sessions,   \* SessionManager::_sessions
  disk,       \* the temporary files
  files,      \* the files of the site, with their sizes
  conn,       \* the Client behind each descriptor
  jar,        \* the cookie each browser has
  replies,    \* what was sent and not yet received
  asked,      \* how many requests were made
  members,    \* the browsers that have logged in (history)
  delivered   \* bodies that reached an upload or a CGI (history)

server == <<sessions, disk, files, conn>>
dep == Deployments[run]
vars == <<run, up, sessions, disk, files, conn, jar, replies, asked, members, delivered>>

Phases == {"closed", "idle", "sent", "body", "ready", "refused", "cgi", "stuck"}

(* A Client with its Request and Response.  n numbers the request; presented is the
   cookie it came with, cookie the one in the headers of its answer.  cgi: how the
   process stands; wrote: its headers are written; streamed: they are relayed. *)
ClosedConn ==
  [owner |-> Nobody, phase |-> "closed", n |-> 0, ask |-> <<>>, sid |-> None,
   presented |-> None, cookie |-> None, body |-> NoBody, cgi |-> "none",
   wrote |-> FALSE, streamed |-> FALSE]

(* addClient makes a Client unless there is one. *)
AddClient(c, b) == [conn[c] EXCEPT !.owner = b, !.phase = "idle"]

(* (mutant) The descriptor is closed, and its Client stays in the table. *)
KeepClient(c) == [conn[c] EXCEPT !.owner = Nobody, !.phase = "closed"]

RemoveClient(c) == ClosedConn

(* What is on its way to a browser: a whole answer, or the head and the end of one that
   is streamed.  guarded: the page is from a location that asks for a login.  session:
   the session it was answered under.  login: it reports a login. *)
Reply(c, part, verdict) ==
  [to |-> conn[c].owner, n |-> conn[c].n, part |-> part, verdict |-> verdict,
   ask |-> conn[c].ask, cookie |-> conn[c].cookie, presented |-> conn[c].presented,
   session |-> conn[c].sid, guarded |-> FALSE, login |-> FALSE]

Init ==
  /\ run \in DOMAIN Deployments
  /\ up = TRUE
  /\ sessions = <<>> /\ disk = EmptyDisk /\ files = dep.files
  /\ conn = [c \in Conns |-> ClosedConn]
  /\ jar = [b \in Browsers |-> None]
  /\ replies = {} /\ asked = 0 /\ members = {} /\ delivered = {}

-----------------------------------------------------------------------------
(* Browsers *)

Connect(c) ==
  /\ up /\ c \in dep.conns /\ conn[c].phase = "closed"
  /\ \E b \in dep.browsers : conn' = [conn EXCEPT ![c] = AddClient(c, b)]
  /\ UNCHANGED <<run, up, sessions, disk, files, jar, replies, asked, members, delivered>>

(* A browser waits for the answer before it asks again on the same connection. *)
Send(c) ==
  /\ up /\ conn[c].phase = "idle" /\ asked < dep.most
  /\ \A a \in replies : a.n # conn[c].n
  /\ \E a \in dep.asks :
       conn' = [conn EXCEPT ![c].phase = "sent", ![c].n = asked + 1, ![c].ask = a,
                            ![c].presented = jar[conn[c].owner]]
  /\ asked' = asked + 1
  /\ UNCHANGED <<run, up, sessions, disk, files, jar, replies, members, delivered>>

(* Answers on different connections arrive in any order. *)
Receive(a) ==
  /\ a \in replies
  /\ a.part = "end" => \A h \in replies : h.n = a.n => h.part # "head"
  /\ replies' = replies \ {a}
  /\ jar' = IF a.cookie = None THEN jar ELSE [jar EXCEPT ![a.to] = a.cookie]
  /\ UNCHANGED <<run, up, server, asked, members, delivered>>

-----------------------------------------------------------------------------
(* Reading: processRead, with setSession once the request is complete. *)

SetSession(c, k) ==
  LET requested == EnsureSessionId(k.sid, k.presented)
      found == GetSession(sessions, requested)
  IN  /\ sessions' = found.table
      /\ conn' = [conn EXCEPT ![c] =
                   [k EXCEPT !.sid = found.id,
                             !.cookie = IF found.id = requested THEN None ELSE found.id]]

ReadHead(c) ==
  /\ up /\ conn[c].phase = "sent"
  /\ IF conn[c].ask.size = 0 THEN SetSession(c, [conn[c] EXCEPT !.phase = "ready"])
     ELSE conn' = [conn EXCEPT ![c].phase = "body"] /\ UNCHANGED sessions
  /\ UNCHANGED <<run, up, disk, files, jar, replies, asked, members, delivered>>

PartsRead(body) == IF body.inDisk THEN body.at ELSE Len(body.memory)

ReadBody(c) ==
  LET k == conn[c]
      next == PartsRead(k.body) + 1
      both == AppendBody(disk, k.body, k.n, <<k.n, next>>)
  IN  /\ up /\ k.phase = "body"
      /\ disk' = both.disk
      /\ IF next = k.ask.size
         THEN SetSession(c, [k EXCEPT !.phase = "ready", !.body = both.body])
         ELSE conn' = [conn EXCEPT ![c].body = both.body] /\ UNCHANGED sessions
      /\ UNCHANGED <<run, up, files, jar, replies, asked, members, delivered>>

(* PARSE_ERROR *)
ReadBodyFails(c) ==
  /\ up /\ conn[c].phase = "body" /\ dep.fails /\ MayFail(conn[c].body)
  /\ \E both \in AppendFails(disk, conn[c].body, conn[c].n) :
       /\ disk' = both.disk
       /\ SetSession(c, [conn[c] EXCEPT !.phase = "refused", !.body = both.body])
  /\ UNCHANGED <<run, up, files, jar, replies, asked, members, delivered>>

-----------------------------------------------------------------------------
(* Answering: processWrite.  Each handler ends in Respond, or leaves a CGI behind. *)

(* resetClientState keeps the session id of the connection. *)
ResetConn(k) ==
  [k EXCEPT !.phase = "idle", !.ask = <<>>, !.presented = None, !.cookie = None,
            !.body = NoBody, !.cgi = "none", !.wrote = FALSE, !.streamed = FALSE]

(* What Client::~Client, cleanupCgi and resetClientState leave of the disk. *)
WithoutRequest(d, k) ==
  LET cleaned == Cleanup(d, k.body)
  IN  IF k.phase = "cgi" THEN RemoveInput(cleaned, k.n) ELSE cleaned

(* The answer is sent, the request is reset, and the connection closed or kept. *)
Respond(c, reply) ==
  /\ replies' = replies \cup {reply}
  /\ conn' = [conn EXCEPT ![c] = IF reply.verdict.closes \/ ~conn[c].ask.keep
                                 THEN RemoveClient(c) ELSE ResetConn(conn[c])]
  /\ disk' = WithoutRequest(disk, conn[c])

(* processRequest for a client that is not in PARSE_OK. *)
ReportError(c) ==
  /\ up /\ conn[c].phase = "refused"
  /\ Respond(c, Reply(c, "whole", ErrorAnswer(dep.site, 500, conn[c].ask.request.range)))
  /\ UNCHANGED <<run, up, sessions, files, jar, asked, members, delivered>>

(* A page is guarded if the location that serves it asks for a login. *)
Guarded(c, verdict) ==
  /\ verdict.status # 307
  /\ Locations(dep.site)[SecondLocation(dep.site, conn[c].ask.request)].auth
RoutedReply(c, part, verdict) ==
  [Reply(c, part, verdict) EXCEPT !.guarded = Guarded(c, verdict)]

(* handleRouteProtected looks the session up; it may be a new one by now. *)
Looked(c) == GetSession(sessions, conn[c].sid)

(* (mutant) Having a session is enough. *)
VerdictForAnyone(c) == Process(dep.site, files, conn[c].ask.request, TRUE)

Verdict(c) ==
  Process(dep.site, files, conn[c].ask.request,
          Looked(c).table[Looked(c).id].authenticated)

Routes(c, deed) ==
  /\ up /\ conn[c].phase = "ready" /\ Verdict(c).deed = deed
  /\ sessions' = Looked(c).table
  /\ UNCHANGED <<run, jar, asked, members>>

AnswerPage(c) ==
  /\ Routes(c, "answer")
  /\ Respond(c, RoutedReply(c, "whole", Verdict(c)))
  /\ UNCHANGED <<up, files, delivered>>

RouterFails(c) ==
  /\ dep.fails
  /\ Respond(c, RoutedReply(c, "whole",
                            ErrorAnswer(dep.site, 500, conn[c].ask.request.range)))
  /\ UNCHANGED <<up, files, delivered>>

(* A body, as an upload or a CGI gets it. *)
Delivery(c) == [n |-> conn[c].n, size |-> conn[c].ask.size,
                data |-> WholeBody(disk, conn[c].body),
                shared |-> \/ conn[c].body.late
                           \/ conn[c].body.inDisk /\ Overtaken(disk, conn[c].body)]

(* saveFile *)
UploadPath(store, sid) == store \o <<"/", AuthorName(sid), "-", "f">>
WithFile(path, size) ==
  [p \in DOMAIN files \cup {path} |-> IF p = path THEN size ELSE files[p]]

Upload(c) ==
  /\ Routes(c, "upload")
  /\ \/ /\ files' = WithFile(UploadPath(Verdict(c).path, conn[c].sid), conn[c].ask.size)
        /\ delivered' = delivered \cup {Delivery(c)}
        /\ Respond(c, RoutedReply(c, "whole", Answer(200)))
        /\ UNCHANGED up
     \/ RouterFails(c)

DeleteFile(c) ==
  /\ Routes(c, "delete")
  /\ \/ /\ files' = [p \in DOMAIN files \ {Verdict(c).path} |-> files[p]]
        /\ Respond(c, RoutedReply(c, "whole", Answer(204)))
        /\ UNCHANGED <<up, delivered>>
     \/ RouterFails(c)

(* launchCgi: the CGI holds the only copy of its input, and the client its own body. *)
Launch(c) ==
  /\ Routes(c, "run")
  /\ \/ /\ disk' = CreateInput(disk, conn[c].n)
        /\ delivered' = delivered \cup {Delivery(c)}
        /\ conn' = [conn EXCEPT ![c].phase = "cgi", ![c].cgi = "running"]
        /\ UNCHANGED <<up, files, replies>>
     \/ RouterFails(c)

(* shutDownProcessor, and the destructors when main() returns. *)
ShutDown ==
  LET clients == {c \in Conns : conn[c].phase # "closed"}
      named == {conn[c].body.name : c \in {k \in clients : conn[k].body.file # NoFile}}
      inputs == {conn[c].n : c \in {k \in clients : conn[k].phase = "cgi"}}
  IN  /\ up' = FALSE
      /\ disk' = [disk EXCEPT !.entry = [k \in DOMAIN @ |-> IF k \in named THEN NoFile ELSE @[k]],
                              !.inputs = @ \ inputs]
      /\ conn' = [c \in Conns |-> ClosedConn]

(* An exception of a handler ends run(). *)
Throw(c) ==
  /\ Routes(c, "throw")
  /\ ShutDown
  /\ UNCHANGED <<files, replies, delivered>>

-----------------------------------------------------------------------------
(* CGIs *)

CgiWrites(c) ==
  /\ conn[c].phase = "cgi" /\ conn[c].cgi = "running" /\ ~conn[c].wrote
  /\ conn' = [conn EXCEPT ![c].wrote = TRUE]
  /\ UNCHANGED <<run, up, sessions, disk, files, jar, replies, asked, members, delivered>>

CgiExits(c) ==
  /\ conn[c].phase = "cgi" /\ conn[c].cgi = "running"
  /\ \E end \in IF dep.fails THEN {"ok", "failed"} ELSE {"ok"} : conn' = [conn EXCEPT ![c].cgi = end]
  /\ UNCHANGED <<run, up, sessions, disk, files, jar, replies, asked, members, delivered>>

ScriptAnswer(c) ==
  LET r == conn[c].ask.request
  IN  [Answer(200) EXCEPT !.path =
         FullPath(dep.site, Locations(dep.site)[SecondLocation(dep.site, r)],
                  Directory(dep.site, r), PathOf(r.uri, dep.site))]

(* handleCgiIO in CGI_JUST_STARTED: the headers are sent as soon as they are there. *)
RelayHead(c) ==
  /\ up /\ conn[c].phase = "cgi" /\ conn[c].wrote /\ ~conn[c].streamed
  /\ replies' = replies \cup {RoutedReply(c, "head", ScriptAnswer(c))}
  /\ conn' = [conn EXCEPT ![c].streamed = TRUE]
  /\ UNCHANGED <<run, up, sessions, disk, files, jar, asked, members, delivered>>

(* (mutant) The user is looked for before the last headers are. *)
NamesUserEarly(c) == conn[c].streamed /\ conn[c].ask.names

NamesUser(c) == conn[c].wrote /\ conn[c].ask.names

(* The end of an answer.  Headers that were sent are not sent again; a Set-Cookie that
   applyAuthFromResponse adds comes too late for either. *)
LastReply(c) ==
  [RoutedReply(c, IF conn[c].streamed THEN "end" ELSE "whole", ScriptAnswer(c)) EXCEPT
     !.cookie = IF conn[c].streamed THEN None ELSE conn[c].cookie,
     !.login = conn[c].wrote /\ conn[c].ask.names]

(* handleCgiIO in CGI_COMPLETED.  The connection goes on with the session that was
   marked; the next cookie of its browser decides which that is. *)
FinishCgi(c) ==
  /\ up /\ conn[c].phase = "cgi" /\ conn[c].cgi = "ok"
  /\ sessions' = IF NamesUser(c) THEN ApplyAuth(sessions, conn[c].sid).table ELSE sessions
  /\ members' = IF NamesUser(c) THEN members \cup {conn[c].owner} ELSE members
  /\ replies' = replies \cup {LastReply(c)}
  /\ conn' = [conn EXCEPT ![c] =
       IF ~conn[c].ask.keep THEN RemoveClient(c)
       ELSE [ResetConn(conn[c]) EXCEPT
               !.sid = IF NamesUser(c) THEN ApplyAuth(sessions, conn[c].sid).id ELSE @]]
  /\ disk' = WithoutRequest(disk, conn[c])
  /\ UNCHANGED <<run, up, files, jar, asked, delivered>>

(* Once the headers are sent there is no way to report the failure, nor an end. *)
FailCgi(c) ==
  /\ up /\ conn[c].phase = "cgi" /\ conn[c].cgi = "failed"
  /\ IF conn[c].streamed
     THEN /\ conn' = [conn EXCEPT ![c].phase = "stuck", ![c].cgi = "none"]
          /\ disk' = RemoveInput(disk, conn[c].n)
          /\ UNCHANGED replies
     ELSE Respond(c, RoutedReply(c, "whole",
                       ErrorAnswer(dep.site, 500, conn[c].ask.request.range)))
  /\ UNCHANGED <<run, up, sessions, files, jar, asked, members, delivered>>

-----------------------------------------------------------------------------
(* removeDeadConnections, closeIdleConnection, time, and the end *)

Drop(c) ==
  /\ up /\ conn[c].phase # "closed"
  /\ conn' = [conn EXCEPT ![c] = RemoveClient(c)]
  /\ disk' = WithoutRequest(disk, conn[c])
  /\ UNCHANGED <<run, up, sessions, files, jar, replies, asked, members, delivered>>

Expire(s) ==
  /\ up /\ dep.expires /\ ~sessions[s].expired
  /\ sessions' = [sessions EXCEPT ![s].expired = TRUE]
  /\ UNCHANGED <<run, up, disk, files, conn, jar, replies, asked, members, delivered>>

Stop ==
  /\ up /\ ShutDown
  /\ UNCHANGED <<run, sessions, files, jar, replies, asked, members, delivered>>

Handle(c) ==
  \/ ReadHead(c) \/ ReadBody(c) \/ ReadBodyFails(c) \/ ReportError(c)
  \/ AnswerPage(c) \/ Upload(c) \/ DeleteFile(c) \/ Launch(c) \/ Throw(c)
  \/ RelayHead(c) \/ FinishCgi(c) \/ FailCgi(c) \/ Drop(c)

Environment(c) == Connect(c) \/ Send(c) \/ CgiWrites(c) \/ CgiExits(c)

Next ==
  \/ \E c \in Conns : Handle(c) \/ Environment(c)
  \/ \E a \in replies : Receive(a)
  \/ \E s \in DOMAIN sessions : Expire(s)
  \/ Stop

Spec == Init /\ [][Next]_vars
-----------------------------------------------------------------------------
(* Properties *)

(* The state keeps its shape. *)
AnyAsk == {<<>>} \cup (UNION {Deployments[i].asks : i \in DOMAIN Deployments})
ConnType ==
  [owner: Browsers \cup {Nobody}, phase: Phases, n: 0 .. MaxRequests,
   ask: AnyAsk, sid: Nat, presented: Nat,
   cookie: Nat, body: Body, cgi: {"none", "running", "ok", "failed"},
   wrote: BOOLEAN, streamed: BOOLEAN]
TypeOK ==
  /\ run \in DOMAIN Deployments
  /\ up \in BOOLEAN
  /\ sessions \in SessionTable
  /\ disk \in Disk
  /\ files \in [DOMAIN files -> Nat]
  /\ conn \in [Conns -> ConnType]
  /\ jar \in [Browsers -> Nat]
  /\ asked \in 0 .. dep.most
  /\ members \subseteq Browsers
  /\ \A a \in replies : a.to \in Browsers /\ a.n \in Requests /\ a.cookie \in Nat
  /\ \A d \in delivered : d.n \in Requests /\ d.data \in Seq(Part)

(* The ids that concern a browser: in its jar, on its connections, on their way to it. *)
Held(k) == {k.sid, k.presented, k.cookie} \ {None}
Told(a) == {a.cookie, a.session} \ {None}
Holds(b, s) ==
  \/ s = jar[b] /\ s # None
  \/ \E c \in Conns : conn[c].owner = b /\ s \in Held(conn[c])
  \/ \E a \in replies : a.to = b /\ s \in Told(a)

(* No two browsers ever share a session, however connections, descriptors and cookies
   come and go. *)
SessionsArePrivate ==
  \A s \in DOMAIN sessions : \A b1, b2 \in Browsers : Holds(b1, s) /\ Holds(b2, s) => b1 = b2

(* A request is answered under the session its browser asked for, or under one that the
   answer tells the browser of: not under what the connection was used for before. *)
TellsSession ==
  \A c \in Conns : conn[c].phase \in {"ready", "refused", "cgi", "stuck"} =>
    conn[c].sid # None /\ conn[c].sid \in {conn[c].presented, conn[c].cookie}

(* A page of a location that asks for a login, asked for by a URI that names no other
   place, reaches those only who have logged in, whatever the order in which logins,
   cookies and requests cross. *)
GateHolds ==
  \A a \in replies : a.guarded /\ NamesOnePlace(dep.site, a.ask.request) => a.to \in members

(* The same of every URI.  Violated: handleRouteProtected asks the location that
   parseRequestLine looked up in the URI with its query, whose end may be taken for an
   extension, and not the location that process looks up for the page. *)
GateHoldsForAll == \A a \in replies : a.guarded => a.to \in members

(* Who is told of a login has the session it was made under logged in, for as long as
   the session lives. *)
LoginSticks ==
  \A a \in replies : a.login =>
    \/ a.session \in DOMAIN sessions /\ sessions[a.session].authenticated
    \/ a.session \in DOMAIN sessions /\ sessions[a.session].expired

(* An upload or a CGI gets every part of the body that was sent, in order, unless as many
   other bodies went to files while it was in its file as there are names, or its own
   name was given to it while another was still in that file. *)
DeliveredIsSent == \A d \in delivered : ~d.shared => d.data = Sent(d.n, d.size)

(* A temporary file is that of a request at hand; none is left when the server stops. *)
NoFileLeft ==
  /\ \A name \in DOMAIN disk.entry : disk.entry[name] # NoFile =>
       \E c \in Conns : conn[c].body.file # NoFile /\ conn[c].body.name = name
  /\ \A n \in disk.inputs : \E c \in Conns : conn[c].phase = "cgi" /\ conn[c].n = n

(* What is sent for a straightforward path is the file that the configuration means by
   it, or its index: the rest of the path, under the root of its location. *)
MeantPaths(site, path) ==
  LET d == site.directories[MeantDirectory(site, path)]
      rest == From(path, Len(d.path) + 1)
      file == JoinPath(d.root, IF rest = <<>> THEN <<"/">> ELSE rest)
  IN  {file, JoinPath(file, WithoutDot(d.index))}
FileIsWhereItsLocationSays ==
  \A a \in replies :
    /\ Straightforward(dep.site, a.ask.request)
    /\ a.verdict.path # <<>>
    => a.verdict.path \in MeantPaths(dep.site, PathOf(a.ask.request.uri, dep.site))

(* A partial answer is a part of the file, no larger than is allowed, that begins where
   it was asked to. *)
SliceFits ==
  \A a \in replies : LET v == a.verdict IN v.status = 206 =>
    /\ 0 <= v.first /\ v.first <= v.last /\ v.last < v.size
    /\ v.last - v.first < MaxSlice
    /\ a.ask.request.range.start \in {Open, v.first}
=============================================================================
