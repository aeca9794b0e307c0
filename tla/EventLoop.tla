------------------------------ MODULE EventLoop ------------------------------
(***************************************************************************)
(* The poll loop of the server: http::EventProcessor with the Client and   *)
(* Cgi objects it drives.  One thread alternates between poll(), accept()  *)
(* and a scan of the poll array _allSockets that may push CGI pipes onto   *)
(* the array, and erase entries from it, while the scan index walks it.    *)
(* The handler of one entry is one step; the peers, the CGI processes, the *)
(* clock and SIGINT act between any two steps of the server.               *)
(*                                                                         *)
(* Data is reduced to presence: a buffer is empty or not, a socket or pipe *)
(* has bytes or not.  The bytes themselves are the subject of CgiStream    *)
(* (CGI output) and RequestParser (requests).  Listening sockets sit at    *)
(* the front of _allSockets and never move: they are left out of socks,    *)
(* and a connection arrives at the step that accepts it.                   *)
(***************************************************************************)
EXTENDS Naturals, FiniteSets, Sequences, SequencesExt

CONSTANTS
  Fds,        \* file descriptors available for client sockets and CGI pipes
  NoFd,       \* the value -1 of Client::_cgiOutputFd
  MaxClients, \* bound on the connections open at a time
  Routes,     \* what the requests of the peers ask for
  Endings,    \* how a peer may end its connection
  Exits,      \* how a CGI process may exit
  Setups      \* the deployments considered, see Setup

(***************************************************************************)
(* A deployment: whether send() may take only part of a buffer, and        *)
(* whether Cgi::executeCgi may fail (no permission, mkstemp, pipe, fork).  *)
(***************************************************************************)
Setup == [shortSends: BOOLEAN, launchFails: BOOLEAN]

(***************************************************************************)
(* With both, processWrite may launch the CGI again while the 500 of the   *)
(* failed launch is still being sent (nothing in the code prevents it: see *)
(* NoSendAfterLaunch); what follows goes through a reference to a poll     *)
(* array entry that registerCgi's push_back may have moved.  The           *)
(* invariants are about the other deployments, and some leave out the last *)
(* round after a SIGINT (~stop): it handles revents that no longer match   *)
(* the clients' states.                                                    *)
(***************************************************************************)
SafeSetup(s) == ~(s.shortSends /\ s.launchFails)

ASSUME FdsAssumption == NoFd \notin Fds
ASSUME SetupsAssumption == Setups \subseteq Setup
ASSUME RoutesAssumption == Routes \subseteq {"page", "cgi"}
ASSUME EndingsAssumption == Endings \subseteq {"fin", "reset"}
ASSUME ExitsAssumption == Exits \subseteq {"ok", "failed"}
ASSUME MaxClientsAssumption == MaxClients \in Nat

VARIABLES
  setup,    \* the deployment, fixed at start
  pc,       \* where run() is: "poll", "accept", "scan" or "stopped"
  stop,     \* SIGINT came during poll(): this round is the last
  idx,      \* the scan index i (0 while not scanning)
  socks,    \* _allSockets after the listeners: a sequence of pollfd
  clients,  \* the keys of ClientManager::_clients
  client,   \* the Client objects
  cgis,     \* the keys of _cgi_by_fd
  cgi,      \* the Cgi objects
  open,     \* the kernel's descriptor table: what each descriptor is
  peer,     \* the peer of each client socket and the socket's buffers
  proc,     \* the CGI process at the other end of each pipe, and the pipe
  badClose  \* descriptors on which close() was called when not open

loop == <<setup, pc, stop, idx>>
tables == <<socks, clients, client, cgis, cgi>>
kernel == <<open, peer, proc, badClose>>
vars == <<setup, pc, stop, idx, socks, clients, client, cgis, cgi,
          open, peer, proc, badClose>>

-----------------------------------------------------------------------------
(* Values *)

\* The states a Client can be in between two handlers; READ_SUCCESS is
\* overwritten by the parser within the handler that sets it.
Idle      == {"RESET", "READ_ERROR", "READ_EMPTY", "PARSE_INCOMPLETE"}
Parsed    == {"PARSE_OK", "PARSE_TOO_LARGE", "PARSE_ERROR"}
CgiStates == {"CGI_JUST_STARTED", "CGI_COMPLETED"}
States    == Idle \cup Parsed \cup CgiStates

Client == [state: States,
           route: Routes \cup {"page"},
           status: BOOLEAN,     \* the Response has a status line
           close: BOOLEAN,      \* its Connection header says close
           chunked: BOOLEAN,    \* Response::_isChunked
           stage: {"headers", "body", "finished"},  \* Response::_chunkState
           out: BOOLEAN,        \* Response::_outBuffer is not empty
           wbuf: BOOLEAN,       \* Client::_writeBuffer is not empty
           cgiOut: Fds \cup {NoFd},  \* _cgiOutputFd (_cgiPid is set with it)
           stale: BOOLEAN]      \* _lastAction is older than alive_timeout

NewClient == [state |-> "RESET", route |-> "page", status |-> FALSE,
              close |-> FALSE, chunked |-> FALSE, stage |-> "headers",
              out |-> FALSE, wbuf |-> FALSE, cgiOut |-> NoFd, stale |-> FALSE]

\* (mutant) the response survives the reset.
ResetKeepsResponse(c) == [c EXCEPT !.state = "RESET", !.wbuf = FALSE]

\* ClientManager::resetClientState: the request and the response are new,
\* the connection and its CGI fields are kept.
ResetClientState(c) == [NewClient EXCEPT !.cgiOut = c.cgiOut, !.stale = c.stale]

Cgi == [client: Fds \cup {NoFd},
        buffer: BOOLEAN,                    \* _outputBuffer is not empty
        exit: {"unknown", "ok", "failed"}]  \* _hasFinished and _status

NoCgi == [client |-> NoFd, buffer |-> FALSE, exit |-> "unknown"]

Peer == [data: BOOLEAN,                \* bytes wait in the receive buffer
         full: BOOLEAN,                \* the send buffer has no room
         end: {"up", "fin", "reset"}]  \* what the peer did to the connection

NewPeer == [data |-> FALSE, full |-> FALSE, end |-> "up"]

Proc == [data: BOOLEAN,  \* bytes wait in the pipe
         life: {"writing", "closed", "ok", "failed", "gone"}]
         \* closed: stdout closed, not exited; ok, failed: exited, a zombie

NewProc  == [data |-> FALSE, life |-> "writing"]
GoneProc == [data |-> FALSE, life |-> "gone"]

PollFd == [fd: Fds, events: SUBSET {"IN", "OUT"},
           revents: SUBSET {"IN", "OUT", "HUP"}]  \* HUP: also ERR and NVAL

\* The first entry with this descriptor, as the search loop of cleanupCgi.
FirstAt(s, fd) == CHOOSE k \in 1..Len(s) :
                    /\ s[k].fd = fd
                    /\ \A j \in 1..(k - 1) : s[j].fd # fd
Without(s, fd) == IF \E k \in 1..Len(s) : s[k].fd = fd
                  THEN RemoveAt(s, FirstAt(s, fd)) ELSE s

Init ==
  /\ setup \in Setups
  /\ pc = "poll" /\ stop = FALSE /\ idx = 0
  /\ socks = <<>> /\ clients = {} /\ cgis = {}
  /\ client = [f \in Fds |-> NewClient]
  /\ cgi = [f \in Fds |-> NoCgi]
  /\ open = [f \in Fds |-> "free"]
  /\ peer = [f \in Fds |-> NewPeer]
  /\ proc = [f \in Fds |-> GoneProc]
  /\ badClose = {}

-----------------------------------------------------------------------------
(* poll() and accept() *)

\* What the kernel reports for an entry.
Revents(e) ==
  LET f == e.fd IN
  CASE open[f] = "socket" ->
         (IF "IN" \in e.events /\ (peer[f].data \/ peer[f].end # "up")
            THEN {"IN"} ELSE {})
         \cup (IF "OUT" \in e.events /\ (~peer[f].full \/ peer[f].end = "reset")
            THEN {"OUT"} ELSE {})
         \cup (IF peer[f].end = "reset" THEN {"HUP"} ELSE {})
    [] open[f] = "pipe" ->
         (IF "IN" \in e.events /\ proc[f].data THEN {"IN"} ELSE {})
         \cup (IF proc[f].life # "writing" THEN {"HUP"} ELSE {})
    [] open[f] = "free" -> {"HUP"}

\* One round of run(): poll() returns, at once or after its timeout.
Poll ==
  /\ pc = "poll" /\ ~stop
  /\ socks' = [k \in 1..Len(socks) |->
                 [socks[k] EXCEPT !.revents = Revents(socks[k])]]
  /\ pc' = "accept"
  /\ UNCHANGED <<setup, stop, idx, clients, client, cgis, cgi, kernel>>

\* SIGINT interrupts it: the error is logged and the round goes on with the
\* revents of the round before, the flag being read only at its end.
PollInterrupted ==
  /\ pc = "poll" /\ ~stop
  /\ pc' = "accept" /\ stop' = TRUE
  /\ UNCHANGED <<setup, idx, tables, kernel>>

\* One turn of the loop of acceptConnections.
AcceptOne ==
  /\ pc = "accept" /\ Cardinality(clients) < MaxClients
  /\ \E f \in Fds :
       /\ open[f] = "free"
       /\ open' = [open EXCEPT ![f] = "socket"]
       /\ peer' = [peer EXCEPT ![f] = NewPeer]
       /\ socks' = Append(socks, [fd |-> f, events |-> {"IN"}, revents |-> {}])
       /\ clients' = clients \cup {f}
       /\ client' = [client EXCEPT ![f] = NewClient]
  /\ UNCHANGED <<loop, cgis, cgi, proc, badClose>>

\* EAGAIN, an error of accept(), or no connection reported by poll().
AcceptEnd ==
  /\ pc = "accept"
  /\ pc' = "scan" /\ idx' = 1
  /\ UNCHANGED <<setup, stop, tables, kernel>>

-----------------------------------------------------------------------------
(* The scan: handleClientIndex on the entry at the index *)

Scanning == pc = "scan" /\ idx <= Len(socks)
Here == socks[idx]
\* (mutant) only descriptors without a client are dropped.
DeadIfUnknown(e) == "HUP" \in e.revents /\ e.fd \notin cgis \cup clients
Dead(e) == "HUP" \in e.revents /\ e.fd \notin cgis

\* The entry stays: the loop's ++i.
Advance == idx' = idx + 1 /\ UNCHANGED <<setup, pc, stop>>

ScanEnd ==
  /\ pc = "scan" /\ idx > Len(socks)
  /\ pc' = "poll" /\ idx' = 0
  /\ UNCHANGED <<setup, stop, tables, kernel>>

(***************************************************************************)
(* A handler makes several calls on the shared tables, each seeing what    *)
(* the one before it did.  Those calls are functions from tables to        *)
(* tables: an action starts from Tables and commits the result.            *)
(***************************************************************************)
Tables == [socks |-> socks, clients |-> clients, client |-> client,
           cgis |-> cgis, cgi |-> cgi, open |-> open, proc |-> proc,
           bad |-> badClose]

Commit(t) ==
  /\ socks' = t.socks /\ clients' = t.clients /\ client' = t.client
  /\ cgis' = t.cgis /\ cgi' = t.cgi
  /\ open' = t.open /\ proc' = t.proc /\ badClose' = t.bad

\* close(): of a descriptor that is not open it is a bad close.
CloseFd(t, fd) ==
  [t EXCEPT !.open[fd] = "free",
            !.bad = IF t.open[fd] = "free" THEN @ \cup {fd} ELSE @]

\* (mutants) the entry stays in the poll array; the client keeps _cgiOutputFd.
CleanupKeepsEntry(t, p) ==
  CloseFd([t EXCEPT !.cgis = @ \ {p}, !.cgi[p] = NoCgi,
    !.client[t.cgi[p].client].cgiOut = NoFd], p)
CleanupKeepsFd(t, p) ==
  CloseFd([t EXCEPT !.socks = Without(@, p), !.cgis = @ \ {p},
                    !.cgi[p] = NoCgi], p)

\* cleanupCgi: the process is killed if need be and reaped, the pipe leaves
\* the poll array and the map, the client forgets it, ~Cgi closes it.
CleanupCgi(t, p) ==
  LET f == t.cgi[p].client IN
  CloseFd([t EXCEPT
    !.socks = Without(@, p),
    !.cgis = @ \ {p},
    !.cgi[p] = NoCgi,
    !.proc[p] = GoneProc,
    !.client[f].cgiOut = NoFd], p)

\* (mutant) the new entry goes to the front.
RegisterInFront(t, p, f) ==
  [t EXCEPT
    !.socks = <<[fd |-> p, events |-> {"IN"}, revents |-> {}]>> \o @,
    !.cgis = @ \cup {p},
    !.cgi[p] = [NoCgi EXCEPT !.client = f],
    !.open[p] = "pipe",
    !.proc[p] = NewProc,
    !.client[f] = [t.client[f] EXCEPT !.cgiOut = p,
                                      !.state = "CGI_JUST_STARTED"]]

\* registerCgi, after a successful executeCgi on a free descriptor.
RegisterCgi(t, p, f) ==
  [t EXCEPT
    !.socks = Append(@, [fd |-> p, events |-> {"IN"}, revents |-> {}]),
    !.cgis = @ \cup {p},
    !.cgi[p] = [NoCgi EXCEPT !.client = f],
    !.open[p] = "pipe",
    !.proc[p] = NewProc,
    !.client[f] = [t.client[f] EXCEPT !.cgiOut = p,
                                      !.state = "CGI_JUST_STARTED"]]

\* ClientManager::removeClient; ~Client closes a _cgiOutputFd still set.
RemoveClient(t, fd) ==
  LET p == t.client[fd].cgiOut
      u == [t EXCEPT !.clients = @ \ {fd},
                     !.client[fd] = NewClient]
  IN IF p = NoFd THEN u ELSE CloseFd(u, p)

\* (mutant) the client goes without its CGI.
CloseWithoutCgi(t, fd) ==
  CloseFd([t EXCEPT !.clients = @ \ {fd}, !.socks = RemoveAt(@, idx),
                    !.client[fd] = NewClient], fd)

\* The common end of removeDeadConnections and closeClientConnection.
CloseConnection(t, fd) ==
  LET p == t.client[fd].cgiOut
      u == RemoveClient(IF p \in t.cgis THEN CleanupCgi(t, p) ELSE t, fd)
  IN CloseFd([u EXCEPT !.socks = RemoveAt(@, idx)], fd)

\* (mutant) the index moves on after an erase.
RemovedAdvances(fd) ==
  /\ peer' = [peer EXCEPT ![fd] = NewPeer]
  /\ idx' = idx + 1 /\ UNCHANGED <<setup, pc, stop>>

\* The entry at the index went away: the loop's --i and ++i.
Removed(fd) ==
  /\ peer' = [peer EXCEPT ![fd] = NewPeer]
  /\ UNCHANGED loop

\* removeDeadConnections.
DropDead ==
  /\ Scanning /\ Dead(Here)
  /\ Commit(CloseConnection(Tables, Here.fd))
  /\ Removed(Here.fd)

\* (mutant) no connection expires.
NeverExpired(c) == FALSE

\* closeIdleConnection's tests: a CGI exempts its client.
Expired(c) == c.cgiOut = NoFd /\ c.stale

\* closeIdleConnection, for an entry with nothing else to handle: the other
\* handlers have just refreshed _lastAction.
CloseIdle ==
  /\ Scanning /\ Here.revents = {}
  /\ Here.fd \in clients /\ Expired(client[Here.fd])
  /\ Commit(CloseConnection(Tables, Here.fd))
  /\ Removed(Here.fd)

\* An entry with nothing to handle stays; a CGI refreshes its client.
Pass ==
  /\ Scanning /\ Here.revents = {}
  /\ Here.fd \in clients => ~Expired(client[Here.fd])
  /\ client' = [client EXCEPT ![Here.fd].stale =
                  @ /\ client[Here.fd].cgiOut = NoFd]
  /\ Advance
  /\ UNCHANGED <<socks, clients, cgis, cgi, kernel>>

-----------------------------------------------------------------------------
(* processRead *)

ReadEntry == Scanning /\ ~Dead(Here) /\ "IN" \in Here.revents
ReadsClient == ReadEntry /\ Here.fd \in clients /\ Here.fd \notin cgis

\* read() returns 0 or fails (with EAGAIN only after an interrupted poll()):
\* the handler returns with events unchanged.
ReadNothing ==
  /\ ReadsClient
  /\ LET q == peer[Here.fd] IN
     /\ q.end = "reset" \/ ~q.data
     /\ client' = [client EXCEPT
          ![Here.fd].state = IF q.end = "fin" THEN "READ_EMPTY" ELSE "READ_ERROR",
          ![Here.fd].stale = FALSE]
  /\ Advance
  /\ UNCHANGED <<socks, clients, cgis, cgi, kernel>>

ReadsBytes ==
  /\ ReadsClient
  /\ peer[Here.fd].end # "reset" /\ peer[Here.fd].data
  /\ peer' = [peer EXCEPT ![Here.fd].data = FALSE]
  /\ Advance

\* The bytes do not complete a request.
ReadPart ==
  /\ ReadsBytes
  /\ client' = [client EXCEPT ![Here.fd].state = "PARSE_INCOMPLETE",
                              ![Here.fd].stale = FALSE]
  /\ UNCHANGED <<socks, clients, cgis, cgi, open, proc, badClose>>

\* (mutant) the entry keeps waiting for POLLIN.
ReadRequestStays ==
  /\ ReadsBytes
  /\ client' = [client EXCEPT ![Here.fd].state = "PARSE_OK",
                              ![Here.fd].stale = FALSE]
  /\ UNCHANGED <<socks, clients, cgis, cgi, open, proc, badClose>>

\* They complete one: its result is in the state, its route is what the
\* Router will do with it, and the entry now waits for POLLOUT.
ReadRequest ==
  /\ ReadsBytes
  /\ \E st \in Parsed, r \in Routes :
       client' = [client EXCEPT ![Here.fd].state = st, ![Here.fd].stale = FALSE,
                                ![Here.fd].route = r]
  /\ socks' = [socks EXCEPT ![idx].events = {"OUT"}]
  /\ UNCHANGED <<clients, cgis, cgi, open, proc, badClose>>

\* (mutants) waitpid()'s 0 taken for an exit; the exit never noticed.
FinishedIfClosed(p) == cgi[p].exit # "unknown" \/ proc[p].life # "writing"
NeverFinished(p) == cgi[p].exit # "unknown"

\* Cgi::hasFinished: waitpid() with WNOHANG reaps an exited process.
HasFinished(p) == cgi[p].exit # "unknown" \/ proc[p].life \in {"ok", "failed"}

(***************************************************************************)
(* A CGI pipe: POLLIN reads it once (BUFFER_SIZE is the pipe's capacity,   *)
(* so that one read takes all); POLLHUP, once the process is reaped, reads *)
(* it again and completes the client's request.                            *)
(***************************************************************************)
ReadPipe ==
  /\ Scanning /\ Here.fd \in cgis /\ Here.revents # {}
  /\ LET p == Here.fd
         done == "HUP" \in Here.revents /\ HasFinished(p)
         reads == "IN" \in Here.revents \/ done
     IN
     /\ cgi' = [cgi EXCEPT
          ![p].buffer = @ \/ (reads /\ proc[p].data),
          ![p].exit = IF done /\ @ = "unknown" THEN proc[p].life ELSE @]
     /\ proc' = [proc EXCEPT
          ![p].data = @ /\ ~reads,
          ![p].life = IF done THEN "gone" ELSE @]
     /\ client' = [client EXCEPT
          ![cgi[p].client].stale = @ /\ ~reads,
          ![cgi[p].client].state = IF done THEN "CGI_COMPLETED" ELSE @]
  /\ Advance
  /\ UNCHANGED <<socks, clients, cgis, open, peer, badClose>>

-----------------------------------------------------------------------------
(* processWrite: what the Response becomes, then handleResponse *)

WriteEntry == /\ Scanning /\ ~Dead(Here) /\ "OUT" \in Here.revents
              /\ Here.fd \in clients
State == client[Here.fd].state

SetClient(t, f, c) == [t EXCEPT !.client[f] = c]

\* prepareWriteBuffer.
Prepared(c) ==
  IF c.chunked THEN [c EXCEPT !.wbuf = @ \/ c.out, !.out = FALSE]
  ELSE [c EXCEPT !.wbuf = @ \/ c.status]

\* sendToClientSocket, then finalizeChunkedWrite.
Sent(c, all) ==
  [c EXCEPT !.wbuf = ~all, !.stale = FALSE,
            !.chunked = @ /\ ~(all /\ c.stage = "finished")]

\* A full send buffer is met only after an interrupted poll().
SendFails(f) == peer[f].end = "reset" \/ peer[f].full

\* handleResponse on the client of the entry, with tables t.
HandleResponse(t) ==
  LET f == Here.fd
      c == [Prepared(t.client[f]) EXCEPT !.stale = FALSE]
      Keep(d, ev) ==
        /\ Commit([SetClient(t, f, d) EXCEPT !.socks[idx].events = ev])
        /\ Advance
  IN
  \/ /\ ~c.wbuf
     /\ Keep(c, Here.events)
     /\ UNCHANGED peer
  \/ /\ c.wbuf /\ SendFails(f)
     /\ Keep(c, {"OUT"})
     /\ UNCHANGED peer
  \/ /\ c.wbuf /\ ~SendFails(f)
     /\ \E all \in IF setup.shortSends THEN BOOLEAN ELSE {TRUE} :
          LET d == Sent(c, all) IN
          IF d.wbuf \/ d.chunked
          THEN /\ Keep(d, Here.events \cup {"OUT"})
               /\ peer' = [peer EXCEPT ![f].full = ~all]
          ELSE IF ~d.close
          THEN /\ Keep(ResetClientState(d), {"IN"})
               /\ UNCHANGED peer
          ELSE /\ Commit(CloseConnection(SetClient(t, f, ResetClientState(d)), f))
               /\ Removed(f)

\* What processWrite makes of the client before handleResponse.
Writes(c) == HandleResponse(SetClient(Tables, Here.fd, c))

Responds(c, close) == [c EXCEPT !.status = TRUE, !.close = close]

\* Any response may close: buildErrorResponse forces Connection: close unless
\* an error page is read from a file, the others do what the request asks.

\* Router::process, which processRequest calls on every POLLOUT in PARSE_OK.
RouterEntry(route) == /\ WriteEntry /\ State = "PARSE_OK"
                      /\ client[Here.fd].route = route

RunPage ==
  /\ RouterEntry("page")
  /\ \E close \in BOOLEAN : Writes(Responds(client[Here.fd], close))

\* Router::launchCgi.
LaunchCgi ==
  /\ RouterEntry("cgi")
  /\ \E p \in Fds :
       /\ open[p] = "free"
       /\ LET f == Here.fd
              c == [client[f] EXCEPT !.stale = FALSE]
          IN HandleResponse(RegisterCgi(SetClient(Tables, f, c), p, f))

LaunchFails ==
  /\ RouterEntry("cgi") /\ setup.launchFails
  /\ \E close \in BOOLEAN : Writes(Responds(client[Here.fd], close))

\* processRequest in any other state: 413, or 500 by default.
ReportError ==
  /\ WriteEntry /\ State \notin CgiStates \cup {"PARSE_OK"}
  /\ \E close \in BOOLEAN : Writes(Responds(client[Here.fd], close))

-----------------------------------------------------------------------------
(* handleCgiIO *)

CgiEntry(st) == WriteEntry /\ State = st /\ client[Here.fd].cgiOut \in cgis
Out == client[Here.fd].cgiOut

\* initChunked and the status line, once the CGI's headers are complete.
StartChunked(c, close) ==
  [Responds(c, close) EXCEPT !.chunked = TRUE, !.out = TRUE, !.stage = "body"]

\* appendCgiChunk before the CGI ended: what the buffer b adds; ready says
\* whether the blank line after the headers has arrived.
Append1(c, b, ready, close) ==
  IF c.stage = "headers"
  THEN IF b /\ ready THEN StartChunked(c, close) ELSE c
  ELSE [c EXCEPT !.out = @ \/ b]

\* (mutant) the end chunk is forgotten.
AppendNoEnd(c, close) ==
  IF c.stage = "headers" THEN StartChunked(c, close) ELSE [c EXCEPT !.out = TRUE]

\* The last call: headers are made up if none came, the end chunk is added.
AppendLast(c, close) ==
  [(IF c.stage = "headers" THEN StartChunked(c, close) ELSE c) EXCEPT
     !.out = @ \/ c.stage # "finished", !.stage = "finished"]

\* CGI_JUST_STARTED: stream what has been read from the pipe.
RelayCgi ==
  /\ CgiEntry("CGI_JUST_STARTED")
  /\ \E ready, close \in BOOLEAN :
       LET f == Here.fd
           c == [Append1(client[f], cgi[Out].buffer, ready, close)
                   EXCEPT !.stale = FALSE]
           t == SetClient(Tables, f, c)
       IN HandleResponse([t EXCEPT
            !.cgi[Out].buffer = @ /\ c.stage = "headers"])

\* CGI_COMPLETED with exit status 0: stream the rest and end the response.
FinishCgi ==
  /\ CgiEntry("CGI_COMPLETED") /\ cgi[Out].exit = "ok"
  /\ \E close \in BOOLEAN :
       LET f == Here.fd
           c == AppendLast(client[f], close)
       IN HandleResponse(CleanupCgi(SetClient(Tables, f, c), Out))

\* CGI_COMPLETED otherwise: a 500 in place of what was not streamed.
FailCgi ==
  /\ CgiEntry("CGI_COMPLETED") /\ cgi[Out].exit # "ok"
  /\ \E close \in BOOLEAN :
       LET f == Here.fd
           c == Responds(client[f], close)
       IN HandleResponse(CleanupCgi(SetClient(Tables, f, c), Out))

\* The CGI is gone: only handleResponse is left to do.
FlushRest ==
  /\ WriteEntry /\ State \in CgiStates
  /\ client[Here.fd].cgiOut \notin cgis
  /\ HandleResponse(Tables)

-----------------------------------------------------------------------------
(* shutDownProcessor, then the destructors main() runs *)

\* SIGINT only sets a flag, read at the top of run()'s loop: it arrives here.
\* cleanupAllCgis closes every pipe, the loop over _allSockets closes every
\* entry, pipes included, and each ~Client its _cgiOutputFd.
ShutDown ==
  /\ pc = "poll"
  /\ pc' = "stopped"
  /\ socks' = <<>> /\ clients' = {} /\ cgis' = {}
  /\ client' = [f \in Fds |-> NewClient]
  /\ cgi' = [f \in Fds |-> NoCgi]
  /\ open' = [f \in Fds |-> "free"]
  /\ peer' = [f \in Fds |-> NewPeer]
  /\ proc' = [f \in Fds |-> GoneProc]
  /\ badClose' = badClose \cup cgis
  /\ UNCHANGED <<setup, stop, idx>>

-----------------------------------------------------------------------------
(* The environment *)

Connected(f) == pc # "stopped" /\ open[f] = "socket" /\ peer[f].end = "up"
Running(p) == pc # "stopped" /\ open[p] = "pipe"

PeerActs(f, q) ==
  /\ peer' = [peer EXCEPT ![f] = q]
  /\ UNCHANGED <<loop, tables, open, proc, badClose>>

PeerSends(f)  == Connected(f) /\ ~peer[f].data
                 /\ PeerActs(f, [peer[f] EXCEPT !.data = TRUE])
PeerReads(f)  == open[f] = "socket" /\ peer[f].full
                 /\ PeerActs(f, [peer[f] EXCEPT !.full = FALSE])
\* The peer closes its sending side, or the connection as a whole.
PeerEnds(f)   == "fin" \in Endings /\ Connected(f)
                 /\ PeerActs(f, [peer[f] EXCEPT !.end = "fin"])
PeerResets(f) == "reset" \in Endings /\ open[f] = "socket" /\ peer[f].end # "reset"
                 /\ PeerActs(f, [NewPeer EXCEPT !.end = "reset"])

ProcActs(p, q) ==
  /\ proc' = [proc EXCEPT ![p] = q]
  /\ UNCHANGED <<loop, tables, open, peer, badClose>>

CgiOutputs(p) == Running(p) /\ proc[p].life = "writing" /\ ~proc[p].data
                 /\ ProcActs(p, [proc[p] EXCEPT !.data = TRUE])
\* The pipe hangs up when stdout is closed, which is before or at the exit.
CgiCloses(p)  == Running(p) /\ proc[p].life = "writing"
                 /\ ProcActs(p, [proc[p] EXCEPT !.life = "closed"])
CgiExits(p, how) == Running(p) /\ proc[p].life = "closed"
                    /\ ProcActs(p, [proc[p] EXCEPT !.life = how])

\* More than alive_timeout seconds pass since the client's _lastAction: time
\* passes in poll(), which waits up to 60 s; a scan takes none.
Ages(f) ==
  /\ pc = "poll" /\ f \in clients /\ ~client[f].stale
  /\ client' = [client EXCEPT ![f].stale = TRUE]
  /\ UNCHANGED <<loop, socks, clients, cgis, cgi, kernel>>

-----------------------------------------------------------------------------
WriteHandler ==
  \/ RunPage \/ LaunchCgi \/ LaunchFails \/ ReportError
  \/ RelayCgi \/ FinishCgi \/ FailCgi \/ FlushRest

Handler ==
  \/ DropDead \/ CloseIdle \/ Pass
  \/ ReadNothing \/ ReadPart \/ ReadRequest \/ ReadPipe
  \/ WriteHandler

Server == Poll \/ PollInterrupted \/ AcceptOne \/ AcceptEnd \/ Handler \/ ScanEnd \/ ShutDown

Environment ==
  \E f \in Fds : \/ PeerSends(f) \/ PeerReads(f)
                 \/ PeerEnds(f) \/ PeerResets(f)
                 \/ CgiOutputs(f) \/ CgiCloses(f) \/ Ages(f)
                 \/ \E how \in Exits : CgiExits(f, how)

Stopped == pc = "stopped" /\ UNCHANGED vars

Next == Server \/ Environment \/ Stopped

Spec == Init /\ [][Next]_vars

(***************************************************************************)
(* Fairness, for the liveness properties.  The loop runs: poll() returns   *)
(* within 60 s and every handler is non-blocking.  A response is finite    *)
(* and every send() takes at least a byte, so a buffer that keeps being    *)
(* sent is eventually sent whole.  The peer's kernel drains the socket, a  *)
(* CGI closes its output and exits when Exits says it can, time passes.    *)
(* Loop is enabled until the shutdown and SendsRest(f) when WriteEntry     *)
(* holds for f: the first two conjuncts are their weak and strong fairness *)
(* with these conditions in place of ENABLED.                              *)
(***************************************************************************)
Loop == Poll \/ AcceptEnd \/ Handler \/ ScanEnd
SendsTo(f) == WriteEntry /\ Here.fd = f
SendsRest(f) == SendsTo(f) /\ WriteHandler /\ ~client'[f].wbuf

Fairness ==
  /\ []<><<Loop>>_vars \/ <>(pc = "stopped")
  /\ \A f \in Fds : []<>SendsTo(f) => []<><<SendsRest(f)>>_vars
  /\ \A f \in Fds : /\ SF_vars(Ages(f)) /\ WF_vars(PeerReads(f))
                    /\ WF_vars(CgiCloses(f))
                    /\ WF_vars(\E how \in Exits : CgiExits(f, how))

LiveSpec == Spec /\ Fairness

-----------------------------------------------------------------------------
(* Properties *)

TypeOK ==
  /\ setup \in Setups
  /\ pc \in {"poll", "accept", "scan", "stopped"} /\ stop \in BOOLEAN
  /\ idx \in Nat
  /\ socks \in Seq(PollFd)
  /\ clients \subseteq Fds /\ client \in [Fds -> Client]
  /\ cgis \subseteq Fds /\ cgi \in [Fds -> Cgi]
  /\ open \in [Fds -> {"free", "socket", "pipe"}]
  /\ peer \in [Fds -> Peer] /\ proc \in [Fds -> Proc]
  /\ badClose \subseteq Fds

Entries == 1..Len(socks)

\* The poll array, the two maps and the kernel agree: every entry appears
\* once and is a live client socket or a registered CGI pipe, and nothing
\* open is missing from the array (a descriptor nobody would ever close).
TablesAgree ==
  /\ \A j, k \in Entries : socks[j].fd = socks[k].fd => j = k
  /\ {socks[k].fd : k \in Entries} = clients \cup cgis
  /\ clients = {f \in Fds : open[f] = "socket"}
  /\ cgis = {f \in Fds : open[f] = "pipe"}

\* Cgi::_client is never dangling and Client::_cgiOutputFd never stale: the
\* two point at each other for as long as either exists.
CgiHasItsClient ==
  /\ \A p \in cgis : /\ cgi[p].client \in clients
                     /\ client[cgi[p].client].cgiOut = p
  /\ \A f \in clients : client[f].cgiOut # NoFd =>
       /\ client[f].cgiOut \in cgis
       /\ cgi[client[f].cgiOut].client = f

\* A CGI pipe is polled after the client that launched it, which is why the
\* erase in cleanupCgi never shifts the entry its callers erase next.
PipeAfterClient ==
  \A j, k \in Entries :
    socks[j].fd \in cgis /\ socks[k].fd = cgi[socks[j].fd].client => k < j

\* A client waits for POLLIN between requests and for POLLOUT from a parsed
\* request to the end of its response: never both, never neither.
EventsFollowState == ~stop =>
  \A k \in Entries : socks[k].events =
    IF socks[k].fd \in clients /\ client[socks[k].fd].state \notin Idle
    THEN {"OUT"} ELSE {"IN"}

\* Between requests nothing of the previous response, and no CGI, is left.
IdleIsClean == ~stop =>
  \A f \in clients : client[f].state \in Idle =>
    /\ client[f] = [ResetClientState(client[f]) EXCEPT !.state = client[f].state]
    /\ client[f].cgiOut = NoFd

\* While a CGI is attached its client is streaming it, and the client is in
\* CGI_COMPLETED exactly when the process was reaped and the pipe emptied:
\* the end of the response is never built before the last output was read.
CompletedMeansDrained == ~stop =>
  \A p \in cgis :
    LET c == client[cgi[p].client] IN
    \/ c.state = "CGI_JUST_STARTED" /\ cgi[p].exit = "unknown"
    \/ /\ c.state = "CGI_COMPLETED" /\ cgi[p].exit \in {"ok", "failed"}
       /\ proc[p] = GoneProc

\* As long as the loop runs, the server closes a descriptor only while it
\* owns it: a second close could hit a connection accepted in between.
ClosesOnlyItsOwn == pc # "stopped" => badClose = {}

\* registerCgi's push_back may move the poll array under the reference that
\* processWrite hands to handleResponse, which uses it whenever it has bytes
\* to send: a CGI is only launched for a client that has none, so for a
\* request not yet answered.  Violated by a deployment that is not safe: the
\* 500 of a failed launch, half sent, does not keep the Router from running
\* again on the next POLLOUT and from launching the CGI after all.
LaunchIsSilent ==
  ~stop => \A p \in cgis' \ cgis :
    LET f == cgi'[p].client IN
    ~client[f].status /\ ~client[f].wbuf /\ ~client'[f].wbuf
NoSendAfterLaunch == [][LaunchIsSilent]_vars

\* A scan is one pass: whatever handlers push or erase, an entry that was
\* still ahead of the index stays ahead, and one already handled stays
\* behind, so that every entry is handled exactly once per poll().
SidesKept ==
  pc = "scan" /\ pc' = "scan" =>
    \A k \in Entries, m \in 1..Len(socks') :
      socks[k].fd = socks'[m].fd => /\ k > idx => m >= idx'
                                    /\ k < idx => m < idx'
ScanIsOnePass == [][SidesKept]_vars

(* Liveness *)

Busy(f) == f \in clients /\ client[f].state \notin Idle
Quiet(f) == f \in clients /\ ~Busy(f) /\ peer[f].end = "up" /\ ~peer[f].data

\* A parsed request is answered in full, or its connection closed.
RequestIsAnswered == \A f \in Fds : Busy(f) ~> ~Busy(f)

\* A connection the peer has reset is dropped, with its CGI.
ResetIsNoticed == \A f \in Fds :
  (f \in clients /\ peer[f].end = "reset")
    ~> (f \notin clients \/ peer[f].end # "reset")

\* keepalive_timeout: a silent connection without a request is closed.
IdleIsClosed == \A f \in Fds : Quiet(f) ~> ~Quiet(f)

\* A CGI that exited is reaped: no zombie stays.
ExitIsReaped == \A p \in Fds :
  proc[p].life \in {"ok", "failed"} ~> proc[p].life \notin {"ok", "failed"}

\* A connection whose peer is done sending is closed once nothing is left to
\* answer (violated, see the run of that name).
HalfClosedIsClosed == \A f \in Fds :
  (f \in clients /\ peer[f].end = "fin") ~> (f \notin clients)
==============================================================================
