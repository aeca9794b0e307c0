---------------------------- MODULE EventLoopInv ----------------------------
(***************************************************************************)
(* The inductive invariant behind the safety properties of EventLoop.      *)
(* TablesAgree, CgiHasItsClient and PipeAfterClient are not inductive by   *)
(* themselves: that a client never launches a second CGI depends on what   *)
(* its state, its response and the revents of its entry can be, down to    *)
(* the round trip of a failed send() through poll().                       *)
(***************************************************************************)
EXTENDS EventLoop

\* The theorems are about the safe deployments.
ASSUME SafeSetups == \A s \in Setups : SafeSetup(s)

\* Everything the handlers pass on to one another has its type.
TablesType ==
  [socks: Seq(PollFd), clients: SUBSET Fds, client: [Fds -> Client],
   cgis: SUBSET Fds, cgi: [Fds -> Cgi],
   open: [Fds -> {"free", "socket", "pipe"}], proc: [Fds -> Proc],
   bad: SUBSET Fds]

\* The three structural properties, of tables in the middle of a handler.
Agree(t) ==
  /\ \A j, k \in 1..Len(t.socks) : t.socks[j].fd = t.socks[k].fd => j = k
  /\ \A k \in 1..Len(t.socks) : t.socks[k].fd \in t.clients \cup t.cgis
  /\ \A f \in t.clients \cup t.cgis : \E k \in 1..Len(t.socks) : t.socks[k].fd = f
  /\ \A f \in Fds : /\ f \in t.clients <=> t.open[f] = "socket"
                    /\ f \in t.cgis <=> t.open[f] = "pipe"

Linked(t) ==
  /\ \A p \in t.cgis : /\ t.cgi[p].client \in t.clients
                       /\ t.client[t.cgi[p].client].cgiOut = p
  /\ \A f \in t.clients : t.client[f].cgiOut # NoFd =>
       /\ t.client[f].cgiOut \in t.cgis
       /\ t.cgi[t.client[f].cgiOut].client = f

Ordered(t) ==
  \A j, k \in 1..Len(t.socks) :
    t.socks[j].fd \in t.cgis /\ t.socks[k].fd = t.cgi[t.socks[j].fd].client
      => k < j

Struct(t) == /\ t \in TablesType
             /\ Agree(t) /\ Linked(t) /\ Ordered(t) /\ t.bad = {}

\* What the fields of a Client can be together.
Clean(c) == ~c.status /\ ~c.wbuf /\ c.route = "page" /\ ~c.close
NotStreaming(c) == ~c.chunked /\ ~c.out /\ c.stage = "headers"

ClientOK(c) ==
  /\ c.state \in Idle => Clean(c)
  /\ c.state \in Idle \cup Parsed => NotStreaming(c) /\ c.cgiOut = NoFd
  /\ c.cgiOut # NoFd => IF c.chunked THEN c.stage = "body"
                        ELSE NotStreaming(c) /\ ~c.status /\ ~c.wbuf

\* A client whose request would launch a CGI again although a response to it
\* has begun: only left by a send() that failed on a reset connection.
Relaunch(c) == c.state = "PARSE_OK" /\ c.route = "cgi" /\ (c.status \/ c.wbuf)

\* Entries the scan has yet to handle with the revents of this round.
Ahead(k) == pc = "accept" \/ (pc = "scan" /\ k >= idx)

\* A client that may be handled as readable has no CGI, in any round.
Readable(k) ==
  LET e == socks[k] IN
  "IN" \in e.revents => /\ "OUT" \notin e.revents
                        /\ e.fd \in clients => client[e.fd].cgiOut = NoFd

\* What a round that followed a successful poll() adds: POLLOUT means room.
EntryOK(k) ==
  LET e == socks[k] IN
  /\ e.events = IF e.fd \in clients /\ client[e.fd].state \notin Idle
                THEN {"OUT"} ELSE {"IN"}
  /\ Ahead(k) =>
       /\ e.revents \subseteq e.events \cup {"HUP"}
       /\ e.fd \in clients /\ "OUT" \in e.revents /\ peer[e.fd].full
            => peer[e.fd].end = "reset"
       /\ e.fd \in clients /\ Relaunch(client[e.fd]) => "HUP" \in e.revents

\* The part that survives an interrupted poll().
Core ==
  /\ pc = "scan" => idx \in 1..(Len(socks) + 1)
  /\ pc # "stopped" => Struct(Tables)
  /\ pc = "stopped" => /\ socks = <<>> /\ clients = {} /\ cgis = {}
                       /\ \A f \in Fds : open[f] = "free"
  /\ \A f \in clients : client[f].state \in Parsed => client[f].cgiOut = NoFd
  /\ \A k \in Entries : Readable(k)

Steady ==
  /\ \A f \in clients : /\ ClientOK(client[f])
                        /\ Relaunch(client[f]) => peer[f].end = "reset"
  /\ \A k \in Entries : EntryOK(k)

\* CompletedMeansDrained, of tables in the middle of a handler.
Drained(t) ==
  \A p \in t.cgis :
    LET c == t.client[t.cgi[p].client] IN
    \/ c.state = "CGI_JUST_STARTED" /\ t.cgi[p].exit = "unknown"
    \/ /\ c.state = "CGI_COMPLETED" /\ t.cgi[p].exit \in {"ok", "failed"}
       /\ t.proc[p] = GoneProc

IInv == TypeOK /\ Core /\ (~stop => Steady) /\ (~stop => Drained(Tables))
=============================================================================
