---------------------------- MODULE EventLoopSafety ----------------------------
(***************************************************************************)
(* The safety properties of EventLoop, for every value of its constants.   *)
(* The lemmas about the steps that only change fields complete those of    *)
(* EventLoopProofs: together they show that IInv is inductive, and IInv    *)
(* implies the invariants the runs check.                                  *)
(***************************************************************************)
EXTENDS EventLoopProofs

-----------------------------------------------------------------------------
(* The steps that leave the structure alone *)

\* Entries keep their descriptors, clients and CGIs each other.
LEMMA StructKept ==
  ASSUME Struct(Tables),
         clients' = clients, cgis' = cgis, open' = open, badClose' = badClose,
         socks' \in Seq(PollFd), Len(socks') = Len(socks),
         \A k \in Entries : socks'[k].fd = socks[k].fd,
         client' \in [Fds -> Client], cgi' \in [Fds -> Cgi], proc' \in [Fds -> Proc],
         \A f \in Fds : client'[f].cgiOut = client[f].cgiOut,
         \A p \in Fds : cgi'[p].client = cgi[p].client
  PROVE  Struct(Tables)'
<1> DEFINE t == Tables'
<1>1. /\ t.socks = socks' /\ t.clients = clients /\ t.client = client'
      /\ t.cgis = cgis /\ t.cgi = cgi' /\ t.open = open /\ t.proc = proc'
      /\ t.bad = badClose
  BY DEF Tables
<1>2. /\ Tables.socks = socks /\ Tables.clients = clients /\ Tables.client = client
      /\ Tables.cgis = cgis /\ Tables.cgi = cgi /\ Tables.open = open
      /\ Tables.bad = badClose
  BY DEF Tables
<1>3. clients \subseteq Fds /\ cgis \subseteq Fds /\ badClose = {}
      /\ open \in [Fds -> {"free", "socket", "pipe"}]
  BY TablesFacts
<1>4. t \in TablesType
  BY <1>3 DEF Tables, TablesType
<1> HIDE DEF t
<1>5. Agree(Tables) /\ Linked(Tables) /\ Ordered(Tables)
  BY DEF Struct
<1> HIDE DEF Tables
<1>6. Agree(t)
  <2>1. /\ \A j, k \in 1..Len(socks) : socks[j].fd = socks[k].fd => j = k
        /\ \A k \in 1..Len(socks) : socks[k].fd \in clients \cup cgis
        /\ \A f \in clients \cup cgis : \E k \in 1..Len(socks) : socks[k].fd = f
        /\ \A f \in Fds : /\ f \in clients <=> open[f] = "socket"
                          /\ f \in cgis <=> open[f] = "pipe"
    BY <1>2, <1>5 DEF Agree
  <2>2. /\ \A j, k \in 1..Len(socks') : socks'[j].fd = socks'[k].fd => j = k
        /\ \A k \in 1..Len(socks') : socks'[k].fd \in clients \cup cgis
        /\ \A f \in clients \cup cgis : \E k \in 1..Len(socks') : socks'[k].fd = f
    <3>1. \A k \in 1..Len(socks') : socks'[k].fd = socks[k].fd
      BY DEF Entries
    <3>2. Len(socks') = Len(socks)
      OBVIOUS
    <3>3. \A j, k \in 1..Len(socks') : socks'[j].fd = socks'[k].fd => j = k
      BY <2>1, <3>1, <3>2
    <3>4. \A k \in 1..Len(socks') : socks'[k].fd \in clients \cup cgis
      BY <2>1, <3>1, <3>2
    <3>5. \A f \in clients \cup cgis : \E k \in 1..Len(socks') : socks'[k].fd = f
      BY <2>1, <3>1, <3>2
    <3> QED BY <3>3, <3>4, <3>5
  <2>3. /\ \A j, k \in 1..Len(t.socks) : t.socks[j].fd = t.socks[k].fd => j = k
        /\ \A k \in 1..Len(t.socks) : t.socks[k].fd \in t.clients \cup t.cgis
        /\ \A f \in t.clients \cup t.cgis : \E k \in 1..Len(t.socks) : t.socks[k].fd = f
    BY <1>1, <2>2
  <2>4. \A f \in Fds : /\ f \in t.clients <=> t.open[f] = "socket"
                       /\ f \in t.cgis <=> t.open[f] = "pipe"
    BY <1>1, <2>1
  <2> QED BY <2>3, <2>4 DEF Agree
<1>7. Linked(t)
  BY <1>1, <1>2, <1>3, <1>5 DEF Linked
<1>8. Ordered(t)
  BY <1>1, <1>2, <1>3, <1>5 DEF Ordered, Entries
<1>9. Struct(t)
  BY <1>1, <1>3, <1>4, <1>6, <1>7, <1>8 DEF Struct
<1> QED BY <1>9 DEF t

\* CGIs that a step leaves in their phase stay drained.
LEMMA DrainedKept ==
  ASSUME Drained(Tables), cgis' = cgis,
         \A p \in cgis :
           /\ cgi'[p].client = cgi[p].client /\ cgi'[p].exit = cgi[p].exit
           /\ client'[cgi[p].client].state = client[cgi[p].client].state
           /\ proc[p] = GoneProc => proc'[p] = GoneProc
  PROVE  Drained(Tables)'
<1>1. \A p \in cgis :
        \/ client[cgi[p].client].state = "CGI_JUST_STARTED" /\ cgi[p].exit = "unknown"
        \/ /\ client[cgi[p].client].state = "CGI_COMPLETED"
           /\ cgi[p].exit \in {"ok", "failed"}
           /\ proc[p] = GoneProc
  BY DEF Drained, Tables
<1> HIDE DEF GoneProc
<1>2. \A p \in cgis' :
        \/ client'[cgi'[p].client].state = "CGI_JUST_STARTED" /\ cgi'[p].exit = "unknown"
        \/ /\ client'[cgi'[p].client].state = "CGI_COMPLETED"
           /\ cgi'[p].exit \in {"ok", "failed"}
           /\ proc'[p] = GoneProc
  BY <1>1
<1> QED BY <1>2 DEF Drained, Tables, GoneProc

\* The process that has been reaped and whose output has been read.
LEMMA ProcIsGone ==
  ASSUME NEW q \in Proc
  PROVE  q = GoneProc <=> ~q.data /\ q.life = "gone"
<1>1. q = [data |-> q.data, life |-> q.life] /\ q.data \in BOOLEAN
  BY DEF Proc
<1>2. GoneProc.data = FALSE /\ GoneProc.life = "gone"
  BY DEF GoneProc
<1>3. ASSUME ~q.data, q.life = "gone" PROVE q = GoneProc
  <2>1. q.data = FALSE
    BY <1>1, <1>3
  <2> QED BY <1>1, <1>3, <2>1, Zenon DEF GoneProc
<1> QED BY <1>2, <1>3

\* Entries that stay in their place, with the index moving by one at most.
LEMMA SidesFollow ==
  ASSUME IInv, pc # "stopped", idx' \in {idx, idx + 1}, Len(socks') = Len(socks),
         \A k \in Entries : socks'[k].fd = socks[k].fd
  PROVE  SidesKept
<1>1. Distinct(socks) /\ idx \in Nat /\ Len(socks) \in Nat
  BY TablesFacts DEF IInv, Core, TypeOK
<1> QED BY <1>1 DEF SidesKept, Distinct, Entries

\* A step of the environment, or of the loop between two entries.
LEMMA FrameStep ==
  ASSUME IInv, setup' = setup, stop' = stop,
         pc' \in {"poll", "accept", "scan"}, pc # "stopped", idx' \in Nat,
         pc' = "scan" => idx' \in 1..(Len(socks) + 1),
         socks' \in Seq(PollFd), Len(socks') = Len(socks),
         \A k \in Entries : socks'[k].fd = socks[k].fd
                             /\ socks'[k].revents = socks[k].revents,
         clients' = clients, cgis' = cgis, open' = open,
         badClose' = badClose, peer' \in [Fds -> Peer],
         client' \in [Fds -> Client], cgi' \in [Fds -> Cgi], proc' \in [Fds -> Proc],
         \A f \in Fds : client'[f].cgiOut = client[f].cgiOut,
         \A p \in Fds : cgi'[p].client = cgi[p].client,
         \A f \in clients : client'[f].state \in Parsed => client'[f].cgiOut = NoFd,
         ~stop => \A f \in clients :
           /\ ClientOK(client'[f])
           /\ Relaunch(client'[f]) => peer'[f].end = "reset",
         ~stop => \A k \in Entries : EntryOK(k)',
         ~stop => Drained(Tables)'
  PROVE  IInv'
<1>1. TypeOK /\ Core /\ Struct(Tables)
  BY DEF IInv, Core
<1>2. socks \in Seq(PollFd) /\ clients \subseteq Fds
  BY <1>1, TablesFacts
<1>3. Struct(Tables)'
  BY <1>1, <1>2, StructKept
<1>4. TypeOK'
  <2>1. setup' \in Setups /\ stop' \in BOOLEAN
    BY <1>1 DEF TypeOK
  <2> QED BY <1>3, <2>1, TypesFollow
<1>5. \A k \in 1..Len(socks') : Readable(k)'
  BY <1>1, <1>2 DEF Core, Readable, Entries
<1>6. Core'
  BY <1>3, <1>5 DEF Core, Entries
<1>7. ~stop => Steady'
  BY DEF Steady, ClientOK, Relaunch, Entries
<1> QED BY <1>4, <1>6, <1>7 DEF IInv

\* The scan index moves past the entry it was on.
LEMMA Advances ==
  ASSUME IInv, Scanning, Advance
  PROVE  /\ setup' = setup /\ stop' = stop /\ pc = "scan" /\ pc' = "scan"
         /\ idx \in Entries /\ idx' \in 1..(Len(socks) + 1) /\ idx' \in Nat
         /\ \A k \in Entries : Ahead(k)' => Ahead(k) /\ k # idx
<1>1. idx \in 1..(Len(socks) + 1) /\ idx <= Len(socks) /\ pc = "scan"
  BY DEF IInv, Core, Scanning
<1>2. Len(socks) \in Nat
  BY DEF IInv, TypeOK
<1>3. idx' = idx + 1 /\ setup' = setup /\ stop' = stop /\ pc' = "scan"
  BY <1>1 DEF Advance
<1>4. idx \in Entries /\ idx' \in 1..(Len(socks) + 1) /\ idx' \in Nat
  BY <1>1, <1>2, <1>3 DEF Entries
<1>5. \A k \in Entries : Ahead(k)' => Ahead(k) /\ k # idx
  BY <1>1, <1>2, <1>3 DEF Entries, Ahead
<1> QED BY <1>1, <1>3, <1>4, <1>5

\* What the loop knows of an entry survives changes that keep its client's
\* phase and give a full socket only to a reset connection.
LEMMA EntryKept ==
  ASSUME NEW k \in Entries, EntryOK(k), Ahead(k)' => Ahead(k),
         socks'[k] = socks[k], clients' = clients,
         socks[k].fd \in clients =>
           /\ client'[socks[k].fd].state \in Idle <=> client[socks[k].fd].state \in Idle
           /\ Ahead(k)' /\ Relaunch(client'[socks[k].fd]) => Relaunch(client[socks[k].fd])
           /\ peer'[socks[k].fd].full =>
                peer[socks[k].fd].full \/ peer'[socks[k].fd].end = "reset"
           /\ peer[socks[k].fd].end = "reset" => peer'[socks[k].fd].end = "reset"
  PROVE  EntryOK(k)'
BY DEF EntryOK, Relaunch

\* Nothing is left to do once the server has stopped.
LEMMA StoppedStep ==
  ASSUME IInv, pc = "stopped", pc' = pc, socks' = socks, clients' = clients,
         cgis' = cgis, open' = open, TypeOK'
  PROVE  IInv'
<1>1. /\ socks = <<>> /\ clients = {} /\ cgis = {}
      /\ \A f \in Fds : open[f] = "free"
  BY DEF IInv, Core
<1>2. Entries' = {}
  BY <1>1 DEF Entries
<1> QED BY <1>1, <1>2 DEF IInv, Core, Steady, Drained, Tables

\* The loop and the tables stay: a step of a peer or of a CGI process.
LEMMA OutsideStep ==
  ASSUME IInv, UNCHANGED <<loop, tables, open, badClose>>,
         peer' \in [Fds -> Peer], proc' \in [Fds -> Proc],
         \A f \in Fds :
           /\ peer'[f].full => peer[f].full \/ peer'[f].end = "reset"
           /\ peer[f].end = "reset" => peer'[f].end = "reset"
           /\ proc[f] = GoneProc => proc'[f] = GoneProc
  PROVE  IInv'
<1>1. /\ setup' = setup /\ pc' = pc /\ stop' = stop /\ idx' = idx
      /\ socks' = socks /\ clients' = clients /\ client' = client
      /\ cgis' = cgis /\ cgi' = cgi /\ open' = open /\ badClose' = badClose
  BY DEF loop, tables
<1>2. TypeOK /\ Core /\ (~stop => Steady)
  BY DEF IInv
<1>3. CASE pc = "stopped"
  <2>1. TypeOK'
    BY <1>1, <1>2 DEF TypeOK
  <2> QED BY <1>1, <1>3, <2>1, StoppedStep
<1>4. CASE pc # "stopped"
  <2>1. /\ pc' \in {"poll", "accept", "scan"} /\ idx' \in Nat
        /\ pc' = "scan" => idx' \in 1..(Len(socks) + 1)
        /\ socks' \in Seq(PollFd) /\ client' \in [Fds -> Client]
        /\ cgi' \in [Fds -> Cgi] /\ clients \subseteq Fds
    BY <1>1, <1>2, <1>4 DEF TypeOK, Core
  <2>2. \A f \in clients : client'[f].state \in Parsed => client'[f].cgiOut = NoFd
    BY <1>1, <1>2 DEF Core
  <2>3. ~stop => \A f \in clients :
          /\ ClientOK(client'[f])
          /\ Relaunch(client'[f]) => peer'[f].end = "reset"
    BY <1>1, <1>2, <2>1 DEF Steady
  <2>4. ASSUME ~stop, NEW k \in Entries
        PROVE  EntryOK(k)'
    <3>1. EntryOK(k) /\ (Ahead(k)' => Ahead(k))
      BY <1>1, <1>2, <2>4 DEF Steady, Ahead
    <3> QED BY <1>1, <2>1, <3>1, EntryKept
  <2>5. ~stop => Drained(Tables)'
    <3>1. cgis \subseteq Fds
      BY <1>2 DEF TypeOK
    <3> QED BY <1>1, <3>1, DrainedKept DEF IInv
  <2> QED BY <1>1, <1>4, <2>1, <2>2, <2>3, <2>4, <2>5, FrameStep
<1> QED BY <1>3, <1>4

\* Any step of a peer or of a CGI process.
LEMMA EnvironmentStep ==
  ASSUME IInv, NEW f \in Fds,
         \/ PeerSends(f) \/ PeerReads(f) \/ PeerEnds(f) \/ PeerResets(f)
         \/ CgiOutputs(f) \/ CgiCloses(f) \/ \E how \in Exits : CgiExits(f, how)
  PROVE  IInv'
<1>1. peer \in [Fds -> Peer] /\ proc \in [Fds -> Proc]
  BY DEF IInv, TypeOK
<1>2. peer[f] \in Peer /\ proc[f] \in Proc
  BY <1>1
<1>3. ASSUME NEW q \in Peer, PeerActs(f, q),
             q.full => peer[f].full, peer[f].end = "reset" => q.end = "reset"
      PROVE  IInv'
  <2>1. peer' \in [Fds -> Peer] /\ proc' \in [Fds -> Proc]
    BY <1>1, <1>3 DEF PeerActs
  <2>2. \A g \in Fds : /\ peer'[g].full => peer[g].full
                       /\ peer[g].end = "reset" => peer'[g].end = "reset"
                       /\ proc'[g] = proc[g]
    BY <1>1, <1>3 DEF PeerActs
  <2> QED BY <1>3, <2>1, <2>2, OutsideStep DEF PeerActs
<1>4. ASSUME NEW q \in Proc, ProcActs(f, q), proc[f].life # "gone"
      PROVE  IInv'
  <2>1. peer' = peer /\ peer' \in [Fds -> Peer] /\ proc' \in [Fds -> Proc]
        /\ \A g \in Fds : proc[g] = GoneProc => proc'[g] = GoneProc
    <3>1. proc[f] # GoneProc
      BY <1>4 DEF GoneProc
    <3>2. peer' = peer /\ proc' = [proc EXCEPT ![f] = q] /\ peer \in [Fds -> Peer]
      BY <1>1, <1>4 DEF ProcActs
    <3> HIDE DEF GoneProc
    <3> QED BY <1>1, <1>4, <3>1, <3>2
  <2> QED BY <1>4, <2>1, OutsideStep DEF ProcActs
<1>5. CASE PeerSends(f)
  <2>1. LET q == [peer[f] EXCEPT !.data = TRUE] IN
        q \in Peer /\ q.full = peer[f].full /\ q.end = peer[f].end
    BY <1>2 DEF Peer
  <2> QED BY <1>3, <1>5, <2>1 DEF PeerSends
<1>6. CASE PeerReads(f)
  <2>1. LET q == [peer[f] EXCEPT !.full = FALSE] IN
        q \in Peer /\ ~q.full /\ q.end = peer[f].end
    BY <1>2 DEF Peer
  <2> QED BY <1>3, <1>6, <2>1 DEF PeerReads
<1>7. CASE PeerEnds(f)
  <2>1. LET q == [peer[f] EXCEPT !.end = "fin"] IN
        q \in Peer /\ q.full = peer[f].full
    BY <1>2 DEF Peer
  <2>2. peer[f].end # "reset"
    BY <1>7 DEF PeerEnds, Connected
  <2> QED BY <1>3, <1>7, <2>1, <2>2 DEF PeerEnds
<1>8. CASE PeerResets(f)
  <2>1. LET q == [NewPeer EXCEPT !.end = "reset"] IN
        q \in Peer /\ ~q.full /\ q.end = "reset"
    BY DEF NewPeer, Peer
  <2> QED BY <1>3, <1>8, <2>1 DEF PeerResets
<1>9. CASE CgiOutputs(f) \/ CgiCloses(f) \/ \E how \in Exits : CgiExits(f, how)
  <2>1. [proc[f] EXCEPT !.data = TRUE] \in Proc
    BY <1>2 DEF Proc
  <2>2. [proc[f] EXCEPT !.life = "closed"] \in Proc
    BY <1>2 DEF Proc
  <2>3. \A how \in Exits : [proc[f] EXCEPT !.life = how] \in Proc
    BY <1>2, ExitsAssumption DEF Proc
  <2> QED BY <1>4, <1>9, <2>1, <2>2, <2>3 DEF CgiOutputs, CgiCloses, CgiExits
<1> QED BY <1>5, <1>6, <1>7, <1>8, <1>9

\* Steps that change only how recent the clients' last action is.
LEMMA StaleStep ==
  ASSUME IInv, setup' = setup, stop' = stop, pc' = pc, pc # "stopped",
         idx' \in Nat, pc' = "scan" => idx' \in 1..(Len(socks) + 1),
         \A k \in Entries : Ahead(k)' => Ahead(k),
         UNCHANGED <<socks, clients, cgis, cgi, kernel>>,
         client' \in [Fds -> Client],
         \A f \in Fds : client'[f] = [client[f] EXCEPT !.stale = client'[f].stale]
  PROVE  IInv'
<1>1. TypeOK /\ Core /\ (~stop => Steady)
  BY DEF IInv
<1>2. /\ socks' = socks /\ clients' = clients /\ cgis' = cgis /\ cgi' = cgi
      /\ open' = open /\ badClose' = badClose /\ peer' = peer /\ proc' = proc
  BY DEF kernel
<1>3. /\ socks \in Seq(PollFd) /\ clients \subseteq Fds /\ client \in [Fds -> Client]
      /\ cgi' \in [Fds -> Cgi] /\ proc' \in [Fds -> Proc] /\ peer' \in [Fds -> Peer]
      /\ pc' \in {"poll", "accept", "scan"}
  BY <1>1, <1>2 DEF TypeOK
<1>4. ASSUME NEW f \in Fds
      PROVE  /\ client'[f].state = client[f].state /\ client'[f].cgiOut = client[f].cgiOut
             /\ ClientOK(client[f]) => ClientOK(client'[f])
             /\ Relaunch(client'[f]) => Relaunch(client[f])
  <2> DEFINE c == client[f]
             s == client'[f].stale
  <2>1. c \in Client /\ client'[f] = [c EXCEPT !.stale = s]
    BY <1>3
  <2> HIDE DEF c, s
  <2>2. LET d == [c EXCEPT !.stale = s] IN
        /\ d.state = c.state /\ d.cgiOut = c.cgiOut
        /\ ClientOK(c) => ClientOK(d)
        /\ Relaunch(d) => Relaunch(c)
    BY <2>1 DEF Client, ClientOK, Relaunch, Clean, NotStreaming
  <2> QED BY <2>1, <2>2 DEF c
<1>5. \A f \in clients : client'[f].state \in Parsed => client'[f].cgiOut = NoFd
  BY <1>1, <1>3, <1>4 DEF Core
<1>6. ~stop => \A f \in clients :
        /\ ClientOK(client'[f])
        /\ Relaunch(client'[f]) => peer'[f].end = "reset"
  BY <1>1, <1>2, <1>3, <1>4 DEF Steady
<1>7. ASSUME ~stop, NEW k \in Entries
      PROVE  EntryOK(k)'
  <2>1. EntryOK(k) /\ (Ahead(k)' => Ahead(k))
    BY <1>1, <1>7 DEF Steady
  <2> QED BY <1>2, <1>3, <1>4, <2>1, EntryKept
<1>8. ~stop => Drained(Tables)'
  <2>1. \A p \in cgis : cgi[p].client \in Fds
    BY <1>1, <1>3 DEF Core, Struct, Linked, Tables
  <2> QED BY <1>2, <1>4, <2>1, DrainedKept DEF IInv
<1> QED BY <1>2, <1>3, <1>4, <1>5, <1>6, <1>7, <1>8, FrameStep

\* The clock only makes clients stale.
LEMMA AgesStep ==
  ASSUME IInv, NEW f \in Fds, Ages(f)
  PROVE  IInv'
<1>1. TypeOK /\ pc = "poll" /\ pc' = pc /\ setup' = setup /\ stop' = stop /\ idx' = idx
      /\ client' = [client EXCEPT ![f].stale = TRUE]
      /\ UNCHANGED <<socks, clients, cgis, cgi, kernel>>
  BY DEF IInv, Ages, loop
<1>2. client \in [Fds -> Client] /\ idx' \in Nat
  BY <1>1 DEF TypeOK
<1>3. [client[f] EXCEPT !.stale = TRUE] \in Client
      /\ [client[f] EXCEPT !.stale = TRUE].stale = TRUE
  BY <1>2 DEF Client
<1>4. client' \in [Fds -> Client]
  BY <1>1, <1>2, <1>3
<1>5. ASSUME NEW g \in Fds
      PROVE  client'[g] = [client[g] EXCEPT !.stale = client'[g].stale]
  <2>1. CASE g = f
    BY <1>1, <1>2, <1>3, <2>1
  <2>2. CASE g # f
    <3>1. client'[g] = client[g] /\ client[g] \in Client
      BY <1>1, <1>2, <2>2
    <3> QED BY <3>1 DEF Client
  <2> QED BY <2>1, <2>2
<1>6. \A k \in Entries : Ahead(k)' => Ahead(k)
  BY <1>1 DEF Ahead
<1> QED BY <1>1, <1>2, <1>4, <1>5, <1>6, StaleStep

\* An entry without events only refreshes a client that has a CGI.
LEMMA PassStep ==
  ASSUME IInv, Pass
  PROVE  IInv'
<1> DEFINE f == Here.fd
           s == client[f].stale /\ client[f].cgiOut = NoFd
<1>1. /\ Scanning /\ Advance /\ TypeOK /\ UNCHANGED <<socks, clients, cgis, cgi, kernel>>
      /\ client' = [client EXCEPT ![f].stale = s]
  <2>1. client' = [client EXCEPT ![f].stale = @ /\ client[f].cgiOut = NoFd]
    BY DEF Pass
  <2>2. client' = [client EXCEPT ![f].stale = s]
    BY <2>1
  <2> QED BY <2>2 DEF IInv, Pass
<1>2. client \in [Fds -> Client] /\ socks \in Seq(PollFd)
  BY <1>1 DEF TypeOK
<1>3. /\ setup' = setup /\ stop' = stop /\ pc = "scan" /\ pc' = "scan"
      /\ idx \in Entries /\ idx' \in 1..(Len(socks) + 1) /\ idx' \in Nat
      /\ \A k \in Entries : Ahead(k)' => Ahead(k) /\ k # idx
  BY <1>1, Advances
<1>4. f \in Fds
  <2>1. socks[idx] \in PollFd
    BY <1>2, <1>3 DEF Entries
  <2> QED BY <2>1 DEF Here, PollFd
<1>5. client[f] \in Client /\ s \in BOOLEAN
  BY <1>2, <1>4
<1> HIDE DEF s, f
<1>6. LET c == [client[f] EXCEPT !.stale = s] IN c \in Client /\ c.stale = s
  BY <1>5 DEF Client
<1>7. client' \in [Fds -> Client]
  BY <1>1, <1>2, <1>6
<1>8. ASSUME NEW g \in Fds
      PROVE  client'[g] = [client[g] EXCEPT !.stale = client'[g].stale]
  <2>1. CASE g = f
    BY <1>1, <1>2, <1>6, <2>1
  <2>2. CASE g # f
    <3>1. client'[g] = client[g] /\ client[g] \in Client
      BY <1>1, <1>2, <2>2
    <3> QED BY <3>1 DEF Client
  <2> QED BY <2>1, <2>2
<1> QED BY <1>1, <1>3, <1>7, <1>8, StaleStep

-----------------------------------------------------------------------------
(* The steps of processRead *)

\* In a round that followed a successful poll(), a client is read only
\* between requests; in any round, only without a CGI.
LEMMA ReadFacts ==
  ASSUME IInv, ReadsClient
  PROVE  /\ Here.fd \in clients /\ Here.fd \in Fds /\ client[Here.fd] \in Client
         /\ client[Here.fd].cgiOut = NoFd
         /\ Here = socks[idx] /\ Here \in PollFd /\ idx \in Entries
         /\ ~stop => /\ client[Here.fd].state \in Idle
                     /\ Clean(client[Here.fd]) /\ NotStreaming(client[Here.fd])
                     /\ Here.events = {"IN"}
<1>1. TypeOK /\ Core /\ (~stop => Steady) /\ Scanning /\ Here.fd \in clients
      /\ "IN" \in Here.revents
  BY DEF IInv, ReadsClient, ReadEntry
<1>2. idx \in Entries /\ Ahead(idx)
  BY <1>1 DEF Core, Scanning, Entries, Ahead
<1>3. Here = socks[idx] /\ Here \in PollFd
  BY <1>1, <1>2 DEF TypeOK, Here, Entries
<1>4. Here.fd \in Fds /\ client[Here.fd] \in Client
  BY <1>1 DEF TypeOK
<1>5. client[Here.fd].cgiOut = NoFd
  BY <1>1, <1>2, <1>3 DEF Core, Readable
<1>6. ASSUME ~stop
      PROVE  /\ client[Here.fd].state \in Idle
             /\ Clean(client[Here.fd]) /\ NotStreaming(client[Here.fd])
             /\ Here.events = {"IN"}
  <2>1. EntryOK(idx) /\ ClientOK(client[Here.fd])
    BY <1>1, <1>2, <1>6 DEF Steady
  <2>2. client[Here.fd].state \in Idle /\ Here.events = {"IN"}
    BY <1>1, <1>2, <1>3, <2>1 DEF EntryOK
  <2> QED BY <2>1, <2>2 DEF ClientOK
<1> QED BY <1>1, <1>2, <1>3, <1>4, <1>5, <1>6

\* A client socket is read: the client becomes c, its entry may start
\* waiting for POLLOUT.
LEMMA ReadStep ==
  ASSUME IInv, ReadsClient, Advance, NEW c \in Client,
         client' = [client EXCEPT ![Here.fd] = c], c.cgiOut = NoFd,
         ~stop => ClientOK(c) /\ ~Relaunch(c),
         UNCHANGED <<clients, cgis, cgi, open, proc, badClose>>,
         peer' \in [Fds -> Peer],
         \A f \in Fds : peer'[f].full = peer[f].full /\ peer'[f].end = peer[f].end,
         socks' \in Seq(PollFd), Len(socks') = Len(socks),
         \A k \in Entries : k # idx => socks'[k] = socks[k],
         socks'[idx].fd = Here.fd, socks'[idx].revents = Here.revents,
         ~stop => socks'[idx].events = IF c.state \notin Idle THEN {"OUT"} ELSE {"IN"}
  PROVE  IInv'
<1> DEFINE f == Here.fd
<1>1. TypeOK /\ Core /\ (~stop => Steady) /\ Scanning /\ Struct(Tables)
  BY DEF IInv, ReadsClient, ReadEntry, Core, Scanning
<1>2. /\ setup' = setup /\ stop' = stop /\ pc = "scan" /\ pc' = "scan"
      /\ idx \in Entries /\ idx' \in 1..(Len(socks) + 1) /\ idx' \in Nat
      /\ \A k \in Entries : Ahead(k)' => Ahead(k) /\ k # idx
  BY <1>1, Advances
<1>3. /\ client \in [Fds -> Client] /\ cgi \in [Fds -> Cgi] /\ proc \in [Fds -> Proc]
      /\ clients \subseteq Fds
  BY <1>1 DEF TypeOK
<1>4. f \in clients /\ f \in Fds /\ client[f].cgiOut = NoFd /\ Here = socks[idx]
  BY ReadFacts
<1>5. \A k \in Entries : k # idx => socks[k].fd # f
  BY <1>1, <1>2, <1>4, TablesFacts DEF Distinct, Entries
<1> HIDE DEF Here
<1>6. /\ client' \in [Fds -> Client] /\ client'[f] = c
      /\ \A g \in Fds : g # f => client'[g] = client[g]
  BY <1>3, <1>4
<1>7. \A g \in Fds : client'[g].cgiOut = client[g].cgiOut
  BY <1>4, <1>6
<1>8. \A g \in clients : client'[g].state \in Parsed => client'[g].cgiOut = NoFd
  BY <1>1, <1>3, <1>6 DEF Core
<1>9. ~stop => \A g \in clients :
        /\ ClientOK(client'[g])
        /\ Relaunch(client'[g]) => peer'[g].end = "reset"
  BY <1>1, <1>3, <1>6 DEF Steady
<1>10. \A k \in Entries : socks'[k].fd = socks[k].fd /\ socks'[k].revents = socks[k].revents
  BY <1>4
<1>11. ASSUME ~stop, NEW k \in Entries
       PROVE  EntryOK(k)'
  <2>1. CASE k = idx
    <3>1. ~Ahead(k)'
      BY <1>2, <2>1
    <3> QED BY <1>4, <1>6, <1>11, <2>1, <3>1 DEF EntryOK
  <2>2. CASE k # idx
    <3>1. EntryOK(k) /\ (Ahead(k)' => Ahead(k)) /\ socks'[k] = socks[k] /\ socks[k].fd # f
      BY <1>1, <1>2, <1>5, <1>11, <2>2 DEF Steady
    <3> QED BY <1>3, <1>6, <3>1, EntryKept
  <2> QED BY <2>1, <2>2
<1>12. /\ cgi' \in [Fds -> Cgi] /\ proc' \in [Fds -> Proc]
       /\ \A p \in Fds : cgi'[p].client = cgi[p].client
  BY <1>3
<1>13. ~stop => Drained(Tables)'
  <2>1. \A p \in cgis : cgi[p].client \in Fds /\ cgi[p].client # f
    BY <1>1, <1>3, <1>4, FdsAssumption DEF TypeOK, Struct, Linked, Tables
  <2> QED BY <1>6, <2>1, DrainedKept DEF IInv
<1> HIDE DEF f
<1> QED BY <1>2, <1>6, <1>7, <1>8, <1>9, <1>10, <1>11, <1>12, <1>13, FrameStep

\* A client between requests that has read nothing, or part of a request.
LEMMA IdleReadStep ==
  ASSUME IInv, ReadsClient, Advance, NEW st \in Idle,
         client' = [client EXCEPT ![Here.fd].state = st, ![Here.fd].stale = FALSE],
         UNCHANGED <<socks, clients, cgis, cgi, open, proc, badClose>>,
         peer' \in [Fds -> Peer],
         \A f \in Fds : peer'[f].full = peer[f].full /\ peer'[f].end = peer[f].end
  PROVE  IInv'
<1> DEFINE f == Here.fd
           b == client[f]
           c == [b EXCEPT !.state = st, !.stale = FALSE]
<1>1. /\ f \in clients /\ f \in Fds /\ b \in Client /\ b.cgiOut = NoFd
      /\ Here = socks[idx] /\ Here \in PollFd /\ idx \in Entries
      /\ ~stop => Clean(b) /\ NotStreaming(b) /\ Here.events = {"IN"}
  BY ReadFacts
<1>2. client \in [Fds -> Client] /\ socks \in Seq(PollFd)
  BY DEF IInv, TypeOK
<1> HIDE DEF Here
<1>3. client' = [client EXCEPT ![f] = c]
  BY <1>1, <1>2
<1> HIDE DEF b
<1>4. /\ c \in Client /\ c.cgiOut = NoFd /\ c.state = st
      /\ ~stop => Clean(c) /\ NotStreaming(c)
  BY <1>1 DEF Client, States, Clean, NotStreaming
<1> HIDE DEF c
<1>5. ~stop => ClientOK(c) /\ ~Relaunch(c)
  BY <1>4 DEF ClientOK, Relaunch, Idle
<1>6. ~stop => socks'[idx].events = IF c.state \notin Idle THEN {"OUT"} ELSE {"IN"}
  BY <1>1, <1>4
<1> HIDE DEF f
<1>7. socks'[idx].fd = Here.fd /\ socks'[idx].revents = Here.revents
  BY <1>1
<1> QED BY <1>1, <1>2, <1>3, <1>4, <1>5, <1>6, <1>7, ReadStep DEF f

\* An empty or failed read leaves the client between requests.
LEMMA ReadNothingStep ==
  ASSUME IInv, ReadNothing
  PROVE  IInv'
<1> DEFINE st == IF peer[Here.fd].end = "fin" THEN "READ_EMPTY" ELSE "READ_ERROR"
<1>1. /\ ReadsClient /\ Advance /\ peer' = peer
      /\ client' = [client EXCEPT ![Here.fd].state = st, ![Here.fd].stale = FALSE]
      /\ UNCHANGED <<socks, clients, cgis, cgi, open, proc, badClose>>
  BY DEF ReadNothing, kernel
<1>2. st \in Idle /\ peer' \in [Fds -> Peer]
  BY <1>1 DEF Idle, IInv, TypeOK
<1> HIDE DEF st
<1> QED BY <1>1, <1>2, IdleReadStep

\* Reading empties the receive buffer and nothing else.
LEMMA BytesRead ==
  ASSUME IInv, ReadsBytes
  PROVE  /\ ReadsClient /\ Advance /\ peer' \in [Fds -> Peer]
         /\ \A f \in Fds : peer'[f].full = peer[f].full /\ peer'[f].end = peer[f].end
<1>1. peer \in [Fds -> Peer] /\ peer' = [peer EXCEPT ![Here.fd].data = FALSE]
      /\ ReadsClient /\ Advance
  BY DEF IInv, TypeOK, ReadsBytes
<1>2. Here.fd \in Fds
  BY <1>1, ReadFacts
<1>3. LET q == [peer[Here.fd] EXCEPT !.data = FALSE] IN
      q \in Peer /\ q.full = peer[Here.fd].full /\ q.end = peer[Here.fd].end
  BY <1>1, <1>2 DEF Peer
<1> QED BY <1>1, <1>2, <1>3

\* So do bytes that do not complete a request.
LEMMA ReadPartStep ==
  ASSUME IInv, ReadPart
  PROVE  IInv'
<1>1. /\ ReadsBytes
      /\ client' = [client EXCEPT ![Here.fd].state = "PARSE_INCOMPLETE",
                                  ![Here.fd].stale = FALSE]
      /\ UNCHANGED <<socks, clients, cgis, cgi, open, proc, badClose>>
  BY DEF ReadPart
<1>2. "PARSE_INCOMPLETE" \in Idle
  BY DEF Idle
<1> QED BY <1>1, <1>2, BytesRead, IdleReadStep

\* A complete request makes the client wait for POLLOUT.
LEMMA ReadRequestStep ==
  ASSUME IInv, ReadRequest
  PROVE  IInv'
<1> DEFINE f == Here.fd
           b == client[f]
<1>1. ReadsBytes /\ ReadsClient /\ Advance
  BY BytesRead DEF ReadRequest
<1>2. /\ f \in clients /\ f \in Fds /\ b \in Client /\ b.cgiOut = NoFd
      /\ Here = socks[idx] /\ Here \in PollFd /\ idx \in Entries
      /\ ~stop => Clean(b) /\ NotStreaming(b)
  BY <1>1, ReadFacts
<1>3. PICK st \in Parsed, r \in Routes :
        client' = [client EXCEPT ![f].state = st, ![f].stale = FALSE, ![f].route = r]
  BY DEF ReadRequest
<1>4. client \in [Fds -> Client] /\ socks \in Seq(PollFd)
  BY DEF IInv, TypeOK
<1>5. socks' = [socks EXCEPT ![idx].events = {"OUT"}]
      /\ UNCHANGED <<clients, cgis, cgi, open, proc, badClose>>
  BY DEF ReadRequest
<1> DEFINE c == [b EXCEPT !.state = st, !.stale = FALSE, !.route = r]
<1> HIDE DEF Here
<1>6. client' = [client EXCEPT ![f] = c]
  BY <1>2, <1>3, <1>4
<1> HIDE DEF b
<1>7. /\ c \in Client /\ c.cgiOut = NoFd /\ c.state = st /\ st \notin Idle
      /\ c.status = b.status /\ c.wbuf = b.wbuf
      /\ ~stop => NotStreaming(c)
  BY <1>2 DEF Client, States, NotStreaming, Parsed, Idle
<1> HIDE DEF c
<1>8. ~stop => ClientOK(c) /\ ~Relaunch(c)
  BY <1>2, <1>7 DEF ClientOK, Relaunch, Clean, Parsed
<1> DEFINE e == [Here EXCEPT !.events = {"OUT"}]
<1>9. /\ e \in PollFd /\ e.fd = Here.fd /\ e.revents = Here.revents
      /\ e.events = {"OUT"}
  BY <1>2 DEF PollFd
<1>10. socks' = [socks EXCEPT ![idx] = e]
  BY <1>2, <1>5
<1> HIDE DEF e
<1>11. /\ socks' \in Seq(PollFd) /\ Len(socks') = Len(socks)
       /\ \A k \in Entries : k # idx => socks'[k] = socks[k]
       /\ socks'[idx] = e
  BY <1>2, <1>4, <1>9, <1>10 DEF Entries
<1> QED BY <1>1, <1>5, <1>6, <1>7, <1>8, <1>9, <1>11, BytesRead, ReadStep

\* Reading a pipe changes its Cgi and the phase of that Cgi's client.
LEMMA ReadPipeStep ==
  ASSUME IInv, ReadPipe
  PROVE  IInv'
<1> DEFINE p == Here.fd
           f == cgi[p].client
           done == "HUP" \in Here.revents /\ HasFinished(p)
           reads == "IN" \in Here.revents \/ done
           b == client[f]
           g == cgi[p]
           r == proc[p]
           s == b.stale /\ ~reads
           st == IF done THEN "CGI_COMPLETED" ELSE b.state
           buf == g.buffer \/ (reads /\ r.data)
           ex == IF done /\ g.exit = "unknown" THEN r.life ELSE g.exit
           dat == r.data /\ ~reads
           lf == IF done THEN "gone" ELSE r.life
           c == [b EXCEPT !.stale = s, !.state = st]
           h == [g EXCEPT !.buffer = buf, !.exit = ex]
           q == [r EXCEPT !.data = dat, !.life = lf]
<1>1. /\ Scanning /\ Advance /\ p \in cgis
      /\ cgi' = [cgi EXCEPT ![p].buffer = buf, ![p].exit = ex]
      /\ proc' = [proc EXCEPT ![p].data = dat, ![p].life = lf]
      /\ client' = [client EXCEPT ![f].stale = s, ![f].state = st]
      /\ UNCHANGED <<socks, clients, cgis, open, peer, badClose>>
  BY DEF ReadPipe
<1>2. TypeOK /\ Core /\ (~stop => Steady) /\ Struct(Tables)
  BY <1>1 DEF IInv, Core, Scanning
<1>3. /\ client \in [Fds -> Client] /\ cgi \in [Fds -> Cgi] /\ proc \in [Fds -> Proc]
      /\ peer \in [Fds -> Peer] /\ clients \subseteq Fds /\ cgis \subseteq Fds
      /\ socks \in Seq(PollFd)
  BY <1>2 DEF TypeOK
<1>4. p \in Fds /\ f \in clients /\ f \in Fds /\ b.cgiOut = p /\ p # NoFd
  <2>1. f \in clients /\ b.cgiOut = p
    BY <1>1, <1>2 DEF Struct, Linked, Tables
  <2> QED BY <1>1, <1>3, <2>1, FdsAssumption
<1>5. /\ setup' = setup /\ stop' = stop /\ pc = "scan" /\ pc' = "scan"
      /\ idx' \in 1..(Len(socks) + 1) /\ idx' \in Nat
      /\ \A k \in Entries : Ahead(k)' => Ahead(k)
  BY <1>1, Advances
<1>6. b \in Client /\ g \in Cgi /\ r \in Proc
  BY <1>3, <1>4
<1>7. done /\ g.exit = "unknown" => r.life \in {"ok", "failed"}
  BY DEF HasFinished
<1>a. done => reads
  OBVIOUS
<1>8. /\ cgi' = [cgi EXCEPT ![p] = h] /\ proc' = [proc EXCEPT ![p] = q]
      /\ client' = [client EXCEPT ![f] = c]
  <2> HIDE DEF buf, ex, dat, lf, s, st, p
  <2> QED BY <1>1, <1>3, <1>4
<1>9. done \in BOOLEAN /\ reads \in BOOLEAN
  OBVIOUS
<1> HIDE DEF done, reads, p
<1>10. /\ h \in Cgi /\ h.client = f /\ q \in Proc
       /\ ~done => h.exit = g.exit /\ (r = GoneProc => q = GoneProc)
       /\ done => h.exit \in {"ok", "failed"} /\ q = GoneProc
  <2>1. buf \in BOOLEAN /\ ex \in {"unknown", "ok", "failed"}
        /\ dat \in BOOLEAN /\ lf \in {"writing", "closed", "ok", "failed", "gone"}
    BY <1>6, <1>7 DEF Cgi, Proc
  <2>2. /\ ~done => ex = g.exit /\ lf = r.life /\ (~r.data => ~dat)
        /\ done => ex \in {"ok", "failed"} /\ ~dat /\ lf = "gone"
    BY <1>6, <1>7, <1>a DEF Cgi
  <2> HIDE DEF buf, ex, dat, lf
  <2>3. h \in Cgi /\ h.client = g.client /\ h.exit = ex
    BY <1>6, <2>1 DEF Cgi
  <2>4. q \in Proc /\ q.data = dat /\ q.life = lf
    BY <1>6, <2>1 DEF Proc
  <2> HIDE DEF q, GoneProc
  <2>5. ~done => (r = GoneProc => q = GoneProc)
    BY <1>6, <2>2, <2>4, ProcIsGone
  <2>6. done => q = GoneProc
    BY <2>2, <2>4, ProcIsGone
  <2> QED BY <2>2, <2>3, <2>4, <2>5, <2>6
<1>11. /\ c \in Client /\ c.cgiOut = b.cgiOut /\ c.state = st
       /\ ClientOK(b) => ClientOK(c) /\ b.state \notin Idle
       /\ Relaunch(c) => Relaunch(b)
       /\ c.state = IF done THEN "CGI_COMPLETED" ELSE b.state
  <2>1. s \in BOOLEAN /\ st \in States /\ st \in {b.state, "CGI_COMPLETED"}
        /\ st = IF done THEN "CGI_COMPLETED" ELSE b.state
    BY <1>6 DEF Client, States, CgiStates
  <2> HIDE DEF s, st
  <2>2. /\ c \in Client /\ c.cgiOut = b.cgiOut /\ c.state = st
        /\ c.status = b.status /\ c.wbuf = b.wbuf
        /\ c.route = b.route /\ c.close = b.close
        /\ c.chunked = b.chunked /\ c.out = b.out /\ c.stage = b.stage
    BY <1>6, <2>1 DEF Client
  <2> HIDE DEF c, b
  <2>3. ClientOK(b) => ClientOK(c) /\ b.state \notin Idle
    BY <1>4, <2>1, <2>2 DEF ClientOK, Clean, NotStreaming, Idle, Parsed
  <2>4. Relaunch(c) => Relaunch(b)
    BY <2>1, <2>2 DEF Relaunch
  <2> QED BY <2>1, <2>2, <2>3, <2>4
<1>12. st \in {b.state, "CGI_COMPLETED"} /\ (b.state \notin Idle => st \notin Idle)
  BY DEF Idle
<1> HIDE DEF c, h, q, b, s, st, buf, ex, dat, lf, r
<1>13. /\ client' \in [Fds -> Client] /\ cgi' \in [Fds -> Cgi] /\ proc' \in [Fds -> Proc]
       /\ client'[f] = c /\ \A j \in Fds : j # f => client'[j] = client[j]
       /\ \A j \in Fds : client'[j].cgiOut = client[j].cgiOut
       /\ \A j \in Fds : cgi'[j].client = cgi[j].client
  BY <1>3, <1>4, <1>8, <1>10, <1>11 DEF b
<1>14. \A j \in clients : client'[j].state \in Parsed => client'[j].cgiOut = NoFd
  <2>1. b.state \in Parsed => b.cgiOut = NoFd
    BY <1>2, <1>4 DEF Core, b
  <2>2. c.state \in Parsed => c.cgiOut = NoFd
    BY <1>11, <1>12, <2>1 DEF Parsed
  <2> QED BY <1>2, <1>3, <1>13, <2>2 DEF Core
<1>15. ~stop => \A j \in clients :
         /\ ClientOK(client'[j])
         /\ Relaunch(client'[j]) => peer'[j].end = "reset"
  <2>1. ASSUME ~stop, NEW j \in clients
        PROVE  ClientOK(client[j]) /\ (Relaunch(client[j]) => peer'[j].end = "reset")
    BY <1>1, <1>2, <2>1 DEF Steady
  <2>2. CASE stop
    BY <2>2
  <2>3. ASSUME ~stop, NEW j \in clients, j # f
        PROVE  client'[j] = client[j]
    BY <1>3, <1>13, <2>3
  <2>4. ASSUME ~stop
        PROVE  ClientOK(client'[f]) /\ (Relaunch(client'[f]) => peer'[f].end = "reset")
    <3>1. ClientOK(b) /\ (Relaunch(b) => peer'[f].end = "reset")
      BY <1>4, <2>1, <2>4 DEF b
    <3> QED BY <1>11, <1>13, <3>1
  <2> QED BY <2>1, <2>2, <2>3, <2>4
<1>16. ASSUME ~stop, NEW k \in Entries
       PROVE  EntryOK(k)'
  <2>1. EntryOK(k) /\ (Ahead(k)' => Ahead(k)) /\ ClientOK(b)
    BY <1>2, <1>4, <1>5, <1>16 DEF Steady, b
  <2>2. c.state \notin Idle /\ b.state \notin Idle
    BY <1>11, <1>12, <2>1
  <2>3. socks'[k] = socks[k] /\ clients' = clients /\ peer' = peer
    BY <1>1
  <2> QED BY <1>3, <1>11, <1>13, <2>1, <2>2, <2>3, EntryKept DEF b
<1>17. ASSUME ~stop
       PROVE  Drained(Tables)'
  <2>1. /\ cgi'[p] = h /\ proc'[p] = q
        /\ \A j \in Fds : j # p => cgi'[j] = cgi[j] /\ proc'[j] = proc[j]
    BY <1>3, <1>4, <1>8
  <2>2. \A j \in cgis : j \in Fds /\ (j # p => cgi[j].client \in Fds /\ cgi[j].client # f)
    BY <1>2, <1>3, <1>4 DEF Struct, Linked, Tables, b
  <2>3. Drained(Tables)
    BY <1>17 DEF IInv
  <2>4. CASE ~done
    <3> SUFFICES ASSUME NEW j \in cgis
                 PROVE  /\ cgi'[j].client = cgi[j].client /\ cgi'[j].exit = cgi[j].exit
                        /\ client'[cgi[j].client].state = client[cgi[j].client].state
                        /\ proc[j] = GoneProc => proc'[j] = GoneProc
      BY <1>1, <2>3, DrainedKept
    <3>1. CASE j = p
      BY <1>4, <1>10, <1>11, <1>13, <2>1, <2>4, <3>1 DEF f, g, r, b
    <3>2. CASE j # p
      BY <1>13, <2>1, <2>2, <3>2
    <3> QED BY <3>1, <3>2
  <2>5. CASE done
    <3> SUFFICES ASSUME NEW j \in cgis
                 PROVE  LET e == client'[cgi'[j].client] IN
                        \/ e.state = "CGI_JUST_STARTED" /\ cgi'[j].exit = "unknown"
                        \/ /\ e.state = "CGI_COMPLETED" /\ cgi'[j].exit \in {"ok", "failed"}
                           /\ proc'[j] = GoneProc
      BY <1>1 DEF Drained, Tables
    <3>1. CASE j = p
      BY <1>10, <1>11, <1>13, <2>1, <2>5, <3>1
    <3>2. CASE j # p
      BY <1>13, <2>1, <2>2, <2>3, <3>2 DEF Drained, Tables
    <3> QED BY <3>1, <3>2
  <2> QED BY <2>4, <2>5
<1> QED BY <1>1, <1>3, <1>5, <1>13, <1>14, <1>15, <1>16, <1>17, FrameStep

-----------------------------------------------------------------------------
(* The steps of run() and acceptConnections *)

\* poll() reports an event asked for, or a hangup.
LEMMA ReventsFacts ==
  ASSUME NEW e \in PollFd, open \in [Fds -> {"free", "socket", "pipe"}]
  PROVE  /\ Revents(e) \subseteq e.events \cup {"HUP"}
         /\ Revents(e) \in SUBSET {"IN", "OUT", "HUP"}
         /\ open[e.fd] = "socket" =>
              /\ "OUT" \in Revents(e) /\ peer[e.fd].full => peer[e.fd].end = "reset"
              /\ peer[e.fd].end = "reset" => "HUP" \in Revents(e)
<1>0. e.fd \in Fds /\ e.events \in SUBSET {"IN", "OUT"}
  BY DEF PollFd
<1>1. CASE open[e.fd] = "socket"
  BY <1>0, <1>1 DEF Revents
<1>2. CASE open[e.fd] = "pipe"
  BY <1>0, <1>2 DEF Revents
<1>3. CASE open[e.fd] = "free"
  BY <1>3 DEF Revents
<1> QED BY <1>0, <1>1, <1>2, <1>3

\* poll() gives each entry events it waits for: what Steady promises the
\* handlers about room in the socket and about reset connections.
LEMMA PollStep ==
  ASSUME IInv, Poll
  PROVE  IInv'
<1>1. /\ TypeOK /\ Core /\ Steady /\ ~stop /\ pc = "poll" /\ pc' = "accept"
      /\ setup' = setup /\ stop' = stop /\ idx' = idx /\ clients' = clients
      /\ client' = client /\ cgis' = cgis /\ cgi' = cgi /\ open' = open
      /\ peer' = peer /\ proc' = proc /\ badClose' = badClose
  BY DEF IInv, Poll, kernel
<1>2. Struct(Tables)
  BY <1>1 DEF Core
<1>3. /\ socks \in Seq(PollFd) /\ clients \subseteq Fds
      /\ client \in [Fds -> Client] /\ cgi \in [Fds -> Cgi] /\ proc \in [Fds -> Proc]
      /\ open \in [Fds -> {"free", "socket", "pipe"}]
      /\ peer \in [Fds -> Peer] /\ idx \in Nat /\ setup \in Setups
      /\ stop \in BOOLEAN
  BY <1>1 DEF TypeOK
<1>4. ASSUME NEW k \in Entries
      PROVE  /\ socks[k] \in PollFd
             /\ [socks[k] EXCEPT !.revents = Revents(socks[k])] \in PollFd
             /\ socks'[k].fd = socks[k].fd /\ socks'[k].events = socks[k].events
             /\ socks'[k].revents = Revents(socks[k])
  <2> DEFINE e == socks[k]
             r == Revents(e)
  <2>1. e \in PollFd
    BY <1>3, <1>4 DEF Entries
  <2>2. r \in SUBSET {"IN", "OUT", "HUP"}
    BY <1>3, <2>1, ReventsFacts
  <2>3. socks'[k] = [e EXCEPT !.revents = r]
    BY <1>4 DEF Poll, Entries
  <2> HIDE DEF e, r
  <2>4. [e EXCEPT !.revents = r] \in PollFd
    BY <2>1, <2>2 DEF PollFd
  <2>5. /\ socks'[k].fd = e.fd /\ socks'[k].events = e.events /\ socks'[k].revents = r
    BY <2>1, <2>3 DEF PollFd
  <2> QED BY <2>1, <2>4, <2>5 DEF e, r
<1>5. socks' \in Seq(PollFd) /\ Len(socks') = Len(socks)
  <2>1. socks' = [k \in 1..Len(socks) |->
                    [socks[k] EXCEPT !.revents = Revents(socks[k])]]
    BY DEF Poll
  <2>2. socks' \in [1..Len(socks) -> PollFd]
    BY <1>4, <2>1 DEF Entries
  <2>3. Len(socks) \in Nat
    BY <1>3
  <2> QED BY <2>2, <2>3
<1>6. Struct(Tables)'
  BY <1>1, <1>2, <1>3, <1>4, <1>5, StructKept
<1>7. TypeOK'
  BY <1>1, <1>3, <1>6, TypesFollow
<1>8. ASSUME NEW k \in Entries
      PROVE  Readable(k)' /\ EntryOK(k)'
  <2>1. EntryOK(k)
    BY <1>1 DEF Steady
  <2>2. /\ socks'[k].fd = socks[k].fd /\ socks'[k].events = socks[k].events
        /\ socks'[k].revents = Revents(socks[k]) /\ socks[k] \in PollFd
    BY <1>4
  <2>3. /\ Revents(socks[k]) \subseteq socks[k].events \cup {"HUP"}
        /\ open[socks[k].fd] = "socket" =>
              /\ "OUT" \in Revents(socks[k]) /\ peer[socks[k].fd].full
                   => peer[socks[k].fd].end = "reset"
              /\ peer[socks[k].fd].end = "reset" => "HUP" \in Revents(socks[k])
    BY <1>3, <2>2, ReventsFacts
  <2>4. socks[k].fd \in clients => open[socks[k].fd] = "socket"
    BY <1>2, <1>3 DEF Struct, Agree, Tables
  <2>5. socks[k].fd \in clients =>
          /\ ClientOK(client[socks[k].fd])
          /\ Relaunch(client[socks[k].fd]) => peer[socks[k].fd].end = "reset"
    BY <1>1 DEF Steady
  <2>6. Readable(k)'
    BY <1>1, <2>1, <2>2, <2>3, <2>5 DEF Readable, EntryOK, ClientOK
  <2>7. EntryOK(k)'
    BY <1>1, <2>1, <2>2, <2>3, <2>4, <2>5 DEF EntryOK
  <2> QED BY <2>6, <2>7
<1>9. Core'
  BY <1>1, <1>5, <1>6, <1>8 DEF Core, Entries
<1>10. Steady'
  BY <1>1, <1>5, <1>8 DEF Steady, Entries
<1>11. Drained(Tables)'
  BY <1>1, DrainedKept DEF IInv
<1> QED BY <1>7, <1>9, <1>10, <1>11 DEF IInv

\* The interrupted poll() is where Steady ends and Core goes on.
LEMMA PollInterruptedStep ==
  ASSUME IInv, PollInterrupted
  PROVE  IInv'
<1>1. /\ TypeOK /\ Core /\ pc = "poll" /\ pc' = "accept" /\ stop' = TRUE
      /\ setup' = setup /\ idx' = idx /\ socks' = socks /\ clients' = clients
      /\ client' = client /\ cgis' = cgis /\ cgi' = cgi /\ open' = open
      /\ peer' = peer /\ proc' = proc /\ badClose' = badClose
  BY DEF IInv, PollInterrupted, tables, kernel
<1>2. TypeOK'
  BY <1>1 DEF TypeOK
<1>3. Tables' = Tables
  BY <1>1 DEF Tables
<1>4. Struct(Tables)'
  BY <1>1, <1>3 DEF Core
<1>5. Core'
  BY <1>1, <1>4 DEF Core, Readable, Entries
<1> QED BY <1>1, <1>2, <1>5 DEF IInv

\* accept() is over, or the scan: nothing changes but where the loop is.
LEMMA TurnStep ==
  ASSUME IInv, AcceptEnd \/ ScanEnd
  PROVE  IInv'
<1>1. /\ TypeOK /\ Core /\ (~stop => Steady)
      /\ setup' = setup /\ stop' = stop
      /\ socks' = socks /\ clients' = clients /\ client' = client
      /\ cgis' = cgis /\ cgi' = cgi /\ open' = open
      /\ peer' = peer /\ proc' = proc /\ badClose' = badClose
      /\ \/ pc = "accept" /\ pc' = "scan" /\ idx' = 1
         \/ pc = "scan" /\ pc' = "poll" /\ idx' = 0
  BY DEF IInv, AcceptEnd, ScanEnd, tables, kernel
<1>2. /\ socks \in Seq(PollFd) /\ Len(socks) \in Nat /\ clients \subseteq Fds
      /\ client \in [Fds -> Client] /\ cgi \in [Fds -> Cgi] /\ proc \in [Fds -> Proc]
      /\ peer \in [Fds -> Peer]
  BY <1>1 DEF TypeOK
<1>3. /\ pc' \in {"poll", "accept", "scan"} /\ idx' \in Nat
      /\ pc' = "scan" => idx' \in 1..(Len(socks) + 1)
      /\ pc # "stopped"
  BY <1>1, <1>2
<1>4. \A f \in clients : client'[f].state \in Parsed => client'[f].cgiOut = NoFd
  BY <1>1 DEF Core
<1>5. ~stop => \A f \in clients :
        /\ ClientOK(client'[f])
        /\ Relaunch(client'[f]) => peer'[f].end = "reset"
  BY <1>1 DEF Steady
<1>6. ASSUME ~stop, NEW k \in Entries
      PROVE  EntryOK(k)'
  <2>1. EntryOK(k) /\ (Ahead(k)' => Ahead(k))
    BY <1>1, <1>6 DEF Steady, Ahead
  <2> QED BY <1>1, <2>1, EntryKept
<1>7. ~stop => Drained(Tables)'
  BY <1>1, DrainedKept DEF IInv
<1> QED BY <1>1, <1>2, <1>3, <1>4, <1>5, <1>6, <1>7, FrameStep

\* A connection is accepted: its entry is the last one.
LEMMA AcceptOneStep ==
  ASSUME IInv, AcceptOne
  PROVE  IInv'
<1> DEFINE n == Len(socks)
<1>1. PICK f \in Fds :
        /\ open[f] = "free"
        /\ open' = [open EXCEPT ![f] = "socket"]
        /\ peer' = [peer EXCEPT ![f] = NewPeer]
        /\ socks' = Append(socks, [fd |-> f, events |-> {"IN"}, revents |-> {}])
        /\ clients' = clients \cup {f}
        /\ client' = [client EXCEPT ![f] = NewClient]
  BY DEF AcceptOne
<1> DEFINE e == [fd |-> f, events |-> {"IN"}, revents |-> {}]
<1>2. /\ TypeOK /\ Core /\ (~stop => Steady) /\ pc = "accept" /\ pc' = pc
      /\ setup' = setup /\ stop' = stop /\ idx' = idx
      /\ cgis' = cgis /\ cgi' = cgi /\ proc' = proc /\ badClose' = badClose
  BY DEF IInv, AcceptOne, loop
<1>3. Struct(Tables)
  BY <1>2 DEF Core
<1>4. /\ socks \in Seq(PollFd) /\ n \in Nat /\ clients \subseteq Fds /\ cgis \subseteq Fds
      /\ client \in [Fds -> Client] /\ cgi \in [Fds -> Cgi] /\ proc \in [Fds -> Proc]
      /\ open \in [Fds -> {"free", "socket", "pipe"}] /\ badClose = {}
      /\ peer \in [Fds -> Peer] /\ idx \in Nat /\ setup \in Setups
      /\ stop \in BOOLEAN
  BY <1>2, <1>3, TablesFacts DEF TypeOK
<1>5. /\ \A j, k \in Entries : socks[j].fd = socks[k].fd => j = k
      /\ \A k \in Entries : socks[k].fd \in clients \cup cgis
      /\ \A g \in clients \cup cgis : \E k \in Entries : socks[k].fd = g
      /\ \A g \in Fds : /\ g \in clients <=> open[g] = "socket"
                        /\ g \in cgis <=> open[g] = "pipe"
  BY <1>3 DEF Struct, Agree, Tables, Entries
<1>6. /\ \A p \in cgis : /\ cgi[p].client \in clients
                         /\ client[cgi[p].client].cgiOut = p
      /\ \A g \in clients : client[g].cgiOut # NoFd =>
           client[g].cgiOut \in cgis /\ cgi[client[g].cgiOut].client = g
      /\ \A j, k \in Entries : socks[j].fd \in cgis /\ socks[k].fd = cgi[socks[j].fd].client
           => k < j
  BY <1>3 DEF Struct, Linked, Ordered, Tables, Entries
<1>7. f \notin clients /\ f \notin cgis
  BY <1>1, <1>5
<1>8. e \in PollFd /\ e.fd = f /\ e.events = {"IN"} /\ e.revents = {}
  BY DEF PollFd
<1> HIDE DEF e, n
<1>9. /\ socks' \in Seq(PollFd) /\ Len(socks') = n + 1 /\ socks'[n + 1] = e
      /\ \A k \in Entries : socks'[k] = socks[k]
      /\ \A k \in Entries' : k \in Entries \/ k = n + 1
      /\ n + 1 \in Entries' /\ n + 1 \notin Entries
      /\ \A k \in Entries : k \in Entries'
  BY <1>1, <1>4, <1>8 DEF e, n, Entries
<1>10. /\ client' \in [Fds -> Client] /\ client'[f] = NewClient
       /\ \A g \in Fds : g # f => client'[g] = client[g]
       /\ peer' \in [Fds -> Peer] /\ \A g \in Fds : g # f => peer'[g] = peer[g]
       /\ clients' \subseteq Fds
  BY <1>1, <1>4, NewValues
<1>11. /\ NewClient.cgiOut = NoFd /\ NewClient.state = "RESET"
       /\ ClientOK(NewClient) /\ ~Relaunch(NewClient)
  BY DEF NewClient, ClientOK, Clean, NotStreaming, Relaunch, Idle, Parsed
<1>12. Struct(Tables)'
  <2> DEFINE t == Tables'
  <2>1. /\ t.socks = socks' /\ t.clients = clients' /\ t.client = client'
        /\ t.cgis = cgis /\ t.cgi = cgi /\ t.open = open' /\ t.bad = {}
        /\ 1..Len(socks') = Entries'
    BY <1>2, <1>4 DEF Tables, Entries
  <2>2. open' \in [Fds -> {"free", "socket", "pipe"}]
    BY <1>1, <1>4
  <2>3. t \in TablesType
    BY <1>2, <1>4, <1>9, <1>10, <2>2 DEF Tables, TablesType
  <2> HIDE DEF t
  <2>4. Agree(t)
    <3>1. \A j, k \in Entries' : socks'[j].fd = socks'[k].fd => j = k
      BY <1>5, <1>7, <1>8, <1>9
    <3>2. \A k \in Entries' : socks'[k].fd \in clients' \cup cgis
      BY <1>1, <1>5, <1>8, <1>9
    <3>3. ASSUME NEW g \in clients' \cup cgis
          PROVE  \E k \in Entries' : socks'[k].fd = g
      <4>1. CASE g = f
        BY <1>8, <1>9, <4>1
      <4>2. CASE g # f
        <5>1. PICK k \in Entries : socks[k].fd = g
          BY <1>1, <1>5, <4>2
        <5> QED BY <1>9, <5>1
      <4> QED BY <4>1, <4>2
    <3>4. \A g \in Fds : /\ g \in clients' <=> open'[g] = "socket"
                         /\ g \in cgis <=> open'[g] = "pipe"
      BY <1>1, <1>4, <1>5, <1>7
    <3> QED BY <2>1, <3>1, <3>2, <3>3, <3>4 DEF Agree
  <2>5. Linked(t)
    <3>1. ASSUME NEW p \in cgis
          PROVE  cgi[p].client \in clients' /\ client'[cgi[p].client].cgiOut = p
      BY <1>1, <1>4, <1>6, <1>7, <1>10
    <3>2. ASSUME NEW g \in clients', client'[g].cgiOut # NoFd
          PROVE  client'[g].cgiOut \in cgis /\ cgi[client'[g].cgiOut].client = g
      BY <1>1, <1>4, <1>6, <1>10, <1>11, <3>2
    <3> QED BY <2>1, <3>1, <3>2 DEF Linked
  <2>6. Ordered(t)
    <3>1. ASSUME NEW j \in Entries', NEW k \in Entries',
                 socks'[j].fd \in cgis, socks'[k].fd = cgi[socks'[j].fd].client
          PROVE  k < j
      <4>1. j \in Entries
        BY <1>7, <1>8, <1>9, <3>1
      <4>2. socks'[k].fd \in clients
        BY <1>6, <3>1
      <4>3. k \in Entries
        BY <1>7, <1>8, <1>9, <4>2
      <4> QED BY <1>6, <1>9, <3>1, <4>1, <4>3
    <3> QED BY <2>1, <3>1 DEF Ordered
  <2> QED BY <2>1, <2>3, <2>4, <2>5, <2>6 DEF Struct, t
<1>13. TypeOK'
  BY <1>2, <1>4, <1>10, <1>12, TypesFollow
<1>14. \A g \in clients' : client'[g].state \in Parsed => client'[g].cgiOut = NoFd
  BY <1>1, <1>2, <1>4, <1>10, <1>11 DEF Core
<1>15. ASSUME NEW k \in Entries'
       PROVE  Readable(k)'
  <2>1. CASE k \in Entries
    <3>1. Readable(k) /\ socks'[k] = socks[k] /\ socks[k].fd # f
      BY <1>2, <1>5, <1>7, <1>9, <2>1 DEF Core
    <3> QED BY <1>1, <1>4, <1>10, <3>1 DEF Readable
  <2>2. CASE k = n + 1
    BY <1>8, <1>9, <2>2 DEF Readable
  <2> QED BY <1>9, <2>1, <2>2
<1>16. Core'
  BY <1>2, <1>12, <1>14, <1>15 DEF Core
<1>17. ASSUME ~stop PROVE Steady'
  <2>1. \A g \in clients' : /\ ClientOK(client'[g])
                            /\ Relaunch(client'[g]) => peer'[g].end = "reset"
    BY <1>1, <1>2, <1>4, <1>10, <1>11, <1>17 DEF Steady
  <2>2. ASSUME NEW k \in Entries'
        PROVE  EntryOK(k)'
    <3>1. CASE k \in Entries
      <4>1. EntryOK(k) /\ socks'[k] = socks[k] /\ socks[k].fd # f
        BY <1>2, <1>5, <1>7, <1>9, <1>17, <3>1 DEF Steady
      <4>2. Ahead(k)
        BY <1>2 DEF Ahead
      <4>3. socks[k].fd \in clients' <=> socks[k].fd \in clients
        BY <1>1, <4>1
      <4>4. socks[k].fd \in clients => client'[socks[k].fd] = client[socks[k].fd]
                                       /\ peer'[socks[k].fd] = peer[socks[k].fd]
        BY <1>4, <1>10, <4>1
      <4> QED BY <4>1, <4>2, <4>3, <4>4 DEF EntryOK, Relaunch
    <3>2. CASE k = n + 1
      <4>1. client'[f].state \in Idle /\ ~Relaunch(client'[f])
        BY <1>10, <1>11 DEF Idle
      <4> QED BY <1>8, <1>9, <3>2, <4>1 DEF EntryOK, Relaunch
    <3> QED BY <1>9, <3>1, <3>2
  <2> QED BY <2>1, <2>2 DEF Steady, ClientOK, Relaunch
<1>18. ~stop => Drained(Tables)'
  <2>1. \A p \in cgis : cgi[p].client \in Fds /\ cgi[p].client # f
    BY <1>4, <1>6, <1>7
  <2> QED BY <1>2, <1>10, <2>1, DrainedKept DEF IInv
<1> QED BY <1>2, <1>13, <1>16, <1>17, <1>18 DEF IInv

\* The shutdown leaves nothing behind.
LEMMA ShutDownStep ==
  ASSUME IInv, ShutDown
  PROVE  IInv'
<1>1. /\ TypeOK /\ setup' = setup /\ stop' = stop /\ idx' = idx
      /\ pc' = "stopped" /\ socks' = <<>> /\ clients' = {} /\ cgis' = {}
      /\ client' = [f \in Fds |-> NewClient] /\ cgi' = [f \in Fds |-> NoCgi]
      /\ open' = [f \in Fds |-> "free"] /\ peer' = [f \in Fds |-> NewPeer]
      /\ proc' = [f \in Fds |-> GoneProc] /\ badClose' = badClose \cup cgis
  BY DEF IInv, ShutDown
<1>2. TypeOK'
  <2>1. /\ client' \in [Fds -> Client] /\ cgi' \in [Fds -> Cgi]
        /\ open' \in [Fds -> {"free", "socket", "pipe"}]
        /\ peer' \in [Fds -> Peer] /\ proc' \in [Fds -> Proc]
    BY <1>1, NewValues
  <2>2. socks' \in Seq(PollFd)
    BY <1>1
  <2> QED BY <1>1, <2>1, <2>2 DEF TypeOK
<1>3. Entries' = {}
  BY <1>1 DEF Entries
<1> QED BY <1>1, <1>2, <1>3 DEF IInv, Core, Steady, Drained, Tables

-----------------------------------------------------------------------------
(* The inductive invariant and what it implies *)

\* An empty poll array, no client and no CGI: the invariant holds at start.
LEMMA InitInvariant == Init => IInv
<1> SUFFICES ASSUME Init PROVE IInv
  OBVIOUS
<1>1. /\ setup \in Setups /\ pc = "poll" /\ stop = FALSE /\ idx = 0
      /\ socks = <<>> /\ clients = {} /\ cgis = {}
      /\ client = [f \in Fds |-> NewClient] /\ cgi = [f \in Fds |-> NoCgi]
      /\ open = [f \in Fds |-> "free"] /\ peer = [f \in Fds |-> NewPeer]
      /\ proc = [f \in Fds |-> GoneProc] /\ badClose = {}
  BY DEF Init
<1>2. /\ client \in [Fds -> Client] /\ cgi \in [Fds -> Cgi]
      /\ open \in [Fds -> {"free", "socket", "pipe"}]
      /\ peer \in [Fds -> Peer] /\ proc \in [Fds -> Proc]
      /\ socks \in Seq(PollFd)
  BY <1>1, NewValues
<1>3. TypeOK
  BY <1>1, <1>2 DEF TypeOK
<1>4. Entries = {}
  BY <1>1 DEF Entries
<1>5. Struct(Tables)
  <2>1. /\ Tables.socks = <<>> /\ Tables.clients = {} /\ Tables.cgis = {}
        /\ Tables.open = open /\ Tables.bad = {}
    BY <1>1 DEF Tables
  <2>2. Tables \in TablesType
    BY <1>1, <1>2 DEF Tables, TablesType
  <2> HIDE DEF Tables
  <2>3. 1..Len(Tables.socks) = {}
    BY <2>1
  <2>4. Agree(Tables) /\ Linked(Tables) /\ Ordered(Tables)
    BY <1>1, <2>1, <2>3 DEF Agree, Linked, Ordered
  <2> QED BY <2>1, <2>2, <2>4 DEF Struct
<1>6. Drained(Tables)
  BY <1>1 DEF Drained, Tables
<1> QED BY <1>1, <1>3, <1>4, <1>5, <1>6 DEF IInv, Core, Steady

\* IInv is inductive: one lemma above per action of Next.
LEMMA NextInvariant == IInv /\ [Next]_vars => IInv'
<1> SUFFICES ASSUME IInv, [Next]_vars PROVE IInv'
  OBVIOUS
<1>1. CASE UNCHANGED vars
  <2>1. Tables' = Tables
    BY <1>1 DEF vars, Tables
  <2>2. (Struct(Tables)' <=> Struct(Tables)) /\ (Drained(Tables)' <=> Drained(Tables))
    BY <2>1 DEF Drained
  <2> QED BY <1>1, <2>2 DEF IInv, TypeOK, Core, Steady, Readable, EntryOK, Ahead, Entries,
        ClientOK, Relaunch, vars
<1>2. CASE Server
  <2>1. CASE Poll \/ PollInterrupted \/ AcceptOne \/ AcceptEnd \/ ScanEnd \/ ShutDown
    BY <2>1, PollStep, PollInterruptedStep, AcceptOneStep, TurnStep, ShutDownStep
  <2>2. CASE DropDead \/ CloseIdle \/ Pass
    BY <2>2, DropDeadStep, CloseIdleStep, PassStep DEF StepOK
  <2>3. CASE ReadNothing \/ ReadPart \/ ReadRequest \/ ReadPipe
    BY <2>3, ReadNothingStep, ReadPartStep, ReadRequestStep, ReadPipeStep
  <2>4. CASE WriteHandler
    BY <2>4, RunPageStep, LaunchCgiStep, LaunchFailsStep, ReportErrorStep,
       RelayCgiStep, FinishCgiStep, FailCgiStep, FlushRestStep DEF WriteHandler, StepOK
  <2> QED BY <1>2, <2>1, <2>2, <2>3, <2>4 DEF Server, Handler
<1>3. CASE Environment
  BY <1>3, EnvironmentStep, AgesStep DEF Environment
<1> QED BY <1>1, <1>2, <1>3 DEF Next, Stopped

\* Every reachable state of every safe deployment satisfies IInv.
THEOREM Invariant == Spec => []IInv
BY InitInvariant, NextInvariant, PTL DEF Spec

\* The handlers keep every variable in its type, whatever they are called on.
THEOREM TypeCorrect == Spec => []TypeOK
<1>1. IInv => TypeOK
  BY DEF IInv
<1> QED BY <1>1, Invariant, PTL

\* The poll array, ClientManager::_clients, _cgi_by_fd and the kernel always
\* agree, also while a handler's scan erases and pushes entries.
THEOREM TablesAlwaysAgree == Spec => []TablesAgree
<1>1. IInv => TablesAgree
  <2> SUFFICES ASSUME IInv PROVE TablesAgree
    OBVIOUS
  <2>1. /\ TypeOK /\ Core
    BY DEF IInv
  <2>2. /\ \A j, k \in Entries : socks[j].fd = socks[k].fd => j = k
        /\ \A k \in Entries : socks[k].fd \in clients \cup cgis
        /\ \A f \in clients \cup cgis : \E k \in Entries : socks[k].fd = f
        /\ \A f \in Fds : /\ f \in clients <=> open[f] = "socket"
                          /\ f \in cgis <=> open[f] = "pipe"
    <3>1. CASE pc = "stopped"
      BY <2>1, <3>1 DEF Core, Entries
    <3>2. CASE pc # "stopped"
      BY <2>1, <3>2 DEF Core, Struct, Agree, Tables, Entries
    <3> QED BY <3>1, <3>2
  <2> QED BY <2>1, <2>2 DEF TablesAgree, TypeOK
<1> QED BY <1>1, Invariant, PTL

\* Cgi::_client and Client::_cgiOutputFd never dangle.
THEOREM CgiAlwaysHasItsClient == Spec => []CgiHasItsClient
<1>1. IInv => CgiHasItsClient
  BY DEF IInv, Core, Struct, Linked, Tables, CgiHasItsClient
<1> QED BY <1>1, Invariant, PTL

\* A pipe comes after its client, so cleanupCgi's erase moves no entry that
\* its callers still name by index.
THEOREM PipeAlwaysAfterClient == Spec => []PipeAfterClient
<1>1. IInv => PipeAfterClient
  BY DEF IInv, Core, Struct, Ordered, Tables, PipeAfterClient, Entries
<1> QED BY <1>1, Invariant, PTL

\* Until the last round after a SIGINT, an entry waits for POLLOUT exactly
\* from a parsed request to the end of its response.
THEOREM EventsAlwaysFollowState == Spec => []EventsFollowState
<1>1. IInv => EventsFollowState
  BY DEF IInv, Steady, EntryOK, EventsFollowState
<1> QED BY <1>1, Invariant, PTL

\* Until then, a client between requests keeps nothing of the last response.
THEOREM IdleIsAlwaysClean == Spec => []IdleIsClean
<1>1. IInv => IdleIsClean
  <2> SUFFICES ASSUME IInv, ~stop, NEW f \in clients, client[f].state \in Idle
               PROVE  /\ client[f] = [ResetClientState(client[f]) EXCEPT
                                        !.state = client[f].state]
                      /\ client[f].cgiOut = NoFd
    BY DEF IdleIsClean
  <2> DEFINE c == client[f]
  <2>1. c \in Client /\ ClientOK(c)
    BY DEF IInv, TypeOK, Steady
  <2>2. Clean(c) /\ NotStreaming(c) /\ c.cgiOut = NoFd
    BY <2>1 DEF ClientOK
  <2> HIDE DEF c
  <2>3. c = [ResetClientState(c) EXCEPT !.state = c.state]
    <3>1. /\ c.status = FALSE /\ c.wbuf = FALSE /\ c.route = "page"
          /\ c.close = FALSE /\ c.chunked = FALSE /\ c.out = FALSE
          /\ c.stage = "headers"
      BY <2>1, <2>2 DEF Clean, NotStreaming, Client
    <3>2. c = [state |-> c.state, route |-> c.route,
               status |-> c.status, close |-> c.close, chunked |-> c.chunked,
               stage |-> c.stage, out |-> c.out, wbuf |-> c.wbuf,
               cgiOut |-> c.cgiOut, stale |-> c.stale]
      BY <2>1 DEF Client
    <3>3. [ResetClientState(c) EXCEPT !.state = c.state] =
              [state |-> c.state, route |-> "page",
               status |-> FALSE, close |-> FALSE, chunked |-> FALSE,
               stage |-> "headers", out |-> FALSE, wbuf |-> FALSE,
               cgiOut |-> c.cgiOut, stale |-> c.stale]
      <4> DEFINE r == ResetClientState(c)
                 d == [r EXCEPT !.state = c.state]
      <4>1. /\ r \in Client /\ r.status = FALSE /\ r.wbuf = FALSE
            /\ r.route = "page" /\ r.close = FALSE /\ r.chunked = FALSE
            /\ r.out = FALSE /\ r.stage = "headers"
            /\ r.cgiOut = c.cgiOut /\ r.stale = c.stale
        BY <2>1, NewValues DEF ResetClientState, NewClient, Client
      <4>2. c.state \in States
        BY <2>1 DEF Client
      <4> HIDE DEF r
      <4>3. /\ d \in Client /\ d.state = c.state
            /\ d.status = FALSE /\ d.wbuf = FALSE
            /\ d.route = "page" /\ d.close = FALSE /\ d.chunked = FALSE
            /\ d.out = FALSE /\ d.stage = "headers"
            /\ d.cgiOut = c.cgiOut /\ d.stale = c.stale
        BY <4>1, <4>2 DEF Client
      <4> HIDE DEF d
      <4>4. d = [state |-> d.state, route |-> d.route,
                 status |-> d.status, close |-> d.close, chunked |-> d.chunked,
                 stage |-> d.stage, out |-> d.out, wbuf |-> d.wbuf,
                 cgiOut |-> d.cgiOut, stale |-> d.stale]
        BY <4>3 DEF Client
      <4> QED BY <4>3, <4>4 DEF d, r
    <3> QED BY <3>1, <3>2, <3>3
  <2> QED BY <2>2, <2>3 DEF c
<1> QED BY <1>1, Invariant, PTL

\* Until the last round after a SIGINT, the client of a CGI is completed exactly
\* when the process was reaped and its pipe read to the end.
THEOREM CompletedIsDrained == Spec => []CompletedMeansDrained
<1>1. IInv => CompletedMeansDrained
  BY DEF IInv, Drained, Tables, CompletedMeansDrained
<1> QED BY <1>1, Invariant, PTL

\* While the loop runs, every close() is of a descriptor the server owns.
THEOREM AlwaysClosesOnlyItsOwn == Spec => []ClosesOnlyItsOwn
<1>1. IInv => ClosesOnlyItsOwn
  BY DEF IInv, Core, Struct, Tables, ClosesOnlyItsOwn
<1> QED BY <1>1, Invariant, PTL

-----------------------------------------------------------------------------
(* What a step may never do *)

\* The steps that erase nothing: at most the index moves on, by one.
LEMMA OtherStepsOK ==
  ASSUME IInv,
         \/ Poll \/ PollInterrupted \/ AcceptOne \/ AcceptEnd \/ ScanEnd \/ ShutDown
         \/ Pass \/ ReadNothing \/ ReadPart \/ ReadRequest \/ ReadPipe
         \/ Environment \/ UNCHANGED vars
  PROVE  SidesKept
<1>1. CASE Poll \/ PollInterrupted \/ AcceptOne \/ AcceptEnd \/ ScanEnd \/ ShutDown
  <2>1. pc # "scan" \/ pc' # "scan"
    BY <1>1 DEF Poll, PollInterrupted, AcceptOne, AcceptEnd, ScanEnd, ShutDown
  <2> QED BY <2>1 DEF SidesKept
<1>2. CASE Environment \/ UNCHANGED vars
  <2>1. idx' = idx /\ socks' = socks /\ pc' = pc
    BY <1>2 DEF Environment, PeerSends, PeerReads, PeerEnds, PeerResets, PeerActs,
       CgiOutputs, CgiCloses, CgiExits, ProcActs, Ages, loop, tables, vars
  <2>2. CASE pc = "stopped"
    BY <2>2 DEF SidesKept
  <2> QED BY <2>1, <2>2, SidesFollow
<1>3. CASE Pass \/ ReadNothing \/ ReadPart \/ ReadPipe
  <2>1. idx' = idx + 1 /\ socks' = socks /\ pc = "scan"
    BY <1>3 DEF Pass, ReadNothing, ReadPart, ReadPipe, ReadsBytes, ReadsClient, ReadEntry,
       Scanning, Advance
  <2> QED BY <2>1, SidesFollow
<1>4. CASE ReadRequest
  <2>1. idx' = idx + 1 /\ pc = "scan" /\ socks' = [socks EXCEPT ![idx].events = {"OUT"}]
    BY <1>4 DEF ReadRequest, ReadsBytes, ReadsClient, ReadEntry, Scanning, Advance
  <2>2. socks \in Seq(PollFd)
    BY DEF IInv, TypeOK
  <2>3. \A k \in Entries : socks[k] \in PollFd
    BY <2>2 DEF Entries
  <2>4. Len(socks') = Len(socks) /\ \A k \in Entries : socks'[k].fd = socks[k].fd
    BY <2>1, <2>2, <2>3 DEF PollFd, Entries
  <2> QED BY <2>1, <2>4, SidesFollow
<1> QED BY <1>1, <1>2, <1>3, <1>4

\* Every step of Next, by the lemma of its action.
LEMMA EveryStepOK ==
  ASSUME IInv, [Next]_vars
  PROVE  SidesKept
<1>1. CASE WriteHandler
  BY <1>1, RunPageStep, LaunchCgiStep, LaunchFailsStep, ReportErrorStep,
     RelayCgiStep, FinishCgiStep, FailCgiStep, FlushRestStep DEF WriteHandler, StepOK
<1>2. CASE DropDead \/ CloseIdle
  BY <1>2, DropDeadStep, CloseIdleStep DEF StepOK
<1> QED BY <1>1, <1>2, OtherStepsOK DEF Next, Server, Handler, Stopped

\* Whatever handlers erase or push, the scan handles every entry once.
THEOREM ScanIsAlwaysOnePass == Spec => ScanIsOnePass
<1>1. IInv /\ [Next]_vars => [SidesKept]_vars
  BY EveryStepOK
<1> QED BY <1>1, Invariant, PTL DEF Spec, ScanIsOnePass
==============================================================================
