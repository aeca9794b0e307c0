--------------------------- MODULE EventLoopProofs ---------------------------
(***************************************************************************)
(* Why the handlers of EventLoop keep IInv: first what each function on    *)
(* tables that they are made of does to every field, and that it keeps     *)
(* Struct; then the handlers that answer, launch, clean up and close.      *)
(* handleResponse is the common end of all of processWrite, and Through is *)
(* what its actions keep true of the tables until they call it.            *)
(***************************************************************************)
EXTENDS EventLoopInv, SequenceTheorems, TLAPS

-----------------------------------------------------------------------------
(* Sequences *)

\* What erase(begin() + i) does to a vector.
LEMMA RemoveAtFacts ==
  ASSUME NEW S, NEW s \in Seq(S), NEW i \in 1..Len(s)
  PROVE  /\ RemoveAt(s, i) \in Seq(S)
         /\ Len(RemoveAt(s, i)) = Len(s) - 1
         /\ \A k \in 1..(Len(s) - 1) :
              RemoveAt(s, i)[k] = IF k < i THEN s[k] ELSE s[k + 1]
<1> DEFINE a == SubSeq(s, 1, i - 1)
           b == SubSeq(s, i + 1, Len(s))
<1>1. a \in Seq(S) /\ Len(a) = i - 1 /\ \A k \in 1..(i - 1) : a[k] = s[k]
  OBVIOUS
<1>2. b \in Seq(S) /\ Len(b) = Len(s) - i
      /\ \A k \in 1..(Len(s) - i) : b[k] = s[i + k]
  OBVIOUS
<1> HIDE DEF a, b
<1>3. /\ a \o b \in Seq(S) /\ Len(a \o b) = Len(a) + Len(b)
      /\ \A k \in 1..(Len(a) + Len(b)) :
           (a \o b)[k] = IF k <= Len(a) THEN a[k] ELSE b[k - Len(a)]
  BY <1>1, <1>2, ConcatProperties
<1>4. \A k \in 1..(Len(s) - 1) :
        (a \o b)[k] = IF k < i THEN s[k] ELSE s[k + 1]
  <2> SUFFICES ASSUME NEW k \in 1..(Len(s) - 1)
                PROVE  (a \o b)[k] = IF k < i THEN s[k] ELSE s[k + 1]
    OBVIOUS
  <2>1. k \in 1..(Len(a) + Len(b)) /\ Len(a) = i - 1 /\ Len(s) \in Nat /\ i \in Nat /\ k \in Nat
    BY <1>1, <1>2
  <2>2. CASE k < i
    BY <2>1, <2>2, <1>1, <1>3
  <2>3. CASE ~(k < i)
    <3>1. k - Len(a) \in 1..(Len(s) - i) /\ ~(k <= Len(a))
      BY <2>1, <2>3
    <3>2. b[k - Len(a)] = s[k + 1]
      BY <3>1, <2>1, <1>2
    <3> QED BY <3>1, <3>2, <2>1, <2>3, <1>3
  <2> QED BY <2>2, <2>3
<1>5. RemoveAt(s, i) = a \o b
  BY DEF RemoveAt, a, b
<1>6. Len(a \o b) = Len(s) - 1
  BY <1>1, <1>2, <1>3
<1> QED BY <1>3, <1>4, <1>5, <1>6

-----------------------------------------------------------------------------
(* The calls on the tables, field by field *)

\* No descriptor is polled twice.
Distinct(s) == \A j, k \in 1..Len(s) : s[j].fd = s[k].fd => j = k

\* erase() by descriptor finds the one entry there is.
LEMMA FirstAtUnique ==
  ASSUME NEW s \in Seq(PollFd), NEW q \in 1..Len(s), Distinct(s)
  PROVE  Without(s, s[q].fd) = RemoveAt(s, q)
<1> DEFINE P(k) == /\ s[k].fd = s[q].fd
                   /\ \A j \in 1..(k - 1) : s[j].fd # s[q].fd
<1>1. P(q)
  BY DEF Distinct
<1>2. \A k \in 1..Len(s) : P(k) => k = q
  BY DEF Distinct
<1>3. FirstAt(s, s[q].fd) = q
  BY <1>1, <1>2 DEF FirstAt
<1> QED BY <1>3 DEF Without

\* close() touches the descriptor table, and the record of bad closes only
\* when the descriptor was not open.
LEMMA CloseFdFields ==
  ASSUME NEW t \in TablesType, NEW f \in Fds
  PROVE  LET u == CloseFd(t, f) IN
         /\ u \in TablesType
         /\ u.socks = t.socks /\ u.clients = t.clients /\ u.client = t.client
         /\ u.cgis = t.cgis /\ u.cgi = t.cgi /\ u.proc = t.proc
         /\ u.open = [t.open EXCEPT ![f] = "free"]
         /\ t.open[f] # "free" => u.bad = t.bad
BY DEF TablesType, CloseFd

\* The initial objects have their types.
LEMMA NewValues ==
  NewClient \in Client /\ NoCgi \in Cgi /\ GoneProc \in Proc /\ NewProc \in Proc
  /\ NewPeer \in Peer
BY FdsAssumption DEF NewClient, Client, NoCgi, Cgi, GoneProc, NewProc, Proc,
   NewPeer, Peer, States, Idle

\* cleanupCgi, field by field.
LEMMA CleanupFields ==
  ASSUME NEW t \in TablesType, NEW p \in Fds, t.cgi[p].client \in Fds,
         Without(t.socks, p) \in Seq(PollFd)
  PROVE  LET u == CleanupCgi(t, p)
             f == t.cgi[p].client IN
         /\ u \in TablesType
         /\ u.socks = Without(t.socks, p) /\ u.clients = t.clients
         /\ u.client = [t.client EXCEPT ![f] = [t.client[f] EXCEPT !.cgiOut = NoFd]]
         /\ u.cgis = t.cgis \ {p}
         /\ u.cgi = [t.cgi EXCEPT ![p] = NoCgi]
         /\ u.proc = [t.proc EXCEPT ![p] = GoneProc]
         /\ u.open = [t.open EXCEPT ![p] = "free"]
         /\ t.open[p] # "free" => u.bad = t.bad
<1> DEFINE f == t.cgi[p].client
           v == [t EXCEPT
                  !.socks = Without(t.socks, p),
                  !.cgis = t.cgis \ {p},
                  !.cgi = [t.cgi EXCEPT ![p] = NoCgi],
                  !.proc = [t.proc EXCEPT ![p] = GoneProc],
                  !.client = [t.client EXCEPT ![f] =
                                [t.client[f] EXCEPT !.cgiOut = NoFd]]]
<1>1. t.client[f] \in Client
  BY DEF TablesType
<1>2. [t.client[f] EXCEPT !.cgiOut = NoFd] \in Client
  BY <1>1 DEF Client
<1>3. v \in TablesType
  BY <1>2, NewValues DEF TablesType
<1>4. CleanupCgi(t, p) = CloseFd(v, p)
  BY DEF CleanupCgi
<1>5. /\ v.socks = Without(t.socks, p) /\ v.clients = t.clients
      /\ v.client = [t.client EXCEPT ![f] = [t.client[f] EXCEPT !.cgiOut = NoFd]]
      /\ v.cgis = t.cgis \ {p}
      /\ v.cgi = [t.cgi EXCEPT ![p] = NoCgi]
      /\ v.proc = [t.proc EXCEPT ![p] = GoneProc]
      /\ v.open = t.open /\ v.bad = t.bad
  BY DEF TablesType
<1> HIDE DEF v
<1>6. /\ CloseFd(v, p) \in TablesType
      /\ CloseFd(v, p).socks = v.socks /\ CloseFd(v, p).clients = v.clients
      /\ CloseFd(v, p).client = v.client /\ CloseFd(v, p).cgis = v.cgis
      /\ CloseFd(v, p).cgi = v.cgi /\ CloseFd(v, p).proc = v.proc
      /\ CloseFd(v, p).open = [v.open EXCEPT ![p] = "free"]
      /\ v.open[p] # "free" => CloseFd(v, p).bad = v.bad
  BY <1>3, CloseFdFields
<1> QED BY <1>4, <1>5, <1>6

\* u is t with the pipe p of a CGI for the client f.
Registered(t, p, f, u) ==
  /\ u \in TablesType
  /\ u.socks = Append(t.socks, [fd |-> p, events |-> {"IN"}, revents |-> {}])
  /\ u.clients = t.clients
  /\ u.client = [t.client EXCEPT ![f] =
       [t.client[f] EXCEPT !.cgiOut = p, !.state = "CGI_JUST_STARTED"]]
  /\ u.cgis = t.cgis \cup {p}
  /\ u.cgi = [t.cgi EXCEPT ![p] = [NoCgi EXCEPT !.client = f]]
  /\ u.proc = [t.proc EXCEPT ![p] = NewProc]
  /\ u.open = [t.open EXCEPT ![p] = "pipe"]
  /\ u.bad = t.bad

\* registerCgi, field by field.
LEMMA RegisterFields ==
  ASSUME NEW t \in TablesType, NEW p \in Fds, NEW f \in Fds
  PROVE  Registered(t, p, f, RegisterCgi(t, p, f))
<1> DEFINE e == [fd |-> p, events |-> {"IN"}, revents |-> {}]
           d == [t.client[f] EXCEPT !.cgiOut = p, !.state = "CGI_JUST_STARTED"]
<1>1. e \in PollFd
  BY DEF PollFd
<1>2. Append(t.socks, e) \in Seq(PollFd)
  BY <1>1 DEF TablesType
<1>3. t.client[f] \in Client
  BY DEF TablesType
<1>4. d \in Client
  BY <1>3 DEF Client, States, CgiStates
<1>5. [NoCgi EXCEPT !.client = f] \in Cgi
  BY NewValues DEF Cgi
<1> HIDE DEF e
<1>6. RegisterCgi(t, p, f) = [t EXCEPT
           !.socks = Append(t.socks, e),
           !.cgis = t.cgis \cup {p},
           !.cgi = [t.cgi EXCEPT ![p] = [NoCgi EXCEPT !.client = f]],
           !.open = [t.open EXCEPT ![p] = "pipe"],
           !.proc = [t.proc EXCEPT ![p] = NewProc],
           !.client = [t.client EXCEPT ![f] = d]]
  BY DEF RegisterCgi, e
<1> HIDE DEF d
<1> DEFINE u == RegisterCgi(t, p, f)
<1>7. /\ u.socks = Append(t.socks, e) /\ u.clients = t.clients
      /\ u.cgis = t.cgis \cup {p}
      /\ u.cgi = [t.cgi EXCEPT ![p] = [NoCgi EXCEPT !.client = f]]
      /\ u.open = [t.open EXCEPT ![p] = "pipe"]
      /\ u.proc = [t.proc EXCEPT ![p] = NewProc]
      /\ u.client = [t.client EXCEPT ![f] = d] /\ u.bad = t.bad
  BY <1>6 DEF TablesType
<1>8. /\ [t.cgi EXCEPT ![p] = [NoCgi EXCEPT !.client = f]] \in [Fds -> Cgi]
      /\ [t.open EXCEPT ![p] = "pipe"] \in [Fds -> {"free", "socket", "pipe"}]
      /\ [t.proc EXCEPT ![p] = NewProc] \in [Fds -> Proc]
      /\ [t.client EXCEPT ![f] = d] \in [Fds -> Client]
      /\ t.cgis \cup {p} \in SUBSET Fds
  BY <1>4, <1>5, NewValues DEF TablesType
<1>9. u \in TablesType
  BY <1>2, <1>6, <1>8 DEF TablesType
<1> QED BY <1>7, <1>9 DEF d, e, Registered

\* removeClient on a client without a CGI: nothing is closed.
LEMMA RemoveClientFields ==
  ASSUME NEW t \in TablesType, NEW f \in Fds, t.client[f].cgiOut = NoFd
  PROVE  LET u == RemoveClient(t, f) IN
         /\ u \in TablesType
         /\ u.socks = t.socks /\ u.clients = t.clients \ {f}
         /\ u.client = [t.client EXCEPT ![f] = NewClient]
         /\ u.cgis = t.cgis /\ u.cgi = t.cgi /\ u.proc = t.proc
         /\ u.open = t.open /\ u.bad = t.bad
<1>1. RemoveClient(t, f) = [t EXCEPT !.clients = t.clients \ {f},
                                     !.client = [t.client EXCEPT ![f] = NewClient]]
  BY DEF RemoveClient
<1>2. /\ t.clients \ {f} \in SUBSET Fds
      /\ [t.client EXCEPT ![f] = NewClient] \in [Fds -> Client]
  BY NewValues DEF TablesType
<1> QED BY <1>1, <1>2 DEF TablesType

\* A new value for one Client, field by field.
LEMMA SetClientFields ==
  ASSUME NEW t \in TablesType, NEW f \in Fds, NEW c \in Client
  PROVE  LET u == SetClient(t, f, c) IN
         /\ u \in TablesType
         /\ u.socks = t.socks /\ u.clients = t.clients
         /\ u.client = [t.client EXCEPT ![f] = c]
         /\ u.cgis = t.cgis /\ u.cgi = t.cgi /\ u.proc = t.proc
         /\ u.open = t.open /\ u.bad = t.bad
BY DEF TablesType, SetClient
-----------------------------------------------------------------------------
(* The structure of the tables *)

\* r is s without its entry at q.
Erased(s, q, r) ==
  /\ r \in Seq(PollFd) /\ Len(r) = Len(s) - 1
  /\ \A m \in 1..Len(r) : \E k \in 1..Len(s) :
       k # q /\ r[m] = s[k] /\ m = IF k < q THEN k ELSE k - 1
  /\ \A k \in 1..Len(s) : k # q => \E m \in 1..Len(r) :
       r[m] = s[k] /\ m = IF k < q THEN k ELSE k - 1
  /\ \A j, k \in 1..Len(r) : r[j].fd = r[k].fd => j = k
  /\ \A m \in 1..Len(r) : r[m].fd # s[q].fd

\* Where the entries go when the one at q is erased.
LEMMA RemovedEntries ==
  ASSUME NEW s \in Seq(PollFd), NEW q \in 1..Len(s), Distinct(s)
  PROVE  Erased(s, q, RemoveAt(s, q))
<1> DEFINE r == RemoveAt(s, q)
<1>1. /\ r \in Seq(PollFd) /\ Len(r) = Len(s) - 1
      /\ \A k \in 1..(Len(s) - 1) : r[k] = IF k < q THEN s[k] ELSE s[k + 1]
  BY RemoveAtFacts
<1> HIDE DEF r
<1>2. Len(s) \in Nat /\ q \in Nat
  OBVIOUS
<1>3. ASSUME NEW m \in 1..Len(r)
      PROVE  \E k \in 1..Len(s) :
               k # q /\ r[m] = s[k] /\ m = IF k < q THEN k ELSE k - 1
  <2>1. CASE m < q
    <3>1. m \in 1..Len(s) /\ r[m] = s[m] /\ m # q
      BY <1>1, <1>2, <2>1
    <3> QED BY <3>1, <2>1
  <2>2. CASE ~(m < q)
    <3>1. m + 1 \in 1..Len(s) /\ r[m] = s[m + 1] /\ m + 1 # q /\ ~(m + 1 < q)
          /\ m = (m + 1) - 1
      BY <1>1, <1>2, <2>2
    <3> QED BY <3>1
  <2> QED BY <2>1, <2>2
<1>4. ASSUME NEW k \in 1..Len(s), k # q
      PROVE  \E m \in 1..Len(r) :
               r[m] = s[k] /\ m = IF k < q THEN k ELSE k - 1
  <2>1. CASE k < q
    <3>1. k \in 1..Len(r) /\ r[k] = s[k]
      BY <1>1, <1>2, <2>1
    <3> QED BY <3>1, <2>1
  <2>2. CASE ~(k < q)
    <3>1. k - 1 \in 1..Len(r) /\ r[k - 1] = s[k] /\ ~(k < q)
      BY <1>1, <1>2, <1>4, <2>2
    <3> QED BY <3>1
  <2> QED BY <2>1, <2>2
<1>5. ASSUME NEW j \in 1..Len(r), NEW k \in 1..Len(r), r[j].fd = r[k].fd
      PROVE  j = k
  <2> USE DEF Distinct
  <2>1. PICK a \in 1..Len(s) :
          a # q /\ r[j] = s[a] /\ j = IF a < q THEN a ELSE a - 1
    BY <1>3
  <2>2. PICK b \in 1..Len(s) :
          b # q /\ r[k] = s[b] /\ k = IF b < q THEN b ELSE b - 1
    BY <1>3
  <2> QED BY <1>5, <2>1, <2>2
<1>6. ASSUME NEW m \in 1..Len(r) PROVE r[m].fd # s[q].fd
  BY <1>3 DEF Distinct
<1> QED BY <1>1, <1>3, <1>4, <1>5, <1>6 DEF r, Erased

\* Changing the fields of a client that the structure does not see.
LEMMA SetClientStruct ==
  ASSUME NEW t, Struct(t), NEW f \in Fds, NEW c \in Client,
         c.cgiOut = t.client[f].cgiOut
  PROVE  Struct(SetClient(t, f, c))
<1> DEFINE u == SetClient(t, f, c)
<1>1. t \in TablesType
  BY DEF Struct
<1>2. /\ u \in TablesType
      /\ u.socks = t.socks /\ u.clients = t.clients
      /\ u.client = [t.client EXCEPT ![f] = c]
      /\ u.cgis = t.cgis /\ u.cgi = t.cgi
      /\ u.open = t.open /\ u.bad = t.bad
  BY <1>1, SetClientFields
<1> HIDE DEF u
<1>3. \A g \in Fds : u.client[g].cgiOut = t.client[g].cgiOut
  BY <1>1, <1>2 DEF TablesType
<1>4. t.clients \subseteq Fds /\ t.cgis \subseteq Fds
  BY <1>1 DEF TablesType
<1>5. Agree(u)
  BY <1>2 DEF Struct, Agree
<1>6. Linked(u)
  BY <1>2, <1>3, <1>4 DEF Struct, Linked
<1>7. Ordered(u)
  BY <1>2 DEF Struct, Ordered
<1> QED BY <1>2, <1>5, <1>6, <1>7 DEF Struct, u

\* u is t with the entry at i waiting for ev.
Waiting(t, i, ev, u) ==
  /\ Struct(u)
  /\ u.socks = [t.socks EXCEPT ![i] = [t.socks[i] EXCEPT !.events = ev]]
  /\ Len(u.socks) = Len(t.socks)
  /\ u.clients = t.clients /\ u.client = t.client
  /\ u.cgis = t.cgis /\ u.cgi = t.cgi /\ u.proc = t.proc
  /\ u.open = t.open /\ u.bad = t.bad

\* Changing what an entry waits for.
LEMMA SetEventsStruct ==
  ASSUME NEW t, Struct(t), NEW i \in 1..Len(t.socks), NEW ev \in SUBSET {"IN", "OUT"}
  PROVE  Waiting(t, i, ev, [t EXCEPT !.socks[i].events = ev])
<1> DEFINE e == [t.socks[i] EXCEPT !.events = ev]
           s == [t.socks EXCEPT ![i] = e]
           u == [t EXCEPT !.socks[i].events = ev]
<1>1. t \in TablesType
  BY DEF Struct
<1>2. t.socks \in Seq(PollFd)
  BY <1>1 DEF TablesType
<1>3. t.socks[i] \in PollFd
  BY <1>2
<1>4. e \in PollFd /\ e.fd = t.socks[i].fd
  BY <1>3 DEF PollFd
<1>5. u = [t EXCEPT !.socks = s]
  OBVIOUS
<1> HIDE DEF e
<1>6. /\ s \in Seq(PollFd) /\ Len(s) = Len(t.socks)
      /\ \A k \in 1..Len(s) : s[k].fd = t.socks[k].fd
  BY <1>2, <1>4
<1> HIDE DEF s, u
<1>7. /\ u.socks = s /\ u.clients = t.clients /\ u.client = t.client
      /\ u.cgis = t.cgis /\ u.cgi = t.cgi /\ u.proc = t.proc
      /\ u.open = t.open /\ u.bad = t.bad
  BY <1>1, <1>5 DEF TablesType
<1>8. u \in TablesType
  BY <1>1, <1>5, <1>6 DEF TablesType
<1>9. Agree(u)
  BY <1>6, <1>7 DEF Struct, Agree
<1>10. Linked(u)
  BY <1>7 DEF Struct, Linked
<1>11. Ordered(u)
  BY <1>6, <1>7 DEF Struct, Ordered
<1> QED BY <1>1, <1>6, <1>7, <1>8, <1>9, <1>10, <1>11 DEF Struct, Waiting, s, u, e

\* Where an entry is.
LEMMA EntryExists ==
  ASSUME NEW t, Struct(t), NEW g \in t.clients \cup t.cgis
  PROVE  /\ g \in Fds
         /\ \E k \in 1..Len(t.socks) : t.socks[k].fd = g
BY DEF Struct, Agree, TablesType

\* The CGIs of u are as they were in t.
CgisKept(t, u) ==
  \A p \in u.cgis : u.cgi[p] = t.cgi[p] /\ u.proc[p] = t.proc[p]

\* u is t without the CGI pipe p.
Unregistered(t, p, u) ==
  LET f == t.cgi[p].client IN
  /\ Struct(u)
  /\ \E q \in 1..Len(t.socks) :
       /\ t.socks[q].fd = p /\ u.socks = RemoveAt(t.socks, q)
       /\ \A k \in 1..Len(t.socks) : t.socks[k].fd = f => k < q
  /\ f \in t.clients /\ u.clients = t.clients
  /\ u.client = [t.client EXCEPT ![f] = [t.client[f] EXCEPT !.cgiOut = NoFd]]
  /\ u.cgis = t.cgis \ {p}
  /\ CgisKept(t, u)

\* cleanupCgi: the structure stays, and the erase is after the client's entry.
LEMMA CleanupStruct ==
  ASSUME NEW t, Struct(t), NEW p \in t.cgis
  PROVE  Unregistered(t, p, CleanupCgi(t, p))
<1> DEFINE u == CleanupCgi(t, p)
           f == t.cgi[p].client
<1>1. t \in TablesType /\ Agree(t) /\ Linked(t) /\ Ordered(t) /\ t.bad = {}
  BY DEF Struct
<1>2. p \in Fds /\ f \in t.clients /\ f \in Fds /\ t.client[f].cgiOut = p
  BY <1>1 DEF TablesType, Linked
<1>3. t.socks \in Seq(PollFd) /\ t.clients \subseteq Fds /\ t.cgis \subseteq Fds
      /\ t.client \in [Fds -> Client] /\ t.cgi \in [Fds -> Cgi]
      /\ t.open \in [Fds -> {"free", "socket", "pipe"}]
  BY <1>1 DEF TablesType
<1>4. PICK q \in 1..Len(t.socks) : t.socks[q].fd = p
  BY <1>1 DEF Agree
<1>5. Distinct(t.socks)
  BY <1>1 DEF Agree, Distinct
<1>6. Without(t.socks, p) = RemoveAt(t.socks, q)
  BY <1>3, <1>4, <1>5, FirstAtUnique
<1> DEFINE r == RemoveAt(t.socks, q)
<1>7. /\ r \in Seq(PollFd) /\ Len(r) = Len(t.socks) - 1
      /\ \A m \in 1..Len(r) : \E k \in 1..Len(t.socks) :
           k # q /\ r[m] = t.socks[k] /\ m = IF k < q THEN k ELSE k - 1
      /\ \A k \in 1..Len(t.socks) : k # q => \E m \in 1..Len(r) :
           r[m] = t.socks[k] /\ m = IF k < q THEN k ELSE k - 1
      /\ \A j, k \in 1..Len(r) : r[j].fd = r[k].fd => j = k
      /\ \A m \in 1..Len(r) : r[m].fd # p
  <2>1. Erased(t.socks, q, r)
    BY <1>3, <1>5, RemovedEntries
  <2> HIDE DEF r
  <2> QED BY <1>4, <2>1 DEF Erased
<1> HIDE DEF r
<1>8. Without(t.socks, p) \in Seq(PollFd)
  BY <1>6, <1>7 DEF r
<1>9. t.open[p] = "pipe"
  BY <1>1, <1>2 DEF Agree
<1>10. /\ u \in TablesType /\ u.socks = r /\ u.clients = t.clients
       /\ u.client = [t.client EXCEPT ![f] = [t.client[f] EXCEPT !.cgiOut = NoFd]]
       /\ u.cgis = t.cgis \ {p}
       /\ u.cgi = [t.cgi EXCEPT ![p] = NoCgi]
       /\ u.proc = [t.proc EXCEPT ![p] = GoneProc]
       /\ u.open = [t.open EXCEPT ![p] = "free"]
       /\ u.bad = t.bad
  BY <1>1, <1>2, <1>6, <1>8, <1>9, CleanupFields DEF r
<1> HIDE DEF u
<1>11. t.client[f] \in Client
  BY <1>2, <1>3
<1>12. /\ u.client[f].cgiOut = NoFd
       /\ \A g \in Fds : g # f => u.client[g] = t.client[g]
  <2> DEFINE d == [t.client[f] EXCEPT !.cgiOut = NoFd]
  <2>1. d.cgiOut = NoFd
    BY <1>11 DEF Client
  <2> HIDE DEF d
  <2>2. /\ u.client[f] = d
        /\ \A g \in Fds : g # f => u.client[g] = t.client[g]
    BY <1>2, <1>3, <1>10 DEF d
  <2> QED BY <2>1, <2>2
<1>13. \A g \in Fds : g # p => u.cgi[g] = t.cgi[g]
  BY <1>3, <1>10
<1> HIDE DEF f
<1>14. Agree(u)
  <2>1. ASSUME NEW m \in 1..Len(u.socks)
        PROVE  u.socks[m].fd \in u.clients \cup u.cgis
    <3>1. PICK k \in 1..Len(t.socks) : r[m] = t.socks[k]
      BY <1>7, <1>10
    <3>2. t.socks[k].fd \in t.clients \cup t.cgis
      BY <1>1 DEF Agree
    <3>3. r[m].fd # p
      BY <1>7, <1>10
    <3> QED BY <1>10, <3>1, <3>2, <3>3
  <2>2. ASSUME NEW g \in u.clients \cup u.cgis
        PROVE  \E k \in 1..Len(u.socks) : u.socks[k].fd = g
    <3>1. g \in t.clients \cup t.cgis /\ g # p
      BY <1>1, <1>2, <1>3, <1>9, <1>10 DEF Agree
    <3>2. PICK k \in 1..Len(t.socks) : t.socks[k].fd = g
      BY <1>1, <3>1 DEF Agree
    <3>3. PICK m \in 1..Len(r) : r[m] = t.socks[k]
      BY <1>4, <1>7, <3>1, <3>2
    <3> QED BY <1>10, <3>2, <3>3
  <2>3. \A g \in Fds : /\ g \in u.clients <=> u.open[g] = "socket"
                       /\ g \in u.cgis <=> u.open[g] = "pipe"
    BY <1>1, <1>2, <1>3, <1>9, <1>10 DEF Agree
  <2>4. \A j, k \in 1..Len(u.socks) : u.socks[j].fd = u.socks[k].fd => j = k
    BY <1>7, <1>10
  <2> QED BY <2>1, <2>2, <2>3, <2>4 DEF Agree
<1>15. Linked(u)
  <2>1. ASSUME NEW g \in u.cgis
        PROVE  u.cgi[g].client \in u.clients /\ u.client[u.cgi[g].client].cgiOut = g
    <3>1. g \in t.cgis /\ g # p /\ g \in Fds /\ u.cgi[g] = t.cgi[g]
      BY <1>3, <1>10, <1>13
    <3>2. t.cgi[g].client \in t.clients /\ t.client[t.cgi[g].client].cgiOut = g
      BY <1>1, <3>1 DEF Linked
    <3>3. t.cgi[g].client # f /\ t.cgi[g].client \in Fds
      BY <1>2, <1>3, <3>1, <3>2
    <3> QED BY <1>10, <1>12, <3>1, <3>2, <3>3
  <2>2. ASSUME NEW g \in u.clients, u.client[g].cgiOut # NoFd
        PROVE  u.client[g].cgiOut \in u.cgis /\ u.cgi[u.client[g].cgiOut].client = g
    <3>1. g # f /\ g \in t.clients /\ u.client[g] = t.client[g]
      BY <1>3, <1>10, <1>12, <2>2
    <3>2. t.client[g].cgiOut \in t.cgis /\ t.cgi[t.client[g].cgiOut].client = g
      BY <1>1, <2>2, <3>1 DEF Linked
    <3>3. t.client[g].cgiOut # p
      BY <3>1, <3>2 DEF f
    <3> QED BY <1>3, <1>10, <1>13, <3>1, <3>2, <3>3
  <2> QED BY <2>1, <2>2 DEF Linked
<1>16. Ordered(u)
  <2> SUFFICES ASSUME NEW j \in 1..Len(u.socks), NEW k \in 1..Len(u.socks),
                      u.socks[j].fd \in u.cgis,
                      u.socks[k].fd = u.cgi[u.socks[j].fd].client
               PROVE  k < j
    BY DEF Ordered
  <2>1. PICK a \in 1..Len(t.socks) :
          a # q /\ r[j] = t.socks[a] /\ j = IF a < q THEN a ELSE a - 1
    BY <1>7, <1>10
  <2>2. PICK b \in 1..Len(t.socks) :
          b # q /\ r[k] = t.socks[b] /\ k = IF b < q THEN b ELSE b - 1
    BY <1>7, <1>10
  <2>3. t.socks[a].fd \in t.cgis /\ t.socks[a].fd # p /\ t.socks[a].fd \in Fds
    BY <1>3, <1>10, <2>1
  <2>4. t.socks[b].fd = t.cgi[t.socks[a].fd].client
    BY <1>10, <1>13, <2>1, <2>2, <2>3
  <2>5. b < a
    BY <1>1, <2>3, <2>4 DEF Ordered
  <2> QED BY <2>1, <2>2, <2>5
<1>17. Struct(u)
  BY <1>1, <1>10, <1>14, <1>15, <1>16 DEF Struct
<1>18. \A k \in 1..Len(t.socks) : t.socks[k].fd = f => k < q
  BY <1>1, <1>4 DEF Ordered, f
<1>19. CgisKept(t, u)
  <2>1. t.proc \in [Fds -> Proc]
    BY <1>1 DEF TablesType
  <2>2. \A g \in Fds : g # p => u.proc[g] = t.proc[g]
    BY <1>10, <2>1
  <2> QED BY <1>3, <1>10, <1>13, <2>2 DEF CgisKept
<1> QED BY <1>2, <1>4, <1>10, <1>17, <1>18, <1>19 DEF u, f, r, Unregistered

\* registerCgi, for a client without a CGI.
LEMMA RegisterStruct ==
  ASSUME NEW t, Struct(t), NEW p \in Fds, t.open[p] = "free",
         NEW f \in t.clients, t.client[f].cgiOut = NoFd
  PROVE  LET u == RegisterCgi(t, p, f) IN
         /\ Struct(u) /\ Registered(t, p, f, u)
         /\ p \notin t.clients \cup t.cgis /\ u.cgi[p].client = f
<1> DEFINE u == RegisterCgi(t, p, f)
           e == [fd |-> p, events |-> {"IN"}, revents |-> {}]
           n == Len(t.socks)
<1>1. t \in TablesType /\ Agree(t) /\ Linked(t) /\ Ordered(t) /\ t.bad = {}
  BY DEF Struct
<1>2. t.socks \in Seq(PollFd) /\ t.clients \subseteq Fds /\ t.cgis \subseteq Fds
      /\ t.client \in [Fds -> Client] /\ t.cgi \in [Fds -> Cgi]
      /\ t.open \in [Fds -> {"free", "socket", "pipe"}] /\ f \in Fds
  BY <1>1 DEF TablesType
<1>3. p \notin t.clients /\ p \notin t.cgis
  BY <1>1 DEF Agree
<1>4. /\ u \in TablesType /\ u.socks = Append(t.socks, e)
      /\ u.clients = t.clients
      /\ u.client = [t.client EXCEPT ![f] =
           [t.client[f] EXCEPT !.cgiOut = p, !.state = "CGI_JUST_STARTED"]]
      /\ u.cgis = t.cgis \cup {p}
      /\ u.cgi = [t.cgi EXCEPT ![p] = [NoCgi EXCEPT !.client = f]]
      /\ u.open = [t.open EXCEPT ![p] = "pipe"]
      /\ u.bad = t.bad /\ Registered(t, p, f, u)
  <2>1. t \in TablesType /\ f \in Fds
    BY <1>1, <1>2
  <2>2. Registered(t, p, f, u)
    BY <2>1, RegisterFields
  <2> HIDE DEF u
  <2> QED BY <2>2 DEF Registered
<1> HIDE DEF u
<1>5. t.client[f] \in Client /\ p # NoFd
  BY <1>2, FdsAssumption
<1>6. /\ u.client[f].cgiOut = p
      /\ \A g \in Fds : g # f => u.client[g] = t.client[g]
  BY <1>2, <1>4, <1>5 DEF Client
<1>7. /\ u.cgi[p].client = f
      /\ \A g \in Fds : g # p => u.cgi[g] = t.cgi[g]
  BY <1>2, <1>4 DEF NoCgi
<1>8. /\ n \in Nat /\ Len(u.socks) = n + 1 /\ u.socks[n + 1].fd = p
      /\ \A k \in 1..n : u.socks[k] = t.socks[k]
  BY <1>2, <1>4
<1> HIDE DEF e, n
<1>9. Agree(u)
  <2>1. ASSUME NEW k \in 1..Len(u.socks)
        PROVE  u.socks[k].fd \in u.clients \cup u.cgis
    BY <1>1, <1>4, <1>8 DEF Agree, n
  <2>2. ASSUME NEW g \in u.clients \cup u.cgis
        PROVE  \E k \in 1..Len(u.socks) : u.socks[k].fd = g
    <3>1. CASE g = p
      <4>1. n + 1 \in 1..Len(u.socks)
        BY <1>8
      <4> QED BY <1>8, <3>1, <4>1
    <3>2. CASE g # p
      <4>1. PICK k \in 1..n : t.socks[k].fd = g
        BY <1>1, <1>4, <3>2 DEF Agree, n
      <4>2. k \in 1..Len(u.socks) /\ u.socks[k].fd = g
        BY <1>8, <4>1
      <4> QED BY <4>2
    <3> QED BY <3>1, <3>2
  <2>3. \A g \in Fds : /\ g \in u.clients <=> u.open[g] = "socket"
                       /\ g \in u.cgis <=> u.open[g] = "pipe"
    BY <1>1, <1>2, <1>3, <1>4 DEF Agree
  <2>4. ASSUME NEW j \in 1..Len(u.socks), NEW k \in 1..Len(u.socks),
               u.socks[j].fd = u.socks[k].fd
        PROVE  j = k
    <3>1. \A m \in 1..n : t.socks[m].fd # p
      BY <1>1, <1>3 DEF Agree, n
    <3>2. (j \in 1..n \/ j = n + 1) /\ (k \in 1..n \/ k = n + 1)
      BY <1>8
    <3> QED BY <1>1, <1>8, <2>4, <3>1, <3>2 DEF Agree, n
  <2> QED BY <2>1, <2>2, <2>3, <2>4 DEF Agree
<1>10. Linked(u)
  <2>1. ASSUME NEW g \in u.cgis
        PROVE  u.cgi[g].client \in u.clients /\ u.client[u.cgi[g].client].cgiOut = g
    <3>1. CASE g = p
      BY <1>4, <1>6, <1>7, <3>1
    <3>2. CASE g # p
      <4>1. g \in t.cgis /\ g \in Fds /\ u.cgi[g] = t.cgi[g]
        BY <1>2, <1>4, <1>7, <3>2
      <4>2. t.cgi[g].client \in t.clients /\ t.client[t.cgi[g].client].cgiOut = g
        BY <1>1, <4>1 DEF Linked
      <4>3. t.cgi[g].client # f /\ t.cgi[g].client \in Fds
        BY <1>2, <4>1, <4>2, FdsAssumption
      <4> QED BY <1>4, <1>6, <4>1, <4>2, <4>3
    <3> QED BY <3>1, <3>2
  <2>2. ASSUME NEW g \in u.clients, u.client[g].cgiOut # NoFd
        PROVE  u.client[g].cgiOut \in u.cgis /\ u.cgi[u.client[g].cgiOut].client = g
    <3>1. CASE g = f
      BY <1>4, <1>6, <1>7, <3>1
    <3>2. CASE g # f
      <4>1. g \in t.clients /\ u.client[g] = t.client[g]
        BY <1>2, <1>4, <1>6, <3>2
      <4>2. t.client[g].cgiOut \in t.cgis /\ t.cgi[t.client[g].cgiOut].client = g
        BY <1>1, <2>2, <4>1 DEF Linked
      <4> QED BY <1>2, <1>3, <1>4, <1>7, <4>1, <4>2
    <3> QED BY <3>1, <3>2
  <2> QED BY <2>1, <2>2 DEF Linked
<1>11. Ordered(u)
  <2> SUFFICES ASSUME NEW j \in 1..Len(u.socks), NEW k \in 1..Len(u.socks),
                      u.socks[j].fd \in u.cgis,
                      u.socks[k].fd = u.cgi[u.socks[j].fd].client
               PROVE  k < j
    BY DEF Ordered
  <2>1. (j \in 1..n \/ j = n + 1) /\ (k \in 1..n \/ k = n + 1)
    BY <1>8
  <2>2. u.cgi[u.socks[j].fd].client \in t.clients
    BY <1>4, <1>10 DEF Linked
  <2>3. k \in 1..n
    BY <1>3, <1>8, <2>1, <2>2
  <2>4. CASE j = n + 1
    BY <1>8, <2>3, <2>4
  <2>5. CASE j \in 1..n
    <3>1. u.socks[j].fd = t.socks[j].fd /\ u.socks[k].fd = t.socks[k].fd
      BY <1>8, <2>3, <2>5
    <3>2. t.socks[j].fd \in t.clients \cup t.cgis
      BY <1>1, <2>5 DEF Agree, n
    <3>3. t.socks[j].fd # p
      BY <1>3, <3>2
    <3>4. t.socks[j].fd \in t.cgis /\ t.socks[j].fd \in Fds
      BY <1>2, <1>4, <3>1, <3>3
    <3>5. t.socks[k].fd = t.cgi[t.socks[j].fd].client
      BY <1>7, <3>1, <3>3, <3>4
    <3> QED BY <1>1, <2>3, <2>5, <3>4, <3>5 DEF Ordered, n
  <2> QED BY <2>1, <2>4, <2>5
<1>12. Struct(u)
  BY <1>1, <1>4, <1>9, <1>10, <1>11 DEF Struct
<1> QED BY <1>3, <1>4, <1>7, <1>12 DEF u

\* The entry at i and its client go away; the client has no CGI any more.
LEMMA RemoveStruct ==
  ASSUME NEW t, Struct(t), NEW i \in 1..Len(t.socks), NEW f \in t.clients,
         t.socks[i].fd = f, t.client[f].cgiOut = NoFd
  PROVE  LET u == CloseFd([RemoveClient(t, f) EXCEPT !.socks = RemoveAt(@, i)], f)
         IN
         /\ Struct(u)
         /\ u.socks = RemoveAt(t.socks, i)
         /\ u.clients = t.clients \ {f}
         /\ u.client = [t.client EXCEPT ![f] = NewClient]
         /\ u.cgis = t.cgis /\ u.cgi = t.cgi /\ u.proc = t.proc
<1> DEFINE r == RemoveAt(t.socks, i)
           v == RemoveClient(t, f)
           w == [v EXCEPT !.socks = RemoveAt(@, i)]
           u == CloseFd(w, f)
<1>1. t \in TablesType /\ Agree(t) /\ Linked(t) /\ Ordered(t) /\ t.bad = {}
  BY DEF Struct
<1>2. t.socks \in Seq(PollFd) /\ t.clients \subseteq Fds /\ t.cgis \subseteq Fds
      /\ t.client \in [Fds -> Client] /\ t.cgi \in [Fds -> Cgi]
      /\ t.open \in [Fds -> {"free", "socket", "pipe"}] /\ f \in Fds
  BY <1>1 DEF TablesType
<1>3. t.open[f] = "socket" /\ f \notin t.cgis
  BY <1>1, <1>2 DEF Agree
<1>4. Erased(t.socks, i, r)
  <2>1. Distinct(t.socks)
    BY <1>1 DEF Agree, Distinct
  <2> QED BY <1>2, <2>1, RemovedEntries
<1> HIDE DEF r
<1>5. /\ v \in TablesType
      /\ v.socks = t.socks /\ v.clients = t.clients \ {f}
      /\ v.client = [t.client EXCEPT ![f] = NewClient]
      /\ v.cgis = t.cgis /\ v.cgi = t.cgi /\ v.proc = t.proc
      /\ v.open = t.open /\ v.bad = t.bad
  BY <1>1, <1>2, RemoveClientFields
<1> HIDE DEF v
<1>6. /\ w \in TablesType
      /\ w.socks = r /\ w.clients = v.clients /\ w.client = v.client
      /\ w.cgis = v.cgis /\ w.cgi = v.cgi /\ w.proc = v.proc
      /\ w.open = v.open /\ w.bad = v.bad
  <2>1. r \in Seq(PollFd)
    BY <1>4 DEF Erased
  <2>2. w = [v EXCEPT !.socks = r]
    BY <1>5 DEF r
  <2> HIDE DEF w
  <2> QED BY <1>5, <2>1, <2>2 DEF TablesType
<1> HIDE DEF w
<1>7. /\ u \in TablesType
      /\ u.socks = w.socks /\ u.clients = w.clients /\ u.client = w.client
      /\ u.cgis = w.cgis /\ u.cgi = w.cgi /\ u.proc = w.proc
      /\ u.open = [w.open EXCEPT ![f] = "free"]
      /\ w.open[f] # "free" => u.bad = w.bad
  BY <1>2, <1>6, CloseFdFields
<1> HIDE DEF u
<1>8. /\ u.socks = r /\ u.clients = t.clients \ {f}
      /\ u.client = [t.client EXCEPT ![f] = NewClient]
      /\ u.cgis = t.cgis /\ u.cgi = t.cgi /\ u.proc = t.proc
      /\ u.open = [t.open EXCEPT ![f] = "free"] /\ u.bad = t.bad
  BY <1>3, <1>5, <1>6, <1>7
<1>9. Agree(u)
  <2>1. ASSUME NEW m \in 1..Len(u.socks)
        PROVE  u.socks[m].fd \in u.clients \cup u.cgis
    <3>1. m \in 1..Len(r) /\ r[m].fd # f
      BY <1>4, <1>8 DEF Erased
    <3>2. PICK k \in 1..Len(t.socks) : r[m] = t.socks[k]
      BY <1>4, <3>1 DEF Erased
    <3>3. t.socks[k].fd \in t.clients \cup t.cgis
      BY <1>1 DEF Agree
    <3> QED BY <1>8, <3>1, <3>2, <3>3
  <2>2. ASSUME NEW g \in u.clients \cup u.cgis
        PROVE  \E k \in 1..Len(u.socks) : u.socks[k].fd = g
    <3>1. g \in t.clients \cup t.cgis /\ g # f
      BY <1>3, <1>8
    <3>2. PICK k \in 1..Len(t.socks) : t.socks[k].fd = g
      BY <1>1, <3>1 DEF Agree
    <3>3. PICK m \in 1..Len(r) : r[m] = t.socks[k]
      BY <1>4, <3>1, <3>2 DEF Erased
    <3> QED BY <1>8, <3>2, <3>3
  <2>3. \A g \in Fds : /\ g \in u.clients <=> u.open[g] = "socket"
                       /\ g \in u.cgis <=> u.open[g] = "pipe"
    BY <1>1, <1>2, <1>3, <1>8 DEF Agree
  <2>4. \A j, k \in 1..Len(u.socks) : u.socks[j].fd = u.socks[k].fd => j = k
    BY <1>4, <1>8 DEF Erased
  <2> QED BY <2>1, <2>2, <2>3, <2>4 DEF Agree
<1>10. Linked(u)
  <2>1. \A g \in Fds : g # f => u.client[g] = t.client[g]
    BY <1>2, <1>8
  <2>2. ASSUME NEW g \in u.cgis
        PROVE  u.cgi[g].client \in u.clients /\ u.client[u.cgi[g].client].cgiOut = g
    <3>1. t.cgi[g].client \in t.clients /\ t.client[t.cgi[g].client].cgiOut = g
      BY <1>1, <1>8 DEF Linked
    <3>2. t.cgi[g].client # f
      BY <1>2, <1>8, <3>1, FdsAssumption
    <3> QED BY <1>2, <1>8, <2>1, <3>1, <3>2
  <2>3. ASSUME NEW g \in u.clients, u.client[g].cgiOut # NoFd
        PROVE  u.client[g].cgiOut \in u.cgis /\ u.cgi[u.client[g].cgiOut].client = g
    <3>1. g \in t.clients /\ u.client[g] = t.client[g]
      BY <1>2, <1>8, <2>1
    <3> QED BY <1>1, <1>8, <2>3, <3>1 DEF Linked
  <2> QED BY <2>2, <2>3 DEF Linked
<1>11. Ordered(u)
  <2> SUFFICES ASSUME NEW j \in 1..Len(u.socks), NEW k \in 1..Len(u.socks),
                      u.socks[j].fd \in u.cgis,
                      u.socks[k].fd = u.cgi[u.socks[j].fd].client
               PROVE  k < j
    BY DEF Ordered
  <2>1. PICK a \in 1..Len(t.socks) :
          a # i /\ r[j] = t.socks[a] /\ j = IF a < i THEN a ELSE a - 1
    BY <1>4, <1>8 DEF Erased
  <2>2. PICK b \in 1..Len(t.socks) :
          b # i /\ r[k] = t.socks[b] /\ k = IF b < i THEN b ELSE b - 1
    BY <1>4, <1>8 DEF Erased
  <2>3. b < a
    BY <1>1, <1>8, <2>1, <2>2 DEF Ordered
  <2> QED BY <2>1, <2>2, <2>3
<1>12. Struct(u)
  BY <1>1, <1>7, <1>8, <1>9, <1>10, <1>11 DEF Struct
<1> QED BY <1>8, <1>12 DEF u, w, v, r

-----------------------------------------------------------------------------
(* The scan *)

\* The entries r are entries of s, on the same side of the index i.
Keeps(s, r, i) ==
  /\ i \in 1..Len(r) /\ r[i] = s[i]
  /\ \A m \in 1..Len(r) : \E k \in 1..Len(s) :
       r[m] = s[k] /\ (m > i <=> k > i) /\ (m = i <=> k = i)

\* The same, with the entry at i gone.
Drops(s, r, i) ==
  /\ i \in 1..(Len(r) + 1)
  /\ \A m \in 1..Len(r) : \E k \in 1..Len(s) :
       r[m] = s[k] /\ k # i /\ (m >= i <=> k > i)

\* u is t after cleanupCgi of the CGI of the client at i.
Cleaned(t, i, p, u) ==
  /\ Struct(u) /\ Keeps(t.socks, u.socks, i)
  /\ u.clients = t.clients /\ u.cgis = t.cgis \ {p}
  /\ u.client = [t.client EXCEPT ![t.socks[i].fd] =
                   [t.client[t.socks[i].fd] EXCEPT !.cgiOut = NoFd]]
  /\ CgisKept(t, u)

\* cleanupCgi in the handler of the client's entry.
LEMMA CleanupInScan ==
  ASSUME NEW t, Struct(t), NEW i \in 1..Len(t.socks), NEW p \in t.cgis,
         t.socks[i].fd = t.cgi[p].client
  PROVE  Cleaned(t, i, p, CleanupCgi(t, p))
<1> DEFINE u == CleanupCgi(t, p)
           f == t.cgi[p].client
<1>1. /\ Struct(u)
      /\ \E q \in 1..Len(t.socks) :
           /\ t.socks[q].fd = p /\ u.socks = RemoveAt(t.socks, q)
           /\ \A k \in 1..Len(t.socks) : t.socks[k].fd = f => k < q
      /\ u.clients = t.clients
      /\ u.client = [t.client EXCEPT ![f] = [t.client[f] EXCEPT !.cgiOut = NoFd]]
      /\ u.cgis = t.cgis \ {p} /\ CgisKept(t, u)
  <2>1. Unregistered(t, p, u)
    BY CleanupStruct
  <2> HIDE DEF u
  <2> QED BY <2>1 DEF Unregistered
<1> HIDE DEF u, f
<1>2. PICK q \in 1..Len(t.socks) : u.socks = RemoveAt(t.socks, q) /\ i < q
  BY <1>1 DEF f
<1>3. t.socks \in Seq(PollFd) /\ Distinct(t.socks)
  BY DEF Struct, Agree, Distinct, TablesType
<1>4. Erased(t.socks, q, u.socks)
  BY <1>2, <1>3, RemovedEntries
<1>5. Len(u.socks) = Len(t.socks) - 1
      /\ \A k \in 1..Len(t.socks) : k # q => \E m \in 1..Len(u.socks) :
           u.socks[m] = t.socks[k] /\ m = IF k < q THEN k ELSE k - 1
  BY <1>4 DEF Erased
<1>6. i \in 1..Len(u.socks) /\ u.socks[i] = t.socks[i]
  BY <1>2, <1>5
<1>7. ASSUME NEW m \in 1..Len(u.socks)
      PROVE  \E k \in 1..Len(t.socks) :
               u.socks[m] = t.socks[k] /\ (m > i <=> k > i) /\ (m = i <=> k = i)
  <2>1. PICK k \in 1..Len(t.socks) :
          k # q /\ u.socks[m] = t.socks[k] /\ m = IF k < q THEN k ELSE k - 1
    BY <1>4 DEF Erased
  <2>2. (m > i <=> k > i) /\ (m = i <=> k = i)
    BY <1>2, <2>1
  <2> QED BY <2>1, <2>2
<1>8. Keeps(t.socks, u.socks, i)
  BY <1>6, <1>7 DEF Keeps
<1> QED BY <1>1, <1>8 DEF Cleaned, u, f

\* u is t without the client f, whose entry was at i.
Closed(t, i, f, u) ==
  /\ Struct(u) /\ Drops(t.socks, u.socks, i)
  /\ u.clients = t.clients \ {f} /\ u.cgis \subseteq t.cgis
  /\ \A g \in u.clients : u.client[g] = t.client[g]
  /\ CgisKept(t, u)

\* removeDeadConnections and closeClientConnection, with or without a CGI.
LEMMA CloseStruct ==
  ASSUME NEW t, Struct(t), idx \in 1..Len(t.socks), NEW f \in t.clients,
         t.socks[idx].fd = f
  PROVE  Closed(t, idx, f, CloseConnection(t, f))
<1> DEFINE p == t.client[f].cgiOut
           v == IF p \in t.cgis THEN CleanupCgi(t, p) ELSE t
           u == CloseFd([RemoveClient(v, f) EXCEPT !.socks = RemoveAt(@, idx)], f)
<1>1. t \in TablesType /\ Linked(t) /\ f \in Fds
  BY DEF Struct, TablesType
<1>2. t.client \in [Fds -> Client] /\ t.clients \subseteq Fds /\ t.cgis \subseteq Fds
  BY <1>1 DEF TablesType
<1>3. Struct(v) /\ Keeps(t.socks, v.socks, idx) /\ v.clients = t.clients
      /\ v.client[f].cgiOut = NoFd /\ v.cgis \subseteq t.cgis /\ CgisKept(t, v)
      /\ \A g \in Fds : g # f => v.client[g] = t.client[g]
  <2>1. CASE p \in t.cgis
    <3> DEFINE w == CleanupCgi(t, p)
    <3>1. t.socks[idx].fd = t.cgi[p].client
      BY <1>1, <1>2, <2>1, FdsAssumption DEF Linked
    <3>2. Cleaned(t, idx, p, w)
      BY <2>1, <3>1, CleanupInScan
    <3> HIDE DEF w
    <3>3. t.client[f] \in Client
      BY <1>1, <1>2
    <3>4. w.client = [t.client EXCEPT ![f] = [t.client[f] EXCEPT !.cgiOut = NoFd]]
      BY <3>2 DEF Cleaned
    <3>5. w.client[f].cgiOut = NoFd /\ \A g \in Fds : g # f => w.client[g] = t.client[g]
      BY <1>1, <1>2, <3>3, <3>4 DEF Client
    <3>6. v = w
      BY <2>1 DEF w
    <3> HIDE DEF v
    <3> QED BY <3>2, <3>5, <3>6 DEF Cleaned
  <2>2. CASE p \notin t.cgis
    <3>1. p = NoFd
      BY <1>1, <2>2 DEF Linked
    <3>2. Keeps(t.socks, t.socks, idx)
      BY DEF Keeps
    <3>3. v = t
      BY <2>2
    <3> HIDE DEF v
    <3> QED BY <3>1, <3>2, <3>3 DEF CgisKept
  <2> QED BY <2>1, <2>2
<1>4. CloseConnection(t, f) = u
  BY DEF CloseConnection
<1> HIDE DEF v
<1>5. idx \in 1..Len(v.socks) /\ v.socks[idx].fd = f
  BY <1>3 DEF Keeps
<1>6. /\ Struct(u) /\ u.socks = RemoveAt(v.socks, idx)
      /\ u.clients = v.clients \ {f}
      /\ u.client = [v.client EXCEPT ![f] = NewClient]
      /\ u.cgis = v.cgis /\ u.cgi = v.cgi /\ u.proc = v.proc
  BY <1>3, <1>5, RemoveStruct
<1> HIDE DEF u
<1>7. v.socks \in Seq(PollFd) /\ Distinct(v.socks) /\ v.client \in [Fds -> Client]
  BY <1>3 DEF Struct, Agree, Distinct, TablesType
<1>8. Erased(v.socks, idx, u.socks)
  BY <1>5, <1>6, <1>7, RemovedEntries
<1>9. Drops(t.socks, u.socks, idx)
  <2>0. idx \in 1..(Len(u.socks) + 1)
    BY <1>5, <1>8 DEF Erased
  <2> SUFFICES ASSUME NEW m \in 1..Len(u.socks)
               PROVE  \E k \in 1..Len(t.socks) :
                        u.socks[m] = t.socks[k] /\ k # idx /\ (m >= idx <=> k > idx)
    BY <2>0 DEF Drops
  <2>1. PICK j \in 1..Len(v.socks) :
          j # idx /\ u.socks[m] = v.socks[j] /\ m = IF j < idx THEN j ELSE j - 1
    BY <1>8 DEF Erased
  <2>2. PICK k \in 1..Len(t.socks) :
          v.socks[j] = t.socks[k] /\ (j > idx <=> k > idx) /\ (j = idx <=> k = idx)
    BY <1>3 DEF Keeps
  <2>3. k # idx /\ (m >= idx <=> k > idx)
    BY <2>1, <2>2
  <2> QED BY <2>1, <2>2, <2>3
<1>10. \A g \in u.clients : u.client[g] = t.client[g]
  BY <1>2, <1>3, <1>6, <1>7
<1> QED BY <1>3, <1>4, <1>6, <1>9, <1>10 DEF Closed, CgisKept

-----------------------------------------------------------------------------
(* The steps of processWrite *)

\* Filling or emptying a socket's send buffer leaves a peer.
LEMMA PeerFull ==
  ASSUME NEW p \in Peer, NEW v \in BOOLEAN
  PROVE  [p EXCEPT !.full = v] \in Peer
BY DEF Peer

\* Committing tables makes them the state.
LEMMA CommitFacts ==
  ASSUME NEW t, Struct(t), Commit(t)
  PROVE  Tables' = t
<1>1. t \in TablesType
  BY DEF Struct
<1>2. t = [socks |-> t.socks, clients |-> t.clients, client |-> t.client,
           cgis |-> t.cgis, cgi |-> t.cgi, open |-> t.open, proc |-> t.proc,
           bad |-> t.bad]
  BY <1>1 DEF TablesType
<1>3. Tables' = [socks |-> t.socks, clients |-> t.clients, client |-> t.client,
           cgis |-> t.cgis, cgi |-> t.cgi, open |-> t.open, proc |-> t.proc,
           bad |-> t.bad]
  BY DEF Tables, Commit
<1> QED BY <1>2, <1>3

\* What the structure says of the variables.
LEMMA TablesFacts ==
  ASSUME Struct(Tables)
  PROVE  /\ socks \in Seq(PollFd) /\ clients \subseteq Fds /\ cgis \subseteq Fds
         /\ client \in [Fds -> Client] /\ cgi \in [Fds -> Cgi]
         /\ open \in [Fds -> {"free", "socket", "pipe"}]
         /\ proc \in [Fds -> Proc] /\ badClose = {}
         /\ Distinct(socks)
         /\ \A k \in Entries : socks[k].fd \in clients \cup cgis
         /\ \A f \in Fds : ~(f \in clients /\ f \in cgis)
<1>1. /\ Tables.socks = socks /\ Tables.clients = clients /\ Tables.client = client
      /\ Tables.cgis = cgis /\ Tables.cgi = cgi /\ Tables.open = open
      /\ Tables.proc = proc /\ Tables.bad = badClose
  BY DEF Tables
<1>2. Tables \in TablesType /\ Agree(Tables) /\ Tables.bad = {}
  BY DEF Struct
<1>3. /\ socks \in Seq(PollFd) /\ clients \subseteq Fds /\ cgis \subseteq Fds
      /\ client \in [Fds -> Client] /\ cgi \in [Fds -> Cgi]
      /\ open \in [Fds -> {"free", "socket", "pipe"}]
      /\ proc \in [Fds -> Proc]
  <2> HIDE DEF Tables
  <2> QED BY <1>1, <1>2 DEF TablesType
<1>4. /\ Distinct(socks)
      /\ \A k \in Entries : socks[k].fd \in clients \cup cgis
      /\ \A f \in Fds : ~(f \in clients /\ f \in cgis)
  <2> HIDE DEF Tables
  <2> QED BY <1>1, <1>2 DEF Agree, Distinct, Entries
<1> QED BY <1>1, <1>2, <1>3, <1>4

\* The fields of a Client that its handlers compute.
LEMMA ClientUpdates ==
  ASSUME NEW c \in Client
  PROVE  /\ Prepared(c) \in Client
         /\ [Prepared(c) EXCEPT !.stale = FALSE] \in Client
         /\ \A all \in BOOLEAN : Sent(c, all) \in Client
         /\ ResetClientState(c) \in Client
<1>1. Prepared(c) \in Client
  BY DEF Prepared, Client
<1>2. [Prepared(c) EXCEPT !.stale = FALSE] \in Client
  BY <1>1 DEF Client
<1>3. \A all \in BOOLEAN : Sent(c, all) \in Client
  BY DEF Sent, Client
<1>4. ResetClientState(c) \in Client
  BY NewValues DEF ResetClientState, Client
<1> QED BY <1>1, <1>2, <1>3, <1>4

\* What sendToClientSocket and finalizeChunkedWrite do to a Client.
LEMMA SentFields ==
  ASSUME NEW c \in Client, NEW all \in BOOLEAN
  PROVE  LET d == Sent(c, all) IN
         /\ d.state = c.state /\ d.cgiOut = c.cgiOut /\ d.stage = c.stage
         /\ d.status = c.status /\ d.route = c.route /\ d.out = c.out
         /\ d.close = c.close
         /\ d.wbuf = ~all
         /\ d.chunked <=> (c.chunked /\ ~(all /\ c.stage = "finished"))
<1> DEFINE w == ~all
           h == c.chunked /\ ~(all /\ c.stage = "finished")
<1>1. Sent(c, all) = [c EXCEPT !.wbuf = w, !.stale = FALSE, !.chunked = h]
  BY DEF Sent
<1> HIDE DEF w, h
<1>2. LET d == [c EXCEPT !.wbuf = w, !.stale = FALSE, !.chunked = h] IN
      /\ d.state = c.state /\ d.cgiOut = c.cgiOut /\ d.stage = c.stage
      /\ d.status = c.status /\ d.route = c.route /\ d.out = c.out
      /\ d.close = c.close
      /\ d.wbuf = w /\ d.chunked = h
  BY DEF Client
<1> QED BY <1>1, <1>2 DEF w, h

\* Tables in the handler of the client at idx, before handleResponse.
Through(t) ==
  /\ Struct(t)
  /\ idx \in 1..Len(t.socks) /\ t.socks[idx] = Here
  /\ \A m \in 1..Len(t.socks) :
       \/ \E k \in Entries : /\ t.socks[m] = socks[k]
                             /\ m > idx <=> k > idx
                             /\ m = idx <=> k = idx
       \/ /\ t.socks[m].events = {"IN"} /\ t.socks[m].revents = {}
          /\ t.socks[m].fd \notin clients \cup cgis
  /\ t.clients = clients
  /\ \A g \in clients \ {Here.fd} : t.client[g] = client[g]
  /\ LET b == t.client[Here.fd] IN b.state \in Parsed => b.cgiOut = NoFd
  /\ ~stop => Drained(t)

\* What every step keeps.
StepOK == IInv' /\ SidesKept

\* A client on which handleResponse may be called in a steady round.
Answering(b) ==
  /\ b.state \notin Idle
  /\ b.state \in Parsed => NotStreaming(b) /\ b.cgiOut = NoFd /\ b.status
  /\ b.cgiOut # NoFd =>
       /\ b.state = "CGI_JUST_STARTED"
       /\ IF b.chunked THEN b.stage = "body"
          ELSE NotStreaming(b) /\ ~b.status /\ ~b.wbuf
  /\ b.state = "PARSE_OK" /\ b.route = "cgi" => setup.launchFails

\* The client d and the events ev that handleResponse leaves, if it does.
Answered(b, d, ev, f) ==
  /\ d \in Client /\ ev \in SUBSET {"IN", "OUT"}
  /\ d.cgiOut = b.cgiOut /\ d.state \in {b.state, "RESET"}
  /\ peer' \in [Fds -> Peer] /\ \A g \in Fds : g # f => peer'[g] = peer[g]
  /\ ~stop /\ Answering(b) =>
       /\ ClientOK(d)
       /\ Relaunch(d) => peer'[f].end = "reset"
       /\ ev = IF d.state \notin Idle THEN {"OUT"} ELSE {"IN"}

\* handleResponse keeps the entry, with the client answered or left as it
\* was, or it closes the connection: no other outcome.
LEMMA HandleResponseResult ==
  ASSUME NEW t, NEW f \in Fds, f = Here.fd, t.client[f] \in Client,
         HandleResponse(t), TypeOK, SafeSetup(setup),
         Here \in PollFd,
         ~stop => Here.events = {"OUT"} /\ (peer[f].full => peer[f].end = "reset")
  PROVE  \/ \E d, ev : /\ Answered(t.client[f], d, ev, f)
                       /\ Commit([SetClient(t, f, d) EXCEPT !.socks[idx].events = ev])
                       /\ Advance
         \/ \E d \in Client : /\ d.cgiOut = t.client[f].cgiOut /\ d.state = "RESET"
                              /\ ~stop /\ Answering(t.client[f]) => d.cgiOut = NoFd
                              /\ Commit(CloseConnection(SetClient(t, f, d), f))
                              /\ Removed(f)
<1> DEFINE b == t.client[f]
           c == [Prepared(b) EXCEPT !.stale = FALSE]
<1>0. b \in Client
  OBVIOUS
<1>1. c \in Client /\ \A all \in BOOLEAN : Sent(c, all) \in Client
      /\ ResetClientState(Sent(c, all)) \in Client
  BY <1>0, ClientUpdates
<1>2. c.state = b.state /\ c.cgiOut = b.cgiOut /\ c.chunked = b.chunked
      /\ c.stage = b.stage /\ c.status = b.status /\ c.route = b.route
      /\ (~b.chunked => (c.wbuf <=> b.wbuf \/ b.status) /\ c.out = b.out)
      /\ c.close = b.close
  BY <1>0 DEF Prepared, Client
<1> HIDE DEF b, c
<1>3. \A all \in BOOLEAN :
        LET d == Sent(c, all) IN
        /\ d.state = c.state /\ d.cgiOut = c.cgiOut /\ d.stage = c.stage
        /\ d.status = c.status /\ d.route = c.route /\ d.out = c.out
        /\ d.close = c.close
        /\ d.wbuf = ~all
        /\ d.chunked <=> (c.chunked /\ ~(all /\ c.stage = "finished"))
  BY <1>1, SentFields
<1>4. \A all \in BOOLEAN :
        LET d == ResetClientState(Sent(c, all)) IN
        /\ d.state = "RESET" /\ d.cgiOut = c.cgiOut
        /\ Clean(d) /\ NotStreaming(d)
  BY <1>3 DEF ResetClientState, NewClient, Clean, NotStreaming
<1>5. peer \in [Fds -> Peer] /\ setup \in Setup /\ Here.events \in SUBSET {"IN", "OUT"}
  BY SetupsAssumption DEF TypeOK, PollFd
<1>6. CASE ~c.wbuf /\ Commit([SetClient(t, f, c) EXCEPT !.socks[idx].events = Here.events])
           /\ Advance /\ UNCHANGED peer
  <2>1. Answered(b, c, Here.events, f)
    <3>1. ~stop /\ Answering(b) => ClientOK(c) /\ ~Relaunch(c) /\ c.state \notin Idle
      BY <1>1, <1>2, <1>6 DEF Answering, ClientOK, Relaunch, NotStreaming, Parsed
    <3> QED BY <1>1, <1>2, <1>5, <1>6, <3>1 DEF Answered
  <2> QED BY <1>6, <2>1 DEF b
<1>7. CASE /\ c.wbuf /\ SendFails(f)
           /\ Commit([SetClient(t, f, c) EXCEPT !.socks[idx].events = {"OUT"}])
           /\ Advance /\ UNCHANGED peer
  <2>1. Answered(b, c, {"OUT"}, f)
    <3>1. ~stop => peer[f].end = "reset"
      BY <1>7 DEF SendFails
    <3>2. ~stop /\ Answering(b) => ClientOK(c) /\ c.state \notin Idle
      BY <1>1, <1>2, <1>7 DEF Answering, ClientOK, NotStreaming, Parsed
    <3> QED BY <1>1, <1>2, <1>5, <1>7, <3>1, <3>2 DEF Answered
  <2> QED BY <1>7, <2>1 DEF b
<1>8. ASSUME c.wbuf, ~SendFails(f),
             NEW all \in (IF setup.shortSends THEN BOOLEAN ELSE {TRUE}),
             Sent(c, all).wbuf \/ Sent(c, all).chunked,
             Commit([SetClient(t, f, Sent(c, all)) EXCEPT
                       !.socks[idx].events = Here.events \cup {"OUT"}]),
             Advance, peer' = [peer EXCEPT ![f].full = ~all]
      PROVE  \E d, ev : /\ Answered(b, d, ev, f)
                        /\ Commit([SetClient(t, f, d) EXCEPT !.socks[idx].events = ev])
                        /\ Advance
  <2>1. all \in BOOLEAN
    BY <1>5 DEF Setup
  <2> DEFINE d == Sent(c, all)
  <2>2. d \in Client /\ d.cgiOut = b.cgiOut /\ d.state = b.state
    BY <1>1, <1>2, <1>3, <2>1
  <2>3. peer' \in [Fds -> Peer] /\ \A g \in Fds : g # f => peer'[g] = peer[g]
    <3>1. [peer[f] EXCEPT !.full = ~all] \in Peer
      BY <1>5, <2>1, PeerFull
    <3> QED BY <1>5, <1>8, <3>1
  <2>4. ~all => setup.shortSends /\ ~setup.launchFails
    BY <1>5, <2>1 DEF Setup, SafeSetup
  <2>5. Answering(b) => ClientOK(d) /\ d.state \notin Idle /\ ~Relaunch(d)
    <3>1. /\ d.state = b.state /\ d.cgiOut = b.cgiOut /\ d.stage = b.stage
          /\ d.status = b.status /\ d.route = b.route /\ d.wbuf = ~all
          /\ d.chunked <=> (b.chunked /\ ~(all /\ b.stage = "finished"))
          /\ (~b.chunked => (c.wbuf <=> b.wbuf \/ b.status) /\ d.out = b.out)
      BY <1>2, <1>3, <2>1
    <3>2. c.wbuf /\ (d.wbuf \/ d.chunked)
      BY <1>8
    <3> HIDE DEF d
    <3>3. Answering(b) => d.state \notin Idle
      BY <3>1 DEF Answering
    <3>4. Answering(b) => ClientOK(d)
      BY <3>1, <3>2, <3>3 DEF Answering, ClientOK, NotStreaming, Parsed
    <3>5. Answering(b) => ~Relaunch(d)
      BY <2>4, <3>1, <3>2 DEF Answering, NotStreaming, Parsed, Relaunch
    <3> QED BY <3>3, <3>4, <3>5
  <2>6. Answered(b, d, Here.events \cup {"OUT"}, f)
    BY <1>5, <2>2, <2>3, <2>5 DEF Answered
  <2> QED BY <1>8, <2>6
<1>9. ASSUME NEW all \in (IF setup.shortSends THEN BOOLEAN ELSE {TRUE}),
             ~(Sent(c, all).wbuf \/ Sent(c, all).chunked), c.wbuf,
             Commit([SetClient(t, f, ResetClientState(Sent(c, all))) EXCEPT
                       !.socks[idx].events = {"IN"}]),
             Advance, UNCHANGED peer
      PROVE  \E d, ev : /\ Answered(b, d, ev, f)
                        /\ Commit([SetClient(t, f, d) EXCEPT !.socks[idx].events = ev])
                        /\ Advance
  <2>1. all \in BOOLEAN
    BY <1>5 DEF Setup
  <2> DEFINE s == Sent(c, all)
             d == ResetClientState(s)
  <2>2. d \in Client /\ d.cgiOut = b.cgiOut /\ d.state = "RESET"
        /\ Clean(d) /\ NotStreaming(d)
    BY <1>1, <1>2, <1>4, <2>1
  <2>3. Answering(b) => b.cgiOut = NoFd
    BY <1>1, <1>2, <1>3, <1>9, <2>1 DEF Answering, NotStreaming
  <2> HIDE DEF d
  <2>4. Answering(b) => ClientOK(d) /\ d.state \in Idle /\ ~Relaunch(d)
    BY <2>2, <2>3 DEF ClientOK, Relaunch, Idle, Parsed
  <2>5. Answered(b, d, {"IN"}, f)
    BY <1>5, <1>9, <2>2, <2>4 DEF Answered
  <2> QED BY <1>9, <2>5 DEF d
<1>10. ASSUME NEW all \in (IF setup.shortSends THEN BOOLEAN ELSE {TRUE}),
              ~(Sent(c, all).wbuf \/ Sent(c, all).chunked), c.wbuf,
              Commit(CloseConnection(SetClient(t, f, ResetClientState(Sent(c, all))), f)),
              Removed(f)
       PROVE  \E d \in Client : /\ d.cgiOut = b.cgiOut /\ d.state = "RESET"
                                /\ ~stop /\ Answering(b) => d.cgiOut = NoFd
                                /\ Commit(CloseConnection(SetClient(t, f, d), f))
                                /\ Removed(f)
  <2>1. all \in BOOLEAN
    BY <1>5 DEF Setup
  <2>2. ResetClientState(Sent(c, all)) \in Client
        /\ ResetClientState(Sent(c, all)).cgiOut = b.cgiOut
        /\ ResetClientState(Sent(c, all)).state = "RESET"
    BY <1>1, <1>2, <1>4, <2>1
  <2>3. Answering(b) => b.cgiOut = NoFd
    BY <1>1, <1>2, <1>3, <1>10, <2>1 DEF Answering, NotStreaming
  <2> QED BY <1>10, <2>2, <2>3
<1> QED BY <1>6, <1>7, <1>8, <1>9, <1>10 DEF HandleResponse, b, c

-----------------------------------------------------------------------------
(* The tables a handler passes to handleResponse *)

\* A handler starts from the state itself.
LEMMA ThroughTables ==
  ASSUME IInv, Scanning, Here.fd \in clients
  PROVE  Through(Tables)
<1>0. Core /\ (~stop => Drained(Tables))
  BY DEF IInv
<1>1. Struct(Tables)
  BY <1>0 DEF Core, Scanning
<1>2. /\ Tables.socks = socks /\ Tables.clients = clients /\ Tables.client = client
  BY DEF Tables
<1>3. idx \in 1..Len(socks)
  <2>1. Len(socks) \in Nat
    BY <1>1, TablesFacts
  <2> QED BY <1>0, <2>1 DEF Core, Scanning
<1>4. client[Here.fd].state \in Parsed => client[Here.fd].cgiOut = NoFd
  BY <1>0 DEF Core
<1> HIDE DEF Tables
<1> QED BY <1>0, <1>1, <1>2, <1>3, <1>4 DEF Through, Here, Entries

\* Changing the client of the entry stays within the handler.
LEMMA ThroughSet ==
  ASSUME NEW t, Through(t), NEW f \in clients, f = Here.fd, NEW d \in Client,
         d.cgiOut = t.client[f].cgiOut, d.state \in Parsed => d.cgiOut = NoFd,
         ~stop => d.state = t.client[f].state \/ d.cgiOut = NoFd
  PROVE  /\ Through(SetClient(t, f, d)) /\ SetClient(t, f, d).client[f] = d
         /\ SetClient(t, f, d).cgis = t.cgis /\ SetClient(t, f, d).cgi = t.cgi
         /\ SetClient(t, f, d).open = t.open
<1> DEFINE u == SetClient(t, f, d)
<1>1. Struct(t) /\ t \in TablesType /\ f \in Fds
  BY DEF Through, Struct, TablesType
<1>2. Struct(u)
  BY <1>1, SetClientStruct
<1>3. /\ u.socks = t.socks /\ u.clients = t.clients
      /\ u.client = [t.client EXCEPT ![f] = d]
      /\ u.cgis = t.cgis /\ u.cgi = t.cgi /\ u.open = t.open /\ u.proc = t.proc
  BY <1>1, SetClientFields
<1> HIDE DEF u
<1>4. /\ u.client[f] = d
      /\ \A g \in Fds : g # f => u.client[g] = t.client[g]
  BY <1>1, <1>3 DEF TablesType
<1>5. clients \subseteq Fds
  BY <1>1 DEF Through, TablesType
<1>6. ~stop => Drained(u)
  <2> SUFFICES ASSUME ~stop, NEW p \in t.cgis
               PROVE  u.client[t.cgi[p].client].state = t.client[t.cgi[p].client].state
    BY <1>3 DEF Through, Drained
  <2>1. t.cgi[p].client \in Fds /\ t.client[t.cgi[p].client].cgiOut = p /\ p # NoFd
    BY <1>1, FdsAssumption DEF Struct, Linked, TablesType
  <2> QED BY <1>4, <2>1
<1>7. Through(u)
  <2> HIDE DEF Here
  <2> QED BY <1>2, <1>3, <1>4, <1>5, <1>6 DEF Through
<1> QED BY <1>3, <1>4, <1>7 DEF u

\* The client of the entry after the cleanup and the launch of its CGI.
Detached(c, d) == d = [c EXCEPT !.cgiOut = NoFd]
Attached(c, d, p) == d = [c EXCEPT !.cgiOut = p, !.state = "CGI_JUST_STARTED"]

\* So does cleanupCgi of its CGI, which comes after it in the array.
LEMMA ThroughCleanup ==
  ASSUME NEW t, Through(t), NEW f \in clients, f = Here.fd,
         t.client[f].cgiOut \in t.cgis
  PROVE  LET u == CleanupCgi(t, t.client[f].cgiOut) IN
         Through(u) /\ Detached(t.client[f], u.client[f]) /\ u.cgis \subseteq t.cgis
<1> DEFINE p == t.client[f].cgiOut
           u == CleanupCgi(t, p)
<1>1. Struct(t) /\ t \in TablesType /\ f \in Fds /\ t.clients = clients
      /\ idx \in 1..Len(t.socks) /\ t.socks[idx].fd = f
  BY DEF Through, Struct, TablesType
<1>2. t.client \in [Fds -> Client] /\ t.cgis \subseteq Fds /\ clients \subseteq Fds
  BY <1>1 DEF TablesType
<1>3. t.cgi[p].client = f
  BY <1>1, <1>2, FdsAssumption DEF Struct, Linked
<1>4. Cleaned(t, idx, p, u)
  BY <1>1, <1>3, CleanupInScan
<1> HIDE DEF u, p
<1>5. /\ Struct(u) /\ Keeps(t.socks, u.socks, idx) /\ u.clients = clients
      /\ u.client = [t.client EXCEPT ![f] = [t.client[f] EXCEPT !.cgiOut = NoFd]]
  BY <1>1, <1>4 DEF Cleaned
<1>a. u.cgis = t.cgis \ {p} /\ CgisKept(t, u)
  BY <1>4 DEF Cleaned
<1>6. /\ u.client[f] = [t.client[f] EXCEPT !.cgiOut = NoFd]
      /\ \A g \in Fds : g # f => u.client[g] = t.client[g]
  BY <1>1, <1>2, <1>5
<1>7. u.client[f].cgiOut = NoFd
  <2>1. t.client[f] \in Client
    BY <1>1, <1>2
  <2> QED BY <1>6, <2>1 DEF Client
<1>8. idx \in 1..Len(u.socks) /\ u.socks[idx] = Here
  BY <1>1, <1>5 DEF Keeps, Through
<1>9. ASSUME NEW m \in 1..Len(u.socks)
      PROVE  \/ \E k \in Entries : /\ u.socks[m] = socks[k]
                                   /\ m > idx <=> k > idx
                                   /\ m = idx <=> k = idx
             \/ /\ u.socks[m].events = {"IN"} /\ u.socks[m].revents = {}
                /\ u.socks[m].fd \notin clients \cup cgis
  <2>1. PICK j \in 1..Len(t.socks) :
          u.socks[m] = t.socks[j] /\ (m > idx <=> j > idx) /\ (m = idx <=> j = idx)
    BY <1>5 DEF Keeps
  <2>2. \/ \E k \in Entries : /\ t.socks[j] = socks[k]
                              /\ j > idx <=> k > idx
                              /\ j = idx <=> k = idx
        \/ /\ t.socks[j].events = {"IN"} /\ t.socks[j].revents = {}
           /\ t.socks[j].fd \notin clients \cup cgis
    BY DEF Through
  <2> QED BY <2>1, <2>2
<1>10. \A g \in clients \ {f} : u.client[g] = client[g]
  BY <1>2, <1>6 DEF Through
<1>11. ~stop => Drained(u)
  <2> SUFFICES ASSUME ~stop, NEW q \in u.cgis
               PROVE  u.client[t.cgi[q].client] = t.client[t.cgi[q].client]
    BY <1>a DEF Through, Drained, CgisKept
  <2>1. q \in t.cgis /\ q # p
    BY <1>a
  <2>2. t.cgi[q].client \in Fds /\ t.client[t.cgi[q].client].cgiOut = q
    BY <1>1, <2>1 DEF Struct, Linked, TablesType
  <2> QED BY <1>6, <2>1, <2>2 DEF p
<1>12. Through(u)
  <2> HIDE DEF Here
  <2> QED BY <1>5, <1>7, <1>8, <1>9, <1>10, <1>11 DEF Through
<1> QED BY <1>a, <1>6, <1>12 DEF u, p, Detached

\* So does registerCgi, which appends.
LEMMA ThroughRegister ==
  ASSUME NEW t, Through(t), NEW f \in clients, f = Here.fd,
         NEW p \in Fds, p \notin cgis, t.open[p] = "free", t.client[f].cgiOut = NoFd
  PROVE  LET u == RegisterCgi(t, p, f) IN
         /\ Through(u) /\ Attached(t.client[f], u.client[f], p)
         /\ u.cgis = t.cgis \cup {p} /\ u.cgi[p].client = f
<1> DEFINE u == RegisterCgi(t, p, f)
           e == [fd |-> p, events |-> {"IN"}, revents |-> {}]
<1>1. Struct(t) /\ t \in TablesType /\ f \in Fds /\ t.clients = clients
      /\ idx \in 1..Len(t.socks) /\ t.socks[idx] = Here
  BY DEF Through, Struct, TablesType
<1>2. t.client \in [Fds -> Client] /\ clients \subseteq Fds
      /\ t.socks \in Seq(PollFd)
  BY <1>1 DEF TablesType
<1>3. Struct(u) /\ Registered(t, p, f, u) /\ p \notin t.clients \cup t.cgis
  BY <1>1, RegisterStruct
<1> HIDE DEF u, e
<1>4. /\ u.socks = Append(t.socks, e) /\ u.clients = clients
      /\ u.client = [t.client EXCEPT ![f] =
           [t.client[f] EXCEPT !.cgiOut = p, !.state = "CGI_JUST_STARTED"]]
  BY <1>1, <1>3 DEF Registered, e
<1>a. /\ u.cgis = t.cgis \cup {p}
      /\ u.cgi = [t.cgi EXCEPT ![p] = [NoCgi EXCEPT !.client = f]]
      /\ u.proc = [t.proc EXCEPT ![p] = NewProc]
  BY <1>3 DEF Registered
<1>5. /\ u.client[f] = [t.client[f] EXCEPT !.cgiOut = p, !.state = "CGI_JUST_STARTED"]
      /\ \A g \in Fds : g # f => u.client[g] = t.client[g]
  BY <1>1, <1>2, <1>4
<1>6. u.client[f].state = "CGI_JUST_STARTED"
  <2>1. t.client[f] \in Client
    BY <1>1, <1>2
  <2> QED BY <1>5, <2>1 DEF Client
<1>7. /\ Len(u.socks) = Len(t.socks) + 1 /\ u.socks[Len(t.socks) + 1] = e
      /\ \A m \in 1..Len(t.socks) : u.socks[m] = t.socks[m]
  BY <1>2, <1>4
<1>8. idx \in 1..Len(u.socks) /\ u.socks[idx] = Here
  BY <1>1, <1>7
<1>9. ASSUME NEW m \in 1..Len(u.socks)
      PROVE  \/ \E k \in Entries : /\ u.socks[m] = socks[k]
                                   /\ m > idx <=> k > idx
                                   /\ m = idx <=> k = idx
             \/ /\ u.socks[m].events = {"IN"} /\ u.socks[m].revents = {}
                /\ u.socks[m].fd \notin clients \cup cgis
  <2>1. CASE m \in 1..Len(t.socks)
    BY <1>7, <2>1 DEF Through
  <2>2. CASE m = Len(t.socks) + 1
    BY <1>1, <1>3, <1>7, <2>2 DEF e
  <2> QED BY <1>7, <2>1, <2>2
<1>10. \A g \in clients \ {f} : u.client[g] = client[g]
  BY <1>2, <1>5 DEF Through
<1>11. /\ u.cgi[p].client = f /\ u.cgi[p].exit = "unknown"
       /\ \A q \in t.cgis : q # p /\ u.cgi[q] = t.cgi[q] /\ u.proc[q] = t.proc[q]
  <2>1. t.cgi \in [Fds -> Cgi] /\ t.proc \in [Fds -> Proc] /\ t.cgis \subseteq Fds
    BY <1>1 DEF TablesType
  <2>2. /\ [NoCgi EXCEPT !.client = f].client = f
        /\ [NoCgi EXCEPT !.client = f].exit = "unknown"
    BY DEF NoCgi
  <2> QED BY <1>3, <1>a, <2>1, <2>2
<1>12. ~stop => Drained(u)
  <2> SUFFICES ASSUME ~stop, NEW q \in t.cgis
               PROVE  u.client[t.cgi[q].client] = t.client[t.cgi[q].client]
    <3>1. ASSUME ~stop, NEW q \in u.cgis, q # p,
                 u.client[t.cgi[q].client] = t.client[t.cgi[q].client]
          PROVE  LET c == u.client[u.cgi[q].client] IN
                 \/ c.state = "CGI_JUST_STARTED" /\ u.cgi[q].exit = "unknown"
                 \/ /\ c.state = "CGI_COMPLETED" /\ u.cgi[q].exit \in {"ok", "failed"}
                    /\ u.proc[q] = GoneProc
      BY <1>a, <1>11, <3>1 DEF Through, Drained
    <3> QED BY <1>a, <1>6, <1>11, <3>1 DEF Drained
  <2>1. t.cgi[q].client \in Fds /\ t.client[t.cgi[q].client].cgiOut = q /\ q # NoFd
    BY <1>1, FdsAssumption DEF Struct, Linked, TablesType
  <2> QED BY <1>5, <2>1
<1>13. Through(u)
  <2> HIDE DEF Here
  <2>1. u.client[f].state \notin Parsed
    BY <1>6 DEF Parsed
  <2> QED BY <1>3, <1>4, <1>8, <1>9, <1>10, <1>12, <2>1 DEF Through
<1> QED BY <1>a, <1>5, <1>11, <1>13 DEF u, Attached

-----------------------------------------------------------------------------
(* The ends of a handler *)

\* The types follow from the structure.
LEMMA TypesFollow ==
  ASSUME Struct(Tables)', setup' \in Setups, pc' \in {"poll", "accept", "scan"},
         stop' \in BOOLEAN, idx' \in Nat, peer' \in [Fds -> Peer]
  PROVE  TypeOK'
<1>1. Tables' \in TablesType
  BY DEF Struct
<1>2. /\ socks' \in Seq(PollFd) /\ clients' \subseteq Fds /\ cgis' \subseteq Fds
      /\ client' \in [Fds -> Client] /\ cgi' \in [Fds -> Cgi]
      /\ open' \in [Fds -> {"free", "socket", "pipe"}]
      /\ proc' \in [Fds -> Proc] /\ badClose' \subseteq Fds
  BY <1>1 DEF Tables, TablesType
<1> QED BY <1>2 DEF TypeOK

\* handleResponse left the entry where it is.
LEMMA KeptStep ==
  ASSUME IInv, Scanning, NEW t, Through(t), NEW f \in clients, f = Here.fd,
         "OUT" \in Here.revents, NEW d, NEW ev,
         Answered(t.client[f], d, ev, f), ~stop => Answering(t.client[f]),
         Commit([SetClient(t, f, d) EXCEPT !.socks[idx].events = ev]), Advance
  PROVE  IInv' /\ SidesKept /\ cgis' = t.cgis
<1> DEFINE b == t.client[f]
           v == SetClient(t, f, d)
           u == [v EXCEPT !.socks[idx].events = ev]
<1>1. TypeOK /\ Core /\ (~stop => Steady) /\ Struct(Tables)
  BY DEF IInv, Core, Scanning
<1>2. Struct(t) /\ t.clients = clients /\ t \in TablesType /\ f \in Fds
      /\ (b.state \in Parsed => b.cgiOut = NoFd)
      /\ idx \in 1..Len(t.socks) /\ t.socks[idx] = Here
  BY DEF Through, Struct, TablesType
<1>3. d \in Client /\ ev \in SUBSET {"IN", "OUT"} /\ d.cgiOut = b.cgiOut
      /\ d.state \in {b.state, "RESET"}
  BY DEF Answered
<1>4. Struct(v) /\ v.socks = t.socks /\ v.clients = clients
      /\ v.client = [t.client EXCEPT ![f] = d]
      /\ v.cgis = t.cgis /\ v.cgi = t.cgi /\ v.proc = t.proc
  BY <1>2, <1>3, SetClientStruct, SetClientFields
<1> HIDE DEF v
<1>5. /\ Struct(u) /\ u.clients = clients /\ u.client = v.client
      /\ u.socks = [t.socks EXCEPT ![idx] = [t.socks[idx] EXCEPT !.events = ev]]
      /\ Len(u.socks) = Len(t.socks)
      /\ u.cgis = t.cgis /\ u.cgi = t.cgi /\ u.proc = t.proc
  <2>1. Waiting(v, idx, ev, u)
    BY <1>2, <1>3, <1>4, SetEventsStruct
  <2> HIDE DEF u
  <2> QED BY <1>4, <2>1 DEF Waiting
<1>6. Tables' = u
  BY <1>5, CommitFacts DEF v
<1> HIDE DEF u
<1>7. /\ Struct(Tables)' /\ socks' = u.socks /\ clients' = clients
      /\ client' = [t.client EXCEPT ![f] = d]
      /\ cgis' = t.cgis /\ cgi' = t.cgi /\ proc' = t.proc
  BY <1>4, <1>5, <1>6 DEF Tables
<1>8. t.socks \in Seq(PollFd) /\ t.client \in [Fds -> Client] /\ clients \subseteq Fds
  BY <1>2 DEF TablesType
<1>9. /\ client'[f] = d
      /\ \A g \in clients : g # f => client'[g] = client[g]
  BY <1>2, <1>7, <1>8 DEF Through
<1>10. idx' = idx + 1 /\ setup' = setup /\ pc' = "scan" /\ stop' = stop /\ idx \in Nat
  BY <1>1 DEF Advance, Scanning, TypeOK
<1>11. /\ peer' \in [Fds -> Peer] /\ peer \in [Fds -> Peer]
       /\ \A g \in Fds : g # f => peer'[g] = peer[g]
  BY <1>1 DEF Answered, TypeOK
<1>12. TypeOK'
  <2>1. setup' \in Setups /\ pc' \in {"poll", "accept", "scan"}
        /\ stop' \in BOOLEAN /\ idx' \in Nat
    BY <1>1, <1>10 DEF TypeOK
  <2> QED BY <1>7, <1>11, <2>1, TypesFollow
<1>13. Here \in PollFd /\ Here.fd = f
  BY <1>2, <1>8
\* Where each entry comes from.
<1>14. /\ Len(socks') = Len(t.socks) /\ Len(t.socks) \in Nat
       /\ socks'[idx] = [Here EXCEPT !.events = ev]
       /\ \A m \in 1..Len(socks') : m # idx => socks'[m] = t.socks[m]
  <2> HIDE DEF Here
  <2> QED BY <1>2, <1>5, <1>7, <1>8
<1>15. socks'[idx].fd = f /\ socks'[idx].events = ev /\ socks'[idx].revents = Here.revents
  <2> HIDE DEF Here
  <2> QED BY <1>13, <1>14 DEF PollFd
<1>16. ASSUME NEW m \in 1..Len(socks'), m # idx
       PROVE  /\ socks'[m].fd # f
              /\ \/ \E k \in Entries : socks'[m] = socks[k] /\ (m > idx <=> k > idx)
                 \/ /\ socks'[m].events = {"IN"} /\ socks'[m].revents = {}
                    /\ socks'[m].fd \notin clients \cup cgis
  <2>1. m \in 1..Len(t.socks) /\ socks'[m] = t.socks[m]
    BY <1>14, <1>16
  <2>2. t.socks[m].fd # f
    BY <1>2, <1>13, <1>16, <2>1 DEF Struct, Agree
  <2> QED BY <2>1, <2>2 DEF Through
<1>17. Core'
  <2>1. idx' \in 1..(Len(socks') + 1)
    BY <1>2, <1>10, <1>14
  <2>2. \A g \in clients' : client'[g].state \in Parsed => client'[g].cgiOut = NoFd
    <3>1. d.state \in Parsed => d.cgiOut = NoFd
      BY <1>2, <1>3 DEF Parsed
    <3> QED BY <1>1, <1>7, <1>9, <3>1 DEF Core
  <2>3. ASSUME NEW m \in 1..Len(socks')
        PROVE  Readable(m)'
    <3>1. CASE m = idx
      <4>1. "IN" \notin Here.revents
        <5>1. idx \in Entries
          BY DEF Entries, Scanning, Core, IInv
        <5> QED BY <1>1, <5>1 DEF Core, Readable, Here
      <4> QED BY <1>15, <3>1, <4>1 DEF Readable
    <3>2. CASE m # idx
      BY <1>1, <1>7, <1>9, <1>16, <3>2 DEF Core, Readable
    <3> QED BY <3>1, <3>2
  <2> QED BY <1>7, <1>10, <2>1, <2>2, <2>3 DEF Core, Entries
<1>18. ASSUME ~stop PROVE Steady'
  <2>1. Steady /\ ClientOK(d) /\ (Relaunch(d) => peer'[f].end = "reset")
        /\ ev = (IF d.state \notin Idle THEN {"OUT"} ELSE {"IN"})
    BY <1>1, <1>18 DEF Answered
  <2>2. ASSUME NEW g \in clients'
        PROVE  ClientOK(client[g])' /\ (Relaunch(client[g])' => peer'[g].end = "reset")
    <3>1. CASE g = f
      BY <1>9, <2>1, <3>1 DEF ClientOK, Relaunch
    <3>2. CASE g # f
      <4>1. client'[g] = client[g] /\ peer'[g] = peer[g] /\ g \in clients
        BY <1>7, <1>8, <1>9, <1>11, <3>2
      <4> QED BY <2>1, <4>1 DEF Steady, ClientOK, Relaunch
    <3> QED BY <3>1, <3>2
  <2>3. ASSUME NEW m \in 1..Len(socks')
        PROVE  EntryOK(m)'
    <3>1. CASE m = idx
      BY <1>7, <1>9, <1>10, <1>15, <2>1, <3>1 DEF EntryOK, Ahead
    <3>2. CASE m # idx
      <4>1. CASE \E k \in Entries : socks'[m] = socks[k] /\ (m > idx <=> k > idx)
        <5>1. PICK k \in Entries : socks'[m] = socks[k] /\ (m > idx <=> k > idx)
          BY <4>1
        <5>2. EntryOK(k)
          BY <2>1 DEF Steady
        <5>3. Ahead(m)' => Ahead(k)
          BY <1>10, <5>1 DEF Ahead, Scanning, Entries
        <5>4. socks[k].fd # f /\ clients' = clients
          BY <1>7, <1>16, <3>2, <5>1
        <5>5. socks[k].fd \in clients => client'[socks[k].fd] = client[socks[k].fd]
                                         /\ peer'[socks[k].fd] = peer[socks[k].fd]
          BY <1>8, <1>9, <1>11, <5>4
        <5> QED BY <5>1, <5>2, <5>3, <5>4, <5>5 DEF EntryOK, Relaunch
      <4>2. CASE /\ socks'[m].events = {"IN"} /\ socks'[m].revents = {}
                 /\ socks'[m].fd \notin clients
        BY <1>7, <4>2 DEF EntryOK
      <4> QED BY <1>16, <3>2, <4>1, <4>2
    <3> QED BY <3>1, <3>2
  <2> QED BY <2>2, <2>3 DEF Steady, Entries
<1>19. ~stop => Drained(Tables)'
  <2> SUFFICES ASSUME ~stop, NEW p \in t.cgis
               PROVE  client'[t.cgi[p].client].state = t.client[t.cgi[p].client].state
    BY <1>7 DEF Through, Drained, Tables
  <2>1. t.cgi[p].client \in clients /\ t.client[t.cgi[p].client].cgiOut = p /\ p # NoFd
    BY <1>2, FdsAssumption DEF Struct, Linked, TablesType
  <2>2. CASE t.cgi[p].client = f
    <3>1. ClientOK(d) /\ d.cgiOut # NoFd
      BY <1>3, <2>1, <2>2 DEF Answered
    <3>2. d.state # "RESET"
      BY <3>1 DEF ClientOK, Idle
    <3> QED BY <1>3, <1>9, <2>2, <3>2
  <2>3. CASE t.cgi[p].client # f
    BY <1>7, <1>8, <2>1, <2>3
  <2> QED BY <2>2, <2>3
<1>20. SidesKept
  <2> SUFFICES ASSUME NEW k \in Entries, NEW m \in 1..Len(socks'),
                      socks[k].fd = socks'[m].fd
               PROVE  (k > idx => m >= idx') /\ (k < idx => m < idx')
    BY DEF SidesKept
  <2>1. Distinct(socks) /\ idx \in Entries /\ socks[k].fd \in clients \cup cgis
    BY <1>1, TablesFacts DEF Core, Scanning, Entries
  <2>2. CASE m = idx
    BY <1>10, <1>15, <2>1, <2>2 DEF Distinct, Entries, Here
  <2>3. CASE m # idx
    <3>1. PICK j \in Entries : socks'[m] = socks[j] /\ (m > idx <=> j > idx)
      BY <1>16, <2>1, <2>3
    <3>2. j = k
      BY <2>1, <3>1 DEF Distinct, Entries
    <3> QED BY <1>10, <2>3, <3>1, <3>2 DEF Entries
  <2> QED BY <2>2, <2>3
<1> QED BY <1>7, <1>10, <1>12, <1>17, <1>18, <1>19, <1>20 DEF IInv

\* The entry, its client and the client's CGI are gone.
LEMMA ClosedStep ==
  ASSUME IInv, Scanning, NEW t, Through(t), NEW f \in clients, f = Here.fd,
         Commit(CloseConnection(t, f)), Removed(f)
  PROVE  IInv' /\ SidesKept
<1> DEFINE u == CloseConnection(t, f)
<1>1. TypeOK /\ Core /\ (~stop => Steady) /\ Struct(Tables)
  BY DEF IInv, Core, Scanning
<1>2. Struct(t) /\ t.clients = clients /\ t \in TablesType /\ f \in Fds
      /\ idx \in 1..Len(t.socks) /\ t.socks[idx] = Here
  BY DEF Through, Struct, TablesType
<1>3. Closed(t, idx, f, u)
  BY <1>2, CloseStruct
<1>4. Tables' = u
  BY <1>3, CommitFacts DEF Closed
<1> HIDE DEF u
<1>5. /\ Struct(Tables)' /\ socks' = u.socks /\ clients' = clients \ {f}
      /\ \A g \in clients' : client'[g] = client[g]
      /\ \A g \in clients' : client'[g] = t.client[g]
      /\ cgis' \subseteq t.cgis
      /\ \A p \in cgis' : cgi'[p] = t.cgi[p] /\ proc'[p] = t.proc[p]
  BY <1>2, <1>3, <1>4 DEF Tables, Closed, CgisKept, Through
<1>6. setup' = setup /\ pc' = "scan" /\ stop' = stop /\ idx' = idx /\ idx \in Nat
      /\ peer' = [peer EXCEPT ![f] = NewPeer] /\ peer \in [Fds -> Peer]
  BY <1>1 DEF Removed, Scanning, TypeOK, loop
<1>7. /\ peer' \in [Fds -> Peer]
      /\ \A g \in clients' : peer'[g] = peer[g]
  <2>1. t.clients \subseteq Fds
    BY <1>2 DEF TablesType
  <2> QED BY <1>2, <1>5, <1>6, <2>1, NewValues
<1>8. TypeOK'
  <2>1. setup' \in Setups /\ pc' \in {"poll", "accept", "scan"}
        /\ stop' \in BOOLEAN /\ idx' \in Nat
    BY <1>1, <1>6 DEF TypeOK
  <2> QED BY <1>5, <1>7, <2>1, TypesFollow
<1>9. idx \in 1..(Len(socks') + 1)
  BY <1>3, <1>5 DEF Closed, Drops
<1>10. ASSUME NEW m \in 1..Len(socks')
       PROVE  \/ \E k \in Entries : socks'[m] = socks[k] /\ (m >= idx <=> k > idx)
              \/ /\ socks'[m].events = {"IN"} /\ socks'[m].revents = {}
                 /\ socks'[m].fd \notin clients \cup cgis
  <2>1. PICK k \in 1..Len(t.socks) :
          socks'[m] = t.socks[k] /\ k # idx /\ (m >= idx <=> k > idx)
    BY <1>3, <1>5 DEF Closed, Drops
  <2>2. \/ \E j \in Entries : t.socks[k] = socks[j] /\ (k > idx <=> j > idx)
        \/ /\ t.socks[k].events = {"IN"} /\ t.socks[k].revents = {}
           /\ t.socks[k].fd \notin clients \cup cgis
    BY DEF Through
  <2> QED BY <1>6, <2>1, <2>2 DEF Entries
<1>11. ASSUME NEW m \in 1..Len(socks')
       PROVE  socks'[m].fd # f
  <2>1. socks'[m].fd \in clients' \cup cgis'
    BY <1>5 DEF Struct, Agree, Tables
  <2>2. f \notin t.cgis
    BY <1>2 DEF Struct, Agree
  <2> QED BY <1>5, <2>1, <2>2
<1>12. Core'
  <2>1. idx' \in 1..(Len(socks') + 1)
    BY <1>2, <1>6, <1>9
  <2>2. \A g \in clients' : client'[g].state \in Parsed => client'[g].cgiOut = NoFd
    BY <1>1, <1>5 DEF Core
  <2>3. ASSUME NEW m \in 1..Len(socks')
        PROVE  Readable(m)'
    BY <1>1, <1>5, <1>10, <1>11 DEF Core, Readable
  <2> QED BY <1>5, <1>6, <2>1, <2>2, <2>3 DEF Core, Entries
<1>13. ASSUME ~stop PROVE Steady'
  <2>1. Steady
    BY <1>1, <1>13
  <2>2. ASSUME NEW g \in clients'
        PROVE  ClientOK(client[g])' /\ (Relaunch(client[g])' => peer'[g].end = "reset")
    BY <1>5, <1>7, <2>1 DEF Steady, ClientOK, Relaunch
  <2>3. ASSUME NEW m \in 1..Len(socks')
        PROVE  EntryOK(m)'
    <3>1. CASE \E k \in Entries : socks'[m] = socks[k] /\ (m >= idx <=> k > idx)
      <4>1. PICK k \in Entries : socks'[m] = socks[k] /\ (m >= idx <=> k > idx)
        BY <3>1
      <4>2. EntryOK(k) /\ (Ahead(m)' => Ahead(k))
        BY <1>6, <2>1, <4>1 DEF Steady, Ahead, Scanning, Entries
      <4>3. socks[k].fd \in clients <=> socks[k].fd \in clients'
        BY <1>5, <1>11, <4>1
      <4> QED BY <1>5, <1>7, <4>1, <4>2, <4>3 DEF EntryOK, Relaunch
    <3>2. CASE /\ socks'[m].events = {"IN"} /\ socks'[m].revents = {}
               /\ socks'[m].fd \notin clients
      BY <1>5, <3>2 DEF EntryOK
    <3> QED BY <1>10, <3>1, <3>2
  <2> QED BY <2>2, <2>3 DEF Steady, Entries
<1>14. ~stop => Drained(Tables)'
  <2> SUFFICES ASSUME ~stop, NEW p \in cgis'
               PROVE  client'[t.cgi[p].client] = t.client[t.cgi[p].client]
    BY <1>5 DEF Through, Drained, Tables
  <2>1. cgi'[p].client \in clients'
    BY <1>5 DEF Struct, Linked, Tables
  <2> QED BY <1>5, <2>1
<1>15. SidesKept
  <2> SUFFICES ASSUME NEW k \in Entries, NEW m \in 1..Len(socks'),
                      socks[k].fd = socks'[m].fd
               PROVE  (k > idx => m >= idx') /\ (k < idx => m < idx')
    BY DEF SidesKept
  <2>1. Distinct(socks) /\ socks[k].fd \in clients \cup cgis
    BY <1>1, TablesFacts
  <2>2. PICK j \in Entries : socks'[m] = socks[j] /\ (m >= idx <=> j > idx)
    BY <1>10, <2>1
  <2>3. j = k
    BY <2>1, <2>2 DEF Distinct, Entries
  <2> QED BY <1>6, <2>2, <2>3 DEF Entries
<1> QED BY <1>5, <1>6, <1>8, <1>12, <1>13, <1>14, <1>15 DEF IInv

\* processWrite, once its action has prepared the tables t.
LEMMA WriteStep ==
  ASSUME IInv, WriteEntry, NEW t, Through(t), HandleResponse(t),
         ~stop => Answering(t.client[Here.fd])
  PROVE  IInv' /\ SidesKept
<1> DEFINE f == Here.fd
<1>1. TypeOK /\ Core /\ (~stop => Steady) /\ Scanning /\ f \in clients
      /\ "OUT" \in Here.revents /\ SafeSetup(setup)
  BY SafeSetups DEF IInv, WriteEntry, TypeOK
<1>2. t \in TablesType /\ f \in Fds /\ t.clients = clients
      /\ idx \in 1..Len(t.socks) /\ t.socks[idx] = Here
  BY <1>1 DEF Through, Struct, TablesType
<1>3. t.client[f] \in Client /\ Here \in PollFd
  <2>1. t.client \in [Fds -> Client] /\ t.socks \in Seq(PollFd)
    BY <1>2 DEF TablesType
  <2> QED BY <1>2, <2>1
<1>4. ~stop => Here.events = {"OUT"} /\ (peer[f].full => peer[f].end = "reset")
  <2>1. Ahead(idx) /\ idx \in Entries
    BY <1>1 DEF Ahead, Scanning, Core, Entries
  <2>2. ~stop => EntryOK(idx)
    BY <1>1, <2>1 DEF Steady
  <2> QED BY <1>1, <2>1, <2>2 DEF EntryOK, Here
<1>5. CASE \E d, ev : /\ Answered(t.client[f], d, ev, f)
                      /\ Commit([SetClient(t, f, d) EXCEPT !.socks[idx].events = ev])
                      /\ Advance
  <2> HIDE DEF f
  <2> QED BY <1>1, <1>5, KeptStep DEF f
<1>6. CASE \E d \in Client : /\ d.cgiOut = t.client[f].cgiOut /\ d.state = "RESET"
                             /\ ~stop /\ Answering(t.client[f]) => d.cgiOut = NoFd
                             /\ Commit(CloseConnection(SetClient(t, f, d), f))
                             /\ Removed(f)
  <2>1. PICK d \in Client : /\ d.cgiOut = t.client[f].cgiOut /\ d.state = "RESET"
                            /\ ~stop /\ Answering(t.client[f]) => d.cgiOut = NoFd
                            /\ Commit(CloseConnection(SetClient(t, f, d), f))
                            /\ Removed(f)
    BY <1>6
  <2>2. Through(SetClient(t, f, d)) /\ SetClient(t, f, d).cgis = t.cgis
    BY <1>1, <2>1, ThroughSet DEF Parsed
  <2> QED BY <1>1, <2>1, <2>2, ClosedStep
<1> HIDE DEF f
<1>7. f = Here.fd
  BY DEF f
<1> QED BY <1>1, <1>2, <1>3, <1>4, <1>5, <1>6, <1>7, HandleResponseResult

-----------------------------------------------------------------------------
(* The actions of processWrite *)

\* What holds of the client of an entry that is writable.
LEMMA WriteFacts ==
  ASSUME IInv, WriteEntry
  PROVE  LET f == Here.fd
             b == client[f]
         IN
         /\ f \in clients /\ f \in Fds /\ b \in Client
         /\ Through(Tables) /\ Tables.client[f] = b /\ Tables.cgis = cgis
         /\ Tables.open = open /\ Tables.cgi = cgi
         /\ b.state \in Parsed => b.cgiOut = NoFd
         /\ b.cgiOut # NoFd => b.cgiOut \in cgis /\ cgi[b.cgiOut].client = f
         /\ NoFd \notin cgis
         /\ ~stop => ClientOK(b) /\ b.state \notin Idle /\ ~Relaunch(b)
<1> DEFINE f == Here.fd
<1>1. TypeOK /\ Core /\ (~stop => Steady) /\ Scanning /\ f \in clients
      /\ "OUT" \in Here.revents /\ ~Dead(Here) /\ Struct(Tables)
  BY DEF IInv, WriteEntry, Core, Scanning
<1>2. Through(Tables)
  BY <1>1, ThroughTables
<1>3. f \in Fds /\ client[f] \in Client /\ NoFd \notin cgis
  BY <1>1, FdsAssumption DEF TypeOK
<1>4. client[f].cgiOut # NoFd =>
        client[f].cgiOut \in cgis /\ cgi[client[f].cgiOut].client = f
  BY <1>1 DEF Struct, Linked, Tables
<1>5. client[f].state \in Parsed => client[f].cgiOut = NoFd
  BY <1>1 DEF Core
<1>6. "HUP" \notin Here.revents
  <2>1. f \notin cgis
    BY <1>1, <1>3, TablesFacts
  <2> QED BY <1>1, <2>1 DEF Dead
<1>7. ~stop => ClientOK(client[f]) /\ client[f].state \notin Idle /\ ~Relaunch(client[f])
  <2>1. Ahead(idx) /\ idx \in Entries
    BY <1>1 DEF Ahead, Scanning, Core, Entries
  <2>2. ~stop => EntryOK(idx) /\ ClientOK(client[f])
    BY <1>1, <2>1 DEF Steady
  <2> QED BY <1>1, <1>6, <2>1, <2>2 DEF EntryOK, Here
<1> QED BY <1>1, <1>2, <1>3, <1>4, <1>5, <1>7 DEF Tables

\* A response gives a Client a status, and leaves what the loop goes by.
LEMMA RespondingClient ==
  ASSUME NEW b \in Client, NEW close \in BOOLEAN
  PROVE  LET c == Responds(b, close) IN
         /\ c \in Client /\ c.state = b.state /\ c.cgiOut = b.cgiOut
         /\ c.route = b.route /\ c.chunked = b.chunked
         /\ c.out = b.out /\ c.stage = b.stage /\ c.status /\ c.wbuf = b.wbuf
  BY DEF Responds, Client

\* The handlers that only write a response before they send it.
LEMMA WritesStep ==
  ASSUME IInv, WriteEntry, NEW c \in Client, c.cgiOut = client[Here.fd].cgiOut,
         c.state = client[Here.fd].state,
         ~stop => Answering(c), Writes(c)
  PROVE  StepOK
<1> DEFINE f == Here.fd
           t == SetClient(Tables, f, c)
<1>1. f \in clients /\ Through(Tables) /\ Tables.client[f] = client[f]
      /\ (client[f].state \in Parsed => client[f].cgiOut = NoFd)
  BY WriteFacts
<1>2. Through(t) /\ t.client[f] = c /\ t.cgis = cgis
  BY <1>1, ThroughSet, WriteFacts
<1>3. HandleResponse(t)
  BY DEF Writes
<1> HIDE DEF t
<1>4. IInv' /\ SidesKept
  BY <1>2, <1>3, WriteStep DEF f
<1> QED BY <1>4 DEF StepOK

\* A page request: its response is built and handed to handleResponse.
LEMMA RunPageStep ==
  ASSUME IInv, RunPage
  PROVE  StepOK
<1> DEFINE f == Here.fd
           b == client[f]
<1>1. WriteEntry /\ b.state = "PARSE_OK" /\ b.route = "page"
  BY DEF RunPage, RouterEntry, State
<1>2. PICK close \in BOOLEAN : Writes(Responds(b, close))
  BY DEF RunPage
<1> DEFINE c == Responds(b, close)
<1>3. b \in Client /\ (~stop => ClientOK(b))
  BY <1>1, WriteFacts
<1> HIDE DEF b
<1>4. /\ c \in Client /\ c.state = b.state /\ c.cgiOut = b.cgiOut
      /\ c.route = b.route /\ c.chunked = b.chunked
      /\ c.out = b.out /\ c.stage = b.stage /\ c.status
  BY <1>3, RespondingClient
<1> HIDE DEF c
<1>5. ~stop => Answering(c)
  BY <1>1, <1>3, <1>4 DEF ClientOK, Answering, NotStreaming, Idle, Parsed
<1> QED BY <1>1, <1>2, <1>4, <1>5, WritesStep DEF b, c

\* A failed launch is answered with a 500 by handleResponse.
LEMMA LaunchFailsStep ==
  ASSUME IInv, LaunchFails
  PROVE  StepOK
<1> DEFINE f == Here.fd
           b == client[f]
<1>1. WriteEntry /\ b.state = "PARSE_OK" /\ setup.launchFails
  BY DEF LaunchFails, RouterEntry, State
<1>2. PICK close \in BOOLEAN : Writes(Responds(b, close))
  BY DEF LaunchFails
<1> DEFINE c == Responds(b, close)
<1>3. b \in Client /\ (~stop => ClientOK(b))
  BY <1>1, WriteFacts
<1> HIDE DEF b
<1>4. /\ c \in Client /\ c.state = b.state /\ c.cgiOut = b.cgiOut
      /\ c.route = b.route /\ c.chunked = b.chunked
      /\ c.out = b.out /\ c.stage = b.stage /\ c.status
  BY <1>3, RespondingClient
<1> HIDE DEF c
<1>5. ~stop => Answering(c)
  BY <1>1, <1>3, <1>4 DEF ClientOK, Answering, NotStreaming, Idle, Parsed
<1> QED BY <1>1, <1>2, <1>4, <1>5, WritesStep DEF b, c

\* An error response never meets a client with a CGI.
LEMMA ReportErrorStep ==
  ASSUME IInv, ReportError
  PROVE  StepOK
<1> DEFINE f == Here.fd
           b == client[f]
<1>1. WriteEntry /\ b.state \notin CgiStates \cup {"PARSE_OK"}
  BY DEF ReportError, State
<1>2. PICK close \in BOOLEAN : Writes(Responds(b, close))
  BY DEF ReportError
<1> DEFINE c == Responds(b, close)
<1>3. b \in Client /\ (~stop => ClientOK(b) /\ b.state \notin Idle)
  BY <1>1, WriteFacts
<1> HIDE DEF b
<1>4. /\ c \in Client /\ c.state = b.state /\ c.cgiOut = b.cgiOut
      /\ c.route = b.route /\ c.chunked = b.chunked
      /\ c.out = b.out /\ c.stage = b.stage /\ c.status
  BY <1>3, RespondingClient
<1> HIDE DEF c
<1>5. b.state \in Idle \cup Parsed
  BY <1>1, <1>3 DEF Client, States
<1>6. ~stop => Answering(c)
  BY <1>1, <1>3, <1>4, <1>5 DEF ClientOK, Answering, NotStreaming
<1> QED BY <1>1, <1>2, <1>4, <1>6, WritesStep DEF b, c

\* With the CGI gone only handleResponse acts.
LEMMA FlushRestStep ==
  ASSUME IInv, FlushRest
  PROVE  StepOK
<1> DEFINE f == Here.fd
           b == client[f]
<1>1. WriteEntry /\ b.state \in CgiStates /\ b.cgiOut \notin cgis /\ HandleResponse(Tables)
  BY DEF FlushRest, State
<1>2. Through(Tables) /\ Tables.client[f] = b /\ b.cgiOut = NoFd /\ Tables.cgis = cgis
  BY <1>1, WriteFacts
<1>3. Answering(b)
  BY <1>1, <1>2 DEF Answering, CgiStates, Idle, Parsed
<1>4. IInv' /\ SidesKept
  BY <1>1, <1>2, <1>3, WriteStep
<1> QED BY <1>4 DEF StepOK

\* A client that may launch a CGI has none, and no response has begun.
LEMMA LaunchCgiStep ==
  ASSUME IInv, LaunchCgi
  PROVE  StepOK
<1> DEFINE f == Here.fd
           b == client[f]
           c == [b EXCEPT !.stale = FALSE]
           t == SetClient(Tables, f, c)
<1>1. WriteEntry /\ b.state = "PARSE_OK" /\ b.route = "cgi"
  BY DEF LaunchCgi, RouterEntry, State
<1>2. PICK p \in Fds : open[p] = "free" /\ HandleResponse(RegisterCgi(t, p, f))
  BY DEF LaunchCgi
<1>3. /\ f \in clients /\ b \in Client /\ b.cgiOut = NoFd
      /\ Through(Tables) /\ Tables.client[f] = b /\ Tables.open = open
      /\ Tables.cgis = cgis /\ f \in Fds
      /\ ~stop => ClientOK(b) /\ ~Relaunch(b)
  BY <1>1, WriteFacts DEF Parsed
<1>a. p \notin cgis
  BY <1>2, <1>3 DEF Through, Struct, Agree
<1> HIDE DEF b
<1>5. /\ c \in Client /\ c.state = b.state /\ c.cgiOut = b.cgiOut
      /\ c.chunked = b.chunked /\ c.out = b.out /\ c.stage = b.stage
      /\ c.status = b.status /\ c.wbuf = b.wbuf
  BY <1>3 DEF Client
<1> HIDE DEF c
<1>6. Through(t) /\ t.client[f] = c /\ t.open = open /\ t.cgis = cgis
  BY <1>3, <1>5, ThroughSet
<1> HIDE DEF t
<1> DEFINE u == RegisterCgi(t, p, f)
<1>7. /\ Through(u) /\ Attached(c, u.client[f], p)
      /\ u.cgis = cgis \cup {p} /\ u.cgi[p].client = f
  BY <1>2, <1>3, <1>a, <1>5, <1>6, ThroughRegister
<1>8. HandleResponse(u)
  BY <1>2
<1> HIDE DEF u
<1>9. /\ u.client[f].state = "CGI_JUST_STARTED"
      /\ ~stop => /\ ~b.status /\ ~b.wbuf /\ NotStreaming(u.client[f])
                  /\ ~u.client[f].status /\ ~u.client[f].wbuf
  <2>1. /\ u.client[f].state = "CGI_JUST_STARTED"
        /\ u.client[f].chunked = c.chunked /\ u.client[f].out = c.out
        /\ u.client[f].stage = c.stage
        /\ u.client[f].status = c.status /\ u.client[f].wbuf = c.wbuf
    BY <1>5, <1>7 DEF Client, Attached
  <2>2. ~stop => NotStreaming(b) /\ ~b.status /\ ~b.wbuf
    BY <1>1, <1>3 DEF ClientOK, Relaunch, Parsed, b
  <2> QED BY <1>5, <2>1, <2>2 DEF NotStreaming
<1>10. ~stop => Answering(u.client[f])
  BY <1>9 DEF Answering, NotStreaming, Idle, Parsed
<1>11. IInv' /\ SidesKept
  BY <1>1, <1>7, <1>8, <1>10, WriteStep DEF f
<1> QED BY <1>11 DEF StepOK

\* What appendCgiChunk makes of a Client.
LEMMA AppendClients ==
  ASSUME NEW b \in Client, NEW v \in BOOLEAN, NEW ready \in BOOLEAN,
         NEW close \in BOOLEAN
  PROVE  /\ LET c == [Append1(b, v, ready, close) EXCEPT !.stale = FALSE] IN
            /\ c \in Client /\ c.state = b.state /\ c.cgiOut = b.cgiOut
            /\ \/ c.chunked /\ c.stage = "body"
               \/ /\ c.chunked = b.chunked /\ c.stage = b.stage
                  /\ c.status = b.status /\ c.wbuf = b.wbuf
                  /\ b.stage = "headers" => c.out = b.out
         /\ LET c == AppendLast(b, close) IN
            c \in Client /\ c.state = b.state /\ c.cgiOut = b.cgiOut
<1> DEFINE s == StartChunked(b, close)
<1>1. s \in Client /\ s.state = b.state /\ s.cgiOut = b.cgiOut
      /\ s.chunked /\ s.stage = "body"
  <2> DEFINE r == Responds(b, close)
  <2>1. r \in Client /\ r.state = b.state /\ r.cgiOut = b.cgiOut
    BY RespondingClient
  <2>2. s = [r EXCEPT !.chunked = TRUE, !.out = TRUE, !.stage = "body"]
    BY DEF StartChunked
  <2> HIDE DEF r, s
  <2> QED BY <2>1, <2>2 DEF Client
<1> HIDE DEF s
<1> DEFINE a == Append1(b, v, ready, close)
<1>2. /\ a \in Client /\ a.state = b.state /\ a.cgiOut = b.cgiOut
      /\ \/ a.chunked /\ a.stage = "body"
         \/ /\ a.chunked = b.chunked /\ a.stage = b.stage
            /\ a.status = b.status /\ a.wbuf = b.wbuf
            /\ b.stage = "headers" => a.out = b.out
  <2>1. CASE b.stage = "headers"
    BY <1>1, <2>1 DEF Append1, s
  <2>2. CASE b.stage # "headers"
    <3>1. a = [b EXCEPT !.out = @ \/ v]
      BY <2>2 DEF Append1
    <3> HIDE DEF a
    <3> QED BY <2>2, <3>1 DEF Client
  <2> QED BY <2>1, <2>2
<1> HIDE DEF a
<1>3. LET c == [a EXCEPT !.stale = FALSE] IN
      /\ c \in Client /\ c.state = b.state /\ c.cgiOut = b.cgiOut
      /\ \/ c.chunked /\ c.stage = "body"
         \/ /\ c.chunked = b.chunked /\ c.stage = b.stage
            /\ c.status = b.status /\ c.wbuf = b.wbuf
            /\ b.stage = "headers" => c.out = b.out
  BY <1>2 DEF Client
<1>4. LET c == AppendLast(b, close) IN
      c \in Client /\ c.state = b.state /\ c.cgiOut = b.cgiOut
  <2> DEFINE d == IF b.stage = "headers" THEN s ELSE b
             c == [d EXCEPT !.out = @ \/ b.stage # "finished", !.stage = "finished"]
  <2>1. d \in Client /\ d.state = b.state /\ d.cgiOut = b.cgiOut
    BY <1>1
  <2>2. AppendLast(b, close) = c
    BY DEF AppendLast, s
  <2> HIDE DEF d
  <2>3. c \in Client /\ c.state = d.state /\ c.cgiOut = d.cgiOut
    BY <2>1 DEF Client
  <2> QED BY <2>1, <2>2, <2>3
<1> QED BY <1>3, <1>4 DEF a

\* cgi->appendOutputToResponse also empties the Cgi's buffer.
LEMMA ThroughBuffer ==
  ASSUME NEW t, Through(t), NEW f \in clients, f = Here.fd, NEW p \in t.cgis, NEW v \in BOOLEAN
  PROVE  LET u == [t EXCEPT !.cgi[p].buffer = v] IN
         Through(u) /\ u.client = t.client /\ u.cgis = t.cgis
<1> DEFINE u == [t EXCEPT !.cgi[p].buffer = v]
           q == [t.cgi[p] EXCEPT !.buffer = v]
<1>1. Struct(t) /\ t \in TablesType
  BY DEF Through, Struct
<1>2. t.cgi \in [Fds -> Cgi] /\ p \in Fds /\ t.cgis \subseteq Fds
  BY <1>1 DEF TablesType
<1>3. t.cgi[p] \in Cgi
  BY <1>2
<1>4. q \in Cgi /\ q.client = t.cgi[p].client /\ q.exit = t.cgi[p].exit
  BY <1>3 DEF Cgi
<1>5. u = [t EXCEPT !.cgi = [t.cgi EXCEPT ![p] = q]]
  OBVIOUS
<1> HIDE DEF u, q
<1>6. [t.cgi EXCEPT ![p] = q] \in [Fds -> Cgi]
  BY <1>2, <1>4
<1>7. /\ u \in TablesType /\ u.socks = t.socks /\ u.clients = t.clients
      /\ u.client = t.client /\ u.cgis = t.cgis /\ u.open = t.open
      /\ u.bad = t.bad /\ u.cgi = [t.cgi EXCEPT ![p] = q]
      /\ u.proc = t.proc
  BY <1>1, <1>5, <1>6 DEF TablesType
<1>8. \A g \in t.cgis : u.cgi[g].client = t.cgi[g].client /\ u.cgi[g].exit = t.cgi[g].exit
  BY <1>2, <1>4, <1>7
<1>9. Agree(u)
  BY <1>1, <1>7 DEF Struct, Agree
<1>10. Linked(u)
  BY <1>1, <1>7, <1>8 DEF Struct, Linked
<1>11. Ordered(u)
  BY <1>1, <1>7, <1>8 DEF Struct, Ordered
<1>12. Struct(u)
  BY <1>1, <1>7, <1>9, <1>10, <1>11 DEF Struct
<1>13. Through(u)
  <2>1. ~stop => Drained(u)
    BY <1>7, <1>8 DEF Through, Drained
  <2> QED BY <1>7, <1>12, <2>1 DEF Through
<1> QED BY <1>7, <1>13 DEF u

\* Streaming a CGI's output keeps the client and the CGI linked.
LEMMA RelayCgiStep ==
  ASSUME IInv, RelayCgi
  PROVE  StepOK
<1> DEFINE f == Here.fd
           b == client[f]
           v == cgi[Out].buffer
<1>1. WriteEntry /\ b.state = "CGI_JUST_STARTED" /\ b.cgiOut \in cgis
  BY DEF RelayCgi, CgiEntry, State
<1>2. PICK ready \in BOOLEAN, close \in BOOLEAN :
        LET c == [Append1(b, v, ready, close) EXCEPT !.stale = FALSE]
            t == SetClient(Tables, f, c)
        IN HandleResponse([t EXCEPT !.cgi[Out].buffer = @ /\ c.stage = "headers"])
  BY DEF RelayCgi
<1> DEFINE c == [Append1(b, v, ready, close) EXCEPT !.stale = FALSE]
           t == SetClient(Tables, f, c)
<1>3. /\ f \in clients /\ f \in Fds /\ b \in Client /\ b.cgiOut # NoFd
      /\ Through(Tables) /\ Tables.client[f] = b /\ Tables.cgis = cgis
      /\ Tables.cgi = cgi
      /\ ~stop => ClientOK(b)
  BY <1>1, WriteFacts
<1>4. v \in BOOLEAN
  <2>1. Struct(Tables)
    BY <1>3 DEF Through
  <2>2. cgi \in [Fds -> Cgi] /\ cgis \subseteq Fds
    BY <2>1, TablesFacts
  <2>3. cgi[Out] \in Cgi
    BY <1>1, <2>2 DEF Out
  <2> QED BY <2>3 DEF Cgi
<1> HIDE DEF b, v
<1>5. /\ c \in Client /\ c.state = b.state /\ c.cgiOut = b.cgiOut
      /\ \/ c.chunked /\ c.stage = "body"
         \/ /\ c.chunked = b.chunked /\ c.stage = b.stage
            /\ c.status = b.status /\ c.wbuf = b.wbuf
            /\ b.stage = "headers" => c.out = b.out
  BY <1>3, <1>4, AppendClients
<1> HIDE DEF c
<1>6. /\ Through(t) /\ t.client[f] = c /\ t.cgis = cgis /\ t.cgi = cgi
  <2>1. c.state \notin Parsed
    BY <1>1, <1>5 DEF Parsed, b
  <2> QED BY <1>3, <1>5, <2>1, ThroughSet DEF b
<1> HIDE DEF t
<1> DEFINE w == v /\ c.stage = "headers"
           u == [t EXCEPT !.cgi[Out].buffer = w]
<1>7. HandleResponse(u)
  <2>1. [t EXCEPT !.cgi[Out].buffer = @ /\ c.stage = "headers"] = u
    BY <1>6 DEF v
  <2> QED BY <1>2, <2>1 DEF c, t
<1>8. Through(u) /\ u.client[f] = c /\ u.cgis = cgis
  <2>1. w \in BOOLEAN /\ Out \in t.cgis
    BY <1>1, <1>6 DEF Out, b
  <2> HIDE DEF w
  <2> QED BY <1>3, <1>6, <2>1, ThroughBuffer
<1> HIDE DEF u
<1>9. ~stop => Answering(c)
  <2>1. ~stop => IF b.chunked THEN b.stage = "body"
                 ELSE NotStreaming(b) /\ ~b.status /\ ~b.wbuf
    BY <1>3 DEF ClientOK
  <2> QED BY <1>1, <1>3, <1>5, <2>1 DEF Answering, NotStreaming, Idle, Parsed, b
<1>10. IInv' /\ SidesKept
  BY <1>1, <1>7, <1>8, <1>9, WriteStep DEF f
<1> QED BY <1>10 DEF StepOK

\* CGI_COMPLETED: the CGI is cleaned up before the rest is sent.
LEMMA CompletedStep ==
  ASSUME IInv, CgiEntry("CGI_COMPLETED"), NEW c \in Client,
         c.state = client[Here.fd].state, c.cgiOut = client[Here.fd].cgiOut,
         HandleResponse(CleanupCgi(SetClient(Tables, Here.fd, c), Out))
  PROVE  StepOK
<1> DEFINE f == Here.fd
           t == SetClient(Tables, f, c)
           u == CleanupCgi(t, Out)
<1>1. WriteEntry /\ client[f].state = "CGI_COMPLETED" /\ client[f].cgiOut \in cgis
      /\ Out = client[f].cgiOut
  BY DEF CgiEntry, State, Out
<1>2. /\ f \in clients /\ Through(Tables) /\ Tables.client[f] = client[f]
      /\ Tables.cgis = cgis
  BY <1>1, WriteFacts
<1>3. Through(t) /\ t.client[f] = c /\ t.cgis = cgis
  BY <1>1, <1>2, ThroughSet DEF Parsed
<1> HIDE DEF t
<1>4. Through(u) /\ Detached(c, u.client[f]) /\ u.cgis \subseteq cgis
  BY <1>1, <1>2, <1>3, ThroughCleanup
<1>5. HandleResponse(u)
  BY DEF t
<1> HIDE DEF u
<1>6. u.client[f].state = "CGI_COMPLETED" /\ u.client[f].cgiOut = NoFd
  BY <1>1, <1>4 DEF Detached, Client
<1>7. Answering(u.client[f])
  BY <1>6 DEF Answering, Idle, Parsed
<1>8. IInv' /\ SidesKept
  BY <1>1, <1>4, <1>5, <1>7, WriteStep DEF f
<1> QED BY <1>8 DEF StepOK

\* The end of a CGI that exited with status 0 is a CompletedStep.
LEMMA FinishCgiStep ==
  ASSUME IInv, FinishCgi
  PROVE  StepOK
<1>1. CgiEntry("CGI_COMPLETED") /\ WriteEntry
  BY DEF FinishCgi, CgiEntry
<1>2. PICK close \in BOOLEAN :
        HandleResponse(CleanupCgi(
          SetClient(Tables, Here.fd, AppendLast(client[Here.fd], close)), Out))
  BY DEF FinishCgi
<1> DEFINE b == client[Here.fd]
           c == AppendLast(b, close)
<1>3. b \in Client
  BY <1>1, WriteFacts
<1> HIDE DEF b
<1>4. c \in Client /\ c.state = b.state /\ c.cgiOut = b.cgiOut
  BY <1>3, AppendClients
<1> HIDE DEF c
<1> QED BY <1>1, <1>2, <1>4, CompletedStep DEF b, c

\* So is the end of any other CGI.
LEMMA FailCgiStep ==
  ASSUME IInv, FailCgi
  PROVE  StepOK
<1>1. CgiEntry("CGI_COMPLETED") /\ WriteEntry
  BY DEF FailCgi, CgiEntry
<1>2. PICK close \in BOOLEAN :
        HandleResponse(CleanupCgi(
          SetClient(Tables, Here.fd, Responds(client[Here.fd], close)), Out))
  BY DEF FailCgi
<1> DEFINE b == client[Here.fd]
           c == Responds(b, close)
<1>3. b \in Client
  BY <1>1, WriteFacts
<1> HIDE DEF b
<1>4. c \in Client /\ c.state = b.state /\ c.cgiOut = b.cgiOut
  BY <1>3, RespondingClient
<1> HIDE DEF c
<1> QED BY <1>1, <1>2, <1>4, CompletedStep DEF b, c

-----------------------------------------------------------------------------
(* The steps that close a connection from outside processWrite *)

\* removeDeadConnections closes the connection of the entry.
LEMMA DropDeadStep ==
  ASSUME IInv, DropDead
  PROVE  StepOK
<1>1. Core /\ Scanning /\ Struct(Tables) /\ Dead(Here)
  BY DEF IInv, Core, DropDead, Scanning
<1>2. idx \in Entries
  BY <1>1 DEF Core, Scanning, Entries
<1>3. Here.fd \in clients
  BY <1>1, <1>2, TablesFacts DEF Dead, Here
<1>4. Through(Tables) /\ Tables.cgis = cgis
  BY <1>1, <1>3, ThroughTables DEF Tables
<1>5. IInv' /\ SidesKept
  BY <1>1, <1>3, <1>4, ClosedStep DEF DropDead
<1> QED BY <1>5 DEF StepOK

\* closeIdleConnection does too.
LEMMA CloseIdleStep ==
  ASSUME IInv, CloseIdle
  PROVE  StepOK
<1>1. Core /\ Scanning /\ Here.fd \in clients
  BY DEF IInv, CloseIdle
<1>2. Through(Tables) /\ Tables.cgis = cgis
  BY <1>1, ThroughTables DEF Tables
<1>3. IInv' /\ SidesKept
  BY <1>1, <1>2, ClosedStep DEF CloseIdle
<1> QED BY <1>3 DEF StepOK
==============================================================================
