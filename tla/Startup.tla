------------------------------- MODULE Startup -------------------------------
(* main(): read the configuration, start one TcpServer for every port of every
   server, hand their listening sockets to the event loop, and release everything
   when the loop ends or a server cannot be started.  The loop itself is the module
   EventLoop; here it runs until it stops. *)
EXTENDS Configuration

CONSTANT Descriptors       \* the descriptors the kernel may give out

ASSUME DescriptorsAssumption == Descriptors \subseteq Nat

Free == 0                  \* a descriptor that is not open
ASSUME PortsAssumption == \A l \in Lines : l.word = "port" => l.arg # Free

VARIABLES
  phase,        \* where main() is
  i, j,         \* the loop variables of initialize_all_servers
  servers,      \* the vector of TcpServers
  allSockets,   \* the poll array handed to EventProcessor
  sockets,      \* the kernel: the port each descriptor listens on, or Free
  wild          \* an element beyond the end of the vector was deleted

startVars == <<phase, i, j, servers, allSockets, sockets, wild>>
vars == <<file, mode, opened, blockOpen, server, place, configs,
          phase, i, j, servers, allSockets, sockets, wild>>

Init ==
  /\ ConfigInit
  /\ phase = "reading"
  /\ i = 1 /\ j = 1
  /\ servers = <<>> /\ allSockets = <<>>
  /\ sockets = [d \in Descriptors |-> Free]
  /\ wild = FALSE

(* setConfigs; a file that is refused ends the program. *)
Read ==
  /\ phase = "reading" /\ ConfigNext
  /\ phase' = IF mode' = "read" THEN "starting"
              ELSE IF mode' = "refused" THEN "exited" ELSE phase
  /\ UNCHANGED <<i, j, servers, allSockets, sockets, wild>>

Starting == phase = "starting" /\ i <= Len(configs) /\ j <= Len(configs[i].port)
Port == configs[i].port[j]

(* The lowest free descriptor is the next one given out. *)
Unused == {d \in Descriptors : sockets[d] = Free}
Lowest(d) == d \in Unused /\ \A e \in Unused : d <= e

(* startServer succeeds.  Two sockets cannot listen on the same address. *)
StartServer ==
  /\ Starting
  /\ \A d \in Descriptors : sockets[d] # Port
  /\ \E d \in Descriptors :
       /\ Lowest(d)
       /\ sockets' = [sockets EXCEPT ![d] = Port]
       /\ servers' = Append(servers, [config |-> i, port |-> Port, fd |-> d])
  /\ j' = j + 1
  /\ UNCHANGED <<phase, i, allSockets, wild>>
  /\ UNCHANGED configVars

(* The inner loop of initialize_all_servers is through with a block. *)
NextBlock ==
  /\ phase = "starting" /\ i <= Len(configs) /\ j > Len(configs[i].port)
  /\ i' = i + 1 /\ j' = 1
  /\ UNCHANGED <<phase, servers, allSockets, sockets, wild>>
  /\ UNCHANGED configVars

(* ~TcpServer closes the socket, which may be closed already. *)
Closed(fds) == [d \in Descriptors |-> IF d \in fds THEN Free ELSE sockets[d]]
FdsOf(s) == {s[k].fd : k \in DOMAIN s}

(* The servers that 'while (i > 0) delete servers[--i]' deletes: as many as there are
   server blocks before this one, however many ports they have. *)
Deleted == SubSeq(servers, 1, IF i - 1 < Len(servers) THEN i - 1 ELSE Len(servers))

(* (mutant) Startup goes on with the next port. *)
StartFailsGoesOn ==
  /\ Starting
  /\ j' = j + 1
  /\ UNCHANGED <<phase, i, servers, allSockets, sockets, wild>>
  /\ UNCHANGED configVars

(* startServer fails at socket, inet_pton, bind or listen, because the port is taken
   or for a reason of the kernel's; it has closed its own socket when the cleanup
   begins.  The poll array stays empty and run() returns at once. *)
StartFails ==
  /\ Starting
  /\ wild' = IF i - 1 > Len(servers) THEN TRUE ELSE wild
  /\ sockets' = Closed(FdsOf(Deleted))
  /\ servers' = <<>>
  /\ phase' = "serving"
  /\ UNCHANGED <<i, j, allSockets>>
  /\ UNCHANGED configVars

(* setsockopt fails: exit(). *)
StartAborts ==
  /\ Starting
  /\ phase' = "exited"
  /\ UNCHANGED <<i, j, servers, allSockets, sockets, wild>>
  /\ UNCHANGED configVars

(* All are started: EventProcessor gets their sockets and run() begins. *)
StartLoop ==
  /\ phase = "starting" /\ i > Len(configs)
  /\ allSockets' = [k \in DOMAIN servers |-> servers[k].fd]
  /\ phase' = "serving"
  /\ UNCHANGED <<i, j, servers, sockets, wild>>
  /\ UNCHANGED configVars

(* run() returns, at once if the array is empty, else after SIGINT or an exception,
   when shutDownProcessor closes what is in the array; then free_servers_memory
   closes the sockets of the servers again. *)
RunReturns ==
  /\ phase = "serving"
  /\ phase' = "exited"
  /\ sockets' = Closed({allSockets[k] : k \in DOMAIN allSockets} \cup FdsOf(servers))
  /\ servers' = <<>> /\ allSockets' = <<>>
  /\ UNCHANGED <<i, j, wild>>
  /\ UNCHANGED configVars

Exited == phase = "exited" /\ UNCHANGED vars

Next ==
  \/ Read
  \/ StartServer \/ NextBlock \/ StartFails \/ StartAborts
  \/ StartLoop \/ RunReturns \/ Exited

Spec == Init /\ [][Next]_vars

-----------------------------------------------------------------------------
ArgsIn(word) == {l.arg : l \in {x \in Lines : x.word = word}} \ {Bad}
Roots == {"", "./", "/var/www"} \cup ArgsIn("root")
Methods == {"GET"} \cup ArgsIn("methods")

PlaceType == [kind : Places, limit : Nat, buffer : Nat, root : Roots, methods : Seq(Methods)]
StoredPlace == {p \in PlaceType : p.limit > 0 /\ p.buffer > 0 /\ p.methods # <<>>}

ServerType == [port : Seq(Nat \ {Free}), limit : Nat, buffer : Nat, root : Roots,
               directories : Seq(StoredPlace), files : Seq(StoredPlace),
               locations : Seq(StoredPlace)]
Started == [config : Nat, port : Nat \ {Free}, fd : Descriptors]
StoredServer == {s \in ServerType : s.limit > 0 /\ s.buffer > 0 /\ s.port # <<>>}

(* The variables have their types; a location that is stored has a method and positive
   sizes, a server that is stored listens on at least one port, and the loop of
   initialize_all_servers stays on ports that exist. *)
TypeOK ==
  /\ file \in Seq(Lines) /\ Len(file) <= MaxLines
  /\ mode \in Modes
  /\ opened \in BOOLEAN /\ blockOpen \in BOOLEAN
  /\ server \in ServerType /\ place \in PlaceType
  /\ configs \in Seq(StoredServer)
  /\ phase \in {"reading", "starting", "serving", "exited"}
  /\ i \in 1 .. Len(configs) + 1
  /\ j \in Nat \ {0}
  /\ i <= Len(configs) => j <= Len(configs[i].port) + 1
  /\ servers \in Seq(Started)
  /\ allSockets \in Seq(Descriptors)
  /\ sockets \in [Descriptors -> Nat]
  /\ wild \in BOOLEAN

(* Every port of every server block, in the order of the file. *)
Asked ==
  FlattenSeq([c \in DOMAIN configs |->
    [k \in DOMAIN configs[c].port |-> [config |-> c, port |-> configs[c].port[k]]]])

(* Whenever the loop has something to serve, it serves exactly what the file asks for:
   the k-th entry of the poll array is the open socket of the k-th server, which
   acceptConnections relies on when it indexes _servers with it, no port is missing,
   and no other socket listens, be it one of an attempt that failed. *)
ListensOnAll ==
  phase = "serving" =>
    \/ servers = <<>> /\ allSockets = <<>>
    \/ /\ [k \in DOMAIN servers |->
            [config |-> servers[k].config, port |-> servers[k].port]] = Asked
       /\ allSockets = [k \in DOMAIN servers |-> servers[k].fd]
       /\ Cardinality(FdsOf(servers)) = Len(servers)
       /\ \A d \in Descriptors :
            sockets[d] # Free <=>
              \E k \in DOMAIN servers : servers[k].fd = d /\ servers[k].port = sockets[d]

(* The cleanup of initialize_all_servers counts server blocks and deletes elements of a
   vector that has one element per port: it stays within the vector, because
   setDefaultServer leaves no block without a port. *)
CleanupInRange == ~wild
=============================================================================
