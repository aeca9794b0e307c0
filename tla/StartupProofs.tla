---------------------------- MODULE StartupProofs ----------------------------
(* Proofs about Startup, for every set of lines, length of file and set of
   descriptors. *)
EXTENDS Startup, SequenceLemmas, FiniteSetTheorems, TLAPS

(* The reader's variables have their types. *)
ReaderType ==
  /\ mode \in Modes
  /\ opened \in BOOLEAN /\ blockOpen \in BOOLEAN
  /\ server \in ServerType /\ place \in PlaceType
  /\ configs \in Seq(StoredServer)

(* Lists of one element, and lists with an element added. *)
LEMMA Singleton ==
  ASSUME NEW S, NEW e \in S
  PROVE  <<e>> \in Seq(S) /\ <<e>> # <<>>
<1>1. <<e>> \in Seq(S) /\ Len(<<e>>) = 1
  OBVIOUS
<1>2. Len(<<>>) = 0
  OBVIOUS
<1>3. QED
  BY <1>1, <1>2

LEMMA Added ==
  ASSUME NEW S, NEW q \in Seq(S), NEW e \in S
  PROVE  Append(q, e) \in Seq(S) /\ Len(Append(q, e)) = Len(q) + 1
OBVIOUS

(* What setDefaultLocation and setDefaultFile make of a block can be stored. *)
LEMMA DefaultPlaceTyped ==
  ASSUME NEW p \in PlaceType, NEW s \in ServerType
  PROVE  SetDefaultPlace(p, s) \in StoredPlace
<1> DEFINE limit == Inherited(p.limit, s.limit, DefaultLimit)
           buffer == Inherited(p.buffer, s.buffer, DefaultBuffer)
           methods == OrElse(p.methods, <<>>, <<"GET">>)
           root == IF p.kind = "file" THEN p.root
                   ELSE OrElse(p.root, "", OrElse(s.root, "", "/var/www"))
<1>1. limit \in Nat \ {0} /\ buffer \in Nat \ {0}
  BY DefaultsAssumption DEF PlaceType, ServerType, OrElse, Inherited
<1>2. methods \in Seq(Methods) /\ methods # <<>>
  <2>1. "GET" \in Methods /\ p.methods \in Seq(Methods)
    BY DEF PlaceType, Methods
  <2>2. <<"GET">> \in Seq(Methods) /\ <<"GET">> # <<>>
    BY <2>1, Singleton
  <2>3. QED
    BY <2>1, <2>2 DEF OrElse
<1>3. root \in Roots
  BY DEF PlaceType, ServerType, Roots, OrElse
<1>4. SetDefaultPlace(p, s) = [kind |-> p.kind, limit |-> limit, buffer |-> buffer,
                               root |-> root, methods |-> methods]
  BY DEF SetDefaultPlace
<1> HIDE DEF limit, buffer, methods, root
<1>5. QED
  BY <1>1, <1>2, <1>3, <1>4 DEF StoredPlace, PlaceType

(* What setDefaultServer makes of a server listens on at least one port. *)
LEMMA DefaultServerTyped ==
  ASSUME NEW s \in ServerType
  PROVE  SetDefaultServer(s) \in StoredServer
<1> DEFINE port == PortsOrDefault(s.port)
           limit == OrElse(s.limit, 0, DefaultLimit)
           buffer == OrElse(s.buffer, 0, DefaultBuffer)
<1>1. port \in Seq(Nat \ {Free}) /\ port # <<>>
  <2>1. DefaultPort \in Nat \ {Free} /\ s.port \in Seq(Nat \ {Free})
    BY DefaultsAssumption DEF ServerType, Free
  <2>2. <<DefaultPort>> \in Seq(Nat \ {Free}) /\ <<DefaultPort>> # <<>>
    BY <2>1, Singleton
  <2>3. QED
    BY <2>1, <2>2 DEF OrElse, PortsOrDefault
<1>2. limit \in Nat \ {0} /\ buffer \in Nat \ {0}
  BY DefaultsAssumption DEF ServerType, OrElse
<1>3. SetDefaultServer(s) = [port |-> port, limit |-> limit, buffer |-> buffer,
                             root |-> s.root, directories |-> s.directories,
                             files |-> s.files, locations |-> s.locations]
  BY DEF SetDefaultServer
<1> HIDE DEF port, limit, buffer
<1>4. QED
  BY <1>1, <1>2, <1>3 DEF StoredServer, ServerType

(* setServerLocations keeps what is stored of the servers. *)
LEMMA LocationsTyped ==
  ASSUME NEW q \in Seq(StoredServer)
  PROVE  SetServerLocations(q) \in Seq(StoredServer)
<1> DEFINE With(s) == [s EXCEPT !.locations = s.directories \o s.files]
<1>1. ASSUME NEW c \in 1 .. Len(q) PROVE With(q[c]) \in StoredServer
  <2>1. q[c] \in StoredServer
    OBVIOUS
  <2>2. /\ q[c].directories \in Seq(StoredPlace) /\ q[c].files \in Seq(StoredPlace)
    BY <2>1 DEF StoredServer, ServerType
  <2>3. q[c].directories \o q[c].files \in Seq(StoredPlace)
    BY <2>2
  <2>4. QED
    BY <2>1, <2>3 DEF StoredServer, ServerType
<1>2. SetServerLocations(q) = [c \in 1 .. Len(q) |-> With(q[c])]
  BY DEF SetServerLocations
<1> HIDE DEF With
<1>3. QED
  BY <1>1, <1>2

(* A fresh server and a fresh block are typed. *)
LEMMA FreshTyped ==
  /\ FreshServer \in ServerType
  /\ \A kind \in Places : FreshPlace(kind) \in PlaceType
BY DEF FreshServer, FreshPlace, ServerType, PlaceType, Roots

(* Finishing a server and finishing a block keep the types. *)
LEMMA FinishTyped ==
  ASSUME ReaderType, FinishServer \/ FinishPlace
  PROVE  ReaderType'
<1>1. CASE FinishServer
  <2>1. SetDefaultServer(server) \in StoredServer
    BY DefaultServerTyped DEF ReaderType
  <2>2. configs' \in Seq(StoredServer)
    BY <1>1, <2>1, Added DEF FinishServer, ReaderType
  <2>3. QED
    BY <1>1, <2>2 DEF FinishServer, ReaderType, Modes
<1>2. CASE FinishPlace
  <2> DEFINE p == SetDefaultPlace(place, server)
  <2>1. p \in StoredPlace
    BY DefaultPlaceTyped DEF ReaderType
  <2>2. server' \in ServerType
    <3> HIDE DEF p
    <3>1. /\ Append(server.directories, p) \in Seq(StoredPlace)
          /\ Append(server.files, p) \in Seq(StoredPlace)
      BY <2>1 DEF ReaderType, ServerType
    <3>2. server' = IF p.kind = "location"
                    THEN [server EXCEPT !.directories = Append(@, p)]
                    ELSE [server EXCEPT !.files = Append(@, p)]
      BY <1>2 DEF FinishPlace, p
    <3>3. QED
      BY <3>1, <3>2 DEF ReaderType, ServerType
  <2>3. QED
    BY <1>2, <2>2 DEF FinishPlace, ReaderType, Modes
<1>3. QED
  BY <1>1, <1>2

(* A directive that overwrites a field or adds to a list keeps the types. *)
LEMMA SettingTyped ==
  ASSUME NEW l \in Lines, l.arg # Bad
  PROVE  /\ l.word \in {"limit", "buffer"} => l.arg \in Nat
         /\ l.word = "port" => l.arg \in Nat \ {Free}
         /\ l.word = "root" => l.arg \in Roots
         /\ l.word = "methods" => l.arg \in Methods
BY LinesAssumption, PortsAssumption DEF Roots, Methods, ArgsIn

(* A directive of a server keeps the types. *)
LEMMA ServerDirectiveTyped ==
  ASSUME ReaderType, NEW l \in Lines, ServerDirective(l)
  PROVE  /\ mode' \in Modes /\ blockOpen' \in BOOLEAN
         /\ server' \in ServerType /\ place' \in PlaceType
<1>1. CASE l.word \in Settings \cup {"port"} /\ l.arg # Bad
  <2>1. UNCHANGED <<mode, blockOpen, place>>
    BY <1>1 DEF ServerDirective, Settings, Places
  <2>2. server' = IF l.word = "port" THEN [server EXCEPT !.port = Append(@, l.arg)]
                                     ELSE [server EXCEPT ![l.word] = l.arg]
    BY <1>1 DEF ServerDirective, Settings, Places
  <2>3. server' \in ServerType
    <3>1. CASE l.word = "port"
      <4>1. server.port \in Seq(Nat \ {Free}) /\ l.arg \in Nat \ {Free}
        BY <1>1, <3>1, SettingTyped DEF ReaderType, ServerType
      <4>2. Append(server.port, l.arg) \in Seq(Nat \ {Free})
        BY <4>1, Added
      <4>3. server' = [server EXCEPT !.port = Append(@, l.arg)]
        BY <2>2, <3>1
      <4>4. QED
        BY <4>2, <4>3 DEF ReaderType, ServerType
    <3>2. CASE l.word = "limit"
      BY <1>1, <2>2, <3>2, SettingTyped DEF ReaderType, ServerType
    <3>3. CASE l.word = "buffer"
      BY <1>1, <2>2, <3>3, SettingTyped DEF ReaderType, ServerType
    <3>4. CASE l.word = "root"
      BY <1>1, <2>2, <3>4, SettingTyped DEF ReaderType, ServerType
    <3>5. QED
      BY <1>1, <3>1, <3>2, <3>3, <3>4 DEF Settings
  <2>4. QED
    BY <2>1, <2>3 DEF ReaderType
<1>2. CASE l.word \in Places /\ l.arg # Bad
  BY <1>2, FreshTyped DEF ServerDirective, ReaderType, Settings, Places, Modes
<1>3. CASE l.word \in {"{", "server"}
  BY <1>3 DEF ServerDirective, ReaderType, Settings, Places
<1>4. QED
  BY <1>1, <1>2, <1>3 DEF ServerDirective

(* A directive of a location keeps the types. *)
LEMMA PlaceDirectiveTyped ==
  ASSUME ReaderType, NEW l \in Lines, ~PlaceRefuses(l), PlaceDirective(l)
  PROVE  ReaderType'
<1>1. place' \in PlaceType
  <2>1. l.arg # Bad
    BY DEF PlaceRefuses
  <2>2. CASE l.word = "limit"
    BY <2>1, <2>2, SettingTyped DEF PlaceDirective, ReaderType, PlaceType, Settings
  <2>3. CASE l.word = "buffer"
    BY <2>1, <2>3, SettingTyped DEF PlaceDirective, ReaderType, PlaceType, Settings
  <2>4. CASE l.word = "root"
    BY <2>1, <2>4, SettingTyped DEF PlaceDirective, ReaderType, PlaceType, Settings
  <2>5. CASE l.word = "methods"
    <3>1. place.methods \in Seq(Methods) /\ l.arg \in Methods
      BY <2>1, <2>5, SettingTyped DEF ReaderType, PlaceType
    <3>2. Append(place.methods, l.arg) \in Seq(Methods)
      BY <3>1, Added
    <3>3. place' = [place EXCEPT !.methods = Append(@, l.arg)]
      BY <2>5 DEF PlaceDirective, Settings
    <3>4. QED
      BY <3>2, <3>3 DEF ReaderType, PlaceType
  <2>6. CASE l.word \notin Settings \cup {"methods"}
    BY <2>6 DEF PlaceDirective, ReaderType
  <2>7. QED
    BY <2>2, <2>3, <2>4, <2>5, <2>6 DEF Settings
<1>2. QED
  BY <1>1 DEF PlaceDirective, ReaderType

(* Whatever line is read, and wherever the file ends, the types are kept. *)
LEMMA ReaderTyped ==
  ASSUME ReaderType, ConfigNext
  PROVE  ReaderType'
<1>1. ASSUME Refuse PROVE ReaderType'
  BY <1>1 DEF Refuse, ReaderType, Modes
<1>2. ASSUME NEW l \in Lines, ReadTop(l) PROVE ReaderType'
  <2>1. CASE /\ OpensServer(l) /\ mode' = "server"
             /\ opened' = ~l.note /\ server' = FreshServer
             /\ UNCHANGED <<blockOpen, place, configs>>
    BY <2>1, FreshTyped, LinesAssumption DEF ReaderType, Modes
  <2>2. CASE UNCHANGED <<mode, opened, blockOpen, server, place, configs>>
    BY <2>2 DEF ReaderType
  <2>3. QED
    BY <1>1, <1>2, <2>1, <2>2 DEF ReadTop
<1>3. ASSUME NEW l \in Lines, ReadServer(l) PROVE ReaderType'
  <2>1. CASE Refuse
    BY <1>1, <2>1
  <2>2. CASE FinishServer
    BY <2>2, FinishTyped
  <2>3. CASE /\ opened' = ServerOpenAfter(l)
             /\ IF opened' THEN ServerDirective(l)
                ELSE UNCHANGED <<mode, blockOpen, server, place>>
             /\ UNCHANGED configs
    <3>1. opened' \in BOOLEAN
      BY <2>3 DEF ServerOpenAfter, ReaderType
    <3>2. CASE opened'
      BY <2>3, <3>1, <3>2, ServerDirectiveTyped DEF ReaderType
    <3>3. CASE ~opened'
      BY <2>3, <3>1, <3>3 DEF ReaderType
    <3>4. QED
      BY <3>1, <3>2, <3>3
  <2>4. QED
    BY <1>3, <2>1, <2>2, <2>3 DEF ReadServer
<1>4. ASSUME NEW l \in Lines, ReadPlace(l) PROVE ReaderType'
  <2>1. CASE Refuse
    BY <1>1, <2>1
  <2>2. CASE FinishPlace
    BY <2>2, FinishTyped
  <2>3. CASE ~PlaceRefuses(l) /\ PlaceDirective(l)
    BY <2>3, PlaceDirectiveTyped
  <2>4. QED
    BY <1>4, <2>1, <2>2, <2>3 DEF ReadPlace
<1>5. ASSUME EndOfFile PROVE ReaderType'
  <2>1. CASE Refuse
    BY <1>1, <2>1
  <2>2. CASE /\ mode' = "read"
             /\ configs' = SetServerLocations(configs)
             /\ UNCHANGED <<opened, blockOpen, server, place>>
    BY <2>2, LocationsTyped DEF ReaderType, Modes
  <2>3. CASE /\ mode' = "read"
             /\ configs' = SetServerLocations(Append(configs, SetDefaultServer(server)))
             /\ UNCHANGED <<opened, blockOpen, server, place>>
    <3>1. Append(configs, SetDefaultServer(server)) \in Seq(StoredServer)
      BY DefaultServerTyped, Added DEF ReaderType
    <3>2. configs' \in Seq(StoredServer)
      BY <2>3, <3>1, LocationsTyped
    <3>3. QED
      BY <2>3, <3>2 DEF ReaderType, Modes
  <2>4. QED
    BY <1>5, <2>1, <2>2, <2>3 DEF EndOfFile
<1>6. QED
  BY <1>2, <1>3, <1>4, <1>5 DEF ConfigNext, ReadLine

-----------------------------------------------------------------------------
(* The inductive invariant: every block passed left at least one server in the vector,
   and so did every port of the present block that was passed. *)
Progress ==
  /\ phase = "reading" => i = 1 /\ j = 1
  /\ phase = "starting" => (i - 1) + (j - 1) <= Len(servers)

StartInv == TypeOK /\ Progress /\ CleanupInRange

(* The invariant holds when the program starts. *)
LEMMA InitInv == Init => StartInv
<1> SUFFICES ASSUME Init PROVE StartInv
  OBVIOUS
<1> USE DEF Init, ConfigInit
<1>1. server \in ServerType /\ place \in PlaceType
  BY FreshTyped DEF Places
<1>2. file \in Seq(Lines) /\ Len(file) <= MaxLines
  BY DefaultsAssumption
<1>3. configs \in Seq(StoredServer) /\ Len(configs) = 0 /\ allSockets \in Seq(Descriptors)
  OBVIOUS
<1>4. servers \in Seq(Started)
  OBVIOUS
<1>5. sockets \in [Descriptors -> Nat]
  BY DEF Free
<1>6. /\ i \in 1 .. Len(configs) + 1 /\ j \in Nat \ {0} /\ ~(i <= Len(configs))
      /\ mode \in Modes /\ phase = "reading"
  <2>1. i = 1 /\ j = 1 /\ mode = "top" /\ phase = "reading"
    OBVIOUS
  <2> HIDE DEF Init, ConfigInit
  <2>2. QED
    BY <1>3, <2>1 DEF Modes
<1>7. opened \in BOOLEAN /\ blockOpen \in BOOLEAN /\ wild \in BOOLEAN /\ ~wild
  OBVIOUS
<1>8. TypeOK
  <2> HIDE DEF Init
  <2>1. QED
    BY <1>1, <1>2, <1>3, <1>4, <1>5, <1>6, <1>7 DEF TypeOK
<1>9. QED
  BY <1>7, <1>8 DEF StartInv, Progress, CleanupInRange

(* Reading a line, or the end of the file. *)
LEMMA ReadInv ==
  ASSUME StartInv, Read
  PROVE  StartInv'
<1> USE DEF StartInv
<1>1. ReaderType'
  BY ReaderTyped DEF TypeOK, ReaderType, Read
<1>2. file' \in Seq(Lines) /\ Len(file') <= MaxLines
  <2>1. CASE ReadLine
    <3>1. PICK l \in Lines : file' = Append(file, l)
      BY <2>1 DEF ReadLine
    <3>2. file' \in Seq(Lines) /\ Len(file') = Len(file) + 1
      BY <3>1, Added DEF TypeOK
    <3>3. QED
      BY <2>1, <3>2, DefaultsAssumption DEF ReadLine, TypeOK
  <2>2. CASE EndOfFile
    BY <2>2 DEF EndOfFile, TypeOK
  <2>3. QED
    BY <2>1, <2>2 DEF Read, ConfigNext
<1>3. /\ i' = 1 /\ j' = 1
      /\ UNCHANGED <<servers, allSockets, sockets, wild>>
      /\ phase' \in {"reading", "starting", "exited"}
  BY DEF Read, Progress
<1>4. i' \in 1 .. Len(configs') + 1
  BY <1>1, <1>3 DEF ReaderType
<1>5. i' <= Len(configs') => j' <= Len(configs'[i'].port) + 1
  <2>1. SUFFICES ASSUME 1 <= Len(configs') PROVE 1 <= Len(configs'[1].port) + 1
    BY <1>3
  <2>2. configs'[1] \in StoredServer
    BY <1>1, <2>1 DEF ReaderType
  <2>3. configs'[1].port \in Seq(Nat \ {Free})
    BY <2>2 DEF StoredServer, ServerType
  <2>4. QED
    BY <2>3
<1>6. Progress' /\ CleanupInRange'
  BY <1>3 DEF Progress, CleanupInRange, TypeOK
<1>7. QED
  BY <1>1, <1>2, <1>3, <1>4, <1>5, <1>6 DEF TypeOK, ReaderType

(* The loop of initialize_all_servers goes on to the next port or block. *)
LEMMA StartServerInv ==
  ASSUME StartInv, StartServer
  PROVE  StartInv'
<1> USE DEF StartInv
<1>1. /\ i \in 1 .. Len(configs) /\ j \in 1 .. Len(configs[i].port)
      /\ configs \in Seq(StoredServer) /\ servers \in Seq(Started)
  BY DEF StartServer, Starting, TypeOK
<1>2. configs[i] \in StoredServer
  BY <1>1
<1>3. Port \in Nat \ {Free}
  <2>1. configs[i].port \in Seq(Nat \ {Free})
    BY <1>2 DEF StoredServer, ServerType
  <2>2. QED
    BY <1>1, <2>1 DEF Port
<1>4. PICK d \in Descriptors :
        /\ sockets' = [sockets EXCEPT ![d] = Port]
        /\ servers' = Append(servers, [config |-> i, port |-> Port, fd |-> d])
  BY DEF StartServer
<1>5. servers' \in Seq(Started) /\ Len(servers') = Len(servers) + 1
  <2>1. [config |-> i, port |-> Port, fd |-> d] \in Started
    BY <1>1, <1>3 DEF Started
  <2>2. QED
    BY <1>1, <1>4, <2>1, Added
<1>6. sockets' \in [Descriptors -> Nat]
  BY <1>3, <1>4 DEF TypeOK
<1>7. j' \in Nat \ {0} /\ j' <= Len(configs[i].port) + 1
      /\ (i' - 1) + (j' - 1) <= Len(servers')
  <2>1. (i - 1) + (j - 1) <= Len(servers) /\ Len(servers) \in Nat
    BY <1>1 DEF StartServer, Starting, Progress
  <2>2. i' = i /\ j' = j + 1 /\ Len(configs[i].port) \in Nat
    BY <1>2 DEF StartServer, StoredServer, ServerType
  <2>3. QED
    BY <1>1, <1>5, <2>1, <2>2
<1>8. QED
  BY <1>5, <1>6, <1>7
     DEF StartServer, Starting, configVars, TypeOK, Progress, CleanupInRange

(* The outer loop goes on to the next block: this one had at least one port. *)
LEMMA NextBlockInv ==
  ASSUME StartInv, NextBlock
  PROVE  StartInv'
<1> USE DEF StartInv
<1>1. /\ i \in 1 .. Len(configs) /\ j \in Nat \ {0} /\ j > Len(configs[i].port)
      /\ i' = i + 1 /\ j' = 1 /\ configs \in Seq(StoredServer) /\ Len(servers) \in Nat
      /\ (i - 1) + (j - 1) <= Len(servers)
  BY DEF NextBlock, TypeOK, Progress
<1>2. ASSUME NEW k \in 1 .. Len(configs)
      PROVE  Len(configs[k].port) \in Nat \ {0}
  <2>1. configs[k] \in StoredServer
    BY <1>1
  <2>2. configs[k].port \in Seq(Nat \ {Free}) /\ configs[k].port # <<>>
    BY <2>1 DEF StoredServer, ServerType
  <2>3. QED
    BY <2>2
<1>3. /\ i' \in 1 .. Len(configs) + 1 /\ j' \in Nat \ {0}
      /\ (i' - 1) + (j' - 1) <= Len(servers)
  BY <1>1, <1>2
<1>4. i' <= Len(configs) => j' <= Len(configs[i'].port) + 1
  BY <1>1, <1>2
<1>5. QED
  BY <1>1, <1>3, <1>4 DEF NextBlock, configVars, TypeOK, Progress, CleanupInRange

(* A server cannot be started: the count of blocks is within the vector. *)
LEMMA StartFailsInv ==
  ASSUME StartInv, StartFails
  PROVE  StartInv'
<1> USE DEF StartInv
<1>1. wild' = FALSE
  <2>1. (i - 1) + (j - 1) <= Len(servers) /\ i \in Nat /\ j \in Nat \ {0}
    BY DEF StartFails, Starting, TypeOK, Progress
  <2>2. Len(servers) \in Nat
    BY DEF TypeOK
  <2>3. ~(i - 1 > Len(servers))
    BY <2>1, <2>2
  <2>4. QED
    BY <2>3 DEF StartFails, CleanupInRange, TypeOK
<1>2. sockets' \in [Descriptors -> Nat]
  BY DEF StartFails, Closed, Free, TypeOK
<1>3. servers' \in Seq(Started)
  BY DEF StartFails
<1>4. QED
  BY <1>1, <1>2, <1>3 DEF StartFails, configVars, TypeOK, Progress, CleanupInRange

(* The remaining steps of main(). *)
LEMMA OtherInv ==
  ASSUME StartInv, StartAborts \/ StartLoop \/ RunReturns \/ UNCHANGED vars
  PROVE  StartInv'
<1> USE DEF StartInv
<1>1. CASE StartAborts
  BY <1>1 DEF StartAborts, configVars, TypeOK, Progress, CleanupInRange
<1>2. CASE StartLoop
  <2>1. allSockets' \in Seq(Descriptors)
    <3>1. \A k \in 1 .. Len(servers) : servers[k].fd \in Descriptors
      <4> SUFFICES ASSUME NEW k \in 1 .. Len(servers) PROVE servers[k].fd \in Descriptors
        OBVIOUS
      <4>1. servers \in Seq(Started)
        BY DEF TypeOK
      <4>2. servers[k] \in Started
        BY <4>1
      <4>3. QED
        BY <4>2 DEF Started
    <3>2. allSockets' = [k \in 1 .. Len(servers) |-> servers[k].fd]
      BY <1>2 DEF StartLoop, TypeOK
    <3>3. Len(servers) \in Nat
      BY DEF TypeOK
    <3>4. QED
      BY <3>1, <3>2, <3>3
  <2>2. QED
    BY <1>2, <2>1 DEF StartLoop, configVars, TypeOK, Progress, CleanupInRange
<1>3. CASE RunReturns
  <2>1. sockets' \in [Descriptors -> Nat]
    BY <1>3 DEF RunReturns, Closed, Free, TypeOK
  <2>2. servers' \in Seq(Started)
    BY <1>3 DEF RunReturns
  <2>3. allSockets' \in Seq(Descriptors)
    BY <1>3 DEF RunReturns
  <2>4. QED
    BY <1>3, <2>1, <2>2, <2>3 DEF RunReturns, configVars, TypeOK, Progress, CleanupInRange
<1>4. CASE UNCHANGED vars
  BY <1>4 DEF vars, TypeOK, Progress, CleanupInRange
<1>5. QED
  BY <1>1, <1>2, <1>3, <1>4

(* Of every reachable state the invariant holds. *)
LEMMA StartInvariant == Spec => []StartInv
<1>1. Init => StartInv
  BY InitInv
<1>2. StartInv /\ [Next]_vars => StartInv'
  BY ReadInv, StartServerInv, NextBlockInv, StartFailsInv, OtherInv DEF Next, Exited
<1>3. QED
  BY <1>1, <1>2, PTL DEF Spec

(* Whatever the file says and whenever starting fails, what is stored of a server or a
   location is complete, and main() stays on blocks and ports that exist. *)
THEOREM StartupTypeCorrect == Spec => []TypeOK
<1>1. StartInv => TypeOK
  BY DEF StartInv
<1>2. QED
  BY <1>1, StartInvariant, PTL

(* The cleanup after a failed start never deletes beyond the end of the vector. *)
THEOREM CleanupAlwaysInRange == Spec => []CleanupInRange
<1>1. StartInv => CleanupInRange
  BY DEF StartInv
<1>2. QED
  BY <1>1, StartInvariant, PTL

-----------------------------------------------------------------------------
(* What is started so far, in the words of the file. *)
Asks == [config : Nat, port : Nat \ {Free}]
AskedOf(c) == [k \in DOMAIN configs[c].port |-> [config |-> c, port |-> configs[c].port[k]]]
Blocks == [c \in DOMAIN configs |-> AskedOf(c)]
Begun == [k \in DOMAIN servers |->
           [config |-> servers[k].config, port |-> servers[k].port]]

(* The blocks passed, and the ports passed of the present one. *)
Present == IF i <= Len(configs) THEN SubSeq(AskedOf(i), 1, j - 1) ELSE <<>>
Passed == FlattenSeq(Firsts(Blocks, i - 1)) \o Present

(* The descriptors of the servers are distinct and open, and no other is open. *)
Holds ==
  /\ IsFiniteSet(FdsOf(servers)) /\ Cardinality(FdsOf(servers)) = Len(servers)
  /\ \A k \in DOMAIN servers : sockets[servers[k].fd] = servers[k].port
  /\ \A d \in Descriptors : sockets[d] # Free => d \in FdsOf(servers)

(* The inductive invariant: the vector is what the loops have passed of the file. *)
ListenInv ==
  /\ phase \in {"reading", "starting"} => allSockets = <<>>
  /\ phase = "reading" => servers = <<>> /\ Holds
  /\ phase = "starting" => Begun = Passed /\ Holds
  /\ ListensOnAll

(* Lists with an element more. *)
LEMMA PrefixGrows ==
  \A S : \A s \in Seq(S) : \A n \in Nat :
    n + 1 <= Len(s) => SubSeq(s, 1, n + 1) = Append(SubSeq(s, 1, n), s[n + 1])
<1> SUFFICES ASSUME NEW S, NEW s \in Seq(S), NEW n \in Nat, n + 1 <= Len(s)
             PROVE  SubSeq(s, 1, n + 1) = Append(SubSeq(s, 1, n), s[n + 1])
  OBVIOUS
<1> DEFINE x == SubSeq(s, 1, n)
           y == SubSeq(s, 1, n + 1)
           z == Append(x, s[n + 1])
<1>1. /\ x \in Seq(S) /\ Len(x) = n /\ \A k \in 1 .. n : x[k] = s[k]
      /\ y \in Seq(S) /\ Len(y) = n + 1 /\ \A k \in 1 .. (n + 1) : y[k] = s[k]
  OBVIOUS
<1>2. s[n + 1] \in S
  OBVIOUS
<1> HIDE DEF x, y
<1>3. /\ z \in Seq(S) /\ Len(z) = n + 1
      /\ \A k \in 1 .. n : z[k] = x[k]
      /\ z[n + 1] = s[n + 1]
  BY <1>1, <1>2
<1> HIDE DEF z
<1>4. ASSUME NEW k \in 1 .. (n + 1) PROVE y[k] = z[k]
  <2>1. k \in 1 .. n \/ k = n + 1
    OBVIOUS
  <2>2. QED
    BY <1>1, <1>3, <2>1
<1>5. y = z
  BY <1>1, <1>3, <1>4, SeqEqual
<1>6. QED
  BY <1>5 DEF x, y, z

(* An element added is the last. *)
LEMMA AddedLast ==
  \A S : \A s, t \in Seq(S) : \A e \in S : s \o Append(t, e) = Append(s \o t, e)
<1> SUFFICES ASSUME NEW S, NEW s \in Seq(S), NEW t \in Seq(S), NEW e \in S
             PROVE  s \o Append(t, e) = Append(s \o t, e)
  OBVIOUS
<1>1. Append(t, e) = t \o <<e>> /\ <<e>> \in Seq(S)
  OBVIOUS
<1>2. s \o t \in Seq(S)
  BY ThreeJoined
<1>3. Append(s \o t, e) = (s \o t) \o <<e>>
  <2> DEFINE w == s \o t
  <2>1. w \in Seq(S)
    BY <1>2
  <2> HIDE DEF w
  <2>2. Append(w, e) = w \o <<e>>
    BY <2>1
  <2>3. QED
    BY <2>2 DEF w
<1>4. Assoc(s, t, <<e>>)
  BY <1>1, Associated
<1>5. QED
  BY <1>1, <1>3, <1>4 DEF Assoc

(* All of a list, and none of it. *)
LEMMA WholeAndNone ==
  \A S : \A s \in Seq(S) : SubSeq(s, 1, Len(s)) = s /\ SubSeq(s, 1, 0) = <<>>
OBVIOUS

(* What the file asks for is a list of ports for every block. *)
LEMMA BlocksTyped ==
  ASSUME TypeOK
  PROVE  /\ Blocks \in Seq(Seq(Asks)) /\ Len(Blocks) = Len(configs)
         /\ \A c \in 1 .. Len(configs) :
              /\ Blocks[c] = AskedOf(c) /\ AskedOf(c) \in Seq(Asks)
              /\ Len(AskedOf(c)) = Len(configs[c].port)
              /\ \A k \in 1 .. Len(configs[c].port) :
                   AskedOf(c)[k] = [config |-> c, port |-> configs[c].port[k]]
<1>1. configs \in Seq(StoredServer) /\ DOMAIN configs = 1 .. Len(configs) /\ Len(configs) \in Nat
  BY DEF TypeOK
<1>2. ASSUME NEW c \in 1 .. Len(configs)
      PROVE  /\ AskedOf(c) \in Seq(Asks) /\ Len(AskedOf(c)) = Len(configs[c].port)
             /\ \A k \in 1 .. Len(configs[c].port) :
                  AskedOf(c)[k] = [config |-> c, port |-> configs[c].port[k]]
  <2> DEFINE p == configs[c].port
             f == [k \in 1 .. Len(p) |-> [config |-> c, port |-> p[k]]]
  <2>1. configs[c] \in StoredServer
    BY <1>1
  <2>2. p \in Seq(Nat \ {Free})
    BY <2>1 DEF StoredServer, ServerType
  <2>3. c \in Nat
    BY <1>1
  <2>4. AskedOf(c) = f
    <3>1. DOMAIN p = 1 .. Len(p)
      BY <2>2
    <3>2. QED
      BY <3>1 DEF AskedOf
  <2> HIDE DEF p
  <2>5. ASSUME NEW k \in 1 .. Len(p) PROVE [config |-> c, port |-> p[k]] \in Asks
    <3>1. p[k] \in Nat \ {Free}
      BY <2>2
    <3>2. QED
      BY <2>3, <3>1 DEF Asks
  <2>6. Len(p) \in Nat
    BY <2>2
  <2>7. f \in Seq(Asks) /\ Len(f) = Len(p)
    BY <2>5, <2>6
  <2>8. \A k \in 1 .. Len(p) : f[k] = [config |-> c, port |-> p[k]]
    OBVIOUS
  <2> HIDE DEF f
  <2>9. QED
    BY <2>4, <2>7, <2>8 DEF p
<1>3. Blocks = [c \in 1 .. Len(configs) |-> AskedOf(c)]
  BY <1>1 DEF Blocks
<1> DEFINE g == [c \in 1 .. Len(configs) |-> AskedOf(c)]
           l == Len(configs)
<1>4. \A c \in 1 .. l : AskedOf(c) \in Seq(Asks)
  BY <1>2
<1>5. g \in Seq(Seq(Asks)) /\ Len(g) = l
  <2>1. l \in Nat
    BY <1>1
  <2> DEFINE T == Seq(Asks)
  <2>2. \A c \in 1 .. l : AskedOf(c) \in T
    BY <1>4
  <2> HIDE DEF T, l
  <2>3. [c \in 1 .. l |-> AskedOf(c)] \in Seq(T) /\ Len([c \in 1 .. l |-> AskedOf(c)]) = l
    BY <2>1, <2>2
  <2>4. QED
    BY <2>3 DEF T, l
<1>6. \A c \in 1 .. l : g[c] = AskedOf(c)
  OBVIOUS
<1>7. QED
  BY <1>2, <1>3, <1>5, <1>6

(* The blocks before this one, one after the other. *)
LEMMA PassedTyped ==
  ASSUME TypeOK, NEW n \in Nat, n <= Len(configs)
  PROVE  FlattenSeq(Firsts(Blocks, n)) \in Seq(Asks)
<1>1. Blocks \in Seq(Seq(Asks)) /\ Len(Blocks) = Len(configs)
  BY BlocksTyped
<1>2. \A k \in 1 .. n : Blocks[k] \in Seq(Asks)
  BY <1>1, ElementOfSeq
<1>3. Firsts(Blocks, n) \in Seq(Seq(Asks))
  BY <1>2, FirstsAre DEF FirstsOf
<1>4. QED
  BY <1>3, FlattenTyped

(* Nothing is passed where the loops begin. *)
NonePassed == i = 1 /\ j = 1 => Passed = <<>>

(* Nothing is passed at the first port of the first block. *)
LEMMA PassedNone == TypeOK => NonePassed
<1> SUFFICES ASSUME TypeOK, i = 1, j = 1 PROVE Passed = <<>>
  BY DEF NonePassed
<1>1. FlattenSeq(Firsts(Blocks, i - 1)) = <<>>
  <2>1. Firsts(Blocks, 0) = <<>>
    BY BlocksTyped, FirstsAll
  <2>2. i - 1 = 0
    OBVIOUS
  <2>3. QED
    BY <2>1, <2>2, FlattenFew
<1>2. Present = <<>>
  <2>1. CASE i <= Len(configs)
    <3>1. AskedOf(i) \in Seq(Asks)
      <4>1. i \in 1 .. Len(configs)
        BY <2>1 DEF TypeOK
      <4>2. QED
        BY <4>1, BlocksTyped
    <3>2. j - 1 = 0
      OBVIOUS
    <3>3. QED
      BY <2>1, <3>1, <3>2, WholeAndNone DEF Present
  <2>2. CASE ~(i <= Len(configs))
    BY <2>2 DEF Present
  <2>3. QED
    BY <2>1, <2>2
<1>3. <<>> \o <<>> = <<>>
  BY EmptySeq, ConcatEmptySeq
<1>4. QED
  BY <1>1, <1>2, <1>3 DEF Passed

(* Nothing is started when the program starts. *)
LEMMA InitListens == Init => ListenInv
<1> SUFFICES ASSUME Init PROVE ListenInv
  OBVIOUS
<1>1. /\ phase = "reading" /\ servers = <<>> /\ allSockets = <<>>
      /\ \A d \in Descriptors : sockets[d] = Free
  BY DEF Init
<1>2. FdsOf(servers) = {} /\ DOMAIN servers = {} /\ Len(servers) = 0
  BY <1>1 DEF FdsOf
<1>3. IsFiniteSet(FdsOf(servers)) /\ Cardinality(FdsOf(servers)) = Len(servers)
  BY <1>2, FS_EmptySet
<1>4. Holds
  BY <1>1, <1>2, <1>3 DEF Holds
<1>5. QED
  BY <1>1, <1>4 DEF ListenInv, ListensOnAll

(* The end of the file: nothing is started yet. *)
LEMMA ReadListens ==
  ASSUME StartInv, ListenInv, Read
  PROVE  ListenInv'
<1>1. /\ i' = 1 /\ j' = 1 /\ phase = "reading"
      /\ UNCHANGED <<servers, allSockets, sockets>>
      /\ phase' \in {"reading", "starting", "exited"}
  BY DEF Read, StartInv, Progress
<1>2. servers' = <<>> /\ Holds'
  <2>1. servers = <<>> /\ Holds
    BY <1>1 DEF ListenInv
  <2>2. QED
    BY <1>1, <2>1 DEF Holds, FdsOf
<1>3. Begun' = <<>>
  <2>1. DOMAIN servers' = {}
    BY <1>2
  <2>2. Begun' = [k \in {} |-> [config |-> servers'[k].config, port |-> servers'[k].port]]
    BY <2>1 DEF Begun
  <2>3. <<>> = [k \in {} |-> [config |-> servers'[k].config, port |-> servers'[k].port]]
    OBVIOUS
  <2>4. QED
    BY <2>2, <2>3
<1>4. Passed' = <<>>
  <2>1. TypeOK'
    BY ReadInv DEF StartInv
  <2>2. TypeOK' => NonePassed'
    BY PassedNone, PTL
  <2>3. QED
    BY <1>1, <2>1, <2>2 DEF NonePassed
<1>5. QED
  BY <1>1, <1>2, <1>3, <1>4 DEF ListenInv, ListensOnAll

(* One more port is passed and one more server is started, on a free descriptor. *)
LEMMA StartServerListens ==
  ASSUME StartInv, ListenInv, StartServer
  PROVE  ListenInv'
<1>1. TypeOK /\ phase = "starting" /\ Begun = Passed /\ Holds
  BY DEF StartInv, ListenInv, StartServer, Starting
<1>2. /\ i \in 1 .. Len(configs) /\ j \in 1 .. Len(configs[i].port)
      /\ configs \in Seq(StoredServer) /\ servers \in Seq(Started)
      /\ i' = i /\ j' = j + 1 /\ configs' = configs /\ phase' = phase
      /\ allSockets' = allSockets
  BY <1>1 DEF StartServer, Starting, TypeOK, configVars
<1>3. Port \in Nat \ {Free}
  <2>1. configs[i] \in StoredServer
    BY <1>2
  <2>2. configs[i].port \in Seq(Nat \ {Free})
    BY <2>1 DEF StoredServer, ServerType
  <2>3. QED
    BY <1>2, <2>2 DEF Port
<1>4. PICK d \in Descriptors :
        /\ sockets[d] = Free
        /\ sockets' = [sockets EXCEPT ![d] = Port]
        /\ servers' = Append(servers, [config |-> i, port |-> Port, fd |-> d])
  BY DEF StartServer, Lowest, Unused
<1> DEFINE r == [config |-> i, port |-> Port, fd |-> d]
           n == Len(servers)
<1>5. /\ r \in Started /\ n \in Nat /\ DOMAIN servers = 1 .. n
      /\ servers' \in Seq(Started) /\ Len(servers') = n + 1
      /\ DOMAIN servers' = 1 .. (n + 1)
      /\ \A k \in 1 .. n : servers'[k] = servers[k]
      /\ servers'[n + 1] = r
  <2>1. r \in Started
    BY <1>2, <1>3 DEF Started
  <2> HIDE DEF r
  <2>2. servers' = Append(servers, r)
    BY <1>4 DEF r
  <2>3. QED
    BY <1>2, <2>1, <2>2
<1>6. r.config = i /\ r.port = Port /\ r.fd = d
  OBVIOUS
<1> HIDE DEF r, n
<1>7. Holds'
  <2>1. FdsOf(servers') = FdsOf(servers) \cup {d}
    <3>1. 1 .. (n + 1) = (1 .. n) \cup {n + 1}
      BY <1>5
    <3>2. QED
      BY <1>5, <1>6, <3>1 DEF FdsOf
  <2>2. d \notin FdsOf(servers)
    <3> SUFFICES ASSUME NEW k \in 1 .. n, servers[k].fd = d PROVE FALSE
      BY <1>5 DEF FdsOf
    <3>1. sockets[d] = servers[k].port
      BY <1>1, <1>5 DEF Holds
    <3>2. servers[k] \in Started
      BY <1>2, <1>5 DEF n
    <3>3. servers[k].port # Free
      BY <3>2 DEF Started
    <3>4. QED
      BY <1>4, <3>1, <3>3
  <2>3. IsFiniteSet(FdsOf(servers')) /\ Cardinality(FdsOf(servers')) = Len(servers')
    <3>1. IsFiniteSet(FdsOf(servers)) /\ Cardinality(FdsOf(servers)) = n
      BY <1>1 DEF Holds, n
    <3>2. /\ IsFiniteSet(FdsOf(servers) \cup {d})
          /\ Cardinality(FdsOf(servers) \cup {d}) = n + 1
      BY <2>2, <3>1, FS_AddElement
    <3>3. QED
      BY <1>5, <2>1, <3>2
  <2>4. ASSUME NEW k \in 1 .. (n + 1) PROVE sockets'[servers'[k].fd] = servers'[k].port
    <3>1. CASE k \in 1 .. n
      <4>1. servers'[k] = servers[k] /\ sockets[servers[k].fd] = servers[k].port
        BY <1>1, <1>5, <3>1 DEF Holds
      <4>2. servers[k].fd # d
        BY <1>5, <2>2, <3>1 DEF FdsOf
      <4>3. servers[k] \in Started
        BY <1>2, <1>5, <3>1 DEF n
      <4>4. servers[k].fd \in Descriptors /\ sockets \in [Descriptors -> Nat]
        BY <1>1, <4>3 DEF Started, TypeOK
      <4>5. QED
        BY <1>4, <4>1, <4>2, <4>4
    <3>2. CASE k = n + 1
      <4>1. sockets'[d] = Port
        BY <1>1, <1>4 DEF TypeOK
      <4>2. QED
        BY <1>5, <1>6, <3>2, <4>1
    <3>3. QED
      BY <1>5, <3>1, <3>2
  <2>5. ASSUME NEW e \in Descriptors, sockets'[e] # Free PROVE e \in FdsOf(servers')
    <3>1. CASE e = d
      BY <2>1, <3>1
    <3>2. CASE e # d
      <4>1. sockets'[e] = sockets[e]
        BY <1>1, <1>4, <3>2 DEF TypeOK
      <4>2. QED
        BY <1>1, <2>1, <2>5, <4>1 DEF Holds
    <3>3. QED
      BY <3>1, <3>2
  <2>6. QED
    BY <1>5, <2>3, <2>4, <2>5 DEF Holds
<1> DEFINE a == [config |-> i, port |-> Port]
<1>8. a \in Asks
  BY <1>2, <1>3 DEF Asks
<1>9. Begun' = Append(Begun, a) /\ Begun \in Seq(Asks)
  <2>1. ASSUME NEW k \in 1 .. n
        PROVE  [config |-> servers[k].config, port |-> servers[k].port] \in Asks
    <3>1. servers[k] \in Started
      BY <1>2, <1>5 DEF n
    <3>2. QED
      BY <3>1 DEF Started, Asks
  <2> DEFINE f == [k \in 1 .. n |->
                    [config |-> servers[k].config, port |-> servers[k].port]]
             g == [k \in 1 .. (n + 1) |->
                    [config |-> servers'[k].config, port |-> servers'[k].port]]
  <2>2. Begun = f /\ Begun' = g
    BY <1>5 DEF Begun
  <2>3. f \in Seq(Asks) /\ Len(f) = n
    BY <1>5, <2>1
  <2>4. \A k \in 1 .. n : g[k] = f[k]
    BY <1>5
  <2>5. g[n + 1] = a
    BY <1>5, <1>6
  <2>6. Len(g) = n + 1
    BY <1>5
  <2>7. \A k \in 1 .. (n + 1) : k \in 1 .. n \/ k = n + 1
    BY <1>5
  <2>8. g \in Seq(Asks)
    <3>1. \A k \in 1 .. n : f[k] \in Asks
      BY <2>1
    <3>2. \A k \in 1 .. (n + 1) : g[k] \in Asks
      BY <1>8, <2>4, <2>5, <2>7, <3>1
    <3>3. g \in [1 .. (n + 1) -> Asks]
      <4>1. g = [k \in 1 .. (n + 1) |-> g[k]]
        OBVIOUS
      <4> HIDE DEF g
      <4>2. QED
        BY <3>2, <4>1
    <3> HIDE DEF f, g
    <3>4. QED
      BY <1>5, <3>3
  <2> DEFINE h == Append(f, a)
  <2> HIDE DEF f, g, a
  <2>9. h \in Seq(Asks) /\ Len(h) = n + 1 /\ h[n + 1] = a /\ \A k \in 1 .. n : h[k] = f[k]
    BY <1>5, <1>8, <2>3
  <2> HIDE DEF h
  <2>10. g = h
    <3>1. \A k \in 1 .. (n + 1) : g[k] = h[k]
      BY <2>4, <2>5, <2>7, <2>9
    <3>2. QED
      BY <2>6, <2>8, <2>9, <3>1, SeqEqual
  <2>11. QED
    BY <2>2, <2>3, <2>10 DEF h
<1>10. Passed' = Append(Passed, a)
  <2> DEFINE p == FlattenSeq(Firsts(Blocks, i - 1))
             q == AskedOf(i)
  <2>1. p' = p /\ q' = q
    BY <1>2 DEF Blocks, AskedOf
  <2>2. p \in Seq(Asks)
    <3>1. i - 1 \in Nat /\ i - 1 <= Len(configs)
      BY <1>2
    <3>2. QED
      BY <1>1, <3>1, PassedTyped
  <2>3. q \in Seq(Asks) /\ Len(q) = Len(configs[i].port) /\ q[j] = a
    BY <1>1, <1>2, BlocksTyped DEF Port
  <2>4. Present = SubSeq(q, 1, j - 1) /\ Present' = SubSeq(q', 1, (j + 1) - 1)
    BY <1>2 DEF Present
  <2> HIDE DEF p, q, a
  <2>5. j - 1 \in Nat /\ (j - 1) + 1 <= Len(q) /\ (j - 1) + 1 = j /\ (j + 1) - 1 = j
    BY <1>2, <2>3
  <2>6. SubSeq(q, 1, j) = Append(SubSeq(q, 1, j - 1), a) /\ SubSeq(q, 1, j - 1) \in Seq(Asks)
    <3>1. SubSeq(q, 1, (j - 1) + 1) = Append(SubSeq(q, 1, j - 1), q[(j - 1) + 1])
      BY <2>3, <2>5, PrefixGrows
    <3>2. SubSeq(q, 1, j - 1) \in Seq(Asks)
      BY <2>3, <2>5
    <3>3. QED
      BY <2>3, <2>5, <3>1, <3>2
  <2>7. Present' = Append(Present, a) /\ Present \in Seq(Asks)
    BY <2>1, <2>4, <2>5, <2>6
  <2>8. Passed = p \o Present /\ Passed' = p' \o Present'
    BY DEF Passed, p
  <2>9. p \o Append(Present, a) = Append(p \o Present, a)
    BY <1>8, <2>2, <2>7, AddedLast
  <2>10. QED
    BY <2>1, <2>7, <2>8, <2>9
<1>11. QED
  BY <1>1, <1>2, <1>7, <1>9, <1>10 DEF ListenInv, ListensOnAll

(* A block is passed with all its ports. *)
LEMMA NextBlockListens ==
  ASSUME StartInv, ListenInv, NextBlock
  PROVE  ListenInv'
<1>1. TypeOK /\ phase = "starting" /\ Begun = Passed /\ Holds
  BY DEF StartInv, ListenInv, NextBlock
<1>2. /\ i \in 1 .. Len(configs) /\ configs \in Seq(StoredServer)
      /\ j \in Nat /\ j > Len(configs[i].port) /\ j <= Len(configs[i].port) + 1
      /\ i' = i + 1 /\ j' = 1 /\ configs' = configs /\ phase' = phase
      /\ UNCHANGED <<servers, sockets, allSockets>>
  BY <1>1 DEF NextBlock, TypeOK, configVars
<1>3. Begun' = Begun /\ Holds'
  BY <1>1, <1>2 DEF Begun, Holds, FdsOf
<1> DEFINE q == AskedOf(i)
           p == FlattenSeq(Firsts(Blocks, i - 1))
<1>4. Present = q
  <2>1. q \in Seq(Asks) /\ Len(q) = Len(configs[i].port)
    BY <1>1, <1>2, BlocksTyped
  <2>2. Present = SubSeq(q, 1, j - 1)
    BY <1>2 DEF Present
  <2> HIDE DEF q
  <2>3. j - 1 = Len(q)
    <3>1. Len(q) \in Nat
      BY <2>1
    <3>2. QED
      BY <1>2, <2>1, <3>1
  <2>4. QED
    BY <2>1, <2>2, <2>3, WholeAndNone
<1>5. p \o q = FlattenSeq(Firsts(Blocks, i))
  <2>1. Blocks \in Seq(Seq(Asks)) /\ Len(Blocks) = Len(configs) /\ Blocks[i] = q
    BY <1>1, <1>2, BlocksTyped
  <2>2. i - 1 \in Nat /\ (i - 1) + 1 = i /\ i <= Len(configs)
    BY <1>2
  <2>3. FlattenSeq(Firsts(Blocks, (i - 1) + 1)) = p \o Blocks[(i - 1) + 1]
    BY <2>1, <2>2, FlattenGrows
  <2> HIDE DEF p, q
  <2>4. QED
    BY <2>1, <2>2, <2>3
<1>6. Present' = <<>>
  <2>1. CASE i + 1 <= Len(configs)
    <3>1. i + 1 \in 1 .. Len(configs)
      BY <1>2, <2>1
    <3>2. AskedOf(i + 1) \in Seq(Asks)
      BY <1>1, <3>1, BlocksTyped
    <3>3. Present' = SubSeq(AskedOf(i + 1), 1, 1 - 1)
      BY <1>2, <2>1 DEF Present, AskedOf
    <3>4. QED
      BY <3>2, <3>3, WholeAndNone
  <2>2. CASE ~(i + 1 <= Len(configs))
    BY <1>2, <2>2 DEF Present
  <2>3. QED
    BY <2>1, <2>2
<1>7. Passed' = FlattenSeq(Firsts(Blocks, i)) \o <<>>
  <2>1. Blocks' = Blocks /\ (i + 1) - 1 = i
    BY <1>2 DEF Blocks, AskedOf
  <2>2. QED
    BY <1>2, <1>6, <2>1 DEF Passed
<1>8. FlattenSeq(Firsts(Blocks, i)) \in Seq(Asks)
  BY <1>1, <1>2, PassedTyped
<1>9. Passed' = Passed
  <2>1. Passed = p \o q
    BY <1>4 DEF Passed
  <2>2. FlattenSeq(Firsts(Blocks, i)) \o <<>> = FlattenSeq(Firsts(Blocks, i))
    BY <1>8, ConcatEmptySeq
  <2>3. QED
    BY <1>5, <1>7, <2>1, <2>2
<1>10. QED
  BY <1>1, <1>2, <1>3, <1>9 DEF ListenInv, ListensOnAll

(* All blocks are passed: what is started is what is asked for. *)
LEMMA StartLoopListens ==
  ASSUME StartInv, ListenInv, StartLoop
  PROVE  ListenInv'
<1>1. TypeOK /\ phase = "starting" /\ Begun = Passed /\ Holds
  BY DEF StartInv, ListenInv, StartLoop
<1>2. /\ i > Len(configs) /\ i \in 1 .. Len(configs) + 1 /\ configs \in Seq(StoredServer)
      /\ servers \in Seq(Started)
      /\ phase' = "serving" /\ configs' = configs /\ UNCHANGED <<servers, sockets>>
      /\ allSockets' = [k \in DOMAIN servers |-> servers[k].fd]
  BY <1>1 DEF StartLoop, TypeOK, configVars
<1>3. Passed = Asked
  <2>1. Blocks \in Seq(Seq(Asks)) /\ Len(Blocks) = Len(configs)
    BY <1>1, BlocksTyped
  <2>2. i - 1 = Len(Blocks) /\ ~(i <= Len(configs))
    <3>1. Len(configs) \in Nat
      BY <1>2
    <3>2. QED
      BY <1>2, <2>1, <3>1
  <2>3. Firsts(Blocks, i - 1) = Blocks
    BY <2>1, <2>2, FirstsAll
  <2>4. FlattenSeq(Blocks) \in Seq(Asks)
    BY <2>1, FlattenTyped
  <2>5. FlattenSeq(Blocks) \o <<>> = FlattenSeq(Blocks)
    BY <2>4, ConcatEmptySeq
  <2>6. Asked = FlattenSeq(Blocks)
    BY DEF Asked, Blocks, AskedOf
  <2>7. QED
    BY <2>2, <2>3, <2>5, <2>6 DEF Passed, Present
<1>4. /\ Begun' = Begun /\ Asked' = Asked /\ Holds'
  BY <1>1, <1>2 DEF Begun, Asked, Holds, FdsOf
<1>5. \A d \in Descriptors :
        sockets[d] # Free <=>
          \E k \in DOMAIN servers : servers[k].fd = d /\ servers[k].port = sockets[d]
  <2> SUFFICES ASSUME NEW d \in Descriptors
               PROVE  sockets[d] # Free <=>
                        \E k \in DOMAIN servers :
                          servers[k].fd = d /\ servers[k].port = sockets[d]
    OBVIOUS
  <2>1. ASSUME sockets[d] # Free
        PROVE  \E k \in DOMAIN servers : servers[k].fd = d /\ servers[k].port = sockets[d]
    BY <1>1, <2>1 DEF Holds, FdsOf
  <2>2. ASSUME NEW k \in DOMAIN servers, servers[k].port = sockets[d]
        PROVE  sockets[d] # Free
    <3>1. servers[k] \in Started
      BY <1>2
    <3>2. QED
      BY <2>2, <3>1 DEF Started
  <2>3. QED
    BY <2>1, <2>2
<1>6. ListensOnAll'
  <2>1. [k \in DOMAIN servers' |->
          [config |-> servers'[k].config, port |-> servers'[k].port]] = Asked'
    BY <1>1, <1>3, <1>4 DEF Begun
  <2>2. Cardinality(FdsOf(servers')) = Len(servers')
    BY <1>4 DEF Holds
  <2>3. QED
    BY <1>2, <1>5, <2>1, <2>2 DEF ListensOnAll
<1>7. QED
  BY <1>2, <1>6 DEF ListenInv

(* A server that cannot be started leaves an empty vector and an empty poll array, and
   nothing of a block is passed any more. *)
LEMMA OtherListens ==
  ASSUME StartInv, ListenInv,
         StartFails \/ StartAborts \/ RunReturns \/ UNCHANGED vars
  PROVE  ListenInv'
<1>1. CASE StartFails
  <2>1. allSockets = <<>>
    BY <1>1 DEF StartFails, Starting, ListenInv
  <2>2. QED
    BY <1>1, <2>1 DEF StartFails, ListenInv, ListensOnAll
<1>2. CASE StartAborts \/ RunReturns
  BY <1>2 DEF StartAborts, RunReturns, ListenInv, ListensOnAll
<1>3. CASE UNCHANGED vars
  <2>1. UNCHANGED <<configs, phase, i, j, servers, allSockets, sockets>>
    BY <1>3 DEF vars
  <2>2. Begun' = Begun /\ Asked' = Asked /\ FdsOf(servers') = FdsOf(servers)
    BY <2>1 DEF Begun, Asked, FdsOf
  <2>3. Passed' = Passed
    <3>1. Blocks' = Blocks /\ Present' = Present
      BY <2>1 DEF Blocks, Present, AskedOf
    <3>2. QED
      BY <2>1, <3>1 DEF Passed
  <2>4. Holds' <=> Holds
    BY <2>1, <2>2 DEF Holds
  <2>5. ListensOnAll' <=> ListensOnAll
    BY <2>1, <2>2 DEF ListensOnAll
  <2>6. QED
    BY <2>1, <2>2, <2>3, <2>4, <2>5 DEF ListenInv
<1>4. QED
  BY <1>1, <1>2, <1>3

(* When the loop has something to serve, the poll array, the vector of servers, the
   open sockets and the ports the file asks for are the same list: whatever the file,
   wherever a start fails, and for every set of descriptors. *)
THEOREM AlwaysListensOnAll == Spec => []ListensOnAll
<1>1. Init => ListenInv
  BY InitListens
<1>2. StartInv /\ ListenInv /\ [Next]_vars => ListenInv'
  BY ReadListens, StartServerListens, NextBlockListens, StartLoopListens, OtherListens
     DEF Next, Exited
<1>3. ListenInv => ListensOnAll
  BY DEF ListenInv
<1>4. QED
  BY <1>1, <1>2, <1>3, StartInvariant, PTL DEF Spec

-----------------------------------------------------------------------------
(* Positions in order *)

Rising(q, S) ==
  q \in [1 .. Cardinality(S) -> S] /\ \A k, m \in DOMAIN q : k < m => q[k] < q[m]

(* A set of positions is finite. *)
LEMMA PositionsFinite ==
  \A n \in Nat : \A S \in SUBSET (1 .. n) : IsFiniteSet(S) /\ Cardinality(S) \in Nat
<1> SUFFICES ASSUME NEW n \in Nat, NEW S \in SUBSET (1 .. n)
             PROVE  IsFiniteSet(S) /\ Cardinality(S) \in Nat
  OBVIOUS
<1>1. IsFiniteSet(1 .. n)
  BY FS_Interval
<1>2. IsFiniteSet(S)
  BY <1>1, FS_Subset
<1>3. QED
  BY <1>2, FS_CardinalityType

(* With a position behind all others. *)
LEMMA OneFurther ==
  \A n \in Nat : \A S \in SUBSET (1 .. n) :
    /\ S \cup {n + 1} \in SUBSET (1 .. n + 1)
    /\ Cardinality(S \cup {n + 1}) = Cardinality(S) + 1
    /\ (S \cup {n + 1}) \ {n + 1} = S
<1> SUFFICES ASSUME NEW n \in Nat, NEW S \in SUBSET (1 .. n)
             PROVE  /\ S \cup {n + 1} \in SUBSET (1 .. n + 1)
                    /\ Cardinality(S \cup {n + 1}) = Cardinality(S) + 1
                    /\ (S \cup {n + 1}) \ {n + 1} = S
  OBVIOUS
<1>1. \A k \in S : k \in 1 .. n + 1 /\ k # n + 1
  OBVIOUS
<1>2. n + 1 \in 1 .. n + 1 /\ n + 1 \notin S
  BY <1>1
<1>3. IsFiniteSet(S)
  BY PositionsFinite
<1>4. Cardinality(S \cup {n + 1}) = Cardinality(S) + 1
  BY <1>2, <1>3, FS_AddElement
<1>5. QED
  BY <1>1, <1>2, <1>4

(* A greater position goes behind the others. *)
LEMMA RisingAdds ==
  ASSUME NEW n \in Nat, NEW S \in SUBSET (1 .. n), NEW q, Rising(q, S)
  PROVE  Rising(Append(q, n + 1), S \cup {n + 1})
<1> DEFINE m == Cardinality(S)
           a == Append(q, n + 1)
<1>1. m \in Nat /\ Cardinality(S \cup {n + 1}) = m + 1
  BY PositionsFinite, OneFurther
<1> HIDE DEF m
<1>2. q \in [1 .. m -> S] /\ \A k, l \in 1 .. m : k < l => q[k] < q[l]
  BY DEF Rising, m
<1>3. q \in Seq(S) /\ Len(q) = m
  BY <1>1, <1>2
<1>4. /\ DOMAIN a = 1 .. m + 1 /\ a = [k \in 1 .. m + 1 |-> a[k]]
      /\ a[m + 1] = n + 1 /\ \A k \in 1 .. m : a[k] = q[k]
  BY <1>1, <1>3
<1> HIDE DEF a
<1>5. \A k \in 1 .. m + 1 : k \in 1 .. m \/ k = m + 1
  BY <1>1
<1>6. \A k \in 1 .. m : q[k] \in S /\ q[k] < n + 1
  <2>1. \A x \in S : x < n + 1
    OBVIOUS
  <2>2. QED
    BY <1>2, <2>1
<1>7. \A k \in 1 .. m + 1 : a[k] \in S \cup {n + 1}
  BY <1>4, <1>5, <1>6
<1>8. a \in [1 .. m + 1 -> S \cup {n + 1}]
  BY <1>4, <1>7
<1>9. ASSUME NEW k \in 1 .. m + 1, NEW l \in 1 .. m + 1, k < l PROVE a[k] < a[l]
  <2>1. k \in 1 .. m
    BY <1>1, <1>9
  <2>2. CASE l \in 1 .. m
    BY <1>2, <1>4, <1>9, <2>1, <2>2
  <2>3. CASE l = m + 1
    BY <1>4, <1>6, <2>1, <2>3
  <2>4. QED
    BY <1>5, <2>2, <2>3
<1>10. QED
  BY <1>1, <1>4, <1>8, <1>9 DEF Rising, a

(* A set of positions can be put in order. *)
LEMMA RisingExists == \A n \in Nat : \A S \in SUBSET (1 .. n) : \E q : Rising(q, S)
<1> DEFINE T == {n \in Nat : \A S \in SUBSET (1 .. n) : \E q : Rising(q, S)}
<1>1. 0 \in T
  <2> SUFFICES ASSUME NEW S \in SUBSET (1 .. 0) PROVE \E q : Rising(q, S)
    OBVIOUS
  <2>1. S = {} /\ Cardinality({}) = 0
    BY FS_EmptySet
  <2> DEFINE q == [k \in 1 .. 0 |-> 0]
  <2>2. q \in [1 .. 0 -> {}] /\ \A k \in DOMAIN q : FALSE
    OBVIOUS
  <2> HIDE DEF q
  <2>3. QED
    BY <2>1, <2>2 DEF Rising
<1>2. ASSUME NEW n \in Nat, n \in T PROVE n + 1 \in T
  <2> SUFFICES ASSUME NEW S \in SUBSET (1 .. n + 1) PROVE \E q : Rising(q, S)
    OBVIOUS
  <2> DEFINE R == S \ {n + 1}
  <2>1. R \in SUBSET (1 .. n)
    OBVIOUS
  <2>2. PICK q : Rising(q, R)
    BY <1>2, <2>1
  <2>3. CASE n + 1 \in S
    <3>1. S = R \cup {n + 1}
      BY <2>3
    <3> HIDE DEF R
    <3>2. Rising(Append(q, n + 1), R \cup {n + 1})
      BY <2>1, <2>2, RisingAdds
    <3>3. QED
      BY <3>1, <3>2
  <2>4. CASE n + 1 \notin S
    <3>1. S = R
      BY <2>4
    <3>2. QED
      BY <2>2, <3>1
  <2>5. QED
    BY <2>3, <2>4
<1> HIDE DEF T
<1>3. Nat \subseteq T
  BY <1>1, <1>2, SetInduction
<1>4. QED
  BY <1>3 DEF T

(* The last place is that of the greatest, and what stands before it is in order. *)
EndsIn(q, S, n) ==
  LET m == Cardinality(S)
  IN  /\ q = [k \in 1 .. m + 1 |-> q[k]] /\ q[m + 1] = n + 1
      /\ Rising([k \in 1 .. m |-> q[k]], S)

LEMMA RisingLast ==
  ASSUME NEW n \in Nat, NEW S \in SUBSET (1 .. n), NEW q, Rising(q, S \cup {n + 1})
  PROVE  EndsIn(q, S, n)
<1> DEFINE m == Cardinality(S)
           h == [k \in 1 .. m |-> q[k]]
<1>1. m \in Nat /\ Cardinality(S \cup {n + 1}) = m + 1 /\ IsFiniteSet(S)
  BY PositionsFinite, OneFurther
<1> HIDE DEF m
<1>2. /\ q \in [1 .. m + 1 -> S \cup {n + 1}]
      /\ \A k, l \in 1 .. m + 1 : k < l => q[k] < q[l]
  BY <1>1 DEF Rising
<1>3. \A k \in 1 .. m + 1 : q[k] \in S \/ q[k] = n + 1
  BY <1>2
<1>4. m + 1 \in 1 .. m + 1 /\ \A k \in 1 .. m : k \in 1 .. m + 1 /\ k < m + 1
  BY <1>1
<1>5. \A x \in S : x \in Nat /\ x < n + 1
  OBVIOUS
<1>6. \A k \in 1 .. m : q[k] \in S
  <2> SUFFICES ASSUME NEW k \in 1 .. m, q[k] = n + 1 PROVE FALSE
    BY <1>3, <1>4
  <2>1. n + 1 < q[m + 1]
    BY <1>2, <1>4
  <2> DEFINE z == q[m + 1]
  <2>2. z \in S \/ z = n + 1
    BY <1>3, <1>4
  <2>3. n + 1 < z
    BY <2>1
  <2> HIDE DEF z
  <2>4. CASE z \in S
    <3>1. z \in Nat /\ z < n + 1
      BY <1>5, <2>4
    <3>2. QED
      BY <2>3, <3>1
  <2>5. CASE z = n + 1
    BY <2>3, <2>5
  <2>6. QED
    BY <2>2, <2>4, <2>5
<1>7. q[m + 1] = n + 1
  <2> SUFFICES ASSUME q[m + 1] # n + 1 PROVE FALSE
    OBVIOUS
  <2>1. \A k \in 1 .. m + 1 : q[k] \in S
    <3>1. \A k \in 1 .. m + 1 : k \in 1 .. m \/ k = m + 1
      BY <1>1
    <3>2. q[m + 1] \in S
      BY <1>3, <1>4
    <3>3. QED
      BY <1>6, <3>1, <3>2
  <2>2. q \in [1 .. m + 1 -> S]
    BY <1>2, <2>1
  <2>3. IsFiniteSet(1 .. m + 1) /\ Cardinality(1 .. m + 1) = m + 1
    BY <1>1, FS_Interval
  <2>4. Cardinality(S) < Cardinality(1 .. m + 1)
    BY <1>1, <2>3 DEF m
  <2>5. PICK x, y \in 1 .. m + 1 : x # y /\ q[x] = q[y]
    BY <1>1, <2>2, <2>3, <2>4, FS_PigeonHole
  <2>6. x < y \/ y < x
    BY <1>1, <2>5
  <2>7. q[x] < q[y] \/ q[y] < q[x]
    BY <1>2, <2>6
  <2>8. q[x] \in Nat
    BY <1>5, <2>1
  <2> HIDE DEF m
  <2>9. QED
    BY <2>5, <2>7, <2>8
<1>8. Rising(h, S)
  <2>1. h \in [1 .. m -> S] /\ DOMAIN h = 1 .. m
    BY <1>6
  <2>2. \A k, l \in 1 .. m : k < l => h[k] < h[l]
    BY <1>2, <1>4
  <2> HIDE DEF h
  <2>3. QED
    BY <2>1, <2>2 DEF Rising, m
<1>9. q = [k \in 1 .. m + 1 |-> q[k]]
  BY <1>2
<1>10. QED
  BY <1>7, <1>8, <1>9 DEF m, EndsIn

(* There is one order. *)
LEMMA RisingUnique ==
  \A n \in Nat : \A S \in SUBSET (1 .. n) : \A p, q : Rising(p, S) /\ Rising(q, S) => p = q
<1> DEFINE Once(S) == \A p, q : Rising(p, S) /\ Rising(q, S) => p = q
           T == {n \in Nat : \A S \in SUBSET (1 .. n) : Once(S)}
<1>1. 0 \in T
  <2> SUFFICES ASSUME NEW S \in SUBSET (1 .. 0), NEW p, NEW q, Rising(p, S), Rising(q, S)
               PROVE  p = q
    OBVIOUS
  <2>1. S = {} /\ Cardinality({}) = 0
    BY FS_EmptySet
  <2>2. p \in [1 .. 0 -> {}] /\ q \in [1 .. 0 -> {}]
    BY <2>1 DEF Rising
  <2>3. QED
    BY <2>2
<1>2. ASSUME NEW n \in Nat, n \in T PROVE n + 1 \in T
  <2> SUFFICES ASSUME NEW S \in SUBSET (1 .. n + 1) PROVE Once(S)
    OBVIOUS
  <2> DEFINE R == S \ {n + 1}
  <2>1. R \in SUBSET (1 .. n)
    OBVIOUS
  <2>2. Once(R)
    BY <1>2, <2>1
  <2>3. CASE n + 1 \in S
    <3>1. S = R \cup {n + 1}
      BY <2>3
    <3> HIDE DEF R
    <3> SUFFICES ASSUME NEW p, NEW q, Rising(p, R \cup {n + 1}), Rising(q, R \cup {n + 1})
                 PROVE  p = q
      BY <3>1
    <3> DEFINE m == Cardinality(R)
               f == [k \in 1 .. m |-> p[k]]
               g == [k \in 1 .. m |-> q[k]]
    <3>2. p = [k \in 1 .. m + 1 |-> p[k]] /\ p[m + 1] = n + 1 /\ Rising(f, R)
      <4>1. EndsIn(p, R, n)
        BY <2>1, RisingLast
      <4>2. QED
        BY <4>1 DEF EndsIn
    <3>3. q = [k \in 1 .. m + 1 |-> q[k]] /\ q[m + 1] = n + 1 /\ Rising(g, R)
      <4>1. EndsIn(q, R, n)
        BY <2>1, RisingLast
      <4>2. QED
        BY <4>1 DEF EndsIn
    <3>4. m \in Nat
      BY <2>1, PositionsFinite
    <3> HIDE DEF m
    <3>5. f = g
      <4> HIDE DEF f, g
      <4>1. QED
        BY <2>2, <3>2, <3>3
    <3>6. \A k \in 1 .. m : p[k] = q[k]
      <4>1. \A k \in 1 .. m : f[k] = p[k] /\ g[k] = q[k]
        OBVIOUS
      <4> HIDE DEF f, g
      <4>2. QED
        BY <3>5, <4>1
    <3>7. \A k \in 1 .. m + 1 : p[k] = q[k]
      <4>1. \A k \in 1 .. m + 1 : k \in 1 .. m \/ k = m + 1
        BY <3>4
      <4>2. p[m + 1] = q[m + 1]
        BY <3>2, <3>3
      <4>3. QED
        BY <3>6, <4>1, <4>2
    <3>8. QED
      BY <3>2, <3>3, <3>7
  <2>4. CASE n + 1 \notin S
    <3>1. S = R
      BY <2>4
    <3>2. QED
      BY <2>2, <3>1
  <2>5. QED
    BY <2>3, <2>4
<1> HIDE DEF T
<1>3. Nat \subseteq T
  BY <1>1, <1>2, SetInduction
<1>4. QED
  BY <1>3 DEF T

(* InOrder is it. *)
LEMMA InOrderIs ==
  \A n \in Nat : \A S \in SUBSET (1 .. n) : Rising(InOrder(S), S)
<1> SUFFICES ASSUME NEW n \in Nat, NEW S \in SUBSET (1 .. n) PROVE Rising(InOrder(S), S)
  OBVIOUS
<1>1. PICK q : Rising(q, S)
  BY RisingExists
<1>2. QED
  BY <1>1 DEF Rising, InOrder

(* InOrder gives a list of the positions. *)
LEMMA InOrderTyped ==
  \A n \in Nat : \A S \in SUBSET (1 .. n) :
    /\ DOMAIN InOrder(S) = 1 .. Len(InOrder(S)) /\ Len(InOrder(S)) \in Nat
    /\ InOrder(S) \in Seq(S)
    /\ \A k \in DOMAIN InOrder(S) : InOrder(S)[k] \in S
<1> SUFFICES ASSUME NEW n \in Nat, NEW S \in SUBSET (1 .. n)
             PROVE  /\ DOMAIN InOrder(S) = 1 .. Len(InOrder(S)) /\ Len(InOrder(S)) \in Nat
                    /\ InOrder(S) \in Seq(S)
                    /\ \A k \in DOMAIN InOrder(S) : InOrder(S)[k] \in S
  OBVIOUS
<1> DEFINE q == InOrder(S)
           m == Cardinality(S)
<1>1. m \in Nat /\ q \in [1 .. m -> S]
  BY PositionsFinite, InOrderIs DEF Rising
<1> HIDE DEF q, m
<1>2. q \in Seq(S) /\ Len(q) = m /\ DOMAIN q = 1 .. m /\ \A k \in DOMAIN q : q[k] \in S
  BY <1>1
<1>3. QED
  BY <1>1, <1>2 DEF q

(* A greater position goes behind those InOrder gives. *)
LEMMA InOrderAdds ==
  \A n \in Nat : \A S \in SUBSET (1 .. n) :
    InOrder(S \cup {n + 1}) = Append(InOrder(S), n + 1)
<1> SUFFICES ASSUME NEW n \in Nat, NEW S \in SUBSET (1 .. n)
             PROVE  InOrder(S \cup {n + 1}) = Append(InOrder(S), n + 1)
  OBVIOUS
<1> DEFINE R == S \cup {n + 1}
<1>1. R \in SUBSET (1 .. n + 1) /\ n + 1 \in Nat
  BY OneFurther
<1>2. Rising(Append(InOrder(S), n + 1), R)
  BY InOrderIs, RisingAdds
<1>3. Rising(InOrder(R), R)
  BY <1>1, InOrderIs
<1> HIDE DEF R
<1>4. InOrder(R) = Append(InOrder(S), n + 1)
  BY <1>1, <1>2, <1>3, RisingUnique
<1>5. QED
  BY <1>4 DEF R

(* Of no position there is nothing to order. *)
LEMMA InOrderNone == InOrder({}) = <<>>
<1>1. 0 \in Nat /\ {} \in SUBSET (1 .. 0)
  OBVIOUS
<1>2. InOrder({}) \in Seq({})
  BY <1>1, InOrderTyped
<1>3. QED
  BY <1>2

-----------------------------------------------------------------------------
(* What a file says when a line is added *)

(* The place line b has its closing brace. *)
Ended(f, b) == \E m \in b + 1 .. Len(f) : f[m].word = "}"

(* The words that give something to the block they stand in. *)
Giving == Settings \cup Places \cup {"port", "methods"}

(* A file with a line more. *)
LEMMA LineAdded ==
  ASSUME NEW f \in Seq(Lines), NEW l \in Lines
  PROVE  LET g == Append(f, l)
             n == Len(f)
         IN  /\ g \in Seq(Lines) /\ n \in Nat /\ Len(g) = n + 1
             /\ DOMAIN f = 1 .. n /\ DOMAIN g = 1 .. n + 1
             /\ g[n + 1] = l /\ n + 1 \in DOMAIN g
             /\ \A k \in DOMAIN f : k \in DOMAIN g /\ g[k] = f[k] /\ k \in Nat /\ k <= n
             /\ \A k \in DOMAIN g : k \in DOMAIN f \/ k = n + 1
<1> DEFINE g == Append(f, l)
           n == Len(f)
<1>1. /\ g \in Seq(Lines) /\ n \in Nat /\ Len(g) = n + 1
      /\ DOMAIN f = 1 .. n /\ DOMAIN g = 1 .. n + 1 /\ g[n + 1] = l
  OBVIOUS
<1>2. \A k \in 1 .. n : g[k] = f[k]
  OBVIOUS
<1> HIDE DEF g, n
<1>3. /\ n + 1 \in 1 .. n + 1
      /\ \A k \in 1 .. n : k \in 1 .. n + 1 /\ k \in Nat /\ k <= n
      /\ \A k \in 1 .. n + 1 : k \in 1 .. n \/ k = n + 1
  BY <1>1
<1>4. QED
  BY <1>1, <1>2, <1>3 DEF g, n

(* A line at the end, or none. *)
OneMore(f, yes) == IF yes THEN {Len(f) + 1} ELSE {}

(* What it holds. *)
LEMMA OneMoreIs == \A f, yes : \A k : k \in OneMore(f, yes) <=> yes /\ k = Len(f) + 1
BY DEF OneMore

(* A line that has one of the words is one more of them. *)
LEMMA LinesOfAdded ==
  ASSUME NEW f \in Seq(Lines), NEW l \in Lines, NEW words
  PROVE  LinesOf(Append(f, l), words) = LinesOf(f, words) \cup OneMore(f, l.word \in words)
<1> DEFINE g == Append(f, l)
           n == Len(f)
<1>1. /\ DOMAIN g = 1 .. n + 1 /\ g[n + 1] = l /\ n + 1 \in DOMAIN g
      /\ \A k \in DOMAIN f : k \in DOMAIN g /\ g[k] = f[k]
      /\ \A k \in DOMAIN g : k \in DOMAIN f \/ k = n + 1
  BY LineAdded
<1> HIDE DEF g, n
<1>2. LinesOf(g, words) = LinesOf(f, words) \cup (IF l.word \in words THEN {n + 1} ELSE {})
  BY <1>1 DEF LinesOf
<1>3. QED
  BY <1>2 DEF g, n, OneMore

(* A line is added to a block if there was no brace and it is none itself. *)
LEMMA BlockAdded ==
  ASSUME NEW f \in Seq(Lines), NEW l \in Lines, NEW b \in DOMAIN f
  PROVE  BlockLines(Append(f, l), b)
           = BlockLines(f, b) \cup OneMore(f, ~Ended(f, b) /\ l.word # "}")
<1> DEFINE g == Append(f, l)
           n == Len(f)
           open == ~Ended(f, b) /\ l.word # "}"
<1>1. /\ n \in Nat /\ DOMAIN f = 1 .. n /\ DOMAIN g = 1 .. n + 1
      /\ g[n + 1] = l /\ n + 1 \in DOMAIN g
      /\ \A k \in DOMAIN f : k \in DOMAIN g /\ g[k] = f[k] /\ k \in Nat /\ k <= n
      /\ \A k \in DOMAIN g : k \in DOMAIN f \/ k = n + 1
  BY LineAdded
<1> HIDE DEF g, n
<1>2. ASSUME NEW k \in DOMAIN f
      PROVE  k \in BlockLines(g, b) <=> k \in BlockLines(f, b)
  <2>1. \A m \in b + 1 .. k : m \in DOMAIN f
    BY <1>1
  <2>2. \A m \in b + 1 .. k : g[m] = f[m]
    BY <1>1, <2>1
  <2>3. QED
    BY <1>1, <2>2 DEF BlockLines
<1>3. n + 1 \in BlockLines(g, b) <=> open
  <2>1. n + 1 > b
    BY <1>1
  <2>2. \A m : m \in b + 1 .. n + 1 <=> m \in b + 1 .. n \/ m = n + 1
    BY <1>1
  <2>3. \A m \in b + 1 .. n : g[m] = f[m]
    <3>1. \A m \in b + 1 .. n : m \in DOMAIN f
      BY <1>1
    <3>2. QED
      BY <1>1, <3>1
  <2>4. (\A m \in b + 1 .. n + 1 : g[m].word # "}") <=> open
    BY <1>1, <2>2, <2>3 DEF Ended, n
  <2>5. QED
    BY <1>1, <2>1, <2>4 DEF BlockLines
<1>4. BlockLines(g, b) \subseteq DOMAIN g /\ BlockLines(f, b) \subseteq DOMAIN f
  BY DEF BlockLines
<1> HIDE DEF open
<1>5. n + 1 \notin DOMAIN f
  BY <1>1
<1>6. BlockLines(g, b) = BlockLines(f, b) \cup (IF open THEN {n + 1} ELSE {})
  BY <1>1, <1>2, <1>3, <1>4, <1>5
<1>7. QED
  BY <1>6 DEF g, n, open, OneMore

(* Nothing stands behind the last line. *)
LEMMA LastLineEmpty ==
  ASSUME NEW f \in Seq(Lines), NEW l \in Lines
  PROVE  /\ BlockLines(Append(f, l), Len(f) + 1) = {}
         /\ ServerLines(Append(f, l), Len(f) + 1) = {}
<1> DEFINE g == Append(f, l)
           n == Len(f)
<1>1. n \in Nat /\ DOMAIN g = 1 .. n + 1
  BY LineAdded
<1> HIDE DEF g, n
<1>2. \A k \in DOMAIN g : ~(k > n + 1)
  BY <1>1
<1>3. QED
  BY <1>2 DEF BlockLines, ServerLines, g, n

(* A line is added to a server if no other has begun and no block is open. *)
Joins(f, l, s) ==
  /\ LinesOf(f, {"server"}) \cap (s + 1 .. Len(f)) = {} /\ l.word # "server"
  /\ \A b \in LinesOf(f, Places) : Ended(f, b) \/ l.word = "}"

(* The lines of a server with the one that joins it. *)
LEMMA ServerAdded ==
  ASSUME NEW f \in Seq(Lines), NEW l \in Lines, NEW s \in DOMAIN f
  PROVE  ServerLines(Append(f, l), s) = ServerLines(f, s) \cup OneMore(f, Joins(f, l, s))
<1> DEFINE g == Append(f, l)
           n == Len(f)
           L(h) == LinesOf(h, {"server"})
<1>1. /\ n \in Nat /\ DOMAIN f = 1 .. n /\ DOMAIN g = 1 .. n + 1
      /\ g[n + 1] = l /\ n + 1 \in DOMAIN g
      /\ \A k \in DOMAIN f : k \in DOMAIN g /\ g[k] = f[k] /\ k \in Nat /\ k <= n
      /\ \A k \in DOMAIN g : k \in DOMAIN f \/ k = n + 1
  BY LineAdded
<1>2. \A words : LinesOf(f, words) \subseteq DOMAIN f
  BY DEF LinesOf
<1>3. n + 1 \notin DOMAIN f
  BY <1>1
<1>4. \A k \in DOMAIN f :
        \A words : k \in LinesOf(g, words) <=> k \in LinesOf(f, words)
  BY <1>1 DEF LinesOf
<1>5. \A words : n + 1 \in LinesOf(g, words) <=> l.word \in words
  BY <1>1 DEF LinesOf
<1>6. ASSUME NEW b \in DOMAIN f
      PROVE  /\ \A k \in DOMAIN f : k \in BlockLines(g, b) <=> k \in BlockLines(f, b)
             /\ n + 1 \in BlockLines(g, b) <=> ~Ended(f, b) /\ l.word # "}"
  <2>1. BlockLines(f, b) \subseteq DOMAIN f
    BY DEF BlockLines
  <2> DEFINE yes == ~Ended(f, b) /\ l.word # "}"
  <2>2. BlockLines(g, b) = BlockLines(f, b) \cup OneMore(f, yes)
    BY BlockAdded
  <2>3. \A k : k \in OneMore(f, yes) <=> yes /\ k = n + 1
    BY OneMoreIs
  <2> DEFINE one == OneMore(f, yes)
  <2>4. \A k : k \in one <=> (~Ended(f, b) /\ l.word # "}") /\ k = n + 1
    BY <2>3
  <2>5. BlockLines(g, b) = BlockLines(f, b) \cup one
    BY <2>2
  <2> DEFINE new == BlockLines(g, b)
             old == BlockLines(f, b)
             last == n + 1
  <2>6. /\ \A k \in one : k = last
        /\ last \in one <=> ~Ended(f, b) /\ l.word # "}"
        /\ new = old \cup one /\ old \subseteq DOMAIN f /\ last \notin DOMAIN f
    BY <1>3, <2>1, <2>4, <2>5
  <2> HIDE DEF one, yes, new, old, last
  <2>7. \A k \in DOMAIN f : k \in new <=> k \in old
    BY <2>6
  <2>8. last \in new <=> ~Ended(f, b) /\ l.word # "}"
    BY <2>6
  <2>9. QED
    BY <2>7, <2>8 DEF new, old, last
<1>7. \A b \in DOMAIN f : \A k \in DOMAIN f :
        k \in BlockLines(g, b) <=> k \in BlockLines(f, b)
  BY <1>6
<1>8. \A b \in DOMAIN f : n + 1 \in BlockLines(g, b) <=> ~Ended(f, b) /\ l.word # "}"
  BY <1>6
<1>9. BlockLines(g, n + 1) = {}
  BY LastLineEmpty
<1>10. \A k \in DOMAIN g : \A b \in LinesOf(g, Places) :
         b \in LinesOf(f, Places) \/ k \notin BlockLines(g, b)
  <2> SUFFICES ASSUME NEW k \in DOMAIN g, NEW b \in LinesOf(g, Places),
                      b \notin LinesOf(f, Places)
               PROVE  k \notin BlockLines(g, b)
    OBVIOUS
  <2>1. b \in DOMAIN g
    BY DEF LinesOf
  <2>2. b = n + 1
    BY <1>1, <1>4, <2>1
  <2>3. QED
    BY <1>9, <2>2
<1> HIDE DEF g, n
<1>11. ASSUME NEW k \in DOMAIN f
       PROVE  k \in ServerLines(g, s) <=> k \in ServerLines(f, s)
  <2>1. L(g) \cap (s + 1 .. k) = L(f) \cap (s + 1 .. k)
    <3>1. \A m \in s + 1 .. k : m \in DOMAIN f
      BY <1>1
    <3>2. QED
      BY <1>4, <3>1
  <2>2. (\A b \in LinesOf(g, Places) : k \notin BlockLines(g, b))
        <=> (\A b \in LinesOf(f, Places) : k \notin BlockLines(f, b))
    <3>1. \A b \in LinesOf(f, Places) : b \in DOMAIN f /\ b \in LinesOf(g, Places)
      BY <1>2, <1>4
    <3>2. k \in DOMAIN g
      BY <1>1
    <3>3. QED
      BY <1>7, <1>10, <3>1, <3>2
  <2>3. QED
    BY <1>1, <2>1, <2>2 DEF ServerLines
<1>12. n + 1 \in ServerLines(g, s) <=> Joins(f, l, s)
  <2>1. n + 1 > s
    BY <1>1
  <2>2. L(g) \cap (s + 1 .. n + 1) = {} <=> L(f) \cap (s + 1 .. n) = {} /\ l.word # "server"
    <3>1. \A m : m \in s + 1 .. n + 1 <=> m \in s + 1 .. n \/ m = n + 1
      BY <1>1
    <3>2. \A m \in s + 1 .. n : m \in DOMAIN f
      BY <1>1
    <3>3. n + 1 \in L(g) <=> l.word = "server"
      BY <1>5
    <3>4. \A m \in s + 1 .. n : m \in L(g) <=> m \in L(f)
      BY <1>4, <3>2
    <3> HIDE DEF L
    <3>5. QED
      BY <3>1, <3>3, <3>4
  <2>3. (\A b \in LinesOf(g, Places) : n + 1 \notin BlockLines(g, b))
        <=> (\A b \in LinesOf(f, Places) : Ended(f, b) \/ l.word = "}")
    <3>1. \A b \in LinesOf(f, Places) : b \in DOMAIN f /\ b \in LinesOf(g, Places)
      BY <1>2, <1>4
    <3>2. QED
      BY <1>1, <1>8, <1>10, <3>1
  <2>4. QED
    BY <1>1, <2>1, <2>2, <2>3 DEF ServerLines, Joins, n
<1>13. ServerLines(g, s) \subseteq DOMAIN g /\ ServerLines(f, s) \subseteq DOMAIN f
  BY DEF ServerLines
<1> DEFINE joins == Joins(f, l, s)
<1> HIDE DEF joins
<1>14. ServerLines(g, s) = ServerLines(f, s) \cup (IF joins THEN {n + 1} ELSE {})
  BY <1>1, <1>3, <1>11, <1>12, <1>13 DEF joins
<1>15. QED
  BY <1>14 DEF g, n, joins, OneMore

-----------------------------------------------------------------------------
(* What the lines of a block say when a line is added *)

(* Some positions have a greatest. *)
LEMMA GreatestExists ==
  \A n \in Nat : \A S \in SUBSET (1 .. n) : S # {} => \E x \in S : \A y \in S : x >= y
<1> DEFINE Has(S) == S # {} => \E x \in S : \A y \in S : x >= y
           T == {n \in Nat : \A S \in SUBSET (1 .. n) : Has(S)}
<1>1. 0 \in T
  <2>1. \A S \in SUBSET (1 .. 0) : S = {}
    OBVIOUS
  <2>2. \A S \in SUBSET (1 .. 0) : Has(S)
    BY <2>1
  <2>3. QED
    BY <2>2
<1>2. ASSUME NEW n \in Nat, n \in T PROVE n + 1 \in T
  <2> SUFFICES ASSUME NEW S \in SUBSET (1 .. n + 1) PROVE Has(S)
    OBVIOUS
  <2>1. CASE n + 1 \in S
    <3>1. \A y \in S : n + 1 >= y
      OBVIOUS
    <3>2. QED
      BY <2>1, <3>1
  <2>2. CASE n + 1 \notin S
    <3>1. S \in SUBSET (1 .. n)
      BY <2>2
    <3>2. QED
      BY <1>2, <3>1
  <2>3. QED
    BY <2>1, <2>2
<1> HIDE DEF T
<1>3. Nat \subseteq T
  BY <1>1, <1>2, SetInduction
<1>4. QED
  BY <1>3 DEF T

(* Max is it. *)
LEMMA MaxIs ==
  \A n \in Nat : \A S \in SUBSET (1 .. n) : S # {} => Max(S) \in S /\ \A y \in S : Max(S) >= y
<1> SUFFICES ASSUME NEW n \in Nat, NEW S \in SUBSET (1 .. n), S # {}
             PROVE  Max(S) \in S /\ \A y \in S : Max(S) >= y
  OBVIOUS
<1>1. PICK x \in S : \A y \in S : x >= y
  BY GreatestExists
<1>2. QED
  BY <1>1 DEF Max

(* The lines that have a word. *)
WordAdded(f, l, X, word) ==
  LET g == Append(f, l)
      n == Len(f)
      W == Written(f, word, X)
  IN  /\ Written(g, word, X) = W
      /\ l.word = word => Written(g, word, X \cup {n + 1}) = W \cup {n + 1}
      /\ l.word # word => Written(g, word, X \cup {n + 1}) = W
      /\ W \in SUBSET DOMAIN f /\ W \in SUBSET (1 .. n) /\ n \in Nat

(* A line that has the word is one more of them. *)
LEMMA WrittenAdded ==
  ASSUME NEW f \in Seq(Lines), NEW l \in Lines, NEW X \in SUBSET DOMAIN f, NEW word
  PROVE  WordAdded(f, l, X, word)
<1> DEFINE g == Append(f, l)
           n == Len(f)
<1>1. /\ DOMAIN f = 1 .. n /\ n \in Nat
      /\ g[n + 1] = l /\ \A k \in X : g[k] = f[k]
  BY LineAdded
<1> HIDE DEF g, n
<1>2. QED
  BY <1>1 DEF WordAdded, Written, g, n

(* The value of a setting is the argument of the last line that has it. *)
LEMMA SettingAdded ==
  ASSUME NEW f \in Seq(Lines), NEW l \in Lines, NEW X \in SUBSET DOMAIN f, NEW word, NEW default
  PROVE  LET g == Append(f, l)
             v == Setting(f, word, X, default)
         IN  /\ Setting(g, word, X, default) = v
             /\ Setting(g, word, X \cup {Len(f) + 1}, default) = IF l.word = word THEN l.arg ELSE v
<1> DEFINE g == Append(f, l)
           n == Len(f)
           W == Written(f, word, X)
           Y == X \cup {n + 1}
<1>1. /\ Written(g, word, X) = W
      /\ l.word = word => Written(g, word, Y) = W \cup {n + 1}
      /\ l.word # word => Written(g, word, Y) = W
      /\ W \in SUBSET DOMAIN f /\ W \in SUBSET (1 .. n) /\ n \in Nat
  <2>1. WordAdded(f, l, X, word)
    BY WrittenAdded
  <2>2. QED
    BY <2>1 DEF WordAdded
<1>2. g[n + 1] = l /\ \A k \in DOMAIN f : g[k] = f[k]
  BY LineAdded
<1>3. W # {} => Max(W) \in W
  BY <1>1, MaxIs
<1>4. Max(W \cup {n + 1}) = n + 1
  <2> DEFINE Z == W \cup {n + 1}
  <2>1. Z \in SUBSET (1 .. n + 1) /\ n + 1 \in Nat /\ Z # {}
    BY <1>1, OneFurther
  <2>2. n + 1 \in Z /\ \A y \in Z : y \in Nat /\ y <= n + 1
    <3>1. \A y \in W : y \in Nat /\ y <= n + 1
      BY <1>1
    <3>2. n + 1 \in Nat /\ n + 1 <= n + 1
      BY <1>1
    <3>3. QED
      BY <3>1, <3>2
  <2> HIDE DEF Z, W
  <2>3. Max(Z) \in Z /\ \A y \in Z : Max(Z) >= y
    BY <2>1, MaxIs
  <2>4. Max(Z) >= n + 1 /\ Max(Z) <= n + 1 /\ Max(Z) \in Nat
    BY <2>2, <2>3
  <2>5. Max(Z) = n + 1
    BY <1>1, <2>4
  <2>6. QED
    BY <2>5 DEF Z
<1> HIDE DEF g, n, W, Y
<1>5. W # {} => g[Max(W)] = f[Max(W)]
  BY <1>1, <1>2, <1>3
<1>6. Setting(g, word, X, default) = Setting(f, word, X, default)
  BY <1>1, <1>5 DEF Setting, W
<1>7. CASE l.word = word
  <2>1. Written(g, word, Y) = W \cup {n + 1} /\ W \cup {n + 1} # {}
    BY <1>1, <1>7
  <2>2. Setting(g, word, Y, default) = g[n + 1].arg
    BY <1>4, <2>1 DEF Setting
  <2>3. QED
    BY <1>2, <1>6, <1>7, <2>2 DEF g, n, Y
<1>8. CASE l.word # word
  <2>1. Written(g, word, Y) = W
    BY <1>1, <1>8
  <2>2. Setting(g, word, Y, default) = Setting(f, word, X, default)
    BY <1>5, <2>1 DEF Setting, W
  <2>3. QED
    BY <1>6, <1>8, <2>2 DEF g, n, Y
<1>9. QED
  BY <1>7, <1>8

(* What stands on some lines, in their order, and with a last line. *)
Lists(S, n, old, new) ==
  LET w == InOrder(S)
      z == InOrder(S \cup {n + 1})
  IN  /\ [k \in DOMAIN w |-> new[w[k]]] = [k \in DOMAIN w |-> old[w[k]]]
      /\ [k \in DOMAIN z |-> new[z[k]]] = Append([k \in DOMAIN w |-> old[w[k]]], new[n + 1])

(* A last position puts its element behind the others. *)
LEMMA ListAdds ==
  ASSUME NEW n \in Nat, NEW S \in SUBSET (1 .. n), NEW old, NEW new,
         \A k \in S : new[k] = old[k]
  PROVE  Lists(S, n, old, new)
<1> DEFINE w == InOrder(S)
           z == InOrder(S \cup {n + 1})
           m == Len(w)
           u == [k \in DOMAIN w |-> old[w[k]]]
           v == [k \in DOMAIN z |-> new[z[k]]]
<1>1. /\ DOMAIN w = 1 .. m /\ m \in Nat /\ w \in Seq(S)
      /\ \A k \in DOMAIN w : w[k] \in S
  BY InOrderTyped
<1>2. z = Append(w, n + 1)
  BY InOrderAdds
<1> HIDE DEF w, z
<1>3. DOMAIN z = 1 .. m + 1 /\ z[m + 1] = n + 1 /\ \A k \in 1 .. m : z[k] = w[k]
  BY <1>1, <1>2
<1>4. [k \in DOMAIN w |-> new[w[k]]] = u
  BY <1>1
<1>5. u \in Seq({old[x] : x \in S}) /\ Len(u) = m /\ \A k \in 1 .. m : u[k] = old[w[k]]
  <2> HIDE DEF m
  <2>1. u = [k \in 1 .. m |-> old[w[k]]] /\ \A k \in 1 .. m : old[w[k]] \in {old[x] : x \in S}
    BY <1>1
  <2>2. u \in [1 .. m -> {old[x] : x \in S}]
    BY <2>1
  <2>3. QED
    BY <1>1, <2>1, <2>2
<1>6. v = [k \in 1 .. m + 1 |-> new[z[k]]]
  BY <1>3
<1> HIDE DEF u, v, m
<1>7. \A k \in 1 .. m + 1 : new[z[k]] = Append(u, new[n + 1])[k]
  <2> SUFFICES ASSUME NEW k \in 1 .. m + 1 PROVE new[z[k]] = Append(u, new[n + 1])[k]
    OBVIOUS
  <2>1. CASE k = m + 1
    <3>1. Append(u, new[n + 1])[m + 1] = new[n + 1]
      BY <1>1, <1>5
    <3>2. QED
      BY <1>3, <2>1, <3>1
  <2>2. CASE k # m + 1
    <3>1. k \in 1 .. m
      BY <1>1, <2>2
    <3>2. Append(u, new[n + 1])[k] = u[k]
      BY <1>1, <1>5, <3>1
    <3>3. w[k] \in S /\ new[z[k]] = new[w[k]]
      BY <1>1, <1>3, <3>1
    <3>4. QED
      BY <1>5, <3>1, <3>2, <3>3
  <2>3. QED
    BY <2>1, <2>2
<1>8. Append(u, new[n + 1]) = [k \in 1 .. m + 1 |-> Append(u, new[n + 1])[k]]
  BY <1>1, <1>5
<1>9. v = Append(u, new[n + 1])
  BY <1>6, <1>7, <1>8
<1>10. QED
  BY <1>4, <1>9 DEF Lists, u, v, w, z

(* The arguments of the lines that have a word. *)
ArgsSame(f, l, X, word) ==
  LET g == Append(f, l)
      a == ArgsOf(f, word, X)
      more == ArgsOf(g, word, X \cup {Len(f) + 1})
  IN  /\ ArgsOf(g, word, X) = a
      /\ l.word = word => more = Append(a, l.arg)
      /\ l.word # word => more = a

(* A line that has the word puts its argument behind the others. *)
LEMMA ArgsAdded ==
  ASSUME NEW f \in Seq(Lines), NEW l \in Lines, NEW X \in SUBSET DOMAIN f, NEW word
  PROVE  ArgsSame(f, l, X, word)
<1> DEFINE g == Append(f, l)
           n == Len(f)
           W == Written(f, word, X)
           Y == X \cup {n + 1}
           old == [k \in DOMAIN f |-> f[k].arg]
           new == [k \in DOMAIN g |-> g[k].arg]
           w == InOrder(W)
           z == InOrder(W \cup {n + 1})
<1>1. /\ Written(g, word, X) = W
      /\ l.word = word => Written(g, word, Y) = W \cup {n + 1}
      /\ l.word # word => Written(g, word, Y) = W
      /\ W \in SUBSET DOMAIN f /\ W \in SUBSET (1 .. n) /\ n \in Nat
  <2>1. WordAdded(f, l, X, word)
    BY WrittenAdded
  <2>2. QED
    BY <2>1 DEF WordAdded
<1>2. /\ n + 1 \in DOMAIN g /\ g[n + 1] = l
      /\ \A k \in DOMAIN f : k \in DOMAIN g /\ g[k] = f[k]
  BY LineAdded
<1>3. \A k \in DOMAIN w : w[k] \in W
  BY <1>1, InOrderTyped
<1>4. \A k \in DOMAIN z : z[k] \in W \cup {n + 1}
  <2>1. W \cup {n + 1} \in SUBSET (1 .. n + 1) /\ n + 1 \in Nat
    BY <1>1, OneFurther
  <2>2. QED
    BY <2>1, InOrderTyped
<1> HIDE DEF g, n, W, Y, w, z
<1>5. \A k \in W : old[k] = f[k].arg /\ new[k] = g[k].arg /\ new[k] = old[k]
  BY <1>1, <1>2
<1>6. \A k \in W \cup {n + 1} : new[k] = g[k].arg
  BY <1>2, <1>5
<1>7. new[n + 1] = l.arg
  BY <1>2
<1> HIDE DEF old, new
<1>8. /\ [k \in DOMAIN w |-> new[w[k]]] = [k \in DOMAIN w |-> old[w[k]]]
      /\ [k \in DOMAIN z |-> new[z[k]]] = Append([k \in DOMAIN w |-> old[w[k]]], new[n + 1])
  <2>1. Lists(W, n, old, new)
    BY <1>1, <1>5, ListAdds
  <2>2. QED
    BY <2>1 DEF Lists, w, z
<1>9. /\ [k \in DOMAIN w |-> f[w[k]].arg] = [k \in DOMAIN w |-> old[w[k]]]
      /\ [k \in DOMAIN w |-> g[w[k]].arg] = [k \in DOMAIN w |-> new[w[k]]]
      /\ [k \in DOMAIN z |-> g[z[k]].arg] = [k \in DOMAIN z |-> new[z[k]]]
  BY <1>3, <1>4, <1>5, <1>6
<1>10. ArgsOf(f, word, X) = [k \in DOMAIN w |-> f[w[k]].arg]
  BY DEF ArgsOf, W, w
<1>11. ArgsOf(g, word, X) = ArgsOf(f, word, X)
  <2>1. ArgsOf(g, word, X) = [k \in DOMAIN w |-> g[w[k]].arg]
    BY <1>1 DEF ArgsOf, w
  <2>2. QED
    BY <1>8, <1>9, <1>10, <2>1
<1>12. ASSUME l.word = word
       PROVE  ArgsOf(g, word, Y) = Append(ArgsOf(f, word, X), l.arg)
  <2>1. ArgsOf(g, word, Y) = [k \in DOMAIN z |-> g[z[k]].arg]
    BY <1>1, <1>12 DEF ArgsOf, z
  <2>2. QED
    BY <1>7, <1>8, <1>9, <1>10, <2>1
<1>13. ASSUME l.word # word
       PROVE  ArgsOf(g, word, Y) = ArgsOf(f, word, X)
  <2>1. ArgsOf(g, word, Y) = [k \in DOMAIN w |-> g[w[k]].arg]
    BY <1>1, <1>13 DEF ArgsOf, w
  <2>2. QED
    BY <1>8, <1>9, <1>10, <2>1
<1>14. QED
  BY <1>11, <1>12, <1>13 DEF ArgsSame, g, n, Y

(* Two files say the same on some lines of each. *)
SaysSame(f, X, g, Y) ==
  \A word \in Giving :
    /\ Written(g, word, Y) = Written(f, word, X)
    /\ ArgsOf(g, word, Y) = ArgsOf(f, word, X)
    /\ \A default : Setting(g, word, Y, default) = Setting(f, word, X, default)

(* A line that gives nothing says nothing. *)
LEMMA SaysOn ==
  ASSUME NEW f \in Seq(Lines), NEW l \in Lines, NEW X \in SUBSET DOMAIN f
  PROVE  /\ SaysSame(f, X, Append(f, l), X)
         /\ l.word \notin Giving => SaysSame(f, X, Append(f, l), X \cup {Len(f) + 1})
<1>1. ASSUME NEW word \in Giving
      PROVE  /\ WordAdded(f, l, X, word) /\ ArgsSame(f, l, X, word)
             /\ \A default :
                  LET g == Append(f, l)
                      v == Setting(f, word, X, default)
                  IN  /\ Setting(g, word, X, default) = v
                      /\ Setting(g, word, X \cup {Len(f) + 1}, default)
                           = IF l.word = word THEN l.arg ELSE v
  BY WrittenAdded, ArgsAdded, SettingAdded
<1>2. SaysSame(f, X, Append(f, l), X)
  BY <1>1 DEF SaysSame, WordAdded, ArgsSame
<1>3. ASSUME l.word \notin Giving
      PROVE  SaysSame(f, X, Append(f, l), X \cup {Len(f) + 1})
  <2>1. \A word \in Giving : l.word # word
    BY <1>3
  <2>2. QED
    BY <1>1, <2>1 DEF SaysSame, WordAdded, ArgsSame
<1>4. QED
  BY <1>2, <1>3

(* A brace ends every block that is open, and no line its own. *)
LEMMA EndedAdded ==
  ASSUME NEW f \in Seq(Lines), NEW l \in Lines
  PROVE  /\ \A b \in DOMAIN f : Ended(Append(f, l), b) <=> Ended(f, b) \/ l.word = "}"
         /\ ~Ended(Append(f, l), Len(f) + 1)
<1> DEFINE g == Append(f, l)
           n == Len(f)
<1>1. /\ n \in Nat /\ DOMAIN f = 1 .. n /\ Len(g) = n + 1
      /\ g[n + 1] = l /\ \A k \in DOMAIN f : g[k] = f[k] /\ k \in Nat /\ k <= n
  BY LineAdded
<1> HIDE DEF g, n
<1>2. ASSUME NEW b \in DOMAIN f
      PROVE  Ended(g, b) <=> Ended(f, b) \/ l.word = "}"
  <2>1. \A m : m \in b + 1 .. n + 1 <=> m \in b + 1 .. n \/ m = n + 1
    BY <1>1
  <2>2. \A m \in b + 1 .. n : g[m] = f[m]
    <3>1. \A m \in b + 1 .. n : m \in DOMAIN f
      BY <1>1
    <3>2. QED
      BY <1>1, <3>1
  <2>3. g[n + 1] = l /\ Len(g) = n + 1
    BY <1>1
  <2>4. Ended(g, b) <=> \E m \in b + 1 .. n + 1 : g[m].word = "}"
    BY <2>3 DEF Ended
  <2>5. Ended(f, b) <=> \E m \in b + 1 .. n : f[m].word = "}"
    BY DEF Ended, n
  <2>6. n + 1 \in b + 1 .. n + 1
    BY <1>1
  <2>7. QED
    BY <2>1, <2>2, <2>3, <2>4, <2>5, <2>6
<1>3. ~Ended(g, n + 1)
  <2>1. \A m : m \notin (n + 1) + 1 .. n + 1
    BY <1>1
  <2>2. QED
    BY <1>1, <2>1 DEF Ended
<1>4. QED
  BY <1>2, <1>3 DEF g, n

(* A line that is added is before none. *)
LEMMA NotBelow == \A n, b \in Nat : b <= n => ~(n + 1 < b)
OBVIOUS

(* What is meant by a location whose block gets no more lines. *)
LEMMA PlaceSame ==
  ASSUME NEW f \in Seq(Lines), NEW l \in Lines, NEW s \in DOMAIN f, NEW b \in DOMAIN f,
         Ended(f, b) \/ l.word = "}"
  PROVE  MeantPlace(Append(f, l), s, b, "./") = MeantPlace(f, s, b, "./")
<1> DEFINE g == Append(f, l)
           n == Len(f)
           own == BlockLines(f, b)
           before == {k \in ServerLines(f, s) : k < b}
<1>1. g[b] = f[b] /\ n \in Nat /\ b <= n /\ b \in Nat
  BY LineAdded
<1>2. BlockLines(g, b) = own /\ own \in SUBSET DOMAIN f
  <2>1. BlockLines(g, b) = own \cup OneMore(f, ~Ended(f, b) /\ l.word # "}")
    BY BlockAdded
  <2>2. OneMore(f, ~Ended(f, b) /\ l.word # "}") = {}
    BY OneMoreIs
  <2>3. QED
    BY <2>1, <2>2 DEF BlockLines
<1>3. {k \in ServerLines(g, s) : k < b} = before /\ before \in SUBSET DOMAIN f
  <2>1. ServerLines(g, s) = ServerLines(f, s) \cup OneMore(f, Joins(f, l, s))
    BY ServerAdded
  <2> DEFINE one == OneMore(f, Joins(f, l, s))
  <2>2. \A k \in one : ~(k < b)
    <3>1. \A k \in one : k = n + 1
      BY OneMoreIs
    <3>2. ~(n + 1 < b)
      BY <1>1, NotBelow
    <3> HIDE DEF one, n
    <3>3. QED
      BY <3>1, <3>2
  <2>3. ServerLines(f, s) \subseteq DOMAIN f
    BY DEF ServerLines
  <2>4. QED
    BY <2>1, <2>2, <2>3
<1> HIDE DEF n, own, before
<1>4. SaysSame(f, own, g, own) /\ SaysSame(f, before, g, before)
  BY <1>2, <1>3, SaysOn
<1> HIDE DEF g
<1>5. /\ \A word \in {"limit", "buffer", "root"} : \A default :
           /\ Setting(g, word, own, default) = Setting(f, word, own, default)
           /\ Setting(g, word, before, default) = Setting(f, word, before, default)
      /\ ArgsOf(g, "methods", own) = ArgsOf(f, "methods", own)
  BY <1>4 DEF SaysSame, Giving, Settings
<1>6. /\ \A word \in {"limit", "buffer"} : \A default :
           /\ Size(g, word, own, default) = Size(f, word, own, default)
           /\ Size(g, word, before, default) = Size(f, word, before, default)
  BY <1>5 DEF Size
<1>7. MeantPlace(g, s, b, "./") = MeantPlace(f, s, b, "./")
  BY <1>1, <1>2, <1>3, <1>5, <1>6 DEF MeantPlace, own, before
<1>8. QED
  BY <1>7 DEF g

-----------------------------------------------------------------------------
(* What the readers have made of a file *)

Plain(f) == \A k \in LinesOf(f, {"server"}) : ~f[k].note
AllEnded(f, but) == \A b \in LinesOf(f, Places) \ but : Ended(f, b)

PlacesAt(f, s, S) == LET w == InOrder(S) IN [k \in DOMAIN w |-> MeantPlace(f, s, w[k], "./")]

(* The server that begins at line s, as the readers build it. *)
Built(f, s) == [MeantServer(f, s, "./") EXCEPT !.locations = <<>>]
ServersAt(f, S) == LET w == InOrder(S) IN [k \in DOMAIN w |-> Built(f, w[k])]

(* A place whose block has no brace yet takes no part. *)
PlacesOf(f, s, kind, but) == Written(f, kind, ServerLines(f, s)) \ but

ServerSoFar(f, s, but) ==
  LET own == ServerLines(f, s)
  IN  [port |-> ArgsOf(f, "port", own), limit |-> Setting(f, "limit", own, 0),
       buffer |-> Setting(f, "buffer", own, 0), root |-> Setting(f, "root", own, "./"),
       directories |-> PlacesAt(f, s, PlacesOf(f, s, "location", but)),
       files |-> PlacesAt(f, s, PlacesOf(f, s, "file", but)), locations |-> <<>>]

PlaceSoFar(f, b) ==
  LET own == BlockLines(f, b)
  IN  [kind |-> f[b].word, limit |-> Setting(f, "limit", own, 0),
       buffer |-> Setting(f, "buffer", own, 0), root |-> Setting(f, "root", own, ""),
       methods |-> ArgsOf(f, "methods", own)]

(* The lines of a block or server are lines of the file. *)
LEMMA SetsOfLines ==
  \A f \in Seq(Lines) :
    /\ Len(f) \in Nat /\ DOMAIN f = 1 .. Len(f)
    /\ \A words : LinesOf(f, words) \in SUBSET (1 .. Len(f))
    /\ \A s : ServerLines(f, s) \in SUBSET (1 .. Len(f))
    /\ \A b : BlockLines(f, b) \in SUBSET (1 .. Len(f))
    /\ \A s, kind, but : PlacesOf(f, s, kind, but) \in SUBSET (1 .. Len(f))
<1> SUFFICES ASSUME NEW f \in Seq(Lines)
             PROVE  /\ Len(f) \in Nat /\ DOMAIN f = 1 .. Len(f)
                    /\ \A words : LinesOf(f, words) \in SUBSET DOMAIN f
                    /\ \A s : ServerLines(f, s) \in SUBSET DOMAIN f
                    /\ \A b : BlockLines(f, b) \in SUBSET DOMAIN f
                    /\ \A s, kind, but : PlacesOf(f, s, kind, but) \in SUBSET DOMAIN f
  OBVIOUS
<1>1. Len(f) \in Nat /\ DOMAIN f = 1 .. Len(f)
  OBVIOUS
<1>2. QED
  BY <1>1 DEF LinesOf, ServerLines, BlockLines, PlacesOf, Written

(* The places of a server whose blocks get no more lines. *)
LEMMA PlacesKept ==
  ASSUME NEW f \in Seq(Lines), NEW l \in Lines, NEW s \in DOMAIN f, NEW S \in SUBSET DOMAIN f,
         \A b \in S : Ended(f, b) \/ l.word = "}"
  PROVE  PlacesAt(Append(f, l), s, S) = PlacesAt(f, s, S)
<1> DEFINE w == InOrder(S)
<1>1. \A k \in DOMAIN w : w[k] \in S
  BY SetsOfLines, InOrderTyped
<1> HIDE DEF w
<1>2. \A b \in S : MeantPlace(Append(f, l), s, b, "./") = MeantPlace(f, s, b, "./")
  BY PlaceSame
<1>3. [k \in DOMAIN w |-> MeantPlace(Append(f, l), s, w[k], "./")]
        = [k \in DOMAIN w |-> MeantPlace(f, s, w[k], "./")]
  BY <1>1, <1>2
<1>4. QED
  BY <1>3 DEF PlacesAt, w

(* One more place, behind those there are. *)
LEMMA PlacesGrow ==
  ASSUME NEW f \in Seq(Lines), NEW s, NEW b \in Nat \ {0}, NEW S \in SUBSET (1 .. b - 1)
  PROVE  PlacesAt(f, s, S \cup {b}) = Append(PlacesAt(f, s, S), MeantPlace(f, s, b, "./"))
<1> DEFINE n == b - 1
           old == [k \in 1 .. b |-> MeantPlace(f, s, k, "./")]
           w == InOrder(S)
           z == InOrder(S \cup {b})
<1>1. n \in Nat /\ n + 1 = b /\ S \in SUBSET (1 .. n)
  OBVIOUS
<1>2. S \cup {b} \in SUBSET (1 .. b)
  OBVIOUS
<1>3. \A k \in DOMAIN w : w[k] \in S
  BY <1>1, InOrderTyped
<1>4. \A k \in DOMAIN z : z[k] \in S \cup {b}
  BY <1>2, InOrderTyped
<1>5. \A k \in S \cup {b} : old[k] = MeantPlace(f, s, k, "./")
  BY <1>2
<1> HIDE DEF w, z, old, n
<1>6. [k \in DOMAIN z |-> old[z[k]]] = Append([k \in DOMAIN w |-> old[w[k]]], old[b])
  <2>1. Lists(S, n, old, old)
    BY <1>1, ListAdds
  <2>2. QED
    BY <1>1, <2>1 DEF Lists, w, z
<1>7. /\ [k \in DOMAIN w |-> old[w[k]]] = [k \in DOMAIN w |-> MeantPlace(f, s, w[k], "./")]
      /\ [k \in DOMAIN z |-> old[z[k]]] = [k \in DOMAIN z |-> MeantPlace(f, s, z[k], "./")]
      /\ old[b] = MeantPlace(f, s, b, "./")
  BY <1>3, <1>4, <1>5
<1>8. QED
  BY <1>6, <1>7 DEF PlacesAt, w, z

(* One more server, behind those there are. *)
LEMMA ServersGrow ==
  ASSUME NEW f \in Seq(Lines), NEW s \in Nat \ {0}, NEW S \in SUBSET (1 .. s - 1)
  PROVE  ServersAt(f, S \cup {s}) = Append(ServersAt(f, S), Built(f, s))
<1> DEFINE n == s - 1
           old == [k \in 1 .. s |-> Built(f, k)]
           w == InOrder(S)
           z == InOrder(S \cup {s})
<1>1. n \in Nat /\ n + 1 = s /\ S \in SUBSET (1 .. n)
  OBVIOUS
<1>2. S \cup {s} \in SUBSET (1 .. s)
  OBVIOUS
<1>3. \A k \in DOMAIN w : w[k] \in S
  BY <1>1, InOrderTyped
<1>4. \A k \in DOMAIN z : z[k] \in S \cup {s}
  BY <1>2, InOrderTyped
<1>5. \A k \in S \cup {s} : old[k] = Built(f, k)
  BY <1>2
<1> HIDE DEF w, z, old, n
<1>6. [k \in DOMAIN z |-> old[z[k]]] = Append([k \in DOMAIN w |-> old[w[k]]], old[s])
  <2>1. Lists(S, n, old, old)
    BY <1>1, ListAdds
  <2>2. QED
    BY <1>1, <2>1 DEF Lists, w, z
<1>7. /\ [k \in DOMAIN w |-> old[w[k]]] = [k \in DOMAIN w |-> Built(f, w[k])]
      /\ [k \in DOMAIN z |-> old[z[k]]] = [k \in DOMAIN z |-> Built(f, z[k])]
      /\ old[s] = Built(f, s)
  BY <1>3, <1>4, <1>5
<1>8. QED
  BY <1>6, <1>7 DEF ServersAt, w, z

(* What a line says to a server it does not join, or gives nothing to. *)
LEMMA ServerSaysSame ==
  ASSUME NEW f \in Seq(Lines), NEW l \in Lines, NEW s \in DOMAIN f,
         l.word \notin Giving \/ ~Joins(f, l, s)
  PROVE  SaysSame(f, ServerLines(f, s), Append(f, l), ServerLines(Append(f, l), s))
<1> DEFINE own == ServerLines(f, s)
<1>1. own \in SUBSET DOMAIN f
  BY SetsOfLines
<1>2. ServerLines(Append(f, l), s) = own \cup OneMore(f, Joins(f, l, s))
  BY ServerAdded
<1> HIDE DEF own
<1>3. SaysSame(f, own, Append(f, l), own)
  BY <1>1, SaysOn
<1>4. l.word \notin Giving => SaysSame(f, own, Append(f, l), own \cup {Len(f) + 1})
  BY <1>1, SaysOn
<1>5. CASE Joins(f, l, s)
  <2>1. ServerLines(Append(f, l), s) = own \cup {Len(f) + 1}
    BY <1>2, <1>5 DEF OneMore
  <2>2. QED
    BY <1>4, <1>5, <2>1 DEF own
<1>6. CASE ~Joins(f, l, s)
  <2>1. ServerLines(Append(f, l), s) = own
    BY <1>2, <1>6 DEF OneMore
  <2>2. QED
    BY <1>3, <2>1 DEF own
<1>7. QED
  BY <1>5, <1>6

(* A server is what is said on its lines, with its places. *)
LEMMA SoFarKept ==
  ASSUME NEW f \in Seq(Lines), NEW l \in Lines, NEW s \in DOMAIN f, NEW but,
         l.word \notin Giving \/ ~Joins(f, l, s),
         \A kind \in Places : \A b \in PlacesOf(f, s, kind, but) : Ended(f, b) \/ l.word = "}"
  PROVE  ServerSoFar(Append(f, l), s, but) = ServerSoFar(f, s, but)
<1> DEFINE g == Append(f, l)
           X == ServerLines(f, s)
           Y == ServerLines(g, s)
<1>1. SaysSame(f, X, g, Y)
  BY ServerSaysSame
<1>2. ASSUME NEW kind \in Places
      PROVE  PlacesAt(g, s, PlacesOf(g, s, kind, but)) = PlacesAt(f, s, PlacesOf(f, s, kind, but))
  <2> DEFINE S == PlacesOf(f, s, kind, but)
  <2>1. PlacesOf(g, s, kind, but) = S
    <3> HIDE DEF g
    <3>1. kind \in Giving
      BY DEF Giving
    <3>2. QED
      BY <1>1, <3>1 DEF PlacesOf, SaysSame
  <2>2. S \in SUBSET DOMAIN f
    BY SetsOfLines
  <2>3. \A b \in S : Ended(f, b) \/ l.word = "}"
    OBVIOUS
  <2> HIDE DEF S
  <2>4. PlacesAt(g, s, S) = PlacesAt(f, s, S)
    BY <2>2, <2>3, PlacesKept
  <2>5. QED
    BY <2>1, <2>4 DEF S
<1> HIDE DEF g
<1>3. /\ "location" \in Places /\ "file" \in Places
      /\ \A word \in {"port", "limit", "buffer", "root"} : word \in Giving
  BY DEF Places, Giving, Settings
<1>4. /\ ArgsOf(g, "port", Y) = ArgsOf(f, "port", X)
      /\ Setting(g, "limit", Y, 0) = Setting(f, "limit", X, 0)
      /\ Setting(g, "buffer", Y, 0) = Setting(f, "buffer", X, 0)
      /\ Setting(g, "root", Y, "./") = Setting(f, "root", X, "./")
  BY <1>1, <1>3 DEF SaysSame
<1>5. /\ PlacesAt(g, s, PlacesOf(g, s, "location", but))
           = PlacesAt(f, s, PlacesOf(f, s, "location", but))
      /\ PlacesAt(g, s, PlacesOf(g, s, "file", but))
           = PlacesAt(f, s, PlacesOf(f, s, "file", but))
  BY <1>2, <1>3
<1>6. QED
  BY <1>4, <1>5 DEF ServerSoFar, g

(* The end of a server makes it what was meant. *)
LEMMA FinishedIs ==
  \A f, s : SetDefaultServer(ServerSoFar(f, s, {})) = Built(f, s)
<1> SUFFICES ASSUME NEW f, NEW s PROVE SetDefaultServer(ServerSoFar(f, s, {})) = Built(f, s)
  OBVIOUS
<1> DEFINE own == ServerLines(f, s)
           x == ServerSoFar(f, s, {})
<1>1. ASSUME NEW kind
      PROVE  PlacesAt(f, s, PlacesOf(f, s, kind, {})) = MeantPlaces(f, s, kind, "./")
  <2>1. PlacesOf(f, s, kind, {}) = Written(f, kind, own)
    BY DEF PlacesOf
  <2>2. QED
    BY <2>1 DEF PlacesAt, MeantPlaces
<1>2. /\ x.port = ArgsOf(f, "port", own) /\ x.limit = Setting(f, "limit", own, 0)
      /\ x.buffer = Setting(f, "buffer", own, 0) /\ x.root = Setting(f, "root", own, "./")
      /\ x.directories = MeantPlaces(f, s, "location", "./") /\ x.files = MeantPlaces(f, s, "file", "./")
      /\ x.locations = <<>>
  BY <1>1 DEF ServerSoFar
<1> HIDE DEF x
<1>3. SetDefaultServer(x) =
        [port |-> OrElse(ArgsOf(f, "port", own), <<>>, <<DefaultPort>>),
         limit |-> Size(f, "limit", own, DefaultLimit),
         buffer |-> Size(f, "buffer", own, DefaultBuffer),
         root |-> Setting(f, "root", own, "./"),
         directories |-> MeantPlaces(f, s, "location", "./"),
         files |-> MeantPlaces(f, s, "file", "./"), locations |-> <<>>]
  BY <1>2 DEF SetDefaultServer, PortsOrDefault, Size
<1>4. Built(f, s) =
        [port |-> OrElse(ArgsOf(f, "port", own), <<>>, <<DefaultPort>>),
         limit |-> Size(f, "limit", own, DefaultLimit),
         buffer |-> Size(f, "buffer", own, DefaultBuffer),
         root |-> Setting(f, "root", own, "./"),
         directories |-> MeantPlaces(f, s, "location", "./"),
         files |-> MeantPlaces(f, s, "file", "./"), locations |-> <<>>]
  BY DEF Built, MeantServer
<1>5. QED
  BY <1>3, <1>4 DEF x

(* A server that a line says nothing to is built as before. *)
LEMMA BuiltKept ==
  ASSUME NEW f \in Seq(Lines), NEW l \in Lines, NEW s \in DOMAIN f,
         l.word \notin Giving \/ ~Joins(f, l, s),
         \A kind \in Places : \A b \in PlacesOf(f, s, kind, {}) : Ended(f, b) \/ l.word = "}"
  PROVE  Built(Append(f, l), s) = Built(f, s)
<1>1. ServerSoFar(Append(f, l), s, {}) = ServerSoFar(f, s, {})
  BY SoFarKept
<1>2. QED
  BY <1>1, FinishedIs

(* All servers, at the end. *)
LEMMA AllBuilt ==
  ASSUME NEW f \in Seq(Lines), NEW S \in SUBSET DOMAIN f
  PROVE  SetServerLocations(ServersAt(f, S))
           = LET w == InOrder(S) IN [k \in DOMAIN w |-> MeantServer(f, w[k], "./")]
<1> DEFINE w == InOrder(S)
           c == ServersAt(f, S)
<1>1. ASSUME NEW s
      PROVE  [Built(f, s) EXCEPT !.locations = Built(f, s).directories \o Built(f, s).files]
               = MeantServer(f, s, "./")
  <2> DEFINE m == MeantServer(f, s, "./")
             d == m.directories
             e == m.files
  <2>1. m = [port |-> m.port, limit |-> m.limit, buffer |-> m.buffer, root |-> m.root,
             directories |-> d, files |-> e, locations |-> d \o e]
    BY DEF MeantServer
  <2> HIDE DEF m, d, e
  <2>2. [m EXCEPT !.locations = <<>>]
          = [port |-> m.port, limit |-> m.limit, buffer |-> m.buffer, root |-> m.root,
             directories |-> d, files |-> e, locations |-> <<>>]
    BY <2>1
  <2> DEFINE x == Built(f, s)
  <2>3. x = [port |-> m.port, limit |-> m.limit, buffer |-> m.buffer, root |-> m.root,
             directories |-> d, files |-> e, locations |-> <<>>]
    BY <2>2 DEF Built, m
  <2> HIDE DEF x
  <2>4. [x EXCEPT !.locations = x.directories \o x.files] = m
    BY <2>1, <2>3
  <2>5. QED
    BY <2>4 DEF x, m
<1>2. DOMAIN c = DOMAIN w /\ \A k \in DOMAIN w : c[k] = Built(f, w[k])
  BY DEF ServersAt
<1> HIDE DEF c, w
<1>3. \A k \in DOMAIN w : [c[k] EXCEPT !.locations = c[k].directories \o c[k].files]
                            = MeantServer(f, w[k], "./")
  BY <1>1, <1>2
<1>4. SetServerLocations(c) = [k \in DOMAIN w |-> MeantServer(f, w[k], "./")]
  BY <1>2, <1>3 DEF SetServerLocations
<1>5. QED
  BY <1>4 DEF c, w

(* The servers that a line says nothing to. *)
LEMMA ServersKept ==
  ASSUME NEW f \in Seq(Lines), NEW l \in Lines, NEW S \in SUBSET DOMAIN f,
         \A s \in S : /\ l.word \notin Giving \/ ~Joins(f, l, s)
                      /\ \A kind \in Places : \A b \in PlacesOf(f, s, kind, {}) :
                           Ended(f, b) \/ l.word = "}"
  PROVE  ServersAt(Append(f, l), S) = ServersAt(f, S)
<1> DEFINE w == InOrder(S)
<1>1. \A k \in DOMAIN w : w[k] \in S
  BY SetsOfLines, InOrderTyped
<1> HIDE DEF w
<1>2. \A s \in S : Built(Append(f, l), s) = Built(f, s)
  BY BuiltKept
<1>3. [k \in DOMAIN w |-> Built(Append(f, l), w[k])] = [k \in DOMAIN w |-> Built(f, w[k])]
  BY <1>1, <1>2
<1>4. QED
  BY <1>3 DEF ServersAt, w

-----------------------------------------------------------------------------
(* A line in a server *)

Servers(f) == LinesOf(f, {"server"})
LastServer(f, s) == s \in Servers(f) /\ Servers(f) \cap (s + 1 .. Len(f)) = {}

(* Between servers, and in the one that begins at line s. *)
Outside(f, cf) == AllEnded(f, {}) /\ cf = ServersAt(f, Servers(f))
InServer(f, s, but, sv, cf) ==
  /\ LastServer(f, s) /\ AllEnded(f, but)
  /\ sv = ServerSoFar(f, s, but)
  /\ cf = ServersAt(f, Servers(f) \ {s})

(* Which lines begin a server or a location. *)
LEMMA LinesKept ==
  ASSUME NEW f \in Seq(Lines), NEW l \in Lines
  PROVE  /\ l.word # "server" => Servers(Append(f, l)) = Servers(f)
         /\ l.word \notin Places => LinesOf(Append(f, l), Places) = LinesOf(f, Places)
         /\ l.word = "server" => Servers(Append(f, l)) = Servers(f) \cup {Len(f) + 1}
         /\ l.word \in Places =>
              LinesOf(Append(f, l), Places) = LinesOf(f, Places) \cup {Len(f) + 1}
<1> DEFINE g == Append(f, l)
           n == Len(f)
<1>1. /\ DOMAIN g = 1 .. n + 1 /\ g[n + 1] = l /\ n + 1 \in DOMAIN g
      /\ \A k \in DOMAIN f : k \in DOMAIN g /\ g[k] = f[k]
      /\ \A k \in DOMAIN g : k \in DOMAIN f \/ k = n + 1
  BY LineAdded
<1> HIDE DEF g, n
<1>2. ASSUME NEW words
      PROVE  /\ l.word \notin words => LinesOf(g, words) = LinesOf(f, words)
             /\ l.word \in words => LinesOf(g, words) = LinesOf(f, words) \cup {n + 1}
  BY <1>1 DEF LinesOf
<1>3. l.word = "server" <=> l.word \in {"server"}
  OBVIOUS
<1>4. QED
  BY <1>2, <1>3 DEF Servers, g, n

(* Blocks that have their brace keep it. *)
LEMMA EndedKept ==
  ASSUME NEW f \in Seq(Lines), NEW l \in Lines, NEW but, AllEnded(f, but)
  PROVE  /\ l.word \notin Places => AllEnded(Append(f, l), but)
         /\ l.word = "}" => AllEnded(Append(f, l), {})
         /\ l.word \in Places => AllEnded(Append(f, l), but \cup {Len(f) + 1})
<1> DEFINE g == Append(f, l)
           n == Len(f)
           P == LinesOf(f, Places)
           Q == LinesOf(g, Places)
<1>1. \A b \in DOMAIN f : Ended(g, b) <=> Ended(f, b) \/ l.word = "}"
  BY EndedAdded
<1>2. /\ l.word \notin Places => Q = P
      /\ l.word \in Places => Q = P \cup {n + 1}
  BY LinesKept
<1>3. P \subseteq DOMAIN f
  BY DEF LinesOf
<1> HIDE DEF g, n, P, Q
<1>4. \A b \in P \ but : Ended(f, b)
  BY DEF AllEnded, P
<1>5. "}" \notin Places
  BY DEF Places
<1>6. \A b \in P \ but : Ended(g, b)
  BY <1>1, <1>3, <1>4
<1>7. l.word = "}" => \A b \in P : Ended(g, b)
  BY <1>1, <1>3
<1>8. QED
  BY <1>2, <1>5, <1>6, <1>7 DEF AllEnded, Q, g, n

(* Only the last server is joined, and it is. *)
LEMMA WhoIsJoined ==
  ASSUME NEW f \in Seq(Lines), NEW l \in Lines, NEW s \in DOMAIN f, LastServer(f, s),
         l.word # "server"
  PROVE  /\ AllEnded(f, {}) \/ l.word = "}" => Joins(f, l, s)
         /\ \A t \in Servers(f) \ {s} : ~Joins(f, l, t) /\ t < s
         /\ \A b \in LinesOf(f, Places) : ~Ended(f, b) /\ l.word # "}" => ~Joins(f, l, s)
<1>1. Servers(f) \cap (s + 1 .. Len(f)) = {} /\ s \in Servers(f)
  BY DEF LastServer
<1>2. AllEnded(f, {}) \/ l.word = "}" => Joins(f, l, s)
  BY <1>1 DEF Joins, AllEnded, Servers
<1>3. ASSUME NEW t \in Servers(f) \ {s} PROVE ~Joins(f, l, t) /\ t < s
  <2>1. t \in 1 .. Len(f) /\ s \in 1 .. Len(f) /\ Len(f) \in Nat
    BY <1>1, SetsOfLines DEF Servers
  <2> DEFINE n == Len(f)
  <2>2. t \notin s + 1 .. n /\ t # s
    BY <1>1
  <2> HIDE DEF n
  <2>3. t \in 1 .. n /\ s \in 1 .. n /\ n \in Nat
    BY <2>1 DEF n
  <2>4. t < s /\ s \in t + 1 .. n
    BY <2>2, <2>3
  <2>5. QED
    BY <1>1, <2>4 DEF Joins, Servers, n
<1>4. ASSUME NEW b \in LinesOf(f, Places), ~Ended(f, b), l.word # "}" PROVE ~Joins(f, l, s)
  BY <1>4 DEF Joins
<1>5. QED
  BY <1>2, <1>3, <1>4

(* No line is of two servers. *)
LEMMA OwnPlaces ==
  ASSUME NEW f \in Seq(Lines), NEW s \in Servers(f), NEW t \in Servers(f), t < s
  PROVE  ServerLines(f, s) \cap ServerLines(f, t) = {}
<1> SUFFICES ASSUME NEW b \in ServerLines(f, s), b \in ServerLines(f, t) PROVE FALSE
  OBVIOUS
<1>1. s \in 1 .. Len(f) /\ t \in 1 .. Len(f) /\ b \in 1 .. Len(f)
  BY SetsOfLines DEF Servers
<1>2. b > s
  BY DEF ServerLines
<1>3. s \in t + 1 .. b
  BY <1>1, <1>2
<1>4. Servers(f) \cap (t + 1 .. b) = {}
  BY DEF ServerLines, Servers
<1>5. QED
  BY <1>3, <1>4

(* The servers that are complete are not touched by a line. *)
LEMMA ConfigsKept ==
  ASSUME NEW f \in Seq(Lines), NEW l \in Lines, NEW s \in DOMAIN f,
         NEW but \in SUBSET ServerLines(f, s),
         LastServer(f, s), AllEnded(f, but), l.word # "server"
  PROVE  /\ LastServer(Append(f, l), s)
         /\ ServersAt(Append(f, l), Servers(Append(f, l)) \ {s}) = ServersAt(f, Servers(f) \ {s})
<1> DEFINE g == Append(f, l)
           n == Len(f)
           S == Servers(f) \ {s}
<1>1. Servers(g) = Servers(f)
  BY LinesKept
<1>2. LastServer(g, s)
  <2>1. s \in Servers(f) /\ Servers(f) \cap (s + 1 .. n) = {}
    BY DEF LastServer
  <2>2. \A k \in Servers(f) : k \in 1 .. n
    BY SetsOfLines DEF Servers
  <2>3. Len(g) = n + 1 /\ n \in Nat /\ s \in 1 .. n
    BY LineAdded
  <2> HIDE DEF g, n, S
  <2>4. Servers(f) \cap (s + 1 .. n + 1) = {}
    <3> SUFFICES ASSUME NEW k \in Servers(f), k \in s + 1 .. n + 1 PROVE FALSE
      OBVIOUS
    <3>1. k \in s + 1 .. n
      BY <2>2, <2>3
    <3>2. QED
      BY <2>1, <3>1
  <2>5. QED
    BY <1>1, <2>1, <2>3, <2>4 DEF LastServer
<1>3. ASSUME NEW t \in S
      PROVE  /\ ~Joins(f, l, t)
             /\ \A kind \in Places : \A b \in PlacesOf(f, t, kind, {}) : Ended(f, b)
  <2>1. ~Joins(f, l, t) /\ t < s
    BY WhoIsJoined
  <2>2. s \in Servers(f) /\ t \in Servers(f)
    BY DEF LastServer
  <2>3. ServerLines(f, s) \cap ServerLines(f, t) = {}
    BY <2>1, <2>2, OwnPlaces
  <2>4. \A kind \in Places : \A b \in PlacesOf(f, t, kind, {}) :
           b \in ServerLines(f, t) /\ b \in LinesOf(f, Places)
    BY DEF PlacesOf, Written, LinesOf, ServerLines
  <2>5. \A b \in LinesOf(f, Places) : b \in but \/ Ended(f, b)
    BY DEF AllEnded
  <2>6. QED
    BY <2>1, <2>3, <2>4, <2>5
<1>4. S \in SUBSET DOMAIN f
  BY SetsOfLines DEF Servers
<1> HIDE DEF S
<1>5. ServersAt(g, S) = ServersAt(f, S)
  BY <1>3, <1>4, ServersKept
<1>6. QED
  BY <1>1, <1>2, <1>5 DEF S

(* Positions are positive. *)
LEMMA PositionIs ==
  /\ \A n \in Nat : \A k \in 1 .. n : k \in Nat \ {0} /\ k <= n
  /\ \A k, m \in Nat \ {0} : k < m => k \in 1 .. m - 1
OBVIOUS

(* A server or location begins with nothing said about it. *)
LEMMA NothingYet ==
  ASSUME NEW f \in Seq(Lines), NEW l \in Lines
  PROVE  /\ ServerSoFar(Append(f, l), Len(f) + 1, {}) = FreshServer
         /\ PlaceSoFar(Append(f, l), Len(f) + 1) = FreshPlace(l.word)
<1> DEFINE g == Append(f, l)
           n == Len(f)
<1>1. ServerLines(g, n + 1) = {} /\ BlockLines(g, n + 1) = {}
  BY LastLineEmpty
<1>2. g[n + 1] = l
  BY LineAdded
<1> HIDE DEF g, n
<1>3. \A word : Written(g, word, {}) = {}
  BY DEF Written
<1>4. \A word, default : Setting(g, word, {}, default) = default
  BY <1>3 DEF Setting
<1>5. ASSUME NEW word PROVE ArgsOf(g, word, {}) = <<>>
  <2>1. InOrder(Written(g, word, {})) = <<>>
    BY <1>3, InOrderNone
  <2>2. QED
    BY <2>1 DEF ArgsOf
<1>6. \A kind : PlacesAt(g, n + 1, PlacesOf(g, n + 1, kind, {})) = <<>>
  <2>1. \A kind : PlacesOf(g, n + 1, kind, {}) = {}
    BY <1>1, <1>3 DEF PlacesOf
  <2>2. PlacesAt(g, n + 1, {}) = <<>>
    BY InOrderNone DEF PlacesAt
  <2>3. QED
    BY <2>1, <2>2
<1>7. ServerSoFar(g, n + 1, {}) = FreshServer
  BY <1>1, <1>4, <1>5, <1>6 DEF ServerSoFar, FreshServer
<1>8. PlaceSoFar(g, n + 1) = FreshPlace(l.word)
  BY <1>1, <1>2, <1>4, <1>5 DEF PlaceSoFar, FreshPlace
<1>9. QED
  BY <1>7, <1>8 DEF g, n

(* Every place outside the last server has its brace. *)
LEMMA AllPlacesEnded ==
  ASSUME NEW f, AllEnded(f, {})
  PROVE  \A s, kind, but : kind \in Places => \A b \in PlacesOf(f, s, kind, but) : Ended(f, b)
BY DEF AllEnded, PlacesOf, Written, ServerLines, LinesOf

(* setConfigs reads the line that begins a server. *)
LEMMA TopOpens ==
  ASSUME NEW f \in Seq(Lines), NEW l \in Lines, NEW cf, Outside(f, cf), l.word = "server"
  PROVE  InServer(Append(f, l), Len(f) + 1, {}, FreshServer, cf)
<1> DEFINE g == Append(f, l)
           n == Len(f)
           S == Servers(f)
<1>1. /\ n \in Nat /\ Len(g) = n + 1 /\ DOMAIN f = 1 .. n
  BY LineAdded
<1>2. S \in SUBSET DOMAIN f
  BY SetsOfLines DEF Servers
<1>3. Servers(g) = S \cup {n + 1}
  BY LinesKept
<1>4. AllEnded(f, {}) /\ cf = ServersAt(f, S)
  BY DEF Outside
<1>5. AllEnded(g, {})
  <2>1. l.word \notin Places
    BY DEF Places
  <2>2. QED
    BY <1>4, <2>1, EndedKept
<1>6. ServersAt(g, S) = ServersAt(f, S)
  <2>1. l.word \notin Giving
    BY DEF Giving, Settings, Places
  <2>2. \A s \in S : \A kind \in Places : \A b \in PlacesOf(f, s, kind, {}) : Ended(f, b)
    BY <1>4, AllPlacesEnded
  <2> HIDE DEF S
  <2>3. QED
    BY <1>2, <2>1, <2>2, ServersKept
<1>7. ServerSoFar(g, n + 1, {}) = FreshServer
  BY NothingYet
<1> HIDE DEF g, n, S
<1>8. n + 1 \notin S
  BY <1>1, <1>2
<1>9. Servers(g) \ {n + 1} = S
  BY <1>3, <1>8
<1>10. LastServer(g, n + 1)
  <2>1. n + 1 \in Servers(g)
    BY <1>3
  <2>2. (n + 1) + 1 .. n + 1 = {}
    BY <1>1
  <2>3. QED
    BY <1>1, <2>1, <2>2 DEF LastServer
<1>11. QED
  BY <1>4, <1>5, <1>6, <1>7, <1>9, <1>10 DEF InServer, g, n

(* setConfigs passes over a lone brace. *)
LEMMA TopPasses ==
  ASSUME NEW f \in Seq(Lines), NEW l \in Lines, NEW cf, Outside(f, cf), l.word \in {"{", "}"}
  PROVE  Outside(Append(f, l), cf)
<1> DEFINE g == Append(f, l)
           S == Servers(f)
<1>1. S \in SUBSET DOMAIN f
  BY SetsOfLines DEF Servers
<1>2. l.word \notin Giving /\ l.word # "server" /\ l.word \notin Places
  BY DEF Giving, Settings, Places
<1>3. Servers(g) = S
  BY <1>2, LinesKept
<1>4. AllEnded(f, {}) /\ cf = ServersAt(f, S)
  BY DEF Outside
<1>5. AllEnded(g, {})
  BY <1>2, <1>4, EndedKept
<1>6. ServersAt(g, S) = ServersAt(f, S)
  <2>1. \A s \in S : \A kind \in Places : \A b \in PlacesOf(f, s, kind, {}) : Ended(f, b)
    BY <1>4, AllPlacesEnded
  <2> HIDE DEF S
  <2>2. QED
    BY <1>1, <1>2, <2>1, ServersKept
<1>7. QED
  BY <1>3, <1>4, <1>5, <1>6 DEF Outside

(* setServerConfig reads the brace at its end: the server is what was meant. *)
LEMMA ServerEnds ==
  ASSUME NEW f \in Seq(Lines), NEW l \in Lines, NEW s \in DOMAIN f, NEW sv, NEW cf,
         InServer(f, s, {}, sv, cf), l.word = "}"
  PROVE  Outside(Append(f, l), Append(cf, SetDefaultServer(sv)))
<1> DEFINE g == Append(f, l)
           S == Servers(f) \ {s}
<1>1. /\ LastServer(f, s) /\ AllEnded(f, {}) /\ sv = ServerSoFar(f, s, {})
      /\ cf = ServersAt(f, S)
  BY DEF InServer
<1>2. l.word \notin Giving /\ l.word # "server" /\ l.word \notin Places
  BY DEF Giving, Settings, Places
<1>3. {} \in SUBSET ServerLines(f, s)
  OBVIOUS
<1>4. LastServer(g, s) /\ ServersAt(g, Servers(g) \ {s}) = cf
  BY <1>1, <1>2, <1>3, ConfigsKept
<1>5. Servers(g) = Servers(f)
  BY <1>2, LinesKept
<1>6. AllEnded(g, {})
  BY <1>1, <1>2, EndedKept
<1>7. Built(g, s) = SetDefaultServer(sv)
  <2>1. Built(f, s) = SetDefaultServer(sv)
    BY <1>1, FinishedIs
  <2>2. \A kind \in Places : \A b \in PlacesOf(f, s, kind, {}) : Ended(f, b)
    BY <1>1, AllPlacesEnded
  <2>3. Built(g, s) = Built(f, s)
    BY <1>2, <2>2, BuiltKept
  <2>4. QED
    BY <2>1, <2>3
<1>8. \A t \in S : t < s /\ t \in Nat \ {0}
  <2>1. \A t \in S : t < s
    BY <1>1, <1>2, WhoIsJoined
  <2>2. \A t \in Servers(f) : t \in 1 .. Len(f)
    BY SetsOfLines DEF Servers
  <2>3. Len(f) \in Nat
    BY SetsOfLines
  <2>4. \A t \in S : t \in Nat \ {0}
    BY <2>2, <2>3, PositionIs
  <2>5. QED
    BY <2>1, <2>4
<1>9. g \in Seq(Lines) /\ s \in Nat \ {0}
  <2>1. s \in 1 .. Len(f) /\ Len(f) \in Nat
    BY SetsOfLines
  <2>2. s \in Nat \ {0}
    BY <2>1, PositionIs
  <2>3. QED
    BY <2>2, LineAdded
<1>10. Servers(g) = S \cup {s}
  BY <1>1, <1>5 DEF LastServer
<1> HIDE DEF S, g
<1>11. S \in SUBSET (1 .. s - 1)
  BY <1>8, <1>9, PositionIs
<1>12. ServersAt(g, S \cup {s}) = Append(ServersAt(g, S), Built(g, s))
  BY <1>9, <1>11, ServersGrow
<1>13. ServersAt(g, S) = cf
  BY <1>4, <1>5 DEF S
<1>14. QED
  BY <1>6, <1>7, <1>10, <1>12, <1>13 DEF Outside, g

(* The lines of a server with one that joins it. *)
LEMMA JoinedIs ==
  ASSUME NEW f \in Seq(Lines), NEW l \in Lines, NEW s \in DOMAIN f, LastServer(f, s),
         AllEnded(f, {}) \/ l.word = "}", l.word # "server"
  PROVE  ServerLines(Append(f, l), s) = ServerLines(f, s) \cup {Len(f) + 1}
<1>1. Joins(f, l, s)
  BY WhoIsJoined
<1>2. ServerLines(Append(f, l), s) = ServerLines(f, s) \cup OneMore(f, Joins(f, l, s))
  BY ServerAdded
<1>3. QED
  BY <1>1, <1>2 DEF OneMore

(* A line that is not a place leaves the places as they are. *)
LEMMA PlacesSame ==
  ASSUME NEW f \in Seq(Lines), NEW l \in Lines, NEW s \in DOMAIN f, NEW but, NEW kind \in Places,
         l.word # kind,
         \A b \in PlacesOf(f, s, kind, but) : Ended(f, b) \/ l.word = "}"
  PROVE  PlacesAt(Append(f, l), s, PlacesOf(Append(f, l), s, kind, but))
           = PlacesAt(f, s, PlacesOf(f, s, kind, but))
<1> DEFINE g == Append(f, l)
           X == ServerLines(f, s)
           S == PlacesOf(f, s, kind, but)
<1>1. X \in SUBSET DOMAIN f /\ S \in SUBSET DOMAIN f
  BY SetsOfLines
<1>2. ServerLines(g, s) = X \cup OneMore(f, Joins(f, l, s))
  BY ServerAdded
<1>3. /\ Written(g, kind, X) = Written(f, kind, X)
      /\ Written(g, kind, X \cup {Len(f) + 1}) = Written(f, kind, X)
  <2> HIDE DEF X
  <2>1. WordAdded(f, l, X, kind)
    BY <1>1, WrittenAdded
  <2>2. QED
    BY <2>1 DEF WordAdded
<1>4. PlacesOf(g, s, kind, but) = S
  <2> HIDE DEF X, g
  <2>1. ServerLines(g, s) = X \/ ServerLines(g, s) = X \cup {Len(f) + 1}
    BY <1>2 DEF OneMore
  <2>2. Written(g, kind, ServerLines(g, s)) = Written(f, kind, X)
    BY <1>3, <2>1
  <2>3. QED
    BY <2>2 DEF PlacesOf, X
<1>5. \A b \in S : Ended(f, b) \/ l.word = "}"
  OBVIOUS
<1> HIDE DEF S
<1>6. PlacesAt(g, s, S) = PlacesAt(f, s, S)
  BY <1>1, <1>5, PlacesKept
<1>7. QED
  BY <1>4, <1>6 DEF S

(* setServerConfig sets a field. *)
Given(sv, l) == IF l.word = "port" THEN [sv EXCEPT !.port = Append(@, l.arg)]
                                   ELSE [sv EXCEPT ![l.word] = l.arg]

(* setServerConfig reads a directive that sets a field. *)
LEMMA ServerSets ==
  ASSUME NEW f \in Seq(Lines), NEW l \in Lines, NEW s \in DOMAIN f, NEW sv, NEW cf,
         InServer(f, s, {}, sv, cf), l.word \in Settings \cup {"port"}
  PROVE  InServer(Append(f, l), s, {}, Given(sv, l), cf)
<1> DEFINE g == Append(f, l)
           X == ServerLines(f, s)
           Y == X \cup {Len(f) + 1}
           v(word, default) == Setting(f, word, X, default)
           D == PlacesAt(f, s, PlacesOf(f, s, "location", {}))
           F == PlacesAt(f, s, PlacesOf(f, s, "file", {}))
<1>1. /\ LastServer(f, s) /\ AllEnded(f, {}) /\ sv = ServerSoFar(f, s, {})
      /\ cf = ServersAt(f, Servers(f) \ {s})
  BY DEF InServer
<1>2. l.word # "server" /\ l.word \notin Places /\ l.word # "location" /\ l.word # "file"
  BY DEF Settings, Places
<1>3. {} \in SUBSET ServerLines(f, s)
  OBVIOUS
<1>4. LastServer(g, s) /\ ServersAt(g, Servers(g) \ {s}) = cf
  BY <1>1, <1>2, <1>3, ConfigsKept
<1>5. AllEnded(g, {})
  BY <1>1, <1>2, EndedKept
<1>6. ServerLines(g, s) = Y
  BY <1>1, <1>2, JoinedIs
<1>7. X \in SUBSET DOMAIN f
  BY SetsOfLines
<1>8. /\ PlacesAt(g, s, PlacesOf(g, s, "location", {})) = D
      /\ PlacesAt(g, s, PlacesOf(g, s, "file", {})) = F
  <2>1. "location" \in Places /\ "file" \in Places
    BY DEF Places
  <2>2. \A kind \in Places : \A b \in PlacesOf(f, s, kind, {}) : Ended(f, b)
    BY <1>1, AllPlacesEnded
  <2>3. ASSUME NEW kind \in Places
        PROVE  PlacesAt(g, s, PlacesOf(g, s, kind, {})) = PlacesAt(f, s, PlacesOf(f, s, kind, {}))
    <3>1. l.word # kind
      BY <1>2
    <3>2. \A b \in PlacesOf(f, s, kind, {}) : Ended(f, b) \/ l.word = "}"
      BY <2>2
    <3>3. QED
      BY <3>1, <3>2, PlacesSame
  <2>4. QED
    BY <2>1, <2>3
<1> HIDE DEF X
<1>9. \A word, default :
        Setting(g, word, Y, default) = IF l.word = word THEN l.arg ELSE v(word, default)
  BY <1>7, SettingAdded
<1>10. ArgsOf(g, "port", Y) = IF l.word = "port" THEN Append(ArgsOf(f, "port", X), l.arg)
                                                 ELSE ArgsOf(f, "port", X)
  <2>1. ArgsSame(f, l, X, "port")
    BY <1>7, ArgsAdded
  <2>2. QED
    BY <2>1 DEF ArgsSame
<1> HIDE DEF g, Y, D, F, v
<1>11. sv = [port |-> ArgsOf(f, "port", X), limit |-> v("limit", 0), buffer |-> v("buffer", 0),
             root |-> v("root", "./"), directories |-> D, files |-> F, locations |-> <<>>]
  BY <1>1 DEF ServerSoFar, X, v, D, F
<1>12. ServerSoFar(g, s, {}) =
         [port |-> ArgsOf(g, "port", Y), limit |-> Setting(g, "limit", Y, 0),
          buffer |-> Setting(g, "buffer", Y, 0), root |-> Setting(g, "root", Y, "./"),
          directories |-> D, files |-> F, locations |-> <<>>]
  BY <1>6, <1>8 DEF ServerSoFar
<1>13. Given(sv, l) = ServerSoFar(g, s, {})
  <2>1. CASE l.word = "port"
    BY <1>9, <1>10, <1>11, <1>12, <2>1 DEF Given
  <2>2. CASE l.word = "limit"
    BY <1>9, <1>10, <1>11, <1>12, <2>2 DEF Given
  <2>3. CASE l.word = "buffer"
    BY <1>9, <1>10, <1>11, <1>12, <2>3 DEF Given
  <2>4. CASE l.word = "root"
    BY <1>9, <1>10, <1>11, <1>12, <2>4 DEF Given
  <2>5. QED
    BY <2>1, <2>2, <2>3, <2>4 DEF Settings
<1>14. QED
  BY <1>4, <1>5, <1>13 DEF InServer, g

(* setServerConfig reads the line that begins a location. *)
LEMMA PlaceBegins ==
  ASSUME NEW f \in Seq(Lines), NEW l \in Lines, NEW s \in DOMAIN f, NEW sv, NEW cf,
         InServer(f, s, {}, sv, cf), l.word \in Places
  PROVE  /\ InServer(Append(f, l), s, {Len(f) + 1}, sv, cf)
         /\ Len(f) + 1 \in ServerLines(Append(f, l), s)
         /\ Append(f, l)[Len(f) + 1].word \in Places /\ ~Ended(Append(f, l), Len(f) + 1)
         /\ PlaceSoFar(Append(f, l), Len(f) + 1) = FreshPlace(l.word)
<1> DEFINE g == Append(f, l)
           n == Len(f)
           X == ServerLines(f, s)
           Y == X \cup {n + 1}
<1>1. /\ LastServer(f, s) /\ AllEnded(f, {}) /\ sv = ServerSoFar(f, s, {})
      /\ cf = ServersAt(f, Servers(f) \ {s})
  BY DEF InServer
<1>2. l.word # "server" /\ \A word \in {"limit", "buffer", "root", "port"} : l.word # word
  BY DEF Places
<1>3. {} \in SUBSET ServerLines(f, s)
  OBVIOUS
<1>4. LastServer(g, s) /\ ServersAt(g, Servers(g) \ {s}) = cf
  BY <1>1, <1>2, <1>3, ConfigsKept
<1>5. AllEnded(g, {n + 1})
  <2>1. AllEnded(g, {} \cup {n + 1})
    BY <1>1, EndedKept
  <2>2. {} \cup {n + 1} = {n + 1}
    OBVIOUS
  <2>3. QED
    BY <2>1, <2>2
<1>6. ServerLines(g, s) = Y
  BY <1>1, <1>2, JoinedIs
<1>7. X \in SUBSET DOMAIN f /\ n + 1 \notin X /\ g[n + 1] = l
  <2>1. X \in SUBSET DOMAIN f /\ g[n + 1] = l /\ \A k \in DOMAIN f : k <= n /\ k \in Nat
    BY SetsOfLines, LineAdded
  <2>2. n \in Nat
    BY LineAdded
  <2> HIDE DEF n, g, X
  <2>3. ~(n + 1 <= n)
    BY <2>2
  <2>4. QED
    BY <2>1, <2>3
<1>8. ASSUME NEW kind \in Places
      PROVE  PlacesAt(g, s, PlacesOf(g, s, kind, {n + 1})) = PlacesAt(f, s, PlacesOf(f, s, kind, {}))
  <2> DEFINE S == PlacesOf(f, s, kind, {})
  <2>1. S = Written(f, kind, X) /\ PlacesOf(g, s, kind, {n + 1}) = Written(g, kind, Y) \ {n + 1}
    BY <1>6 DEF PlacesOf
  <2>2. WordAdded(f, l, X, kind)
    <3> HIDE DEF X
    <3>1. QED
      BY <1>7, WrittenAdded
  <2>3. PlacesOf(g, s, kind, {n + 1}) = S
    <3>1. \/ Written(g, kind, Y) = Written(f, kind, X) \cup {n + 1}
          \/ Written(g, kind, Y) = Written(f, kind, X)
      BY <2>2 DEF WordAdded
    <3>2. n + 1 \notin Written(f, kind, X)
      BY <1>7 DEF Written
    <3> HIDE DEF S, X, Y, g, n
    <3>3. QED
      BY <2>1, <3>1, <3>2
  <2>4. S \in SUBSET DOMAIN f
    BY SetsOfLines
  <2>5. \A b \in S : Ended(f, b)
    BY <1>1, AllPlacesEnded
  <2> HIDE DEF S
  <2>6. PlacesAt(g, s, S) = PlacesAt(f, s, S)
    BY <2>4, <2>5, PlacesKept
  <2>7. QED
    BY <2>3, <2>6 DEF S
<1>9. "location" \in Places /\ "file" \in Places
  BY DEF Places
<1> HIDE DEF X
<1>10. \A word, default :
         l.word # word => Setting(g, word, Y, default) = Setting(f, word, X, default)
  BY <1>7, SettingAdded
<1>11. ArgsOf(g, "port", Y) = ArgsOf(f, "port", X)
  <2>1. ArgsSame(f, l, X, "port")
    BY <1>7, ArgsAdded
  <2>2. QED
    BY <1>2, <2>1 DEF ArgsSame
<1>12. ~Ended(g, n + 1)
  BY EndedAdded
<1>13. PlaceSoFar(g, n + 1) = FreshPlace(l.word)
  BY NothingYet
<1> HIDE DEF g, Y, n
<1>14. ServerSoFar(g, s, {n + 1}) = sv
  BY <1>1, <1>2, <1>6, <1>8, <1>9, <1>10, <1>11 DEF ServerSoFar, X
<1>15. InServer(g, s, {n + 1}, sv, cf)
  BY <1>4, <1>5, <1>14 DEF InServer
<1>16. n + 1 \in ServerLines(g, s) /\ g[n + 1].word \in Places
  BY <1>6, <1>7 DEF Y
<1>17. QED
  BY <1>12, <1>13, <1>15, <1>16 DEF g, n

-----------------------------------------------------------------------------
(* A line in the block of a location *)

InBlock(f, s, b, sv, pl, cf) ==
  /\ InServer(f, s, {b}, sv, cf)
  /\ b \in ServerLines(f, s) /\ f[b].word \in Places /\ ~Ended(f, b)
  /\ pl = PlaceSoFar(f, b)

(* setLocationConfig and setFileConfig set a field. *)
Taken(pl, l) == IF l.word \in Settings THEN [pl EXCEPT ![l.word] = l.arg]
                ELSE IF l.word = "methods" THEN [pl EXCEPT !.methods = Append(@, l.arg)]
                ELSE pl

(* The value of a setting with a line more. *)
SetBy(f, l, X) ==
  \A word, default : Setting(Append(f, l), word, X \cup {Len(f) + 1}, default)
                       = IF l.word = word THEN l.arg ELSE Setting(f, word, X, default)

LEMMA SettingSet ==
  ASSUME NEW f \in Seq(Lines), NEW l \in Lines, NEW X \in SUBSET DOMAIN f
  PROVE  SetBy(f, l, X)
BY SettingAdded DEF SetBy

(* Setting one field of a location leaves the others. *)
LEMMA OneField ==
  \A k, a, b, r, m, new :
    LET p == [kind |-> k, limit |-> a, buffer |-> b, root |-> r, methods |-> m]
    IN  /\ [p EXCEPT !.limit = new]
             = [kind |-> k, limit |-> new, buffer |-> b, root |-> r, methods |-> m]
        /\ [p EXCEPT !.buffer = new]
             = [kind |-> k, limit |-> a, buffer |-> new, root |-> r, methods |-> m]
        /\ [p EXCEPT !.root = new]
             = [kind |-> k, limit |-> a, buffer |-> b, root |-> new, methods |-> m]
        /\ [p EXCEPT !.methods = new]
             = [kind |-> k, limit |-> a, buffer |-> b, root |-> r, methods |-> new]
OBVIOUS

(* setLocationConfig or setFileConfig reads a directive. *)
LEMMA PlaceSets ==
  ASSUME NEW f \in Seq(Lines), NEW l \in Lines, NEW s \in DOMAIN f, NEW b \in DOMAIN f,
         NEW sv, NEW pl, NEW cf,
         InBlock(f, s, b, sv, pl, cf), l.word \in Settings \cup {"methods", "{"}
  PROVE  InBlock(Append(f, l), s, b, sv, Taken(pl, l), cf)
<1> DEFINE g == Append(f, l)
           X == BlockLines(f, b)
           Y == X \cup {Len(f) + 1}
           v(word, default) == Setting(f, word, X, default)
           kind == f[b].word
<1>1. /\ LastServer(f, s) /\ AllEnded(f, {b}) /\ sv = ServerSoFar(f, s, {b})
      /\ cf = ServersAt(f, Servers(f) \ {s})
      /\ b \in ServerLines(f, s) /\ f[b].word \in Places /\ ~Ended(f, b)
      /\ pl = PlaceSoFar(f, b)
  BY DEF InBlock, InServer
<1>2. l.word # "server" /\ l.word \notin Places /\ l.word # "}"
  BY DEF Settings, Places
<1>3. {b} \in SUBSET ServerLines(f, s)
  BY <1>1
<1>4. LastServer(g, s) /\ ServersAt(g, Servers(g) \ {s}) = cf
  BY <1>1, <1>2, <1>3, ConfigsKept
<1>5. AllEnded(g, {b})
  BY <1>1, <1>2, EndedKept
<1>6. ~Joins(f, l, s)
  <2>1. b \in LinesOf(f, Places)
    BY <1>1 DEF LinesOf
  <2>2. QED
    BY <1>1, <1>2, <2>1, WhoIsJoined
<1>7. ServerSoFar(g, s, {b}) = sv
  <2>1. \A of \in Places : \A c \in PlacesOf(f, s, of, {b}) : Ended(f, c)
    BY <1>1 DEF AllEnded, PlacesOf, Written, ServerLines, LinesOf
  <2>2. ServerSoFar(g, s, {b}) = ServerSoFar(f, s, {b})
    BY <1>6, <2>1, SoFarKept
  <2>3. QED
    BY <1>1, <2>2
<1>8. b \in ServerLines(g, s) /\ g[b] = f[b] /\ ~Ended(g, b)
  <2>1. ServerLines(g, s) = ServerLines(f, s) \cup OneMore(f, Joins(f, l, s))
    BY ServerAdded
  <2>2. g[b] = f[b]
    BY LineAdded
  <2>3. ~Ended(g, b)
    BY <1>1, <1>2, EndedAdded
  <2>4. QED
    BY <1>1, <2>1, <2>2, <2>3
<1>9. BlockLines(g, b) = Y
  <2>1. BlockLines(g, b) = X \cup OneMore(f, ~Ended(f, b) /\ l.word # "}")
    BY BlockAdded
  <2>2. OneMore(f, ~Ended(f, b) /\ l.word # "}") = {Len(f) + 1}
    BY <1>1, <1>2, OneMoreIs
  <2>3. QED
    BY <2>1, <2>2
<1>10. X \in SUBSET DOMAIN f
  BY SetsOfLines
<1> HIDE DEF X
<1>11. \A word, default :
         Setting(g, word, Y, default) = IF l.word = word THEN l.arg ELSE v(word, default)
  <2>1. SetBy(f, l, X)
    BY <1>10, SettingSet
  <2>2. QED
    BY <2>1 DEF SetBy
<1>12. ArgsOf(g, "methods", Y) = IF l.word = "methods" THEN Append(ArgsOf(f, "methods", X), l.arg)
                                                       ELSE ArgsOf(f, "methods", X)
  <2>1. ArgsSame(f, l, X, "methods")
    BY <1>10, ArgsAdded
  <2>2. QED
    BY <2>1 DEF ArgsSame
<1> HIDE DEF g, Y, v, kind
<1>13. pl = [kind |-> kind, limit |-> v("limit", 0), buffer |-> v("buffer", 0),
             root |-> v("root", ""), methods |-> ArgsOf(f, "methods", X)]
  BY <1>1 DEF PlaceSoFar, X, v, kind
<1>14. PlaceSoFar(g, b) =
         [kind |-> kind, limit |-> Setting(g, "limit", Y, 0),
          buffer |-> Setting(g, "buffer", Y, 0), root |-> Setting(g, "root", Y, ""),
          methods |-> ArgsOf(g, "methods", Y)]
  BY <1>8, <1>9 DEF PlaceSoFar, kind
<1>15. Taken(pl, l) = PlaceSoFar(g, b)
  <2>1. CASE l.word = "methods"
    <3>1. Taken(pl, l) = [pl EXCEPT !.methods = Append(pl.methods, l.arg)]
      BY <2>1 DEF Taken, Settings
    <3>2. pl.methods = ArgsOf(f, "methods", X)
      BY <1>13
    <3>3. Taken(pl, l) = [kind |-> kind, limit |-> v("limit", 0), buffer |-> v("buffer", 0),
                         root |-> v("root", ""), methods |-> Append(ArgsOf(f, "methods", X), l.arg)]
      BY <1>13, <3>1, <3>2, OneField
    <3>4. QED
      BY <1>11, <1>12, <1>14, <2>1, <3>3
  <2>2. CASE l.word = "limit"
    <3>1. Taken(pl, l) = [pl EXCEPT !.limit = l.arg]
      BY <2>2 DEF Taken, Settings
    <3>2. Taken(pl, l) = [kind |-> kind, limit |-> l.arg, buffer |-> v("buffer", 0),
                         root |-> v("root", ""), methods |-> ArgsOf(f, "methods", X)]
      BY <1>13, <3>1, OneField
    <3>3. QED
      BY <1>11, <1>12, <1>14, <2>2, <3>2
  <2>3. CASE l.word = "buffer"
    <3>1. Taken(pl, l) = [pl EXCEPT !.buffer = l.arg]
      BY <2>3 DEF Taken, Settings
    <3>2. Taken(pl, l) = [kind |-> kind, limit |-> v("limit", 0), buffer |-> l.arg,
                         root |-> v("root", ""), methods |-> ArgsOf(f, "methods", X)]
      BY <1>13, <3>1, OneField
    <3>3. QED
      BY <1>11, <1>12, <1>14, <2>3, <3>2
  <2>4. CASE l.word = "root"
    <3>1. Taken(pl, l) = [pl EXCEPT !.root = l.arg]
      BY <2>4 DEF Taken, Settings
    <3>2. Taken(pl, l) = [kind |-> kind, limit |-> v("limit", 0), buffer |-> v("buffer", 0),
                         root |-> l.arg, methods |-> ArgsOf(f, "methods", X)]
      BY <1>13, <3>1, OneField
    <3>3. QED
      BY <1>11, <1>12, <1>14, <2>4, <3>2
  <2>5. CASE l.word = "{"
    BY <1>11, <1>12, <1>13, <1>14, <2>5 DEF Taken, Settings
  <2>6. QED
    BY <2>1, <2>2, <2>3, <2>4, <2>5 DEF Settings
<1>16. QED
  BY <1>1, <1>4, <1>5, <1>7, <1>8, <1>15 DEF InBlock, InServer, g

(* Before its brace a block is the end of its server. *)
LEMMA OpenBlockIsLast ==
  ASSUME NEW f \in Seq(Lines), NEW s \in DOMAIN f, NEW b \in ServerLines(f, s),
         f[b].word \in Places, ~Ended(f, b)
  PROVE  /\ \A k \in ServerLines(f, s) : k < b \/ k = b
         /\ \A word : word \notin Places =>
              Written(f, word, {k \in ServerLines(f, s) : k < b}) = Written(f, word, ServerLines(f, s))
<1> DEFINE X == ServerLines(f, s)
<1>1. \A k \in X : k \in 1 .. Len(f) /\ k \in DOMAIN f
  BY SetsOfLines
<1>2. Len(f) \in Nat /\ b \in 1 .. Len(f) /\ b \in LinesOf(f, Places)
  BY <1>1, SetsOfLines DEF LinesOf
<1>3. \A k \in X : k \notin BlockLines(f, b)
  BY <1>2 DEF ServerLines
<1>4. \A m \in b + 1 .. Len(f) : f[m].word # "}"
  BY DEF Ended
<1> DEFINE n == Len(f)
<1>5. ASSUME NEW k \in X PROVE k < b \/ k = b
  <2>1. k \in 1 .. n /\ b \in 1 .. n /\ n \in Nat
    BY <1>1, <1>2
  <2>2. ~(k > b)
    <3> SUFFICES ASSUME k > b PROVE FALSE
      OBVIOUS
    <3>1. \A m \in b + 1 .. k : m \in b + 1 .. n
      BY <2>1
    <3>2. \A m \in b + 1 .. k : f[m].word # "}"
      BY <1>4, <3>1
    <3>3. k \in BlockLines(f, b)
      BY <1>1, <3>2 DEF BlockLines
    <3>4. QED
      BY <1>3, <3>3
  <2> HIDE DEF n, X
  <2>3. QED
    BY <2>1, <2>2
<1>6. ASSUME NEW word, word \notin Places
      PROVE  Written(f, word, {k \in X : k < b}) = Written(f, word, X)
  BY <1>5, <1>6 DEF Written
<1>7. QED
  BY <1>5, <1>6

(* What the end of the block makes of it. *)
LEMMA PlaceIsMeant ==
  ASSUME NEW f \in Seq(Lines), NEW s \in DOMAIN f, NEW b \in DOMAIN f, NEW sv, NEW pl, NEW cf,
         InBlock(f, s, b, sv, pl, cf)
  PROVE  SetDefaultPlace(pl, sv) = MeantPlace(f, s, b, "./")
<1> DEFINE X == ServerLines(f, s)
           Z == {k \in X : k < b}
           Y == BlockLines(f, b)
<1>1. /\ sv = ServerSoFar(f, s, {b}) /\ b \in X /\ f[b].word \in Places /\ ~Ended(f, b)
      /\ pl = PlaceSoFar(f, b)
  BY DEF InBlock, InServer
<1>2. \A word : word \notin Places => Written(f, word, Z) = Written(f, word, X)
  BY <1>1, OpenBlockIsLast
<1> HIDE DEF X, Z, Y
<1>3. \A word \in {"limit", "buffer", "root"} : word \notin Places
  BY DEF Places
<1>4. \A word \in {"limit", "buffer", "root"} : \A default :
        Setting(f, word, Z, default) = Setting(f, word, X, default)
  BY <1>2, <1>3 DEF Setting
<1>5. /\ pl.kind = f[b].word /\ pl.limit = Setting(f, "limit", Y, 0)
      /\ pl.buffer = Setting(f, "buffer", Y, 0) /\ pl.root = Setting(f, "root", Y, "")
      /\ pl.methods = ArgsOf(f, "methods", Y)
  BY <1>1 DEF PlaceSoFar, Y
<1>6. /\ sv.limit = Setting(f, "limit", X, 0) /\ sv.buffer = Setting(f, "buffer", X, 0)
      /\ sv.root = Setting(f, "root", X, "./")
  BY <1>1 DEF ServerSoFar, X
<1>7. /\ sv.limit = Setting(f, "limit", Z, 0) /\ sv.buffer = Setting(f, "buffer", Z, 0)
      /\ sv.root = Setting(f, "root", Z, "./")
  BY <1>4, <1>6
<1>8. MeantPlace(f, s, b, "./") =
       [kind |-> f[b].word,
        limit |-> Size(f, "limit", Y, Size(f, "limit", Z, DefaultLimit)),
        buffer |-> Size(f, "buffer", Y, Size(f, "buffer", Z, DefaultBuffer)),
        root |-> IF f[b].word = "file" THEN Setting(f, "root", Y, "")
                 ELSE OrElse(Setting(f, "root", Y, ""), "",
                             OrElse(Setting(f, "root", Z, "./"), "", "/var/www")),
        methods |-> OrElse(ArgsOf(f, "methods", Y), <<>>, <<"GET">>)]
  BY DEF MeantPlace, X, Y, Z
<1>9. QED
  BY <1>5, <1>7, <1>8 DEF SetDefaultPlace, Inherited, Size

(* The places of a server when the brace of the last one is read. *)
LEMMA PlaceJoins ==
  ASSUME NEW f \in Seq(Lines), NEW l \in Lines, NEW s \in DOMAIN f, NEW b \in DOMAIN f,
         NEW sv, NEW pl, NEW cf, InBlock(f, s, b, sv, pl, cf), l.word = "}", NEW kind \in Places
  PROVE  LET old == PlacesAt(f, s, PlacesOf(f, s, kind, {b}))
         IN  PlacesAt(Append(f, l), s, PlacesOf(Append(f, l), s, kind, {}))
               = IF f[b].word = kind THEN Append(old, MeantPlace(f, s, b, "./")) ELSE old
<1> DEFINE g == Append(f, l)
           X == ServerLines(f, s)
           S == PlacesOf(f, s, kind, {b})
           old == PlacesAt(f, s, S)
<1>1. /\ LastServer(f, s) /\ b \in X /\ f[b].word \in Places /\ ~Ended(f, b)
  BY DEF InBlock, InServer
<1>2. kind # "}" /\ l.word # kind /\ l.word # "server"
  BY DEF Places
<1>3. ServerLines(g, s) = X \cup {Len(f) + 1}
  BY <1>1, <1>2, JoinedIs
<1>4. X \in SUBSET DOMAIN f /\ S \in SUBSET DOMAIN f
  BY SetsOfLines
<1>5. PlacesOf(g, s, kind, {}) = Written(f, kind, X)
  <2> HIDE DEF X, g
  <2>1. Written(g, kind, X \cup {Len(f) + 1}) = Written(f, kind, X)
    <3>1. WordAdded(f, l, X, kind)
      BY <1>4, WrittenAdded
    <3>2. QED
      BY <1>2, <3>1 DEF WordAdded, g
  <2>2. QED
    BY <1>3, <2>1 DEF PlacesOf
<1>6. PlacesAt(g, s, S) = old
  <2> HIDE DEF S
  <2>1. QED
    BY <1>4, PlacesKept
<1>7. g \in Seq(Lines) /\ b \in Nat \ {0}
  <2>1. b \in 1 .. Len(f) /\ Len(f) \in Nat
    BY SetsOfLines
  <2>2. b \in Nat \ {0}
    BY <2>1, PositionIs
  <2>3. QED
    BY <2>2, LineAdded
<1>8. S \in SUBSET (1 .. b - 1)
  <2>1. \A k \in X : k < b \/ k = b
    BY <1>1, OpenBlockIsLast
  <2>2. \A k \in S : k \in X /\ k # b
    BY DEF PlacesOf, Written
  <2>3. \A k \in S : k \in Nat \ {0}
    <3>1. \A k \in S : k \in 1 .. Len(f)
      BY SetsOfLines
    <3>2. Len(f) \in Nat
      BY SetsOfLines
    <3> HIDE DEF S
    <3>3. QED
      BY <3>1, <3>2, PositionIs
  <2> HIDE DEF S, X
  <2>4. \A k \in S : k < b
    BY <2>1, <2>2
  <2>5. QED
    BY <1>7, <2>3, <2>4, PositionIs
<1>9. MeantPlace(g, s, b, "./") = MeantPlace(f, s, b, "./")
  BY PlaceSame
<1>10. CASE f[b].word = kind
  <2>1. Written(f, kind, X) = S \cup {b}
    BY <1>1, <1>10 DEF PlacesOf, Written
  <2> HIDE DEF S, X, g, old
  <2>2. PlacesAt(g, s, S \cup {b}) = Append(PlacesAt(g, s, S), MeantPlace(g, s, b, "./"))
    BY <1>7, <1>8, PlacesGrow
  <2>3. QED
    BY <1>5, <1>6, <1>9, <1>10, <2>1, <2>2 DEF g, old, S
<1>11. CASE f[b].word # kind
  <2>1. Written(f, kind, X) = S
    BY <1>11 DEF PlacesOf, Written
  <2> HIDE DEF S, X, g, old
  <2>2. QED
    BY <1>5, <1>6, <1>11, <2>1 DEF g, old, S
<1>12. QED
  BY <1>10, <1>11

(* The server with a location more. *)
Placed(sv, p) == IF p.kind = "location" THEN [sv EXCEPT !.directories = Append(@, p)]
                 ELSE [sv EXCEPT !.files = Append(@, p)]

(* Adding to one list of a server leaves the other fields. *)
LEMMA OnePlace ==
  \A a, b, c, r, d, e, new :
    LET p == [port |-> a, limit |-> b, buffer |-> c, root |-> r,
              directories |-> d, files |-> e, locations |-> <<>>]
    IN  /\ p.directories = d /\ p.files = e
        /\ [p EXCEPT !.directories = new]
             = [port |-> a, limit |-> b, buffer |-> c, root |-> r,
                directories |-> new, files |-> e, locations |-> <<>>]
        /\ [p EXCEPT !.files = new]
             = [port |-> a, limit |-> b, buffer |-> c, root |-> r,
                directories |-> d, files |-> new, locations |-> <<>>]
OBVIOUS

(* The brace of a location is read: it is what was meant, and goes to its server. *)
LEMMA PlaceEnds ==
  ASSUME NEW f \in Seq(Lines), NEW l \in Lines, NEW s \in DOMAIN f, NEW b \in DOMAIN f,
         NEW sv, NEW pl, NEW cf, InBlock(f, s, b, sv, pl, cf), l.word = "}"
  PROVE  InServer(Append(f, l), s, {}, Placed(sv, SetDefaultPlace(pl, sv)), cf)
<1> DEFINE g == Append(f, l)
           X == ServerLines(f, s)
           Y == X \cup {Len(f) + 1}
           p == SetDefaultPlace(pl, sv)
           P(kind) == PlacesAt(f, s, PlacesOf(f, s, kind, {b}))
           D == PlacesAt(g, s, PlacesOf(g, s, "location", {}))
           F == PlacesAt(g, s, PlacesOf(g, s, "file", {}))
<1>1. /\ LastServer(f, s) /\ AllEnded(f, {b}) /\ sv = ServerSoFar(f, s, {b})
      /\ cf = ServersAt(f, Servers(f) \ {s})
      /\ b \in X /\ f[b].word \in Places
  BY DEF InBlock, InServer
<1>2. /\ l.word # "server" /\ \A word \in {"port", "limit", "buffer", "root"} : l.word # word
      /\ "location" \in Places /\ "file" \in Places
  BY DEF Places
<1>3. {b} \in SUBSET ServerLines(f, s)
  BY <1>1
<1>4. LastServer(g, s) /\ ServersAt(g, Servers(g) \ {s}) = cf
  BY <1>1, <1>2, <1>3, ConfigsKept
<1>5. AllEnded(g, {})
  BY <1>1, EndedKept
<1>6. ServerLines(g, s) = Y
  BY <1>1, <1>2, JoinedIs
<1>7. X \in SUBSET DOMAIN f
  BY SetsOfLines
<1>8. p = MeantPlace(f, s, b, "./") /\ p.kind = f[b].word
  <2>1. p = MeantPlace(f, s, b, "./")
    BY PlaceIsMeant
  <2>2. MeantPlace(f, s, b, "./").kind = f[b].word
    BY DEF MeantPlace
  <2>3. QED
    BY <2>1, <2>2
<1>9. D = IF f[b].word = "location" THEN Append(P("location"), p) ELSE P("location")
  <2>1. LET old == PlacesAt(f, s, PlacesOf(f, s, "location", {b}))
        IN  PlacesAt(Append(f, l), s, PlacesOf(Append(f, l), s, "location", {}))
              = IF f[b].word = "location" THEN Append(old, MeantPlace(f, s, b, "./")) ELSE old
    BY <1>2, PlaceJoins
  <2> HIDE DEF p
  <2>2. QED
    BY <1>8, <2>1
<1>10. F = IF f[b].word = "file" THEN Append(P("file"), p) ELSE P("file")
  <2>1. LET old == PlacesAt(f, s, PlacesOf(f, s, "file", {b}))
        IN  PlacesAt(Append(f, l), s, PlacesOf(Append(f, l), s, "file", {}))
              = IF f[b].word = "file" THEN Append(old, MeantPlace(f, s, b, "./")) ELSE old
    BY <1>2, PlaceJoins
  <2> HIDE DEF p
  <2>2. QED
    BY <1>8, <2>1
<1> HIDE DEF X
<1>11. \A word, default :
         l.word # word => Setting(g, word, Y, default) = Setting(f, word, X, default)
  <2>1. SetBy(f, l, X)
    BY <1>7, SettingSet
  <2>2. QED
    BY <2>1 DEF SetBy
<1>12. ArgsOf(g, "port", Y) = ArgsOf(f, "port", X)
  <2>1. ArgsSame(f, l, X, "port")
    BY <1>7, ArgsAdded
  <2>2. QED
    BY <1>2, <2>1 DEF ArgsSame
<1> DEFINE a1 == ArgsOf(f, "port", X)
           a2 == Setting(f, "limit", X, 0)
           a3 == Setting(f, "buffer", X, 0)
           a4 == Setting(f, "root", X, "./")
           kind == f[b].word
<1> HIDE DEF g, Y, p, D, F, P, kind
<1>13. sv = [port |-> a1, limit |-> a2, buffer |-> a3, root |-> a4,
             directories |-> P("location"), files |-> P("file"), locations |-> <<>>]
  BY <1>1 DEF ServerSoFar, X, P
<1>14. ServerSoFar(g, s, {}) =
         [port |-> a1, limit |-> a2, buffer |-> a3, root |-> a4,
          directories |-> D, files |-> F, locations |-> <<>>]
  BY <1>2, <1>6, <1>11, <1>12 DEF ServerSoFar, D, F
<1> HIDE DEF a1, a2, a3, a4
<1>15. p.kind = kind /\ kind \in {"location", "file"}
  BY <1>1, <1>8 DEF kind, Places
<1>16. Placed(sv, p) = ServerSoFar(g, s, {})
  <2>1. CASE kind = "location"
    <3>1. Placed(sv, p) = [sv EXCEPT !.directories = Append(sv.directories, p)]
      BY <1>15, <2>1 DEF Placed
    <3>2. sv.directories = P("location")
      BY <1>13, OnePlace
    <3>3. Placed(sv, p) = [port |-> a1, limit |-> a2, buffer |-> a3, root |-> a4,
             directories |-> Append(P("location"), p), files |-> P("file"), locations |-> <<>>]
      BY <1>13, <3>1, <3>2, OnePlace
    <3>4. D = Append(P("location"), p) /\ F = P("file")
      BY <1>9, <1>10, <2>1 DEF kind
    <3>5. QED
      BY <1>14, <3>3, <3>4
  <2>2. CASE kind = "file"
    <3>1. Placed(sv, p) = [sv EXCEPT !.files = Append(sv.files, p)]
      BY <1>15, <2>2 DEF Placed
    <3>2. sv.files = P("file")
      BY <1>13, OnePlace
    <3>3. Placed(sv, p) = [port |-> a1, limit |-> a2, buffer |-> a3, root |-> a4,
             directories |-> P("location"), files |-> Append(P("file"), p), locations |-> <<>>]
      BY <1>13, <3>1, <3>2, OnePlace
    <3>4. D = P("location") /\ F = Append(P("file"), p)
      BY <1>9, <1>10, <2>2 DEF kind
    <3>5. QED
      BY <1>14, <3>3, <3>4
  <2>3. QED
    BY <1>15, <2>1, <2>2
<1>17. QED
  BY <1>4, <1>5, <1>16 DEF InServer, g, p

-----------------------------------------------------------------------------
(* Whatever is read: the inductive invariant of the readers *)

AllMeant(f) == LET w == InOrder(Servers(f)) IN [k \in DOMAIN w |-> MeantServer(f, w[k], "./")]

(* In each reader, what it builds is what the lines read so far say. *)
WrittenInv ==
  Plain(file) =>
    /\ mode = "top" => Outside(file, configs)
    /\ mode = "server" =>
         opened /\ \E s \in DOMAIN file : InServer(file, s, {}, server, configs)
    /\ mode = "block" =>
         opened /\ \E s, b \in DOMAIN file : InBlock(file, s, b, server, place, configs)
    /\ mode = "read" => configs = AllMeant(file)

(* A file that is refused sets up nothing. *)
LEMMA RefusedIsNoMatter == ASSUME mode' = "refused" PROVE WrittenInv'
BY DEF WrittenInv

(* A file without such comments had none before its last line. *)
LEMMA PlainBefore ==
  ASSUME NEW f \in Seq(Lines), NEW l \in Lines, Plain(Append(f, l))
  PROVE  Plain(f) /\ (l.word = "server" => ~l.note)
<1> DEFINE g == Append(f, l)
<1>1. /\ \A k \in DOMAIN f : k \in DOMAIN g /\ g[k] = f[k]
      /\ Len(f) + 1 \in DOMAIN g /\ g[Len(f) + 1] = l
  BY LineAdded
<1> HIDE DEF g
<1>2. Plain(g)
  BY DEF g
<1>3. QED
  BY <1>1, <1>2 DEF Plain, LinesOf

(* setConfigs reads a line. *)
LEMMA TopLine ==
  ASSUME file \in Seq(Lines), WrittenInv,
         NEW l \in Lines, file' = Append(file, l), ReadTop(l)
  PROVE  WrittenInv'
<1>1. CASE Refuse
  BY <1>1, RefusedIsNoMatter DEF Refuse
<1> SUFFICES ASSUME ~Refuse, Plain(file') PROVE WrittenInv'
  BY <1>1 DEF WrittenInv
<1>2. Plain(file) /\ (l.word = "server" => ~l.note)
  BY PlainBefore
<1>3. Outside(file, configs)
  BY <1>2 DEF ReadTop, WrittenInv
<1>4. CASE l.word = "server"
  <2>1. /\ mode' = "server" /\ opened' = ~l.note /\ server' = FreshServer
        /\ configs' = configs
    BY <1>4 DEF ReadTop, OpensServer
  <2>2. InServer(file', Len(file) + 1, {}, server', configs')
    BY <1>3, <1>4, <2>1, TopOpens
  <2>3. Len(file) + 1 \in DOMAIN file'
    BY LineAdded
  <2>4. \E s \in DOMAIN file' : InServer(file', s, {}, server', configs')
    BY <2>2, <2>3
  <2>5. opened'
    BY <1>2, <1>4, <2>1
  <2>6. QED
    BY <2>1, <2>4, <2>5 DEF WrittenInv
<1>5. CASE l.word # "server"
  <2>1. l.word \in {"{", "}"} /\ mode' = "top" /\ configs' = configs
    BY <1>5 DEF ReadTop, OpensServer
  <2>2. Outside(file', configs')
    BY <1>3, <2>1, TopPasses
  <2>3. QED
    BY <2>1, <2>2 DEF WrittenInv
<1>6. QED
  BY <1>4, <1>5

(* setServerConfig reads a line. *)
LEMMA ServerLine ==
  ASSUME file \in Seq(Lines), WrittenInv,
         NEW l \in Lines, file' = Append(file, l), ReadServer(l)
  PROVE  WrittenInv'
<1>1. CASE Refuse
  BY <1>1, RefusedIsNoMatter DEF Refuse
<1> SUFFICES ASSUME ~Refuse, Plain(file') PROVE WrittenInv'
  BY <1>1 DEF WrittenInv
<1>2. Plain(file)
  BY PlainBefore
<1>3. opened /\ \E s \in DOMAIN file : InServer(file, s, {}, server, configs)
  BY <1>2 DEF ReadServer, WrittenInv
<1>4. PICK s \in DOMAIN file : InServer(file, s, {}, server, configs)
  BY <1>3
<1>5. s \in DOMAIN file'
  BY LineAdded
<1>6. ~ServerRefuses(l)
  BY DEF ReadServer
<1>7. CASE l.word = "}"
  <2>1. mode' = "top" /\ configs' = Append(configs, SetDefaultServer(server))
    BY <1>7 DEF ReadServer, FinishServer
  <2>2. Outside(file', configs')
    BY <1>4, <1>7, <2>1, ServerEnds
  <2>3. QED
    BY <2>1, <2>2 DEF WrittenInv
<1>8. CASE l.word # "}"
  <2>1. opened' /\ ServerDirective(l) /\ configs' = configs
    BY <1>3, <1>6, <1>8 DEF ReadServer, ServerOpenAfter
  <2>2. l.word \notin {"{", "server"}
    BY <1>3, <1>6, <1>8, LinesAssumption DEF ServerRefuses, BraceMisplaced, Places
  <2>3. CASE l.word \in Settings \cup {"port"}
    <3>1. mode' = "server" /\ server' = Given(server, l)
      BY <2>1, <2>3 DEF ServerDirective, Given, Places, Settings, ReadServer
    <3>2. InServer(file', s, {}, server', configs')
      BY <1>4, <2>1, <2>3, <3>1, ServerSets
    <3>3. \E t \in DOMAIN file' : InServer(file', t, {}, server', configs')
      BY <1>5, <3>2
    <3>4. QED
      BY <2>1, <3>1, <3>3 DEF WrittenInv
  <2>4. CASE l.word \in Places
    <3>1. mode' = "block" /\ place' = FreshPlace(l.word) /\ server' = server
      BY <2>1, <2>4 DEF ServerDirective, Places, Settings
    <3> DEFINE n == Len(file)
    <3>2. /\ InServer(file', s, {n + 1}, server', configs')
          /\ n + 1 \in ServerLines(file', s)
          /\ file'[n + 1].word \in Places /\ ~Ended(file', n + 1)
          /\ PlaceSoFar(file', n + 1) = place'
      BY <1>4, <2>1, <2>4, <3>1, PlaceBegins
    <3>3. InBlock(file', s, n + 1, server', place', configs')
      BY <3>2 DEF InBlock
    <3>4. n + 1 \in DOMAIN file'
      BY LineAdded
    <3>5. \E t, b \in DOMAIN file' : InBlock(file', t, b, server', place', configs')
      BY <1>5, <3>3, <3>4
    <3>6. QED
      BY <2>1, <3>1, <3>5 DEF WrittenInv
  <2>5. QED
    BY <2>1, <2>2, <2>3, <2>4 DEF ServerDirective
<1>9. QED
  BY <1>7, <1>8

(* setLocationConfig or setFileConfig reads a line. *)
LEMMA PlaceLine ==
  ASSUME file \in Seq(Lines), WrittenInv,
         NEW l \in Lines, file' = Append(file, l), ReadPlace(l)
  PROVE  WrittenInv'
<1>1. CASE Refuse
  BY <1>1, RefusedIsNoMatter DEF Refuse
<1> SUFFICES ASSUME ~Refuse, Plain(file') PROVE WrittenInv'
  BY <1>1 DEF WrittenInv
<1>2. Plain(file)
  BY PlainBefore
<1>3. opened /\ \E s, b \in DOMAIN file : InBlock(file, s, b, server, place, configs)
  BY <1>2 DEF ReadPlace, WrittenInv
<1>4. PICK s \in DOMAIN file, b \in DOMAIN file : InBlock(file, s, b, server, place, configs)
  BY <1>3
<1>5. s \in DOMAIN file' /\ b \in DOMAIN file'
  BY LineAdded
<1>6. ~PlaceRefuses(l)
  BY DEF ReadPlace
<1>7. CASE l.word = "}"
  <2>1. /\ mode' = "server" /\ opened' = opened /\ configs' = configs
        /\ server' = Placed(server, SetDefaultPlace(place, server))
    BY <1>6, <1>7 DEF ReadPlace, FinishPlace, Placed
  <2>2. InServer(file', s, {}, server', configs')
    BY <1>4, <1>7, <2>1, PlaceEnds
  <2>3. \E t \in DOMAIN file' : InServer(file', t, {}, server', configs')
    BY <1>5, <2>2
  <2>4. QED
    BY <1>3, <2>1, <2>3 DEF WrittenInv
<1>8. CASE l.word # "}"
  <2>1. l.word \in Settings \cup {"methods", "{"}
    BY <1>6, <1>8 DEF PlaceRefuses
  <2>2. /\ mode' = "block" /\ opened' = opened /\ server' = server /\ configs' = configs
        /\ place' = Taken(place, l)
    BY <1>6, <1>8 DEF ReadPlace, PlaceDirective, Taken
  <2>3. InBlock(file', s, b, server', place', configs')
    BY <1>4, <2>1, <2>2, PlaceSets
  <2>4. \E t, c \in DOMAIN file' : InBlock(file', t, c, server', place', configs')
    BY <1>5, <2>3
  <2>5. QED
    BY <1>3, <2>2, <2>4 DEF WrittenInv
<1>9. QED
  BY <1>7, <1>8

(* The file ends. *)
LEMMA LastLine ==
  ASSUME file \in Seq(Lines), WrittenInv, EndOfFile
  PROVE  WrittenInv'
<1>1. CASE Refuse
  BY <1>1, RefusedIsNoMatter DEF Refuse
<1> SUFFICES ASSUME ~Refuse, Plain(file') PROVE WrittenInv'
  BY <1>1 DEF WrittenInv
<1>2. file' = file /\ Plain(file)
  BY DEF EndOfFile
<1>3. mode = "server" => opened
  BY <1>2 DEF WrittenInv
<1>4. mode = "top" /\ mode' = "read" /\ configs' = SetServerLocations(configs)
  BY <1>3 DEF EndOfFile
<1>5. configs = ServersAt(file, Servers(file))
  BY <1>2, <1>4 DEF WrittenInv, Outside
<1>6. Servers(file) \in SUBSET DOMAIN file
  BY SetsOfLines DEF Servers
<1>7. configs' = AllMeant(file')
  BY <1>2, <1>4, <1>5, <1>6, AllBuilt DEF AllMeant
<1>8. QED
  BY <1>4, <1>7 DEF WrittenInv

(* Before the first line nothing is said and nothing is built. *)
LEMMA InitWritten == Init => WrittenInv
<1> SUFFICES ASSUME Init PROVE WrittenInv
  OBVIOUS
<1>1. file = <<>> /\ configs = <<>> /\ mode = "top"
  BY DEF Init, ConfigInit
<1>2. \A words : LinesOf(file, words) = {}
  BY <1>1 DEF LinesOf
<1>3. AllEnded(file, {})
  BY <1>2 DEF AllEnded
<1>4. ServersAt(file, {}) = <<>>
  BY InOrderNone DEF ServersAt
<1>5. Outside(file, configs)
  BY <1>1, <1>2, <1>3, <1>4 DEF Outside, Servers
<1>6. QED
  BY <1>1, <1>5 DEF WrittenInv

(* From here on the configuration is only used. *)
LEMMA ConfigStays == ASSUME WrittenInv, UNCHANGED configVars PROVE WrittenInv'
BY DEF WrittenInv, configVars

(* Every step of the program keeps the invariant. *)
LEMMA StepWritten ==
  ASSUME StartInv, WrittenInv, [Next]_vars
  PROVE  WrittenInv'
<1>1. file \in Seq(Lines)
  BY DEF StartInv, TypeOK
<1>2. CASE ReadLine
  <2>1. PICK l \in Lines : file' = Append(file, l) /\ (ReadTop(l) \/ ReadServer(l) \/ ReadPlace(l))
    BY <1>2 DEF ReadLine
  <2>2. QED
    BY <1>1, <2>1, TopLine, ServerLine, PlaceLine
<1>3. CASE EndOfFile
  BY <1>1, <1>3, LastLine
<1>4. CASE UNCHANGED configVars
  BY <1>4, ConfigStays
<1>5. Exited \/ UNCHANGED vars => UNCHANGED configVars
  BY DEF Exited, vars, configVars
<1>6. StartServer \/ NextBlock \/ StartFails \/ StartAborts \/ StartLoop \/ RunReturns
        => UNCHANGED configVars
  BY DEF StartServer, NextBlock, StartFails, StartAborts, StartLoop, RunReturns
<1>7. QED
  BY <1>2, <1>3, <1>4, <1>5, <1>6 DEF Next, Read, ConfigNext

(* In a file without a comment behind the brace of a server, of any length and whatever
   its lines, every line is applied to the block it stands in and to no other, a
   location inherits what its server said before it, and nothing is left without a
   value (the root that nobody gives is the one the code presets). *)
THEOREM ReadsAsWritten == Spec => []ReadAsWritten
<1>1. Init => WrittenInv
  BY InitWritten
<1>2. StartInv /\ WrittenInv /\ [Next]_vars => WrittenInv'
  BY StepWritten
<1>3. "./" \in UnsaidRoots
  BY DEF UnsaidRoots
<1>4. WrittenInv => ReadAsWritten
  BY <1>3 DEF WrittenInv, ReadAsWritten, Plain, AllMeant, Servers
<1>5. QED
  BY <1>1, <1>2, <1>4, StartInvariant, PTL DEF Spec
=============================================================================
