---------------------------- MODULE Configuration ----------------------------
(* Reading the configuration file: ReadConfig.cpp, SetLocations.cpp and SetFile.cpp.
   Three nested readers share one stream: setConfigs reads the lines between
   servers, setServerConfig those of a server, setLocationConfig and setFileConfig
   those of a location.  An action is one line read by whichever reader is active.

   A line is a record: its first word, its argument, the brace it carries and
   whether a comment follows after a blank.  Lines that are only a comment are
   skipped by every reader and are left out.  Each reader tracks by itself whether
   its brace is open, with containBrackets, which ignores a line that holds a '#'.

   Of the directives, "limit" (client_max_body_size), "buffer"
   (client_body_buffer_size) and "root" stand for all those that overwrite one
   field, "port" and "methods" for those that add to a list.  All servers have the
   same host. *)
EXTENDS Integers, Sequences, FiniteSets, SequencesExt

CONSTANTS
  Lines,            \* the lines a file may be made of
  MaxLines,         \* bound on the length of a file
  DefaultPort, DefaultLimit, DefaultBuffer,
  Bad               \* a malformed argument

Settings == {"limit", "buffer", "root"}    \* directives that overwrite a field
Places == {"location", "file"}             \* "location /path", "location *.ext"
Words == Settings \cup Places \cup {"server", "port", "methods", "{", "}"}

ASSUME LinesAssumption ==
  \A l \in Lines :
    /\ DOMAIN l = {"word", "arg", "brace", "note"}
    /\ l.word \in Words /\ l.note \in BOOLEAN
    /\ l.brace \in (IF l.word \in Places THEN {"", "{"}
                    ELSE IF l.word \in {"server", "{"} THEN {"{"}
                    ELSE IF l.word = "}" THEN {"}"} ELSE {""})
    /\ l.note => l.word \notin Places
    /\ l.word \in {"limit", "buffer", "port"} => l.arg \in Nat \cup {Bad}

ASSUME DefaultsAssumption ==
  /\ MaxLines \in Nat
  /\ {DefaultPort, DefaultLimit, DefaultBuffer} \subseteq Nat \ {0}
  /\ Bad \notin Nat

VARIABLES
  file,       \* the lines read so far (history)
  mode,       \* the active reader, or how reading ended
  opened,     \* IsServerOpen
  blockOpen,  \* IsLocationOpen, IsFileOpen
  server,     \* the ServerConfig being filled
  place,      \* the Directory or File being filled
  configs     \* Configs::servers

configVars == <<file, mode, opened, blockOpen, server, place, configs>>

Modes == {"top", "server", "block", "refused", "read"}

(* ServerConfig(), Directory() and File(), then the first lines of their readers. *)
FreshServer == [port |-> <<>>, limit |-> 0, buffer |-> 0, root |-> "./",
                directories |-> <<>>, files |-> <<>>, locations |-> <<>>]
FreshPlace(kind) == [kind |-> kind, limit |-> 0, buffer |-> 0, root |-> "",
                     methods |-> <<>>]

OrElse(value, unset, default) == IF value = unset THEN default ELSE value

(* (mutant) The server's value is not looked at. *)
InheritedAlone(own, servers, default) == OrElse(own, 0, default)

(* (mutant) The server is taken to have a value always. *)
InheritedFromServer(own, servers, default) == OrElse(own, 0, servers)

(* A size of a location: its own, or its server's, or the program's. *)
Inherited(own, servers, default) == OrElse(own, 0, OrElse(servers, 0, default))

(* setDefaultLocation and setDefaultFile: what the block leaves open is taken from
   the server as it is at this moment, and what the server leaves open from the
   program, here without the path that is appended to /var/www.  The root of a file
   block is left open. *)
SetDefaultPlace(p, s) ==
  [kind |-> p.kind,
   limit |-> Inherited(p.limit, s.limit, DefaultLimit),
   buffer |-> Inherited(p.buffer, s.buffer, DefaultBuffer),
   methods |-> OrElse(p.methods, <<>>, <<"GET">>),
   root |-> IF p.kind = "file" THEN p.root
            ELSE OrElse(p.root, "", OrElse(s.root, "", "/var/www"))]

(* (mutant) A server may be left without a port. *)
PortsAsGiven(ports) == ports

PortsOrDefault(ports) == OrElse(ports, <<>>, <<DefaultPort>>)

SetDefaultServer(s) ==
  [port |-> PortsOrDefault(s.port),
   limit |-> OrElse(s.limit, 0, DefaultLimit),
   buffer |-> OrElse(s.buffer, 0, DefaultBuffer),
   root |-> s.root,
   directories |-> s.directories, files |-> s.files, locations |-> s.locations]

(* setServerLocations: every server gets one vector of Locations, the directories
   before the files, whatever their order in the file. *)
SetServerLocations(all) ==
  [c \in DOMAIN all |->
    [all[c] EXCEPT !.locations = all[c].directories \o all[c].files]]

ConfigInit ==
  /\ file = <<>> /\ configs = <<>>
  /\ mode = "top"
  /\ opened = FALSE /\ blockOpen = FALSE
  /\ server = FreshServer /\ place = FreshPlace("location")

Refuse ==
  /\ mode' = "refused"
  /\ UNCHANGED <<opened, blockOpen, server, place, configs>>

-----------------------------------------------------------------------------
(* setConfigs: a line that opens a server starts its reader, whose first look at the
   braces is at the raw line; a lone brace is passed over. *)
OpensServer(l) == l.word = "server"

ReadTop(l) ==
  /\ mode = "top"
  /\ \/ /\ OpensServer(l)
        /\ mode' = "server"
        /\ opened' = ~l.note
        /\ server' = FreshServer
        /\ UNCHANGED <<blockOpen, place, configs>>
     \/ /\ l.word \in {"{", "}"} /\ ~l.note
        /\ UNCHANGED <<mode, opened, blockOpen, server, place, configs>>
     \/ /\ ~OpensServer(l) /\ (l.word \in {"{", "}"} => l.note)
        /\ Refuse

(* The end of setServerConfig.  AddHostToPort refuses no port. *)
FinishServer ==
  /\ mode' = "top"
  /\ opened' = FALSE
  /\ configs' = Append(configs, SetDefaultServer(server))
  /\ UNCHANGED <<blockOpen, server, place>>

(* containBrackets and checkSplitString on a line inside a server: the brace of a
   location belongs to the location if the server is open already. *)
ServerOpenAfter(l) == opened \/ l.brace = "{"
BraceMisplaced(l) == opened /\ l.brace = "{" /\ l.word \notin Places

(* The switch of setServerConfig. *)
ServerDirective(l) ==
  \/ /\ l.word \in Settings \cup {"port"} /\ l.arg # Bad
     /\ server' = IF l.word = "port" THEN [server EXCEPT !.port = Append(@, l.arg)]
                                     ELSE [server EXCEPT ![l.word] = l.arg]
     /\ UNCHANGED <<mode, blockOpen, place>>
  \/ /\ l.word \in Places /\ l.arg # Bad
     /\ mode' = "block"
     /\ blockOpen' = (l.brace = "{")
     /\ place' = FreshPlace(l.word)
     /\ UNCHANGED server
  \/ /\ l.word \in {"{", "server"}
     /\ UNCHANGED <<mode, blockOpen, server, place>>

ServerRefuses(l) ==
  \/ l.note
  \/ /\ l.word # "}"
     /\ \/ BraceMisplaced(l)
        \/ /\ ServerOpenAfter(l)
           /\ l.word = "methods" \/ l.arg = Bad

(* A line of setServerConfig.  While its brace is not open lines are passed over,
   except that the first '}' ends the server all the same. *)
ReadServer(l) ==
  /\ mode = "server"
  /\ \/ ServerRefuses(l) /\ Refuse
     \/ ~ServerRefuses(l) /\ l.word = "}" /\ FinishServer
     \/ /\ ~ServerRefuses(l) /\ l.word # "}"
        /\ opened' = ServerOpenAfter(l)
        /\ IF opened' THEN ServerDirective(l)
                      ELSE UNCHANGED <<mode, blockOpen, server, place>>
        /\ UNCHANGED configs

-----------------------------------------------------------------------------
(* The end of setLocationConfig and setFileConfig. *)
FinishPlace ==
  /\ mode' = "server"
  /\ blockOpen' = FALSE
  /\ server' = LET p == SetDefaultPlace(place, server)
               IN  IF p.kind = "location"
                   THEN [server EXCEPT !.directories = Append(@, p)]
                   ELSE [server EXCEPT !.files = Append(@, p)]
  /\ UNCHANGED <<opened, place, configs>>

(* The switch of setLocationConfig; it does not ask whether the brace is open. *)
PlaceDirective(l) ==
  /\ place' = IF l.word \in Settings THEN [place EXCEPT ![l.word] = l.arg]
              ELSE IF l.word = "methods"
              THEN [place EXCEPT !.methods = Append(@, l.arg)]
              ELSE place
  /\ blockOpen' = (blockOpen \/ l.brace = "{")
  /\ UNCHANGED <<mode, opened, server, configs>>

PlaceRefuses(l) ==
  \/ l.note
  \/ l.word = "}" /\ ~blockOpen
  \/ l.word = "{" /\ blockOpen
  \/ l.word \notin Settings \cup {"methods", "{", "}"}
  \/ l.arg = Bad

(* A line of setLocationConfig or setFileConfig. *)
ReadPlace(l) ==
  /\ mode = "block"
  /\ \/ PlaceRefuses(l) /\ Refuse
     \/ ~PlaceRefuses(l) /\ l.word = "}" /\ FinishPlace
     \/ ~PlaceRefuses(l) /\ l.word # "}" /\ PlaceDirective(l)

ReadLine ==
  /\ Len(file) < MaxLines
  /\ \E l \in Lines :
       /\ file' = Append(file, l)
       /\ ReadTop(l) \/ ReadServer(l) \/ ReadPlace(l)

(* getline finds no more lines.  A server whose brace is not open is complete; one
   with a location in progress never is. *)
EndOfFile ==
  /\ mode \in {"top", "server", "block"}
  /\ \/ /\ mode = "top" /\ configs # <<>>
        /\ mode' = "read"
        /\ configs' = SetServerLocations(configs)
        /\ UNCHANGED <<opened, blockOpen, server, place>>
     \/ /\ mode = "server" /\ ~opened
        /\ mode' = "read"
        /\ configs' = SetServerLocations(Append(configs, SetDefaultServer(server)))
        /\ UNCHANGED <<opened, blockOpen, server, place>>
     \/ /\ \/ mode = "top" /\ configs = <<>>
           \/ mode = "server" /\ opened
           \/ mode = "block"
        /\ Refuse
  /\ UNCHANGED file

ConfigNext == ReadLine \/ EndOfFile

-----------------------------------------------------------------------------
(* What a file says, by the position of its lines and without any reader. *)
LinesOf(f, words) == {k \in DOMAIN f : f[k].word \in words}

(* The lines of the location block that begins at line b. *)
BlockLines(f, b) ==
  {k \in DOMAIN f : k > b /\ \A m \in b + 1 .. k : f[m].word # "}"}

(* The lines of the server that begins at line s, outside its location blocks. *)
ServerLines(f, s) ==
  {k \in DOMAIN f :
    /\ k > s
    /\ LinesOf(f, {"server"}) \cap (s + 1 .. k) = {}
    /\ \A b \in LinesOf(f, Places) : k \notin BlockLines(f, b)}

Written(f, word, lines) == {k \in lines : f[k].word = word}

(* The last value given to a setting, or what is to be taken instead. *)
Setting(f, word, lines, default) ==
  IF Written(f, word, lines) = {} THEN default ELSE f[Max(Written(f, word, lines))].arg

InOrder(S) ==
  CHOOSE q \in [1 .. Cardinality(S) -> S] : \A k, m \in DOMAIN q : k < m => q[k] < q[m]
ArgsOf(f, word, lines) ==
  LET w == InOrder(Written(f, word, lines)) IN [k \in DOMAIN w |-> f[w[k]].arg]

(* A limit of zero is one that was not given, and so is the root of a location that is
   empty. *)
Size(f, word, lines, default) == OrElse(Setting(f, word, lines, 0), 0, default)

MeantPlace(f, s, b, unsaid) ==
  LET before == {k \in ServerLines(f, s) : k < b}
      own == BlockLines(f, b)
  IN  [kind |-> f[b].word,
       limit |-> Size(f, "limit", own, Size(f, "limit", before, DefaultLimit)),
       buffer |-> Size(f, "buffer", own, Size(f, "buffer", before, DefaultBuffer)),
       root |-> IF f[b].word = "file" THEN Setting(f, "root", own, "")
                ELSE OrElse(Setting(f, "root", own, ""), "",
                            OrElse(Setting(f, "root", before, unsaid), "", "/var/www")),
       methods |-> OrElse(ArgsOf(f, "methods", own), <<>>, <<"GET">>)]

MeantPlaces(f, s, kind, unsaid) ==
  LET w == InOrder(Written(f, kind, ServerLines(f, s)))
  IN  [k \in DOMAIN w |-> MeantPlace(f, s, w[k], unsaid)]

MeantServer(f, s, unsaid) ==
  LET own == ServerLines(f, s)
  IN  [port |-> OrElse(ArgsOf(f, "port", own), <<>>, <<DefaultPort>>),
       limit |-> Size(f, "limit", own, DefaultLimit),
       buffer |-> Size(f, "buffer", own, DefaultBuffer),
       root |-> Setting(f, "root", own, "./"),
       directories |-> MeantPlaces(f, s, "location", unsaid),
       files |-> MeantPlaces(f, s, "file", unsaid),
       locations |-> MeantPlaces(f, s, "location", unsaid) \o MeantPlaces(f, s, "file", unsaid)]

(* The root of a location when neither it nor its server says one: var/www by
   src/README.md:73 and by the branch of setDefaultLocation that logs it; ServerConfig()
   presets "./" for every server, so that the branch is not reached. *)
UnsaidRoots == {"/var/www", "./"}

(* In a file without a comment behind the brace of a server, every line is applied to
   the block it stands in and to no other, a location inherits what its server said
   before it, and nothing is left without a value: ReadConfig::setConfigs,
   SetLocation::setDefaultLocation, SetFile::setDefaultFile.  Which root a location has
   that nobody gave one is not stated, only that it is the same for all. *)
ReadAsWritten ==
  (mode = "read" /\ \A k \in LinesOf(file, {"server"}) : ~file[k].note) =>
    LET w == InOrder(LinesOf(file, {"server"}))
    IN  \E unsaid \in UnsaidRoots :
          configs = [k \in DOMAIN w |-> MeantServer(file, w[k], unsaid)]
=============================================================================
