------------------------------- MODULE Router -------------------------------
(***************************************************************************)
(* What becomes of one request: the look-ups of parseRequestLine, the      *)
(* decisions of Router::process, and the part of a file that is sent.      *)
(* Everything here is a function of the request, the server block and the  *)
(* files on disk; Serving gives it a life.                                 *)
(*                                                                         *)
(* A text is a sequence of characters.  "/", "." and "?" are what the      *)
(* code looks for; every other character stands for a name.                *)
(***************************************************************************)
EXTENDS Integers, Sequences, FiniteSets, SequencesExt

CONSTANT MaxSlice   \* MAX_CHUNK: the most a range request is given

ASSUME MaxSliceAssumption == MaxSlice \in Nat \ {0}

Text == Seq(STRING)
Methods == {"GET", "POST", "DELETE"}

(* A location of the configuration.  One for files ("location *.ext") has an
   extension, no path and, unless its block sets one, no root.  passes: cgi_pass is
   set.  store is where uploads go, <<>> when they are off. *)
Place == [path: Text, extension: Text, methods: SUBSET Methods, root: Text,
          index: Text, autoIndex: BOOLEAN, redirected: BOOLEAN, passes: BOOLEAN,
          cgiExtension: Seq(Text), store: Text, auth: BOOLEAN]

(* A ServerConfig.  pages: the sizes of the error pages, NoPage if there is none that
   can be read. *)
NoPage == -1
Errors == {400, 403, 404, 405, 415, 500}
Site == [root: Text, index: Text, directories: Seq(Place), files: Seq(Place),
         pages: [Errors -> Nat \cup {NoPage}]]

Locations(site) == site.directories \o site.files
IsFile(place) == place.path = <<>>
IsCgi(place) == ~IsFile(place) /\ (place.passes \/ place.cgiExtension # <<>>)

-----------------------------------------------------------------------------
(* std::string *)

From(text, k) == SubSeq(text, k, Len(text))
Upto(text, k) == SubSeq(text, 1, k)
Places(part, text) ==   \* where part occurs in text
  {k \in 1 .. Len(text) - Len(part) + 1 : SubSeq(text, k, k + Len(part) - 1) = part}
Occurs(part, text) == Places(part, text) # {}
LastOf(char, text) == SelectLastInSeq(text, LAMBDA c : c = char)

JoinPath(base, sub) ==
  IF base = <<>> THEN sub
  ELSE IF sub = <<>> THEN base
  ELSE IF Last(base) = "/" /\ Head(sub) = "/" THEN base \o Tail(sub)
  ELSE IF Last(base) # "/" /\ Head(sub) # "/" THEN base \o <<"/">> \o sub
  ELSE base \o sub

GetExtension(path) ==
  LET dot == LastOf(".", path)
  IN  IF dot = 0 \/ dot < LastOf("/", path) THEN <<>> ELSE From(path, dot + 1)

-----------------------------------------------------------------------------
(* Looking up a location *)

(* (mutant) The first that matches wins, as in a table of rules. *)
FirstMatch(path, places) ==
  LET found == {i \in DOMAIN places : places[i].path # <<>> /\ Occurs(places[i].path, path)}
  IN  IF found = {} THEN 0 ELSE Min(found)

(* getMatchDirectory: the longest path that occurs anywhere, the first of these; 0
   if there is none. *)
LongestMatch(path, places) ==
  LET found == {i \in DOMAIN places : places[i].path # <<>> /\ Occurs(places[i].path, path)}
      longest == {i \in found : \A j \in found : Len(places[j].path) <= Len(places[i].path)}
  IN  IF found = {} THEN 0 ELSE Min(longest)

(* getMatchLocation. *)
GetMatchLocation(path, site) ==
  LET extension == GetExtension(path)
      byExtension == {i \in DOMAIN Locations(site) :
                        Occurs(extension, Locations(site)[i].extension)}
  IN  IF extension # <<>> /\ byExtension # {} THEN Min(byExtension)
      ELSE LongestMatch(path, Locations(site))

(* parseRequestQueries. *)
WithoutQuery(uri) ==
  IF Occurs(<<"?">>, uri) THEN Upto(uri, Min(Places(<<"?">>, uri)) - 1) ELSE uri

(* parsePath: the path ends behind the first of the CGI extensions, in the order of
   the configuration, that ends a part of it; whichever location they belong to. *)
CgiExtensions(site) ==
  FlattenSeq([i \in DOMAIN site.directories |-> site.directories[i].cgiExtension])
EndBehind(path, extension) == Min(Places(extension, path)) + Len(extension) - 1
EndsPart(path, extension) ==
  /\ Occurs(extension, path)
  /\ LET end == EndBehind(path, extension) IN end < Len(path) => path[end + 1] = "/"
WithoutPathInfo(path, site) ==
  LET all == CgiExtensions(site)
      cuts == {k \in DOMAIN all : EndsPart(path, all[k])}
  IN  IF cuts = {} THEN path ELSE Upto(path, EndBehind(path, all[Min(cuts)]))

PathOf(uri, site) == WithoutPathInfo(WithoutQuery(uri), site)

-----------------------------------------------------------------------------
(* From the location to the file *)

WithoutDot(index) == IF IsPrefix(<<".", "/">>, index) THEN From(index, 3) ELSE index

(* getFilePath.  The directory was looked up in the URI as it was sent, and wins over
   the location. *)
GetFilePath(site, location, directory, uri) ==
  LET own == location.root # <<>>
      root == IF directory # <<>> THEN directory[1].root
              ELSE IF own THEN location.root ELSE site.root
      rest == IF directory # <<>> THEN From(uri, Len(directory[1].path) + 1)
              ELSE IF own /\ IsPrefix(location.path, uri) THEN From(uri, Len(location.path) + 1)
              ELSE uri
  IN  JoinPath(root, IF rest = <<>> THEN <<"/">> ELSE rest)

(* resolvePath: the index goes behind a path that ends with "/", and the server's
   own index behind any other path too. *)
FullPath(site, location, directory, uri) ==
  LET path == GetFilePath(site, location, directory, uri)
      index == IF location.index # <<>> THEN location.index ELSE site.index
  IN  path \o (IF Last(path) = "/" THEN WithoutDot(index) ELSE site.index)

(* substr() with a position behind the end throws std::out_of_range. *)
BehindTheEnd(directory, uri) == directory # <<>> /\ Len(directory[1].path) > Len(uri)

(* stat() and ifstream on the files, whose sizes are given. *)
IsDirectory(files, path) ==
  \E f \in DOMAIN files : IsStrictPrefix(IF Last(path) = "/" THEN path ELSE Append(path, "/"), f)

-----------------------------------------------------------------------------
(* Responses *)

Open == -1   \* the side of a range that is not given
ByteRange == [asked: BOOLEAN, wellFormed: BOOLEAN, start: Nat \cup {Open}, end: Nat \cup {Open}]
WholeFile == [asked |-> FALSE, wellFormed |-> TRUE, start |-> Open, end |-> Open]

(* (mutant) The end of the range is taken as it is given. *)
LastByteAsAsked(range, size) ==
  LET start == IF range.start = Open THEN 0 ELSE range.start
      end == IF range.end = Open THEN size - 1 ELSE range.end
  IN  IF end - start + 1 > MaxSlice THEN start + MaxSlice - 1 ELSE end

(* parseRange *)
FirstByte(range) == IF range.start = Open THEN 0 ELSE range.start

LastByte(range, size) ==
  LET start == FirstByte(range)
      end == IF range.end = Open \/ range.end >= size THEN size - 1 ELSE range.end
  IN  IF end - start + 1 > MaxSlice THEN start + MaxSlice - 1 ELSE end

Satisfiable(range, size) ==
  /\ range.wellFormed
  /\ FirstByte(range) < size
  /\ FirstByte(range) <= LastByte(range, size)

(* What is to be done with a request, and the answer if there is one already: bytes
   first .. last of size, and whether the connection is closed after it.  Bodies that
   are not from a file have no size here. *)
Deeds == {"answer", "run", "upload", "delete", "throw"}
VerdictType == [deed: Deeds, status: Nat, path: Text, size: Nat, first: Int, last: Int,
                closes: BOOLEAN]
Answer(status) == [deed |-> "answer", status |-> status, path |-> <<>>, size |-> 0,
                   first |-> 0, last |-> -1, closes |-> FALSE]
Do(deed, path) == [Answer(200) EXCEPT !.deed = deed, !.path = path]
Plain(status) == [Answer(status) EXCEPT !.closes = TRUE]

(* buildFileResponse.  No page is configured for 416. *)
FileAnswer(status, path, size, range) ==
  IF ~range.asked
  THEN [Answer(status) EXCEPT !.path = path, !.size = size, !.last = size - 1]
  ELSE IF Satisfiable(range, size)
  THEN [Answer(206) EXCEPT !.path = path, !.size = size, !.first = FirstByte(range),
                           !.last = LastByte(range, size)]
  ELSE Plain(416)

(* buildErrorResponse: an error page is a file like any other, range and all. *)
ErrorAnswer(site, status, range) ==
  IF site.pages[status] # NoPage
  THEN FileAnswer(status, <<>>, site.pages[status], range)
  ELSE Plain(status)

-----------------------------------------------------------------------------
(* Router::process *)

(* A request: what it uploads is nothing ("none": no Content-Type), of another type,
   broken, or a file. *)
Request == [method: Methods, uri: Text, range: ByteRange,
            form: {"none", "other", "broken", "file"}]

(* parseRequestLine looks the location and the directory up in the URI as it was
   sent; process looks the location up again in what is left of it. *)
FirstLocation(site, r) == GetMatchLocation(r.uri, site)
Directory(site, r) ==
  LET i == LongestMatch(r.uri, site.directories)
  IN  IF i = 0 THEN <<>> ELSE <<site.directories[i]>>
SecondLocation(site, r) == GetMatchLocation(PathOf(r.uri, site), site)

(* handleRouteProtected: _protectedRoutes holds nothing but the URI itself. *)
MustLogIn(site, r, authenticated) ==
  Locations(site)[FirstLocation(site, r)].auth /\ ~authenticated

CheckAllowedMethods(site, r) ==
  LET location == Locations(site)[SecondLocation(site, r)]
  IN  \/ r.method \in location.methods
      \/ location.methods = {} /\ ~IsCgi(location)
      \/ IsFile(location) /\ r.method \in Directory(site, r)[1].methods

(* isCgirequest, asked of a location that runs CGIs. *)
RunsAsCgi(location, path) ==
  \/ location.passes
  \/ LET dot == LastOf(".", path)
     IN  dot # 0 /\ \E k \in DOMAIN location.cgiExtension :
                      location.cgiExtension[k] \in {From(path, dot), <<".", "*">>}

(* handleGet and handleDirectoryListing. *)
Get(site, files, location, path, range) ==
  LET index == JoinPath(path, WithoutDot(location.index))
  IN  IF IsDirectory(files, path)
      THEN IF location.index # <<>> /\ index \in DOMAIN files
           THEN FileAnswer(200, index, files[index], range)
           ELSE IF location.autoIndex THEN Answer(200) ELSE ErrorAnswer(site, 404, range)
      ELSE IF path \in DOMAIN files THEN FileAnswer(200, path, files[path], range)
      ELSE ErrorAnswer(site, 404, range)

(* handlePost, handleUpload and parseMultipart; the parser has refused a body that is
   too large. *)
Post(site, location, form, range) ==
  IF location.store = <<>> THEN Answer(200)
  ELSE CASE form = "none"   -> ErrorAnswer(site, 400, range)
         [] form = "other"  -> ErrorAnswer(site, 415, range)
         [] form = "broken" -> ErrorAnswer(site, 400, range)
         [] form = "file"   -> Do("upload", location.store)

(* handleDelete. *)
Delete(site, files, path, range) ==
  IF IsDirectory(files, path) THEN ErrorAnswer(site, 403, range)
  ELSE IF path \in DOMAIN files THEN Do("delete", path)
  ELSE ErrorAnswer(site, 404, range)

(* launchCgi up to validateFilePermission; cgi_pass was found when it was read. *)
Run(site, files, location, path, range) ==
  IF location.passes \/ path \in DOMAIN files THEN Do("run", path)
  ELSE ErrorAnswer(site, 500, range)

(* executeRequest. *)
Execute(site, files, r, location, path) ==
  IF (location.passes \/ IsCgi(location)) /\ r.method \in {"GET", "POST"}
  THEN IF RunsAsCgi(location, path) THEN Run(site, files, location, path, r.range)
       ELSE ErrorAnswer(site, 403, r.range)
  ELSE CASE r.method = "GET"    -> Get(site, files, location, path, r.range)
         [] r.method = "POST"   -> Post(site, location, r.form, r.range)
         [] r.method = "DELETE" -> Delete(site, files, path, r.range)

Process(site, files, r, authenticated) ==
  LET location == Locations(site)[SecondLocation(site, r)]
      uri == PathOf(r.uri, site)
  IN  IF MustLogIn(site, r, authenticated) THEN Answer(307)
      ELSE IF location.redirected THEN Answer(301)
      ELSE IF ~CheckAllowedMethods(site, r) THEN ErrorAnswer(site, 405, r.range)
      ELSE IF BehindTheEnd(Directory(site, r), uri) THEN Do("throw", <<>>)
      ELSE Execute(site, files, r, location,
                   FullPath(site, location, Directory(site, r), uri))

-----------------------------------------------------------------------------
(* What a configuration means for a path, without look-ups. *)

(* Every location that the URI names anywhere, query and all, it names at the beginning
   of the path, and none of its extensions is one of a file location. *)
NamesOnePlace(site, r) ==
  LET path == PathOf(r.uri, site)
  IN  /\ \A i \in DOMAIN site.directories :
           Occurs(site.directories[i].path, r.uri) => IsPrefix(site.directories[i].path, path)
      /\ \A text \in {r.uri, path} : \A i \in DOMAIN site.files :
           GetExtension(text) = <<>> \/ ~Occurs(GetExtension(text), site.files[i].extension)

(* Nor has the server an index of its own, which goes behind every path. *)
Straightforward(site, r) == site.index = <<>> /\ NamesOnePlace(site, r)

(* The location of a path is the longest that it begins with, and its file is the
   rest of the path under that location's root. *)
MeantDirectory(site, path) ==
  CHOOSE i \in DOMAIN site.directories :
    /\ IsPrefix(site.directories[i].path, path)
    /\ \A j \in DOMAIN site.directories :
         IsPrefix(site.directories[j].path, path) =>
           \/ Len(site.directories[j].path) < Len(site.directories[i].path)
           \/ site.directories[j].path = site.directories[i].path /\ i <= j
=============================================================================
