# Verification of webserv

webserv is a single-threaded HTTP/1.1 server in C++98 built around one `poll()`
loop. It accepts connections, parses requests as their bytes arrive, serves files,
runs CGI programs and relays their output in chunks. Nothing runs in parallel
inside the server; what is hard about it is everything that happens *between* two
of its handlers (peers, CGI processes, time, signals), the tables that handlers
change while the loop is walking them, and requests and responses that arrive and
leave in pieces.

This directory holds TLA+ modules that model it, TLC configurations that check
them on small instances, and proofs, for every value of their constants, of the central
invariants of the event loop, of the startup, and of the sessions, logins and answers
of many browsers at once.

    tlc -workers 2 -config EventLoop.cfg MCEventLoop.tla
    tlc -workers 2 -config Serving.cfg MCServing.tla
    tlapm EventLoopSafety.tla

## 1. Inventory

| component | source | state | operations | what makes it correct |
|---|---|---|---|---|
| Event loop | `src/src/EventProcessor.cpp`, `client/clientManager.cpp` | poll array `_allSockets`, `_clients`, `_cgi_by_fd`, the stop flag | poll, accept, one handler per entry, register and clean up CGIs, close dead and idle connections, shut down | the tables agree with each other and the kernel; entries are neither skipped nor handled twice; every client is answered or closed |
| Client | `client/client.cpp` | state, read and write buffer, last action, CGI descriptor | read, prepare, send, finalize | polled events follow the state; nothing survives from one request to the next |
| CGI | `httpTcpServer/cgi/Cgi.cpp` | pid, pipe, output read so far, exit status | launch, read pipe, reap, kill | its client outlives it; all output is read before the answer ends; it is reaped |
| CGI response | `httpTcpServer/Response.cpp` | chunk state, out buffer, headers | parse headers, append chunk, finish | body intact and in order, well-formed chunks, an end |
| Request parser | `httpTcpServer/RequestParser.cpp`, `Request.cpp` | phase, chunk and length parsers, body in memory or in a file, bytes to discard | parse what has arrived | the same result however the bytes are cut; stays at request boundaries; limits hold |
| Router | `httpTcpServer/Router.cpp`, `utils/utils.cpp` | none between requests | match, authenticate, redirect, check the method, serve, launch | the file that the configuration means, the part that was asked for; the gate holds |
| Sessions | `Session/*.cpp`, `client/cookies.cpp` | sessions by id, the id of each connection | create, look up, authenticate, expire | a browser keeps its session and only its own; a login is not lost |
| Body files | `httpTcpServer/Request.cpp`, `cgi/Cgi.cpp` | the next number, the names in use, open descriptors | append, move to a file, read, remove | a body arrives whole and is not another's; no file is left |
| Startup | `main.cpp`, `httpTcpServer/HttpTcpServerLinux.cpp` | listeners, SIGINT flag | start all, run, free all | all or none start |
| Configuration | `src/src/fileConfig/*` | server, location and file blocks | read, inherit defaults | inheritance fills what a block leaves open |
| Upload, auto index, logs | `UploadManager/*`, `autoIndex.cpp`, `Logs.cpp` | none | write one file, list a directory, format | - |

Handlers call each other synchronously; the shared state is the poll array and
the two maps. The kernel (sockets, pipes, `waitpid`), the peers, the CGI processes
and the clock are asynchronous. What is hard to test is listed, each at its line,
under "hazards" in PROJECT.json.

## 2. Modules

    EventLoop        the poll loop with clients, CGIs, kernel and environment
      EventLoopInv     its inductive invariant
      EventLoopProofs  lemmas: the table operations and the answering handlers
                       keep the invariant
      EventLoopSafety  the other handlers, and the theorems
      MCEventLoop      instances for TLC
      MCLaunchAgain    an instance outside the safe deployments
    CgiStream        every byte of one CGI's output    --implements-->  CgiRelay
      CgiStreamProofs  what is sent is well formed; the refinement
      MCCgiStream
    RequestParser    the requests of one keep-alive connection
      RequestParserProofs  types; the limits of a body; that requests and answers
                       keep in step
      MCRequestParser
    Serving          whole requests of several browsers, and what they share
      Router           one request: location, method, file, range
      Sessions         the sessions by id
      BodyFiles        the temporary files, their names and descriptors
      ServingProofs    types; no two browsers share a session
      ServingSafety    the cookie, the login, the gate, the range, the files
      MCServing        instances for TLC
    Configuration    the configuration reader, line by line
      Startup          main(): read, start all servers, serve, release
        StartupProofs    what is started is what the file asks for, and what is
                         read is what the file says
        MCStartup
    SequenceLemmas   sequences, their parts and FlattenSeq, for the proofs

The composition is by abstraction. `EventLoop` is the whole system with each
buffer reduced to empty or not and each request to its parse result; `CgiStream`
and `RequestParser` open up the two places where bytes matter, with the loop around
them reduced to the handlers that touch those bytes. `Serving` opens up the request
itself and everything that requests share; its loop is one handler at a time in any
order, which includes every order that `EventLoop` produces. `Startup` builds on
`Configuration` and ends where `EventLoop` begins: with the poll array full of
listening sockets.

### EventLoop

One action is the handler of one poll-array entry, with every call it makes.

| TLA+ | code |
|---|---|
| `socks`, `idx` | `_allSockets` behind the listeners, the scan index |
| `clients`, `client`, `cgis`, `cgi` | `_clients`, `Client`, `_cgi_by_fd`, `Cgi` |
| `open`, `badClose` | the kernel's descriptor table, `close()` of what is not open |
| `peer`, `proc` | socket and peer, pipe and CGI process |
| `Poll`, `PollInterrupted`, `AcceptOne`, `AcceptEnd`, `ScanEnd` | `run`, `acceptConnections` |
| `DropDead`, `CloseIdle`, `Pass` | `removeDeadConnections`, `closeIdleConnection` |
| `ReadNothing`, `ReadPart`, `ReadRequest`, `ReadPipe` | `processRead`, the POLLHUP branch of `processClientEvents` |
| `RunPage`, `LaunchCgi`, `LaunchFails`, `ReportError`, `RelayCgi`, `FinishCgi`, `FailCgi`, `FlushRest` | `processWrite`: `processRequest` or `handleCgiIO`, then `handleResponse` |
| `ShutDown` | `shutDownProcessor`, destructors |

A handler that changes the tables in several steps starts from the record `Tables`
and passes it through functions named after the code's (`CleanupCgi`, `RegisterCgi`,
`CloseConnection`), each seeing what the one before did. Listeners stay at the
front of the array and are left out. `lastAction` is reduced to stale or not, and
goes stale only in `poll()`, the one place where the loop waits.

*Deployments.* `Setups` says whether `send()` may take only part of a buffer and
whether launching a CGI may fail. The passing runs and the theorems are about deployments
where at most one of the two happens (`SafeSetup`). Nothing in the code excludes both, and
with both it goes wrong, which the run `sends_after_launch` shows: the 500 of a failed
launch is sent in part; since the state stays `PARSE_OK`, the next POLLOUT runs the Router
again instead of sending the rest; the CGI is launched after all, `registerCgi` pushes
its pipe to the vector, and `handleResponse` goes on sending the 500 through a reference
into that vector taken before. What a reference into freed memory does is undefined, so
no invariant is claimed there, nor a theorem: `EventLoop` follows the code up to that step.
The Router is run again after every short send, in safe deployments too; there
it repeats an answer, an upload or a deletion, and never launches.

*After SIGINT.* The handler sets a flag which `run()` reads only at the end of a
round. If `poll()` is interrupted the round goes on with the revents of the round
before. That last round is modelled; properties about the fit of events and states
exempt it (`~stop`), the structural ones do not.

### CgiStream and CgiRelay

`CgiRelay` is the promise: the body arrives in order, a complete answer is the
whole body of a CGI that succeeded, and an error comes only in place of the body.
`CgiStream` follows the output through pipe, `_outputBuffer`, `_outBuffer`,
`_writeBuffer` and short `send()`s, and is shown to implement it. Its units are
header lines, line-end pairs and bytes of body: the blank line is one unit, so a
`\r\n\r\n` that arrives in two reads is not covered (the search is over all that
was read, and finds it either way).

### RequestParser

A conversation is a sequence of requests; `Bytes` is how they look on the wire,
and every action of the server is one `read()` of any length followed by
`parseRequestBuffer`, or one response followed by `resetClientState`. CR and LF are
separate units. The loop of `parseChunkBody` is a recursive function over turns.
A body larger than `MaxBuffer` goes to a file, and the disk may fill at any time.
Parsing is checked against its specification, "the k-th answer is what the k-th
request is due", which mentions neither reads nor parser states.

### Serving, Router, Sessions, BodyFiles

| TLA+ | code |
|---|---|
| `sessions` | `SessionManager::_sessions` |
| `conn` | `Client` with its `Request`, `Response` and `Cgi` |
| `disk`, `files` | the temporary files; the files of the site |
| `jar`, `replies` | the browsers' cookies; answers sent and not yet received |
| `ReadHead`, `ReadBody`, `ReadBodyFails` | `processRead`, `appendBody`, `setSession` |
| `AnswerPage`, `Upload`, `DeleteFile`, `Launch`, `Throw`, `ReportError` | `processWrite`, `Router::process`, `handleResponse` |
| `RelayHead`, `FinishCgi`, `FailCgi` | `handleCgiIO`, `applyAuthFromResponse`, `cleanupCgi` |
| `Drop`, `Stop` | `removeDeadConnections`, `closeIdleConnection`, `shutDownProcessor` |

`Router!Process` is `Router::process` as a function of the site, its files, the request
and whether its session is logged in; what it returns is a `Verdict`: a `deed` and an
answer. A location is looked up three times, by different texts: `Directory` in the
URI as it was sent, `FirstLocation` in the path before its query is cut off (which
decides the login), `SecondLocation` in the path that remains (which decides the
rest). All three are modelled as they are, and so is that a location matches
*anywhere* in a path. A page is `guarded` if the location that serves it asks for a login:
`FirstLocation` may be another, a rule for files that the end of a query matches, and then
the page goes out without one (`gate_by_query`).

A session id is 32 random digits; that no two are equal is taken for granted, and
the k-th session has the id k. Sessions expire at any time (`Expire`) and stay in the
table. In `BodyFiles` the name, the file it leads to and the descriptor of a request
are three things: `remove()` takes a name away, and `open()` with `O_TRUNC`
empties a file that another request still has open. `created`, `serial` and `late`
are history, which `DeliveredIsSent` uses to excuse exactly the two requests that
share a file after the numbers came round.

*Simplified.* `send()` takes the whole buffer, one `read()` brings the head or one part
of a body, and the pipe of a CGI is read and relayed in one step: `EventLoop`,
`RequestParser` and `CgiStream` are about the other cases. Requests are
well formed and within their limits. Every site has a location "/", and paths begin
with "/": otherwise `getFileDirectory()` is NULL and is dereferenced
(`Router.cpp:169`, `buildEnvStrings.cpp:72`). There is no page for 416. A browser
waits for its answer before it asks again on the same connection.

*What the model shows beside its properties.* A directory found in a query string that
is longer than the path (`/?/p/q`) makes `substr` throw, and `run()` ends (`Throw`).
A range on a request whose error page is a file turns the 404 into a 206. The index
of a server is appended to every path, those of files too. First requests of one
browser on several connections each create a session, and the cookie received last
wins. A CGI that fails after its headers leaves its connection `"stuck"`.

### Configuration and Startup

`setConfigs`, `setServerConfig` and `setLocationConfig`/`setFileConfig` are three
readers of one stream, each with its own idea of whether its brace is open; an
action is one line read by the active one. A line is its first word, argument,
brace and whether a comment follows. One directive stands for each way a value is
stored: `limit`, `buffer` and `root` overwrite, `port` and `methods` add to a list.
The result is compared with `MeantServer`, which reads the same file by position,
without readers or flags. Files with a comment behind the brace of a `server` line
are read and started, but left out of that comparison: `containBrackets` takes such
a line for one without a brace, and what follows is skipped until a brace comes.
The repository disagrees with itself on the root of a location where neither the
location nor its server says one: `src/README.md:73` documents `var/www`, and
`setDefaultLocation` has a branch that sets and logs it (`SetLocations.cpp:314`), but
`ServerConfig()` presets `"./"` (`ReadConfig.cpp:10`), so the branch is never reached and
the location gets `"./"`. `ReadAsWritten` accepts either, the same for all locations.

`StartServer` is one turn of the inner loop of `initialize_all_servers`; any turn
may fail (`StartFails`) or end in `exit()` (`StartAborts`). All servers have the
same host, so a port written twice makes `bind` fail, which `AddHostToPort` does
not prevent. After a failure the code deletes as many servers as there are blocks
before the failing one, although the vector has one element per port; the listeners
left open live until the process ends, which is soon, since `run()` returns at once
from an empty poll array.

## 3. Runs

| run | bounds | shows |
|---|---|---|
| `loop` | 1 client at a time, everything may end, fail, reset or be interrupted; 2 quiet clients with a CGI each, 4 descriptors; both safe deployments | `TypeOK`, `EventsFollowState`, `IdleIsClean`, `CompletedMeansDrained`, `ClosesOnlyItsOwn`, `TablesAgree`, `CgiHasItsClient`, `PipeAfterClient`, `ScanIsOnePass` |
| `loop_live` | 1 client, 2 descriptors, short sends, CGIs that succeed | `RequestIsAnswered`, `ResetIsNoticed`, `IdleIsClosed`, `ExitIsReaped` |
| `sends_after_launch` | 1 client, short sends and failing launches | violated: a CGI is launched while the 500 of its failed launch is being sent |
| `half_closed` | 1 client | violated: a half-closed connection is polled for ever |
| `failed_cgi` | 1 client | violated: a CGI failing after its headers leaves the client waiting |
| `cgi_stream` | 16 scripts of up to 5 units, pipe of 3 | `TypeOK`, `Framed`, `RelaySpec`, `SuccessIsAnswered`, `FailureIsTold` |
| `lf_headers` | 1 script, succeeding or failing | violated: LF-ended headers before a CRLFCRLF in the body |
| `request_parser` | the 100 pairs of 10 requests, limits 3 and 2, sizes that wrap no sum | `TypeOK`, `AnswersAreDue`, `StaysInStep`, `BodyIsBounded`, `CompleteIsAnswered` |
| `serving` | 3 sites with every method, path, range and form; 2 browsers on 2 connections with a login, a gated page and expiring sessions; bodies of 2 and 3 parts with 2 names, with failures | `TypeOK`, `SessionsArePrivate`, `TellsSession`, `GateHolds`, `LoginSticks`, `DeliveredIsSent`, `NoFileLeft`, `FileIsWhereItsLocationSays`, `SliceFits` |
| `startup` | every file of up to 7 of 13 lines, every port failing or not | `TypeOK`, `ReadAsWritten`, `ListensOnAll`, `CleanupInRange` |
| `not_due` | a refused request, then one with a body; a chunk whose size wraps the sum | violated: the discarding state leaks into the next request; a body beyond the limit is taken |
| `gate_by_query` | 1 site with a rule for files, 1 request | violated: a page behind the gate is sent without a login |

*Why the bounds are enough.* A scan hazard needs an entry that is erased or pushed and
another one to be skipped: two clients with a CGI each make every order of four entries.
In `loop` one client at a time has no restriction. While there are two, `QuietTogether`
keeps the run small: the environment acts only while the loop is in `poll()` (a handler
sees only revents, which were taken there), `poll()` is not interrupted, peers wait for
their answers and end by a reset, clients with a CGI do not get stale (which only
refreshes them), requests are for CGIs and sends whole. Fds are symmetric in the safety
run, and never in a liveness run. In `RequestParser` the reads have any length, so a
pair of requests is cut in every possible way; two requests are what it takes for one to
disturb the next. A `size_t` of 8 values (`WordSize`) is the smallest for which the
conversations of `request_parser` satisfy `NothingWraps`, and a chunk of seven behind
one of one makes the sum 0. TLC prints one of the two ways to the violation of
`not_due`; the other is seen by taking that one's conversations out of `MCNotDue`. In
`CgiStream` the longest script is longer than the pipe, so writing and reading must
alternate. `PipeCap <= BufSize` is the code's own relation: a pipe holds 64 KiB and
`BUFFER_SIZE` is 65536.

In `Serving` the first state chooses a deployment. Three of them are sites on which one
request meets every route: locations that nest, that are found in the wrong order
(`Mixed`), that a file rule cuts across, a server with an index and one with an error
page; one request is enough, since `Router` keeps nothing. In the others
requests meet each other. Three of them are what it takes for one browser to log in
and to use the login from a connection that had another session, and for two browsers
that take turns on one connection to come between; two browsers meet on two
connections with two requests. With two names, the third body
is given the name of the first. A buffer of one part makes a body of two parts move to
a file in the middle, and one of three parts be written to after that. What expires
and what fails has smaller deployments of its own. Connections and browsers are symmetric.

Seven lines are enough for two servers of which one has two ports, for
a location that inherits a setting written before it and not one written after it,
and for two locations of one server.

*What a violated run means.* Each states what a comment or header of the
repository says and shows a behaviour of the code that contradicts it; the quotes
are with the findings in PROJECT.json. `failed_cgi` also delimits `loop_live`, which
assumes CGIs that end and succeed: one that never ends is never ended by the server,
since `closeIdleConnection` refreshes a client with a CGI instead of closing it.
Failed launches are covered for safety by `loop` and for liveness they are the
same as pages.

*Mutants.* Each property of a passing run has a mutant: a definition marked
"(mutant)" beside the one it replaces, wrong in the way a plausible bug in that
code would be, under which TLC finds the property violated.

## 4. Fairness

The loop makes progress: `poll()` has a timeout and all descriptors are
non-blocking, so weak fairness of the loop as a whole is what the code gives. It is
stated as `[]<><<Loop>>_vars` because `Loop` is enabled until the shutdown. A
`send()` takes at least one byte of a finite response, so a buffer that is sent
again and again is eventually empty (`SendsRest`). Of the environment we assume
that the peer's kernel drains its socket, that a CGI closes stdout and exits when
`Exits` allows it, and that time passes. Peers need not send anything.
In `CgiStream` the loop polls both descriptors (weak fairness of `ProcessPipe` and
`ProcessWrite`) and the process runs on. `RequestParser` needs no fairness: that
nothing is left waiting is the invariant `CompleteIsAnswered`. `Serving` states none: its
properties are invariants, and its loop may run in any order or stop.

## 5. What is proved

For any descriptors, number of clients, routes, endings and safe deployments
(`SafeSetups` and the named assumptions of `EventLoop`), TLAPS checks in
`EventLoopSafety`

    Invariant                  Spec => []IInv
    TypeCorrect                Spec => []TypeOK
    TablesAlwaysAgree          Spec => []TablesAgree
    CgiAlwaysHasItsClient      Spec => []CgiHasItsClient
    PipeAlwaysAfterClient      Spec => []PipeAfterClient
    EventsAlwaysFollowState    Spec => []EventsFollowState
    IdleIsAlwaysClean          Spec => []IdleIsClean
    CompletedIsDrained         Spec => []CompletedMeansDrained
    AlwaysClosesOnlyItsOwn     Spec => []ClosesOnlyItsOwn
    ScanIsAlwaysOnePass        Spec => ScanIsOnePass

and in `StartupProofs`, for any lines, length of file, defaults and descriptors,

    StartupTypeCorrect         Spec => []TypeOK
    CleanupAlwaysInRange       Spec => []CleanupInRange
    AlwaysListensOnAll         Spec => []ListensOnAll
    ReadsAsWritten             Spec => []ReadAsWritten

where a location that has no root, in a server that says none, may have either of
`UnsaidRoots` (see *Configuration and Startup*).

For any site, requests, names, number of connections and browsers (the named assumptions
of `Router`, `BodyFiles` and `Serving`), in `ServingProofs` and
`ServingSafety`,

    ServingTypeCorrect         Spec => []TypeOK
    NoSharedSession            Spec => []SessionsArePrivate
    BrowserIsTold              Spec => []TellsSession
    LoginIsKept                Spec => []LoginSticks
    GateIsKept                 Spec => []GateHolds
    SlicesFit                  Spec => []SliceFits
    NoFileStays                Spec => []NoFileLeft
    DeliveredAsSent            Spec => []DeliveredIsSent
    FilesAreFound              Spec => []FileIsWhereItsLocationSays

`GateIsKept` is about URIs that name one place (`NamesOnePlace`): every location that occurs
in them, query and all, is at the beginning of the path, and they end in no extension of a
rule for files. For the others it is false (`gate_by_query`).
`FilesAreFound` is about the same URIs, where the server has no index of its own
(`Straightforward`), for sites whose CGI extensions are not empty (`ExtensionsAreNamed`:
`getCgi` takes a ";" on its own for one, which is found at the beginning of every path) and whose
indexes are files (`IndexesAreFiles`: the name of an index neither begins nor ends with
"/", and no file has it as the name of one of its directories). Where an index is the name
of a directory with a file of that name in it, `handleGet` appends it twice, and the
property is false.

and in `CgiStreamProofs`, for any scripts, any capacity of the pipe and any larger
buffer,

    StreamTypeCorrect          Spec => []TypeOK
    AlwaysFramed               Spec => []Framed
    StreamImplementsRelay      Spec => RelaySpec

the last for scripts that end their headers in one way (`HeadersEndOnce`: no CRLF CRLF
after an LF LF unless the headers had ended before it; the run `lf_headers` shows
what becomes of the others);
and in `RequestParserProofs`, for any requests in any conversation and any limits,

    ParserTypeCorrect          Spec => []TypeOK
    BodyAlwaysBounded          NothingWraps |- Spec => []BodyIsBounded
    EveryAnswerIsDue           Spec => []AnswersAreDue
    AlwaysInStepWithPeer       Spec => []StaysInStep
    WholeIsAnswered            Spec => []CompleteIsAnswered

the second for conversations in which no number that is sent, added to what may be kept of a
body, reaches `WordSize` (`NothingWraps`; the run `not_due` shows a body without limit
where one does), and
the last three for conversations that are `Conversable`: every request can be made out
(`WellFormed`: it has header lines, none of which is a line end, no chunk but the last is
empty or wraps the sum in `CHUNK_SIZE`, and a body in one piece is as long as its Content-Length says), and there are no
error pages, so that the connection is closed after a refused body. Neither can be
spared. With error pages the connection is kept and the rest of the body is taken for the
next request, which the run `not_due` shows; a request without a header line is
`PARSE_INCOMPLETE` for ever, a chunk that is empty ends the body, and of a body longer than
its length the rest begins the next request. The conversations of the run
`request_parser` are `Conversable`.

*The argument for the event loop.* `IInv` is `TypeOK /\ Core`
with `Steady` and `Drained` as long as the loop is not told to stop. `Core` is the
structure: the tables agree (`Agree`), clients and CGIs point at each other
(`Linked`), pipes stand behind their clients (`Ordered`), nothing was closed twice.
None of this is inductive alone. `LaunchCgi` would overwrite `_cgiOutputFd` if its
client already had a CGI, so `Core` also says that a client in a parsed state has
none; `ReadRequest` would put a client with a CGI in such a state, so an entry
that may be handled as readable belongs to a client without one (`Readable`). That
has to hold for the rest of the round, hence `Ahead`. `Core` survives the round
after an interrupted `poll()`; `Steady`, which relates the fields of a client, its
events and its revents, does not, and is claimed only while `~stop`. Its subtlest
part is `Relaunch`: a failed `send()` leaves a request that would run again,
harmless because the connection was reset and the next `poll()` reports POLLHUP
before POLLOUT is looked at. `Drained` is `CompletedMeansDrained` of tables in the
middle of a handler, between the calls that launch, clean up and erase.

`EventLoopProofs` proves what each table operation keeps, whatever handler calls
it, then that `HandleResponse`, the common end of all write handlers,
keeps `IInv` from any client it may be given, and so do the handlers that call it;
`EventLoopSafety` adds the remaining steps, one lemma per action, and the theorems.
The action property is proved along with the invariant: every lemma of a
handler concludes `StepOK`, which is `IInv'` and `SidesKept`, from what
the tables look like in the middle of it (`Through`: an entry is an old one on its
side of the index, or a new one, of a descriptor not in use before).
The order pipes-behind-clients is what makes `RemoveAt(socks, idx)` after
`CleanupCgi` remove the right entry.

For `Startup` the invariant is `TypeOK /\ Progress /\ CleanupInRange`. A cleanup in
block `i` deletes `i - 1` elements, so it stays in range if every earlier block
contributed at least one: `Progress` says `(i - 1) + (j - 1) <= Len(servers)`, and
moving to the next block keeps it because a stored block has a port, which
`TypeOK` carries from `SetDefaultServer` through the whole reading. `ListensOnAll`
needs `ListenInv`: while servers are started, the vector is what the two loops have
`Passed` of the file (the lists of ports of the blocks before this one, flattened, and
the ports of this one before `j`), and its descriptors are distinct and the only open
ones (`Holds`). A new server gets a free descriptor, so none that another has; a block
that is through is one more list in the flattening (`FlattenGrows` of
`SequenceLemmas`); and when all are through what is passed is all that is `Asked`.

`ReadAsWritten` compares the three readers with a reading by position, so its invariant
`WrittenInv` says of every prefix of a file what the readers have made of it: between
servers (`Outside`) every block has its brace and `configs` is what is meant by the
servers so far; in a server (`InServer`) it is the last one that began, and the
`ServerConfig` being filled has what its lines say so far (`ServerSoFar`); in a location
(`InBlock`) that is the only block without a brace, the server's lines end with the line
that opened it (`OpenBlockIsLast`, why what the server said before it is all that the
server has said), and so it takes part only when its brace is read (`PlaceIsMeant`). One
lemma for each line a reader may get follows from what a line adds: to the lines of a
block (`BlockAdded`) and of a server (`ServerAdded`, where `Joins` says which server, if
any), to the last value of a setting (`SettingAdded`), and to what is listed in the order
of the file (`ArgsAdded`, `PlacesGrow`, `ServersGrow`), which rests on the one order that
a set of positions has (`RisingExists`, `RisingUnique`). That a server without a comment
behind its brace is open from its first line is the second half of the invariant: it is
why no line is passed over, and why `EndOfFile` finds no server that is complete without
a brace.

For `Serving` each invariant rests on the one before. `SessionsArePrivate` follows from
`SessionInv`: whatever id a browser holds, in its jar, on a connection or in an answer on
its way, exists (`HeldExist`), is held by no other browser (`HeldApart`), and is logged
in only if the browser is a member (`HeldByMembers`). It is inductive because every
step does one of three things with ids, each a lemma: it adds a session at the end of
the table and gives it to one browser, tells a browser of an id it holds, or
forgets one. `TellsSession` needs to know what a request may leave behind on a kept
connection: an id that its browser has already, or is being sent (`Owed`).
`LoginSticks` uses that a table only grows and marks are never taken back.
`GateHolds` needs three facts: that a URI that names one place has its login asked for by the
location that serves it (`AskedWhereServed`), where answers come from (`RoutedAnswer`: a
routed page behind a gate then means the session that was looked up is logged in), and that a CGI behind
a gate runs for a member for as long as it runs, although its answer is built long
after the check. `SliceFits` is arithmetic over `LastByte`, carried through
`Process` by a lemma on where a 206 can come from.

`NoFileStays` and `DeliveredAsSent` rest on `FilesInv`, which says when a request is
alone in its file (`Alone`: its name was free, and fewer names than there are were used
since): its file holds the parts that were read and nothing else, no name but its own
leads there, and no other request holds it (`NobodyElses`). What makes this inductive
is where the counter stands (`NumberFits`): as far ahead of a request's name, modulo
`Names`, as names were used since, so the step that gives the name again is the one
that makes the request `Overtaken`. A file that is new is nobody's, because it is
known by a request that has none yet (`NotYetAFile`). A step of one connection is a
`FileStep`: it writes one file, or uses one number and opens one file, and leaves
everything else; one lemma (`FilesStep`) shows that such a step keeps `FilesInv` for
every other connection, and the actions only show that they are one.

For `CgiStream`, `Framed` is not inductive: it does not say which response may still
grow. `Sending` does. While the CGI is attached nothing is sent before its first
header line ends; a response whose body has begun is `Open`, well formed and ending
where a chunk or the last chunk may follow; a finished one is well formed and gets
nothing more; an error response, once built, is all there is. `OpenChunk` and
`ClosedByLast` show what a chunk and the last chunk do to an open response, and
`SendKeeps` that a short `send()` moves pieces from `_writeBuffer` to the wire and
loses none, so the handlers are judged by what they append, wherever sends cut it.

`StreamImplementsRelay` adds where the output is. `Piped` says that the pipe holds what
was written and not yet read, and that a completed CGI has left nothing there.
`Conserved` says the same of what was read (`Flowing`): until the headers end
it is all in `_outputBuffer`, and afterwards the data that was sent or is to be sent,
then the buffer, are the body up to what was read. `FlowOutput` and `FlowFinal` show
this of `appendCgiChunk`; they need that the blank line found in a part of
the output is the one of the whole (`HeadersKnown`), where `HeadersEndOnce` is used.
From it all that is sent is a response that is true of the script (`Telling`), and so
is what a client can make of a beginning of it (`ViewOf`). The wire only grows
(`WireGrows`), and two such views, one the beginning of the other, are a step of
`CgiRelay` or none (`ViewStep`).

For `RequestParser` the invariant `ParserInv` says of the client between two reads
that it is in `Clients`; the handlers are functions on clients, so each is one lemma
about the larger set `Parsers`, the clients inside `parseRequestBuffer`. Why the
limit holds, as long as no sum wraps, depends on how far the request was parsed (`PhaseOK`): before the body
nothing is kept; what is kept of a chunked body and the rest of its chunk fit
together, or the chunk is being discarded (`ChunkFits`); what is kept of a body with a
length is no more than was read of it, and the length fits unless all of it is
being discarded (`LengthFits`). The loop of `parseChunkBody` is a recursive function
of the number of turns, and `LoopKeeps` lifts a set that one turn keeps to the loop
(`SetInduction`, from the well-foundedness of `<`). That no read takes more than has
arrived needs that more is sent the more requests there are (`SentGrows`), which is
a fact about `FlattenSeq` (`FlattenGrows` in `SequenceLemmas`).

`AnswersAreDue`, `StaysInStep` and `CompleteIsAnswered` share one invariant, `StepInv`,
which places the parser in the stream of all the peer sends. A request that has k
before it begins at `Len(Sent(k))`, and where its line, its header lines, its chunks
and their sizes lie follows from `Bytes` (`Placed`, `HeadLaid`, `ChunkLaid`, `EndLaid`; what
lies where in a `FlattenSeq` is `InsideFlatten` of `SequenceLemmas`). The buffer always `Holds`
the stretch of the stream from a position p to what was read, and `Waits` says which
positions are possible, one case per phase: `LineLeft`, `HeadLeft`, `LengthLeft` and
`ChunksLeft`, which has one more for each state of the chunk parser. In each, the parser has
kept what the units before p are due (`Kept`), and what it looks for next lies wholly
behind p, so a search of the buffer finds the end that was sent or none: no header
line is a line end (`HeadersParsed`), and a chunk is skipped by its size and never
searched. `BufferParsed` is then what one `read()` does: it leaves the client waiting, with
part of the request not yet read, or with an `Outcome`, which is the request's answer and
position. The loop over chunks is followed turn by turn (`Turned`), where `LoopCounts`
lifts what holds with the number of turns done; after as many turns as there are units in
the buffer none is left that could be taken. Between requests nothing is kept (`Between`),
and of a peer that waits for its answers nothing more has been read. `CompleteIsAnswered`
is the contrapositive of the second conjunct of `StepInv`: who waits lacks a unit.

`FilesAreFound` compares three look-ups that search anywhere in three texts with one
that matches at the beginning (`MeantPaths`). A path is `Straightforward` if wherever a
location occurs in it, it is also at its beginning; then all three find the longest that
is (`IsLongest`), cutting off the query or the path info does not change which
(`PathIs`, where a query begins behind the path and an extension ends it), the same
length is cut off that was found, and joining root, rest and index gives the file that is
meant. That an index is not appended to a path that ends in it needs `IndexesAreFiles`
of the files that there are, which change: `FilesOK` says that they are those of the
deployment or have the names of uploads.

*Only model-checked:* the liveness properties and what they rest on, the fairness of
section 4 (liveness under fairness and ENABLED are out of the prover's reach). Every
invariant and every action property of a passing run is a theorem.

## 6. Not modelled

Environment strings of a CGI, URI decoding, the texts of headers, of listings and
of logs, the search for a boundary in an upload: sequential and without state that
outlives a handler. Descriptors that later CGIs inherit. The width of `size_t` except where
announced numbers are added (`ChunkSize`), and numbers that are announced and never sent.
That a signal may reach a process whose pid was reused, and how long timeouts take. A
connection kept after a failed append (a page for 500 is in the model and in no run). What a
moved reference does (see *Deployments*). Of the configuration: the text of values
(addresses, sizes, redirects), which is well formed or `Bad`, and servers on
different hosts. Requests with a path that does not begin with "/" and sites without
a location "/" (see above), and an error page for 416, whose range is looked at again
and again.

## 7. Plan

1. `EventLoop`, its invariant and theorems; `CgiStream`/`CgiRelay`; `RequestParser`;
   `Configuration`/`Startup` with its theorems (done).
2. `Serving` with `Router`, `Sessions` and `BodyFiles`, and its theorems (done).
3. `ScanIsOnePass` and `CompletedMeansDrained` as theorems, and
   `TypeOK` and `Framed` of `CgiStream` (done).
4. `TypeOK` and `BodyIsBounded` of `RequestParser` (done).
5. That `CgiStream` implements `CgiRelay`, from the invariant `Conserved` (done).
6. `ListensOnAll`, with the lemmas on `FlattenSeq` of `SequenceLemmas` (done).
7. `AnswersAreDue`, `StaysInStep`, `CompleteIsAnswered` and
   `FileIsWhereItsLocationSays` (done).
8. `ReadAsWritten` (done).
9. What the code does outside the hypotheses of the theorems, as violated runs:
   `sends_after_launch`, `not_due`, `gate_by_query` (done).
