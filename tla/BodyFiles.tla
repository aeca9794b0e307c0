----------------------------- MODULE BodyFiles ------------------------------
(* The temporary files of request bodies: Request::appendBody, createTempFile,
   cleanup, readALlBody and writeBodyToFd, and the input file of a CGI (Cgi.cpp).

   Body files are numbered in turn and the numbers wrap; a file is opened with
   O_CREAT | O_TRUNC and removed by its name.  So a name, the file it leads to and the
   descriptor a request holds are kept apart: a file is known by the number of the
   request that created it, and outlives its name while a descriptor is open. *)
EXTENDS Integers, Sequences, FiniteSetsExt

CONSTANTS
  Names,        \* how many numbers there are before they wrap (2001 in the code)
  Buffer,       \* max_buffer_size, in parts of a body
  MaxRequests   \* bound on the number of requests

ASSUME NamesAssumption ==
  /\ Names \in Nat \ {0} /\ Buffer \in Nat /\ MaxRequests \in Nat

Requests == 1 .. MaxRequests
NoFile == 0
Part == Nat \X Nat        \* which request's, and which part of its body
Hole == <<0, 0>>          \* what was never written
Sent(n, size) == [i \in 1 .. size |-> <<n, i>>]

(* entry: the file a name leads to.  content: what was written to a file.  number:
   requestNbr.  created: how many were ever created (history).  inputs: the input
   files of CGIs, named by mkstemp(). *)
Disk == [entry: [0 .. Names - 1 -> Requests \cup {NoFile}],
         content: [Requests -> Seq(Part)], number: 0 .. Names - 1, created: Nat,
         inputs: SUBSET Requests]
EmptyDisk ==
  [entry |-> [k \in 0 .. Names - 1 |-> NoFile], content |-> [n \in Requests |-> <<>>],
   number |-> 0, created |-> 0, inputs |-> {}]

(* The fields of a Request that hold its body.  at: the position of its descriptor.
   serial: the value of created when its file was; late: the name was another's when
   it was given (history). *)
Body == [memory: Seq(Part), inDisk: BOOLEAN, file: Requests \cup {NoFile}, at: Nat,
         name: 0 .. Names - 1, serial: Nat, late: BOOLEAN]
NoBody == [memory |-> <<>>, inDisk |-> FALSE, file |-> NoFile, at |-> 0, name |-> 0,
           serial |-> 0, late |-> FALSE]

(* A handler changes the disk and a body together. *)
Both(disk, body) == [disk |-> disk, body |-> body]

-----------------------------------------------------------------------------
(* (mutant) The numbers wrap one too late. *)
NextNumberLate(number) == IF number < Names THEN number + 1 ELSE 0

(* (mutant) The number is not advanced. *)
SameNumber(number) == number

NextNumber(number) == IF number < Names - 1 THEN number + 1 ELSE 0

(* createTempFile by request n: the name, which is used up even if open() fails. *)
TakeName(disk, body) ==
  Both([disk EXCEPT !.number = NextNumber(@), !.created = @ + 1],
       [body EXCEPT !.inDisk = TRUE, !.name = disk.number, !.serial = disk.created + 1])

(* open(): a file that has the name already is emptied, whoever uses it. *)
OpenFile(both, n) ==
  LET name == both.body.name
      file == IF both.disk.entry[name] = NoFile THEN n ELSE both.disk.entry[name]
  IN  Both([both.disk EXCEPT !.entry[name] = file, !.content[file] = <<>>],
           [both.body EXCEPT !.file = file, !.at = 0, !.late = file # n])

(* write() at the position of the descriptor. *)
Written(old, at, parts) ==
  [i \in 1 .. Max({Len(old), at + Len(parts)}) |->
    IF i > at /\ i <= at + Len(parts) THEN parts[i - at]
    ELSE IF i <= Len(old) THEN old[i] ELSE Hole]
WriteAll(both, parts) ==
  Both([both.disk EXCEPT !.content[both.body.file] = Written(@, both.body.at, parts)],
       [both.body EXCEPT !.at = @ + Len(parts)])

(* The body moves from memory to its new file. *)
Spill(both, n) ==
  LET moved == WriteAll(OpenFile(both, n), both.body.memory)
  IN  Both(moved.disk, [moved.body EXCEPT !.memory = <<>>])

(* appendBody of one part when all goes well. *)
Spills(body) == ~body.inDisk /\ Len(body.memory) + 1 > Buffer
AppendBody(disk, body, n, part) ==
  IF Spills(body) THEN WriteAll(Spill(TakeName(disk, body), n), <<part>>)
  ELSE IF body.inDisk THEN WriteAll(Both(disk, body), <<part>>)
  ELSE Both(disk, [body EXCEPT !.memory = Append(@, part)])

(* appendBody when the file cannot be opened, or is open and cannot be written. *)
AppendFails(disk, body, n) ==
  IF Spills(body)
  THEN {TakeName(disk, body), OpenFile(TakeName(disk, body), n)}
  ELSE {Both(disk, body)}
MayFail(body) == Spills(body) \/ body.inDisk

(* readALlBody and writeBodyToFd. *)
WholeBody(disk, body) == IF body.inDisk THEN disk.content[body.file] ELSE body.memory

(* (mutant) The descriptor is closed and the file left behind. *)
CloseOnly(disk, body) == disk

(* cleanup: remove() takes the name away, whatever file it leads to by now. *)
Cleanup(disk, body) ==
  IF body.inDisk /\ body.file # NoFile THEN [disk EXCEPT !.entry[body.name] = NoFile]
  ELSE disk

(* prepareCgiInputFile, and the remove() of ~Cgi. *)
CreateInput(disk, n) == [disk EXCEPT !.inputs = @ \cup {n}]

RemoveInput(disk, n) == [disk EXCEPT !.inputs = @ \ {n}]

(* The name was given again since: so many bodies were moved to files. *)
Overtaken(disk, body) == disk.created - body.serial >= Names
=============================================================================
