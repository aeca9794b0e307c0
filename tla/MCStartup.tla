------------------------------ MODULE MCStartup ------------------------------
(* Instances of Startup for TLC. *)
EXTENDS Startup

CONSTANT BadArgument

L(word, arg, brace) == [word |-> word, arg |-> arg, brace |-> brace, note |-> FALSE]

MCLines ==
  { L("server", "", "{"), [L("server", "", "{") EXCEPT !.note = TRUE],
    L("{", "", "{"), L("}", "", "}"),
    L("port", 1, ""), L("port", 2, ""),
    L("limit", 0, ""), L("limit", 5, ""),
    L("root", "./www", ""),
    L("location", "/", "{"), L("location", "/", ""), L("file", "ext", "{"),
    L("methods", "POST", "") }

MCDescriptors == 1 .. 7
=============================================================================
