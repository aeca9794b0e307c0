------------------------------ MODULE MCServing ------------------------------
(* Deployments for TLC: sites on which one request at a time meets every route, and
   small sites on which several browsers, bodies and CGIs meet each other. *)
EXTENDS Serving

CONSTANTS c1, c2, c3, b1, b2, b3

MCAuthorName(id) == ToString(id)

-----------------------------------------------------------------------------
(* Locations *)

Dir(path, root) ==
  [path |-> path, extension |-> <<>>, methods |-> {"GET", "POST"}, root |-> root,
   index |-> <<>>, autoIndex |-> FALSE, redirected |-> FALSE, passes |-> FALSE,
   cgiExtension |-> <<>>, store |-> <<>>, auth |-> FALSE]
FileRule(extension) == [Dir(<<>>, <<>>) EXCEPT !.extension = extension, !.methods = {"GET"}]

Home == [Dir(<<"/">>, <<"h">>) EXCEPT !.index = <<"i">>]
Public == [Dir(<<"/", "p">>, <<"P">>) EXCEPT !.methods = {"GET", "DELETE"}]
Nested == [Dir(<<"/", "p", "/", "q">>, <<"Q">>) EXCEPT !.autoIndex = TRUE]
Gated == [Dir(<<"/", "g">>, <<"G">>) EXCEPT !.auth = TRUE]
Scripts == [Dir(<<"/", "c">>, <<"C">>) EXCEPT !.cgiExtension = <<<<".", "c">>>>]
Passed == [Dir(<<"/", "c">>, <<"C">>) EXCEPT !.passes = TRUE]
Uploads == [Dir(<<"/", "u">>, <<"U">>) EXCEPT !.store = <<"U">>]
Moved == [Dir(<<"/", "o">>, <<"O">>) EXCEPT !.redirected = TRUE]

Plan(directories, rules, index, pages) ==
  [root |-> <<"h">>, index |-> index, directories |-> directories, files |-> rules,
   pages |-> pages]
NoPages == [s \in Errors |-> NoPage]
PageFor404 == [NoPages EXCEPT ![404] = 3]

Wide == Plan(<<Home, Public, Nested, Gated, Scripts, Uploads, Moved>>, <<>>, <<>>, NoPages)
Mixed == Plan(<<Nested, Home, Gated, Passed, Public>>, <<FileRule(<<"f">>)>>, <<>>, PageFor404)
Indexed == Plan(<<Home, Scripts>>, <<>>, <<"i">>, PageFor404)

OnDisk ==
  [f \in { <<"h", "/", "i">>, <<"h", "/", "x">>, <<"h", "/", "x", "i">>, <<"h", "/", "k", ".", "f">>,
           <<"h", "/", "p", "/", "x">>, <<"P", "/", "x">>, <<"Q", "/", "x">>, <<"Q", "/", "d", "/", "x">>, <<"G", "/", "x">>,
           <<"C", "/", "s", ".", "c">> } |-> IF f = <<"P", "/", "x">> THEN 5 ELSE 2]

-----------------------------------------------------------------------------
(* Requests *)

Req(method, uri) == [method |-> method, uri |-> uri, range |-> WholeFile, form |-> "file"]
Asks(request, size, names) ==
  [request |-> request, size |-> size, keep |-> TRUE, names |-> names]

Uris ==
  { <<"/">>, <<"/", "x">>, <<"/", "n">>, <<"/", "p">>, <<"/", "p", "/">>, <<"/", "p", "/", "x">>,
    <<"/", "p", "/", "q">>, <<"/", "p", "/", "q", "/", "x">>, <<"/", "p", "/", "q", "/", "d">>,
    <<"/", "p", "/", "x", "?", "/", "p", "/", "q">>, <<"/", "?", "/", "p", "/", "q">>,
    <<"/", "g", "/", "x">>, <<"/", "o">>, <<"/", "u">>, <<"/", "k", ".", "f">>,
    <<"/", "c", "/", "s", ".", "c">>, <<"/", "c", "/", "s", ".", "c", "/", "p">>,
    <<"/", "c", "/", "t", ".", "c">>, <<"/", "c", "/", "x">> }
Ranges ==
  { [asked |-> TRUE, wellFormed |-> well, start |-> start, end |-> end] :
      well \in BOOLEAN, start \in {Open, 0, 1, 4, 5}, end \in {Open, 0, 1, 4, 9} }

OneEach ==
  { Asks(Req(method, uri), 0, FALSE) : method \in Methods, uri \in Uris }
  \cup { Asks([Req("GET", uri) EXCEPT !.range = range], 0, FALSE) :
           range \in Ranges, uri \in {<<"/", "p", "/", "x">>, <<"/", "n">>} }
  \cup { Asks([Req("POST", <<"/", "u">>) EXCEPT !.form = form], 1, FALSE) :
           form \in {"none", "other", "broken", "file"} }
Routing(site) ==
  [ site |-> site, files |-> OnDisk, asks |-> OneEach, most |-> 1, conns |-> {c3},
    browsers |-> {b3}, fails |-> TRUE, expires |-> FALSE ]

-----------------------------------------------------------------------------
(* Several at once *)

Small == Plan(<<Home, Gated, Passed, Uploads>>, <<>>, <<>>, NoPages)
Few == [f \in {<<"G", "/", "x">>} |-> 2]

(* A login, and a page behind the gate: one browser on two connections, two browsers in
   turn on one, two on two with a request less, and one whose sessions expire. *)
Login == Asks(Req("GET", <<"/", "c">>), 0, TRUE)
MembersPage == Asks(Req("GET", <<"/", "g", "/", "x">>), 0, FALSE)
Browsing ==
  [ site |-> Small, files |-> Few, asks |-> { [Login EXCEPT !.keep = FALSE], MembersPage },
    most |-> 3, conns |-> {c1, c2}, browsers |-> {b3}, fails |-> FALSE, expires |-> FALSE ]
InTurn == [Browsing EXCEPT !.conns = {c3}, !.browsers = {b1, b2}]
Meeting == [Browsing EXCEPT !.asks = {Login, MembersPage}, !.most = 2, !.browsers = {b1, b2}]
Ageing == [Meeting EXCEPT !.conns = {c3}, !.browsers = {b3}, !.fails = TRUE, !.expires = TRUE]

(* Bodies of two and three parts in memory, in files, and on to an upload or a CGI. *)
Uploaded(size) == Asks(Req("POST", <<"/", "u">>), size, FALSE)
Posting ==
  [ site |-> Small, files |-> Few, asks |-> { Uploaded(2), Uploaded(3) },
    most |-> 3, conns |-> {c1, c2}, browsers |-> {b3}, fails |-> FALSE, expires |-> FALSE ]
Failing ==
  [Posting EXCEPT !.asks = { Uploaded(3), Asks(Req("POST", <<"/", "c">>), 2, FALSE) },
                  !.most = 2, !.fails = TRUE]

(* The page behind the gate where there is a rule for files, asked for with a query that
   ends in the rule's extension. *)
Ruled == Plan(<<Home, Gated>>, <<FileRule(<<"f">>)>>, <<>>, NoPages)
MCQueried ==
  << [ site |-> Ruled, files |-> Few, most |-> 1, conns |-> {c3}, browsers |-> {b3},
       asks |-> { Asks(Req("GET", <<"/", "g", "/", "x", "?", "y", ".", "f">>), 0, FALSE) },
       fails |-> FALSE, expires |-> FALSE ] >>

MCDeployments ==
  <<Routing(Wide), Routing(Mixed), Routing(Indexed), Browsing, InTurn, Meeting, Ageing,
    Posting, Failing>>

(* c3 and b3 have deployments of their own. *)
Symmetry == Permutations({c1, c2}) \cup Permutations({b1, b2})
=============================================================================
