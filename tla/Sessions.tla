------------------------------ MODULE Sessions ------------------------------
(* SessionManager, Session and cookies.cpp: the sessions by id, and what the handlers
   do with them.  An id is 32 random hexadecimal digits; that two are never the same
   is taken for granted, and the k-th session is given the id k. *)
EXTENDS Naturals, Sequences

None == 0    \* an empty session id, no Cookie header, no Set-Cookie header

Session == [authenticated: BOOLEAN, expired: BOOLEAN]
SessionTable == Seq(Session)
FreshSession == [authenticated |-> FALSE, expired |-> FALSE]

(* A look-up may add to the table: the table after it, and the session found. *)
Found(table, id) == [table |-> table, id |-> id]

(* createSession. *)
CreateSession(table) == Found(Append(table, FreshSession), Len(table) + 1)

(* getSession: an id that is not known, or expired, is answered with a new session;
   the old one is kept.  refresh() is that a session found does not expire yet. *)
GetSession(table, id) ==
  IF id \in DOMAIN table /\ ~table[id].expired THEN Found(table, id)
  ELSE CreateSession(table)

(* (mutant) The connection's own session goes before the cookie. *)
OwnSessionFirst(own, cookie) == IF own = None THEN cookie ELSE own

(* ensureSessionId: a cookie goes before the session the connection had. *)
EnsureSessionId(own, cookie) == IF cookie = None THEN own ELSE cookie

(* setSessionData("authenticated", "true") *)
Mark(found) == [found.table EXCEPT ![found.id].authenticated = TRUE]

(* applyAuthFromResponse, for a response that names a user. *)
ApplyAuth(table, id) ==
  LET found == GetSession(table, id) IN Found(Mark(found), found.id)
=============================================================================
