-------------------------- MODULE MCRequestParser --------------------------
(* Instances of RequestParser for TLC: the conversations it runs. *)
EXTENDS RequestParser

Host == Unit("host", 0)
D(n) == Unit("data", n)

Plain == [headers |-> <<Host, KeepAlive>>, chunks |-> <<>>]
Closing == [headers |-> <<Host>>, chunks |-> <<>>]
WithLength(body) == [headers |-> <<KeepAlive, ContentLength(Len(body))>>,
                     chunks |-> <<body>>]
InChunks(chunks) == [headers |-> <<Chunked, KeepAlive>>, chunks |-> chunks]

\* No body, an empty one, one in memory, one in a file, one that is too
\* large, in one piece and in chunks; line ends in a body.
Requests == {Plain, Closing, WithLength(<<>>), WithLength(<<D(1)>>),
             WithLength(<<D(1)>> \o CRLF), WithLength(<<D(1), D(2), D(3), D(4)>>),
             InChunks(<<>>), InChunks(<<CRLF>>), InChunks(<<<<D(1), D(2)>>, <<D(3)>>>>),
             InChunks(<<<<D(1), D(2)>>, <<D(3), D(4)>>>>)}

MCConversations == {<<r, s>> : r, s \in Requests}

\* A body that is too large before one that is not.
MCTooLargeFirst ==
  {<<r, WithLength(<<D(1), D(2)>>)>> :
     r \in {WithLength(<<D(1), D(2), D(3), D(4)>>),
            InChunks(<<<<D(1), D(2)>>, <<D(3), D(4)>>>>)}}

\* After a chunk of one, a chunk with which the sum of the two wraps to 0.
MCWrapping == {<<InChunks(<<<<D(0)>>, [k \in 1..(WordSize - 1) |-> D(k)]>>)>>}
MCNotDue == MCTooLargeFirst \cup MCWrapping
============================================================================
