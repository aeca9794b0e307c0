---------------------------- MODULE MCCgiStream ----------------------------
(* Instances of CgiStream for TLC: the scripts it runs. *)
EXTENDS CgiStream

Runs(outs) == [out: outs, exit: {"ok", "failed"}]

\* Headers ended by CRLF CRLF or LF LF, more than one header, a body with LF
\* LF or CRLF CRLF of its own, no body, no header, no output.
MCScripts == Runs({<<"h", "rnrn", "b1", "b2", "b3">>, <<"h", "h", "nn", "b1", "b2">>,
                   <<"h", "rnrn", "b1", "nn", "b2">>, <<"h", "rnrn", "b1", "rnrn">>,
                   <<"rnrn">>, <<"h", "nn">>, <<"b1", "b2">>, <<>>})

\* Headers ended by LF LF before a body with CRLF CRLF in it.
MCLfScripts == Runs({<<"h", "nn", "b1", "rnrn", "b2">>})
=============================================================================
