------------------------------ MODULE CgiRelay ------------------------------
(***************************************************************************)
(* What relaying a CGI's output promises to the client, whatever the pipe, *)
(* the buffers and the chunks do in between: the body arrives in order and *)
(* whole, a response that is complete is the CGI's whole body from a run   *)
(* that succeeded, and an error is sent only in place of the body.         *)
(***************************************************************************)
EXTENDS Sequences, SequencesExt

VARIABLES
  body,       \* the body the CGI will have written when it succeeds
  succeeds,   \* whether it exits with status 0
  delivered,  \* the part of the body the client has received
  status      \* of the response: "waiting", "streaming", "complete", "error"

vars == <<body, succeeds, delivered, status>>

Init == delivered = <<>> /\ status = "waiting"

\* More of the body arrives, and with all of it possibly the end.
Deliver ==
  /\ status \in {"waiting", "streaming"}
  /\ \E n \in Len(delivered)..Len(body) : delivered' = SubSeq(body, 1, n)
  /\ \/ status' = "streaming"
     \/ status' = "complete" /\ delivered' = body /\ succeeds
  /\ UNCHANGED <<body, succeeds>>

Refuse ==
  /\ status = "waiting" /\ ~succeeds
  /\ status' = "error"
  /\ UNCHANGED <<body, succeeds, delivered>>

Spec == Init /\ [][Deliver \/ Refuse]_vars
=============================================================================
