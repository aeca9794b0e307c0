---------------------------- MODULE MCEventLoop ----------------------------
(* Instances of EventLoop for TLC: values for its constants and the        *)
(* reduction of the larger run.                                            *)
EXTENDS EventLoopInv, TLC

MCShortSends == {[shortSends |-> TRUE, launchFails |-> FALSE]}
MCLaunchFails == {[shortSends |-> FALSE, launchFails |-> TRUE]}
\* Every safe deployment has the behaviours of a subset of one of these.
MCSafeSetups == MCShortSends \cup MCLaunchFails

Descriptors == Permutations(Fds)

(***************************************************************************)
(* One client at a time goes through every behaviour.  Two at a time make  *)
(* up the arrays and tables that one cannot, and are quiet: the            *)
(* environment acts only while the loop is in poll() (every other step of  *)
(* the loop moves the scan or the array), which is not interrupted; a peer *)
(* waits for its answer and ends by a reset, a client with a CGI does not  *)
(* get stale, requests are for a CGI and sends whole.                      *)
(***************************************************************************)
IsQuiet(f) ==
  /\ peer'[f].end # "fin"
  /\ peer'[f].data => client'[f].state \in Idle
  /\ client'[f].stale => client'[f].cgiOut = NoFd
  /\ client'[f].state \in Parsed => client'[f].route = "cgi"

QuietTogether ==
  Cardinality(clients') > 1 =>
    /\ setup \in MCLaunchFails
    /\ pc = "poll" \/ <<pc, idx, socks>>' # <<pc, idx, socks>>
    /\ ~stop'
    /\ \A f \in clients' : IsQuiet(f)
=============================================================================
