--------------------------- MODULE MCLaunchAgain ---------------------------
(* An instance of EventLoop outside the safe deployments: sends may be     *)
(* short and launches may fail, on the same server.                        *)
EXTENDS EventLoop

MCBothFail == {[shortSends |-> TRUE, launchFails |-> TRUE]}
=============================================================================
