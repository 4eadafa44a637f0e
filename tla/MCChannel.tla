------------------------------ MODULE MCChannel ------------------------------
(* Instances of Channel for TLC.  With three threads no context is a        *)
(* handler; with a handler, it interrupts the one thread.                   *)
EXTENDS Channel

CONSTANTS Handler, Thread

NoHost  == [h \in {} |-> Thread]
OneHost == [h \in {Handler} |-> Thread]
=============================================================================
