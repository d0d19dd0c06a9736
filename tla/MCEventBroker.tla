---------------------------- MODULE MCEventBroker ------------------------------
(***************************************************************************)
(* Instances of EventBroker for TLC: the poller thread publishes two       *)
(* events while a handler publishes one; one stream takes everything, the  *)
(* other only the handler's; one thread serves them both.                  *)
(***************************************************************************)
EXTENDS EventBroker

CONSTANTS poller, handler, all, outbound, e1, e2, e3

MCProgram == [p \in Publishers |-> IF p = poller THEN <<e1, e2>> ELSE <<e3>>]
MCWants == [s \in Streams |-> IF s = all THEN Events ELSE {e3}]
===============================================================================
