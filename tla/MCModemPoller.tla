---------------------------- MODULE MCModemPoller ------------------------------
(***************************************************************************)
(* Instances of ModemPoller for TLC: which messages exist, and their kinds.*)
(***************************************************************************)
EXTENDS ModemPoller

CONSTANTS mms, stray, text, binary, garbled, malformed, c1, c2

MCMsgIds == Pdus \cup Handlers

MCKind == [p \in Pdus |-> CASE p \in {mms, stray} -> "MMS"
                            [] p = text -> "SMS"
                            [] p = binary -> "BINARY"
                            [] p = garbled -> "GARBLED"
                            [] p = malformed -> "MALFORMED"]

MCParts == [p \in Pdus |-> IF p = mms THEN 2 ELSE 1]

(* One correspondent; the stray MMS comes from no phone number. *)
MCSender == [p \in Pdus |-> IF p = stray THEN Unsupported ELSE c1]
===============================================================================
