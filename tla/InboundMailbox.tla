--------------------------- MODULE InboundMailbox -----------------------------
(***************************************************************************)
(* What inbound capture promises: a message the gateway is to keep leaves  *)
(* the modem only after it is in the database, it enters the database only *)
(* once and only while it is on the modem, and it never leaves the         *)
(* database.  ModemPoller and AtSerial are shown to implement this; at the *)
(* start anything may lie on the modem, and nothing was stored.            *)
(***************************************************************************)
CONSTANTS Places,  \* slots of the modem's message memories
          Pdus,    \* messages, by content
          Keep,    \* those that may not be dropped unstored
          Empty

VARIABLES box,     \* what lies in each place
          stored   \* what the database holds

mailboxVars == <<box, stored>>

Init == /\ box \in [Places -> Pdus \cup {Empty}]
        /\ stored = {}

Deliver(x, p) == /\ box[x] = Empty
                 /\ box' = [box EXCEPT ![x] = p]
                 /\ UNCHANGED stored

Capture(p) == /\ p \notin stored
              /\ \E x \in Places : box[x] = p
              /\ stored' = stored \cup {p}
              /\ UNCHANGED box

Discard(x) == /\ box[x] \in Keep => box[x] \in stored
              /\ box' = [box EXCEPT ![x] = Empty]
              /\ UNCHANGED stored

Next == \/ \E x \in Places, p \in Pdus : Deliver(x, p)
        \/ \E p \in Pdus : Capture(p)
        \/ \E x \in Places : Discard(x)

Spec == Init /\ [][Next]_mailboxVars
===============================================================================
