----------------------------- MODULE Conversations -----------------------------
(***************************************************************************)
(* Under which two numbers a message is filed.  A text comes with the      *)
(* caller id Asterisk has, an MMS with the sender of its SMS, an outbound  *)
(* message with what the client wrote; the gateway's own number is read    *)
(* from "quectel show devices" for the first, from SMS_FROM_NUMBER for the *)
(* second, and is the client's for the third.  The chat is found by the    *)
(* two numbers as phone_numbers.py normalises them.                        *)
(*                                                                         *)
(* A number is the sequence of its digits; written, it may have a "+".     *)
(***************************************************************************)
EXTENDS Naturals, Sequences, FiniteSets, FiniteSetsExt

CONSTANTS Own,        \* the digits of the SIM's number, country code first
          Peers,      \* the digits of the others', likewise
          Spellings,  \* how each peer may be written: Peers -> sets of written numbers
          OwnSpellings,
          MaxMessages, \* bound: messages with different numbers
          Listings,   \* what "quectel show devices" may say: the tokens of the
                      \* device's line in which there is a digit
          None

VARIABLES setting,  \* SMS_FROM_NUMBER as written, or None
          listing,  \* one of Listings, or None: AMI does not answer
          filed     \* the messages in the store: their numbers, and the peer meant

vars == <<setting, listing, filed>>

Written(plus, digits) == [plus |-> plus, digits |-> digits]

(* Mutant: ten digits are taken as they are. *)
MutNational(w) ==
  LET n == Len(w.digits)
  IN CASE w.plus -> IF n \in 2..15 /\ w.digits[1] # 0 THEN {w.digits} ELSE {}
       [] ~w.plus /\ n \in 2..15 /\ w.digits[1] # 0 -> {w.digits}
       [] OTHER -> {}

(* normalize_phone_number: {} when it raises, and without the leading "+"  *)
(* that every result has.                                                  *)
Normalized(w) ==
  LET n == Len(w.digits)
  IN CASE w.plus -> IF n \in 2..15 /\ w.digits[1] # 0 THEN {w.digits} ELSE {}
       [] ~w.plus /\ n = 10 -> {<<1>> \o w.digits}
       [] ~w.plus /\ n \in 2..15 \ {10} /\ w.digits[1] # 0 -> {w.digits}
       [] OTHER -> {}

(* A number of another country, of ten digits and without its "+". *)
Bare(w, p) == ~w.plus /\ Len(w.digits) = 10 /\ p[1] # 1

(* How a number may be written: only one of the country code 1 is also     *)
(* known without its code.                                                 *)
Numbers == Seq(0..9)
Spelled(p) == {Written(TRUE, p), Written(FALSE, p)}
              \cup IF Len(p) = 11 /\ p[1] = 1 THEN {Written(FALSE, Tail(p))} ELSE {}

(* With the country code 1 a number has eleven digits, and a short code    *)
(* has fewer than ten.  What chan_quectel lists ends with the number.      *)
ASSUME ConversationsAssumption ==
  /\ MaxMessages \in Nat
  /\ Peers \cup {Own} \subseteq {n \in Numbers : Len(n) = 10 => n[1] # 1}
  /\ \A p \in Peers : Spellings[p] \subseteq Spelled(p)
  /\ OwnSpellings \subseteq {w \in Spelled(Own) : ~Bare(w, Own)}
  /\ Listings \subseteq Seq([plus : BOOLEAN, digits : Numbers])
  /\ \A tokens \in Listings : \A i, j \in DOMAIN tokens :
       i < j /\ Normalized(tokens[i]) = {Own} => Normalized(tokens[j]) = {}

(* parse_quectel_devices: the last token that passes for a phone number. *)
Listed(tokens) ==
  LET good == {i \in DOMAIN tokens : Normalized(tokens[i]) # {}}
  IN IF good = {} THEN {} ELSE Normalized(tokens[Max(good)])

Fallback == IF setting = None THEN {} ELSE Normalized(setting)

(* get_available_phone_numbers, on a gateway with one device; a text's     *)
(* device is then that one, whatever it is called.                         *)
Available == LET devices == IF listing = None THEN {} ELSE Listed(listing)
             IN IF devices # {} THEN devices ELSE Fallback

-------------------------------------------------------------------------------
Init == /\ setting \in OwnSpellings \cup {None}
        /\ listing \in Listings \cup {None}
        /\ filed = {}

(* Does the listing show what passes for a number, but not the number? *)
Hidden == /\ listing # None
          /\ \E i \in DOMAIN listing : Normalized(listing[i]) # {}
          /\ \A i \in DOMAIN listing : Normalized(listing[i]) # {Own}

(* The chat of a message, which get_or_create_chat finds by both numbers. *)
File(local, w, p, hidden) ==
  /\ Cardinality(filed) < MaxMessages
  /\ \E remote \in Normalized(w) :
       filed' = filed \cup {[local |-> local, remote |-> remote, peer |-> p,
                             hidden |-> hidden, bare |-> Bare(w, p)]}
  /\ UNCHANGED <<setting, listing>>

(* ingest_inbound_sms: 400 for a caller id that is no number, 502 without  *)
(* a number of its own.                                                    *)
Text(p) == \E w \in Spellings[p], local \in Available : File(local, w, p, Hidden)

(* poll_once, which rests without SMS_FROM_NUMBER and drops a sender that  *)
(* is no number.                                                           *)
Mms(p) == \E w \in Spellings[p] :
            setting # None /\ \E local \in Normalized(setting) : File(local, w, p, FALSE)

(* create_chat, with assert_owned_from_number: from the SIM's number, or *)
(* from what GET /v3/phone_numbers lists.                                *)
CreateChat(p) ==
  \E from \in OwnSpellings \cup {Written(TRUE, d) : d \in Available}, w \in Spellings[p] :
    \E local \in Normalized(from) :
      /\ Available = {} \/ local \in Available
      /\ File(local, w, p, Hidden)

(* The modem registers, loses the network, or Asterisk comes and goes. *)
ListingChanges == /\ listing' \in Listings \cup {None}
                  /\ UNCHANGED <<setting, filed>>

Next == \/ \E p \in Peers : Text(p) \/ Mms(p) \/ CreateChat(p)
        \/ ListingChanges

Spec == Init /\ [][Next]_vars

-------------------------------------------------------------------------------
SameChat(m, n) == m.local = n.local /\ m.remote = n.remote

(* What one person and the gateway write to each other is one chat, and    *)
(* nobody else's, whichever way each message came and was addressed, and   *)
(* whatever Asterisk said of the modem meanwhile.  There are two           *)
(* exceptions.  A listing without the SIM's number is read as if the IMSI  *)
(* were the number, so that SMS_FROM_NUMBER, the "optional fallback if     *)
(* `quectel show devices` does not expose the line number" of              *)
(* .env.example:25, is not used.  And a foreign number of ten digits that  *)
(* comes without its "+" becomes one of the country code 1.                *)
OneConversation ==
  \A m, n \in {f \in filed : ~f.hidden /\ ~f.bare} :
    m.peer = n.peer <=> SameChat(m, n)
===============================================================================
