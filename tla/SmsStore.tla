------------------------------- MODULE SmsStore -------------------------------
(***************************************************************************)
(* The SQLite store of sms_api/storage.py, as the tables its callers share *)
(* and the statements they run on them.  The connection is opened with     *)
(* isolation_level=None, so every statement commits by itself: a method    *)
(* that runs several statements is several steps here, held together by    *)
(* the process-wide lock (no other thread of the process sees the steps in *)
(* between as a table to write to, but a crash or an exception between two *)
(* of them leaves the first ones done).                                    *)
(*                                                                         *)
(* A chat is its (from_number, to_number) pair: rows of chats are never    *)
(* deleted and get_or_create_chat selects and inserts under one lock, so   *)
(* the uuid adds nothing.  A message row is named by what it was created   *)
(* for (a PDU of the modem, an HTTP request) in place of its uuid4.        *)
(***************************************************************************)
EXTENDS Naturals

CONSTANTS Chats,     \* (from_number, to_number) pairs
          MsgIds,    \* what message rows are created for
          IdemKeys,  \* idempotency keys the clients use
          NoKey,     \* SQL NULL in a key column
          NoRow      \* no message row has this name yet

VARIABLES chats,       \* service column of each chat, or "absent"
          messages,    \* row of each message, or NoRow
          attachments  \* number of attachment rows of each message

storeVars == <<chats, messages, attachments>>

Services == {"SMS", "MMS", "BINARY"}

Row == [chat : Chats, direction : {"inbound", "outbound"}, service : Services,
        idem : IdemKeys \cup {NoKey}, transport : MsgIds \cup {NoKey}]

ASSUME StoreAssumption == /\ NoRow \notin Row
                          /\ NoKey \notin IdemKeys \cup MsgIds

StoreTypeOK == /\ chats \in [Chats -> Services \cup {"absent"}]
               /\ messages \in [MsgIds -> Row \cup {NoRow}]
               /\ attachments \in [MsgIds -> Nat]

StoreInit == /\ chats = [c \in Chats |-> "absent"]
             /\ messages = [m \in MsgIds |-> NoRow]
             /\ attachments = [m \in MsgIds |-> 0]

-------------------------------------------------------------------------------
(***************************************************************************)
(* Reads.                                                                  *)
(***************************************************************************)
Exists(c) == chats[c] # "absent"

Stored(m) == messages[m] # NoRow

(* get_message_by_idempotency_key, get_message_by_transport_key *)
WithIdemKey(k) == {m \in MsgIds : Stored(m) /\ messages[m].idem = k}
WithTransportKey(t) == {m \in MsgIds : Stored(m) /\ messages[m].transport = t}

-------------------------------------------------------------------------------
(***************************************************************************)
(* Writes.                                                                 *)
(***************************************************************************)

(* Mutant: an old chat is not made MMS. *)
MutKeepsService(c, service) ==
  chats' = [chats EXCEPT ![c] = IF @ = "absent" THEN service ELSE @]

(* A new chat takes the caller's service; an old one only ever becomes MMS. *)
GetOrCreateChat(c, service) ==
  chats' = [chats EXCEPT ![c] = IF @ = "absent" \/ service = "MMS" THEN service ELSE @]

InboundRow(c, service, transport) ==
  [chat |-> c, direction |-> "inbound", service |-> service,
   idem |-> NoKey, transport |-> transport]

OutboundRow(c, key) ==
  [chat |-> c, direction |-> "outbound", service |-> "SMS",
   idem |-> key, transport |-> NoKey]

(* Mutant: the indexes take NULL for a key. *)
MutNullsConflict(row) == WithIdemKey(row.idem) # {} \/ WithTransportKey(row.transport) # {}

(* The unique indexes on idempotency_key and transport_key, NULLs exempt. *)
Conflicts(row) ==
  \/ row.idem # NoKey /\ WithIdemKey(row.idem) # {}
  \/ row.transport # NoKey /\ WithTransportKey(row.transport) # {}

(* First statement of _create_message: an IntegrityError changes nothing. *)
InsertMessage(m, row) ==
  messages' = IF Conflicts(row) THEN messages ELSE [messages EXCEPT ![m] = row]

(* Second statement of _create_message. *)
TouchChat(c, service) ==
  chats' = [chats EXCEPT ![c] = IF @ = "MMS" \/ service = "MMS" THEN "MMS" ELSE @]

(* One round of _insert_attachments. *)
InsertAttachment(m) == attachments' = [attachments EXCEPT ![m] = @ + 1]

(***************************************************************************)
(* The services the response models admit: build_chat and build_message    *)
(* raise a ValidationError for any other, in the event of a new message    *)
(* and in every listing that holds the row.                                *)
(***************************************************************************)
Servable(service) == service \in {"SMS", "MMS"}
===============================================================================
