------------------------------ MODULE ModemPoller ------------------------------
(***************************************************************************)
(* Inbound capture: the poller thread of sms_api/modem.py reads the two    *)
(* message memories of the modem over its own serial port, stores what the *)
(* channel driver cannot take (MMS notifications, binary messages), and    *)
(* deletes it from the modem.  Beside it run                               *)
(*   - chan_quectel, which reads messages over another port, deletes them  *)
(*     (quectel.conf, autodeletesms=yes) and posts their text to the API   *)
(*     once, with no retry (extensions_custom.conf);                       *)
(*   - the handlers of POST /internal/inbound-sms, which share the store;  *)
(*   - the network, which fills any free slot.                             *)
(* poll_once is split wherever it talks to the modem, runs a statement of  *)
(* the store or calls out, since each of those can fail, or be overtaken   *)
(* by the others, or be the last thing the process does.                   *)
(***************************************************************************)
EXTENDS SmsStore

CONSTANTS Pdus,         \* messages on the modem, by content
          Kind,         \* how the poller sees each one
          Sender,       \* chat a message belongs to, or Unsupported
          Parts,        \* attachments of a retrieved MMS
          Slots,        \* places in each memory
          Handlers,     \* POST /internal/inbound-sms requests
          DriverReads,  \* kinds chan_quectel takes off the modem
          CpmsMayFail,  \* can the modem answer ERROR to AT+CPMS?
          MaxArrivals,  \* bound: messages the network delivers
          MaxFaults,    \* bound: timeouts, errors, exceptions and crashes
          Empty,        \* no message in this slot
          Unsupported   \* a sender normalize_phone_number refuses

VARIABLES slots,     \* modem: what lies at each place
          cpms,      \* modem: the memory AT+CMGL and AT+CMGD work on
          arrivals, faults,
          pc,        \* poller: next step of poll_once
          scan,      \* poller: storage, the memory being scanned
          listing,   \* poller: what AT+CMGL answered, by index
          todo,      \* poller: indexes of the listing not yet dealt with
          reread,    \* poller: service of the chat row it will publish
          handler,   \* ingest handlers: step, chat, service of the chat row
          fired      \* messages whose event was published

modemVars == <<slots, cpms, arrivals>>
pollVars == <<pc, scan, listing, todo, reread>>
vars == <<slots, cpms, arrivals, faults, pc, scan, listing, todo, reread,
          handler, fired, chats, messages, attachments>>

Storages == {"SM", "ME"}
Indexes == 1..Slots
Places == Storages \X Indexes

(* GARBLED: parse_inbound_pdu raises; MALFORMED: an MMS whose download makes *)
(* parse_mms_retrieve_conf raise.                                            *)
Kinds == {"SMS", "MMS", "BINARY", "GARBLED", "MALFORMED"}

ASSUME PollerAssumption ==
  /\ Slots \in Nat /\ MaxArrivals \in Nat /\ MaxFaults \in Nat
  /\ CpmsMayFail \in BOOLEAN
  /\ Pdus \cap Handlers = {} /\ MsgIds = Pdus \cup Handlers
  /\ Empty \notin Pdus /\ Unsupported \notin Chats
  /\ Kind \in [Pdus -> Kinds]
  /\ Sender \in [Pdus -> Chats \cup {Unsupported}]
  /\ Parts \in [Pdus -> Nat \ {0}]
  /\ DriverReads \subseteq Kinds

Supported(p) == Sender[p] \in Chats
IsMms(p) == Kind[p] \in {"MMS", "MALFORMED"}
ServiceOf(p) == IF IsMms(p) THEN "MMS" ELSE "BINARY"
PartsOf(p) == IF IsMms(p) THEN Parts[p] ELSE 0

PollerSteps == {"wait", "select", "list", "scan", "fetch", "chat", "insert", "touch",
                "attach", "reread", "publish", "reselect", "erase"}
HandlerSteps == {"free", "chat", "insert", "touch", "reread", "publish", "done"}
HandlerState == [step : HandlerSteps, chat : Chats \cup {Unsupported},
                 service : Services \cup {"absent"}]

NoListing == [i \in Indexes |-> Empty]
FreeHandler == [step |-> "free", chat |-> Unsupported, service |-> "absent"]

TypeOK ==
  /\ StoreTypeOK
  /\ slots \in [Places -> Pdus \cup {Empty}]
  /\ cpms \in Storages
  /\ arrivals \in 0..MaxArrivals
  /\ faults \in 0..MaxFaults
  /\ pc \in PollerSteps
  /\ scan \in Storages
  /\ listing \in [Indexes -> Pdus \cup {Empty}]
  /\ todo \subseteq {i \in Indexes : listing[i] # Empty}
  /\ reread \in Services \cup {"absent"}
  /\ handler \in [Handlers -> HandlerState]
  /\ fired \subseteq MsgIds

Init ==
  /\ StoreInit
  /\ slots = [x \in Places |-> Empty]
  /\ cpms \in Storages
  /\ arrivals = 0 /\ faults = 0
  /\ pc = "wait" /\ scan = "SM" /\ listing = NoListing /\ todo = {}
  /\ reread = "absent"
  /\ handler = [h \in Handlers |-> FreeHandler]
  /\ fired = {}

-------------------------------------------------------------------------------
(***************************************************************************)
(* The poller's control flow.                                              *)
(***************************************************************************)

(* Faults are what the environment may do, a bounded number of times. *)
Fault == faults < MaxFaults /\ faults' = faults + 1
NoFault == UNCHANGED faults

(* The store lock, held from the INSERT of _create_message to its end. *)
LockFree == /\ pc \notin {"touch", "attach"}
            /\ \A h \in Handlers : handler[h].step # "touch"

(* The message of the listing being dealt with: the list is in index order. *)
Current(i) == i \in todo /\ \A j \in todo : i <= j

Go(step) == pc' = step /\ UNCHANGED <<scan, listing, todo, reread>>

(* poll_once is left: its locals go, run waits for the next interval. *)
EndPoll == /\ pc' = "wait" /\ scan' = "SM" /\ listing' = NoListing /\ todo' = {}
           /\ reread' = "absent"

(* Mutant: only the first memory is scanned. *)
MutOnlySm == EndPoll

(* The for loop over ("SM", "ME") goes on. *)
NextStorage ==
  IF scan = "SM"
  THEN /\ pc' = "select" /\ scan' = "ME" /\ listing' = NoListing /\ todo' = {}
       /\ reread' = "absent"
  ELSE EndPoll

(* The for loop over the listing goes on. *)
NextMessage(i) == /\ pc' = "scan" /\ todo' = todo \ {i} /\ reread' = "absent"
                  /\ UNCHANGED <<scan, listing>>

Wake == /\ pc = "wait"
        /\ Go("select")
        /\ NoFault /\ UNCHANGED <<modemVars, handler, fired, storeVars>>

-------------------------------------------------------------------------------
(***************************************************************************)
(* list_messages.                                                          *)
(***************************************************************************)

(* Mutant: the memory to list is not selected. *)
MutNoSelect == /\ pc = "select"
               /\ Go("list")
               /\ NoFault /\ UNCHANGED <<modemVars, handler, fired, storeVars>>

SelectStorage == /\ pc = "select"
                 /\ cpms' = scan
                 /\ Go("list")
                 /\ NoFault /\ UNCHANGED <<slots, arrivals, handler, fired, storeVars>>

(* command returns an ERROR answer like any other and set_storage drops it. *)
SelectRefused == /\ pc = "select" /\ CpmsMayFail /\ Fault
                 /\ Go("list")
                 /\ UNCHANGED <<modemVars, handler, fired, storeVars>>

(* No answer in time: the modem may have done it or not; the scan is skipped. *)
SelectTimesOut == /\ pc = "select" /\ Fault
                  /\ cpms' \in {cpms, scan}
                  /\ NextStorage
                  /\ UNCHANGED <<slots, arrivals, handler, fired, storeVars>>

(* Mutant: every index is dealt with, listed or not. *)
MutListEveryIndex == /\ pc = "list"
                     /\ listing' = [i \in Indexes |-> slots[<<cpms, i>>]]
                     /\ todo' = Indexes
                     /\ pc' = "scan" /\ UNCHANGED <<scan, reread>>
                     /\ NoFault /\ UNCHANGED <<modemVars, handler, fired, storeVars>>

List == /\ pc = "list"
        /\ listing' = [i \in Indexes |-> slots[<<cpms, i>>]]
        /\ todo' = {i \in Indexes : slots[<<cpms, i>>] # Empty}
        /\ pc' = "scan" /\ UNCHANGED <<scan, reread>>
        /\ NoFault /\ UNCHANGED <<modemVars, handler, fired, storeVars>>

(* A timeout raises, an ERROR answer is an empty listing: nothing to scan. *)
ListFails == /\ pc = "list" /\ Fault
             /\ NextStorage
             /\ UNCHANGED <<modemVars, handler, fired, storeVars>>

ScanEnds == /\ pc = "scan" /\ todo = {}
            /\ NextStorage
            /\ NoFault /\ UNCHANGED <<modemVars, handler, fired, storeVars>>

-------------------------------------------------------------------------------
(***************************************************************************)
(* The first half of the loop body: what to do with a listed message.      *)
(***************************************************************************)

SkipSms(i) == /\ pc = "scan" /\ Current(i) /\ Kind[listing[i]] = "SMS"
              /\ NextMessage(i)
              /\ NoFault /\ UNCHANGED <<modemVars, handler, fired, storeVars>>

(* parse_inbound_pdu raises out of poll_once: the rest is not looked at. *)
AbortOnGarbled(i) == /\ pc = "scan" /\ Current(i) /\ Kind[listing[i]] = "GARBLED"
                     /\ EndPoll
                     /\ NoFault /\ UNCHANGED <<modemVars, handler, fired, storeVars>>

Seen(p) == WithTransportKey(p) # {}

(* What is already stored, or comes from an unsupported sender, is deleted. *)
Drop(i) == /\ pc = "scan" /\ Current(i)
           /\ Kind[listing[i]] \notin {"SMS", "GARBLED"}
           /\ LockFree
           /\ Seen(listing[i]) \/ ~Supported(listing[i])
           /\ Go("reselect")
           /\ NoFault /\ UNCHANGED <<modemVars, handler, fired, storeVars>>

(* Mutant: the transport key is not looked up first. *)
MutCaptureUnchecked(i) == /\ pc = "scan" /\ Current(i)
                          /\ Kind[listing[i]] \notin {"SMS", "GARBLED"}
                          /\ LockFree
                          /\ Supported(listing[i])
                          /\ Go(IF IsMms(listing[i]) THEN "fetch" ELSE "chat")
                          /\ NoFault /\ UNCHANGED <<modemVars, handler, fired, storeVars>>

StartCapture(i) == /\ pc = "scan" /\ Current(i)
                   /\ Kind[listing[i]] \notin {"SMS", "GARBLED"}
                   /\ LockFree
                   /\ ~Seen(listing[i]) /\ Supported(listing[i])
                   /\ Go(IF IsMms(listing[i]) THEN "fetch" ELSE "chat")
                   /\ NoFault /\ UNCHANGED <<modemVars, handler, fired, storeVars>>

(* parse_mms_retrieve_conf of a malformed download raises out of poll_once. *)
FetchReturns(i) == /\ pc = "fetch" /\ Current(i)
                   /\ IF Kind[listing[i]] = "MALFORMED" THEN EndPoll ELSE Go("chat")
                   /\ NoFault /\ UNCHANGED <<modemVars, handler, fired, storeVars>>

(* Mutant: a message whose download failed is deleted too. *)
MutDeleteUnfetched(i) == /\ pc = "fetch" /\ Current(i) /\ Fault
                         /\ Go("reselect")
                         /\ UNCHANGED <<modemVars, handler, fired, storeVars>>

(* A ModemError: the message stays on the modem for the next poll. *)
FetchFails(i) == /\ pc = "fetch" /\ Current(i) /\ Fault
                 /\ NextMessage(i)
                 /\ UNCHANGED <<modemVars, handler, fired, storeVars>>

-------------------------------------------------------------------------------
(***************************************************************************)
(* create_inbound_message and on_message_created, called by the poller.    *)
(***************************************************************************)

PollerGetsChat(i) == /\ pc = "chat" /\ Current(i) /\ LockFree
                     /\ GetOrCreateChat(Sender[listing[i]], ServiceOf(listing[i]))
                     /\ Go("insert")
                     /\ NoFault
                     /\ UNCHANGED <<modemVars, handler, fired, messages, attachments>>

PollerRow(p) == InboundRow(Sender[p], ServiceOf(p), p)

PollerInserts(i) == /\ pc = "insert" /\ Current(i) /\ LockFree
                    /\ InsertMessage(listing[i], PollerRow(listing[i]))
                    /\ IF Conflicts(PollerRow(listing[i])) THEN EndPoll ELSE Go("touch")
                    /\ NoFault
                    /\ UNCHANGED <<modemVars, handler, fired, chats, attachments>>

(* Mutant: the attachments are not passed on. *)
MutNoAttachments(i) == /\ pc = "touch" /\ Current(i)
                       /\ TouchChat(Sender[listing[i]], ServiceOf(listing[i]))
                       /\ Go("reread")
                       /\ NoFault
                       /\ UNCHANGED <<modemVars, handler, fired, messages, attachments>>

PollerTouches(i) == /\ pc = "touch" /\ Current(i)
                    /\ TouchChat(Sender[listing[i]], ServiceOf(listing[i]))
                    /\ Go("attach")
                    /\ NoFault
                    /\ UNCHANGED <<modemVars, handler, fired, messages, attachments>>

(* Mutant: one attachment too few. *)
MutOneShort(i) == /\ pc = "attach" /\ Current(i)
                  /\ IF attachments[listing[i]] + 1 < PartsOf(listing[i])
                     THEN InsertAttachment(listing[i]) /\ Go("attach")
                     ELSE UNCHANGED attachments /\ Go("reread")
                  /\ NoFault
                  /\ UNCHANGED <<modemVars, handler, fired, chats, messages>>

PollerAttaches(i) == /\ pc = "attach" /\ Current(i)
                     /\ IF attachments[listing[i]] < PartsOf(listing[i])
                        THEN InsertAttachment(listing[i]) /\ Go("attach")
                        ELSE UNCHANGED attachments /\ Go("reread")
                     /\ NoFault
                     /\ UNCHANGED <<modemVars, handler, fired, chats, messages>>

(* get_chat: the chat row the event will carry. *)
PollerRereads(i) == /\ pc = "reread" /\ Current(i) /\ LockFree
                    /\ reread' = chats[Sender[listing[i]]]
                    /\ pc' = "publish" /\ UNCHANGED <<scan, listing, todo>>
                    /\ NoFault /\ UNCHANGED <<modemVars, handler, fired, storeVars>>

(* build_message_event raises for a row the response models do not admit. *)
PollerPublishes(i) == /\ pc = "publish" /\ Current(i) /\ LockFree
                      /\ IF Servable(reread) /\ Servable(ServiceOf(listing[i]))
                         THEN fired' = fired \cup {listing[i]} /\ Go("reselect")
                         ELSE UNCHANGED fired /\ EndPoll
                      /\ NoFault /\ UNCHANGED <<modemVars, handler, storeVars>>

-------------------------------------------------------------------------------
(***************************************************************************)
(* delete_message.                                                         *)
(***************************************************************************)

Reselect == /\ pc = "reselect"
            /\ cpms' = scan
            /\ Go("erase")
            /\ NoFault /\ UNCHANGED <<slots, arrivals, handler, fired, storeVars>>

ReselectRefused == /\ pc = "reselect" /\ CpmsMayFail /\ Fault
                   /\ Go("erase")
                   /\ UNCHANGED <<modemVars, handler, fired, storeVars>>

ReselectTimesOut == /\ pc = "reselect" /\ Fault
                    /\ cpms' \in {cpms, scan}
                    /\ EndPoll
                    /\ UNCHANGED <<slots, arrivals, handler, fired, storeVars>>

Erase(i) == /\ pc = "erase" /\ Current(i)
            /\ slots' = [slots EXCEPT ![<<cpms, i>>] = Empty]
            /\ NextMessage(i)
            /\ NoFault /\ UNCHANGED <<cpms, arrivals, handler, fired, storeVars>>

(* An ERROR answer to AT+CMGD passes for success. *)
EraseRefused(i) == /\ pc = "erase" /\ Current(i) /\ Fault
                   /\ NextMessage(i)
                   /\ UNCHANGED <<modemVars, handler, fired, storeVars>>

EraseTimesOut(i) == /\ pc = "erase" /\ Current(i) /\ Fault
                    /\ slots' \in {slots, [slots EXCEPT ![<<cpms, i>>] = Empty]}
                    /\ EndPoll
                    /\ UNCHANGED <<cpms, arrivals, handler, fired, storeVars>>

-------------------------------------------------------------------------------
(***************************************************************************)
(* The ingest handler, one call of create_inbound_message and the event.   *)
(***************************************************************************)

Advance(h, step) == handler' = [handler EXCEPT ![h].step = step]

HandlerGetsChat(h) == /\ handler[h].step = "chat" /\ LockFree
                      /\ GetOrCreateChat(handler[h].chat, "SMS")
                      /\ Advance(h, "insert")
                      /\ NoFault
                      /\ UNCHANGED <<modemVars, pollVars, fired, messages, attachments>>

HandlerInserts(h) == /\ handler[h].step = "insert" /\ LockFree
                     /\ InsertMessage(h, InboundRow(handler[h].chat, "SMS", NoKey))
                     /\ Advance(h, "touch")
                     /\ NoFault
                     /\ UNCHANGED <<modemVars, pollVars, fired, chats, attachments>>

HandlerTouches(h) == /\ handler[h].step = "touch"
                     /\ TouchChat(handler[h].chat, "SMS")
                     /\ Advance(h, "reread")
                     /\ NoFault
                     /\ UNCHANGED <<modemVars, pollVars, fired, messages, attachments>>

HandlerRereads(h) == /\ handler[h].step = "reread" /\ LockFree
                     /\ handler' = [handler EXCEPT ![h] = [step |-> "publish", chat |-> handler[h].chat,
                                                        service |-> chats[handler[h].chat]]]
                     /\ NoFault
                     /\ UNCHANGED <<modemVars, pollVars, fired, storeVars>>

HandlerPublishes(h) == /\ handler[h].step = "publish" /\ LockFree
                       /\ fired' = IF Servable(handler[h].service)
                                   THEN fired \cup {h} ELSE fired
                       /\ Advance(h, "done")
                       /\ NoFault /\ UNCHANGED <<modemVars, pollVars, storeVars>>

HandlerStep(h) == \/ HandlerGetsChat(h) \/ HandlerInserts(h) \/ HandlerTouches(h)
                  \/ HandlerRereads(h) \/ HandlerPublishes(h)

Busy(h) == handler[h].step \notin {"free", "done"}

-------------------------------------------------------------------------------
(***************************************************************************)
(* The environment.                                                        *)
(***************************************************************************)

(* The network delivers a message, the same one again if it likes. *)
Arrive(x, p) == /\ slots[x] = Empty /\ arrivals < MaxArrivals
                /\ slots' = [slots EXCEPT ![x] = p]
                /\ arrivals' = arrivals + 1
                /\ NoFault /\ UNCHANGED <<cpms, pollVars, handler, fired, storeVars>>

(* chan_quectel reads a message, deletes it and posts it: to a handler ... *)
DriverForwards(x, h) ==
  /\ slots[x] # Empty /\ Kind[slots[x]] \in DriverReads /\ Supported(slots[x])
  /\ handler[h].step = "free"
  /\ slots' = [slots EXCEPT ![x] = Empty]
  /\ handler' = [handler EXCEPT ![h] = [FreeHandler EXCEPT !.step = "chat",
                                                         !.chat = Sender[slots[x]]]]
  /\ NoFault /\ UNCHANGED <<cpms, arrivals, pollVars, fired, storeVars>>

(* ... or to nobody: the API is down or late, or refuses the sender. *)
DriverLoses(x) ==
  /\ slots[x] # Empty /\ Kind[slots[x]] \in DriverReads
  /\ IF Supported(slots[x]) THEN Fault ELSE NoFault
  /\ slots' = [slots EXCEPT ![x] = Empty]
  /\ UNCHANGED <<cpms, arrivals, pollVars, handler, fired, storeVars>>

(* A statement, a file or the callback raises in the middle of poll_once. *)
PollerRaises == /\ pc # "wait" /\ Fault
                /\ EndPoll
                /\ UNCHANGED <<modemVars, handler, fired, storeVars>>

HandlerRaises(h) == /\ Busy(h) /\ Fault
                    /\ Advance(h, "done")
                    /\ UNCHANGED <<modemVars, pollVars, fired, storeVars>>

(* The process dies and is restarted: what was committed is what is left. *)
Crash == /\ Fault
         /\ EndPoll
         /\ handler' = [h \in Handlers |->
                          IF Busy(h) THEN [handler[h] EXCEPT !.step = "done"] ELSE handler[h]]
         /\ UNCHANGED <<modemVars, fired, storeVars>>

-------------------------------------------------------------------------------
PollerStep ==
  \/ Wake \/ SelectStorage \/ List \/ ScanEnds \/ Reselect
  \/ \E i \in Indexes :
       \/ SkipSms(i) \/ AbortOnGarbled(i) \/ Drop(i) \/ StartCapture(i) \/ FetchReturns(i)
       \/ PollerGetsChat(i) \/ PollerInserts(i) \/ PollerTouches(i) \/ PollerAttaches(i)
       \/ PollerRereads(i) \/ PollerPublishes(i) \/ Erase(i)

PollerFault ==
  \/ SelectRefused \/ SelectTimesOut \/ ListFails \/ ReselectRefused \/ ReselectTimesOut
  \/ PollerRaises
  \/ \E i \in Indexes : FetchFails(i) \/ EraseRefused(i) \/ EraseTimesOut(i)

Environment ==
  \/ \E x \in Places, p \in Pdus : Arrive(x, p)
  \/ \E x \in Places, h \in Handlers : DriverForwards(x, h)
  \/ \E x \in Places : DriverLoses(x)
  \/ \E h \in Handlers : HandlerRaises(h)
  \/ Crash

Next == PollerStep \/ PollerFault \/ (\E h \in Handlers : HandlerStep(h)) \/ Environment

Spec == Init /\ [][Next]_vars

(***************************************************************************)
(* The poller thread runs on and waits a finite interval between polls; a  *)
(* handler that has started is run to its end.  Nothing is owed by the     *)
(* modem, the network or the driver.                                       *)
(***************************************************************************)
Fairness == WF_vars(PollerStep) /\ \A h \in Handlers : WF_vars(HandlerStep(h))

FairSpec == Spec /\ Fairness

-------------------------------------------------------------------------------
(***************************************************************************)
(* Safety.                                                                 *)
(***************************************************************************)

(* The deduplication lookup of poll_once is still right when the INSERT is *)
(* reached, a download of minutes later: the unique index on transport_key *)
(* is never what stops a message, so it never aborts a poll.               *)
NeverConflicts ==
  \A i \in Indexes : pc = "insert" /\ Current(i) => ~Conflicts(PollerRow(listing[i]))

(* A chat that holds an MMS is an MMS chat, whichever of the statements of *)
(* create_inbound_message was the last one to be committed.                *)
MmsChatMarked ==
  \A m \in MsgIds : Stored(m) /\ messages[m].service = "MMS"
                      => chats[messages[m].chat] = "MMS"

(* No interleaving of poller and handlers, each of which read the chat row *)
(* earlier, takes a chat back from MMS or makes it vanish.                 *)
ChatsNeverRegress ==
  [][\A c \in Chats : /\ chats[c] = "MMS" => chats'[c] = "MMS"
                      /\ chats[c] # "absent" => chats'[c] # "absent"]_vars

(* An event of on_message_created carries a stored message with every one  *)
(* of its attachments, and a chat and message the API can serve.           *)
EventIsComplete ==
  \A p \in Pdus \cap fired : /\ Stored(p) /\ Servable(messages[p].service)
                             /\ Servable(chats[messages[p].chat])
                             /\ attachments[p] = PartsOf(p)

InProgress(p) == /\ pc \in {"touch", "attach", "reread", "publish"}
                 /\ \E i \in Indexes : Current(i) /\ listing[i] = p

(* An MMS that is stored and left, without its event or some of its files. *)
HalfDone(p) == /\ Stored(p) /\ IsMms(p) /\ ~InProgress(p)
               /\ ~(p \in fired /\ attachments[p] = Parts[p])

(* The store is written in five statements, and the event follows them.    *)
(* Nothing tears a message apart between them but an exception or a crash  *)
(* that ends the poll while it has that very message in hand: not what the *)
(* handlers do meanwhile to the same chat, not a failure of theirs or of   *)
(* the modem's, and not an interruption of a later poll.                   *)
OnlyInterruptionsTear ==
  [][\A p \in Pdus : ~HalfDone(p) /\ HalfDone(p)'
                       => InProgress(p) /\ pc' = "wait" /\ faults' # faults]_vars

(* Messages that may not leave the modem unstored: those the driver does   *)
(* not take, save the ones the poller drops for their sender.              *)
Keep == {p \in Pdus : /\ Kind[p] \notin DriverReads
                      /\ Kind[p] \in {"SMS", "GARBLED"} \/ Supported(p)}

Mailbox == INSTANCE InboundMailbox
             WITH box <- slots, stored <- {p \in Pdus : Stored(p)}

(* poll_once implements the mailbox: no timeout, exception, crash, double  *)
(* delivery or reuse of an index by the driver makes it delete a message   *)
(* it has not stored, or store one twice.                                  *)
RefinesMailbox == Mailbox!Spec

-------------------------------------------------------------------------------
(***************************************************************************)
(* Liveness.                                                               *)
(***************************************************************************)

Before(x, y) == \/ x[1] = "SM" /\ y[1] = "ME"
                \/ x[1] = y[1] /\ x[2] < y[2]

(* A message that makes every poll raise when its turn comes. *)
Poison(p) == \/ Kind[p] = "GARBLED"
             \/ Kind[p] = "MALFORMED" /\ Supported(p)

Blocked(x) == \E y \in Places : Before(y, x) /\ slots[y] # Empty /\ Poison(slots[y])

(* A message the poller is for gets stored and then deleted, through any   *)
(* finite number of failures, unless one that always raises lies before it.*)
CapturedAndErased ==
  \A x \in Places, p \in Pdus :
    Kind[p] \in {"MMS", "BINARY"} /\ Supported(p) =>
      (slots[x] = p ~> (Stored(p) /\ slots[x] # p) \/ Blocked(x))

-------------------------------------------------------------------------------
(***************************************************************************)
(* What the repository says, and the code does not do.                     *)
(***************************************************************************)

(* Chat.service and Message.service of the API are "SMS" or "MMS"          *)
(* (main.py:99, 130): every row the store holds can be served.             *)
RowsAreServable ==
  /\ \A c \in Chats : Exists(c) => Servable(chats[c])
  /\ \A m \in MsgIds : Stored(m) => Servable(messages[m].service)

(* README: the streams and webhooks "fire for both inbound and outbound    *)
(* stored messages".                                                       *)
StoredThenFired == \A m \in MsgIds : Stored(m) ~> m \in fired

(* A listed message lies in the storage it is labelled with                *)
(* (ModemStoredMessage.storage), unless the driver took it meanwhile.      *)
ListedWhereLabelled ==
  \A i \in todo : Kind[listing[i]] \notin DriverReads => slots[<<scan, i>>] = listing[i]
===============================================================================
