------------------------------ MODULE OutboundApi ------------------------------
(***************************************************************************)
(* Outbound messages: the handlers of POST /v3/chats and                   *)
(* POST /v3/chats/{id}/messages in sms_api/main.py, run by FastAPI on a    *)
(* pool of threads, each of them                                           *)
(*    look up the idempotency key;  hand the SMS to Asterisk over AMI;     *)
(*    find or create the chat;  store the message;  publish its event.     *)
(* The SMS leaves before anything is recorded of it, and nothing but the   *)
(* store's own lock orders two requests.  A request whose validation fails *)
(* touches no state and is not modelled.  A retry is another request with  *)
(* the same key.                                                           *)
(***************************************************************************)
EXTENDS SmsStore

CONSTANTS Requests,   \* requests the clients make
          Workloads,  \* what they may ask: for each request its route, "create"
                      \* (a new or old chat) or "send" (by chat id), its chat and
                      \* its idempotency_key, or NoKey
          BlankKey,   \* the key ""
          MaxFaults   \* bound: failures of AMI or the store, and crashes

VARIABLES asks,     \* the workload at hand
          step,     \* where each handler is
          status,   \* HTTP status it answered, "none" yet, or "cut": no answer
          answer,   \* the message in a 2xx answer
          created,  \* get_or_create_chat returned True
          seen,     \* service of the chat row in hand
          sent,     \* SMS Asterisk has queued for each request
          fired,    \* messages whose event was published
          before,   \* history: requests over when this one arrived
          faults

requestVars == <<step, status, answer, created, seen>>
vars == <<asks, step, status, answer, created, seen, sent, fired, before, faults,
          chats, messages, attachments>>

ASSUME OutboundAssumption ==
  /\ MsgIds = Requests /\ NoRow \notin Requests
  /\ Workloads \subseteq [Requests -> [route : {"create", "send"}, chat : Chats,
                                       key : IdemKeys \cup {NoKey}]]
  /\ BlankKey \in IdemKeys
  /\ MaxFaults \in Nat

Steps == {"unsent", "begin", "lookup", "submit", "chat", "insert", "touch", "reread",
          "publish", "over"}
Success == {"200", "201", "202"}
Statuses == Success \cup {"none", "cut", "404", "409", "500", "502"}

TypeOK ==
  /\ StoreTypeOK
  /\ asks \in Workloads
  /\ step \in [Requests -> Steps]
  /\ status \in [Requests -> Statuses]
  /\ answer \in [Requests -> Requests \cup {NoRow}]
  /\ created \in [Requests -> BOOLEAN]
  /\ seen \in [Requests -> Services \cup {"absent"}]
  /\ sent \in [Requests -> {0, 1}]
  /\ fired \subseteq Requests
  /\ before \in [Requests -> SUBSET Requests]
  /\ faults \in 0..MaxFaults

Init ==
  /\ StoreInit
  /\ asks \in Workloads
  /\ step = [r \in Requests |-> "unsent"]
  /\ status = [r \in Requests |-> "none"]
  /\ answer = [r \in Requests |-> NoRow]
  /\ created = [r \in Requests |-> FALSE]
  /\ seen = [r \in Requests |-> "absent"]
  /\ sent = [r \in Requests |-> 0]
  /\ fired = {}
  /\ before = [r \in Requests |-> {}]
  /\ faults = 0

-------------------------------------------------------------------------------
RouteOf(r) == asks[r].route
ChatOf(r) == asks[r].chat
KeyOf(r) == asks[r].key

(* What the clients ask never changes. *)
Fault == faults < MaxFaults /\ faults' = faults + 1 /\ UNCHANGED asks
NoFault == UNCHANGED <<faults, asks>>

Over == {r \in Requests : step[r] = "over"}
InFlight(r) == step[r] \notin {"unsent", "over"}

(* Mutant: a request that is about to store has taken the lock already. *)
MutLockedTwice == \A r \in Requests : step[r] \notin {"insert", "touch"}

(* The store lock, held from the INSERT of _create_message to its end. *)
LockFree == \A r \in Requests : step[r] # "touch"

Advance(r, s) == step' = [step EXCEPT ![r] = s] /\ UNCHANGED <<status, answer>>
Keep(r, s) == Advance(r, s) /\ UNCHANGED <<created, seen>>

(* The handler is left, with its locals. *)
Reply(r, code, m) == /\ step' = [step EXCEPT ![r] = "over"]
                     /\ status' = [status EXCEPT ![r] = code]
                     /\ answer' = [answer EXCEPT ![r] = m]
                     /\ seen' = [seen EXCEPT ![r] = "absent"]
                     /\ created' = [created EXCEPT ![r] = FALSE]

Fails(r, code) == Reply(r, code, NoRow)

(* "if payload.message.idempotency_key": an empty key is no key here ... *)
Keyed(r) == KeyOf(r) \notin {NoKey, BlankKey}

(* ... but the column it is stored in only exempts NULL. *)
RowOf(r) == OutboundRow(ChatOf(r), KeyOf(r))

-------------------------------------------------------------------------------
(***************************************************************************)
(* The handlers.                                                           *)
(***************************************************************************)

(* A client sends the request: send_message_to_chat first fetches the chat. *)
Arrive(r) == /\ step[r] = "unsent"
             /\ Keep(r, IF RouteOf(r) = "send" THEN "begin" ELSE "lookup")
             /\ before' = [before EXCEPT ![r] = Over]
             /\ NoFault /\ UNCHANGED <<sent, fired, storeVars>>

FindChat(r) == /\ step[r] = "begin" /\ LockFree
               /\ IF Exists(ChatOf(r))
                  THEN /\ Advance(r, "lookup")
                       /\ seen' = [seen EXCEPT ![r] = chats[ChatOf(r)]]
                       /\ UNCHANGED created
                  ELSE Fails(r, "404")
               /\ NoFault /\ UNCHANGED <<sent, fired, before, storeVars>>

(* Mutant: the key is not looked up. *)
MutNoLookup(r) == /\ step[r] = "lookup"
                  /\ Keep(r, "submit")
                  /\ NoFault /\ UNCHANGED <<sent, fired, before, storeVars>>

(* No usable key, or one never stored: the request goes on to send. *)
GoOn(r) == /\ step[r] = "lookup"
           /\ Keyed(r) => LockFree /\ WithIdemKey(KeyOf(r)) = {}
           /\ Keep(r, "submit")
           /\ NoFault /\ UNCHANGED <<sent, fired, before, storeVars>>

(* Mutant: a key is replayed to any chat. *)
MutReplayToAny(r) ==
  /\ step[r] = "lookup" /\ LockFree /\ Keyed(r)
  /\ \E m \in WithIdemKey(KeyOf(r)) : Reply(r, "200", m)
  /\ NoFault /\ UNCHANGED <<sent, fired, before, storeVars>>

(* A stored key is replayed to its own chat and refused to any other; the  *)
(* chat row that goes into the answer must be one the models admit.        *)
Replay(r) ==
  /\ step[r] = "lookup" /\ LockFree /\ Keyed(r)
  /\ \E m \in WithIdemKey(KeyOf(r)) :
       LET service == IF RouteOf(r) = "send" THEN seen[r] ELSE chats[messages[m].chat]
       IN CASE messages[m].chat # ChatOf(r) -> Fails(r, "409")
            [] ~Servable(service) -> Fails(r, "500")
            [] OTHER -> Reply(r, "200", m)
  /\ NoFault /\ UNCHANGED <<sent, fired, before, storeVars>>

Recording(r) == IF RouteOf(r) = "create" THEN "chat" ELSE "insert"

(* Mutant: the AMI action is sent a second time. *)
MutSubmitTwice(r) == /\ step[r] = "submit"
                     /\ sent' = [sent EXCEPT ![r] = 2]
                     /\ Keep(r, Recording(r))
                     /\ NoFault /\ UNCHANGED <<fired, before, storeVars>>

Submit(r) == /\ step[r] = "submit"
             /\ sent' = [sent EXCEPT ![r] = 1]
             /\ Keep(r, Recording(r))
             /\ NoFault /\ UNCHANGED <<fired, before, storeVars>>

(* Asterisk cannot be reached or refuses; or it queues the SMS and the     *)
(* answer is late, cut off or not understood.  The client is told 502.     *)
SubmitFails(r) == /\ step[r] = "submit" /\ Fault
                  /\ sent' \in {sent, [sent EXCEPT ![r] = 1]}
                  /\ Fails(r, "502")
                  /\ UNCHANGED <<fired, before, storeVars>>

(* Mutant: every POST /v3/chats claims to have created the chat. *)
MutAlwaysCreated(r) == /\ step[r] = "chat" /\ LockFree
                       /\ created' = [created EXCEPT ![r] = TRUE]
                       /\ GetOrCreateChat(ChatOf(r), "SMS")
                       /\ Advance(r, "insert")
                       /\ NoFault
                       /\ UNCHANGED <<seen, sent, fired, before, messages, attachments>>

GetChat(r) == /\ step[r] = "chat" /\ LockFree
              /\ created' = [created EXCEPT ![r] = ~Exists(ChatOf(r))]
              /\ GetOrCreateChat(ChatOf(r), "SMS")
              /\ Advance(r, "insert")
              /\ NoFault
              /\ UNCHANGED <<seen, sent, fired, before, messages, attachments>>

(* An IntegrityError is nobody's business: it ends in a 500. *)
Insert(r) == /\ step[r] = "insert" /\ LockFree
             /\ InsertMessage(r, RowOf(r))
             /\ IF Conflicts(RowOf(r)) THEN Fails(r, "500") ELSE Keep(r, "touch")
             /\ NoFault
             /\ UNCHANGED <<sent, fired, before, chats, attachments>>

Touch(r) == /\ step[r] = "touch"
            /\ TouchChat(ChatOf(r), "SMS")
            /\ Keep(r, "reread")
            /\ NoFault
            /\ UNCHANGED <<sent, fired, before, messages, attachments>>

Reread(r) == /\ step[r] = "reread" /\ LockFree
             /\ seen' = [seen EXCEPT ![r] = chats[ChatOf(r)]]
             /\ Advance(r, "publish")
             /\ NoFault /\ UNCHANGED <<created, sent, fired, before, storeVars>>

SuccessCode(r) == IF RouteOf(r) = "send" THEN "202"
                  ELSE IF created[r] THEN "201" ELSE "200"

(* Mutant: an event that cannot be built is passed over. *)
MutSwallowEvent(r) ==
  /\ step[r] = "publish" /\ LockFree
  /\ fired' = IF Servable(seen[r]) THEN fired \cup {r} ELSE fired
  /\ Reply(r, SuccessCode(r), r)
  /\ NoFault /\ UNCHANGED <<sent, before, storeVars>>

(* build_message_event, and then the answer, raise for a BINARY chat. *)
PublishAndReply(r) ==
  /\ step[r] = "publish" /\ LockFree
  /\ IF Servable(seen[r])
     THEN fired' = fired \cup {r} /\ Reply(r, SuccessCode(r), r)
     ELSE UNCHANGED fired /\ Fails(r, "500")
  /\ NoFault /\ UNCHANGED <<sent, before, storeVars>>

HandlerStep(r) == \/ FindChat(r) \/ GoOn(r) \/ Replay(r) \/ Submit(r) \/ GetChat(r)
                  \/ Insert(r) \/ Touch(r) \/ Reread(r) \/ PublishAndReply(r)

-------------------------------------------------------------------------------
(* create_inbound_message, seen from here: it may bring a chat into being;  *)
(* only the chats that are asked for matter.                               *)
Inbound(c, service) ==
  /\ LockFree
  /\ GetOrCreateChat(c, service)
  /\ NoFault /\ UNCHANGED <<requestVars, sent, fired, before, messages, attachments>>

(* A statement of the store raises; without a key none is run to look it up. *)
StoreFails(r) == /\ step[r] \in Steps \ {"unsent", "submit", "over"} /\ Fault
                 /\ step[r] = "lookup" => Keyed(r)
                 /\ Fails(r, "500")
                 /\ UNCHANGED <<sent, fired, before, storeVars>>

(* The process dies; every request in flight goes without an answer. *)
Crash == /\ Fault /\ \E r \in Requests : InFlight(r)
         /\ step' = [r \in Requests |-> IF InFlight(r) THEN "over" ELSE step[r]]
         /\ status' = [r \in Requests |-> IF InFlight(r) THEN "cut" ELSE status[r]]
         /\ seen' = [r \in Requests |-> "absent"]
         /\ created' = [r \in Requests |-> FALSE]
         /\ UNCHANGED <<answer, sent, fired, before, storeVars>>

Next == \/ \E r \in Requests : Arrive(r) \/ HandlerStep(r) \/ SubmitFails(r) \/ StoreFails(r)
        \/ \E r \in Requests, service \in Services : Inbound(ChatOf(r), service)
        \/ Crash

Spec == Init /\ [][Next]_vars

(* FastAPI runs on with every handler it has started. *)
FairSpec == Spec /\ \A r \in Requests : WF_vars(HandlerStep(r))

-------------------------------------------------------------------------------
(***************************************************************************)
(* Safety.                                                                 *)
(***************************************************************************)

SameKey(q, r) == Keyed(r) /\ KeyOf(q) = KeyOf(r)

(* A retry that arrives after the row of an earlier request with its key   *)
(* was committed sends nothing, whatever became of the earlier request.    *)
RecordedNotResent ==
  \A r \in Requests : \A q \in before[r] :
    SameKey(q, r) /\ Stored(q) => sent[r] = 0

(* Two successful answers to one key show the same message of the same     *)
(* chat, in whatever order the two requests interleaved.                   *)
ReplayFaithful ==
  \A q, r \in Requests :
    SameKey(q, r) /\ status[q] \in Success /\ status[r] \in Success
      => answer[q] = answer[r] /\ ChatOf(q) = ChatOf(r)

(* A 2xx answer is backed by a row of the chat it names and by an SMS that *)
(* was handed over, for a replay as for a fresh message; and a fresh one   *)
(* has had its event.                                                      *)
AnswerIsBacked ==
  \A r \in Requests : status[r] \in Success =>
    /\ answer[r] \in Requests /\ Stored(answer[r]) /\ sent[answer[r]] = 1
    /\ messages[answer[r]].chat = ChatOf(r)
    /\ answer[r] = r => r \in fired

(* At most one request is told that it created a chat. *)
OneCreator ==
  \A q, r \in Requests :
    status[q] = "201" /\ status[r] = "201" /\ ChatOf(q) = ChatOf(r) => q = r

(* An SMS that Asterisk has, of a request that is over and left no row. *)
Untraced(r) == r \in Over /\ sent[r] = 1 /\ ~Stored(r)

(* The SMS leaves before its row is written.  What then leaves no trace of *)
(* it is a failure of its own request or a crash, never one of another     *)
(* request; or a row that has its key.  A usable key is there only by a    *)
(* request that overlapped this one; the empty key, which is not looked    *)
(* up, by any earlier one; requests without a key never stand in each      *)
(* other's way.  The client is told of an error in every case, never that  *)
(* the SMS was sent.                                                       *)
OnlyFailuresLose ==
  [][\A r \in Requests : ~Untraced(r) /\ Untraced(r)' =>
       \/ faults' # faults /\ status'[r] \in {"500", "502", "cut"}
       \/ /\ status'[r] = "500" /\ KeyOf(r) # NoKey
          /\ \E q \in Requests \ {r} : /\ Stored(q) /\ KeyOf(q) = KeyOf(r)
                                       /\ Keyed(r) => q \notin before[r]]_vars

(***************************************************************************)
(* Liveness: with an AMI that answers or times out, every request is over  *)
(* some day, with its one answer; nobody waits for the lock for ever.      *)
(***************************************************************************)
EveryRequestEnds == \A r \in Requests : InFlight(r) ~> step[r] = "over"

-------------------------------------------------------------------------------
(***************************************************************************)
(* What the repository says, and the code does not do.                     *)
(***************************************************************************)

(* The key makes sending idempotent: one SMS for one key and chat.         *)
OneSmsPerKey ==
  \A q, r \in Requests :
    q # r /\ SameKey(q, r) /\ ChatOf(q) = ChatOf(r) => sent[q] + sent[r] <= 1
===============================================================================
