------------------------------ MODULE Pagination ------------------------------
(***************************************************************************)
(* GET /v3/chats and GET /v3/chats/{id}/messages of sms_api/main.py: pages *)
(* cut out of an ordered table by LIMIT and OFFSET, while the poller and   *)
(* the handlers write to that table between two pages.  A cursor is the    *)
(* number of rows already returned and names no row.                       *)
(*                                                                         *)
(* Chats are listed by updated_at, newest first, messages of a chat by     *)
(* created_at, oldest first, ties by the random uuid.  Neither column is   *)
(* a clock: every write brings a time stamp taken earlier, and that of an  *)
(* MMS is the network's.  Of the messages only those of the chat Shown are *)
(* kept, which are all that its listing depends on.                        *)
(***************************************************************************)
EXTENDS Naturals, FiniteSets

CONSTANTS Chats,     \* uuids of chats, in their order
          Messages,  \* uuids that messages of Shown get, in their order
          Shown,     \* the chat whose messages are read
          Writers,   \* threads that store messages
          Filters,   \* sets of chats the "from" and "to" filters select
          Limits,    \* page sizes that clients ask for
          MaxTime,   \* bound: seconds the clock counts
          MaxWrites  \* bound: messages stored during a behaviour

ASSUME PaginationAssumption ==
  /\ Chats \subseteq Nat /\ Messages \subseteq Nat /\ Shown \in Chats
  /\ IsFiniteSet(Chats) /\ IsFiniteSet(Messages)
  /\ Filters \subseteq SUBSET Chats
  /\ Limits \subseteq Nat \ {0}
  /\ MaxTime \in Nat \ {0} /\ MaxWrites \in Nat

VARIABLES now,        \* utc_now
          updatedAt,  \* updated_at of each chat, 0 without a row
          createdAt,  \* created_at of each message of Shown, 0 without a row
          mms,        \* chats whose service is MMS
          writer,     \* what each writer is about to store
          stored,     \* number of writes begun
          table,      \* what is walked: "none", "chats" or "messages"
          filter,     \* the chats the walk selects
          offset,     \* the cursor
          listed,     \* rows some page of the walk has shown
          over,       \* the last page had no next_cursor
          present,    \* history: rows selected when the walk began
          moved,      \* history: chats that got another updated_at since
          fallen,     \* history: one of them an older one
          pushes      \* history: writes to the walked table since

storeVars == <<now, updatedAt, createdAt, mms, writer, stored>>
walkVars == <<table, filter, offset, listed, over, present>>
history == <<moved, fallen, pushes>>
vars == <<storeVars, walkVars, history>>

Idle == [chat |-> 0, at |-> 0, service |-> "none"]
Pending == [chat : Chats, at : 1..MaxTime, service : {"SMS", "MMS"}]

TypeOK ==
  /\ now \in 1..MaxTime
  /\ updatedAt \in [Chats -> 0..MaxTime]
  /\ createdAt \in [Messages -> 0..MaxTime]
  /\ mms \subseteq Chats
  /\ writer \in [Writers -> Pending \cup {Idle}]
  /\ stored \in 0..MaxWrites
  /\ table \in {"none", "chats", "messages"}
  /\ filter \subseteq Chats
  /\ offset \in Nat
  /\ listed \subseteq Chats \cup Messages
  /\ over \in BOOLEAN
  /\ present \subseteq Chats \cup Messages
  /\ moved \subseteq Chats
  /\ fallen \in BOOLEAN
  /\ pushes \in Nat

(***************************************************************************)
(* A store with a past, whatever order its rows are in.                    *)
(***************************************************************************)
Init ==
  /\ now = 1
  /\ updatedAt \in [Chats -> 0..1]
  /\ createdAt \in [Messages -> 0..1]
  /\ (\E m \in Messages : createdAt[m] > 0) => updatedAt[Shown] > 0
  /\ Cardinality({m \in Messages : createdAt[m] = 0}) >= MaxWrites  \* uuids never run out
  /\ mms = {}
  /\ writer = [w \in Writers |-> Idle]
  /\ stored = 0
  /\ table = "none" /\ filter = {} /\ offset = 0 /\ listed = {} /\ over = FALSE
  /\ present = {} /\ moved = {} /\ fallen = FALSE /\ pushes = 0

-------------------------------------------------------------------------------
(***************************************************************************)
(* Order and pages.                                                        *)
(***************************************************************************)
SavedChats == {c \in Chats : updatedAt[c] > 0}
SavedMessages == {m \in Messages : createdAt[m] > 0}

(* Mutant: the oldest chat first. *)
MutOldestFirst(c, d) ==
  updatedAt[c] < updatedAt[d] \/ (updatedAt[c] = updatedAt[d] /\ c < d)

(* ORDER BY updated_at DESC, id DESC *)
ChatBefore(c, d) ==
  updatedAt[c] > updatedAt[d] \/ (updatedAt[c] = updatedAt[d] /\ c > d)

(* ORDER BY created_at ASC, id ASC *)
MessageBefore(m, n) ==
  createdAt[m] < createdAt[n] \/ (createdAt[m] = createdAt[n] /\ m < n)

Selected == IF table = "chats" THEN SavedChats \cap filter ELSE SavedMessages

Ahead(r) == {q \in Selected : IF table = "chats" THEN ChatBefore(q, r) ELSE MessageBefore(q, r)}

(* Mutant: the page starts with the row before the cursor. *)
MutRowBefore(limit) == {r \in Selected : /\ offset <= Cardinality(Ahead(r)) + 1
                                         /\ Cardinality(Ahead(r)) < offset + limit}

(* LIMIT limit OFFSET offset *)
Page(limit) == {r \in Selected : /\ offset <= Cardinality(Ahead(r))
                                 /\ Cardinality(Ahead(r)) < offset + limit}

-------------------------------------------------------------------------------
(***************************************************************************)
(* The client walks a listing from cursor to cursor.                       *)
(***************************************************************************)
Begin(t, f) ==
  /\ table = "none" \/ over
  /\ table' = t /\ filter' = f
  /\ offset' = 0 /\ listed' = {} /\ over' = FALSE
  /\ present' = IF t = "chats" THEN SavedChats \cap f ELSE SavedMessages
  /\ moved' = {} /\ fallen' = FALSE /\ pushes' = 0
  /\ UNCHANGED storeVars

(* GET /v3/chats with its two filters, and GET .../messages, which answers *)
(* 404 for a chat that does not exist.                                     *)
BeginChats == \E f \in Filters : Begin("chats", f)
BeginMessages == updatedAt[Shown] > 0 /\ Begin("messages", {})

(* Mutant: the cursor of the page before. *)
MutBackwards(limit) ==
  /\ table # "none" /\ ~over
  /\ listed' = listed \cup Page(limit)
  /\ offset' = offset - Cardinality(Page(limit))
  /\ over' = (Cardinality(Page(limit)) < limit)
  /\ UNCHANGED <<table, filter, present, storeVars, history>>

(* One page and its next_cursor: none after a page that was not full. *)
ReadPage(limit) ==
  /\ table # "none" /\ ~over
  /\ listed' = listed \cup Page(limit)
  /\ offset' = offset + Cardinality(Page(limit))
  /\ over' = (Cardinality(Page(limit)) < limit)
  /\ UNCHANGED <<table, filter, present, storeVars, history>>

-------------------------------------------------------------------------------
(***************************************************************************)
(* The writers.                                                            *)
(***************************************************************************)

(* The chat's row takes a time stamp, older or not. *)
Touch(c, at) ==
  /\ updatedAt' = [updatedAt EXCEPT ![c] = at]
  /\ moved' = IF table = "chats" /\ at # updatedAt[c] THEN moved \cup {c} ELSE moved
  /\ fallen' = (fallen \/ (table = "chats" /\ at < updatedAt[c]))

(* utc_now, or the time stamp of the PDU that announced an MMS, and then   *)
(* get_or_create_chat, which touches an old chat only to make it MMS.      *)
GetChat(w, c, at, service) ==
  /\ writer[w] = Idle /\ stored < MaxWrites
  /\ at <= now /\ (service = "SMS" => at = now)
  /\ writer' = [writer EXCEPT ![w] = [chat |-> c, at |-> at, service |-> service]]
  /\ stored' = stored + 1
  /\ IF updatedAt[c] = 0 \/ (service = "MMS" /\ c \notin mms)
     THEN /\ Touch(c, at)
          /\ pushes' = IF table = "chats" /\ c \in filter THEN pushes + 1 ELSE pushes
     ELSE UNCHANGED <<updatedAt, history>>
  /\ mms' = IF service = "MMS" THEN mms \cup {c} ELSE mms
  /\ UNCHANGED <<now, createdAt, walkVars>>

(* send_message_to_chat has its chat already. *)
TakeChat(w, c) ==
  /\ writer[w] = Idle /\ stored < MaxWrites /\ updatedAt[c] > 0
  /\ writer' = [writer EXCEPT ![w] = [chat |-> c, at |-> now, service |-> "SMS"]]
  /\ stored' = stored + 1
  /\ UNCHANGED <<now, updatedAt, createdAt, mms, walkVars, history>>

(* _create_message, whose lock no reader passes from the INSERT to its end. *)
CreateMessage(w) ==
  LET new == writer[w]
      listing == \/ table = "messages" /\ new.chat = Shown
                 \/ table = "chats" /\ new.chat \in filter
  IN
  /\ new # Idle
  /\ Touch(new.chat, new.at)
  /\ IF new.chat = Shown
     THEN \E m \in Messages \ SavedMessages : createdAt' = [createdAt EXCEPT ![m] = new.at]
     ELSE UNCHANGED createdAt
  /\ pushes' = IF listing THEN pushes + 1 ELSE pushes
  /\ writer' = [writer EXCEPT ![w] = Idle]
  /\ UNCHANGED <<now, mms, stored, walkVars>>

Tick == /\ now < MaxTime
        /\ now' = now + 1
        /\ UNCHANGED <<updatedAt, createdAt, mms, writer, stored, walkVars, history>>

Next == \/ BeginChats \/ BeginMessages
        \/ \E limit \in Limits : ReadPage(limit)
        \/ \E w \in Writers, c \in Chats :
             \/ TakeChat(w, c)
             \/ \E at \in 1..MaxTime, service \in {"SMS", "MMS"} : GetChat(w, c, at, service)
        \/ \E w \in Writers : CreateMessage(w)
        \/ Tick

Spec == Init /\ [][Next]_vars

-------------------------------------------------------------------------------
(***************************************************************************)
(* Properties.                                                             *)
(***************************************************************************)

(* A walk that has come to its end has shown every row that was there when *)
(* it began.  Messages: without exception, whatever time stamps the new    *)
(* ones bring.  Chats: but for those that were written to meanwhile, and   *)
(* provided no write took a chat back in time.                             *)
NoneMissed == over /\ ~fallen => present \subseteq listed \cup moved

(* A walk shows a row twice at most once for each write to what it lists:  *)
(* without writes it shows every row exactly once.                         *)
RepeatsBounded == offset <= Cardinality(listed) + pushes
===============================================================================
