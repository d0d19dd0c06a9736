--------------------------- MODULE OutboundApiProofs ---------------------------
(***************************************************************************)
(* What holds of OutboundApi for every set of requests, whatever they ask, *)
(* however they interleave, fail and crash.                                *)
(***************************************************************************)
EXTENDS OutboundApi, TLAPS

(***************************************************************************)
(* The inductive invariant.  A row is the one its request asked for, and   *)
(* its SMS was handed over.                                                *)
(***************************************************************************)
RowsKnown == \A m \in Requests : Stored(m) => messages[m] = RowOf(m) /\ sent[m] = 1

(* What a handler has done at each of its steps. *)
StepsKnown ==
  \A r \in Requests :
    /\ step[r] \in {"unsent", "begin", "lookup", "submit"} => sent[r] = 0 /\ ~Stored(r)
    /\ step[r] \in {"chat", "insert"} => sent[r] = 1 /\ ~Stored(r)
    /\ step[r] \in {"touch", "reread", "publish"} => Stored(r)
    /\ step[r] # "over" => status[r] = "none"

(* The unique index: no two rows have one key. *)
KeysUnique ==
  \A q, r \in Requests :
    Stored(q) /\ Stored(r) /\ KeyOf(q) = KeyOf(r) /\ KeyOf(r) # NoKey => q = r

(* A successful answer shows a row with the key and the chat asked for. *)
AnswersKnown ==
  \A r \in Requests : status[r] \in Success =>
    /\ answer[r] \in Requests /\ Stored(answer[r])
    /\ KeyOf(answer[r]) = KeyOf(r) /\ ChatOf(answer[r]) = ChatOf(r)
    /\ answer[r] = r => r \in fired

(* Who found no chat has made it, and nobody finds none after that. *)
Creator(r) == created[r] \/ status[r] = "201"
CreatorsKnown ==
  /\ \A r \in Requests : Creator(r) => Exists(ChatOf(r))
  /\ \A q, r \in Requests : Creator(q) /\ Creator(r) /\ ChatOf(q) = ChatOf(r) => q = r

(* Who is past the lookup has found no row of a request that was over then. *)
EarlierKnown ==
  \A r \in Requests : \A q \in before[r] :
    /\ step[q] = "over"
    /\ SameKey(q, r) /\ (sent[r] = 1 \/ step[r] = "submit") => ~Stored(q)

OutboundInv == /\ TypeOK /\ RowsKnown /\ StepsKnown /\ KeysUnique
               /\ AnswersKnown /\ CreatorsKnown /\ EarlierKnown

-------------------------------------------------------------------------------
LEMMA InitInv == Init => OutboundInv
  <1> SUFFICES ASSUME Init PROVE OutboundInv
    OBVIOUS
  <1> USE OutboundAssumption, StoreAssumption DEF Init, StoreInit
  <1>1. TypeOK
    BY DEF TypeOK, StoreTypeOK, Steps, Statuses, Success
  <1>2. RowsKnown /\ StepsKnown /\ KeysUnique
    BY DEF RowsKnown, StepsKnown, KeysUnique, Stored
  <1>3. AnswersKnown /\ CreatorsKnown /\ EarlierKnown
    BY DEF AnswersKnown, CreatorsKnown, Creator, EarlierKnown, Success
  <1> QED BY <1>1, <1>2, <1>3 DEF OutboundInv

(* The row of a request is well-typed, and only its key can be taken. *)
LEMMA RowType ==
  ASSUME TypeOK, NEW r \in Requests
  PROVE  RowOf(r) \in Row /\ ChatOf(r) \in Chats /\ KeyOf(r) \in IdemKeys \cup {NoKey}
  BY OutboundAssumption DEF TypeOK, RowOf, OutboundRow, Row, ChatOf, KeyOf, Services

LEMMA WithKey ==
  ASSUME RowsKnown, NEW k
  PROVE  WithIdemKey(k) = {m \in Requests : Stored(m) /\ KeyOf(m) = k}
  <1>1. \A m \in Requests : Stored(m) => messages[m].idem = KeyOf(m)
    <2> TAKE m \in Requests
    <2> HAVE Stored(m)
    <2>1. messages[m] = OutboundRow(ChatOf(m), KeyOf(m))
      BY DEF RowsKnown, RowOf
    <2> QED BY <2>1 DEF OutboundRow
  <1>2. MsgIds = Requests
    BY OutboundAssumption
  <1> QED BY <1>1, <1>2 DEF WithIdemKey

LEMMA ConflictIsKey ==
  ASSUME RowsKnown, NEW r \in Requests
  PROVE  Conflicts(RowOf(r)) <=>
           KeyOf(r) # NoKey /\ \E m \in Requests : Stored(m) /\ KeyOf(m) = KeyOf(r)
  BY WithKey DEF Conflicts, RowOf, OutboundRow

LEMMA ChatWriteType ==
  ASSUME StoreTypeOK, NEW c, NEW s \in Services, GetOrCreateChat(c, s) \/ TouchChat(c, s)
  PROVE  /\ chats' \in [Chats -> Services \cup {"absent"}]
         /\ \A d \in Chats : Exists(d) => Exists(d)'
  BY DEF StoreTypeOK, GetOrCreateChat, TouchChat, Services, Exists

-------------------------------------------------------------------------------
(* The locals of the handlers. *)
LocalsOK == /\ step \in [Requests -> Steps] /\ status \in [Requests -> Statuses]
            /\ answer \in [Requests -> Requests \cup {NoRow}]
            /\ created \in [Requests -> BOOLEAN]
            /\ seen \in [Requests -> Services \cup {"absent"}]

LEMMA ReplyType ==
  ASSUME TypeOK, NEW r \in Requests, NEW code \in Statuses,
         NEW m \in Requests \cup {NoRow}, Reply(r, code, m)
  PROVE  LocalsOK'
  BY DEF TypeOK, Reply, LocalsOK, Steps

LEMMA AdvanceType ==
  ASSUME TypeOK, NEW r \in Requests, NEW s \in Steps, Advance(r, s)
  PROVE  /\ step' \in [Requests -> Steps] /\ status' \in [Requests -> Statuses]
         /\ answer' \in [Requests -> Requests \cup {NoRow}]
  BY DEF TypeOK, Advance

LEMMA TypeStep ==
  ASSUME OutboundInv, [Next]_vars
  PROVE  TypeOK'
  <1>0. MsgIds = Requests /\ MaxFaults \in Nat
    BY OutboundAssumption
  <1>a. TypeOK' <=> /\ StoreTypeOK' /\ LocalsOK' /\ asks' \in Workloads
                    /\ sent' \in [Requests -> {0, 1}] /\ fired' \subseteq Requests
                    /\ before' \in [Requests -> SUBSET Requests] /\ faults' \in 0..MaxFaults
    BY DEF TypeOK, LocalsOK
  <1>b. TypeOK
    BY DEF OutboundInv
  <1>c. UNCHANGED storeVars => StoreTypeOK'
    BY <1>b DEF TypeOK, StoreTypeOK, storeVars
  <1>d. /\ UNCHANGED sent => sent' \in [Requests -> {0, 1}]
        /\ UNCHANGED fired => fired' \subseteq Requests
        /\ UNCHANGED before => before' \in [Requests -> SUBSET Requests]
        /\ NoFault \/ Fault => asks' \in Workloads /\ faults' \in 0..MaxFaults
    BY <1>0, <1>b DEF TypeOK, NoFault, Fault
  <1>e. ASSUME NEW r \in Requests, NEW s \in Steps, Keep(r, s) PROVE LocalsOK'
    BY <1>b, <1>e, AdvanceType DEF TypeOK, Keep, LocalsOK
  <1>f. ASSUME NEW r \in Requests, NEW code \in Statuses, Fails(r, code) PROVE LocalsOK'
    BY <1>b, <1>f, ReplyType DEF Fails
  <1>g. ASSUME NEW r \in Requests
        PROVE  chats[ChatOf(r)] \in Services \cup {"absent"}
    BY <1>b, RowType DEF TypeOK, StoreTypeOK
  <1>1. CASE UNCHANGED vars
    BY <1>1, <1>b DEF vars, TypeOK, StoreTypeOK
  <1>2. ASSUME NEW r \in Requests, Arrive(r) PROVE TypeOK'
    <2>1. before' \in [Requests -> SUBSET Requests]
      BY <1>2, <1>b DEF Arrive, TypeOK, Over
    <2>2. LocalsOK'
      BY <1>2, <1>e DEF Arrive, Steps
    <2> QED BY <1>2, <1>a, <1>c, <1>d, <2>1, <2>2 DEF Arrive
  <1>3. ASSUME NEW r \in Requests, FindChat(r) PROVE TypeOK'
    <2>1. LocalsOK'
      <3>1. CASE Exists(ChatOf(r))
        BY <1>3, <3>1, <1>b, <1>g, AdvanceType DEF FindChat, TypeOK, LocalsOK, Steps
      <3>2. CASE ~Exists(ChatOf(r))
        BY <1>3, <3>2, <1>f DEF FindChat, Statuses, Success
      <3> QED BY <3>1, <3>2
    <2> QED BY <1>3, <1>a, <1>c, <1>d, <2>1 DEF FindChat
  <1>4. ASSUME NEW r \in Requests, GoOn(r) PROVE TypeOK'
    <2>1. LocalsOK'
      BY <1>4, <1>e DEF GoOn, Steps
    <2> QED BY <1>4, <1>a, <1>c, <1>d, <2>1 DEF GoOn
  <1>5. ASSUME NEW r \in Requests, Replay(r) PROVE TypeOK'
    <2>1. \E code \in {"200", "409", "500"}, m \in Requests \cup {NoRow} : Reply(r, code, m)
      BY <1>5, <1>0 DEF Replay, WithIdemKey, Fails
    <2>2. LocalsOK'
      BY <2>1, <1>b, ReplyType DEF Statuses, Success
    <2> QED BY <1>5, <1>a, <1>c, <1>d, <2>2 DEF Replay
  <1>6. ASSUME NEW r \in Requests, Submit(r) \/ SubmitFails(r) PROVE TypeOK'
    <2>1. sent' \in [Requests -> {0, 1}]
      BY <1>6, <1>b DEF TypeOK, Submit, SubmitFails
    <2>2. LocalsOK'
      BY <1>6, <1>e, <1>f DEF Submit, SubmitFails, Recording, Steps, Statuses, Success
    <2> QED BY <1>6, <1>a, <1>c, <1>d, <2>1, <2>2 DEF Submit, SubmitFails
  <1>7. ASSUME NEW r \in Requests, GetChat(r) \/ Touch(r) PROVE TypeOK'
    <2>1. chats' \in [Chats -> Services \cup {"absent"}]
      BY <1>7, <1>b, ChatWriteType DEF GetChat, Touch, Services, TypeOK
    <2>2. StoreTypeOK'
      BY <1>7, <1>b, <2>1 DEF GetChat, Touch, TypeOK, StoreTypeOK
    <2>3. LocalsOK'
      BY <1>7, <1>b, <1>e, AdvanceType DEF GetChat, Touch, TypeOK, LocalsOK, Steps
    <2> QED BY <1>7, <1>a, <1>d, <2>2, <2>3 DEF GetChat, Touch
  <1>8. ASSUME NEW r \in Requests, Insert(r) PROVE TypeOK'
    <2>1. messages' \in [MsgIds -> Row \cup {NoRow}]
      BY <1>8, <1>b, RowType DEF Insert, InsertMessage, TypeOK, StoreTypeOK
    <2>2. StoreTypeOK'
      BY <1>8, <1>b, <2>1 DEF Insert, TypeOK, StoreTypeOK
    <2>3. LocalsOK'
      BY <1>8, <1>e, <1>f DEF Insert, Steps, Statuses, Success
    <2> QED BY <1>8, <1>a, <1>d, <2>2, <2>3 DEF Insert
  <1>9. ASSUME NEW r \in Requests, Reread(r) PROVE TypeOK'
    <2>1. LocalsOK'
      BY <1>9, <1>b, <1>g, AdvanceType DEF Reread, TypeOK, LocalsOK, Steps
    <2> QED BY <1>9, <1>a, <1>c, <1>d, <2>1 DEF Reread
  <1>10. ASSUME NEW r \in Requests, PublishAndReply(r) PROVE TypeOK'
    <2>1. LocalsOK'
      BY <1>10, <1>b, <1>f, ReplyType DEF PublishAndReply, SuccessCode, Statuses, Success
    <2>2. fired' \subseteq Requests
      BY <1>10, <1>b DEF PublishAndReply, TypeOK
    <2> QED BY <1>10, <1>a, <1>c, <1>d, <2>1, <2>2 DEF PublishAndReply
  <1>11. ASSUME NEW c, NEW s \in Services, Inbound(c, s) PROVE TypeOK'
    <2>1. StoreTypeOK'
      BY <1>11, <1>b, ChatWriteType DEF Inbound, TypeOK, StoreTypeOK
    <2>2. LocalsOK'
      BY <1>11, <1>b DEF Inbound, TypeOK, LocalsOK, requestVars
    <2> QED BY <1>11, <1>a, <1>d, <2>1, <2>2 DEF Inbound
  <1>12. ASSUME NEW r \in Requests, StoreFails(r) PROVE TypeOK'
    <2>1. LocalsOK'
      BY <1>12, <1>f DEF StoreFails, Statuses, Success
    <2> QED BY <1>12, <1>a, <1>c, <1>d, <2>1 DEF StoreFails
  <1>13. CASE Crash
    <2>1. LocalsOK'
      BY <1>13, <1>b DEF Crash, TypeOK, LocalsOK, Steps, Statuses, Success
    <2> QED BY <1>13, <1>a, <1>c, <1>d, <2>1 DEF Crash
  <1> QED
    BY <1>1, <1>2, <1>3, <1>4, <1>5, <1>6, <1>7, <1>8, <1>9, <1>10, <1>11, <1>12, <1>13
    DEF Next, HandlerStep

-------------------------------------------------------------------------------
(***************************************************************************)
(* What one step changes.  Acts(r) is a step of the handler of r, a        *)
(* failure of it included; the others are Inbound and Crash.               *)
(***************************************************************************)
Acts(r) == Arrive(r) \/ HandlerStep(r) \/ SubmitFails(r) \/ StoreFails(r)

LEMMA Actors ==
  ASSUME [Next]_vars
  PROVE  \/ UNCHANGED vars
         \/ \E r \in Requests : Acts(r)
         \/ \E r \in Requests, service \in Services : Inbound(ChatOf(r), service)
         \/ Crash
  BY DEF Next, Acts

LEMMA AsksFixed ==
  ASSUME [Next]_vars
  PROVE  UNCHANGED asks
  BY DEF Next, HandlerStep, vars, Fault, NoFault, Arrive, FindChat, GoOn, Replay, Submit,
         SubmitFails, GetChat, Insert, Touch, Reread, PublishAndReply, Inbound, StoreFails, Crash

(* A handler changes nothing of another request. *)
LEMMA OthersFixed ==
  ASSUME TypeOK, NEW r \in Requests, Acts(r)
  PROVE  /\ \A q \in Requests \ {r} :
              /\ step'[q] = step[q] /\ status'[q] = status[q] /\ answer'[q] = answer[q]
              /\ created'[q] = created[q] /\ sent'[q] = sent[q]
              /\ messages'[q] = messages[q] /\ before'[q] = before[q]
         /\ fired \subseteq fired'
  <1>0. MsgIds = Requests
    BY OutboundAssumption
  <1>1. ASSUME NEW code, NEW m, Reply(r, code, m)
        PROVE  \A q \in Requests \ {r} :
                 /\ step'[q] = step[q] /\ status'[q] = status[q] /\ answer'[q] = answer[q]
                 /\ created'[q] = created[q]
    BY <1>1 DEF Reply, TypeOK
  <1>2. ASSUME NEW s, Advance(r, s)
        PROVE  \A q \in Requests \ {r} :
                 /\ step'[q] = step[q] /\ status'[q] = status[q] /\ answer'[q] = answer[q]
    BY <1>2 DEF Advance, TypeOK
  <1>3. CASE Arrive(r)
    BY <1>3, <1>2 DEF Arrive, Keep, storeVars, TypeOK
  <1>4. CASE GoOn(r)
    BY <1>4, <1>2 DEF GoOn, Keep, storeVars, TypeOK
  <1>5. CASE FindChat(r)
    BY <1>5, <1>1, <1>2 DEF FindChat, Fails, storeVars, TypeOK
  <1>6. CASE Replay(r)
    <2>1. \E code, m : Reply(r, code, m)
      BY <1>6 DEF Replay, Fails
    <2> QED BY <1>6, <2>1, <1>1 DEF Replay, storeVars
  <1>7. CASE Submit(r) \/ SubmitFails(r)
    BY <1>7, <1>1, <1>2 DEF Submit, SubmitFails, Keep, Fails, storeVars, TypeOK
  <1>8. CASE GetChat(r)
    BY <1>8, <1>2 DEF GetChat, TypeOK
  <1>9. CASE Insert(r)
    <2>1. \A q \in Requests \ {r} : messages'[q] = messages[q]
      BY <1>9, <1>0 DEF Insert, InsertMessage, TypeOK, StoreTypeOK
    <2> QED BY <1>9, <2>1, <1>1, <1>2 DEF Insert, Keep, Fails
  <1>10. CASE Touch(r) \/ Reread(r)
    BY <1>10, <1>2 DEF Touch, Reread, Keep, storeVars
  <1>11. CASE PublishAndReply(r)
    BY <1>11, <1>1 DEF PublishAndReply, Fails, storeVars
  <1>12. CASE StoreFails(r)
    BY <1>12, <1>1 DEF StoreFails, Fails, storeVars
  <1> QED
    BY <1>3, <1>4, <1>5, <1>6, <1>7, <1>8, <1>9, <1>10, <1>11, <1>12 DEF Acts, HandlerStep

(* The steps of one request, with what becomes of its SMS and its row. *)
Same(r) == sent'[r] = sent[r] /\ messages'[r] = messages[r]
LEMMA OwnStep ==
  ASSUME TypeOK, NEW r \in Requests, Acts(r)
  PROVE  \/ step[r] = "unsent" /\ step'[r] \in {"begin", "lookup"} /\ Same(r) /\ status'[r] = status[r]
         \/ step[r] = "begin" /\ step'[r] = "lookup" /\ Same(r) /\ status'[r] = status[r]
         \/ GoOn(r) /\ step[r] = "lookup" /\ step'[r] = "submit" /\ Same(r) /\ status'[r] = status[r]
         \/ /\ step[r] = "submit" /\ step'[r] \in {"chat", "insert"}
            /\ sent'[r] = 1 /\ messages'[r] = messages[r] /\ status'[r] = status[r]
         \/ step[r] = "chat" /\ step'[r] = "insert" /\ Same(r) /\ status'[r] = status[r]
         \/ /\ Insert(r) /\ step[r] = "insert" /\ step'[r] = "touch" /\ ~Conflicts(RowOf(r))
            /\ sent'[r] = sent[r] /\ messages'[r] = RowOf(r) /\ status'[r] = status[r]
         \/ /\ step[r] \in {"touch", "reread"} /\ step'[r] \in {"reread", "publish"}
            /\ Same(r) /\ status'[r] = status[r]
         \/ /\ step[r] \notin {"unsent", "over"} /\ step'[r] = "over" /\ messages'[r] = messages[r]
            /\ sent'[r] = sent[r] \/ SubmitFails(r)
  <1>0. MsgIds = Requests
    BY OutboundAssumption
  <1>1. ASSUME NEW code, NEW m, Reply(r, code, m) PROVE step'[r] = "over"
    BY <1>1 DEF Reply, TypeOK
  <1>2. ASSUME NEW s, Advance(r, s) PROVE step'[r] = s /\ status'[r] = status[r]
    BY <1>2 DEF Advance, TypeOK
  <1>3. CASE Arrive(r)
    BY <1>3, <1>2 DEF Arrive, Keep, storeVars, Same
  <1>4. CASE GoOn(r)
    BY <1>4, <1>2 DEF GoOn, Keep, storeVars, Same
  <1>5. CASE FindChat(r)
    BY <1>5, <1>1, <1>2 DEF FindChat, Fails, storeVars, Same
  <1>6. CASE Replay(r)
    <2>1. \E code, m : Reply(r, code, m)
      BY <1>6 DEF Replay, Fails
    <2> QED BY <1>6, <2>1, <1>1 DEF Replay, storeVars
  <1>7. CASE Submit(r)
    BY <1>7, <1>2 DEF Submit, Keep, storeVars, TypeOK, Recording
  <1>8. CASE SubmitFails(r)
    BY <1>8, <1>1 DEF SubmitFails, Fails, storeVars
  <1>9. CASE GetChat(r)
    BY <1>9, <1>2 DEF GetChat, Same
  <1>10. CASE Insert(r)
    BY <1>10, <1>0, <1>1, <1>2 DEF Insert, InsertMessage, Keep, Fails, TypeOK, StoreTypeOK
  <1>11. CASE Touch(r) \/ Reread(r)
    BY <1>11, <1>2 DEF Touch, Reread, Keep, storeVars, Same
  <1>12. CASE PublishAndReply(r)
    BY <1>12, <1>1 DEF PublishAndReply, Fails, storeVars
  <1>13. CASE StoreFails(r)
    BY <1>13, <1>1 DEF StoreFails, Fails, storeVars
  <1> QED
    BY <1>3, <1>4, <1>5, <1>6, <1>7, <1>8, <1>9, <1>10, <1>11, <1>12, <1>13 DEF Acts, HandlerStep

(* Rows are only added, each by the INSERT of its own request. *)
Inserts(r) == /\ step[r] = "insert" /\ step'[r] = "touch" /\ ~Conflicts(RowOf(r))
              /\ messages'[r] = RowOf(r)

LEMMA StoredStep ==
  ASSUME TypeOK, [Next]_vars, NEW m \in Requests
  PROVE  /\ messages'[m] = messages[m] \/ Inserts(m)
         /\ Inserts(m) => Stored(m)'
  <1>1. messages'[m] = messages[m] \/ Inserts(m)
    <2>1. ASSUME NEW r \in Requests, Acts(r) PROVE messages'[m] = messages[m] \/ Inserts(m)
      BY <2>1, OthersFixed, OwnStep DEF Inserts, Same
    <2> QED BY <2>1, Actors DEF vars, Inbound, Crash, storeVars
  <1>2. Inserts(m) => Stored(m)'
    BY RowType, StoreAssumption DEF Inserts, Stored
  <1> QED BY <1>1, <1>2

LEMMA StepsStep ==
  ASSUME OutboundInv, [Next]_vars
  PROVE  StepsKnown'
  <1> USE DEF OutboundInv
  <1>1. CASE UNCHANGED vars
    BY <1>1 DEF StepsKnown, vars, Stored
  <1>2. ASSUME NEW r \in Requests, Acts(r) PROVE StepsKnown'
    <2>1. Inserts(r) => Stored(r)'
      BY StoredStep
    <2>2. messages'[r] = messages[r] => (Stored(r)' <=> Stored(r))
      BY DEF Stored
    <2>3. \A q \in Requests \ {r} : Stored(q)' <=> Stored(q)
      BY <1>2, OthersFixed DEF Stored
    <2> QED BY <1>2, <2>1, <2>2, <2>3, OthersFixed, OwnStep DEF StepsKnown, Same, Inserts
  <1>3. ASSUME NEW c, NEW s, Inbound(c, s) PROVE StepsKnown'
    BY <1>3 DEF Inbound, requestVars, StepsKnown, Stored
  <1>4. CASE Crash
    BY <1>4 DEF Crash, StepsKnown, Stored, storeVars, InFlight, TypeOK, Steps
  <1> QED BY <1>1, <1>2, <1>3, <1>4, Actors

(* An SMS that was handed over stays so. *)
LEMMA SentStays ==
  ASSUME OutboundInv, [Next]_vars, NEW r \in Requests, sent[r] = 1
  PROVE  sent'[r] = 1
  <1>1. ASSUME NEW q \in Requests, Acts(q) PROVE sent'[r] = 1
    <2>1. SubmitFails(q) => sent' \in {sent, [sent EXCEPT ![q] = 1]}
      BY DEF SubmitFails
    <2> QED BY <1>1, <2>1, OthersFixed, OwnStep DEF OutboundInv, Same, TypeOK
  <1> QED BY <1>1, Actors DEF vars, Inbound, Crash

LEMMA RowsStep ==
  ASSUME OutboundInv, [Next]_vars
  PROVE  RowsKnown'
  <1> SUFFICES ASSUME NEW m \in Requests, Stored(m)'
               PROVE  messages'[m] = RowOf(m)' /\ sent'[m] = 1
    BY DEF RowsKnown
  <1>1. RowOf(m)' = RowOf(m)
    BY AsksFixed DEF RowOf, OutboundRow, ChatOf, KeyOf
  <1>2. CASE Stored(m) /\ messages'[m] = messages[m]
    BY <1>1, <1>2, SentStays DEF OutboundInv, RowsKnown
  <1>3. CASE Inserts(m)
    BY <1>1, <1>3, SentStays DEF OutboundInv, StepsKnown, Inserts
  <1> QED BY <1>2, <1>3, StoredStep DEF OutboundInv, Stored

LEMMA KeysStep ==
  ASSUME OutboundInv, [Next]_vars
  PROVE  KeysUnique'
  <1> SUFFICES ASSUME NEW q \in Requests, NEW r \in Requests, Stored(q)', Stored(r)',
                      KeyOf(q) = KeyOf(r), KeyOf(r) # NoKey
               PROVE  q = r
    BY AsksFixed DEF KeysUnique, KeyOf
  <1>1. /\ Stored(q) \/ Inserts(q)
        /\ Stored(r) \/ Inserts(r)
    BY StoredStep DEF OutboundInv, Stored
  <1>2. Inserts(q) => ~Stored(r) /\ (Inserts(r) => q = r)
    <2>1. Inserts(q) => ~Stored(r)
      BY ConflictIsKey DEF Inserts, OutboundInv
    <2>2. Inserts(q) /\ Inserts(r) => q = r
      BY Actors, OthersFixed DEF Inserts, OutboundInv, vars, Inbound, requestVars, Crash, InFlight
    <2> QED BY <2>1, <2>2
  <1>3. Inserts(r) => ~Stored(q)
    BY ConflictIsKey DEF Inserts, OutboundInv
  <1> QED BY <1>1, <1>2, <1>3 DEF OutboundInv, KeysUnique

(* Once over, always over; and who arrives late sees that. *)
LEMMA OverStays ==
  ASSUME OutboundInv, [Next]_vars, NEW r \in Requests, step[r] = "over"
  PROVE  step'[r] = "over"
  <1>1. ASSUME NEW q \in Requests, Acts(q) PROVE step'[r] = "over"
    BY <1>1, OthersFixed, OwnStep DEF OutboundInv
  <1> QED BY <1>1, Actors DEF vars, Inbound, requestVars, Crash, InFlight

LEMMA EarlierStep ==
  ASSUME OutboundInv, [Next]_vars
  PROVE  EarlierKnown'
  <1> SUFFICES ASSUME NEW r \in Requests, NEW q \in before'[r]
               PROVE  /\ step'[q] = "over"
                      /\ SameKey(q, r) /\ (sent'[r] = 1 \/ step'[r] = "submit") => ~Stored(q)'
    BY AsksFixed DEF EarlierKnown, SameKey, Keyed, KeyOf
  <1>0. TypeOK /\ TypeOK'
    BY TypeStep DEF OutboundInv
  <1>1. q \in Requests
    BY <1>0 DEF TypeOK
  <1>2. CASE q \in before[r]
    <2>1. step[q] = "over" /\ step'[q] = "over"
      BY <1>1, <1>2, OverStays DEF OutboundInv, EarlierKnown
    <2>2. messages'[q] = messages[q]
      BY <1>1, <2>1, StoredStep DEF OutboundInv, Inserts
    <2>3. ASSUME SameKey(q, r), sent'[r] = 1 \/ step'[r] = "submit" PROVE ~Stored(q)
      <3>1. CASE sent[r] = 1 \/ step[r] = "submit"
        BY <1>2, <2>3, <3>1 DEF OutboundInv, EarlierKnown
      <3>2. CASE GoOn(r)
        BY <1>1, <2>3, <3>2, WithKey DEF GoOn, SameKey, OutboundInv
      <3>3. ASSUME NEW p \in Requests, Acts(p), p # r PROVE sent'[r] = sent[r] /\ step'[r] = step[r]
        BY <1>0, <3>3, OthersFixed
      <3>4. CASE Acts(r)
        BY <1>0, <2>3, <3>1, <3>2, <3>4, OwnStep DEF SubmitFails, Same
      <3> QED
        BY <2>3, <3>1, <3>3, <3>4, Actors
        DEF vars, Inbound, requestVars, Crash, InFlight
    <2> QED BY <2>1, <2>2, <2>3 DEF Stored
  <1>3. CASE q \notin before[r]
    <2>1. Arrive(r) /\ before'[r] = Over
      <3>1. \E p \in Requests : Arrive(p) /\ before' = [before EXCEPT ![p] = Over]
        BY <1>3
        DEF Next, HandlerStep, vars, Arrive, FindChat, GoOn, Replay, Submit, SubmitFails, GetChat,
            Insert, Touch, Reread, PublishAndReply, Inbound, StoreFails, Crash
      <3> QED BY <1>0, <1>3, <3>1 DEF TypeOK
    <2>2. step[r] = "unsent" /\ sent'[r] # 1 /\ step'[r] # "submit" /\ step[q] = "over"
      BY <1>0, <2>1 DEF OutboundInv, StepsKnown, Arrive, Over, Keep, Advance, TypeOK
    <2> QED BY <1>1, <2>2, OverStays
  <1> QED BY <1>2, <1>3

(* What a handler answers it answers once, at its end: a message found by  *)
(* the key, or its own.                                                    *)
LEMMA SuccessAnswers ==
  ASSUME OutboundInv, NEW r \in Requests, Acts(r), status'[r] \in Success
  PROVE  \/ /\ answer'[r] \in Requests /\ Stored(answer'[r]) /\ answer'[r] # r
            /\ KeyOf(answer'[r]) = KeyOf(r) /\ ChatOf(answer'[r]) = ChatOf(r)
            /\ status'[r] # "201"
         \/ /\ answer'[r] = r /\ r \in fired' /\ Stored(r)
            /\ status'[r] = "201" => created[r]
  <1>0. TypeOK /\ MsgIds = Requests
    BY OutboundAssumption DEF OutboundInv
  <1>1. step[r] # "over" /\ step'[r] = "over"
    BY <1>0, OwnStep DEF OutboundInv, StepsKnown, Success
  <1>2. ASSUME NEW code, NEW m, Reply(r, code, m) PROVE status'[r] = code /\ answer'[r] = m
    BY <1>0, <1>2 DEF Reply, TypeOK
  <1>3. ASSUME NEW code, Fails(r, code), code \notin Success PROVE FALSE
    BY <1>2, <1>3 DEF Fails
  <1>4. Replay(r) \/ PublishAndReply(r)
    <2>1. ASSUME NEW s, Advance(r, s) PROVE step'[r] = s
      BY <1>0, <2>1 DEF Advance, TypeOK
    <2> QED
      BY <1>1, <1>3, <2>1
      DEF Acts, HandlerStep, Arrive, FindChat, GoOn, Submit, SubmitFails, GetChat, Insert, Touch,
          Reread, StoreFails, Keep, Recording, Success
  <1>5. CASE Replay(r)
    <2>1. PICK m \in WithIdemKey(KeyOf(r)) :
            \/ Fails(r, "409") \/ Fails(r, "500")
            \/ messages[m].chat = ChatOf(r) /\ Reply(r, "200", m)
      BY <1>5 DEF Replay
    <2>2. /\ messages[m].chat = ChatOf(r) /\ status'[r] = "200" /\ answer'[r] = m
      BY <2>1, <1>2, <1>3 DEF Success
    <2>3. m \in Requests /\ Stored(m) /\ KeyOf(m) = KeyOf(r)
      BY WithKey DEF OutboundInv
    <2>4. messages[m].chat = ChatOf(m)
      <3>1. messages[m] = OutboundRow(ChatOf(m), KeyOf(m))
        BY <2>3 DEF OutboundInv, RowsKnown, RowOf
      <3> QED BY <3>1 DEF OutboundRow
    <2>5. ~Stored(r)
      BY <1>5 DEF Replay, OutboundInv, StepsKnown
    <2> QED BY <2>2, <2>3, <2>4, <2>5
  <1>6. CASE PublishAndReply(r)
    <2>1. Reply(r, SuccessCode(r), r) /\ fired' = fired \cup {r}
      BY <1>3, <1>6 DEF PublishAndReply, Success
    <2>2. Stored(r)
      BY <1>6 DEF PublishAndReply, OutboundInv, StepsKnown
    <2> QED BY <1>2, <2>1, <2>2 DEF SuccessCode
  <1> QED BY <1>4, <1>5, <1>6

LEMMA AnswersStep ==
  ASSUME OutboundInv, [Next]_vars
  PROVE  AnswersKnown'
  <1> SUFFICES ASSUME NEW r \in Requests, status'[r] \in Success
               PROVE  /\ answer'[r] \in Requests /\ messages'[answer'[r]] # NoRow
                      /\ KeyOf(answer'[r]) = KeyOf(r) /\ ChatOf(answer'[r]) = ChatOf(r)
                      /\ answer'[r] = r => r \in fired'
    BY AsksFixed DEF AnswersKnown, KeyOf, ChatOf, Stored
  <1>1. ASSUME NEW m \in Requests, Stored(m) PROVE messages'[m] # NoRow
    BY <1>1, StoredStep DEF OutboundInv, Stored
  <1>2. CASE status[r] \in Success /\ status'[r] = status[r] /\ answer'[r] = answer[r] /\ fired \subseteq fired'
    BY <1>1, <1>2 DEF OutboundInv, AnswersKnown
  <1>3. CASE Acts(r)
    BY <1>1, <1>3, SuccessAnswers
  <1>4. \/ Acts(r)
        \/ status[r] \in Success /\ status'[r] = status[r] /\ answer'[r] = answer[r] /\ fired \subseteq fired'
    <2>1. ASSUME NEW q \in Requests, Acts(q), q # r
          PROVE  status'[r] = status[r] /\ answer'[r] = answer[r] /\ fired \subseteq fired'
      BY <2>1, OthersFixed DEF OutboundInv
    <2>2. CASE Crash
      BY <2>2 DEF Crash, Success, OutboundInv, TypeOK
    <2> QED BY <2>1, <2>2, Actors DEF vars, Inbound, requestVars
  <1> QED BY <1>2, <1>3, <1>4

LEMMA CreatorsStep ==
  ASSUME OutboundInv, [Next]_vars
  PROVE  CreatorsKnown'
  <1>0. TypeOK /\ StoreTypeOK /\ UNCHANGED asks
    BY AsksFixed DEF OutboundInv, TypeOK
  <1>1. \A c \in Chats : Exists(c) => Exists(c)'
    <2>1. ASSUME NEW r \in Requests, Acts(r)
          PROVE  \/ UNCHANGED chats
                 \/ GetOrCreateChat(ChatOf(r), "SMS") \/ TouchChat(ChatOf(r), "SMS")
      BY <2>1
      DEF Acts, HandlerStep, storeVars, Arrive, FindChat, GoOn, Replay, Submit, SubmitFails,
          GetChat, Insert, Touch, Reread, PublishAndReply, StoreFails
    <2>2. "SMS" \in Services
      BY DEF Services
    <2> QED
      BY <1>0, <2>1, <2>2, ChatWriteType, Actors DEF Exists, vars, Inbound, Crash, storeVars
  <1>2. ASSUME NEW r \in Requests, Creator(r)'
        PROVE  \/ Creator(r)
               \/ GetChat(r) /\ ~Exists(ChatOf(r)) /\ Exists(ChatOf(r))'
    <2>1. CASE Acts(r)
      <3>1. CASE status'[r] = "201" /\ status[r] # "201"
        BY <2>1, <3>1, SuccessAnswers DEF Success, Creator
      <3>2. CASE created'[r] /\ ~created[r]
        <4>1. GetChat(r)
          <5>1. ASSUME NEW code, NEW m, Reply(r, code, m) PROVE FALSE
            BY <1>0, <3>2, <5>1 DEF Reply, TypeOK
          <5>2. Replay(r) => \E code, m : Reply(r, code, m)
            BY DEF Replay, Fails
          <5> QED
            BY <2>1, <3>2, <5>1, <5>2
            DEF Acts, HandlerStep, Arrive, FindChat, GoOn, Submit, SubmitFails, Insert, Touch,
                Reread, PublishAndReply, StoreFails, Keep, Fails
        <4>2. created'[r] = ~Exists(ChatOf(r)) /\ GetOrCreateChat(ChatOf(r), "SMS")
          BY <1>0, <4>1 DEF GetChat, TypeOK
        <4>3. Exists(ChatOf(r))'
          BY <1>0, <4>2, RowType DEF GetOrCreateChat, Exists, ChatOf, StoreTypeOK
        <4> QED BY <3>2, <4>1, <4>2, <4>3
      <3> QED BY <1>2, <3>1, <3>2 DEF Creator
    <2>2. ASSUME NEW q \in Requests, Acts(q), q # r PROVE Creator(r)
      BY <1>0, <1>2, <2>2, OthersFixed DEF Creator
    <2>3. CASE Crash
      BY <1>2, <2>3 DEF Crash, Creator
    <2> QED BY <1>2, <2>1, <2>2, <2>3, Actors DEF Creator, vars, Inbound, requestVars
  <1>3. \A q, r \in Requests : GetChat(q) /\ GetChat(r) => q = r
    BY <1>0 DEF GetChat, Advance, TypeOK
  <1>4. \A r \in Requests : ChatOf(r)' = ChatOf(r) /\ ChatOf(r) \in Chats
    BY <1>0, RowType DEF ChatOf
  <1>5. \A r \in Requests : Creator(r)' => Exists(ChatOf(r))'
    BY <1>0, <1>1, <1>2, <1>4 DEF OutboundInv, CreatorsKnown, Exists, ChatOf
  <1>6. \A q, r \in Requests : Creator(q)' /\ Creator(r)' /\ ChatOf(q) = ChatOf(r) => q = r
    BY <1>2, <1>3 DEF OutboundInv, CreatorsKnown
  <1> QED BY <1>4, <1>5, <1>6 DEF CreatorsKnown

(* OutboundInv is inductive. *)
LEMMA StepInv == OutboundInv /\ [Next]_vars => OutboundInv'
  BY TypeStep, RowsStep, StepsStep, KeysStep, AnswersStep, CreatorsStep, EarlierStep
  DEF OutboundInv

LEMMA AlwaysInv == Spec => []OutboundInv
  BY InitInv, StepInv, PTL DEF Spec

(* The variables always have their types. *)
THEOREM TypeInvariant == Spec => []TypeOK
  BY AlwaysInv, PTL DEF OutboundInv

(* What is recorded is not sent again: a retry that arrives after the row  *)
(* of an earlier request is there hands no SMS to Asterisk.                *)
THEOREM RecordedNeverResent == Spec => []RecordedNotResent
  <1>1. OutboundInv => RecordedNotResent
    BY DEF OutboundInv, EarlierKnown, RecordedNotResent, TypeOK
  <1> QED BY <1>1, AlwaysInv, PTL

(* Two successful answers to one key are one message of one chat, however  *)
(* the two requests raced.                                                 *)
THEOREM ReplaysAreFaithful == Spec => []ReplayFaithful
  <1>1. OutboundInv => ReplayFaithful
    <2> SUFFICES ASSUME OutboundInv, NEW q \in Requests, NEW r \in Requests, SameKey(q, r),
                        status[q] \in Success, status[r] \in Success
                 PROVE  answer[q] = answer[r] /\ ChatOf(q) = ChatOf(r)
      BY DEF ReplayFaithful
    <2>1. answer[q] = answer[r]
      BY DEF OutboundInv, AnswersKnown, KeysUnique, SameKey, Keyed
    <2> QED BY <2>1 DEF OutboundInv, AnswersKnown
  <1> QED BY <1>1, AlwaysInv, PTL

(* A 2xx answer stands for a row of the chat it names and an SMS that was  *)
(* handed over, and a fresh one for an event.                              *)
THEOREM AnswersAreBacked == Spec => []AnswerIsBacked
  <1>1. OutboundInv => AnswerIsBacked
    <2> SUFFICES ASSUME OutboundInv, NEW r \in Requests, status[r] \in Success
                 PROVE  /\ answer[r] \in Requests /\ Stored(answer[r]) /\ sent[answer[r]] = 1
                        /\ messages[answer[r]].chat = ChatOf(r)
                        /\ answer[r] = r => r \in fired
      BY DEF AnswerIsBacked
    <2>1. /\ answer[r] \in Requests /\ Stored(answer[r]) /\ ChatOf(answer[r]) = ChatOf(r)
          /\ answer[r] = r => r \in fired
      BY DEF OutboundInv, AnswersKnown
    <2>2. messages[answer[r]] = RowOf(answer[r]) /\ sent[answer[r]] = 1
      BY <2>1 DEF OutboundInv, RowsKnown
    <2> QED BY <2>1, <2>2 DEF RowOf, OutboundRow
  <1> QED BY <1>1, AlwaysInv, PTL

(* Of all requests for one new number at most one is told 201. *)
THEOREM OneCreatorOnly == Spec => []OneCreator
  <1>1. OutboundInv => OneCreator
    BY DEF OutboundInv, CreatorsKnown, Creator, OneCreator
  <1> QED BY <1>1, AlwaysInv, PTL

-------------------------------------------------------------------------------
(* The three ways to lose the trace of an SMS: a crash, a failure of the   *)
(* request, and a conflict at its INSERT.                                  *)
Excused(r) ==
  \/ faults' # faults /\ status'[r] \in {"500", "502", "cut"}
  \/ /\ status'[r] = "500" /\ KeyOf(r) # NoKey
     /\ \E q \in Requests \ {r} : /\ Stored(q) /\ KeyOf(q) = KeyOf(r)
                                  /\ Keyed(r) => q \notin before[r]

LEMMA UntracedStep ==
  ASSUME OutboundInv, [Next]_vars, NEW r \in Requests, ~Untraced(r), Untraced(r)'
  PROVE  Excused(r)
  <1>0. TypeOK
    BY DEF OutboundInv
  <1>1. step'[r] = "over" /\ sent'[r] = 1 /\ messages'[r] = NoRow
    BY DEF Untraced, Over, Stored
  <1>2. Fault => faults' # faults
    BY <1>0, OutboundAssumption DEF Fault, TypeOK
  <1>3. ~(step[r] = "over" /\ sent[r] = 1 /\ ~Stored(r))
    BY DEF Untraced, Over
  <1>4. CASE Crash
    <2>1. InFlight(r)
      BY <1>1, <1>3, <1>4 DEF Crash, storeVars, Stored
    <2>2. status'[r] = "cut"
      BY <1>4, <2>1 DEF Crash
    <2> QED BY <1>2, <1>4, <2>2 DEF Crash, Excused
  <1>5. CASE SubmitFails(r) \/ StoreFails(r)
    <2>1. Fault /\ (Fails(r, "500") \/ Fails(r, "502"))
      BY <1>5 DEF SubmitFails, StoreFails
    <2>2. status'[r] \in {"500", "502"}
      BY <1>0, <2>1 DEF Fails, Reply, TypeOK
    <2> QED BY <1>2, <2>1, <2>2 DEF Excused
  <1>6. CASE Acts(r) /\ ~SubmitFails(r) /\ ~StoreFails(r)
    <2>1. step[r] \notin {"unsent", "over"} /\ sent[r] = 1 /\ ~Stored(r)
      BY <1>0, <1>1, <1>3, <1>6, OwnStep DEF Same, Stored
    <2>2. step[r] = "insert"
      <3>1. step[r] \in {"chat", "insert"}
        BY <1>0, <2>1 DEF OutboundInv, StepsKnown, TypeOK, Steps
      <3>2. step[r] # "chat"
        <4>1. step[r] = "chat" => GetChat(r)
          BY <1>6
          DEF Acts, HandlerStep, Arrive, FindChat, GoOn, Replay, Submit, Insert, Touch, Reread,
              PublishAndReply
        <4> QED BY <1>0, <1>1, <4>1 DEF GetChat, Advance, TypeOK
      <3> QED BY <3>1, <3>2
    <2>3. Insert(r)
      BY <1>6, <2>2
      DEF Acts, HandlerStep, Arrive, FindChat, GoOn, Replay, Submit, GetChat, Touch, Reread,
          PublishAndReply
    <2>4. Conflicts(RowOf(r)) /\ Fails(r, "500")
      BY <1>0, <1>1, <2>3 DEF Insert, Keep, Advance, TypeOK
    <2>5. status'[r] = "500"
      BY <1>0, <2>4 DEF Fails, Reply, TypeOK
    <2>6. KeyOf(r) # NoKey
      BY <2>4, ConflictIsKey DEF OutboundInv
    <2>7. PICK q \in Requests : Stored(q) /\ KeyOf(q) = KeyOf(r)
      BY <2>4, ConflictIsKey DEF OutboundInv
    <2>8. Keyed(r) => q \notin before[r]
      BY <2>1, <2>7 DEF OutboundInv, EarlierKnown, SameKey, TypeOK
    <2> QED BY <2>1, <2>5, <2>6, <2>7, <2>8 DEF Excused
  <1>7. Crash \/ Acts(r)
    <2>1. ASSUME NEW q \in Requests, Acts(q), q # r
          PROVE  step[r] = "over" /\ sent[r] = 1 /\ ~Stored(r)
      BY <1>0, <1>1, <2>1, OthersFixed, StoredStep DEF Stored
    <2> QED BY <1>1, <1>3, <2>1, Actors DEF vars, Inbound, requestVars, Stored
  <1> QED BY <1>4, <1>5, <1>6, <1>7

(* Whatever the requests are and however they overlap: an SMS leaves no    *)
(* row only by a failure of its own request, a crash, or a row with its    *)
(* key, and its client is told of an error.                                *)
THEOREM LostOnlyByFailures == Spec => OnlyFailuresLose
  <1>1. OutboundInv /\ [Next]_vars
          => [\A r \in Requests : ~Untraced(r) /\ Untraced(r)' =>
                \/ faults' # faults /\ status'[r] \in {"500", "502", "cut"}
                \/ /\ status'[r] = "500" /\ KeyOf(r) # NoKey
                   /\ \E q \in Requests \ {r} : /\ Stored(q) /\ KeyOf(q) = KeyOf(r)
                                                /\ Keyed(r) => q \notin before[r]]_vars
    BY UntracedStep DEF Excused
  <1> QED BY <1>1, AlwaysInv, PTL DEF Spec, OnlyFailuresLose
===============================================================================
