--------------------------- MODULE ModemPollerProofs ---------------------------
(***************************************************************************)
(* What holds of ModemPoller for every set of messages, every size of the  *)
(* modem's memories and any number of faults.                              *)
(***************************************************************************)
EXTENDS ModemPoller, TLAPS

(***************************************************************************)
(* The inductive invariant: what poll_once has established about the       *)
(* message in hand at each of its steps, and what a row tells of the       *)
(* message it was made for.                                                *)
(***************************************************************************)
RowsKnown ==
  \A m \in MsgIds : Stored(m) =>
    IF m \in Pdus
    THEN Supported(m) /\ messages[m] = PollerRow(m)
    ELSE messages[m].service = "SMS" /\ messages[m].transport = NoKey

Capturing == {"fetch", "chat", "insert", "touch", "attach", "reread", "publish"}

PollerKnows ==
  \A i \in Indexes : Current(i) =>
    /\ pc \in Capturing \cup {"reselect", "erase"} => Kind[listing[i]] \notin {"SMS", "GARBLED"}
    /\ pc \in Capturing => Supported(listing[i])
    /\ pc \in {"fetch", "chat", "insert"} => ~Stored(listing[i])
    /\ pc \in {"touch", "attach", "reread", "publish"} => Stored(listing[i])
    /\ pc \in {"reselect", "erase"} => Stored(listing[i]) \/ ~Supported(listing[i])

HandlersKnow ==
  \A h \in Handlers : /\ Busy(h) => handler[h].chat \in Chats
                      /\ handler[h].step \in {"free", "chat", "insert"} => ~Stored(h)

CaptureInv == TypeOK /\ RowsKnown /\ PollerKnows /\ HandlersKnow

-------------------------------------------------------------------------------
(* The message in hand is one message. *)
LEMMA CurrentIsOne ==
  ASSUME TypeOK, NEW i \in Indexes, NEW j \in Indexes, Current(i), Current(j)
  PROVE  i = j /\ listing[i] \in Pdus
  BY PollerAssumption DEF TypeOK, Current, Indexes

(* A message has been seen exactly when it is stored under its own name. *)
LEMMA SeenIsStored ==
  ASSUME TypeOK, RowsKnown, NEW p \in Pdus
  PROVE  Seen(p) <=> Stored(p)
  <1>1. p \in MsgIds /\ NoKey # p
    BY PollerAssumption, StoreAssumption
  <1>2. ASSUME NEW m \in Pdus, m \in MsgIds, Stored(m) PROVE messages[m].transport = m
    <2>1. messages[m] = InboundRow(Sender[m], ServiceOf(m), m)
      BY <1>2 DEF RowsKnown, PollerRow
    <2> QED BY <2>1 DEF InboundRow
  <1>3. ASSUME NEW m \in MsgIds, m \notin Pdus, Stored(m) PROVE messages[m].transport = NoKey
    BY <1>3 DEF RowsKnown
  <1>4. Seen(p) <=> \E m \in MsgIds : Stored(m) /\ messages[m].transport = p
    BY DEF Seen, WithTransportKey
  <1> QED BY <1>1, <1>2, <1>3, <1>4

(* An inbound row has no idempotency key: only its transport key conflicts. *)
LEMMA ConflictIsStored ==
  ASSUME TypeOK, RowsKnown, NEW p \in Pdus
  PROVE  Conflicts(PollerRow(p)) <=> Stored(p)
  <1>1. Conflicts(PollerRow(p)) <=> WithTransportKey(p) # {}
    BY PollerAssumption, StoreAssumption DEF Conflicts, PollerRow, InboundRow
  <1> QED BY <1>1, SeenIsStored DEF Seen

LEMMA HandlerRowsFree ==
  ASSUME NEW c \in Chats
  PROVE  ~Conflicts(InboundRow(c, "SMS", NoKey))
  BY DEF Conflicts, InboundRow

(* Rows are well-typed. *)
LEMMA InboundRowType ==
  ASSUME NEW c \in Chats, NEW s \in Services, NEW t \in MsgIds \cup {NoKey}
  PROVE  InboundRow(c, s, t) \in Row
  BY DEF InboundRow, Row

LEMMA RowType ==
  ASSUME NEW p \in Pdus, Supported(p)
  PROVE  PollerRow(p) \in Row
  BY InboundRowType, PollerAssumption DEF Supported, PollerRow, ServiceOf, Services

-------------------------------------------------------------------------------
LEMMA InitInv == Init => CaptureInv
  <1> SUFFICES ASSUME Init PROVE CaptureInv
    OBVIOUS
  <1> USE PollerAssumption, StoreAssumption DEF Init, StoreInit
  <1>1. TypeOK
    BY DEF TypeOK, StoreTypeOK, PollerSteps, Storages, NoListing, FreeHandler, HandlerState, HandlerSteps,
           Places, Indexes
  <1>2. RowsKnown
    BY DEF RowsKnown, Stored
  <1>3. PollerKnows
    BY DEF PollerKnows, Current
  <1>4. HandlersKnow
    BY DEF HandlersKnow, Busy, FreeHandler, Stored
  <1> QED BY <1>1, <1>2, <1>3, <1>4 DEF CaptureInv


-------------------------------------------------------------------------------
(* Either write to a chat keeps the table's type. *)
LEMMA ChatWriteType ==
  ASSUME StoreTypeOK, NEW c, NEW s \in Services, GetOrCreateChat(c, s) \/ TouchChat(c, s)
  PROVE  chats' \in [Chats -> Services \cup {"absent"}]
  BY DEF StoreTypeOK, GetOrCreateChat, TouchChat, Services

LEMMA InsertType ==
  ASSUME StoreTypeOK, NEW m, NEW row \in Row, InsertMessage(m, row)
  PROVE  messages' \in [MsgIds -> Row \cup {NoRow}]
  BY DEF StoreTypeOK, InsertMessage

(* Each kind of step keeps the variables in their types. *)
LEMMA TypeStep ==
  ASSUME CaptureInv, [Next]_vars
  PROVE  TypeOK'
  <1>a. ASSUME NEW i \in Indexes, Current(i), pc \in Capturing
        PROVE  /\ listing[i] \in Pdus /\ listing[i] \in MsgIds
               /\ Sender[listing[i]] \in Chats
    BY <1>a, CurrentIsOne, PollerAssumption DEF CaptureInv, PollerKnows, Supported
  <1>b. ASSUME NEW p PROVE ServiceOf(p) \in Services
    BY DEF ServiceOf, Services
  <1>c. ASSUME NEW h \in Handlers, Busy(h) PROVE handler[h].chat \in Chats
    BY <1>c DEF CaptureInv, HandlersKnow
  <1> USE PollerAssumption, StoreAssumption
      DEF CaptureInv, TypeOK, StoreTypeOK, vars, modemVars, storeVars, pollVars,
          PollerSteps, Storages, Go, NextStorage, NextMessage, EndPoll, NoListing,
          Fault, NoFault
  <1>1. CASE UNCHANGED vars
    BY <1>1
  <1>2. CASE Wake \/ SelectStorage \/ SelectRefused \/ SelectTimesOut
    BY <1>2 DEF Wake, SelectStorage, SelectRefused, SelectTimesOut
  <1>3. CASE List
    BY <1>3 DEF List, Places
  <1>4. CASE ListFails \/ ScanEnds \/ PollerRaises
    BY <1>4 DEF ListFails, ScanEnds, PollerRaises
  <1>5. ASSUME NEW i \in Indexes,
               SkipSms(i) \/ AbortOnGarbled(i) \/ Drop(i) \/ StartCapture(i)
                 \/ FetchReturns(i) \/ FetchFails(i)
        PROVE  TypeOK'
    BY <1>5 DEF SkipSms, AbortOnGarbled, Drop, StartCapture, FetchReturns, FetchFails
  <1>6. ASSUME NEW i \in Indexes, PollerGetsChat(i) \/ PollerTouches(i) PROVE TypeOK'
    <2>1. chats' \in [Chats -> Services \cup {"absent"}]
      BY <1>6, <1>b, ChatWriteType DEF PollerGetsChat, PollerTouches
    <2> QED BY <1>6, <2>1 DEF PollerGetsChat, PollerTouches
  <1>7. ASSUME NEW i \in Indexes, PollerInserts(i) PROVE TypeOK'
    <2>1. PollerRow(listing[i]) \in Row
      BY <1>7, <1>a, <1>b, InboundRowType DEF PollerInserts, PollerRow, Capturing
    <2>2. messages' \in [MsgIds -> Row \cup {NoRow}]
      BY <1>7, <2>1, InsertType DEF PollerInserts
    <2> QED BY <1>7, <2>2 DEF PollerInserts
  <1>8. ASSUME NEW i \in Indexes, PollerAttaches(i) PROVE TypeOK'
    BY <1>8 DEF PollerAttaches, InsertAttachment
  <1>9. ASSUME NEW i \in Indexes, PollerRereads(i) \/ PollerPublishes(i) PROVE TypeOK'
    BY <1>9, <1>a DEF PollerRereads, PollerPublishes, Capturing
  <1>10. CASE Reselect \/ ReselectRefused \/ ReselectTimesOut
    BY <1>10 DEF Reselect, ReselectRefused, ReselectTimesOut
  <1>11. ASSUME NEW i \in Indexes, Erase(i) \/ EraseRefused(i) \/ EraseTimesOut(i)
         PROVE  TypeOK'
    <2>1. slots' \in [Places -> Pdus \cup {Empty}]
      BY <1>11 DEF Erase, EraseRefused, EraseTimesOut
    <2> QED BY <1>11, <2>1 DEF Erase, EraseRefused, EraseTimesOut
  <1>12. ASSUME NEW h \in Handlers, HandlerGetsChat(h) \/ HandlerTouches(h) PROVE TypeOK'
    <2>1. chats' \in [Chats -> Services \cup {"absent"}]
      BY <1>12, ChatWriteType DEF HandlerGetsChat, HandlerTouches, Services
    <2> QED BY <1>12, <2>1 DEF HandlerGetsChat, HandlerTouches, Advance, HandlerSteps, HandlerState
  <1>13. ASSUME NEW h \in Handlers, HandlerInserts(h) PROVE TypeOK'
    <2>1. InboundRow(handler[h].chat, "SMS", NoKey) \in Row
      BY <1>13, <1>c, InboundRowType DEF HandlerInserts, Busy, Services
    <2>2. messages' \in [MsgIds -> Row \cup {NoRow}]
      BY <1>13, <2>1, InsertType DEF HandlerInserts
    <2>3. handler' \in [Handlers -> HandlerState]
      BY <1>13 DEF HandlerInserts, Advance, HandlerSteps, HandlerState
    <2> QED BY <1>13, <2>2, <2>3 DEF HandlerInserts
  <1>14. ASSUME NEW h \in Handlers, HandlerRereads(h) \/ HandlerPublishes(h) PROVE TypeOK'
    <2>1. CASE HandlerRereads(h)
      <3>1. handler[h].chat \in Chats
        BY <2>1, <1>c DEF HandlerRereads, Busy
      <3>2. chats[handler[h].chat] \in Services \cup {"absent"}
        BY <3>1
      <3>3. handler' \in [Handlers -> HandlerState]
        BY <2>1, <3>1, <3>2 DEF HandlerRereads, HandlerState, HandlerSteps
      <3> QED BY <2>1, <3>3 DEF HandlerRereads
    <2>2. CASE HandlerPublishes(h)
      BY <2>2, PollerAssumption DEF HandlerPublishes, Advance, HandlerSteps, HandlerState
    <2> QED BY <1>14, <2>1, <2>2
  <1>15. ASSUME NEW x \in Places, NEW p \in Pdus, Arrive(x, p) PROVE TypeOK'
    BY <1>15 DEF Arrive
  <1>16. ASSUME NEW x \in Places, NEW h \in Handlers, DriverForwards(x, h) PROVE TypeOK'
    BY <1>16 DEF DriverForwards, HandlerSteps, HandlerState, Supported, FreeHandler
  <1>17. ASSUME NEW x \in Places, DriverLoses(x) PROVE TypeOK'
    BY <1>17 DEF DriverLoses
  <1>18. ASSUME NEW h \in Handlers, HandlerRaises(h) PROVE TypeOK'
    BY <1>18 DEF HandlerRaises, Advance, HandlerSteps, HandlerState
  <1>19. CASE Crash
    BY <1>19 DEF Crash, HandlerSteps, HandlerState
  <1> QED
    BY <1>1, <1>2, <1>3, <1>4, <1>5, <1>6, <1>7, <1>8, <1>9, <1>10, <1>11, <1>12, <1>13,
       <1>14, <1>15, <1>16, <1>17, <1>18, <1>19
    DEF Next, PollerStep, PollerFault, HandlerStep, Environment

-------------------------------------------------------------------------------
(* Rows are only ever added, by the two INSERTs, each under its own name. *)
LEMMA MessagesStep ==
  ASSUME [Next]_vars
  PROVE  \/ UNCHANGED messages
         \/ \E i \in Indexes : PollerInserts(i)
         \/ \E h \in Handlers : HandlerInserts(h)
  BY DEF Next, vars, PollerStep, PollerFault, HandlerStep, Environment, storeVars,
         Wake, SelectStorage, SelectRefused, SelectTimesOut, List, ListFails, ScanEnds,
         SkipSms, AbortOnGarbled, Drop, StartCapture, FetchReturns, FetchFails,
         PollerGetsChat, PollerTouches, PollerAttaches, PollerRereads, PollerPublishes,
         Reselect, ReselectRefused, ReselectTimesOut, Erase, EraseRefused, EraseTimesOut,
         HandlerGetsChat, HandlerTouches, HandlerRereads, HandlerPublishes,
         Arrive, DriverForwards, DriverLoses, PollerRaises, HandlerRaises, Crash

(* What the two INSERTs add. *)
LEMMA PollerInsertAdds ==
  ASSUME CaptureInv, NEW i \in Indexes, PollerInserts(i)
  PROVE  /\ listing[i] \in Pdus /\ Supported(listing[i])
         /\ pc' = "touch" /\ UNCHANGED <<scan, listing, todo>>
         /\ messages' = [messages EXCEPT ![listing[i]] = PollerRow(listing[i])]
  <1>1. pc = "insert" /\ Current(i)
    BY DEF PollerInserts
  <1>2. listing[i] \in Pdus /\ Supported(listing[i]) /\ ~Stored(listing[i])
    BY <1>1, CurrentIsOne DEF CaptureInv, PollerKnows, Capturing
  <1>3. ~Conflicts(PollerRow(listing[i]))
    BY <1>2, ConflictIsStored DEF CaptureInv
  <1> QED BY <1>2, <1>3 DEF PollerInserts, InsertMessage, Go

LEMMA HandlerInsertAdds ==
  ASSUME CaptureInv, NEW h \in Handlers, HandlerInserts(h)
  PROVE  /\ handler[h].chat \in Chats
         /\ messages' = [messages EXCEPT ![h] = InboundRow(handler[h].chat, "SMS", NoKey)]
  <1>1. handler[h].chat \in Chats
    BY DEF CaptureInv, HandlersKnow, HandlerInserts, Busy
  <1> QED BY <1>1, HandlerRowsFree DEF HandlerInserts, InsertMessage

(* A row is never lost, and a step that is not the poller's INSERT stores  *)
(* no message of the modem.                                                *)
LEMMA StoredStep ==
  ASSUME CaptureInv, [Next]_vars
  PROVE  /\ \A m \in MsgIds : Stored(m) => messages'[m] = messages[m]
         /\ (\A i \in Indexes : ~PollerInserts(i)) => \A p \in Pdus : Stored(p)' <=> Stored(p)
  <1>1. CASE UNCHANGED messages
    BY <1>1 DEF Stored
  <1>2. ASSUME NEW i \in Indexes, PollerInserts(i)
        PROVE  \A m \in MsgIds : Stored(m) => messages'[m] = messages[m]
    <2>1. ~Stored(listing[i])
      BY <1>2 DEF PollerInserts, CaptureInv, PollerKnows
    <2> QED BY <1>2, <2>1, PollerInsertAdds DEF CaptureInv, TypeOK, StoreTypeOK
  <1>3. ASSUME NEW h \in Handlers, HandlerInserts(h)
        PROVE  /\ \A m \in MsgIds : Stored(m) => messages'[m] = messages[m]
               /\ \A p \in Pdus : Stored(p)' <=> Stored(p)
    <2>1. ~Stored(h)
      BY <1>3 DEF HandlerInserts, CaptureInv, HandlersKnow
    <2>2. \A p \in Pdus : p \in MsgIds /\ p # h
      BY PollerAssumption
    <2> QED BY <1>3, <2>1, <2>2, HandlerInsertAdds DEF CaptureInv, TypeOK, StoreTypeOK, Stored
  <1> QED BY <1>1, <1>2, <1>3, MessagesStep

LEMMA RowsStep ==
  ASSUME CaptureInv, [Next]_vars
  PROVE  RowsKnown'
  <1>1. CASE UNCHANGED messages
    BY <1>1 DEF CaptureInv, RowsKnown, Stored, Supported, PollerRow, InboundRow, ServiceOf, IsMms
  <1>2. ASSUME NEW i \in Indexes, PollerInserts(i) PROVE RowsKnown'
    BY <1>2, PollerInsertAdds
    DEF CaptureInv, TypeOK, StoreTypeOK, RowsKnown, Stored, Supported, PollerRow, InboundRow,
        ServiceOf, IsMms
  <1>3. ASSUME NEW h \in Handlers, HandlerInserts(h) PROVE RowsKnown'
    <2>1. h \notin Pdus
      BY PollerAssumption
    <2> QED
      BY <1>3, <2>1, HandlerInsertAdds
      DEF CaptureInv, TypeOK, StoreTypeOK, RowsKnown, Stored, Supported, PollerRow, InboundRow,
          ServiceOf, IsMms
  <1> QED BY <1>1, <1>2, <1>3, MessagesStep

LEMMA AdvanceEffect ==
  ASSUME TypeOK, NEW h \in Handlers, NEW s, Advance(h, s)
  PROVE  /\ handler'[h].step = s /\ handler'[h].chat = handler[h].chat
         /\ \A g \in Handlers : g # h => handler'[g] = handler[g]
  <1>1. handler'[h] = [handler[h] EXCEPT !.step = s]
    BY DEF Advance, TypeOK
  <1>2. handler[h] \in HandlerState
    BY DEF TypeOK
  <1> QED BY <1>1, <1>2 DEF Advance, TypeOK, HandlerState

LEMMA HandlersStep ==
  ASSUME CaptureInv, [Next]_vars
  PROVE  HandlersKnow'
  <1> USE DEF HandlersKnow, Busy
  <1>1. CASE UNCHANGED <<handler, messages>>
    BY <1>1 DEF CaptureInv, Stored
  <1>2. ASSUME NEW i \in Indexes, PollerInserts(i) PROVE HandlersKnow'
    <2>1. \A h \in Handlers : h \in MsgIds /\ h \notin Pdus
      BY PollerAssumption
    <2> QED
      BY <1>2, <2>1, PollerInsertAdds
      DEF PollerInserts, CaptureInv, TypeOK, StoreTypeOK, Stored
  <1>3. ASSUME NEW h \in Handlers,
               HandlerGetsChat(h) \/ HandlerTouches(h) \/ HandlerRereads(h)
                 \/ HandlerPublishes(h) \/ HandlerRaises(h)
        PROVE  HandlersKnow'
    <2>1. /\ handler'[h].chat = handler[h].chat
          /\ \A g \in Handlers : g # h => handler'[g] = handler[g]
          /\ UNCHANGED messages
          /\ handler[h].step \notin {"free", "done"}
          /\ handler'[h].step \in {"free", "chat", "insert"} => handler[h].step = "chat"
      <3>1. CASE HandlerRereads(h)
        BY <3>1 DEF HandlerRereads, CaptureInv, TypeOK, storeVars
      <3>2. CASE HandlerGetsChat(h)
        BY <3>2, AdvanceEffect DEF HandlerGetsChat, CaptureInv
      <3>3. CASE HandlerTouches(h)
        BY <3>3, AdvanceEffect DEF HandlerTouches, CaptureInv
      <3>4. CASE HandlerPublishes(h)
        BY <3>4, AdvanceEffect DEF HandlerPublishes, CaptureInv, storeVars
      <3>5. CASE HandlerRaises(h)
        BY <3>5, AdvanceEffect DEF HandlerRaises, CaptureInv, storeVars
      <3> QED BY <1>3, <3>1, <3>2, <3>3, <3>4, <3>5
    <2> QED
      BY <2>1 DEF CaptureInv, Stored
  <1>4. ASSUME NEW h \in Handlers, HandlerInserts(h) PROVE HandlersKnow'
    <2>1. /\ Advance(h, "touch")
          /\ \A g \in Handlers : g \in MsgIds /\ (g # h => messages'[g] = messages[g])
      BY <1>4, HandlerInsertAdds, PollerAssumption
      DEF HandlerInserts, CaptureInv, TypeOK, StoreTypeOK
    <2> QED
      BY <1>4, <2>1, AdvanceEffect DEF HandlerInserts, CaptureInv, Stored
  <1>5. ASSUME NEW x \in Places, NEW h \in Handlers, DriverForwards(x, h) PROVE HandlersKnow'
    BY <1>5
    DEF DriverForwards, Supported, FreeHandler, CaptureInv, TypeOK, Stored, storeVars
  <1>6. CASE Crash
    BY <1>6 DEF Crash, CaptureInv, TypeOK, Stored, storeVars
  <1>7. \/ UNCHANGED <<handler, messages>>
        \/ \E i \in Indexes : PollerInserts(i)
        \/ \E h \in Handlers :
             \/ HandlerGetsChat(h) \/ HandlerTouches(h) \/ HandlerRereads(h)
             \/ HandlerPublishes(h) \/ HandlerRaises(h) \/ HandlerInserts(h)
        \/ \E x \in Places, h \in Handlers : DriverForwards(x, h)
        \/ Crash
    BY DEF Next, vars, PollerStep, PollerFault, HandlerStep, Environment, storeVars,
           Wake, SelectStorage, SelectRefused, SelectTimesOut, List, ListFails, ScanEnds,
           SkipSms, AbortOnGarbled, Drop, StartCapture, FetchReturns, FetchFails,
           PollerGetsChat, PollerTouches, PollerAttaches, PollerRereads, PollerPublishes,
           Reselect, ReselectRefused, ReselectTimesOut, Erase, EraseRefused, EraseTimesOut,
           Arrive, DriverLoses, PollerRaises
  <1> QED BY <1>1, <1>2, <1>3, <1>4, <1>5, <1>6, <1>7

-------------------------------------------------------------------------------
(* The poller's knowledge of the message in hand survives each step. *)
LEMMA PollerKnowsStep ==
  ASSUME CaptureInv, [Next]_vars
  PROVE  PollerKnows'
  <1> DEFINE Elsewhere == pc' \in {"wait", "select", "list", "scan"}
             Idles == UNCHANGED pollVars /\ \A i \in Indexes : ~PollerInserts(i)
  <1>0. \A i, j \in Indexes : Current(i) /\ Current(j) => i = j /\ listing[i] \in Pdus
    BY CurrentIsOne DEF CaptureInv
  <1>1. CASE Elsewhere
    BY <1>1 DEF PollerKnows, Capturing
  <1>2. CASE Idles
    <2>1. \A p \in Pdus : Stored(p)' <=> Stored(p)
      BY <1>2, StoredStep
    <2> QED BY <1>2, <2>1, <1>0 DEF CaptureInv, PollerKnows, Current, pollVars, Supported
  <1>3. ASSUME NEW i \in Indexes, Drop(i) PROVE PollerKnows'
    <2>1. Stored(listing[i]) \/ ~Supported(listing[i])
      BY <1>3, <1>0, SeenIsStored DEF Drop, CaptureInv
    <2> QED
      BY <1>3, <2>1, <1>0
      DEF Drop, Go, PollerKnows, Current, Stored, storeVars, Supported, Capturing
  <1>4. ASSUME NEW i \in Indexes, StartCapture(i) PROVE PollerKnows'
    <2>1. ~Stored(listing[i])
      BY <1>4, <1>0, SeenIsStored DEF StartCapture, CaptureInv
    <2> QED
      BY <1>4, <2>1, <1>0
      DEF StartCapture, Go, PollerKnows, Current, Stored, storeVars, Supported, Capturing
  <1>5. ASSUME NEW i \in Indexes, PollerInserts(i) PROVE PollerKnows'
    <2>1. /\ pc = "insert" /\ pc' = "touch" /\ listing[i] \in Pdus /\ listing[i] \in MsgIds
          /\ UNCHANGED <<listing, todo>> /\ Current(i)
          /\ messages' = [messages EXCEPT ![listing[i]] = PollerRow(listing[i])]
      BY <1>5, PollerInsertAdds, PollerAssumption DEF PollerInserts
    <2>2. PollerRow(listing[i]) # NoRow
      BY <1>5, PollerInsertAdds, RowType, StoreAssumption
    <2>3. Stored(listing[i])'
      BY <2>1, <2>2 DEF Stored, CaptureInv, TypeOK, StoreTypeOK
    <2> QED
      BY <2>1, <2>3, <1>0 DEF CaptureInv, PollerKnows, Current, Supported, Capturing
  <1>6. ASSUME UNCHANGED <<scan, listing, todo, messages>>,
               \/ pc \in {"fetch", "chat"} /\ pc' \in {"chat", "insert"}
               \/ /\ pc \in {"touch", "attach", "reread", "publish"}
                  /\ pc' \in {"attach", "reread", "publish", "reselect"}
               \/ pc = "reselect" /\ pc' = "erase"
        PROVE  PollerKnows'
    BY <1>6 DEF CaptureInv, PollerKnows, Current, Stored, Supported, Capturing
  <1>7. ASSUME NEW i \in Indexes,
               FetchReturns(i) \/ PollerGetsChat(i) \/ PollerTouches(i) \/ PollerAttaches(i)
                 \/ PollerRereads(i) \/ PollerPublishes(i)
        PROVE  PollerKnows'
    BY <1>7, <1>1, <1>6
    DEF FetchReturns, PollerGetsChat, PollerTouches, PollerAttaches, PollerRereads,
        PollerPublishes, Go, EndPoll, storeVars
  <1>8. CASE Reselect \/ ReselectRefused
    BY <1>8, <1>6 DEF Reselect, ReselectRefused, Go, storeVars
  <1>9. \/ Elsewhere \/ Idles \/ Reselect \/ ReselectRefused
        \/ \E i \in Indexes :
             \/ Drop(i) \/ StartCapture(i) \/ PollerInserts(i) \/ FetchReturns(i)
             \/ PollerGetsChat(i) \/ PollerTouches(i) \/ PollerAttaches(i)
             \/ PollerRereads(i) \/ PollerPublishes(i)
    BY DEF Next, vars, pollVars, PollerStep, PollerFault, HandlerStep, Environment, Go, EndPoll,
           NextMessage, NextStorage, Wake, SelectStorage, SelectRefused, SelectTimesOut, List,
           ListFails, ScanEnds, SkipSms, AbortOnGarbled, FetchFails, ReselectTimesOut, Erase,
           EraseRefused, EraseTimesOut, HandlerGetsChat, HandlerInserts, HandlerTouches,
           HandlerRereads, HandlerPublishes, Arrive, DriverForwards, DriverLoses, PollerRaises,
           HandlerRaises, Crash
  <1> QED BY <1>1, <1>2, <1>3, <1>4, <1>5, <1>7, <1>8, <1>9

(* CaptureInv is inductive. *)
LEMMA StepInv == CaptureInv /\ [Next]_vars => CaptureInv'
  BY TypeStep, RowsStep, PollerKnowsStep, HandlersStep DEF CaptureInv

LEMMA AlwaysInv == Spec => []CaptureInv
  BY InitInv, StepInv, PTL DEF Spec

(* The variables always have their types. *)
THEOREM TypeInvariant == Spec => []TypeOK
  BY AlwaysInv, PTL DEF CaptureInv

(* The INSERT of poll_once never meets a row with its transport key: what *)
(* the lookup saw before the download is still so after it.                *)
THEOREM CaptureNeverConflicts == Spec => []NeverConflicts
  <1>1. CaptureInv => NeverConflicts
    BY ConflictIsStored, CurrentIsOne DEF CaptureInv, PollerKnows, NeverConflicts
  <1> QED BY <1>1, AlwaysInv, PTL

-------------------------------------------------------------------------------
(* Chats are written by create_inbound_message only. *)
LEMMA ChatsStep ==
  ASSUME [Next]_vars
  PROVE  \/ UNCHANGED chats
         \/ \E i \in Indexes : PollerGetsChat(i) \/ PollerTouches(i)
         \/ \E h \in Handlers : HandlerGetsChat(h) \/ HandlerTouches(h)
  BY DEF Next, vars, PollerStep, PollerFault, HandlerStep, Environment, storeVars,
         Wake, SelectStorage, SelectRefused, SelectTimesOut, List, ListFails, ScanEnds,
         SkipSms, AbortOnGarbled, Drop, StartCapture, FetchReturns, FetchFails,
         PollerInserts, PollerAttaches, PollerRereads, PollerPublishes,
         Reselect, ReselectRefused, ReselectTimesOut, Erase, EraseRefused, EraseTimesOut,
         HandlerInserts, HandlerRereads, HandlerPublishes,
         Arrive, DriverForwards, DriverLoses, PollerRaises, HandlerRaises, Crash

NoRegress == \A c \in Chats : /\ chats[c] = "MMS" => chats'[c] = "MMS"
                              /\ chats[c] # "absent" => chats'[c] # "absent"

LEMMA ChatWriteNoRegress ==
  ASSUME StoreTypeOK, NEW c, NEW s \in Services, GetOrCreateChat(c, s) \/ TouchChat(c, s)
  PROVE  NoRegress
  BY DEF StoreTypeOK, GetOrCreateChat, TouchChat, Services, NoRegress

LEMMA NoRegressStep ==
  ASSUME CaptureInv, [Next]_vars
  PROVE  NoRegress
  <1>1. StoreTypeOK
    BY DEF CaptureInv, TypeOK
  <1>2. CASE UNCHANGED chats
    BY <1>2 DEF NoRegress
  <1>3. ASSUME NEW i \in Indexes, PollerGetsChat(i) \/ PollerTouches(i) PROVE NoRegress
    <2>1. ServiceOf(listing[i]) \in Services
      BY DEF ServiceOf, Services
    <2> QED BY <1>1, <1>3, <2>1, ChatWriteNoRegress DEF PollerGetsChat, PollerTouches
  <1>4. ASSUME NEW h \in Handlers, HandlerGetsChat(h) \/ HandlerTouches(h) PROVE NoRegress
    BY <1>1, <1>4, ChatWriteNoRegress DEF HandlerGetsChat, HandlerTouches, Services
  <1> QED BY <1>2, <1>3, <1>4, ChatsStep

(* A chat that has become an MMS chat stays one, and none vanishes. *)
THEOREM ChatsOnlyGainMms == Spec => ChatsNeverRegress
  <1>1. CaptureInv /\ [Next]_vars => [NoRegress]_vars
    BY NoRegressStep
  <1>2. CaptureInv /\ [Next]_vars =>
          [\A c \in Chats : /\ chats[c] = "MMS" => chats'[c] = "MMS"
                            /\ chats[c] # "absent" => chats'[c] # "absent"]_vars
    BY <1>1 DEF NoRegress
  <1> QED BY <1>2, AlwaysInv, PTL DEF Spec, ChatsNeverRegress

-------------------------------------------------------------------------------
(***************************************************************************)
(* MmsChatMarked is not inductive: the INSERT of an MMS keeps it only      *)
(* because get_or_create_chat has marked the chat before.                  *)
(***************************************************************************)
MarkedBeforeInsert ==
  \A i \in Indexes : pc = "insert" /\ Current(i) /\ IsMms(listing[i])
                       => chats[Sender[listing[i]]] = "MMS"

MarkInv == MmsChatMarked /\ MarkedBeforeInsert

LEMMA MarkStep ==
  ASSUME CaptureInv, MarkInv, [Next]_vars
  PROVE  MarkInv'
  <1>0. NoRegress
    BY NoRegressStep
  <1>1. MmsChatMarked'
    <2>1. CASE UNCHANGED messages
      BY <2>1, <1>0
      DEF MarkInv, MmsChatMarked, NoRegress, Stored, CaptureInv, TypeOK, StoreTypeOK, Row
    <2>2. ASSUME NEW i \in Indexes, PollerInserts(i) PROVE MmsChatMarked'
      <3>1. /\ UNCHANGED chats /\ pc = "insert" /\ Current(i)
            /\ messages' = [messages EXCEPT ![listing[i]] = PollerRow(listing[i])]
        BY <2>2, PollerInsertAdds DEF PollerInserts
      <3>2. PollerRow(listing[i]).service = "MMS" => chats[PollerRow(listing[i]).chat] = "MMS"
        BY <3>1 DEF MarkInv, MarkedBeforeInsert, PollerRow, InboundRow, ServiceOf
      <3> QED
        BY <3>1, <3>2
        DEF MarkInv, MmsChatMarked, Stored, CaptureInv, TypeOK, StoreTypeOK
    <2>3. ASSUME NEW h \in Handlers, HandlerInserts(h) PROVE MmsChatMarked'
      BY <2>3, HandlerInsertAdds
      DEF HandlerInserts, MarkInv, MmsChatMarked, Stored, CaptureInv, TypeOK, StoreTypeOK,
          InboundRow
    <2> QED BY <2>1, <2>2, <2>3, MessagesStep
  <1>2. MarkedBeforeInsert'
    <2>1. CASE pc' # "insert"
      BY <2>1 DEF MarkedBeforeInsert
    <2>2. CASE pc = "insert" /\ UNCHANGED <<pc, listing, todo>>
      <3>1. \A i \in Indexes : pc = "insert" /\ Current(i) => Sender[listing[i]] \in Chats
        BY DEF CaptureInv, PollerKnows, Capturing, Supported
      <3> QED
        BY <2>2, <3>1, <1>0 DEF MarkInv, MarkedBeforeInsert, Current, NoRegress, IsMms
    <2>3. ASSUME NEW i \in Indexes, PollerGetsChat(i) PROVE MarkedBeforeInsert'
      <3>1. /\ UNCHANGED <<listing, todo>> /\ Current(i)
            /\ chats' = [chats EXCEPT ![Sender[listing[i]]] =
                           IF @ = "absent" \/ ServiceOf(listing[i]) = "MMS"
                           THEN ServiceOf(listing[i]) ELSE @]
            /\ Sender[listing[i]] \in Chats
        BY <2>3
        DEF PollerGetsChat, GetOrCreateChat, Go, CaptureInv, PollerKnows, Capturing, Supported
      <3>2. \A j \in Indexes : Current(j)' => j = i
        BY <3>1, CurrentIsOne DEF Current, CaptureInv
      <3>3. IsMms(listing[i]) => chats'[Sender[listing[i]]] = "MMS"
        BY <3>1 DEF ServiceOf, CaptureInv, TypeOK, StoreTypeOK
      <3> QED BY <3>1, <3>2, <3>3 DEF MarkedBeforeInsert, IsMms
    <2>4. \/ pc' # "insert"
          \/ pc = "insert" /\ UNCHANGED <<pc, listing, todo>>
          \/ \E i \in Indexes : PollerGetsChat(i)
      BY DEF Next, vars, pollVars, PollerStep, PollerFault, HandlerStep, Environment, Go, EndPoll,
             NextMessage, NextStorage, Wake, SelectStorage, SelectRefused, SelectTimesOut, List,
             ListFails, ScanEnds, SkipSms, AbortOnGarbled, Drop, StartCapture, FetchReturns,
             FetchFails, PollerInserts, PollerTouches, PollerAttaches, PollerRereads,
             PollerPublishes, Reselect, ReselectRefused, ReselectTimesOut, Erase, EraseRefused,
             EraseTimesOut, HandlerGetsChat, HandlerInserts, HandlerTouches, HandlerRereads,
             HandlerPublishes, Arrive, DriverForwards, DriverLoses, PollerRaises,
             HandlerRaises, Crash
    <2> QED BY <2>1, <2>2, <2>3, <2>4
  <1> QED BY <1>1, <1>2 DEF MarkInv

(* The chat of a stored MMS is an MMS chat in every state, also between   *)
(* the statements of create_inbound_message and after a crash there.       *)
THEOREM MmsChatAlwaysMarked == Spec => []MmsChatMarked
  <1>1. Init => MarkInv
    BY DEF Init, StoreInit, MarkInv, MmsChatMarked, MarkedBeforeInsert, Stored
  <1>2. CaptureInv /\ MarkInv /\ [Next]_vars => MarkInv'
    BY MarkStep
  <1>3. MarkInv => MmsChatMarked
    BY DEF MarkInv
  <1> QED BY <1>1, <1>2, <1>3, AlwaysInv, PTL DEF Spec

-------------------------------------------------------------------------------
(***************************************************************************)
(* The mailbox.  What makes deleting by index safe: AT+CPMS is in force    *)
(* when the listing is read and when the index is deleted, and nobody but  *)
(* the poller takes the messages it deletes, so what was listed at a place *)
(* still lies there.  Both are assumptions about the modem and the driver, *)
(* and neither holds by itself: see the runs.                              *)
(***************************************************************************)
SelectIsObeyed == ~CpmsMayFail

DriverTakesOtherKinds == DriverReads \cap {"MMS", "BINARY", "MALFORMED"} = {}

ListingInv == /\ pc \in {"wait", "select", "list"} => todo = {}
              /\ pc \in {"list", "erase"} => cpms = scan
              /\ ListedWhereLabelled

LEMMA ListingStep ==
  ASSUME SelectIsObeyed, CaptureInv, ListingInv, [Next]_vars
  PROVE  ListingInv'
  <1> USE DEF ListingInv, ListedWhereLabelled
  <1>1. CASE UNCHANGED <<slots, cpms, pollVars>>
    BY <1>1 DEF pollVars
  <1>2. CASE todo' = {} /\ pc' \in {"wait", "select"}
    BY <1>2
  <1>3. CASE List
    BY <1>3 DEF List, modemVars, CaptureInv, TypeOK
  <1>4. CASE SelectStorage \/ Reselect \/ Wake
    BY <1>4 DEF SelectStorage, Reselect, Wake, Go, modemVars, CaptureInv, TypeOK
  <1>5. CASE SelectRefused \/ ReselectRefused
    BY <1>5 DEF SelectRefused, ReselectRefused, SelectIsObeyed
  <1>6. CASE /\ UNCHANGED <<slots, cpms, scan, listing>> /\ todo' \subseteq todo
             /\ pc \notin {"wait", "select", "list"}
             /\ pc' \in PollerSteps \ {"wait", "select", "list", "erase"}
    BY <1>6
  <1>7. ASSUME NEW i \in Indexes, Erase(i) PROVE ListingInv'
    <2>1. /\ UNCHANGED <<cpms, scan, listing>> /\ todo' = todo \ {i} /\ pc' = "scan"
          /\ slots' = [slots EXCEPT ![<<cpms, i>>] = Empty]
      BY <1>7 DEF Erase, NextMessage
    <2>2. \A j \in Indexes \ {i} : slots'[<<scan, j>>] = slots[<<scan, j>>]
      BY <2>1 DEF CaptureInv, TypeOK, Places
    <2> QED BY <2>1, <2>2 DEF CaptureInv, TypeOK
  <1>8. ASSUME NEW x \in Places, NEW p \in Pdus, Arrive(x, p) PROVE ListingInv'
    <2>1. /\ UNCHANGED <<cpms, pollVars>> /\ slots[x] = Empty
          /\ slots' = [slots EXCEPT ![x] = p]
      BY <1>8 DEF Arrive
    <2>2. \A j \in todo : Kind[listing[j]] \notin DriverReads => <<scan, j>> # x
      BY <2>1, PollerAssumption DEF CaptureInv, TypeOK
    <2> QED BY <2>1, <2>2 DEF pollVars, CaptureInv, TypeOK
  <1>9. ASSUME NEW x \in Places, slots[x] # Empty, Kind[slots[x]] \in DriverReads,
               slots' = [slots EXCEPT ![x] = Empty], UNCHANGED <<cpms, pollVars>>
        PROVE  ListingInv'
    <2>1. \A j \in todo : Kind[listing[j]] \notin DriverReads => <<scan, j>> # x
      BY <1>9
    <2> QED BY <1>9, <2>1 DEF pollVars, CaptureInv, TypeOK
  <1>10. \/ UNCHANGED <<slots, cpms, pollVars>>
         \/ \E x \in Places, p \in Pdus : Arrive(x, p)
         \/ \E x \in Places : /\ slots[x] # Empty /\ Kind[slots[x]] \in DriverReads
                              /\ slots' = [slots EXCEPT ![x] = Empty]
                              /\ UNCHANGED <<cpms, pollVars>>
         \/ PollerStep \/ PollerFault \/ Crash
    BY DEF Next, vars, modemVars, pollVars, HandlerStep, Environment, HandlerGetsChat, HandlerInserts,
           HandlerTouches, HandlerRereads, HandlerPublishes, DriverForwards, DriverLoses,
           HandlerRaises
  <1>11. CASE PollerStep
    <2>1. ASSUME NEW i \in Indexes,
                 SkipSms(i) \/ AbortOnGarbled(i) \/ Drop(i) \/ StartCapture(i)
                   \/ FetchReturns(i) \/ PollerGetsChat(i) \/ PollerInserts(i)
                   \/ PollerTouches(i) \/ PollerAttaches(i) \/ PollerRereads(i)
                   \/ PollerPublishes(i)
          PROVE  ListingInv'
      BY <2>1, <1>2, <1>6
      DEF SkipSms, AbortOnGarbled, Drop, StartCapture, FetchReturns, PollerGetsChat,
          PollerInserts, PollerTouches, PollerAttaches, PollerRereads, PollerPublishes,
          Go, NextMessage, EndPoll, modemVars, PollerSteps
    <2>2. CASE ScanEnds
      BY <2>2, <1>2 DEF ScanEnds, NextStorage, EndPoll
    <2> QED BY <1>11, <1>3, <1>4, <1>7, <2>1, <2>2 DEF PollerStep
  <1>12. CASE PollerFault
    <2>1. CASE SelectTimesOut \/ ListFails \/ ReselectTimesOut \/ PollerRaises
      BY <2>1, <1>2
      DEF SelectTimesOut, ListFails, ReselectTimesOut, PollerRaises, NextStorage, EndPoll
    <2>2. ASSUME NEW i \in Indexes, FetchFails(i) \/ EraseRefused(i) \/ EraseTimesOut(i)
          PROVE  ListingInv'
      BY <2>2, <1>2, <1>6
      DEF FetchFails, EraseRefused, EraseTimesOut, NextMessage, EndPoll, modemVars, PollerSteps
    <2> QED BY <1>12, <1>5, <2>1, <2>2 DEF PollerFault
  <1>13. CASE Crash
    BY <1>13, <1>2 DEF Crash, EndPoll
  <1> QED BY <1>1, <1>8, <1>9, <1>10, <1>11, <1>12, <1>13

(* With a modem that obeys AT+CPMS every listed message, but for those the *)
(* driver reads, lies where the listing says until it is dealt with.       *)
THEOREM ListingStaysTrue ==
  ASSUME SelectIsObeyed
  PROVE  Spec => []ListedWhereLabelled
  <1>1. Init => ListingInv
    BY DEF Init, ListingInv, ListedWhereLabelled
  <1>2. CaptureInv /\ ListingInv /\ [Next]_vars => ListingInv'
    BY ListingStep
  <1>3. ListingInv => ListedWhereLabelled
    BY DEF ListingInv
  <1> QED BY <1>1, <1>2, <1>3, AlwaysInv, PTL DEF Spec

-------------------------------------------------------------------------------
(* Every step of the poller, the driver and the network is one of the      *)
(* mailbox, or none.                                                       *)
LEMMA MailboxStep ==
  ASSUME DriverTakesOtherKinds, CaptureInv, ListingInv, [Next]_vars
  PROVE  [Mailbox!Next]_(Mailbox!mailboxVars)
  <1>1. ASSUME UNCHANGED <<slots, messages>> PROVE UNCHANGED Mailbox!mailboxVars
    BY <1>1 DEF Stored, Mailbox!mailboxVars
  <1>2. ASSUME NEW i \in Indexes, PollerInserts(i)
        PROVE  listing[i] \in Pdus /\ Mailbox!Capture(listing[i])
    <2>1. /\ pc = "insert" /\ Current(i) /\ UNCHANGED slots
          /\ listing[i] \in Pdus /\ Supported(listing[i])
          /\ messages' = [messages EXCEPT ![listing[i]] = PollerRow(listing[i])]
      BY <1>2, PollerInsertAdds DEF PollerInserts, modemVars
    <2>2. ~Stored(listing[i]) /\ Kind[listing[i]] \notin {"SMS", "GARBLED"}
      BY <2>1 DEF CaptureInv, PollerKnows, Capturing
    <2>3. slots[<<scan, i>>] = listing[i] /\ <<scan, i>> \in Places
      BY <2>1, <2>2, PollerAssumption
      DEF ListingInv, ListedWhereLabelled, DriverTakesOtherKinds, Kinds, Current, Places,
          CaptureInv, TypeOK
    <2>4. PollerRow(listing[i]) # NoRow /\ listing[i] \in MsgIds
      BY <2>1, RowType, StoreAssumption, PollerAssumption
    <2>5. \A p \in Pdus : Stored(p)' <=> Stored(p) \/ p = listing[i]
      BY <2>1, <2>4, PollerAssumption DEF Stored, CaptureInv, TypeOK, StoreTypeOK
    <2> QED BY <2>1, <2>2, <2>3, <2>5 DEF Mailbox!Capture
  <1>3. ASSUME NEW x \in Places, NEW p \in Pdus, Arrive(x, p)
        PROVE  Mailbox!Deliver(x, p)
    BY <1>3 DEF Arrive, storeVars, Stored, Mailbox!Deliver
  <1>4. ASSUME NEW x \in Places, DriverLoses(x) \/ \E h \in Handlers : DriverForwards(x, h)
        PROVE  Mailbox!Discard(x)
    BY <1>4, PollerAssumption DEF DriverLoses, DriverForwards, storeVars, Stored, Keep, Mailbox!Discard
  <1>5. ASSUME NEW i \in Indexes, Erase(i) \/ EraseTimesOut(i)
        PROVE  \/ <<cpms, i>> \in Places /\ Mailbox!Discard(<<cpms, i>>)
               \/ UNCHANGED <<slots, messages>>
    <2>1. /\ pc = "erase" /\ Current(i) /\ UNCHANGED messages
          /\ slots' \in {slots, [slots EXCEPT ![<<cpms, i>>] = Empty]}
      BY <1>5 DEF Erase, EraseTimesOut, storeVars
    <2>2. /\ Kind[listing[i]] \notin {"SMS", "GARBLED"} /\ listing[i] \in Pdus
          /\ Stored(listing[i]) \/ ~Supported(listing[i])
      BY <2>1, CurrentIsOne DEF CaptureInv, PollerKnows
    <2>3. slots[<<cpms, i>>] = listing[i]
      BY <2>1, <2>2, PollerAssumption
      DEF ListingInv, ListedWhereLabelled, DriverTakesOtherKinds, Kinds, Current
    <2>4. <<cpms, i>> \in Places
      BY DEF Places, CaptureInv, TypeOK
    <2> QED BY <2>1, <2>2, <2>3, <2>4 DEF Keep, Stored, Mailbox!Discard
  <1>6. ASSUME NEW h \in Handlers, HandlerInserts(h)
        PROVE  UNCHANGED Mailbox!mailboxVars
    <2>1. UNCHANGED slots /\ \A p \in Pdus : Stored(p)' <=> Stored(p)
      <3>1. \A p \in Pdus : p \in MsgIds /\ p # h
        BY PollerAssumption
      <3> QED
        BY <1>6, <3>1, HandlerInsertAdds
        DEF HandlerInserts, modemVars, Stored, CaptureInv, TypeOK, StoreTypeOK
    <2> QED BY <2>1 DEF Mailbox!mailboxVars
  <1>7. \/ UNCHANGED <<slots, messages>>
        \/ \E i \in Indexes : PollerInserts(i) \/ Erase(i) \/ EraseTimesOut(i)
        \/ \E x \in Places, p \in Pdus : Arrive(x, p)
        \/ \E x \in Places : DriverLoses(x) \/ \E h \in Handlers : DriverForwards(x, h)
        \/ \E h \in Handlers : HandlerInserts(h)
    BY DEF Next, vars, modemVars, storeVars, PollerStep, PollerFault, HandlerStep, Environment,
           Wake, SelectStorage, SelectRefused, SelectTimesOut, List, ListFails, ScanEnds,
           SkipSms, AbortOnGarbled, Drop, StartCapture, FetchReturns, FetchFails,
           PollerGetsChat, PollerTouches, PollerAttaches, PollerRereads, PollerPublishes,
           Reselect, ReselectRefused, ReselectTimesOut, EraseRefused,
           HandlerGetsChat, HandlerTouches, HandlerRereads, HandlerPublishes,
           PollerRaises, HandlerRaises, Crash
  <1> QED BY <1>1, <1>2, <1>3, <1>4, <1>5, <1>6, <1>7 DEF Mailbox!Next

(* Inbound capture keeps the mailbox's promise whatever fails and crashes: *)
(* no message of the poller's leaves the modem unless it is stored or its  *)
(* sender is unsupported, and none is stored twice.                        *)
THEOREM CaptureImplementsMailbox ==
  ASSUME SelectIsObeyed, DriverTakesOtherKinds
  PROVE  Spec => RefinesMailbox
  <1>1. Init => Mailbox!Init
    <2>1. ASSUME Init, NEW p \in Pdus PROVE ~Stored(p)
      BY <2>1, PollerAssumption DEF Init, StoreInit, Stored
    <2> QED BY <2>1 DEF Init, Mailbox!Init
  <1>0. Init => ListingInv
    BY DEF Init, ListingInv, ListedWhereLabelled
  <1>2. CaptureInv /\ ListingInv /\ [Next]_vars => ListingInv'
    BY ListingStep
  <1>3. CaptureInv /\ ListingInv /\ [Next]_vars => [Mailbox!Next]_(Mailbox!mailboxVars)
    BY MailboxStep
  <1> QED
    BY <1>0, <1>1, <1>2, <1>3, AlwaysInv, PTL DEF Spec, RefinesMailbox, Mailbox!Spec

-------------------------------------------------------------------------------
(***************************************************************************)
(* Events.  A row gets its attachments one by one, never more than the     *)
(* message has, and the poller is past "attach" only when it has them all; *)
(* an event is only published of an MMS, whose chat MmsChatMarked knows.   *)
(***************************************************************************)
AttachmentsKnown ==
  /\ \A p \in Pdus : /\ ~Stored(p) => attachments[p] = 0
                    /\ attachments[p] <= PartsOf(p)
  /\ \A i \in Indexes : Current(i) /\ pc \in {"reread", "publish"}
                          => attachments[listing[i]] = PartsOf(listing[i])

FiredKnown ==
  \A p \in Pdus \cap fired : Stored(p) /\ IsMms(p) /\ attachments[p] = PartsOf(p)

EventInv == AttachmentsKnown /\ FiredKnown

LEMMA PartsType ==
  ASSUME NEW p \in Pdus
  PROVE  PartsOf(p) \in Nat
  BY PollerAssumption DEF PartsOf

(* Attachments are inserted by the poller's loop only. *)
LEMMA AttachmentsStep ==
  ASSUME [Next]_vars
  PROVE  UNCHANGED attachments \/ \E i \in Indexes : PollerAttaches(i)
  BY DEF Next, vars, PollerStep, PollerFault, HandlerStep, Environment, storeVars,
         Wake, SelectStorage, SelectRefused, SelectTimesOut, List, ListFails, ScanEnds,
         SkipSms, AbortOnGarbled, Drop, StartCapture, FetchReturns, FetchFails,
         PollerGetsChat, PollerInserts, PollerTouches, PollerRereads, PollerPublishes,
         Reselect, ReselectRefused, ReselectTimesOut, Erase, EraseRefused, EraseTimesOut,
         HandlerGetsChat, HandlerInserts, HandlerTouches, HandlerRereads, HandlerPublishes,
         Arrive, DriverForwards, DriverLoses, PollerRaises, HandlerRaises, Crash

(* What PollerAttaches does to the message in hand, and to no other. *)
LEMMA AttachAdds ==
  ASSUME CaptureInv, AttachmentsKnown, NEW i \in Indexes, PollerAttaches(i)
  PROVE  /\ pc = "attach" /\ Current(i) /\ listing[i] \in Pdus /\ Stored(listing[i])
         /\ UNCHANGED <<listing, todo, messages, fired>>
         /\ \A p \in Pdus \ {listing[i]} : attachments'[p] = attachments[p]
         /\ \/ /\ attachments[listing[i]] < PartsOf(listing[i]) /\ pc' = "attach"
               /\ attachments'[listing[i]] = attachments[listing[i]] + 1
            \/ /\ attachments[listing[i]] = PartsOf(listing[i]) /\ pc' = "reread"
               /\ UNCHANGED attachments
  <1>1. pc = "attach" /\ Current(i) /\ UNCHANGED <<listing, todo, messages, fired>>
    BY DEF PollerAttaches, Go
  <1>2. listing[i] \in Pdus /\ listing[i] \in MsgIds /\ Stored(listing[i])
    BY <1>1, CurrentIsOne, PollerAssumption DEF CaptureInv, PollerKnows
  <1>3. /\ attachments \in [MsgIds -> Nat] /\ attachments[listing[i]] \in Nat
        /\ PartsOf(listing[i]) \in Nat /\ attachments[listing[i]] <= PartsOf(listing[i])
        /\ Pdus \subseteq MsgIds
    BY <1>2, PartsType, PollerAssumption
    DEF AttachmentsKnown, CaptureInv, TypeOK, StoreTypeOK
  <1>4. CASE attachments[listing[i]] < PartsOf(listing[i])
    BY <1>1, <1>2, <1>3, <1>4 DEF PollerAttaches, InsertAttachment, Go
  <1>5. CASE attachments[listing[i]] = PartsOf(listing[i])
    BY <1>1, <1>2, <1>3, <1>5 DEF PollerAttaches, Go
  <1> QED BY <1>3, <1>4, <1>5

LEMMA AttachmentsKnownStep ==
  ASSUME CaptureInv, AttachmentsKnown, [Next]_vars
  PROVE  AttachmentsKnown'
  <1>1. ASSUME NEW p \in Pdus
        PROVE  (~Stored(p) => attachments[p] = 0)' /\ (attachments[p] <= PartsOf(p))'
    <2>1. Stored(p) => Stored(p)'
      BY StoredStep, PollerAssumption DEF Stored
    <2>2. attachments[p] \in Nat /\ PartsOf(p) \in Nat /\ PartsOf(p)' = PartsOf(p)
      BY PartsType, PollerAssumption DEF CaptureInv, TypeOK, StoreTypeOK, PartsOf, IsMms
    <2>3. CASE UNCHANGED attachments
      BY <2>1, <2>2, <2>3 DEF AttachmentsKnown
    <2>4. ASSUME NEW i \in Indexes, PollerAttaches(i)
          PROVE  (~Stored(p) => attachments[p] = 0)' /\ (attachments[p] <= PartsOf(p))'
      BY <2>1, <2>2, <2>4, AttachAdds DEF AttachmentsKnown
    <2> QED BY <2>3, <2>4, AttachmentsStep
  <1>2. ASSUME NEW j \in Indexes, Current(j)', pc' \in {"reread", "publish"}
        PROVE  (attachments[listing[j]] = PartsOf(listing[j]))'
    <2>1. CASE UNCHANGED <<pc, listing, todo, attachments>>
      BY <1>2, <2>1 DEF AttachmentsKnown, Current, PartsOf, IsMms
    <2>2. ASSUME NEW i \in Indexes, PollerAttaches(i)
          PROVE  (attachments[listing[j]] = PartsOf(listing[j]))'
      <3>1. /\ UNCHANGED <<listing, todo, attachments>> /\ Current(i) /\ Current(j)
            /\ attachments[listing[i]] = PartsOf(listing[i])
        BY <1>2, <2>2, AttachAdds DEF Current
      <3>2. i = j
        BY <3>1, CurrentIsOne DEF CaptureInv
      <3> QED BY <3>1, <3>2 DEF PartsOf, IsMms
    <2>3. ASSUME NEW i \in Indexes, PollerRereads(i)
          PROVE  (attachments[listing[j]] = PartsOf(listing[j]))'
      BY <1>2, <2>3 DEF PollerRereads, storeVars, AttachmentsKnown, Current, PartsOf, IsMms
    <2>4. \/ UNCHANGED <<pc, listing, todo, attachments>>
          \/ \E i \in Indexes : PollerAttaches(i) \/ PollerRereads(i)
      BY <1>2
      DEF Next, vars, pollVars, storeVars, PollerStep, PollerFault, HandlerStep, Environment, Go,
          EndPoll, NextMessage, NextStorage, Wake, SelectStorage, SelectRefused, SelectTimesOut,
          List, ListFails, ScanEnds, SkipSms, AbortOnGarbled, Drop, StartCapture, FetchReturns,
          FetchFails, PollerGetsChat, PollerInserts, PollerTouches, PollerPublishes, Reselect,
          ReselectRefused, ReselectTimesOut, Erase, EraseRefused, EraseTimesOut,
          HandlerGetsChat, HandlerInserts, HandlerTouches, HandlerRereads, HandlerPublishes,
          Arrive, DriverForwards, DriverLoses, PollerRaises, HandlerRaises, Crash
    <2> QED BY <2>1, <2>2, <2>3, <2>4
  <1> QED BY <1>1, <1>2 DEF AttachmentsKnown

(* Events are published by the two last steps only. *)
LEMMA FiredStep ==
  ASSUME [Next]_vars
  PROVE  \/ UNCHANGED fired
         \/ \E i \in Indexes : PollerPublishes(i)
         \/ \E h \in Handlers : HandlerPublishes(h)
  BY DEF Next, vars, PollerStep, PollerFault, HandlerStep, Environment, storeVars,
         Wake, SelectStorage, SelectRefused, SelectTimesOut, List, ListFails, ScanEnds,
         SkipSms, AbortOnGarbled, Drop, StartCapture, FetchReturns, FetchFails,
         PollerGetsChat, PollerInserts, PollerTouches, PollerAttaches, PollerRereads,
         Reselect, ReselectRefused, ReselectTimesOut, Erase, EraseRefused, EraseTimesOut,
         HandlerGetsChat, HandlerInserts, HandlerTouches, HandlerRereads,
         Arrive, DriverForwards, DriverLoses, PollerRaises, HandlerRaises, Crash

LEMMA FiredKnownStep ==
  ASSUME CaptureInv, EventInv, [Next]_vars
  PROVE  FiredKnown'
  <1> SUFFICES ASSUME NEW p \in Pdus, p \in fired'
               PROVE  (Stored(p) /\ IsMms(p) /\ attachments[p] = PartsOf(p))'
    BY DEF FiredKnown
  <1>0. PartsOf(p)' = PartsOf(p) /\ IsMms(p)' = IsMms(p) /\ (Stored(p) => Stored(p)')
    BY StoredStep, PollerAssumption DEF PartsOf, IsMms, Stored
  <1>1. CASE p \in fired
    <2>1. Stored(p) /\ IsMms(p) /\ attachments[p] = PartsOf(p)
      BY <1>1 DEF EventInv, FiredKnown
    <2>2. attachments'[p] = attachments[p]
      BY <2>1, AttachmentsStep, AttachAdds, PartsType DEF EventInv
    <2> QED BY <1>0, <2>1, <2>2
  <1>2. ASSUME NEW i \in Indexes, PollerPublishes(i), p \notin fired
        PROVE  (Stored(p) /\ IsMms(p) /\ attachments[p] = PartsOf(p))'
    <2>1. /\ p = listing[i] /\ Servable(ServiceOf(p)) /\ Current(i) /\ pc = "publish"
          /\ UNCHANGED storeVars
      BY <1>2 DEF PollerPublishes
    <2>2. IsMms(p)
      BY <2>1 DEF Servable, ServiceOf
    <2>3. Stored(p) /\ attachments[p] = PartsOf(p)
      BY <2>1 DEF CaptureInv, PollerKnows, EventInv, AttachmentsKnown
    <2> QED BY <1>0, <2>1, <2>2, <2>3 DEF storeVars
  <1>3. ASSUME NEW h \in Handlers, HandlerPublishes(h), p \notin fired PROVE FALSE
    BY <1>3, PollerAssumption DEF HandlerPublishes
  <1> QED BY <1>1, <1>2, <1>3, FiredStep

LEMMA AlwaysEventInv == Spec => []EventInv
  <1>1. Init => EventInv
    <2> SUFFICES ASSUME Init PROVE EventInv
      OBVIOUS
    <2>1. \A p \in Pdus : attachments[p] = 0 /\ PartsOf(p) \in Nat
      BY PartsType, PollerAssumption DEF Init, StoreInit
    <2> QED BY <2>1 DEF Init, EventInv, AttachmentsKnown, FiredKnown, Current
  <1>2. CaptureInv /\ EventInv /\ [Next]_vars => EventInv'
    BY AttachmentsKnownStep, FiredKnownStep DEF EventInv
  <1> QED BY <1>1, <1>2, AlwaysInv, PTL DEF Spec

(* The event of a captured message is of a row with all its attachments,   *)
(* and of a message and a chat that the API can serve.                     *)
THEOREM EventsAreComplete == Spec => []EventIsComplete
  <1>1. CaptureInv /\ EventInv /\ MmsChatMarked => EventIsComplete
    <2> SUFFICES ASSUME CaptureInv, EventInv, MmsChatMarked, NEW p \in Pdus, p \in fired
                 PROVE  /\ Stored(p) /\ Servable(messages[p].service)
                        /\ Servable(chats[messages[p].chat]) /\ attachments[p] = PartsOf(p)
      BY DEF EventIsComplete
    <2>1. Stored(p) /\ IsMms(p) /\ attachments[p] = PartsOf(p) /\ p \in MsgIds
      BY PollerAssumption DEF EventInv, FiredKnown
    <2>2. messages[p] = InboundRow(Sender[p], "MMS", p)
      BY <2>1 DEF CaptureInv, RowsKnown, PollerRow, ServiceOf
    <2>3. messages[p].service = "MMS"
      BY <2>2 DEF InboundRow
    <2>4. chats[messages[p].chat] = "MMS"
      BY <2>1, <2>3 DEF MmsChatMarked
    <2> QED BY <2>1, <2>3, <2>4 DEF Servable
  <1> QED BY <1>1, AlwaysInv, AlwaysEventInv, MmsChatAlwaysMarked, PTL

-------------------------------------------------------------------------------
(***************************************************************************)
(* OnlyInterruptionsTear: an MMS in hand is published, because what the    *)
(* poller has reread of its chat is what MmsChatMarked says; what can come *)
(* between is a fault that ends the poll.                                  *)
(***************************************************************************)
RereadKnown ==
  \A i \in Indexes : Current(i) /\ pc = "publish" /\ IsMms(listing[i]) => reread = "MMS"

LeftUnfired(p) == Stored(p) /\ IsMms(p) /\ ~InProgress(p) /\ p \notin fired

Torn(p) == InProgress(p) /\ pc' = "wait" /\ faults' # faults

LEMMA RereadStep ==
  ASSUME CaptureInv, MmsChatMarked, RereadKnown, [Next]_vars
  PROVE  RereadKnown'
  <1> SUFFICES ASSUME NEW j \in Indexes, Current(j)', pc' = "publish", IsMms(listing[j])'
               PROVE  reread' = "MMS"
    BY DEF RereadKnown
  <1>1. CASE UNCHANGED <<pc, listing, todo, reread>>
    BY <1>1 DEF RereadKnown, Current, IsMms
  <1>2. ASSUME NEW i \in Indexes, PollerRereads(i) PROVE reread' = "MMS"
    <2>1. /\ pc = "reread" /\ Current(i) /\ Current(j) /\ UNCHANGED <<listing, todo>>
          /\ reread' = chats[Sender[listing[i]]]
      BY <1>2 DEF PollerRereads, Current
    <2>2. i = j /\ listing[i] \in Pdus /\ IsMms(listing[i]) /\ listing[i] \in MsgIds
      BY <2>1, CurrentIsOne, PollerAssumption DEF CaptureInv, IsMms
    <2>3. Stored(listing[i])
      BY <2>1 DEF CaptureInv, PollerKnows
    <2>4. messages[listing[i]] = InboundRow(Sender[listing[i]], "MMS", listing[i])
      BY <2>2, <2>3 DEF CaptureInv, RowsKnown, PollerRow, ServiceOf
    <2>5. /\ messages[listing[i]].service = "MMS"
          /\ messages[listing[i]].chat = Sender[listing[i]]
      BY <2>4 DEF InboundRow
    <2> QED BY <2>1, <2>2, <2>3, <2>5 DEF MmsChatMarked
  <1>3. UNCHANGED <<pc, listing, todo, reread>> \/ \E i \in Indexes : PollerRereads(i)
    BY DEF Next, vars, pollVars, storeVars, PollerStep, PollerFault, HandlerStep, Environment, Go,
           EndPoll, NextMessage, NextStorage, Wake, SelectStorage, SelectRefused, SelectTimesOut,
           List, ListFails, ScanEnds, SkipSms, AbortOnGarbled, Drop, StartCapture, FetchReturns,
           FetchFails, PollerGetsChat, PollerInserts, PollerTouches, PollerAttaches,
           PollerPublishes, Reselect, ReselectRefused, ReselectTimesOut, Erase, EraseRefused,
           EraseTimesOut, HandlerGetsChat, HandlerInserts, HandlerTouches, HandlerRereads,
           HandlerPublishes, Arrive, DriverForwards, DriverLoses, PollerRaises, HandlerRaises, Crash
  <1> QED BY <1>1, <1>2, <1>3

(* The work on a stored message ends where it is published, or in a fault. *)
LEMMA WorkStep ==
  ASSUME CaptureInv, [Next]_vars, NEW p, InProgress(p), ~InProgress(p)'
  PROVE  Torn(p) \/ \E i \in Indexes : PollerPublishes(i) /\ Current(i) /\ listing[i] = p
  <1>1. PICK k \in Indexes : Current(k) /\ listing[k] = p
    BY DEF InProgress
  <1>2. pc \in {"touch", "attach", "reread", "publish"}
    BY DEF InProgress
  <1>3. Fault => faults' # faults
    BY PollerAssumption DEF Fault, CaptureInv, TypeOK
  <1>4. \/ UNCHANGED <<pc, listing, todo>>
        \/ \E i \in Indexes : \/ PollerTouches(i) \/ PollerAttaches(i)
                              \/ PollerRereads(i) \/ PollerPublishes(i)
        \/ Fault /\ pc' = "wait"
    BY <1>2
    DEF Next, vars, pollVars, PollerStep, PollerFault, HandlerStep, Environment,
        Wake, SelectStorage, SelectRefused, SelectTimesOut, List, ListFails, ScanEnds,
        SkipSms, AbortOnGarbled, Drop, StartCapture, FetchReturns, FetchFails,
        PollerGetsChat, PollerInserts, Reselect, ReselectRefused, ReselectTimesOut, Erase,
        EraseRefused, EraseTimesOut, HandlerGetsChat, HandlerInserts, HandlerTouches,
        HandlerRereads, HandlerPublishes, Arrive, DriverForwards, DriverLoses, PollerRaises,
        HandlerRaises, Crash, EndPoll
  <1>5. ~(UNCHANGED <<pc, listing, todo>>)
    BY <1>1, <1>2 DEF InProgress, Current
  <1>6. ASSUME NEW i \in Indexes, PollerTouches(i) \/ PollerAttaches(i) \/ PollerRereads(i)
        PROVE  FALSE
    <2>1. pc' \in {"attach", "reread", "publish"} /\ UNCHANGED <<listing, todo>>
      BY <1>6 DEF PollerTouches, PollerAttaches, PollerRereads, Go
    <2> QED BY <1>1, <2>1 DEF InProgress, Current
  <1>7. ASSUME NEW i \in Indexes, PollerPublishes(i)
        PROVE  Current(i) /\ listing[i] = p
    <2>1. Current(i)
      BY <1>7 DEF PollerPublishes
    <2> QED BY <1>1, <2>1, CurrentIsOne DEF CaptureInv
  <1> QED BY <1>3, <1>4, <1>5, <1>6, <1>7 DEF Torn

LEMMA TearStep ==
  ASSUME CaptureInv, RereadKnown, [Next]_vars,
         NEW p \in Pdus, ~LeftUnfired(p), LeftUnfired(p)'
  PROVE  Torn(p)
  <1>1. Stored(p)' /\ IsMms(p) /\ ~InProgress(p)' /\ ~(p \in fired')
    BY DEF LeftUnfired, IsMms
  <1>2. ~(p \in fired)
    BY <1>1, FiredStep DEF PollerPublishes, HandlerPublishes
  <1>3. CASE ~Stored(p)
    <2>1. PICK i \in Indexes : PollerInserts(i)
      BY <1>1, <1>3, StoredStep
    <2>2. p = listing[i]
      BY <1>1, <1>3, <2>1, PollerInsertAdds, PollerAssumption
      DEF Stored, CaptureInv, TypeOK, StoreTypeOK
    <2>3. Current(i) /\ pc' = "touch" /\ UNCHANGED <<listing, todo>>
      BY <2>1, PollerInsertAdds DEF PollerInserts
    <2> QED BY <1>1, <2>2, <2>3 DEF InProgress, Current
  <1>4. CASE Stored(p)
    <2>1. InProgress(p)
      BY <1>1, <1>2, <1>4 DEF LeftUnfired
    <2>2. ASSUME NEW i \in Indexes, PollerPublishes(i), Current(i), listing[i] = p
          PROVE  FALSE
      <3>1. reread = "MMS"
        BY <1>1, <2>2 DEF RereadKnown, PollerPublishes
      <3>2. ServiceOf(p) = "MMS"
        BY <1>1 DEF ServiceOf
      <3> QED BY <1>1, <2>2, <3>1, <3>2 DEF PollerPublishes, Servable
    <2> QED BY <1>1, <2>1, <2>2, WorkStep
  <1> QED BY <1>3, <1>4

(* Whatever the handlers do to the same chat, and whatever fails of theirs *)
(* or of the modem's: an MMS that is stored comes to be left without its   *)
(* event or a part only by an exception or a crash that ends the poll with *)
(* that message in hand.                                                   *)
THEOREM NothingElseTears == Spec => OnlyInterruptionsTear
  <1>1. Init => RereadKnown
    BY PollerAssumption DEF Init, RereadKnown, Current
  <1>2. CaptureInv /\ MmsChatMarked /\ RereadKnown /\ [Next]_vars => RereadKnown'
    BY RereadStep
  <1>3. CaptureInv /\ EventInv /\ EventInv' /\ RereadKnown /\ [Next]_vars
          => [\A p \in Pdus : ~HalfDone(p) /\ HalfDone(p)'
                               => InProgress(p) /\ pc' = "wait" /\ faults' # faults]_vars
    <2> SUFFICES ASSUME CaptureInv, EventInv, EventInv', RereadKnown, [Next]_vars,
                        NEW p \in Pdus, ~HalfDone(p), HalfDone(p)'
                 PROVE  Torn(p)
      BY DEF Torn
    <2>1. ~LeftUnfired(p)
      BY DEF HalfDone, LeftUnfired
    <2>2. LeftUnfired(p)'
      BY DEF HalfDone, LeftUnfired, EventInv, FiredKnown, PartsOf, IsMms
    <2> QED BY <2>1, <2>2, TearStep
  <1> QED BY <1>1, <1>2, <1>3, AlwaysInv, AlwaysEventInv, MmsChatAlwaysMarked, PTL
      DEF Spec, OnlyInterruptionsTear
===============================================================================
