-------------------------------- MODULE WapPush --------------------------------
(***************************************************************************)
(* parse_wap_push and parse_mms_notification of sms_api/pdu.py: what the   *)
(* poller makes of a binary SMS to a WAP push port.  One action is one     *)
(* round of the loop over the header fields of the notification.           *)
(***************************************************************************)
EXTENDS Wsp

CONSTANT MmsTypes  \* names of application/vnd.wap.mms-message

VARIABLES messageType,  \* message_type, 0 for None
          location,     \* content_location
          filed         \* service the PDU ends up with, or "raised"

pushVars == <<messageType, location, filed>>

NotificationInd == 130                   \* 0x82
OctetFields == {134, 143, 144, 145, 149}  \* 0x86, 0x8F, 0x90, 0x91, 0x95
ClassTokens == 128..131                  \* MMS_MESSAGE_CLASS

Filed(service) == /\ filed' = service
                  /\ stage' = "filed"
                  /\ UNCHANGED <<data, at, messageType, location>>

(* read_wsp_content_type; the offset it returns is not used. *)
WspContentType(o) ==
  LET named(i) == IF Byte(i) >= 128 THEN WellKnown(Byte(i)) ELSE ReadText(i, Quote).value
  IN CASE ~Inside(o) -> {}
       [] Inside(o) /\ Byte(o) <= 31 ->
            {named(r.next) : r \in {l \in ReadValueLength(o) : Inside(l.next)}}
       [] OTHER -> {named(o)}

(* The WSP header: transaction id, PDU type, length of the headers, content type. *)
Body == {r.next + r.value : r \in {l \in ReadUintvar(2) :
           WspContentType(l.next) \cap MmsTypes # {} /\ Inside(l.next + l.value)}}

IsPush == Len(data) >= 3 /\ Byte(1) \in {6, 7} /\ Body # {}

OpenPush == /\ stage = "push" /\ IsPush
            /\ at' \in Body
            /\ stage' = "notice"
            /\ UNCHANGED <<data, pushVars>>

NotAPush == stage = "push" /\ ~IsPush /\ Filed("BINARY")

-------------------------------------------------------------------------------
(* Back to the loop head, or out of it with a location. *)
LoopHead(type, place, next) ==
  /\ messageType' = type /\ location' = place /\ at' = next
  /\ IF type = NotificationInd /\ place # <<>>
     THEN stage' = "filed" /\ filed' = "MMS"
     ELSE UNCHANGED <<stage, filed>>
  /\ UNCHANGED data

InLoop == stage = "notice" /\ Inside(at)
Skip(next) == LoopHead(messageType, location, next)

ReadType == /\ InLoop /\ Field = 140 /\ Inside(at + 1)
            /\ LoopHead(Byte(at + 1), location, at + 2)

ReadLocation == /\ InLoop /\ Field = 131
                /\ LET r == ReadText(at + 1, Quote) IN LoopHead(messageType, r.value, r.next)

ReadTransactionId == InLoop /\ Field = 152 /\ Skip(ReadText(at + 1, Quote).next)

ReadMessageClass ==
  /\ InLoop /\ Field = 138 /\ Inside(at + 1)
  /\ Skip(IF Byte(at + 1) \in ClassTokens THEN at + 2 ELSE ReadText(at + 1, Quote).next)

ReadVersion == InLoop /\ Field = 141 /\ Inside(at + 1) /\ Skip(at + 2)

SkipOctet == InLoop /\ Field \in OctetFields /\ Skip(at + 2)

(* The size is read as a uintvar. *)
ReadSize == /\ InLoop /\ Field = 142
            /\ \E r \in ReadUintvar(at + 1) : Skip(r.next)

(* Mutant: the length is not counted from behind itself. *)
MutShortSkip == /\ InLoop /\ Field \in {136, 137, 150}
                /\ \E r \in ReadValueLength(at + 1) : Skip(at + 1 + r.value)

(* From, Expiry and Subject are skipped by their lengths. *)
SkipQuoted == /\ InLoop /\ Field \in {136, 137, 150}
              /\ \E r \in ReadValueLength(at + 1) : Skip(r.next + r.value)

(* Nothing catches the ValueError of a reader: poll_once is aborted. *)
FieldRaises == /\ InLoop
               /\ \/ Field = 142 /\ ReadUintvar(at + 1) = {}
                  \/ Field \in {136, 137, 150} /\ ReadValueLength(at + 1) = {}
               /\ Filed("raised")

KnownFields == {131, 136, 137, 138, 140, 141, 142, 150, 152} \cup OctetFields

(* The loop ends: no more bytes, a field cut off, or one it does not know.  *)
(* A notification whose location was not found by then is no MMS.           *)
LoopEnds == /\ stage = "notice"
            /\ Inside(at) => \/ Field \notin KnownFields
                             \/ Field \in {138, 140, 141} /\ ~Inside(at + 1)
            /\ Filed("BINARY")

PushStep == \/ OpenPush \/ NotAPush \/ ReadType \/ ReadLocation \/ ReadTransactionId
            \/ ReadMessageClass \/ ReadVersion \/ SkipOctet \/ ReadSize \/ SkipQuoted
            \/ FieldRaises \/ LoopEnds
===============================================================================
