-------------------------------- MODULE AtSerial --------------------------------
(***************************************************************************)
(* The serial line under the poller: AtSerialClient of sms_api/modem.py    *)
(* driven by poll_once.  Nothing on the line says which command an answer  *)
(* belongs to: a command resets the input buffer, writes its line, and     *)
(* takes what comes next.  An answer that was given up can therefore still *)
(* arrive and be taken for the answer to a later command; a final result   *)
(* code counts as an answer whether it says OK or ERROR; +HTTPACTION comes *)
(* when the download ends, before or after anything else; and a read takes *)
(* as many bytes as have arrived, so that it may stop inside a number.     *)
(*                                                                         *)
(* The modem is modelled from what the client expects of it: it works on   *)
(* commands in the order they were written and answers each, with no bound *)
(* on the delay, except that what a closed port left unread is gone before *)
(* the next poll opens it.  It may refuse a command, but not AT+CPMS:      *)
(* ModemPoller has that case.                                              *)
(***************************************************************************)
EXTENDS Naturals, Sequences, FiniteSets, SequencesExt, FiniteSetsExt

CONSTANTS Mms,        \* notifications, each with the URL of its content
          Place,      \* memory and index where each one lies
          Length,     \* bytes of the content of each one
          ChunkSize,  \* mms_http_read_chunk_size
          None, Blank, Closed  \* no message; a session without URL; no session

VARIABLES at,       \* client: the command to write, or being answered
          sent,     \* client: it was written (for "URC": waiting begins)
          text,     \* client: what was read since
          scan, todo,            \* poll_once: memory, rest of its listing
          total, data,           \* http_read_all: bytes announced, bytes read
          captured,              \* the store: notifications with a message row
          out,                   \* line: answers not read yet, oldest first
          cpms, kept,            \* modem: selected memory, messages it holds
          url, action, body,     \* modem: HTTP session, download, its result
          denied, cut, taken,  \* history of a fetch: refusals, the +HTTPACTION taken
          late                   \* history of a poll: deadlines missed

pollVars == <<scan, todo, total, data, captured>>
httpVars == <<url, action, body>>
modemVars == <<cpms, kept, httpVars>>
vars == <<at, sent, text, pollVars, out, modemVars, denied, cut, taken, late>>

Storages == {"SM", "ME"}

ASSUME AtSerialAssumption ==
  /\ IsFiniteSet(Mms)
  /\ Place \in [Mms -> Storages \X Nat]
  /\ \A m, n \in Mms : Place[m] = Place[n] => m = n
  /\ Length \in [Mms -> Nat \ {0}] /\ ChunkSize \in Nat \ {0}
  /\ Cardinality({None, Blank, Closed}) = 3
  /\ {None, Blank, Closed} \cap Mms = {}

(* Mutant: no AT+HTTPTERM before AT+HTTPINIT. *)
MutNoTerm == [ATE0 |-> "CMGF", CMGF |-> "CPMS", CPMS |-> "CMGL",
              CMEE |-> "CGDCONT", CGDCONT |-> "CSOCKSETPN", CSOCKSETPN |-> "CGACT",
              CGACT |-> "HTTPINIT", HTTPINIT |-> "HTTPPARA",
              HTTPPARA |-> "HTTPACTION", RECPMS |-> "CMGD"]

(* The next command when one was answered, where that is all there is to it. *)
After == [ATE0 |-> "CMGF", CMGF |-> "CPMS", CPMS |-> "CMGL",
          CMEE |-> "CGDCONT", CGDCONT |-> "CSOCKSETPN", CSOCKSETPN |-> "CGACT",
          CGACT |-> "HTTPTERM", HTTPTERM |-> "HTTPINIT", HTTPINIT |-> "HTTPPARA",
          HTTPPARA |-> "HTTPACTION", RECPMS |-> "CMGD"]

Fetching == {"CMEE", "CGDCONT", "CSOCKSETPN", "CGACT", "HTTPTERM", "HTTPINIT",
             "HTTPPARA", "HTTPACTION", "URC", "HTTPREAD", "CLOSE"}
Steps == {"wait", "ATE0", "CMGF", "CPMS", "CMGL", "pick", "store", "RECPMS", "CMGD"}
         \cup Fetching
Plain == {"ATE0", "CMGF", "CMEE", "CGDCONT", "CSOCKSETPN", "CGACT"}
Refusable == {"CMGL", "CMGD", "HTTPTERM", "HTTPINIT", "HTTPPARA", "HTTPACTION", "CLOSE"}

(* The bytes of the contents, counted from 1. *)
Bytes == UNION {{m} \X (1..Length[m]) : m \in Mms}

Answers == [kind : {"final", "end"}] \cup [kind : {"listing"}, of : Mms]
           \cup [kind : {"head", "tail"}, of : Mms, total : Nat, good : BOOLEAN]
           \cup [kind : {"data"}, bytes : Seq(Bytes)]

TypeOK ==
  /\ at \in Steps /\ sent \in BOOLEAN
  /\ text \in Seq(Answers) /\ out \in Seq(Answers)
  /\ scan \in Storages /\ todo \in Seq(Mms)
  /\ total \in Nat /\ data \in Seq(Bytes)
  /\ captured \subseteq Mms /\ kept \subseteq Mms
  /\ cpms \in Storages
  /\ url \in Mms \cup {Blank, Closed}
  /\ action \in Mms \cup {None} /\ body \in Mms \cup {None}
  /\ denied \subseteq {"HTTPTERM", "HTTPPARA", "HTTPACTION"} /\ cut \in BOOLEAN
  /\ taken \in Mms \cup {None} /\ late \in Nat

Init ==
  /\ at = "wait" /\ sent = FALSE /\ text = <<>>
  /\ scan = "SM" /\ todo = <<>> /\ total = 0 /\ data = <<>> /\ captured = {}
  /\ out = <<>> /\ cpms \in Storages /\ kept = Mms
  /\ url = Closed /\ action = None /\ body = None
  /\ denied = {} /\ cut = FALSE /\ taken = None /\ late = 0

-------------------------------------------------------------------------------
(***************************************************************************)
(* What travels on the line.  A number may arrive in two pieces, its last  *)
(* digit later: UrcHead is what the client sees then.                      *)
(***************************************************************************)
Final == [kind |-> "final"]           \* OK, ERROR, +CME ERROR, +CMS ERROR
Listing(m) == [kind |-> "listing", of |-> m]   \* header and PDU of one message
UrcHead(m, good) == [kind |-> "head", of |-> m, total |-> Length[m] \div 10, good |-> good]
UrcTail(m, good) == [kind |-> "tail", of |-> m, total |-> Length[m], good |-> good]
Data(bytes) == [kind |-> "data", bytes |-> bytes]
End == [kind |-> "end"]               \* +HTTPREAD: 0

AtOf(kind) == {i \in DOMAIN text : text[i].kind = kind}

(* _is_complete_response: the last line read is a final result code. *)
Complete == text # <<>> /\ Last(text).kind = "final"

(* HTTP_ACTION_RE: it needs one digit of the length at least. *)
UrcAt == {i \in AtOf("head") : i < Len(text) \/ text[i].total > 0}
Urc == LET i == Min(UrcAt) IN IF i < Len(text) THEN text[i + 1] ELSE text[i]

(* http_read_chunk: the announced bytes are there and +HTTPREAD: 0 follows. *)
ChunkComplete == \E i \in AtOf("data") : \E j \in AtOf("end") : i < j
Chunk == text[Min(AtOf("data"))].bytes

Answered == /\ sent
            /\ CASE at = "URC" -> UrcAt # {}
                 [] at = "HTTPREAD" -> ChunkComplete
                 [] OTHER -> Complete

-------------------------------------------------------------------------------
(***************************************************************************)
(* _write_command, and what the modem makes of each command.               *)
(***************************************************************************)

(* The first k answers on the line arrived before the reset and are lost. *)
Write(answer) == /\ ~sent /\ sent' = TRUE
                 /\ text' = <<>>
                 /\ \E k \in 0..Len(out) : out' = SubSeq(out, k + 1, Len(out)) \o answer
                 /\ UNCHANGED <<at, pollVars, cut, taken, late>>

WritePlain == /\ at \in Plain
              /\ Write(<<Final>>)
              /\ UNCHANGED <<modemVars, denied>>

(* Refusals that the properties speak of. *)
Matters == {"HTTPTERM", "HTTPPARA", "HTTPACTION"}

(* command returns an ERROR answer like any other. *)
WriteRefused == /\ at \in Refusable
                /\ Write(<<Final>>)
                /\ denied' = denied \cup ({at} \cap Matters)
                /\ UNCHANGED modemVars

WriteSelect == /\ at \in {"CPMS", "RECPMS"}
               /\ Write(<<Final>>)
               /\ cpms' = scan
               /\ UNCHANGED <<kept, httpVars, denied>>

(* The sequences of all elements of S in an order. *)
Ordered(S, Before(_, _)) ==
  {s \in SetToSeqs(S) : \A i, j \in DOMAIN s : i < j => Before(s[i], s[j])}

LowerIndex(m, n) == Place[m][2] < Place[n][2]

(* The messages of the selected memory, in the order of their indexes. *)
WriteList == /\ at = "CMGL"
             /\ \E msgs \in Ordered({m \in kept : Place[m][1] = cpms}, LowerIndex) :
                  Write([i \in DOMAIN msgs |-> Listing(msgs[i])] \o <<Final>>)
             /\ UNCHANGED <<modemVars, denied>>

WriteErase == /\ at = "CMGD"
              /\ Write(<<Final>>)
              /\ kept' = kept \ {m \in kept : Place[m] = <<cpms, Place[Head(todo)][2]>>}
              /\ UNCHANGED <<cpms, httpVars, denied>>

WriteTerm == /\ at \in {"HTTPTERM", "CLOSE"}
             /\ Write(<<Final>>)
             /\ url' = Closed /\ action' = None /\ body' = None
             /\ UNCHANGED <<cpms, kept, denied>>

WriteInit == /\ at = "HTTPINIT" /\ url = Closed
             /\ Write(<<Final>>)
             /\ url' = Blank
             /\ UNCHANGED <<cpms, kept, action, body, denied>>

WriteUrl == /\ at = "HTTPPARA" /\ url # Closed
            /\ Write(<<Final>>)
            /\ url' = Head(todo)
            /\ UNCHANGED <<cpms, kept, action, body, denied>>

WriteAction == /\ at = "HTTPACTION" /\ url \in Mms /\ action = None
               /\ Write(<<Final>>)
               /\ action' = url /\ body' = None
               /\ UNCHANGED <<cpms, kept, url, denied>>

(* The download ends: the modem says so of its own accord. *)
DownloadEnds == /\ action # None
                /\ \E good \in BOOLEAN :
                     out' = out \o <<UrcHead(action, good), UrcTail(action, good)>>
                /\ body' = action /\ action' = None
                /\ UNCHANGED <<at, sent, text, pollVars, cpms, kept, url, denied, cut, taken, late>>

(* Bytes first..first+n-1 of the content of m, counted from 1. *)
Piece(m, first, n) == [i \in 1..n |-> <<m, first + i - 1>>]

(* Mutant: every chunk is asked for from the start. *)
MutReadAgain == /\ at = "HTTPREAD" /\ body # None /\ Len(data) < Length[body]
                /\ LET size == Min({ChunkSize, total - Len(data)})
                   IN \E n \in 1..Min({size, Length[body]}) :
                        Write(<<Final, Data(Piece(body, 1, n)), End>>)
                /\ UNCHANGED <<modemVars, denied>>

(* Mutant: the offset is one too far. *)
MutOffByOne == /\ at = "HTTPREAD" /\ body # None /\ Len(data) < Length[body]
               /\ LET size == Min({ChunkSize, total - Len(data)})
                  IN \E n \in 1..Min({size, Length[body] - Len(data)}) :
                       Write(<<Final, Data(Piece(body, Len(data) + 2, n)), End>>)
               /\ UNCHANGED <<modemVars, denied>>

(* The modem may have fewer bytes at hand than asked for, but some. *)
WriteRead == /\ at = "HTTPREAD" /\ body # None /\ Len(data) < Length[body]
             /\ LET size == Min({ChunkSize, total - Len(data)})
                IN \E n \in 1..Min({size, Length[body] - Len(data)}) :
                     Write(<<Final, Data(Piece(body, Len(data) + 1, n)), End>>)
             /\ UNCHANGED <<modemVars, denied>>

(* No result, or an offset past its end. *)
WriteReadRefused == /\ at = "HTTPREAD" /\ (body # None => Len(data) >= Length[body])
                    /\ Write(<<Final>>)
                    /\ UNCHANGED <<modemVars, denied>>

-------------------------------------------------------------------------------
(***************************************************************************)
(* The loops that read an answer, and where poll_once goes on from there.  *)
(***************************************************************************)

(* serial.read(in_waiting or 1): all that is waiting, however much that is. *)
Receive == /\ sent /\ ~Answered
           /\ \E n \in 1..Len(out) : /\ text' = text \o SubSeq(out, 1, n)
                                     /\ out' = SubSeq(out, n + 1, Len(out))
           /\ UNCHANGED <<at, sent, pollVars, modemVars, denied, cut, taken, late>>

Unread == UNCHANGED <<out, modemVars, late>>
Goto(step) == at' = step /\ sent' = FALSE /\ text' = <<>>

(* The fetch is over: its locals go. *)
Forget == total' = 0 /\ data' = <<>> /\ denied' = {} /\ cut' = FALSE /\ taken' = None
KeepFetch == UNCHANGED <<total, data, denied, cut, taken>>

(* The port is closed; run waits for the next interval. *)
LeavePoll == Goto("wait") /\ scan' = "SM" /\ todo' = <<>> /\ Forget
NextStorage == IF scan = "SM"
               THEN Goto("CPMS") /\ scan' = "ME" /\ todo' = <<>> /\ Forget
               ELSE LeavePoll
NextMessage == Goto("pick") /\ todo' = Tail(todo) /\ Forget /\ UNCHANGED scan

Open == /\ at = "wait" /\ out = <<>>
        /\ Goto("ATE0") /\ KeepFetch /\ late' = 0
        /\ UNCHANGED <<out, modemVars, scan, todo, captured>>

(* What arrives at a closed port is lost. *)
Drain == /\ at = "wait" /\ out # <<>>
         /\ out' = <<>>
         /\ UNCHANGED <<at, sent, text, pollVars, modemVars, denied, cut, taken, late>>

Proceed == /\ at \in DOMAIN After /\ Answered
           /\ Goto(After[at]) /\ KeepFetch
           /\ Unread /\ UNCHANGED <<scan, todo, captured>>

Earlier(i, j) == i < j

(* list_messages: every listing line of the answer counts. *)
Listed == /\ at = "CMGL" /\ Answered
          /\ Goto("pick") /\ Forget
          /\ \E lines \in Ordered(AtOf("listing"), Earlier) :
               todo' = [i \in DOMAIN lines |-> text[lines[i]].of]
          /\ Unread /\ UNCHANGED <<scan, captured>>

(* The transport key is looked up: what is stored is only deleted. *)
Pick == /\ at = "pick" /\ todo # <<>>
        /\ Goto(IF Head(todo) \in captured THEN "RECPMS" ELSE "CMEE") /\ KeepFetch
        /\ Unread /\ UNCHANGED <<scan, todo, captured>>

ScanEnds == /\ at = "pick" /\ todo = <<>>
            /\ NextStorage
            /\ Unread /\ UNCHANGED captured

(* http_action: the URC may have come before the final result code. *)
ActionAnswered == /\ at = "HTTPACTION" /\ Answered /\ AtOf("head") = {}
                  /\ at' = "URC" /\ sent' = TRUE /\ text' = <<>> /\ KeepFetch
                  /\ Unread /\ UNCHANGED <<scan, todo, captured>>

(* A status that is not 2xx raises, before the try that ends the session. *)
UrcTaken == /\ (at = "HTTPACTION" /\ AtOf("head") # {}) \/ at = "URC"
            /\ Answered
            /\ IF Urc.good
               THEN /\ Goto("HTTPREAD")
                    /\ total' = Urc.total
                    /\ cut' = (Urc.kind = "head") /\ taken' = Urc.of
                    /\ UNCHANGED <<scan, todo, data, denied>>
               ELSE NextMessage
            /\ Unread /\ UNCHANGED captured

(* Mutant: the bytes are read, the offset stays. *)
MutNoProgress == /\ at = "HTTPREAD" /\ Answered
                 /\ Goto("HTTPREAD")
                 /\ Unread /\ UNCHANGED <<scan, todo, captured, data, total, denied, cut, taken>>

(* http_read_all: until as many bytes were read as were announced. *)
ChunkTaken == /\ at = "HTTPREAD" /\ Answered
              /\ data' = data \o Chunk
              /\ Goto(IF Len(data') < total THEN "HTTPREAD" ELSE "CLOSE")
              /\ Unread /\ UNCHANGED <<scan, todo, captured, total, denied, cut, taken>>

(* Mutant: what was read is stored although the reading failed. *)
MutStorePartial == Goto("store") /\ KeepFetch /\ UNCHANGED <<scan, todo>>

(* Mutant: what could not be fetched is deleted all the same. *)
MutDeleteUnfetched == /\ Goto(IF Len(data) < total THEN "RECPMS" ELSE "store")
                      /\ KeepFetch /\ UNCHANGED <<scan, todo>>

(* finally: AT+HTTPTERM was answered, or was not. *)
FetchEnds == IF Len(data) < total THEN NextMessage
             ELSE Goto("store") /\ KeepFetch /\ UNCHANGED <<scan, todo>>

SessionClosed == /\ at = "CLOSE" /\ Answered
                 /\ FetchEnds
                 /\ Unread /\ UNCHANGED captured

Store == /\ at = "store"
         /\ captured' = captured \cup {Head(todo)}
         /\ Goto("RECPMS") /\ Forget
         /\ Unread /\ UNCHANGED <<scan, todo>>

Erased == /\ at = "CMGD" /\ Answered
          /\ NextMessage
          /\ Unread /\ UNCHANGED captured

(* The deadline passes: ModemError, caught where the code catches it. *)
TimesOut == /\ sent /\ ~Answered
            /\ CASE at = "HTTPTERM" -> Goto("HTTPINIT") /\ KeepFetch /\ UNCHANGED <<scan, todo>>
                 [] at = "CLOSE" -> FetchEnds
                 [] at = "HTTPREAD" -> Goto("CLOSE") /\ KeepFetch /\ UNCHANGED <<scan, todo>>
                 [] at \in {"CPMS", "CMGL"} -> NextStorage
                 [] at \in Fetching \ {"HTTPTERM", "HTTPREAD", "CLOSE"} -> NextMessage
                 [] OTHER -> LeavePoll
            /\ late' = late + 1
            /\ UNCHANGED <<out, modemVars, captured>>

(* The port fails, which is no ModemError, or the process dies. *)
PortLost == /\ at \notin {"wait", "pick", "store"}
            /\ LeavePoll
            /\ Unread /\ UNCHANGED captured

Client == \/ WritePlain \/ WriteRefused \/ WriteSelect \/ WriteList \/ WriteErase
          \/ WriteTerm \/ WriteInit \/ WriteUrl \/ WriteAction \/ WriteRead
          \/ WriteReadRefused \/ Receive \/ Proceed \/ Listed \/ Pick \/ ScanEnds
          \/ ActionAnswered \/ UrcTaken \/ ChunkTaken \/ SessionClosed \/ Store
          \/ Erased \/ TimesOut

Next == Client \/ PortLost \/ Open \/ Drain \/ DownloadEnds

(* Every loop of the client has a deadline, and the modem may be dead. *)
Spec == Init /\ [][Next]_vars /\ WF_vars(Client)

-------------------------------------------------------------------------------
(* Nothing in an answer says which command it is for, so the client can    *)
(* only lag behind the modem, by one answer for each deadline it missed.   *)
(* Between two reads for two downloads there are ten answers.              *)
Astray == late >= 9

(* What was read is the beginning of one content, in order and without     *)
(* holes: short chunks, late answers and given up commands do not make     *)
(* http_read_all repeat, skip or mix bytes, before so many of them in one  *)
(* poll that it may take an answer to its read of another content.         *)
PayloadInOrder == ~Astray => \A k \in DOMAIN data : data[k] = <<data[1][1], k>>

(* What the client takes for the answer to its question is about its       *)
(* question, whatever answers came late.  No listing of one memory is      *)
(* taken for a listing of the other.  What is stored for a notification    *)
(* was downloaded from its own URL, unless the modem refused to end the    *)
(* session before and then to take the URL or start the download:          *)
(* command() does not notice a refusal.  And the +HTTPACTION that told the *)
(* status and the length was the one for this download; nothing in it says *)
(* so: an earlier one counts if the modem refused to end the session       *)
(* before, or if three deadlines were missed in this poll, for then the    *)
(* client may have fallen far enough behind the modem for it to hide       *)
(* behind answers that came late.                                          *)
OwnAnswers ==
  /\ \A i \in DOMAIN todo : Place[todo[i]][1] = scan
  /\ at = "store" =>
       /\ \/ \A k \in DOMAIN data : data[k][1] = Head(todo)
          \/ "HTTPTERM" \in denied /\ denied \cap {"HTTPPARA", "HTTPACTION"} # {}
          \/ Astray
       /\ taken = Head(todo) \/ "HTTPTERM" \in denied \/ late >= 3

(* Given its own +HTTPACTION, the client stores all of the content, unless *)
(* a read ended inside the announced length.                               *)
WholeContent == at = "store" /\ taken = Head(todo) /\ ~Astray =>
                  cut \/ Len(data) = Length[Head(todo)]

(* Where each notification lies, as long as the modem holds it. *)
Mailbox == INSTANCE InboundMailbox
             WITH Places <- {Place[m] : m \in Mms}, Pdus <- Mms, Keep <- Mms, Empty <- None,
                  box <- [x \in {Place[m] : m \in Mms} |->
                            IF \E m \in kept : Place[m] = x
                            THEN CHOOSE m \in kept : Place[m] = x ELSE None],
                  stored <- captured

(* The promise of inbound capture, kept over the line itself: the AT+CMGD  *)
(* that poll_once writes takes the message whose content is in the         *)
(* database and no other, and no content is stored twice, whatever answers *)
(* came late, were refused or were taken for those of another command.     *)
RefinesMailbox == Mailbox!Spec

(* A poll comes to an end, and with it the use of the port, even when the  *)
(* modem stops answering in the middle of a download.                      *)
PollEnds == at # "wait" ~> at = "wait"
===============================================================================
