------------------------------- MODULE MmsCapture -------------------------------
(***************************************************************************)
(* An MMS from the binary SMS that announces it to the row that is stored: *)
(* WapPush reads the notification, the poller downloads what it points to, *)
(* MmsBody reads that, build_mms_attachments writes the media files, and   *)
(* the row names them.  A download may end early, and the process may stop *)
(* anywhere before the row is stored: the SMS is then still on the SIM,    *)
(* and the next poll starts again, over the files that are already there.  *)
(***************************************************************************)
EXTENDS WapPush, MmsBody

CONSTANTS Deliveries,    \* set of [push, location, message, subject, parts, faults]: the
                         \* bytes of the SMS and of the MMS, what their senders meant, and
                         \* what of it the parsers are known to misread
          PlainText,     \* type names that start with text/plain
          Smil,          \* names of application/smil
          Suffix(_),     \* mimetypes.guess_extension, or .bin
          MaxPolls       \* polls of one behaviour

ASSUME BytesDelivered == \A d \in Deliveries : d.push \in Seq(Nat) /\ d.message \in Seq(Nat)

VARIABLES delivery,  \* what the network delivers
          payload,   \* what was downloaded
          placed,    \* parts looked at by build_mms_attachments
          listed,    \* attachments
          disk,      \* the media directory of this SMS: file name -> bytes
          row,       \* the stored message, as a set of at most one
          polls

ownVars == <<delivery, payload, placed, listed, disk, row, polls>>
vars == <<data, at, stage, pushVars, bodyVars, ownVars>>

NoFiles == [name \in {} |-> <<>>]

Init == /\ delivery \in Deliveries
        /\ data = delivery.push /\ at = 0 /\ stage = "push"
        /\ messageType = 0 /\ location = <<>> /\ filed = "none"
        /\ kind = 0 /\ subject = <<>> /\ part = NoPart /\ left = 0 /\ end = 0
        /\ parts = <<>> /\ outer = <<>>
        /\ payload = <<>> /\ placed = 0 /\ listed = <<>> /\ disk = NoFiles
        /\ row = {} /\ polls = 1

ReadPush == PushStep /\ UNCHANGED <<bodyVars, ownVars>>

(* fetch_http; the network may end it anywhere. *)
Download == /\ stage = "filed" /\ filed = "MMS"
            /\ \E n \in 0..Len(delivery.message) : payload' = SubSeq(delivery.message, 1, n)
            /\ data' = payload' /\ at' = 0 /\ stage' = "header"
            /\ UNCHANGED <<pushVars, bodyVars, delivery, placed, listed, disk, row, polls>>

ReadBody == BodyStep /\ UNCHANGED <<pushVars, ownVars>>

-------------------------------------------------------------------------------
(* The media files. *)
Unsafe(c) == c \notin (48..57) \cup (65..90) \cup (97..122) \cup {45, 46, 95}
Slash == 47
Dot == 46
Underscore == 95
PartName == <<112, 97, 114, 116, 45>>     \* part-
Bin == <<46, 98, 105, 110>>               \* .bin
RawMms == <<114, 97, 119, 46, 109, 109, 115>>
Digits(i) == LET decimal[n \in 0..i] == IF n < 10 THEN <<48 + n>>
                                        ELSE Append(decimal[n \div 10], 48 + (n % 10))
             IN decimal[i]

(* Path(name).name, for a name that ends in neither a slash nor a lone dot. *)
LastComponent(name) ==
  LET slash == Max({0} \cup {i \in DOMAIN name : name[i] = Slash})
  IN SubSeq(name, slash + 1, Len(name))

FirstOf(names) == names[Min({i \in DOMAIN names : names[i] # <<>>})]

SelectFilename(p, i) ==
  LET candidate == FirstOf(<<p.filename, p.name, p.location, PartName \o Digits(i)>>)
      named == LastComponent(candidate)
  IN IF Contains(named, Dot) THEN named ELSE named \o Suffix(p.type)

(* A run of other characters becomes one underscore; dots and underscores *)
(* at both ends go.                                                       *)
SafeName(name) ==
  LET kept == {i \in DOMAIN name : Unsafe(name[i]) => i = 1 \/ ~Unsafe(name[i - 1])}
      nth(k) == name[CHOOSE i \in kept : Cardinality({j \in kept : j <= i}) = k]
      mapped == [k \in 1..Cardinality(kept) |-> IF Unsafe(nth(k)) THEN Underscore ELSE nth(k)]
      solid == {k \in DOMAIN mapped : mapped[k] \notin {Dot, Underscore}}
  IN IF solid = {} THEN <<>> ELSE SubSeq(mapped, Min(solid), Max(solid))

Skipped(p) == p.type \in PlainText \cup Smil

OwnName(p, i) == LET safe == SafeName(SelectFilename(p, i))
                 IN IF safe = <<>> THEN PartName \o Digits(i) \o Bin ELSE safe
Prefixed(name, i) == Digits(i) \o <<45>> \o name

(* Mutant: a file that exists is written over. *)
MutOverwrite(p, i) == OwnName(p, i)

(* A name that is taken gets the index in front; whether that is free, is  *)
(* not looked at.                                                          *)
Destination(p, i) == LET name == OwnName(p, i)
                     IN IF name \in DOMAIN disk THEN Prefixed(name, i) ELSE name

Place(name, bytes) == disk' = [f \in DOMAIN disk \cup {name} |-> IF f = name THEN bytes ELSE disk[f]]

Current == parts[placed + 1]
Writing == stage = "parsed" /\ placed < Len(parts)
Files == <<delivery, payload, polls, row, pushVars, bodyVars, data, at>>

SkipPart == /\ Writing /\ Skipped(Current)
            /\ placed' = placed + 1
            /\ UNCHANGED <<Files, stage, listed, disk>>

WritePart ==
  /\ Writing /\ ~Skipped(Current)
  /\ LET name == Destination(Current, Len(listed) + 1)
     IN /\ Place(name, Current.bytes)
        /\ listed' = Append(listed, [file |-> name, bytes |-> Current.bytes])
  /\ placed' = placed + 1
  /\ UNCHANGED <<Files, stage>>

(* What was not parsed, or gave no attachment, is attached as it came; what *)
(* was parsed stays so, and its text is the message's.                      *)
WriteRaw ==
  /\ \/ stage = "raw"
     \/ stage = "parsed" /\ placed = Len(parts) /\ listed = <<>>
  /\ Place(RawMms, payload)
  /\ listed' = <<[file |-> RawMms, bytes |-> payload]>>
  /\ placed' = Len(parts)
  /\ stage' = IF stage = "raw" THEN "attached" ELSE stage
  /\ UNCHANGED Files

-------------------------------------------------------------------------------
(* str.strip, on the characters that are one byte. *)
Blank == (9..13) \cup (28..32)
Trimmed(bytes) == LET solid == {i \in DOMAIN bytes : bytes[i] \notin Blank}
                  IN IF solid = {} THEN <<>> ELSE SubSeq(bytes, Min(solid), Max(solid))

(* extract_mms_text; the empty text stands for the placeholders. *)
Text(ps, title) ==
  LET texts == SelectSeq(ps, LAMBDA p : p.type \in PlainText /\ Trimmed(p.bytes) # <<>>)
  IN IF texts # <<>> THEN Trimmed(Head(texts).bytes) ELSE title

(* create_inbound_message. *)
Store == /\ \/ stage = "filed" /\ filed = "BINARY"
            \/ stage = "attached"
            \/ stage = "parsed" /\ placed = Len(parts) /\ listed # <<>>
         /\ row' = {[service |-> filed, location |-> location, attachments |-> listed,
                     body |-> IF stage = "parsed" THEN Text(parts, subject) ELSE <<>>]}
         /\ stage' = "stored"
         /\ UNCHANGED <<data, at, pushVars, bodyVars, delivery, payload, placed, listed, disk, polls>>

(* The next poll finds the SMS on the SIM again, and the files on the disk. *)
PollAgain == /\ polls < MaxPolls
             /\ polls' = polls + 1 /\ stage' = "filed"
             /\ kind' = 0 /\ subject' = <<>> /\ part' = NoPart /\ left' = 0 /\ end' = 0
             /\ parts' = <<>> /\ outer' = <<>>
             /\ data' = <<>> /\ at' = 0 /\ payload' = <<>> /\ placed' = 0 /\ listed' = <<>>
             /\ UNCHANGED <<pushVars, delivery, row>>

(* An exception ended the poll, or the process stopped between two files. *)
Interrupted == stage \in {"raised", "parsed", "attached"} /\ PollAgain /\ UNCHANGED disk

(* The process stopped while it wrote one. *)
CutWrite == /\ Writing /\ ~Skipped(Current)
            /\ Place(Destination(Current, Len(listed) + 1), <<>>)
            /\ PollAgain

Next == \/ ReadPush \/ Download \/ ReadBody \/ SkipPart \/ WritePart \/ WriteRaw
        \/ Store \/ Interrupted \/ CutWrite

Spec == Init /\ [][Next]_vars

-------------------------------------------------------------------------------
Stages == {"push", "notice", "filed", "header", "bodyParams", "count", "part", "partParams",
           "partHeaders", "parsed", "raw", "raised", "attached", "stored"}

(* The shape of the state, and what the last check of                      *)
(* parse_mms_retrieve_conf relies on: where no inner loop runs, the offset *)
(* of mms.py is never behind the data.                                     *)
TypeOK == /\ stage \in Stages /\ at \in Nat /\ left \in Nat /\ end \in Nat
          /\ filed \in {"none", "MMS", "BINARY", "raised"}
          /\ placed \in 0..Len(parts)
          /\ stage \in {"header", "part", "parsed"} => at <= Len(data)

(* An MMS is announced once: if its notification is taken for something    *)
(* else, or its URL for another, the message is lost.  A notification that *)
(* came whole, with none of the headers pdu.py does not frame before its   *)
(* location, is filed as an MMS under exactly its location; the first SMS  *)
(* of a longer one gives at most the beginning of it; and the poll is      *)
(* aborted by nothing but a Subject without a length or a notification in  *)
(* pieces.                                                                 *)
PushFiledTrue ==
  stage = "filed" =>
    /\ delivery.faults = {} => filed = "MMS" /\ location = delivery.location
    /\ filed = "MMS" => "size" \in delivery.faults \/ IsPrefix(location, delivery.location)
    /\ filed = "raised" => delivery.faults \cap {"subject", "size", "cut"} # {}

(* A download that ended early is never taken for the message, and a whole *)
(* one is read as what was sent, part by part, whatever headers and        *)
(* parameters frame the parts; then it neither aborts the poll nor ends as *)
(* an unread attachment.  The row shows the first text the sender wrote,   *)
(* or else the subject, and nothing of a message that was not read to its  *)
(* end.  A subject in a charset whose text has NUL bytes misleads the      *)
(* header loop, and a part with wrong lengths is refused.                  *)
BodyTakenTrue ==
  /\ stage = "parsed" => payload = delivery.message /\ parts = delivery.parts
  /\ (stage \in {"parsed", "raw", "raised"} /\ payload = delivery.message
      /\ delivery.faults \cap {"charset", "malformed"} = {}) =>
       stage = "parsed" /\ subject = delivery.subject
  /\ \A m \in row :
       m.service = "MMS" /\ "charset" \notin delivery.faults =>
         m.body = IF payload = delivery.message /\ "malformed" \notin delivery.faults
                  THEN Text(delivery.parts, delivery.subject) ELSE <<>>

(* The parts that become files, and the index each one gets. *)
Media == {i \in DOMAIN parts : ~Skipped(parts[i])}
Index(i) == Cardinality({j \in Media : j <= i})

(* A name that one part has and another is given by its index. *)
NamesCross ==
  \E i, j \in Media :
    OwnName(parts[i], Index(i)) = Prefixed(OwnName(parts[j], Index(j)), Index(j))

(* Every file of the stored message holds the bytes of its own part, over  *)
(* whatever an interrupted poll left in the directory, and every part that *)
(* is no text is there, in order.  Only a part whose own name is another's *)
(* with an index in front can be written over.                             *)
FilesTrue ==
  \A m \in row :
    /\ ~NamesCross => \A i \in DOMAIN m.attachments :
         disk[m.attachments[i].file] = m.attachments[i].bytes
    /\ m.service = "MMS" /\ m.attachments[1].file # RawMms =>
         /\ Len(m.attachments) = Cardinality(Media)
         /\ \A i \in Media : m.attachments[Index(i)].bytes = parts[i].bytes
===============================================================================
