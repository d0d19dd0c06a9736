-------------------------------- MODULE MmsBody --------------------------------
(***************************************************************************)
(* parse_mms_retrieve_conf of sms_api/mms.py: what the poller makes of the *)
(* bytes it downloaded.  One action is one round of one of its loops.  It  *)
(* ends in "parsed", in "raw" (the parser returns None) or in "raised"     *)
(* (an exception that only the loop of the poller's thread catches).       *)
(***************************************************************************)
EXTENDS Wsp

CONSTANTS Alternative,          \* names of application/vnd.wap.multipart.alternative
          TransferEncoding,     \* the name content-transfer-encoding
          Decoded(_, _)         \* {bytes decoded}, or {} when the codec raises ValueError

VARIABLES kind,     \* message_type, 0 for None
          subject,
          part,     \* the part being read
          left,     \* how many of parse_parts's count are still to come
          end,      \* where the inner loop ends
          parts,    \* the parts read so far
          outer     \* the parse_parts calls that wait for a nested one

bodyVars == <<kind, subject, part, left, end, parts, outer>>

RetrieveConf == 132                       \* 0x84
NoPart == [type |-> <<>>, headersEnd |-> 0, size |-> 0, name |-> <<>>,
           filename |-> <<>>, location |-> <<>>, encoding |-> <<>>]

Ends(how) == stage' = how /\ UNCHANGED <<data, at, bodyVars>>
MoveTo(o) == at' = o /\ UNCHANGED <<data, stage, kind, subject, left, end, parts, outer>>
Goto(o) == MoveTo(o) /\ UNCHANGED part

-------------------------------------------------------------------------------
(* The readers of mms.py. *)
WapString(o) == ReadText(o, Quote)

EncodedString(o) ==
  CASE ~Inside(o) -> {Result(<<>>, o)}
    [] Inside(o) /\ Byte(o) = 0 -> {Result(<<>>, o + 1)}
    [] Inside(o) /\ Byte(o) \in 1..31 ->
         {WapString(l.next + 1) : l \in {v \in ReadValueLength(o) : Inside(v.next)}}
    [] OTHER -> {WapString(o)}

IntegerEnd(o) == CASE ~Inside(o) -> {}
                   [] Inside(o) /\ Byte(o) > 127 -> {o + 1}
                   [] OTHER -> {o + 1 + Byte(o)} \cap 0..Len(data)

(* Mutant: a value may reach behind the data. *)
MutUnclipped(o) == {l.next + l.value : l \in ReadValueLength(o)}

LengthValueEnd(o) == {Min({l.next + l.value, Len(data)}) : l \in ReadValueLength(o)}

HeaderValueEnd(o) ==
  CASE ~Inside(o) -> {o}
    [] Inside(o) /\ Byte(o) < 32 -> LengthValueEnd(o)
    [] Inside(o) /\ Byte(o) > 127 -> {o + 1}
    [] OTHER -> {ReadText(o, IF Byte(o) = DoubleQuote THEN DoubleQuote ELSE Quote).next}

TypeName(o) == IF Byte(o) > 127 THEN Result(WellKnown(Byte(o)), o + 1) ELSE WapString(o)

(* parse_content_type up to its parameters, which end at "until". *)
ContentType(o) ==
  CASE ~Inside(o) -> {}
    [] Inside(o) /\ Byte(o) >= 32 ->
         {[value |-> TypeName(o).value, next |-> TypeName(o).next, until |-> TypeName(o).next]}
    [] OTHER ->
         {[value |-> TypeName(l.next).value, next |-> TypeName(l.next).next,
           until |-> l.next + l.value] :
            l \in {v \in ReadValueLength(o) : /\ Inside(v.next) /\ Byte(v.next) >= 32
                                              /\ TypeName(v.next).next <= v.next + v.value}}

-------------------------------------------------------------------------------
(* The header loop of the message. *)
InHeader == stage = "header" /\ Inside(at)

ReadMessageType ==
  /\ InHeader /\ Field = 140
  /\ IF Inside(at + 1)
     THEN /\ kind' = Byte(at + 1) /\ at' = at + 2
          /\ UNCHANGED <<data, stage, subject, part, left, end, parts, outer>>
     ELSE Ends("raw")

ReadSubject ==
  /\ InHeader /\ Field = 150
  /\ \E r \in EncodedString(at + 1) :
       /\ subject' = r.value /\ at' = r.next
       /\ UNCHANGED <<data, stage, kind, part, left, end, parts, outer>>

(* Where the value of any other header ends.  That datetime refuses a Date *)
(* after the year 9999 is left out.                                        *)
ValueEnd == CASE Field \in {139, 152} -> {WapString(at + 1).next}
              [] Field = 133 -> IntegerEnd(at + 1)
              [] Field = 137 -> LengthValueEnd(at + 1)
              [] OTHER -> HeaderValueEnd(at + 1)

SkipHeader == /\ InHeader /\ Field \notin {132, 140, 150}
              /\ \E o \in ValueEnd : Goto(o)

OpenBodyType ==
  /\ InHeader /\ Field = 132
  /\ \E t \in ContentType(at + 1) :
       /\ part' = [NoPart EXCEPT !.type = t.value] /\ at' = t.next /\ end' = t.until
  /\ stage' = "bodyParams"
  /\ UNCHANGED <<data, kind, subject, left, parts, outer>>

HeaderRaises == /\ InHeader
                /\ \/ Field = 132 /\ ContentType(at + 1) = {}
                   \/ Field = 150 /\ EncodedString(at + 1) = {}
                   \/ Field \notin {132, 140, 150} /\ ValueEnd = {}
                /\ Ends("raised")

NoContentType == stage = "header" /\ ~Inside(at) /\ Ends("raw")

-------------------------------------------------------------------------------
(* parse_content_type_params, for the message and for each part. *)
InParams == stage \in {"bodyParams", "partParams"}
Parameter == InParams /\ at < end /\ Inside(at)
TypeParams == {131, 137}
TextParams == {133, 138, 151, 153}
CharsetParam == 129

ReadName == /\ Parameter /\ Field \in {133, 151}
            /\ part' = [part EXCEPT !.name = WapString(at + 1).value]
            /\ MoveTo(WapString(at + 1).next)

ParameterEnd ==
  CASE Field \in TextParams -> {WapString(at + 1).next}
    [] Field \in TypeParams -> {TypeName(at + 1).next}
    [] Field = CharsetParam ->
         IF Byte(at + 1) \in {0} \cup 33..126 THEN {WapString(at + 1).next}
         ELSE IntegerEnd(at + 1)
    [] OTHER -> {end}

CutParameter == Parameter /\ Field \in TypeParams \cup {CharsetParam} /\ ~Inside(at + 1)

SkipParameter == /\ Parameter /\ Field \notin {133, 151} /\ ~CutParameter
                 /\ \E o \in ParameterEnd : Goto(o)

(* A ValueError is caught around parse_parts only. *)
ValueError == Ends(IF stage \in {"header", "bodyParams"} THEN "raised" ELSE "raw")

ParameterFails == /\ Parameter /\ Field = CharsetParam /\ ~CutParameter
                  /\ ParameterEnd = {} /\ ValueError

(* data[offset] past the end of the data. *)
IndexError == /\ stage \in {"bodyParams", "partParams", "partHeaders"}
              /\ at < end /\ ~Inside(at)
              /\ Ends("raised")

ParamsEnd == IF CutParameter THEN {at + 1} ELSE IF InParams /\ at >= end THEN {end} ELSE {}

(* An empty type, or parameters that run past the part's headers. *)
Refused(o) == \/ part.type = <<>>
              \/ stage = "partParams" /\ o > part.headersEnd

BodyTypeRead ==
  /\ stage = "bodyParams"
  /\ \E o \in ParamsEnd : ~Refused(o) /\ at' = o
  /\ stage' = IF kind = RetrieveConf THEN "count" ELSE "raw"
  /\ part' = NoPart
  /\ UNCHANGED <<data, kind, subject, left, end, parts, outer>>

PartTypeRead ==
  /\ stage = "partParams"
  /\ \E o \in ParamsEnd : ~Refused(o) /\ at' = o
  /\ stage' = "partHeaders" /\ end' = part.headersEnd
  /\ UNCHANGED <<data, kind, subject, part, left, parts, outer>>

TypeFails == (\E o \in ParamsEnd : Refused(o)) /\ ValueError

-------------------------------------------------------------------------------
(* parse_parts. *)
ReadCount == /\ stage = "count"
             /\ \E r \in ReadUintvar(at) : left' = r.value /\ at' = r.next
             /\ stage' = "part"
             /\ UNCHANGED <<data, kind, subject, part, end, parts, outer>>

(* The two lengths of a part and its content type. *)
OpenPart ==
  /\ stage = "part" /\ left > 0
  /\ \E h \in ReadUintvar(at) : \E d \in ReadUintvar(h.next) : \E t \in ContentType(d.next) :
       /\ part' = [NoPart EXCEPT !.type = t.value, !.size = d.value,
                                 !.headersEnd = d.next + h.value]
       /\ at' = t.next /\ end' = t.until
  /\ left' = left - 1
  /\ stage' = "partParams"
  /\ UNCHANGED <<data, kind, subject, parts, outer>>

CountFails == /\ \/ stage = "count" /\ ReadUintvar(at) = {}
                 \/ /\ stage = "part" /\ left > 0
                    /\ ~\E h \in ReadUintvar(at) : \E d \in ReadUintvar(h.next) :
                          ContentType(d.next) # {}
              /\ ValueError

(* parse_part_headers. *)
PartHeader == stage = "partHeaders" /\ at < end /\ Inside(at)
Dispositions == {174, 197}                \* 0xAE, 0xC5
DispositionValues == 128..130
FilenameParam == 152

ReadPartLocation == /\ PartHeader /\ Field = 142
                    /\ part' = [part EXCEPT !.location = WapString(at + 1).value]
                    /\ MoveTo(WapString(at + 1).next)

(* Behind the disposition's own value. *)
DispositionParam(o) == IF Inside(o) /\ Byte(o) \in DispositionValues THEN o + 1
                       ELSE WapString(o).next

ReadDisposition ==
  /\ PartHeader /\ Field \in Dispositions
  /\ \E l \in ReadValueLength(at + 1) :
       LET until == l.next + l.value
           param == DispositionParam(l.next)
           named == param < until /\ Inside(param) /\ Byte(param) = FilenameParam
           file == WapString(param + 1)
       IN /\ param < until => Inside(param)
          /\ part' = IF named THEN [part EXCEPT !.filename = file.value] ELSE part
          /\ MoveTo(Max({until, IF named THEN file.next ELSE param}))

DispositionFails ==
  /\ PartHeader /\ Field \in Dispositions
  /\ \/ ReadValueLength(at + 1) = {} /\ ValueError
     \/ \E l \in ReadValueLength(at + 1) :
          DispositionParam(l.next) < l.next + l.value /\ ~Inside(DispositionParam(l.next))
          /\ Ends("raised")

ReadTextHeader ==
  /\ PartHeader /\ Field \in 32..127
  /\ LET name == WapString(at)
         value == WapString(name.next)
     IN /\ part' = IF name.value \in TransferEncoding /\ value.value # <<>>
                   THEN [part EXCEPT !.encoding = value.value] ELSE part
        /\ MoveTo(value.next)

SkipPartHeader ==
  /\ PartHeader /\ Field \notin 32..127 \cup {142} \cup Dispositions
  /\ Goto(IF Field = 192 THEN ReadText(at + 1, DoubleQuote).next ELSE end)

(* Mutant: the part is taken as it was encoded. *)
MutUndecoded == IF end + part.size > Len(data) THEN {} ELSE {Slice(end, end + part.size)}

PartData == IF end + part.size > Len(data) THEN {}
            ELSE LET bytes == Slice(end, end + part.size)
                 IN IF part.encoding = <<>> THEN {bytes} ELSE Decoded(part.encoding, bytes)

PartRead == stage = "partHeaders" /\ at >= end

TakePart ==
  /\ PartRead /\ part.type \notin Alternative
  /\ \E bytes \in PartData :
       parts' = Append(parts, [type |-> part.type, bytes |-> bytes, name |-> part.name,
                               filename |-> part.filename, location |-> part.location])
  /\ stage' = "part" /\ at' = end + part.size
  /\ UNCHANGED <<data, kind, subject, part, left, end, outer>>

EnterAlternative ==
  /\ PartRead /\ part.type \in Alternative
  /\ \E bytes \in PartData : data' = bytes
  /\ outer' = Append(outer, [data |-> data, at |-> end + part.size, left |-> left, parts |-> parts])
  /\ stage' = "count" /\ at' = 0 /\ parts' = <<>>
  /\ UNCHANGED <<kind, subject, part, left, end>>

PartFails == PartRead /\ PartData = {} /\ ValueError

(* Of the alternatives only the first is kept. *)
LeaveAlternative ==
  /\ stage = "part" /\ left = 0 /\ outer # <<>>
  /\ LET call == Last(outer)
     IN /\ data' = call.data /\ at' = call.at /\ left' = call.left
        /\ parts' = call.parts \o SubSeq(parts, 1, Min({1, Len(parts)}))
  /\ outer' = Front(outer)
  /\ UNCHANGED <<stage, kind, subject, part, end>>

BodyDone == stage = "part" /\ left = 0 /\ outer = <<>> /\ Ends("parsed")

BodyStep == \/ ReadMessageType \/ ReadSubject \/ SkipHeader \/ OpenBodyType \/ HeaderRaises
            \/ NoContentType \/ ReadName \/ SkipParameter \/ ParameterFails \/ IndexError
            \/ BodyTypeRead \/ PartTypeRead \/ TypeFails \/ ReadCount \/ OpenPart \/ CountFails
            \/ ReadPartLocation \/ ReadDisposition \/ DispositionFails \/ ReadTextHeader
            \/ SkipPartHeader \/ TakePart \/ EnterAlternative \/ PartFails \/ LeaveAlternative
            \/ BodyDone
===============================================================================
