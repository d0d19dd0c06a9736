----------------------------- MODULE MCMmsCapture -----------------------------
(* Instance of MmsCapture: the encodings are those of WAP-209 as the tests *)
(* of sms_api write them.                                                  *)
EXTENDS MmsCapture

Str(bytes) == bytes \o <<0>>
Counted(bytes) == <<Len(bytes)>> \o bytes
CountedLong(bytes) == <<31, Len(bytes)>> \o bytes
Uintvar(n) == IF n < 128 THEN <<n>> ELSE <<128 + n \div 128, n % 128>>

(* Names of types, and the codec, in one byte each. *)
MCMmsTypes == {<<190>>, <<109>>}
MCAlternative == {<<166>>, <<97, 108>>}
MCTransferEncoding == {<<99>>}
MCPlainText == {<<131>>}
MCSmil == {<<115>>}
MCSuffix(type) == IF type = <<158>> THEN <<46, 106>> ELSE Bin
Base64 == <<98>>
MCDecoded(encoding, bytes) ==
  IF encoding # Base64 THEN {bytes}
  ELSE IF Len(bytes) % 2 = 0 THEN {SubSeq(bytes, 1, Len(bytes) \div 2)} ELSE {}

-------------------------------------------------------------------------------
Url == <<104, 131>>

FieldOf(bytes, fault) == [bytes |-> bytes, faults |-> fault]
PushFields ==
  {FieldOf(<<137>> \o Counted(<<128>> \o Str(<<43>>)), {}), FieldOf(<<137, 1, 129>>, {}),
   FieldOf(<<138, 128>>, {}), FieldOf(<<138>> \o Str(<<97>>), {}),
   FieldOf(<<136>> \o CountedLong(<<129, 1, 131>>), {}), FieldOf(<<150>> \o Counted(<<234>> \o Str(<<115>>)), {}),
   FieldOf(<<134, 128>>, {}),
   FieldOf(<<150>> \o Str(<<115>>), {"subject"}), 
   \* sizes of 1170, 33668 and 35327 bytes, as the long integers they are
   FieldOf(<<142, 2, 4, 146>>, {"size"}), FieldOf(<<142, 2, 131, 132>>, {"size"}),
   FieldOf(<<142, 2, 137, 255>>, {"size"}),
   FieldOf(<<146, 128>>, {"unknown"})}

Fixed == <<140, 130, 152>> \o Str(<<116>>) \o <<141, 146>>
Location == <<131>> \o Str(Url)

PushOf(type, notice) == <<1, 6>> \o Uintvar(Len(type)) \o type \o notice
Notices == {[bytes |-> Fixed \o f.bytes \o g.bytes \o Location, faults |-> f.faults \cup g.faults] :
              f \in PushFields, g \in PushFields}
           \cup {[bytes |-> Fixed \o Location \o f.bytes, faults |-> {}] : f \in PushFields}
Types == {<<190>>, Str(<<109>>), Counted(<<190, 129, 234>>)}
WholePushes == {[bytes |-> PushOf(<<190>>, n.bytes), faults |-> n.faults] : n \in Notices}
               \cup {[bytes |-> PushOf(t, Fixed \o Location), faults |-> {}] : t \in Types}
PlainPush == PushOf(<<190>>, Fixed \o Location)
LongPush == PushOf(<<190>>, Fixed \o <<137, 1, 129>> \o <<136>> \o CountedLong(<<129, 1, 131>>) \o Location)
Segments == {SubSeq(LongPush, 1, n) : n \in 1..(Len(LongPush) - 1)}
            \cup {SubSeq(LongPush, n, Len(LongPush)) : n \in 2..Len(LongPush)}
Pushes == WholePushes \cup {[bytes |-> s, faults |-> {"cut"}] : s \in Segments}

-------------------------------------------------------------------------------
X == <<120, 46, 98>>                 \* x.b
XBlank == <<120, 47, 32, 120, 46, 98>>  \* x/ x.b
Indexed == <<51, 45>> \o X           \* 3-x.b

Meant(type, bytes, name, filename, place) ==
  [type |-> type, bytes |-> bytes, name |-> name, filename |-> filename, location |-> place]
PartOf(type, headers, bytes, meant) ==
  [bytes |-> Uintvar(Len(type) + Len(headers)) \o Uintvar(Len(bytes)) \o type \o headers \o bytes,
   meant |-> meant]

Image == <<158>>
TextPart == PartOf(Counted(<<131, 129, 234>>), <<192, 34>> \o Str(<<60>>), <<72>>,
                   Meant(<<131>>, <<72>>, <<>>, <<>>, <<>>))
PaddedText == PartOf(<<131>>, <<>>, <<32, 72, 105, 13, 10>>,
                     Meant(<<131>>, <<32, 72, 105, 13, 10>>, <<>>, <<>>, <<>>))
BlankText == PartOf(<<131>>, <<>>, <<10>>, Meant(<<131>>, <<10>>, <<>>, <<>>, <<>>))
SmilPart == PartOf(Str(<<115>>), <<>>, <<60, 47>>, Meant(<<115>>, <<60, 47>>, <<>>, <<>>, <<>>))
ByName(n, b) == PartOf(Counted(Image \o <<133>> \o Str(n)), <<>>, b, Meant(Image, b, n, <<>>, <<>>))
ByLocation(n, b) == PartOf(Image, <<142>> \o Str(n), b, Meant(Image, b, <<>>, <<>>, n))
ByFilename(n, b) == PartOf(Image, <<174>> \o Counted(<<129, 152>> \o Str(n)), b,
                           Meant(Image, b, <<>>, n, <<>>))
ByTextDisposition(n, b) == PartOf(Image, <<197>> \o Counted(Str(<<97>>) \o <<152>> \o Str(n)) \o <<160, 1>>, b,
                                  Meant(Image, b, <<>>, n, <<>>))
Unnamed(b) == PartOf(Image, <<>>, b, Meant(Image, b, <<>>, <<>>, <<>>))
InBase64(b) == PartOf(Str(<<106>>), Str(<<99>>) \o Str(Base64), b \o b, Meant(<<106>>, b, <<>>, <<>>, <<>>))
AlternativePart == PartOf(<<166>>, <<>>, <<2>> \o TextPart.bytes \o Unnamed(<<7>>).bytes, TextPart.meant)

Files1 == {ByName(X, <<1>>), ByLocation(X, <<2, 2>>), ByFilename(XBlank, <<3>>), Unnamed(<<>>)}
Shapes == Files1 \cup {TextPart, SmilPart, AlternativePart, InBase64(<<5>>), ByTextDisposition(X, <<4>>)}
PartLists == {<<>>} \cup {<<p>> : p \in Shapes} \cup {<<p, q>> : p \in Shapes, q \in Shapes}
             \cup {<<ByName(X, <<1>>), ByName(Indexed, <<2>>), ByName(X, <<3>>)>>,
                   <<ByName(X, <<1>>), TextPart, ByName(X, <<3>>)>>,
                   <<BlankText, Unnamed(<<7>>), PaddedText>>}

Subjects == {[bytes |-> <<>>, meant |-> <<>>, faults |-> {}],
             [bytes |-> <<150>> \o Str(<<115>>), meant |-> <<115>>, faults |-> {}],
             [bytes |-> <<150>> \o Counted(<<234>> \o Str(<<115>>)), meant |-> <<115>>, faults |-> {}],
             [bytes |-> <<150>> \o Counted(<<2, 3, 232, 0, 115, 0, 0>>), meant |-> <<115>>, faults |-> {"charset"}]}
BodyFields == {<<133, 4, 1, 0, 132, 4>>, <<143, 129>>, <<138>> \o Str(<<97>>), <<147, 34>> \o Str(<<97>>),
               <<136, 2, 132, 7>>, <<139>> \o Str(<<105>>), <<137>> \o Counted(<<128>> \o Str(<<43>>))}
BodyTypes == {<<179>>, Str(<<97>>), Counted(<<179, 138>> \o Str(<<115>>) \o <<137>> \o Str(<<97>>)),
              Counted(<<179, 129, 2, 3, 232>>),
              Counted(<<179, 131, 131, 129>> \o Str(<<117>>) \o <<137, 158, 153>> \o Str(<<60>>))}

Head0 == <<140, 132, 152>> \o Str(<<116>>) \o <<141, 146>>
MessageOf(s, field, type, ps) ==
  [bytes |-> Head0 \o s.bytes \o field \o <<132>> \o type \o Uintvar(Len(ps))
             \o FlattenSeq([i \in DOMAIN ps |-> ps[i].bytes]),
   subject |-> s.meant, faults |-> s.faults, parts |-> [i \in DOMAIN ps |-> ps[i].meant]]
NoSubject == CHOOSE s \in Subjects : s.bytes = <<>>
Texts == {<<>>, <<TextPart>>, <<BlankText>>, <<PaddedText, TextPart>>, <<BlankText, Unnamed(<<7>>)>>}
Messages == {MessageOf(NoSubject, <<>>, <<179>>, ps) : ps \in PartLists}
            \cup {MessageOf(s, <<>>, <<179>>, ps) : s \in Subjects, ps \in Texts}
            \cup {MessageOf(s, f, <<179>>, <<Unnamed(<<9>>)>>) : s \in Subjects, f \in BodyFields}
            \cup {MessageOf(NoSubject, <<>>, t, <<Unnamed(<<9>>)>>) : t \in BodyTypes}
(* A part whose header length is one short of its content type. *)
ShortHeaders == [MessageOf(NoSubject, <<>>, <<179>>, <<ByName(X, <<1>>)>>) EXCEPT
                   !.bytes[Len(Head0) + 4] = Len(X) + 3, !.faults = {"malformed"}]
PlainMessage == MessageOf(NoSubject, <<>>, <<179>>, <<Unnamed(<<9>>)>>)

Delivery(push, faults, m) ==
  [push |-> push, location |-> Url, message |-> m.bytes, subject |-> m.subject,
   parts |-> m.parts, faults |-> faults \cup m.faults]
MCDeliveries == {Delivery(p.bytes, p.faults, PlainMessage) : p \in Pushes}
                \cup {Delivery(PlainPush, {}, m) : m \in Messages \cup {ShortHeaders}}
===============================================================================
