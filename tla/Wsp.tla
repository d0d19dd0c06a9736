---------------------------------- MODULE Wsp ----------------------------------
(***************************************************************************)
(* The readers that the two binary parsers of sms_api share: pdu.py for    *)
(* the WAP push that announces an MMS, mms.py for the MMS itself.  Each    *)
(* takes an offset into the bytes at hand, counted from 0, and returns a   *)
(* value and the offset behind it.  One that may raise ValueError returns  *)
(* the set of its results, which is empty when it raises.                  *)
(***************************************************************************)
EXTENDS Naturals, Sequences, SequencesExt, FiniteSetsExt

VARIABLES data,  \* the bytes being parsed
          at,    \* the parser's offset
          stage  \* where in which loop it is

Quote == 127
DoubleQuote == 34

Byte(o) == data[o + 1]
Inside(o) == o < Len(data)
Field == Byte(at)
(* data[o:end], which Python cuts at the end of the data. *)
Slice(o, end) == SubSeq(data, o + 1, Min({end, Len(data)}))

Result(value, next) == [value |-> value, next |-> next]

(* The numbers that the bytes from o on make, seven bits each, by their ends. *)
SevenBits(o) ==
  LET number[i \in o..Len(data)] ==
        IF i = o THEN 0 ELSE 128 * number[i - 1] + (Byte(i - 1) % 128)
  IN number

(* The first byte without the continuation bit ends the number. *)
ReadUintvar(o) ==
  LET ends == {i \in o..(Len(data) - 1) : Byte(i) < 128}
  IN {Result(SevenBits(o)[i + 1], i + 1) : i \in {e \in ends : e = Min(ends)}}

ReadValueLength(o) ==
  CASE ~Inside(o) -> {}
    [] Inside(o) /\ Byte(o) <= 30 -> {Result(Byte(o), o + 1)}
    [] Inside(o) /\ Byte(o) = 31 -> ReadUintvar(o + 1)
    [] OTHER -> {}

(* Up to a NUL or to the end of the data, without one leading mark. *)
ReadText(o, mark) ==
  IF ~Inside(o) THEN Result(<<>>, o)
  ELSE LET start == IF Byte(o) = mark THEN o + 1 ELSE o
           end == Min({i \in start..Len(data) : i = Len(data) \/ Byte(i) = 0})
       IN Result(Slice(start, end), IF end < Len(data) THEN end + 1 ELSE end)

(* The entry of WSP_CONTENT_TYPES a short integer stands for, as a name. *)
WellKnown(b) == <<128 + (b % 128)>>
===============================================================================
