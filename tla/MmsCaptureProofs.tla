--------------------------- MODULE MmsCaptureProofs ---------------------------
(***************************************************************************)
(* What holds of MmsCapture for every notification and every message,      *)
(* whatever bytes they are made of.                                        *)
(***************************************************************************)
EXTENDS MmsCapture, SequenceTheorems, FiniteSetTheorems, TLAPS

Text0 == Seq(Nat)

(* What the codecs and mimetypes return are bytes. *)
CodecsGiveBytes == /\ \A e, b \in Text0 : Decoded(e, b) \subseteq Text0
                   /\ \A t \in Text0 : Suffix(t) \in Text0

-------------------------------------------------------------------------------
(***************************************************************************)
(* Sets of offsets have a least element, and a greatest one below a bound. *)
(***************************************************************************)
LEMMA LeastOf ==
  ASSUME NEW T \in SUBSET Nat, NEW e \in T
  PROVE  Min(T) \in T /\ \A j \in T : Min(T) <= j
  <1> DEFINE F == {0..i : i \in T}
             R == StrictSubsetOrdering(Nat)
  <1>1. F \subseteq FiniteSubsetsOf(Nat) /\ F # {}
    <2>1. \A i \in T : 0..i \subseteq Nat /\ IsFiniteSet(0..i)
      BY FS_Interval
    <2> QED BY <2>1 DEF FiniteSubsetsOf
  <1>2. IsWellFoundedOn(R, FiniteSubsetsOf(Nat))
    BY FS_StrictSubsetOrderingWellFounded
  <1>3. \E x \in F : \A y \in F : ~(<<y, x>> \in R)
    <2> HIDE DEF F, R
    <2> QED BY <1>1, <1>2, WFMin
  <1>4. PICK i \in T : \A j \in T : ~(<<0..j, 0..i>> \in R)
    BY <1>3
  <1>5. ASSUME NEW j \in T PROVE i <= j
    <2>1. CASE j < i
      <3>1. 0..j \subseteq 0..i /\ i \in 0..i /\ i \notin 0..j
        BY <2>1
      <3>2. <<0..j, 0..i>> \in R
        BY <3>1 DEF StrictSubsetOrdering
      <3> QED BY <1>4, <3>2
    <2> QED BY <2>1
  <1>6. \E x \in T : \A y \in T : x =< y
    BY <1>5
  <1> QED BY <1>6 DEF Min

LEMMA GreatestOf ==
  ASSUME NEW n \in Nat, NEW T \in SUBSET (0..n), NEW e \in T
  PROVE  Max(T) \in T /\ \A j \in T : j <= Max(T)
  <1> DEFINE U == {n - i : i \in T}
  <1>1. U \in SUBSET Nat /\ n - e \in U
    OBVIOUS
  <1>2. Min(U) \in U /\ \A j \in U : Min(U) <= j
    <2> HIDE DEF U
    <2> QED BY <1>1, LeastOf
  <1>3. PICK m \in T : Min(U) = n - m
    BY <1>2
  <1>4. ASSUME NEW j \in T PROVE m >= j
    <2>1. n - j \in U
      OBVIOUS
    <2>2. n - m <= n - j
      <3> HIDE DEF U
      <3> QED BY <1>2, <1>3, <2>1
    <2>3. j \in Nat /\ m \in Nat
      OBVIOUS
    <2> QED BY <2>2, <2>3
  <1>5. \E x \in T : \A y \in T : x >= y
    BY <1>4
  <1> QED BY <1>5 DEF Max

-------------------------------------------------------------------------------
(***************************************************************************)
(* The readers.  A uintvar is a number, although it is defined by recursion*)
(* over its bytes: there is such a function up to every byte, for the      *)
(* first byte without one would have one from the function before it.      *)
(***************************************************************************)
IsNumber(f, o, n) ==
  f = [i \in o..n |-> IF i = o THEN 0 ELSE 128 * f[i - 1] + (Byte(i - 1) % 128)]

LEMMA SevenBitsType ==
  ASSUME data \in Text0, NEW o \in Nat, NEW i \in o..Len(data)
  PROVE  SevenBits(o)[i] \in Nat
  <1>0. Len(data) \in Nat /\ \A k \in (o + 1)..Len(data) : Byte(k - 1) % 128 \in Nat
    <2>1. ASSUME NEW k \in (o + 1)..Len(data) PROVE Byte(k - 1) % 128 \in Nat
      <3>1. k \in 1..Len(data) /\ (k - 1) + 1 = k
        BY DEF Text0
      <3>2. data[k] \in Nat
        BY <3>1 DEF Text0
      <3> QED BY <3>1, <3>2 DEF Byte
    <2> QED BY <2>1 DEF Text0
  <1> DEFINE Has(n) == \E f \in [o..n -> Nat] : IsNumber(f, o, n)
             Bad == {n \in Nat : o <= n /\ n <= Len(data) /\ ~Has(n)}
  <1>1. Bad = {}
    <2> SUFFICES ASSUME Bad # {} PROVE FALSE
      OBVIOUS
    <2>1. PICK n \in Bad : \A m \in Bad : n <= m
      <3>1. PICK e \in Bad : TRUE
        OBVIOUS
      <3>2. Bad \in SUBSET Nat
        OBVIOUS
      <3> HIDE DEF Bad
      <3> QED BY <3>1, <3>2, LeastOf
    <2>2. CASE n = o
      <3> DEFINE f == [k \in o..o |-> 0]
      <3>1. f \in [o..n -> Nat] /\ IsNumber(f, o, n)
        BY <2>2 DEF IsNumber
      <3> HIDE DEF f
      <3> QED BY <3>1
    <2>3. CASE n # o
      <3>0. n \in Nat /\ o <= n /\ n <= Len(data)
        <4> HIDE DEF Has
        <4> QED OBVIOUS
      <3>1. n - 1 \in Nat /\ o <= n - 1 /\ n - 1 <= Len(data) /\ n - 1 < n
        BY <1>0, <2>3, <3>0
      <3>7. Has(n - 1)
        <4> HIDE DEF Has
        <4>1. n - 1 \notin Bad
          BY <2>1, <3>0, <3>1
        <4> QED BY <3>1, <4>1
      <3>2. PICK f \in [o..(n - 1) -> Nat] : IsNumber(f, o, n - 1)
        BY <3>7
      <3> DEFINE v == 128 * f[n - 1] + (Byte(n - 1) % 128)
                 g == [k \in o..n |-> IF k = n THEN v ELSE f[k]]
      <3>3. v \in Nat
        <4>1. n \in (o + 1)..Len(data) /\ n - 1 \in o..(n - 1)
          BY <1>0, <2>3, <3>1
        <4> QED BY <1>0, <3>2, <4>1
      <3>4. g \in [o..n -> Nat]
        <4> HIDE DEF v
        <4> QED BY <3>2, <3>3
      <3>5. ASSUME NEW k \in o..n
            PROVE  g[k] = IF k = o THEN 0 ELSE 128 * g[k - 1] + (Byte(k - 1) % 128)
        <4>1. CASE k = n
          <5>1. n - 1 \in o..n /\ n - 1 # n /\ k # o
            BY <2>3, <3>1, <4>1
          <5>2. g[n - 1] = f[n - 1] /\ g[n] = v
            BY <5>1
          <5> QED BY <4>1, <5>1, <5>2
        <4>2. CASE k # n
          <5>1. k \in o..(n - 1) /\ (k # o => k - 1 \in o..n /\ k - 1 # n)
            BY <3>1, <4>2
          <5>2. f[k] = IF k = o THEN 0 ELSE 128 * f[k - 1] + (Byte(k - 1) % 128)
            BY <3>2, <5>1 DEF IsNumber
          <5>3. g[k] = f[k] /\ (k # o => g[k - 1] = f[k - 1])
            <6> HIDE DEF v
            <6> QED BY <4>2, <5>1
          <5> QED BY <5>2, <5>3
        <4> QED BY <4>1, <4>2
      <3>6. IsNumber(g, o, n)
        <4>1. g = [k \in o..n |-> g[k]]
          <5> HIDE DEF v
          <5> QED OBVIOUS
        <4> HIDE DEF g
        <4> QED BY <3>5, <4>1 DEF IsNumber
      <3> HIDE DEF g
      <3> QED BY <3>4, <3>6
    <2> QED BY <2>2, <2>3
  <1>2. PICK f \in [o..Len(data) -> Nat] : IsNumber(f, o, Len(data))
    BY <1>0, <1>1
  <1>3. \E f0 : IsNumber(f0, o, Len(data))
    BY <1>2
  <1> DEFINE s == SevenBits(o)
  <1>4. IsNumber(s, o, Len(data))
    BY <1>3 DEF SevenBits, IsNumber
  <1>5. \A k \in o..Len(data) : s[k] = IF k = o THEN 0 ELSE 128 * s[k - 1] + (Byte(k - 1) % 128)
    <2> HIDE DEF s
    <2> QED BY <1>4 DEF IsNumber
  <1> HIDE DEF s
  <1> DEFINE Off == {n \in Nat : o <= n /\ n <= Len(data) /\ s[n] \notin Nat}
  <1>6. Off = {}
    <2> SUFFICES ASSUME Off # {} PROVE FALSE
      OBVIOUS
    <2>1. PICK n \in Off : \A m \in Off : n <= m
      <3>1. PICK e \in Off : TRUE
        OBVIOUS
      <3>2. Off \in SUBSET Nat
        OBVIOUS
      <3> HIDE DEF Off
      <3> QED BY <3>1, <3>2, LeastOf
    <2>2. n \in o..Len(data) /\ n # o
      BY <1>0, <1>5, <2>1
    <2>3. n - 1 \in Nat /\ o <= n - 1 /\ n - 1 <= Len(data) /\ n - 1 \notin Off
      BY <1>0, <2>1, <2>2
    <2>4. s[n - 1] \in Nat
      BY <2>3
    <2>5. n \in (o + 1)..Len(data)
      BY <2>2
    <2>6. s[n] = 128 * s[n - 1] + (Byte(n - 1) % 128)
      BY <1>5, <2>2
    <2>7. s[n] \in Nat
      BY <1>0, <2>4, <2>5, <2>6
    <2> QED BY <2>1, <2>7
  <1>7. i \in Nat /\ o <= i /\ i <= Len(data)
    BY <1>0
  <1>8. s[i] \in Nat
    BY <1>6, <1>7
  <1> QED BY <1>8 DEF s

(* A reader's result: a number or a text, and an offset behind it. *)
ReadsNumber(r, o) == r.value \in Nat /\ r.next \in Nat /\ o < r.next /\ r.next <= Len(data)
ReadsText(r, o) == /\ r.value \in Text0 /\ r.next \in Nat /\ o <= r.next
                   /\ Inside(o) => o < r.next
                   /\ o <= Len(data) => r.next <= Len(data)

LEMMA DataFacts ==
  ASSUME data \in Text0
  PROVE  /\ Len(data) \in Nat
         /\ \A o \in Nat : Inside(o) => Byte(o) \in Nat
         /\ \A o \in Nat : o <= Len(data) => (Inside(o) <=> o # Len(data))
  <1>1. ASSUME NEW o \in Nat, Inside(o) PROVE Byte(o) \in Nat
    <2>1. o + 1 \in 1..Len(data)
      BY <1>1 DEF Inside, Text0
    <2> QED BY <2>1 DEF Byte, Text0
  <1> QED BY <1>1 DEF Inside, Text0

LEMMA SliceType ==
  ASSUME data \in Text0, NEW o \in Nat, NEW e \in Nat
  PROVE  Slice(o, e) \in Text0 /\ (o <= e /\ e <= Len(data) => Len(Slice(o, e)) = e - o)
  <1> DEFINE m == Min({e, Len(data)})
  <1>1. {e, Len(data)} \in SUBSET Nat /\ e \in {e, Len(data)}
    BY DEF Text0
  <1>2. m \in {e, Len(data)} /\ m <= e /\ m <= Len(data) /\ m \in Nat
    <2>1. m \in {e, Len(data)} /\ \A j \in {e, Len(data)} : m <= j
      BY <1>1, LeastOf
    <2> HIDE DEF m
    <2> QED BY <1>1, <2>1
  <1>3. Slice(o, e) = SubSeq(data, o + 1, m)
    BY DEF Slice
  <1> HIDE DEF m
  <1>4. \A i \in (o + 1)..m : data[i] \in Nat
    <2>1. \A i \in (o + 1)..m : i \in 1..Len(data)
      BY <1>1, <1>2
    <2> QED BY <2>1 DEF Text0
  <1>5. o + 1 \in Int /\ m \in Int
    BY <1>2
  <1>6. /\ SubSeq(data, o + 1, m) \in Seq(Nat)
        /\ Len(SubSeq(data, o + 1, m)) = IF o + 1 <= m THEN m - (o + 1) + 1 ELSE 0
    BY <1>4, <1>5, SubSeqProperties
  <1>7. ASSUME o <= e, e <= Len(data) PROVE Len(Slice(o, e)) = e - o
    <2>1. m = e
      BY <1>1, <1>2, <1>7
    <2> QED BY <1>3, <1>6, <1>7, <2>1
  <1> QED BY <1>3, <1>6, <1>7 DEF Text0

LEMMA ReadUintvarReads ==
  ASSUME data \in Text0, NEW o \in Nat, NEW r \in ReadUintvar(o)
  PROVE  ReadsNumber(r, o)
  <1>1. PICK i \in o..(Len(data) - 1) : r = Result(SevenBits(o)[i + 1], i + 1)
    BY DEF ReadUintvar
  <1>2. i + 1 \in o..Len(data) /\ i \in Nat
    BY DEF Text0
  <1>3. SevenBits(o)[i + 1] \in Nat
    BY <1>2, SevenBitsType
  <1>4. r.value = SevenBits(o)[i + 1] /\ r.next = i + 1
    BY <1>1 DEF Result
  <1> QED BY <1>2, <1>3, <1>4 DEF ReadsNumber

LEMMA ReadValueLengthReads ==
  ASSUME data \in Text0, NEW o \in Nat, NEW r \in ReadValueLength(o)
  PROVE  ReadsNumber(r, o)
  <1>1. CASE ~Inside(o)
    BY <1>1 DEF ReadValueLength
  <1>2. CASE Inside(o) /\ Byte(o) <= 30
    <2>1. r = Result(Byte(o), o + 1)
      BY <1>2 DEF ReadValueLength
    <2>2. r.value = Byte(o) /\ r.next = o + 1 /\ Byte(o) \in Nat
      BY <1>2, <2>1, DataFacts DEF Result
    <2> QED BY <1>2, <2>2, DataFacts DEF ReadsNumber, Inside
  <1>3. CASE Inside(o) /\ Byte(o) = 31
    <2>1. r \in ReadUintvar(o + 1) /\ o + 1 \in Nat
      BY <1>3 DEF ReadValueLength
    <2>2. ReadsNumber(r, o + 1)
      BY <2>1, ReadUintvarReads
    <2> QED BY <2>2, DataFacts DEF ReadsNumber
  <1>4. CASE Inside(o) /\ ~(Byte(o) <= 30) /\ Byte(o) # 31
    BY <1>4 DEF ReadValueLength
  <1> QED BY <1>1, <1>2, <1>3, <1>4

LEMMA ReadTextReads ==
  ASSUME data \in Text0, NEW o \in Nat, NEW mark
  PROVE  ReadsText(ReadText(o, mark), o)
  <1>1. CASE ~Inside(o)
    <2>1. ReadText(o, mark) = Result(<<>>, o) /\ <<>> \in Text0
      BY <1>1 DEF ReadText, Text0
    <2> QED BY <1>1, <2>1 DEF ReadsText, Result
  <1>2. CASE Inside(o)
    <2> DEFINE start == IF Byte(o) = mark THEN o + 1 ELSE o
               ends == {i \in start..Len(data) : i = Len(data) \/ Byte(i) = 0}
               last == Min(ends)
               next == IF last < Len(data) THEN last + 1 ELSE last
    <2>1. start \in {o, o + 1} /\ start \in Nat /\ start <= Len(data) /\ Len(data) \in Nat
      BY <1>2, DataFacts DEF Inside
    <2>2. ends \in SUBSET Nat /\ Len(data) \in ends
      <3> HIDE DEF start
      <3> QED BY <2>1
    <2>3. last \in ends
      <3> HIDE DEF ends
      <3> QED BY <2>2, LeastOf
    <2>4. last \in Nat /\ start <= last /\ last <= Len(data)
      <3> HIDE DEF start, last
      <3> QED BY <2>1, <2>3
    <2>5. ReadText(o, mark) = Result(Slice(start, last), next)
      BY <1>2 DEF ReadText
    <2>6. Slice(start, last) \in Text0
      <3> HIDE DEF start, last
      <3> QED BY <2>1, <2>4, SliceType
    <2>7. next \in Nat /\ o < next /\ next <= Len(data)
      <3> HIDE DEF start, last
      <3> QED BY <1>2, <2>1, <2>4 DEF Inside
    <2> HIDE DEF start, last, next
    <2> QED BY <2>1, <2>5, <2>6, <2>7 DEF ReadsText, Result
  <1> QED BY <1>1, <1>2

LEMMA TypeNameReads ==
  ASSUME data \in Text0, NEW o \in Nat, Inside(o)
  PROVE  ReadsText(TypeName(o), o) /\ o < TypeName(o).next /\ TypeName(o).next <= Len(data)
  <1>1. Byte(o) \in Nat /\ o + 1 <= Len(data) /\ o <= Len(data)
    BY DataFacts DEF Inside
  <1>2. CASE Byte(o) > 127
    <2>1. TypeName(o) = Result(WellKnown(Byte(o)), o + 1)
      BY <1>2 DEF TypeName
    <2>2. WellKnown(Byte(o)) \in Text0
      <3>1. 128 + (Byte(o) % 128) \in Nat
        BY <1>1
      <3> QED BY <3>1 DEF WellKnown, Text0
    <2> QED BY <1>1, <2>1, <2>2 DEF ReadsText, Result
  <1>3. CASE ~(Byte(o) > 127)
    <2>1. TypeName(o) = ReadText(o, Quote)
      BY <1>3 DEF TypeName, WapString
    <2> QED BY <1>1, <2>1, ReadTextReads DEF ReadsText
  <1> QED BY <1>2, <1>3

LEMMA ContentTypeReads ==
  ASSUME data \in Text0, NEW o \in Nat, NEW t \in ContentType(o)
  PROVE  /\ t.value \in Text0 /\ t.next \in Nat /\ t.until \in Nat
         /\ o < t.next /\ t.next <= Len(data) /\ t.next <= t.until
  <1>1. CASE ~Inside(o)
    BY <1>1 DEF ContentType
  <1>2. CASE Inside(o) /\ Byte(o) >= 32
    <2>1. t = [value |-> TypeName(o).value, next |-> TypeName(o).next, until |-> TypeName(o).next]
      BY <1>2 DEF ContentType
    <2>2. t.value = TypeName(o).value /\ t.next = TypeName(o).next /\ t.until = TypeName(o).next
      BY <2>1
    <2> QED BY <1>2, <2>2, TypeNameReads DEF ReadsText
  <1>3. CASE Inside(o) /\ ~(Byte(o) >= 32)
    <2>1. PICK l \in ReadValueLength(o) :
            /\ Inside(l.next) /\ TypeName(l.next).next <= l.next + l.value
            /\ t = [value |-> TypeName(l.next).value, next |-> TypeName(l.next).next,
                    until |-> l.next + l.value]
      BY <1>3 DEF ContentType
    <2>2. ReadsNumber(l, o)
      BY ReadValueLengthReads
    <2>3. l.next \in Nat /\ l.value \in Nat /\ o < l.next
      BY <2>2 DEF ReadsNumber
    <2>4. t.value = TypeName(l.next).value /\ t.next = TypeName(l.next).next /\ t.until = l.next + l.value
      BY <2>1
    <2>5. /\ ReadsText(TypeName(l.next), l.next) /\ l.next < TypeName(l.next).next
          /\ TypeName(l.next).next <= Len(data)
      BY <2>1, <2>3, TypeNameReads
    <2> QED BY <2>1, <2>3, <2>4, <2>5, DataFacts DEF ReadsText
  <1> QED BY <1>1, <1>2, <1>3

LEMMA WapStringReads ==
  ASSUME data \in Text0, NEW o \in Nat
  PROVE  ReadsText(WapString(o), o)
  BY ReadTextReads DEF WapString

LEMMA EncodedStringReads ==
  ASSUME data \in Text0, NEW o \in Nat, o <= Len(data), NEW r \in EncodedString(o)
  PROVE  r.value \in Text0 /\ r.next \in Nat /\ o <= r.next /\ r.next <= Len(data)
  <1>0. <<>> \in Text0
    BY DEF Text0
  <1>1. CASE ~Inside(o)
    <2>1. r = Result(<<>>, o)
      BY <1>1 DEF EncodedString
    <2> QED BY <1>0, <2>1 DEF Result
  <1>2. CASE Inside(o) /\ Byte(o) = 0
    <2>1. r = Result(<<>>, o + 1)
      BY <1>2 DEF EncodedString
    <2> QED BY <1>0, <1>2, <2>1, DataFacts DEF Result, Inside
  <1>3. CASE Inside(o) /\ Byte(o) # 0 /\ Byte(o) \in 1..31
    <2>1. PICK l \in ReadValueLength(o) : Inside(l.next) /\ r = WapString(l.next + 1)
      BY <1>3 DEF EncodedString
    <2>2. ReadsNumber(l, o)
      BY ReadValueLengthReads
    <2>3. l.next \in Nat /\ l.next + 1 \in Nat /\ o < l.next /\ l.next + 1 <= Len(data)
      BY <2>1, <2>2, DataFacts DEF ReadsNumber, Inside
    <2>4. ReadsText(WapString(l.next + 1), l.next + 1)
      BY <2>3, WapStringReads
    <2> QED BY <2>1, <2>3, <2>4 DEF ReadsText
  <1>4. CASE Inside(o) /\ Byte(o) # 0 /\ Byte(o) \notin 1..31
    <2>1. r = WapString(o)
      BY <1>4 DEF EncodedString
    <2> QED BY <2>1, WapStringReads DEF ReadsText
  <1> QED BY <1>1, <1>2, <1>3, <1>4

LEMMA IntegerEndReads ==
  ASSUME data \in Text0, NEW o \in Nat, NEW e \in IntegerEnd(o)
  PROVE  e \in Nat /\ o < e /\ e <= Len(data)
  <1>1. CASE ~Inside(o)
    BY <1>1 DEF IntegerEnd
  <1>2. CASE Inside(o) /\ Byte(o) > 127
    <2>1. e = o + 1
      BY <1>2 DEF IntegerEnd
    <2> QED BY <1>2, <2>1, DataFacts DEF Inside
  <1>3. CASE Inside(o) /\ ~(Byte(o) > 127)
    <2>1. e = o + 1 + Byte(o) /\ e \in 0..Len(data)
      BY <1>3 DEF IntegerEnd
    <2> QED BY <1>3, <2>1, DataFacts
  <1> QED BY <1>1, <1>2, <1>3

LEMMA LengthValueEndReads ==
  ASSUME data \in Text0, NEW o \in Nat, NEW e \in LengthValueEnd(o)
  PROVE  e \in Nat /\ o < e /\ e <= Len(data)
  <1>1. PICK l \in ReadValueLength(o) : e = Min({l.next + l.value, Len(data)})
    BY DEF LengthValueEnd
  <1>2. ReadsNumber(l, o)
    BY ReadValueLengthReads
  <1> DEFINE S == {l.next + l.value, Len(data)}
  <1>3. S \in SUBSET Nat /\ Len(data) \in S
    BY <1>2, DataFacts DEF ReadsNumber
  <1>4. Min(S) \in S /\ \A j \in S : Min(S) <= j
    <2> HIDE DEF S
    <2> QED BY <1>3, LeastOf
  <1>5. e = Min(S)
    BY <1>1
  <1>6. e \in {l.next + l.value, Len(data)} /\ e <= Len(data)
    BY <1>3, <1>4, <1>5
  <1> QED BY <1>2, <1>6, DataFacts DEF ReadsNumber

LEMMA ValueEndReads ==
  ASSUME data \in Text0, at \in Nat, Inside(at), NEW e \in ValueEnd
  PROVE  e \in Nat /\ at < e /\ e <= Len(data)
  <1> DEFINE o == at + 1
  <1>0. o \in Nat /\ at < o /\ o <= Len(data) /\ Len(data) \in Nat
    BY DataFacts DEF Inside
  <1>1. CASE Field \in {139, 152}
    <2>1. e = WapString(o).next /\ ReadsText(WapString(o), o)
      BY <1>1, <1>0, WapStringReads DEF ValueEnd
    <2> QED BY <1>0, <2>1 DEF ReadsText
  <1>2. CASE Field \notin {139, 152} /\ Field = 133
    <2>1. e \in IntegerEnd(o)
      BY <1>2 DEF ValueEnd
    <2> QED BY <1>0, <2>1, IntegerEndReads
  <1>3. CASE Field \notin {139, 152} /\ Field # 133 /\ Field = 137
    <2>1. e \in LengthValueEnd(o)
      BY <1>3 DEF ValueEnd
    <2> QED BY <1>0, <2>1, LengthValueEndReads
  <1>4. CASE Field \notin {139, 152} /\ Field # 133 /\ Field # 137
    <2>0. e \in HeaderValueEnd(o)
      BY <1>4 DEF ValueEnd
    <2> HIDE DEF o
    <2>1. CASE ~Inside(o)
      BY <1>0, <2>0, <2>1 DEF HeaderValueEnd
    <2>2. CASE Inside(o) /\ Byte(o) < 32
      <3>1. e \in LengthValueEnd(o)
        <4>1. ~(Byte(o) > 127)
          BY <1>0, <2>2, DataFacts
        <4> QED BY <2>0, <2>2, <4>1 DEF HeaderValueEnd
      <3>2. o \in Nat
        BY <1>0
      <3>3. e \in Nat /\ o < e /\ e <= Len(data)
        BY <3>1, <3>2, LengthValueEndReads, Zenon
      <3> QED BY <1>0, <3>3
    <2>3. CASE Inside(o) /\ ~(Byte(o) < 32) /\ Byte(o) > 127
      <3>1. e = o + 1
        BY <2>0, <2>3 DEF HeaderValueEnd
      <3> QED BY <1>0, <2>3, <3>1 DEF Inside
    <2>4. CASE Inside(o) /\ ~(Byte(o) < 32) /\ ~(Byte(o) > 127)
      <3>1. PICK mark \in {DoubleQuote, Quote} : e = ReadText(o, mark).next
        BY <2>0, <2>4 DEF HeaderValueEnd
      <3>2. ReadsText(ReadText(o, mark), o)
        BY <1>0, ReadTextReads
      <3> QED BY <1>0, <3>1, <3>2 DEF ReadsText
    <2> QED BY <2>1, <2>2, <2>3, <2>4
  <1> QED BY <1>1, <1>2, <1>3, <1>4

-------------------------------------------------------------------------------
(***************************************************************************)
(* The parser of the message.                                              *)
(***************************************************************************)
PartStates == [type : Text0, headersEnd : Nat, size : Nat, name : Text0, filename : Text0,
               location : Text0, encoding : Text0]
PartRecords == [type : Text0, bytes : Text0, name : Text0, filename : Text0, location : Text0]
Calls == {c \in [data : Text0, at : Nat, left : Nat, parts : Seq(PartRecords)] : c.at <= Len(c.data)}

Parsing == {"header", "bodyParams", "count", "part", "partParams", "partHeaders"}

BodyValues == /\ data \in Text0 /\ at \in Nat /\ left \in Nat /\ end \in Nat /\ kind \in Nat
             /\ part \in PartStates /\ parts \in Seq(PartRecords) /\ outer \in Seq(Calls)
LoopHeads == stage \in {"header", "part", "parsed"} => at <= Len(data)
BodyShape == BodyValues /\ LoopHeads

LEMMA NoPartType == NoPart \in PartStates
  <1>1. <<>> \in Text0
    BY DEF Text0
  <1> QED BY <1>1 DEF NoPart, PartStates

LEMMA EndsShape ==
  ASSUME BodyShape, NEW how \in {"raw", "raised"}, Ends(how)
  PROVE  BodyShape' /\ stage' = how
  BY DEF Ends, bodyVars, BodyShape, BodyValues, LoopHeads

LEMMA ValueErrorShape ==
  ASSUME BodyShape, ValueError
  PROVE  BodyShape' /\ stage' \in {"raw", "raised"}
  <1>1. PICK how \in {"raw", "raised"} : Ends(how)
    BY DEF ValueError
  <1> QED BY <1>1, EndsShape

LEMMA HeaderShape ==
  ASSUME BodyShape,
         ReadMessageType \/ ReadSubject \/ SkipHeader \/ OpenBodyType \/ HeaderRaises \/ NoContentType
  PROVE  /\ BodyShape' /\ stage = "header"
         /\ stage' \in {"header", "bodyParams", "raw", "raised"}
         /\ stage' = "header" => Inside(at) /\ at < at'
         /\ stage' \in {"header", "bodyParams"} => UNCHANGED <<data, left, outer>>
  <1> USE DEF BodyShape
  <1>0. data \in Text0 /\ Len(data) \in Nat /\ at \in Nat
    BY DataFacts DEF BodyValues
  <1>1. CASE ReadMessageType
    <2>1. stage = "header" /\ Inside(at)
      BY <1>1 DEF ReadMessageType, InHeader
    <2>2. CASE Inside(at + 1)
      <3>1. /\ kind' = Byte(at + 1) /\ at' = at + 2
            /\ UNCHANGED <<data, stage, left, end, parts, outer, part>>
        BY <1>1, <2>2 DEF ReadMessageType
      <3>2. at + 1 \in Nat /\ Byte(at + 1) \in Nat /\ at + 2 <= Len(data)
        BY <1>0, <2>2, DataFacts DEF Inside
      <3> QED BY <1>0, <2>1, <3>1, <3>2 DEF BodyValues, LoopHeads
    <2>3. CASE ~Inside(at + 1)
      BY <1>1, <2>1, <2>3, EndsShape DEF ReadMessageType
    <2> QED BY <2>2, <2>3
  <1>2. CASE ReadSubject
    <2>1. PICK r \in EncodedString(at + 1) : at' = r.next
      BY <1>2 DEF ReadSubject
    <2>2. stage = "header" /\ Inside(at) /\ UNCHANGED <<data, stage, left, end, parts, outer, part, kind>>
      BY <1>2 DEF ReadSubject, InHeader
    <2>3. at + 1 \in Nat /\ at + 1 <= Len(data)
      BY <1>0, <2>2 DEF Inside
    <2>4. r.next \in Nat /\ at + 1 <= r.next /\ r.next <= Len(data)
      BY <1>0, <2>3, EncodedStringReads
    <2> QED BY <1>0, <2>1, <2>2, <2>4 DEF BodyValues, LoopHeads
  <1>3. CASE SkipHeader
    <2>1. PICK e \in ValueEnd : Goto(e)
      BY <1>3 DEF SkipHeader
    <2>2. stage = "header" /\ Inside(at)
      BY <1>3 DEF SkipHeader, InHeader
    <2>3. e \in Nat /\ at < e /\ e <= Len(data)
      BY <1>0, <2>2, ValueEndReads
    <2> QED BY <2>1, <2>2, <2>3 DEF Goto, MoveTo, BodyValues, LoopHeads
  <1>4. CASE OpenBodyType
    <2>1. PICK t \in ContentType(at + 1) :
            part' = [NoPart EXCEPT !.type = t.value] /\ at' = t.next /\ end' = t.until
      BY <1>4 DEF OpenBodyType
    <2>2. stage = "header" /\ stage' = "bodyParams" /\ UNCHANGED <<data, left, parts, outer, kind>>
      BY <1>4 DEF OpenBodyType, InHeader
    <2>3. t.value \in Text0 /\ t.next \in Nat /\ t.until \in Nat
      BY <1>0, ContentTypeReads
    <2>4. part' \in PartStates
      BY <2>1, <2>3, NoPartType DEF PartStates
    <2> QED BY <2>1, <2>2, <2>3, <2>4 DEF BodyValues, LoopHeads
  <1>5. CASE HeaderRaises \/ NoContentType
    <2>1. PICK how \in {"raw", "raised"} : Ends(how)
      BY <1>5 DEF HeaderRaises, NoContentType
    <2>2. stage = "header"
      BY <1>5 DEF HeaderRaises, NoContentType, InHeader
    <2> QED BY <2>1, <2>2, EndsShape
  <1> QED BY <1>1, <1>2, <1>3, <1>4, <1>5

LEMMA ParameterEndReads ==
  ASSUME data \in Text0, at \in Nat, end \in Nat, Parameter, ~CutParameter, NEW e \in ParameterEnd
  PROVE  e \in Nat /\ at < e
  <1> DEFINE o == at + 1
  <1>0. o \in Nat /\ Inside(at) /\ at < end /\ at < o
    BY DEF Parameter
  <1>1. CASE Field \in TextParams
    <2>1. e = WapString(o).next /\ ReadsText(WapString(o), o)
      BY <1>0, <1>1, WapStringReads DEF ParameterEnd, TextParams, TypeParams, CharsetParam
    <2> QED BY <1>0, <2>1 DEF ReadsText
  <1>2. CASE Field \in TypeParams
    <2>1. Inside(o)
      BY <1>2 DEF CutParameter, Parameter
    <2>2. e = TypeName(o).next
      BY <1>2 DEF ParameterEnd, TextParams, TypeParams, CharsetParam
    <2> QED BY <1>0, <2>1, <2>2, TypeNameReads DEF ReadsText
  <1>3. CASE Field = CharsetParam
    <2>1. e = WapString(o).next \/ e \in IntegerEnd(o)
      BY <1>3 DEF ParameterEnd, TextParams, TypeParams, CharsetParam
    <2>2. ReadsText(WapString(o), o)
      BY <1>0, WapStringReads
    <2>3. e \in IntegerEnd(o) => e \in Nat /\ o < e
      BY <1>0, IntegerEndReads
    <2> QED BY <1>0, <2>1, <2>2, <2>3 DEF ReadsText
  <1>4. CASE Field \notin TextParams /\ Field \notin TypeParams /\ Field # CharsetParam
    <2>1. e = end
      BY <1>4 DEF ParameterEnd
    <2> QED BY <1>0, <2>1
  <1> QED BY <1>1, <1>2, <1>3, <1>4

LEMMA ParamsEndReads ==
  ASSUME BodyValues, NEW e \in ParamsEnd
  PROVE  e \in Nat /\ InParams
  <1>1. CASE CutParameter
    <2>1. e = at + 1
      BY <1>1 DEF ParamsEnd
    <2> QED BY <1>1, <2>1 DEF BodyValues, CutParameter, Parameter
  <1>2. CASE ~CutParameter
    BY <1>2 DEF ParamsEnd, BodyValues
  <1> QED BY <1>1, <1>2

LEMMA ParamsShape ==
  ASSUME BodyShape,
         \/ ReadName \/ SkipParameter \/ ParameterFails \/ BodyTypeRead \/ PartTypeRead \/ TypeFails
  PROVE  /\ BodyShape' /\ InParams
         /\ stage' \in {stage, "count", "partHeaders", "raw", "raised"}
         /\ stage' = stage => Inside(at) /\ at < at' /\ UNCHANGED <<data, end, left, outer>>
         /\ stage' = "count" => stage = "bodyParams" /\ UNCHANGED <<data, left, outer>>
         /\ stage' = "partHeaders" => stage = "partParams" /\ UNCHANGED <<data, left, outer>>
  <1> USE DEF BodyShape
  <1>0. data \in Text0 /\ Len(data) \in Nat /\ at \in Nat /\ end \in Nat /\ part \in PartStates
    BY DataFacts DEF BodyValues
  <1>1. CASE ReadName
    <2>1. ReadsText(WapString(at + 1), at + 1)
      BY <1>0, WapStringReads
    <2>2. WapString(at + 1).value \in Text0 /\ WapString(at + 1).next \in Nat /\ at < WapString(at + 1).next
      BY <1>0, <2>1 DEF ReadsText
    <2>3. /\ part' = [part EXCEPT !.name = WapString(at + 1).value] /\ at' = WapString(at + 1).next
          /\ UNCHANGED <<data, stage, kind, left, end, parts, outer>> /\ InParams /\ Inside(at)
      BY <1>1 DEF ReadName, MoveTo, Parameter
    <2>4. part' \in PartStates
      BY <1>0, <2>2, <2>3 DEF PartStates
    <2> QED BY <2>2, <2>3, <2>4 DEF BodyValues, LoopHeads, InParams
  <1>2. CASE SkipParameter
    <2>1. PICK e \in ParameterEnd : Goto(e)
      BY <1>2 DEF SkipParameter
    <2>2. Parameter /\ ~CutParameter /\ InParams /\ Inside(at)
      BY <1>2 DEF SkipParameter, Parameter
    <2>3. e \in Nat /\ at < e
      BY <1>0, <2>2, ParameterEndReads
    <2> QED BY <2>1, <2>2, <2>3 DEF Goto, MoveTo, BodyValues, LoopHeads, InParams
  <1>3. CASE ParameterFails \/ TypeFails
    <2>1. ValueError /\ InParams
      <3>1. TypeFails => InParams
        BY <1>0, ParamsEndReads DEF TypeFails, BodyValues
      <3> QED BY <1>3, <3>1 DEF ParameterFails, TypeFails, Parameter
    <2>2. BodyShape' /\ stage' \in {"raw", "raised"}
      BY <2>1, ValueErrorShape
    <2>3. stage' # stage
      BY <2>1, <2>2 DEF InParams
    <2> QED BY <2>1, <2>2, <2>3
  <1>4. CASE BodyTypeRead
    <2>1. PICK e \in ParamsEnd : at' = e
      BY <1>4 DEF BodyTypeRead
    <2>2. e \in Nat
      BY <2>1, ParamsEndReads
    <2>3. /\ stage = "bodyParams" /\ stage' \in {"count", "raw"} /\ part' = NoPart
          /\ UNCHANGED <<data, kind, left, end, parts, outer>>
      BY <1>4 DEF BodyTypeRead
    <2> QED BY <2>1, <2>2, <2>3, NoPartType DEF BodyValues, LoopHeads, InParams
  <1>5. CASE PartTypeRead
    <2>1. PICK e \in ParamsEnd : at' = e
      BY <1>5 DEF PartTypeRead
    <2>2. e \in Nat /\ part.headersEnd \in Nat
      BY <1>0, <2>1, ParamsEndReads DEF PartStates
    <2>3. /\ stage = "partParams" /\ stage' = "partHeaders" /\ end' = part.headersEnd
          /\ UNCHANGED <<data, kind, part, left, parts, outer>>
      BY <1>5 DEF PartTypeRead
    <2> QED BY <2>1, <2>2, <2>3 DEF BodyValues, LoopHeads, InParams
  <1> QED BY <1>1, <1>2, <1>3, <1>4, <1>5

LEMMA IndexErrorShape ==
  ASSUME BodyShape, IndexError
  PROVE  BodyShape' /\ stage \in {"bodyParams", "partParams", "partHeaders"} /\ stage' = "raised"
  BY EndsShape DEF IndexError

LEMMA CountShape ==
  ASSUME BodyShape, ReadCount \/ OpenPart \/ CountFails
  PROVE  /\ BodyShape' /\ stage \in {"count", "part"}
         /\ stage' \in {"part", "partParams", "raw", "raised"}
         /\ stage' = "part" => stage = "count" /\ outer' = outer /\ data' = data
         /\ stage' = "partParams" => stage = "part" /\ left' < left /\ outer' = outer /\ data' = data
  <1> USE DEF BodyShape
  <1>0. data \in Text0 /\ Len(data) \in Nat /\ at \in Nat
    BY DataFacts DEF BodyValues
  <1>1. CASE ReadCount
    <2>1. PICK r \in ReadUintvar(at) : left' = r.value /\ at' = r.next
      BY <1>1 DEF ReadCount
    <2>2. ReadsNumber(r, at)
      BY <1>0, ReadUintvarReads
    <2>3. /\ stage = "count" /\ stage' = "part" /\ UNCHANGED <<data, kind, part, end, parts, outer>>
      BY <1>1 DEF ReadCount
    <2> QED BY <2>1, <2>2, <2>3 DEF BodyValues, LoopHeads, ReadsNumber
  <1>2. CASE OpenPart
    <2>1. PICK h \in ReadUintvar(at) : \E d \in ReadUintvar(h.next) : \E t \in ContentType(d.next) :
            /\ part' = [NoPart EXCEPT !.type = t.value, !.size = d.value, !.headersEnd = d.next + h.value]
            /\ at' = t.next /\ end' = t.until
      BY <1>2 DEF OpenPart
    <2>2. PICK d \in ReadUintvar(h.next) : \E t \in ContentType(d.next) :
            /\ part' = [NoPart EXCEPT !.type = t.value, !.size = d.value, !.headersEnd = d.next + h.value]
            /\ at' = t.next /\ end' = t.until
      BY <2>1
    <2>3. PICK t \in ContentType(d.next) :
            /\ part' = [NoPart EXCEPT !.type = t.value, !.size = d.value, !.headersEnd = d.next + h.value]
            /\ at' = t.next /\ end' = t.until
      BY <2>2
    <2>4. ReadsNumber(h, at)
      BY <1>0, ReadUintvarReads
    <2>5. h.value \in Nat /\ h.next \in Nat
      BY <2>4 DEF ReadsNumber
    <2>6. ReadsNumber(d, h.next)
      BY <1>0, <2>5, ReadUintvarReads
    <2>7. d.value \in Nat /\ d.next \in Nat
      BY <2>6 DEF ReadsNumber
    <2>8. t.value \in Text0 /\ t.next \in Nat /\ t.until \in Nat
      BY <1>0, <2>7, ContentTypeReads
    <2>9. part' \in PartStates
      <3>1. d.next + h.value \in Nat
        BY <2>5, <2>7
      <3> QED BY <2>3, <2>7, <2>8, <3>1, NoPartType DEF PartStates
    <2>10. /\ stage = "part" /\ stage' = "partParams" /\ left > 0 /\ left' = left - 1
           /\ UNCHANGED <<data, kind, parts, outer>>
      BY <1>2 DEF OpenPart
    <2> QED BY <2>3, <2>8, <2>9, <2>10 DEF BodyValues, LoopHeads
  <1>3. CASE CountFails
    BY <1>3, ValueErrorShape DEF CountFails
  <1> QED BY <1>1, <1>2, <1>3

LEMMA LargerOf ==
  ASSUME NEW a \in Nat, NEW b \in Nat
  PROVE  Max({a, b}) \in {a, b} /\ a <= Max({a, b}) /\ b <= Max({a, b})
  <1>1. {a, b} \in SUBSET (0..(a + b)) /\ a \in {a, b} /\ a + b \in Nat
    OBVIOUS
  <1>2. Max({a, b}) \in {a, b} /\ \A j \in {a, b} : j <= Max({a, b})
    BY <1>1, GreatestOf
  <1> QED BY <1>2

LEMMA PartHeaderShape ==
  ASSUME BodyShape, ReadPartLocation \/ ReadDisposition \/ DispositionFails \/ ReadTextHeader \/ SkipPartHeader
  PROVE  /\ BodyShape' /\ stage = "partHeaders"
         /\ stage' \in {"partHeaders", "raw", "raised"}
         /\ stage' = "partHeaders" => Inside(at) /\ at < at' /\ UNCHANGED <<data, end, left, outer>>
  <1> USE DEF BodyShape
  <1>0. /\ data \in Text0 /\ Len(data) \in Nat /\ at \in Nat /\ end \in Nat /\ part \in PartStates
        /\ at + 1 \in Nat /\ at < at + 1
    BY DataFacts DEF BodyValues
  <1>1. CASE ReadPartLocation
    <2>1. ReadsText(WapString(at + 1), at + 1)
      BY <1>0, WapStringReads
    <2>2. WapString(at + 1).value \in Text0 /\ WapString(at + 1).next \in Nat /\ at < WapString(at + 1).next
      BY <1>0, <2>1 DEF ReadsText
    <2>3. /\ part' = [part EXCEPT !.location = WapString(at + 1).value] /\ at' = WapString(at + 1).next
          /\ UNCHANGED <<data, stage, kind, left, end, parts, outer>>
          /\ stage = "partHeaders" /\ Inside(at)
      BY <1>1 DEF ReadPartLocation, MoveTo, PartHeader
    <2>4. part' \in PartStates
      BY <1>0, <2>2, <2>3 DEF PartStates
    <2> QED BY <2>2, <2>3, <2>4 DEF BodyValues, LoopHeads
  <1>2. CASE ReadDisposition
    <2>1. PICK l \in ReadValueLength(at + 1) :
            LET until == l.next + l.value
                param == DispositionParam(l.next)
                named == param < until /\ Inside(param) /\ Byte(param) = FilenameParam
                file == WapString(param + 1)
            IN /\ part' = IF named THEN [part EXCEPT !.filename = file.value] ELSE part
               /\ MoveTo(Max({until, IF named THEN file.next ELSE param}))
      BY <1>2 DEF ReadDisposition
    <2>2. ReadsNumber(l, at + 1)
      BY <1>0, ReadValueLengthReads
    <2> DEFINE until == l.next + l.value
               param == DispositionParam(l.next)
               file == WapString(param + 1)
    <2>3. l.next \in Nat /\ until \in Nat /\ at < until
      BY <1>0, <2>2 DEF ReadsNumber
    <2>4. param \in Nat
      <3>1. param = l.next + 1 \/ param = WapString(l.next).next
        BY DEF DispositionParam
      <3>2. ReadsText(WapString(l.next), l.next)
        BY <1>0, <2>3, WapStringReads
      <3> QED BY <2>3, <3>1, <3>2 DEF ReadsText
    <2>5. ReadsText(file, param + 1)
      BY <1>0, <2>4, WapStringReads
    <2>6. PICK b \in {file.next, param} :
            /\ part' \in {[part EXCEPT !.filename = file.value], part}
            /\ MoveTo(Max({until, b}))
      BY <2>1
    <2>7. b \in Nat /\ file.value \in Text0
      BY <2>4, <2>5 DEF ReadsText
    <2>8. part' \in PartStates
      BY <1>0, <2>6, <2>7 DEF PartStates
    <2>9. Max({until, b}) \in Nat /\ at < Max({until, b})
      <3>1. Max({until, b}) \in {until, b} /\ until <= Max({until, b})
        BY <2>3, <2>7, LargerOf
      <3> HIDE DEF until
      <3> QED BY <1>0, <2>3, <2>7, <3>1
    <2>10. stage = "partHeaders" /\ Inside(at)
      BY <1>2 DEF ReadDisposition, PartHeader
    <2> QED BY <2>6, <2>8, <2>9, <2>10 DEF MoveTo, BodyValues, LoopHeads
  <1>3. CASE DispositionFails
    <2>1. stage = "partHeaders" /\ (ValueError \/ Ends("raised"))
      BY <1>3 DEF DispositionFails, PartHeader
    <2>2. BodyShape' /\ stage' \in {"raw", "raised"}
      BY <2>1, ValueErrorShape, EndsShape
    <2> QED BY <2>1, <2>2
  <1>4. CASE ReadTextHeader
    <2> DEFINE name == WapString(at)
               value == WapString(name.next)
    <2>1. /\ part' = IF name.value \in TransferEncoding /\ value.value # <<>>
                     THEN [part EXCEPT !.encoding = value.value] ELSE part
          /\ MoveTo(value.next) /\ stage = "partHeaders" /\ Inside(at)
      BY <1>4 DEF ReadTextHeader, PartHeader
    <2>2. ReadsText(name, at)
      BY <1>0, WapStringReads
    <2>3. name.next \in Nat /\ at < name.next
      BY <2>1, <2>2 DEF ReadsText
    <2>4. ReadsText(value, name.next)
      BY <1>0, <2>3, WapStringReads
    <2>5. value.next \in Nat /\ at < value.next /\ value.value \in Text0
      BY <1>0, <2>3, <2>4 DEF ReadsText
    <2>6. part' \in PartStates
      BY <1>0, <2>1, <2>5 DEF PartStates
    <2> QED BY <2>1, <2>5, <2>6 DEF MoveTo, BodyValues, LoopHeads
  <1>5. CASE SkipPartHeader
    <2>1. PICK e \in {ReadText(at + 1, DoubleQuote).next, end} : Goto(e)
      BY <1>5 DEF SkipPartHeader
    <2>2. stage = "partHeaders" /\ at < end /\ Inside(at)
      BY <1>5 DEF SkipPartHeader, PartHeader
    <2>3. ReadsText(ReadText(at + 1, DoubleQuote), at + 1)
      BY <1>0, ReadTextReads
    <2>4. e \in Nat /\ at < e
      BY <1>0, <2>2, <2>3 DEF ReadsText
    <2> QED BY <2>1, <2>2, <2>4 DEF Goto, MoveTo, BodyValues, LoopHeads
  <1> QED BY <1>1, <1>2, <1>3, <1>4, <1>5

LEMMA PartDataType ==
  ASSUME BodyValues, CodecsGiveBytes, NEW bytes \in PartData
  PROVE  bytes \in Text0 /\ end + part.size \in Nat /\ end + part.size <= Len(data)
  <1>1. end \in Nat /\ part.size \in Nat /\ part.encoding \in Text0 /\ data \in Text0
    BY DEF BodyValues, PartStates
  <1>2. ~(end + part.size > Len(data))
    BY DEF PartData
  <1>3. Slice(end, end + part.size) \in Text0
    BY <1>1, SliceType
  <1>4. bytes = Slice(end, end + part.size) \/ bytes \in Decoded(part.encoding, Slice(end, end + part.size))
    BY <1>2 DEF PartData
  <1>5. Decoded(part.encoding, Slice(end, end + part.size)) \subseteq Text0
    BY <1>1, <1>3 DEF CodecsGiveBytes
  <1> QED BY <1>1, <1>2, <1>3, <1>4, <1>5, DataFacts

LEMMA PartEndShape ==
  ASSUME BodyShape, CodecsGiveBytes,
         TakePart \/ EnterAlternative \/ PartFails \/ LeaveAlternative \/ BodyDone
  PROVE  /\ BodyShape' /\ stage \in {"part", "partHeaders"}
         /\ stage' \in {"part", "count", "raw", "raised", "parsed"}
         /\ stage' = "part" => \/ stage = "partHeaders" /\ UNCHANGED <<data, left, outer>>
                               \/ Len(outer') + 1 = Len(outer)
  <1> USE DEF BodyShape
  <1>0. /\ data \in Text0 /\ Len(data) \in Nat /\ at \in Nat /\ end \in Nat /\ part \in PartStates
        /\ parts \in Seq(PartRecords) /\ outer \in Seq(Calls) /\ left \in Nat
    BY DataFacts DEF BodyValues
  <1>1. CASE TakePart
    <2>1. PICK bytes \in PartData :
            parts' = Append(parts, [type |-> part.type, bytes |-> bytes, name |-> part.name,
                                    filename |-> part.filename, location |-> part.location])
      BY <1>1 DEF TakePart
    <2>2. bytes \in Text0 /\ end + part.size \in Nat /\ end + part.size <= Len(data)
      BY PartDataType
    <2>3. [type |-> part.type, bytes |-> bytes, name |-> part.name,
           filename |-> part.filename, location |-> part.location] \in PartRecords
      BY <1>0, <2>2 DEF PartStates, PartRecords
    <2>4. parts' \in Seq(PartRecords)
      BY <1>0, <2>1, <2>3, AppendProperties
    <2>5. stage = "partHeaders" /\ stage' = "part" /\ at' = end + part.size
          /\ UNCHANGED <<data, kind, part, left, end, outer>>
      BY <1>1 DEF TakePart, PartRead
    <2> QED BY <2>2, <2>4, <2>5 DEF BodyValues, LoopHeads
  <1>2. CASE EnterAlternative
    <2>1. PICK bytes \in PartData : data' = bytes
      BY <1>2 DEF EnterAlternative
    <2>2. bytes \in Text0 /\ end + part.size \in Nat /\ end + part.size <= Len(data)
      BY PartDataType
    <2> DEFINE call == [data |-> data, at |-> end + part.size, left |-> left, parts |-> parts]
    <2>3. call \in Calls
      BY <1>0, <2>2 DEF Calls
    <2>4. /\ outer' = Append(outer, call) /\ stage = "partHeaders" /\ stage' = "count" /\ at' = 0
          /\ parts' = <<>> /\ UNCHANGED <<kind, part, left, end>>
      BY <1>2 DEF EnterAlternative, PartRead
    <2>5. outer' \in Seq(Calls)
      <3> HIDE DEF call
      <3> QED BY <1>0, <2>3, <2>4, AppendProperties
    <2>6. parts' \in Seq(PartRecords)
      BY <2>4
    <2> QED BY <2>1, <2>2, <2>4, <2>5, <2>6 DEF BodyValues, LoopHeads
  <1>3. CASE PartFails
    BY <1>3, ValueErrorShape DEF PartFails, PartRead
  <1>4. CASE LeaveAlternative
    <2> DEFINE call == outer[Len(outer)]
               first == SubSeq(parts, 1, Min({1, Len(parts)}))
    <2>1. /\ stage = "part" /\ left = 0 /\ outer # <<>>
          /\ data' = call.data /\ at' = call.at /\ left' = call.left /\ parts' = call.parts \o first
          /\ outer' = Front(outer) /\ UNCHANGED <<stage, kind, part, end>>
      BY <1>4 DEF LeaveAlternative, Last
    <2>2. Len(outer) \in Nat \ {0}
      BY <1>0, <2>1, EmptySeq
    <2>3. call \in Calls
      BY <1>0, <2>2
    <2>4. call.data \in Text0 /\ call.at \in Nat /\ call.left \in Nat /\ call.parts \in Seq(PartRecords)
          /\ call.at <= Len(call.data)
      <3> HIDE DEF call
      <3> QED BY <2>3 DEF Calls
    <2>5. first \in Seq(PartRecords)
      <3> DEFINE n == Min({1, Len(parts)})
      <3>1. {1, Len(parts)} \in SUBSET Nat /\ 1 \in {1, Len(parts)}
        BY <1>0
      <3>2. n \in {1, Len(parts)} /\ n <= Len(parts) /\ n \in Nat
        BY <3>1, LeastOf
      <3>3. first = SubSeq(parts, 1, n)
        OBVIOUS
      <3> HIDE DEF n
      <3>4. \A i \in 1..n : parts[i] \in PartRecords
        BY <1>0, <3>2
      <3>5. SubSeq(parts, 1, n) \in Seq(PartRecords)
        BY <3>2, <3>4, SubSeqProperties
      <3> QED BY <3>3, <3>5
    <2>6. parts' \in Seq(PartRecords)
      <3> HIDE DEF first, call
      <3> QED BY <2>1, <2>4, <2>5, ConcatProperties
    <2>7. outer' \in Seq(Calls) /\ Len(outer') + 1 = Len(outer)
      <3>1. \A i \in 1..(Len(outer) - 1) : outer[i] \in Calls
        BY <1>0
      <3>2. 1 \in Int /\ Len(outer) - 1 \in Int
        BY <2>2
      <3>3. /\ SubSeq(outer, 1, Len(outer) - 1) \in Seq(Calls)
            /\ Len(SubSeq(outer, 1, Len(outer) - 1))
                 = IF 1 <= Len(outer) - 1 THEN Len(outer) - 1 - 1 + 1 ELSE 0
        BY <3>1, <3>2, SubSeqProperties
      <3>4. outer' = SubSeq(outer, 1, Len(outer) - 1)
        BY <2>1 DEF Front
      <3>5. Len(SubSeq(outer, 1, Len(outer) - 1)) + 1 = Len(outer)
        <4> DEFINE n == Len(outer)
                   m == Len(SubSeq(outer, 1, n - 1))
        <4>1. /\ n \in Nat \ {0}
              /\ m = IF 1 <= n - 1 THEN n - 1 - 1 + 1 ELSE 0
          BY <2>2, <3>3
        <4> HIDE DEF n, m
        <4>2. m + 1 = n
          BY <4>1
        <4> QED BY <4>2 DEF m, n
      <3> QED BY <3>3, <3>4, <3>5
    <2> HIDE DEF call, first
    <2> QED BY <2>1, <2>4, <2>6, <2>7 DEF BodyValues, LoopHeads
  <1>5. CASE BodyDone
    <2>1. stage = "part" /\ stage' = "parsed" /\ UNCHANGED <<data, at, bodyVars>>
      BY <1>5 DEF BodyDone, Ends
    <2> QED BY <2>1 DEF BodyValues, LoopHeads, bodyVars
  <1> QED BY <1>1, <1>2, <1>3, <1>4, <1>5

LEMMA BodyStepShape ==
  ASSUME BodyShape, CodecsGiveBytes, BodyStep
  PROVE  /\ BodyShape' /\ stage \in Parsing
         /\ stage' \in Parsing \cup {"parsed", "raw", "raised"}
  <1>1. CASE ReadMessageType \/ ReadSubject \/ SkipHeader \/ OpenBodyType \/ HeaderRaises \/ NoContentType
    BY <1>1, HeaderShape DEF Parsing
  <1>2. CASE \/ ReadName \/ SkipParameter \/ ParameterFails \/ BodyTypeRead \/ PartTypeRead
             \/ TypeFails
    BY <1>2, ParamsShape DEF Parsing, InParams
  <1>3. CASE IndexError
    BY <1>3, IndexErrorShape DEF Parsing
  <1>4. CASE ReadCount \/ OpenPart \/ CountFails
    BY <1>4, CountShape DEF Parsing
  <1>5. CASE \/ ReadPartLocation \/ ReadDisposition \/ DispositionFails \/ ReadTextHeader
             \/ SkipPartHeader
    BY <1>5, PartHeaderShape DEF Parsing
  <1>6. CASE TakePart \/ EnterAlternative \/ PartFails \/ LeaveAlternative \/ BodyDone
    BY <1>6, PartEndShape DEF Parsing
  <1> QED BY <1>1, <1>2, <1>3, <1>4, <1>5, <1>6 DEF BodyStep

-------------------------------------------------------------------------------
(***************************************************************************)
(* The types of the whole.                                                 *)
(***************************************************************************)
LEMMA PushShape ==
  ASSUME data \in Text0, at \in Nat, PushStep
  PROVE  /\ at' \in Nat /\ data' = data /\ stage \in {"push", "notice"}
         /\ stage' \in {"notice", "filed"} /\ filed' \in {filed, "MMS", "BINARY", "raised"}
  <1> DEFINE Text1 == ReadText(at + 1, Quote)
  <1>0. at + 1 \in Nat /\ at + 2 \in Nat /\ Text1.next \in Nat
    <2>1. ReadsText(Text1, at + 1)
      BY ReadTextReads
    <2> QED BY <2>1 DEF ReadsText
  <1>1. CASE OpenPush
    <2>1. PICK r \in ReadUintvar(2) : at' = r.next + r.value
      BY <1>1 DEF OpenPush, Body
    <2>2. ReadsNumber(r, 2)
      BY ReadUintvarReads
    <2> QED BY <1>1, <2>1, <2>2 DEF OpenPush, pushVars, ReadsNumber
  <1>2. CASE NotAPush \/ FieldRaises \/ LoopEnds
    BY <1>2 DEF NotAPush, FieldRaises, LoopEnds, InLoop, Filed
  <1>3. CASE ReadSize \/ SkipQuoted
    <2>1. PICK r \in ReadUintvar(at + 1) \cup ReadValueLength(at + 1) :
            Skip(r.next) \/ Skip(r.next + r.value)
      BY <1>3 DEF ReadSize, SkipQuoted
    <2>2. ReadsNumber(r, at + 1)
      BY <1>0, ReadUintvarReads, ReadValueLengthReads
    <2>3. r.next \in Nat /\ r.next + r.value \in Nat
      BY <2>2 DEF ReadsNumber
    <2>4. stage = "notice"
      BY <1>3 DEF ReadSize, SkipQuoted, InLoop
    <2> QED BY <2>1, <2>3, <2>4 DEF Skip, LoopHead
  <1>4. CASE ReadType \/ ReadVersion \/ SkipOctet
    BY <1>0, <1>4 DEF ReadType, ReadVersion, SkipOctet, InLoop, Skip, LoopHead
  <1>5. CASE ReadLocation \/ ReadTransactionId \/ ReadMessageClass
    <2>1. stage = "notice" /\ at' \in {Text1.next, at + 2} /\ data' = data
          /\ stage' \in {"filed", stage} /\ filed' \in {"MMS", filed}
      BY <1>5 DEF ReadLocation, ReadTransactionId, ReadMessageClass, InLoop, Skip, LoopHead
    <2> QED BY <1>0, <2>1
  <1> QED BY <1>1, <1>2, <1>3, <1>4, <1>5 DEF PushStep

Before == {"push", "notice", "filed", "raw", "raised"} \cup Parsing

WholeShape ==
  /\ BodyShape /\ stage \in Stages /\ delivery \in Deliveries
  /\ filed \in {"none", "MMS", "BINARY", "raised"}
  /\ payload \in Text0
  /\ placed \in 0..Len(parts)
  /\ stage \in Before => placed = 0 /\ listed = <<>>

LEMMA ShapeFirst == Init => WholeShape
  <1> SUFFICES ASSUME Init PROVE WholeShape
    OBVIOUS
  <1>1. data \in Text0 /\ delivery \in Deliveries /\ <<>> \in Text0
    BY BytesDelivered DEF Init, Text0
  <1>2. BodyShape
    BY <1>1, NoPartType DEF Init, BodyShape, BodyValues, LoopHeads, Text0
  <1> QED BY <1>1, <1>2 DEF Init, WholeShape, Stages, Before

LEMMA ShapeNext ==
  ASSUME CodecsGiveBytes, WholeShape, [Next]_vars
  PROVE  WholeShape'
  <1> USE DEF WholeShape
  <1>0. /\ data \in Text0 /\ at \in Nat /\ <<>> \in Text0 /\ Len(parts) \in Nat
        /\ left \in Nat /\ end \in Nat /\ part \in PartStates
    BY DEF BodyShape, BodyValues, Text0
  <1>1. CASE ReadPush
    <2>1. /\ at' \in Nat /\ data' = data /\ stage \in {"push", "notice"}
          /\ stage' \in {"notice", "filed"} /\ filed' \in {filed, "MMS", "BINARY", "raised"}
      BY <1>0, <1>1, PushShape DEF ReadPush
    <2>2. BodyShape'
      BY <1>1, <2>1 DEF ReadPush, bodyVars, BodyShape, BodyValues, LoopHeads
    <2> QED BY <1>1, <2>1, <2>2 DEF ReadPush, bodyVars, ownVars, Stages, Before
  <1>2. CASE Download
    <2>1. PICK n \in 0..Len(delivery.message) : payload' = SubSeq(delivery.message, 1, n)
      BY <1>2 DEF Download
    <2>2. payload' \in Text0
      <3>1. delivery.message \in Seq(Nat)
        BY BytesDelivered
      <3>2. \A i \in 1..n : delivery.message[i] \in Nat
        BY <3>1
      <3>3. 1 \in Int /\ n \in Int
        BY <3>1
      <3>4. SubSeq(delivery.message, 1, n) \in Seq(Nat)
        BY <3>2, <3>3, SubSeqProperties
      <3> QED BY <2>1, <3>4 DEF Text0
    <2>3. /\ stage = "filed" /\ stage' = "header" /\ data' = payload' /\ at' = 0
          /\ UNCHANGED <<pushVars, bodyVars, delivery, placed, listed>>
      BY <1>2 DEF Download
    <2>4. BodyShape'
      BY <2>2, <2>3, Len(payload') >= 0 DEF bodyVars, BodyShape, BodyValues, LoopHeads
    <2> QED BY <2>2, <2>3, <2>4 DEF pushVars, bodyVars, Stages, Before, Parsing
  <1>3. CASE ReadBody
    <2>1. /\ BodyShape' /\ stage \in Parsing
          /\ stage' \in Parsing \cup {"parsed", "raw", "raised"}
      BY <1>3, BodyStepShape DEF ReadBody
    <2>2. placed = 0 /\ UNCHANGED <<pushVars, ownVars>> /\ listed = <<>>
      BY <1>3, <2>1 DEF ReadBody, Before
    <2>3. Len(parts') \in Nat
      BY <2>1 DEF BodyShape, BodyValues
    <2> QED BY <2>1, <2>2, <2>3 DEF pushVars, ownVars, Stages, Parsing
  <1>4. CASE SkipPart \/ WritePart
    <2>1. /\ stage = "parsed" /\ stage' = stage /\ placed < Len(parts) /\ placed' = placed + 1
          /\ UNCHANGED Files
      BY <1>4 DEF SkipPart, WritePart, Writing
    <2>2. BodyShape'
      BY <2>1 DEF Files, bodyVars, BodyShape, BodyValues, LoopHeads
    <2> QED BY <1>0, <2>1, <2>2 DEF Files, pushVars, bodyVars, Before, Parsing
  <1>5. CASE WriteRaw \/ Store
    <2>1. /\ stage' \in {"attached", "stored"} \/ (stage = "parsed" /\ stage' = stage)
          /\ placed' \in {placed, Len(parts)}
          /\ UNCHANGED <<delivery, payload, pushVars, bodyVars, data, at>>
      BY <1>5 DEF WriteRaw, Store, Files
    <2>2. BodyShape'
      BY <2>1 DEF bodyVars, BodyShape, BodyValues, LoopHeads
    <2> QED BY <1>0, <2>1, <2>2 DEF pushVars, bodyVars, Stages, Before, Parsing
  <1>6. CASE PollAgain
    <2>1. /\ stage' = "filed" /\ kind' = 0 /\ part' = NoPart /\ left' = 0 /\ end' = 0
          /\ parts' = <<>> /\ outer' = <<>> /\ data' = <<>> /\ at' = 0 /\ payload' = <<>>
          /\ placed' = 0 /\ listed' = <<>> /\ UNCHANGED <<pushVars, delivery>>
      BY <1>6 DEF PollAgain
    <2>2. BodyShape'
      BY <1>0, <2>1, NoPartType DEF BodyShape, BodyValues, LoopHeads
    <2> QED BY <1>0, <2>1, <2>2 DEF pushVars, Stages
  <1>7. CASE UNCHANGED vars
    BY <1>7 DEF vars, pushVars, bodyVars, ownVars, BodyShape, BodyValues, LoopHeads
  <1> QED BY <1>1, <1>2, <1>3, <1>4, <1>5, <1>6, <1>7 DEF Next, Interrupted, CutWrite

(* Whatever bytes the network delivers, and wherever it ends: the readers  *)
(* return offsets, and where no inner loop runs the offset is not behind   *)
(* the data.                                                               *)
THEOREM ParserKeepsTypes ==
  ASSUME CodecsGiveBytes
  PROVE  Spec => []TypeOK
  <1>1. Init => WholeShape
    BY ShapeFirst
  <1>2. WholeShape /\ [Next]_vars => WholeShape'
    BY ShapeNext
  <1>3. WholeShape => TypeOK
    BY DEF WholeShape, BodyShape, BodyValues, LoopHeads, TypeOK
  <1> QED BY <1>1, <1>2, <1>3, PTL DEF Spec
-------------------------------------------------------------------------------
(***************************************************************************)
(* The names of the media files.  A number is written in one way, so two   *)
(* names with different indexes in front differ.                           *)
(***************************************************************************)
DigitTexts == Seq(48..57) \ {<<>>}

IsDecimal(f, i) ==
  f = [n \in 0..i |-> IF n < 10 THEN <<48 + n>> ELSE Append(f[n \div 10], 48 + (n % 10))]

LEMMA TenthOf ==
  ASSUME NEW n \in Nat
  PROVE  /\ n \div 10 \in Nat /\ n % 10 \in 0..9 /\ n = 10 * (n \div 10) + (n % 10)
         /\ ~(n < 10) => n \div 10 < n
         /\ n < 10 => 48 + n \in 48..57
         /\ 48 + (n % 10) \in 48..57
  OBVIOUS

LEMMA DecimalAt ==
  ASSUME NEW i \in Nat, NEW f, IsDecimal(f, i), NEW n \in 0..i
  PROVE  f[n] = IF n < 10 THEN <<48 + n>> ELSE Append(f[n \div 10], 48 + (n % 10))
  BY DEF IsDecimal

LEMMA DecimalType ==
  ASSUME NEW i \in Nat, NEW f, IsDecimal(f, i), NEW n \in 0..i
  PROVE  f[n] \in DigitTexts
  <1> DEFINE Off == {k \in 0..i : f[k] \notin DigitTexts}
  <1>1. Off = {}
    <2> SUFFICES ASSUME Off # {} PROVE FALSE
      OBVIOUS
    <2>1. PICK k \in Off : \A j \in Off : k <= j
      <3>1. PICK e \in Off : TRUE
        OBVIOUS
      <3>2. Off \in SUBSET Nat
        OBVIOUS
      <3> HIDE DEF Off
      <3> QED BY <3>1, <3>2, LeastOf
    <2>2. k \in 0..i /\ k \in Nat /\ f[k] \notin DigitTexts
      OBVIOUS
    <2>3. CASE k < 10
      <3>1. f[k] = <<48 + k>> /\ 48 + k \in 48..57
        BY <2>2, <2>3, DecimalAt, TenthOf
      <3> QED BY <2>2, <3>1 DEF DigitTexts
    <2>4. CASE ~(k < 10)
      <3>1. k \div 10 \in 0..i /\ k \div 10 < k /\ 48 + (k % 10) \in 48..57
        BY <2>2, <2>4, TenthOf
      <3>2. k \div 10 \notin Off
        <4> HIDE DEF Off
        <4>1. \A j \in Off : j \in Nat
          BY DEF Off
        <4> QED BY <2>1, <2>2, <3>1, <4>1
      <3>3. f[k \div 10] \in Seq(48..57)
        BY <3>1, <3>2 DEF DigitTexts
      <3>4. f[k] = Append(f[k \div 10], 48 + (k % 10))
        BY <2>2, <2>4, DecimalAt
      <3>5. f[k] \in Seq(48..57) /\ Len(f[k]) = Len(f[k \div 10]) + 1
        BY <3>1, <3>3, <3>4, AppendProperties
      <3>6. f[k] # <<>>
        BY <3>3, <3>5
      <3> QED BY <2>2, <3>5, <3>6 DEF DigitTexts
    <2> QED BY <2>3, <2>4
  <1> QED BY <1>1

LEMMA DecimalExists ==
  ASSUME NEW i \in Nat
  PROVE  \E f : IsDecimal(f, i)
  <1> DEFINE Has(n) == \E f : IsDecimal(f, n)
             Bad == {n \in Nat : ~Has(n)}
  <1>1. Bad = {}
    <2> SUFFICES ASSUME Bad # {} PROVE FALSE
      OBVIOUS
    <2>1. PICK n \in Bad : \A m \in Bad : n <= m
      <3>1. PICK e \in Bad : TRUE
        OBVIOUS
      <3>2. Bad \in SUBSET Nat
        OBVIOUS
      <3> HIDE DEF Bad
      <3> QED BY <3>1, <3>2, LeastOf
    <2>2. n \in Nat /\ ~Has(n)
      <3> HIDE DEF Has
      <3> QED OBVIOUS
    <2>3. CASE n = 0
      <3> DEFINE f == [k \in 0..0 |-> <<48 + k>>]
      <3>1. \A k \in 0..0 : k < 10
        OBVIOUS
      <3>2. f = [k \in 0..0 |-> IF k < 10 THEN <<48 + k>> ELSE Append(f[k \div 10], 48 + (k % 10))]
        BY <3>1
      <3> HIDE DEF f
      <3>3. IsDecimal(f, n)
        BY <2>3, <3>2 DEF IsDecimal
      <3> QED BY <2>2, <3>3
    <2>4. CASE n # 0
      <3>1. n - 1 \in Nat /\ n - 1 < n /\ n - 1 \notin Bad
        <4> HIDE DEF Bad
        <4>1. n - 1 \in Nat /\ n - 1 < n /\ ~(n <= n - 1)
          BY <2>2, <2>4
        <4> QED BY <2>1, <4>1
      <3>2. Has(n - 1)
        <4> HIDE DEF Has
        <4> QED BY <3>1
      <3>3. PICK f : IsDecimal(f, n - 1)
        BY <3>2
      <3> DEFINE v == IF n < 10 THEN <<48 + n>> ELSE Append(f[n \div 10], 48 + (n % 10))
                 g == [k \in 0..n |-> IF k = n THEN v ELSE f[k]]
      <3>4. ASSUME NEW k \in 0..n
            PROVE  g[k] = IF k < 10 THEN <<48 + k>> ELSE Append(g[k \div 10], 48 + (k % 10))
        <4>0. k \in Nat /\ (~(k < 10) => k \div 10 \in 0..n /\ k \div 10 # n /\ k \div 10 < k)
          BY <2>2, TenthOf
        <4>1. ~(k < 10) => g[k \div 10] = f[k \div 10]
          <5> HIDE DEF v
          <5> QED BY <4>0
        <4>2. CASE k = n
          <5>1. g[k] = v
            BY <4>2
          <5> HIDE DEF g
          <5> QED BY <4>1, <4>2, <5>1
        <4>3. CASE k # n
          <5>1. k \in 0..(n - 1)
            BY <2>2, <4>3
          <5>2. f[k] = IF k < 10 THEN <<48 + k>> ELSE Append(f[k \div 10], 48 + (k % 10))
            BY <3>1, <3>3, <5>1, DecimalAt
          <5>3. g[k] = f[k]
            <6> HIDE DEF v
            <6> QED BY <4>3
          <5> HIDE DEF g
          <5> QED BY <4>1, <5>2, <5>3
        <4> QED BY <4>2, <4>3
      <3>5. g = [k \in 0..n |-> g[k]]
        <4> HIDE DEF v
        <4> QED OBVIOUS
      <3>6. IsDecimal(g, n)
        <4> HIDE DEF g
        <4> QED BY <3>4, <3>5 DEF IsDecimal
      <3> HIDE DEF g
      <3> QED BY <2>2, <3>6
    <2> QED BY <2>3, <2>4
  <1> QED BY <1>1

LEMMA DigitsAre ==
  ASSUME NEW i \in Nat
  PROVE  \E f : IsDecimal(f, i) /\ Digits(i) = f[i]
  <1> DEFINE f == CHOOSE g : g = [n \in 0..i |-> IF n < 10 THEN <<48 + n>>
                                   ELSE Append(g[n \div 10], 48 + (n % 10))]
  <1>1. \E g : g = [n \in 0..i |-> IF n < 10 THEN <<48 + n>>
                                   ELSE Append(g[n \div 10], 48 + (n % 10))]
    BY DecimalExists DEF IsDecimal
  <1>2. f = [n \in 0..i |-> IF n < 10 THEN <<48 + n>> ELSE Append(f[n \div 10], 48 + (n % 10))]
    BY <1>1, Zenon
  <1>3. Digits(i) = f[i]
    BY DEF Digits
  <1> HIDE DEF f
  <1> QED BY <1>2, <1>3 DEF IsDecimal

LEMMA DigitsType ==
  ASSUME NEW i \in Nat
  PROVE  Digits(i) \in DigitTexts
  <1>1. PICK f : IsDecimal(f, i) /\ Digits(i) = f[i]
    BY DigitsAre
  <1> QED BY <1>1, DecimalType

LEMMA DecimalDiffers ==
  ASSUME NEW i \in Nat, NEW f, IsDecimal(f, i), NEW j \in Nat, NEW g, IsDecimal(g, j),
         NEW n \in 0..i, NEW m \in 0..j, f[n] = g[m]
  PROVE  n = m
  <1> DEFINE Same == {k \in 0..i : \E l \in 0..j : f[k] = g[l] /\ k # l}
  <1>1. Same = {}
    <2> SUFFICES ASSUME Same # {} PROVE FALSE
      OBVIOUS
    <2>1. PICK k \in Same : \A h \in Same : k <= h
      <3>1. PICK e \in Same : TRUE
        OBVIOUS
      <3>2. Same \in SUBSET Nat
        OBVIOUS
      <3> HIDE DEF Same
      <3> QED BY <3>1, <3>2, LeastOf
    <2>2. PICK l \in 0..j : f[k] = g[l] /\ k # l
      OBVIOUS
    <2>3. k \in 0..i /\ k \in Nat /\ l \in Nat /\ \A h \in Same : h \in Nat
      OBVIOUS
    <2>4. /\ f[k] = IF k < 10 THEN <<48 + k>> ELSE Append(f[k \div 10], 48 + (k % 10))
          /\ g[l] = IF l < 10 THEN <<48 + l>> ELSE Append(g[l \div 10], 48 + (l % 10))
      BY <2>3, DecimalAt
    <2> DEFINE a == k \div 10
               b == l \div 10
    <2>5. /\ a \in Nat /\ k = 10 * a + (k % 10) /\ (~(k < 10) => a \in 0..i /\ a < k)
          /\ b \in Nat /\ l = 10 * b + (l % 10) /\ (~(l < 10) => b \in 0..j)
          /\ k % 10 \in 0..9 /\ l % 10 \in 0..9
      BY <2>3, TenthOf
    <2>6. /\ ~(k < 10) => f[a] \in Seq(48..57) /\ Len(f[a]) \in Nat \ {0}
          /\ ~(l < 10) => g[b] \in Seq(48..57) /\ Len(g[b]) \in Nat \ {0}
      <3> HIDE DEF a, b
      <3>1. ~(k < 10) => f[a] \in DigitTexts
        BY <2>5, DecimalType
      <3>2. ~(l < 10) => g[b] \in DigitTexts
        BY <2>5, DecimalType
      <3> QED BY <3>1, <3>2, EmptySeq DEF DigitTexts
    <2> HIDE DEF Same, a, b
    <2>7. CASE k < 10
      <3>1. f[k] = <<48 + k>> /\ Len(f[k]) = 1
        BY <2>4, <2>7
      <3>2. CASE l < 10
        <4>1. g[l] = <<48 + l>>
          BY <2>4, <3>2
        <4>2. <<48 + k>>[1] = 48 + k /\ <<48 + l>>[1] = 48 + l
          OBVIOUS
        <4>3. 48 + k = 48 + l
          BY <2>2, <3>1, <4>1, <4>2, Zenon
        <4> QED BY <2>2, <2>3, <4>3
      <3>3. CASE ~(l < 10)
        <4>1. Len(g[l]) = Len(g[b]) + 1
          BY <2>3, <2>4, <2>5, <2>6, <3>3, AppendProperties DEF b
        <4> QED BY <2>2, <2>6, <3>1, <3>3, <4>1
      <3> QED BY <3>2, <3>3
    <2>8. CASE ~(k < 10)
      <3> DEFINE c == 48 + (k % 10)
                 d == 48 + (l % 10)
      <3>0. c \in 48..57 /\ d \in 48..57
        BY <2>3, TenthOf
      <3>1. f[k] = Append(f[a], c) /\ Len(f[k]) = Len(f[a]) + 1
        BY <2>4, <2>6, <2>8, <3>0, AppendProperties DEF a
      <3>2. CASE l < 10
        <4>1. Len(g[l]) = 1
          BY <2>4, <3>2
        <4> QED BY <2>2, <2>6, <2>8, <3>1, <4>1
      <3>3. CASE ~(l < 10)
        <4>1. g[l] = Append(g[b], d)
          BY <2>4, <3>3 DEF b
        <4> HIDE DEF c, d
        <4>2. f[a] = g[b] /\ c = d
          <5>1. f[a] \in Seq(48..57) /\ g[b] \in Seq(48..57)
            BY <2>6, <2>8, <3>3
          <5>2. Append(f[a], c) = Append(g[b], d)
            BY <2>2, <3>1, <4>1, Zenon
          <5>3. PICK s \in Seq(48..57), t \in Seq(48..57) : s = f[a] /\ t = g[b]
            BY <5>1
          <5>4. PICK e \in 48..57, h \in 48..57 : e = c /\ h = d
            BY <3>0
          <5>5. Append(s, e) = Append(t, h)
            BY <5>2, <5>3, <5>4, Zenon
          <5>6. s = t /\ e = h
            BY <5>5, AppendInjective
          <5> QED BY <5>3, <5>4, <5>6
        <4>3. k % 10 = l % 10
          BY <2>5, <4>2 DEF c, d
        <4>4. a # b
          BY <2>2, <2>5, <4>3
        <4>5. a \in Same
          BY <2>5, <2>8, <3>3, <4>2, <4>4 DEF Same
        <4>6. k <= a
          BY <2>1, <4>5
        <4> QED BY <2>3, <2>5, <2>8, <4>6
      <3> QED BY <3>2, <3>3
    <2> QED BY <2>7, <2>8
  <1> QED BY <1>1

LEMMA DigitsDiffer ==
  ASSUME NEW x \in Nat, NEW y \in Nat, Digits(x) = Digits(y)
  PROVE  x = y
  <1>1. PICK f : IsDecimal(f, x) /\ Digits(x) = f[x]
    BY DigitsAre
  <1>2. PICK g : IsDecimal(g, y) /\ Digits(y) = g[y]
    BY DigitsAre
  <1>3. x \in 0..x /\ y \in 0..y
    OBVIOUS
  <1>4. f[x] = g[y]
    BY <1>1, <1>2
  <1>5. IsDecimal(f, x) /\ IsDecimal(g, y)
    BY <1>1, <1>2
  <1> QED BY <1>3, <1>4, <1>5, DecimalDiffers
(* The digits end before the dash, and no digit is a dash. *)
BeginsWith(p, d) == /\ Len(d) \in Nat /\ p[Len(d) + 1] = 45
                    /\ \A k \in 1..Len(d) : p[k] = d[k] /\ d[k] \in 48..57

LEMMA PrefixAt ==
  ASSUME NEW S, NEW a \in Seq(S), NEW x \in Nat
  PROVE  BeginsWith(Prefixed(a, x), Digits(x))
  <1> DEFINE T == S \cup Nat
             d == Digits(x)
             dash == <<45>>
             tail == dash \o a
  <1>1. d \in Seq(48..57) /\ Len(d) \in Nat
    BY DigitsType DEF DigitTexts
  <1>2. d \in Seq(T) /\ a \in Seq(T) /\ dash \in Seq(T)
    <2>1. \A k \in 1..Len(d) : d[k] \in T
      <3> HIDE DEF d
      <3> QED BY <1>1
    <2>2. d \in [1..Len(d) -> T]
      <3> HIDE DEF d, T
      <3> QED BY <1>1, <2>1
    <2>3. d \in Seq(T)
      <3> HIDE DEF d, T
      <3> QED BY <1>1, <2>2
    <2> HIDE DEF d
    <2> QED BY <2>3
  <1>3. Len(dash) = 1 /\ dash[1] = 45
    OBVIOUS
  <1> HIDE DEF d, dash, T
  <1>4. /\ tail \in Seq(T) /\ Len(tail) = 1 + Len(a) /\ Len(a) \in Nat /\ tail[1] = 45
    <2>1. Len(a) \in Nat /\ tail \in Seq(T) /\ Len(tail) = Len(dash) + Len(a)
          /\ \A i \in 1..(Len(dash) + Len(a)) :
               tail[i] = IF i <= Len(dash) THEN dash[i] ELSE a[i - Len(dash)]
      BY <1>2, ConcatProperties
    <2>2. 1 \in 1..(Len(dash) + Len(a)) /\ 1 <= Len(dash)
      BY <1>3, <2>1
    <2> HIDE DEF tail
    <2> QED BY <1>3, <2>1, <2>2
  <1>5. Prefixed(a, x) = d \o tail
    BY <1>2, <1>1 DEF Prefixed, d, dash
  <1> HIDE DEF tail
  <1>6. \A i \in 1..(Len(d) + Len(tail)) :
          (d \o tail)[i] = IF i <= Len(d) THEN d[i] ELSE tail[i - Len(d)]
    BY <1>2, <1>4, ConcatProperties
  <1>7. (d \o tail)[Len(d) + 1] = 45
    <2>1. Len(d) + 1 \in 1..(Len(d) + Len(tail)) /\ ~(Len(d) + 1 <= Len(d)) /\ (Len(d) + 1) - Len(d) = 1
      BY <1>1, <1>4
    <2> QED BY <1>4, <1>6, <2>1
  <1>8. \A k \in 1..Len(d) : (d \o tail)[k] = d[k] /\ d[k] \in 48..57
    <2> SUFFICES ASSUME NEW k \in 1..Len(d) PROVE (d \o tail)[k] = d[k] /\ d[k] \in 48..57
      OBVIOUS
    <2>1. k \in 1..(Len(d) + Len(tail)) /\ k <= Len(d)
      BY <1>1, <1>4
    <2> QED BY <1>1, <1>6, <2>1
  <1> QED BY <1>1, <1>5, <1>7, <1>8 DEF d, BeginsWith

LEMMA PrefixesDiffer ==
  ASSUME NEW S, NEW a \in Seq(S), NEW T, NEW b \in Seq(T), NEW x \in Nat, NEW y \in Nat,
         Prefixed(a, x) = Prefixed(b, y)
  PROVE  x = y
  <1> DEFINE d == Digits(x)
             e == Digits(y)
             p == Prefixed(a, x)
  <1>1. BeginsWith(p, d)
    BY PrefixAt
  <1>2. BeginsWith(p, e)
    BY PrefixAt
  <1>3. d \in Seq(48..57) /\ e \in Seq(48..57)
    BY DigitsType DEF DigitTexts
  <1> HIDE DEF d, e, p
  <1> USE DEF BeginsWith
  <1>4. ~(Len(d) < Len(e)) /\ ~(Len(e) < Len(d))
    <2>1. Len(d) < Len(e) => Len(d) + 1 \in 1..Len(e)
      BY <1>1, <1>2
    <2>2. Len(e) < Len(d) => Len(e) + 1 \in 1..Len(d)
      BY <1>1, <1>2
    <2>3. 45 \notin 48..57
      OBVIOUS
    <2> QED BY <1>1, <1>2, <2>1, <2>2, <2>3
  <1>5. Len(d) = Len(e)
    BY <1>1, <1>2, <1>4
  <1>6. d = e
    BY <1>1, <1>2, <1>3, <1>5, SeqEqual
  <1> QED BY <1>6, DigitsDiffer DEF d, e

LEMMA LastComponentType ==
  ASSUME NEW name \in Text0
  PROVE  LastComponent(name) \in Text0
  <1> DEFINE S == {0} \cup {i \in DOMAIN name : name[i] = Slash}
             slash == Max(S)
  <1>1. Len(name) \in Nat /\ S \in SUBSET (0..Len(name)) /\ 0 \in S
    BY DEF Text0
  <1>2. slash \in S
    <2> HIDE DEF S
    <2> QED BY <1>1, GreatestOf
  <1>3. slash \in 0..Len(name)
    <2> HIDE DEF S, slash
    <2> QED BY <1>1, <1>2
  <1>4. LastComponent(name) = SubSeq(name, slash + 1, Len(name))
    BY DEF LastComponent
  <1> HIDE DEF slash
  <1>5. \A i \in (slash + 1)..Len(name) : name[i] \in Nat
    <2>1. \A i \in (slash + 1)..Len(name) : i \in 1..Len(name)
      BY <1>1, <1>3
    <2> QED BY <2>1 DEF Text0
  <1>6. slash + 1 \in Int /\ Len(name) \in Int
    BY <1>1, <1>3
  <1>7. SubSeq(name, slash + 1, Len(name)) \in Seq(Nat)
    BY <1>5, <1>6, SubSeqProperties
  <1> QED BY <1>4, <1>7 DEF Text0

LEMMA SelectFilenameType ==
  ASSUME CodecsGiveBytes, NEW p \in PartRecords, NEW i \in Nat
  PROVE  SelectFilename(p, i) \in Text0
  <1> DEFINE fallback == PartName \o Digits(i)
             names == <<p.filename, p.name, p.location, fallback>>
             given == {k \in DOMAIN names : names[k] # <<>>}
             candidate == FirstOf(names)
             named == LastComponent(candidate)
  <1>1. fallback \in Text0 /\ fallback # <<>>
    <2> DEFINE d == Digits(i)
    <2>1. PartName \in Seq(Nat) /\ Len(PartName) = 5
      BY DEF PartName
    <2>2. d \in Seq(Nat) /\ Len(d) \in Nat
      <3>1. d \in Seq(48..57)
        BY DigitsType DEF DigitTexts
      <3> HIDE DEF d
      <3> QED BY <3>1
    <2> HIDE DEF d
    <2>3. PartName \o d \in Seq(Nat) /\ Len(PartName \o d) = Len(PartName) + Len(d)
      BY <2>1, <2>2, ConcatProperties
    <2>4. Len(PartName \o d) # 0
      BY <2>1, <2>2, <2>3
    <2> QED BY <2>3, <2>4 DEF Text0, d
  <1>2. p.filename \in Text0 /\ p.name \in Text0 /\ p.location \in Text0 /\ p.type \in Text0
    BY DEF PartRecords
  <1>3. candidate \in Text0
    <2> HIDE DEF fallback
    <2>1. DOMAIN names = 1..4 /\ names[1] = p.filename /\ names[2] = p.name /\ names[3] = p.location
          /\ names[4] = fallback
      OBVIOUS
    <2>2. \A k \in DOMAIN names : names[k] \in Text0
      <3> HIDE DEF names
      <3> QED BY <1>1, <1>2, <2>1
    <2>3. given \in SUBSET Nat /\ 4 \in given
      <3> HIDE DEF names
      <3> QED BY <1>1, <2>1
    <2>4. Min(given) \in given
      <3> HIDE DEF given
      <3> QED BY <2>3, LeastOf
    <2>5. candidate = names[Min(given)]
      BY DEF FirstOf
    <2>6. Min(given) \in DOMAIN names
      <3>1. given \subseteq DOMAIN names
        OBVIOUS
      <3> HIDE DEF given, names
      <3> QED BY <2>4, <3>1
    <2> HIDE DEF candidate, given, names
    <2> QED BY <2>2, <2>5, <2>6
  <1> HIDE DEF candidate
  <1>4. named \in Text0 /\ Suffix(p.type) \in Text0
    BY <1>2, <1>3, LastComponentType DEF CodecsGiveBytes
  <1>5. SelectFilename(p, i) = IF Contains(named, Dot) THEN named ELSE named \o Suffix(p.type)
    BY DEF SelectFilename, candidate
  <1> HIDE DEF named
  <1>6. named \o Suffix(p.type) \in Text0
    BY <1>4, ConcatProperties DEF Text0
  <1> QED BY <1>4, <1>5, <1>6

LEMMA SafeNameType ==
  ASSUME NEW name \in Text0
  PROVE  \E S : SafeName(name) \in Seq(S)
  <1> DEFINE kept == {i \in DOMAIN name : Unsafe(name[i]) => i = 1 \/ ~Unsafe(name[i - 1])}
             nth(k) == name[CHOOSE i \in kept : Cardinality({j \in kept : j <= i}) = k]
             n == Cardinality(kept)
             mapped == [k \in 1..n |-> IF Unsafe(nth(k)) THEN Underscore ELSE nth(k)]
             solid == {k \in DOMAIN mapped : mapped[k] \notin {Dot, Underscore}}
             S == {mapped[k] : k \in 1..n}
  <1>1. n \in Nat
    <2>1. kept \subseteq 1..Len(name) /\ Len(name) \in Nat
      BY DEF Text0
    <2> HIDE DEF kept
    <2>2. IsFiniteSet(kept)
      <3>1. PICK l \in Nat : l = Len(name)
        BY <2>1
      <3>2. IsFiniteSet(1..l)
        BY FS_Interval
      <3> QED BY <2>1, <3>1, <3>2, FS_Subset
    <2> QED BY <2>2, FS_CardinalityType
  <1>2. SafeName(name) = IF solid = {} THEN <<>> ELSE SubSeq(mapped, Min(solid), Max(solid))
    BY DEF SafeName
  <1> HIDE DEF n
  <1>3. DOMAIN mapped = 1..n
    OBVIOUS
  <1>4. \A k \in 1..n : mapped[k] \in S
    <2> HIDE DEF mapped
    <2> QED OBVIOUS
  <1> HIDE DEF mapped, S
  <1>5. CASE solid = {}
    BY <1>2, <1>5
  <1>6. CASE solid # {}
    <2>1. PICK e \in solid : TRUE
      BY <1>6
    <2>2. solid \in SUBSET Nat /\ solid \in SUBSET (0..n) /\ solid \subseteq 1..n
      BY <1>1, <1>3
    <2> DEFINE lo == Min(solid)
               hi == Max(solid)
    <2>3. lo \in solid /\ hi \in solid
      <3> HIDE DEF solid
      <3> QED BY <1>1, <2>1, <2>2, LeastOf, GreatestOf
    <2>4. lo \in 1..n /\ hi \in 1..n
      <3> HIDE DEF solid, lo, hi
      <3> QED BY <2>2, <2>3
    <2>5. SafeName(name) = SubSeq(mapped, lo, hi)
      BY <1>2, <1>6
    <2> HIDE DEF solid, lo, hi
    <2>6. \A k \in lo..hi : mapped[k] \in S
      BY <1>1, <1>4, <2>4
    <2>7. lo \in Int /\ hi \in Int
      BY <2>4
    <2>8. SubSeq(mapped, lo, hi) \in Seq(S)
      BY <2>6, <2>7, SubSeqProperties
    <2> QED BY <2>5, <2>8
  <1> QED BY <1>5, <1>6

LEMMA OwnNameType ==
  ASSUME CodecsGiveBytes, NEW p \in PartRecords, NEW i \in Nat
  PROVE  \E S : OwnName(p, i) \in Seq(S)
  <1> DEFINE safe == SafeName(SelectFilename(p, i))
             d == Digits(i)
  <1>1. PICK S : safe \in Seq(S)
    BY SelectFilenameType, SafeNameType
  <1>2. PartName \o d \o Bin \in Seq(Nat)
    <2>1. PartName \in Seq(Nat) /\ Bin \in Seq(Nat)
      BY DEF PartName, Bin
    <2>2. d \in Seq(Nat)
      <3>1. d \in Seq(48..57)
        BY DigitsType DEF DigitTexts
      <3> HIDE DEF d
      <3> QED BY <3>1
    <2> HIDE DEF d
    <2>3. PartName \o d \in Seq(Nat)
      BY <2>1, <2>2, ConcatProperties
    <2> QED BY <2>1, <2>3, ConcatProperties
  <1>3. OwnName(p, i) = IF safe = <<>> THEN PartName \o d \o Bin ELSE safe
    BY DEF OwnName
  <1> HIDE DEF safe, d
  <1>4. CASE safe = <<>>
    BY <1>2, <1>3, <1>4
  <1>5. CASE safe # <<>>
    BY <1>1, <1>3, <1>5
  <1> QED BY <1>4, <1>5
-------------------------------------------------------------------------------
(***************************************************************************)
(* The files.  Every file that was written is still there with its bytes:  *)
(* the next one takes a name that is free, or one that begins with an      *)
(* index no other file has.                                                *)
(***************************************************************************)
Own(i) == OwnName(parts[i], Index(i))

Written ==
  /\ \E S : listed \in Seq(S)
  /\ Len(listed) = Index(placed)
  /\ \A i \in Media : i <= placed =>
       /\ listed[Index(i)].bytes = parts[i].bytes
       /\ listed[Index(i)].file \in {Own(i), Prefixed(Own(i), Index(i))} \cap DOMAIN disk
       /\ ~NamesCross => disk[listed[Index(i)].file] = parts[i].bytes
  /\ \A k \in DOMAIN listed : \E i \in Media : i <= placed /\ Index(i) = k

RawKept == /\ listed = <<[file |-> RawMms, bytes |-> payload]>>
           /\ RawMms \in DOMAIN disk /\ disk[RawMms] = payload

FilesKept ==
  /\ \A m \in row : stage = "stored" /\ m.service = filed /\ m.attachments = listed
  /\ stage = "parsed" => Written \/ (RawKept /\ placed = Len(parts))
  /\ stage = "attached" => RawKept
  /\ stage = "stored" => \/ RawKept
                         \/ (Written /\ placed = Len(parts))
                         \/ (listed = <<>> /\ filed = "BINARY")

LEMMA IndexCounts ==
  ASSUME parts \in Seq(PartRecords)
  PROVE  /\ Media \subseteq 1..Len(parts) /\ Len(parts) \in Nat
         /\ Index(0) = 0 /\ Index(Len(parts)) = Cardinality(Media)
         /\ \A i \in 0..Len(parts) : Index(i) \in Nat
         /\ \A i, j \in 0..Len(parts) : i <= j => Index(i) <= Index(j)
         /\ \A i \in 0..(Len(parts) - 1) :
              Index(i + 1) = IF i + 1 \in Media THEN Index(i) + 1 ELSE Index(i)
  <1> DEFINE Upto(i) == {j \in Media : j <= i}
  <1>1. /\ Len(parts) \in Nat /\ Media \subseteq 1..Len(parts)
        /\ \A j \in Media : j \in Nat /\ 1 <= j /\ j <= Len(parts)
    BY DEF Media
  <1>2. IsFiniteSet(Media)
    <2>1. PICK l \in Nat : l = Len(parts)
      BY <1>1
    <2>2. IsFiniteSet(1..l)
      BY FS_Interval
    <2> QED BY <1>1, <2>1, <2>2, FS_Subset
  <1>3. \A i : IsFiniteSet(Upto(i)) /\ Index(i) = Cardinality(Upto(i))
    <2> SUFFICES ASSUME NEW i PROVE IsFiniteSet(Upto(i)) /\ Index(i) = Cardinality(Upto(i))
      OBVIOUS
    <2>1. Upto(i) \subseteq Media
      OBVIOUS
    <2> QED BY <1>2, <2>1, FS_Subset DEF Index
  <1>4. \A i : Index(i) \in Nat
    <2> HIDE DEF Upto
    <2> QED BY <1>3, FS_CardinalityType
  <1>5. Index(0) = 0
    <2>1. Upto(0) = {}
      <3>1. ASSUME NEW j \in Media PROVE ~(j <= 0)
        BY <1>1
      <3> QED BY <3>1
    <2> HIDE DEF Upto
    <2> QED BY <1>3, <2>1, FS_EmptySet
  <1>6. Index(Len(parts)) = Cardinality(Media)
    <2>1. Upto(Len(parts)) = Media
      BY <1>1
    <2> HIDE DEF Upto
    <2> QED BY <1>3, <2>1
  <1>7. ASSUME NEW i \in 0..Len(parts), NEW j \in 0..Len(parts), i <= j
        PROVE  Index(i) <= Index(j)
    <2>1. Upto(i) \subseteq Upto(j)
      <3>1. ASSUME NEW k \in Media, k <= i PROVE k <= j
        <4>1. k \in Nat
          BY <1>1
        <4> QED BY <1>1, <1>7, <3>1, <4>1
      <3> QED BY <3>1
    <2> HIDE DEF Upto
    <2> QED BY <1>3, <2>1, FS_Subset
  <1>8. ASSUME NEW i \in 0..(Len(parts) - 1)
        PROVE  Index(i + 1) = IF i + 1 \in Media THEN Index(i) + 1 ELSE Index(i)
    <2>0. \A j \in Media : j <= i + 1 <=> j <= i \/ j = i + 1
      <3>1. ASSUME NEW j \in Media PROVE j <= i + 1 <=> j <= i \/ j = i + 1
        <4>1. j \in Nat
          BY <1>1
        <4> QED BY <1>1, <4>1
      <3> QED BY <3>1
    <2>1. CASE i + 1 \in Media
      <3>0. i + 1 <= i + 1 /\ ~(i + 1 <= i)
        BY <1>1
      <3>1. Upto(i + 1) = Upto(i) \cup {i + 1} /\ i + 1 \notin Upto(i)
        BY <2>0, <2>1, <3>0
      <3> HIDE DEF Upto
      <3> QED BY <1>3, <2>1, <3>1, FS_AddElement
    <2>2. CASE i + 1 \notin Media
      <3>1. Upto(i + 1) = Upto(i)
        BY <2>0, <2>2
      <3> HIDE DEF Upto
      <3> QED BY <1>3, <2>2, <3>1
    <2> QED BY <2>1, <2>2
  <1> QED BY <1>1, <1>4, <1>5, <1>6, <1>7, <1>8

LEMMA SameParts ==
  ASSUME parts' = parts
  PROVE  /\ Media' = Media /\ NamesCross' = NamesCross
         /\ \A i : Index(i)' = Index(i) /\ Own(i)' = Own(i)
  BY DEF Media, NamesCross, Index, Own

LEMMA OwnIsText ==
  ASSUME CodecsGiveBytes, parts \in Seq(PartRecords), NEW i \in Media
  PROVE  \E S : Own(i) \in Seq(S)
  <1>1. parts[i] \in PartRecords /\ Index(i) \in Nat
    BY IndexCounts
  <1> QED BY <1>1, OwnNameType DEF Own

LEMMA WrittenSkip ==
  ASSUME WholeShape, Written, SkipPart
  PROVE  Written'
  <1>1. /\ placed \in 0..(Len(parts) - 1) /\ placed' = placed + 1 /\ Skipped(parts[placed + 1])
        /\ UNCHANGED <<parts, listed, disk>> /\ parts \in Seq(PartRecords)
    BY DEF SkipPart, Writing, Current, Files, bodyVars, WholeShape, BodyShape, BodyValues
  <1>2. Media' = Media /\ NamesCross' = NamesCross /\ \A i : Index(i)' = Index(i) /\ Own(i)' = Own(i)
    BY <1>1, SameParts
  <1>3. PICK n : n = placed + 1
    OBVIOUS
  <1>4. n \notin Media /\ Index(n) = Index(placed)
    <2>1. n \notin Media
      BY <1>1, <1>3 DEF Media
    <2> QED BY <1>1, <1>3, <2>1, IndexCounts
  <1>5. Index(placed)' = Index(n)
    BY <1>1, <1>2, <1>3 DEF Index
  <1>6. \A i \in Media : i <= n => i <= placed
    <2>1. \A i \in Media : i \in Nat
      BY <1>1, IndexCounts
    <2> QED BY <1>1, <1>3, <1>4, <2>1
  <1>7. \A i \in Media : i <= placed => i <= n
    <2>1. \A i \in Media : i \in Nat
      BY <1>1, IndexCounts
    <2> QED BY <1>1, <1>3, <2>1
  <1> QED BY <1>1, <1>2, <1>3, <1>4, <1>5, <1>6, <1>7 DEF Written

LEMMA PlaceKeeps ==
  ASSUME NEW name, NEW bytes, Place(name, bytes)
  PROVE  /\ name \in DOMAIN disk' /\ disk'[name] = bytes
         /\ \A f \in DOMAIN disk : f \in DOMAIN disk' /\ (f # name => disk'[f] = disk[f])
  BY DEF Place

(* Where a name is taken, the new file is none of those written before.    *)
LEMMA NewNameIsFree ==
  ASSUME CodecsGiveBytes, parts \in Seq(PartRecords), ~NamesCross,
         NEW i \in Media, NEW q \in Media, Index(i) < Index(q),
         NEW f \in {Own(i), Prefixed(Own(i), Index(i))} \cap DOMAIN disk
  PROVE  f # Destination(parts[q], Index(q))
  <1> SUFFICES ASSUME f = Destination(parts[q], Index(q)) PROVE FALSE
    OBVIOUS
  <1>1. Destination(parts[q], Index(q)) = IF Own(q) \in DOMAIN disk THEN Prefixed(Own(q), Index(q))
                                          ELSE Own(q)
    BY DEF Destination, Own
  <1>2. f = Prefixed(Own(q), Index(q))
    BY <1>1
  <1>3. f # Own(i)
    BY <1>2 DEF NamesCross, Own
  <1>4. Prefixed(Own(i), Index(i)) = Prefixed(Own(q), Index(q))
    BY <1>2, <1>3
  <1>5. PICK S : Own(i) \in Seq(S)
    BY OwnIsText
  <1>6. PICK T : Own(q) \in Seq(T)
    BY OwnIsText
  <1>7. Index(i) \in Nat /\ Index(q) \in Nat
    BY IndexCounts
  <1>8. Index(i) = Index(q)
    <2>1. PICK a \in Seq(S), x \in Nat : a = Own(i) /\ x = Index(i)
      BY <1>5, <1>7
    <2>2. PICK b \in Seq(T), y \in Nat : b = Own(q) /\ y = Index(q)
      BY <1>6, <1>7
    <2>3. Prefixed(a, x) = Prefixed(b, y)
      BY <1>4, <2>1, <2>2
    <2>4. x = y
      BY <2>3, PrefixesDiffer
    <2> QED BY <2>1, <2>2, <2>4
  <1> QED BY <1>7, <1>8

LEMMA WrittenWrite ==
  ASSUME CodecsGiveBytes, WholeShape, Written, WritePart
  PROVE  Written'
  <1>1. /\ placed \in 0..(Len(parts) - 1) /\ placed' = placed + 1 /\ ~Skipped(parts[placed + 1])
        /\ parts' = parts /\ parts \in Seq(PartRecords) /\ Len(parts) \in Nat
    BY DEF WritePart, Writing, Current, Files, bodyVars, WholeShape, BodyShape, BodyValues
  <1>2. Media' = Media /\ NamesCross' = NamesCross /\ \A i : Index(i)' = Index(i) /\ Own(i)' = Own(i)
    BY <1>1, SameParts
  <1>3. PICK q : q = placed + 1
    OBVIOUS
  <1>4. PICK k : k = Len(listed) + 1
    OBVIOUS
  <1>5. /\ q \in Media /\ Index(q) = k /\ Index(placed) \in Nat /\ Len(listed) = Index(placed)
        /\ \A i \in Media : /\ i \in Nat /\ Index(i) \in Nat
                            /\ i <= placed => 1 <= Index(i) /\ Index(i) <= Index(placed)
    <2>1. q \in Media
      BY <1>1, <1>3 DEF Media
    <2>2. Len(listed) = Index(placed)
      BY DEF Written
    <2>3. Index(q) = k /\ Index(placed) \in Nat
      BY <1>1, <1>3, <1>4, <2>1, <2>2, IndexCounts
    <2>4. ASSUME NEW i \in Media
          PROVE  /\ i \in Nat /\ Index(i) \in Nat
                 /\ i <= placed => 1 <= Index(i) /\ Index(i) <= Index(placed)
      <3>1. i \in 0..Len(parts) /\ i - 1 \in 0..(Len(parts) - 1) /\ (i - 1) + 1 = i
        BY <1>1, IndexCounts
      <3>2. Index(i) = Index(i - 1) + 1
        BY <1>1, <3>1, IndexCounts
      <3>3. i - 1 \in 0..Len(parts)
        BY <1>1, <3>1
      <3>4. Index(i - 1) \in Nat /\ Index(i) \in Nat
        BY <1>1, <3>1, <3>3, IndexCounts
      <3>5. i <= placed => Index(i) <= Index(placed)
        BY <1>1, <3>1, IndexCounts
      <3> QED BY <3>1, <3>2, <3>4, <3>5
    <2> QED BY <2>1, <2>2, <2>3, <2>4
  <1>6. PICK name : /\ name = Destination(parts[q], k) /\ Place(name, parts[q].bytes)
                    /\ listed' = Append(listed, [file |-> name, bytes |-> parts[q].bytes])
    BY <1>3, <1>4 DEF WritePart, Current
  <1> DEFINE new == [file |-> name, bytes |-> parts[q].bytes]
  <1>7. PICK S : listed \in Seq(S)
    BY DEF Written
  <1>8. /\ listed' \in Seq(S \cup {new}) /\ Len(listed') = k
        /\ \A j \in 1..Len(listed) : listed'[j] = listed[j]
        /\ listed'[k] = new
    <2>1. listed \in Seq(S \cup {new}) /\ new \in S \cup {new}
      BY <1>7
    <2>2. listed' = Append(listed, new)
      BY <1>6
    <2> HIDE DEF new
    <2> QED BY <1>4, <2>1, <2>2, AppendProperties
  <1>9. new.file = name /\ new.bytes = parts[q].bytes
    OBVIOUS
  <1> HIDE DEF new
  <1>10. /\ name \in DOMAIN disk' /\ disk'[name] = parts[q].bytes
         /\ \A f \in DOMAIN disk : f \in DOMAIN disk' /\ (f # name => disk'[f] = disk[f])
    BY <1>6, PlaceKeeps
  <1>11. name \in {Own(q), Prefixed(Own(q), Index(q))}
    BY <1>5, <1>6 DEF Destination, Own
  <1>12. ASSUME NEW i \in Media, i <= q
         PROVE  /\ listed'[Index(i)].bytes = parts[i].bytes
                /\ listed'[Index(i)].file \in {Own(i), Prefixed(Own(i), Index(i))} \cap DOMAIN disk'
                /\ ~NamesCross => disk'[listed'[Index(i)].file] = parts[i].bytes
    <2>1. CASE i = q
      <3>1. listed'[Index(i)] = new
        BY <1>5, <1>8, <2>1
      <3> QED BY <1>9, <1>10, <1>11, <2>1, <3>1
    <2>2. CASE i # q
      <3>1. i <= placed
        BY <1>1, <1>3, <1>5, <1>12, <2>2
      <3>2. Index(i) \in 1..Len(listed) /\ Index(i) < Index(q)
        BY <1>4, <1>5, <3>1
      <3>3. PICK f : f = listed[Index(i)].file
        OBVIOUS
      <3>4. /\ listed[Index(i)].bytes = parts[i].bytes
            /\ f \in {Own(i), Prefixed(Own(i), Index(i))} \cap DOMAIN disk
            /\ ~NamesCross => disk[f] = parts[i].bytes
        BY <3>1, <3>3 DEF Written
      <3>5. listed'[Index(i)] = listed[Index(i)]
        BY <1>8, <3>2
      <3>6. ~NamesCross => f # name
        BY <1>1, <1>5, <1>6, <3>2, <3>4, NewNameIsFree
      <3> QED BY <1>10, <3>3, <3>4, <3>5, <3>6
    <2> QED BY <2>1, <2>2
  <1>13. ASSUME NEW j \in DOMAIN listed'
         PROVE  \E i \in Media : i <= q /\ Index(i) = j
    <2>1. j \in 1..k
      BY <1>8
    <2>2. CASE j = k
      BY <1>1, <1>3, <1>5, <2>2
    <2>3. CASE j # k
      <3>1. j \in DOMAIN listed
        BY <1>4, <1>5, <1>7, <2>1, <2>3
      <3>2. PICK i \in Media : i <= placed /\ Index(i) = j
        BY <3>1 DEF Written
      <3> QED BY <1>1, <1>3, <1>5, <3>2
    <2> QED BY <2>2, <2>3
  <1>14. Index(placed)' = Index(q)
    BY <1>1, <1>2, <1>3 DEF Index
  <1> QED BY <1>1, <1>2, <1>3, <1>5, <1>8, <1>12, <1>13, <1>14 DEF Written
LEMMA WrittenIsFiles ==
  ASSUME WholeShape, NEW m, m.attachments = listed, Written, placed = Len(parts)
  PROVE  /\ ~NamesCross => \A i \in DOMAIN m.attachments :
              disk[m.attachments[i].file] = m.attachments[i].bytes
         /\ Len(m.attachments) = Cardinality(Media)
         /\ \A i \in Media : m.attachments[Index(i)].bytes = parts[i].bytes
  <1>1. parts \in Seq(PartRecords)
    BY DEF WholeShape, BodyShape, BodyValues
  <1>2. Len(listed) = Cardinality(Media)
    BY <1>1, IndexCounts DEF Written
  <1>3. \A i \in Media : i <= placed
    <2>1. \A i \in Media : i \in 1..Len(parts)
      BY <1>1, IndexCounts
    <2> QED BY <1>1, <2>1
  <1>4. ASSUME ~NamesCross, NEW k \in DOMAIN listed
        PROVE  disk[listed[k].file] = listed[k].bytes
    <2>1. PICK i \in Media : i <= placed /\ Index(i) = k
      BY DEF Written
    <2> QED BY <1>4, <2>1 DEF Written
  <1> QED BY <1>2, <1>3, <1>4 DEF Written

LEMMA KeptIsTrue ==
  ASSUME WholeShape, FilesKept
  PROVE  FilesTrue
  <1> SUFFICES ASSUME NEW m \in row
               PROVE  /\ ~NamesCross => \A i \in DOMAIN m.attachments :
                           disk[m.attachments[i].file] = m.attachments[i].bytes
                      /\ m.service = "MMS" /\ m.attachments[1].file # RawMms =>
                           /\ Len(m.attachments) = Cardinality(Media)
                           /\ \A i \in Media : m.attachments[Index(i)].bytes = parts[i].bytes
    BY DEF FilesTrue
  <1>1. stage = "stored" /\ m.service = filed /\ m.attachments = listed
    BY DEF FilesKept
  <1>2. CASE RawKept
    <2> DEFINE raw == [file |-> RawMms, bytes |-> payload]
    <2>1. listed = <<raw>> /\ raw.file = RawMms /\ raw.bytes = payload
      BY <1>2 DEF RawKept
    <2> HIDE DEF raw
    <2>2. DOMAIN listed = {1} /\ listed[1] = raw
      BY <2>1
    <2> QED BY <1>1, <1>2, <2>1, <2>2 DEF RawKept
  <1>3. CASE Written /\ placed = Len(parts)
    BY <1>1, <1>3, WrittenIsFiles
  <1>4. CASE listed = <<>> /\ filed = "BINARY"
    <2>1. DOMAIN listed = {}
      BY <1>4
    <2> QED BY <1>1, <1>4, <2>1
  <1> QED BY <1>1, <1>2, <1>3, <1>4 DEF FilesKept

LEMMA KeptNext ==
  ASSUME CodecsGiveBytes, WholeShape, WholeShape', FilesKept, [Next]_vars
  PROVE  FilesKept'
  <1>0. parts \in Seq(PartRecords) /\ parts' \in Seq(PartRecords)
    BY DEF WholeShape, BodyShape, BodyValues
  <1>00. \A m \in row : stage = "stored"
    BY DEF FilesKept
  <1>1. CASE ReadPush
    <2>1. stage \in {"push", "notice"} /\ stage' \in {"notice", "filed"} /\ row' = row
      BY <1>1, PushShape DEF ReadPush, ownVars, WholeShape, BodyShape, BodyValues
    <2> QED BY <1>00, <2>1 DEF FilesKept
  <1>2. CASE Download
    BY <1>00, <1>2 DEF Download, FilesKept
  <1>3. CASE ReadBody
    <2>1. stage \in Parsing /\ stage' \in Parsing \cup {"parsed", "raw", "raised"}
          /\ row' = row /\ placed' = placed /\ listed' = listed
      BY <1>3, BodyStepShape DEF ReadBody, ownVars, WholeShape
    <2>2. placed' = 0 /\ listed' = <<>>
      BY <2>1 DEF WholeShape, Before
    <2>3. Written'
      <3>1. \A i \in Media' : ~(i <= 0)
        BY <1>0 DEF Media
      <3>2. Index(placed)' = 0
        <4>1. {j \in Media' : j <= 0} = {}
          BY <3>1
        <4> QED BY <2>2, <4>1, FS_EmptySet DEF Index
      <3>3. listed' \in Seq(Nat) /\ Len(listed') = 0 /\ DOMAIN listed' = {}
        BY <2>2
      <3> QED BY <2>2, <3>1, <3>2, <3>3 DEF Written
    <2> QED BY <1>00, <2>1, <2>3 DEF FilesKept, Parsing
  <1>4. CASE SkipPart
    <2>0. stage = "parsed" /\ placed < Len(parts)
      BY <1>4 DEF SkipPart, Writing
    <2>1. Written'
      BY <1>0, <1>4, <2>0, WrittenSkip DEF FilesKept
    <2> QED BY <1>00, <1>4, <2>1 DEF FilesKept, SkipPart, Writing, Files
  <1>5. CASE WritePart
    <2>0. stage = "parsed" /\ placed < Len(parts)
      BY <1>5 DEF WritePart, Writing
    <2>1. Written'
      BY <1>0, <1>5, <2>0, WrittenWrite DEF FilesKept
    <2> QED BY <1>00, <1>5, <2>1 DEF FilesKept, WritePart, Writing, Files
  <1>6. CASE WriteRaw
    <2>1. /\ Place(RawMms, payload) /\ listed' = <<[file |-> RawMms, bytes |-> payload]>>
          /\ stage \in {"raw", "parsed"} /\ stage' \in {"attached", "parsed"}
          /\ payload' = payload /\ row' = row /\ parts' = parts /\ placed' = Len(parts)
      BY <1>6 DEF WriteRaw, Files, bodyVars
    <2>2. RawKept'
      BY <2>1, PlaceKeeps DEF RawKept, RawMms
    <2> QED BY <1>00, <2>1, <2>2 DEF FilesKept
  <1>7. CASE Store
    <2>1. /\ stage' = "stored" /\ UNCHANGED <<filed, parts, payload, placed, listed, disk>>
          /\ \A m \in row' : m.service = filed /\ m.attachments = listed
          /\ \/ stage = "filed" /\ filed = "BINARY"
             \/ stage = "attached"
             \/ stage = "parsed" /\ placed = Len(parts)
      BY <1>7 DEF Store, pushVars, bodyVars
    <2>2. CASE stage = "filed" /\ filed = "BINARY"
      <3>1. listed' = <<>> /\ filed' = "BINARY"
        BY <2>1, <2>2 DEF WholeShape, Before
      <3> QED BY <2>1, <3>1 DEF FilesKept
    <2>3. CASE stage = "attached"
      <3>1. RawKept'
        BY <2>1, <2>3 DEF FilesKept, RawKept
      <3> QED BY <2>1, <3>1 DEF FilesKept
    <2>4. CASE stage = "parsed" /\ placed = Len(parts)
      <3>0. CASE RawKept
        <4>1. RawKept'
          BY <2>1, <3>0 DEF RawKept
        <4> QED BY <2>1, <4>1 DEF FilesKept
      <3> SUFFICES ASSUME Written PROVE FilesKept'
        BY <2>4, <3>0 DEF FilesKept
      <3>2. Media' = Media /\ NamesCross' = NamesCross
            /\ \A i : Index(i)' = Index(i) /\ Own(i)' = Own(i)
        BY <2>1, SameParts
      <3>3. Index(placed)' = Index(placed)
        BY <2>1, <3>2 DEF Index
      <3>4. Written'
        BY <2>1, <3>2, <3>3 DEF Written
      <3> QED BY <2>1, <2>4, <3>4 DEF FilesKept
    <2> QED BY <2>1, <2>2, <2>3, <2>4
  <1>8. CASE Interrupted \/ CutWrite
    <2>1. stage # "stored" /\ stage' = "filed" /\ row' = row
      BY <1>8 DEF Interrupted, CutWrite, PollAgain, Writing
    <2> QED BY <1>00, <2>1 DEF FilesKept
  <1>9. CASE UNCHANGED vars
    <2>1. UNCHANGED <<stage, filed, parts, payload, placed, listed, disk, row>>
      BY <1>9 DEF vars, pushVars, bodyVars, ownVars
    <2>2. Media' = Media /\ NamesCross' = NamesCross
          /\ \A i : Index(i)' = Index(i) /\ Own(i)' = Own(i)
      BY <2>1, SameParts
    <2>3. Index(placed)' = Index(placed)
      BY <2>1, <2>2 DEF Index
    <2>4. Written => Written'
      BY <2>1, <2>2, <2>3 DEF Written
    <2>5. RawKept => RawKept'
      BY <2>1 DEF RawKept
    <2> QED BY <2>1, <2>4, <2>5 DEF FilesKept
  <1> QED BY <1>1, <1>2, <1>3, <1>4, <1>5, <1>6, <1>7, <1>8, <1>9 DEF Next

(* Whatever the message is made of and whatever an interrupted poll left   *)
(* in the directory: the stored message names one file for each part that  *)
(* is no text, in order, and each holds the bytes of its part, unless one  *)
(* part's own name is another's with its index in front.                   *)
THEOREM FilesHoldTheirParts ==
  ASSUME CodecsGiveBytes
  PROVE  Spec => []FilesTrue
  <1>1. Init => WholeShape /\ FilesKept
    BY ShapeFirst DEF Init, FilesKept
  <1>2. WholeShape /\ FilesKept /\ [Next]_vars => (WholeShape /\ FilesKept)'
    BY ShapeNext, KeptNext
  <1>3. WholeShape /\ FilesKept => FilesTrue
    BY KeptIsTrue
  <1> QED BY <1>1, <1>2, <1>3, PTL DEF Spec
-------------------------------------------------------------------------------
(***************************************************************************)
(* No bytes keep the poller's thread in the parser: what is still to come  *)
(* gets less in every round.                                               *)
(***************************************************************************)
Onwards == {<<"header", "bodyParams">>, <<"bodyParams", "count">>, <<"count", "part">>,
            <<"partParams", "partHeaders">>, <<"partHeaders", "part">>}

InCall == /\ UNCHANGED <<data, outer>>
          /\ \/ stage' = stage /\ at < Len(data) /\ at < at' /\ left' = left
             \/ <<stage, stage'>> \in Onwards /\ (stage # "count" => left' = left)
             \/ <<stage, stage'>> = <<"part", "partParams">> /\ left' < left

Advance == \/ stage' \in {"parsed", "raw", "raised"}
           \/ InCall
           \/ Len(outer') = Len(outer) + 1 /\ Len(data') < Len(data)
           \/ /\ Len(outer') + 1 = Len(outer) /\ left = 0
              /\ stage' = "part" /\ left' = outer[Len(outer)].left

PushAdvance == /\ UNCHANGED data
               /\ stage' = "filed" \/ (stage' = stage /\ at < Len(data) /\ at < at')

Advances == [][(stage = "notice" => PushAdvance) /\ (stage \in Parsing => Advance)]_vars

CodecsShrink == \A e, b \in Text0 : \A r \in Decoded(e, b) : Len(r) <= Len(b)

Ahead == /\ stage = "partParams" => part.headersEnd > 0
         /\ stage = "partHeaders" => end > 0

LEMMA AheadStep ==
  ASSUME BodyShape, Ahead, CodecsGiveBytes, BodyStep
  PROVE  Ahead'
  <1>0. data \in Text0 /\ at \in Nat /\ part \in PartStates
    BY DEF BodyShape, BodyValues
  <1>1. CASE ReadMessageType \/ ReadSubject \/ SkipHeader \/ OpenBodyType \/ HeaderRaises \/ NoContentType
    BY <1>1, HeaderShape DEF Ahead
  <1>2. CASE ReadName
    <2>1. /\ part' = [part EXCEPT !.name = WapString(at + 1).value] /\ stage' = stage /\ InParams
      BY <1>2 DEF ReadName, MoveTo, Parameter
    <2>2. part'.headersEnd = part.headersEnd
      BY <1>0, <2>1 DEF PartStates
    <2> QED BY <2>1, <2>2 DEF Ahead, InParams
  <1>3. CASE SkipParameter
    <2>1. PICK o \in ParameterEnd : Goto(o)
      BY <1>3 DEF SkipParameter
    <2> QED BY <1>3, <2>1 DEF Goto, MoveTo, Ahead, SkipParameter, Parameter, InParams
  <1>4. CASE PartTypeRead
    BY <1>4 DEF PartTypeRead, Ahead
  <1>5. CASE ParameterFails \/ TypeFails \/ BodyTypeRead
    <2>1. stage' \in {"raw", "raised", "count"}
      BY <1>5 DEF ParameterFails, TypeFails, BodyTypeRead, ValueError, Ends
    <2> QED BY <2>1 DEF Ahead
  <1>6. CASE IndexError
    BY <1>6, IndexErrorShape DEF Ahead
  <1>7. CASE OpenPart
    <2>1. PICK h \in ReadUintvar(at) : \E d \in ReadUintvar(h.next) : \E t \in ContentType(d.next) :
            part' = [NoPart EXCEPT !.type = t.value, !.size = d.value, !.headersEnd = d.next + h.value]
      BY <1>7 DEF OpenPart
    <2>2. PICK d \in ReadUintvar(h.next) : part'.headersEnd = d.next + h.value
      BY <2>1 DEF NoPart
    <2>3. h.value \in Nat /\ h.next \in Nat
      BY <1>0, ReadUintvarReads DEF ReadsNumber
    <2>4. d.next \in Nat /\ h.next < d.next
      BY <1>0, <2>3, ReadUintvarReads DEF ReadsNumber
    <2>5. part'.headersEnd > 0 /\ stage' = "partParams"
      BY <1>7, <2>2, <2>3, <2>4 DEF OpenPart
    <2> QED BY <2>5 DEF Ahead
  <1>8. CASE ReadCount \/ CountFails
    <2>1. stage' \in {"part", "raw", "raised"}
      BY <1>8 DEF ReadCount, CountFails, ValueError, Ends
    <2> QED BY <2>1 DEF Ahead
  <1>9. CASE \/ ReadPartLocation \/ ReadDisposition \/ DispositionFails \/ ReadTextHeader
             \/ SkipPartHeader
    BY <1>9, PartHeaderShape DEF Ahead
  <1>10. CASE TakePart \/ EnterAlternative \/ PartFails \/ LeaveAlternative \/ BodyDone
    BY <1>10, PartEndShape DEF Ahead
  <1> QED BY <1>1, <1>2, <1>3, <1>4, <1>5, <1>6, <1>7, <1>8, <1>9, <1>10 DEF BodyStep

LEMMA AdvanceStep ==
  ASSUME BodyShape, Ahead, CodecsGiveBytes, CodecsShrink, BodyStep
  PROVE  Advance
  <1>1. CASE ReadMessageType \/ ReadSubject \/ SkipHeader \/ OpenBodyType \/ HeaderRaises \/ NoContentType
    BY <1>1, HeaderShape DEF Advance, InCall, Onwards, Inside
  <1>2. CASE \/ ReadName \/ SkipParameter \/ ParameterFails \/ BodyTypeRead \/ PartTypeRead
             \/ TypeFails
    BY <1>2, ParamsShape DEF Advance, InCall, Onwards, Inside, InParams
  <1>3. CASE IndexError
    BY <1>3, IndexErrorShape DEF Advance
  <1>4. CASE ReadCount \/ OpenPart \/ CountFails
    BY <1>4, CountShape DEF Advance, InCall, Onwards
  <1>5. CASE \/ ReadPartLocation \/ ReadDisposition \/ DispositionFails \/ ReadTextHeader
             \/ SkipPartHeader
    BY <1>5, PartHeaderShape DEF Advance, InCall, Onwards, Inside
  <1>6. CASE TakePart
    BY <1>6 DEF TakePart, PartRead, Advance, InCall, Onwards
  <1>7. CASE PartFails \/ BodyDone
    BY <1>7 DEF PartFails, BodyDone, ValueError, Ends, Advance
  <1>8. CASE EnterAlternative
    <2>0. /\ data \in Text0 /\ Len(data) \in Nat /\ end \in Nat /\ part.size \in Nat
          /\ part.encoding \in Text0 /\ outer \in Seq(Calls)
      BY DataFacts DEF BodyShape, BodyValues, PartStates
    <2>1. PICK bytes \in PartData : data' = bytes
      BY <1>8 DEF EnterAlternative
    <2>2. end > 0
      BY <1>8 DEF EnterAlternative, PartRead, Ahead
    <2> DEFINE slice == Slice(end, end + part.size)
    <2>3. end + part.size <= Len(data) /\ bytes \in Text0
      BY PartDataType DEF BodyShape
    <2>4. slice \in Text0 /\ Len(slice) = part.size
      <3>1. PICK e \in Nat : e = end + part.size
        BY <2>0
      <3>2. PICK o \in Nat : o = end
        BY <2>0
      <3>3. o <= e /\ e <= Len(data)
        BY <2>0, <2>3, <3>1, <3>2
      <3>4. Slice(o, e) \in Text0 /\ Len(Slice(o, e)) = e - o
        BY <2>0, <3>3, SliceType
      <3> QED BY <2>0, <3>1, <3>2, <3>4
    <2>5. bytes = slice \/ bytes \in Decoded(part.encoding, slice)
      BY <2>1 DEF PartData
    <2>6. Len(bytes) <= part.size
      <3> HIDE DEF slice
      <3> QED BY <2>0, <2>4, <2>5 DEF CodecsShrink
    <2>7. Len(bytes) \in Nat
      BY <2>3 DEF Text0
    <2>8. Len(data') < Len(data)
      BY <2>0, <2>1, <2>2, <2>3, <2>6, <2>7
    <2>9. Len(outer') = Len(outer) + 1
      <3> DEFINE call == [data |-> data, at |-> end + part.size, left |-> left, parts |-> parts]
      <3>1. outer' = Append(outer, call)
        BY <1>8 DEF EnterAlternative
      <3> HIDE DEF call
      <3>2. outer \in Seq(Calls \cup {call}) /\ call \in Calls \cup {call}
        BY <2>0
      <3> QED BY <3>1, <3>2, AppendProperties
    <2> QED BY <2>8, <2>9 DEF Advance
  <1>9. CASE LeaveAlternative
    <2>1. stage = "part" /\ stage' = "part" /\ left = 0 /\ left' = outer[Len(outer)].left
          /\ data' = outer[Len(outer)].data
      BY <1>9 DEF LeaveAlternative, Last
    <2>2. Len(outer') + 1 = Len(outer)
      BY <1>9, <2>1, PartEndShape
    <2> QED BY <2>1, <2>2 DEF Advance
  <1> QED BY <1>1, <1>2, <1>3, <1>4, <1>5, <1>6, <1>7, <1>8, <1>9 DEF BodyStep

LEMMA PushAdvanceStep ==
  ASSUME data \in Text0, at \in Nat, stage = "notice", PushStep
  PROVE  PushAdvance
  <1> DEFINE Text1 == ReadText(at + 1, Quote)
  <1>0. at + 1 \in Nat /\ Text1.next \in Nat /\ at < Text1.next /\ at < at + 2
    <2>1. ReadsText(Text1, at + 1)
      BY ReadTextReads
    <2> QED BY <2>1 DEF ReadsText
  <1>1. CASE OpenPush \/ NotAPush
    BY <1>1 DEF OpenPush, NotAPush
  <1>2. CASE FieldRaises \/ LoopEnds
    BY <1>2 DEF FieldRaises, LoopEnds, Filed, PushAdvance
  <1>3. CASE ReadSize \/ SkipQuoted
    <2>1. PICK r \in ReadUintvar(at + 1) \cup ReadValueLength(at + 1) :
            Skip(r.next) \/ Skip(r.next + r.value)
      BY <1>3 DEF ReadSize, SkipQuoted
    <2>2. ReadsNumber(r, at + 1)
      BY <1>0, ReadUintvarReads, ReadValueLengthReads
    <2>3. at < r.next /\ at < r.next + r.value
      BY <2>2 DEF ReadsNumber
    <2>4. Inside(at)
      BY <1>3 DEF ReadSize, SkipQuoted, InLoop
    <2> QED BY <2>1, <2>3, <2>4 DEF Skip, LoopHead, Inside, PushAdvance
  <1>4. CASE ReadType \/ ReadVersion \/ SkipOctet
    BY <1>4 DEF ReadType, ReadVersion, SkipOctet, InLoop, Skip, LoopHead, Inside, PushAdvance
  <1>5. CASE ReadLocation \/ ReadTransactionId \/ ReadMessageClass
    <2>1. at' \in {Text1.next, at + 2} /\ data' = data /\ stage' \in {"filed", stage} /\ Inside(at)
      BY <1>5 DEF ReadLocation, ReadTransactionId, ReadMessageClass, InLoop, Skip, LoopHead
    <2> HIDE DEF Text1
    <2> QED BY <1>0, <2>1 DEF Inside, PushAdvance
  <1> QED BY <1>1, <1>2, <1>3, <1>4, <1>5 DEF PushStep

(* Every round of the loop over a notification's headers files the push or *)
(* moves the offset on, and began inside the data.  Every round of the     *)
(* body's loops ends the parse; or moves the loop's offset on, and began   *)
(* inside the data; or leaves the loop for a later one of the same part,   *)
(* or for the next part, of which one less is to come; or enters a nested  *)
(* part, of fewer bytes; or returns from one.                              *)
THEOREM ParserAdvances ==
  ASSUME CodecsGiveBytes, CodecsShrink
  PROVE  Spec => Advances
  <1>1. Init => WholeShape /\ Ahead
    BY ShapeFirst DEF Init, Ahead
  <1>2. WholeShape /\ Ahead /\ [Next]_vars => (WholeShape /\ Ahead)'
    <2> SUFFICES ASSUME WholeShape, Ahead, [Next]_vars PROVE Ahead'
      BY ShapeNext
    <2>1. CASE ReadBody
      BY <2>1, AheadStep DEF ReadBody, WholeShape
    <2>2. CASE UNCHANGED vars
      BY <2>2 DEF vars, bodyVars, Ahead
    <2>3. CASE ReadPush
      <3>1. stage' \in {"notice", "filed"}
        BY <2>3, PushShape DEF ReadPush, WholeShape, BodyShape, BodyValues
      <3> QED BY <3>1 DEF Ahead
    <2>4. CASE Download \/ SkipPart \/ WritePart \/ WriteRaw \/ Store \/ Interrupted \/ CutWrite
      <3>1. stage' \in {"header", "parsed", "attached", "stored", "filed"}
        BY <2>4 DEF Download, SkipPart, WritePart, Writing, Files, WriteRaw, Store, Interrupted,
                    CutWrite, PollAgain
      <3> QED BY <3>1 DEF Ahead
    <2> QED BY <2>1, <2>2, <2>3, <2>4 DEF Next
  <1>3. WholeShape /\ Ahead /\ [Next]_vars
         => [(stage = "notice" => PushAdvance) /\ (stage \in Parsing => Advance)]_vars
    <2> SUFFICES ASSUME WholeShape, Ahead, Next, stage \in Parsing \cup {"notice"}
                 PROVE  (stage = "notice" => PushAdvance) /\ (stage \in Parsing => Advance)
      OBVIOUS
    <2>1. CASE ReadBody
      <3>1. Advance /\ stage \in Parsing
        BY <2>1, AdvanceStep, BodyStepShape DEF ReadBody, WholeShape
      <3> QED BY <3>1 DEF Parsing
    <2>2. CASE ReadPush
      <3>1. stage \in {"push", "notice"} /\ (stage = "notice" => PushAdvance)
        BY <2>2, PushShape, PushAdvanceStep DEF ReadPush, WholeShape, BodyShape, BodyValues
      <3> QED BY <3>1 DEF Parsing
    <2>3. CASE Download \/ SkipPart \/ WritePart \/ WriteRaw \/ Store \/ Interrupted \/ CutWrite
      BY <2>3 DEF Download, SkipPart, WritePart, Writing, WriteRaw, Store, Interrupted, CutWrite,
                  Parsing
    <2> QED BY <2>1, <2>2, <2>3 DEF Next
  <1> QED BY <1>1, <1>2, <1>3, PTL DEF Spec, Advances
===============================================================================
