---------------------------- MODULE AtSerialProofs ----------------------------
(***************************************************************************)
(* What holds of AtSerial for any number of notifications, contents of any *)
(* length and chunks of any size, although no answer on the line says      *)
(* which command it is for.                                                *)
(***************************************************************************)
EXTENDS AtSerial, SequenceTheorems, FiniteSetTheorems, TLAPS

-------------------------------------------------------------------------------
(***************************************************************************)
(* Final result codes behind a place of the line.                          *)
(***************************************************************************)
FinalsAt(s, i) == {j \in 1..Len(s) : i < j /\ s[j].kind = "final"}
FinalsAfter(s, i) == Cardinality(FinalsAt(s, i))

Drop(s, n) == SubSeq(s, n + 1, Len(s))

LEMMA FinalsType ==
  ASSUME NEW S, NEW s \in Seq(S), NEW i \in Nat
  PROVE  IsFiniteSet(FinalsAt(s, i)) /\ FinalsAfter(s, i) \in Nat
  <1>1. Len(s) \in Nat /\ FinalsAt(s, i) \subseteq 1..Len(s)
    BY DEF FinalsAt
  <1>2. IsFiniteSet(1..Len(s))
    BY <1>1, FS_Interval
  <1> QED BY <1>1, <1>2, FS_Subset, FS_CardinalityType DEF FinalsAfter

(* Further on there are fewer, and fewer still past one of them. *)
LEMMA FewerBehind ==
  ASSUME NEW S, NEW s \in Seq(S), NEW i \in Nat, NEW j \in Nat, i <= j
  PROVE  /\ FinalsAfter(s, j) <= FinalsAfter(s, i)
         /\ \A f \in FinalsAt(s, i) : f <= j => FinalsAfter(s, j) + 1 <= FinalsAfter(s, i)
  <1>1. FinalsAt(s, j) \subseteq FinalsAt(s, i)
    BY DEF FinalsAt
  <1>2. IsFiniteSet(FinalsAt(s, i)) /\ IsFiniteSet(FinalsAt(s, j))
        /\ FinalsAfter(s, i) \in Nat /\ FinalsAfter(s, j) \in Nat
    BY FinalsType
  <1>3. FinalsAfter(s, j) <= FinalsAfter(s, i)
    BY <1>1, <1>2, FS_Subset DEF FinalsAfter
  <1>4. ASSUME NEW f \in FinalsAt(s, i), f <= j
        PROVE  FinalsAfter(s, j) + 1 <= FinalsAfter(s, i)
    <2>1. f \notin FinalsAt(s, j) /\ FinalsAt(s, j) \cup {f} \subseteq FinalsAt(s, i)
      BY <1>1, <1>4 DEF FinalsAt
    <2>2. IsFiniteSet(FinalsAt(s, j) \cup {f})
          /\ Cardinality(FinalsAt(s, j) \cup {f}) = Cardinality(FinalsAt(s, j)) + 1
      BY <1>2, <2>1, FS_AddElement
    <2>3. Cardinality(FinalsAt(s, j) \cup {f}) <= Cardinality(FinalsAt(s, i))
      BY <1>2, <2>1, <2>2, FS_Subset
    <2> QED BY <2>2, <2>3 DEF FinalsAfter
  <1> QED BY <1>3, <1>4

LEMMA ShiftedSet ==
  ASSUME NEW P \in SUBSET Nat, IsFiniteSet(P), NEW d \in Int, NEW Q \in SUBSET Nat,
         \A p \in P : p + d \in Q, \A q \in Q : q - d \in P
  PROVE  IsFiniteSet(Q) /\ Cardinality(Q) = Cardinality(P)
  <1> DEFINE f == [p \in P |-> p + d]
  <1>1. f \in [P -> Q]
    OBVIOUS
  <1>2. \A p, q \in P : f[p] = f[q] => p = q
    OBVIOUS
  <1>3. \A q \in Q : \E p \in P : f[p] = q
    <2> SUFFICES ASSUME NEW q \in Q PROVE \E p \in P : f[p] = q
      OBVIOUS
    <2>1. q - d \in P /\ (q - d) + d = q
      OBVIOUS
    <2> QED BY <2>1
  <1>4. f \in Bijection(P, Q)
    BY <1>1, <1>2, <1>3 DEF Bijection, Injection, Surjection, IsInjective
  <1> QED BY <1>4, FS_Bijection DEF ExistsBijection

(* Behind a of its places u is t; up to there it is s without its first n. *)
EndsIn(u, a, t) == Len(u) = a + Len(t) /\ \A j \in 1..Len(t) : u[a + j] = t[j]
BeginsLike(u, a, s, n) == Len(s) = a + n /\ a <= Len(u) /\ \A j \in 1..a : u[j] = s[j + n]

LEMMA FinalsOfEnd ==
  ASSUME NEW S, NEW u \in Seq(S), NEW t \in Seq(S), NEW a \in Nat,
         EndsIn(u, a, t), NEW i \in 0..Len(t), NEW k \in Nat, k = a + i
  PROVE  FinalsAfter(u, k) = FinalsAfter(t, i)
  <1>0. /\ Len(t) \in Nat /\ Len(u) \in Nat /\ Len(u) = a + Len(t)
        /\ \A j \in 1..Len(t) : u[a + j] = t[j]
    BY DEF EndsIn
  <1>1. \A j \in FinalsAt(u, k) : \E p \in FinalsAt(t, i) : j = p + a
    <2> SUFFICES ASSUME NEW j \in FinalsAt(u, k) PROVE \E p \in FinalsAt(t, i) : j = p + a
      OBVIOUS
    <2>1. j \in Nat /\ j <= a + Len(t) /\ k < j /\ u[j].kind = "final"
      BY <1>0 DEF FinalsAt
    <2>2. j - a \in 1..Len(t) /\ i < j - a /\ j = a + (j - a)
      BY <1>0, <2>1
    <2>3. u[a + (j - a)] = t[j - a]
      BY <1>0, <2>2
    <2>4. j - a \in FinalsAt(t, i)
      BY <2>1, <2>2, <2>3 DEF FinalsAt
    <2> QED BY <2>2, <2>4
  <1>2. \A p \in FinalsAt(t, i) : p + a \in FinalsAt(u, k)
    <2> SUFFICES ASSUME NEW p \in FinalsAt(t, i) PROVE p + a \in FinalsAt(u, k)
      OBVIOUS
    <2>1. p \in 1..Len(t) /\ i < p /\ t[p].kind = "final"
      BY DEF FinalsAt
    <2>2. u[a + p] = t[p] /\ a + p = p + a
      BY <1>0, <2>1
    <2> QED BY <1>0, <2>1, <2>2 DEF FinalsAt
  <1>3. \A j \in FinalsAt(u, k) : j - a \in FinalsAt(t, i)
    <2> SUFFICES ASSUME NEW j \in FinalsAt(u, k) PROVE j - a \in FinalsAt(t, i)
      OBVIOUS
    <2>1. PICK p \in FinalsAt(t, i) : j = p + a
      BY <1>1
    <2>2. (p + a) - a = p
      BY <2>1 DEF FinalsAt
    <2> QED BY <2>1, <2>2
  <1>4. FinalsAt(t, i) \in SUBSET Nat /\ IsFiniteSet(FinalsAt(t, i))
    <2>1. i \in Nat
      OBVIOUS
    <2> QED BY <2>1, FinalsType DEF FinalsAt
  <1>5. Cardinality(FinalsAt(u, k)) = Cardinality(FinalsAt(t, i))
    <2>1. FinalsAt(u, k) \in SUBSET Nat
      BY DEF FinalsAt
    <2>2. a \in Int
      OBVIOUS
    <2> QED BY <1>2, <1>3, <1>4, <2>1, <2>2, ShiftedSet, Zenon
  <1> QED BY <1>5 DEF FinalsAfter

LEMMA FinalsOfBeginning ==
  ASSUME NEW S, NEW u \in Seq(S), NEW s \in Seq(S), NEW a \in Nat, NEW n \in Nat,
         BeginsLike(u, a, s, n), NEW i \in 0..a
  PROVE  FinalsAfter(u, i) = FinalsAfter(s, i + n) + FinalsAfter(u, a)
  <1>0. /\ Len(s) \in Nat /\ Len(u) \in Nat /\ i \in Nat /\ i <= a /\ -n \in Int
        /\ Len(s) = a + n /\ a <= Len(u) /\ \A j \in 1..a : u[j] = s[j + n]
    BY DEF BeginsLike
  <1> DEFINE P == {p + (-n) : p \in FinalsAt(s, i + n)}
  <1>1. ASSUME NEW p \in FinalsAt(s, i + n) PROVE p + (-n) \in FinalsAt(u, i) /\ p + (-n) <= a
    <2>1. p \in 1..Len(s) /\ i + n < p /\ s[p].kind = "final"
      BY DEF FinalsAt
    <2>2. p + (-n) \in 1..a /\ i < p + (-n) /\ p = (p + (-n)) + n
      BY <1>0, <2>1
    <2>3. u[p + (-n)] = s[(p + (-n)) + n]
      BY <1>0, <2>2
    <2>4. p + (-n) \in 1..Len(u)
      BY <1>0, <2>2
    <2> QED BY <2>1, <2>2, <2>3, <2>4 DEF FinalsAt
  <1>2. ASSUME NEW j \in FinalsAt(u, i), j <= a PROVE j + n \in FinalsAt(s, i + n) /\ j = (j + n) + (-n)
    <2>1. j \in 1..a /\ i < j /\ u[j].kind = "final"
      BY <1>0, <1>2 DEF FinalsAt
    <2>2. s[j + n].kind = "final" /\ j + n \in 1..Len(s) /\ i + n < j + n
      BY <1>0, <2>1
    <2> QED BY <2>1, <2>2 DEF FinalsAt
  <1>3. \A j \in FinalsAt(u, i) : j \in FinalsAt(u, a) \/ j <= a
    BY <1>0 DEF FinalsAt
  <1>4. \A j \in FinalsAt(u, a) : j \in FinalsAt(u, i) /\ ~(j <= a)
    BY <1>0 DEF FinalsAt
  <1>5. FinalsAt(u, i) = P \cup FinalsAt(u, a) /\ P \cap FinalsAt(u, a) = {}
    BY <1>1, <1>2, <1>3, <1>4
  <1>6. FinalsAt(s, i + n) \in SUBSET Nat /\ IsFiniteSet(FinalsAt(s, i + n))
    <2>1. i + n \in Nat
      BY <1>0
    <2>2. IsFiniteSet(FinalsAt(s, i + n))
      BY <2>1, FinalsType
    <2> QED BY <2>2 DEF FinalsAt
  <1>7. IsFiniteSet(P) /\ Cardinality(P) = Cardinality(FinalsAt(s, i + n))
    <2>1. P \in SUBSET Nat
      BY <1>1 DEF FinalsAt
    <2>2. \A p \in FinalsAt(s, i + n) : p + (-n) \in P
      OBVIOUS
    <2>3. \A q \in P : q - (-n) \in FinalsAt(s, i + n)
      <3> SUFFICES ASSUME NEW p \in FinalsAt(s, i + n) PROVE (p + (-n)) - (-n) \in FinalsAt(s, i + n)
        OBVIOUS
      <3>1. (p + (-n)) - (-n) = p
        BY <1>6
      <3> QED BY <3>1
    <2> HIDE DEF P
    <2> QED BY <1>0, <1>6, <2>1, <2>2, <2>3, ShiftedSet
  <1> HIDE DEF P
  <1>8. IsFiniteSet(FinalsAt(u, a)) /\ Cardinality(FinalsAt(u, a)) \in Nat
        /\ Cardinality(FinalsAt(s, i + n)) \in Nat
    BY <1>6, FinalsType, FS_CardinalityType
  <1>9. Cardinality(P \cap FinalsAt(u, a)) = 0
    BY <1>5, FS_EmptySet
  <1>10. Cardinality(P \cup FinalsAt(u, a))
          = Cardinality(P) + Cardinality(FinalsAt(u, a)) - Cardinality(P \cap FinalsAt(u, a))
    BY <1>7, <1>8, FS_Union
  <1> QED BY <1>5, <1>7, <1>8, <1>9, <1>10 DEF FinalsAfter

LEMMA FinalsMove ==
  ASSUME NEW S, NEW s \in Seq(S), NEW t \in Seq(S), NEW u \in Seq(S), NEW a \in Nat, NEW n \in Nat,
         BeginsLike(u, a, s, n), EndsIn(u, a, t)
  PROVE  /\ \A i \in 0..a : FinalsAfter(u, i) = FinalsAfter(s, i + n) + FinalsAfter(t, 0)
         /\ \A i \in 0..Len(t) : FinalsAfter(u, a + i) = FinalsAfter(t, i)
  <1>1. ASSUME NEW i \in 0..Len(t) PROVE FinalsAfter(u, a + i) = FinalsAfter(t, i)
    <2>1. a + i \in Nat
      OBVIOUS
    <2> QED BY <2>1, FinalsOfEnd
  <1>2. FinalsAfter(u, a) = FinalsAfter(t, 0)
    <2>1. 0 \in 0..Len(t) /\ a = a + 0
      OBVIOUS
    <2> QED BY <2>1, FinalsOfEnd
  <1>3. ASSUME NEW i \in 0..a PROVE FinalsAfter(u, i) = FinalsAfter(s, i + n) + FinalsAfter(u, a)
    BY FinalsOfBeginning
  <1> QED BY <1>1, <1>2, <1>3

(* What the line does: a beginning goes, an end comes. *)
Moved(s, n, a, t, u) == Len(s) = a + n /\ u = Drop(s, n) \o t

LEMMA Dropped ==
  ASSUME NEW S, NEW s \in Seq(S), NEW n \in 0..Len(s)
  PROVE  /\ Drop(s, n) \in Seq(S) /\ Len(Drop(s, n)) = Len(s) - n
         /\ \A i \in 1..(Len(s) - n) : Drop(s, n)[i] = s[i + n]
  <1>1. Len(s) \in Nat /\ n \in Nat /\ n + 1 \in Int /\ Len(s) \in Int
    OBVIOUS
  <1>2. \A i \in (n + 1)..Len(s) : s[i] \in S
    OBVIOUS
  <1>3. /\ Drop(s, n) \in Seq(S)
        /\ Len(Drop(s, n)) = IF n + 1 <= Len(s) THEN Len(s) - (n + 1) + 1 ELSE 0
        /\ \A i \in 1..(Len(s) - (n + 1) + 1) : Drop(s, n)[i] = s[(n + 1) + i - 1]
    BY <1>1, <1>2, SubSeqProperties DEF Drop
  <1>4. \A i \in 1..(Len(s) - n) : i \in 1..(Len(s) - (n + 1) + 1) /\ (n + 1) + i - 1 = i + n
    BY <1>1
  <1> QED BY <1>1, <1>3, <1>4

LEMMA LineMoves ==
  ASSUME NEW S, NEW s \in Seq(S), NEW t \in Seq(S), NEW n \in Nat, NEW a \in Nat,
         NEW u, Moved(s, n, a, t, u)
  PROVE  /\ u \in Seq(S) /\ Len(u) = a + Len(t) /\ Len(s) = a + n
         /\ \A i \in 1..a : u[i] = s[i + n]
         /\ \A i \in 1..Len(t) : u[a + i] = t[i]
         /\ \A i \in 0..a : FinalsAfter(u, i) = FinalsAfter(s, i + n) + FinalsAfter(t, 0)
         /\ \A i \in 0..Len(t) : FinalsAfter(u, a + i) = FinalsAfter(t, i)
  <1> DEFINE v == Drop(s, n)
  <1>1. n \in 0..Len(s) /\ Len(s) = a + n /\ Len(s) - n = a /\ Len(t) \in Nat
    BY DEF Moved
  <1>2. v \in Seq(S) /\ Len(v) = a /\ \A i \in 1..a : v[i] = s[i + n]
    BY <1>1, Dropped
  <1>3. u = v \o t
    BY DEF Moved
  <1> HIDE DEF v
  <1>4. /\ u \in Seq(S) /\ Len(u) = Len(v) + Len(t)
        /\ \A i \in 1..(Len(v) + Len(t)) : u[i] = IF i <= Len(v) THEN v[i] ELSE t[i - Len(v)]
    <2>1. /\ v \o t \in Seq(S) /\ Len(v \o t) = Len(v) + Len(t)
          /\ \A i \in 1..(Len(v) + Len(t)) :
               (v \o t)[i] = IF i <= Len(v) THEN v[i] ELSE t[i - Len(v)]
      BY <1>2, ConcatProperties, Zenon
    <2> QED BY <1>3, <2>1, Zenon
  <1>5. ASSUME NEW i \in 1..a PROVE u[i] = s[i + n]
    <2>1. i \in 1..(a + Len(t)) /\ i <= a
      BY <1>1
    <2>2. u[i] = v[i]
      BY <1>2, <1>4, <2>1
    <2> QED BY <1>2, <2>2
  <1>6. ASSUME NEW i \in 1..Len(t) PROVE u[a + i] = t[i]
    <2>1. a + i \in 1..(a + Len(t)) /\ ~(a + i <= a) /\ (a + i) - a = i
      BY <1>1
    <2> QED BY <1>2, <1>4, <2>1
  <1>7. u \in Seq(S) /\ Len(u) = a + Len(t)
    BY <1>2, <1>4
  <1>8. BeginsLike(u, a, s, n) /\ EndsIn(u, a, t)
    BY <1>1, <1>5, <1>6, <1>7 DEF BeginsLike, EndsIn
  <1>9. /\ \A i \in 0..a : FinalsAfter(u, i) = FinalsAfter(s, i + n) + FinalsAfter(t, 0)
        /\ \A i \in 0..Len(t) : FinalsAfter(u, a + i) = FinalsAfter(t, i)
    BY <1>7, <1>8, FinalsMove
  <1> QED BY <1>1, <1>5, <1>6, <1>7, <1>9

-------------------------------------------------------------------------------
(***************************************************************************)
(* Types.                                                                  *)
(***************************************************************************)
LEMMA AnswerTypes ==
  /\ Final \in Answers /\ End \in Answers
  /\ \A m \in Mms : Listing(m) \in Answers
  /\ \A m \in Mms, good \in BOOLEAN : UrcHead(m, good) \in Answers /\ UrcTail(m, good) \in Answers
  /\ \A bytes \in Seq(Bytes) : Data(bytes) \in Answers
  <1>1. Final \in Answers /\ End \in Answers
    BY DEF Answers, Final, End
  <1>2. \A m \in Mms : Listing(m) \in Answers
    BY DEF Answers, Listing
  <1>3. ASSUME NEW m \in Mms, NEW good \in BOOLEAN
        PROVE  UrcHead(m, good) \in Answers /\ UrcTail(m, good) \in Answers
    <2>1. Length[m] \in Nat /\ Length[m] \div 10 \in Nat
      BY AtSerialAssumption
    <2> QED BY <2>1 DEF Answers, UrcHead, UrcTail
  <1>4. \A bytes \in Seq(Bytes) : Data(bytes) \in Answers
    BY DEF Answers, Data
  <1> QED BY <1>1, <1>2, <1>3, <1>4

(* The fields of an answer, by its kind. *)
LEMMA AnswerFields ==
  ASSUME NEW x \in Answers
  PROVE  /\ x.kind = "listing" => x.of \in Mms
         /\ x.kind \in {"head", "tail"} => x.of \in Mms /\ x.total \in Nat /\ x.good \in BOOLEAN
         /\ x.kind = "data" => x.bytes \in Seq(Bytes)
  BY DEF Answers

LEMMA LeastOf ==
  ASSUME NEW T \in SUBSET Nat, NEW e \in T
  PROVE  Min(T) \in T /\ \A j \in T : Min(T) <= j
  <1> DEFINE F == {0..i : i \in T}
             R == StrictSubsetOrdering(Nat)
  <1>1. F \subseteq FiniteSubsetsOf(Nat) /\ F # {}
    <2>1. \A i \in T : 0..i \subseteq Nat /\ IsFiniteSet(0..i)
      BY FS_Interval
    <2> QED BY <2>1 DEF FiniteSubsetsOf
  <1>2. IsWellFoundedOn(R, FiniteSubsetsOf(Nat))
    BY FS_StrictSubsetOrderingWellFounded
  <1>3. \E x \in F : \A y \in F : ~(<<y, x>> \in R)
    <2> HIDE DEF F, R
    <2> QED BY <1>1, <1>2, WFMin
  <1>4. PICK i \in T : \A j \in T : ~(<<0..j, 0..i>> \in R)
    BY <1>3
  <1>5. ASSUME NEW j \in T PROVE i <= j
    <2>1. CASE j < i
      <3>1. 0..j \subseteq 0..i /\ i \in 0..i /\ i \notin 0..j
        BY <2>1
      <3>2. <<0..j, 0..i>> \in R
        BY <3>1 DEF StrictSubsetOrdering
      <3> QED BY <1>4, <3>2
    <2> QED BY <2>1
  <1>6. \E x \in T : \A y \in T : x =< y
    BY <1>5
  <1> QED BY <1>6 DEF Min

LEMMA OrderedTypes ==
  ASSUME NEW S, IsFiniteSet(S), NEW s \in SetToSeqs(S)
  PROVE  s \in Seq(S) /\ DOMAIN s = 1..Cardinality(S)
  <1>1. Cardinality(S) \in Nat /\ s \in [1..Cardinality(S) -> S]
    BY FS_CardinalityType DEF SetToSeqs
  <1> QED BY <1>1

LEMMA InitTypeOK == Init => TypeOK
  <1> USE AtSerialAssumption
  <1> SUFFICES ASSUME Init PROVE TypeOK
    OBVIOUS
  <1>1. at \in Steps /\ sent \in BOOLEAN /\ scan \in Storages /\ cpms \in Storages
    BY DEF Init, Steps, Storages
  <1>2. /\ text \in Seq(Answers) /\ out \in Seq(Answers) /\ todo \in Seq(Mms) /\ data \in Seq(Bytes)
    BY DEF Init
  <1>3. /\ captured \subseteq Mms /\ kept \subseteq Mms /\ url \in Mms \cup {Blank, Closed}
        /\ action \in Mms \cup {None} /\ body \in Mms \cup {None} /\ taken \in Mms \cup {None}
    BY DEF Init
  <1>4. total \in Nat /\ late \in Nat
    BY DEF Init
  <1>5. denied \subseteq {"HTTPTERM", "HTTPPARA", "HTTPACTION"} /\ cut \in BOOLEAN
    BY DEF Init
  <1> QED BY <1>1, <1>2, <1>3, <1>4, <1>5 DEF TypeOK

-------------------------------------------------------------------------------
(***************************************************************************)
(* What the client's place says of its locals and of the modem.            *)
(***************************************************************************)
Places ==
  /\ at \in Fetching \cup {"store", "RECPMS", "CMGD"} => todo # <<>>
  /\ at \in {"wait", "ATE0", "CMGF", "CPMS", "CMGL"} => todo = <<>>
  /\ at \in {"wait", "ATE0", "CMGF"} => scan = "SM"
  /\ at \in {"wait", "pick", "store"} => ~sent
  /\ at = "URC" => sent
  /\ ~sent => text = <<>>
  /\ at \notin {"HTTPREAD", "CLOSE", "store"} => data = <<>> /\ total = 0

OneDownload == body = None \/ action = None

-------------------------------------------------------------------------------
(***************************************************************************)
(* The answers not taken yet: what the client has read, then what is on    *)
(* its way.  Owed is how many final result codes are, at least, behind     *)
(* whatever was left of an earlier download: one for every command written *)
(* since.                                                                  *)
(***************************************************************************)
Line == text \o out
Behind(i) == FinalsAfter(Line, i)

OwedAt(step) == CASE step \in {"URC", "HTTPREAD"} -> 9
                  [] step = "HTTPACTION" -> 8
                  [] step = "HTTPPARA" -> 7
                  [] step = "HTTPINIT" -> 6
                  [] step = "HTTPTERM" -> 5
                  [] step = "CGACT" -> 4
                  [] step = "CSOCKSETPN" -> 3
                  [] step = "CGDCONT" -> 2
                  [] step \in {"wait", "CLOSE"} -> 0
                  [] OTHER -> 1
Waiting == IF sent /\ at # "URC" THEN 1 ELSE 0
Owed == OwedAt(at) + Waiting

(* The answer to the read at hand, all of it at the end of the line. *)
OwnChunk(i) ==
  /\ at = "HTTPREAD" /\ sent /\ body # None
  /\ i > 1 /\ i = Len(Line) - 1 /\ Line[i - 1] = Final
  /\ Len(Line[i].bytes) \in 1..(total - Len(data))
  /\ \A k \in DOMAIN Line[i].bytes : Line[i].bytes[k] = <<body, Len(data) + k>>

Lag == at # "wait" /\ ~Astray => Behind(0) <= late + Waiting
ChunksKnown == ~Astray => \A i \in 1..Len(Line) :
  Line[i].kind = "data" => OwnChunk(i) \/ Behind(i) >= Owed

(* Listings. *)
Selected == at = "CMGL" \/ (at = "CPMS" /\ sent) => cpms = scan
FirstScan == scan = "SM" /\ at \in {"ATE0", "CMGF", "CPMS", "CMGL"} => late = 0
ListingKnown(i) ==
  \/ at = "wait"
  \/ at = "CMGL" /\ sent /\ scan = "SM" /\ Place[Line[i].of][1] = "SM" /\ Behind(0) <= Behind(i)
  \/ at = "CPMS" /\ scan = "ME" /\ Behind(0) <= Behind(i)
  \/ at # "CPMS" /\ (at = "CMGL" => sent) /\ scan = "ME" /\ Place[Line[i].of][1] = "ME"
ListingsKnown == \A i \in 1..Len(Line) : Line[i].kind = "listing" => ListingKnown(i)
OwnListing == \A i \in DOMAIN todo : Place[todo[i]][1] = scan

(* Downloads and what tells of them. *)
UrcWhole == \A i \in 1..Len(Line) : Line[i].kind = "head" =>
  \E m \in Mms, good \in BOOLEAN :
    Line[i] = UrcHead(m, good) /\ i < Len(Line) /\ Line[i + 1] = UrcTail(m, good)
Restarted == /\ "HTTPTERM" \notin denied
             /\ \/ at = "HTTPTERM" /\ sent
                \/ at \in {"HTTPINIT", "HTTPPARA", "HTTPACTION", "URC", "HTTPREAD"}
UrcsKnown == Restarted => \A i \in 1..Len(Line) : Line[i].kind = "head" =>
               Line[i].of = Head(todo) \/ Behind(i) + 5 >= Owed
Given == /\ "HTTPPARA" \notin denied
         /\ (at = "HTTPPARA" /\ sent) \/ at = "HTTPACTION"
Started == /\ denied \cap {"HTTPPARA", "HTTPACTION"} = {}
           /\ (at = "HTTPACTION" /\ sent) \/ at \in {"URC", "HTTPREAD"}
Session ==
  /\ Restarted => /\ url \in {Closed, Blank, Head(todo)}
                  /\ {action, body} \subseteq {None, Head(todo)}
  /\ Given => url = Head(todo)
  /\ Started => {action, body} \subseteq {None, Head(todo)}
Reading == at \in {"HTTPREAD", "CLOSE", "store"}
Told == Reading => taken = Head(todo) \/ "HTTPTERM" \in denied \/ late >= 3

(* What was read. *)
Trusted == "HTTPTERM" \notin denied \/ denied \cap {"HTTPPARA", "HTTPACTION"} = {}
Unfinished == at = "HTTPREAD" => Len(data) < total
Amount ==
  /\ at = "store" => Len(data) >= total
  /\ Reading /\ ~Astray => Len(data) <= total
  /\ Reading => taken \in Mms /\ (cut \/ total = Length[taken])
Content == ~Astray =>
  /\ at = "HTTPREAD" => \A k \in DOMAIN data : data[k] = <<body, k>>
  /\ \A k \in DOMAIN data : data[k] = <<data[1][1], k>> /\ (Trusted => data[k][1] = Head(todo))

Base == TypeOK /\ Places /\ OneDownload /\ UrcWhole /\ Unfinished

-------------------------------------------------------------------------------
(* The actions that write a command, those that go on from an answer, and  *)
(* the rest.                                                               *)
Writes == \/ WritePlain \/ WriteRefused \/ WriteSelect \/ WriteList \/ WriteErase
          \/ WriteTerm \/ WriteInit \/ WriteUrl \/ WriteAction \/ WriteRead
          \/ WriteReadRefused

Turns == \/ Proceed \/ Listed \/ Pick \/ ScanEnds \/ ActionAnswered \/ UrcTaken \/ ChunkTaken
         \/ SessionClosed \/ Store \/ Erased \/ TimesOut \/ PortLost

LEMMA StepKinds ==
  ASSUME [Next]_vars
  PROVE  Writes \/ Turns \/ Receive \/ Open \/ Drain \/ DownloadEnds \/ UNCHANGED vars
  BY DEF Next, Client, Writes, Turns

LEMMA DroppedType ==
  ASSUME NEW S, NEW s \in Seq(S), NEW n \in 0..Len(s)
  PROVE  SubSeq(s, n + 1, Len(s)) \in Seq(S) /\ SubSeq(s, 1, n) \in Seq(S)
  <1>1. SubSeq(s, n + 1, Len(s)) \in Seq(S)
    BY Dropped DEF Drop
  <1>2. \A i \in 1..n : s[i] \in S
    OBVIOUS
  <1>3. 1 \in Int /\ n \in Int
    OBVIOUS
  <1> QED BY <1>1, <1>2, <1>3, SubSeqProperties

LEMMA WriteTypes ==
  ASSUME TypeOK, NEW answer \in Seq(Answers), Write(answer)
  PROVE  text' \in Seq(Answers) /\ out' \in Seq(Answers)
  <1>1. PICK k \in 0..Len(out) : out' = SubSeq(out, k + 1, Len(out)) \o answer
    BY DEF Write
  <1>2. SubSeq(out, k + 1, Len(out)) \in Seq(Answers)
    BY DroppedType DEF TypeOK
  <1>3. out' \in Seq(Answers)
    BY <1>1, <1>2, ConcatProperties
  <1> QED BY <1>3 DEF Write

LEMMA PieceType ==
  ASSUME NEW m \in Mms, NEW first \in Nat \ {0}, NEW n \in Nat, first + n <= Length[m] + 1
  PROVE  Piece(m, first, n) \in Seq(Bytes) /\ Len(Piece(m, first, n)) = n
  <1>1. Length[m] \in Nat
    BY AtSerialAssumption
  <1>2. \A i \in 1..n : first + i - 1 \in 1..Length[m]
    BY <1>1
  <1>3. \A i \in 1..n : <<m, first + i - 1>> \in Bytes
    BY <1>2 DEF Bytes
  <1> QED BY <1>3 DEF Piece

LEMMA ListingTypes ==
  ASSUME TypeOK, NEW msgs \in Ordered({m \in kept : Place[m][1] = cpms}, LowerIndex)
  PROVE  /\ [i \in DOMAIN msgs |-> Listing(msgs[i])] \in Seq(Answers)
         /\ \A i \in DOMAIN msgs : msgs[i] \in Mms /\ Place[msgs[i]][1] = cpms
  <1> DEFINE H == {m \in kept : Place[m][1] = cpms}
  <1>1. msgs \in SetToSeqs(H) /\ IsFiniteSet(H) /\ H \subseteq Mms
    BY AtSerialAssumption, FS_Subset DEF Ordered, TypeOK
  <1>2. msgs \in Seq(H) /\ DOMAIN msgs = 1..Cardinality(H) /\ Cardinality(H) \in Nat
    BY <1>1, OrderedTypes, FS_CardinalityType
  <1>3. \A i \in DOMAIN msgs : msgs[i] \in H
    BY <1>2
  <1>4. \A i \in 1..Cardinality(H) : Listing(msgs[i]) \in Answers
    BY <1>1, <1>2, <1>3, AnswerTypes
  <1>5. [i \in 1..Cardinality(H) |-> Listing(msgs[i])] \in Seq(Answers)
    BY <1>2, <1>4
  <1> QED BY <1>1, <1>2, <1>3, <1>5

-------------------------------------------------------------------------------
(***************************************************************************)
(* What a step does to the line.                                           *)
(***************************************************************************)
Listings(answer) ==
  /\ at = "CMGL"
  /\ Len(answer) > 0 /\ answer[Len(answer)] = Final
  /\ \A i \in 1..(Len(answer) - 1) : \E m \in Mms : answer[i] = Listing(m) /\ Place[m][1] = cpms

Chunks(answer) ==
  /\ at = "HTTPREAD" /\ body # None
  /\ \E bytes \in Seq(Bytes) :
       /\ answer = <<Final, Data(bytes), End>>
       /\ Len(bytes) \in 1..(total - Len(data))
       /\ \A k \in DOMAIN bytes : bytes[k] = <<body, Len(data) + k>>

LEMMA ListingAnswer ==
  ASSUME TypeOK, at = "CMGL", NEW msgs \in Ordered({m \in kept : Place[m][1] = cpms}, LowerIndex),
         NEW answer, answer = [i \in DOMAIN msgs |-> Listing(msgs[i])] \o <<Final>>
  PROVE  answer \in Seq(Answers) /\ Listings(answer)
  <1> DEFINE a == [i \in DOMAIN msgs |-> Listing(msgs[i])]
  <1>1. a \in Seq(Answers) /\ \A i \in DOMAIN msgs : msgs[i] \in Mms /\ Place[msgs[i]][1] = cpms
    BY ListingTypes
  <1>2. /\ DOMAIN a = DOMAIN msgs
        /\ \A i \in DOMAIN a : \E m \in Mms : a[i] = Listing(m) /\ Place[m][1] = cpms
    BY <1>1
  <1>3. <<Final>> \in Seq(Answers) /\ Len(<<Final>>) = 1 /\ <<Final>>[1] = Final
    BY AnswerTypes
  <1>4. answer = a \o <<Final>>
    OBVIOUS
  <1> HIDE DEF a
  <1>5. /\ answer \in Seq(Answers) /\ Len(answer) = Len(a) + 1 /\ Len(a) \in Nat /\ DOMAIN a = 1..Len(a)
        /\ \A i \in 1..(Len(a) + 1) : answer[i] = IF i <= Len(a) THEN a[i] ELSE <<Final>>[i - Len(a)]
    <2>1. /\ a \o <<Final>> \in Seq(Answers) /\ Len(a \o <<Final>>) = Len(a) + Len(<<Final>>)
          /\ \A i \in 1..(Len(a) + Len(<<Final>>)) :
               (a \o <<Final>>)[i] = IF i <= Len(a) THEN a[i] ELSE <<Final>>[i - Len(a)]
      BY <1>1, <1>3, ConcatProperties, Zenon
    <2>2. Len(a) \in Nat /\ DOMAIN a = 1..Len(a)
      BY <1>1
    <2> QED BY <1>3, <1>4, <2>1, <2>2, Zenon
  <1>6. answer[Len(a) + 1] = Final
    BY <1>3, <1>5
  <1>7. ASSUME NEW i \in 1..Len(a) PROVE answer[i] = a[i]
    <2>1. i \in 1..(Len(a) + 1) /\ i <= Len(a)
      BY <1>5
    <2> QED BY <1>5, <2>1, Zenon
  <1>8. \A i \in 1..(Len(answer) - 1) : \E m \in Mms : answer[i] = Listing(m) /\ Place[m][1] = cpms
    <2> SUFFICES ASSUME NEW i \in 1..(Len(answer) - 1)
                 PROVE \E m \in Mms : answer[i] = Listing(m) /\ Place[m][1] = cpms
      OBVIOUS
    <2>1. i \in 1..Len(a) /\ i \in DOMAIN a
      BY <1>5
    <2> QED BY <1>2, <1>7, <2>1, Zenon
  <1>9. Len(answer) > 0 /\ answer[Len(answer)] = Final
    BY <1>5, <1>6
  <1>10. Listings(answer)
    BY <1>8, <1>9 DEF Listings
  <1> QED BY <1>5, <1>10

LEMMA ChunkAnswer ==
  ASSUME Base, WriteRead
  PROVE  \E answer \in Seq(Answers) : Write(answer) /\ Chunks(answer)
  <1> DEFINE size == Min({ChunkSize, total - Len(data)})
             rest == Length[body] - Len(data)
  <1>1. /\ at = "HTTPREAD" /\ body \in Mms /\ body # None /\ Len(data) \in Nat /\ total \in Nat
        /\ Length[body] \in Nat /\ Len(data) < Length[body] /\ Len(data) < total /\ ChunkSize \in Nat
    BY AtSerialAssumption DEF WriteRead, Base, TypeOK, Unfinished
  <1>2. PICK n \in 1..Min({size, rest}) :
          Write(<<Final, Data(Piece(body, Len(data) + 1, n)), End>>)
    BY DEF WriteRead
  <1>3. size \in Nat /\ size <= total - Len(data)
    <2>1. {ChunkSize, total - Len(data)} \in SUBSET Nat /\ total - Len(data) \in {ChunkSize, total - Len(data)}
      BY <1>1
    <2> QED BY <2>1, LeastOf
  <1>4. Min({size, rest}) \in Nat /\ Min({size, rest}) <= size /\ Min({size, rest}) <= rest
    <2>1. {size, rest} \in SUBSET Nat /\ size \in {size, rest} /\ rest \in {size, rest}
      BY <1>1, <1>3
    <2> QED BY <2>1, LeastOf
  <1> HIDE DEF size
  <1>5. n \in Nat /\ n >= 1 /\ n <= total - Len(data) /\ n <= rest
    BY <1>1, <1>3, <1>4
  <1> DEFINE bytes == Piece(body, Len(data) + 1, n)
  <1>6. (Len(data) + 1) + n <= Length[body] + 1 /\ Len(data) + 1 \in Nat \ {0}
    BY <1>1, <1>5
  <1>7. bytes \in Seq(Bytes) /\ Len(bytes) = n
    BY <1>1, <1>5, <1>6, PieceType
  <1>8. \A k \in DOMAIN bytes : bytes[k] = <<body, Len(data) + k>>
    <2> SUFFICES ASSUME NEW k \in 1..n PROVE Piece(body, Len(data) + 1, n)[k] = <<body, Len(data) + k>>
      BY DEF Piece
    <2>1. Len(data) + 1 + k - 1 = Len(data) + k
      BY <1>1, <1>5
    <2> QED BY <2>1 DEF Piece
  <1>9. Len(bytes) \in 1..(total - Len(data))
    BY <1>1, <1>5, <1>7
  <1> DEFINE answer == <<Final, Data(bytes), End>>
  <1>10. answer \in Seq(Answers)
    BY <1>7, AnswerTypes
  <1>11. Write(answer)
    BY <1>2
  <1> HIDE DEF bytes
  <1>12. Chunks(answer)
    BY <1>1, <1>7, <1>8, <1>9 DEF Chunks
  <1> QED BY <1>10, <1>11, <1>12

LEMMA WrittenAnswers ==
  ASSUME Base, Writes
  PROVE  /\ at \notin {"wait", "pick", "store", "URC"}
         /\ \E answer \in Seq(Answers) :
              Write(answer) /\ (answer = <<Final>> \/ Listings(answer) \/ Chunks(answer))
  <1>1. <<Final>> \in Seq(Answers)
    BY AnswerTypes
  <1>2. at \notin {"wait", "pick", "store", "URC"}
    BY DEF Writes, WritePlain, WriteRefused, WriteSelect, WriteList, WriteErase, WriteTerm, WriteInit,
           WriteUrl, WriteAction, WriteRead, WriteReadRefused, Plain, Refusable
  <1>3. CASE WriteList
    <2>1. PICK msgs \in Ordered({m \in kept : Place[m][1] = cpms}, LowerIndex) :
            Write([i \in DOMAIN msgs |-> Listing(msgs[i])] \o <<Final>>)
      BY <1>3 DEF WriteList
    <2>2. at = "CMGL" /\ TypeOK
      BY <1>3 DEF WriteList, Base
    <2> QED BY <1>2, <2>1, <2>2, ListingAnswer
  <1>4. CASE WriteRead
    BY <1>2, <1>4, ChunkAnswer
  <1>5. CASE ~WriteList /\ ~WriteRead
    <2>1. Write(<<Final>>)
      BY <1>5 DEF Writes, WritePlain, WriteRefused, WriteSelect, WriteErase, WriteTerm, WriteInit,
                  WriteUrl, WriteAction, WriteReadRefused
    <2> QED BY <1>1, <1>2, <2>1
  <1> QED BY <1>3, <1>4, <1>5

LEMMA LineType ==
  ASSUME TypeOK
  PROVE  /\ Line \in Seq(Answers) /\ Len(Line) = Len(text) + Len(out)
         /\ \A i \in 1..Len(text) : Line[i] = text[i]
         /\ \A i \in 1..Len(out) : Line[Len(text) + i] = out[i]
  <1>1. text \in Seq(Answers) /\ out \in Seq(Answers) /\ Len(text) \in Nat /\ Len(out) \in Nat
    BY DEF TypeOK
  <1>2. /\ Line \in Seq(Answers) /\ Len(Line) = Len(text) + Len(out)
        /\ \A i \in 1..(Len(text) + Len(out)) :
             Line[i] = IF i <= Len(text) THEN text[i] ELSE out[i - Len(text)]
    BY <1>1, ConcatProperties, Zenon DEF Line
  <1>3. ASSUME NEW i \in 1..Len(text) PROVE Line[i] = text[i]
    <2>1. i \in 1..(Len(text) + Len(out)) /\ i <= Len(text)
      BY <1>1
    <2> QED BY <1>2, <2>1, Zenon
  <1>4. ASSUME NEW i \in 1..Len(out) PROVE Line[Len(text) + i] = out[i]
    <2>1. Len(text) + i \in 1..(Len(text) + Len(out)) /\ ~(Len(text) + i <= Len(text))
          /\ Len(text) + i - Len(text) = i
      BY <1>1
    <2> QED BY <1>2, <2>1
  <1> QED BY <1>2, <1>3, <1>4

LEMMA TurnKeeps ==
  ASSUME Turns
  PROVE  text' = <<>> /\ out' = out /\ UNCHANGED modemVars
  <1> USE DEF Unread, Goto, LeavePoll, NextStorage, NextMessage, FetchEnds, modemVars, httpVars
  <1>1. CASE TimesOut
    BY <1>1 DEF TimesOut
  <1>2. CASE ~TimesOut
    BY <1>2 DEF Turns, Proceed, Listed, Pick, ScanEnds, ActionAnswered, UrcTaken, ChunkTaken,
                SessionClosed, Store, Erased, PortLost
  <1> QED BY <1>1, <1>2

(* What the client has read goes when it goes on. *)
LEMMA TurnMoves ==
  ASSUME TypeOK, Turns
  PROVE  Moved(Line, Len(text), Len(out), <<>>, Line') /\ Line' = out
  <1>1. text' = <<>> /\ out' = out
    BY TurnKeeps
  <1>2. out \in Seq(Answers) /\ Len(text) \in Nat /\ Len(out) \in Nat
    BY DEF TypeOK
  <1>3. Line' = out
    BY <1>1, <1>2, ConcatEmptySeq DEF Line
  <1>4. Line \in Seq(Answers) /\ Len(Line) = Len(text) + Len(out) /\ Len(text) \in 0..Len(Line)
        /\ \A i \in 1..Len(out) : Line[Len(text) + i] = out[i]
    BY <1>2, LineType
  <1>5. Drop(Line, Len(text)) = out
    <2> DEFINE d == Drop(Line, Len(text))
    <2>1. /\ d \in Seq(Answers) /\ Len(d) = Len(Line) - Len(text)
          /\ \A i \in 1..(Len(Line) - Len(text)) : d[i] = Line[i + Len(text)]
      BY <1>4, Dropped
    <2>2. Len(Line) - Len(text) = Len(out)
      BY <1>2, <1>4
    <2> HIDE DEF d
    <2>3. \A i \in 1..Len(out) : d[i] = out[i]
      <3> SUFFICES ASSUME NEW i \in 1..Len(out) PROVE d[i] = out[i]
        OBVIOUS
      <3>1. i + Len(text) = Len(text) + i
        BY <1>2
      <3> QED BY <1>4, <2>1, <2>2, <3>1
    <2>4. d = out
      BY <1>2, <2>1, <2>2, <2>3, SeqEqual
    <2> QED BY <2>4 DEF d
  <1>6. Len(Line) = Len(out) + Len(text)
    BY <1>2, <1>4
  <1>7. out \o <<>> = out
    BY <1>2, ConcatEmptySeq
  <1> QED BY <1>3, <1>5, <1>6, <1>7 DEF Moved

LEMMA ReceiveKeepsLine ==
  ASSUME TypeOK, Receive
  PROVE  Line' = Line /\ text' \in Seq(Answers) /\ out' \in Seq(Answers)
  <1>1. PICK n \in 1..Len(out) : text' = text \o SubSeq(out, 1, n) /\ out' = SubSeq(out, n + 1, Len(out))
    BY DEF Receive
  <1>2. text \in Seq(Answers) /\ out \in Seq(Answers) /\ n \in 0..Len(out)
    BY DEF TypeOK
  <1>3. SubSeq(out, 1, n) \in Seq(Answers) /\ SubSeq(out, n + 1, Len(out)) \in Seq(Answers)
    BY <1>2, DroppedType
  <1>4. SubSeq(out, 1, n) \o SubSeq(out, n + 1, Len(out)) = out
    <2>1. 1 \in 1..(Len(out) + 1) /\ n \in (1 - 1)..Len(out) /\ Len(out) \in n..Len(out)
      BY <1>2
    <2>2. SubSeq(out, 1, n) \o SubSeq(out, n + 1, Len(out)) = SubSeq(out, 1, Len(out))
      BY <1>2, <2>1, ConcatAdjacentSubSeq
    <2>3. SubSeq(out, 1, Len(out)) = out
      BY <1>2, SubSeqFull
    <2> QED BY <2>2, <2>3
  <1>5. (text \o SubSeq(out, 1, n)) \o SubSeq(out, n + 1, Len(out))
         = text \o (SubSeq(out, 1, n) \o SubSeq(out, n + 1, Len(out)))
    <2> DEFINE b == SubSeq(out, 1, n)
               e == SubSeq(out, n + 1, Len(out))
    <2>1. b \in Seq(Answers) /\ e \in Seq(Answers)
      BY <1>3
    <2> HIDE DEF b, e
    <2>2. (text \o b) \o e = text \o (b \o e)
      <3>1. \A x, y, z \in Seq(Answers) : (x \o y) \o z = x \o (y \o z)
        BY ConcatAssociative
      <3> QED BY <1>2, <2>1, <3>1, Zenon
    <2> QED BY <2>2 DEF b, e
  <1>6. text' \in Seq(Answers)
    <2> DEFINE b == SubSeq(out, 1, n)
    <2>1. b \in Seq(Answers) /\ text' = text \o b
      BY <1>1, <1>3
    <2> HIDE DEF b
    <2> QED BY <1>2, <2>1, ConcatProperties
  <1> QED BY <1>1, <1>3, <1>4, <1>5, <1>6 DEF Line

(* Nothing comes when the client reads, goes on, opens or closes. *)
LEMMA QuietMoves ==
  ASSUME TypeOK, Places, Turns \/ Receive \/ Open \/ Drain \/ UNCHANGED vars
  PROVE  \E n, a \in Nat : Moved(Line, n, a, <<>>, Line')
  <1>1. Line \in Seq(Answers) /\ Len(Line) \in Nat /\ Len(text) \in Nat /\ Len(out) \in Nat
    BY LineType DEF TypeOK
  <1>2. Moved(Line, 0, Len(Line), <<>>, Line)
    <2>1. Drop(Line, 0) = Line
      <3>1. 0 + 1 = 1 /\ SubSeq(Line, 1, Len(Line)) = Line
        BY <1>1, SeqEqual
      <3> QED BY <3>1 DEF Drop
    <2>2. Line \o <<>> = Line
      BY <1>1, ConcatEmptySeq
    <2>3. Len(Line) = Len(Line) + 0
      BY <1>1
    <2> QED BY <2>1, <2>2, <2>3 DEF Moved
  <1>3. CASE Turns
    BY <1>1, <1>3, TurnMoves
  <1>4. CASE Receive
    BY <1>1, <1>2, <1>4, ReceiveKeepsLine
  <1>5. CASE UNCHANGED vars
    <2>1. Line' = Line
      BY <1>5 DEF vars, Line
    <2> QED BY <1>1, <1>2, <2>1
  <1>6. CASE Open \/ Drain
    <2>1. text' = <<>> /\ out' = <<>>
      BY <1>6 DEF Open, Drain, Goto, Places
    <2>2. Line' = <<>>
      BY <2>1, ConcatEmptySeq DEF Line
    <2>3. Drop(Line, Len(Line)) = <<>>
      <3>1. Len(Line) \in 0..Len(Line) /\ Len(Line) - Len(Line) = 0
        BY <1>1
      <3>2. Drop(Line, Len(Line)) \in Seq(Answers) /\ Len(Drop(Line, Len(Line))) = 0
        BY <1>1, <3>1, Dropped
      <3> QED BY <3>2, EmptySeq
    <2>4. Moved(Line, Len(Line), 0, <<>>, <<>>)
      <3>1. <<>> \o <<>> = <<>>
        BY ConcatEmptySeq
      <3> QED BY <1>1, <2>3, <3>1 DEF Moved
    <2> QED BY <1>1, <2>2, <2>4
  <1> QED BY <1>3, <1>4, <1>5, <1>6

LEMMA WriteMoves ==
  ASSUME TypeOK, Places, NEW answer \in Seq(Answers), Write(answer)
  PROVE  \E n, a \in Nat : Moved(Line, n, a, answer, Line')
  <1>1. PICK k \in 0..Len(out) : out' = SubSeq(out, k + 1, Len(out)) \o answer
    BY DEF Write
  <1>2. text = <<>> /\ text' = <<>> /\ out \in Seq(Answers) /\ Len(out) \in Nat /\ out' \in Seq(Answers)
    BY WriteTypes DEF Write, Places, TypeOK
  <1>3. Line = out /\ Line' = out'
    BY <1>2, ConcatEmptySeq DEF Line
  <1>4. Line' = Drop(Line, k) \o answer
    BY <1>1, <1>3 DEF Drop
  <1>5. Len(Line) = (Len(out) - k) + k /\ Len(out) - k \in Nat /\ k \in Nat
    BY <1>2, <1>3
  <1> QED BY <1>4, <1>5 DEF Moved

LEMMA DownloadMoves ==
  ASSUME TypeOK, DownloadEnds
  PROVE  \E good \in BOOLEAN :
           /\ out' = out \o <<UrcHead(action, good), UrcTail(action, good)>>
           /\ Moved(Line, 0, Len(Line), <<UrcHead(action, good), UrcTail(action, good)>>, Line')
           /\ action \in Mms /\ <<UrcHead(action, good), UrcTail(action, good)>> \in Seq(Answers)
  <1>1. PICK good \in BOOLEAN : out' = out \o <<UrcHead(action, good), UrcTail(action, good)>>
    BY DEF DownloadEnds
  <1>2. action \in Mms
    BY DEF DownloadEnds, TypeOK
  <1> DEFINE t == <<UrcHead(action, good), UrcTail(action, good)>>
  <1>3. t \in Seq(Answers)
    BY <1>2, AnswerTypes
  <1>4. text \in Seq(Answers) /\ out \in Seq(Answers) /\ text' = text /\ out' = out \o t
    BY <1>1 DEF DownloadEnds, TypeOK
  <1> HIDE DEF t
  <1>5. Line' = Line \o t
    BY <1>3, <1>4, ConcatAssociative DEF Line
  <1>6. Line \in Seq(Answers) /\ Len(Line) \in Nat
    BY LineType
  <1>7. Drop(Line, 0) = Line
    <2>1. 0 + 1 = 1 /\ SubSeq(Line, 1, Len(Line)) = Line
      BY <1>6, SeqEqual
    <2> QED BY <2>1 DEF Drop
  <1>8. Len(Line) = Len(Line) + 0
    BY <1>6
  <1>9. Moved(Line, 0, Len(Line), t, Line')
    BY <1>5, <1>7, <1>8 DEF Moved
  <1> QED BY <1>1, <1>2, <1>3, <1>9 DEF t

-------------------------------------------------------------------------------
(***************************************************************************)
(* Every command is answered by one final result code.                     *)
(***************************************************************************)
AnswerIs(answer) == answer = <<Final>> \/ Listings(answer) \/ Chunks(answer)

LEMMA OneFinal ==
  ASSUME NEW s \in Seq(Answers), NEW f \in 1..Len(s), s[f] = Final,
         \A i \in 1..Len(s) : s[i].kind = "final" => i = f
  PROVE  \A i \in Nat : i < f => FinalsAfter(s, i) = 1
  <1> SUFFICES ASSUME NEW i \in Nat, i < f PROVE FinalsAfter(s, i) = 1
    OBVIOUS
  <1>1. s[f].kind = "final"
    BY DEF Final
  <1>2. FinalsAt(s, i) = {f}
    BY <1>1 DEF FinalsAt
  <1> QED BY <1>2, FS_Singleton DEF FinalsAfter

LEMMA AnswerKinds ==
  ASSUME NEW answer \in Seq(Answers), AnswerIs(answer)
  PROVE  /\ Len(answer) > 0
         /\ FinalsAfter(answer, 0) = 1
         /\ \A i \in 1..Len(answer) : answer[i].kind # "head"
         /\ \A i \in 1..Len(answer) : answer[i].kind = "data" => Chunks(answer)
         /\ \A i \in 1..Len(answer) : answer[i].kind = "listing" =>
              /\ at = "CMGL" /\ Place[answer[i].of][1] = cpms
              /\ FinalsAfter(answer, i) = 1
  <1>1. CASE answer = <<Final>>
    <2>1. Len(answer) = 1 /\ answer[1] = Final
      BY <1>1
    <2>2. \A i \in 1..Len(answer) : i = 1
      BY <2>1
    <2>3. FinalsAfter(answer, 0) = 1
      BY <2>1, <2>2, OneFinal
    <2> QED BY <2>1, <2>2, <2>3 DEF Final
  <1>2. CASE Listings(answer)
    <2>1. /\ at = "CMGL" /\ Len(answer) \in Nat /\ Len(answer) > 0 /\ answer[Len(answer)] = Final
          /\ \A i \in 1..(Len(answer) - 1) :
               \E m \in Mms : answer[i] = Listing(m) /\ Place[m][1] = cpms
      BY <1>2 DEF Listings
    <2>2. ASSUME NEW i \in 1..Len(answer), i # Len(answer)
          PROVE  answer[i].kind = "listing" /\ Place[answer[i].of][1] = cpms
      <3>1. i \in 1..(Len(answer) - 1)
        BY <2>1, <2>2
      <3>2. PICK m \in Mms : answer[i] = Listing(m) /\ Place[m][1] = cpms
        BY <2>1, <3>1
      <3> QED BY <3>2 DEF Listing
    <2>3. answer[Len(answer)].kind = "final"
      BY <2>1 DEF Final
    <2>4. \A i \in 1..Len(answer) : answer[i].kind = "final" => i = Len(answer)
      BY <2>2
    <2>5. \A i \in Nat : i < Len(answer) => FinalsAfter(answer, i) = 1
      <3>1. Len(answer) \in 1..Len(answer)
        BY <2>1
      <3> QED BY <2>1, <2>4, <3>1, OneFinal
    <2>6. \A i \in 1..Len(answer) : answer[i].kind \in {"listing", "final"}
      BY <2>2, <2>3
    <2>7. \A i \in 1..Len(answer) : answer[i].kind = "listing" => i \in Nat /\ i < Len(answer)
      BY <2>1, <2>3
    <2>8. FinalsAfter(answer, 0) = 1
      BY <2>1, <2>5
    <2>9. \A i \in 1..Len(answer) : answer[i].kind = "listing" => Place[answer[i].of][1] = cpms
      BY <2>2, <2>3
    <2> QED BY <2>1, <2>5, <2>6, <2>7, <2>8, <2>9
  <1>3. CASE Chunks(answer)
    <2>1. PICK bytes \in Seq(Bytes) : answer = <<Final, Data(bytes), End>>
      BY <1>3 DEF Chunks
    <2>2. Len(answer) = 3 /\ answer[1] = Final /\ answer[2] = Data(bytes) /\ answer[3] = End
      BY <2>1
    <2>3. answer[1].kind = "final" /\ answer[2].kind = "data" /\ answer[3].kind = "end"
      BY <2>2 DEF Final, Data, End
    <2>4. \A i \in 1..Len(answer) : i = 1 \/ i = 2 \/ i = 3
      BY <2>2
    <2>5. FinalsAfter(answer, 0) = 1
      <3>1. \A i \in 1..Len(answer) : answer[i].kind = "final" => i = 1
        BY <2>3, <2>4
      <3> QED BY <2>2, <3>1, OneFinal
    <2> QED BY <1>3, <2>2, <2>3, <2>4, <2>5
  <1> QED BY <1>1, <1>2, <1>3 DEF AnswerIs

LEMMA WriteStep ==
  ASSUME Base, Writes
  PROVE  /\ at \notin {"wait", "pick", "store", "URC"} /\ ~sent
         /\ sent' = TRUE /\ text' = <<>> /\ UNCHANGED <<at, pollVars, cut, taken, late>>
         /\ out' \in Seq(Answers)
         /\ \E answer \in Seq(Answers), n, a \in Nat :
              AnswerIs(answer) /\ Moved(Line, n, a, answer, Line')
  <1>1. PICK answer \in Seq(Answers) : Write(answer) /\ AnswerIs(answer)
    BY WrittenAnswers DEF AnswerIs
  <1>2. PICK n, a \in Nat : Moved(Line, n, a, answer, Line')
    BY <1>1, WriteMoves DEF Base
  <1>3. out' \in Seq(Answers)
    BY <1>1, WriteTypes DEF Base
  <1>4. ~sent /\ sent' = TRUE /\ text' = <<>> /\ UNCHANGED <<at, pollVars, cut, taken, late>>
    BY <1>1 DEF Write
  <1> QED BY <1>1, <1>2, <1>3, <1>4, WrittenAnswers

(* Whatever goes and whatever comes, a head keeps its tail. *)
LEMMA UrcsStayWhole ==
  ASSUME TypeOK, UrcWhole, NEW t \in Seq(Answers), NEW n \in Nat, NEW a \in Nat,
         Moved(Line, n, a, t, Line'),
         \A i \in 1..Len(t) : t[i].kind = "head" =>
           \E m \in Mms, good \in BOOLEAN :
             t[i] = UrcHead(m, good) /\ i < Len(t) /\ t[i + 1] = UrcTail(m, good)
  PROVE  UrcWhole'
  <1>1. Line \in Seq(Answers) /\ Len(Line) \in Nat /\ Len(t) \in Nat
    BY LineType
  <1>2. /\ Line' \in Seq(Answers) /\ Len(Line') = a + Len(t) /\ Len(Line) = a + n
        /\ \A i \in 1..a : Line'[i] = Line[i + n]
        /\ \A i \in 1..Len(t) : Line'[a + i] = t[i]
    BY <1>1, LineMoves
  <1> SUFFICES ASSUME NEW i \in 1..Len(Line'), Line'[i].kind = "head"
               PROVE \E m \in Mms, good \in BOOLEAN :
                  Line'[i] = UrcHead(m, good) /\ i < Len(Line') /\ Line'[i + 1] = UrcTail(m, good)
    BY DEF UrcWhole
  <1>3. CASE i <= a
    <2>1. i \in 1..a /\ i + n \in 1..Len(Line) /\ Line'[i] = Line[i + n]
      BY <1>1, <1>2, <1>3
    <2>2. PICK m \in Mms, good \in BOOLEAN :
            Line[i + n] = UrcHead(m, good) /\ i + n < Len(Line) /\ Line[i + n + 1] = UrcTail(m, good)
      BY <1>1, <2>1 DEF UrcWhole
    <2>3. i + 1 \in 1..a /\ (i + 1) + n = i + n + 1
      BY <1>2, <2>1, <2>2
    <2>4. Line'[i + 1] = Line[(i + 1) + n]
      BY <1>2, <2>3
    <2>5. Line'[i + 1] = UrcTail(m, good)
      BY <2>2, <2>3, <2>4
    <2>6. i < Len(Line')
      BY <1>1, <1>2, <2>3
    <2> QED BY <2>1, <2>2, <2>5, <2>6
  <1>4. CASE ~(i <= a)
    <2>1. i - a \in 1..Len(t) /\ a + (i - a) = i
      BY <1>1, <1>2, <1>4
    <2>2. Line'[i] = t[i - a]
      BY <1>2, <2>1
    <2>3. PICK m \in Mms, good \in BOOLEAN :
            t[i - a] = UrcHead(m, good) /\ i - a < Len(t) /\ t[(i - a) + 1] = UrcTail(m, good)
      BY <2>1, <2>2
    <2>4. (i - a) + 1 \in 1..Len(t) /\ a + ((i - a) + 1) = i + 1
      BY <1>1, <2>1, <2>3
    <2>5. Line'[i + 1] = t[(i - a) + 1]
      BY <1>2, <2>4
    <2>6. i < Len(Line')
      BY <1>1, <1>2, <2>1, <2>3
    <2> QED BY <2>2, <2>3, <2>5, <2>6
  <1> QED BY <1>3, <1>4

LEMMA WriteKeepsBase ==
  ASSUME Base, Writes
  PROVE  Base'
  <1>1. /\ at \notin {"wait", "pick", "store", "URC"} /\ ~sent
        /\ sent' = TRUE /\ text' = <<>> /\ UNCHANGED <<at, pollVars, cut, taken, late>>
        /\ out' \in Seq(Answers)
    BY WriteStep
  <1>2. PICK answer \in Seq(Answers), n, a \in Nat :
          AnswerIs(answer) /\ Moved(Line, n, a, answer, Line')
    BY WriteStep, Zenon
  <1>3. /\ cpms' \in Storages /\ kept' \subseteq Mms
        /\ url' \in Mms \cup {Blank, Closed}
        /\ action' \in Mms \cup {None} /\ body' \in Mms \cup {None}
        /\ denied' \subseteq {"HTTPTERM", "HTTPPARA", "HTTPACTION"}
        /\ (body' = None \/ action' = None)
    <2> USE DEF Base, TypeOK, OneDownload, modemVars, httpVars
    <2>1. CASE WriteUrl
      <3>1. at = "HTTPPARA" /\ todo # <<>> /\ todo \in Seq(Mms)
        BY <2>1 DEF WriteUrl, Places, Fetching
      <3>2. Head(todo) \in Mms
        BY <3>1, HeadTailProperties
      <3> QED BY <2>1, <3>2 DEF WriteUrl
    <2>2. CASE WriteRefused
      BY <2>2 DEF WriteRefused, Matters
    <2>3. CASE WriteAction \/ WriteTerm \/ WriteInit
      BY <2>3 DEF WriteAction, WriteTerm, WriteInit
    <2>4. CASE WritePlain \/ WriteList \/ WriteRead \/ WriteReadRefused
      BY <2>4 DEF WritePlain, WriteList, WriteRead, WriteReadRefused
    <2>5. CASE WriteSelect \/ WriteErase
      BY <2>5 DEF WriteSelect, WriteErase
    <2> QED BY <2>1, <2>2, <2>3, <2>4, <2>5 DEF Writes
  <1>4. TypeOK'
    BY <1>1, <1>3 DEF Base, TypeOK, pollVars
  <1>5. Places'
    BY <1>1 DEF Base, Places, pollVars
  <1>6. UrcWhole'
    <2>1. \A i \in 1..Len(answer) : answer[i].kind # "head"
      BY <1>2, AnswerKinds
    <2> QED BY <1>2, <2>1, UrcsStayWhole DEF Base
  <1> QED BY <1>1, <1>3, <1>4, <1>5, <1>6 DEF Base, OneDownload, Unfinished, pollVars

-------------------------------------------------------------------------------
(***************************************************************************)
(* What the client takes from what it has read.                            *)
(***************************************************************************)
LEMMA ListedFacts ==
  ASSUME TypeOK, Listed
  PROVE  /\ todo' \in Seq(Mms)
         /\ \A i \in DOMAIN todo' : \E j \in 1..Len(text) :
              text[j].kind = "listing" /\ todo'[i] = text[j].of
  <1>1. PICK lines \in Ordered(AtOf("listing"), Earlier) :
          todo' = [i \in DOMAIN lines |-> text[lines[i]].of]
    BY DEF Listed
  <1>2. text \in Seq(Answers) /\ Len(text) \in Nat /\ DOMAIN text = 1..Len(text)
    BY DEF TypeOK
  <1> DEFINE S == AtOf("listing")
  <1>3. S \subseteq 1..Len(text) /\ \A j \in S : text[j].kind = "listing"
    BY <1>2 DEF AtOf
  <1>4. IsFiniteSet(S)
    <2>1. IsFiniteSet(1..Len(text))
      BY <1>2, FS_Interval
    <2> QED BY <1>3, <2>1, FS_Subset
  <1>5. lines \in SetToSeqs(S)
    BY <1>1 DEF Ordered
  <1> HIDE DEF S
  <1>6. lines \in Seq(S) /\ DOMAIN lines = 1..Cardinality(S) /\ Cardinality(S) \in Nat
    BY <1>4, <1>5, OrderedTypes, FS_CardinalityType
  <1>7. ASSUME NEW i \in 1..Cardinality(S) PROVE lines[i] \in S
    <2>1. i \in DOMAIN lines
      BY <1>6
    <2> QED BY <1>6, <2>1
  <1>8. \A j \in S : text[j].of \in Mms
    <2> SUFFICES ASSUME NEW j \in S PROVE text[j].of \in Mms
      OBVIOUS
    <2>1. text[j] \in Answers /\ text[j].kind = "listing"
      BY <1>2, <1>3
    <2> QED BY <2>1, AnswerFields
  <1>9. todo' = [i \in 1..Cardinality(S) |-> text[lines[i]].of]
    BY <1>1, <1>6
  <1>10. todo' \in Seq(Mms) /\ DOMAIN todo' = 1..Cardinality(S)
    BY <1>6, <1>7, <1>8, <1>9
  <1>11. ASSUME NEW i \in 1..Cardinality(S)
         PROVE  \E j \in 1..Len(text) : text[j].kind = "listing" /\ todo'[i] = text[j].of
    BY <1>3, <1>7, <1>9
  <1> QED BY <1>10, <1>11

LEMMA UrcFacts ==
  ASSUME TypeOK, UrcWhole, UrcTaken
  PROVE  \E i \in 1..Len(text), m \in Mms, good \in BOOLEAN :
           /\ text[i].kind = "head" /\ Line[i] = text[i] /\ Line[i].of = m
           /\ Urc.of = m /\ Urc.good = good
           /\ Urc.total \in Nat \ {0} /\ (Urc.kind = "head" \/ Urc.total = Length[m])
  <1>1. text \in Seq(Answers) /\ Len(text) \in Nat /\ DOMAIN text = 1..Len(text) /\ Len(out) \in Nat
    BY DEF TypeOK
  <1>2. UrcAt # {} /\ UrcAt \in SUBSET Nat
    <2>1. UrcAt \in SUBSET Nat
      BY <1>1 DEF UrcAt, AtOf
    <2>2. CASE at = "URC"
      BY <2>1, <2>2 DEF UrcTaken, Answered
    <2>3. CASE at # "URC"
      <3>1. at = "HTTPACTION" /\ AtOf("head") # {} /\ Complete
        BY <2>3 DEF UrcTaken, Answered
      <3>2. PICK i \in 1..Len(text) : text[i].kind = "head"
        BY <1>1, <3>1 DEF AtOf
      <3>3. text # <<>> /\ text[Len(text)].kind = "final"
        BY <3>1 DEF Complete, Last
      <3>4. i < Len(text)
        BY <1>1, <3>2, <3>3
      <3>5. i \in UrcAt
        BY <1>1, <3>2, <3>4 DEF UrcAt, AtOf
      <3> QED BY <2>1, <3>5
    <2> QED BY <2>2, <2>3
  <1> DEFINE i == Min(UrcAt)
  <1>3. i \in UrcAt
    BY <1>2, LeastOf
  <1>4. Urc = IF i < Len(text) THEN text[i + 1] ELSE text[i]
    BY DEF Urc
  <1> HIDE DEF i
  <1>5. i \in 1..Len(text) /\ text[i].kind = "head" /\ (i < Len(text) \/ text[i].total > 0)
    BY <1>1, <1>3 DEF UrcAt, AtOf
  <1>6. Line[i] = text[i] /\ Len(Line) = Len(text) + Len(out) /\ i \in 1..Len(Line)
    BY <1>1, <1>5, LineType
  <1>7. PICK m \in Mms, good \in BOOLEAN :
          Line[i] = UrcHead(m, good) /\ i < Len(Line) /\ Line[i + 1] = UrcTail(m, good)
    BY <1>5, <1>6 DEF UrcWhole
  <1>8. Line[i].of = m /\ text[i].of = m /\ text[i].good = good /\ text[i].total = Length[m] \div 10
    BY <1>6, <1>7 DEF UrcHead
  <1>9. Length[m] \in Nat \ {0} /\ Length[m] \div 10 \in Nat
    BY AtSerialAssumption
  <1>10. CASE i < Len(text)
    <2>1. i + 1 \in 1..Len(text)
      BY <1>1, <1>5, <1>10
    <2>2. text[i + 1] = UrcTail(m, good)
      BY <1>7, <2>1, LineType
    <2>3. Urc = UrcTail(m, good)
      BY <1>4, <1>10, <2>2
    <2>4. Urc.of = m /\ Urc.good = good /\ Urc.total = Length[m]
      BY <2>3 DEF UrcTail
    <2> QED BY <1>5, <1>6, <1>8, <1>9, <2>4
  <1>11. CASE ~(i < Len(text))
    <2>1. Urc = text[i] /\ text[i].total > 0
      BY <1>4, <1>5, <1>11
    <2>2. Urc.of = m /\ Urc.good = good /\ Urc.total \in Nat \ {0} /\ Urc.kind = "head"
      BY <1>5, <1>8, <1>9, <2>1
    <2> QED BY <1>5, <1>6, <1>8, <2>2
  <1> QED BY <1>10, <1>11

LEMMA ChunkFacts ==
  ASSUME TypeOK, ChunkComplete
  PROVE  \E i \in 1..Len(text) :
           text[i].kind = "data" /\ Line[i] = text[i] /\ Chunk = text[i].bytes /\ Chunk \in Seq(Bytes)
  <1>1. text \in Seq(Answers) /\ Len(text) \in Nat /\ DOMAIN text = 1..Len(text)
    BY DEF TypeOK
  <1>2. PICK e \in AtOf("data") : TRUE
    BY DEF ChunkComplete
  <1>3. AtOf("data") \in SUBSET Nat
    BY <1>1 DEF AtOf
  <1> DEFINE i == Min(AtOf("data"))
  <1>4. i \in AtOf("data")
    BY <1>2, <1>3, LeastOf
  <1>5. Chunk = text[i].bytes
    BY DEF Chunk
  <1> HIDE DEF i
  <1>6. i \in 1..Len(text) /\ text[i].kind = "data" /\ text[i] \in Answers
    BY <1>1, <1>4 DEF AtOf
  <1>7. Chunk \in Seq(Bytes)
    BY <1>5, <1>6, AnswerFields
  <1>8. Line[i] = text[i]
    BY <1>6, LineType
  <1> QED BY <1>5, <1>6, <1>7, <1>8

-------------------------------------------------------------------------------
(***************************************************************************)
(* The base holds: types, places, one download, whole URCs.                *)
(***************************************************************************)
Locals ==
  /\ at \in Steps /\ sent \in BOOLEAN
  /\ scan \in Storages /\ todo \in Seq(Mms) /\ total \in Nat /\ data \in Seq(Bytes)
  /\ captured \subseteq Mms
  /\ denied \subseteq {"HTTPTERM", "HTTPPARA", "HTTPACTION"} /\ cut \in BOOLEAN
  /\ taken \in Mms \cup {None} /\ late \in Nat

(* The rest of the locals, once the next place is known. *)
FetchTypes ==
  /\ total \in Nat /\ data \in Seq(Bytes)
  /\ denied \subseteq {"HTTPTERM", "HTTPPARA", "HTTPACTION"} /\ cut \in BOOLEAN
  /\ taken \in Mms \cup {None}

LEMMA Forgotten ==
  ASSUME Forget
  PROVE  FetchTypes' /\ data' = <<>> /\ total' = 0
  <1>1. total' = 0 /\ data' = <<>> /\ denied' = {} /\ taken' = None
    BY DEF Forget
  <1>2. cut' \in BOOLEAN
    BY DEF Forget
  <1> QED BY <1>1, <1>2 DEF FetchTypes

LEMMA Went ==
  ASSUME NEW step \in Steps, Goto(step)
  PROVE  at' = step /\ at' \in Steps /\ sent' = FALSE /\ sent' \in BOOLEAN /\ text' = <<>>
  BY DEF Goto

LEMMA LeavePollLocals ==
  ASSUME LeavePoll, captured' \subseteq Mms, late' \in Nat
  PROVE  Locals' /\ Places' /\ Unfinished'
  <1>1. "wait" \in Steps /\ Goto("wait")
    BY DEF Steps, LeavePoll
  <1>2. at' = "wait" /\ at' \in Steps /\ sent' = FALSE /\ sent' \in BOOLEAN /\ text' = <<>>
    BY <1>1, Went
  <1>3. FetchTypes' /\ data' = <<>> /\ total' = 0
    BY Forgotten DEF LeavePoll
  <1>4. scan' = "SM" /\ todo' = <<>>
    BY DEF LeavePoll
  <1>5. Places'
    BY <1>2, <1>3, <1>4 DEF Places, Fetching
  <1>6. Unfinished'
    BY <1>2 DEF Unfinished
  <1> QED BY <1>2, <1>3, <1>4, <1>5, <1>6 DEF Locals, FetchTypes, Storages

LEMMA NextStorageLocals ==
  ASSUME NextStorage, captured' \subseteq Mms, late' \in Nat
  PROVE  Locals' /\ Places' /\ Unfinished'
  <1>1. CASE scan = "SM"
    <2>1. "CPMS" \in Steps /\ Goto("CPMS") /\ scan' = "ME" /\ todo' = <<>> /\ Forget
      BY <1>1 DEF Steps, NextStorage
    <2>2. at' = "CPMS" /\ at' \in Steps /\ sent' = FALSE /\ sent' \in BOOLEAN /\ text' = <<>>
      BY <2>1, Went
    <2>3. FetchTypes' /\ data' = <<>> /\ total' = 0
      BY <2>1, Forgotten
    <2>4. Places'
      BY <2>1, <2>2, <2>3 DEF Places, Fetching
    <2>5. Unfinished'
      BY <2>2 DEF Unfinished
    <2> QED BY <2>1, <2>2, <2>3, <2>4, <2>5 DEF Locals, FetchTypes, Storages
  <1>2. CASE scan # "SM"
    BY <1>2, LeavePollLocals DEF NextStorage
  <1> QED BY <1>1, <1>2

LEMMA NextMessageLocals ==
  ASSUME TypeOK, todo # <<>>, NextMessage, captured' \subseteq Mms, late' \in Nat
  PROVE  Locals' /\ Places' /\ Unfinished'
  <1>1. todo' = Tail(todo) /\ Tail(todo) \in Seq(Mms) /\ scan' = scan
    BY HeadTailProperties DEF TypeOK, NextMessage
  <1>2. "pick" \in Steps /\ Goto("pick")
    BY DEF Steps, NextMessage
  <1>3. at' = "pick" /\ at' \in Steps /\ sent' = FALSE /\ sent' \in BOOLEAN /\ text' = <<>>
    BY <1>2, Went
  <1>4. FetchTypes' /\ data' = <<>> /\ total' = 0
    BY Forgotten DEF NextMessage
  <1>5. Places'
    BY <1>3, <1>4 DEF Places, Fetching
  <1>6. Unfinished'
    BY <1>3 DEF Unfinished
  <1> QED BY <1>1, <1>3, <1>4, <1>5, <1>6 DEF TypeOK, Locals, FetchTypes

LEMMA FetchEndsLocals ==
  ASSUME TypeOK, todo # <<>>, FetchEnds, captured' \subseteq Mms, late' \in Nat
  PROVE  Locals' /\ Places' /\ Unfinished'
  <1>1. CASE Len(data) < total
    BY <1>1, NextMessageLocals DEF FetchEnds
  <1>2. CASE ~(Len(data) < total)
    <2>1. "store" \in Steps /\ Goto("store")
      BY <1>2 DEF Steps, FetchEnds
    <2>2. at' = "store" /\ at' \in Steps /\ sent' = FALSE /\ sent' \in BOOLEAN /\ text' = <<>>
      BY <2>1, Went
    <2>3. UNCHANGED <<total, data, denied, cut, taken, scan, todo>>
      BY <1>2 DEF FetchEnds, KeepFetch
    <2>4. Places'
      BY <2>2, <2>3 DEF Places, Fetching
    <2>5. Unfinished'
      BY <2>2 DEF Unfinished
    <2> QED BY <2>2, <2>3, <2>4, <2>5 DEF TypeOK, Locals
  <1> QED BY <1>1, <1>2

LEMMA TurnLocals ==
  ASSUME Base, Turns
  PROVE  Locals' /\ Places' /\ Unfinished'
  <1> USE DEF Base
  <1>0. captured \subseteq Mms /\ late \in Nat /\ late + 1 \in Nat
    BY DEF TypeOK
  <1>1. CASE Proceed
    <2>1. at' = After[at] /\ at \in DOMAIN After /\ sent' = FALSE /\ text' = <<>>
          /\ UNCHANGED <<total, data, denied, cut, taken, scan, todo, captured, late>>
      BY <1>1 DEF Proceed, Goto, KeepFetch, Unread
    <2>2. at' \in Fetching \cup {"CMGF", "CPMS", "CMGL", "CMGD"} /\ at' \notin {"URC", "HTTPREAD", "CLOSE"}
          /\ (at' \in {"CMGF", "CPMS", "CMGL"} => at \in {"ATE0", "CMGF", "CPMS"})
          /\ (at' = "CMGF" => at = "ATE0")
          /\ (at' \notin {"CMGF", "CPMS", "CMGL"} => at \in Fetching \cup {"RECPMS"})
          /\ at \notin {"HTTPREAD", "CLOSE", "store"}
      BY <2>1 DEF After, Fetching
    <2>3. at' \in Steps
      BY <2>2 DEF Steps
    <2>4. Places'
      BY <2>1, <2>2 DEF Places, Fetching
    <2> QED BY <2>1, <2>2, <2>3, <2>4 DEF TypeOK, Locals, Unfinished
  <1>2. CASE Listed
    <2>1. todo' \in Seq(Mms)
      BY <1>2, ListedFacts
    <2> QED BY <1>2, <2>1 DEF Listed, TypeOK, Goto, Forget, Unread, Locals, Places, Unfinished, Steps, Fetching
  <1>3. CASE Pick
    <2>1. at' \in {"RECPMS", "CMEE"} /\ sent' = FALSE /\ text' = <<>> /\ at = "pick" /\ todo # <<>>
          /\ UNCHANGED <<total, data, denied, cut, taken, scan, todo, captured, late>>
      BY <1>3 DEF Pick, Goto, KeepFetch, Unread
    <2> QED BY <2>1 DEF TypeOK, Locals, Places, Unfinished, Steps, Fetching
  <1>4. CASE ScanEnds
    BY <1>0, <1>4, NextStorageLocals DEF ScanEnds, Unread
  <1>5. CASE ActionAnswered
    BY <1>5 DEF ActionAnswered, TypeOK, KeepFetch, Unread, Locals, Places, Unfinished, Steps, Fetching
  <1>6. CASE UrcTaken
    <2>1. todo # <<>>
      BY <1>6 DEF UrcTaken, Places, Fetching
    <2>2. Urc.of \in Mms /\ Urc.total \in Nat \ {0} /\ captured' = captured /\ late' = late
      BY <1>6, UrcFacts DEF UrcTaken, Unread
    <2>3. CASE Urc.good
      <3>1. /\ at' = "HTTPREAD" /\ sent' = FALSE /\ text' = <<>> /\ total' = Urc.total
            /\ cut' = (Urc.kind = "head") /\ taken' = Urc.of /\ UNCHANGED <<scan, todo, data, denied>>
            /\ at \in {"HTTPACTION", "URC"}
        BY <1>6, <2>3 DEF UrcTaken, Goto
      <3>2. data = <<>> /\ Len(data) = 0
        BY <3>1 DEF Places
      <3>3. cut' \in BOOLEAN
        BY <3>1
      <3>4. Unfinished'
        BY <2>2, <3>1, <3>2 DEF Unfinished
      <3>5. Places'
        BY <2>1, <3>1 DEF Places, Fetching
      <3> QED BY <2>2, <3>1, <3>3, <3>4, <3>5 DEF TypeOK, Locals, Steps, Fetching
    <2>4. CASE ~Urc.good
      <3>1. NextMessage
        BY <1>6, <2>4 DEF UrcTaken
      <3> QED BY <1>0, <2>1, <2>2, <3>1, NextMessageLocals
    <2> QED BY <2>3, <2>4
  <1>7. CASE ChunkTaken
    <2>1. Chunk \in Seq(Bytes)
      BY <1>7, ChunkFacts DEF ChunkTaken, Answered
    <2>2. /\ at = "HTTPREAD" /\ data' = data \o Chunk /\ sent' = FALSE /\ text' = <<>>
          /\ at' = (IF Len(data') < total THEN "HTTPREAD" ELSE "CLOSE")
          /\ UNCHANGED <<scan, todo, captured, total, denied, cut, taken, late>>
      BY <1>7 DEF ChunkTaken, Goto, Unread
    <2>3. data' \in Seq(Bytes)
      BY <2>1, <2>2, ConcatProperties DEF TypeOK
    <2>4. at' \in {"HTTPREAD", "CLOSE"} /\ (at' = "HTTPREAD" => Len(data') < total')
      BY <2>2
    <2> HIDE <1>7
    <2>5. Places'
      BY <2>2, <2>4 DEF Places, Fetching
    <2> QED BY <2>2, <2>3, <2>4, <2>5 DEF TypeOK, Locals, Unfinished, Steps, Fetching
  <1>8. CASE SessionClosed
    <2>1. todo # <<>> /\ FetchEnds /\ captured' = captured /\ late' = late
      BY <1>8 DEF SessionClosed, Places, Fetching, Unread
    <2> QED BY <1>0, <2>1, FetchEndsLocals
  <1>9. CASE Store
    <2>1. at = "store" /\ todo # <<>> /\ todo \in Seq(Mms)
      BY <1>9 DEF Store, Places, TypeOK
    <2>2. captured' \subseteq Mms
      BY <1>0, <1>9, <2>1, HeadTailProperties DEF Store
    <2>3. "RECPMS" \in Steps /\ Goto("RECPMS") /\ Forget /\ UNCHANGED <<scan, todo, late>>
      BY <1>9 DEF Store, Steps, Unread
    <2>4. at' = "RECPMS" /\ at' \in Steps /\ sent' = FALSE /\ sent' \in BOOLEAN /\ text' = <<>>
      BY <2>3, Went
    <2>5. FetchTypes' /\ data' = <<>> /\ total' = 0
      BY <2>3, Forgotten
    <2>6. Places'
      BY <2>1, <2>3, <2>4, <2>5 DEF Places, Fetching
    <2>7. Unfinished'
      BY <2>4 DEF Unfinished
    <2> HIDE <1>9
    <2> QED BY <2>1, <2>2, <2>3, <2>4, <2>5, <2>6, <2>7 DEF TypeOK, Locals, FetchTypes
  <1>10. CASE Erased
    <2>1. todo # <<>> /\ NextMessage /\ captured' = captured /\ late' = late
      BY <1>10 DEF Erased, Places, Unread
    <2> QED BY <1>0, <2>1, NextMessageLocals
  <1>11. CASE TimesOut
    <2>1. captured' \subseteq Mms /\ late' \in Nat
      BY <1>0, <1>11 DEF TimesOut
    <2>2. CASE at \in {"HTTPTERM", "HTTPREAD"}
      <3>1. /\ at' \in {"HTTPINIT", "CLOSE"} /\ (at' = "HTTPINIT" => at = "HTTPTERM")
            /\ sent' = FALSE /\ text' = <<>> /\ KeepFetch /\ UNCHANGED <<scan, todo>>
        BY <1>11, <2>2 DEF TimesOut, Goto
      <3>2. todo # <<>> /\ (at = "HTTPTERM" => data = <<>> /\ total = 0)
        BY <2>2 DEF Places, Fetching
      <3> HIDE <1>11
      <3> QED BY <2>1, <3>1, <3>2 DEF KeepFetch, TypeOK, Locals, Places, Unfinished, Steps, Fetching
    <2>3. CASE at = "CLOSE"
      <3>1. FetchEnds /\ todo # <<>>
        BY <1>11, <2>3 DEF TimesOut, Places, Fetching
      <3> QED BY <2>1, <3>1, FetchEndsLocals
    <2>4. CASE at \in {"CPMS", "CMGL"}
      <3>1. NextStorage
        BY <1>11, <2>4 DEF TimesOut, Fetching
      <3> QED BY <2>1, <3>1, NextStorageLocals
    <2>5. CASE at \in Fetching \ {"HTTPTERM", "HTTPREAD", "CLOSE"}
      <3>1. NextMessage /\ todo # <<>>
        BY <1>11, <2>5 DEF TimesOut, Fetching, Places
      <3> QED BY <2>1, <3>1, NextMessageLocals
    <2>6. CASE at \notin Fetching \cup {"CPMS", "CMGL"}
      <3>1. LeavePoll
        BY <1>11, <2>6 DEF TimesOut, Fetching
      <3> QED BY <2>1, <3>1, LeavePollLocals
    <2> QED BY <2>2, <2>3, <2>4, <2>5, <2>6
  <1>12. CASE PortLost
    <2>1. LeavePoll /\ captured' = captured /\ late' = late
      BY <1>12 DEF PortLost, Unread
    <2> QED BY <1>0, <2>1, LeavePollLocals
  <1> QED BY <1>1, <1>2, <1>3, <1>4, <1>5, <1>6, <1>7, <1>8, <1>9, <1>10, <1>11, <1>12 DEF Turns

LEMMA QuietKeepsUrcs ==
  ASSUME Base, Turns \/ Receive \/ Open \/ Drain \/ UNCHANGED vars
  PROVE  UrcWhole'
  <1>1. PICK n, a \in Nat : Moved(Line, n, a, <<>>, Line')
    BY QuietMoves DEF Base
  <1>2. <<>> \in Seq(Answers) /\ \A i \in 1..Len(<<>>) : FALSE
    OBVIOUS
  <1> QED BY <1>1, <1>2, UrcsStayWhole DEF Base

LEMMA DownloadKeepsBase ==
  ASSUME Base, DownloadEnds
  PROVE  Base'
  <1>1. PICK good \in BOOLEAN :
          /\ out' = out \o <<UrcHead(action, good), UrcTail(action, good)>>
          /\ Moved(Line, 0, Len(Line), <<UrcHead(action, good), UrcTail(action, good)>>, Line')
          /\ action \in Mms /\ <<UrcHead(action, good), UrcTail(action, good)>> \in Seq(Answers)
    BY DownloadMoves DEF Base
  <1> DEFINE t == <<UrcHead(action, good), UrcTail(action, good)>>
  <1>2. /\ Len(t) = 2 /\ t[1] = UrcHead(action, good) /\ t[2] = UrcTail(action, good)
        /\ t[2].kind = "tail"
    BY DEF UrcTail
  <1>3. \A i \in 1..Len(t) : t[i].kind = "head" =>
          \E m \in Mms, g \in BOOLEAN :
            t[i] = UrcHead(m, g) /\ i < Len(t) /\ t[i + 1] = UrcTail(m, g)
    <2> HIDE DEF t
    <2> SUFFICES ASSUME NEW i \in 1..Len(t), t[i].kind = "head"
                 PROVE \E m \in Mms, g \in BOOLEAN :
                    t[i] = UrcHead(m, g) /\ i < Len(t) /\ t[i + 1] = UrcTail(m, g)
      OBVIOUS
    <2>1. i = 1 /\ i + 1 = 2 /\ i < Len(t)
      BY <1>2
    <2>2. t[i] = UrcHead(action, good) /\ t[i + 1] = UrcTail(action, good)
      BY <1>2, <2>1
    <2> QED BY <1>1, <2>1, <2>2
  <1>4. out' \in Seq(Answers)
    <2>1. out \in Seq(Answers) /\ t \in Seq(Answers) /\ out' = out \o t
      BY <1>1 DEF Base, TypeOK
    <2> HIDE DEF t
    <2> QED BY <2>1, ConcatProperties
  <1>5. /\ body' = action /\ action' = None
        /\ UNCHANGED <<at, sent, text, pollVars, cpms, kept, url, denied, cut, taken, late>>
    BY DEF DownloadEnds
  <1>6. UrcWhole'
    <2>1. t \in Seq(Answers) /\ Moved(Line, 0, Len(Line), t, Line')
      BY <1>1
    <2>2. TypeOK /\ UrcWhole /\ Len(Line) \in Nat
      BY LineType DEF Base
    <2> HIDE DEF t
    <2> QED BY <1>3, <2>1, <2>2, UrcsStayWhole
  <1>7. TypeOK'
    BY <1>1, <1>4, <1>5 DEF Base, TypeOK, pollVars
  <1>8. Places' /\ Unfinished' /\ OneDownload'
    BY <1>5 DEF Base, Places, Unfinished, OneDownload, pollVars
  <1> QED BY <1>6, <1>7, <1>8 DEF Base

LEMMA BaseStep ==
  ASSUME Base, [Next]_vars
  PROVE  Base'
  <1>1. CASE Writes
    BY <1>1, WriteKeepsBase
  <1>2. CASE DownloadEnds
    BY <1>2, DownloadKeepsBase
  <1>3. CASE Turns
    <2>1. UrcWhole'
      BY <1>3, QuietKeepsUrcs
    <2>2. text' = <<>> /\ out' = out /\ UNCHANGED modemVars
      BY <1>3, TurnKeeps
    <2>3. Locals' /\ Places' /\ Unfinished'
      BY <1>3, TurnLocals
    <2>4. TypeOK'
      BY <2>2, <2>3 DEF Base, TypeOK, Locals, modemVars, httpVars
    <2> QED BY <2>1, <2>2, <2>3, <2>4 DEF Base, OneDownload, modemVars, httpVars
  <1>4. CASE Receive
    <2>1. UrcWhole' /\ text' \in Seq(Answers) /\ out' \in Seq(Answers)
      BY <1>4, QuietKeepsUrcs, ReceiveKeepsLine DEF Base
    <2>2. sent /\ UNCHANGED <<at, sent, pollVars, modemVars, denied, cut, taken, late>>
      BY <1>4 DEF Receive
    <2>3. TypeOK'
      BY <2>1, <2>2 DEF Base, TypeOK, pollVars, modemVars, httpVars
    <2>4. Places' /\ Unfinished' /\ OneDownload'
      BY <2>2 DEF Base, Places, Unfinished, OneDownload, pollVars, modemVars, httpVars
    <2> QED BY <2>1, <2>3, <2>4 DEF Base
  <1>5. CASE Open
    <2>1. UrcWhole'
      BY <1>5, QuietKeepsUrcs
    <2>2. /\ at = "wait" /\ at' = "ATE0" /\ sent' = FALSE /\ text' = <<>> /\ late' = 0
          /\ UNCHANGED <<total, data, denied, cut, taken, out, modemVars, scan, todo, captured>>
      BY <1>5 DEF Open, Goto, KeepFetch
    <2>6. "ATE0" \in Steps /\ Goto("ATE0")
      BY <1>5 DEF Steps, Open
    <2>7. at' \in Steps /\ sent' \in BOOLEAN
      BY <2>6, Went
    <2>3. text' \in Seq(Answers) /\ late' \in Nat
      BY <2>2
    <2>5. TypeOK'
      BY <2>2, <2>3, <2>7 DEF Base, TypeOK, modemVars, httpVars
    <2>4. Places' /\ Unfinished' /\ OneDownload'
      BY <2>2 DEF Base, Places, Unfinished, OneDownload, modemVars, httpVars, Fetching
    <2> QED BY <2>1, <2>4, <2>5 DEF Base
  <1>6. CASE Drain
    <2>1. UrcWhole'
      BY <1>6, QuietKeepsUrcs
    <2>2. out' = <<>> /\ UNCHANGED <<at, sent, text, pollVars, modemVars, denied, cut, taken, late>>
      BY <1>6 DEF Drain
    <2>3. TypeOK'
      BY <2>2 DEF Base, TypeOK, pollVars, modemVars, httpVars
    <2>4. Places' /\ Unfinished' /\ OneDownload'
      BY <2>2 DEF Base, Places, Unfinished, OneDownload, pollVars, modemVars, httpVars
    <2> QED BY <2>1, <2>3, <2>4 DEF Base
  <1>7. CASE UNCHANGED vars
    <2>1. UrcWhole'
      BY <1>7, QuietKeepsUrcs
    <2>2. TypeOK' /\ Places' /\ Unfinished' /\ OneDownload'
      BY <1>7 DEF Base, TypeOK, Places, Unfinished, OneDownload, vars, pollVars, modemVars, httpVars
    <2> QED BY <2>1, <2>2 DEF Base
  <1> QED BY <1>1, <1>2, <1>3, <1>4, <1>5, <1>6, <1>7, StepKinds

LEMMA InitLine ==
  ASSUME Init
  PROVE  Line = <<>> /\ Len(Line) = 0 /\ \A i \in 1..Len(Line) : FALSE
  <1>1. Line = <<>>
    BY ConcatEmptySeq DEF Init, Line
  <1> QED BY <1>1

LEMMA InitBase ==
  ASSUME Init
  PROVE  Base
  <1>1. TypeOK
    BY InitTypeOK
  <1>2. Places /\ OneDownload /\ Unfinished
    BY DEF Init, Places, OneDownload, Unfinished, Fetching
  <1>3. UrcWhole
    BY InitLine DEF UrcWhole
  <1> QED BY <1>1, <1>2, <1>3 DEF Base

(* The client keeps to the types of its locals, and what travels on the    *)
(* line stays an answer the modem gives, whatever bytes a chunk carries.   *)
THEOREM TypeInvariant == Spec => []TypeOK
  <1>1. Init => Base
    BY InitBase
  <1>2. Base /\ [Next]_vars => Base'
    BY BaseStep
  <1>3. Base => TypeOK
    BY DEF Base
  <1> QED BY <1>1, <1>2, <1>3, PTL DEF Spec

-------------------------------------------------------------------------------
(***************************************************************************)
(* How far the client is behind the modem.                                 *)
(***************************************************************************)
LEMMA OwedTable ==
  /\ OwedAt("wait") = 0 /\ OwedAt("ATE0") = 1 /\ OwedAt("CMGF") = 1 /\ OwedAt("CPMS") = 1
  /\ OwedAt("CMGL") = 1 /\ OwedAt("pick") = 1 /\ OwedAt("store") = 1 /\ OwedAt("RECPMS") = 1
  /\ OwedAt("CMGD") = 1 /\ OwedAt("CMEE") = 1 /\ OwedAt("CGDCONT") = 2
  /\ OwedAt("CSOCKSETPN") = 3 /\ OwedAt("CGACT") = 4 /\ OwedAt("HTTPTERM") = 5
  /\ OwedAt("HTTPINIT") = 6 /\ OwedAt("HTTPPARA") = 7 /\ OwedAt("HTTPACTION") = 8
  /\ OwedAt("URC") = 9 /\ OwedAt("HTTPREAD") = 9 /\ OwedAt("CLOSE") = 0
  BY DEF OwedAt

LEMMA TurnPace ==
  ASSUME Base, Turns
  PROVE  /\ Owed' <= Owed /\ Owed \in Nat /\ Owed' \in Nat
         /\ Waiting \in 0..1 /\ Waiting' \in 0..1
         /\ at' # "wait" => /\ late' >= late
                            /\ \/ late + Waiting <= late' + Waiting'
                               \/ Answered /\ (at \notin {"URC", "HTTPREAD"} \/ ChunkTaken)
  <1> USE DEF Owed, Waiting
  <1>0. late \in Nat /\ at \in Steps
    BY DEF Base, TypeOK
  <1>1. \A step \in Steps : OwedAt(step) \in Nat
    BY OwedTable DEF Steps, Fetching
  <1>2. CASE Proceed
    <2>1. at' = After[at] /\ at \in DOMAIN After /\ sent' = FALSE /\ sent /\ late' = late /\ Answered
      BY <1>2 DEF Proceed, Goto, Unread, Answered
    <2>2. OwedAt(After[at]) <= OwedAt(at) + 1 /\ OwedAt(at) \in Nat /\ OwedAt(After[at]) \in Nat
          /\ at \notin {"URC", "HTTPREAD"}
      BY <2>1, OwedTable DEF After
    <2> QED BY <1>0, <2>1, <2>2
  <1>3. CASE Listed
    <2>1. at = "CMGL" /\ at' = "pick" /\ sent /\ sent' = FALSE /\ late' = late /\ Answered
      BY <1>3 DEF Listed, Goto, Unread, Answered
    <2> QED BY <1>0, <2>1, OwedTable
  <1>4. CASE Pick
    <2>1. at = "pick" /\ at' \in {"RECPMS", "CMEE"} /\ ~sent /\ sent' = FALSE /\ late' = late
      BY <1>4 DEF Pick, Goto, Unread, Base, Places
    <2> QED BY <1>0, <2>1, OwedTable
  <1>5. CASE ScanEnds
    <2>1. at = "pick" /\ at' \in {"CPMS", "wait"} /\ ~sent /\ sent' = FALSE /\ late' = late
      BY <1>5 DEF ScanEnds, NextStorage, LeavePoll, Goto, Unread, Base, Places
    <2> QED BY <1>0, <2>1, OwedTable
  <1>6. CASE ActionAnswered
    <2>1. at = "HTTPACTION" /\ at' = "URC" /\ sent /\ late' = late /\ Answered
      BY <1>6 DEF ActionAnswered, Answered, Unread
    <2> QED BY <1>0, <2>1, OwedTable
  <1>7. CASE UrcTaken
    <2>1. /\ at \in {"HTTPACTION", "URC"} /\ at' \in {"HTTPREAD", "pick"} /\ sent /\ sent' = FALSE
          /\ late' = late /\ Answered
      BY <1>7 DEF UrcTaken, NextMessage, Goto, Unread, Answered
    <2> QED BY <1>0, <2>1, OwedTable
  <1>8. CASE ChunkTaken
    <2>1. /\ at = "HTTPREAD" /\ at' \in {"HTTPREAD", "CLOSE"} /\ sent /\ sent' = FALSE
          /\ late' = late /\ Answered
      BY <1>8 DEF ChunkTaken, Goto, Unread, Answered
    <2> QED BY <1>0, <1>8, <2>1, OwedTable
  <1>9. CASE SessionClosed
    <2>1. /\ at = "CLOSE" /\ at' \in {"pick", "store"} /\ sent /\ sent' = FALSE
          /\ late' = late /\ Answered
      BY <1>9 DEF SessionClosed, FetchEnds, NextMessage, Goto, Unread, Answered
    <2> QED BY <1>0, <2>1, OwedTable
  <1>10. CASE Store
    <2>1. at = "store" /\ at' = "RECPMS" /\ ~sent /\ sent' = FALSE /\ late' = late
      BY <1>10 DEF Store, Goto, Unread, Base, Places
    <2> QED BY <1>0, <2>1, OwedTable
  <1>11. CASE Erased
    <2>1. at = "CMGD" /\ at' = "pick" /\ sent /\ sent' = FALSE /\ late' = late /\ Answered
      BY <1>11 DEF Erased, NextMessage, Goto, Unread, Answered
    <2> QED BY <1>0, <2>1, OwedTable
  <1>12. CASE TimesOut
    <2>1. sent /\ sent' = FALSE /\ late' = late + 1
      BY <1>12 DEF TimesOut, NextStorage, LeavePoll, NextMessage, FetchEnds, Goto
    <2>2. CASE at \in {"HTTPTERM", "HTTPREAD", "CLOSE"}
      <3>1. \/ at = "HTTPTERM" /\ at' = "HTTPINIT"
            \/ at = "HTTPREAD" /\ at' = "CLOSE"
            \/ at = "CLOSE" /\ at' \in {"pick", "store"}
        BY <1>12, <2>2 DEF TimesOut, FetchEnds, NextMessage, Goto
      <3> HIDE <1>12
      <3> QED BY <1>0, <2>1, <3>1, OwedTable
    <2>3. CASE at \in {"CPMS", "CMGL"}
      <3>1. at' \in {"CPMS", "wait"}
        BY <1>12, <2>3 DEF TimesOut, Fetching, NextStorage, LeavePoll, Goto
      <3> HIDE <1>12
      <3> QED BY <1>0, <2>1, <2>3, <3>1, OwedTable
    <2>4. CASE at \in Fetching \ {"HTTPTERM", "HTTPREAD", "CLOSE"}
      <3>1. at' = "pick"
        BY <1>12, <2>4 DEF TimesOut, Fetching, NextMessage, Goto
      <3>2. OwedAt(at) \in Nat /\ OwedAt(at) >= 1
        BY <2>4, OwedTable DEF Fetching
      <3> HIDE <1>12
      <3> QED BY <1>0, <2>1, <2>4, <3>1, <3>2, OwedTable
    <2>5. CASE at \notin Fetching \cup {"CPMS", "CMGL"}
      <3>1. at' = "wait"
        BY <1>12, <2>5 DEF TimesOut, Fetching, LeavePoll, Goto
      <3>2. OwedAt(at) \in Nat
        BY <1>0, <1>1
      <3> HIDE <1>12
      <3> QED BY <1>0, <2>1, <3>1, <3>2, OwedTable
    <2> QED BY <2>2, <2>3, <2>4, <2>5
  <1>13. CASE PortLost
    <2>1. at' = "wait" /\ sent' = FALSE
      BY <1>13 DEF PortLost, LeavePoll, Goto
    <2>2. OwedAt(at) \in Nat
      BY <1>0, <1>1
    <2> QED BY <2>1, <2>2, OwedTable
  <1> QED BY <1>2, <1>3, <1>4, <1>5, <1>6, <1>7, <1>8, <1>9, <1>10, <1>11, <1>12, <1>13 DEF Turns

LEMMA NoFinals == FinalsAfter(<<>>, 0) = 0
  <1>1. FinalsAt(<<>>, 0) = {}
    BY DEF FinalsAt
  <1> QED BY <1>1, FS_EmptySet DEF FinalsAfter

LEMMA BehindFacts ==
  ASSUME TypeOK
  PROVE  /\ \A i \in Nat : Behind(i) \in Nat
         /\ \A i, j \in Nat : i <= j => Behind(j) <= Behind(i)
         /\ \A i, j \in Nat : i < j /\ j <= Len(Line) /\ Line[j].kind = "final" => Behind(j) + 1 <= Behind(i)
  <1>1. Line \in Seq(Answers)
    BY LineType
  <1>2. \A i \in Nat : Behind(i) \in Nat
    BY <1>1, FinalsType DEF Behind
  <1>3. \A i, j \in Nat : i <= j => Behind(j) <= Behind(i)
    BY <1>1, FewerBehind DEF Behind
  <1>4. ASSUME NEW i \in Nat, NEW j \in Nat, i < j, j <= Len(Line), Line[j].kind = "final"
        PROVE  Behind(j) + 1 <= Behind(i)
    <2>1. j \in FinalsAt(Line, i) /\ i <= j
      BY <1>4 DEF FinalsAt
    <2> QED BY <1>1, <2>1, FewerBehind DEF Behind
  <1> QED BY <1>2, <1>3, <1>4

(* The line when nothing comes. *)
LEMMA MovedLine ==
  ASSUME TypeOK, NEW t \in Seq(Answers), NEW n \in Nat, NEW a \in Nat, Moved(Line, n, a, t, Line')
  PROVE  /\ Len(Line) = a + n /\ Len(Line') = a + Len(t)
         /\ \A i \in 1..a : Line'[i] = Line[i + n]
         /\ \A i \in 1..Len(t) : Line'[a + i] = t[i]
         /\ \A i \in 0..a : Behind(i)' = Behind(i + n) + FinalsAfter(t, 0)
         /\ \A i \in 0..Len(t) : Behind(a + i)' = FinalsAfter(t, i)
  <1>1. Line \in Seq(Answers)
    BY LineType
  <1>2. /\ Len(Line) = a + n /\ Len(Line') = a + Len(t)
        /\ \A i \in 1..a : Line'[i] = Line[i + n]
        /\ \A i \in 1..Len(t) : Line'[a + i] = t[i]
        /\ \A i \in 0..a : FinalsAfter(Line', i) = FinalsAfter(Line, i + n) + FinalsAfter(t, 0)
        /\ \A i \in 0..Len(t) : FinalsAfter(Line', a + i) = FinalsAfter(t, i)
    BY <1>1, LineMoves
  <1> QED BY <1>2 DEF Behind

LEMMA QuietLine ==
  ASSUME TypeOK, NEW n \in Nat, NEW a \in Nat, Moved(Line, n, a, <<>>, Line')
  PROVE  /\ Len(Line) = a + n /\ Len(Line') = a
         /\ \A i \in 1..a : Line'[i] = Line[i + n]
         /\ \A i \in 0..a : Behind(i)' = Behind(i + n)
  <1>1. <<>> \in Seq(Answers) /\ Len(<<>>) = 0
    OBVIOUS
  <1>2. /\ Len(Line) = a + n /\ Len(Line') = a + Len(<<>>)
        /\ \A i \in 1..a : Line'[i] = Line[i + n]
        /\ \A i \in 0..a : Behind(i)' = Behind(i + n) + FinalsAfter(<<>>, 0)
    BY <1>1, MovedLine, Zenon
  <1>3. \A i \in Nat : Behind(i) \in Nat /\ Behind(i) + 0 = Behind(i)
    BY BehindFacts
  <1>4. ASSUME NEW i \in 0..a PROVE Behind(i)' = Behind(i + n)
    <2>1. i + n \in Nat
      OBVIOUS
    <2> QED BY <1>2, <1>3, <2>1, NoFinals
  <1>5. Len(Line') = a
    BY <1>1, <1>2
  <1> QED BY <1>2, <1>4, <1>5

(* The line when a command is written. *)
LEMMA WrittenLine ==
  ASSUME TypeOK, NEW answer \in Seq(Answers), AnswerIs(answer),
         NEW n \in Nat, NEW a \in Nat, Moved(Line, n, a, answer, Line')
  PROVE  /\ Len(Line) = a + n /\ Len(Line') = a + Len(answer)
         /\ \A i \in 1..a : Line'[i] = Line[i + n]
         /\ \A i \in 1..Len(answer) : Line'[a + i] = answer[i]
         /\ \A i \in 0..a : Behind(i)' = Behind(i + n) + 1
         /\ \A i \in 0..Len(answer) : Behind(a + i)' = FinalsAfter(answer, i)
  <1>1. FinalsAfter(answer, 0) = 1
    BY AnswerKinds
  <1> QED BY <1>1, MovedLine

LEMMA CompleteRead ==
  ASSUME TypeOK, Answered, at \notin {"URC", "HTTPREAD"}
  PROVE  Len(text) \in Nat \ {0} /\ Len(text) <= Len(Line) /\ Line[Len(text)].kind = "final"
  <1>1. text # <<>> /\ text[Len(text)].kind = "final"
    BY DEF Answered, Complete, Last
  <1>2. text \in Seq(Answers) /\ Len(text) \in Nat /\ Len(out) \in Nat
    BY DEF TypeOK
  <1>3. Len(text) # 0
    BY <1>1, <1>2, EmptySeq
  <1>4. Len(text) \in 1..Len(text)
    BY <1>2, <1>3
  <1> QED BY <1>1, <1>2, <1>3, <1>4, LineType

(* In time, the chunk that is taken is the answer to the read at hand. *)
LEMMA OwnChunkTaken ==
  ASSUME Base, Lag, ChunksKnown, ~Astray, ChunkTaken
  PROVE  \E i \in 1..Len(text) : OwnChunk(i) /\ Line[i].kind = "data" /\ Chunk = Line[i].bytes
  <1>1. at = "HTTPREAD" /\ sent /\ ChunkComplete /\ TypeOK
    BY DEF ChunkTaken, Answered, Base
  <1>2. PICK i \in 1..Len(text) :
          text[i].kind = "data" /\ Line[i] = text[i] /\ Chunk = text[i].bytes
    BY <1>1, ChunkFacts
  <1>3. Len(text) \in Nat /\ Len(out) \in Nat /\ late \in Nat /\ i \in 1..Len(Line)
    BY <1>1, LineType DEF TypeOK
  <1>4. Waiting = 1 /\ Owed = 10
    BY <1>1, OwedTable DEF Waiting, Owed
  <1>5. Behind(0) <= late + 1 /\ late < 9
    BY <1>1, <1>3, <1>4 DEF Lag, Astray
  <1>6. Behind(i) <= Behind(0) /\ Behind(i) \in Nat /\ Behind(0) \in Nat
    <2>1. i \in Nat /\ 0 <= i
      BY <1>3
    <2> QED BY <1>1, <2>1, BehindFacts
  <1>7. ~(Behind(i) >= Owed)
    BY <1>3, <1>4, <1>5, <1>6
  <1>8. OwnChunk(i)
    BY <1>2, <1>3, <1>7 DEF ChunksKnown
  <1> QED BY <1>2, <1>8

Pace == Lag /\ ChunksKnown

LEMMA WriteKeepsPace ==
  ASSUME Base, Pace, Writes
  PROVE  Pace'
  <1>0. TypeOK /\ late \in Nat
    BY DEF Base, TypeOK
  <1>1. /\ at \notin {"wait", "pick", "store", "URC"} /\ ~sent /\ sent' = TRUE
        /\ at' = at /\ late' = late /\ data' = data /\ total' = total
    BY WriteStep DEF pollVars
  <1>2. PICK answer \in Seq(Answers), n, a \in Nat :
          AnswerIs(answer) /\ Moved(Line, n, a, answer, Line')
    BY WriteStep, Zenon
  <1>3. /\ Len(Line) = a + n /\ Len(Line') = a + Len(answer)
        /\ \A i \in 1..a : Line'[i] = Line[i + n]
        /\ \A i \in 1..Len(answer) : Line'[a + i] = answer[i]
        /\ \A i \in 0..a : Behind(i)' = Behind(i + n) + 1
    BY <1>0, <1>2, WrittenLine
  <1>4. Waiting = 0 /\ Waiting' = 1
    BY <1>1 DEF Waiting
  <1>5. Owed \in Nat /\ Owed' = Owed + 1
    <2>1. OwedAt(at) \in Nat
      BY <1>0, OwedTable DEF TypeOK, Steps, Fetching
    <2> QED BY <1>1, <1>4, <2>1 DEF Owed
  <1>6. Lag'
    <2> SUFFICES ASSUME ~Astray' PROVE Behind(0)' <= late' + Waiting'
      BY DEF Lag
    <2>1. Behind(0) <= late + Waiting
      BY <1>1 DEF Pace, Lag, Astray
    <2>2. 0 \in 0..a /\ 0 + n = n /\ Behind(0)' = Behind(0 + n) + 1
      BY <1>3
    <2>3. Behind(n) <= Behind(0) /\ Behind(n) \in Nat /\ Behind(0) \in Nat
      BY <1>0, BehindFacts
    <2> QED BY <1>0, <1>1, <1>4, <2>1, <2>2, <2>3
  <1>7. ASSUME ~Astray', NEW i \in 1..Len(Line'), Line'[i].kind = "data"
        PROVE  OwnChunk(i)' \/ Behind(i)' >= Owed'
    <2>1. CASE i <= a
      <3>1. i \in 1..a /\ i \in 0..a /\ i + n \in 1..Len(Line) /\ i + n \in Nat
        BY <1>3, <2>1
      <3>2. Line[i + n].kind = "data" /\ Behind(i)' = Behind(i + n) + 1
        BY <1>3, <1>7, <3>1
      <3>3. ~OwnChunk(i + n) /\ ~Astray
        BY <1>1, <1>7 DEF OwnChunk, Astray
      <3>4. Behind(i + n) >= Owed
        BY <3>1, <3>2, <3>3 DEF Pace, ChunksKnown
      <3>5. Behind(i + n) \in Nat
        BY <1>0, <3>1, BehindFacts
      <3> QED BY <1>5, <3>2, <3>4, <3>5
    <2>2. CASE ~(i <= a)
      <3>0. Len(answer) \in Nat
        OBVIOUS
      <3>1. i - a \in 1..Len(answer) /\ a + (i - a) = i
        BY <1>3, <2>2, <3>0
      <3>2. Line'[i] = answer[i - a]
        BY <1>3, <3>1
      <3>3. Chunks(answer)
        BY <1>2, <1>7, <3>1, <3>2, AnswerKinds
      <3>4. PICK bytes \in Seq(Bytes) :
              /\ answer = <<Final, Data(bytes), End>>
              /\ Len(bytes) \in 1..(total - Len(data))
              /\ \A k \in DOMAIN bytes : bytes[k] = <<body, Len(data) + k>>
        BY <3>3 DEF Chunks
      <3>5. at = "HTTPREAD" /\ body # None
        BY <3>3 DEF Chunks
      <3>6. body' = body
        BY <3>5 DEF Writes, WritePlain, WriteRefused, WriteSelect, WriteList, WriteErase,
                    WriteTerm, WriteInit, WriteUrl, WriteAction, WriteRead, WriteReadRefused,
                    Plain, Refusable, modemVars, httpVars
      <3>7. Len(answer) = 3 /\ answer[1] = Final /\ answer[2] = Data(bytes) /\ answer[3] = End
            /\ answer[1].kind = "final" /\ answer[3].kind = "end"
        BY <3>4 DEF Final, End
      <3>8. i - a = 2
        BY <1>7, <3>1, <3>2, <3>7
      <3>9. i = a + 2 /\ i > 1 /\ i = Len(Line') - 1 /\ i - 1 = a + 1
        BY <1>3, <3>7, <3>8
      <3>10. Line'[i - 1] = Final
        BY <1>3, <3>7, <3>9
      <3>11. Line'[i].bytes = bytes
        BY <3>2, <3>7, <3>8 DEF Data
      <3>12. OwnChunk(i)'
        BY <1>1, <3>4, <3>5, <3>6, <3>9, <3>10, <3>11 DEF OwnChunk
      <3> QED BY <3>12
    <2> QED BY <2>1, <2>2
  <1>8. ChunksKnown'
    BY <1>7 DEF ChunksKnown
  <1> QED BY <1>6, <1>8 DEF Pace

LEMMA TurnKeepsPace ==
  ASSUME Base, Pace, Turns
  PROVE  Pace'
  <1>0. TypeOK /\ late \in Nat /\ Len(text) \in Nat /\ Len(out) \in Nat /\ Base'
    BY BaseStep DEF Base, TypeOK, Next, Client, Turns
  <1>1. /\ Owed' <= Owed /\ Owed \in Nat /\ Owed' \in Nat
        /\ Waiting \in 0..1 /\ Waiting' \in 0..1
        /\ at' # "wait" => /\ late' >= late
                           /\ \/ late + Waiting <= late' + Waiting'
                              \/ Answered /\ (at \notin {"URC", "HTTPREAD"} \/ ChunkTaken)
    BY TurnPace
  <1> DEFINE n == Len(text)
             a == Len(out)
  <1>2. Moved(Line, n, a, <<>>, Line')
    BY <1>0, TurnMoves
  <1>3. /\ Len(Line) = a + n /\ Len(Line') = a
        /\ \A i \in 1..a : Line'[i] = Line[i + n]
        /\ \A i \in 0..a : Behind(i)' = Behind(i + n)
    BY <1>0, <1>2, QuietLine
  <1>4. at # "wait"
    BY DEF Turns, Proceed, Listed, Pick, ScanEnds, ActionAnswered, UrcTaken, ChunkTaken, After,
           SessionClosed, Store, Erased, TimesOut, PortLost, Base, Places
  <1>5. ASSUME at' # "wait", ~Astray' PROVE ~Astray
    <2>1. late' \in Nat /\ late' >= late
      BY <1>0, <1>1, <1>5 DEF Base, TypeOK
    <2> QED BY <1>0, <1>5, <2>1 DEF Astray
  <1>6. ASSUME ~Astray, Answered, at \notin {"URC", "HTTPREAD"} \/ ChunkTaken
        PROVE  Behind(n) + 1 <= Behind(0)
    <2>1. CASE at \notin {"URC", "HTTPREAD"}
      <3>1. n > 0 /\ n <= Len(Line) /\ Line[n].kind = "final" /\ n \in Nat /\ 0 \in Nat
        BY <1>0, <1>6, <2>1, CompleteRead
      <3> HIDE DEF n
      <3> QED BY <1>0, <3>1, BehindFacts
    <2>2. CASE ChunkTaken
      <3>1. PICK i \in 1..Len(text) : OwnChunk(i)
        BY <1>6, <2>2, OwnChunkTaken DEF Pace
      <3>2. i > 1 /\ Line[i - 1].kind = "final"
        BY <3>1 DEF OwnChunk, Final
      <3>3. i - 1 \in Nat /\ 0 < i - 1 /\ i - 1 <= Len(Line) /\ i - 1 <= n
        BY <1>0, <1>3, <3>2
      <3>4. Behind(i - 1) + 1 <= Behind(0)
        BY <1>0, <3>2, <3>3, BehindFacts
      <3>5. Behind(n) <= Behind(i - 1)
        BY <1>0, <3>3, BehindFacts
      <3>6. Behind(n) \in Nat /\ Behind(i - 1) \in Nat /\ Behind(0) \in Nat
        BY <1>0, <3>3, BehindFacts
      <3> QED BY <3>4, <3>5, <3>6
    <2> QED BY <1>6, <2>1, <2>2
  <1>7. Lag'
    <2> SUFFICES ASSUME at' # "wait", ~Astray' PROVE Behind(0)' <= late' + Waiting'
      BY DEF Lag
    <2>1. ~Astray
      BY <1>5
    <2>2. Behind(0) <= late + Waiting
      BY <1>4, <2>1 DEF Pace, Lag
    <2>3. 0 \in 0..a /\ 0 + n = n /\ Behind(0)' = Behind(0 + n)
      BY <1>0, <1>3
    <2>4. Behind(n) <= Behind(0) /\ Behind(n) \in Nat /\ Behind(0) \in Nat
      BY <1>0, BehindFacts
    <2>5. late' \in Nat /\ late' >= late
      BY <1>0, <1>1 DEF Base, TypeOK
    <2>6. CASE late + Waiting <= late' + Waiting'
      <3>1. Behind(0)' = Behind(n)
        BY <2>3
      <3>2. late \in Nat /\ Waiting \in 0..1 /\ Waiting' \in 0..1
        BY <1>0, <1>1
      <3> HIDE DEF n, a
      <3>3. Behind(n) <= late + Waiting
        BY <2>2, <2>4, <3>2
      <3>7. \A x \in Nat, y \in 0..1 : x + y \in Nat
        OBVIOUS
      <3>5. late + Waiting \in Nat /\ late' + Waiting' \in Nat
        BY <2>5, <3>2, <3>7, Zenon
      <3>6. \A x, y, z \in Nat : x <= y /\ y <= z => x <= z
        OBVIOUS
      <3>4. Behind(n) <= late' + Waiting'
        BY <2>4, <2>6, <3>3, <3>5, <3>6, Zenon
      <3> QED BY <3>1, <3>4
    <2>7. CASE Answered /\ (at \notin {"URC", "HTTPREAD"} \/ ChunkTaken)
      <3>1. Behind(n) + 1 <= Behind(0)
        BY <1>6, <2>1, <2>7
      <3> QED BY <1>0, <1>1, <2>2, <2>3, <2>4, <2>5, <3>1
    <2> QED BY <1>1, <2>6, <2>7
  <1>8. ASSUME ~Astray', NEW i \in 1..Len(Line'), Line'[i].kind = "data"
        PROVE  Behind(i)' >= Owed'
    <2>1. i \in 1..a /\ i \in 0..a /\ i + n \in 1..Len(Line) /\ i + n \in Nat
      BY <1>0, <1>3
    <2>2. Behind(i)' = Behind(i + n) /\ Behind(i + n) \in Nat /\ Line[i + n].kind = "data"
      BY <1>0, <1>3, <1>8, <2>1, BehindFacts
    <2>3. CASE at' \in {"wait", "CLOSE"} /\ ~sent'
      <3>1. Owed' = 0
        BY <2>3, OwedTable DEF Owed, Waiting
      <3> QED BY <2>2, <3>1
    <2>4. CASE ~(at' \in {"wait", "CLOSE"} /\ ~sent')
      <3>1. at' # "wait"
        BY <1>0, <2>4 DEF Base, Places
      <3>2. ~Astray
        BY <1>5, <1>8, <3>1
      <3>3. ASSUME OwnChunk(i + n) PROVE FALSE
        <4>1. at = "HTTPREAD" /\ i + n = Len(Line) - 1
          BY <3>3 DEF OwnChunk
        <4>2. ChunkTaken
          BY <2>4, <4>1 DEF Turns, Proceed, Listed, Pick, ScanEnds, ActionAnswered, UrcTaken, After,
                SessionClosed, Store, Erased, TimesOut, PortLost, LeavePoll, Goto, Fetching
        <4>3. PICK j \in 1..Len(text) : OwnChunk(j)
          BY <3>2, <4>2, OwnChunkTaken DEF Pace
        <4>4. j = Len(Line) - 1
          BY <4>3 DEF OwnChunk
        <4> QED BY <1>0, <2>1, <4>1, <4>4
      <3>4. Behind(i + n) >= Owed
        BY <2>1, <2>2, <3>2, <3>3 DEF Pace, ChunksKnown
      <3> QED BY <1>1, <2>2, <3>4
    <2> QED BY <2>3, <2>4
  <1>9. ChunksKnown'
    BY <1>8 DEF ChunksKnown
  <1> QED BY <1>7, <1>9 DEF Pace

LEMMA DownloadKeepsPace ==
  ASSUME Base, Pace, DownloadEnds
  PROVE  Pace'
  <1>0. TypeOK
    BY DEF Base
  <1>1. PICK good \in BOOLEAN :
          /\ Moved(Line, 0, Len(Line), <<UrcHead(action, good), UrcTail(action, good)>>, Line')
          /\ <<UrcHead(action, good), UrcTail(action, good)>> \in Seq(Answers)
    BY <1>0, DownloadMoves
  <1> DEFINE t == <<UrcHead(action, good), UrcTail(action, good)>>
             a == Len(Line)
  <1>2. /\ Len(t) = 2 /\ t[1].kind = "head" /\ t[2].kind = "tail"
    BY DEF UrcHead, UrcTail
  <1>3. t \in Seq(Answers) /\ Moved(Line, 0, a, t, Line')
    BY <1>1
  <1>4. a \in Nat
    BY <1>0, LineType
  <1>5. body = None /\ UNCHANGED <<at, sent, late>>
    BY DEF DownloadEnds, Base, OneDownload
  <1> HIDE DEF t, a
  <1>6. FinalsAfter(t, 0) = 0
    <2>1. FinalsAt(t, 0) = {}
      <3> SUFFICES ASSUME NEW j \in FinalsAt(t, 0) PROVE FALSE
        OBVIOUS
      <3>1. j \in 1..Len(t) /\ t[j].kind = "final"
        BY DEF FinalsAt
      <3> QED BY <1>2, <3>1
    <2> QED BY <2>1, FS_EmptySet DEF FinalsAfter
  <1>7. /\ Len(Line') = a + Len(t)
        /\ \A i \in 1..a : Line'[i] = Line[i + 0]
        /\ \A i \in 1..Len(t) : Line'[a + i] = t[i]
        /\ \A i \in 0..a : Behind(i)' = Behind(i + 0) + FinalsAfter(t, 0)
    BY <1>0, <1>3, <1>4, MovedLine
  <1>8. ASSUME NEW i \in 0..a PROVE Behind(i)' = Behind(i)
    <2>1. i \in Nat /\ i + 0 = i /\ Behind(i) \in Nat /\ Behind(i) + 0 = Behind(i)
      BY <1>0, <1>4, BehindFacts
    <2> QED BY <1>6, <1>7, <2>1
  <1>9. Waiting' = Waiting /\ Owed' = Owed
    BY <1>5 DEF Waiting, Owed
  <1>10. Lag'
    <2> SUFFICES ASSUME at' # "wait", ~Astray' PROVE Behind(0)' <= late' + Waiting'
      BY DEF Lag
    <2>1. Behind(0) <= late + Waiting
      BY <1>5 DEF Pace, Lag, Astray
    <2>2. Behind(0)' = Behind(0)
      BY <1>4, <1>8
    <2> QED BY <1>5, <1>9, <2>1, <2>2
  <1>11. ASSUME ~Astray', NEW i \in 1..Len(Line'), Line'[i].kind = "data"
         PROVE  Behind(i)' >= Owed'
    <2>1. i \in 1..a
      <3>1. CASE ~(i <= a)
        <4>1. i - a \in 1..Len(t) /\ a + (i - a) = i
          BY <1>2, <1>4, <1>7, <3>1
        <4>2. Line'[i] = t[i - a]
          BY <1>7, <4>1
        <4> QED BY <1>2, <1>11, <4>1, <4>2
      <3> QED BY <1>4, <3>1
    <2>2. i \in 0..a /\ i + 0 = i /\ Line[i].kind = "data" /\ i \in 1..Len(Line)
      BY <1>4, <1>7, <1>11, <2>1 DEF a
    <2>3. ~OwnChunk(i) /\ ~Astray
      BY <1>5, <1>11 DEF OwnChunk, Astray
    <2>4. Behind(i) >= Owed
      BY <2>2, <2>3 DEF Pace, ChunksKnown
    <2> QED BY <1>8, <1>9, <2>2, <2>4
  <1>12. ChunksKnown'
    BY <1>11 DEF ChunksKnown
  <1> QED BY <1>10, <1>12 DEF Pace

(* An empty line, or one that stays as it is. *)
LEMMA StillKeepsPace ==
  ASSUME Base, Pace, Receive \/ Open \/ Drain \/ UNCHANGED vars
  PROVE  Pace'
  <1>1. CASE Receive \/ UNCHANGED vars
    <2>1. Line' = Line /\ UNCHANGED <<at, sent, late, body, total, data>>
      BY <1>1, ReceiveKeepsLine DEF Base, Receive, pollVars, modemVars, httpVars, vars, Line
    <2> QED BY <2>1 DEF Pace, Lag, ChunksKnown, OwnChunk, Behind, Owed, Waiting, Astray
  <1>2. CASE Open \/ Drain
    <2>1. text' = <<>> /\ out' = <<>>
      BY <1>2 DEF Open, Drain, Goto, Base, Places
    <2>2. Line' = <<>>
      BY <2>1, ConcatEmptySeq DEF Line
    <2>3. ChunksKnown'
      BY <2>2 DEF ChunksKnown
    <2>4. at' = "wait" \/ (at' = "ATE0" /\ ~sent' /\ late' = 0)
      BY <1>2 DEF Open, Drain, Goto
    <2>5. Behind(0)' = 0
      BY <2>2, NoFinals DEF Behind
    <2>6. ASSUME at' = "ATE0", ~sent', late' = 0 PROVE Behind(0)' <= late' + Waiting'
      <3>1. Waiting' = 0
        BY <2>6 DEF Waiting
      <3> QED BY <2>5, <2>6, <3>1
    <2>7. Lag'
      BY <2>4, <2>6 DEF Lag
    <2> QED BY <2>3, <2>7 DEF Pace
  <1> QED BY <1>1, <1>2

LEMMA PaceStep ==
  ASSUME Base, Pace, [Next]_vars
  PROVE  Pace'
  BY StepKinds, WriteKeepsPace, TurnKeepsPace, DownloadKeepsPace, StillKeepsPace

LEMMA InitPace ==
  ASSUME Init
  PROVE  Pace
  <1>1. at = "wait"
    BY DEF Init
  <1>2. ChunksKnown
    BY InitLine DEF ChunksKnown
  <1> QED BY <1>1, <1>2 DEF Pace, Lag

-------------------------------------------------------------------------------
(***************************************************************************)
(* The session of a fetch: what the modem downloads and what tells of it.  *)
(***************************************************************************)
LEMMA FetchTurns ==
  ASSUME Base, Turns,
         at' \in {"HTTPINIT", "HTTPPARA", "HTTPACTION", "URC", "HTTPREAD", "CLOSE", "store"}
  PROVE  /\ sent /\ denied' = denied /\ todo' = todo /\ (sent' => at' = "URC") /\ at # "wait"
         /\ at' = "HTTPINIT" => at = "HTTPTERM"
         /\ at' = "HTTPPARA" => at = "HTTPINIT"
         /\ at' = "HTTPACTION" => at = "HTTPPARA"
         /\ at' = "URC" => at = "HTTPACTION"
         /\ at' = "HTTPREAD" => UrcTaken \/ ChunkTaken
         /\ at' = "CLOSE" =>
              ChunkTaken \/ (at = "HTTPREAD" /\ UNCHANGED <<total, data, cut, taken>>)
         /\ at' = "store" =>
              at = "CLOSE" /\ Len(data) >= total /\ UNCHANGED <<total, data, cut, taken>>
  <1>1. CASE Proceed
    <2>1. /\ at' = After[at] /\ at \in DOMAIN After /\ sent' = FALSE /\ sent
          /\ UNCHANGED <<denied, todo>>
      BY <1>1 DEF Proceed, Goto, Answered, KeepFetch
    <2>2. /\ at' = "HTTPINIT" => at = "HTTPTERM"
          /\ at' = "HTTPPARA" => at = "HTTPINIT"
          /\ at' = "HTTPACTION" => at = "HTTPPARA"
          /\ at' \notin {"URC", "HTTPREAD", "CLOSE", "store"} /\ at # "wait"
      BY <2>1 DEF After
    <2> QED BY <2>1, <2>2
  <1>2. CASE Listed \/ Pick \/ ScanEnds \/ Erased \/ PortLost \/ Store
    BY <1>2 DEF Listed, Pick, ScanEnds, Erased, PortLost, Store, NextStorage, LeavePoll, NextMessage, Goto
  <1>3. CASE ActionAnswered
    BY <1>3 DEF ActionAnswered, Answered, KeepFetch
  <1>4. CASE UrcTaken
    <2>1. at' = "HTTPREAD" /\ sent' = FALSE /\ sent /\ UNCHANGED <<denied, todo>> /\ at # "wait"
      BY <1>4 DEF UrcTaken, NextMessage, Goto, Answered
    <2> QED BY <1>4, <2>1
  <1>5. CASE ChunkTaken
    <2>1. at' \in {"HTTPREAD", "CLOSE"} /\ sent' = FALSE /\ sent /\ UNCHANGED <<denied, todo>> /\ at # "wait"
      BY <1>5 DEF ChunkTaken, Goto, Answered
    <2> QED BY <1>5, <2>1
  <1>6. CASE SessionClosed
    <2>1. at' = "store" /\ sent' = FALSE /\ sent /\ at = "CLOSE" /\ ~(Len(data) < total)
          /\ UNCHANGED <<denied, todo, total, data, cut, taken>>
      BY <1>6 DEF SessionClosed, FetchEnds, NextMessage, Goto, Answered, KeepFetch
    <2>2. Len(data) >= total
      BY <2>1 DEF Base, TypeOK
    <2> QED BY <2>1, <2>2
  <1>7. CASE TimesOut
    <2>1. CASE at = "HTTPTERM"
      BY <1>7, <2>1 DEF TimesOut, Goto, KeepFetch
    <2>2. CASE at = "HTTPREAD"
      BY <1>7, <2>2 DEF TimesOut, Goto, KeepFetch
    <2>3. CASE at = "CLOSE"
      <3>1. at' = "store" /\ sent' = FALSE /\ sent /\ ~(Len(data) < total)
            /\ UNCHANGED <<denied, todo, total, data, cut, taken>>
        BY <1>7, <2>3 DEF TimesOut, FetchEnds, NextMessage, Goto, KeepFetch
      <3>2. Len(data) >= total
        BY <3>1 DEF Base, TypeOK
      <3> HIDE <1>7
      <3> QED BY <2>3, <3>1, <3>2
    <2>4. CASE at \notin {"HTTPTERM", "HTTPREAD", "CLOSE"}
      <3>1. at' \in {"pick", "wait", "CPMS"}
        BY <1>7, <2>4 DEF TimesOut, Fetching, NextStorage, LeavePoll, NextMessage, Goto
      <3> QED BY <3>1
    <2> QED BY <2>1, <2>2, <2>3, <2>4
  <1> QED BY <1>1, <1>2, <1>3, <1>4, <1>5, <1>6, <1>7 DEF Turns

LEMMA WriteKeepsSession ==
  ASSUME Base, Session, Writes
  PROVE  Session'
  <1>1. /\ ~sent /\ sent' = TRUE /\ at' = at /\ todo' = todo
    BY WriteStep DEF pollVars
  <1> USE <1>1
  <1> DEFINE h == Head(todo)
  <1>2. Head(todo)' = h
    OBVIOUS
  <1>3. CASE WriteTerm
    <2>1. /\ url' = Closed /\ action' = None /\ body' = None /\ denied' = denied
          /\ at \in {"HTTPTERM", "CLOSE"}
      BY <1>3 DEF WriteTerm
    <2> QED BY <2>1 DEF Session, Restarted, Given, Started
  <1>4. CASE WriteRefused
    <2>1. /\ denied' = denied \cup ({at} \cap Matters) /\ UNCHANGED <<url, action, body>>
      BY <1>4 DEF WriteRefused, modemVars, httpVars
    <2>2. /\ Restarted' => Restarted
          /\ Given' => Given
          /\ Started' => Started
      BY <2>1 DEF Restarted, Given, Started, Matters
    <2> QED BY <2>1, <2>2 DEF Session
  <1>5. CASE WriteInit
    <2>1. at = "HTTPINIT" /\ url' = Blank /\ UNCHANGED <<action, body, denied>>
      BY <1>5 DEF WriteInit
    <2>2. (Restarted' => Restarted) /\ ~Given' /\ ~Started'
      BY <2>1 DEF Restarted, Given, Started
    <2> QED BY <2>1, <2>2 DEF Session
  <1>6. CASE WriteUrl
    <2>1. at = "HTTPPARA" /\ url' = h /\ UNCHANGED <<action, body, denied>>
      BY <1>6 DEF WriteUrl
    <2>2. (Restarted' => Restarted) /\ ~Started'
      BY <2>1 DEF Restarted, Started
    <2> QED BY <2>1, <2>2 DEF Session
  <1>7. CASE WriteAction
    <2>1. /\ at = "HTTPACTION" /\ url \in Mms /\ action' = url /\ body' = None
          /\ UNCHANGED <<url, denied>>
      BY <1>7 DEF WriteAction
    <2>2. (Restarted' => Restarted) /\ (Given' => Given) /\ (Started' => Given)
      BY <2>1 DEF Restarted, Given, Started
    <2>3. url \notin {Closed, Blank}
      BY <2>1, AtSerialAssumption
    <2>4. Restarted \/ Given => url = h
      BY <2>3 DEF Session
    <2> QED BY <2>1, <2>2, <2>4 DEF Session
  <1>8. CASE WriteRead \/ WriteReadRefused \/ WritePlain \/ WriteSelect \/ WriteList \/ WriteErase
    <2>1. /\ at \notin {"HTTPTERM", "HTTPPARA", "HTTPACTION"} /\ UNCHANGED <<url, action, body, denied>>
      BY <1>8 DEF WriteRead, WriteReadRefused, WritePlain, WriteSelect, WriteList, WriteErase,
                  modemVars, httpVars, Plain
    <2>2. (Restarted' => Restarted) /\ (Given' => Given) /\ (Started' => Started)
      BY <2>1 DEF Restarted, Given, Started
    <2> QED BY <2>1, <2>2 DEF Session
  <1> QED BY <1>3, <1>4, <1>5, <1>6, <1>7, <1>8 DEF Writes

LEMMA SessionStep ==
  ASSUME Base, Session, [Next]_vars
  PROVE  Session'
  <1>1. CASE Writes
    BY <1>1, WriteKeepsSession
  <1>2. CASE Turns
    <2>1. UNCHANGED <<url, action, body>>
      BY <1>2, TurnKeeps DEF modemVars, httpVars
    <2>2. CASE at' \in {"HTTPINIT", "HTTPPARA", "HTTPACTION", "URC", "HTTPREAD"}
      <3>1. /\ sent /\ denied' = denied /\ todo' = todo
            /\ at' = "HTTPINIT" => at = "HTTPTERM"
            /\ at' = "HTTPPARA" => at = "HTTPINIT"
            /\ at' = "HTTPACTION" => at = "HTTPPARA"
            /\ at' = "URC" => at = "HTTPACTION"
            /\ at' = "HTTPREAD" => UrcTaken \/ ChunkTaken
        BY <1>2, <2>2, FetchTurns
      <3>2. at' = "HTTPREAD" => at \in {"HTTPACTION", "URC", "HTTPREAD"}
        BY <3>1 DEF UrcTaken, ChunkTaken
      <3>3. at' = "HTTPPARA" => ~sent'
        BY <1>2, <2>2, FetchTurns
      <3>4. at' = "HTTPACTION" => ~sent'
        BY <1>2, <2>2, FetchTurns
      <3>5. Restarted' => Restarted
        BY <2>2, <3>1, <3>2 DEF Restarted
      <3>6. Given' => Given
        BY <2>2, <3>1, <3>3 DEF Given
      <3>7. Started' => Started
        BY <2>2, <3>1, <3>2, <3>4 DEF Started
      <3> QED BY <2>1, <3>1, <3>5, <3>6, <3>7 DEF Session
    <2>3. CASE at' \notin {"HTTPINIT", "HTTPPARA", "HTTPACTION", "URC", "HTTPREAD"}
      <3>1. ~(at' = "HTTPTERM" /\ sent')
        BY <1>2 DEF Turns, Proceed, Listed, Pick, ScanEnds, ActionAnswered, UrcTaken, ChunkTaken,
              SessionClosed, Store, Erased, TimesOut, PortLost, NextStorage, LeavePoll, NextMessage,
              FetchEnds, Goto
      <3>2. ~Restarted' /\ ~Given' /\ ~Started'
        BY <2>3, <3>1 DEF Restarted, Given, Started
      <3> QED BY <3>2 DEF Session
    <2> QED BY <2>2, <2>3
  <1>3. CASE DownloadEnds
    <2>1. body' = action /\ action' = None /\ UNCHANGED <<at, sent, todo, url, denied>>
      BY <1>3 DEF DownloadEnds, pollVars
    <2>2. (Restarted' => Restarted) /\ (Given' => Given) /\ (Started' => Started)
      BY <2>1 DEF Restarted, Given, Started
    <2> QED BY <2>1, <2>2 DEF Session
  <1>4. CASE Receive \/ Drain \/ UNCHANGED vars
    <2>1. UNCHANGED <<at, sent, todo, url, action, body, denied>>
      BY <1>4 DEF Receive, Drain, vars, pollVars, modemVars, httpVars
    <2>2. (Restarted' => Restarted) /\ (Given' => Given) /\ (Started' => Started)
      BY <2>1 DEF Restarted, Given, Started
    <2> QED BY <2>1, <2>2 DEF Session
  <1>5. CASE Open
    <2>1. at' = "ATE0"
      BY <1>5 DEF Open, Goto
    <2> QED BY <2>1 DEF Session, Restarted, Given, Started
  <1> QED BY <1>1, <1>2, <1>3, <1>4, <1>5, StepKinds

LEMMA RestartedTurn ==
  ASSUME Base, Turns, Restarted'
  PROVE  Restarted /\ todo' = todo
  <1>1. CASE at' \in {"HTTPINIT", "HTTPPARA", "HTTPACTION", "URC", "HTTPREAD"}
    <2>1. /\ sent /\ denied' = denied /\ todo' = todo
          /\ at' = "HTTPINIT" => at = "HTTPTERM"
          /\ at' = "HTTPPARA" => at = "HTTPINIT"
          /\ at' = "HTTPACTION" => at = "HTTPPARA"
          /\ at' = "URC" => at = "HTTPACTION"
          /\ at' = "HTTPREAD" => UrcTaken \/ ChunkTaken
      BY <1>1, FetchTurns
    <2>2. at' = "HTTPREAD" => at \in {"HTTPACTION", "URC", "HTTPREAD"}
      BY <2>1 DEF UrcTaken, ChunkTaken
    <2> QED BY <1>1, <2>1, <2>2 DEF Restarted
  <1>2. CASE at' \notin {"HTTPINIT", "HTTPPARA", "HTTPACTION", "URC", "HTTPREAD"}
    <2>1. ~(at' = "HTTPTERM" /\ sent')
      BY DEF Turns, Proceed, Listed, Pick, ScanEnds, ActionAnswered, UrcTaken, ChunkTaken,
            SessionClosed, Store, Erased, TimesOut, PortLost, NextStorage, LeavePoll, NextMessage,
            FetchEnds, Goto
    <2> QED BY <1>2, <2>1 DEF Restarted
  <1> QED BY <1>1, <1>2

LEMMA WriteKeepsUrcs ==
  ASSUME Base, UrcsKnown, Writes
  PROVE  UrcsKnown'
  <1>0. TypeOK
    BY DEF Base
  <1>1. /\ at \notin {"wait", "pick", "store", "URC"} /\ ~sent /\ sent' = TRUE /\ at' = at /\ todo' = todo
    BY WriteStep DEF pollVars
  <1>2. PICK answer \in Seq(Answers), n, a \in Nat :
          AnswerIs(answer) /\ Moved(Line, n, a, answer, Line')
    BY WriteStep, Zenon
  <1>3. /\ Len(Line) = a + n /\ Len(Line') = a + Len(answer)
        /\ \A i \in 1..a : Line'[i] = Line[i + n]
        /\ \A i \in 1..Len(answer) : Line'[a + i] = answer[i]
        /\ \A i \in 0..a : Behind(i)' = Behind(i + n) + 1
    BY <1>0, <1>2, WrittenLine
  <1>4. \A i \in 1..Len(answer) : answer[i].kind # "head"
    BY <1>2, AnswerKinds
  <1>5. Waiting = 0 /\ Waiting' = 1
    BY <1>1 DEF Waiting
  <1>6. OwedAt(at) \in Nat /\ Owed = OwedAt(at) /\ Owed' = OwedAt(at) + 1
    <2>1. OwedAt(at) \in Nat
      BY <1>0, OwedTable DEF TypeOK, Steps, Fetching
    <2> QED BY <1>1, <1>5, <2>1 DEF Owed
  <1> SUFFICES ASSUME Restarted', NEW i \in 1..Len(Line'), Line'[i].kind = "head"
               PROVE  Line'[i].of = Head(todo') \/ Behind(i)' + 5 >= Owed'
    BY DEF UrcsKnown
  <1>7. Len(answer) \in Nat
    OBVIOUS
  <1>8. i \in 1..a
    <2>1. CASE ~(i <= a)
      <3>1. i - a \in 1..Len(answer) /\ a + (i - a) = i
        BY <1>3, <1>7, <2>1
      <3>2. Line'[i] = answer[i - a]
        BY <1>3, <3>1
      <3> QED BY <1>4, <3>1, <3>2
    <2> QED BY <2>1
  <1>9. i \in 0..a /\ i + n \in 1..Len(Line) /\ i + n \in Nat
    BY <1>3, <1>8
  <1>10. Line'[i] = Line[i + n] /\ Line[i + n].kind = "head" /\ Behind(i)' = Behind(i + n) + 1
         /\ Behind(i + n) \in Nat
    BY <1>0, <1>3, <1>8, <1>9, BehindFacts
  <1>11. CASE at = "HTTPTERM"
    <2>1. OwedAt(at) = 5
      BY <1>11, OwedTable
    <2> QED BY <1>6, <1>10, <2>1
  <1>12. CASE at # "HTTPTERM"
    <2>1. denied' = denied \/ WriteRefused
      BY DEF Writes, WritePlain, WriteSelect, WriteList, WriteErase, WriteTerm, WriteInit, WriteUrl,
             WriteAction, WriteRead, WriteReadRefused
    <2>2. denied \subseteq denied'
      BY <2>1 DEF WriteRefused
    <2>3. Restarted
      BY <1>1, <1>12, <2>2 DEF Restarted
    <2>4. Line[i + n].of = Head(todo) \/ Behind(i + n) + 5 >= Owed
      BY <1>9, <1>10, <2>3 DEF UrcsKnown
    <2> QED BY <1>1, <1>6, <1>10, <2>4
  <1> QED BY <1>11, <1>12

LEMMA TurnKeepsUrcs ==
  ASSUME Base, UrcsKnown, Turns
  PROVE  UrcsKnown'
  <1>0. TypeOK /\ Len(text) \in Nat /\ Len(out) \in Nat
    BY DEF Base, TypeOK
  <1> SUFFICES ASSUME Restarted', NEW i \in 1..Len(Line'), Line'[i].kind = "head"
               PROVE  Line'[i].of = Head(todo') \/ Behind(i)' + 5 >= Owed'
    BY DEF UrcsKnown
  <1>1. Restarted /\ todo' = todo
    BY RestartedTurn
  <1>2. Owed' <= Owed /\ Owed \in Nat /\ Owed' \in Nat
    BY TurnPace
  <1>3. PICK n, a \in Nat : Moved(Line, n, a, <<>>, Line')
    BY <1>0, QuietMoves DEF Base
  <1>4. /\ Len(Line) = a + n /\ Len(Line') = a
        /\ \A j \in 1..a : Line'[j] = Line[j + n]
        /\ \A j \in 0..a : Behind(j)' = Behind(j + n)
    BY <1>0, <1>3, QuietLine
  <1>5. i \in 1..a /\ i \in 0..a /\ i + n \in 1..Len(Line) /\ i + n \in Nat
    BY <1>4
  <1>6. Line'[i] = Line[i + n] /\ Line[i + n].kind = "head" /\ Behind(i)' = Behind(i + n)
        /\ Behind(i + n) \in Nat
    BY <1>0, <1>4, <1>5, BehindFacts
  <1>7. Line[i + n].of = Head(todo) \/ Behind(i + n) + 5 >= Owed
    BY <1>1, <1>5, <1>6 DEF UrcsKnown
  <1> QED BY <1>1, <1>2, <1>6, <1>7

LEMMA DownloadLine ==
  ASSUME Base, DownloadEnds
  PROVE  /\ Len(Line') = Len(Line) + 2 /\ Len(Line) \in Nat
         /\ \A i \in 1..Len(Line) : Line'[i] = Line[i]
         /\ \A i \in 0..Len(Line) : Behind(i)' = Behind(i)
         /\ Line'[Len(Line) + 1].kind = "head" /\ Line'[Len(Line) + 1].of = action
         /\ Line'[Len(Line) + 2].kind = "tail"
  <1>0. TypeOK
    BY DEF Base
  <1>1. PICK good \in BOOLEAN :
          /\ Moved(Line, 0, Len(Line), <<UrcHead(action, good), UrcTail(action, good)>>, Line')
          /\ <<UrcHead(action, good), UrcTail(action, good)>> \in Seq(Answers)
    BY <1>0, DownloadMoves
  <1> DEFINE t == <<UrcHead(action, good), UrcTail(action, good)>>
             a == Len(Line)
  <1>2. /\ Len(t) = 2 /\ t[1].kind = "head" /\ t[1].of = action /\ t[2].kind = "tail"
    BY DEF UrcHead, UrcTail
  <1>3. t \in Seq(Answers) /\ Moved(Line, 0, a, t, Line')
    BY <1>1
  <1>4. a \in Nat
    BY <1>0, LineType
  <1> HIDE DEF t
  <1>5. FinalsAfter(t, 0) = 0
    <2>1. FinalsAt(t, 0) = {}
      <3> SUFFICES ASSUME NEW j \in FinalsAt(t, 0) PROVE FALSE
        OBVIOUS
      <3>1. j \in 1..Len(t) /\ t[j].kind = "final"
        BY DEF FinalsAt
      <3> QED BY <1>2, <3>1
    <2> QED BY <2>1, FS_EmptySet DEF FinalsAfter
  <1> HIDE DEF a
  <1>6. /\ Len(Line') = a + Len(t)
        /\ \A i \in 1..a : Line'[i] = Line[i + 0]
        /\ \A i \in 1..Len(t) : Line'[a + i] = t[i]
        /\ \A i \in 0..a : Behind(i)' = Behind(i + 0) + FinalsAfter(t, 0)
    BY <1>0, <1>3, <1>4, MovedLine
  <1>7. ASSUME NEW i \in 0..a PROVE Behind(i)' = Behind(i)
    <2>1. i \in Nat /\ i + 0 = i /\ Behind(i) \in Nat /\ Behind(i) + 0 = Behind(i)
      BY <1>0, <1>4, BehindFacts
    <2> QED BY <1>5, <1>6, <2>1
  <1>8. \A i \in 1..a : Line'[i] = Line[i]
    <2> SUFFICES ASSUME NEW i \in 1..a PROVE Line'[i] = Line[i]
      OBVIOUS
    <2>1. i + 0 = i
      BY <1>4
    <2> QED BY <1>6, <2>1
  <1>9. Line'[a + 1] = t[1] /\ Line'[a + 2] = t[2] /\ Len(Line') = a + 2
    BY <1>2, <1>6
  <1> QED BY <1>2, <1>4, <1>7, <1>8, <1>9 DEF a

LEMMA DownloadKeepsUrcs ==
  ASSUME Base, Session, UrcsKnown, DownloadEnds
  PROVE  UrcsKnown'
  <1>1. /\ Len(Line') = Len(Line) + 2 /\ Len(Line) \in Nat
        /\ \A i \in 1..Len(Line) : Line'[i] = Line[i]
        /\ \A i \in 0..Len(Line) : Behind(i)' = Behind(i)
        /\ Line'[Len(Line) + 1].of = action
        /\ Line'[Len(Line) + 2].kind = "tail"
    BY DownloadLine
  <1>2. action # None /\ UNCHANGED <<at, sent, todo, denied>>
    BY DEF DownloadEnds, pollVars
  <1>3. Restarted' = Restarted /\ Owed' = Owed
    BY <1>2 DEF Restarted, Owed, Waiting
  <1> SUFFICES ASSUME Restarted, NEW i \in 1..Len(Line'), Line'[i].kind = "head"
               PROVE  Line'[i].of = Head(todo) \/ Behind(i)' + 5 >= Owed
    BY <1>2, <1>3 DEF UrcsKnown
  <1>4. action = Head(todo)
    BY <1>2 DEF Session
  <1>5. i \in 1..Len(Line) \/ i = Len(Line) + 1 \/ i = Len(Line) + 2
    BY <1>1
  <1>6. CASE i \in 1..Len(Line)
    <2>1. i \in 0..Len(Line) /\ Line'[i] = Line[i] /\ Line[i].kind = "head" /\ Behind(i)' = Behind(i)
      BY <1>1, <1>6
    <2>2. Line[i].of = Head(todo) \/ Behind(i) + 5 >= Owed
      BY <1>6, <2>1 DEF UrcsKnown
    <2> QED BY <2>1, <2>2
  <1>7. CASE i = Len(Line) + 1
    BY <1>1, <1>4, <1>7
  <1>8. CASE i = Len(Line) + 2
    BY <1>1, <1>8
  <1> QED BY <1>5, <1>6, <1>7, <1>8

LEMMA UrcsStep ==
  ASSUME Base, Session, UrcsKnown, [Next]_vars
  PROVE  UrcsKnown'
  <1>1. CASE Receive \/ UNCHANGED vars
    <2>1. Line' = Line /\ UNCHANGED <<at, sent, todo, denied>>
      BY <1>1, ReceiveKeepsLine DEF Base, Receive, pollVars, vars, Line
    <2> QED BY <2>1 DEF UrcsKnown, Restarted, Behind, Owed, Waiting
  <1>2. CASE Open \/ Drain
    <2>1. at' \in {"wait", "ATE0"}
      BY <1>2 DEF Open, Drain, Goto
    <2> QED BY <2>1 DEF UrcsKnown, Restarted
  <1> QED BY <1>1, <1>2, StepKinds, WriteKeepsUrcs, TurnKeepsUrcs, DownloadKeepsUrcs

(* The status and the length are told by a +HTTPACTION that was far enough *)
(* ahead, or by the one of this download.                                  *)
LEMMA ToldWhenTaken ==
  ASSUME Base, Lag, UrcsKnown, UrcTaken, "HTTPTERM" \notin denied
  PROVE  Urc.of = Head(todo) \/ late >= 3
  <1>1. TypeOK /\ UrcWhole /\ late \in Nat /\ Len(text) \in Nat /\ Len(out) \in Nat
    BY DEF Base, TypeOK
  <1>2. PICK i \in 1..Len(text), m \in Mms, good \in BOOLEAN :
          text[i].kind = "head" /\ Line[i] = text[i] /\ Line[i].of = m /\ Urc.of = m
    BY <1>1, UrcFacts, Zenon
  <1>3. at \in {"HTTPACTION", "URC"} /\ sent
    BY DEF UrcTaken, Answered
  <1>4. Restarted
    BY <1>3 DEF Restarted
  <1>5. i \in 1..Len(Line) /\ i \in Nat /\ Line[i].kind = "head"
    BY <1>1, <1>2, LineType
  <1>6. Line[i].of = Head(todo) \/ Behind(i) + 5 >= Owed
    BY <1>4, <1>5 DEF UrcsKnown
  <1>7. Owed = 9
    BY <1>3, OwedTable DEF Owed, Waiting
  <1>8. Waiting \in {0, 1}
    BY DEF Waiting
  <1>9. CASE Astray
    BY <1>1, <1>9 DEF Astray
  <1>10. CASE ~Astray
    <2>1. Behind(0) <= late + Waiting
      BY <1>3, <1>10 DEF Lag
    <2>2. Behind(i) <= Behind(0) /\ Behind(i) \in Nat /\ Behind(0) \in Nat
      BY <1>1, <1>5, BehindFacts
    <2> QED BY <1>1, <1>2, <1>6, <1>7, <1>8, <2>1, <2>2
  <1> QED BY <1>9, <1>10

(* What is not changed but by a turn. *)
LEMMA ReadingKept ==
  ASSUME Base, [Next]_vars, ~Turns, Reading'
  PROVE  Reading /\ UNCHANGED <<at, todo, total, data, cut, taken, late>> /\ denied \subseteq denied'
  <1>1. CASE Writes
    <2>1. UNCHANGED <<at, todo, total, data, cut, taken, late>>
      BY <1>1, WriteStep DEF pollVars
    <2>2. denied' = denied \/ WriteRefused
      BY <1>1 DEF Writes, WritePlain, WriteSelect, WriteList, WriteErase, WriteTerm, WriteInit,
            WriteUrl, WriteAction, WriteRead, WriteReadRefused
    <2>3. denied \subseteq denied'
      BY <2>2 DEF WriteRefused
    <2> QED BY <2>1, <2>3 DEF Reading
  <1>2. CASE Receive \/ Drain \/ DownloadEnds \/ UNCHANGED vars
    <2>1. UNCHANGED <<at, todo, total, data, cut, taken, late, denied>>
      BY <1>2 DEF Receive, Drain, DownloadEnds, vars, pollVars
    <2> QED BY <2>1 DEF Reading
  <1>3. CASE Open
    BY <1>3 DEF Open, Goto, Reading
  <1> QED BY <1>1, <1>2, <1>3, StepKinds

LEMMA UrcTakenFacts ==
  ASSUME Base, UrcTaken, at' = "HTTPREAD"
  PROVE  /\ taken' = Urc.of /\ total' = Urc.total /\ data' = <<>> /\ data = <<>>
         /\ denied' = denied /\ late' = late /\ todo' = todo
         /\ total' \in Nat \ {0} /\ taken' \in Mms
         /\ cut' \/ total' = Length[taken']
  <1>1. TypeOK /\ UrcWhole
    BY DEF Base
  <1>2. PICK i \in 1..Len(text), m \in Mms, good \in BOOLEAN :
           /\ Urc.of = m /\ Urc.good = good
           /\ Urc.total \in Nat \ {0} /\ (Urc.kind = "head" \/ Urc.total = Length[m])
    BY <1>1, UrcFacts, Zenon
  <1>3. Urc.good
    BY DEF UrcTaken, NextMessage, Goto
  <1>4. /\ total' = Urc.total /\ taken' = Urc.of /\ UNCHANGED <<todo, data, denied, late>>
        /\ at \in {"HTTPACTION", "URC"}
    BY <1>3 DEF UrcTaken, Unread
  <1>5. data = <<>>
    BY <1>4 DEF Base, Places
  <1>6. cut' \/ Urc.kind # "head"
    BY <1>3 DEF UrcTaken
  <1> QED BY <1>2, <1>4, <1>5, <1>6

LEMMA ToldStep ==
  ASSUME Base, Lag, UrcsKnown, Told, [Next]_vars
  PROVE  Told'
  <1> SUFFICES ASSUME Reading', "HTTPTERM" \notin denied' PROVE taken' = Head(todo') \/ late' >= 3
    BY DEF Told
  <1>1. CASE ~Turns
    <2>1. Reading /\ UNCHANGED <<todo, taken, late>> /\ denied \subseteq denied'
      BY <1>1, ReadingKept
    <2> QED BY <2>1 DEF Told
  <1>2. CASE Turns
    <2>0. at' \in {"HTTPREAD", "CLOSE", "store"}
      BY DEF Reading
    <2>1. /\ denied' = denied /\ todo' = todo
          /\ at' = "HTTPREAD" => UrcTaken \/ ChunkTaken
          /\ at' = "CLOSE" =>
               ChunkTaken \/ (at = "HTTPREAD" /\ UNCHANGED <<total, data, cut, taken>>)
          /\ at' = "store" => at = "CLOSE" /\ UNCHANGED <<total, data, cut, taken>>
      BY <1>2, <2>0, FetchTurns
    <2>2. CASE UrcTaken /\ at' = "HTTPREAD"
      <3>1. taken' = Urc.of /\ late' = late
        BY <2>2, UrcTakenFacts
      <3>2. Urc.of = Head(todo) \/ late >= 3
        BY <2>1, <2>2, ToldWhenTaken
      <3> QED BY <2>1, <3>1, <3>2
    <2>3. CASE ~(UrcTaken /\ at' = "HTTPREAD")
      <3>1. at \in {"HTTPREAD", "CLOSE"} /\ taken' = taken
        BY <2>0, <2>1, <2>3 DEF ChunkTaken
      <3>2. taken = Head(todo) \/ late >= 3
        BY <2>1, <3>1 DEF Told, Reading
      <3>3. late' >= late
        BY <1>2, <2>0, TurnPace
      <3>4. late \in Nat /\ late' \in Nat
        BY BaseStep DEF Base, TypeOK
      <3> QED BY <2>1, <3>1, <3>2, <3>3, <3>4
    <2> QED BY <2>2, <2>3
  <1> QED BY <1>1, <1>2

-------------------------------------------------------------------------------
(***************************************************************************)
(* What is read.                                                           *)
(***************************************************************************)
LEMMA ChunkTakenFacts ==
  ASSUME Base, Pace, ~Astray, ChunkTaken
  PROVE  \E bytes \in Seq(Bytes) :
           /\ data' = data \o bytes /\ body # None
           /\ Len(bytes) \in 1..(total - Len(data))
           /\ \A k \in DOMAIN bytes : bytes[k] = <<body, Len(data) + k>>
  <1>1. PICK i \in 1..Len(text) : OwnChunk(i) /\ Chunk = Line[i].bytes
    BY OwnChunkTaken DEF Pace
  <1>2. Chunk \in Seq(Bytes)
    BY ChunkFacts DEF ChunkTaken, Answered, Base
  <1>3. data' = data \o Chunk
    BY DEF ChunkTaken
  <1> QED BY <1>1, <1>2, <1>3 DEF OwnChunk

LEMMA AmountStep ==
  ASSUME Base, Pace, Amount, [Next]_vars
  PROVE  Amount'
  <1>0. Base' /\ Len(data) \in Nat /\ total \in Nat /\ late \in Nat /\ late' \in Nat /\ Len(data') \in Nat
    BY BaseStep DEF Base, TypeOK
  <1>1. CASE ~Turns
    <2>1. ASSUME Reading' PROVE Reading /\ UNCHANGED <<at, total, data, cut, taken, late>>
      BY <1>1, <2>1, ReadingKept
    <2>2. CASE Reading'
      BY <2>1, <2>2 DEF Amount, Astray
    <2>3. CASE ~Reading'
      BY <2>3 DEF Amount, Reading
    <2> QED BY <2>2, <2>3
  <1>2. CASE Turns /\ Reading'
    <2>0. at' \in {"HTTPREAD", "CLOSE", "store"} /\ at # "wait"
      BY <1>2, FetchTurns DEF Reading
    <2>1. /\ at' = "HTTPREAD" => UrcTaken \/ ChunkTaken
          /\ at' = "CLOSE" =>
               ChunkTaken \/ (at = "HTTPREAD" /\ UNCHANGED <<total, data, cut, taken>>)
          /\ at' = "store" => at = "CLOSE" /\ Len(data) >= total /\ UNCHANGED <<total, data, cut, taken>>
      BY <1>2, <2>0, FetchTurns
    <2>2. late' >= late
      BY <1>2, <2>0, TurnPace
    <2>3. ASSUME ~Astray' PROVE ~Astray
      BY <1>0, <2>2, <2>3 DEF Astray
    <2>4. CASE UrcTaken /\ at' = "HTTPREAD"
      <3>1. data' = <<>> /\ total' \in Nat /\ taken' \in Mms /\ (cut' \/ total' = Length[taken'])
        BY <2>4, UrcTakenFacts
      <3>2. Len(data') <= total'
        BY <3>1
      <3> QED BY <2>4, <3>1, <3>2 DEF Amount
    <2>5. CASE ChunkTaken
      <3>1. UNCHANGED <<total, cut, taken>> /\ at = "HTTPREAD" /\ at' # "store"
        BY <2>5 DEF ChunkTaken, Goto
      <3>2. taken' \in Mms /\ (cut' \/ total' = Length[taken'])
        BY <3>1 DEF Amount, Reading
      <3>3. ASSUME ~Astray' PROVE Len(data') <= total'
        <4>1. PICK bytes \in Seq(Bytes) :
                data' = data \o bytes /\ Len(bytes) \in 1..(total - Len(data))
          BY <2>3, <2>5, <3>3, ChunkTakenFacts
        <4>2. data \in Seq(Bytes)
          BY DEF Base, TypeOK
        <4>3. Len(data') = Len(data) + Len(bytes)
          BY <4>1, <4>2, ConcatProperties
        <4> QED BY <1>0, <3>1, <4>1, <4>3
      <3> QED BY <3>1, <3>2, <3>3 DEF Amount
    <2>6. CASE ~ChunkTaken /\ ~(UrcTaken /\ at' = "HTTPREAD")
      <3>1. /\ at \in {"HTTPREAD", "CLOSE"} /\ UNCHANGED <<total, data, cut, taken>>
            /\ at' = "store" => Len(data) >= total
        BY <2>0, <2>1, <2>6
      <3> QED BY <2>3, <3>1 DEF Amount, Reading
    <2> QED BY <2>4, <2>5, <2>6
  <1>3. CASE ~Reading'
    BY <1>3 DEF Amount, Reading
  <1> QED BY <1>1, <1>2, <1>3

LEMMA ChunkKeepsContent ==
  ASSUME Base, Pace, Session, Content, ~Astray, ChunkTaken
  PROVE  /\ \A k \in DOMAIN data' : data'[k] = <<body, k>>
         /\ Trusted => body = Head(todo)
  <1>1. PICK bytes \in Seq(Bytes) :
          /\ data' = data \o bytes /\ body # None
          /\ Len(bytes) \in 1..(total - Len(data))
          /\ \A k \in DOMAIN bytes : bytes[k] = <<body, Len(data) + k>>
    BY ChunkTakenFacts
  <1>2. data \in Seq(Bytes) /\ Len(data) \in Nat /\ Len(bytes) \in Nat
    BY DEF Base, TypeOK
  <1>3. at = "HTTPREAD"
    BY DEF ChunkTaken
  <1>4. \A k \in 1..Len(data) : data[k] = <<body, k>>
    BY <1>2, <1>3 DEF Content
  <1>5. /\ data' \in Seq(Bytes) /\ Len(data') = Len(data) + Len(bytes)
        /\ \A k \in 1..(Len(data) + Len(bytes)) :
             data'[k] = IF k <= Len(data) THEN data[k] ELSE bytes[k - Len(data)]
    <2>1. /\ data \o bytes \in Seq(Bytes) /\ Len(data \o bytes) = Len(data) + Len(bytes)
          /\ \A k \in 1..(Len(data) + Len(bytes)) :
               (data \o bytes)[k] = IF k <= Len(data) THEN data[k] ELSE bytes[k - Len(data)]
      BY <1>2, ConcatProperties, Zenon
    <2> QED BY <1>1, <2>1, Zenon
  <1>6. ASSUME NEW k \in 1..Len(data') PROVE data'[k] = <<body, k>>
    <2>1. k \in 1..(Len(data) + Len(bytes))
      BY <1>5
    <2>2. CASE k <= Len(data)
      <3>1. k \in 1..Len(data) /\ data'[k] = data[k]
        BY <1>2, <1>5, <2>1, <2>2
      <3> QED BY <1>4, <3>1
    <2>3. CASE ~(k <= Len(data))
      <3>1. data'[k] = bytes[k - Len(data)]
        BY <1>5, <2>1, <2>3
      <3>2. k - Len(data) \in DOMAIN bytes /\ Len(data) + (k - Len(data)) = k
        BY <1>2, <2>1, <2>3
      <3> QED BY <1>1, <3>1, <3>2
    <2> QED BY <2>2, <2>3
  <1>7. ASSUME Trusted PROVE body = Head(todo)
    <2>1. Restarted \/ Started
      BY <1>3, <1>7 DEF Trusted, Restarted, Started
    <2> QED BY <1>1, <2>1 DEF Session
  <1>8. data' \in Seq(Bytes)
    BY <1>5
  <1>9. DOMAIN data' = 1..Len(data')
    BY <1>8
  <1> QED BY <1>6, <1>7, <1>9

LEMMA KeptContent ==
  ASSUME Base, Content, [Next]_vars, ~Turns, ~Astray'
  PROVE  /\ at' = "HTTPREAD" => \A k \in DOMAIN data' : data'[k] = <<body', k>>
         /\ \A k \in DOMAIN data' : /\ data'[k] = <<data'[1][1], k>>
                                    /\ Trusted' => data'[k][1] = Head(todo')
  <1>1. CASE Reading'
    <2>1. Reading /\ UNCHANGED <<at, todo, total, data, late>> /\ denied \subseteq denied'
      BY <1>1, ReadingKept
    <2>2. ~Astray /\ (Trusted' => Trusted)
      BY <2>1 DEF Astray, Trusted
    <2>3. /\ at = "HTTPREAD" => \A k \in DOMAIN data : data[k] = <<body, k>>
          /\ \A k \in DOMAIN data : data[k] = <<data[1][1], k>> /\ (Trusted => data[k][1] = Head(todo))
      BY <2>2 DEF Content
    <2>4. ASSUME at = "HTTPREAD", NEW k \in DOMAIN data PROVE body' = body
      <3>1. CASE Writes
        BY <2>4, <3>1 DEF Writes, WritePlain, WriteRefused, WriteSelect, WriteList, WriteErase,
                    WriteTerm, WriteInit, WriteUrl, WriteAction, WriteRead, WriteReadRefused,
                    Plain, Refusable, modemVars, httpVars
      <3>2. CASE DownloadEnds
        <4>1. data \in Seq(Bytes) /\ data[k] = <<body, k>>
          BY <2>3, <2>4 DEF Base, TypeOK
        <4>2. <<body, k>> \in Bytes
          BY <4>1
        <4>3. body \in Mms
          BY <4>2 DEF Bytes
        <4>4. body # None
          BY <4>3, AtSerialAssumption
        <4> QED BY <3>2, <4>4 DEF DownloadEnds, Base, OneDownload
      <3>3. CASE Receive \/ Open \/ Drain \/ UNCHANGED vars
        BY <3>3 DEF Receive, Open, Drain, vars, modemVars, httpVars
      <3> QED BY <3>1, <3>2, <3>3, StepKinds
    <2>5. at' = "HTTPREAD" => \A k \in DOMAIN data' : data'[k] = <<body', k>>
      BY <2>1, <2>3, <2>4
    <2>6. \A k \in DOMAIN data' : /\ data'[k] = <<data'[1][1], k>>
                                  /\ Trusted' => data'[k][1] = Head(todo')
      BY <2>1, <2>2, <2>3
    <2> QED BY <2>5, <2>6
  <1>2. CASE ~Reading'
    <2>1. data' = <<>>
      BY <1>2, BaseStep DEF Base, Places, Reading
    <2>2. DOMAIN data' = {}
      BY <2>1
    <2> QED BY <2>2
  <1> QED BY <1>1, <1>2

LEMMA ContentStep ==
  ASSUME Base, Pace, Session, Content, [Next]_vars
  PROVE  Content'
  <1> SUFFICES ASSUME ~Astray'
               PROVE  /\ at' = "HTTPREAD" => \A k \in DOMAIN data' : data'[k] = <<body', k>>
                      /\ \A k \in DOMAIN data' : /\ data'[k] = <<data'[1][1], k>>
                                                 /\ Trusted' => data'[k][1] = Head(todo')
    BY DEF Content
  <1>0. late \in Nat /\ late' \in Nat /\ Base'
    BY BaseStep DEF Base, TypeOK
  <1>1. CASE ~Turns
    BY <1>1, KeptContent
  <1>2. CASE Turns /\ Reading'
    <2>0. at' \in {"HTTPREAD", "CLOSE", "store"} /\ at' # "wait"
      BY <1>2 DEF Reading
    <2>1. /\ denied' = denied /\ todo' = todo
          /\ at' = "HTTPREAD" => UrcTaken \/ ChunkTaken
          /\ at' = "CLOSE" =>
               ChunkTaken \/ (at = "HTTPREAD" /\ UNCHANGED <<total, data, cut, taken>>)
          /\ at' = "store" => at = "CLOSE" /\ UNCHANGED <<total, data, cut, taken>>
      BY <1>2, <2>0, FetchTurns
    <2>2. ~Astray
      <3>1. late' >= late
        BY <1>2, <2>0, TurnPace
      <3> QED BY <1>0, <3>1 DEF Astray
    <2>3. Trusted' = Trusted /\ body' = body
      BY <1>2, <2>1, TurnKeeps DEF Trusted, modemVars, httpVars
    <2>4. CASE UrcTaken /\ at' = "HTTPREAD"
      <3>1. data' = <<>> /\ DOMAIN data' = {}
        BY <2>4, UrcTakenFacts
      <3> QED BY <3>1
    <2>5. CASE ChunkTaken
      <3>1. /\ \A k \in DOMAIN data' : data'[k] = <<body, k>>
            /\ Trusted => body = Head(todo)
        BY <2>2, <2>5, ChunkKeepsContent
      <3>2. data' \in Seq(Bytes)
        BY <1>0 DEF Base, TypeOK
      <3>3. \A k \in DOMAIN data' : 1 \in DOMAIN data'
        BY <3>2
      <3>4. at' = "HTTPREAD" => \A k \in DOMAIN data' : data'[k] = <<body', k>>
        BY <2>3, <3>1
      <3>5. ASSUME NEW k \in DOMAIN data'
            PROVE  data'[k] = <<data'[1][1], k>> /\ (Trusted' => data'[k][1] = Head(todo'))
        <4>1. data'[1] = <<body, 1>> /\ data'[k] = <<body, k>>
          BY <3>1, <3>3
        <4>2. data'[1][1] = body /\ data'[k][1] = body
          BY <4>1
        <4>3. Trusted' => body = Head(todo')
          BY <2>1, <2>3, <3>1
        <4> QED BY <4>1, <4>2, <4>3
      <3> QED BY <3>4, <3>5
    <2>6. CASE ~ChunkTaken /\ ~(UrcTaken /\ at' = "HTTPREAD")
      <3>1. at' # "HTTPREAD" /\ UNCHANGED data
        BY <2>0, <2>1, <2>6
      <3>2. \A k \in DOMAIN data : data[k] = <<data[1][1], k>> /\ (Trusted => data[k][1] = Head(todo))
        BY <2>2 DEF Content
      <3> QED BY <2>1, <2>3, <3>1, <3>2
    <2> QED BY <2>4, <2>5, <2>6
  <1>3. CASE ~Reading'
    <2>1. data' = <<>>
      BY <1>0, <1>3 DEF Base, Places, Reading
    <2>2. DOMAIN data' = {}
      BY <2>1
    <2> QED BY <1>3, <2>2 DEF Reading
  <1> QED BY <1>1, <1>2, <1>3

-------------------------------------------------------------------------------
(***************************************************************************)
(* Listings: of the memory that was selected for the scan at hand.         *)
(***************************************************************************)
LEMMA ScanTurns ==
  ASSUME Base, Turns, at' # "wait"
  PROVE  /\ \/ scan' = scan
            \/ scan = "SM" /\ scan' = "ME" /\ at' = "CPMS"
         /\ sent' => at' = "URC"
         /\ at' # "ATE0"
         /\ scan' = scan /\ at' \in {"CMGF", "CPMS", "CMGL"} =>
              Proceed /\ at' = After[at] /\ at \in {"ATE0", "CMGF", "CPMS"} /\ late' = late
         /\ \/ todo' = todo /\ scan' = scan
            \/ todo' = <<>>
            \/ todo' = Tail(todo) /\ todo # <<>> /\ scan' = scan
            \/ Listed
  <1>1. CASE Proceed
    <2>1. /\ at' = After[at] /\ at \in DOMAIN After /\ sent' = FALSE
          /\ UNCHANGED <<todo, scan, late>>
      BY <1>1 DEF Proceed, Goto, Unread
    <2>2. /\ at' \in {"CMGF", "CPMS", "CMGL"} => at \in {"ATE0", "CMGF", "CPMS"}
          /\ at' # "ATE0"
      BY <2>1 DEF After
    <2> QED BY <1>1, <2>1, <2>2
  <1>2. CASE Listed
    BY <1>2 DEF Listed, Goto
  <1>3. CASE ScanEnds
    <2>1. scan = "SM" /\ at' = "CPMS" /\ sent' = FALSE /\ scan' = "ME" /\ todo' = <<>>
      BY <1>3 DEF ScanEnds, NextStorage, LeavePoll, Goto
    <2> QED BY <2>1
  <1>4. CASE Pick \/ ActionAnswered \/ ChunkTaken \/ Store
    <2>1. /\ at' \in {"RECPMS", "CMEE", "URC", "HTTPREAD", "CLOSE"} /\ (sent' => at' = "URC")
          /\ todo' = todo /\ scan' = scan
      BY <1>4 DEF Pick, ActionAnswered, ChunkTaken, Store, Goto
    <2> QED BY <2>1
  <1>5. CASE UrcTaken \/ SessionClosed \/ Erased
    <2>1. todo # <<>>
      BY <1>5 DEF UrcTaken, SessionClosed, Erased, Base, Places, Fetching
    <2>2. /\ at' \in {"HTTPREAD", "store", "pick"} /\ sent' = FALSE
          /\ todo' = todo \/ todo' = Tail(todo)
          /\ scan' = scan
      BY <1>5 DEF UrcTaken, SessionClosed, Erased, FetchEnds, NextMessage, Goto
    <2> QED BY <2>1, <2>2
  <1>6. CASE TimesOut
    <2>1. CASE at \in {"HTTPTERM", "HTTPREAD", "CLOSE"}
      <3>1. todo # <<>>
        BY <2>1 DEF Base, Places, Fetching
      <3>2. /\ at' \in {"HTTPINIT", "CLOSE", "store", "pick"} /\ sent' = FALSE
            /\ todo' = todo \/ todo' = Tail(todo)
            /\ scan' = scan
        BY <1>6, <2>1 DEF TimesOut, FetchEnds, NextMessage, Goto
      <3> HIDE <1>6
      <3> QED BY <3>1, <3>2
    <2>2. CASE at \in {"CPMS", "CMGL"}
      <3>1. NextStorage
        BY <1>6, <2>2 DEF TimesOut, Fetching
      <3>2. scan = "SM" /\ at' = "CPMS" /\ sent' = FALSE /\ scan' = "ME" /\ todo' = <<>>
        BY <3>1 DEF NextStorage, LeavePoll, Goto
      <3> QED BY <3>2
    <2>3. CASE at \in Fetching \ {"HTTPTERM", "HTTPREAD", "CLOSE"}
      <3>1. todo # <<>>
        BY <2>3 DEF Base, Places
      <3>2. at' = "pick" /\ sent' = FALSE /\ todo' = Tail(todo) /\ scan' = scan
        BY <1>6, <2>3 DEF TimesOut, Fetching, NextMessage, Goto
      <3> QED BY <3>1, <3>2
    <2>4. CASE at \notin Fetching \cup {"CPMS", "CMGL"}
      <3>1. LeavePoll
        BY <1>6, <2>4 DEF TimesOut, Fetching
      <3> QED BY <3>1 DEF LeavePoll, Goto
    <2> QED BY <2>1, <2>2, <2>3, <2>4
  <1>7. CASE PortLost
    BY <1>7 DEF PortLost, LeavePoll, Goto
  <1> QED BY <1>1, <1>2, <1>3, <1>4, <1>5, <1>6, <1>7 DEF Turns

Scans == Selected /\ FirstScan /\ ListingsKnown /\ OwnListing

LEMMA WriteKeepsScans ==
  ASSUME Base, Lag, Scans, Writes
  PROVE  Scans'
  <1>0. TypeOK /\ late \in Nat
    BY DEF Base, TypeOK
  <1>1. /\ at \notin {"wait", "pick", "store", "URC"} /\ ~sent /\ sent' = TRUE
        /\ UNCHANGED <<at, scan, todo, late>>
    BY WriteStep DEF pollVars
  <1>2. FirstScan' /\ OwnListing'
    BY <1>1 DEF Scans, FirstScan, OwnListing
  <1>3. Selected'
    <2>1. CASE WriteSelect
      BY <1>1, <2>1 DEF WriteSelect, Selected
    <2>2. CASE ~WriteSelect
      <3>1. at # "CPMS" /\ cpms' = cpms
        BY <2>2 DEF Writes, WritePlain, WriteRefused, WriteList, WriteErase, WriteTerm, WriteInit,
              WriteUrl, WriteAction, WriteRead, WriteReadRefused, Plain, Refusable, modemVars
      <3> QED BY <1>1, <3>1 DEF Scans, Selected
    <2> QED BY <2>1, <2>2
  <1>4. PICK answer \in Seq(Answers), n, a \in Nat :
          AnswerIs(answer) /\ Moved(Line, n, a, answer, Line')
    BY WriteStep, Zenon
  <1>5. /\ Len(Line) = a + n /\ Len(Line') = a + Len(answer)
        /\ \A i \in 1..a : Line'[i] = Line[i + n]
        /\ \A i \in 1..Len(answer) : Line'[a + i] = answer[i]
        /\ \A i \in 0..a : Behind(i)' = Behind(i + n) + 1
        /\ \A i \in 0..Len(answer) : Behind(a + i)' = FinalsAfter(answer, i)
    BY <1>0, <1>4, WrittenLine
  <1>6. Behind(0)' = Behind(n) + 1 /\ Behind(n) \in Nat /\ Behind(0) \in Nat /\ Behind(n) <= Behind(0)
    <2>1. 0 \in 0..a /\ 0 + n = n
      BY <1>5
    <2> QED BY <1>0, <1>5, <2>1, BehindFacts
  <1>7. ASSUME NEW i \in 1..Len(Line'), Line'[i].kind = "listing"
        PROVE  ListingKnown(i)'
    <2>0. Len(answer) \in Nat
      OBVIOUS
    <2>1. CASE i <= a
      <3>1. i \in 1..a /\ i \in 0..a /\ i + n \in 1..Len(Line) /\ i + n \in Nat
        BY <1>5, <2>1
      <3>2. Line'[i] = Line[i + n] /\ Line[i + n].kind = "listing" /\ Behind(i)' = Behind(i + n) + 1
            /\ Behind(i + n) \in Nat
        BY <1>0, <1>5, <1>7, <3>1, BehindFacts
      <3>3. ListingKnown(i + n)
        BY <3>1, <3>2 DEF Scans, ListingsKnown
      <3>4. CASE at = "CPMS" /\ scan = "ME" /\ Behind(0) <= Behind(i + n)
        <4>1. Behind(0)' <= Behind(i)'
          BY <1>6, <3>2, <3>4
        <4> QED BY <1>1, <3>4, <4>1 DEF ListingKnown
      <3>5. CASE at # "CPMS" /\ (at = "CMGL" => sent) /\ scan = "ME" /\ Place[Line[i + n].of][1] = "ME"
        BY <1>1, <3>2, <3>5 DEF ListingKnown
      <3> QED BY <1>1, <3>3, <3>4, <3>5 DEF ListingKnown
    <2>2. CASE ~(i <= a)
      <3>1. i - a \in 1..Len(answer) /\ i - a \in 0..Len(answer) /\ a + (i - a) = i
        BY <1>5, <2>0, <2>2
      <3>2. Line'[i] = answer[i - a] /\ Behind(i)' = FinalsAfter(answer, i - a)
        BY <1>5, <3>1
      <3>3. at = "CMGL" /\ Place[Line'[i].of][1] = cpms /\ Behind(i)' = 1
        BY <1>4, <1>7, <3>1, <3>2, AnswerKinds
      <3>4. cpms = scan
        BY <3>3 DEF Scans, Selected
      <3>5. CASE scan = "SM"
        <4>1. late = 0 /\ Waiting = 0
          BY <1>1, <3>3, <3>5 DEF Scans, FirstScan, Waiting
        <4>2. Behind(0) <= 0
          BY <1>1, <4>1 DEF Lag, Astray
        <4>3. Behind(0)' <= Behind(i)'
          BY <1>6, <3>3, <4>2
        <4> QED BY <1>1, <3>3, <3>4, <3>5, <4>3 DEF ListingKnown
      <3>6. CASE scan = "ME"
        BY <1>1, <3>3, <3>4, <3>6 DEF ListingKnown
      <3> QED BY <1>0, <3>5, <3>6 DEF TypeOK, Storages
    <2> QED BY <2>1, <2>2
  <1>8. ListingsKnown'
    BY <1>7 DEF ListingsKnown
  <1> QED BY <1>2, <1>3, <1>8 DEF Scans

LEMMA TurnKeepsScans ==
  ASSUME Base, Scans, Turns
  PROVE  Scans'
  <1>0. TypeOK /\ Len(text) \in Nat /\ Len(out) \in Nat /\ Base'
    BY BaseStep DEF Base, TypeOK, Next, Client, Turns
  <1>1. CASE at' = "wait"
    <2>1. todo' = <<>> /\ ~sent'
      BY <1>0, <1>1 DEF Base, Places
    <2> QED BY <1>1, <2>1 DEF Scans, Selected, FirstScan, ListingsKnown, ListingKnown, OwnListing
  <1>2. CASE at' # "wait"
    <2>1. /\ \/ scan' = scan
             \/ scan = "SM" /\ scan' = "ME" /\ at' = "CPMS"
          /\ sent' => at' = "URC"
          /\ at' # "ATE0"
          /\ scan' = scan /\ at' \in {"CMGF", "CPMS", "CMGL"} =>
               Proceed /\ at' = After[at] /\ at \in {"ATE0", "CMGF", "CPMS"} /\ late' = late
      BY <1>2, ScanTurns
    <2>2. cpms' = cpms
      BY TurnKeeps DEF modemVars
    <2>3. at' = "CMGL" => at = "CPMS" /\ sent /\ scan' = scan /\ Proceed
      BY <2>1 DEF After, Proceed, Answered
    <2>4. at' = "CPMS" /\ scan' = scan => at = "CMGF" /\ scan = "SM"
      BY <2>1 DEF After, Base, Places
    <2>5. Selected'
      BY <2>1, <2>2, <2>3 DEF Scans, Selected
    <2>6. FirstScan'
      BY <2>1 DEF Scans, FirstScan
    <2>7. PICK n, a \in Nat : n = Len(text) /\ Moved(Line, n, a, <<>>, Line')
      BY <1>0, TurnMoves
    <2>8. /\ Len(Line) = a + n /\ Len(Line') = a
          /\ \A i \in 1..a : Line'[i] = Line[i + n]
          /\ \A i \in 0..a : Behind(i)' = Behind(i + n)
      BY <1>0, <2>7, QuietLine
    <2>9. ASSUME NEW i \in 1..Len(Line'), Line'[i].kind = "listing"
          PROVE  ListingKnown(i)'
      <3>1. i \in 1..a /\ i \in 0..a /\ i + n \in 1..Len(Line) /\ i + n \in Nat /\ n <= i + n
            /\ 0 \in 0..a /\ 0 + n = n
        BY <2>8
      <3>2. Line'[i] = Line[i + n] /\ Line[i + n].kind = "listing"
        BY <2>8, <2>9, <3>1
      <3>3. Behind(i)' = Behind(i + n) /\ Behind(0)' = Behind(n)
        BY <2>8, <3>1
      <3>4. /\ Behind(i + n) \in Nat /\ Behind(n) \in Nat /\ Behind(0) \in Nat
            /\ Behind(i + n) <= Behind(n) /\ Behind(n) <= Behind(0)
        <4>1. i + n \in 0..Len(Line) /\ n \in 0..Len(Line) /\ 0 \in 0..Len(Line) /\ 0 <= n
          BY <2>8, <3>1
        <4> QED BY <1>0, <3>1, <4>1, BehindFacts
      <3>5. ListingKnown(i + n)
        BY <3>1, <3>2 DEF Scans, ListingsKnown
      <3>6. ASSUME Behind(0) <= Behind(i + n), Answered, at \notin {"URC", "HTTPREAD"} PROVE FALSE
        <4>1. 0 < n /\ n <= Len(Line) /\ Line[n].kind = "final"
          BY <1>0, <2>7, <3>6, CompleteRead
        <4>2. Behind(n) + 1 <= Behind(0)
          BY <1>0, <4>1, BehindFacts
        <4> QED BY <3>4, <3>6, <4>2
      <3>7. CASE at = "CMGL" /\ scan = "SM" /\ Behind(0) <= Behind(i + n)
        <4>1. Listed \/ TimesOut
          BY <1>2, <3>7 DEF Turns, Proceed, Listed, Pick, ScanEnds, ActionAnswered, UrcTaken, After,
                ChunkTaken, SessionClosed, Store, Erased, PortLost, LeavePoll, Goto
        <4>2. CASE Listed
          BY <3>6, <3>7, <4>2 DEF Listed
        <4>3. CASE TimesOut
          <5>1. NextStorage
            BY <3>7, <4>3 DEF TimesOut, Fetching
          <5>2. at' = "CPMS" /\ scan' = "ME"
            BY <3>7, <5>1 DEF NextStorage, Goto
          <5>3. Behind(0)' <= Behind(i)'
            BY <3>3, <3>4, <3>7
          <5> QED BY <5>2, <5>3 DEF ListingKnown
        <4> QED BY <4>1, <4>2, <4>3
      <3>8. CASE at = "CPMS" /\ scan = "ME" /\ Behind(0) <= Behind(i + n)
        <4>1. Proceed \/ TimesOut
          BY <1>2, <3>8 DEF Turns, Proceed, Listed, Pick, ScanEnds, ActionAnswered, UrcTaken, After,
                ChunkTaken, SessionClosed, Store, Erased, PortLost, LeavePoll, Goto
        <4>2. CASE Proceed
          BY <3>6, <3>8, <4>2 DEF Proceed
        <4>3. CASE TimesOut
          <5>1. NextStorage
            BY <3>8, <4>3 DEF TimesOut, Fetching
          <5> QED BY <1>2, <3>8, <5>1 DEF NextStorage, LeavePoll, Goto
        <4> QED BY <4>1, <4>2, <4>3
      <3>9. CASE at # "CPMS" /\ scan = "ME" /\ Place[Line[i + n].of][1] = "ME"
        <4>1. scan' = "ME" /\ at' # "CMGL" /\ at' # "CPMS"
          BY <2>1, <2>3, <2>4, <3>9
        <4> QED BY <3>2, <3>9, <4>1 DEF ListingKnown
      <3>10. at # "wait"
        BY DEF Turns, Proceed, Listed, Pick, ScanEnds, ActionAnswered, UrcTaken, ChunkTaken, After,
               SessionClosed, Store, Erased, TimesOut, PortLost, Base, Places
      <3> QED BY <3>5, <3>7, <3>8, <3>9, <3>10 DEF ListingKnown
    <2>10. ListingsKnown'
      BY <2>9 DEF ListingsKnown
    <2>11. OwnListing'
      <3>1. CASE todo' = todo /\ scan' = scan
        BY <3>1 DEF Scans, OwnListing
      <3>2. CASE todo' = <<>>
        BY <3>2 DEF OwnListing
      <3>3. CASE todo' = Tail(todo) /\ todo # <<>> /\ scan' = scan
        <4>1. /\ todo \in Seq(Mms) /\ Len(Tail(todo)) = Len(todo) - 1 /\ Tail(todo) \in Seq(Mms)
              /\ \A i \in 1..Len(Tail(todo)) : Tail(todo)[i] = todo[i + 1]
          BY <1>0, <3>3, HeadTailProperties DEF TypeOK
        <4>2. ASSUME NEW i \in 1..Len(Tail(todo)) PROVE Place[Tail(todo)[i]][1] = scan
          <5>1. i + 1 \in DOMAIN todo /\ Tail(todo)[i] = todo[i + 1]
            BY <4>1
          <5> QED BY <5>1 DEF Scans, OwnListing
        <4>3. DOMAIN Tail(todo) = 1..Len(Tail(todo))
          BY <4>1
        <4> QED BY <3>3, <4>2, <4>3 DEF OwnListing
      <3>4. CASE Listed
        <4>1. at = "CMGL" /\ sent /\ scan' = scan
          BY <3>4 DEF Listed, Answered
        <4>2. \A i \in DOMAIN todo' : \E j \in 1..Len(text) :
                text[j].kind = "listing" /\ todo'[i] = text[j].of
          BY <1>0, <3>4, ListedFacts
        <4>3. ASSUME NEW j \in 1..Len(text), text[j].kind = "listing"
              PROVE  Place[text[j].of][1] = scan
          <5>1. Line[j] = text[j] /\ j \in 1..Len(Line)
            BY <1>0, LineType
          <5>2. ListingKnown(j)
            BY <4>3, <5>1 DEF Scans, ListingsKnown
          <5> QED BY <4>1, <5>1, <5>2 DEF ListingKnown
        <4> QED BY <4>1, <4>2, <4>3 DEF OwnListing
      <3> QED BY <1>2, <3>1, <3>2, <3>3, <3>4, ScanTurns
    <2> QED BY <2>5, <2>6, <2>10, <2>11 DEF Scans
  <1> QED BY <1>1, <1>2

LEMMA ScansStep ==
  ASSUME Base, Lag, Scans, [Next]_vars
  PROVE  Scans'
  <1>1. CASE Receive \/ UNCHANGED vars
    <2>1. Line' = Line /\ UNCHANGED <<at, sent, scan, todo, cpms, late>>
      BY <1>1, ReceiveKeepsLine DEF Base, Receive, pollVars, modemVars, vars, Line
    <2> QED BY <2>1 DEF Scans, Selected, FirstScan, ListingsKnown, ListingKnown, Behind, OwnListing
  <1>2. CASE Open \/ Drain
    <2>1. text' = <<>> /\ out' = <<>> /\ UNCHANGED <<scan, todo>> /\ sent' = FALSE
          /\ at' \in {"wait", "ATE0"} /\ (at' = "ATE0" => late' = 0)
      BY <1>2 DEF Open, Drain, Goto, Base, Places, pollVars
    <2>2. Line' = <<>>
      BY <2>1, ConcatEmptySeq DEF Line
    <2>3. ListingsKnown'
      BY <2>2 DEF ListingsKnown
    <2>4. Selected' /\ FirstScan' /\ OwnListing'
      BY <2>1 DEF Scans, Selected, FirstScan, OwnListing
    <2> QED BY <2>3, <2>4 DEF Scans
  <1>3. CASE DownloadEnds
    <2>1. /\ Len(Line') = Len(Line) + 2 /\ Len(Line) \in Nat
          /\ \A i \in 1..Len(Line) : Line'[i] = Line[i]
          /\ \A i \in 0..Len(Line) : Behind(i)' = Behind(i)
          /\ Line'[Len(Line) + 1].kind = "head"
          /\ Line'[Len(Line) + 2].kind = "tail"
      BY <1>3, DownloadLine
    <2>2. UNCHANGED <<at, sent, scan, todo, cpms, late>>
      BY <1>3 DEF DownloadEnds, pollVars
    <2>3. ASSUME NEW i \in 1..Len(Line'), Line'[i].kind = "listing"
          PROVE  ListingKnown(i)'
      <3>1. i \in 1..Len(Line) \/ i = Len(Line) + 1 \/ i = Len(Line) + 2
        BY <2>1
      <3>2. i \in 1..Len(Line)
        BY <2>1, <2>3, <3>1
      <3>3. i \in 0..Len(Line) /\ 0 \in 0..Len(Line)
        BY <2>1, <3>2
      <3>4. Line'[i] = Line[i] /\ Behind(i)' = Behind(i) /\ Behind(0)' = Behind(0)
        BY <2>1, <3>2, <3>3
      <3>5. ListingKnown(i)
        BY <2>3, <3>2, <3>4 DEF Scans, ListingsKnown
      <3> QED BY <2>2, <3>4, <3>5 DEF ListingKnown
    <2>4. ListingsKnown'
      BY <2>3 DEF ListingsKnown
    <2>5. Selected' /\ FirstScan' /\ OwnListing'
      BY <2>2 DEF Scans, Selected, FirstScan, OwnListing
    <2> QED BY <2>4, <2>5 DEF Scans
  <1> QED BY <1>1, <1>2, <1>3, StepKinds, WriteKeepsScans, TurnKeepsScans

-------------------------------------------------------------------------------
(***************************************************************************)
(* All of it together, and what follows for every session of the poller.   *)
(***************************************************************************)
SerialInv == Base /\ Pace /\ Scans /\ Session /\ UrcsKnown /\ Told /\ Amount /\ Content

LEMMA SerialInit ==
  ASSUME Init
  PROVE  SerialInv
  <1>1. at = "wait" /\ scan = "SM" /\ todo = <<>> /\ data = <<>>
    BY DEF Init
  <1>2. Scans
    BY <1>1, InitLine DEF Scans, Selected, FirstScan, ListingsKnown, OwnListing
  <1>3. Session /\ Told /\ Amount
    BY <1>1 DEF Session, Restarted, Given, Started, Told, Reading, Amount
  <1>4. UrcsKnown
    BY InitLine DEF UrcsKnown
  <1>5. Content
    BY <1>1 DEF Content
  <1> QED BY <1>2, <1>3, <1>4, <1>5, InitBase, InitPace DEF SerialInv

LEMMA SerialStep ==
  ASSUME SerialInv, [Next]_vars
  PROVE  SerialInv'
  <1>1. Base /\ Pace /\ Lag /\ Scans /\ Session /\ UrcsKnown /\ Told /\ Amount /\ Content
    BY DEF SerialInv, Pace
  <1>2. Base' /\ Pace' /\ Scans'
    BY <1>1, BaseStep, PaceStep, ScansStep
  <1>3. Session' /\ UrcsKnown' /\ Told'
    BY <1>1, SessionStep, UrcsStep, ToldStep
  <1>4. Amount' /\ Content'
    BY <1>1, AmountStep, ContentStep
  <1> QED BY <1>2, <1>3, <1>4 DEF SerialInv

LEMMA SerialInvariant == Spec => []SerialInv
  <1>1. Init => SerialInv
    BY SerialInit
  <1>2. SerialInv /\ [Next]_vars => SerialInv'
    BY SerialStep
  <1> QED BY <1>1, <1>2, PTL DEF Spec

(* As long as fewer than nine deadlines were missed in a poll, the bytes   *)
(* http_read_all has put together are the beginning of one content: it     *)
(* neither repeats nor skips nor mixes any, however short the chunks and   *)
(* however late the answers.                                               *)
THEOREM ChunksMakeThePayload == Spec => []PayloadInOrder
  <1>1. SerialInv => PayloadInOrder
    BY DEF SerialInv, Content, PayloadInOrder
  <1> QED BY <1>1, SerialInvariant, PTL

(* poll_once takes no listing of one memory for a listing of the other,    *)
(* stores for a notification only what was downloaded from its own URL,    *)
(* and believes the +HTTPACTION of its own download, but for the refusals  *)
(* and the missed deadlines that OwnAnswers names.                         *)
THEOREM AnswersAreItsOwn == Spec => []OwnAnswers
  <1>1. ASSUME SerialInv PROVE OwnAnswers
    <2>1. \A i \in DOMAIN todo : Place[todo[i]][1] = scan
      BY <1>1 DEF SerialInv, Scans, OwnListing
    <2>2. ASSUME at = "store", ~Astray, Trusted
          PROVE  \A k \in DOMAIN data : data[k][1] = Head(todo)
      BY <1>1, <2>2 DEF SerialInv, Content
    <2>3. at = "store" => taken = Head(todo) \/ "HTTPTERM" \in denied \/ late >= 3
      BY <1>1 DEF SerialInv, Told, Reading
    <2> QED BY <2>1, <2>2, <2>3 DEF OwnAnswers, Trusted
  <1> QED BY <1>1, SerialInvariant, PTL

(* http_read_all returns all of the content it was told the length of: a   *)
(* chunk that is short, late or given up leaves no hole at the end, unless *)
(* the length itself was read before its last digit had arrived.           *)
THEOREM ContentIsWhole == Spec => []WholeContent
  <1>1. ASSUME SerialInv, at = "store", taken = Head(todo), ~Astray, ~cut
        PROVE  Len(data) = Length[Head(todo)]
    <2>1. Len(data) \in Nat /\ total \in Nat
      BY <1>1 DEF SerialInv, Base, TypeOK
    <2>2. total <= Len(data) /\ Len(data) <= total /\ total = Length[taken]
      BY <1>1 DEF SerialInv, Amount, Reading
    <2> QED BY <1>1, <2>1, <2>2
  <1> QED BY <1>1, SerialInvariant, PTL DEF WholeContent
-------------------------------------------------------------------------------
(***************************************************************************)
(* The mailbox.  What has left the modem was stored; a notification is     *)
(* fetched only while it is not stored and erased only when it is; and     *)
(* AT+CMGD meets the memory its listing came from.                         *)
(***************************************************************************)
LeftStored == Mms \ kept \subseteq captured
Decided == /\ at \in Fetching \cup {"store"} => Head(todo) \notin captured
           /\ at \in {"RECPMS", "CMGD"} => Head(todo) \in captured
Reselected == at = "CMGD" \/ (at = "RECPMS" /\ sent) => cpms = scan
Kept == LeftStored /\ Decided /\ Reselected

LEMMA HeadOf ==
  ASSUME TypeOK, todo # <<>>
  PROVE  Head(todo) = todo[1] /\ Head(todo) \in Mms /\ 1 \in DOMAIN todo
  BY HeadTailProperties DEF TypeOK

(* AT+CMGD takes the message at hand and no other. *)
LEMMA ErasesHead ==
  ASSUME Base, OwnListing, Kept, WriteErase
  PROVE  /\ at = "CMGD" /\ Head(todo) \in captured /\ Head(todo) \in Mms
         /\ kept' = kept \ {Head(todo)}
  <1>1. at = "CMGD" /\ kept' = kept \ {m \in kept : Place[m] = <<cpms, Place[Head(todo)][2]>>}
    BY DEF WriteErase
  <1>2. Head(todo) \in captured /\ cpms = scan
    BY <1>1 DEF Kept, Decided, Reselected
  <1>3. Head(todo) = todo[1] /\ Head(todo) \in Mms /\ 1 \in DOMAIN todo
    BY <1>1, HeadOf DEF Base, Places
  <1>4. Place[Head(todo)][1] = cpms /\ Place[Head(todo)] \in Storages \X Nat
    BY <1>2, <1>3, AtSerialAssumption DEF OwnListing
  <1>5. Place[Head(todo)] = <<cpms, Place[Head(todo)][2]>>
    BY <1>4
  <1>6. kept \subseteq Mms
    BY DEF Base, TypeOK
  <1>7. \A m \in kept : Place[m] = <<cpms, Place[Head(todo)][2]>> <=> m = Head(todo)
    BY <1>3, <1>5, <1>6, AtSerialAssumption
  <1> QED BY <1>1, <1>2, <1>3, <1>7

LEMMA WriteKeepsMailbox ==
  ASSUME Base, OwnListing, Kept, Writes
  PROVE  Kept'
  <1>1. ~sent /\ sent' = TRUE /\ UNCHANGED <<at, scan, todo, captured>>
    BY WriteStep DEF pollVars
  <1>2. Decided'
    BY <1>1 DEF Kept, Decided
  <1>3. CASE WriteErase
    <2>1. LeftStored'
      BY <1>1, <1>3, ErasesHead DEF Kept, LeftStored
    <2>2. cpms' = cpms /\ at = "CMGD"
      BY <1>3 DEF WriteErase
    <2> QED BY <1>1, <1>2, <2>1, <2>2 DEF Kept, Reselected
  <1>4. CASE WriteSelect
    BY <1>1, <1>2, <1>4 DEF WriteSelect, Kept, LeftStored, Reselected
  <1>5. CASE ~WriteErase /\ ~WriteSelect
    <2>1. kept' = kept /\ cpms' = cpms /\ at # "RECPMS"
      BY <1>5 DEF Writes, WritePlain, WriteRefused, WriteList, WriteTerm, WriteInit,
            WriteUrl, WriteAction, WriteRead, WriteReadRefused, Plain, Refusable, modemVars
    <2> QED BY <1>1, <1>2, <2>1 DEF Kept, LeftStored, Reselected
  <1> QED BY <1>3, <1>4, <1>5

(* How the client comes to fetch, and how to erase. *)
LEMMA MailboxTurns ==
  ASSUME Base, Turns
  PROVE  /\ \/ captured' = captured
            \/ Store
         /\ at' \in Fetching \cup {"store"} =>
              /\ todo' = todo /\ captured' = captured
              /\ at \in Fetching \/ Head(todo) \notin captured
         /\ at' = "RECPMS" => todo' = todo /\ ~sent' /\ Head(todo) \in captured'
         /\ at' = "CMGD" => /\ at = "RECPMS" /\ sent /\ todo' = todo /\ scan' = scan
                            /\ captured' = captured
  <1>1. CASE Proceed
    <2>1. /\ at \in DOMAIN After /\ at' = After[at] /\ sent
          /\ UNCHANGED <<todo, scan, captured>>
      BY <1>1 DEF Proceed, Goto, Answered
    <2>2. /\ at' # "RECPMS" /\ (at' = "CMGD" => at = "RECPMS")
          /\ (at' \in Fetching \cup {"store"} => at \in Fetching)
      BY <2>1 DEF After, Fetching
    <2> QED BY <2>1, <2>2 DEF Fetching
  <1>2. CASE Listed \/ ScanEnds \/ Erased \/ PortLost
    <2>1. at' \in {"pick", "CPMS", "wait"} /\ captured' = captured
      BY <1>2 DEF Listed, ScanEnds, Erased, PortLost, NextMessage, NextStorage, LeavePoll, Goto
    <2> QED BY <2>1 DEF Fetching
  <1>3. CASE Pick
    BY <1>3 DEF Pick, Goto, Fetching
  <1>4. CASE ActionAnswered \/ ChunkTaken \/ UrcTaken
    <2>1. /\ at \in Fetching /\ captured' = captured
          /\ \/ at' \in {"URC", "HTTPREAD", "CLOSE"} /\ todo' = todo
             \/ at' = "pick"
      BY <1>4 DEF ActionAnswered, ChunkTaken, UrcTaken, NextMessage, Goto, Fetching
    <2> QED BY <2>1 DEF Fetching
  <1>5. CASE SessionClosed
    <2>1. /\ at = "CLOSE" /\ captured' = captured
          /\ \/ at' = "store" /\ todo' = todo
             \/ at' = "pick"
      BY <1>5 DEF SessionClosed, FetchEnds, NextMessage, Goto
    <2> QED BY <2>1 DEF Fetching
  <1>6. CASE Store
    BY <1>6 DEF Store, Goto, Fetching
  <1>7. CASE TimesOut
    <2>1. captured' = captured
      BY <1>7 DEF TimesOut
    <2>2. \/ at \in Fetching /\ at' \in {"HTTPINIT", "CLOSE", "store"} /\ todo' = todo
          \/ at' \in {"pick", "CPMS", "wait"}
      BY <1>7 DEF TimesOut, FetchEnds, NextMessage, NextStorage, LeavePoll, Goto, Fetching
    <2> QED BY <2>1, <2>2 DEF Fetching
  <1> QED BY <1>1, <1>2, <1>3, <1>4, <1>5, <1>6, <1>7 DEF Turns

LEMMA KeptStep ==
  ASSUME Base, OwnListing, Kept, [Next]_vars
  PROVE  Kept'
  <1>1. CASE Turns
    <2>1. cpms' = cpms /\ kept' = kept
      BY <1>1, TurnKeeps DEF modemVars
    <2>2. /\ captured \subseteq captured'
          /\ at' \in Fetching \cup {"store"} =>
               /\ todo' = todo /\ captured' = captured
               /\ at \in Fetching \/ Head(todo) \notin captured
          /\ at' = "RECPMS" => todo' = todo /\ ~sent' /\ Head(todo) \in captured'
          /\ at' = "CMGD" => /\ at = "RECPMS" /\ sent /\ todo' = todo /\ scan' = scan
                             /\ captured' = captured
      <3>1. Store => captured \subseteq captured'
        BY DEF Store
      <3> QED BY <1>1, <3>1, MailboxTurns
    <2>3. LeftStored'
      BY <2>1, <2>2 DEF Kept, LeftStored
    <2>4. Decided'
      BY <2>2 DEF Kept, Decided
    <2>5. Reselected'
      BY <2>1, <2>2 DEF Kept, Reselected
    <2> QED BY <2>3, <2>4, <2>5 DEF Kept
  <1>2. CASE Receive \/ Drain \/ DownloadEnds \/ UNCHANGED vars
    BY <1>2 DEF Receive, Drain, DownloadEnds, vars, pollVars, modemVars,
                Kept, LeftStored, Decided, Reselected
  <1>3. CASE Open
    BY <1>3 DEF Open, Goto, modemVars, Kept, LeftStored, Decided, Reselected, Fetching
  <1> QED BY <1>1, <1>2, <1>3, StepKinds, WriteKeepsMailbox

(* The slots the mailbox sees. *)
Lies(x) == IF \E m \in kept : Place[m] = x THEN CHOOSE m \in kept : Place[m] = x ELSE None
Slots == {Place[m] : m \in Mms}

LEMMA LiesThere ==
  ASSUME TypeOK, NEW m \in Mms
  PROVE  Lies(Place[m]) = IF m \in kept THEN m ELSE None
  <1>1. kept \subseteq Mms /\ \A n \in kept : Place[n] = Place[m] => n = m
    BY AtSerialAssumption DEF TypeOK
  <1> QED BY <1>1 DEF Lies

LEMMA LiesThereNext ==
  ASSUME TypeOK', NEW m \in Mms
  PROVE  Lies(Place[m])' = IF m \in kept' THEN m ELSE None
  <1>1. kept' \subseteq Mms /\ \A n \in kept' : Place[n] = Place[m] => n = m
    BY AtSerialAssumption DEF TypeOK
  <1> QED BY <1>1 DEF Lies

LEMMA MailboxStep ==
  ASSUME Base, Base', OwnListing, Kept, [Next]_vars
  PROVE  [Mailbox!Next]_(Mailbox!mailboxVars)
  <1> DEFINE box == [x \in Slots |-> Lies(x)]
  <1>0. TypeOK /\ TypeOK'
    BY DEF Base
  <1>1. CASE UNCHANGED <<kept, captured>>
    BY <1>1 DEF Mailbox!mailboxVars
  <1>2. CASE Store
    <2>1. at = "store" /\ captured' = captured \cup {Head(todo)} /\ kept' = kept
      BY <1>2 DEF Store, Unread, modemVars
    <2>2. Head(todo) \in Mms /\ Head(todo) \notin captured
      BY <1>0, <2>1, HeadOf DEF Base, Places, Kept, Decided
    <2>3. Head(todo) \in kept
      BY <2>2 DEF Kept, LeftStored
    <2>4. Place[Head(todo)] \in Slots /\ box[Place[Head(todo)]] = Head(todo)
      BY <1>0, <2>2, <2>3, LiesThere DEF Slots
    <2>5. box' = box
      BY <2>1 DEF Lies
    <2>6. Mailbox!Capture(Head(todo))
      BY <2>1, <2>2, <2>4, <2>5 DEF Mailbox!Capture, Slots, Lies
    <2> QED BY <2>2, <2>6 DEF Mailbox!Next
  <1>3. CASE WriteErase
    <2>1. Head(todo) \in captured /\ Head(todo) \in Mms /\ kept' = kept \ {Head(todo)}
      BY <1>3, ErasesHead
    <2>2. captured' = captured
      BY <1>3, WriteStep DEF Writes, pollVars
    <2>0. PICK x \in Slots : x = Place[Head(todo)]
      BY <2>1 DEF Slots
    <2>3. box[x] \in {Head(todo), None}
      BY <1>0, <2>0, <2>1, LiesThere DEF Slots
    <2>4. box[x] \in Mms => box[x] \in captured
      BY <2>1, <2>3, AtSerialAssumption
    <2>5. box' = [box EXCEPT ![x] = None]
      <3>1. ASSUME NEW m \in Mms
            PROVE  Lies(Place[m])' = IF Place[m] = x THEN None ELSE Lies(Place[m])
        <4>1. Place[m] = x <=> m = Head(todo)
          BY <2>0, <2>1, AtSerialAssumption
        <4> QED BY <1>0, <2>1, <4>1, LiesThere, LiesThereNext
      <3>2. \A y \in Slots : Lies(y)' = IF y = x THEN None ELSE Lies(y)
        BY <3>1 DEF Slots
      <3>3. box' = [y \in Slots |-> Lies(y)']
        BY DEF Slots
      <3> QED BY <2>3, <3>2, <3>3
    <2>6. Mailbox!Discard(x)
      BY <2>2, <2>4, <2>5 DEF Mailbox!Discard, Slots, Lies
    <2> QED BY <2>6 DEF Mailbox!Next, Slots
  <1>4. CASE Writes /\ ~WriteErase
    <2>1. captured' = captured
      BY <1>4, WriteStep DEF pollVars
    <2>2. kept' = kept
      BY <1>4 DEF Writes, WritePlain, WriteRefused, WriteSelect, WriteList, WriteTerm, WriteInit,
            WriteUrl, WriteAction, WriteRead, WriteReadRefused, modemVars
    <2> QED BY <1>1, <2>1, <2>2
  <1>5. CASE Turns /\ ~Store
    <2>1. captured' = captured /\ kept' = kept
      BY <1>5, MailboxTurns, TurnKeeps DEF modemVars
    <2> QED BY <1>1, <2>1
  <1>6. CASE Receive \/ Open \/ Drain \/ DownloadEnds \/ UNCHANGED vars
    <2>1. captured' = captured /\ kept' = kept
      BY <1>6 DEF Receive, Open, Drain, DownloadEnds, vars, pollVars, modemVars
    <2> QED BY <1>1, <2>1
  <1> QED BY <1>2, <1>3, <1>4, <1>5, <1>6, StepKinds

(* The promise of inbound capture holds on the line itself: every step of  *)
(* client, line and modem is one of the mailbox or none.  poll_once        *)
(* deletes exactly the message it has stored and stores each content once, *)
(* for any number of notifications in both memories and answers that come  *)
(* as late as they like.                                                   *)
THEOREM LineImplementsMailbox == Spec => RefinesMailbox
  <1>1. Init => Mailbox!Init
    <2> SUFFICES ASSUME Init PROVE Mailbox!Init
      OBVIOUS
    <2>1. TypeOK /\ captured = {}
      BY InitTypeOK DEF Init
    <2>2. \A x \in Slots : Lies(x) \in Mms \cup {None}
      BY <2>1, LiesThere DEF Slots
    <2> QED BY <2>1, <2>2 DEF Mailbox!Init, Slots, Lies
  <1>2. Init => Kept
    BY DEF Init, Kept, LeftStored, Decided, Reselected, Fetching
  <1>3. SerialInv /\ Kept /\ [Next]_vars => Kept'
    BY KeptStep DEF SerialInv, Scans
  <1>4. SerialInv /\ SerialInv' /\ Kept /\ [Next]_vars => [Mailbox!Next]_(Mailbox!mailboxVars)
    BY MailboxStep DEF SerialInv, Scans
  <1> QED
    BY <1>1, <1>2, <1>3, <1>4, SerialInvariant, PTL DEF Spec, RefinesMailbox, Mailbox!Spec
===============================================================================
