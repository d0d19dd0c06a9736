--------------------------- MODULE PaginationProofs ----------------------------
(***************************************************************************)
(* What holds of Pagination for any number of rows, writers, page sizes    *)
(* and writes: what a walk by OFFSET can miss and what it can repeat.      *)
(***************************************************************************)
EXTENDS Pagination, FiniteSetTheorems, TLAPS

-------------------------------------------------------------------------------
(***************************************************************************)
(* Ranks.  A table is a finite set with the rows that are ahead of each;   *)
(* the number of these is the row's position in the listing.               *)
(***************************************************************************)
Ranking(S, A) ==
  /\ IsFiniteSet(S) /\ A \in [S -> SUBSET S]
  /\ \A r \in S : r \notin A[r]
  /\ \A q, r \in S : q = r \/ q \in A[r] \/ r \in A[q]
  /\ \A q, r \in S : q \in A[r] => A[q] \subseteq A[r]

Rank(A, r) == Cardinality(A[r])

LEMMA RankType ==
  ASSUME NEW S, NEW A, Ranking(S, A), NEW r \in S
  PROVE  A[r] \subseteq S /\ IsFiniteSet(A[r]) /\ Rank(A, r) \in Nat
  <1>1. A[r] \subseteq S /\ IsFiniteSet(S)
    BY DEF Ranking
  <1>2. IsFiniteSet(A[r])
    BY <1>1, FS_Subset
  <1> QED BY <1>1, <1>2, FS_CardinalityType DEF Rank

(* Who is ahead has the smaller rank, and no two rows have the same. *)
LEMMA RankOrder ==
  ASSUME NEW S, NEW A, Ranking(S, A), NEW q \in S, NEW r \in S
  PROVE  /\ q \in A[r] => Rank(A, q) < Rank(A, r)
         /\ Rank(A, q) = Rank(A, r) => q = r
  <1>1. ASSUME NEW x \in S, NEW y \in S, x \in A[y] PROVE Rank(A, x) < Rank(A, y)
    <2>1. A[x] \subseteq A[y] /\ A[x] # A[y]
      BY <1>1 DEF Ranking
    <2>2. /\ IsFiniteSet(A[y]) /\ Rank(A, x) \in Nat /\ Rank(A, y) \in Nat
      BY RankType
    <2>3. Cardinality(A[x]) <= Cardinality(A[y]) /\ Cardinality(A[x]) # Cardinality(A[y])
      BY <2>1, <2>2, FS_Subset
    <2> QED BY <2>2, <2>3 DEF Rank
  <1>2. Rank(A, q) \in Nat /\ Rank(A, r) \in Nat
    BY RankType
  <1>3. Rank(A, q) = Rank(A, r) => q \notin A[r] /\ r \notin A[q]
    BY <1>1, <1>2
  <1> QED BY <1>1, <1>3 DEF Ranking

(* Every position before a row is taken by a row ahead of it. *)
LEMMA RanksBelow ==
  ASSUME NEW S, NEW A, Ranking(S, A), NEW r \in S, NEW k \in Nat, k < Rank(A, r)
  PROVE  \E q \in A[r] : Rank(A, q) = k
  <1> DEFINE n == Rank(A, r)
             f == [q \in A[r] |-> Rank(A, q)]
  <1>1. n \in Nat /\ A[r] \subseteq S /\ IsFiniteSet(A[r]) /\ n > 0
    BY RankType
  <1>2. \A q \in A[r] : Rank(A, q) \in Nat /\ Rank(A, q) < n
    BY <1>1, RankType, RankOrder
  <1>3. f \in [A[r] -> 0..(n - 1)]
    BY <1>1, <1>2
  <1>4. \A x, y \in A[r] : f[x] = f[y] => x = y
    BY <1>1, RankOrder
  <1>5. f \in Injection(A[r], 0..(n - 1))
    BY <1>3, <1>4 DEF Injection, IsInjective
  <1>6. IsFiniteSet(0..(n - 1)) /\ Cardinality(0..(n - 1)) = n
    <2>1. n \in Nat /\ n > 0
      BY <1>1
    <2> HIDE DEF n
    <2> QED BY <2>1, FS_Interval
  <1>7. Cardinality(A[r]) = n
    BY DEF Rank
  <1>8. f \in Surjection(A[r], 0..(n - 1))
    <2> HIDE DEF f, n
    <2> QED BY <1>5, <1>6, <1>7, FS_Injection
  <1>9. k \in 0..(n - 1)
    BY <1>1
  <1>10. \E q \in A[r] : f[q] = k
    <2> HIDE DEF f, n
    <2> QED BY <1>8, <1>9 DEF Surjection
  <1> QED BY <1>10

(* The rows from one position on, as many as there are up to a number. *)
Slice(S, A, from, size) == {r \in S : from <= Rank(A, r) /\ Rank(A, r) < from + size}

LEMMA SliceSize ==
  ASSUME NEW S, NEW A, Ranking(S, A), NEW from \in Nat, NEW size \in Nat
  PROVE  LET P == Slice(S, A, from, size)
         IN  /\ IsFiniteSet(P) /\ Cardinality(P) \in Nat /\ Cardinality(P) <= size
             /\ \A r \in S : from <= Rank(A, r) /\ Cardinality(P) < size => r \in P
             /\ \A r \in P : Rank(A, r) < from + Cardinality(P)
  <1> DEFINE P == Slice(S, A, from, size)
             T == from..(from + size - 1)
             f == [r \in P |-> Rank(A, r)]
  <1>1. P \subseteq S /\ IsFiniteSet(P) /\ Cardinality(P) \in Nat
    <2>1. P \subseteq S /\ IsFiniteSet(S)
      BY DEF Slice, Ranking
    <2>2. IsFiniteSet(P)
      BY <2>1, FS_Subset
    <2> QED BY <2>1, <2>2, FS_CardinalityType
  <1>2. \A r \in P : Rank(A, r) \in Nat /\ from <= Rank(A, r) /\ Rank(A, r) < from + size
    BY RankType DEF Slice
  <1>3. \A x, y \in P : Rank(A, x) = Rank(A, y) => x = y
    BY <1>1, RankOrder
  (* The ranks in the slice fill an interval from its beginning. *)
  <1>4. ASSUME NEW m \in Nat, m <= size, \A r \in P : Rank(A, r) < from + m
        PROVE  Cardinality(P) <= m
    <2> DEFINE U == from..(from + m - 1)
    <2>1. f \in [P -> U]
      BY <1>2, <1>4
    <2>2. f \in Injection(P, U)
      BY <2>1, <1>3 DEF Injection, IsInjective
    <2>3. IsFiniteSet(U) /\ Cardinality(U) = m
      BY FS_Interval
    <2> HIDE DEF f, U, P
    <2> QED BY <2>2, <2>3, FS_Injection
  <1>5. ASSUME NEW m \in Nat, m <= size, NEW r \in S, Rank(A, r) >= from + m
        PROVE  Cardinality(P) >= m /\ (Cardinality(P) = m => Slice(S, A, from, m) = P)
    <2> DEFINE Q == Slice(S, A, from, m)
               U == from..(from + m - 1)
               g == [q \in Q |-> Rank(A, q)]
    <2>1. Q \subseteq P /\ IsFiniteSet(Q)
      <3>1. Q \subseteq P
        BY <1>5, RankType DEF Slice
      <3> QED BY <1>1, <3>1, FS_Subset
    <2>2. g \in [Q -> U]
      BY RankType DEF Slice
    <2>3. ASSUME NEW k \in U PROVE \E q \in Q : g[q] = k
      <3>1. k \in Nat /\ k < Rank(A, r)
        BY <1>5, RankType
      <3>2. PICK q \in A[r] : Rank(A, q) = k
        BY <3>1, RanksBelow
      <3>3. q \in S
        BY <3>2, RankType
      <3> QED BY <3>2, <3>3 DEF Slice
    <2>4. g \in Surjection(Q, U)
      <3> HIDE DEF g, U, Q
      <3> QED BY <2>2, <2>3 DEF Surjection
    <2>5. IsFiniteSet(U) /\ Cardinality(U) = m
      BY FS_Interval
    <2>6. /\ Cardinality(U) <= Cardinality(Q) /\ Cardinality(Q) <= Cardinality(P)
          /\ Cardinality(Q) \in Nat /\ (Cardinality(Q) = Cardinality(P) => Q = P)
      <3> HIDE DEF g, U, Q, P
      <3> QED BY <1>1, <2>1, <2>4, FS_Surjection, FS_Subset, FS_CardinalityType
    <2> QED BY <1>1, <2>5, <2>6
  <1>6. Cardinality(P) <= size
    BY <1>2, <1>4
  <1>7. ASSUME NEW r \in S, from <= Rank(A, r), Cardinality(P) < size PROVE r \in P
    <2>1. ~(Rank(A, r) >= from + size)
      BY <1>1, <1>5, <1>7
    <2> QED BY <1>7, <2>1, RankType DEF Slice
  <1>8. ASSUME NEW r \in P PROVE Rank(A, r) < from + Cardinality(P)
    <2> SUFFICES ASSUME Rank(A, r) >= from + Cardinality(P) PROVE FALSE
      BY <1>1, <1>2
    <2>1. Slice(S, A, from, Cardinality(P)) = P
      BY <1>1, <1>5, <1>6
    <2>2. Rank(A, r) < from + Cardinality(P)
      BY <2>1 DEF Slice
    <2> QED BY <1>1, <1>2, <2>2
  <1> QED BY <1>1, <1>6, <1>7, <1>8

(* Those of some rows that are among the first n. *)
Before(L, A, n) == {r \in L : Rank(A, r) < n}

(* One row is written, so that it may be anywhere now: at most one row that *)
(* was among the first n is not among them any more.                        *)
LEMMA OneRowMoves ==
  ASSUME NEW S, NEW A, Ranking(S, A), NEW S2, NEW A2, Ranking(S2, A2), NEW c,
         S \subseteq S2, \A r \in S \ {c} : A2[r] \subseteq A[r] \cup {c},
         NEW L \in SUBSET S, NEW n \in Nat
  PROVE  Cardinality(Before(L, A, n)) <= Cardinality(Before(L, A2, n)) + 1
  <1> DEFINE K == {r \in L : Rank(A, r) < n}
             K2 == {r \in L : Rank(A2, r) < n}
  <1>1. \A r \in L : r \in S /\ r \in S2 /\ Rank(A, r) \in Nat /\ Rank(A2, r) \in Nat
    BY RankType
  <1>2. ASSUME NEW r \in K \ K2, r # c
        PROVE  Rank(A, r) = n - 1 /\ Rank(A2, r) = n /\ c \in A2[r] /\ c \notin A[r]
    <2>1. r \in S \ {c} /\ r \in S2 /\ Rank(A, r) < n /\ ~(Rank(A2, r) < n)
      BY <1>1, <1>2
    <2>2. IsFiniteSet(A[r]) /\ IsFiniteSet(A2[r])
      BY <2>1, RankType
    <2>3. ~(A2[r] \subseteq A[r])
      <3>1. A2[r] \subseteq A[r] => Cardinality(A2[r]) <= Cardinality(A[r])
        BY <2>2, FS_Subset
      <3> QED BY <1>1, <2>1, <3>1 DEF Rank
    <2>4. c \in A2[r] /\ c \notin A[r] /\ A2[r] \subseteq A[r] \cup {c}
      BY <2>1, <2>3
    <2>5. IsFiniteSet(A[r] \cup {c}) /\ Cardinality(A[r] \cup {c}) = Cardinality(A[r]) + 1
      BY <2>2, <2>4, FS_AddElement
    <2>6. Cardinality(A2[r]) <= Cardinality(A[r]) + 1
      BY <2>4, <2>5, FS_Subset
    <2>7. Rank(A2, r) <= Rank(A, r) + 1
      BY <2>6 DEF Rank
    <2> QED BY <1>1, <2>1, <2>4, <2>7
  <1>3. ASSUME NEW x \in K \ K2, NEW y \in K \ K2 PROVE x = y
    <2>1. CASE x # c /\ y # c
      <3>1. x \in S /\ y \in S /\ Rank(A, x) = Rank(A, y)
        BY <1>1, <1>2, <2>1
      <3> QED BY <3>1, RankOrder
    <2>2. ASSUME NEW r \in K \ K2, r # c, c \in K \ K2 PROVE FALSE
      <3>1. c \in S2 /\ r \in S2 /\ c \in A2[r] /\ Rank(A2, r) = n
        BY <1>1, <1>2, <2>2
      <3>2. Rank(A2, c) < n
        BY <3>1, RankOrder
      <3> QED BY <2>2, <3>2
    <2> QED BY <2>1, <2>2
  <1>4. IsFiniteSet(L) /\ IsFiniteSet(K) /\ IsFiniteSet(K2)
    <2>1. IsFiniteSet(L)
      BY FS_Subset DEF Ranking
    <2> QED BY <2>1, FS_Subset
  <1>5. Cardinality(K) \in Nat /\ Cardinality(K2) \in Nat
    BY <1>4, FS_CardinalityType
  <1>6. ASSUME K \subseteq K2 PROVE Cardinality(K) <= Cardinality(K2) + 1
    BY <1>4, <1>5, <1>6, FS_Subset
  <1>7. ASSUME NEW x \in K \ K2 PROVE Cardinality(K) <= Cardinality(K2) + 1
    <2>1. K \subseteq K2 \cup {x}
      BY <1>3, <1>7
    <2>2. IsFiniteSet(K2 \cup {x}) /\ Cardinality(K2 \cup {x}) = Cardinality(K2) + 1
      BY <1>4, <1>7, FS_AddElement
    <2>3. Cardinality(K) <= Cardinality(K2 \cup {x})
      <3> HIDE DEF K, K2
      <3> QED BY <2>1, <2>2, FS_Subset
    <2> QED BY <2>2, <2>3
  <1> QED BY <1>6, <1>7 DEF Before

(* Rows further back than before stay behind a position they were behind.  *)
LEMMA RankGrows ==
  ASSUME NEW S, NEW A, Ranking(S, A), NEW S2, NEW A2, Ranking(S2, A2),
         NEW r \in S, r \in S2, A[r] \subseteq A2[r]
  PROVE  Rank(A, r) <= Rank(A2, r)
  BY RankType, FS_Subset DEF Rank

-------------------------------------------------------------------------------
(***************************************************************************)
(* The two listings are such tables.                                       *)
(***************************************************************************)
Order == [r \in Selected |-> Ahead(r)]

LEMMA ListingIsRanking == TypeOK => Ranking(Selected, Order)
  <1> SUFFICES ASSUME TypeOK PROVE Ranking(Selected, Order)
    OBVIOUS
  <1>1. /\ Chats \subseteq Nat /\ Messages \subseteq Nat
        /\ IsFiniteSet(Chats) /\ IsFiniteSet(Messages)
        /\ updatedAt \in [Chats -> Nat] /\ createdAt \in [Messages -> Nat]
    BY PaginationAssumption DEF TypeOK
  <1>2. IsFiniteSet(Selected)
    <2>1. Selected \subseteq Chats \/ Selected \subseteq Messages
      BY DEF Selected, SavedChats, SavedMessages
    <2> QED BY <1>1, <2>1, FS_Subset
  <1>3. Order \in [Selected -> SUBSET Selected] /\ \A r \in Selected : Order[r] = Ahead(r)
    BY DEF Order, Ahead
  <1>4. CASE table = "chats"
    <2>1. \A q, r \in Selected : q \in Ahead(r) <=> ChatBefore(q, r)
      BY <1>4 DEF Ahead
    <2>2. \A q \in Selected : q \in Nat /\ updatedAt[q] \in Nat
      BY <1>1, <1>4 DEF Selected, SavedChats
    <2>3. \A q, r, s \in Selected : ChatBefore(q, r) /\ ChatBefore(r, s) => ChatBefore(q, s)
      BY <2>2 DEF ChatBefore
    <2>4. \A q, r \in Selected : ~ChatBefore(q, q) /\ (q = r \/ ChatBefore(q, r) \/ ChatBefore(r, q))
      BY <2>2 DEF ChatBefore
    <2> QED BY <1>2, <1>3, <2>1, <2>3, <2>4 DEF Ranking
  <1>5. CASE table # "chats"
    <2>1. \A q, r \in Selected : q \in Ahead(r) <=> MessageBefore(q, r)
      BY <1>5 DEF Ahead
    <2>2. \A q \in Selected : q \in Nat /\ createdAt[q] \in Nat
      BY <1>1, <1>5 DEF Selected, SavedMessages
    <2>3. \A q, r, s \in Selected : MessageBefore(q, r) /\ MessageBefore(r, s) => MessageBefore(q, s)
      BY <2>2 DEF MessageBefore
    <2>4. \A q, r \in Selected : ~MessageBefore(q, q) /\ (q = r \/ MessageBefore(q, r) \/ MessageBefore(r, q))
      BY <2>2 DEF MessageBefore
    <2> QED BY <1>2, <1>3, <2>1, <2>3, <2>4 DEF Ranking
  <1> QED BY <1>4, <1>5

LEMMA PageIsSlice ==
  ASSUME TypeOK, NEW limit \in Nat
  PROVE  Page(limit) = Slice(Selected, Order, offset, limit)
  BY DEF Page, Slice, Order, Rank

-------------------------------------------------------------------------------
LEMMA InitTypeOK == Init => TypeOK
  <1> USE PaginationAssumption
  <1> SUFFICES ASSUME Init PROVE TypeOK
    OBVIOUS
  <1>1. updatedAt \in [Chats -> 0..MaxTime] /\ createdAt \in [Messages -> 0..MaxTime]
    BY DEF Init
  <1>2. now \in 1..MaxTime /\ stored \in 0..MaxWrites /\ offset \in Nat /\ pushes \in Nat
    BY DEF Init
  <1>3. writer \in [Writers -> Pending \cup {Idle}]
    BY DEF Init
  <1>4. over \in BOOLEAN /\ fallen \in BOOLEAN
    BY DEF Init
  <1>5. table \in {"none", "chats", "messages"}
    BY DEF Init
  <1>6. /\ mms \subseteq Chats /\ filter \subseteq Chats /\ moved \subseteq Chats
        /\ listed \subseteq Chats \cup Messages /\ present \subseteq Chats \cup Messages
    BY DEF Init
  <1> QED BY <1>1, <1>2, <1>3, <1>4, <1>5, <1>6 DEF TypeOK

LEMMA TouchTypes ==
  ASSUME TypeOK, NEW c \in Chats, NEW at \in 1..MaxTime, Touch(c, at)
  PROVE  updatedAt' \in [Chats -> 0..MaxTime] /\ moved' \subseteq Chats /\ fallen' \in BOOLEAN
  <1>1. at \in 0..MaxTime
    BY PaginationAssumption
  <1>2. updatedAt' \in [Chats -> 0..MaxTime]
    BY <1>1 DEF TypeOK, Touch
  <1>3. moved' \subseteq Chats
    BY DEF TypeOK, Touch
  <1>4. fallen' \in BOOLEAN
    BY DEF TypeOK, Touch
  <1> QED BY <1>2, <1>3, <1>4

LEMMA TypeOKStep ==
  ASSUME TypeOK, [Next]_vars
  PROVE  TypeOK'
  <1> USE PaginationAssumption
  <1>1. CASE UNCHANGED vars
    BY <1>1 DEF TypeOK, vars, storeVars, walkVars, history
  <1>2. ASSUME NEW f \in Filters, Begin("chats", f) PROVE TypeOK'
    BY <1>2 DEF TypeOK, Begin, storeVars, SavedChats
  <1>3. CASE BeginMessages
    BY <1>3 DEF TypeOK, BeginMessages, Begin, storeVars, SavedMessages
  <1>4. ASSUME NEW limit \in Limits, ReadPage(limit) PROVE TypeOK'
    <2>1. Cardinality(Page(limit)) \in Nat
      BY PageIsSlice, SliceSize, ListingIsRanking DEF TypeOK
    <2>2. Page(limit) \subseteq Chats \cup Messages
      BY DEF Page, Selected, SavedChats, SavedMessages
    <2>3. offset' \in Nat
      BY <1>4, <2>1 DEF ReadPage, TypeOK
    <2>4. over' \in BOOLEAN
      BY <1>4 DEF ReadPage
    <2>5. listed' \subseteq Chats \cup Messages
      BY <1>4, <2>2 DEF ReadPage, TypeOK
    <2>6. UNCHANGED <<table, filter, present, storeVars, history>>
      BY <1>4 DEF ReadPage
    <2> QED BY <2>3, <2>4, <2>5, <2>6 DEF TypeOK, storeVars, history
  <1>5. ASSUME NEW w \in Writers, NEW c \in Chats, TakeChat(w, c) PROVE TypeOK'
    <2>1. writer' \in [Writers -> Pending \cup {Idle}] /\ stored' \in 0..MaxWrites
      <3>1. [chat |-> c, at |-> now, service |-> "SMS"] \in Pending
        BY DEF TypeOK, Pending
      <3> QED BY <1>5, <3>1 DEF TypeOK, TakeChat
    <2> QED BY <1>5, <2>1 DEF TypeOK, TakeChat, walkVars, history
  <1>6. ASSUME NEW w \in Writers, NEW c \in Chats, NEW at \in 1..MaxTime, NEW service \in {"SMS", "MMS"},
               GetChat(w, c, at, service)
        PROVE  TypeOK'
    <2>1. writer' \in [Writers -> Pending \cup {Idle}] /\ stored' \in 0..MaxWrites
      <3>1. [chat |-> c, at |-> at, service |-> service] \in Pending
        BY DEF Pending
      <3> QED BY <1>6, <3>1 DEF TypeOK, GetChat
    <2>2. /\ updatedAt' \in [Chats -> 0..MaxTime] /\ moved' \subseteq Chats /\ fallen' \in BOOLEAN
          /\ pushes' \in Nat
      <3>1. CASE Touch(c, at) /\ pushes' = IF table = "chats" /\ c \in filter THEN pushes + 1 ELSE pushes
        <4>1. pushes' \in Nat
          BY <3>1 DEF TypeOK
        <4> QED BY <3>1, <4>1, TouchTypes
      <3>2. CASE UNCHANGED <<updatedAt, history>>
        BY <3>2 DEF TypeOK, history
      <3> QED BY <1>6, <3>1, <3>2 DEF GetChat
    <2>3. mms' \subseteq Chats
      BY <1>6 DEF TypeOK, GetChat
    <2> QED BY <1>6, <2>1, <2>2, <2>3 DEF TypeOK, GetChat, walkVars
  <1>7. ASSUME NEW w \in Writers, CreateMessage(w) PROVE TypeOK'
    <2>1. writer[w] \in Pending
      BY <1>7 DEF TypeOK, CreateMessage
    <2>2. writer[w].chat \in Chats /\ writer[w].at \in 1..MaxTime
      BY <2>1 DEF Pending
    <2>3. updatedAt' \in [Chats -> 0..MaxTime] /\ moved' \subseteq Chats /\ fallen' \in BOOLEAN
      BY <1>7, <2>2, TouchTypes DEF CreateMessage
    <2>4. createdAt' \in [Messages -> 0..MaxTime]
      <3>1. writer[w].at \in 0..MaxTime
        BY <2>2
      <3> QED BY <1>7, <3>1 DEF CreateMessage, TypeOK
    <2>5. pushes' \in Nat /\ writer' \in [Writers -> Pending \cup {Idle}]
      BY <1>7 DEF CreateMessage, TypeOK
    <2> QED BY <1>7, <2>3, <2>4, <2>5 DEF TypeOK, CreateMessage, walkVars
  <1>8. CASE Tick
    BY <1>8 DEF Tick, TypeOK, walkVars, history
  <1> QED BY <1>1, <1>2, <1>3, <1>4, <1>5, <1>6, <1>7, <1>8 DEF Next, BeginChats

(* Clients and writers keep to the declared ranges; what a page shows is a *)
(* finite number of rows of the store.                                     *)
THEOREM TypeInvariant == Spec => []TypeOK
  BY InitTypeOK, TypeOKStep, PTL DEF Spec

-------------------------------------------------------------------------------
(***************************************************************************)
(* What a write does to the listing that is walked: nothing, or it puts    *)
(* one row anywhere, new or old.  As long as none falls back, the rows     *)
(* that were not written to only get more rows ahead of them.              *)
(***************************************************************************)
Undisturbed == Selected' = Selected /\ Order' = Order

RowPut(c) == Selected \subseteq Selected' /\ \A r \in Selected \ {c} : Order'[r] \subseteq Order[r] \cup {c}

PushedBack == ~fallen' => \A r \in Selected \ moved' : r \in Selected' /\ Order[r] \subseteq Order'[r]

LEMMA TouchEffect ==
  ASSUME TypeOK, NEW c \in Chats, NEW at \in 1..MaxTime, Touch(c, at),
         table = "chats", UNCHANGED <<table, filter>>
  PROVE  /\ c \notin filter => Undisturbed
         /\ c \in filter => RowPut(c) /\ PushedBack
  <1>0. /\ Chats \subseteq Nat /\ updatedAt \in [Chats -> Nat] /\ at \in Nat /\ at > 0 /\ table' = "chats"
    BY PaginationAssumption DEF TypeOK
  <1>1. /\ updatedAt' \in [Chats -> Nat] /\ updatedAt'[c] = at
        /\ \A d \in Chats : d # c => updatedAt'[d] = updatedAt[d]
    BY <1>0 DEF Touch
  <1>2. /\ Selected = {d \in Chats : updatedAt[d] > 0 /\ d \in filter}
        /\ Selected' = {d \in Chats : updatedAt'[d] > 0 /\ d \in filter}
    BY <1>0 DEF Selected, SavedChats
  <1>3. /\ \A r \in Selected : Order[r] = {q \in Selected : ChatBefore(q, r)}
        /\ \A r \in Selected' : Order'[r] = {q \in Selected' : ChatBefore(q, r)'}
    BY <1>0 DEF Order, Ahead
  <1>4. /\ \A q, r \in Chats : ChatBefore(q, r) <=>
             updatedAt[q] > updatedAt[r] \/ (updatedAt[q] = updatedAt[r] /\ q > r)
        /\ \A q, r \in Chats : ChatBefore(q, r)' <=>
             updatedAt'[q] > updatedAt'[r] \/ (updatedAt'[q] = updatedAt'[r] /\ q > r)
    BY DEF ChatBefore
  <1>5. CASE c \notin filter
    <2>1. \A d \in Selected \cup Selected' : d \in Chats /\ d # c
      BY <1>2, <1>5
    <2>2. Selected' = Selected
      BY <1>1, <1>2, <1>5
    <2>3. \A q, r \in Selected : ChatBefore(q, r)' <=> ChatBefore(q, r)
      BY <1>1, <1>4, <2>1
    <2>4. \A r \in Selected : Order'[r] = Order[r]
      BY <1>3, <2>2, <2>3
    <2>5. Order = [r \in Selected |-> Order[r]] /\ Order' = [r \in Selected' |-> Order'[r]]
      BY DEF Order
    <2> QED BY <1>5, <2>2, <2>4, <2>5 DEF Undisturbed
  <1>6. CASE c \in filter
    <2>1. Selected \subseteq Selected' /\ Selected' \subseteq Selected \cup {c}
      BY <1>0, <1>1, <1>2
    <2>2. ASSUME NEW r \in Selected \ {c} PROVE Order'[r] \subseteq Order[r] \cup {c}
      <3>1. ASSUME NEW q \in Order'[r], q # c PROVE q \in Order[r]
        <4>1. q \in Selected /\ ChatBefore(q, r)' /\ q \in Chats /\ r \in Chats
          BY <1>2, <1>3, <2>1, <2>2, <3>1
        <4>2. ChatBefore(q, r)
          BY <1>1, <1>4, <2>2, <3>1, <4>1
        <4> QED BY <1>3, <4>1, <4>2
      <3> QED BY <3>1
    <2>3. ASSUME ~fallen', NEW r \in Selected \ moved' PROVE r \in Selected' /\ Order[r] \subseteq Order'[r]
      <3>1. ~(at < updatedAt[c]) /\ (at # updatedAt[c] => r # c)
        BY <1>0, <2>3 DEF Touch
      <3>2. r \in Chats /\ updatedAt'[r] = updatedAt[r]
        BY <1>1, <1>2, <3>1
      <3>3. ASSUME NEW q \in Order[r] PROVE q \in Order'[r]
        <4>1. q \in Selected /\ ChatBefore(q, r) /\ q \in Chats
          BY <1>2, <1>3, <3>3
        <4>2. updatedAt'[q] >= updatedAt[q] /\ updatedAt'[q] \in Nat /\ updatedAt[q] \in Nat /\ updatedAt[r] \in Nat
          BY <1>0, <1>1, <3>1, <3>2, <4>1
        <4>3. ChatBefore(q, r)'
          BY <1>4, <3>2, <4>1, <4>2
        <4> QED BY <1>3, <2>1, <2>3, <4>1, <4>3
      <3> QED BY <2>1, <3>3
    <2> QED BY <1>6, <2>1, <2>2, <2>3 DEF RowPut, PushedBack
  <1> QED BY <1>5, <1>6

LEMMA InsertEffect ==
  ASSUME TypeOK, NEW m \in Messages \ SavedMessages, NEW at \in 1..MaxTime,
         createdAt' = [createdAt EXCEPT ![m] = at], table # "chats", UNCHANGED table
  PROVE  RowPut(m) /\ PushedBack
  <1>1. /\ createdAt \in [Messages -> Nat] /\ createdAt'[m] = at /\ createdAt[m] = 0
        /\ \A n \in Messages : n # m => createdAt'[n] = createdAt[n]
        /\ at > 0 /\ at \in Nat
    BY PaginationAssumption DEF TypeOK, SavedMessages
  <1>2. /\ Selected = {n \in Messages : createdAt[n] > 0}
        /\ Selected' = {n \in Messages : createdAt'[n] > 0}
    BY DEF Selected, SavedMessages
  <1>3. Selected' = Selected \cup {m} /\ m \notin Selected
    BY <1>1, <1>2
  <1>4. /\ \A r \in Selected : Order[r] = {q \in Selected : MessageBefore(q, r)}
        /\ \A r \in Selected' : Order'[r] = {q \in Selected' : MessageBefore(q, r)'}
    BY DEF Order, Ahead
  <1>5. \A q, r \in Selected : MessageBefore(q, r)' <=> MessageBefore(q, r)
    BY <1>1, <1>2, <1>3 DEF MessageBefore
  <1>6. \A r \in Selected : Order'[r] \subseteq Order[r] \cup {m} /\ Order[r] \subseteq Order'[r]
    BY <1>3, <1>4, <1>5
  <1> QED BY <1>3, <1>6 DEF RowPut, PushedBack

Write == \/ \E w \in Writers, c \in Chats :
              \/ TakeChat(w, c)
              \/ \E at \in 1..MaxTime, service \in {"SMS", "MMS"} : GetChat(w, c, at, service)
         \/ \E w \in Writers : CreateMessage(w)
         \/ Tick

LEMMA WriteEffect ==
  ASSUME TypeOK, Write, table # "none"
  PROVE  /\ UNCHANGED walkVars /\ moved \subseteq moved' /\ (fallen => fallen')
         /\ PushedBack
         /\ \/ Undisturbed /\ pushes' = pushes
            \/ pushes' = pushes + 1 /\ \E c : RowPut(c)
  <1> DEFINE Effect == /\ UNCHANGED walkVars /\ moved \subseteq moved' /\ (fallen => fallen')
                       /\ PushedBack
                       /\ \/ Undisturbed /\ pushes' = pushes
                          \/ pushes' = pushes + 1 /\ \E c : RowPut(c)
  <1>0. table \in {"chats", "messages"} /\ \A c : c = c
    BY DEF TypeOK
  <1>1. ASSUME UNCHANGED <<updatedAt, createdAt, table, filter>> PROVE Undisturbed
    BY <1>1 DEF Undisturbed, Selected, Order, Ahead, SavedChats, SavedMessages, ChatBefore, MessageBefore
  <1>2. ASSUME table = "messages", UNCHANGED <<createdAt, table>> PROVE Undisturbed
    <2>1. Selected' = Selected
      BY <1>2 DEF Selected, SavedMessages
    <2>2. \A r \in Selected : Ahead(r)' = Ahead(r)
      BY <1>2, <2>1 DEF Ahead, MessageBefore
    <2> QED BY <2>1, <2>2 DEF Undisturbed, Order
  <1>3. Undisturbed => PushedBack
    BY DEF Undisturbed, PushedBack
  <1>4. ASSUME NEW w \in Writers, NEW c \in Chats, TakeChat(w, c) PROVE Effect
    BY <1>1, <1>3, <1>4 DEF TakeChat, walkVars, history
  <1>5. ASSUME NEW w \in Writers, NEW c \in Chats, NEW at \in 1..MaxTime, NEW service \in {"SMS", "MMS"},
               GetChat(w, c, at, service)
        PROVE  Effect
    <2>0. UNCHANGED walkVars /\ UNCHANGED <<table, filter, createdAt>>
      BY <1>5 DEF GetChat, walkVars
    <2>1. CASE UNCHANGED <<updatedAt, history>>
      BY <1>1, <1>3, <2>0, <2>1 DEF history
    <2>2. CASE Touch(c, at) /\ pushes' = IF table = "chats" /\ c \in filter THEN pushes + 1 ELSE pushes
      <3>1. moved \subseteq moved' /\ (fallen => fallen')
        BY <2>2 DEF Touch
      <3>2. CASE table = "messages"
        BY <1>2, <1>3, <2>0, <2>2, <3>1, <3>2
      <3>3. CASE table = "chats"
        BY <1>3, <2>0, <2>2, <3>1, <3>3, TouchEffect
      <3> QED BY <1>0, <3>2, <3>3
    <2> QED BY <1>5, <2>1, <2>2 DEF GetChat
  <1>6. ASSUME NEW w \in Writers, CreateMessage(w) PROVE Effect
    <2> DEFINE new == writer[w]
    <2>0. UNCHANGED walkVars /\ UNCHANGED <<table, filter>> /\ new.chat \in Chats /\ new.at \in 1..MaxTime
          /\ Touch(new.chat, new.at)
      BY <1>6 DEF CreateMessage, walkVars, TypeOK, Pending
    <2>1. moved \subseteq moved' /\ (fallen => fallen')
      BY <2>0 DEF Touch
    <2>2. /\ IF new.chat = Shown
             THEN \E m \in Messages \ SavedMessages : createdAt' = [createdAt EXCEPT ![m] = new.at]
             ELSE UNCHANGED createdAt
          /\ pushes' = IF \/ table = "messages" /\ new.chat = Shown
                          \/ table = "chats" /\ new.chat \in filter
                       THEN pushes + 1 ELSE pushes
      BY <1>6 DEF CreateMessage
    <2> HIDE DEF new
    <2>3. CASE table = "chats"
      BY <1>3, <2>0, <2>1, <2>2, <2>3, TouchEffect
    <2>4. CASE table = "messages" /\ new.chat # Shown
      BY <1>2, <1>3, <2>0, <2>1, <2>2, <2>4
    <2>5. CASE table = "messages" /\ new.chat = Shown
      <3>1. PICK m \in Messages \ SavedMessages : createdAt' = [createdAt EXCEPT ![m] = new.at]
        BY <2>2, <2>5
      <3>2. RowPut(m) /\ PushedBack
        BY <2>0, <2>5, <3>1, InsertEffect
      <3> QED BY <2>0, <2>1, <2>2, <2>5, <3>2
    <2> QED BY <1>0, <2>3, <2>4, <2>5
  <1>7. CASE Tick
    BY <1>1, <1>3, <1>7 DEF Tick, walkVars, history
  <1> QED BY <1>4, <1>5, <1>6, <1>7 DEF Write

-------------------------------------------------------------------------------
(***************************************************************************)
(* Before the first walk there is none; what the walk began with and what  *)
(* it has shown is still listed, for nothing deletes a row or takes a time *)
(* stamp away.                                                             *)
(***************************************************************************)
Begun == table = "none" => listed = {} /\ present = {} /\ offset = 0

Selecting == listed \subseteq Selected /\ present \subseteq Selected

WalkInv == TypeOK /\ Begun /\ Selecting

(* A row that the walk may not miss and has not shown is still to come. *)
StillToCome ==
  ~fallen => \A r \in present \ (listed \cup moved) : ~over /\ offset <= Rank(Order, r)

MissedInv == WalkInv /\ StillToCome

(* The rows before the cursor have been shown, but for one per write.      *)
ShownBefore == Before(listed, Order, offset)

RepeatInv == WalkInv /\ offset <= Cardinality(ShownBefore) + pushes

(* The steps of the walk and of the writers, one name each. *)
LEMMA StepKinds ==
  ASSUME [Next]_vars
  PROVE  \/ UNCHANGED vars
         \/ \E t \in {"chats", "messages"}, f \in SUBSET Chats : Begin(t, f)
         \/ \E limit \in Limits : ReadPage(limit)
         \/ Write
  <1>1. BeginChats => \E f \in SUBSET Chats : Begin("chats", f)
    BY PaginationAssumption DEF BeginChats
  <1>2. BeginMessages => Begin("messages", {}) /\ {} \in SUBSET Chats
    BY DEF BeginMessages
  <1> QED BY <1>1, <1>2 DEF Next, Write

LEMMA Unmoved == UNCHANGED vars => Undisturbed
  BY DEF vars, storeVars, walkVars, history, Undisturbed, Selected, Order, Ahead,
         SavedChats, SavedMessages, ChatBefore, MessageBefore

LEMMA BeginSelects ==
  ASSUME NEW t \in {"chats", "messages"}, NEW f \in SUBSET Chats, Begin(t, f)
  PROVE  Selected' = present'
  BY DEF Begin, Selected, SavedChats, SavedMessages, storeVars

LEMMA ReadUndisturbed ==
  ASSUME NEW limit \in Limits, ReadPage(limit)
  PROVE  Undisturbed
  BY DEF ReadPage, storeVars, Undisturbed, Selected, Order, Ahead,
         SavedChats, SavedMessages, ChatBefore, MessageBefore

LEMMA InitWalkInv == Init => WalkInv
  BY InitTypeOK DEF Init, WalkInv, Begun, Selecting

LEMMA WalkInvStep ==
  ASSUME WalkInv, [Next]_vars
  PROVE  WalkInv'
  <1>0. TypeOK /\ Begun /\ Selecting /\ TypeOK'
    BY TypeOKStep DEF WalkInv
  <1>1. CASE UNCHANGED vars
    <2>1. Selected' = Selected
      BY <1>1, Unmoved DEF Undisturbed
    <2> QED BY <1>0, <1>1, <2>1 DEF WalkInv, Begun, Selecting, vars, walkVars
  <1>2. ASSUME NEW t \in {"chats", "messages"}, NEW f \in SUBSET Chats, Begin(t, f) PROVE WalkInv'
    <2>1. table' # "none" /\ listed' = {} /\ Selected' = present'
      BY <1>2, BeginSelects DEF Begin
    <2> QED BY <1>0, <2>1 DEF WalkInv, Begun, Selecting
  <1>3. ASSUME NEW limit \in Limits, ReadPage(limit) PROVE WalkInv'
    <2>1. /\ Selected' = Selected /\ Page(limit) \subseteq Selected
          /\ table # "none" /\ table' = table /\ present' = present /\ listed' = listed \cup Page(limit)
      BY <1>3, ReadUndisturbed DEF ReadPage, Undisturbed, Page
    <2> QED BY <1>0, <2>1 DEF WalkInv, Begun, Selecting
  <1>4. CASE Write
    <2>1. UNCHANGED walkVars
      BY <1>4 DEF Write, TakeChat, GetChat, CreateMessage, Tick
    <2>2. CASE table = "none"
      BY <1>0, <2>1, <2>2 DEF WalkInv, Begun, Selecting, walkVars
    <2>3. CASE table # "none"
      <3>1. Selected \subseteq Selected'
        BY <1>0, <1>4, <2>3, WriteEffect DEF Undisturbed, RowPut
      <3> QED BY <1>0, <2>1, <2>3, <3>1 DEF WalkInv, Begun, Selecting, walkVars
    <2> QED BY <2>2, <2>3
  <1> QED BY <1>1, <1>2, <1>3, <1>4, StepKinds

LEMMA MissedInvStep ==
  ASSUME MissedInv, [Next]_vars
  PROVE  MissedInv'
  <1>0. TypeOK /\ WalkInv /\ Begun /\ Selecting /\ StillToCome /\ WalkInv'
    BY WalkInvStep DEF MissedInv, WalkInv
  <1> SUFFICES StillToCome'
    BY <1>0 DEF MissedInv
  <1>t. TypeOK' /\ Ranking(Selected, Order) /\ (Ranking(Selected, Order))'
    <2>1. TypeOK'
      BY <1>0 DEF WalkInv
    <2>2. Ranking(Selected, Order)
      BY <1>0, ListingIsRanking
    <2>3. (Ranking(Selected, Order))'
      BY <2>1, ListingIsRanking, PTL
    <2> QED BY <2>1, <2>2, <2>3
  <1>1. CASE UNCHANGED vars
    <2>1. Order' = Order
      BY <1>1, Unmoved DEF Undisturbed
    <2> QED BY <1>0, <1>1, <2>1 DEF StillToCome, vars, walkVars, history, Rank
  <1>2. ASSUME NEW t \in {"chats", "messages"}, NEW f \in SUBSET Chats, Begin(t, f) PROVE StillToCome'
    <2>1. Selected' = present' /\ offset' = 0 /\ over' = FALSE
      BY <1>2, BeginSelects DEF Begin
    <2>2. \A r \in Selected' : Rank(Order', r) \in Nat
      BY <1>t, RankType DEF Ranking
    <2> QED BY <2>1, <2>2 DEF StillToCome
  <1>3. ASSUME NEW limit \in Limits, ReadPage(limit) PROVE StillToCome'
    <2> DEFINE P == Slice(Selected, Order, offset, limit)
    <2>1. offset \in Nat /\ limit \in Nat
      BY <1>0, PaginationAssumption DEF TypeOK
    <2>2. /\ present' = present /\ listed' = listed \cup P /\ offset' = offset + Cardinality(P)
          /\ over' = (Cardinality(P) < limit) /\ moved' = moved /\ fallen' = fallen
          /\ Order' = Order /\ Selected' = Selected
      BY <1>0, <1>3, <2>1, PageIsSlice, ReadUndisturbed DEF ReadPage, history, Undisturbed
    <2>3. /\ Cardinality(P) \in Nat /\ Cardinality(P) <= limit
          /\ \A r \in Selected : offset <= Rank(Order, r) /\ Cardinality(P) < limit => r \in P
      BY <1>t, <2>1, SliceSize
    <2>4. ASSUME ~fallen', NEW r \in present' \ (listed' \cup moved')
          PROVE  ~over' /\ offset' <= Rank(Order', r)
      <3>1. r \in Selected /\ r \notin P /\ offset <= Rank(Order, r)
        BY <1>0, <2>2, <2>4 DEF StillToCome, Selecting
      <3>2. ~(Cardinality(P) < limit)
        BY <2>3, <3>1
      <3>3. Rank(Order, r) \in Nat
        BY <1>t, <3>1, RankType
      <3>4. Cardinality(P) = limit
        BY <2>1, <2>3, <3>2
      <3>5. ~(Rank(Order, r) < offset + limit)
        BY <3>1 DEF Slice
      <3>6. offset + limit <= Rank(Order, r)
        BY <2>1, <3>3, <3>5
      <3>7. Rank(Order', r) = Rank(Order, r) /\ offset' = offset + limit /\ ~over'
        <4> HIDE DEF P
        <4>1. Rank(Order', r) = Rank(Order, r)
          BY <2>2 DEF Rank
        <4>2. offset' = offset + limit
          BY <2>2, <3>4
        <4>3. ~over'
          BY <2>2, <3>2, Zenon
        <4> QED BY <4>1, <4>2, <4>3
      <3> QED BY <3>6, <3>7
    <2> QED BY <2>4 DEF StillToCome
  <1>4. CASE Write
    <2>1. CASE table = "none"
      <3>1. present' = {}
        BY <1>0, <1>4, <2>1 DEF Begun, Write, TakeChat, GetChat, CreateMessage, Tick, walkVars
      <3> QED BY <3>1 DEF StillToCome
    <2>2. CASE table # "none"
      <3>1. UNCHANGED walkVars /\ moved \subseteq moved' /\ (fallen => fallen') /\ PushedBack
        BY <1>0, <1>4, <2>2, WriteEffect
      <3>2. ASSUME ~fallen', NEW r \in present' \ (listed' \cup moved')
            PROVE  ~over' /\ offset' <= Rank(Order', r)
        <4>1. r \in Selected \ moved' /\ ~over /\ offset <= Rank(Order, r)
          BY <1>0, <3>1, <3>2 DEF StillToCome, Selecting, walkVars
        <4>2. r \in Selected' /\ Order[r] \subseteq Order'[r]
          BY <3>1, <3>2, <4>1 DEF PushedBack
        <4>3. (Ranking(Selected, Order))' <=> Ranking(Selected', Order')
          BY DEF Ranking
        <4>4. Rank(Order, r) <= Rank(Order', r) /\ Rank(Order, r) \in Nat /\ Rank(Order', r) \in Nat
          BY <1>t, <4>1, <4>2, <4>3, RankGrows, RankType
        <4>5. over' = over /\ offset' = offset /\ offset \in Nat
          BY <1>0, <3>1 DEF walkVars, TypeOK
        <4> QED BY <4>1, <4>4, <4>5
      <3> QED BY <3>2 DEF StillToCome
    <2> QED BY <2>1, <2>2
  <1> QED BY <1>1, <1>2, <1>3, <1>4, StepKinds

(* Whatever the writers store between two pages, a walk that reaches the   *)
(* last page has shown every row it found, but for chats written to during *)
(* the walk, as long as no write takes a chat back in time.                *)
THEOREM WalkMissesNothing == Spec => []NoneMissed
  <1>1. Init => MissedInv
    BY InitWalkInv DEF Init, MissedInv, StillToCome
  <1>2. MissedInv /\ [Next]_vars => MissedInv'
    BY MissedInvStep
  <1>3. MissedInv => NoneMissed
    BY DEF MissedInv, StillToCome, NoneMissed
  <1> QED BY <1>1, <1>2, <1>3, PTL DEF Spec

-------------------------------------------------------------------------------
LEMMA RepeatInvStep ==
  ASSUME RepeatInv, [Next]_vars
  PROVE  RepeatInv'
  <1>0. TypeOK /\ WalkInv /\ Begun /\ Selecting /\ WalkInv'
    BY WalkInvStep DEF RepeatInv, WalkInv
  <1>t. TypeOK' /\ Ranking(Selected, Order) /\ Ranking(Selected', Order')
    <2>1. TypeOK'
      BY <1>0 DEF WalkInv
    <2>2. Ranking(Selected, Order)
      BY <1>0, ListingIsRanking
    <2>3. (Ranking(Selected, Order))'
      BY <2>1, ListingIsRanking, PTL
    <2>4. (Ranking(Selected, Order))' <=> Ranking(Selected', Order')
      BY DEF Ranking
    <2> QED BY <2>1, <2>2, <2>3, <2>4
  <1>n. /\ offset \in Nat /\ pushes \in Nat /\ offset' \in Nat /\ pushes' \in Nat
        /\ listed \subseteq Selected /\ listed' \subseteq Selected'
    BY <1>0, <1>t DEF TypeOK, WalkInv, Selecting
  <1>k. IsFiniteSet(ShownBefore) /\ Cardinality(ShownBefore) \in Nat
    <2>1. ShownBefore \subseteq Selected /\ IsFiniteSet(Selected)
      BY <1>t, <1>n DEF ShownBefore, Before, Ranking
    <2> QED BY <2>1, FS_Subset, FS_CardinalityType
  <1>l. IsFiniteSet(ShownBefore') /\ Cardinality(ShownBefore') \in Nat
    <2>1. ShownBefore' \subseteq Selected' /\ IsFiniteSet(Selected')
      BY <1>t, <1>n DEF ShownBefore, Before, Ranking
    <2> QED BY <2>1, FS_Subset, FS_CardinalityType
  <1>i. offset <= Cardinality(ShownBefore) + pushes
    BY DEF RepeatInv
  <1> SUFFICES offset' <= Cardinality(ShownBefore') + pushes'
    BY <1>0 DEF RepeatInv
  <1>1. CASE UNCHANGED vars
    <2>1. ShownBefore' = ShownBefore /\ offset' = offset /\ pushes' = pushes
      BY <1>1, Unmoved DEF Undisturbed, ShownBefore, Before, Rank, vars, walkVars, history
    <2> QED BY <1>i, <2>1
  <1>2. ASSUME NEW t \in {"chats", "messages"}, NEW f \in SUBSET Chats, Begin(t, f)
        PROVE  offset' <= Cardinality(ShownBefore') + pushes'
    <2>1. offset' = 0
      BY <1>2 DEF Begin
    <2> QED BY <1>l, <1>n, <2>1
  <1>3. ASSUME NEW limit \in Limits, ReadPage(limit)
        PROVE  offset' <= Cardinality(ShownBefore') + pushes'
    <2> DEFINE P == Slice(Selected, Order, offset, limit)
    <2>1. limit \in Nat
      BY PaginationAssumption
    <2>2. /\ listed' = listed \cup P /\ offset' = offset + Cardinality(P) /\ pushes' = pushes
          /\ Order' = Order
      BY <1>0, <1>3, <2>1, PageIsSlice, ReadUndisturbed DEF ReadPage, history, Undisturbed
    <2>3. /\ IsFiniteSet(P) /\ Cardinality(P) \in Nat
          /\ \A r \in P : Rank(Order, r) < offset + Cardinality(P)
      BY <1>t, <1>n, <2>1, SliceSize
    <2>4. \A r \in Selected : Rank(Order, r) \in Nat
      BY <1>t, RankType
    <2>5. ShownBefore \cap P = {}
      BY <1>n, <2>4 DEF ShownBefore, Before, Slice
    <2>6. ShownBefore \cup P \subseteq ShownBefore'
      <3>1. \A r \in ShownBefore : r \in listed /\ Rank(Order, r) < offset + Cardinality(P)
        <4>1. \A r \in ShownBefore : r \in listed /\ Rank(Order, r) \in Nat /\ Rank(Order, r) < offset
          BY <1>n, <2>4 DEF ShownBefore, Before
        <4> HIDE DEF P
        <4> QED BY <1>n, <2>3, <4>1
      <3> HIDE DEF P
      <3> QED BY <2>2, <2>3, <3>1 DEF ShownBefore, Before
    <2>7. Cardinality(ShownBefore \cup P) = Cardinality(ShownBefore) + Cardinality(P)
      <3>1. Cardinality(ShownBefore \cap P) = 0
        BY <2>5, FS_EmptySet
      <3> HIDE DEF P
      <3>2. Cardinality(ShownBefore \cup P)
              = Cardinality(ShownBefore) + Cardinality(P) - Cardinality(ShownBefore \cap P)
        BY <1>k, <2>3, FS_Union
      <3> QED BY <1>k, <2>3, <3>1, <3>2
    <2>8. Cardinality(ShownBefore \cup P) <= Cardinality(ShownBefore')
      <3> HIDE DEF P
      <3> QED BY <1>l, <2>6, FS_Subset
    <2> HIDE DEF P
    <2> QED BY <1>i, <1>k, <1>l, <1>n, <2>2, <2>3, <2>7, <2>8
  <1>4. CASE Write
    <2>1. CASE table = "none"
      <3>1. offset' = 0
        BY <1>0, <1>4, <2>1 DEF Begun, Write, TakeChat, GetChat, CreateMessage, Tick, walkVars
      <3> QED BY <1>l, <1>n, <3>1
    <2>2. CASE table # "none"
      <3>1. /\ listed' = listed /\ offset' = offset
            /\ \/ Undisturbed /\ pushes' = pushes
               \/ pushes' = pushes + 1 /\ \E c : RowPut(c)
        BY <1>0, <1>4, <2>2, WriteEffect DEF walkVars
      <3>2. CASE Undisturbed /\ pushes' = pushes
        <4>1. ShownBefore' = ShownBefore
          BY <3>1, <3>2 DEF ShownBefore, Before, Undisturbed, Rank
        <4> QED BY <1>i, <3>1, <3>2, <4>1
      <3>3. ASSUME pushes' = pushes + 1, NEW c, RowPut(c)
            PROVE  offset' <= Cardinality(ShownBefore') + pushes'
        <4>1. /\ Selected \subseteq Selected'
              /\ \A r \in Selected \ {c} : Order'[r] \subseteq Order[r] \cup {c}
          BY <3>3 DEF RowPut
        <4>2. Cardinality(Before(listed, Order, offset)) <= Cardinality(Before(listed, Order', offset)) + 1
          BY <1>t, <1>n, <4>1, OneRowMoves
        <4>3. ShownBefore = Before(listed, Order, offset) /\ ShownBefore' = Before(listed, Order', offset)
          BY <3>1 DEF ShownBefore, Before, Rank
        <4>4. Cardinality(ShownBefore) <= Cardinality(ShownBefore') + 1
          BY <4>2, <4>3
        <4> QED BY <1>i, <1>k, <1>l, <1>n, <3>1, <3>3, <4>4
      <3> QED BY <3>1, <3>2, <3>3
    <2> QED BY <2>1, <2>2
  <1> QED BY <1>1, <1>2, <1>3, <1>4, StepKinds

(* A walk shows rows again at most once for each write to what it lists:   *)
(* a page never starts before its cursor, and a write pushes at most one   *)
(* row that was shown back behind the cursor.                              *)
THEOREM WalkRepeatsLittle == Spec => []RepeatsBounded
  <1>1. Init => RepeatInv
    <2> SUFFICES ASSUME Init PROVE RepeatInv
      OBVIOUS
    <2>1. WalkInv /\ offset = 0 /\ pushes = 0 /\ ShownBefore = {}
      BY InitWalkInv DEF Init, ShownBefore, Before
    <2> QED BY <2>1, FS_EmptySet DEF RepeatInv
  <1>2. RepeatInv /\ [Next]_vars => RepeatInv'
    BY RepeatInvStep
  <1>3. RepeatInv => RepeatsBounded
    <2> SUFFICES ASSUME RepeatInv PROVE RepeatsBounded
      OBVIOUS
    <2>1. ShownBefore \subseteq listed /\ IsFiniteSet(listed) /\ offset \in Nat /\ pushes \in Nat
      <3>1. listed \subseteq Selected /\ IsFiniteSet(Selected)
        BY ListingIsRanking DEF RepeatInv, WalkInv, Selecting, Ranking
      <3> QED BY <3>1, FS_Subset DEF RepeatInv, WalkInv, TypeOK, ShownBefore, Before
    <2>2. /\ Cardinality(ShownBefore) <= Cardinality(listed)
          /\ Cardinality(ShownBefore) \in Nat /\ Cardinality(listed) \in Nat
      BY <2>1, FS_Subset, FS_CardinalityType
    <2> QED BY <2>1, <2>2 DEF RepeatInv, RepeatsBounded
  <1> QED BY <1>1, <1>2, <1>3, PTL DEF Spec
===============================================================================
