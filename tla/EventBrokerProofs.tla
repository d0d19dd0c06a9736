--------------------------- MODULE EventBrokerProofs ---------------------------
(***************************************************************************)
(* What holds of EventBroker for any publishers, programs and streams,     *)
(* every capacity of the queues and any number of executor threads.        *)
(***************************************************************************)
EXTENDS EventBroker, SequenceTheorems, FiniteSetTheorems, TLAPS

-------------------------------------------------------------------------------
(***************************************************************************)
(* Sequences without repetitions: jobs, subscribers, and what passes       *)
(* through a stream.                                                       *)
(***************************************************************************)
(* t is s less its k-th element. *)
Dropped(s, t, k) ==
  /\ k \in 1..Len(s) /\ Len(t) = Len(s) - 1
  /\ \A i \in 1..(Len(s) - 1) : t[i] = IF i < k THEN s[i] ELSE s[i + 1]

LEMMA RemoveAtIs ==
  ASSUME NEW S, NEW s \in Seq(S), NEW k \in 1..Len(s)
  PROVE  RemoveAt(s, k) \in Seq(S) /\ Dropped(s, RemoveAt(s, k), k)
  <1>0. Len(s) \in Nat /\ k \in Nat /\ 1 <= k /\ k <= Len(s)
    BY LenProperties
  <1>1. /\ SubSeq(s, 1, k - 1) \in Seq(S) /\ Len(SubSeq(s, 1, k - 1)) = k - 1
        /\ \A i \in 1..(k - 1) : SubSeq(s, 1, k - 1)[i] = s[i]
    <2>1. \A i \in 1..(k - 1) : s[i] \in S
      BY <1>0, ElementOfSeq
    <2>2. 1 \in Int /\ k - 1 \in Int
      BY <1>0
    <2>3. /\ SubSeq(s, 1, k - 1) \in Seq(S)
          /\ Len(SubSeq(s, 1, k - 1)) = IF 1 <= k - 1 THEN k - 1 - 1 + 1 ELSE 0
          /\ \A i \in 1..(k - 1 - 1 + 1) : SubSeq(s, 1, k - 1)[i] = s[1 + i - 1]
      BY <2>1, <2>2, SubSeqProperties
    <2> QED BY <1>0, <2>3
  <1>2. /\ SubSeq(s, k + 1, Len(s)) \in Seq(S) /\ Len(SubSeq(s, k + 1, Len(s))) = Len(s) - k
        /\ \A i \in 1..(Len(s) - k) : SubSeq(s, k + 1, Len(s))[i] = s[k + i]
    <2>1. \A i \in (k + 1)..Len(s) : s[i] \in S
      BY <1>0, ElementOfSeq
    <2>2. k + 1 \in Int /\ Len(s) \in Int
      BY <1>0
    <2>3. /\ SubSeq(s, k + 1, Len(s)) \in Seq(S)
          /\ Len(SubSeq(s, k + 1, Len(s))) = IF k + 1 <= Len(s) THEN Len(s) - (k + 1) + 1 ELSE 0
          /\ \A i \in 1..(Len(s) - (k + 1) + 1) : SubSeq(s, k + 1, Len(s))[i] = s[k + 1 + i - 1]
      BY <2>1, <2>2, SubSeqProperties
    <2> QED BY <1>0, <2>3
  <1> DEFINE a == SubSeq(s, 1, k - 1)
             b == SubSeq(s, k + 1, Len(s))
  <1>3. RemoveAt(s, k) = a \o b
    BY DEF RemoveAt
  <1>a. /\ a \in Seq(S) /\ Len(a) = k - 1 /\ \A i \in 1..(k - 1) : a[i] = s[i]
        /\ b \in Seq(S) /\ Len(b) = Len(s) - k /\ \A i \in 1..(Len(s) - k) : b[i] = s[k + i]
    BY <1>1, <1>2
  <1> HIDE DEF a, b
  <1>4. /\ a \o b \in Seq(S) /\ Len(a \o b) = Len(a) + Len(b)
        /\ \A i \in 1..(Len(a) + Len(b)) : (a \o b)[i] = IF i <= Len(a) THEN a[i] ELSE b[i - Len(a)]
    BY <1>a, ConcatProperties
  <1>5. Len(a \o b) = Len(s) - 1
    BY <1>0, <1>a, <1>4
  <1>6. ASSUME NEW i \in 1..(Len(s) - 1)
        PROVE  (a \o b)[i] = IF i < k THEN s[i] ELSE s[i + 1]
    <2>1. CASE i < k
      BY <1>0, <1>a, <1>4, <2>1
    <2>2. CASE ~(i < k)
      <3>1. /\ i \in 1..(Len(a) + Len(b)) /\ ~(i <= Len(a))
            /\ i - Len(a) \in 1..(Len(s) - k) /\ k + (i - Len(a)) = i + 1
        BY <1>0, <1>a, <2>2
      <3> QED BY <1>a, <1>4, <2>2, <3>1
    <2> QED BY <2>1, <2>2
  <1> QED BY <1>0, <1>3, <1>4, <1>5, <1>6 DEF Dropped

(* A sequence without repetitions less its k-th element: none is repeated  *)
(* and the others keep their order.                                        *)
LEMMA DropOne ==
  ASSUME NEW S, NEW s \in Seq(S), NEW t \in Seq(S), NEW k, Dropped(s, t, k), IsInjective(s)
  PROVE  /\ IsInjective(t)
         /\ \A x : x \in ToSet(t) <=> x \in ToSet(s) /\ x # s[k]
         /\ \A i, j \in DOMAIN t : i < j =>
              \E m, n \in DOMAIN s : m < n /\ s[m] = t[i] /\ s[n] = t[j]
  <1>0. /\ Len(s) \in Nat /\ DOMAIN s = 1..Len(s) /\ k \in Nat /\ 1 <= k /\ k <= Len(s)
        /\ DOMAIN t = 1..(Len(s) - 1)
        /\ \A i \in 1..(Len(s) - 1) : t[i] = IF i < k THEN s[i] ELSE s[i + 1]
    BY LenProperties DEF Dropped
  <1> DEFINE at(i) == IF i < k THEN i ELSE i + 1
  <1>1. \A i \in DOMAIN t : at(i) \in DOMAIN s /\ at(i) # k /\ t[i] = s[at(i)]
    BY <1>0
  <1>2. \A i, j \in DOMAIN t : i < j => at(i) < at(j)
    BY <1>0
  <1>3. IsInjective(t)
    <2> SUFFICES ASSUME NEW i \in DOMAIN t, NEW j \in DOMAIN t, t[i] = t[j] PROVE i = j
      BY DEF IsInjective
    <2>1. at(i) = at(j)
      BY <1>1 DEF IsInjective
    <2> QED BY <1>0, <2>1
  <1>4. ToSet(t) \subseteq ToSet(s) \ {s[k]}
    <2> SUFFICES ASSUME NEW i \in DOMAIN t PROVE t[i] \in ToSet(s) /\ t[i] # s[k]
      BY DEF ToSet
    <2>1. at(i) \in DOMAIN s /\ at(i) # k /\ t[i] = s[at(i)]
      BY <1>1
    <2> HIDE DEF at
    <2> QED BY <1>0, <2>1 DEF ToSet, IsInjective
  <1>5. ASSUME NEW j \in DOMAIN s, s[j] # s[k] PROVE s[j] \in ToSet(t)
    <2>1. j # k
      BY <1>5
    <2>2. CASE j < k
      BY <1>0, <2>2 DEF ToSet
    <2>3. CASE j > k
      <3>1. j - 1 \in DOMAIN t /\ t[j - 1] = s[j]
        BY <1>0, <2>3
      <3> QED BY <3>1 DEF ToSet
    <2> QED BY <1>0, <2>1, <2>2, <2>3
  <1>6. ToSet(s) \ {s[k]} \subseteq ToSet(t)
    BY <1>5 DEF ToSet
  <1> HIDE DEF at
  <1> QED BY <1>1, <1>2, <1>3, <1>4, <1>6

LEMMA RemoveFirstIs ==
  ASSUME NEW S, NEW s \in Seq(S), NEW e, IsInjective(s)
  PROVE  /\ RemoveFirst(s, e) \in Seq(S) /\ IsInjective(RemoveFirst(s, e))
         /\ ToSet(RemoveFirst(s, e)) = ToSet(s) \ {e}
  <1>0. Len(s) \in Nat /\ DOMAIN s = 1..Len(s)
    BY LenProperties
  <1>1. CASE e \notin ToSet(s)
    <2>1. RemoveFirst(s, e) = s
      BY <1>0, <1>1 DEF RemoveFirst, ToSet
    <2> QED BY <1>1, <2>1
  <1>2. CASE e \in ToSet(s)
    <2>1. PICK k \in 1..Len(s) : s[k] = e
      BY <1>0, <1>2 DEF ToSet
    <2>2. {i \in 1..Len(s) : s[i] = e} = {k}
      BY <1>0, <2>1 DEF IsInjective
    <2>3. Min({k}) = k
      BY <1>0, <2>1 DEF Min
    <2>4. SelectInSeq(s, LAMBDA v : v = e) = k
      BY <2>2, <2>3 DEF SelectInSeq
    <2>5. RemoveFirst(s, e) = RemoveAt(s, k)
      BY <2>1, <2>4 DEF RemoveFirst
    <2>6. RemoveAt(s, k) \in Seq(S) /\ Dropped(s, RemoveAt(s, k), k)
      BY RemoveAtIs
    <2>7. /\ IsInjective(RemoveAt(s, k))
          /\ \A x : x \in ToSet(RemoveAt(s, k)) <=> x \in ToSet(s) /\ x # s[k]
      BY <2>6, DropOne
    <2> QED BY <2>1, <2>5, <2>6, <2>7
  <1> QED BY <1>1, <1>2

LEMMA TailIs ==
  ASSUME NEW S, NEW s \in Seq(S), s # <<>>, IsInjective(s)
  PROVE  /\ Tail(s) \in Seq(S) /\ IsInjective(Tail(s))
         /\ ToSet(Tail(s)) = ToSet(s) \ {Head(s)}
         /\ Head(s) \in ToSet(s) /\ Head(s) \in S
  <1>1. /\ Len(s) \in Nat \ {0} /\ Head(s) = s[1] /\ DOMAIN s = 1..Len(s) /\ Head(s) \in S
        /\ Tail(s) \in Seq(S) /\ Len(Tail(s)) = Len(s) - 1
        /\ \A i \in 1..Len(Tail(s)) : Tail(s)[i] = s[i + 1]
    BY HeadTailProperties, EmptySeq, LenProperties DEF Head
  <1>2. 1 \in 1..Len(s) /\ \A i \in 1..(Len(s) - 1) : Tail(s)[i] = IF i < 1 THEN s[i] ELSE s[i + 1]
    BY <1>1
  <1>3. PICK k \in 1..Len(s) : k = 1
    BY <1>2
  <1>4. Dropped(s, Tail(s), k) /\ s[k] = Head(s)
    BY <1>1, <1>2, <1>3 DEF Dropped
  <1>a. ASSUME NEW t \in Seq(S), Dropped(s, t, k)
        PROVE  IsInjective(t) /\ ToSet(t) = ToSet(s) \ {s[k]}
    <2>1. IsInjective(t) /\ \A x : x \in ToSet(t) <=> x \in ToSet(s) /\ x # s[k]
      BY <1>a, DropOne
    <2> QED BY <2>1
  <1>5. ToSet(Tail(s)) = ToSet(s) \ {Head(s)}
    BY <1>1, <1>4, <1>a
  <1>6. Head(s) \in ToSet(s)
    BY <1>1, <1>2 DEF ToSet
  <1> QED BY <1>1, <1>4, <1>5, <1>6, <1>a

LEMMA AppendIs ==
  ASSUME NEW S, NEW s \in Seq(S), NEW e \in S
  PROVE  /\ Append(s, e) \in Seq(S) /\ Len(Append(s, e)) = Len(s) + 1 /\ Len(s) \in Nat
         /\ Last(Append(s, e)) = e /\ Append(s, e) # <<>>
         /\ ToSet(Append(s, e)) = ToSet(s) \cup {e}
         /\ IsInjective(s) /\ e \notin ToSet(s) => IsInjective(Append(s, e))
         /\ DOMAIN s = 1..Len(s) /\ DOMAIN Append(s, e) = 1..(Len(s) + 1)
         /\ \A i \in 1..Len(s) : Append(s, e)[i] = s[i]
         /\ Append(s, e)[Len(s) + 1] = e
  <1>1. /\ Append(s, e) \in Seq(S) /\ Len(Append(s, e)) = Len(s) + 1 /\ Len(s) \in Nat
        /\ \A i \in 1..Len(s) : Append(s, e)[i] = s[i]
        /\ Append(s, e)[Len(s) + 1] = e
    BY AppendProperties, LenProperties
  <1>2. DOMAIN s = 1..Len(s) /\ DOMAIN Append(s, e) = 1..(Len(s) + 1)
    BY <1>1, LenProperties
  <1>3. ToSet(Append(s, e)) = ToSet(s) \cup {e}
    BY <1>1, <1>2 DEF ToSet
  <1>4. IsInjective(s) /\ e \notin ToSet(s) => IsInjective(Append(s, e))
    BY <1>1, <1>2 DEF ToSet, IsInjective
  <1>5. Last(Append(s, e)) = e
    BY <1>1 DEF Last
  <1>6. Append(s, e) # <<>>
    <2>1. Len(Append(s, e)) # 0 /\ Len(<<>>) = 0
      BY <1>1, EmptySeq
    <2> QED BY <2>1
  <1> QED BY <1>1, <1>2, <1>3, <1>4, <1>5, <1>6

-------------------------------------------------------------------------------
(***************************************************************************)
(* The shape of the system: who is subscribed, which jobs there are, what  *)
(* is in hand, and how far each publisher is.                              *)
(***************************************************************************)
Behind(left, program) ==
  /\ Len(left) <= Len(program)
  /\ \A i \in DOMAIN left : left[i] = program[Len(program) - Len(left) + i]

GoodPublisher(p, r) ==
  /\ r \in PublisherState
  /\ r.step # "idle" => r.targets # <<>> /\ IsInjective(r.targets) /\ r.left # <<>>
  /\ r.step \in {"evict", "again"} => Head(r.left) \in Wants[Head(r.targets)]
  /\ Behind(r.left, Program[p])

Publishing == /\ DOMAIN pub = Publishers
              /\ \A p \in Publishers : GoodPublisher(p, pub[p])

Connected ==
  /\ IsInjective(subscribers) /\ ToSet(subscribers) = {s \in Streams : stream[s] = "open"}
  /\ \A s \in Streams :
       /\ loop[s] \in {"queued", "send"} => stream[s] = "open"
       /\ stream[s] = "new" => loop[s] = "none"
       /\ stream[s] = "new" \/ loop[s] \in {"queued", "get"} => hand[s] = <<>>
  /\ IsFiniteSet(Busy)

BrokerInv == TypeOK /\ Publishing /\ Connected

LEMMA InitBrokerInv == Init => BrokerInv
  <1> SUFFICES ASSUME Init PROVE BrokerInv
    OBVIOUS
  <1> USE BrokerAssumption
  <1>1. ToSet(<<>>) = {} /\ IsInjective(<<>>) /\ \A S : <<>> \in Seq(S)
    BY EmptySeq DEF ToSet, IsInjective
  <1>2. Len(<<>>) <= Capacity
    OBVIOUS
  <1>3. Busy = {}
    BY DEF Init, Busy
  <1>4. Cardinality(Busy) <= Workers /\ IsFiniteSet(Busy)
    <2>1. Cardinality(Busy) = 0 /\ IsFiniteSet(Busy)
      BY <1>3, FS_EmptySet
    <2> QED BY <2>1
  <1>5. ASSUME NEW p \in Publishers PROVE GoodPublisher(p, pub[p])
    <2>1. pub[p] = [step |-> "idle", left |-> Program[p], targets |-> <<>>] /\ Program[p] \in Seq(Events)
      BY DEF Init
    <2>2. pub[p] \in PublisherState
      BY <1>1, <2>1 DEF PublisherState
    <2>3. Behind(Program[p], Program[p])
      BY <2>1, LenProperties DEF Behind
    <2> QED BY <2>1, <2>2, <2>3 DEF GoodPublisher
  <1>6. Publishing
    BY <1>5 DEF Init, Publishing
  <1>7. pub \in [Publishers -> PublisherState]
    BY <1>5 DEF Init, GoodPublisher
  <1>8. TypeOK
    BY <1>1, <1>2, <1>4, <1>7 DEF Init, TypeOK
  <1>9. Connected
    BY <1>1, <1>4 DEF Init, Connected
  <1> QED BY <1>6, <1>8, <1>9 DEF BrokerInv

-------------------------------------------------------------------------------
(* Moving on to the next target, or out of publish. *)
LEMMA BehindTail ==
  ASSUME NEW S, NEW left \in Seq(S), NEW program \in Seq(S), left # <<>>, Behind(left, program)
  PROVE  Tail(left) \in Seq(S) /\ Behind(Tail(left), program)
  <1>1. /\ Len(left) \in Nat \ {0} /\ DOMAIN left = 1..Len(left)
        /\ Tail(left) \in Seq(S) /\ Len(Tail(left)) = Len(left) - 1
        /\ DOMAIN Tail(left) = 1..(Len(left) - 1)
        /\ \A i \in 1..Len(Tail(left)) : Tail(left)[i] = left[i + 1]
        /\ Len(program) \in Nat
    BY HeadTailProperties, EmptySeq, LenProperties
  <1>2. ASSUME NEW i \in DOMAIN Tail(left)
        PROVE  Tail(left)[i] = program[Len(program) - Len(Tail(left)) + i]
    <2>1. /\ Tail(left)[i] = left[i + 1] /\ i + 1 \in DOMAIN left
          /\ Len(program) - Len(left) + (i + 1) = Len(program) - Len(Tail(left)) + i
      BY <1>1
    <2> QED BY <2>1 DEF Behind
  <1>3. Len(Tail(left)) <= Len(program)
    BY <1>1 DEF Behind
  <1> QED BY <1>1, <1>2, <1>3 DEF Behind

LEMMA AfterTargetIs ==
  ASSUME NEW p \in Publishers, NEW r, GoodPublisher(p, r), r.step # "idle"
  PROVE  LET n == AfterTarget(r)
         IN  /\ GoodPublisher(p, n)
             /\ \/ /\ n.step = "idle" /\ n.left = Tail(r.left)
                   /\ ToSet(r.targets) = {Head(r.targets)}
                \/ /\ n.step = "put" /\ n.left = r.left
                   /\ ToSet(n.targets) = ToSet(r.targets) \ {Head(r.targets)}
  <1>1. /\ r \in PublisherState /\ r.targets \in Seq(Streams) /\ r.left \in Seq(Events)
        /\ r.targets # <<>> /\ IsInjective(r.targets) /\ r.left # <<>>
        /\ Program[p] \in Seq(Events) /\ Behind(r.left, Program[p])
    BY BrokerAssumption DEF GoodPublisher, PublisherState
  <1>2. /\ Len(r.targets) \in Nat \ {0} /\ Tail(r.targets) \in Seq(Streams)
        /\ Len(Tail(r.targets)) = Len(r.targets) - 1
        /\ IsInjective(Tail(r.targets))
        /\ ToSet(Tail(r.targets)) = ToSet(r.targets) \ {Head(r.targets)}
        /\ Head(r.targets) \in ToSet(r.targets)
    BY <1>1, TailIs, EmptySeq, HeadTailProperties
  <1>3. CASE Len(r.targets) = 1
    <2>1. AfterTarget(r) = [step |-> "idle", left |-> Tail(r.left), targets |-> <<>>]
      BY <1>3 DEF AfterTarget, Returned
    <2>2. Tail(r.left) \in Seq(Events) /\ Behind(Tail(r.left), Program[p])
      BY <1>1, BehindTail
    <2>3. \A x \in ToSet(r.targets) : x = Head(r.targets)
      <3>1. Head(r.targets) = r.targets[1] /\ DOMAIN r.targets = 1..1
        BY <1>1, <1>3, LenProperties DEF Head
      <3> QED BY <3>1 DEF ToSet
    <2>4. <<>> \in Seq(Streams)
      BY EmptySeq
    <2>5. GoodPublisher(p, AfterTarget(r))
      BY <2>1, <2>2, <2>4 DEF GoodPublisher, PublisherState
    <2> QED BY <1>2, <2>1, <2>3, <2>5
  <1>4. CASE Len(r.targets) # 1
    <2>1. Tail(r.targets) # <<>>
      <3>1. Len(Tail(r.targets)) # 0 /\ Len(<<>>) = 0
        BY <1>2, <1>4, EmptySeq
      <3> QED BY <3>1
    <2> DEFINE n == AfterTarget(r)
    <2>2. n = [r EXCEPT !.step = "put", !.targets = Tail(r.targets)]
      BY <1>4 DEF AfterTarget
    <2>3. n \in PublisherState /\ n.step = "put" /\ n.left = r.left /\ n.targets = Tail(r.targets)
      BY <1>1, <1>2, <2>2 DEF PublisherState
    <2>4. GoodPublisher(p, n)
      BY <1>1, <1>2, <2>1, <2>3 DEF GoodPublisher
    <2> QED BY <1>2, <2>3, <2>4
  <1> QED BY <1>3, <1>4

LEMMA NextTargetEffect ==
  ASSUME BrokerInv, NEW p \in Publishers, pub[p].step # "idle", NextTarget(p)
  PROVE  /\ Publishing' /\ pub'[p] = AfterTarget(pub[p])
         /\ \A q \in Publishers : q # p => pub'[q] = pub[q]
  <1>1. /\ DOMAIN pub' = Publishers /\ pub'[p] = AfterTarget(pub[p])
        /\ \A q \in Publishers : q # p => pub'[q] = pub[q]
    <2>1. DOMAIN pub = Publishers
      BY DEF BrokerInv, Publishing
    <2>2. pub' = [pub EXCEPT ![p] = AfterTarget(pub[p])]
      BY DEF NextTarget
    <2> QED BY <2>1, <2>2
  <1>2. GoodPublisher(p, pub'[p])
    BY <1>1, AfterTargetIs DEF BrokerInv, Publishing
  <1> QED BY <1>1, <1>2 DEF BrokerInv, Publishing

LEMMA GoEffect ==
  ASSUME BrokerInv, NEW p \in Publishers, NEW step \in {"evict", "again"}, pub[p].step # "idle",
         Event(p) \in Wants[Target(p)], Go(p, step)
  PROVE  /\ Publishing' /\ pub'[p].step = step
         /\ pub'[p].left = pub[p].left /\ pub'[p].targets = pub[p].targets
         /\ \A q \in Publishers : q # p => pub'[q] = pub[q]
  <1>1. /\ DOMAIN pub' = Publishers /\ pub'[p] = [pub[p] EXCEPT !.step = step]
        /\ \A q \in Publishers : q # p => pub'[q] = pub[q]
    BY DEF Go, BrokerInv, Publishing
  <1>2. GoodPublisher(p, pub[p]) /\ pub[p] \in PublisherState
    BY DEF BrokerInv, Publishing, GoodPublisher
  <1>3. /\ pub'[p] \in PublisherState /\ pub'[p].step = step
        /\ pub'[p].left = pub[p].left /\ pub'[p].targets = pub[p].targets
    BY <1>1, <1>2 DEF PublisherState
  <1>4. GoodPublisher(p, pub'[p])
    BY <1>2, <1>3 DEF GoodPublisher, Event, Target
  <1> QED BY <1>1, <1>3, <1>4 DEF BrokerInv, Publishing

(* What a publisher has in hand. *)
LEMMA InHand ==
  ASSUME BrokerInv, NEW p \in Publishers, pub[p].step # "idle"
  PROVE  /\ Event(p) \in Events /\ Target(p) \in Streams /\ Target(p) \in ToSet(pub[p].targets)
         /\ pub[p].left # <<>> /\ pub[p].targets # <<>>
         /\ pub[p].step \in {"evict", "again"} => Event(p) \in Wants[Target(p)]
  <1>1. /\ pub[p].targets \in Seq(Streams) /\ pub[p].left \in Seq(Events)
        /\ pub[p].targets # <<>> /\ IsInjective(pub[p].targets) /\ pub[p].left # <<>>
    BY DEF BrokerInv, Publishing, GoodPublisher, PublisherState
  <1> QED BY <1>1, TailIs, HeadTailProperties
          DEF Event, Target, BrokerInv, Publishing, GoodPublisher

LEMMA PublishEffect ==
  ASSUME BrokerInv, NEW p \in Publishers, Publish(p)
  PROVE  /\ Publishing'
         /\ \A q \in Publishers : q # p => pub'[q] = pub[q]
         /\ pub[p].left # <<>> /\ Event(p) \in Events
         /\ \/ /\ subscribers = <<>> /\ pub'[p].step = "idle" /\ pub'[p].left = Tail(pub[p].left)
            \/ /\ subscribers # <<>> /\ pub'[p].step = "put" /\ pub'[p].left = pub[p].left
               /\ pub'[p].targets = subscribers
  <1>1. /\ DOMAIN pub' = Publishers
        /\ pub'[p] = IF subscribers = <<>> THEN Returned(pub[p])
                     ELSE [pub[p] EXCEPT !.step = "put", !.targets = subscribers]
        /\ \A q \in Publishers : q # p => pub'[q] = pub[q]
        /\ pub[p].step = "idle" /\ pub[p].left # <<>>
    <2>1. DOMAIN pub = Publishers
      BY DEF BrokerInv, Publishing
    <2> DEFINE r == IF subscribers = <<>> THEN Returned(pub[p])
                    ELSE [pub[p] EXCEPT !.step = "put", !.targets = subscribers]
    <2>2. pub' = [pub EXCEPT ![p] = r] /\ pub[p].step = "idle" /\ pub[p].left # <<>>
      BY DEF Publish
    <2> HIDE DEF r
    <2>3. DOMAIN pub' = Publishers /\ pub'[p] = r /\ \A q \in Publishers : q # p => pub'[q] = pub[q]
      BY <2>1, <2>2
    <2> QED BY <2>2, <2>3 DEF r
  <1>2. /\ GoodPublisher(p, pub[p]) /\ pub[p] \in PublisherState /\ pub[p].left \in Seq(Events)
        /\ Program[p] \in Seq(Events) /\ subscribers \in Seq(Streams) /\ IsInjective(subscribers)
    BY BrokerAssumption DEF BrokerInv, TypeOK, Publishing, Connected, GoodPublisher, PublisherState
  <1>3. Tail(pub[p].left) \in Seq(Events) /\ Behind(Tail(pub[p].left), Program[p])
    BY <1>1, <1>2, BehindTail DEF GoodPublisher
  <1>4. CASE subscribers = <<>>
    <2>1. /\ pub'[p] \in PublisherState /\ pub'[p].step = "idle"
          /\ pub'[p].left = Tail(pub[p].left)
      BY <1>1, <1>2, <1>3, <1>4, EmptySeq DEF PublisherState, Returned
    <2>2. GoodPublisher(p, pub'[p])
      BY <1>3, <2>1 DEF GoodPublisher
    <2>3. Event(p) \in Events
      BY <1>1, <1>2, HeadTailProperties DEF Event
    <2> QED BY <1>1, <1>4, <2>1, <2>2, <2>3 DEF BrokerInv, Publishing
  <1>5. CASE subscribers # <<>>
    <2>1. /\ pub'[p] \in PublisherState /\ pub'[p].step = "put"
          /\ pub'[p].left = pub[p].left /\ pub'[p].targets = subscribers
      BY <1>1, <1>2, <1>5 DEF PublisherState
    <2>2. GoodPublisher(p, pub'[p])
      BY <1>1, <1>2, <1>5, <2>1 DEF GoodPublisher
    <2>3. Event(p) \in Events
      BY <1>1, <1>2, HeadTailProperties DEF Event
    <2> QED BY <1>1, <1>5, <2>1, <2>2, <2>3 DEF BrokerInv, Publishing
  <1> QED BY <1>4, <1>5

(* No step takes a publisher out of shape, and only a step of its own      *)
(* changes it.                                                             *)
LEMMA PublishingStep ==
  ASSUME BrokerInv, [Next]_vars
  PROVE  Publishing'
  <1>1. CASE UNCHANGED pub
    BY <1>1 DEF BrokerInv, Publishing
  <1>2. ASSUME NEW p \in Publishers, PublisherStep(p) PROVE Publishing'
    <2>1. CASE Publish(p)
      BY <2>1, PublishEffect
    <2>2. CASE Skip(p) \/ Put(p) \/ Evict(p) \/ PutAgain(p)
      <3>1. /\ pub[p].step # "idle"
            /\ \/ NextTarget(p)
               \/ Event(p) \in Wants[Target(p)] /\ (Go(p, "evict") \/ Go(p, "again"))
        BY <2>2, InHand DEF Skip, Put, Evict, PutAgain, PutInto
      <3> QED BY <3>1, NextTargetEffect, GoEffect
    <2> QED BY <1>2, <2>1, <2>2 DEF PublisherStep
  <1> QED BY <1>1, <1>2
          DEF Next, vars, Subscribe, Get, GetTimesOut, Send, SendFails, Cancelled, StartJob

-------------------------------------------------------------------------------
(***************************************************************************)
(* Subscriptions, jobs, loops and contents, one at a time.                 *)
(***************************************************************************)
Subscriptions == /\ subscribers \in Seq(Streams) /\ stream \in [Streams -> {"new", "open", "closed"}]
                 /\ IsInjective(subscribers)
                 /\ ToSet(subscribers) = {s \in Streams : stream[s] = "open"}

Executor == /\ loop \in [Streams -> {"none", "queued", "get", "send"}]
            /\ jobs \in Seq(Streams) /\ IsInjective(jobs)
            /\ ToSet(jobs) = {s \in Streams : loop[s] = "queued"}
            /\ IsFiniteSet(Busy) /\ Cardinality(Busy) <= Workers

Loops == \A s \in Streams :
  /\ loop[s] \in {"queued", "send"} => stream[s] = "open"
  /\ stream[s] = "new" => loop[s] = "none"
  /\ stream[s] = "new" \/ loop[s] \in {"queued", "get"} => hand[s] = <<>>

Contents == /\ queue \in [Streams -> Seq(Events)] /\ \A s \in Streams : Len(queue[s]) <= Capacity
            /\ received \in [Streams -> Seq(Events)] /\ hand \in [Streams -> Seq(Events)]
            /\ evicted \in [Streams -> SUBSET Events] /\ refused \in [Streams -> SUBSET Events]
            /\ owed \in [Streams -> SUBSET Events]

LEMMA BrokerInvParts ==
  BrokerInv <=> /\ Subscriptions /\ Executor /\ Loops /\ Contents /\ Publishing
                /\ pub \in [Publishers -> PublisherState]
  BY DEF BrokerInv, TypeOK, Connected, Subscriptions, Executor, Loops, Contents

LEMMA PublisherTypes ==
  ASSUME BrokerInv, [Next]_vars
  PROVE  Publishing' /\ pub' \in [Publishers -> PublisherState]
  <1>0. Publishing' /\ pub \in [Publishers -> PublisherState]
    BY PublishingStep, BrokerInvParts
  <1>1. CASE UNCHANGED pub
    BY <1>0, <1>1
  <1>2. ASSUME NEW p \in Publishers, PublisherStep(p) PROVE pub' \in [Publishers -> PublisherState]
    <2>1. PICK r : pub' = [pub EXCEPT ![p] = r]
      BY <1>2 DEF PublisherStep, Publish, Skip, Put, Evict, PutAgain, PutInto, NextTarget, Go
    <2>2. pub'[p] = r /\ pub'[p] \in PublisherState
      BY <1>0, <2>1 DEF Publishing, GoodPublisher
    <2> QED BY <1>0, <2>1, <2>2
  <1> QED BY <1>0, <1>1, <1>2
          DEF Next, vars, Subscribe, Get, GetTimesOut, Send, SendFails, Cancelled, StartJob

LEMMA SubscriptionsStep ==
  ASSUME BrokerInv, [Next]_vars
  PROVE  Subscriptions'
  <1>0. Subscriptions
    BY BrokerInvParts
  <1>1. CASE UNCHANGED <<subscribers, stream>>
    BY <1>0, <1>1 DEF Subscriptions
  <1>2. ASSUME NEW s \in Streams, Subscribe(s) PROVE Subscriptions'
    <2>1. /\ stream[s] = "new" /\ stream' = [stream EXCEPT ![s] = "open"]
          /\ subscribers' = Append(subscribers, s)
      BY <1>2 DEF Subscribe
    <2>2. s \notin ToSet(subscribers)
      BY <1>0, <2>1 DEF Subscriptions
    <2>3. /\ subscribers' \in Seq(Streams) /\ IsInjective(subscribers')
          /\ ToSet(subscribers') = ToSet(subscribers) \cup {s}
      <3>1. subscribers \in Seq(Streams) /\ IsInjective(subscribers)
        BY <1>0 DEF Subscriptions
      <3> QED BY <2>1, <2>2, <3>1, AppendIs
    <2> QED BY <1>0, <2>1, <2>3 DEF Subscriptions
  <1>3. ASSUME NEW s \in Streams, Unsubscribe(s) PROVE Subscriptions'
    <2>1. stream' = [stream EXCEPT ![s] = "closed"] /\ subscribers' = RemoveFirst(subscribers, s)
      BY <1>3 DEF Unsubscribe
    <2>2. /\ subscribers' \in Seq(Streams) /\ IsInjective(subscribers')
          /\ ToSet(subscribers') = ToSet(subscribers) \ {s}
      <3>1. subscribers \in Seq(Streams) /\ IsInjective(subscribers)
        BY <1>0 DEF Subscriptions
      <3> QED BY <2>1, <3>1, RemoveFirstIs
    <2> QED BY <1>0, <2>1, <2>2 DEF Subscriptions
  <1> QED BY <1>1, <1>2, <1>3
          DEF Next, vars, Get, GetTimesOut, Send, SendFails, Cancelled, StartJob, PublisherStep,
              Publish, Skip, Put, Evict, PutAgain

(* A thread more, or as many as before or fewer. *)
LEMMA BusyStep ==
  ASSUME Executor, NEW b \in Streams,
         \A s \in Streams : loop'[s] = "get" => s = b \/ s \in Busy,
         loop'[b] = "get" /\ loop[b] # "get" => Cardinality(Busy) < Workers
  PROVE  IsFiniteSet(Busy') /\ Cardinality(Busy') <= Workers
  <1>0. IsFiniteSet(Busy) /\ Cardinality(Busy) \in Nat /\ Cardinality(Busy) <= Workers /\ Workers \in Nat
    BY FS_CardinalityType, BrokerAssumption DEF Executor
  <1>1. CASE Busy' \subseteq Busy
    <2>1. IsFiniteSet(Busy') /\ Cardinality(Busy') <= Cardinality(Busy)
      BY <1>0, <1>1, FS_Subset
    <2>2. Cardinality(Busy') \in Nat
      BY <2>1, FS_CardinalityType
    <2> QED BY <1>0, <2>1, <2>2
  <1>2. CASE ~(Busy' \subseteq Busy)
    <2>1. b \notin Busy /\ Busy' \subseteq Busy \cup {b} /\ Cardinality(Busy) < Workers
      BY <1>2 DEF Busy
    <2>2. IsFiniteSet(Busy \cup {b}) /\ Cardinality(Busy \cup {b}) = Cardinality(Busy) + 1
      BY <1>0, <2>1, FS_AddElement
    <2>3. IsFiniteSet(Busy') /\ Cardinality(Busy') <= Cardinality(Busy \cup {b})
      BY <2>1, <2>2, FS_Subset
    <2>4. Cardinality(Busy') \in Nat
      BY <2>3, FS_CardinalityType
    <2> QED BY <1>0, <2>1, <2>2, <2>3, <2>4
  <1> QED BY <1>1, <1>2

LEMMA SubmitStep ==
  ASSUME Executor, NEW s \in Streams, loop[s] \in {"none", "send"}, Submit(s)
  PROVE  Executor'
  <1>1. /\ jobs' = Append(jobs, s) /\ loop' = [loop EXCEPT ![s] = "queued"]
        /\ jobs \in Seq(Streams) /\ IsInjective(jobs) /\ s \notin ToSet(jobs)
    BY DEF Submit, Executor
  <1>2. jobs' \in Seq(Streams) /\ IsInjective(jobs') /\ ToSet(jobs') = ToSet(jobs) \cup {s}
    BY <1>1, AppendIs
  <1>3. /\ loop' \in [Streams -> {"none", "queued", "get", "send"}]
        /\ loop'[s] = "queued" /\ \A t \in Streams : t # s => loop'[t] = loop[t]
    BY <1>1 DEF Executor
  <1>4. IsFiniteSet(Busy') /\ Cardinality(Busy') <= Workers
    BY <1>3, BusyStep DEF Busy
  <1> QED BY <1>2, <1>3, <1>4 DEF Executor

(* A loop that goes on, or ends, without a new job. *)
LEMMA LoopStep ==
  ASSUME Executor, NEW s \in Streams, NEW l \in {"none", "get", "send"},
         l = "get" => loop[s] = "get", loop' = [loop EXCEPT ![s] = l],
         \/ loop[s] # "queued" /\ jobs' = jobs
         \/ jobs' = RemoveFirst(jobs, s)
  PROVE  Executor'
  <1>1. jobs' \in Seq(Streams) /\ IsInjective(jobs') /\ ToSet(jobs') = ToSet(jobs) \ {s}
    <2>1. jobs \in Seq(Streams) /\ IsInjective(jobs) /\ (loop[s] # "queued" => s \notin ToSet(jobs))
      BY DEF Executor
    <2>2. CASE loop[s] # "queued" /\ jobs' = jobs
      BY <2>1, <2>2
    <2>3. CASE jobs' = RemoveFirst(jobs, s)
      BY <2>1, <2>3, RemoveFirstIs
    <2> QED BY <2>2, <2>3
  <1>2. /\ loop' \in [Streams -> {"none", "queued", "get", "send"}]
        /\ loop'[s] = l /\ \A t \in Streams : t # s => loop'[t] = loop[t]
    BY DEF Executor
  <1>3. IsFiniteSet(Busy') /\ Cardinality(Busy') <= Workers
    BY <1>2, BusyStep DEF Busy
  <1> QED BY <1>1, <1>2, <1>3 DEF Executor

LEMMA ExecutorStep ==
  ASSUME BrokerInv, [Next]_vars
  PROVE  Executor'
  <1>0. Executor /\ Loops /\ Subscriptions
    BY BrokerInvParts
  <1>1. CASE UNCHANGED <<loop, jobs>>
    BY <1>0, <1>1 DEF Executor, Busy
  <1>2. ASSUME NEW s \in Streams, Subscribe(s) PROVE Executor'
    BY <1>0, <1>2, SubmitStep DEF Subscribe, Loops
  <1>3. ASSUME NEW s \in Streams, Get(s) \/ GetTimesOut(s) PROVE Executor'
    BY <1>0, <1>3, LoopStep DEF Get, GetTimesOut, JobOver
  <1>4. ASSUME NEW s \in Streams, Send(s) PROVE Executor'
    BY <1>0, <1>4, SubmitStep DEF Send
  <1>5. ASSUME NEW s \in Streams, SendFails(s) PROVE Executor'
    BY <1>0, <1>5, LoopStep DEF SendFails
  <1>6. ASSUME NEW s \in Streams, Cancelled(s) PROVE Executor'
    BY <1>0, <1>6, LoopStep DEF Cancelled
  <1>7. CASE StartJob
    <2>1. /\ jobs \in Seq(Streams) /\ IsInjective(jobs) /\ jobs # <<>>
          /\ jobs' = Tail(jobs) /\ Cardinality(Busy) < Workers
          /\ loop' = [loop EXCEPT ![Head(jobs)] = "get"]
      BY <1>0, <1>7 DEF StartJob, Executor
    <2>2. PICK s \in Streams : s = Head(jobs)
      BY <2>1, TailIs
    <2>3. jobs' \in Seq(Streams) /\ IsInjective(jobs') /\ ToSet(jobs') = ToSet(jobs) \ {s}
      BY <2>1, <2>2, TailIs
    <2>4. /\ loop' \in [Streams -> {"none", "queued", "get", "send"}]
          /\ loop'[s] = "get" /\ \A t \in Streams : t # s => loop'[t] = loop[t]
      BY <1>0, <2>1, <2>2 DEF Executor
    <2>5. IsFiniteSet(Busy') /\ Cardinality(Busy') <= Workers
      BY <1>0, <2>1, <2>4, BusyStep DEF Busy
    <2> QED BY <1>0, <2>3, <2>4, <2>5 DEF Executor
  <1> QED BY <1>1, <1>2, <1>3, <1>4, <1>5, <1>6, <1>7
          DEF Next, vars, readVars, PublisherStep, Publish, Skip, Put, Evict, PutAgain

LEMMA LoopsStep ==
  ASSUME BrokerInv, [Next]_vars
  PROVE  Loops'
  <1>0. Executor /\ Loops /\ Subscriptions /\ hand \in [Streams -> Seq(Events)]
    BY BrokerInvParts DEF Contents
  <1>1. CASE UNCHANGED <<loop, stream, hand>>
    BY <1>0, <1>1 DEF Loops
  <1>2. ASSUME NEW s \in Streams, Subscribe(s) \/ Get(s) \/ GetTimesOut(s) \/ Send(s) \/ SendFails(s) \/ Cancelled(s)
        PROVE  Loops'
    <2>1. ASSUME NEW t \in Streams, t # s
          PROVE  loop'[t] = loop[t] /\ stream'[t] = stream[t] /\ hand'[t] = hand[t]
      <3>1. loop'[t] = loop[t]
        BY <1>0, <1>2, <2>1 DEF Subscribe, Get, GetTimesOut, Send, SendFails, Cancelled, Submit, JobOver, Executor
      <3>2. stream'[t] = stream[t]
        BY <1>0, <1>2, <2>1 DEF Subscribe, Get, GetTimesOut, Send, SendFails, Cancelled, Unsubscribe, Subscriptions
      <3>3. hand'[t] = hand[t]
        BY <1>0, <1>2, <2>1 DEF Subscribe, Get, GetTimesOut, Send, SendFails, Cancelled
      <3> QED BY <3>1, <3>2, <3>3
    <2>2. /\ loop'[s] \in {"queued", "send"} => stream'[s] = "open"
          /\ stream'[s] = "new" => loop'[s] = "none"
          /\ stream'[s] = "new" \/ loop'[s] \in {"queued", "get"} => hand'[s] = <<>>
      BY <1>0, <1>2 DEF Subscribe, Get, GetTimesOut, Send, SendFails, Cancelled, Submit, Unsubscribe,
                        JobOver, Loops, Executor, Subscriptions
    <2> QED BY <1>0, <2>1, <2>2 DEF Loops
  <1>3. CASE StartJob
    <2>1. PICK s \in Streams : s = Head(jobs) /\ loop[s] = "queued"
      BY <1>0, <1>3, TailIs DEF StartJob, Executor
    <2>2. /\ \A t \in Streams : t # s => loop'[t] = loop[t]
          /\ loop'[s] = "get" /\ UNCHANGED <<stream, hand>>
      BY <1>0, <1>3, <2>1 DEF StartJob, Executor
    <2> QED BY <1>0, <2>1, <2>2 DEF Loops
  <1> QED BY <1>1, <1>2, <1>3
          DEF Next, vars, readVars, PublisherStep, Publish, Skip, Put, Evict, PutAgain

LEMMA ContentsStep ==
  ASSUME BrokerInv, [Next]_vars
  PROVE  Contents'
  <1>0. Contents /\ Loops /\ Executor /\ Capacity \in Nat \ {0}
    BY BrokerInvParts, BrokerAssumption
  <1>1. CASE UNCHANGED <<queue, received, hand, evicted, refused, owed>>
    BY <1>0, <1>1 DEF Contents
  <1>2. ASSUME NEW s \in Streams, Get(s) PROVE Contents'
    <2>1. queue[s] \in Seq(Events) /\ queue[s] # <<>> /\ Len(queue[s]) <= Capacity
      BY <1>0, <1>2 DEF Get, Contents
    <2>2. /\ Tail(queue[s]) \in Seq(Events) /\ Len(Tail(queue[s])) <= Capacity
          /\ Head(queue[s]) \in Events
      BY <1>0, <2>1, HeadTailProperties, EmptySeq
    <2>3. <<Head(queue[s])>> \in Seq(Events)
      BY <2>2
    <2>4. /\ hand' = [hand EXCEPT ![s] = <<Head(queue[s])>>]
          /\ queue' = [queue EXCEPT ![s] = Tail(queue[s])]
          /\ UNCHANGED <<received, evicted, refused, owed>>
      BY <1>2 DEF Get
    <2> QED BY <1>0, <2>2, <2>3, <2>4 DEF Contents
  <1>3. ASSUME NEW s \in Streams, Send(s) PROVE Contents'
    <2>1. received[s] \o hand[s] \in Seq(Events) /\ <<>> \in Seq(Events)
      BY <1>0, ConcatProperties, EmptySeq DEF Contents
    <2> QED BY <1>0, <1>3, <2>1 DEF Send, Contents
  <1>4. ASSUME NEW p \in Publishers, Publish(p) PROVE Contents'
    <2>1. Event(p) \in Events
      BY <1>4, PublishEffect
    <2>2. owed' \in [Streams -> SUBSET Events]
      BY <1>0, <1>4, <2>1 DEF Publish, Contents
    <2> QED BY <1>0, <1>4, <2>2 DEF Publish, Contents, readVars
  <1>5. ASSUME NEW p \in Publishers, PutInto(p), pub[p].step # "idle", ~Full(Target(p))
        PROVE  queue' \in [Streams -> Seq(Events)] /\ \A s \in Streams : Len(queue'[s]) <= Capacity
    <2>1. Event(p) \in Events /\ Target(p) \in Streams
      BY <1>5, InHand
    <2> DEFINE t == Target(p)
               q == Append(queue[t], Event(p))
    <2>2. q \in Seq(Events) /\ Len(q) = Len(queue[t]) + 1 /\ Len(queue[t]) \in Nat
      BY <1>0, <2>1, AppendIs DEF Contents
    <2>3. Len(q) <= Capacity
      BY <1>0, <1>5, <2>2 DEF Full
    <2>4. queue' = [queue EXCEPT ![t] = q]
      BY <1>5 DEF PutInto
    <2> HIDE DEF q, t
    <2> QED BY <1>0, <2>2, <2>3, <2>4 DEF Contents
  <1>6. ASSUME NEW p \in Publishers, Put(p) \/ PutAgain(p) PROVE Contents'
    <2>1. pub[p].step # "idle" /\ Event(p) \in Events /\ Target(p) \in Streams
      BY <1>6, InHand DEF Put, PutAgain
    <2>2. /\ queue' = queue \/ (PutInto(p) /\ ~Full(Target(p)))
          /\ refused' = refused \/ refused' = [refused EXCEPT ![Target(p)] = @ \cup {Event(p)}]
          /\ UNCHANGED <<received, hand, evicted, owed>>
      BY <1>6 DEF Put, PutAgain, readVars
    <2>3. queue' \in [Streams -> Seq(Events)] /\ \A s \in Streams : Len(queue'[s]) <= Capacity
      BY <1>0, <1>5, <2>1, <2>2 DEF Contents
    <2>4. refused' \in [Streams -> SUBSET Events]
      <3>1. refused \in [Streams -> SUBSET Events]
        BY <1>0 DEF Contents
      <3>2. PICK t \in Streams, e \in Events : refused' \in {refused, [refused EXCEPT ![t] = refused[t] \cup {e}]}
        BY <2>1, <2>2
      <3>3. refused[t] \cup {e} \in SUBSET Events
        BY <3>1
      <3> QED BY <3>1, <3>2, <3>3
    <2> QED BY <1>0, <2>2, <2>3, <2>4 DEF Contents
  <1>7. ASSUME NEW p \in Publishers, Evict(p) PROVE Contents'
    <2>1. Target(p) \in Streams
      BY <1>7, InHand DEF Evict
    <2> DEFINE t == Target(p)
    <2>2. CASE queue[t] = <<>>
      BY <1>0, <1>7, <2>2 DEF Evict, Contents, readVars
    <2>3. CASE queue[t] # <<>>
      <3>1. queue[t] \in Seq(Events) /\ Len(queue[t]) <= Capacity
        BY <1>0, <2>1 DEF Contents
      <3>2. /\ Tail(queue[t]) \in Seq(Events) /\ Len(Tail(queue[t])) <= Capacity
            /\ Head(queue[t]) \in Events
        BY <1>0, <2>3, <3>1, HeadTailProperties, EmptySeq
      <3>3. /\ queue' = [queue EXCEPT ![t] = Tail(queue[t])]
            /\ evicted' = [evicted EXCEPT ![t] = evicted[t] \cup {Head(queue[t])}]
            /\ UNCHANGED <<received, hand, refused, owed>>
        BY <1>7, <2>3 DEF Evict, readVars
      <3> HIDE DEF t
      <3> QED BY <1>0, <3>2, <3>3 DEF Contents
    <2> QED BY <2>2, <2>3
  <1> QED BY <1>1, <1>2, <1>3, <1>4, <1>6, <1>7
          DEF Next, vars, readVars, PublisherStep, Subscribe, GetTimesOut, SendFails, Cancelled, StartJob, Skip

LEMMA BrokerInvStep ==
  ASSUME BrokerInv, [Next]_vars
  PROVE  BrokerInv'
  BY SubscriptionsStep, ExecutorStep, LoopsStep, ContentsStep, PublisherTypes, BrokerInvParts
     DEF BrokerInv, TypeOK, Connected, Subscriptions, Executor, Loops, Contents

(* No queue is ever longer than max_queue_size and no more jobs hold a     *)
(* thread than there are; what the broker and the clients' loops keep has  *)
(* the type the code gives it.                                             *)
THEOREM TypeInvariant == Spec => []TypeOK
  <1>1. BrokerInv => TypeOK
    BY DEF BrokerInv
  <1> QED BY InitBrokerInv, BrokerInvStep, <1>1, PTL DEF Spec

-------------------------------------------------------------------------------
(***************************************************************************)
(* A publisher that made room is only beaten to it by another: nobody else *)
(* puts anything into a queue.                                             *)
(***************************************************************************)
BeatenByARival ==
  \A p \in Publishers : pub[p].step = "again" /\ Full(Target(p)) => Owner(Last(queue[Target(p)])) # p

RivalInv == BrokerInv /\ BeatenByARival

LEMMA OwnerOf ==
  ASSUME BrokerInv, NEW p \in Publishers, pub[p].left # <<>>
  PROVE  Owner(Event(p)) = p
  <1>1. /\ pub[p].left \in Seq(Events) /\ Behind(pub[p].left, Program[p])
        /\ Program \in [Publishers -> Seq(Events)]
    BY BrokerAssumption DEF BrokerInv, Publishing, GoodPublisher, PublisherState
  <1>2. /\ Len(pub[p].left) \in Nat \ {0} /\ Event(p) = pub[p].left[1]
        /\ DOMAIN pub[p].left = 1..Len(pub[p].left)
    BY <1>1, EmptySeq, LenProperties DEF Event, Head
  <1>3. Event(p) \in ToSet(Program[p])
    <2>0. Program[p] \in Seq(Events)
      BY <1>1
    <2>1. Len(Program[p]) \in Nat /\ DOMAIN Program[p] = 1..Len(Program[p])
      BY <2>0, LenProperties
    <2>2. Len(pub[p].left) <= Len(Program[p]) /\ 1 \in DOMAIN pub[p].left
      BY <1>1, <1>2 DEF Behind
    <2>3. pub[p].left[1] = Program[p][Len(Program[p]) - Len(pub[p].left) + 1]
      BY <1>1, <2>2 DEF Behind
    <2>4. Len(Program[p]) - Len(pub[p].left) + 1 \in DOMAIN Program[p]
      <3>1. \A a \in Nat, b \in Nat \ {0} : b <= a => a - b + 1 \in 1..a
        OBVIOUS
      <3>2. Len(Program[p]) - Len(pub[p].left) + 1 \in 1..Len(Program[p])
        BY <1>2, <2>1, <2>2, <3>1
      <3> QED BY <2>1, <3>2
    <2>5. PICK k \in DOMAIN Program[p] : Event(p) = Program[p][k]
      BY <1>2, <2>3, <2>4
    <2> QED BY <2>5 DEF ToSet
  <1>4. ASSUME NEW q \in Publishers, Event(p) \in ToSet(Program[q]) PROVE q = p
    BY <1>3, <1>4, BrokerAssumption DEF ToSet
  <1> QED BY <1>3, <1>4 DEF Owner

LEMMA InitRivalInv == Init => RivalInv
  BY InitBrokerInv DEF Init, RivalInv, BeatenByARival

(* One publisher q puts its event into a queue: for the others that wait   *)
(* to try again it is a rival.                                             *)
LEMMA PutByRival ==
  ASSUME BrokerInv, NEW q \in Publishers, NEW p \in Publishers, p # q, pub[q].step # "idle",
         PutInto(q), pub[p].step = "again",
         Full(Target(p)) => Owner(Last(queue[Target(p)])) # p
  PROVE  Full(Target(p))' => Owner(Last(queue[Target(p)]))' # p
  <1>1. /\ Target(q) \in Streams /\ Event(q) \in Events /\ Owner(Event(q)) = q
        /\ Target(p) \in Streams /\ queue \in [Streams -> Seq(Events)]
    BY InHand, OwnerOf DEF BrokerInv, TypeOK
  <1>2. Target(p)' = Target(p)
    BY NextTargetEffect DEF PutInto, Target
  <1>3. queue' = [queue EXCEPT ![Target(q)] = Append(queue[Target(q)], Event(q))]
    BY DEF PutInto
  <1>4. CASE Target(p) = Target(q)
    <2>1. queue'[Target(p)] = Append(queue[Target(q)], Event(q))
      BY <1>1, <1>3, <1>4
    <2>2. Last(queue'[Target(p)]) = Event(q)
      BY <1>1, <2>1, AppendIs
    <2> QED BY <1>1, <1>2, <2>2 DEF Owner
  <1>5. CASE Target(p) # Target(q)
    <2>1. queue'[Target(p)] = queue[Target(p)]
      BY <1>1, <1>3, <1>5
    <2> QED BY <1>2, <2>1 DEF Full, Owner
  <1> QED BY <1>4, <1>5

(* After a get or an eviction there is room. *)
LEMMA RoomMade ==
  ASSUME BrokerInv, NEW s \in Streams,
         \/ queue[s] = <<>> /\ queue'[s] = <<>>
         \/ queue[s] # <<>> /\ queue'[s] = Tail(queue[s])
  PROVE  ~Full(s)'
  <1>1. /\ Len(queue[s]) <= Capacity /\ Len(queue[s]) \in Nat /\ queue[s] \in Seq(Events)
        /\ Capacity \in Nat \ {0} /\ Len(<<>>) = 0
    BY BrokerAssumption, LenProperties, EmptySeq DEF BrokerInv, TypeOK
  <1>2. queue[s] # <<>> => /\ Len(Tail(queue[s])) = Len(queue[s]) - 1
                           /\ Len(queue[s]) # 0
    BY <1>1, HeadTailProperties, EmptySeq
  <1>3. queue'[s] = <<>> \/ (queue[s] # <<>> /\ queue'[s] = Tail(queue[s]))
    OBVIOUS
  <1>4. Len(queue'[s]) = 0 \/ (Len(queue[s]) # 0 /\ Len(queue'[s]) = Len(queue[s]) - 1)
    BY <1>1, <1>2, <1>3
  <1>5. Len(queue'[s]) < Capacity /\ Len(queue'[s]) \in Nat
    BY <1>1, <1>4
  <1>6. ~(Len(queue'[s]) >= Capacity)
    BY <1>1, <1>5
  <1> QED BY <1>6 DEF Full

LEMMA RivalInvStep ==
  ASSUME RivalInv, [Next]_vars
  PROVE  RivalInv'
  <1>0. BrokerInv /\ BeatenByARival /\ queue \in [Streams -> Seq(Events)]
    BY DEF RivalInv, BrokerInv, TypeOK
  <1> SUFFICES ASSUME NEW p \in Publishers, pub'[p].step = "again", Full(Target(p))'
               PROVE  Owner(Last(queue[Target(p)]))' # p
    BY <1>0, BrokerInvStep DEF RivalInv, BeatenByARival
  <1>1. CASE UNCHANGED <<queue, pub>>
    <2>1. pub[p].step = "again" /\ Full(Target(p))
      BY <1>1 DEF Full, Target
    <2> QED BY <1>0, <1>1, <2>1 DEF BeatenByARival, Target, Owner
  <1>2. ASSUME NEW s \in Streams, Get(s) PROVE Owner(Last(queue[Target(p)]))' # p
    <2>1. /\ queue[s] # <<>> /\ queue' = [queue EXCEPT ![s] = Tail(queue[s])] /\ pub' = pub
      BY <1>2 DEF Get
    <2>2. Target(p) # s
      <3>1. ~Full(s)'
        BY <1>0, <2>1, RoomMade
      <3> QED BY <2>1, <3>1 DEF Target, Full
    <2>3. pub[p].step = "again" /\ Target(p) \in Streams
      BY <1>0, <2>1, InHand
    <2>4. queue'[Target(p)] = queue[Target(p)] /\ Target(p)' = Target(p)
      BY <1>0, <2>1, <2>2, <2>3 DEF Target
    <2> QED BY <1>0, <2>3, <2>4 DEF BeatenByARival, Full, Owner
  <1>3. ASSUME NEW q \in Publishers, PublisherStep(q), p # q PROVE Owner(Last(queue[Target(p)]))' # p
    <2>1. pub'[p] = pub[p]
      <3>1. CASE Publish(q)
        BY <1>0, <1>3, <3>1, PublishEffect
      <3>2. CASE ~Publish(q)
        <4>1. PICK r : pub' = [pub EXCEPT ![q] = r]
          BY <1>3, <3>2 DEF PublisherStep, Skip, Put, Evict, PutAgain, PutInto, NextTarget, Go
        <4> QED BY <1>0, <1>3, <4>1 DEF BrokerInv, Publishing
      <3> QED BY <3>1, <3>2
    <2>2. /\ pub[p].step = "again" /\ Target(p)' = Target(p) /\ Target(p) \in Streams
          /\ Full(Target(p)) => Owner(Last(queue[Target(p)])) # p
      BY <1>0, <2>1, InHand DEF Target, BeatenByARival
    <2>3. CASE queue'[Target(p)] = queue[Target(p)]
      BY <2>2, <2>3 DEF Full, Owner
    <2>4. CASE PutInto(q) /\ pub[q].step # "idle"
      BY <1>0, <1>3, <2>2, <2>4, PutByRival
    <2>5. CASE Evict(q) /\ Target(p) = Target(q)
      <3>1. ~Full(Target(p))'
        BY <1>0, <2>2, <2>5, RoomMade DEF Evict, Full
      <3> QED BY <3>1
    <2>6. CASE Evict(q) /\ Target(p) # Target(q)
      BY <1>0, <2>2, <2>3, <2>6 DEF Evict
    <2> QED BY <1>3, <2>3, <2>4, <2>5, <2>6 DEF PublisherStep, Publish, Skip, Put, PutAgain
  <1>4. CASE PublisherStep(p)
    <2>1. Evict(p)
      <3>1. ASSUME NextTarget(p), pub[p].step # "idle" PROVE FALSE
        <4>1. pub'[p] = AfterTarget(pub[p]) /\ GoodPublisher(p, pub[p])
          BY <1>0, <3>1, NextTargetEffect DEF BrokerInv, Publishing
        <4>2. pub'[p].step \in {"idle", "put"}
          BY <3>1, <4>1, AfterTargetIs
        <4> QED BY <4>2
      <3>2. ~Publish(p)
        BY <1>0, PublishEffect
      <3>3. ASSUME Go(p, "evict"), pub[p].step # "idle", Event(p) \in Wants[Target(p)] PROVE FALSE
        BY <1>0, <3>3, GoEffect
      <3> QED BY <1>4, <3>1, <3>2, <3>3 DEF PublisherStep, Skip, Put, PutAgain, PutInto
    <2>2. Target(p)' = Target(p) /\ Target(p) \in Streams
      <3>1. pub[p].step = "evict" /\ Event(p) \in Wants[Target(p)] /\ Target(p) \in Streams /\ Go(p, "again")
        BY <1>0, <2>1, InHand DEF Evict
      <3> QED BY <1>0, <3>1, GoEffect DEF Target
    <2>3. ~Full(Target(p))'
      BY <1>0, <2>1, <2>2, RoomMade DEF Evict, Full
    <2> QED BY <2>3
  <1> QED BY <1>1, <1>2, <1>3, <1>4
          DEF Next, vars, readVars, Subscribe, GetTimesOut, Send, SendFails, Cancelled, StartJob

(* The event just published is only given up for a stream whose queue is   *)
(* full again because another publisher's event has come in between: the   *)
(* second queue.Full in _enqueue_nonblocking never befalls a lone          *)
(* publisher.                                                              *)
THEOREM OnlyRivalsCostTheNewest == Spec => RefusedForARival
  <1>1. ASSUME RivalInv, [Next]_vars,
               NEW s \in Streams, NEW e \in refused'[s] \ refused[s]
        PROVE  Full(s) /\ Owner(Last(queue[s])) # Owner(e)
    <2>0. BrokerInv /\ BeatenByARival /\ refused \in [Streams -> SUBSET Events]
      BY <1>1 DEF RivalInv, BrokerInv, TypeOK
    <2>1. refused' # refused
      BY <1>1
    <2>2. PICK p \in Publishers : PutAgain(p)
      BY <1>1, <2>1
         DEF Next, vars, readVars, Subscribe, Get, GetTimesOut, Send, SendFails, Cancelled, StartJob,
             PublisherStep, Publish, Skip, Put, Evict
    <2>3. /\ Full(Target(p)) /\ pub[p].step = "again"
          /\ refused' = [refused EXCEPT ![Target(p)] = refused[Target(p)] \cup {Event(p)}]
      BY <2>1, <2>2 DEF PutAgain
    <2>4. Target(p) \in Streams /\ Owner(Event(p)) = p
      BY <2>0, <2>3, InHand, OwnerOf
    <2>5. s = Target(p) /\ e = Event(p)
      BY <1>1, <2>0, <2>3, <2>4
    <2> QED BY <2>0, <2>3, <2>4, <2>5 DEF BeatenByARival
  <1>2. RivalInv /\ [Next]_vars =>
          [\A s \in Streams : \A e \in refused'[s] \ refused[s] :
             Full(s) /\ Owner(Last(queue[s])) # Owner(e)]_vars
    BY <1>1
  <1> QED BY InitRivalInv, RivalInvStep, <1>2, PTL DEF Spec, RefusedForARival

-------------------------------------------------------------------------------
(***************************************************************************)
(* The books of a stream: what passed through it, what was evicted and     *)
(* refused, and what is due to it.                                         *)
(***************************************************************************)
Books(x, ev, ref, due) ==
  /\ IsInjective(x) /\ ToSet(x) \cap (ev \cup ref) = {} /\ ev \cap ref = {}
  /\ ToSet(x) \cup ev \cup ref = due

LEMMA BooksAppend ==
  ASSUME NEW S, NEW x \in Seq(S), NEW e \in S, NEW ev, NEW ref, NEW due,
         Books(x, ev, ref, due), e \notin due
  PROVE  Books(Append(x, e), ev, ref, due \cup {e})
  <1>1. /\ ToSet(Append(x, e)) = ToSet(x) \cup {e}
        /\ IsInjective(x) /\ e \notin ToSet(x) => IsInjective(Append(x, e))
    BY AppendIs
  <1> QED BY <1>1 DEF Books

LEMMA BooksDrop ==
  ASSUME NEW S, NEW x \in Seq(S), NEW y \in Seq(S), NEW k, Dropped(x, y, k),
         NEW ev, NEW ref, NEW due, Books(x, ev, ref, due)
  PROVE  Books(y, ev \cup {x[k]}, ref, due)
  <1>1. IsInjective(y) /\ \A z : z \in ToSet(y) <=> z \in ToSet(x) /\ z # x[k]
    BY DropOne DEF Books
  <1>2. x[k] \in ToSet(x)
    BY LenProperties DEF Dropped, ToSet
  <1> QED BY <1>1, <1>2 DEF Books

LEMMA BooksRefuse ==
  ASSUME NEW x, NEW e, NEW ev, NEW ref, NEW due, Books(x, ev, ref, due), e \notin due
  PROVE  Books(x, ev, ref \cup {e}, due \cup {e})
  BY DEF Books

(* The three places an event can be in, one after the other. *)
LEMMA PassedAppend ==
  ASSUME NEW S, NEW r \in Seq(S), NEW h \in Seq(S), NEW q \in Seq(S), NEW e \in S
  PROVE  /\ r \o h \o q \in Seq(S)
         /\ r \o h \o Append(q, e) = Append(r \o h \o q, e)
  <1>1. r \o h \in Seq(S) /\ (r \o h) \o q \in Seq(S) /\ <<e>> \in Seq(S)
    BY ConcatProperties
  <1>2. Append(q, e) = q \o <<e>> /\ Append((r \o h) \o q, e) = ((r \o h) \o q) \o <<e>>
    BY <1>1, AppendIsConcat
  <1>3. ((r \o h) \o q) \o <<e>> = (r \o h) \o (q \o <<e>>)
    BY <1>1, ConcatAssociative
  <1> QED BY <1>1, <1>2, <1>3

LEMMA PassedTake ==
  ASSUME NEW S, NEW r \in Seq(S), NEW h \in Seq(S), NEW q \in Seq(S), q # <<>>
  PROVE  r \o <<>> \o q = r \o <<Head(q)>> \o Tail(q)
  <1>1. Head(q) \in S /\ Tail(q) \in Seq(S)
    BY HeadTailProperties
  <1>2. <<Head(q)>> \in Seq(S) /\ r \o <<>> = r
    BY <1>1, ConcatEmptySeq
  <1>3. <<Head(q)>> \o Tail(q) = q
    <2>1. /\ Len(<<Head(q)>>) = 1 /\ <<Head(q)>>[1] = Head(q)
          /\ Len(q) \in Nat \ {0} /\ Len(Tail(q)) = Len(q) - 1 /\ Head(q) = q[1]
          /\ \A i \in 1..Len(Tail(q)) : Tail(q)[i] = q[i + 1]
      BY HeadTailProperties, EmptySeq DEF Head
    <2> DEFINE c == <<Head(q)>> \o Tail(q)
    <2>2. /\ c \in Seq(S) /\ Len(c) = 1 + Len(Tail(q))
          /\ \A i \in 1..(1 + Len(Tail(q))) : c[i] = IF i <= 1 THEN <<Head(q)>>[i] ELSE Tail(q)[i - 1]
      BY <1>1, <1>2, <2>1, ConcatProperties
    <2> HIDE DEF c
    <2>3. ASSUME NEW i \in 1..Len(c) PROVE c[i] = q[i]
      <3>1. CASE i = 1
        BY <2>1, <2>2, <3>1
      <3>2. CASE i # 1
        <4>1. i - 1 \in 1..Len(Tail(q)) /\ ~(i <= 1) /\ i - 1 + 1 = i
          BY <2>1, <2>2, <3>2
        <4> QED BY <2>1, <2>2, <4>1
      <3> QED BY <3>1, <3>2
    <2>4. Len(c) = Len(q)
      BY <2>1, <2>2
    <2>5. c = q
      BY <2>2, <2>3, <2>4, SeqEqual
    <2> QED BY <2>5 DEF c
  <1>4. (r \o <<Head(q)>>) \o Tail(q) = r \o (<<Head(q)>> \o Tail(q))
    BY <1>1, <1>2, ConcatAssociative
  <1> QED BY <1>2, <1>3, <1>4

LEMMA PassedEvict ==
  ASSUME NEW S, NEW a \in Seq(S), NEW q \in Seq(S), q # <<>>
  PROVE  \E k : Dropped(a \o q, a \o Tail(q), k) /\ (a \o q)[k] = Head(q)
  <1>1. /\ Len(a) \in Nat /\ Len(q) \in Nat \ {0} /\ Head(q) = q[1]
        /\ Tail(q) \in Seq(S) /\ Len(Tail(q)) = Len(q) - 1
        /\ \A i \in 1..Len(Tail(q)) : Tail(q)[i] = q[i + 1]
    BY HeadTailProperties, EmptySeq, LenProperties DEF Head
  <1> DEFINE t == Tail(q)
  <1>2. t \in Seq(S) /\ Len(t) = Len(q) - 1 /\ \A i \in 1..(Len(q) - 1) : t[i] = q[i + 1]
    BY <1>1
  <1> HIDE DEF t
  <1>3. /\ Len(a \o q) = Len(a) + Len(q) /\ Len(a \o t) = Len(a) + Len(t)
        /\ \A i \in 1..(Len(a) + Len(q)) : (a \o q)[i] = IF i <= Len(a) THEN a[i] ELSE q[i - Len(a)]
        /\ \A i \in 1..(Len(a) + Len(t)) : (a \o t)[i] = IF i <= Len(a) THEN a[i] ELSE t[i - Len(a)]
    BY <1>2, ConcatProperties
  <1> DEFINE k == Len(a) + 1
  <1>4. k \in 1..Len(a \o q) /\ Len(a \o t) = Len(a \o q) - 1
    BY <1>1, <1>2, <1>3
  <1>5. (a \o q)[k] = Head(q)
    <2>1. k \in 1..(Len(a) + Len(q)) /\ ~(k <= Len(a)) /\ k - Len(a) = 1
      BY <1>1
    <2> QED BY <1>1, <1>3, <2>1
  <1>6. ASSUME NEW i \in 1..(Len(a \o q) - 1)
        PROVE  (a \o t)[i] = IF i < k THEN (a \o q)[i] ELSE (a \o q)[i + 1]
    <2>1. i \in 1..(Len(a) + Len(q)) /\ i + 1 \in 1..(Len(a) + Len(q)) /\ i \in 1..(Len(a) + Len(t))
      BY <1>1, <1>2, <1>3
    <2>2. CASE i < k
      <3>1. i <= Len(a)
        BY <1>1, <2>2
      <3> QED BY <1>3, <2>1, <2>2, <3>1
    <2>3. CASE ~(i < k)
      <3>1. /\ ~(i <= Len(a)) /\ ~(i + 1 <= Len(a)) /\ i - Len(a) \in 1..(Len(q) - 1)
            /\ i + 1 - Len(a) = i - Len(a) + 1
        BY <1>1, <1>2, <1>3, <2>3
      <3>2. (a \o t)[i] = t[i - Len(a)] /\ (a \o q)[i + 1] = q[i + 1 - Len(a)]
        BY <1>3, <2>1, <3>1
      <3> QED BY <1>2, <2>3, <3>1, <3>2
    <2> QED BY <2>2, <2>3
  <1>7. Dropped(a \o q, a \o t, k)
    <2> HIDE DEF k
    <2> QED BY <1>4, <1>6 DEF Dropped
  <1> QED BY <1>5, <1>7 DEF t

-------------------------------------------------------------------------------
(***************************************************************************)
(* What is owed: an event once its publish has begun, while it is still    *)
(* the publisher's next one and for good when it no longer is.             *)
(***************************************************************************)
Booked ==
  \A s \in Streams :
    /\ owed[s] \subseteq Wants[s]
    /\ \A p \in Publishers :
         /\ pub[p].step # "idle" /\ s \in ToSet(pub[p].targets) /\ Event(p) \in Wants[s]
              => Event(p) \in owed[s]
         /\ \A i \in DOMAIN pub[p].left : pub[p].left[i] \in owed[s] => i = 1 /\ pub[p].step # "idle"

AccountInv == BrokerInv /\ Booked /\ Accounted

(* No event is published twice, nor by two. *)
LEMMA Distinct ==
  ASSUME BrokerInv, NEW p \in Publishers, NEW q \in Publishers,
         NEW i \in DOMAIN pub[p].left, NEW j \in DOMAIN pub[q].left, pub[p].left[i] = pub[q].left[j]
  PROVE  p = q /\ i = j
  <1>1. ASSUME NEW r \in Publishers, NEW m \in DOMAIN pub[r].left
        PROVE  /\ Len(Program[r]) \in Nat /\ Len(pub[r].left) \in Nat /\ m \in Nat
               /\ Len(Program[r]) - Len(pub[r].left) + m \in DOMAIN Program[r]
               /\ pub[r].left[m] = Program[r][Len(Program[r]) - Len(pub[r].left) + m]
    <2>1. /\ pub[r].left \in Seq(Events) /\ Behind(pub[r].left, Program[r])
          /\ Program[r] \in Seq(Events)
      BY BrokerAssumption DEF BrokerInv, Publishing, GoodPublisher, PublisherState
    <2>2. /\ Len(Program[r]) \in Nat /\ DOMAIN Program[r] = 1..Len(Program[r])
          /\ Len(pub[r].left) \in Nat /\ DOMAIN pub[r].left = 1..Len(pub[r].left)
          /\ Len(pub[r].left) <= Len(Program[r])
      BY <2>1, LenProperties DEF Behind
    <2>3. \A a, b \in Nat : \A c \in 1..b : b <= a => a - b + c \in 1..a
      OBVIOUS
    <2>4. m \in 1..Len(pub[r].left) /\ m \in Nat
      BY <2>2
    <2>5. Len(Program[r]) - Len(pub[r].left) + m \in DOMAIN Program[r]
      BY <2>2, <2>3, <2>4
    <2>6. pub[r].left[m] = Program[r][Len(Program[r]) - Len(pub[r].left) + m]
      BY <1>1, <2>1 DEF Behind
    <2> QED BY <2>2, <2>4, <2>5, <2>6
  <1> DEFINE k == Len(Program[p]) - Len(pub[p].left) + i
             l == Len(Program[q]) - Len(pub[q].left) + j
  <1>2. k \in DOMAIN Program[p] /\ l \in DOMAIN Program[q] /\ Program[p][k] = Program[q][l]
    BY <1>1
  <1>3. p = q /\ k = l
    <2> HIDE DEF k, l
    <2> QED BY <1>2, BrokerAssumption
  <1>4. \A a, b, c, d \in Nat : a - b + c = a - b + d => c = d
    OBVIOUS
  <1>5. Len(Program[p]) \in Nat /\ Len(pub[p].left) \in Nat /\ i \in Nat /\ j \in Nat
    BY <1>1
  <1>6. Len(Program[p]) - Len(pub[p].left) + i = Len(Program[p]) - Len(pub[p].left) + j
    BY <1>3
  <1> QED BY <1>3, <1>4, <1>5, <1>6

(* An event in hand is the first that is left. *)
LEMMA EventIsFirst ==
  ASSUME BrokerInv, NEW p \in Publishers, pub[p].left # <<>>
  PROVE  /\ 1 \in DOMAIN pub[p].left /\ Event(p) = pub[p].left[1]
         /\ \A q \in Publishers : \A j \in DOMAIN pub[q].left :
              pub[q].left[j] = Event(p) => q = p /\ j = 1
  <1>1. pub[p].left \in Seq(Events)
    BY DEF BrokerInv, Publishing, GoodPublisher, PublisherState
  <1>2. 1 \in DOMAIN pub[p].left /\ Event(p) = pub[p].left[1]
    BY <1>1, EmptySeq, LenProperties DEF Event, Head
  <1> QED BY <1>2, Distinct

LEMMA NobodyElsesEvent ==
  ASSUME BrokerInv, NEW p \in Publishers, pub[p].left # <<>>, NEW q \in Publishers,
         pub[q].step # "idle", Event(q) = Event(p)
  PROVE  q = p
  BY EventIsFirst, InHand

(* A publisher that moves on, to the next event or only to the next        *)
(* target, leaves the books of what is owed in order.                      *)
LEMMA LeftShrinks ==
  ASSUME BrokerInv, NEW p \in Publishers, pub[p].left # <<>>, pub'[p].left = Tail(pub[p].left),
         NEW i \in DOMAIN pub'[p].left
  PROVE  i + 1 \in DOMAIN pub[p].left /\ pub'[p].left[i] = pub[p].left[i + 1] /\ i + 1 # 1
  <1>1. pub[p].left \in Seq(Events)
    BY DEF BrokerInv, Publishing, GoodPublisher, PublisherState
  <1>2. /\ Len(pub[p].left) \in Nat \ {0} /\ DOMAIN pub[p].left = 1..Len(pub[p].left)
        /\ DOMAIN Tail(pub[p].left) = 1..(Len(pub[p].left) - 1)
        /\ Len(Tail(pub[p].left)) = Len(pub[p].left) - 1
        /\ \A j \in 1..Len(Tail(pub[p].left)) : Tail(pub[p].left)[j] = pub[p].left[j + 1]
    BY <1>1, EmptySeq, LenProperties, HeadTailProperties
  <1> QED BY <1>2

LEMMA BookedNext ==
  ASSUME BrokerInv, Booked, NEW p \in Publishers, pub[p].step # "idle", NextTarget(p), owed' = owed
  PROVE  Booked'
  <1>1. /\ \A q \in Publishers : q # p => pub'[q] = pub[q]
        /\ pub[p].left # <<>>
        /\ \/ pub'[p].step = "idle" /\ pub'[p].left = Tail(pub[p].left)
           \/ /\ pub'[p].step = "put" /\ pub'[p].left = pub[p].left
              /\ ToSet(pub'[p].targets) \subseteq ToSet(pub[p].targets)
    BY NextTargetEffect, AfterTargetIs, InHand DEF BrokerInv, Publishing
  <1> SUFFICES ASSUME NEW s \in Streams, NEW q \in Publishers
               PROVE  /\ owed[s] \subseteq Wants[s]
                      /\ pub'[q].step # "idle" /\ s \in ToSet(pub'[q].targets) /\ Head(pub'[q].left) \in Wants[s]
                            => Head(pub'[q].left) \in owed[s]
                      /\ \A i \in DOMAIN pub'[q].left :
                            pub'[q].left[i] \in owed[s] => i = 1 /\ pub'[q].step # "idle"
    BY DEF Booked, Event
  <1>2. CASE q # p
    BY <1>1, <1>2 DEF Booked, Event
  <1>3. CASE q = p /\ pub'[p].step = "idle" /\ pub'[p].left = Tail(pub[p].left)
    BY <1>1, <1>3, LeftShrinks DEF Booked
  <1>4. CASE /\ q = p /\ pub'[p].step = "put" /\ pub'[p].left = pub[p].left
             /\ ToSet(pub'[p].targets) \subseteq ToSet(pub[p].targets)
    BY <1>4 DEF Booked, Event
  <1> QED BY <1>1, <1>2, <1>3, <1>4

LEMMA BookedPublish ==
  ASSUME BrokerInv, Booked, NEW p \in Publishers, Publish(p)
  PROVE  Booked'
  <1>1. /\ \A q \in Publishers : q # p => pub'[q] = pub[q]
        /\ pub[p].left # <<>> /\ pub[p].step = "idle"
        /\ \/ /\ subscribers = <<>> /\ pub'[p].step = "idle" /\ pub'[p].left = Tail(pub[p].left)
           \/ /\ subscribers # <<>> /\ pub'[p].step = "put" /\ pub'[p].left = pub[p].left
              /\ pub'[p].targets = subscribers
    BY PublishEffect DEF Publish
  <1>2. \A s \in Streams : owed'[s] = IF s \in ToSet(subscribers) /\ Event(p) \in Wants[s]
                                      THEN owed[s] \cup {Event(p)} ELSE owed[s]
    BY DEF Publish
  <1> SUFFICES ASSUME NEW s \in Streams, NEW q \in Publishers
               PROVE  /\ owed'[s] \subseteq Wants[s]
                      /\ pub'[q].step # "idle" /\ s \in ToSet(pub'[q].targets) /\ Head(pub'[q].left) \in Wants[s]
                            => Head(pub'[q].left) \in owed'[s]
                      /\ \A i \in DOMAIN pub'[q].left :
                            pub'[q].left[i] \in owed'[s] => i = 1 /\ pub'[q].step # "idle"
    BY DEF Booked, Event
  <1>3. owed'[s] \subseteq Wants[s] /\ owed[s] \subseteq owed'[s] /\ owed'[s] \subseteq owed[s] \cup {Event(p)}
    BY <1>2 DEF Booked
  <1>4. \A i \in DOMAIN pub[p].left : pub[p].left[i] \in owed'[s] => i = 1
    BY <1>1, <1>3, EventIsFirst DEF Booked
  <1>5. CASE q # p
    <2>1. \A i \in DOMAIN pub[q].left : pub[q].left[i] # Event(p)
      BY <1>1, <1>5, EventIsFirst
    <2> QED BY <1>1, <1>3, <1>5, <2>1 DEF Booked, Event
  <1>6. CASE q = p /\ subscribers = <<>> /\ pub'[p].step = "idle" /\ pub'[p].left = Tail(pub[p].left)
    <2>1. owed'[s] = owed[s]
      BY <1>2, <1>6 DEF ToSet
    <2> QED BY <1>1, <1>3, <1>4, <1>6, <2>1, LeftShrinks
  <1>7. CASE q = p /\ pub'[p].step = "put" /\ pub'[p].left = pub[p].left /\ pub'[p].targets = subscribers
    BY <1>2, <1>3, <1>4, <1>7 DEF Event
  <1> QED BY <1>1, <1>5, <1>6, <1>7

LEMMA BookedStep ==
  ASSUME BrokerInv, Booked, [Next]_vars
  PROVE  Booked'
  <1>1. CASE UNCHANGED <<pub, owed>>
    BY <1>1 DEF Booked, Event
  <1>2. ASSUME NEW p \in Publishers, PublisherStep(p) PROVE Booked'
    <2>1. CASE Publish(p)
      BY <2>1, BookedPublish
    <2>2. CASE NextTarget(p) /\ pub[p].step # "idle" /\ owed' = owed
      BY <2>2, BookedNext
    <2>3. ASSUME NEW step \in {"evict", "again"}, Go(p, step), pub[p].step # "idle",
                 Event(p) \in Wants[Target(p)], owed' = owed
          PROVE  Booked'
      <3>1. /\ pub'[p].step = step /\ pub'[p].left = pub[p].left /\ pub'[p].targets = pub[p].targets
            /\ \A q \in Publishers : q # p => pub'[q] = pub[q]
        BY <2>3, GoEffect
      <3> QED BY <2>3, <3>1 DEF Booked, Event
    <2>4. pub[p].step = "evict" => Event(p) \in Wants[Target(p)]
      BY InHand
    <2> QED BY <1>2, <2>1, <2>2, <2>3, <2>4 DEF PublisherStep, Skip, Put, Evict, PutAgain, PutInto
  <1> QED BY <1>1, <1>2
          DEF Next, vars, readVars, Subscribe, Get, GetTimesOut, Send, SendFails, Cancelled, StartJob

-------------------------------------------------------------------------------
(***************************************************************************)
(* What a stream is due to have seen the end of.                           *)
(***************************************************************************)
Due(s) == {e \in owed[s] : ~Pending(s, e)}

LEMMA AccountedIs ==
  Accounted <=> \A s \in Streams : Books(Passed(s), evicted[s], refused[s], Due(s))
  BY DEF Accounted, Books, Due

LEMMA DueGo ==
  ASSUME BrokerInv, NEW p \in Publishers, NEW step \in {"evict", "again"}, pub[p].step # "idle",
         Event(p) \in Wants[Target(p)], Go(p, step), owed' = owed, NEW s \in Streams
  PROVE  Due(s)' = Due(s)
  <1>1. \A q \in Publishers : /\ pub'[q].left = pub[q].left /\ pub'[q].targets = pub[q].targets
                              /\ pub'[q].step # "idle" <=> pub[q].step # "idle"
    BY GoEffect
  <1> QED BY <1>1 DEF Due, Pending, Event

LEMMA DuePublish ==
  ASSUME BrokerInv, Booked, NEW p \in Publishers, Publish(p), NEW s \in Streams
  PROVE  Due(s)' = Due(s)
  <1>1. /\ \A q \in Publishers : q # p => pub'[q] = pub[q]
        /\ pub[p].left # <<>> /\ pub[p].step = "idle"
        /\ \/ /\ subscribers = <<>> /\ pub'[p].step = "idle" /\ pub'[p].left = Tail(pub[p].left)
           \/ /\ subscribers # <<>> /\ pub'[p].step = "put" /\ pub'[p].left = pub[p].left
              /\ pub'[p].targets = subscribers
    BY PublishEffect DEF Publish
  <1>2. owed'[s] = IF s \in ToSet(subscribers) /\ Event(p) \in Wants[s]
                   THEN owed[s] \cup {Event(p)} ELSE owed[s]
    BY DEF Publish
  <1>3. Event(p) \notin owed[s]
    BY <1>1, EventIsFirst DEF Booked
  <1>4. CASE subscribers = <<>>
    <2>1. owed'[s] = owed[s]
      BY <1>2, <1>4 DEF ToSet
    <2>2. ASSUME NEW e PROVE Pending(s, e)' <=> Pending(s, e)
      BY <1>1, <1>4 DEF Pending, Event
    <2> QED BY <2>1, <2>2 DEF Due
  <1>5. CASE subscribers # <<>>
    <2>1. /\ pub'[p].step # "idle" /\ Head(pub'[p].left) = Event(p) /\ pub'[p].targets = subscribers
      BY <1>1, <1>5 DEF Event
    <2>2. ASSUME NEW e, e # Event(p) PROVE Pending(s, e)' <=> Pending(s, e)
      BY <1>1, <2>1, <2>2 DEF Pending, Event
    <2>3. ASSUME s \in ToSet(subscribers) PROVE Pending(s, Event(p))'
      <3>1. \E q \in Publishers : /\ pub'[q].step # "idle" /\ Head(pub'[q].left) = Head(pub'[p].left)
                                  /\ s \in ToSet(pub'[q].targets)
        BY <2>1, <2>3
      <3>2. \E q \in Publishers : /\ pub'[q].step # "idle" /\ Event(q)' = Event(p)'
                                  /\ s \in ToSet(pub'[q].targets)
        BY <3>1 DEF Event
      <3> QED BY <3>2 DEF Pending
    <2>4. Event(p)' = Event(p)
      BY <2>1 DEF Event
    <2>5. \A e \in owed'[s] : e \in owed[s] \/ (e = Event(p) /\ s \in ToSet(subscribers))
      BY <1>2
    <2>6. owed[s] \subseteq owed'[s]
      BY <1>2
    <2> QED BY <1>3, <2>2, <2>3, <2>4, <2>5, <2>6 DEF Due
  <1> QED BY <1>4, <1>5

(* The target that a publisher is done with has seen the end of its event, *)
(* if it was to see it at all.                                             *)
LEMMA DueNext ==
  ASSUME BrokerInv, Booked, NEW p \in Publishers, pub[p].step # "idle", NextTarget(p), owed' = owed,
         NEW s \in Streams
  PROVE  /\ s # Target(p) \/ Event(p) \notin Wants[s] => Due(s)' = Due(s)
         /\ s = Target(p) /\ Event(p) \in Wants[s] =>
              Event(p) \notin Due(s) /\ Due(s)' = Due(s) \cup {Event(p)}
  <1>1. /\ \A q \in Publishers : q # p => pub'[q] = pub[q]
        /\ pub[p].left # <<>> /\ Target(p) \in ToSet(pub[p].targets)
        /\ \/ pub'[p].step = "idle" /\ ToSet(pub[p].targets) = {Target(p)}
           \/ /\ pub'[p].step = "put" /\ Head(pub'[p].left) = Event(p)
              /\ ToSet(pub'[p].targets) = ToSet(pub[p].targets) \ {Target(p)}
    <2>1. GoodPublisher(p, pub[p])
      BY DEF BrokerInv, Publishing
    <2>2. /\ pub'[p] = AfterTarget(pub[p])
          /\ \A q \in Publishers : q # p => pub'[q] = pub[q]
      BY NextTargetEffect
    <2>3. \/ pub'[p].step = "idle" /\ ToSet(pub[p].targets) = {Target(p)}
          \/ /\ pub'[p].step = "put" /\ Head(pub'[p].left) = Event(p)
             /\ ToSet(pub'[p].targets) = ToSet(pub[p].targets) \ {Target(p)}
      BY <2>1, <2>2, AfterTargetIs DEF Target, Event
    <2> QED BY <2>2, <2>3, InHand
  <1>2. ASSUME NEW e, NEW q \in Publishers, ~(s = Target(p) /\ e = Event(p))
        PROVE  /\ pub'[q].step # "idle" /\ Head(pub'[q].left) = e /\ s \in ToSet(pub'[q].targets)
                 <=> pub[q].step # "idle" /\ Head(pub[q].left) = e /\ s \in ToSet(pub[q].targets)
    BY <1>1, <1>2 DEF Event
  <1>3. ASSUME NEW e, ~(s = Target(p) /\ e = Event(p)) PROVE Pending(s, e)' <=> Pending(s, e)
    BY <1>2, <1>3 DEF Pending, Event
  <1>4. CASE s # Target(p)
    BY <1>3, <1>4 DEF Due
  <1>5. CASE Event(p) \notin Wants[s]
    <2>1. Event(p) \notin owed[s]
      BY <1>5 DEF Booked
    <2> QED BY <1>3, <1>5, <2>1 DEF Due
  <1>6. CASE s = Target(p) /\ Event(p) \in Wants[s]
    <2>1. Event(p) \in owed[s]
      BY <1>1, <1>6 DEF Booked
    <2>2. Pending(s, Event(p))
      BY <1>1, <1>6 DEF Pending
    <2>3. \A q \in Publishers :
            ~(pub'[q].step # "idle" /\ Head(pub'[q].left) = Event(p) /\ s \in ToSet(pub'[q].targets))
      BY <1>1, <1>6, NobodyElsesEvent DEF Event
    <2>4. Event(p) \in Due(s)'
      BY <2>1, <2>3 DEF Due, Pending, Event
    <2> QED BY <1>3, <1>6, <2>1, <2>2, <2>4 DEF Due
  <1> QED BY <1>4, <1>5, <1>6

-------------------------------------------------------------------------------
(***************************************************************************)
(* What a step does to the books of one stream: nothing; an event is due   *)
(* and put into its queue; one is taken out of the queue; or one is due    *)
(* and refused.                                                            *)
(***************************************************************************)
Same(s) == /\ Passed(s)' = Passed(s) /\ evicted'[s] = evicted[s] /\ refused'[s] = refused[s]
           /\ Due(s)' = Due(s)

Queued(s, p) == /\ pub[p].step # "idle" /\ Event(p) \in Wants[s] /\ s \in ToSet(pub[p].targets)
                /\ Passed(s)' = Append(Passed(s), Event(p))
                /\ evicted'[s] = evicted[s] /\ refused'[s] = refused[s]
                /\ Event(p) \notin Due(s) /\ Due(s)' = Due(s) \cup {Event(p)}

TakenOut(s) == /\ \E k : /\ Dropped(Passed(s), Passed(s)', k)
                         /\ evicted'[s] = evicted[s] \cup {Passed(s)[k]}
               /\ refused'[s] = refused[s] /\ Due(s)' = Due(s)

Refused(s, p) == /\ Passed(s)' = Passed(s) /\ evicted'[s] = evicted[s]
                 /\ refused'[s] = refused[s] \cup {Event(p)}
                 /\ Event(p) \notin Due(s) /\ Due(s)' = Due(s) \cup {Event(p)}

LEMMA PassedType ==
  ASSUME BrokerInv, NEW s \in Streams
  PROVE  /\ received[s] \in Seq(Events) /\ hand[s] \in Seq(Events) /\ queue[s] \in Seq(Events)
         /\ received[s] \o hand[s] \in Seq(Events) /\ Passed(s) \in Seq(Events)
  <1>1. received[s] \in Seq(Events) /\ hand[s] \in Seq(Events) /\ queue[s] \in Seq(Events)
    BY DEF BrokerInv, TypeOK
  <1>2. received[s] \o hand[s] \in Seq(Events)
    BY <1>1, ConcatProperties
  <1>3. (received[s] \o hand[s]) \o queue[s] \in Seq(Events)
    BY <1>1, <1>2, ConcatProperties
  <1> QED BY <1>1, <1>2, <1>3 DEF Passed

(* The event goes into the queue of the target; nothing changes for the    *)
(* others.                                                                 *)
LEMMA PutBooks ==
  ASSUME BrokerInv, Booked, NEW p \in Publishers, pub[p].step # "idle",
         Event(p) \in Wants[Target(p)], PutInto(p),
         UNCHANGED <<received, hand, evicted, refused, owed>>, NEW s \in Streams
  PROVE  Same(s) \/ Queued(s, p)
  <1>1. NextTarget(p) /\ queue' = [queue EXCEPT ![Target(p)] = Append(queue[Target(p)], Event(p))]
    BY DEF PutInto
  <1>2. /\ Target(p) \in Streams /\ Event(p) \in Events /\ queue \in [Streams -> Seq(Events)]
        /\ Target(p) \in ToSet(pub[p].targets)
    BY InHand DEF BrokerInv, TypeOK
  <1>3. CASE s # Target(p)
    <2>1. queue'[s] = queue[s] /\ Due(s)' = Due(s)
      BY <1>1, <1>2, <1>3, DueNext
    <2>2. Passed(s)' = Passed(s)
      BY <2>1 DEF Passed
    <2> QED BY <2>1, <2>2 DEF Same
  <1>4. CASE s = Target(p)
    <2>1. queue'[s] = Append(queue[s], Event(p))
      BY <1>1, <1>2, <1>4
    <2>2. Passed(s)' = Append(Passed(s), Event(p))
      <3>1. received[s] \o hand[s] \o Append(queue[s], Event(p))
              = Append(received[s] \o hand[s] \o queue[s], Event(p))
        <4>1. /\ received[s] \in Seq(Events) /\ hand[s] \in Seq(Events) /\ queue[s] \in Seq(Events)
              /\ Event(p) \in Events
          BY <1>2, PassedType
        <4>2. \A r, h, q \in Seq(Events), e \in Events : r \o h \o Append(q, e) = Append(r \o h \o q, e)
          BY PassedAppend
        <4> QED BY <4>1, <4>2, Zenon
      <3> QED BY <2>1, <3>1 DEF Passed
    <2>3. Event(p) \notin Due(s) /\ Due(s)' = Due(s) \cup {Event(p)}
      BY <1>1, <1>4, DueNext
    <2> QED BY <1>2, <1>4, <2>2, <2>3 DEF Queued
  <1> QED BY <1>3, <1>4

LEMMA StreamStep ==
  ASSUME BrokerInv, Booked, [Next]_vars, NEW s \in Streams
  PROVE  Same(s) \/ TakenOut(s) \/ \E p \in Publishers : Queued(s, p) \/ (Refused(s, p) /\ Event(p) \in Events)
  <1>0. /\ queue \in [Streams -> Seq(Events)] /\ hand \in [Streams -> Seq(Events)]
        /\ received \in [Streams -> Seq(Events)]
        /\ evicted \in [Streams -> SUBSET Events] /\ refused \in [Streams -> SUBSET Events]
    BY DEF BrokerInv, TypeOK
  <1>1. ASSUME UNCHANGED <<pub, owed>> PROVE Due(s)' = Due(s)
    BY <1>1 DEF Due, Pending, Event
  <1>2. CASE UNCHANGED <<queue, hand, received, evicted, refused, pub, owed>>
    BY <1>1, <1>2 DEF Same, Passed
  <1>3. ASSUME NEW t \in Streams, Get(t) PROVE Same(s)
    <2>1. /\ queue[t] # <<>> /\ hand' = [hand EXCEPT ![t] = <<Head(queue[t])>>]
          /\ queue' = [queue EXCEPT ![t] = Tail(queue[t])] /\ hand[t] = <<>>
          /\ UNCHANGED <<received, evicted, refused, pub, owed>>
      BY <1>3 DEF Get, BrokerInv, Connected
    <2>2. CASE s = t
      <3>1. queue'[s] = Tail(queue[s]) /\ hand'[s] = <<Head(queue[s])>> /\ hand[s] = <<>>
        BY <1>0, <2>1, <2>2
      <3>2. received[s] \o <<>> \o queue[s] = received[s] \o <<Head(queue[s])>> \o Tail(queue[s])
        BY <2>1, <2>2, PassedType, PassedTake
      <3>3. Passed(s)' = Passed(s)
        BY <2>1, <3>1, <3>2 DEF Passed
      <3> QED BY <1>1, <2>1, <3>3 DEF Same
    <2>3. CASE s # t
      <3>1. queue'[s] = queue[s] /\ hand'[s] = hand[s]
        BY <1>0, <2>1, <2>3
      <3> QED BY <1>1, <2>1, <3>1 DEF Same, Passed
    <2> QED BY <2>2, <2>3
  <1>4. ASSUME NEW t \in Streams, Send(t) PROVE Same(s)
    <2>1. /\ received' = [received EXCEPT ![t] = received[t] \o hand[t]]
          /\ hand' = [hand EXCEPT ![t] = <<>>]
          /\ UNCHANGED <<queue, evicted, refused, pub, owed>>
      BY <1>4 DEF Send
    <2>2. CASE s = t
      <3>1. received'[s] = received[s] \o hand[s] /\ hand'[s] = <<>>
        BY <1>0, <2>1, <2>2
      <3>2. (received[s] \o hand[s]) \o <<>> = received[s] \o hand[s]
        BY PassedType, ConcatEmptySeq
      <3>3. Passed(s)' = Passed(s)
        BY <2>1, <3>1, <3>2 DEF Passed
      <3> QED BY <1>1, <2>1, <3>3 DEF Same
    <2>3. CASE s # t
      <3>1. received'[s] = received[s] /\ hand'[s] = hand[s]
        BY <1>0, <2>1, <2>3
      <3> QED BY <1>1, <2>1, <3>1 DEF Same, Passed
    <2> QED BY <2>2, <2>3
  <1>5. ASSUME NEW p \in Publishers, Publish(p) PROVE Same(s)
    <2>1. Due(s)' = Due(s)
      BY <1>5, DuePublish
    <2> QED BY <1>5, <2>1 DEF Publish, readVars, Same, Passed
  <1>6. ASSUME NEW p \in Publishers, Skip(p) PROVE Same(s)
    <2>1. Due(s)' = Due(s)
      BY <1>6, DueNext DEF Skip
    <2> QED BY <1>6, <2>1 DEF Skip, readVars, Same, Passed
  <1>7. ASSUME NEW p \in Publishers, Put(p) PROVE Same(s) \/ Queued(s, p)
    <2>0. /\ pub[p].step # "idle" /\ Event(p) \in Wants[Target(p)]
          /\ UNCHANGED <<received, hand, evicted, refused, owed>>
      BY <1>7 DEF Put, readVars
    <2>1. CASE Go(p, "evict") /\ UNCHANGED queue
      <3>1. Due(s)' = Due(s)
        BY <2>0, <2>1, DueGo
      <3> QED BY <2>0, <2>1, <3>1 DEF Same, Passed
    <2>2. CASE PutInto(p)
      BY <2>0, <2>2, PutBooks
    <2> QED BY <1>7, <2>1, <2>2 DEF Put
  <1>8. ASSUME NEW p \in Publishers, Evict(p) PROVE Same(s) \/ TakenOut(s)
    <2>0. /\ pub[p].step = "evict" /\ Go(p, "again") /\ UNCHANGED <<received, hand, refused, owed>>
      BY <1>8 DEF Evict, readVars
    <2>1. Event(p) \in Wants[Target(p)] /\ Target(p) \in Streams
      BY <2>0, InHand
    <2>2. Due(s)' = Due(s)
      BY <2>0, <2>1, DueGo
    <2>3. CASE s # Target(p) \/ queue[Target(p)] = <<>>
      <3>1. queue'[s] = queue[s] /\ evicted'[s] = evicted[s]
        BY <1>0, <1>8, <2>1, <2>3 DEF Evict
      <3> QED BY <2>0, <2>2, <3>1 DEF Same, Passed
    <2>4. CASE s = Target(p) /\ queue[s] # <<>>
      <3>1. queue'[s] = Tail(queue[s]) /\ evicted'[s] = evicted[s] \cup {Head(queue[s])}
        BY <1>0, <1>8, <2>1, <2>4 DEF Evict
      <3> DEFINE a == received[s] \o hand[s]
      <3>2. PICK k : Dropped(a \o queue[s], a \o Tail(queue[s]), k) /\ (a \o queue[s])[k] = Head(queue[s])
        BY <2>4, PassedType, PassedEvict
      <3>3. Passed(s) = a \o queue[s] /\ Passed(s)' = a \o Tail(queue[s])
        BY <2>0, <3>1 DEF Passed
      <3>4. Dropped(Passed(s), Passed(s)', k) /\ evicted'[s] = evicted[s] \cup {Passed(s)[k]}
        BY <3>1, <3>2, <3>3
      <3> QED BY <2>0, <2>2, <3>4 DEF TakenOut
    <2> QED BY <2>3, <2>4
  <1>9. ASSUME NEW p \in Publishers, PutAgain(p)
        PROVE  Same(s) \/ Queued(s, p) \/ (Refused(s, p) /\ Event(p) \in Events)
    <2>0. /\ pub[p].step = "again" /\ UNCHANGED <<received, hand, evicted, owed>>
      BY <1>9 DEF PutAgain, readVars
    <2>1. /\ Event(p) \in Wants[Target(p)] /\ Target(p) \in Streams /\ Event(p) \in Events
      BY <2>0, InHand
    <2>2. CASE PutInto(p) /\ UNCHANGED refused
      BY <2>0, <2>1, <2>2, PutBooks
    <2>3. CASE /\ refused' = [refused EXCEPT ![Target(p)] = refused[Target(p)] \cup {Event(p)}]
               /\ NextTarget(p) /\ UNCHANGED queue
      <3>1. Passed(s)' = Passed(s)
        BY <2>0, <2>3 DEF Passed
      <3>2. CASE s # Target(p)
        <4>1. Due(s)' = Due(s) /\ refused'[s] = refused[s]
          BY <1>0, <2>0, <2>1, <2>3, <3>2, DueNext
        <4> QED BY <2>0, <3>1, <4>1 DEF Same
      <3>3. CASE s = Target(p)
        <4>1. Event(p) \notin Due(s) /\ Due(s)' = Due(s) \cup {Event(p)}
          BY <2>0, <2>1, <2>3, <3>3, DueNext
        <4>2. refused'[s] = refused[s] \cup {Event(p)}
          BY <1>0, <2>1, <2>3, <3>3
        <4> QED BY <2>0, <2>1, <3>1, <4>1, <4>2 DEF Refused
      <3> QED BY <3>2, <3>3
    <2> QED BY <1>9, <2>2, <2>3 DEF PutAgain
  <1> QED BY <1>2, <1>3, <1>4, <1>5, <1>6, <1>7, <1>8, <1>9
          DEF Next, vars, readVars, PublisherStep, Subscribe, GetTimesOut, SendFails, Cancelled, StartJob

-------------------------------------------------------------------------------
LEMMA InitAccountInv == Init => AccountInv
  <1> SUFFICES ASSUME Init PROVE AccountInv
    OBVIOUS
  <1>1. BrokerInv
    BY InitBrokerInv
  <1>2. Booked
    BY DEF Init, Booked
  <1>3. ASSUME NEW s \in Streams PROVE Books(Passed(s), evicted[s], refused[s], Due(s))
    <2>1. received[s] = <<>> /\ hand[s] = <<>> /\ queue[s] = <<>> /\ evicted[s] = {} /\ refused[s] = {} /\ owed[s] = {}
      BY DEF Init
    <2>2. Passed(s) = <<>>
      BY <2>1, <1>1, PassedType, ConcatEmptySeq DEF Passed
    <2>3. IsInjective(<<>>) /\ ToSet(<<>>) = {}
      BY DEF IsInjective, ToSet
    <2>4. Due(s) = {}
      BY <2>1 DEF Due
    <2> QED BY <2>1, <2>2, <2>3, <2>4 DEF Books
  <1> QED BY <1>1, <1>2, <1>3, AccountedIs DEF AccountInv

LEMMA AccountInvStep ==
  ASSUME AccountInv, [Next]_vars
  PROVE  AccountInv'
  <1>0. BrokerInv /\ Booked /\ \A s \in Streams : Books(Passed(s), evicted[s], refused[s], Due(s))
    BY AccountedIs DEF AccountInv
  <1>1. BrokerInv' /\ Booked'
    BY <1>0, BrokerInvStep, BookedStep
  <1>2. ASSUME NEW s \in Streams
        PROVE  Books(Passed(s)', evicted'[s], refused'[s], Due(s)')
    <2>0. /\ Books(Passed(s), evicted[s], refused[s], Due(s))
          /\ Passed(s) \in Seq(Events) /\ Passed(s)' \in Seq(Events)
      <3>1. Passed(s) \in Seq(Events)
        BY <1>0, PassedType
      <3>2. Passed(s)' \in Seq(Events)
        <4>1. received'[s] \in Seq(Events) /\ hand'[s] \in Seq(Events) /\ queue'[s] \in Seq(Events)
          BY <1>1 DEF BrokerInv, TypeOK
        <4>2. received'[s] \o hand'[s] \in Seq(Events)
          BY <4>1, ConcatProperties
        <4>3. (received'[s] \o hand'[s]) \o queue'[s] \in Seq(Events)
          BY <4>1, <4>2, ConcatProperties
        <4> QED BY <4>3 DEF Passed
      <3> QED BY <1>0, <3>1, <3>2
    <2>1. CASE Same(s)
      BY <2>0, <2>1 DEF Same
    <2>2. CASE TakenOut(s)
      BY <2>0, <2>2, BooksDrop DEF TakenOut
    <2>3. ASSUME NEW p \in Publishers, Queued(s, p)
          PROVE  Books(Passed(s)', evicted'[s], refused'[s], Due(s)')
      <3>1. Event(p) \in Events
        BY <1>0, <2>3, InHand DEF Queued
      <3> QED BY <2>0, <2>3, <3>1, BooksAppend DEF Queued
    <2>4. ASSUME NEW p \in Publishers, Refused(s, p)
          PROVE  Books(Passed(s)', evicted'[s], refused'[s], Due(s)')
      BY <2>0, <2>4, BooksRefuse DEF Refused
    <2> QED BY <1>0, <2>1, <2>2, <2>3, <2>4, StreamStep
  <1>3. Accounted'
    BY <1>2 DEF Accounted, Books, Due
  <1> QED BY <1>1, <1>3 DEF AccountInv

(* An event that was stored while a stream was subscribed reaches its      *)
(* client once, waits once for it, or is one that was evicted or refused;  *)
(* no client gets an event twice, one that its filter holds back, or one   *)
(* from before its subscription, whatever other threads and readers do     *)
(* between the three calls of _enqueue_nonblocking.                        *)
THEOREM EveryEventAccounted == Spec => []Accounted
  <1>1. AccountInv => Accounted
    BY DEF AccountInv
  <1> QED BY InitAccountInv, AccountInvStep, <1>1, PTL DEF Spec

-------------------------------------------------------------------------------
(***************************************************************************)
(* Order.  What a publisher still has to publish is not owed to anybody,   *)
(* so nothing that comes after the event in hand is ahead of it.           *)
(***************************************************************************)
OrderInv == AccountInv /\ PublisherOrder

LEMMA LaterIsNotOwed ==
  ASSUME BrokerInv, Booked, NEW s \in Streams, NEW p \in Publishers, pub[p].left # <<>>,
         NEW f, PublishedBefore(Event(p), f)
  PROVE  f \notin owed[s]
  <1>0. PICK q \in Publishers : \E a, b \in DOMAIN Program[q] :
          a < b /\ Program[q][a] = Event(p) /\ Program[q][b] = f
    BY DEF PublishedBefore
  <1>1. PICK k \in DOMAIN Program[q], l \in DOMAIN Program[q] :
          k < l /\ Program[q][k] = Event(p) /\ Program[q][l] = f
    BY <1>0
  <1>2. /\ pub[p].left \in Seq(Events) /\ Behind(pub[p].left, Program[p])
        /\ Program[p] \in Seq(Events)
    BY BrokerAssumption DEF BrokerInv, Publishing, GoodPublisher, PublisherState
  <1>3. /\ Len(Program[p]) \in Nat /\ DOMAIN Program[p] = 1..Len(Program[p])
        /\ Len(pub[p].left) \in Nat \ {0} /\ DOMAIN pub[p].left = 1..Len(pub[p].left)
        /\ Len(pub[p].left) <= Len(Program[p])
    BY <1>2, LenProperties, EmptySeq DEF Behind
  <1>4. PICK m \in Nat : m = Len(Program[p]) - Len(pub[p].left) /\ Len(Program[p]) = m + Len(pub[p].left)
    <2>1. \A a, b \in Nat : b <= a => a - b \in Nat /\ a = (a - b) + b
      OBVIOUS
    <2>2. Len(Program[p]) \in Nat /\ Len(pub[p].left) \in Nat /\ Len(pub[p].left) <= Len(Program[p])
      BY <1>3
    <2>3. \E m \in Nat : m = Len(Program[p]) - Len(pub[p].left) /\ Len(Program[p]) = m + Len(pub[p].left)
      BY <2>1, <2>2
    <2> QED BY <2>3
  <1>a. \A i \in DOMAIN pub[p].left : pub[p].left[i] = Program[p][m + i]
    BY <1>2, <1>4 DEF Behind
  <1>5. m + 1 \in DOMAIN Program[p] /\ Event(p) = Program[p][m + 1]
    <2>1. Event(p) = pub[p].left[1] /\ 1 \in DOMAIN pub[p].left
      BY EventIsFirst
    <2>2. pub[p].left[1] = Program[p][m + 1]
      BY <1>a, <2>1
    <2>3. m + 1 \in 1..Len(Program[p])
      <3>1. \A b \in Nat \ {0} : m + 1 \in 1..(m + b)
        OBVIOUS
      <3> QED BY <1>3, <1>4, <3>1
    <2> QED BY <1>3, <2>1, <2>2, <2>3
  <1>6. q = p /\ k = m + 1
    BY <1>1, <1>5, BrokerAssumption
  <1>7. l - m \in 1..Len(pub[p].left) /\ l - m # 1 /\ m + (l - m) = l
    <2>1. l \in 1..Len(Program[p]) /\ m + 1 < l
      BY <1>1, <1>3, <1>6
    <2>2. \A b \in Nat : \A n \in 1..(m + b) :
            m + 1 < n => n - m \in 1..b /\ n - m # 1 /\ m + (n - m) = n
      OBVIOUS
    <2> QED BY <1>3, <1>4, <2>1, <2>2
  <1>8. l - m \in DOMAIN pub[p].left
    BY <1>3, <1>7
  <1>9. pub[p].left[l - m] = Program[p][m + (l - m)]
    BY <1>a, <1>8
  <1> QED BY <1>1, <1>6, <1>7, <1>8, <1>9 DEF Booked

LEMMA OrderInvStep ==
  ASSUME OrderInv, [Next]_vars
  PROVE  OrderInv'
  <1>0. BrokerInv /\ Booked /\ AccountInv /\ AccountInv' /\ PublisherOrder
    BY AccountInvStep DEF OrderInv, AccountInv
  <1> SUFFICES ASSUME NEW s \in Streams, NEW i \in DOMAIN Passed(s)', NEW j \in DOMAIN Passed(s)', i < j
               PROVE  ~PublishedBefore(Passed(s)'[j], Passed(s)'[i])
    BY <1>0 DEF OrderInv, PublisherOrder, PublishedBefore
  <1>1. Passed(s) \in Seq(Events)
    BY <1>0, PassedType
  <1>2. CASE Same(s)
    BY <1>0, <1>2 DEF PublisherOrder, Same
  <1>3. CASE TakenOut(s)
    <2>1. PICK k : Dropped(Passed(s), Passed(s)', k)
      BY <1>3 DEF TakenOut
    <2>2. Passed(s)' \in Seq(Events) /\ IsInjective(Passed(s))
      <3>1. /\ received'[s] \in Seq(Events) /\ hand'[s] \in Seq(Events) /\ queue'[s] \in Seq(Events)
        BY <1>0 DEF AccountInv, BrokerInv, TypeOK
      <3>2. received'[s] \o hand'[s] \in Seq(Events)
        BY <3>1, ConcatProperties
      <3>3. (received'[s] \o hand'[s]) \o queue'[s] \in Seq(Events)
        BY <3>1, <3>2, ConcatProperties
      <3> QED BY <1>0, <3>3 DEF Passed, AccountInv, Accounted
    <2>3. ASSUME NEW t \in Seq(Events), Dropped(Passed(s), t, k), i \in DOMAIN t, j \in DOMAIN t
          PROVE  \E m, n \in DOMAIN Passed(s) : m < n /\ Passed(s)[m] = t[i] /\ Passed(s)[n] = t[j]
      BY <1>1, <2>2, <2>3, DropOne
    <2>4. PICK m \in DOMAIN Passed(s), n \in DOMAIN Passed(s) :
            m < n /\ Passed(s)[m] = Passed(s)'[i] /\ Passed(s)[n] = Passed(s)'[j]
      BY <2>1, <2>2, <2>3
    <2>5. ~PublishedBefore(Passed(s)[n], Passed(s)[m])
      BY <1>0, <2>4 DEF PublisherOrder
    <2> QED BY <2>4, <2>5
  <1>4. ASSUME NEW p \in Publishers, Queued(s, p) PROVE ~PublishedBefore(Passed(s)'[j], Passed(s)'[i])
    <2>1. Event(p) \in Events /\ pub[p].left # <<>> /\ Passed(s)' = Append(Passed(s), Event(p))
      BY <1>0, <1>4, InHand DEF Queued
    <2>2. /\ Len(Passed(s)) \in Nat /\ DOMAIN Passed(s) = 1..Len(Passed(s))
          /\ DOMAIN Append(Passed(s), Event(p)) = 1..(Len(Passed(s)) + 1)
          /\ \A a \in 1..Len(Passed(s)) : Append(Passed(s), Event(p))[a] = Passed(s)[a]
          /\ Append(Passed(s), Event(p))[Len(Passed(s)) + 1] = Event(p)
      BY <1>1, <2>1, AppendIs
    <2>3. i \in 1..Len(Passed(s)) /\ j \in 1..(Len(Passed(s)) + 1)
      BY <2>1, <2>2
    <2>4. Passed(s)'[i] = Passed(s)[i]
      BY <2>1, <2>2, <2>3
    <2>5. CASE j \in 1..Len(Passed(s))
      BY <1>0, <2>1, <2>2, <2>3, <2>4, <2>5 DEF PublisherOrder
    <2>6. CASE j = Len(Passed(s)) + 1
      <3>1. Passed(s)'[j] = Event(p)
        BY <2>1, <2>2, <2>6
      <3>2. Passed(s)[i] \in ToSet(Passed(s)) /\ ToSet(Passed(s)) \subseteq owed[s]
        BY <1>0, <2>2, <2>3 DEF AccountInv, Accounted, ToSet
      <3>3. ~PublishedBefore(Event(p), Passed(s)[i])
        BY <1>0, <2>1, <3>2, LaterIsNotOwed
      <3> QED BY <2>4, <3>1, <3>3
    <2> QED BY <2>2, <2>3, <2>5, <2>6
  <1>5. ASSUME NEW p \in Publishers, Refused(s, p) PROVE ~PublishedBefore(Passed(s)'[j], Passed(s)'[i])
    BY <1>0, <1>5 DEF PublisherOrder, Refused
  <1> QED BY <1>0, <1>2, <1>3, <1>4, <1>5, StreamStep

(* What one thread stores and publishes reaches every client in the order  *)
(* in which that thread published it, whatever was evicted in between.     *)
THEOREM EachPublishersOrder == Spec => []PublisherOrder
  <1>1. Init => OrderInv
    <2> SUFFICES ASSUME Init PROVE OrderInv
      OBVIOUS
    <2>1. AccountInv
      BY InitAccountInv
    <2>2. ASSUME NEW s \in Streams PROVE Passed(s) = <<>>
      <3>1. received[s] = <<>> /\ hand[s] = <<>> /\ queue[s] = <<>>
        BY DEF Init
      <3> QED BY <2>1, <3>1, PassedType, ConcatEmptySeq DEF Passed, AccountInv
    <2>3. DOMAIN <<>> = {}
      OBVIOUS
    <2> QED BY <2>1, <2>2, <2>3 DEF OrderInv, PublisherOrder
  <1>2. OrderInv => PublisherOrder
    BY DEF OrderInv
  <1> QED BY <1>1, <1>2, OrderInvStep, PTL DEF Spec
===============================================================================
