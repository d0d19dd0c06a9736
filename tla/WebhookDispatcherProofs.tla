------------------------ MODULE WebhookDispatcherProofs ------------------------
(***************************************************************************)
(* What holds of WebhookDispatcher for any subscriptions and events, every *)
(* capacity of the queue, and however often the store raises.              *)
(***************************************************************************)
EXTENDS WebhookDispatcher, SequenceTheorems, FiniteSetTheorems, TLAPS

(***************************************************************************)
(* The shape of the worker: what it has in hand at each of its steps, and  *)
(* that it touches no subscription before it was created.                  *)
(***************************************************************************)
WorkerShape ==
  /\ worker.step \in {"loop", "get"} => worker.event = None
  /\ worker.step \in {"list", "post", "record"} => worker.event \in Events
  /\ worker.step \in {"loop", "get", "list"} => worker.rest = {}
  /\ worker.step \in {"loop", "get", "list", "post"} => worker.at = {}
  /\ \A h \in worker.rest \cup worker.at : hook[h] # "new"

WorkerInv == TypeOK /\ WorkerShape

-------------------------------------------------------------------------------
LEMMA InitWorkerInv == Init => WorkerInv
  <1> SUFFICES ASSUME Init PROVE WorkerInv
    OBVIOUS
  <1>1. Cardinality({}) = 0
    BY FS_EmptySet
  <1>2. worker \in WorkerState /\ Cardinality(worker.at) <= 1
    BY <1>1 DEF Init, WorkerState, Idle
  <1>3. Len(queue) <= Capacity
    BY DispatcherAssumption DEF Init
  <1>4. /\ queue \in Seq(Events \cup {None}) /\ accepted \in Seq(Events)
        /\ posts \in [Hooks -> Seq(Events)] /\ answers \in [Hooks -> Seq({"success", "failure"})]
    BY EmptySeq DEF Init
  <1>5. faults \in 0..MaxFaults
    BY DispatcherAssumption DEF Init
  <1>6. TypeOK
    BY <1>2, <1>3, <1>4, <1>5 DEF Init, TypeOK
  <1> QED BY <1>6 DEF Init, WorkerInv, WorkerShape, Idle

(* What the steps of the worker can do to it. *)
LEMMA ProceedEffect ==
  ASSUME worker \in WorkerState, NEW rest \in SUBSET Hooks, Proceed(rest)
  PROVE  /\ rest = {} => worker' = Idle
         /\ rest # {} => /\ worker'.step = "post" /\ worker'.rest = rest /\ worker'.at = {}
                         /\ worker'.event = worker.event
         /\ worker' \in WorkerState /\ worker'.at = {} /\ worker'.rest = rest
  BY DEF Proceed, Idle, WorkerState

LEMMA AtEffect ==
  ASSUME worker \in WorkerState, NEW s \in {"loop", "get", "list", "post", "record", "gone"}, At(s)
  PROVE  /\ worker'.step = s /\ worker' \in WorkerState
         /\ worker'.event = worker.event /\ worker'.rest = worker.rest
         /\ worker'.at = worker.at /\ worker'.verdict = worker.verdict
  BY DEF At, WorkerState

LEMMA IdleFacts ==
  /\ Idle \in WorkerState /\ Idle.step = "loop" /\ Idle.event = None
  /\ Idle.rest = {} /\ Idle.at = {}
  BY DEF Idle, WorkerState

LEMMA PostEffect ==
  ASSUME WorkerInv, NEW h \in Hooks, Post(h)
  PROVE  /\ worker.step = "post" /\ h \in worker.rest /\ worker.event \in Events
         /\ worker' \in WorkerState /\ worker'.step = "record" /\ worker'.rest = worker.rest \ {h}
         /\ worker'.at = {h} /\ worker'.event = worker.event
         /\ answers' = [answers EXCEPT ![h] = Append(answers[h], worker'.verdict)]
         /\ posts' = [posts EXCEPT ![h] = Append(posts[h], worker.event)]
  <1>1. PICK answer \in {"success", "failure"} :
          /\ worker' = [worker EXCEPT !.step = "record", !.rest = worker.rest \ {h},
                                      !.at = {h}, !.verdict = answer]
          /\ answers' = [answers EXCEPT ![h] = Append(answers[h], answer)]
    BY DEF Post
  <1>2. worker \in WorkerState
    BY DEF WorkerInv, TypeOK
  <1>3. /\ worker' \in WorkerState /\ worker'.step = "record" /\ worker'.rest = worker.rest \ {h}
        /\ worker'.at = {h} /\ worker'.event = worker.event /\ worker'.verdict = answer
    BY <1>1, <1>2 DEF WorkerState
  <1> QED BY <1>1, <1>3 DEF Post, WorkerInv, WorkerShape

(* Either the worker is in nobody's hands or at one endpoint. *)
LEMMA OneEndpoint ==
  ASSUME NEW S, NEW T, Cardinality(S) <= 1, T = {} \/ T = S \/ \E h : T = {h}
  PROVE  Cardinality(T) <= 1
  <1>1. CASE T = {}
    <2>1. Cardinality(T) = 0
      BY <1>1, FS_EmptySet
    <2> QED BY <2>1
  <1>2. ASSUME NEW h, T = {h} PROVE Cardinality(T) <= 1
    <2>1. Cardinality(T) = 1
      BY <1>2, FS_Singleton
    <2> QED BY <2>1
  <1> QED BY <1>1, <1>2

(* The steps of the worker, each of which leaves it in shape. *)
LEMMA WorkerShapeStep ==
  ASSUME WorkerInv, [Next]_vars
  PROVE  WorkerShape' /\ worker' \in WorkerState /\ Cardinality(worker'.at) <= 1
  <1> USE DEF WorkerInv, WorkerShape, vars, history
  <1>a. worker \in WorkerState /\ Cardinality(worker.at) <= 1
    BY DEF TypeOK
  <1>0. SUFFICES /\ WorkerShape' /\ worker' \in WorkerState
                 /\ worker'.at = {} \/ worker'.at = worker.at \/ \E h : worker'.at = {h}
    BY <1>a, OneEndpoint
  <1>1. CASE UNCHANGED <<worker, hook>>
    BY <1>1, <1>a
  <1>2. ASSUME NEW h \in Hooks, CreateHook(h) \/ DeleteHook(h)
        PROVE  /\ WorkerShape' /\ worker' \in WorkerState
               /\ worker'.at = {} \/ worker'.at = worker.at \/ \E g : worker'.at = {g}
    <2>1. UNCHANGED worker /\ \A g \in Hooks : hook[g] # "new" => hook'[g] # "new"
      BY <1>2 DEF CreateHook, DeleteHook, TypeOK
    <2>2. worker.rest \cup worker.at \subseteq Hooks
      BY <1>a DEF WorkerState
    <2> QED BY <1>a, <2>1, <2>2
  <1>3. CASE worker' = Idle /\ UNCHANGED hook
    BY <1>3, IdleFacts
  <1>4. CASE CheckStop \/ Kill
    <2>1. \/ worker.step = "loop" /\ At("get")
          \/ At("gone")
      BY <1>4 DEF CheckStop, Kill
    <2> QED BY <1>4, <1>a, <2>1, AtEffect DEF CheckStop, Kill
  <1>5. CASE Take /\ Head(queue) # None
    <2>1. Head(queue) \in Events
      BY <1>5, HeadTailProperties DEF Take, TypeOK
    <2>2. /\ worker'.step = "list" /\ worker'.event = Head(queue) /\ worker' \in WorkerState
          /\ worker'.rest = worker.rest /\ worker'.at = worker.at
      BY <1>5, <1>a, <2>1 DEF Take, WorkerState
    <2> QED BY <1>5, <2>1, <2>2 DEF Take
  <1>6. CASE (List \/ Record) /\ worker' # Idle
    <2>1. /\ \A h \in Matching \cup worker.rest : hook[h] # "new"
          /\ Matching \in SUBSET Hooks /\ worker.rest \in SUBSET Hooks
      BY <1>a DEF Matching, Active, WorkerState
    <2>2. PICK rest \in {Matching, worker.rest} : Proceed(rest)
      BY <1>6 DEF List, Record
    <2>3. /\ worker'.step = "post" /\ worker'.rest = rest /\ worker'.at = {}
          /\ worker'.event = worker.event /\ worker' \in WorkerState
      BY <1>6, <1>a, <2>1, <2>2, ProceedEffect
    <2> QED BY <1>6, <2>1, <2>3 DEF List, Record
  <1>7. ASSUME NEW h \in Hooks, Post(h)
        PROVE  /\ WorkerShape' /\ worker' \in WorkerState
               /\ worker'.at = {} \/ worker'.at = worker.at \/ \E g : worker'.at = {g}
    <2>1. /\ h \in worker.rest /\ worker.event \in Events /\ UNCHANGED hook
          /\ worker' \in WorkerState /\ worker'.step = "record"
          /\ worker'.rest = worker.rest \ {h} /\ worker'.at = {h} /\ worker'.event = worker.event
      BY <1>7, PostEffect DEF Post
    <2> QED BY <2>1
  <1>8. CASE RecordFails /\ worker' # Idle
    <2>1. /\ worker'.step = "record" /\ worker'.rest = worker.rest /\ worker'.at = worker.at
          /\ worker'.event = worker.event /\ worker' \in WorkerState
      BY <1>8, <1>a DEF RecordFails, WorkerState
    <2> QED BY <1>8, <2>1 DEF RecordFails
  <1>9. \/ UNCHANGED <<worker, hook>>
        \/ \E h \in Hooks : CreateHook(h) \/ DeleteHook(h) \/ Post(h)
        \/ CheckStop \/ Kill
        \/ Take /\ Head(queue) # None
        \/ (List \/ Record \/ RecordFails) /\ worker' # Idle
        \/ worker' = Idle /\ UNCHANGED hook
    BY DEF Next, Work, Enqueue, GetTimesOut, Take, ListFails, List, Record, RecordFails, Stop
  <1> QED BY <1>1, <1>2, <1>3, <1>4, <1>5, <1>6, <1>7, <1>8, <1>9

(* The queue's length. *)
LEMMA QueueStep ==
  ASSUME WorkerInv, [Next]_vars
  PROVE  queue' \in Seq(Events \cup {None}) /\ Len(queue') <= Capacity
  <1> USE DEF WorkerInv, TypeOK
  <1>1. ASSUME NEW e \in Events \cup {None}, ~Full
        PROVE  /\ Append(queue, e) \in Seq(Events \cup {None})
               /\ Len(Append(queue, e)) <= Capacity
    <2>1. /\ Append(queue, e) \in Seq(Events \cup {None})
          /\ Len(Append(queue, e)) = Len(queue) + 1 /\ Len(queue) \in Nat
      BY AppendProperties, LenProperties
    <2> QED BY <1>1, <2>1, DispatcherAssumption DEF Full
  <1>2. ASSUME queue # <<>>
        PROVE  Tail(queue) \in Seq(Events \cup {None}) /\ Len(Tail(queue)) <= Capacity
    <2>1. /\ Tail(queue) \in Seq(Events \cup {None})
          /\ Len(Tail(queue)) = Len(queue) - 1 /\ Len(queue) \in Nat
      BY <1>2, HeadTailProperties, LenProperties
    <2> QED BY <2>1, DispatcherAssumption
  <1>3. \/ UNCHANGED queue
        \/ ~Full /\ \E e \in Events \cup {None} : queue' = Append(queue, e)
        \/ queue # <<>> /\ queue' = Tail(queue)
    BY DEF Next, vars, Work, CreateHook, DeleteHook, Enqueue, CheckStop, GetTimesOut, Take, ListFails,
           List, Post, Record, RecordFails, Stop, Kill
  <1> QED BY <1>1, <1>2, <1>3

(* Each kind of step keeps the types and the worker's shape. *)
LEMMA WorkerInvStep ==
  ASSUME WorkerInv, [Next]_vars
  PROVE  WorkerInv'
  <1>0. /\ WorkerShape' /\ worker' \in WorkerState /\ Cardinality(worker'.at) <= 1
        /\ queue' \in Seq(Events \cup {None}) /\ Len(queue') <= Capacity
    BY WorkerShapeStep, QueueStep
  <1> SUFFICES TypeOK'
    BY <1>0 DEF WorkerInv
  <1> USE DispatcherAssumption DEF TypeOK, vars, history
  <1>a. TypeOK
    BY DEF WorkerInv
  <1>1. CASE UNCHANGED <<hook, row, stopped, faults, accepted, dropped, due, posts, answers, farewell>>
    BY <1>0, <1>1, <1>a
  <1>2. ASSUME NEW h \in Hooks, CreateHook(h) \/ DeleteHook(h) PROVE TypeOK'
    <2>1. Len(posts[h]) \in Nat
      BY <1>a, LenProperties
    <2> QED BY <1>0, <1>2, <1>a, <2>1 DEF CreateHook, DeleteHook
  <1>3. ASSUME NEW e \in Events, Enqueue(e) PROVE TypeOK'
    <2>1. Append(accepted, e) \in Seq(Events)
      BY <1>a, AppendProperties
    <2> QED BY <1>0, <1>3, <1>a, <2>1 DEF Enqueue
  <1>4. CASE ListFails \/ RecordFails
    BY <1>0, <1>4, <1>a DEF ListFails, RecordFails
  <1>5. CASE List
    <2>1. worker.event \in Events
      BY <1>5 DEF List, WorkerInv, WorkerShape
    <2>2. due' \in [Hooks -> SUBSET Events]
      BY <1>5, <1>a, <2>1 DEF List
    <2> QED BY <1>0, <1>5, <1>a, <2>2 DEF List
  <1>6. ASSUME NEW h \in Hooks, Post(h) PROVE TypeOK'
    <2>1. /\ Append(posts[h], worker.event) \in Seq(Events)
          /\ worker'.verdict \in {"success", "failure"}
      BY <1>6, <1>a, PostEffect, AppendProperties DEF WorkerState
    <2>2. Append(answers[h], worker'.verdict) \in Seq({"success", "failure"})
      BY <1>a, <2>1, AppendProperties
    <2>3. posts' \in [Hooks -> Seq(Events)]
      <3>1. posts \in [Hooks -> Seq(Events)]
        BY <1>a
      <3>2. posts' = [posts EXCEPT ![h] = Append(posts[h], worker.event)]
        BY <1>6, PostEffect
      <3> HIDE DEF TypeOK
      <3> QED BY <2>1, <3>1, <3>2
    <2>4. answers' \in [Hooks -> Seq({"success", "failure"})]
      <3>1. answers \in [Hooks -> Seq({"success", "failure"})]
        BY <1>a
      <3>2. answers' = [answers EXCEPT ![h] = Append(answers[h], worker'.verdict)]
        BY <1>6, PostEffect
      <3> HIDE DEF TypeOK
      <3> QED BY <2>2, <3>1, <3>2
    <2> QED BY <1>0, <1>6, <1>a, <2>3, <2>4 DEF Post
  <1>7. CASE Record
    <2>1. row' \in [Hooks -> [succeeded : BOOLEAN, failing : BOOLEAN]]
      BY <1>7, <1>a DEF Record, Recorded
    <2> QED BY <1>0, <1>7, <1>a, <2>1 DEF Record
  <1>8. CASE Stop
    BY <1>0, <1>8, <1>a DEF Stop
  <1>9. \/ UNCHANGED <<hook, row, stopped, faults, accepted, dropped, due, posts, answers, farewell>>
        \/ \E h \in Hooks : CreateHook(h) \/ DeleteHook(h) \/ Post(h)
        \/ \E e \in Events : Enqueue(e)
        \/ ListFails \/ RecordFails \/ List \/ Record \/ Stop
    BY DEF Next, Work, CheckStop, GetTimesOut, Take, Kill
  <1> QED BY <1>1, <1>2, <1>3, <1>4, <1>5, <1>6, <1>7, <1>8, <1>9

LEMMA AlwaysWorkerInv == Spec => []WorkerInv
  BY InitWorkerInv, WorkerInvStep, PTL DEF Spec

(* The queue never holds more than max_queue_size, the worker is POSTing   *)
(* to one endpoint at a time, and every variable keeps its type.           *)
THEOREM TypeInvariant == Spec => []TypeOK
  <1>1. WorkerInv => TypeOK
    BY DEF WorkerInv
  <1> QED BY <1>1, AlwaysWorkerInv, PTL

-------------------------------------------------------------------------------
(***************************************************************************)
(* OneLatePost.  A subscription that is deleted while the worker still has *)
(* it on its list has had no POST since; one is left to it, and no second, *)
(* because List takes the active ones only.                                *)
(***************************************************************************)
LatePostInv ==
  \A h \in Hooks : hook[h] = "deleted" =>
    /\ Len(posts[h]) <= farewell[h] + 1
    /\ h \in worker.rest => Len(posts[h]) <= farewell[h]

(* Outside Post, List and DeleteHook nothing that LatePostInv looks at      *)
(* changes to its harm.                                                    *)
LEMMA PostsStep ==
  ASSUME WorkerInv, [Next]_vars
  PROVE  \/ \E h \in Hooks : Post(h)
         \/ /\ UNCHANGED posts
            /\ \/ UNCHANGED worker
               \/ worker'.rest = worker.rest /\ worker'.event = worker.event
               \/ worker'.rest = {}
               \/ worker.rest = {} /\ worker'.rest = {}
               \/ List /\ worker'.rest = Matching
  <1> USE DEF WorkerInv, WorkerShape, TypeOK, vars, history
  <1>1. CASE UNCHANGED <<posts, worker>>
    BY <1>1
  <1>2. CASE worker' = Idle /\ UNCHANGED posts
    BY <1>2, IdleFacts
  <1>3. CASE CheckStop \/ Kill
    <2>1. At("gone") \/ At("get")
      BY <1>3 DEF CheckStop, Kill
    <2> QED BY <1>3, <2>1, AtEffect DEF CheckStop, Kill
  <1>4. CASE Take /\ Head(queue) # None
    <2>1. worker.rest = {} /\ worker'.rest = worker.rest
      BY <1>4 DEF Take, WorkerState
    <2> QED BY <1>4, <2>1 DEF Take
  <1>5. CASE List /\ worker' # Idle
    <2>1. Matching \in SUBSET Hooks /\ Proceed(Matching)
      BY <1>5 DEF List, Matching, Active
    <2> QED BY <1>5, <2>1, ProceedEffect DEF List
  <1>6. CASE Record /\ worker' # Idle
    <2>1. worker.rest \in SUBSET Hooks /\ Proceed(worker.rest)
      BY <1>6 DEF Record, WorkerState
    <2>2. worker'.rest = worker.rest /\ worker'.event = worker.event
      BY <1>6, <2>1, ProceedEffect
    <2> QED BY <1>6, <2>2 DEF Record
  <1>7. CASE RecordFails /\ worker' # Idle
    <2>1. worker'.rest = worker.rest /\ worker'.event = worker.event
      BY <1>7 DEF RecordFails, WorkerState
    <2> QED BY <1>7, <2>1 DEF RecordFails
  <1>8. \/ UNCHANGED <<posts, worker>>
        \/ worker' = Idle /\ UNCHANGED posts
        \/ CheckStop \/ Kill \/ \E h \in Hooks : Post(h)
        \/ Take /\ Head(queue) # None
        \/ (List \/ Record \/ RecordFails) /\ worker' # Idle
    BY DEF Next, Work, CreateHook, DeleteHook, Enqueue, GetTimesOut, Take, ListFails, List, Record,
           RecordFails, Stop
  <1> QED BY <1>1, <1>2, <1>3, <1>4, <1>5, <1>6, <1>7, <1>8

LEMMA LatePostStep ==
  ASSUME WorkerInv, LatePostInv, [Next]_vars
  PROVE  LatePostInv'
  <1> SUFFICES ASSUME NEW g \in Hooks, hook'[g] = "deleted"
               PROVE  /\ Len(posts'[g]) <= farewell'[g] + 1
                      /\ g \in worker'.rest => Len(posts'[g]) <= farewell'[g]
    BY DEF LatePostInv
  <1>0. Len(posts[g]) \in Nat /\ farewell[g] \in Nat
    BY LenProperties DEF WorkerInv, TypeOK
  <1>1. ASSUME NEW h \in Hooks, Post(h)
        PROVE  /\ Len(posts'[g]) <= farewell'[g] + 1
               /\ g \in worker'.rest => Len(posts'[g]) <= farewell'[g]
    <2>1. hook[g] = "deleted" /\ farewell' = farewell /\ posts \in [Hooks -> Seq(Events)]
      BY <1>1 DEF Post, WorkerInv, TypeOK
    <2>2. /\ worker'.rest = worker.rest \ {h} /\ h \in worker.rest /\ worker.event \in Events
          /\ posts' = [posts EXCEPT ![h] = Append(posts[h], worker.event)]
      BY <1>1, PostEffect
    <2>3. CASE g = h
      <3>1. posts'[g] = Append(posts[g], worker.event)
        BY <2>1, <2>2, <2>3
      <3>2. Len(posts'[g]) = Len(posts[g]) + 1
        BY <2>1, <2>2, <3>1, AppendProperties
      <3> QED BY <1>0, <2>1, <2>2, <2>3, <3>2 DEF LatePostInv
    <2>4. CASE g # h
      BY <2>1, <2>2, <2>4 DEF LatePostInv
    <2> QED BY <2>3, <2>4
  <1>2. ASSUME NEW h \in Hooks, DeleteHook(h)
        PROVE  /\ Len(posts'[g]) <= farewell'[g] + 1
               /\ g \in worker'.rest => Len(posts'[g]) <= farewell'[g]
    BY <1>0, <1>2 DEF DeleteHook, WorkerInv, TypeOK, LatePostInv
  <1>3. CASE (\A h \in Hooks : ~Post(h) /\ ~DeleteHook(h))
    <2>1. hook[g] = "deleted" /\ farewell' = farewell
      BY <1>3 DEF Next, vars, history, Work, CreateHook, Enqueue, CheckStop, GetTimesOut, Take, List,
                  ListFails, Record, RecordFails, Stop, Kill, WorkerInv, TypeOK
    <2>2. UNCHANGED posts /\ (g \in worker'.rest => g \in worker.rest)
      BY <1>3, <2>1, PostsStep DEF Matching, Active
    <2> QED BY <2>1, <2>2 DEF LatePostInv
  <1> QED BY <1>1, <1>2, <1>3

(* A deleted endpoint gets one more event at most: the one the worker had  *)
(* already listed it for.                                                  *)
THEOREM DeletedGetsOneMore == Spec => []OneLatePost
  <1>1. Init => LatePostInv
    BY DEF Init, LatePostInv
  <1>2. WorkerInv /\ LatePostInv /\ [Next]_vars => LatePostInv'
    BY LatePostStep
  <1>3. LatePostInv => OneLatePost
    BY DEF LatePostInv, OneLatePost
  <1> QED BY <1>1, <1>2, <1>3, AlwaysWorkerInv, PTL DEF Spec

-------------------------------------------------------------------------------
(***************************************************************************)
(* FailureIsolated follows from the worker's shape: what a subscription    *)
(* was listed for is on the worker's list until it is POSTed.              *)
(***************************************************************************)
LEMMA AppendToSet ==
  ASSUME NEW S, NEW s \in Seq(S), NEW e \in S
  PROVE  ToSet(Append(s, e)) = ToSet(s) \cup {e}
  <1>1. /\ Append(s, e) \in Seq(S) /\ Len(Append(s, e)) = Len(s) + 1 /\ Len(s) \in Nat
        /\ \A i \in 1..Len(s) : Append(s, e)[i] = s[i]
        /\ Append(s, e)[Len(s) + 1] = e
    BY AppendProperties, LenProperties
  <1>2. DOMAIN s = 1..Len(s) /\ DOMAIN Append(s, e) = 1..(Len(s) + 1)
    BY <1>1, LenProperties
  <1> QED BY <1>1, <1>2 DEF ToSet

SkippedByStore == \/ stopped /\ worker'.step = "gone"
                  \/ worker.step = "record" /\ worker.verdict = "failure" /\ faults' # faults

LEMMA MissedStep ==
  ASSUME WorkerInv, [Next]_vars, NEW g \in Hooks, NEW e \in Events,
         ~Missed(g, e), Missed(g, e)'
  PROVE  SkippedByStore
  <1>1. /\ e \in due'[g] /\ ~(e \in ToSet(posts'[g]))
        /\ ~(worker'.event = e /\ g \in worker'.rest /\ worker'.step # "gone")
    BY DEF Missed
  <1>2. e \in due[g] => \/ e \in ToSet(posts[g])
                        \/ worker.event = e /\ g \in worker.rest /\ worker.step # "gone"
    BY DEF Missed
  <1>4. CASE List
    <2>1. worker.rest = {} /\ UNCHANGED posts
      BY <1>4 DEF List, WorkerInv, WorkerShape
    <2>2. e \in due[g] \/ (g \in Matching /\ e = worker.event)
      BY <1>1, <1>4 DEF List, WorkerInv, TypeOK
    <2>3. g \in Matching /\ e = worker.event
      BY <1>1, <1>2, <2>1, <2>2
    <2>4. worker' = [worker EXCEPT !.step = "post", !.rest = Matching, !.at = {}]
      BY <1>4, <2>3 DEF List, Proceed
    <2>5. worker'.event = e /\ worker'.rest = Matching /\ worker'.step = "post"
      BY <2>3, <2>4 DEF WorkerInv, TypeOK, WorkerState
    <2> QED BY <1>1, <2>3, <2>5
  <1>5. ASSUME NEW h \in Hooks, Post(h) PROVE FALSE
    <2>1. /\ worker'.rest = worker.rest \ {h} /\ worker'.event = worker.event
          /\ worker.event \in Events /\ worker'.step = "record"
          /\ posts' = [posts EXCEPT ![h] = Append(posts[h], worker.event)]
      BY <1>5, PostEffect
    <2>2. UNCHANGED due /\ posts \in [Hooks -> Seq(Events)]
      BY <1>5 DEF Post, WorkerInv, TypeOK
    <2>3. ToSet(Append(posts[h], worker.event)) = ToSet(posts[h]) \cup {worker.event}
      BY <2>1, <2>2, AppendToSet
    <2>4. ToSet(posts'[g]) = IF g = h THEN ToSet(posts[g]) \cup {worker.event} ELSE ToSet(posts[g])
      BY <2>1, <2>2, <2>3
    <2> QED BY <1>1, <1>2, <2>1, <2>2, <2>4
  <1>6. CASE ~List /\ \A h \in Hooks : ~Post(h)
    <2>1. UNCHANGED <<due, posts>>
      BY <1>6 DEF Next, vars, history, Work, CreateHook, DeleteHook, Enqueue, CheckStop, GetTimesOut,
                  Take, ListFails, Record, RecordFails, Stop, Kill
    <2>2. worker.event = e /\ g \in worker.rest /\ worker.step # "gone"
      BY <1>1, <1>2, <2>1
    <2>3. worker.step \in {"post", "record"}
      BY <2>2 DEF WorkerInv, WorkerShape, TypeOK, WorkerState
    <2>4. UNCHANGED worker \/ Record \/ RecordFails \/ Kill
      BY <1>6, <2>3
      DEF Next, vars, Work, CreateHook, DeleteHook, Enqueue, CheckStop, GetTimesOut, Take, ListFails, Stop
    <2>5. ~Record
      BY <1>1, <2>2, ProceedEffect DEF Record, WorkerInv, TypeOK, WorkerState
    <2>6. CASE RecordFails
      <3>1. faults' # faults /\ worker.step = "record"
        BY <2>6, DispatcherAssumption DEF RecordFails, WorkerInv, TypeOK
      <3>2. worker.verdict = "failure"
        BY <1>1, <2>2, <2>6 DEF RecordFails, WorkerInv, TypeOK, WorkerState
      <3> QED BY <3>1, <3>2 DEF SkippedByStore
    <2>7. CASE Kill
      <3>1. worker'.step = "gone" /\ stopped
        BY <2>7, AtEffect DEF Kill, WorkerInv, TypeOK
      <3> QED BY <3>1 DEF SkippedByStore
    <2> QED BY <1>1, <2>1, <2>2, <2>4, <2>5, <2>6, <2>7
  <1> QED BY <1>4, <1>5, <1>6

(* One endpoint that fails costs no other endpoint its event, but where    *)
(* the failure itself cannot be recorded, or the process ends.             *)
THEOREM NoEndpointLosesItsEvent == Spec => FailureIsolated
  <1>1. WorkerInv /\ [Next]_vars
          => [\A h \in Hooks, e \in Events :
                ~Missed(h, e) /\ Missed(h, e)' =>
                  \/ stopped /\ worker'.step = "gone"
                  \/ worker.step = "record" /\ worker.verdict = "failure" /\ faults' # faults]_vars
    BY MissedStep DEF SkippedByStore
  <1> QED BY <1>1, AlwaysWorkerInv, PTL DEF Spec, FailureIsolated

-------------------------------------------------------------------------------
(***************************************************************************)
(* ResultsTrue.  A result in hand is the latest one, or a success that the *)
(* store refused and that is now recorded as a failure.                    *)
(***************************************************************************)
Results == Seq({"success", "failure"})

InHand(h) == h \in worker.at /\ worker.step # "gone"

VerdictKnown(h) ==
  \E before \in Results : \E latest \in {"success", "failure"} :
    /\ answers[h] = Append(before, latest)
    /\ worker.verdict = latest \/ (worker.verdict = "failure" /\ faults > 0)

ResultsInv ==
  /\ \A h \in Hooks : hook[h] = "new" => answers[h] = <<>> /\ Tells(row[h], answers[h])
  /\ \A h \in Hooks : InHand(h) => VerdictKnown(h)

LEMMA FrontOfAppend ==
  ASSUME NEW S, NEW s \in Seq(S), NEW e \in S
  PROVE  Front(Append(s, e)) = s /\ Last(Append(s, e)) = e
  <1> DEFINE t == Append(s, e)
             f == SubSeq(t, 1, Len(s))
  <1>1. /\ t \in Seq(S) /\ Len(t) = Len(s) + 1 /\ Len(s) \in Nat
        /\ \A i \in 1..Len(s) : t[i] = s[i]
        /\ t[Len(s) + 1] = e
    BY AppendProperties, LenProperties
  <1>2. Front(t) = SubSeq(t, 1, Len(t) - 1) /\ Len(t) - 1 = Len(s)
    BY <1>1 DEF Front
  <1> HIDE DEF t
  <1>3. Len(f) = Len(s) /\ \A i \in 1..Len(s) : f[i] = s[i]
    BY <1>1, SubSeqProperties
  <1>4. f \in Seq(S)
    BY <1>1, SubSeqProperties
  <1>5. f = s
    BY <1>3, <1>4, SeqEqual
  <1> QED BY <1>1, <1>2, <1>5 DEF t, Last

LEMMA RecordedTells ==
  ASSUME NEW r \in [succeeded : BOOLEAN, failing : BOOLEAN], NEW before \in Results,
         worker.verdict \in {"success", "failure"}, Tells(r, before)
  PROVE  Tells(Recorded(r), Append(before, worker.verdict))
  <1>1. /\ ToSet(Append(before, worker.verdict)) = ToSet(before) \cup {worker.verdict}
        /\ Len(Append(before, worker.verdict)) = Len(before) + 1 /\ Len(before) \in Nat
        /\ Append(before, worker.verdict)[Len(before) + 1] = worker.verdict
    BY AppendToSet, AppendProperties, LenProperties DEF Results
  <1>2. Append(before, worker.verdict) # <<>>
    <2>1. Len(Append(before, worker.verdict)) # 0 /\ Len(<<>>) = 0
      BY <1>1, EmptySeq
    <2> QED BY <2>1
  <1>3. Last(Append(before, worker.verdict)) = worker.verdict
    BY <1>1 DEF Last
  <1>4. CASE worker.verdict = "success"
    BY <1>1, <1>2, <1>3, <1>4 DEF Recorded, Tells
  <1>5. CASE worker.verdict = "failure"
    <2>1. Recorded(r).failing = TRUE /\ Recorded(r).succeeded = r.succeeded
      BY <1>5 DEF Recorded
    <2>2. (Append(before, worker.verdict) # <<>> /\ Last(Append(before, worker.verdict)) = "failure") = TRUE
      BY <1>2, <1>3, <1>5
    <2>3. ("success" \in ToSet(Append(before, worker.verdict))) = ("success" \in ToSet(before))
      BY <1>1, <1>5
    <2>4. r.succeeded = ("success" \in ToSet(before))
      BY DEF Tells
    <2> QED BY <2>1, <2>2, <2>3, <2>4, Zenon DEF Tells
  <1> QED BY <1>4, <1>5

(* All but Post and Record leave rows and results alone; of what is in     *)
(* hand, RecordFails changes the verdict or lets go, and Kill lets go.     *)
LEMMA HandStep ==
  ASSUME WorkerInv, [Next]_vars, \A h \in Hooks : ~Post(h), ~Record
  PROVE  /\ UNCHANGED <<row, answers>>
         /\ \/ UNCHANGED <<worker, faults>>
            \/ worker.at = {} /\ worker'.at = {}
            \/ /\ worker.step = "record" /\ worker.verdict = "success"
               /\ worker'.step = "record" /\ worker'.verdict = "failure"
               /\ worker'.at = worker.at /\ faults' = faults + 1
            \/ worker.verdict = "failure" /\ worker'.at = {} /\ faults' = faults + 1
            \/ stopped /\ worker'.step = "gone" /\ worker'.at = worker.at
  <1>a. worker \in WorkerState
    BY DEF WorkerInv, TypeOK
  <1>1. UNCHANGED <<row, answers>>
    BY DEF Next, vars, history, Work, CreateHook, DeleteHook, Enqueue, CheckStop, GetTimesOut, Take,
           List, ListFails, RecordFails, Stop, Kill
  <1>2. CASE UNCHANGED <<worker, faults>>
    BY <1>1, <1>2
  <1>3. CASE CheckStop \/ GetTimesOut \/ Take \/ List \/ ListFails
    <2>1. worker.at = {}
      BY <1>3 DEF CheckStop, GetTimesOut, Take, List, ListFails, WorkerInv, WorkerShape
    <2>2. Matching \in SUBSET Hooks
      BY DEF Matching, Active
    <2>3. CASE CheckStop
      <3>1. At("gone") \/ At("get")
        BY <2>3 DEF CheckStop
      <3> QED BY <1>1, <1>a, <2>1, <3>1, AtEffect
    <2>4. CASE List
      BY <1>1, <1>a, <2>1, <2>2, <2>4, ProceedEffect DEF List
    <2>5. CASE GetTimesOut \/ Take \/ ListFails
      <3>1. worker' = Idle \/ worker'.at = worker.at
        BY <1>a, <2>5 DEF GetTimesOut, Take, ListFails, WorkerState
      <3> QED BY <1>1, <2>1, <3>1, IdleFacts
    <2> QED BY <1>3, <2>3, <2>4, <2>5
  <1>4. CASE RecordFails
    <2>1. CASE worker.verdict = "success"
      BY <1>1, <1>4, <1>a, <2>1 DEF RecordFails, WorkerState
    <2>2. CASE worker.verdict # "success"
      <3>1. worker.verdict = "failure" /\ worker' = Idle /\ faults' = faults + 1
        BY <1>4, <1>a, <2>2 DEF RecordFails, WorkerState
      <3> QED BY <1>1, <3>1, IdleFacts
    <2> QED BY <2>1, <2>2
  <1>5. CASE Kill
    BY <1>1, <1>5, <1>a, AtEffect DEF Kill
  <1> QED BY <1>2, <1>3, <1>4, <1>5
          DEF Next, vars, Work, CreateHook, DeleteHook, Enqueue, Stop, history

LEMMA ResultsStep ==
  ASSUME WorkerInv, ResultsInv, [Next]_vars
  PROVE  ResultsInv'
  <1>a. /\ worker \in WorkerState /\ worker.verdict \in {"success", "failure"}
        /\ answers \in [Hooks -> Results] /\ hook \in [Hooks -> {"new", "active", "deleted"}]
        /\ row \in [Hooks -> [succeeded : BOOLEAN, failing : BOOLEAN]] /\ faults \in Nat
    BY DispatcherAssumption DEF WorkerInv, TypeOK, WorkerState, Results
  <1>b. \A g \in Hooks : hook'[g] = "new" => hook[g] = "new"
    BY <1>a DEF Next, vars, history, Work, CreateHook, DeleteHook, Enqueue, CheckStop, GetTimesOut, Take,
           List, ListFails, Post, Record, RecordFails, Stop, Kill
  <1>1. ASSUME NEW h \in Hooks, Post(h) PROVE ResultsInv'
    <2>1. /\ hook[h] # "new" /\ worker'.at = {h} /\ UNCHANGED <<row, faults>>
          /\ answers' = [answers EXCEPT ![h] = Append(answers[h], worker'.verdict)]
          /\ worker' \in WorkerState
      BY <1>1, PostEffect DEF Post, WorkerInv, WorkerShape
    <2>2. /\ answers'[h] = Append(answers[h], worker'.verdict) /\ answers[h] \in Results
          /\ worker'.verdict \in {"success", "failure"}
          /\ \A g \in Hooks : g # h => answers'[g] = answers[g]
      BY <1>a, <2>1 DEF WorkerState
    <2>3. VerdictKnown(h)'
      BY <2>2 DEF VerdictKnown
    <2> QED BY <1>b, <2>1, <2>2, <2>3 DEF ResultsInv, InHand, Tells
  <1>2. CASE Record
    <2>1. /\ row' = [h \in Hooks |-> IF h \in worker.at /\ hook[h] = "active"
                                     THEN Recorded(row[h]) ELSE row[h]]
          /\ UNCHANGED answers /\ worker'.at = {}
      BY <1>2, ProceedEffect DEF Record, history, WorkerInv, TypeOK, WorkerState
    <2>2. \A h \in Hooks : hook[h] = "new" => row'[h] = row[h]
      BY <2>1
    <2> QED BY <1>b, <2>1, <2>2 DEF ResultsInv, InHand, Tells
  <1>3. CASE ~Record /\ \A h \in Hooks : ~Post(h)
    <2>1. UNCHANGED <<row, answers>>
      BY <1>3, HandStep
    <2>2. ASSUME NEW h \in Hooks, InHand(h)' PROVE VerdictKnown(h)'
      <3>1. CASE UNCHANGED <<worker, faults>>
        BY <2>1, <2>2, <3>1 DEF ResultsInv, InHand, VerdictKnown
      <3>2. CASE /\ worker.step = "record" /\ worker.verdict = "success"
                 /\ worker'.step = "record" /\ worker'.verdict = "failure"
                 /\ worker'.at = worker.at /\ faults' = faults + 1
        <4>1. VerdictKnown(h)
          BY <2>2, <3>2 DEF ResultsInv, InHand
        <4>2. faults' > 0
          BY <1>a, <3>2
        <4> QED BY <2>1, <3>2, <4>1, <4>2 DEF VerdictKnown
      <3> QED BY <1>3, <2>2, <3>1, <3>2, HandStep DEF InHand
    <2> QED BY <1>b, <2>1, <2>2 DEF ResultsInv, Tells
  <1> QED BY <1>1, <1>2, <1>3

Misinformed(h) ==
  /\ h \in worker.at
  /\ \/ stopped /\ worker'.step = "gone"
     \/ worker.verdict = "failure" /\ faults' # faults
     \/ worker.verdict = "failure" /\ faults > 0 /\ Last(answers[h]) = "success"

LEMMA WrongStep ==
  ASSUME WorkerInv, ResultsInv, [Next]_vars, NEW h \in Hooks, ~RowWrong(h), RowWrong(h)'
  PROVE  Misinformed(h)
  <1>a. /\ worker \in WorkerState /\ worker.verdict \in {"success", "failure"}
        /\ answers \in [Hooks -> Results] /\ hook \in [Hooks -> {"new", "active", "deleted"}]
        /\ row \in [Hooks -> [succeeded : BOOLEAN, failing : BOOLEAN]] /\ faults \in Nat
    BY DispatcherAssumption DEF WorkerInv, TypeOK, WorkerState, Results
  <1>b. hook'[h] = "active" /\ ~Tells(row[h], Told(h))'
    BY DEF RowWrong
  <1>c. hook[h] = "active" => Tells(row[h], Told(h))
    BY DEF RowWrong
  <1>d. Told(h) = IF InHand(h) THEN Front(answers[h]) ELSE answers[h]
    BY DEF Told, InHand
  <1>e. Told(h)' = IF InHand(h)' THEN Front(answers'[h]) ELSE answers'[h]
    BY DEF Told, InHand
  <1>f. (Tells(row[h], Told(h)))' <=> Tells(row'[h], Told(h)')
    BY DEF Tells
  <1>1. ASSUME NEW g \in Hooks, Post(g) PROVE FALSE
    <2>1. /\ worker.at = {} /\ worker'.at = {g} /\ worker'.step = "record"
          /\ UNCHANGED <<row, hook>>
          /\ answers' = [answers EXCEPT ![g] = Append(answers[g], worker'.verdict)]
          /\ worker' \in WorkerState
      BY <1>1, PostEffect DEF Post, WorkerInv, WorkerShape
    <2>2. Told(h) = answers[h]
      BY <1>d, <2>1 DEF InHand
    <2>3. CASE g = h
      <3>1. answers'[h] = Append(answers[h], worker'.verdict) /\ answers[h] \in Results
            /\ worker'.verdict \in {"success", "failure"}
        BY <1>a, <2>1, <2>3 DEF WorkerState
      <3>2. Told(h)' = answers[h]
        BY <1>e, <2>1, <2>3, <3>1, FrontOfAppend DEF InHand, Results
      <3> QED BY <1>b, <1>c, <1>f, <2>1, <2>2, <3>2
    <2>4. CASE g # h
      <3>1. answers'[h] = answers[h] /\ ~(h \in worker'.at)
        BY <1>a, <2>1, <2>4
      <3>2. Told(h)' = answers[h]
        BY <1>e, <3>1 DEF InHand
      <3> QED BY <1>b, <1>c, <1>f, <2>1, <2>2, <3>2
    <2> QED BY <2>3, <2>4
  <1>2. CASE Record
    <2>1. /\ row' = [g \in Hooks |-> IF g \in worker.at /\ hook[g] = "active"
                                     THEN Recorded(row[g]) ELSE row[g]]
          /\ UNCHANGED <<hook, answers, faults>> /\ worker'.at = {} /\ worker.step = "record"
      BY <1>2, ProceedEffect DEF Record, history, WorkerInv, TypeOK, WorkerState
    <2>2. Told(h)' = answers[h]
      BY <1>e, <2>1 DEF InHand
    <2>3. CASE h \notin worker.at
      <3>1. Told(h) = answers[h] /\ row'[h] = row[h]
        BY <1>d, <2>1, <2>3 DEF InHand
      <3> QED BY <1>b, <1>c, <1>f, <2>1, <2>2, <3>1
    <2>4. CASE h \in worker.at
      <3>1. PICK before \in Results, latest \in {"success", "failure"} :
              /\ answers[h] = Append(before, latest)
              /\ worker.verdict = latest \/ (worker.verdict = "failure" /\ faults > 0)
        BY <2>1, <2>4 DEF ResultsInv, InHand, VerdictKnown
      <3>2. Front(answers[h]) = before /\ Last(answers[h]) = latest
        BY <3>1, FrontOfAppend DEF Results
      <3>3. Tells(row[h], before) /\ row'[h] = Recorded(row[h])
        BY <1>b, <1>c, <1>d, <2>1, <2>4, <3>2 DEF InHand
      <3>4. worker.verdict = latest => Tells(row'[h], answers[h])
        BY <1>a, <3>1, <3>3, RecordedTells
      <3>5. worker.verdict # latest
        BY <1>b, <1>f, <2>2, <3>4
      <3> QED BY <2>4, <3>1, <3>2, <3>5 DEF Misinformed
    <2> QED BY <2>3, <2>4
  <1>3. CASE ~Record /\ \A g \in Hooks : ~Post(g)
    <2>1. UNCHANGED <<row, answers>>
      BY <1>3, HandStep
    <2>2. hook[h] = "active"
      <3>1. ASSUME hook[h] = "new" PROVE FALSE
        <4>1. Tells(row'[h], answers'[h])
          BY <2>1, <3>1 DEF ResultsInv
        <4>2. h \notin worker.at
          BY <3>1 DEF WorkerInv, WorkerShape
        <4>3. CreateHook(h)
          BY <1>a, <1>b, <3>1 DEF Next, vars, history, Work, CreateHook, DeleteHook, Enqueue,
             CheckStop, GetTimesOut, Take, List, ListFails, Post, Record, RecordFails, Stop, Kill
        <4>4. Told(h)' = answers'[h]
          BY <1>e, <4>2, <4>3 DEF CreateHook, InHand
        <4> QED BY <1>b, <1>f, <4>1, <4>4
      <3>2. hook[h] # "deleted"
        BY <1>a, <1>b DEF Next, vars, history, Work, CreateHook, DeleteHook, Enqueue,
           CheckStop, GetTimesOut, Take, List, ListFails, Post, Record, RecordFails, Stop, Kill
      <3> QED BY <1>a, <3>1, <3>2
    <2>3. Told(h)' # Told(h)
      BY <1>b, <1>c, <1>f, <2>1, <2>2
    <2>4. ~(InHand(h)' <=> InHand(h))
      BY <1>d, <1>e, <2>1, <2>3
    <2>5. h \in worker.at \/ h \in worker'.at
      BY <2>4 DEF InHand
    <2>6. faults' = faults + 1 => faults' # faults
      BY <1>a
    <2> QED BY <1>3, <2>4, <2>5, <2>6, HandStep DEF InHand, Misinformed
  <1> QED BY <1>1, <1>2, <1>3

(* A subscription's row says what became of its POSTs: whether any         *)
(* succeeded, and whether the latest failed.  It comes to say otherwise    *)
(* only where the process ends, or where the store raises and so loses a   *)
(* failure or turns a success into one.                                    *)
THEOREM RowsTellTheTruth == Spec => ResultsTrue
  <1>1. Init => ResultsInv
    <2> SUFFICES ASSUME Init PROVE ResultsInv
      OBVIOUS
    <2>1. ToSet(<<>>) = {}
      BY DEF ToSet
    <2>2. ASSUME NEW h \in Hooks PROVE answers[h] = <<>> /\ Tells(row[h], answers[h]) /\ h \notin worker.at
      <3>1. answers[h] = <<>> /\ row[h].failing = FALSE /\ row[h].succeeded = FALSE
        BY DEF Init
      <3>2. (answers[h] # <<>> /\ Last(answers[h]) = "failure") = FALSE
        BY <3>1
      <3>3. ("success" \in ToSet(answers[h])) = FALSE
        BY <2>1, <3>1
      <3>4. Tells(row[h], answers[h])
        BY <3>1, <3>2, <3>3, Zenon DEF Tells
      <3> QED BY <3>1, <3>4, IdleFacts DEF Init
    <2> QED BY <2>2 DEF ResultsInv, InHand
  <1>2. WorkerInv /\ ResultsInv /\ [Next]_vars => ResultsInv'
    BY ResultsStep
  <1>3. WorkerInv /\ ResultsInv /\ [Next]_vars
          => [\A h \in Hooks :
                ~RowWrong(h) /\ RowWrong(h)' =>
                  /\ h \in worker.at
                  /\ \/ stopped /\ worker'.step = "gone"
                     \/ worker.verdict = "failure" /\ faults' # faults
                     \/ worker.verdict = "failure" /\ faults > 0 /\ Last(answers[h]) = "success"]_vars
    BY WrongStep DEF Misinformed
  <1> QED BY <1>1, <1>2, <1>3, AlwaysWorkerInv, PTL DEF Spec, ResultsTrue
-------------------------------------------------------------------------------
(***************************************************************************)
(* InOrderOnce.  Events wait in the queue in the order it took them; what  *)
(* was POSTed comes before what waits, and, to an endpoint the event in    *)
(* hand is still owed to, before that one too.                             *)
(***************************************************************************)
AcceptedOnce == \A i, j \in DOMAIN accepted : accepted[i] = accepted[j] => i = j

Precedes(e, f) == /\ e \in ToSet(accepted) /\ f \in ToSet(accepted)
                  /\ PlaceOf(e) < PlaceOf(f)

Waits == {j \in DOMAIN queue : queue[j] # None}

QueueInOrder ==
  /\ \A j \in Waits : queue[j] \in ToSet(accepted)
  /\ \A i, j \in Waits : i < j => Precedes(queue[i], queue[j])

EventInHand ==
  worker.event # None => /\ worker.event \in ToSet(accepted)
                         /\ \A j \in Waits : Precedes(worker.event, queue[j])

PostsInOrder ==
  \A h \in Hooks :
    /\ \A i, j \in DOMAIN posts[h] : i < j => Precedes(posts[h][i], posts[h][j])
    /\ \A i \in DOMAIN posts[h] :
         /\ posts[h][i] \in ToSet(accepted)
         /\ \A j \in Waits : Precedes(posts[h][i], queue[j])
         /\ worker.step = "list" \/ h \in worker.rest => Precedes(posts[h][i], worker.event)

OrderInv == AcceptedOnce /\ QueueInOrder /\ EventInHand /\ PostsInOrder

(* Where a sequence without repetitions holds an element, and where it     *)
(* does when one more is appended.                                         *)
PlaceIn(s, e) == CHOOSE i \in DOMAIN s : s[i] = e

LEMMA PlaceInIs ==
  ASSUME NEW s, NEW e, e \in ToSet(s)
  PROVE  PlaceIn(s, e) \in DOMAIN s /\ s[PlaceIn(s, e)] = e
  BY DEF PlaceIn, ToSet

LEMMA PlaceAfterAppend ==
  ASSUME NEW S, NEW s \in Seq(S), NEW e \in S, e \notin ToSet(s),
         \A i, j \in DOMAIN s : s[i] = s[j] => i = j
  PROVE  LET t == Append(s, e)
         IN  /\ \A i, j \in DOMAIN t : t[i] = t[j] => i = j
             /\ \A f \in ToSet(s) : /\ PlaceIn(t, f) = PlaceIn(s, f)
                                    /\ PlaceIn(t, f) < PlaceIn(t, e)
  <1> DEFINE t == Append(s, e)
  <1>1. /\ t \in Seq(S) /\ Len(t) = Len(s) + 1 /\ Len(s) \in Nat
        /\ \A i \in 1..Len(s) : t[i] = s[i]
        /\ t[Len(s) + 1] = e
    BY AppendProperties, LenProperties
  <1>2. DOMAIN s = 1..Len(s) /\ DOMAIN t = 1..(Len(s) + 1) /\ ToSet(t) = ToSet(s) \cup {e}
    BY <1>1, LenProperties, AppendToSet
  <1> HIDE DEF t
  <1>3. \A i \in 1..Len(s) : t[i] # e
    BY <1>1, <1>2 DEF ToSet
  <1>4. \A i, j \in DOMAIN t : t[i] = t[j] => i = j
    BY <1>1, <1>2, <1>3
  <1>5. PlaceIn(t, e) = Len(s) + 1
    <2>1. PlaceIn(t, e) \in DOMAIN t /\ t[PlaceIn(t, e)] = e
      BY <1>2, PlaceInIs
    <2> QED BY <1>1, <1>2, <1>3, <2>1
  <1>6. ASSUME NEW f \in ToSet(s)
        PROVE  PlaceIn(t, f) = PlaceIn(s, f) /\ PlaceIn(t, f) < PlaceIn(t, e)
    <2>1. PlaceIn(s, f) \in DOMAIN s /\ s[PlaceIn(s, f)] = f
      BY PlaceInIs
    <2>2. PlaceIn(t, f) \in DOMAIN t /\ t[PlaceIn(t, f)] = f
      BY <1>2, PlaceInIs
    <2>3. PlaceIn(s, f) \in DOMAIN t /\ t[PlaceIn(s, f)] = f
      BY <1>1, <1>2, <2>1
    <2>4. PlaceIn(t, f) = PlaceIn(s, f)
      BY <1>4, <2>2, <2>3
    <2> QED BY <1>1, <1>2, <1>5, <2>1, <2>4
  <1> QED BY <1>4, <1>6 DEF t

(* Accepting an event puts it after all others and changes nothing else.   *)
LEMMA AcceptKeepsOrder ==
  ASSUME WorkerInv, AcceptedOnce, NEW e \in Events, e \notin ToSet(accepted),
         accepted' = Append(accepted, e)
  PROVE  /\ AcceptedOnce'
         /\ ToSet(accepted') = ToSet(accepted) \cup {e}
         /\ \A f, g : Precedes(f, g) => Precedes(f, g)'
         /\ \A f \in ToSet(accepted) : Precedes(f, e)'
  <1>1. accepted \in Seq(Events)
    BY DEF WorkerInv, TypeOK
  <1>2. ToSet(accepted') = ToSet(accepted) \cup {e}
    BY <1>1, AppendToSet
  <1>3. /\ \A i, j \in DOMAIN accepted' : accepted'[i] = accepted'[j] => i = j
        /\ \A f \in ToSet(accepted) : /\ PlaceIn(accepted', f) = PlaceIn(accepted, f)
                                      /\ PlaceIn(accepted', f) < PlaceIn(accepted', e)
    BY <1>1, PlaceAfterAppend DEF AcceptedOnce
  <1>4. \A f : PlaceOf(f) = PlaceIn(accepted, f) /\ PlaceOf(f)' = PlaceIn(accepted', f)
    BY DEF PlaceOf, PlaceIn
  <1> QED BY <1>2, <1>3, <1>4 DEF AcceptedOnce, Precedes

LEMMA OthersKeepOrder ==
  ASSUME UNCHANGED accepted
  PROVE  \A f, g : Precedes(f, g)' <=> Precedes(f, g)
  BY DEF Precedes, PlaceOf

(* What waits after each change of the queue. *)
LEMMA AppendWaits ==
  ASSUME WorkerInv, NEW e \in Events \cup {None}, queue' = Append(queue, e)
  PROVE  /\ Len(queue) \in Nat
         /\ \A j \in Waits' : \/ j \in Waits /\ queue'[j] = queue[j]
                              \/ j = Len(queue) + 1 /\ queue'[j] = e
         /\ \A j \in Waits : j \in Nat /\ j <= Len(queue)
  <1>1. queue \in Seq(Events \cup {None})
    BY DEF WorkerInv, TypeOK
  <1>2. /\ queue' \in Seq(Events \cup {None}) /\ Len(queue') = Len(queue) + 1 /\ Len(queue) \in Nat
        /\ \A i \in 1..Len(queue) : queue'[i] = queue[i]
        /\ queue'[Len(queue) + 1] = e
    BY <1>1, AppendProperties, LenProperties
  <1>3. DOMAIN queue = 1..Len(queue) /\ DOMAIN queue' = 1..(Len(queue) + 1)
    BY <1>1, <1>2, LenProperties
  <1> QED BY <1>2, <1>3 DEF Waits

LEMMA TailWaits ==
  ASSUME WorkerInv, queue # <<>>, queue' = Tail(queue)
  PROVE  /\ \A j \in Waits' : j + 1 \in Waits /\ queue'[j] = queue[j + 1] /\ j \in Nat \ {0}
         /\ Head(queue) # None => 1 \in Waits /\ queue[1] = Head(queue)
  <1>1. queue \in Seq(Events \cup {None})
    BY DEF WorkerInv, TypeOK
  <1>2. /\ queue' \in Seq(Events \cup {None}) /\ Len(queue') = Len(queue) - 1
        /\ Len(queue) \in Nat \ {0}
        /\ \A i \in 1..Len(queue') : queue'[i] = queue[i + 1]
    BY <1>1, HeadTailProperties, EmptySeq
  <1>3. DOMAIN queue = 1..Len(queue) /\ DOMAIN queue' = 1..(Len(queue) - 1)
    BY <1>1, <1>2, LenProperties
  <1> QED BY <1>2, <1>3 DEF Waits, Head

LEMMA AcceptStep ==
  ASSUME WorkerInv, OrderInv, NEW e \in Events, Enqueue(e), ~Full
  PROVE  OrderInv'
  <1>1. /\ accepted' = Append(accepted, e) /\ e \notin ToSet(accepted)
        /\ queue' = Append(queue, e) /\ UNCHANGED <<worker, posts>>
    BY DEF Enqueue
  <1>2. /\ AcceptedOnce' /\ ToSet(accepted') = ToSet(accepted) \cup {e}
        /\ \A f, g : Precedes(f, g) => Precedes(f, g)'
        /\ \A f \in ToSet(accepted) : Precedes(f, e)'
    BY <1>1, AcceptKeepsOrder DEF OrderInv
  <1>3. /\ Len(queue) \in Nat
        /\ \A j \in Waits' : \/ j \in Waits /\ queue'[j] = queue[j]
                             \/ j = Len(queue) + 1 /\ queue'[j] = e
        /\ \A j \in Waits : j \in Nat /\ j <= Len(queue)
    BY <1>1, AppendWaits
  <1>4. QueueInOrder'
    BY <1>2, <1>3 DEF OrderInv, QueueInOrder
  <1>5. EventInHand'
    BY <1>1, <1>2, <1>3 DEF OrderInv, EventInHand
  <1>6. PostsInOrder'
    BY <1>1, <1>2, <1>3 DEF OrderInv, PostsInOrder
  <1> QED BY <1>2, <1>4, <1>5, <1>6 DEF OrderInv

LEMMA TakeOrder ==
  ASSUME WorkerInv, OrderInv, Take
  PROVE  OrderInv'
  <1>1. /\ queue # <<>> /\ queue' = Tail(queue) /\ UNCHANGED <<accepted, posts>>
        /\ worker.step = "get" /\ worker.rest = {}
    BY DEF Take, history, WorkerInv, WorkerShape
  <1>2. \A f, g : Precedes(f, g)' <=> Precedes(f, g)
    BY <1>1, OthersKeepOrder
  <1>3. /\ \A j \in Waits' : j + 1 \in Waits /\ queue'[j] = queue[j + 1] /\ j \in Nat \ {0}
        /\ Head(queue) # None => 1 \in Waits /\ queue[1] = Head(queue)
    BY <1>1, TailWaits
  <1>4. QueueInOrder'
    <2>1. \A j \in Waits' : queue'[j] \in ToSet(accepted')
      BY <1>1, <1>3 DEF OrderInv, QueueInOrder
    <2>2. ASSUME NEW i \in Waits', NEW j \in Waits', i < j
          PROVE  Precedes(queue[i + 1], queue[j + 1])
      BY <1>3, <2>2 DEF OrderInv, QueueInOrder
    <2> QED BY <1>2, <1>3, <2>1, <2>2 DEF QueueInOrder
  <1>5. CASE Head(queue) = None
    <2>1. worker'.event = None /\ worker'.rest = {} /\ worker'.step # "list"
      BY <1>5, IdleFacts DEF Take
    <2> QED BY <1>1, <1>2, <1>3, <1>4, <2>1 DEF OrderInv, AcceptedOnce, EventInHand, PostsInOrder
  <1>6. CASE Head(queue) # None
    <2>1. worker'.event = queue[1] /\ 1 \in Waits
      BY <1>3, <1>6 DEF Take, WorkerInv, TypeOK, WorkerState
    <2>2. \A j \in Waits' : Precedes(queue[1], queue'[j])
      BY <1>3, <2>1 DEF OrderInv, QueueInOrder
    <2>3. EventInHand'
      BY <1>1, <1>2, <2>1, <2>2 DEF OrderInv, EventInHand, QueueInOrder
    <2>4. PostsInOrder'
      BY <1>1, <1>2, <1>3, <2>1 DEF OrderInv, PostsInOrder
    <2> QED BY <1>1, <1>4, <2>3, <2>4 DEF OrderInv, AcceptedOnce
  <1> QED BY <1>5, <1>6

LEMMA PostOrder ==
  ASSUME WorkerInv, OrderInv, NEW h \in Hooks, Post(h)
  PROVE  OrderInv'
  <1>1. /\ h \in worker.rest /\ worker.event \in Events /\ worker'.step = "record"
        /\ worker'.rest = worker.rest \ {h} /\ worker'.event = worker.event
        /\ posts' = [posts EXCEPT ![h] = Append(posts[h], worker.event)]
    BY PostEffect
  <1>2. UNCHANGED <<queue, accepted>> /\ posts \in [Hooks -> Seq(Events)] /\ posts[h] \in Seq(Events)
    BY DEF Post, WorkerInv, TypeOK
  <1>3. /\ \A f, g : Precedes(f, g)' <=> Precedes(f, g)
        /\ Waits' = Waits
    BY <1>2, OthersKeepOrder DEF Waits
  <1>4. worker.event # None
    BY <1>1, NoneIsNoEvent
  <1>5. AcceptedOnce' /\ QueueInOrder' /\ EventInHand'
    BY <1>1, <1>2, <1>3 DEF OrderInv, AcceptedOnce, QueueInOrder, EventInHand
  <1>6. \A g \in Hooks : g # h => posts'[g] = posts[g]
    BY <1>1, <1>2
  <1>7. /\ Len(posts[h]) \in Nat
        /\ \A i \in DOMAIN posts'[h] : \/ i \in DOMAIN posts[h] /\ posts'[h][i] = posts[h][i]
                                       \/ i = Len(posts[h]) + 1 /\ posts'[h][i] = worker.event
        /\ \A i \in DOMAIN posts[h] : i \in Nat /\ i <= Len(posts[h])
    <2>1. posts'[h] = Append(posts[h], worker.event)
      BY <1>1, <1>2
    <2>2. /\ posts'[h] \in Seq(Events) /\ Len(posts'[h]) = Len(posts[h]) + 1 /\ Len(posts[h]) \in Nat
          /\ \A i \in 1..Len(posts[h]) : posts'[h][i] = posts[h][i]
          /\ posts'[h][Len(posts[h]) + 1] = worker.event
      BY <1>1, <1>2, <2>1, AppendProperties, LenProperties
    <2>3. DOMAIN posts[h] = 1..Len(posts[h]) /\ DOMAIN posts'[h] = 1..(Len(posts[h]) + 1)
      BY <1>2, <2>2, LenProperties
    <2> QED BY <2>2, <2>3
  <1>8. /\ \A i \in DOMAIN posts[h] : Precedes(posts[h][i], worker.event)
        /\ \A i, j \in DOMAIN posts[h] : i < j => Precedes(posts[h][i], posts[h][j])
        /\ \A i \in DOMAIN posts[h] : /\ posts[h][i] \in ToSet(accepted)
                                      /\ \A j \in Waits : Precedes(posts[h][i], queue[j])
        /\ worker.event \in ToSet(accepted)
        /\ \A j \in Waits : Precedes(worker.event, queue[j])
    BY <1>1, <1>4 DEF OrderInv, PostsInOrder, EventInHand
  <1>9. /\ \A i, j \in DOMAIN posts'[h] : i < j => Precedes(posts'[h][i], posts'[h][j])
        /\ \A i \in DOMAIN posts'[h] : /\ posts'[h][i] \in ToSet(accepted)
                                       /\ \A j \in Waits : Precedes(posts'[h][i], queue[j])
    BY <1>7, <1>8
  <1>10. PostsInOrder'
    BY <1>1, <1>2, <1>3, <1>6, <1>9 DEF OrderInv, PostsInOrder
  <1> QED BY <1>5, <1>10 DEF OrderInv

LEMMA OrderStep ==
  ASSUME WorkerInv, OrderInv, [Next]_vars
  PROVE  OrderInv'
  <1>1. ASSUME NEW e \in Events, Enqueue(e), ~Full PROVE OrderInv'
    BY <1>1, AcceptStep
  <1>2. CASE Take
    BY <1>2, TakeOrder
  <1>3. ASSUME NEW h \in Hooks, Post(h) PROVE OrderInv'
    BY <1>3, PostOrder
  <1>4. CASE /\ ~Take /\ \A h \in Hooks : ~Post(h)
             /\ \A e \in Events : ~(Enqueue(e) /\ ~Full)
    <2>1. UNCHANGED <<accepted, posts>> /\ (UNCHANGED queue \/ queue' = Append(queue, None))
      BY <1>4
      DEF Next, vars, history, Work, CreateHook, DeleteHook, Enqueue, CheckStop, GetTimesOut, List,
          ListFails, Record, RecordFails, Stop, Kill
    <2>2. \A j \in Waits' : j \in Waits /\ queue'[j] = queue[j]
      <3>1. CASE UNCHANGED queue
        BY <3>1 DEF Waits
      <3>2. CASE queue' = Append(queue, None)
        BY <3>2, AppendWaits DEF Waits
      <3> QED BY <2>1, <3>1, <3>2
    <2>3. \A f, g : Precedes(f, g)' <=> Precedes(f, g)
      BY <2>1, OthersKeepOrder
    <2>4. AcceptedOnce' /\ QueueInOrder'
      BY <2>1, <2>2, <2>3 DEF OrderInv, AcceptedOnce, QueueInOrder
    <2>5. /\ worker'.event \in {None, worker.event}
          /\ \A h \in worker'.rest : h \in worker.rest \/ worker.step = "list"
          /\ worker'.rest # {} => worker'.event = worker.event
          /\ worker'.step = "list" => worker.step = "list" /\ worker'.event = worker.event
      <3>1. worker \in WorkerState /\ Matching \in SUBSET Hooks /\ worker.rest \in SUBSET Hooks
        BY DEF WorkerInv, TypeOK, WorkerState, Matching, Active
      <3>2. CASE UNCHANGED worker \/ worker' = Idle
        BY <3>2, IdleFacts
      <3>3. CASE CheckStop \/ Kill
        <4>1. At("gone") \/ At("get")
          BY <3>3 DEF CheckStop, Kill
        <4> QED BY <3>1, <4>1, AtEffect
      <3>4. CASE (List \/ Record) /\ worker' # Idle
        BY <3>1, <3>4, ProceedEffect DEF List, Record
      <3>5. CASE RecordFails /\ worker' # Idle
        BY <3>1, <3>5 DEF RecordFails, WorkerState
      <3> QED
        BY <1>4, <3>2, <3>3, <3>4, <3>5
        DEF Next, vars, Work, CreateHook, DeleteHook, Enqueue, GetTimesOut, ListFails, Stop
    <2>6. EventInHand'
      BY <2>1, <2>2, <2>3, <2>5 DEF OrderInv, EventInHand
    <2>7. PostsInOrder'
      BY <2>1, <2>2, <2>3, <2>5 DEF OrderInv, PostsInOrder
    <2> QED BY <2>4, <2>6, <2>7 DEF OrderInv
  <1> QED BY <1>1, <1>2, <1>3, <1>4

(* No endpoint gets an event twice, or before one the queue took earlier.  *)
THEOREM DeliveredInOrderOnce == Spec => []InOrderOnce
  <1>1. Init => OrderInv
    <2> SUFFICES ASSUME Init PROVE OrderInv
      OBVIOUS
    <2>1. DOMAIN accepted = {} /\ DOMAIN queue = {} /\ worker.event = None
          /\ \A h \in Hooks : DOMAIN posts[h] = {}
      BY IdleFacts DEF Init
    <2> QED BY <2>1 DEF OrderInv, AcceptedOnce, QueueInOrder, EventInHand, PostsInOrder, Waits
  <1>2. WorkerInv /\ OrderInv /\ [Next]_vars => OrderInv'
    BY OrderStep
  <1>3. OrderInv => InOrderOnce
    BY DEF OrderInv, PostsInOrder, Precedes, InOrderOnce
  <1> QED BY <1>1, <1>2, <1>3, AlwaysWorkerInv, PTL DEF Spec
===============================================================================
