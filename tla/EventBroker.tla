------------------------------ MODULE EventBroker ------------------------------
(***************************************************************************)
(* The in-process event broker of sms_api/events.py: every SSE or          *)
(* WebSocket client has a bounded queue, and whoever stores a message (the *)
(* poller thread, the handler threads) puts its event into all of them.    *)
(* publish copies the subscribers under a lock and works on the copy       *)
(* without it; _enqueue_nonblocking is three calls on a thread-safe queue, *)
(* between which readers and other publishers run.                         *)
(*                                                                         *)
(* A client's coroutine does not wait on its queue itself: it hands a      *)
(* get(True, 15.0) to the default executor of the event loop, which has a  *)
(* few threads for all clients and works its jobs off in order.            *)
(***************************************************************************)
EXTENDS Naturals, Sequences, SequencesExt, FiniteSets

CONSTANTS Publishers,  \* threads that publish
          Streams,     \* SSE and WebSocket connections
          Events,
          Program,     \* the events each publisher publishes, in order
          Wants,       \* the events each stream's filter lets through
          Sockets,     \* the streams that are WebSockets; the others are SSE
          Workers,     \* threads of the executor
          Capacity     \* max_queue_size

ASSUME BrokerAssumption ==
  /\ Capacity \in Nat \ {0} /\ Workers \in Nat \ {0}
  /\ Sockets \subseteq Streams
  /\ Program \in [Publishers -> Seq(Events)]
  /\ Wants \in [Streams -> SUBSET Events]
  /\ \A e \in Events : \E p \in Publishers : e \in ToSet(Program[p])
  /\ \A p, q \in Publishers : \A k \in DOMAIN Program[p], l \in DOMAIN Program[q] :
       Program[p][k] = Program[q][l] => p = q /\ k = l

VARIABLES subscribers,  \* _subscribers, in order of subscription
          stream,       \* connections: "new", "open" or "closed"
          queue,        \* the queue of each stream
          pub,          \* publishers: step, events left, targets of the copy left
          loop,         \* where each stream's reading loop is, and its job with it
          jobs,         \* jobs of the executor that no thread has taken up yet
          hand,         \* the event taken for a client and not sent yet, if any
          received,     \* what each client was sent
          evicted,      \* events a publisher took out of a stream's queue
          refused,      \* events a publisher gave up on for a stream
          owed          \* history: events whose publish found the stream subscribed

readVars == <<loop, jobs, hand, received>>
vars == <<subscribers, stream, queue, pub, readVars, evicted, refused, owed>>

PublisherState == [step : {"idle", "put", "evict", "again"},
                   left : Seq(Events), targets : Seq(Streams)]

(* Streams whose job holds a thread. *)
Busy == {s \in Streams : loop[s] = "get"}

TypeOK ==
  /\ subscribers \in Seq(Streams)
  /\ stream \in [Streams -> {"new", "open", "closed"}]
  /\ queue \in [Streams -> Seq(Events)]
  /\ pub \in [Publishers -> PublisherState]
  /\ loop \in [Streams -> {"none", "queued", "get", "send"}]
  /\ jobs \in Seq(Streams)
  /\ received \in [Streams -> Seq(Events)] /\ hand \in [Streams -> Seq(Events)]
  /\ evicted \in [Streams -> SUBSET Events]
  /\ refused \in [Streams -> SUBSET Events]
  /\ owed \in [Streams -> SUBSET Events]
  /\ \A s \in Streams : Len(queue[s]) <= Capacity
  /\ Cardinality(Busy) <= Workers
  /\ IsInjective(jobs) /\ ToSet(jobs) = {s \in Streams : loop[s] = "queued"}

Init ==
  /\ subscribers = <<>>
  /\ stream = [s \in Streams |-> "new"]
  /\ queue = [s \in Streams |-> <<>>]
  /\ pub = [p \in Publishers |-> [step |-> "idle", left |-> Program[p], targets |-> <<>>]]
  /\ loop = [s \in Streams |-> "none"] /\ jobs = <<>>
  /\ received = [s \in Streams |-> <<>>] /\ hand = [s \in Streams |-> <<>>]
  /\ evicted = [s \in Streams |-> {}]
  /\ refused = [s \in Streams |-> {}]
  /\ owed = [s \in Streams |-> {}]

-------------------------------------------------------------------------------
(***************************************************************************)
(* Connections, and the threads that wait for their events.                *)
(***************************************************************************)
Submit(s) == jobs' = Append(jobs, s) /\ loop' = [loop EXCEPT ![s] = "queued"]
Unsubscribe(s) == /\ stream' = [stream EXCEPT ![s] = "closed"]
                  /\ subscribers' = RemoveFirst(subscribers, s)

Subscribe(s) == /\ stream[s] = "new"
                /\ stream' = [stream EXCEPT ![s] = "open"]
                /\ subscribers' = Append(subscribers, s)
                /\ Submit(s)
                /\ UNCHANGED <<queue, pub, hand, received, evicted, refused, owed>>

(* A thread takes up the oldest job. *)
StartJob == /\ jobs # <<>> /\ Cardinality(Busy) < Workers
            /\ loop' = [loop EXCEPT ![Head(jobs)] = "get"]
            /\ jobs' = Tail(jobs)
            /\ UNCHANGED <<subscribers, stream, queue, pub, hand, received, evicted, refused, owed>>

(* The job is over; a coroutine that was cancelled does not hear of it. *)
JobOver(s) == loop' = [loop EXCEPT ![s] = IF stream[s] = "open" THEN "send" ELSE "none"]

Get(s) == /\ loop[s] = "get" /\ queue[s] # <<>>
          /\ hand' = [hand EXCEPT ![s] = <<Head(queue[s])>>]
          /\ queue' = [queue EXCEPT ![s] = Tail(@)]
          /\ JobOver(s)
          /\ UNCHANGED <<subscribers, stream, pub, jobs, received, evicted, refused, owed>>

(* Mutant: get without a timeout. *)
MutNoTimeout(s) == FALSE

(* queue.Empty after 15 s; what is sent then is a keepalive. *)
GetTimesOut(s) == /\ loop[s] = "get" /\ queue[s] = <<>>
                  /\ JobOver(s)
                  /\ UNCHANGED <<subscribers, stream, queue, pub, jobs, hand, received,
                                 evicted, refused, owed>>

Send(s) == /\ loop[s] = "send"
           /\ received' = [received EXCEPT ![s] = @ \o hand[s]]
           /\ hand' = [hand EXCEPT ![s] = <<>>]
           /\ Submit(s)
           /\ UNCHANGED <<subscribers, stream, queue, pub, evicted, refused, owed>>

(* The client has gone, and what was taken for it is lost with it.  Of a   *)
(* WebSocket this shows in nothing else.                                   *)
SendFails(s) == /\ loop[s] = "send"
                /\ loop' = [loop EXCEPT ![s] = "none"]
                /\ Unsubscribe(s)
                /\ UNCHANGED <<queue, pub, jobs, hand, received, evicted, refused, owed>>

(* An SSE response whose client has gone is cancelled wherever it waits:   *)
(* the job leaves the executor's queue, but one that a thread has taken up *)
(* keeps the thread and may still take an event.                           *)
Cancelled(s) == /\ stream[s] = "open" /\ s \notin Sockets
                /\ jobs' = RemoveFirst(jobs, s)
                /\ loop' = [loop EXCEPT ![s] = IF @ = "get" THEN @ ELSE "none"]
                /\ Unsubscribe(s)
                /\ UNCHANGED <<queue, pub, hand, received, evicted, refused, owed>>

-------------------------------------------------------------------------------
(***************************************************************************)
(* Publishers.                                                             *)
(***************************************************************************)
Event(p) == Head(pub[p].left)
Target(p) == Head(pub[p].targets)
Full(s) == Len(queue[s]) >= Capacity

Go(p, step) == pub' = [pub EXCEPT ![p].step = step]

Returned(r) == [step |-> "idle", left |-> Tail(r.left), targets |-> <<>>]

(* Done with this target: the next one, if any, or publish returns. *)
AfterTarget(r) ==
  IF Len(r.targets) = 1 THEN Returned(r)
  ELSE [r EXCEPT !.step = "put", !.targets = Tail(r.targets)]

NextTarget(p) == pub' = [pub EXCEPT ![p] = AfterTarget(@)]

(* The copy of the subscribers; with none of them publish is over at once. *)
Publish(p) ==
  /\ pub[p].step = "idle" /\ pub[p].left # <<>>
  /\ pub' = [pub EXCEPT ![p] =
               IF subscribers = <<>> THEN Returned(@)
               ELSE [@ EXCEPT !.step = "put", !.targets = subscribers]]
  /\ owed' = [s \in Streams |-> IF s \in ToSet(subscribers) /\ Event(p) \in Wants[s]
                                THEN owed[s] \cup {Event(p)} ELSE owed[s]]
  /\ UNCHANGED <<subscribers, stream, queue, readVars, evicted, refused>>

Skip(p) == /\ pub[p].step = "put" /\ Event(p) \notin Wants[Target(p)]
           /\ NextTarget(p)
           /\ UNCHANGED <<subscribers, stream, queue, readVars, evicted, refused, owed>>

PutInto(p) == /\ queue' = [queue EXCEPT ![Target(p)] = Append(@, Event(p))]
              /\ NextTarget(p)

(* Mutant: queues without a bound. *)
MutUnbounded(p) ==
  /\ pub[p].step = "put" /\ Event(p) \in Wants[Target(p)]
  /\ PutInto(p)
  /\ UNCHANGED <<subscribers, stream, readVars, evicted, refused, owed>>

(* Mutant: no return after the first put_nowait. *)
MutNoReturn(p) ==
  /\ pub[p].step = "put" /\ Event(p) \in Wants[Target(p)]
  /\ queue' = [queue EXCEPT ![Target(p)] = IF Full(Target(p)) THEN @ ELSE Append(@, Event(p))]
  /\ Go(p, "evict")
  /\ UNCHANGED <<subscribers, stream, readVars, evicted, refused, owed>>

(* Mutant: an event that finds no room is published again after the others. *)
MutRetryLater(p) ==
  /\ pub[p].step = "put" /\ Event(p) \in Wants[Target(p)]
  /\ IF Full(Target(p))
     THEN /\ pub' = [pub EXCEPT ![p] = [step |-> "idle", targets |-> <<>>,
                                        left |-> Append(Tail(pub[p].left), Event(p))]]
          /\ UNCHANGED queue
     ELSE PutInto(p)
  /\ UNCHANGED <<subscribers, stream, readVars, evicted, refused, owed>>

Put(p) ==
  /\ pub[p].step = "put" /\ Event(p) \in Wants[Target(p)]
  /\ IF Full(Target(p)) THEN Go(p, "evict") /\ UNCHANGED queue ELSE PutInto(p)
  /\ UNCHANGED <<subscribers, stream, readVars, evicted, refused, owed>>

(* Mutant: nothing is taken out. *)
MutNoRoomMade(p) == /\ pub[p].step = "evict"
                    /\ Go(p, "again")
                    /\ UNCHANGED <<subscribers, stream, queue, readVars, evicted, refused, owed>>

(* get_nowait; the reader may have emptied the queue meanwhile. *)
Evict(p) ==
  /\ pub[p].step = "evict"
  /\ IF queue[Target(p)] = <<>> THEN UNCHANGED <<queue, evicted>>
     ELSE /\ queue' = [queue EXCEPT ![Target(p)] = Tail(@)]
          /\ evicted' = [evicted EXCEPT ![Target(p)] = @ \cup {Head(queue[Target(p)])}]
  /\ Go(p, "again")
  /\ UNCHANGED <<subscribers, stream, readVars, refused, owed>>

(* The second put_nowait; a queue that is full again costs the new event. *)
PutAgain(p) ==
  /\ pub[p].step = "again"
  /\ IF Full(Target(p))
     THEN /\ refused' = [refused EXCEPT ![Target(p)] = @ \cup {Event(p)}]
          /\ NextTarget(p) /\ UNCHANGED queue
     ELSE PutInto(p) /\ UNCHANGED refused
  /\ UNCHANGED <<subscribers, stream, readVars, evicted, owed>>

PublisherStep(p) == Publish(p) \/ Skip(p) \/ Put(p) \/ Evict(p) \/ PutAgain(p)

Next == \/ \E s \in Streams : Subscribe(s) \/ Get(s) \/ GetTimesOut(s)
                              \/ Send(s) \/ SendFails(s) \/ Cancelled(s)
        \/ StartJob
        \/ \E p \in Publishers : PublisherStep(p)

Spec == Init /\ [][Next]_vars

(* Threads run on, get has a timeout, and a client is sent what there is   *)
(* or is found to have gone.  Nothing says that a stream gets a thread.    *)
FairSpec == /\ Spec
            /\ WF_vars(StartJob)
            /\ \A p \in Publishers : WF_vars(PublisherStep(p))
            /\ \A s \in Streams : /\ WF_vars(Get(s) \/ GetTimesOut(s))
                                  /\ WF_vars(Send(s) \/ SendFails(s))

-------------------------------------------------------------------------------
(***************************************************************************)
(* Properties.                                                             *)
(***************************************************************************)
Passed(s) == received[s] \o hand[s] \o queue[s]

(* Somebody is still about to put e into the queue of s. *)
Pending(s, e) == \E p \in Publishers : /\ pub[p].step # "idle" /\ Event(p) = e
                                       /\ s \in ToSet(pub[p].targets)

(* Every event a stream was subscribed for is sent once, waits once in its *)
(* queue or in its loop, or is accounted for as evicted or refused, and    *)
(* never two of these; nothing else ever reaches a stream.                 *)
Accounted ==
  \A s \in Streams :
    /\ IsInjective(Passed(s))
    /\ ToSet(Passed(s)) \cap (evicted[s] \cup refused[s]) = {}
    /\ evicted[s] \cap refused[s] = {}
    /\ ToSet(Passed(s)) \cup evicted[s] \cup refused[s]
         = {e \in owed[s] : ~Pending(s, e)}

Owner(e) == CHOOSE p \in Publishers : e \in ToSet(Program[p])

PublishedBefore(e, f) ==
  \E p \in Publishers : \E k, l \in DOMAIN Program[p] :
    k < l /\ Program[p][k] = e /\ Program[p][l] = f

(* What one thread publishes reaches every client in its order. *)
PublisherOrder ==
  \A s \in Streams : \A i, j \in DOMAIN Passed(s) :
    i < j => ~PublishedBefore(Passed(s)[j], Passed(s)[i])

(* The newest event is only ever given up when another publisher took the  *)
(* room that was made for it: a lone publisher loses old events only.      *)
RefusedForARival ==
  [][\A s \in Streams : \A e \in refused'[s] \ refused[s] :
       Full(s) /\ Owner(Last(queue[s])) # Owner(e)]_vars

(* An event for an open stream is sent in the end, or evicted, however many *)
(* idle streams there are for each thread, and whatever threads the         *)
(* streams that were closed still hold.                                     *)
QueuesDrain ==
  \A s \in Streams, e \in Events :
    e \in ToSet(queue[s]) ~> \/ e \in ToSet(received[s]) \cup evicted[s]
                             \/ stream[s] = "closed"
===============================================================================
