--------------------------- MODULE WebhookDispatcher ---------------------------
(***************************************************************************)
(* The webhook dispatcher of sms_api/events.py: publishing threads put     *)
(* events into one bounded queue, and one daemon thread takes them out and *)
(* POSTs each to every subscription the store lists for it, one after the  *)
(* other, recording each result in the subscription's row.  Clients create *)
(* and delete subscriptions meanwhile; shutdown raises a flag and waits    *)
(* two seconds before the process, and the thread with it, ends.           *)
(* urlopen follows redirects and raises on every other status that is not  *)
(* 2xx, so the branch of events.py:180 for them is never reached.          *)
(***************************************************************************)
EXTENDS Naturals, Sequences, SequencesExt, FiniteSets

CONSTANTS Hooks,      \* subscriptions that may be created; ids are never reused
          Events,
          Wants,      \* the events each subscription's event_types let through
          Capacity,   \* max_queue_size
          MaxFaults   \* bound: store calls that raise in a behaviour

ASSUME DispatcherAssumption == /\ Capacity \in Nat \ {0}
                               /\ MaxFaults \in Nat
                               /\ Wants \in [Hooks -> SUBSET Events]

None == "None"   \* what stop() puts into the queue to wake the worker
ASSUME NoneIsNoEvent == None \notin Events

VARIABLES hook,      \* rows of webhook_subscriptions: "new", "active", "deleted"
          row,       \* last_success_at and last_failure_at of each row: set or not
          queue,     \* _queue
          worker,    \* the thread: step, event in hand, subscriptions left, result
          stopped,   \* _stop_event
          faults,    \* store calls that raised
          accepted,  \* history: events that found room, in order
          dropped,   \* history: events that found the queue full
          due,       \* history: events for which a subscription was listed
          posts,     \* history: events POSTed to each subscription
          answers,   \* history: how each POST ended
          farewell   \* history: length of posts when a subscription was deleted

vars == <<hook, row, queue, worker, stopped, faults,
          accepted, dropped, due, posts, answers, farewell>>
history == <<accepted, dropped, due, posts, answers, farewell>>

WorkerState == [step : {"loop", "get", "list", "post", "record", "gone"},
                event : Events \cup {None}, rest : SUBSET Hooks,
                at : SUBSET Hooks, verdict : {"success", "failure"}]

TypeOK ==
  /\ hook \in [Hooks -> {"new", "active", "deleted"}]
  /\ row \in [Hooks -> [succeeded : BOOLEAN, failing : BOOLEAN]]
  /\ queue \in Seq(Events \cup {None}) /\ Len(queue) <= Capacity
  /\ worker \in WorkerState /\ Cardinality(worker.at) <= 1
  /\ stopped \in BOOLEAN /\ faults \in 0..MaxFaults
  /\ accepted \in Seq(Events) /\ dropped \subseteq Events
  /\ due \in [Hooks -> SUBSET Events]
  /\ posts \in [Hooks -> Seq(Events)]
  /\ answers \in [Hooks -> Seq({"success", "failure"})]
  /\ farewell \in [Hooks -> Nat]

Idle == [step |-> "loop", event |-> None, rest |-> {}, at |-> {}, verdict |-> "success"]

Init == /\ hook = [h \in Hooks |-> "new"]
        /\ row = [h \in Hooks |-> [succeeded |-> FALSE, failing |-> FALSE]]
        /\ queue = <<>> /\ worker = Idle /\ stopped = FALSE /\ faults = 0
        /\ accepted = <<>> /\ dropped = {}
        /\ due = [h \in Hooks |-> {}]
        /\ posts = [h \in Hooks |-> <<>>]
        /\ answers = [h \in Hooks |-> <<>>]
        /\ farewell = [h \in Hooks |-> 0]

Full == Len(queue) >= Capacity

-------------------------------------------------------------------------------
(***************************************************************************)
(* Clients and publishers.                                                 *)
(***************************************************************************)
CreateHook(h) == /\ hook[h] = "new"
                 /\ hook' = [hook EXCEPT ![h] = "active"]
                 /\ UNCHANGED <<row, queue, worker, stopped, faults, history>>

DeleteHook(h) == /\ hook[h] = "active"
                 /\ hook' = [hook EXCEPT ![h] = "deleted"]
                 /\ farewell' = [farewell EXCEPT ![h] = Len(posts[h])]
                 /\ UNCHANGED <<row, queue, worker, stopped, faults,
                               accepted, dropped, due, posts, answers>>

(* Mutant: a queue without a bound. *)
MutUnbounded(e) == /\ e \notin ToSet(accepted) \cup dropped
                   /\ queue' = Append(queue, e)
                   /\ accepted' = Append(accepted, e)
                   /\ UNCHANGED <<hook, row, worker, stopped, faults,
                                  dropped, due, posts, answers, farewell>>

(* Each event is published once, and a full queue drops it with a log line. *)
(* The poller still publishes after stop(): it is the last to be stopped.   *)
Enqueue(e) == /\ e \notin ToSet(accepted) \cup dropped
              /\ IF Full
                 THEN dropped' = dropped \cup {e} /\ UNCHANGED <<queue, accepted>>
                 ELSE /\ queue' = Append(queue, e)
                      /\ accepted' = Append(accepted, e)
                      /\ UNCHANGED dropped
              /\ UNCHANGED <<hook, row, worker, stopped, faults, due, posts, answers, farewell>>

-------------------------------------------------------------------------------
(***************************************************************************)
(* The worker thread.                                                      *)
(***************************************************************************)
At(step) == worker' = [worker EXCEPT !.step = step]

(* The stop flag is looked at between two events only. *)
CheckStop == /\ worker.step = "loop"
             /\ At(IF stopped THEN "gone" ELSE "get")
             /\ UNCHANGED <<hook, row, queue, stopped, faults, history>>

GetTimesOut == /\ worker.step = "get" /\ queue = <<>>
               /\ worker' = Idle
               /\ UNCHANGED <<hook, row, queue, stopped, faults, history>>

Take == /\ worker.step = "get" /\ queue # <<>>
        /\ queue' = Tail(queue)
        /\ worker' = IF Head(queue) = None THEN Idle
                     ELSE [worker EXCEPT !.step = "list", !.event = Head(queue)]
        /\ UNCHANGED <<hook, row, stopped, faults, history>>

(* Mutant: deleted subscriptions are still listed. *)
MutListDeleted == {h \in Hooks : hook[h] # "new"}

Active == {h \in Hooks : hook[h] = "active"}
Matching == {h \in Active : worker.event \in Wants[h]}

Proceed(rest) ==
  worker' = IF rest = {} THEN Idle
            ELSE [worker EXCEPT !.step = "post", !.rest = rest, !.at = {}]

(* list_webhook_subscriptions: a copy of the rows, worked on unlocked. *)
List == /\ worker.step = "list"
        /\ Proceed(Matching)
        /\ due' = [h \in Hooks |-> IF h \in Matching THEN due[h] \cup {worker.event} ELSE due[h]]
        /\ UNCHANGED <<hook, row, queue, stopped, faults,
                       accepted, dropped, posts, answers, farewell>>

(* Mutants: the event is put back at the end of the queue; the thread dies. *)
MutRetryLater == /\ worker.step = "list" /\ faults < MaxFaults
                 /\ faults' = faults + 1
                 /\ queue' = Append(queue, worker.event)
                 /\ worker' = Idle
                 /\ UNCHANGED <<hook, row, stopped, history>>

MutThreadDies == /\ worker.step = "list" /\ faults < MaxFaults
                 /\ faults' = faults + 1
                 /\ At("gone")
                 /\ UNCHANGED <<hook, row, queue, stopped, history>>

(* An exception out of _deliver: _run logs it and takes the next event. *)
ListFails == /\ worker.step = "list" /\ faults < MaxFaults
             /\ faults' = faults + 1
             /\ worker' = Idle
             /\ UNCHANGED <<hook, row, queue, stopped, history>>

(* The rows are in created_at order, which is to the second, then by their *)
(* random ids: any order among those made within a second.                 *)
Post(h) == /\ worker.step = "post" /\ h \in worker.rest
           /\ \E answer \in {"success", "failure"} :
                /\ worker' = [worker EXCEPT !.step = "record", !.rest = @ \ {h},
                                            !.at = {h}, !.verdict = answer]
                /\ answers' = [answers EXCEPT ![h] = Append(@, answer)]
           /\ posts' = [posts EXCEPT ![h] = Append(@, worker.event)]
           /\ UNCHANGED <<hook, row, queue, stopped, faults,
                          accepted, dropped, due, farewell>>

(* Mutant: a success does not clear the failure before it. *)
MutFailureStays(r) == IF worker.verdict = "success" THEN [r EXCEPT !.succeeded = TRUE]
                      ELSE [r EXCEPT !.failing = TRUE]

(* An UPDATE by id: a row that was deleted meanwhile stays deleted. *)
Recorded(r) == IF worker.verdict = "success" THEN [succeeded |-> TRUE, failing |-> FALSE]
               ELSE [r EXCEPT !.failing = TRUE]

(* Mutant: an endpoint that failed ends the loop. *)
MutBreak == /\ worker.step = "record"
            /\ row' = [h \in Hooks |-> IF h \in worker.at /\ hook[h] = "active"
                                       THEN Recorded(row[h]) ELSE row[h]]
            /\ Proceed(IF worker.verdict = "failure" THEN {} ELSE worker.rest)
            /\ UNCHANGED <<hook, queue, stopped, faults, history>>

Record == /\ worker.step = "record"
          /\ row' = [h \in Hooks |-> IF h \in worker.at /\ hook[h] = "active"
                                     THEN Recorded(row[h]) ELSE row[h]]
          /\ Proceed(worker.rest)
          /\ UNCHANGED <<hook, queue, stopped, faults, history>>

(* A success is recorded inside the try: when that raises, the last except *)
(* records a failure.  A failure is recorded in an except: when that raises *)
(* the event is abandoned.                                                 *)
RecordFails == /\ worker.step = "record" /\ faults < MaxFaults
               /\ faults' = faults + 1
               /\ worker' = IF worker.verdict = "success"
                            THEN [worker EXCEPT !.verdict = "failure"] ELSE Idle
               /\ UNCHANGED <<hook, row, queue, stopped, history>>

Work == \/ CheckStop \/ GetTimesOut \/ Take \/ List \/ ListFails
        \/ (\E h \in Hooks : Post(h)) \/ Record \/ RecordFails

-------------------------------------------------------------------------------
(***************************************************************************)
(* Shutdown.                                                               *)
(***************************************************************************)
Stop == /\ ~stopped
        /\ stopped' = TRUE
        /\ queue' = IF Full THEN queue ELSE Append(queue, None)
        /\ UNCHANGED <<hook, row, worker, faults, history>>

(* join timed out: the process ends and the daemon thread with it. *)
Kill == /\ stopped /\ worker.step # "gone"
        /\ At("gone")
        /\ UNCHANGED <<hook, row, queue, stopped, faults, history>>

Next == \/ \E h \in Hooks : CreateHook(h) \/ DeleteHook(h)
        \/ \E e \in Events : Enqueue(e)
        \/ Work
        \/ Stop \/ Kill

Spec == Init /\ [][Next]_vars

(* The thread runs on: get, the store and urlopen all have timeouts. *)
FairSpec == Spec /\ WF_vars(Work)

-------------------------------------------------------------------------------
(***************************************************************************)
(* Properties.                                                             *)
(***************************************************************************)
PlaceOf(e) == CHOOSE i \in DOMAIN accepted : accepted[i] = e

(* Every endpoint gets the events in the order the queue took them, and    *)
(* none twice, whatever the other endpoints and the store do meanwhile.    *)
InOrderOnce ==
  \A h \in Hooks : \A i, j \in DOMAIN posts[h] :
    i < j => PlaceOf(posts[h][i]) < PlaceOf(posts[h][j])

(* Listed for an event, not POSTed it, and no longer on the worker's list. *)
Missed(h, e) == /\ e \in due[h] /\ e \notin ToSet(posts[h])
                /\ ~(worker.event = e /\ h \in worker.rest /\ worker.step # "gone")

(* One endpoint that fails costs no other endpoint its event.  Of those    *)
(* listed for an event one misses it only when the store raises while a    *)
(* failure of the endpoint before it is recorded, which abandons the whole *)
(* event; or when the process ends.  A success that cannot be recorded, a  *)
(* deletion, a full queue or the stop flag costs nobody what is his.       *)
FailureIsolated ==
  [][\A h \in Hooks, e \in Events :
       ~Missed(h, e) /\ Missed(h, e)' =>
         \/ stopped /\ worker'.step = "gone"
         \/ worker.step = "record" /\ worker.verdict = "failure" /\ faults' # faults]_vars

(* A row that says what became of POSTs: last_failure_at is set exactly    *)
(* when the latest failed, and last_success_at when any succeeded.         *)
Tells(r, results) == /\ r.failing = (results # <<>> /\ Last(results) = "failure")
                     /\ r.succeeded = ("success" \in ToSet(results))

(* The results of h, without the one the worker has still to record. *)
Told(h) == IF h \in worker.at /\ worker.step # "gone" THEN Front(answers[h]) ELSE answers[h]
RowWrong(h) == hook[h] = "active" /\ ~Tells(row[h], Told(h))

(* What GET /v3/webhooks shows of a subscription is what happened to it.   *)
(* A row comes to tell otherwise only by the end of the process between    *)
(* POST and UPDATE; by a store that raises while a failure is recorded; or *)
(* by one that raised while a success was, which then is a failure.        *)
ResultsTrue ==
  [][\A h \in Hooks :
       ~RowWrong(h) /\ RowWrong(h)' =>
         /\ h \in worker.at
         /\ \/ stopped /\ worker'.step = "gone"
            \/ worker.verdict = "failure" /\ faults' # faults
            \/ worker.verdict = "failure" /\ faults > 0 /\ Last(answers[h]) = "success"]_vars

(* After DELETE /v3/webhooks/{id} answered, the endpoint gets at most the  *)
(* one event the worker already had in hand.                               *)
OneLatePost ==
  \A h \in Hooks : hook[h] = "deleted" => Len(posts[h]) <= farewell[h] + 1

(* Neither slow endpoints nor a store that raises stop the deliveries: an  *)
(* event in the queue is taken out of it, unless the service shuts down.   *)
QueueMoves ==
  \A e \in Events : e \in ToSet(queue) ~> e \notin ToSet(queue) \/ stopped
===============================================================================
