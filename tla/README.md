# A verification project for freepbx-gsm-gateway

The repository turns a SIM7600 modem and Asterisk into a messaging service:
`sms_api/` is a FastAPI service that sends SMS through Asterisk, takes texts in
from Asterisk's dialplan, fetches MMS and binary messages from the modem
itself, keeps everything in SQLite, and tells clients over SSE, WebSocket and
webhooks. This directory holds TLA+ modules of that service, TLC instances
that check them, and proofs that TLAPS checks.

    tlc -workers 2 -config CaptureStore.cfg MCModemPoller.tla    # a run
    tlapm ModemPollerProofs.tla                                  # one component's proofs

`PROJECT.json` lists components, runs, mutants, theorems, hazards and findings,
and maps every definition to the lines it stands for.

## 1. Inventory

| Component (source) | State | Operations | Interacts with |
|---|---|---|---|
| Store (`storage.py`) | tables `chats`, `messages`, `attachments`, `webhook_subscriptions`; one process-wide lock; one autocommitting connection per call | `get_or_create_chat`, `_create_message` (three kinds of statement), lookups by key, listings, webhook rows | every handler thread, the poller, the dispatcher |
| Modem poller (`modem.py`) | a thread; locals of `poll_once` | list, parse, deduplicate, download, store, publish, delete, for `SM` and then `ME` | the modem's AT port, the store, `publish_message_event` |
| AT client (`modem.py`) | input buffer of the port | `command`, `http_action`, `http_read_chunk` | the modem, which chan_quectel drives over another port |
| Ingest endpoint (`main.py:1016`) | none of its own | store a text, publish | Asterisk's dialplan (one `curl`, five seconds, no retry) |
| Outbound handlers (`main.py:811`, `897`) | locals of each request | look up the key, submit over AMI, store, publish, answer | AMI client, store, broker, dispatcher |
| Event broker (`events.py:31`) and stream endpoints (`main.py:939`, `977`) | subscribers, one bounded queue each; jobs of the event loop's default executor | subscribe, unsubscribe, publish, get with a timeout, send | every publisher, clients that go away |
| Webhook dispatcher (`events.py:80`) | one bounded queue, one daemon thread, a stop flag | enqueue, deliver, record, stop | store, endpoints |
| AMI client (`ami.py`) | none | `command` | Asterisk |
| WAP push parser (`pdu.py`) | offset into the bytes of one SMS | the loop over the headers of a notification; it may raise | poller |
| MMS parser and media files (`mms.py`) | offset into a download; the media directory | header, parameter and part loops; write files | poller, disk |
| Phone numbers, settings, number discovery (`phone_numbers.py`, `config.py`, `main.py:564`) | `SMS_FROM_NUMBER`, read once | normalise, parse `quectel show devices`, fall back | Asterisk, every handler, poller |
| Read endpoints (`main.py:726`, `871`) | none; the cursor is the client's | listings with offset cursors | store, while others write |
| Asterisk, dialplan, containers, call scripts | other programs' configuration | | |

What makes each correct, and hard:

* **Capture** must delete a message from the modem only after it is stored,
  store it once, and publish it. It runs beside chan_quectel, which deletes
  messages under the poller's feet and lets the network reuse their indexes;
  every AT command may time out, be refused, or be half done; every statement
  of the store commits by itself; the process may die anywhere.
* **The store** must keep keys unique and a chat's service right although its
  callers work on rows they read earlier.
* **The outbound API** must not send what is recorded as sent, must replay
  faithfully, and must answer 2xx only for what was sent and stored, with
  requests that overlap, retry and fail at any step.
* **The parsers** must take a notification for what it announces and a download
  for a message only when it is whole, whatever headers frame it and wherever it
  was cut; an exception aborts the poll, now and at every later one.
* **Listings** must not lose rows between two pages although the order they
  page over moves, and **numbers** must lead every message of one correspondent
  to one chat, although three sources name the gateway's own number.
* **The broker and the dispatcher** must keep order, lose nothing silently
  within their documented bounds, and never let one slow client stop another.

## 2. Modules

| Module | What it is |
|---|---|
| `SmsStore` | the tables and one operator per reading or writing statement of `storage.py`; extended by `ModemPoller` and `OutboundApi`, so both share one model of the store |
| `InboundMailbox` | the abstract promise of capture: deliver, capture once, discard only what is stored; implemented by `ModemPoller` and by `AtSerial` |
| `ModemPoller` | `poll_once` step by step, the ingest handlers, chan_quectel, the network, faults and crashes; refines `InboundMailbox` |
| `ModemPollerProofs` | theorems about `ModemPoller` |
| `OutboundApi` | both sending handlers, with AMI as a step that queues, refuses, or queues and fails to say so |
| `EventBroker` | subscribers, their queues, publishers that race between the three queue calls of `_enqueue_nonblocking`, and the streams' loops on a bounded pool of threads |
| `WebhookDispatcher` | the delivery queue, the worker thread, endpoints that fail, a store that raises, subscriptions that come and go, shutdown |
| `AtSerial` | `AtSerialClient` under a poll: commands, deadlines and answers on a line that says of no answer which command it belongs to; refines `InboundMailbox` |
| `Wsp` | the readers the two parsers share: uintvar, value length, text string; extended by the next two |
| `WapPush` | `parse_wap_push` and `parse_mms_notification`, one action per round of the header loop |
| `MmsBody` | `parse_mms_retrieve_conf`, `parse_parts` and what they call, one action per round of a loop |
| `MmsCapture` | the two composed with the download, the media files, the row, and the poll after an interrupted one |
| `Pagination` | both listings and a client that walks them, beside the writers |
| `Conversations` | under which two numbers a text, an MMS and an outbound message are filed |
| `OutboundApiProofs`, `EventBrokerProofs`, `WebhookDispatcherProofs`, `AtSerialProofs`, `MmsCaptureProofs`, `PaginationProofs`, `ConversationsProofs` | theorems about the module each is named after |
| `MC…` | instances for TLC: which messages, requests, events and keys there are |

Definitions named `Mut…` are deliberate bugs. Each stands before the definition
it would replace; no specification uses them. They show that each property can
fail: replacing, say, `StartCapture` by `MutCaptureUnchecked` violates
`NeverConflicts`.

### How state and actions correspond to the code

**Store.** A chat is its `(from_number, to_number)` pair, a message row is
named by the PDU or request it was made for, and only the columns that
decisions depend on are kept: `service`, the two keys, the chat. Because
`isolation_level=None` commits each statement, `_create_message` is `Insert…`,
`Touches`, and one `Attaches` step per attachment; the lock is held over them
(`LockFree`), but an exception or a crash can end the method after any of them.

**Capture.** `pc` is the place in `poll_once`: `select`/`list`
(`list_messages`), `scan` (the loop head and its early `continue`s), `fetch`
(`_download_mms_content`), `chat`/`insert`/`touch`/`attach`/`reread`
(`create_inbound_message`), `publish` (`on_message_created`),
`reselect`/`erase` (`delete_message`). `listing` and `todo` are the list and
the loop's place in it; `cpms` is the memory the modem has selected, which the
code believes to be `scan`. What the parser makes of a message is the constant
`Kind`: `GARBLED` for one it raises on, `MALFORMED` for an MMS whose download
makes the MMS parser or the file writing raise. chan_quectel takes the kinds in
`DriverReads` and either hands the text to a handler or loses it. `NoRow` stands
for a message that has no row. Shutting the service down is a `Crash` here: the
poller is a daemon thread and keeps nothing.

**Serial line.** `at` is the command to write or being answered, `sent` whether
it was written, `text` what the reading loop has collected. `out` holds the
answers not read yet: `Write` throws away those that had arrived
(`reset_input_buffer`) and appends the answer to the new command, `Receive` is
one `serial.read`. The modem executes a command when it is written; as it works
in order, what can be late is only the answer. `OK` and `ERROR` are one token,
`Final`, because `_is_complete_response` treats them alike; a refusal shows in
what the modem then does not do. The number in `+HTTPACTION` is two tokens, since
a read may end inside it. `total` and `data` are the locals of `http_read_all`.
That a closed port loses what was late before the next poll (`Drain`) is an
assumption: the interval between polls is long against the deadlines. That a chunk has a
byte at least is another, and the code depends on it. The modem's refusal of
AT+CPMS, duplicates, other kinds of message and the store's failures are left to
`ModemPoller`.

**Outbound.** `step` is the place in the handler; `create` requests go through
`chat` (`get_or_create_chat`), `send` requests through `begin` (`get_chat`). A
retry is another request with the same key. On the replay path the lookup and
the `get_chat` that follows it are one step, since chats are never deleted.
`Inbound` is the rest of the system, which may bring a chat into being in any
service. AMI is the pair `Submit`, `SubmitFails`.

**Broker.** `Put`, `Evict` and `PutAgain` are the three queue calls, each
atomic by itself; `targets` is the copy of the subscribers. `loop[s]` is where
the stream's coroutine waits: for a thread (`queued`, its job is in `jobs`), in
`get` on one of the `Workers`, or to `send`. A WebSocket that has gone is noticed
when a send fails; an SSE response is cancelled at once, and a job that a thread
has taken up by then keeps the thread (`Cancelled`, `JobOver`).

**Parsers.** `data` is the bytes at hand, `at` the offset, `stage` the loop.
Bytes are numbers; names of types, charsets and encodings are short byte
strings of the instance, because the parsers only compare them. A reader that
may raise `ValueError` is a set with at most one result, empty when it raises,
so a step that needs one is disabled and the step that fails is enabled.
`IndexError` (`data[offset]` past the end inside an inner loop) is an action of
its own, since nothing catches it. `outer` is the stack of `parse_parts` calls
around a nested multipart/alternative. The readers are checked against what the
sender meant: a delivery holds the bytes and, beside them, the URL, the parts and
the subject they encode. The body of the row is the first text that is not blank,
else the subject, and only of a message that was read to its end; the
placeholders are the empty text.

**Pages.** A chat is its id, and its `updated_at` is all that the order depends on;
of messages only those of the chat `Shown` matter. `offset` is the cursor.
`moved`, `fallen`, `pushes` are history: what has been written to since the walk
began. `GetChat` and `CreateMessage` are two steps, because a reader may come
between them; from the INSERT to the end of `_create_message` none can.

**Numbers.** A number is the sequence of its digits and whether a `+` leads it.
`Text` files under what Asterisk lists at that moment or the fallback, `Mms` under
`SMS_FROM_NUMBER`, `CreateChat` under what the client gives, checked against the
listing. `peer` in a filed message is who was meant.

**Dispatcher.** `worker.step` is the place in `_run` and `_deliver`;
`worker.rest` is the copy of the subscriptions still to serve. A POST ends in
`success` (2xx) or `failure` (any other status, an error, a timeout); urllib
raises on the rest, so the branch at `events.py:180` cannot be reached and is
not modelled.

## 3. Runs, bounds, and what they show

| Run | Instance | Result |
|---|---|---|
| `capture_store` | one slot per memory, three arrivals out of {MMS of two parts, binary, text} of one correspondent, one handler, two faults, a driver that takes anything, a modem that may refuse CPMS; 278 000 states | `NeverConflicts`, `MmsChatMarked`, `EventIsComplete`, `OnlyInterruptionsTear` hold |
| `capture_mailbox` | two slots per memory, two arrivals out of six kinds of message, two faults; driver takes texts, CPMS obeyed; 74 000 states | `RefinesMailbox`, `ListedWhereLabelled`, `CapturedAndErased` hold |
| `outbound` | three requests, in three workloads: a `POST /v3/chats`, its retry, and a request for another chat with the same key; two `POST /v3/chats` for one new number and a request by chat id, two of the three without a key; the same with two empty keys; a fault or a crash, inbound messages of any service; 258 000 states | seven properties hold |
| `broker` | two publishers of two events and one, a WebSocket and an SSE stream (one filters), one thread for both, queues of one; 37 000 states | five properties hold |
| `webhooks` | three events, two subscriptions (one filters), queue of two, a store that raises twice, shutdown; 694 000 states | six properties hold |
| `serial_line` | two notifications in one memory, ten bytes and one, read nine at a time; any number of late answers, missed deadlines, refusals, failed downloads, lost ports and polls; 523 000 states | six properties hold; one is `RefinesMailbox`: nothing is deleted unstored or stored twice |
| `pages` | three chats, four messages, filters that select all chats or two, pages of one and two rows, two writers, two writes, a clock of two seconds; 763 000 states | `NoneMissed`, `RepeatsBounded` hold |
| `mms` | 350 deliveries: notifications with every pair of header fields, as a whole and cut in two anywhere; messages of up to three parts of eleven kinds, seven headers, four subjects, five content types; downloads cut anywhere; two polls; 1 243 000 states | `PushFiledTrue`, `BodyTakenTrue`, `FilesTrue` hold |
| `conversations` | five correspondents in all spellings, three messages, three listings or none, the own number in three spellings or unset; 2 800 states | `OneConversation` holds |
| `binary_rows`, `lost_events`, `double_send` | small instances of the same models | each violates the one property it checks; see section 6 |

Why these bounds. Two arrivals into two slots give every race of reuse,
redelivery and blocking between two messages, and the code treats messages one
at a time; three arrivals into one slot per memory give an MMS, a binary
message and a text in the same chat in every order. Two faults give a fault
and then one in what recovers from it. Two requests with one key are an
original and a retry, the third tells a key's chat from the key. A queue of one
is full at once, so both kinds of loss in the broker happen, and two publishers
suffice for one to take the room the other made. The dispatcher needs a queue of
two for order in the queue to mean anything and a third event to overflow it.
For the serial line two notifications suffice to take one download's notice for
the other's, ten bytes give a number that can be cut and two chunks, and a poll is
long enough to fall three answers behind, which is what `OwnAnswers` speaks of.
A notification costs three missed deadlines at most before the poll goes on to the
next one (AT+HTTPTERM, AT+HTTPREAD and AT+HTTPTERM again), so with two of them no
poll misses nine: what `Astray` allows is out of the run's reach, and what it
forbids is for any number of notifications the proof's.
One thread for two streams lets an idle or a closed stream stand in the other's
way. Three chats and two writes let a chat jump over the cursor and back; two
seconds make time stamps collide and lie in the past. Pairs of header fields
suffice because the loops keep nothing between two rounds but the offset and the
values found; parts come in pairs and, for names that collide, in threes; the
poll after an interrupted one is the second. Three messages are one from each
source.
Counters (`arrivals`, `faults`, `polls`, `stored`) are bounded in the guards of the actions that
raise them and by the constants `MaxArrivals`, `MaxFaults`, `MaxPolls`, `MaxWrites` and
`MaxTime`; `MaxMessages` bounds the set `filed`.

`CHECK_DEADLOCK FALSE` is set where the system may really stop: publishers
that have published everything, a dispatcher that has shut down, an MMS that is
stored.

### Fairness

* `ModemPoller`: weak fairness of the poller's own steps and of a handler that
  has started. The thread runs on, sleeps for a finite interval, and every
  command has a timeout. The modem, the network, the driver and faults owe
  nothing.
* `OutboundApi`: weak fairness of each started handler; AMI has a socket
  timeout, SQLite a busy timeout.
* `AtSerial`: weak fairness of the client as a whole, none of the modem: every
  loop that reads has a deadline.
* `EventBroker`: weak fairness of each publisher, of the executor taking up its
  oldest job, of each job's end (`get` returns or times out) and of each send's
  end. None of a stream's being served: that it gets a thread follows from the
  order of the jobs and the timeout. A client that neither reads nor goes away
  is left out; its send does not hold a thread.
* `Pagination`, `MmsCapture`, `Conversations`: none; their properties are
  invariants.
* `WebhookDispatcher`: weak fairness of the one worker; `get`, `urlopen` and the
  store all time out.

## 4. Proofs

Every theorem holds for every value of its module's constants: any sets of
messages, requests, streams, subscriptions, chats and numbers, any sizes of
memories, queues, pools, chunks and pages, any bytes, any number of faults. Each rests on
the named assumption of its module (`PollerAssumption`, `StoreAssumption`,
`OutboundAssumption`, `BrokerAssumption`, `DispatcherAssumption`,
`NoneIsNoEvent`, `AtSerialAssumption`, `BytesDelivered`, `PaginationAssumption`,
`ConversationsAssumption`), which the runs evaluate. They say what the constants
are; the ones that say something of the world are named below, and so are the
premises that a theorem states itself.

| Module | Theorem | Statement |
|---|---|---|
| `ModemPollerProofs` | `TypeInvariant` | `Spec => []TypeOK` |
| | `CaptureNeverConflicts` | `Spec => []NeverConflicts` |
| | `MmsChatAlwaysMarked` | `Spec => []MmsChatMarked` |
| | `ChatsOnlyGainMms` | `Spec => ChatsNeverRegress` |
| | `ListingStaysTrue` | with `SelectIsObeyed`: `Spec => []ListedWhereLabelled` |
| | `CaptureImplementsMailbox` | with `SelectIsObeyed` and `DriverTakesOtherKinds`: `Spec => RefinesMailbox` |
| | `EventsAreComplete` | `Spec => []EventIsComplete` |
| | `NothingElseTears` | `Spec => OnlyInterruptionsTear` |
| `OutboundApiProofs` | `TypeInvariant` | `Spec => []TypeOK` |
| | `RecordedNeverResent` | `Spec => []RecordedNotResent` |
| | `ReplaysAreFaithful` | `Spec => []ReplayFaithful` |
| | `AnswersAreBacked` | `Spec => []AnswerIsBacked` |
| | `OneCreatorOnly` | `Spec => []OneCreator` |
| | `LostOnlyByFailures` | `Spec => OnlyFailuresLose` |
| `EventBrokerProofs` | `TypeInvariant` | `Spec => []TypeOK` |
| | `EveryEventAccounted` | `Spec => []Accounted` |
| | `EachPublishersOrder` | `Spec => []PublisherOrder` |
| | `OnlyRivalsCostTheNewest` | `Spec => RefusedForARival` |
| `WebhookDispatcherProofs` | `TypeInvariant` | `Spec => []TypeOK` |
| | `DeliveredInOrderOnce` | `Spec => []InOrderOnce` |
| | `NoEndpointLosesItsEvent` | `Spec => FailureIsolated` |
| | `RowsTellTheTruth` | `Spec => ResultsTrue` |
| | `DeletedGetsOneMore` | `Spec => []OneLatePost` |
| `AtSerialProofs` | `TypeInvariant` | `Spec => []TypeOK` |
| | `ChunksMakeThePayload` | `Spec => []PayloadInOrder` |
| | `AnswersAreItsOwn` | `Spec => []OwnAnswers` |
| | `ContentIsWhole` | `Spec => []WholeContent` |
| | `LineImplementsMailbox` | `Spec => RefinesMailbox` |
| `MmsCaptureProofs` | `ParserKeepsTypes` | with `CodecsGiveBytes`: `Spec => []TypeOK` |
| | `FilesHoldTheirParts` | with `CodecsGiveBytes`: `Spec => []FilesTrue` |
| | `ParserAdvances` | with `CodecsGiveBytes` and `CodecsShrink`: `Spec => Advances` |
| `PaginationProofs` | `TypeInvariant` | `Spec => []TypeOK` |
| | `WalkMissesNothing` | `Spec => []NoneMissed` |
| | `WalkRepeatsLittle` | `Spec => []RepeatsBounded` |
| `ConversationsProofs` | `OneChatPerCorrespondent` | `Spec => []OneConversation` |

`ChatsNeverRegress` and `Advances` are proved and not checked by a run.
Few of these properties are inductive. The rest of this section says what each
proof adds to them and why.

### Capture

That the row is absent at the INSERT depends on what the poller established at
`StartCapture`, steps earlier, and on nobody else storing under a PDU's key. The
inductive invariant `CaptureInv` is `TypeOK` and

* `RowsKnown`: a row made for a PDU is exactly the row the poller makes for it,
  and a row made for a handler is a text without a transport key;
* `PollerKnows`: at each `pc`, what is known of the message in hand (stored or
  not, supported, of a kind the poller is for);
* `HandlersKnow`: a handler before its INSERT has no row, and a busy one has a
  chat.

`MmsChatMarked` needs one more conjunct for the interval between
`get_or_create_chat` and the INSERT (`MarkStep`); `ListedWhereLabelled` that
`cpms` is `scan` while a listing is worked on (`ListingStep`). `EventIsComplete`
needs that attachments come one by one and are all there behind `attach`
(`AttachmentsKnown`) and that only stored MMS are ever fired (`FiredKnown`);
`OnlyInterruptionsTear` is an action property: a step that leaves an MMS stored
but without its event or some of its files is an exception or a crash that ends
the poll with that message in hand. It needs, beyond these, that the chat read again
before the publish is an MMS chat (`RereadKnown`), which is where `MmsChatMarked`
comes in: without it the response model would refuse the event, and no fault would
be needed. A message the poller is done with, half or whole, is not touched again
(`TearStep`).

The refinement (`MailboxStep`) maps `box` to the slots and `stored` to the PDUs
that have rows: `PollerInserts` is `Capture`, `Erase` and `EraseTimesOut` are
`Discard` or a stutter, `Arrive` is `Deliver`, the driver's reads are `Discard`
of what is not to be kept, and everything else stutters. Its two assumptions are
not idle. `SelectIsObeyed` (the modem never refuses AT+CPMS) is what the code
takes for granted: `command` returns an `ERROR` answer as text like any other,
and `set_storage` ignores it. Without the assumption `ListedWhereLabelled` fails:
after a refused AT+CPMS the poller lists one memory and takes its messages for
the other's. `DriverTakesOtherKinds` says that chan_quectel leaves the kinds the
poller is for alone, which its `autodeletesms` does not promise; it is an
assumption about the driver.

### Outbound

`OutboundInv` says what a handler has done at each step (`StepsKnown`), that a
row is the one its request asked for (`RowsKnown`), that no two rows share a key
(`KeysUnique`, from the unique index), that a successful answer shows a row with
the key and the chat that were asked for (`AnswersKnown`), and that whoever is past the
lookup found no row of a request that had ended by then (`EarlierKnown`). The
last one makes `RecordedNotResent` inductive; it is true only of requests that
were over, which is why two that overlap may send twice (finding 3).
`CreatorsKnown` counts a handler that found no chat as a creator before it
answers. `OnlyFailuresLose` is an action property that follows from `OutboundInv`:
a request that ends without a row after its SMS was accepted does so by a fault, or
because the unique index refuses its row. `EarlierKnown` then says that the row
in its way is of a request that overlapped it, unless the key is empty and was
not looked up.

### Broker

`BrokerInv` adds to the types that a publisher's targets are distinct streams
(`Publishing`) and how connections, subscriptions and reading loops hang together
(`Connected`). `Accounted` needs `Booked`: an event is owed to a stream from the
moment its publish begins with the stream among the targets, and to nobody
before. The proof has one lemma for each queue call on what it does to the
sequence of what has passed; an eviction takes the oldest out of the queue's
head, so what remains keeps its order. `PublisherOrder` then follows because what a publisher
still has to publish is owed to nobody (`LaterIsNotOwed`). It speaks of each
publisher's own order: two publishers may be seen in either order, and by two
clients in different ones. `RefusedForARival` is an action property and needs
`BeatenByARival`: whoever finds the queue full at the second put has another
publisher's event at its end.

### Dispatcher

`WorkerShape` says what the worker has in hand at each step. `OneLatePost` needs
`LatePostInv`, the difference between a deleted subscription that is still on the
worker's list and one that is not; `ResultsTrue` needs `ResultsInv`: the
result in the worker's hand is that of the latest POST, or a success that a
store which raised has turned into a failure. `InOrderOnce` needs
`OrderInv`: what was posted comes before what is in hand where that is still to
be posted, and both before what waits in the queue. `FailureIsolated` and
`ResultsTrue` are action properties: they name the steps that alone make an
endpoint miss an event or a row tell a lie. The first follows from `WorkerInv`.

### Serial line

No property speaks of the line, and all depend on it. The proof reads the
client's buffer and what is on its way as one sequence, `Line`, and counts the
final result codes behind a place in it (`Behind`). `Lag`: there are at most as
many as deadlines were missed in this poll, and one for the command being
answered. `ChunksKnown`: a chunk on the line is the answer to the read at hand,
or has at least `Owed` final codes behind it, one for every command the client
has written since; between reads for two downloads these are ten. So a chunk
that answers another read can only be taken after nine missed deadlines.
`UrcsKnown` is the same argument for `+HTTPACTION`, which does not stand in the
order of the commands: when AT+HTTPTERM was obeyed, a notice from before it has
four final codes behind it (AT+HTTPTERM's own and three more), which makes it
three deadlines. `Scans` says that a listing of SM that comes late stands first on the line
while ME's AT+CPMS is being answered, and is read with that answer and not for
ME's: until SM is listed no deadline was missed (`FirstScan`). `Session` follows the URL through the fetch;
`Told`, `Amount` and `Content` are what the client makes of the answers.

The proof corrected the model. An earlier `PayloadInOrder` had no premise and
held in the run; it is false of a poll with more than a dozen notifications of
which as many miss deadlines, which TLC confirms on such an instance. Hence
`Astray`, a count that is no longer capped, and the entry in section 6.

`LineImplementsMailbox` maps a place of the modem to the notification it holds:
`Store` is `Capture`, an AT+CMGD that is obeyed is `Discard`, and the rest
stutters. This is the step that `ModemPoller` takes for granted, that the index
deleted is the message stored. `Kept` is what it needs: what has left the modem was
stored (`LeftStored`); a notification is fetched only while it is not stored, and
erased only when it is (`Decided`); and when AT+CMGD is written, the modem has the
memory selected that the listing at hand came from (`Reselected`), which with
`Scans` makes the index that of the stored message. The modem is assumed to obey
AT+CPMS here, as in `SelectIsObeyed`.

What `AtSerialAssumption` says of the world: the set of notifications is finite,
each lies at a place of its own, and contents are not empty.

### Parsers and media files

The bytes of a delivery are any, and the download may stop at any of them. The
readers' results are proved without an induction scheme: the value of a uintvar
is a recursive function of the offset, and that it is a number is shown by the
least offset at which it would not be. `WholeShape` says, stage by stage, what the
locals of the two parsers are, `outer` included; `LoopHeads` is the conjunct that
the slices of `mms.py` depend on, that an outer loop never starts behind the data,
although the lengths that `LengthValueEnd`, `IntegerEnd` and `PartData` jump by are the
sender's.

`FilesTrue` needs `FilesKept`: of the parts looked at, those that are media have
the attachments `1..Index(placed)`, each under its own name or that name with its
index in front, and the file is on the disk with the part's bytes (`Written`); or
the one attachment is the raw message (`RawKept`). A file that is written later
takes a name that is free, or one that begins with an index no earlier file has.
That two names with different indexes in front differ is a fact about decimals
(`DigitsDiffer`, `PrefixesDiffer`: the hyphen ends the digits); that a prefixed name
is no other part's own is what the premise `~NamesCross` says, and what the code
does not look at (section 6). What an interrupted poll left on the disk is arbitrary
in this argument.

`Advances` says what makes the loops of both parsers end: each round ends the parse,
moves the offset on inside the data, goes on to a later loop of the same part or
to the next of a number of parts that falls, or enters a nested body of fewer
bytes or returns from one. It needs `Ahead`: the end of a part's headers is not
at offset 0. That every parse ends then follows by lexicographic descent, which
the prover's induction does not reach; `ParserAdvances` is the step of that argument.

What the premises say of the world: a codec and `mimetypes` return bytes
(`CodecsGiveBytes`), and quoted-printable and base64 do not lengthen what they
decode (`CodecsShrink`).

### Listings

A walk is an offset into an order that moves under it. `Rank` is the number of
rows ahead of one; the lemmas on rankings (a page is the rows whose ranks it
covers, a row's rank can only grow when others move ahead, a write pushes at most
one row behind the cursor) stand alone. `StillToCome`: a row the walk may not
miss and has not shown has a rank at or behind the offset. `RepeatInv`: the rows
ahead of the cursor have been shown, but for as many as writes pushed back.
`PaginationAssumption` says that chats and messages are finitely many.

### Numbers

`FiledKnown`: a filed message has the gateway's own number as its local one unless
the listing hid it, and the correspondent's as its remote one unless it came
bare. What `ConversationsAssumption` says of the world: a number of the country
code 1 has eleven digits and a short code fewer than ten; a number is spelled
with or without its `+`, and without its country code only when that is 1; the
gateway's own number is not given bare; and `quectel show devices` has nothing
behind the number that passes for one.

### Model-checked only

* Liveness (`CapturedAndErased`, `EveryRequestEnds`, `QueuesDrain`, `QueueMoves`,
  `PollEnds`): temporal reasoning with fairness needs ENABLED, which is out of
  this prover's reach.
* `PushFiledTrue` and `BodyTakenTrue` of `MmsCapture`. They compare what the parsers
  read with what the sender meant, so they are statements about an encoder too:
  for arbitrary bytes there is nothing meant. The encoder is the instance's, which
  enumerates encodings; a proof would need an induction over what was encoded.
* The three findings with a run of their own: a counterexample is their proof.

No module uses a `RECURSIVE` operator, so each can be proved about.

## 5. What is not modelled

* Stateless parts: authentication, request validation, the fetching of one row or
  one file by its name. They refuse or answer a request without touching state.
* The layer of a PDU below its user data (address, time stamp, 7-bit text), which
  is the `smspdudecoder` library and a hash: `ModemPoller` takes its verdict as the
  constant `Kind`. Charsets, apart from a subject whose text has NUL bytes.
* The lines of an AMI answer: `OutboundApi` has its three outcomes (accepted,
  refused, accepted and not understood).
* A gateway with several modems: `Conversations` has one.
* The migration of an old database file at start.
* Asterisk, Docker and the call scripts: other programs. The only extension
  the API depends on, `quectel-incoming`, is `DriverForwards`/`DriverLoses`.
* SQLite itself: a statement is atomic and durable once it returns.

## 6. Findings

1. **Binary messages poison their chat** (`binary_rows`). They are stored as
   `BINARY`, a service no response model admits; the poll is aborted, and every
   listing that holds the row answers 500.
2. **Stored without an event** (`lost_events`). The README promises an event for
   every stored message; a crash between the INSERT and the publish loses it,
   because the next poll takes the row for proof that all was done.
3. **One key, two SMS** (`double_send`). The key is checked before the SMS is
   sent and taken after it.

Stated by the exceptions and premises of properties instead of a run of their own:

* *Serial line.* A refused AT+CPMS goes unnoticed (the assumption
  `SelectIsObeyed`). A read that ends inside the length of `+HTTPACTION` truncates
  the MMS without a word (`WholeContent`); the notice of a download that was given
  up can be taken for a later one's, because a missed deadline leaves its answer
  for the next command, and refused commands can make the content of one MMS pass
  for another's (`OwnAnswers`).
* *Half done* (`OnlyInterruptionsTear`). An interruption between the INSERT and the
  attachments leaves a row without its media, and the next poll deletes the message.
* *Sent and not recorded* (`OnlyFailuresLose`). A store that raises after the SMS
  has left answers 500, and the retry sends it again.
* *Webhooks* (`FailureIsolated`, `ResultsTrue`). A store that raises while a failure
  is recorded costs the subscriptions behind it the event; one that raises while
  a success is recorded turns it into a failure.
* *Empty keys* (`OnlyFailuresLose`). `if payload.message.idempotency_key:` takes an
  empty key for none, but it is stored, and the index exempts only NULL: the
  second request that sends one is submitted to Asterisk and answered with 500.
* *Notifications* (`PushFiledTrue`). X-Mms-Message-Size is read as a uintvar
  although it is a long integer, so that the location behind it may be misread; a
  Subject without a value length aborts this poll and every later one; a
  notification in two SMS is never put together, and its first part may be filed
  as an MMS with half a URL, or abort the poll.
* *Bodies* (`BodyTakenTrue`). A subject in UCS-2 is read up to its first NUL, and
  the rest of it as headers.
* *Attachments* (`FilesTrue`). A name that is taken gets the part's index in
  front, and whether that is free is not looked at: of three parts `x.b`, `3-x.b`
  and `x.b` the second is written over, and so may be what a row points to.
* *Listings* (`NoneMissed`). An MMS sets its chat's `updated_at` to the time stamp
  of its notification, earlier than what it was: the chat falls back in
  `GET /v3/chats`, and a walk that is under way can miss another one.
* *Long polls* (`Astray`). With a dozen notifications and as many missed deadlines
  in one poll a late chunk of one content can be taken for the answer to a read of
  another, and the parser gets bytes of both.
* *Numbers* (`OneConversation`). `.env.example:25` calls `SMS_FROM_NUMBER` an
  "optional fallback if `quectel show devices` does not expose the line number";
  but the line then still has the IMSI, which passes for a number
  (`main.py:580`), so the fallback is not reached, and texts are filed under the
  IMSI. A foreign number of ten digits without its `+` becomes an American one.

## 7. Plan

Done: all modules of section 2 with their runs, and the theorems of section 4.
Next:

1. A model of an encoder, so that `PushFiledTrue` and `BodyTakenTrue` can be stated for
   every message it writes.
2. Abstract specifications of what a stream and an endpoint are promised (a queue
   that loses its oldest; a queue that loses its newest), and that `EventBroker` and
   `WebhookDispatcher` implement them.
3. `Lifecycle`: the order in which dispatcher and poller start and stop; the lines
   of an AMI answer.
4. `Gateway`: capture, ingest, outbound and events over one store.
