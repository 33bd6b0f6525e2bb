# RabbitInOrleans: specifications

TLA+ modules of the message paths of RabbitInOrleans, TLC configurations that
check them on small instances, and TLAPS proofs of what matters most for every
instance. The repository has neither documentation nor tests; everything here is
read off the code. Paths below are relative to the repository.

The system connects three kinds of processes through RabbitMQ: Orleans silos with
the grains of `MessagingGrain`, the web application `WebClient`, whose pages play
the devices, and the web application `WebHub`, whose pages send commands to the
devices and show what they push.

    device page --api/QueueStart, api/Response--> MessageQueue --+
    device page --api/DataPush------------------> DataQueue -----+--> silo:
                                                                 |    listener ->
    WebHub page --api/command--> silo --> command queue of the device   EventProcessorGrain
         ^                                                       |      -> router grains
         +-- SignalR <-- MessagePushGrain <----------------------+
    device page <-- SignalR <-- PushNotifierGrain <--------------+

## 1. Inventory

| component | state | operations | talks to |
|---|---|---|---|
| Queue listener (`RabbitMQMessaging/RabbitMqQueueListener.cs`, `RabbitReceivedMessage.cs`) and its host grain (`EventProcessorHostGrain.cs`, bootstrap `EventProcessorHostProvider.cs`) | a connection, a channel and a consumer per queue; delivery tags at the broker | Start, the Received handler, CompleteAsync (ack), AbandonAsync (nack), silo start and stop | RabbitMQ; issues calls to EventProcessorGrain |
| `EventProcessorGrain` | one activation per queue, its turns | ProcessMessage with four branches | the router grains, CommandListenerGrain |
| Command request and response (`CommandController`, `RequestGrain`, `RabbitMQSenderGrain`, `HubMessageRouterGrain`, `ClientMessageRouterGrain`, `CommandResponseGrain`) | `_resultValue` per message Guid, a polling loop per caller | GetResponse, SendMessage, SetResponseAsync, GetResultAsync | command exchange, MessageQueue |
| Device page and `WebClient` controllers | connection id of the page, queues and bindings | api/QueueStart, api/Response, api/DataPush, messageUpdate | RabbitMQ, SignalR |
| `CommandListenerGrain` | `DeviceMappings` in a blob, listeners in the silo of the activation | OnActivateAsync, StartCommandProcessorHost | blob storage, MessagePushGrain, RabbitMQ |
| `AzureBlobStorage` | one blob with an ETag per grain, `State.Etag` per activation | ReadStateAsync, WriteStateAsync, ClearStateAsync | Azure storage |
| Push hubs (`PushNotifierGrain`, `MessagePushGrain`, the two `SignalRHub`s) | a table of hub connections per stateless worker | SendMessage, NotifyNewDevice, RefreshHubs, AddHub | SignalR |
| SignalR client of the pages (`WebHub/Scripts/jquery.signalR-2.0.1.js`) | connection state, transport, timers, messageId, buffer | start, negotiate, four transports, reconnects, keep alive, ping, stop | the hub of the web application |
| `RabbitMqQueueSender`, `MessageToRabbitMqMessageConvertor` | a connection and a channel per message | Send, Close, Dispose | RabbitMQ |
| `AzureEnvironment` | a double-checked static flag | IsInAzure | RoleEnvironment |
| Silo host (`OrleansHost`), worker role (`OrleansWorker`) | the silo process | arguments, start, stop | Orleans |
| Console programs, logging, grain interfaces and proxies, help pages, other vendored scripts | none that another part reads | | |

What is hard in it, and what makes each part correct:

- *Listener.* The Received handler is an `async void` lambda with two awaits,
  run concurrently for all deliveries. Redelivery after a lost connection, a nack
  or a dead silo overlaps with handlers of the first delivery that still run.
  Correct means: no message is dropped or claimed twice by the broker, none is
  settled before the message action had it, duplicates come only from failures, and
  every published message is settled while somebody listens.
- *Event processor.* It is fed by all silos, a redelivery may find the first delivery
  still at work, and a silo that is wrongly declared dead leaves it with two
  activations. Correct means: one failure alone never has a message worked on twice
  at the same time, and no call hangs for ever.
- *Command round trip.* Callers poll, devices answer through another queue, and
  everything in between may be lost, repeated or late. Correct means: a caller
  gets the answer to its own command or none, it always returns, and a device
  that is on the list has its queue.
- *Command listener and storage.* The provider swallows every exception. Correct
  means: a saved device is not lost except where the code writes without a
  condition, the grain never works on a null dictionary, and a start message
  leads to a listener again after the listeners died.
- *Push hubs.* Every worker has a table of its own, a refresh awaits connections
  that may fail while messages come in between, and a broken connection is started
  by a message and not waited for. Correct means: tables follow the instances of
  the web role, also after failed connections, no hub gets a message twice for one
  delivery, and a hub that serves is connected again.
- *SignalR client.* Timers, sockets and polls of several transports outlive each
  other's attempts. Correct means: messages in order, none twice and none left out
  across fallbacks and reconnects, a reconnect that is limited and always tried
  again, a lost wire that is noticed, and a stop that is final.
- *Sender.* Publishing waits for nobody and Dispose fails on what was never made.
  Correct means: a sender that ended well has its message in the queue, and
  connections are left open only after a failure.
- *Environment flag, silo host.* A flag that is read without its lock must never be
  seen before its value; arguments that were refused must not start a silo.

The hazards are listed one by one, with their lines, in `PROJECT.json`.

## 2. Modules

| module | what it is |
|---|---|
| `MessageHandoff` | abstract: what a listener with manual acknowledgement promises about each message |
| `RabbitMqQueueListener` | one queue, its listeners on any number of silos, and the EventProcessorGrain behind it; implements `MessageHandoff` |
| `RequestReply` | abstract: what the command path promises to a caller |
| `CommandRoundTrip` | registration of devices, GET api/command and the response back; implements `RequestReply` |
| `AzureBlobStorage` | the storage provider, as operators its grain conjoins with its own steps |
| `CommandListener` | the CommandListenerGrain on top of `AzureBlobStorage` |
| `PushHubs` | the stateless workers that push to the hubs, the web role and their connections |
| `PageStream` | abstract: what a connection promises to the page that opened it |
| `SignalRConnection` | the SignalR client of a page; implements `PageStream` |
| `RabbitMqQueueSender` | senders of one message each |
| `AzureEnvironment` | the double-checked flag over the store buffers of x64 |
| `SiloHost` | the console program that hosts a silo |
| `MC*` | model values, symmetry and constants' values for TLC |
| `*_proofs` | the theorems, one module for each state machine |

The modules meet where one part hands over to the next: `CommandRoundTrip` lets a
response take any time and come again, which is what `RabbitMqQueueListener` shows
of the queue it went through; `CommandListener` has the listeners that
`CommandRoundTrip` needs for a command; `PushHubs` takes messages at least once, as
`EventProcessorGrain` issues them; `SignalRConnection` begins with the messages a
hub method sends.

### RabbitMqQueueListener

A delivery is a number; `msg`, `to`, `tag`, `handler` and `call` say which message
it carried, which host grain got it, what the broker knows of its tag, where its
handler stands and what became of the grain call. `Received` is the broker's
delivery together with the synchronous start of the handler; it takes any message
that waits, since the order is the broker's and nothing here depends on it. The
stretches between
the awaits of `ProcessMessage` (RabbitMqQueueListener.cs:181-200) are
`MessageAction`, `CompleteAsync`, `AbandonAsync` and `UnhandledException`. The
message action that the host grain passes in returns from `StartNew` with a nested
task (EventProcessorHostGrain.cs:47-51), so the handler goes on to the ack as soon
as the call is issued: that is why `tag = "acked"` implies only that a call was
issued, and why a call can be `"lost"` with its silo. `Start` is the bootstrap
provider of a silo, which asks a host grain with a fresh Guid for a key; the runtime
puts that grain on any silo that is up. `Stop` is a graceful shutdown: the
deactivation of the host grain leaves its listener attached, and tasks for the
stopped scheduler are never run (`"ignored"`).

`homes` are the silos that Orleans takes to have an activation of the
EventProcessorGrain, and `at` is the silo a call was sent to. `Suspect` has a silo
declared dead that runs: calls of others then go to a new activation on another silo
(`Targets`), while the suspected silo keeps its own, its listeners and its
connections until it reads what it was declared and ends itself (`Exit`). A silo that
really died stays in `homes` until `DetectDeath` or its next start, and calls sent
there in the meantime are lost. Turns are a matter of one activation: `ProcessMessage`
asks that no other call runs at the same silo, and calls at two activations do run at
the same time.

Abstractions: the broker knows at once that a connection is lost or a process gone,
and calls in the outgoing queues of a dead silo may or may not be lost; a call that
fails ends like one that succeeds, since nobody awaits it; the queue exists and is
durable from the start; the queues of one listener are separate instances.

### CommandRoundTrip

A request is a call of GET api/command with its message Guid, and its response grain
has the same name. Queues are sets: order and at-least-once delivery are the subject
of `RabbitMqQueueListener`, of which this module keeps that a message may come again
or be lost at the price of a failure. `PollAt` is one round of the loop in
CommandResponseGrain.cs:66-81: the stopwatch first, then the result. The look at
the result is one step with the await around it, because a result is never reset
while the activation lives. Time is counted in ticks of the 100 ms delay, which may
take longer than one tick; the client's response timeout started at most one tick
before the stopwatch. A correlation id that is no Guid is posted only by a client
that is not the page, and counts as a failure. `CommandLost` is a silo that dies after its
command listener acknowledged (CommandListenerGrain.cs:68-75 returns a nested task,
like the host grain) and before the push.

### AzureBlobStorage and CommandListener

Versions of the blob are numbers and double as ETags; 0 is null. `ReadStateAsync`
and `WriteStateAsync` are formulas about one activation, used as conjuncts of the
grain's actions: the grain awaits them and is not reentrant. `WriteStateAsync` has
the three ways a write ends: written, refused for its ETag, failed (perhaps after
it was done). A refused write is swallowed by the catch at line 146 and leaves the
ETag null (line 165), so the next write has no condition; an error without details
and a failing second upload end in the outer catch, which keeps the ETag.

`CommandListener` has one action for each stretch of `StartCommandProcessorHost`
between awaits. `DeviceMappings` holds null for every device, since the queue name
is computed only after `TryAdd`; it is therefore a set of devices, and the guard at
line 58 never holds a start message back. `Suspect` takes the silo of the activation for
dead while it lives on, which is how there come to be two activations; both may get
calls, one of them through stale directory caches. `pending` is a set: a second start message of the same
device that comes while the first still waits is not told apart from it. The reminder
that OnActivateAsync registers only keeps the grain alive; if its registration fails
the activation is given up, which leaves the same state as `Crash`.

### PushHubs

`MessagePushGrain` and `PushNotifierGrain` have the same table and the same
operations, so one module stands for both. `RefreshHubs` is the part before the
await: dead hubs leave the table, an AddHub is begun for each new one. `AddHub` and
`AddHubThrows` end one of them, `WhenAll` the refresh. An activation one of whose
connections failed is given up with the calls that wait for it; the timer of an
activation that lives is run again. Both grains are reentrant, so `SendMessage` may
come in between. `conn` is the life of the connections a worker holds: a hub that is
not connected is skipped by a message and started. What a connection does when it is
no longer in a table is left out, and so is the flush timer of `PushNotifierGrain`,
which finds its queue always empty. Outside of Azure `instances` is the one local
address of the code, and there is no refresh timer.

### SignalRConnection

The layouts of both web applications load version 2.0.1 of the client from a CDN
(`Views/Shared/_Layout.cshtml:13`); its source is in `WebHub/Scripts`. One action for
each callback, with everything it calls: `stop`, `initialize`,
`onSuccess`, `reconnect` and `ensureReconnectingState` are operators on the timers
because callbacks set and clear them several times in a row. `timers` says how many
of each are set, which matters for the forever frame alone, whose reconnect keeps no
handle. `wire` is the socket, event source, frame or poll; `net` the responses on
their way; `silent` that the keep alive has timed out. Transports that the browser
cannot do have failed at once (`browser`), and a long poll always can. The server
numbers messages: a connect joins at the newest, a reconnect or a poll goes on from
the messageId in its address (`getUrl`). The handlers that the connection binds for
itself run with the events that raise them: the disconnect timeout is set with
reconnecting and cleared with any change out of it, the keep alive stamp is renewed
with reconnected. The pages start their connection once and never again, so `start`
is taken once. Errors that handlers of the page throw are left out. So is the retry
that a browser makes by itself when an event source breaks: by default browsers wait
three seconds or more for it, and the client closes the source two seconds after the
error event and opens one with another address
(jquery.signalR-2.0.1.js:1686-1716). A server that asked for a shorter retry would be
beyond the model.

### RabbitMqQueueSender

A call is one using block around a sender. `Route` is the broker taking what was
written: from the default exchange to the queue of that name, from the command
exchange to a bound queue, or nowhere; a publish to an exchange that is not there
closes the channel. `fate` is where the message is. A close of the channel over a
connection that holds is answered after everything before it, which is all the
confirmation there is. When the constructor fails, `Dispose` fails in turn on the
null model, so callers see a NullReferenceException instead of the
RabbitMQException of RabbitMqQueueSender.cs:59, and a connection whose channel was
refused is left open.

### AzureEnvironment

One action for each read or write of a field. A store waits in the buffer of its
thread (`Flush`) and reaches memory in program order; a lock empties the buffer.
`IsAvailable` answers or throws, as lines 24-32 allow.

### SiloHost

A word of the command line is a switch, a setting or plain. `ParseArguments` is one
turn of the loop over the words: `i` is the next of them and `parsed` holds the local
variables; `ok` becomes false with the first `return false`, which ends the loop. Main
never looks at the result: refused arguments leave no host, and `Init` dies on that.

## 3. Runs

| run | instance | what it shows | distinct states |
|---|---|---|---|
| `listener_safety` | 2 silos, 2 messages, 2 failures, 3 deliveries, 2 starts | the safety of the broker's bookkeeping, and that the listener implements `MessageHandoff` | 4.3 million |
| `listener_liveness` | 2 silos, 1 message, 2 failures, 6 deliveries, 4 starts | redeliveries stay within their account and do not meet before a second failure; calls end; the message is settled, unless no listener is left for good | 1.5 million |
| `round_trip_safety` | 2 requests, 2 devices, 1 failure | own answers, queue before list, `RequestReply` is implemented | 1 million |
| `round_trip_liveness` | 1 request, 1 device, 2 failures | calls return; commands for listed devices are shown | 10 thousand |
| `listening` | 2 activations, 2 devices, 3 start messages, 2 failures | what the storage keeps and forgets; a start message leads to a listener, also after a crash | 158 thousand |
| `push_hubs` | 2 workers, 2 hubs, 1 message, 1 failure, 1 change | tables follow the web role; no second copy; hubs are connected again | 313 thousand |
| `signalr` | 4 kinds of browsers, 3 messages, 4 failures | `PageStream` is implemented; reconnects are limited, tried again and noticed; stop is final; start settles; messages arrive | 150 thousand |
| `queue_sender` | 2 calls, 3 failures | what is sent is queued; connections are closed | 112 thousand |
| `azure_environment` | 3 threads | one question, one answer | 1703 |
| `silo_host` | command lines of up to 4 words | the host is the declared one; refused arguments start nothing | 41 thousand |
| `null_only_when_not_ready` | 1 request, no failure | violated: see the findings | |
| `forwarded_to_all_browsers` | 2 devices, no failure | violated: see the findings | |

Why the bounds are enough. *Listener:* handlers that get at each other's message need
two of them; a second silo is needed for a takeover and for a second activation, and
with two silos a host grain can be placed away from the silo that asked for it.
`MaxDeliveries` is 6 where redeliveries are counted: two failures allow a message five
calls (`DuplicatesBounded`), so there is room for one too many. It is 3 for the safety
of two messages, which is one redelivery of either or, while the other waits, two of
one. `MaxHosts` is 4 in `listener_liveness`, where each silo can come back after it
failed, and 2 in `listener_safety`, which is two silos once or one silo again.
`NeverTwiceAtOnce` ends to hold at the second failure: with one more allowed in its
condition TLC finds a suspected silo and a lost connection that leave a message at
work in two activations. *Round trip:* two requests and two devices let answers and pages be mixed
up. `RetryTicks` of 2 or 3 has a first poll, a poll after a delay, and the end of the
time in between or at a poll. *Command listener:* `MaxVersions` leaves a version for
every write the failures can cause, so no write waits for the bound; two failures is
where `PersistedWasAnnounced` ends to hold (with a third allowed in its condition TLC
finds the failed announcement followed by the failed read). *Push hubs:* two hubs let
one fail while the other is added; a message is used again when nothing of it is
left, so "messages keep coming" is possible; one change lets an instance come or go
for good, and the instances and serving hubs of the start are any. *SignalR:* each
browser has a fallback chain of its own; four failures are two lost connect attempts
and two losses of an open wire; three messages fit before, during and after a loss;
two delays of a forever frame at once is the least number that tells several from
one. *Sender:* each call can lose its connection while it closes. *Silo host:* four
words hold two plain ones, a third, and a setting anywhere between.

All counters are bounded by the guards of the actions; the bounds are the constants
that start with `Max`. In `SignalRConnection`, `MaxTimers` only caps a count that
the code does not keep.

Deadlock is checked where the system never has to stop (`azure_environment`,
`push_hubs`). Elsewhere it is not: pages, publishers and programs may stop, and then
nothing is left to do.

Fairness. Weak fairness of everything that the thread pool, a grain scheduler, the
broker or a timer runs once it is enabled; none for users (publishing, opening or
closing pages, asking), for failures, for a silo being suspected, or for Orleans learning of a dead one.
`WF(Exit)` says that a suspected silo finds out and ends.
`WF(Start)` says that a silo that is down is started again: a worker role is
restarted by Azure, a console silo by its operator, and host grains are bounded by
`MaxHosts`, so it is not a promise of endless restarts. `WF(RecoverConnection)` is
the automatic recovery of the RabbitMQ client. Strong fairness is assumed in one
place, `StartCommandProcessorHost`: the requests of a grain are taken in the order
they came, so none is passed over for ever by other devices. In `PushHubs` the
refresh timer of a worker is run, each connection attempt ends in one way or the
other, and a call gets a worker; no instance has to come up or serve. In
`SignalRConnection` timers that are set fire, negotiate and polls are answered or
fail, a server with messages sends them, and a dead wire is silent for as long as
it takes to see it; no wire has to open. The properties say what excuses them:
`EveryMessageSettled` that no listener is left for good, `EveryCommandShown` that
something failed or the page closed, `EveryStartListened` that something failed after
the message was sent, `TablesConverge` and `MessagesWakeHubs` that the instance comes
and goes for ever, `StartSettles` that the server disconnected the page before it was
connected, `MessagesArrive` that the connection is over or its poll is dead.

Findings.

- `null_only_when_not_ready`: the polling loop sleeps 100 ms after its last look and
  then leaves on the stopwatch alone (CommandResponseGrain.cs:66, 80), so a response
  that arrived during that sleep is dropped and the caller gets null with the log
  line "Premature retrieval of result!! result NOT READY" (line 84).
- `forwarded_to_all_browsers`: WebClient's SignalRHub.cs:12 says "Forward a single
  messages to all browsers", and line 14 sends to the one client whose connection id
  is the device. The code is what the command path needs; the comment is left over
  from the hub of the WebHub.

Three more disagreements between code and text are modelled as the code has them,
without a run of their own:

- Program.cs:22 says "once the previous call returns, the silo is up and running";
  lines 41-44 report a silo that did not start and return all the same (`Run`).
- The usage text of OrleansHostWrapper.cs:160 offers `[/debug]`, which lines 101-103
  refuse like any other switch.
- jquery.signalR-2.0.1.js:1636 says not to keep retrying while the event source "is
  attempting to connect"; line 1638 retries whenever it is not open (`SseTimer`).
  After a stop there is no event source, and the callback throws.

## 4. Proofs

All theorems are of the form `Spec => ...`, for any sets of silos, requests,
devices and activations and any bounds, under the named assumptions of the modules
only: bounds are naturals, and the values that stand for "none" are not in the sets
they are told apart from.

**Listener** (`RabbitMqQueueListener_proofs`). Theorems `TypeCorrect`, `Handover`,
`NothingDropped`, `OneWorker`, `RedeliveriesPaid`, `ExactlyOnce` and
`Implementation`. None of these is inductive alone. `Bookkeeping` says that the deliveries in use are
1..`delivered` and that connections and running handlers belong to placed host grains;
`ActionRan` ties the ack to the call through the handler; `Placement` says where host
grains and open calls can be, and that of the silos that run and are not suspected one
at most has an activation; `Undisturbed` describes the system before its first failure,
and also after a first failure that was a suspicion, as long as the suspected silo runs
(`Calm`): all is connected, and nothing was taken back, failed or lost (`Peace`).
`FailureFreeExactlyOnce` follows from it, and so does `SameActivation`, for
`OneWorker`: a second activation needs a suspected silo, a second delivery of a message
needs something that was taken back, and one failure cannot have caused both.
`TurnByTurn` is the rest. `DuplicatesBounded` is a matter of accounts
(`ReturnsPaid`): of one message, the deliveries that the broker took back, those whose
handler is about to give theirs back (`Owed`), and the silos that an earlier failure
takes down later (`Doomed`) are together at most twice the failures. It needs
`Connected`, because only a connection that is open has something to give back. The
layers are proved one on top of the other. The
refinement maps each step to a step of `MessageHandoff`, with a return of a set of
messages when a silo or a connection goes.

**Round trip** (`CommandRoundTrip_proofs`). Theorems `TypeCorrect`, `OwnAnswer`,
`QueueBeforeList` and `Implementation`. The invariant is one of
truthfulness: a response on its way, and a result in a grain, names a command that
the page of its device showed (`ResponsesTruthful`, `ResultsTruthful`); commands are
about requests that were made (`Asked`); announced devices are bound
(`BoundInTime`).

**Command listener** (`CommandListener_proofs`). Theorems `TypeCorrect`,
`DictionaryThere`, `ListenersPersisted`, `AnnouncedBeforeSaved` and
`NothingForgotten`. The heart is
`EtagSeen`: an activation whose ETag is that of the blob has every device of the
blob. It survives because an activation's mappings only grow between reads, a write
by somebody else changes the ETag, and a failed write leaves an old ETag or none.
`BlobContained` (no blob without its container) and `Healthy` (before the first
failure there is one activation, in step with the blob) complete it. For
`PersistedWasAnnounced`, `UntoldOnlyIdle` says what a single failure can leave: a
device in State that the push hub was not told of is in an activation that waits for
its next call, and there is a blob. That call reads the blob before it writes, unless
the read is a second failure.

**Push hubs** (`PushHubs_proofs`). Theorems `TypeCorrect`, `TablesFollowRefresh` and
`CopiesBounded`. `AddingAwaited` says that connections are being added only while an
activation or a refresh waits for them, and `PendingCopies` that a message still
waiting was tried once for each time it is to come again.

**SignalR client** (`SignalRConnection_proofs`). Theorems `ReconnectLimited`,
`LossWatched`, `TriesAgain`, `StaysDisconnected`, `StreamOfThePage`, `ShownInOrder`
and `TypeCorrect`. The invariant describes which
timers and wires can be there in each stage: nothing before the start (`Unstarted`),
only harmless leftovers after the end (`Idle`, `LateTimers`), one attempt while
connecting (`Attempt`), a poll or its timer (`LongPolling`), and on a streaming wire
(`OnWire`) the keep alive (`Watched`) and the next try (`Tried`), which has to be
stated while a wire is opening too. `Greeting` keeps a late "initialized" from
starting a connection twice. The refinement of `PageStream` adds where the page
stands in the stream: `OneStream` says that the responses on a wire join without a
gap, from the first number (`Reached`) to the server's position, and `Taken` that a
started connection has taken the messages up to there, and that what it buffered
before is older. `ShownInOrder` is then a consequence of the abstract specification
alone (`OrderInv`): its proof looks at no action of the client.

**Sender** (`RabbitMqQueueSender_proofs`). Theorems `TypeCorrect`,
`SendWaitsForBroker` and `ConnectionsClosed`. Per call: what a sender holds at each
step, what is so while its connection was not disturbed, that routes stay, and which
endings leave a connection.

**Environment** (`AzureEnvironment_proofs`). Theorems `TypeCorrect`, `SameAnswer` and
`OneQuestion`. `LockHeld` is mutual exclusion; `Buffers` says that only the holder of
the lock has stores on their way, the value before the flag; `ValueFirst` that the
value is in memory when the flag is; `Asking` that the first question is the last.

**Silo host** (`SiloHost_proofs`). Theorems `TypeCorrect`, `DeclaredHost` and
`NoSiloOnRefusal`, for command lines of any length. `WordsSoFar` is the invariant of
the loop: the locals are what the words before `i` declare, in the terms of
`HostAsDeclared`; `HostOfAllWords` says that a host was made after the last word.

Only model-checked: the properties of the two runs that end in a violation, and
everything about liveness (`EveryMessageSettled`, `EveryCallEnds`,
`EveryRequestReturns`, `EveryCommandShown`, `EveryStartListened`, `TablesConverge`,
`MessagesWakeHubs`, `StartSettles`, `MessagesArrive`), since neither fairness nor
ENABLED is in reach of the prover. Every safety invariant, action property and
refinement that a passing run checks is also a theorem.

## 5. Plan

Done, in this order: the listener, the round trip, the command listener with its
storage, the environment flag, the push hubs, the silo host, the sender, and the
SignalR client.

What would come next:

1. The processor queue of MessageQueue composed with the round trip, for the time
   that responses wait behind the start of a listener; today the round trip allows
   any such delay.
2. The conversion of message headers there and back.

## 6. Not modelled

- `Scripts/jquery-1.10.2.js` with its intellisense file, `bootstrap.js`,
  `modernizr-2.6.2.js` and `respond.js`, each in both web applications: libraries for
  the DOM, for style and for editors, larger than everything else here together.
  Nothing of this system's behaviour is in them; what the SignalR client needs of
  jQuery, events that run their handlers in order and requests that succeed or fail,
  is in `SignalRConnection`. `WebClient/Scripts/jquery.signalR-2.2.1.js` is a later
  version that no page loads.
- In the SignalR client: `send`, hub proxies and hub invocations, cross-domain and
  JSONP requests, `LongPollDelay`, the check of the protocol version, groups, and the
  spinner of Internet Explorer.
- `EventProcessor.cs`, `QueueStarter.RegisterQueue`, `SubscribeForNewDevice`,
  `ClearStateAsync`, `OrleansHostWrapper.Stop` and `PushNotifierGrain.Flush` on a
  filled queue, which nothing calls or nothing can reach.
- Failures of the storage provider's Init, which keep the silo from starting; the
  worker role beyond starting and stopping a silo.
- The console programs `MessageReceiver` and `MessageSender`, which are tests by hand.
- Formatting, logging and views; the generated Orleans proxies; the content of
  messages beyond their ids. Membership and directory of Orleans, RabbitMQ, the
  SignalR server and its .NET client, Azure storage and roles are modelled only by
  what the code relies on, and are marked external in `PROJECT.json`.
