--------------------------- MODULE CommandRoundTrip ---------------------------
(***************************************************************************)
(* A command from the WebHub to a device page of the WebClient and back.   *)
(*                                                                         *)
(* The page registers a device: POST api/QueueStart creates and binds the  *)
(* device's command queue, then sends a start message; the                 *)
(* CommandListenerGrain announces the device to the WebHub pages and then  *)
(* starts a listener on the queue.  GET api/command publishes the command  *)
(* under a fresh Guid and then polls the CommandResponseGrain of that Guid *)
(* until somebody has set its result or its time is up.  The listener's    *)
(* EventProcessorGrain pushes the command through the PushNotifierGrain    *)
(* and the WebClient's SignalR hub to the page, which posts a response;    *)
(* the response comes back through MessageQueue to the CommandResponseGrain *)
(* its correlation id names.                                               *)
(*                                                                         *)
(* The queues are sets here: their order and their at-least-once delivery  *)
(* are the subject of RabbitMqQueueListener, of which this module keeps    *)
(* that a message may be delivered again or lost at the price of a failure. *)
(***************************************************************************)
EXTENDS Naturals

CONSTANTS
    Requests,       \* GET api/command calls, each with its fresh message Guid
    Devices,        \* device pages, each with its SignalR connection id
    NoDevice,       \* "no device asked yet"
    Garbled,        \* a correlation id that is no Guid
    GuidEmpty,      \* the key of the response grain such an id leads to
    NoAnswer,       \* _resultValue = null
    RetryTicks,     \* RetryMillSeconds, in ticks
    MaxFailures     \* bound: everything that goes wrong

ASSUME RoundTripAssumption ==
    /\ RetryTicks \in Nat \ {0}
    /\ MaxFailures \in Nat
    /\ NoDevice \notin Devices
    /\ Garbled \notin Requests
    /\ GuidEmpty \notin Requests

VARIABLES
    page,         \* device -> its browser page
    setup,        \* device -> how far its registration got
    bound,        \* the devices whose command queue is bound
    known,        \* the devices announced on the WebHub pages
    hub,          \* the PushNotifierGrain's connection to the WebClient hub
    caller,       \* request -> where its HTTP call stands
    device,       \* request -> the device it asks
    elapsed,      \* request -> ticks on the stopwatch of GetResultAsync
    answer,       \* request -> the response its caller got
    commands,     \* the commands in the queues of their devices
    pushed,       \* the commands on their way through the hub
    shown,        \* <<request, device>>: the pages that showed the command
    posts,        \* responses on their way to the ResponseController
    responses,    \* responses in MessageQueue
    resultValue,  \* response grain -> the response it holds
    failures      \* failures that happened so far

pageVars   == <<page, setup, bound, known>>
callVars   == <<caller, device, elapsed, answer>>
pushVars   == <<hub, commands, pushed>>
deviceVars == <<shown, posts>>
replyVars  == <<responses, resultValue>>
vars == <<pageVars, callVars, pushVars, deviceVars, replyVars, failures>>

Responses == [id : Requests \cup {Garbled}, by : Devices]
Grains    == Requests \cup {GuidEmpty}
Setups    == {"none", "posted", "bound", "queued", "announced", "listening", "lost"}
Callers   == {"none", "asking", "published", "delaying",
              "answered", "empty", "timedout", "failed"}

\* Guid.TryParse leaves the default value when it fails.
TryParse(id) == IF id \in Requests THEN id ELSE GuidEmpty

Fail ==
    /\ failures < MaxFailures
    /\ failures' = failures + 1

Init ==
    /\ page = [d \in Devices |-> "closed"]
    /\ setup = [d \in Devices |-> "none"]
    /\ bound = {}
    /\ known = {}
    /\ hub = "up"
    /\ caller = [r \in Requests |-> "none"]
    /\ device = [r \in Requests |-> NoDevice]
    /\ elapsed = [r \in Requests |-> 0]
    /\ answer = [r \in Requests |-> NoAnswer]
    /\ commands = {}
    /\ pushed = {}
    /\ shown = {}
    /\ posts = {}
    /\ responses = {}
    /\ resultValue = [g \in Grains |-> NoAnswer]
    /\ failures = 0

(***************************************************************************)
(* A device registers.                                                     *)
(***************************************************************************)
SetUp(d, from, next) ==
    /\ setup[d] = from
    /\ setup' = [setup EXCEPT ![d] = next]

\* hub.start().done: the page knows its id and posts api/QueueStart.
HubStart(d) ==
    /\ page[d] = "closed"
    /\ page' = [page EXCEPT ![d] = "open"]
    /\ SetUp(d, "none", "posted")
    /\ UNCHANGED <<bound, known, callVars, pushVars, deviceVars, replyVars, failures>>

\* A page that is loaded again gets another connection id.
PageCloses(d) ==
    /\ page[d] = "open"
    /\ page' = [page EXCEPT ![d] = "gone"]
    /\ UNCHANGED <<setup, bound, known, callVars, pushVars, deviceVars, replyVars,
                   failures>>

\* Mutant: the start message goes out although the queue is created elsewhere.
CreateQueueUnbound(d) ==
    /\ SetUp(d, "posted", "bound")
    /\ UNCHANGED <<page, bound, known, callVars, pushVars, deviceVars, replyVars,
                   failures>>

CreateQueue(d) ==
    /\ SetUp(d, "posted", "bound")
    /\ bound' = bound \cup {d}
    /\ UNCHANGED <<page, known, callVars, pushVars, deviceVars, replyVars, failures>>

SendStart(d) ==
    /\ SetUp(d, "bound", "queued")
    /\ UNCHANGED <<page, bound, known, callVars, pushVars, deviceVars, replyVars,
                   failures>>

\* CreateQueue, the sender or the start message fails: the page does not retry.
QueueStartFails(d) ==
    /\ Fail
    /\ \E from \in {"posted", "bound", "queued"} : SetUp(d, from, "lost")
    /\ UNCHANGED <<page, bound, known, callVars, pushVars, deviceVars, replyVars>>

\* NotifyNewDevice reaches the WebHub pages unless their hub is not connected.
StartCommandProcessorHost(d) ==
    /\ SetUp(d, "queued", "announced")
    /\ known' \in {known, known \cup {d}}
    /\ UNCHANGED <<page, bound, callVars, pushVars, deviceVars, replyVars, failures>>

StartListener(d) ==
    /\ SetUp(d, "announced", "listening")
    /\ UNCHANGED <<page, bound, known, callVars, pushVars, deviceVars, replyVars,
                   failures>>

\* The start of the listener fails, or the silo of the one CommandListenerGrain
\* dies: its next activation starts none of the listeners again.
ListenersLost ==
    /\ Fail
    /\ \E lost \in SUBSET {d \in Devices : setup[d] \in {"announced", "listening"}} :
          /\ \/ lost = {d \in Devices : setup[d] \in {"announced", "listening"}}
             \/ \E d \in lost : setup[d] = "announced" /\ lost = {d}
          /\ setup' = [d \in Devices |-> IF d \in lost THEN "lost" ELSE setup[d]]
    /\ UNCHANGED <<page, bound, known, callVars, pushVars, deviceVars, replyVars>>

(***************************************************************************)
(* The caller.                                                             *)
(***************************************************************************)
GetResponse(r, d) ==
    /\ caller[r] = "none"
    /\ caller' = [caller EXCEPT ![r] = "asking"]
    /\ device' = [device EXCEPT ![r] = d]
    /\ UNCHANGED <<elapsed, answer, pageVars, pushVars, deviceVars, replyVars, failures>>

\* The exchange drops a command no queue is bound for.
Routed(r) == IF device[r] \in bound THEN commands \cup {r} ELSE commands

RequestForResponse(r) ==
    /\ caller[r] = "asking"
    /\ caller' = [caller EXCEPT ![r] = "published"]
    /\ commands' = Routed(r)
    /\ UNCHANGED <<device, elapsed, answer, hub, pushed, pageVars, deviceVars,
                   replyVars, failures>>

\* The sender throws, or the call fails or times out after the command is out.
RequestFails(r) ==
    /\ Fail
    /\ caller[r] = "asking"
    /\ caller' = [caller EXCEPT ![r] = "failed"]
    /\ commands' \in {commands, Routed(r)}
    /\ UNCHANGED <<device, elapsed, answer, hub, pushed, pageVars, deviceVars, replyVars>>

\* Mutant: the caller gets the header instead of the message.
PollAtHeader(r, time) ==
    /\ elapsed' = [elapsed EXCEPT ![r] = time]
    /\ resultValue[r] # NoAnswer
    /\ caller' = [caller EXCEPT ![r] = "answered"]
    /\ answer' = [answer EXCEPT ![r] = resultValue[r].id]
    /\ UNCHANGED <<device, pageVars, pushVars, deviceVars, replyVars, failures>>

\* One round of the polling loop: the stopwatch, then IsCompleteAsync.
PollAt(r, time) ==
    /\ elapsed' = [elapsed EXCEPT ![r] = time]
    /\ IF time >= RetryTicks
         THEN /\ caller' = [caller EXCEPT ![r] = "empty"]
              /\ UNCHANGED answer
       ELSE IF resultValue[r] # NoAnswer
         THEN /\ caller' = [caller EXCEPT ![r] = "answered"]
              /\ answer' = [answer EXCEPT ![r] = resultValue[r]]
       ELSE /\ caller' = [caller EXCEPT ![r] = "delaying"]
            /\ UNCHANGED answer
    /\ UNCHANGED <<device, pageVars, pushVars, deviceVars, replyVars, failures>>

GetResultAsync(r) ==
    /\ caller[r] = "published"
    /\ PollAt(r, 0)

\* Mutant: the stopwatch is started anew for every round.
WakesForever(r) ==
    /\ caller[r] = "delaying"
    /\ PollAt(r, 0)

\* Task.Delay takes at least its 100 milliseconds.
Wakes(r) ==
    /\ caller[r] = "delaying"
    /\ \E time \in (elapsed[r] + 1)..RetryTicks : PollAt(r, time)

\* The client's ResponseTimeout of 30 seconds started at most a tick earlier.
ClientTimeout(r) ==
    /\ caller[r] = "delaying"
    /\ elapsed[r] + 1 >= RetryTicks
    /\ caller' = [caller EXCEPT ![r] = "timedout"]
    /\ UNCHANGED <<device, elapsed, answer, pageVars, pushVars, deviceVars, replyVars,
                   failures>>

(***************************************************************************)
(* The command on its way to the page.                                     *)
(***************************************************************************)
\* The EventProcessorGrain of the command queue hands the command down to the
\* PushNotifierGrain.  A connection that is down is started, not waited for.
RouteMessageToClient(r) ==
    /\ r \in commands
    /\ setup[device[r]] = "listening"
    /\ \/ /\ commands' = commands \ {r}
          /\ UNCHANGED failures
       \/ /\ Fail               \* delivered again later
          /\ UNCHANGED commands
    /\ IF hub = "up" THEN pushed' = pushed \cup {r} /\ UNCHANGED hub
                     ELSE hub' = "starting" /\ UNCHANGED pushed
    /\ UNCHANGED <<pageVars, callVars, deviceVars, replyVars>>

\* The silo dies between the acknowledgement and the push.
CommandLost(r) ==
    /\ Fail
    /\ r \in commands
    /\ setup[device[r]] = "listening"
    /\ commands' = commands \ {r}
    /\ UNCHANGED <<hub, pushed, pageVars, callVars, deviceVars, replyVars>>

HubDown ==
    /\ Fail
    /\ hub = "up"
    /\ hub' = "down"
    /\ UNCHANGED <<commands, pushed, pageVars, callVars, deviceVars, replyVars>>

HubUp ==
    /\ hub = "starting"
    /\ hub' = "up"
    /\ UNCHANGED <<commands, pushed, pageVars, callVars, deviceVars, replyVars, failures>>

\* What the page does in messageUpdate: show the command, post the response.
Shows(r, pages) ==
    /\ shown' = shown \cup ({r} \X pages)
    /\ posts' = posts \cup {[id |-> r, by |-> d] : d \in pages}

\* The hub forwards to the one client whose connection id is the device id.
MessageUpdate(r) ==
    /\ r \in pushed
    /\ pushed' = pushed \ {r}
    /\ Shows(r, {d \in Devices : page[d] = "open" /\ d = device[r]})
    /\ UNCHANGED <<hub, commands, pageVars, callVars, replyVars, failures>>

(***************************************************************************)
(* The response on its way back.                                           *)
(***************************************************************************)
\* The controller takes any messageId there is.
PostGarbled(d) ==
    /\ Fail
    /\ page[d] = "open"
    /\ posts' = posts \cup {[id |-> Garbled, by |-> d]}
    /\ UNCHANGED <<shown, pageVars, callVars, pushVars, replyVars>>

PostAsync(p) ==
    /\ p \in posts
    /\ posts' = posts \ {p}
    /\ responses' = responses \cup {p}
    /\ UNCHANGED <<shown, resultValue, pageVars, callVars, pushVars, failures>>

PostFails(p) ==
    /\ Fail
    /\ p \in posts
    /\ posts' = posts \ {p}
    /\ UNCHANGED <<shown, pageVars, callVars, pushVars, replyVars>>

\* Mutant: the response is handed to every request that waits.
RouteMessageToAnyone(p) ==
    /\ p \in responses
    /\ responses' = responses \ {p}
    /\ resultValue' = [g \in Grains |->
                         IF g \in Requests /\ caller[g] = "delaying"
                         THEN p ELSE resultValue[g]]
    /\ UNCHANGED <<pageVars, callVars, pushVars, deviceVars, failures>>

\* SetResponseAsync of the grain the correlation id names, and of Guid.Empty
\* when it names none: the error is logged and the routing goes on.
RouteMessageToHub(p) ==
    /\ p \in responses
    /\ \/ /\ responses' = responses \ {p}
          /\ UNCHANGED failures
       \/ /\ Fail               \* delivered again later
          /\ UNCHANGED responses
    /\ resultValue' = [resultValue EXCEPT ![TryParse(p.id)] = p]
    /\ UNCHANGED <<pageVars, callVars, pushVars, deviceVars>>

ResponseLost(p) ==
    /\ Fail
    /\ p \in responses
    /\ responses' = responses \ {p}
    /\ UNCHANGED <<resultValue, pageVars, callVars, pushVars, deviceVars>>

\* The silo of a CommandResponseGrain dies, with its result and its callers.
ResponseGrainLost(g) ==
    /\ Fail
    /\ resultValue' = [resultValue EXCEPT ![g] = NoAnswer]
    /\ caller' = [r \in Requests |->
                    IF r = g /\ caller[r] = "delaying" THEN "failed" ELSE caller[r]]
    /\ UNCHANGED <<device, elapsed, answer, responses, pageVars, pushVars, deviceVars>>

Next ==
    \/ ListenersLost \/ HubDown \/ HubUp
    \/ \E d \in Devices :
          \/ HubStart(d) \/ PageCloses(d)
          \/ CreateQueue(d) \/ SendStart(d) \/ QueueStartFails(d)
          \/ StartCommandProcessorHost(d) \/ StartListener(d)
          \/ PostGarbled(d)
    \/ \E r \in Requests :
          \/ \E d \in Devices : GetResponse(r, d)
          \/ RequestForResponse(r) \/ RequestFails(r)
          \/ GetResultAsync(r) \/ Wakes(r) \/ ClientTimeout(r)
          \/ RouteMessageToClient(r) \/ CommandLost(r) \/ MessageUpdate(r)
    \/ \E p \in Responses : PostAsync(p) \/ PostFails(p)
                            \/ RouteMessageToHub(p) \/ ResponseLost(p)
    \/ \E g \in Grains : ResponseGrainLost(g)

Spec == Init /\ [][Next]_vars

\* Everything runs on thread pools and grain schedulers; timers fire.
Fairness ==
    /\ WF_vars(HubUp)
    /\ \A d \in Devices : WF_vars(CreateQueue(d)) /\ WF_vars(SendStart(d))
                          /\ WF_vars(StartCommandProcessorHost(d))
                          /\ WF_vars(StartListener(d))
    /\ \A r \in Requests : WF_vars(RequestForResponse(r)) /\ WF_vars(GetResultAsync(r))
                           /\ WF_vars(Wakes(r))
                           /\ WF_vars(RouteMessageToClient(r))
                           /\ WF_vars(MessageUpdate(r))
    /\ \A p \in Responses : WF_vars(PostAsync(p)) /\ WF_vars(RouteMessageToHub(p))

FairSpec == Spec /\ Fairness

(***************************************************************************)
(* Properties.                                                             *)
(***************************************************************************)
Returned == {"answered", "empty", "timedout", "failed"}

\* Every variable keeps its type.
TypeOK ==
    /\ page \in [Devices -> {"closed", "open", "gone"}]
    /\ setup \in [Devices -> Setups]
    /\ bound \in SUBSET Devices
    /\ known \in SUBSET Devices
    /\ hub \in {"up", "down", "starting"}
    /\ caller \in [Requests -> Callers]
    /\ device \in [Requests -> Devices \cup {NoDevice}]
    /\ elapsed \in [Requests -> 0..RetryTicks]
    /\ answer \in [Requests -> Responses \cup {NoAnswer}]
    /\ commands \in SUBSET Requests
    /\ pushed \in SUBSET Requests
    /\ shown \in SUBSET (Requests \X Devices)
    /\ posts \in SUBSET Responses
    /\ responses \in SUBSET Responses
    /\ resultValue \in [Grains -> Responses \cup {NoAnswer}]
    /\ failures \in 0..MaxFailures

\* Whatever is lost, repeated or garbled on the way, the answer a caller of
\* GetResponse gets is the response to its own command, posted by the page of
\* the device it asked, which showed that command.
AnswersOwnRequest ==
    \A r \in Requests : caller[r] = "answered" =>
        /\ answer[r] = [id |-> r, by |-> device[r]]
        /\ <<r, device[r]>> \in shown

\* NotifyNewDevice comes after CreateQueue: a WebHub page that picks a device
\* from its list never has its command dropped by the exchange, although no
\* listener may have started yet.
KnownDeviceHasQueue ==
    [][\A r \in Requests :
           caller[r] = "asking" /\ caller'[r] = "published" /\ device[r] \in known
               => r \in commands']_vars

\* A call of GetResponse returns, with an answer, with none or with an error.
EveryRequestReturns ==
    \A r \in Requests : caller[r] # "none" ~> caller[r] \in Returned

\* A command asked of a device on the list is shown by its page in the end,
\* maybe after its caller was sent away, unless the page closes or something fails.
EveryCommandShown ==
    \A r \in Requests, d \in Devices :
        (caller[r] = "asking" /\ device[r] = d /\ d \in known)
            ~> (<<r, d>> \in shown \/ page[d] = "gone" \/ failures > 0)

\* "Premature retrieval of result!! result NOT READY": GetResultAsync returns
\* nothing only while the grain holds no result.
NullOnlyWhenNotReady ==
    [][\A r \in Requests : caller[r] # "empty" /\ caller'[r] = "empty"
           => resultValue[r] = NoAnswer]_vars

\* "Forward a single messages to all browsers": a message shown to one page is
\* shown to every open page.
ForwardedToAllBrowsers ==
    [][\A r \in Requests, d, e \in Devices :
           <<r, d>> \in shown' \ shown /\ page[e] = "open" => <<r, e>> \in shown']_vars

(***************************************************************************)
(* Refinement: what the command path promises.                             *)
(***************************************************************************)
Outcome(r) ==
    IF caller[r] = "none" THEN "idle"
    ELSE IF caller[r] = "answered" THEN "answered"
    ELSE IF caller[r] \in Returned THEN "unanswered"
    ELSE "waiting"

AnswerOf(r) == IF caller[r] = "answered" THEN answer[r].id ELSE NoAnswer

Reply == INSTANCE RequestReply WITH
    Nobody <- NoAnswer,
    outcome <- [r \in Requests |-> Outcome(r)],
    answers <- [r \in Requests |-> AnswerOf(r)],
    executed <- {r \in Requests : <<r, device[r]>> \in shown}

\* The command path implements the request and reply it promises.
ImplementsReply == Reply!Spec

===============================================================================
