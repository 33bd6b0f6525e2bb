--------------------------- MODULE SignalRConnection ---------------------------
(***************************************************************************)
(* The SignalR connection of a page: $.connection.hub of jquery.signalR    *)
(* 2.0.1, as the pages of WebHub and WebClient use it.  They start it once, *)
(* when the document is ready, and never again; the unload of the page     *)
(* stops it.                                                               *)
(*                                                                         *)
(* JavaScript runs one callback after the other, so each callback (of a    *)
(* timer, a socket, an XMLHttpRequest, the page) is one action, with all   *)
(* that it calls.  Timers have no length here: one that is set may fire at *)
(* any time, in any order.                                                 *)
(*                                                                         *)
(* The server is external: it numbers the messages for this page, and      *)
(* answers a connect from the newest message on, a reconnect or a poll     *)
(* from the messageId in its address on.  It sends keep alives.  Left out: *)
(* calls of hub methods, which no page makes; a LongPollDelay and another  *)
(* protocol version, which no server of this system answers with.          *)
(***************************************************************************)
EXTENDS Integers, Sequences

CONSTANTS
    Browsers,       \* sets of the transports that a browser and its server can do
    None,           \* no transport, no message id
    MaxMessages,    \* bound: messages for this page
    MaxTimers,      \* bound: timers of a forever frame at once
    MaxFailures     \* bound: everything that goes wrong

Transports == {"webSockets", "serverSentEvents", "foreverFrame", "longPolling"}

ASSUME SignalRAssumption ==
    /\ Browsers \subseteq SUBSET Transports
    /\ \A b \in Browsers : "longPolling" \in b
    /\ None \notin Nat \cup Transports
    /\ MaxMessages \in Nat
    /\ MaxTimers \in Nat \ {0}
    /\ MaxFailures \in Nat

VARIABLES
    browser,        \* the transports that do not fail at once
    loaded,         \* _pageLoaded
    state,          \* connection.state
    deferral,       \* the promise of start()
    negotiating,    \* the negotiate request is on its way
    transport,      \* connection.transport
    untried,        \* the transports after it
    wire,           \* its socket, event source, frame or poll
    net,            \* responses on their way to the page
    position,       \* number of the last message the server put on the wire
    greeted,        \* whether the server has sent "initialized" on the wire
    timers,         \* timer -> how many of it are set
    monitoring,     \* keepAliveData.monitoring
    silent,         \* the keep alive has timed out
    messageId,      \* connection.messageId
    buffer,         \* connectingMessageBuffer
    shown,          \* messages the page was given
    published,      \* number of the newest message
    failures        \* failures so far

startVars == <<browser, loaded, deferral, negotiating, untried>>
wireVars  == <<wire, net, position, greeted>>
dataVars  == <<messageId, buffer, shown>>
envVars   == <<published, failures>>
vars == <<startVars, state, transport, wireVars, timers, monitoring, silent, dataVars,
          envVars>>

States == {"disconnected", "connecting", "connected", "reconnecting"}
Wires  == {"none", "opening", "open", "broken", "dead", "closed", "polling"}
Timers == {"connect", "reconnect", "sse", "frame", "disconnect", "check", "poll",
           "fireReconnected", "ping"}
Frames == [type : {"initialized", "messages", "disconnect"},
           from : 0..MaxMessages, upTo : 0..MaxMessages]

Streaming == transport \in Transports \ {"longPolling"}

Init ==
    /\ browser \in Browsers
    /\ loaded = FALSE
    /\ state = "disconnected"
    /\ deferral = "none"
    /\ negotiating = FALSE
    /\ transport = None
    /\ untried = <<>>
    /\ wire = "none"
    /\ net = <<>>
    /\ position = 0
    /\ greeted = FALSE
    /\ timers = [t \in Timers |-> 0]
    /\ monitoring = FALSE
    /\ silent = FALSE
    /\ messageId = None
    /\ buffer = <<>>
    /\ shown = <<>>
    /\ published = 0
    /\ failures = 0

Fail ==
    /\ failures < MaxFailures
    /\ failures' = failures + 1
    /\ UNCHANGED published

setTimeout(ts, t) == [ts EXCEPT ![t] = 1]
clearTimeout(ts, cleared) == [t \in Timers |-> IF t \in cleared THEN 0 ELSE ts[t]]

(***************************************************************************)
(* stop.                                                                   *)
(***************************************************************************)

\* The timers that the stop of a transport clears.
OwnTimers(t) ==
    CASE t \in {"webSockets", "serverSentEvents"} -> {"reconnect"}
      [] t = "longPolling"                        -> {"poll", "fireReconnected"}
      [] OTHER                                    -> {}

\* Mutant: the transport is not stopped.
stopLeavesWire ==
    /\ state' = "disconnected"
    /\ transport' = None
    /\ timers' = clearTimeout(timers, {"connect", "ping", "disconnect"}
                                      \cup OwnTimers(transport))
    /\ monitoring' = FALSE
    /\ messageId' = None
    /\ buffer' = <<>>
    /\ negotiating' = FALSE
    /\ UNCHANGED <<wire, net, position, greeted, silent, shown, browser, loaded, untried>>

\* Left behind are the three seconds of the event source, the delay of the forever
\* frame and the next look at the keep alive.  The disconnect timeout is cleared by
\* the handler of stateChanged.
stop ==
    /\ state' = "disconnected"
    /\ transport' = None
    /\ wire' = "none"
    /\ net' = <<>>
    /\ timers' = clearTimeout(timers, {"connect", "ping", "disconnect"}
                                      \cup OwnTimers(transport))
    /\ monitoring' = FALSE
    /\ messageId' = None
    /\ buffer' = <<>>
    /\ negotiating' = FALSE
    /\ UNCHANGED <<position, greeted, silent, shown, browser, loaded, untried>>

(***************************************************************************)
(* start, negotiate and initialize.                                        *)
(***************************************************************************)

negotiate ==
    /\ state' = "connecting"
    /\ negotiating' = TRUE

\* The document is ready.  Before the page is loaded, the start waits for that.
start ==
    /\ deferral = "none"
    /\ deferral' = "pending"
    /\ IF loaded THEN negotiate ELSE UNCHANGED <<state, negotiating>>
    /\ UNCHANGED <<browser, loaded, untried, transport, wireVars, timers, monitoring, silent,
                   dataVars, envVars>>

load ==
    /\ ~loaded
    /\ loaded' = TRUE
    /\ IF deferral = "pending" THEN negotiate ELSE UNCHANGED <<state, negotiating>>
    /\ UNCHANGED <<browser, deferral, untried, transport, wireVars, timers, monitoring, silent,
                   dataVars, envVars>>

\* Mutant: the timeout of the connect attempt is not set.
initializeUntimed(transports, stopped) ==
    IF transports = <<>>
      THEN deferral' = "rejected" /\ stop
      ELSE /\ transport' = Head(transports)
           /\ untried' = Tail(transports)
           /\ net' = <<>>
           /\ greeted' = FALSE
           /\ IF Head(transports) = "longPolling"
                THEN /\ timers' = setTimeout(stopped, "poll")
                     /\ messageId' = None
                     /\ wire' = "none"
                ELSE /\ timers' = stopped
                     /\ wire' = "opening"
                     /\ UNCHANGED messageId
           /\ negotiating' = FALSE
           /\ UNCHANGED <<state, deferral, browser, loaded, position, monitoring, silent,
                          buffer, shown>>

\* Starts the first of the transports; the transports that the browser cannot do
\* have failed at once.
initialize(transports, stopped) ==
    IF transports = <<>>
      THEN deferral' = "rejected" /\ stop
      ELSE /\ transport' = Head(transports)
           /\ untried' = Tail(transports)
           /\ net' = <<>>
           /\ greeted' = FALSE
           /\ IF Head(transports) = "longPolling"
                THEN /\ timers' = setTimeout(setTimeout(stopped, "connect"), "poll")
                     /\ messageId' = None
                     /\ wire' = "none"
                ELSE /\ timers' = setTimeout(stopped, "connect")
                     /\ wire' = "opening"
                     /\ UNCHANGED messageId
           /\ negotiating' = FALSE
           /\ UNCHANGED <<state, deferral, browser, loaded, position, monitoring, silent,
                          buffer, shown>>

\* Of the transport that is being tried.
onFailed == initialize(untried, clearTimeout(timers, {"connect"} \cup OwnTimers(transport)))

Only(t) == IF t \in browser THEN <<t>> ELSE <<>>

\* In the order in which their scripts define them.
supportedTransports ==
    Only("webSockets") \o Only("serverSentEvents") \o Only("foreverFrame")
        \o Only("longPolling")

Negotiated ==
    /\ negotiating
    /\ initialize(supportedTransports, timers)
    /\ UNCHANGED envVars

NegotiateFails ==
    /\ negotiating
    /\ Fail
    /\ deferral' = "rejected"
    /\ stop

ConnectTimeout ==
    /\ timers["connect"] > 0
    /\ onFailed
    /\ UNCHANGED envVars

(***************************************************************************)
(* Messages.                                                               *)
(***************************************************************************)

Numbers(from, upTo) == [i \in 1..(upTo - from) |-> from + i]

\* The success callback of initialize, from connecting.
onSuccess(at) ==
    /\ state' = "connected"
    /\ deferral' = "resolved"
    /\ messageId' = at
    /\ shown' = shown \o buffer
    /\ buffer' = <<>>
    /\ silent' = FALSE
    /\ monitoring' = Streaming
    /\ timers' = [clearTimeout(timers, {"connect"}) EXCEPT
                    !["ping"] = 1,
                    !["check"] = IF Streaming THEN 1 ELSE @]
    /\ UNCHANGED <<browser, loaded, negotiating, untried, transport>>

onReceived(from, upTo) ==
    /\ messageId' = upTo
    /\ IF state = "connecting"
         THEN buffer' = buffer \o Numbers(from, upTo) /\ UNCHANGED shown
         ELSE shown' = shown \o Numbers(from, upTo) /\ UNCHANGED buffer

processMessages(frame) ==
    \/ frame.type = "disconnect" /\ stop /\ UNCHANGED deferral
    \/ /\ frame.type = "initialized"
       /\ onSuccess(frame.upTo)
       /\ net' = Tail(net)
       /\ UNCHANGED <<wire, position, greeted>>
    \/ /\ frame.type = "messages"
       /\ onReceived(frame.from, frame.upTo)
       /\ net' = Tail(net)
       /\ silent' = FALSE
       /\ UNCHANGED <<startVars, state, transport, wire, position, greeted, timers, monitoring>>

\* A message of a socket, an event source or a frame.
Receive ==
    /\ net # <<>>
    /\ processMessages(Head(net))
    /\ UNCHANGED envVars

\* A response that is no JSON; a forever frame gets its responses as scripts.
handleParseFailure ==
    /\ wire \in {"open", "polling"}
    /\ transport # "foreverFrame"
    /\ Fail
    /\ IF state = "connecting" THEN onFailed ELSE stop /\ UNCHANGED deferral

(***************************************************************************)
(* The server.                                                             *)
(***************************************************************************)

Unchanged == UNCHANGED <<startVars, state, transport, timers, monitoring, dataVars>>

Publish ==
    /\ published < MaxMessages
    /\ published' = published + 1
    /\ UNCHANGED <<startVars, state, transport, wireVars, timers, monitoring, silent, dataVars,
                   failures>>

Send(type, upTo) ==
    net' = Append(net, [type |-> type, from |-> position, upTo |-> upTo])

SendInitialized ==
    /\ wire = "open"
    /\ ~greeted
    /\ greeted' = TRUE
    /\ Send("initialized", position)
    /\ Unchanged /\ UNCHANGED <<wire, position, silent, envVars>>

SendMessages ==
    /\ wire = "open"
    /\ \E upTo \in (position + 1)..published :
          Send("messages", upTo) /\ position' = upTo
    /\ Unchanged /\ UNCHANGED <<wire, greeted, silent, envVars>>

SendDisconnect ==
    /\ wire = "open"
    /\ Fail
    /\ Send("disconnect", position)
    /\ Unchanged /\ UNCHANGED <<wire, position, greeted, silent>>

KeepAlive ==
    /\ wire = "open"
    /\ silent
    /\ silent' = FALSE
    /\ Unchanged /\ UNCHANGED <<wireVars, envVars>>

\* On a wire that is in order only a failure makes the server silent for so long.
Silence ==
    /\ monitoring
    /\ IF wire = "open" THEN Fail ELSE UNCHANGED envVars
    /\ silent' = TRUE
    /\ Unchanged /\ UNCHANGED wireVars

\* The connection breaks, and the browser notices or not; what has not arrived is lost.
Break ==
    /\ wire = "open"
    /\ Fail
    /\ \/ wire' = "broken" /\ \E n \in 0..Len(net) : net' = SubSeq(net, 1, n)
       \/ wire' = "dead" /\ net' = <<>>
    /\ Unchanged /\ UNCHANGED <<position, greeted, silent>>

(***************************************************************************)
(* Web sockets, server sent events and the forever frame.                  *)
(***************************************************************************)

\* The timers after the reconnect of the transport.  Nothing but the transport's
\* delay keeps a forever frame from having several.
reconnect(ts) ==
    IF transport = "foreverFrame"
      THEN [ts EXCEPT !["frame"] = IF @ < MaxTimers THEN @ + 1 ELSE @]
      ELSE IF state \in {"connected", "reconnecting"} THEN setTimeout(ts, "reconnect") ELSE ts

\* Mutant: the timeout of the reconnect is forgotten.
ensureReconnectingUnlimited(ts) ==
    /\ state' = "reconnecting"
    /\ timers' = ts

ensureReconnectingState(ts) ==
    /\ state \in {"connected", "reconnecting"}
    /\ state' = "reconnecting"
    /\ timers' = IF state = "connected" THEN setTimeout(ts, "disconnect") ELSE ts

\* From reconnecting to connected, with the handlers of stateChanged and reconnected.
reconnected(ts) ==
    IF state = "reconnecting"
      THEN /\ state' = "connected"
           /\ timers' = clearTimeout(ts, {"disconnect"})
           /\ silent' = FALSE
      ELSE timers' = ts /\ UNCHANGED <<state, silent>>

\* Mutant: a socket that reconnects asks for the newest messages.
openAtHead ==
    /\ wire = "opening"
    /\ wire' = "open"
    /\ position' = published
    /\ greeted' = (state # "connecting")
    /\ reconnected(clearTimeout(timers, {"sse"} \cup OwnTimers(transport)))
    /\ UNCHANGED <<startVars, transport, net, monitoring, dataVars, envVars>>

\* The open events of a socket and an event source, and started of a frame.  The
\* server begins where the address of the wire says.
onopen ==
    /\ wire = "opening"
    /\ wire' = "open"
    /\ position' = IF state = "connecting" THEN published ELSE messageId
    /\ greeted' = (state # "connecting")
    /\ reconnected(clearTimeout(timers, {"sse"} \cup OwnTimers(transport)))
    /\ UNCHANGED <<startVars, transport, net, monitoring, dataVars, envVars>>

\* Mutant: a socket that could not reconnect does not try again.
onclosePassive ==
    /\ wire = "opening"
    /\ Fail
    /\ wire' = "closed"
    /\ Unchanged /\ UNCHANGED <<net, position, greeted, silent>>

\* A wire that does not open: the close event of a socket, the error event of an
\* event source, which leaves it to its timer, the page that ends up in the frame.
ConnectFails ==
    /\ wire = "opening"
    /\ Fail
    /\ IF state = "connecting" /\ transport # "foreverFrame"
         THEN onFailed
         ELSE /\ wire' = "closed"
              /\ timers' = IF transport = "serverSentEvents" THEN timers ELSE reconnect(timers)
              /\ UNCHANGED <<startVars, state, transport, net, position, greeted, monitoring,
                             silent, dataVars>>

\* A wire that was open is closed.  While connecting, only the timeout helps.  A browser
\* opens an event source again by itself, but not before the delay of reconnect is over.
onclose ==
    /\ wire = "broken"
    /\ net = <<>>
    /\ wire' = "closed"
    /\ timers' = reconnect(timers)
    /\ UNCHANGED <<startVars, state, transport, net, position, greeted, monitoring, silent,
                   dataVars, envVars>>

\* The delay of reconnect is over: the old wire is closed, a new one is opened.
ReconnectTimer ==
    /\ timers["reconnect"] > 0
    /\ ensureReconnectingState(
          [clearTimeout(timers, {"reconnect"}) EXCEPT
              !["sse"] = IF transport = "serverSentEvents" THEN 1 ELSE @])
    /\ wire' = "opening"
    /\ net' = <<>>
    /\ UNCHANGED <<startVars, transport, position, greeted, monitoring, silent, dataVars,
                   envVars>>

\* Three seconds after the event source was to reconnect.  If the connection was
\* stopped there is none any more: the callback throws, and nothing comes of it.
SseTimer ==
    /\ timers["sse"] > 0
    /\ timers' = LET fired == clearTimeout(timers, {"sse"})
                 IN  IF wire = "none" THEN fired ELSE reconnect(fired)
    /\ UNCHANGED <<startVars, state, transport, wireVars, monitoring, silent, dataVars,
                   envVars>>

\* The delay of a forever frame is over: its address is changed.
FrameTimer ==
    /\ timers["frame"] > 0
    /\ LET fired == [timers EXCEPT !["frame"] = @ - 1]
       IN  IF transport = "foreverFrame" /\ state # "connecting"
             THEN /\ ensureReconnectingState(fired)
                  /\ wire' = "opening"
                  /\ net' = <<>>
             ELSE timers' = fired /\ UNCHANGED <<state, wire, net>>
    /\ UNCHANGED <<startVars, transport, position, greeted, monitoring, silent, dataVars,
                   envVars>>

\* Mutant: the keep alive is looked at only once.
checkOnce ==
    /\ timers["check"] > 0
    /\ timers' = LET fired == clearTimeout(timers, {"check"})
                 IN  IF state = "connected" /\ silent THEN reconnect(fired) ELSE fired
    /\ UNCHANGED <<startVars, state, transport, wireVars, monitoring, silent, dataVars,
                   envVars>>

\* A lost connection is reconnected; the look at the keep alive goes on.
checkIfAlive ==
    /\ timers["check"] > 0
    /\ timers' = LET next == [timers EXCEPT !["check"] = IF monitoring THEN 1 ELSE 0]
                 IN  IF state = "connected" /\ silent THEN reconnect(next) ELSE next
    /\ UNCHANGED <<startVars, state, transport, wireVars, monitoring, silent, dataVars,
                   envVars>>

(***************************************************************************)
(* Long polling.                                                           *)
(***************************************************************************)

pollVars == <<startVars, transport, net, position, greeted, monitoring, envVars>>

\* The first poll, or the one after an error, which is to raise reconnected.
PollTimer ==
    /\ timers["poll"] > 0
    /\ wire' = IF state = "disconnected" THEN wire ELSE "polling"
    /\ timers' = LET fired == clearTimeout(timers, {"poll"})
                 IN  IF messageId = None THEN fired ELSE setTimeout(fired, "fireReconnected")
    /\ UNCHANGED <<state, silent, dataVars>> /\ UNCHANGED pollVars

fireReconnected ==
    /\ timers["fireReconnected"] > 0
    /\ reconnected(clearTimeout(timers, {"fireReconnected"}))
    /\ UNCHANGED <<wire, dataVars>> /\ UNCHANGED pollVars

\* Success of the first poll; the next one follows at once.
PollConnected ==
    /\ wire = "polling"
    /\ messageId = None
    /\ onSuccess(published)
    /\ UNCHANGED <<wireVars, envVars>>

\* A poll is answered: if it was to raise reconnected, that comes first.
answered ==
    IF timers["fireReconnected"] > 0
      THEN reconnected(clearTimeout(timers, {"fireReconnected"}))
      ELSE UNCHANGED <<state, silent, timers>>

\* Mutant: what the poll that raises reconnected brings is not processed.
PollSkips ==
    /\ wire = "polling"
    /\ messageId # None
    /\ answered
    /\ \E upTo \in messageId..published :
          IF timers["fireReconnected"] > 0
            THEN messageId' = upTo /\ UNCHANGED <<buffer, shown>>
            ELSE onReceived(messageId, upTo)
    /\ UNCHANGED wire /\ UNCHANGED pollVars

\* Success: messages, or none for so long that the server answers anyway.
PollReceived ==
    /\ wire = "polling"
    /\ messageId # None
    /\ answered
    /\ \E upTo \in messageId..published : onReceived(messageId, upTo)
    /\ UNCHANGED wire /\ UNCHANGED pollVars

\* Success, with the request to reconnect: the server shuts down.
PollShouldReconnect ==
    /\ wire = "polling"
    /\ messageId # None
    /\ Fail
    /\ state' = "reconnecting"
    /\ timers' = setTimeout(setTimeout(timers, "disconnect"), "fireReconnected")
    /\ UNCHANGED <<startVars, transport, wireVars, monitoring, silent, dataVars>>

\* Success, with the command to disconnect.
PollDisconnected ==
    /\ wire = "polling"
    /\ messageId # None
    /\ Fail
    /\ stop
    /\ UNCHANGED deferral

PollError ==
    /\ wire = "polling"
    /\ Fail
    /\ IF state = "connecting"
         THEN onFailed
         ELSE /\ ensureReconnectingState(
                    setTimeout(clearTimeout(timers, {"fireReconnected"}), "poll"))
              /\ wire' = "closed"
              /\ UNCHANGED <<startVars, transport, net, position, greeted, monitoring, silent,
                             dataVars>>

\* A poll that nobody will answer, and that never fails.
PollDead ==
    /\ wire = "polling"
    /\ Fail
    /\ wire' = "dead"
    /\ Unchanged /\ UNCHANGED <<net, position, greeted, silent>>

(***************************************************************************)
(* What ends a connection.                                                 *)
(***************************************************************************)

onReconnectTimeout ==
    /\ timers["disconnect"] > 0
    /\ stop
    /\ UNCHANGED <<deferral, envVars>>

\* The ping is answered with 401, 403 or with what is no JSON.
pingServer ==
    /\ timers["ping"] > 0
    /\ Fail
    /\ stop
    /\ UNCHANGED deferral

unload ==
    /\ deferral = "resolved"
    /\ state # "disconnected"
    /\ stop
    /\ UNCHANGED <<deferral, envVars>>

(***************************************************************************)
(* The specification.                                                      *)
(***************************************************************************)

Next ==
    \/ start \/ load \/ Negotiated \/ NegotiateFails \/ ConnectTimeout
    \/ Receive \/ handleParseFailure
    \/ Publish \/ SendInitialized \/ SendMessages \/ SendDisconnect \/ KeepAlive \/ Silence
    \/ Break
    \/ onopen \/ ConnectFails \/ onclose \/ ReconnectTimer \/ SseTimer \/ FrameTimer
    \/ checkIfAlive
    \/ PollTimer \/ fireReconnected \/ PollConnected \/ PollReceived \/ PollShouldReconnect
    \/ PollDisconnected \/ PollError \/ PollDead
    \/ onReconnectTimeout \/ pingServer \/ unload

Spec == Init /\ [][Next]_vars

\* Timers fire and events are handled; a request is answered or fails; a server that
\* has messages sends them, and a dead wire stays silent for as long as it takes.
\* No wire has to open, and nobody has to start, publish or leave.
Fairness ==
    /\ WF_vars(load) /\ WF_vars(Negotiated \/ NegotiateFails) /\ WF_vars(ConnectTimeout)
    /\ WF_vars(Receive) /\ WF_vars(SendMessages) /\ WF_vars(wire = "dead" /\ Silence)
    /\ WF_vars(onclose) /\ WF_vars(ReconnectTimer) /\ WF_vars(SseTimer)
    /\ WF_vars(FrameTimer) /\ WF_vars(checkIfAlive) /\ WF_vars(PollTimer)
    /\ WF_vars(fireReconnected) /\ WF_vars(PollReceived /\ messageId' # messageId)
    /\ WF_vars(onReconnectTimeout)

FairSpec == Spec /\ Fairness

(***************************************************************************)
(* Properties.                                                             *)
(***************************************************************************)

\* Every variable keeps its type.
TypeOK ==
    /\ browser \in Browsers
    /\ loaded \in BOOLEAN
    /\ state \in States
    /\ deferral \in {"none", "pending", "resolved", "rejected"}
    /\ negotiating \in BOOLEAN
    /\ transport \in Transports \cup {None}
    /\ untried \in Seq(Transports)
    /\ wire \in Wires
    /\ net \in Seq(Frames)
    /\ position \in 0..MaxMessages
    /\ greeted \in BOOLEAN
    /\ timers \in [Timers -> 0..MaxTimers]
    /\ monitoring \in BOOLEAN
    /\ silent \in BOOLEAN
    /\ messageId \in {None} \cup 0..MaxMessages
    /\ buffer \in Seq(1..MaxMessages)
    /\ shown \in Seq(1..MaxMessages)
    /\ published \in 0..MaxMessages
    /\ failures \in 0..MaxFailures

\* start() was called and the connection has come to its end: the page never calls it
\* again.
Over == state = "disconnected" /\ loaded /\ deferral # "none"

\* Once disconnected, whatever timers, requests and events are still on their way, the
\* connection does not come back to life and the page is given nothing more.
DisconnectedIsFinal == [][Over => Over' /\ wire' = "none" /\ shown' = shown]_vars

\* The timeout that ends a reconnect is set as long as the connection reconnects, and at
\* no other time, through any number of attempts and whoever reports the success.
ReconnectingIsLimited == state = "reconnecting" <=> timers["disconnect"] > 0

\* A connection that claims to be connected over a transport that is kept alive has a
\* look at the keep alive ahead of it; it starts with the connection and survives all
\* reconnects.
LossIsWatched == state = "connected" /\ Streaming => monitoring /\ timers["check"] > 0

\* A started connection whose wire is closed has a timer that will open another; none of
\* the transports relies on an event that may already be past.
AlwaysATry ==
    state \in {"connected", "reconnecting"} /\ wire \in {"none", "closed"} =>
        \E t \in {"reconnect", "sse", "frame", "poll"} : timers[t] > 0

\* What the page sees is the stream of PageStream, over all fallbacks from transport to
\* transport and all reconnects: in order, nothing twice, nothing left out.
Stage ==
    CASE Over -> "over"
      [] state \in {"connected", "reconnecting"} -> "started"
      [] OTHER -> "starting"

Stream == INSTANCE PageStream WITH stage <- Stage, position <- messageId, held <- buffer

ImplementsPageStream == Stream!Spec

\* The promise of start() is kept or broken, whatever transports fail to open, unless
\* the server disconnects the page before it is connected.
StartSettles == deferral = "pending" ~> deferral # "pending" \/ Over

\* What is published while the connection claims to be connected is shown, unless the
\* connection is given up or its poll is dead.
MessagesArrive ==
    \A m \in 1..MaxMessages :
        state = "connected" /\ m \in (messageId + 1)..published
            ~> \/ \E i \in DOMAIN shown : shown[i] = m
               \/ Over
               \/ wire = "dead" /\ ~Streaming

===============================================================================
