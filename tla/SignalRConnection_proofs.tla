------------------------ MODULE SignalRConnection_proofs ------------------------
(***************************************************************************)
(* Proofs about the connection of a page: for any browser, any number of   *)
(* messages, timers and failures.                                          *)
(***************************************************************************)
EXTENDS SignalRConnection, SequenceTheorems, TLAPS

\* The types of what the control of the connection depends on.
Typed ==
    /\ state \in States
    /\ timers \in [Timers -> Nat]
    /\ net \in Seq(Frames)
    /\ position \in 0..MaxMessages
    /\ published \in 0..MaxMessages
    /\ messageId \in {None} \cup 0..MaxMessages

\* Before the start of a page that is loaded there is nothing.
Unstarted ==
    ~loaded \/ deferral = "none" =>
        /\ state = "disconnected"
        /\ deferral \in {"none", "pending"}
        /\ \A t \in Timers : timers[t] = 0

\* After the end, and before the start.
Idle == state = "disconnected" => transport = None /\ wire = "none"

\* What belongs to an attempt to connect.
Attempt ==
    /\ negotiating => state = "connecting" /\ transport = None /\ wire = "none"
    /\ timers["connect"] > 0 => state = "connecting" /\ ~negotiating

\* What belongs to a connection that was made.  These timers may outlive it.
LateTimers ==
    \A t \in {"reconnect", "sse", "check"} :
        timers[t] > 0 => state # "connecting" /\ transport # "longPolling"

\* What belongs to long polling, which knows by the message id whether it is connected.
LongPolling ==
    /\ timers["poll"] > 0 => transport = "longPolling"
    /\ wire = "polling" => transport = "longPolling"
    /\ transport = "longPolling" =>
          /\ wire \in {"none", "polling", "closed", "dead"}
          /\ messageId = None <=> state = "connecting"

\* What is on its way is on a wire that was opened.
OnWire ==
    /\ net # <<>> => wire \in {"open", "broken"}
    /\ wire = "none" => state \in {"disconnected", "connecting"}
    /\ state \in {"connected", "reconnecting"} => messageId # None

\* The server greets a wire once, and only one of an attempt to connect.
Greeting ==
    /\ wire = "open" /\ ~greeted => state = "connecting"
    /\ \A i \in 1..Len(net) : net[i].type = "initialized" =>
          /\ state = "connecting" /\ greeted
          /\ \A j \in 1..Len(net) : net[j].type = "initialized" => j = i

\* LossIsWatched, also while it reconnects.
Watched ==
    state \in {"connected", "reconnecting"} /\ Streaming => monitoring /\ timers["check"] > 0

\* AlwaysATry, with the delay of the forever frame only where it counts.
Tried ==
    state \in {"connected", "reconnecting"} =>
        /\ wire = "closed" =>
              \/ timers["reconnect"] > 0 \/ timers["sse"] > 0 \/ timers["poll"] > 0
              \/ transport = "foreverFrame" /\ timers["frame"] > 0
        /\ wire = "opening" /\ transport = "serverSentEvents" =>
              timers["reconnect"] > 0 \/ timers["sse"] > 0

Control ==
    /\ Unstarted /\ Idle /\ Attempt /\ LateTimers /\ LongPolling /\ OnWire
    /\ Watched /\ Tried /\ ReconnectingIsLimited

IInv == Typed /\ Control /\ Greeting

LEMMA IInvInit == Init => IInv
<1> SUFFICES ASSUME Init PROVE IInv
  OBVIOUS
<1>1. Typed
  BY SignalRAssumption DEF Init, Typed, States, Frames
<1>2. Control
  BY SignalRAssumption DEF Init, Control, Unstarted, Idle, Attempt, LateTimers, LongPolling,
     OnWire, Watched, Tried, ReconnectingIsLimited, Timers
<1>3. Greeting
  BY DEF Init, Greeting
<1> QED BY <1>1, <1>2, <1>3 DEF IInv

\* Clearing timers leaves the others as they are.
LEMMA Cleared ==
    ASSUME NEW ts \in [Timers -> Nat], NEW cleared
    PROVE  /\ clearTimeout(ts, cleared) \in [Timers -> Nat]
           /\ \A t \in Timers : clearTimeout(ts, cleared)[t]
                                  = IF t \in cleared THEN 0 ELSE ts[t]
  BY DEF clearTimeout

LEMMA Set ==
    ASSUME NEW ts \in [Timers -> Nat], NEW s \in Timers
    PROVE  /\ setTimeout(ts, s) \in [Timers -> Nat]
           /\ \A t \in Timers : setTimeout(ts, s)[t] = IF t = s THEN 1 ELSE ts[t]
  BY DEF setTimeout

\* The connection is over: what is left of its timers does no harm.
LEMMA StopIInv ==
    ASSUME IInv, stop, loaded, deferral' # "none", published' = published
    PROVE  IInv'
<1>1. /\ timers' \in [Timers -> Nat]
      /\ \A t \in Timers : timers'[t] \in {0, timers[t]}
      /\ timers'["connect"] = 0 /\ timers'["disconnect"] = 0
      /\ transport = "longPolling" => timers'["poll"] = 0
  <2> DEFINE gone == {"connect", "ping", "disconnect"} \cup OwnTimers(transport)
  <2>1. timers' = clearTimeout(timers, gone) /\ timers \in [Timers -> Nat]
    BY DEF stop, IInv, Typed
  <2>2. transport = "longPolling" => "poll" \in gone
    BY DEF OwnTimers
  <2> HIDE DEF gone
  <2>3. /\ timers' \in [Timers -> Nat]
        /\ \A t \in Timers : timers'[t] = IF t \in gone THEN 0 ELSE timers[t]
    BY <2>1, Cleared
  <2>4. "connect" \in gone /\ "disconnect" \in gone
    BY DEF gone
  <2> QED BY <2>2, <2>3, <2>4 DEF Timers
<1>2. Typed'
  <2>1. state' = "disconnected" /\ net' = <<>> /\ messageId' = None /\ position' = position
    BY DEF stop
  <2>2. <<>> \in Seq(Frames)
    OBVIOUS
  <2> QED BY <1>1, <2>1, <2>2 DEF IInv, Typed, States
<1>3. Control'
  <2>1. timers'["poll"] = 0
    BY <1>1, SignalRAssumption DEF IInv, Typed, Control, LongPolling, Timers
  <2> QED BY <1>1, <2>1, SignalRAssumption, SMTT(30) DEF stop, IInv, Typed, Control, Unstarted, Idle,
          Attempt, LateTimers, LongPolling, OnWire, Watched, Tried, ReconnectingIsLimited,
          Timers, Transports
<1>4. Greeting'
  BY DEF stop, Greeting
<1> QED BY <1>2, <1>3, <1>4 DEF IInv

\* Another transport is tried, or none is left.
LEMMA InitializeIInv ==
    ASSUME IInv, state = "connecting", published' = published, NEW transports,
           NEW stopped \in [Timers -> Nat],
           \A t \in Timers : stopped[t] \in {0, timers[t]},
           stopped["poll"] = 0,
           initialize(transports, stopped)
    PROVE  IInv'
<1>1. loaded /\ deferral # "none"
  BY DEF IInv, Control, Unstarted
<1>2. CASE transports = <<>>
  BY <1>1, <1>2, StopIInv DEF initialize
<1>3. CASE transports # <<>>
  <2>1. /\ UNCHANGED <<state, deferral, loaded, position, published, monitoring>>
        /\ transport' = Head(transports) /\ net' = <<>> /\ greeted' = FALSE
        /\ negotiating' = FALSE
    BY <1>3 DEF initialize
  <2>2. \/ transport' = "longPolling" /\ wire' = "none" /\ messageId' = None
        \/ transport' # "longPolling" /\ wire' = "opening" /\ messageId' = messageId
    BY <1>3 DEF initialize
  <2>3. /\ timers' \in [Timers -> Nat]
        /\ \A t \in Timers \ {"connect", "poll"} : timers'[t] = stopped[t]
        /\ timers'["poll"] > 0 => transport' = "longPolling"
    <3>1. CASE Head(transports) = "longPolling"
      <4>1. timers' = setTimeout(setTimeout(stopped, "connect"), "poll")
        BY <1>3, <3>1 DEF initialize
      <4> QED BY <2>1, <3>1, <4>1 DEF setTimeout, Timers
    <3>2. CASE Head(transports) # "longPolling"
      <4>1. timers' = setTimeout(stopped, "connect")
        BY <1>3, <3>2 DEF initialize
      <4> QED BY <4>1 DEF setTimeout, Timers
    <3> QED BY <3>1, <3>2
  <2>4. Typed'
    BY <2>1, <2>2, <2>3 DEF IInv, Typed
  <2>5. Control'
    <3>1. \A t \in {"reconnect", "sse", "check", "disconnect"} : timers'[t] = 0
      <4>1. \A t \in {"reconnect", "sse", "check", "disconnect"} : ~(timers[t] > 0)
        BY DEF IInv, Control, LateTimers, ReconnectingIsLimited
      <4>2. \A t \in {"reconnect", "sse", "check", "disconnect"} :
               t \in Timers \ {"connect", "poll"} /\ timers[t] \in Nat
        BY DEF IInv, Typed, Timers
      <4> QED BY <2>3, <4>1, <4>2
    <3>2. (Unstarted /\ Idle /\ Attempt)'
      BY <1>1, <2>1 DEF Unstarted, Idle, Attempt
    <3>3. (LateTimers /\ LongPolling /\ OnWire)'
      BY <2>1, <2>2, <2>3, <3>1 DEF LateTimers, LongPolling, OnWire
    <3>4. (Watched /\ Tried /\ ReconnectingIsLimited)'
      BY <2>1, <3>1 DEF Watched, Tried, ReconnectingIsLimited
    <3> QED BY <3>2, <3>3, <3>4 DEF Control
  <2>6. Greeting'
    BY <2>1, <2>2 DEF Greeting
  <2> QED BY <2>4, <2>5, <2>6 DEF IInv
<1> QED BY <1>2, <1>3

LEMMA OnFailedIInv ==
    ASSUME IInv, state = "connecting", published' = published, onFailed
    PROVE  IInv'
<1> DEFINE gone == {"connect"} \cup OwnTimers(transport)
           stopped == clearTimeout(timers, gone)
<1>1. timers \in [Timers -> Nat]
  BY DEF IInv, Typed
<1>2. transport = "longPolling" => "poll" \in gone
  BY DEF OwnTimers
<1>3. initialize(untried, stopped)
  BY DEF onFailed
<1> HIDE DEF gone
<1>4. /\ stopped \in [Timers -> Nat]
      /\ \A t \in Timers : stopped[t] = IF t \in gone THEN 0 ELSE timers[t]
  BY <1>1, Cleared
<1>5. stopped["poll"] = 0
  BY <1>1, <1>2, <1>4 DEF IInv, Control, LongPolling, Timers
<1> HIDE DEF stopped
<1>6. \A t \in Timers : stopped[t] \in {0, timers[t]}
  BY <1>4
<1> QED BY <1>3, <1>4, <1>5, <1>6, InitializeIInv

LEMMA StartIInv == ASSUME IInv, start \/ load PROVE IInv'
<1>1. /\ UNCHANGED <<transport, wire, net, position, greeted, timers, monitoring, messageId,
                     published>>
      /\ deferral' \in {deferral, "pending"}
      /\ \/ UNCHANGED <<state, negotiating>> /\ ~loaded' /\ deferral' = "pending"
         \/ UNCHANGED <<state, negotiating, deferral>> /\ loaded' /\ deferral # "pending"
         \/ state' = "connecting" /\ negotiating' /\ loaded' /\ deferral' = "pending"
  BY DEF start, load, negotiate, wireVars, dataVars, envVars
<1>2. /\ state = "disconnected" /\ transport = None /\ wire = "none" /\ net = <<>>
      /\ deferral \in {"none", "pending"}
      /\ \A t \in Timers : timers[t] = 0
  BY DEF start, load, IInv, Control, Unstarted, Idle, OnWire
<1>3. Typed'
  BY <1>1, <1>2 DEF IInv, Typed, States
<1>4. Control'
  <2>1. (Unstarted /\ Idle)'
    BY <1>1, <1>2 DEF IInv, Control, Unstarted, Idle
  <2>2. (Attempt /\ LateTimers)'
    BY <1>1, <1>2 DEF IInv, Control, Attempt, LateTimers, Timers
  <2>3. (LongPolling /\ OnWire)'
    BY <1>1, <1>2, SignalRAssumption DEF LongPolling, OnWire, Timers, Transports
  <2>4. (Watched /\ Tried /\ ReconnectingIsLimited)'
    BY <1>1, <1>2 DEF Watched, Tried, ReconnectingIsLimited, Timers
  <2> QED BY <2>1, <2>2, <2>3, <2>4 DEF Control
<1>5. Greeting'
  BY <1>1, <1>2 DEF Greeting
<1> QED BY <1>3, <1>4, <1>5 DEF IInv

\* The connection is made, over the wire that there is.
LEMMA SuccessControl ==
    ASSUME IInv, state = "connecting", wire \in {"open", "broken", "polling"},
           NEW at \in 0..MaxMessages, onSuccess(at), wire' = wire,
           net' # <<>> => net # <<>>
    PROVE  /\ Control'
           /\ state' = "connected" /\ timers' \in [Timers -> Nat] /\ messageId' = at
<1>1. /\ state' = "connected" /\ deferral' = "resolved" /\ messageId' = at
      /\ monitoring' = Streaming
      /\ UNCHANGED <<loaded, negotiating, transport>>
  BY DEF onSuccess
<1>2. loaded /\ deferral # "none" /\ ~negotiating /\ timers \in [Timers -> Nat]
  BY DEF IInv, Typed, Control, Unstarted, Attempt
<1>3. /\ timers' \in [Timers -> Nat]
      /\ timers'["connect"] = 0
      /\ timers'["check"] = IF Streaming THEN 1 ELSE timers["check"]
      /\ \A t \in Timers \ {"connect", "ping", "check"} : timers'[t] = timers[t]
  <2> DEFINE ts == clearTimeout(timers, {"connect"})
  <2>1. ts \in [Timers -> Nat] /\ \A t \in Timers : ts[t] = IF t = "connect" THEN 0 ELSE timers[t]
    BY <1>2 DEF clearTimeout
  <2>2. timers' = [ts EXCEPT !["ping"] = 1, !["check"] = IF Streaming THEN 1 ELSE @]
    BY DEF onSuccess
  <2> HIDE DEF ts
  <2> QED BY <2>1, <2>2 DEF Timers
<1>4. at # None
  BY SignalRAssumption
<1>5. (Unstarted /\ Idle /\ Attempt)'
  BY <1>1, <1>2, <1>3 DEF Unstarted, Idle, Attempt
<1>6. LateTimers'
  BY <1>1, <1>3, SignalRAssumption
     DEF IInv, Control, LateTimers, Streaming, Timers
<1>7. (LongPolling /\ OnWire)'
  BY <1>1, <1>3, <1>4 DEF IInv, Control, LongPolling, OnWire, Timers
<1>8. (Watched /\ Tried /\ ReconnectingIsLimited)'
  <2>1. Streaming' <=> Streaming
    BY <1>1 DEF Streaming
  <2>2. Watched'
    BY <1>1, <1>3, <2>1 DEF Watched
  <2>3. Tried'
    BY DEF Tried
  <2>4. ReconnectingIsLimited'
    BY <1>1, <1>3 DEF IInv, Control, ReconnectingIsLimited, Timers
  <2> QED BY <2>2, <2>3, <2>4
<1> QED BY <1>1, <1>3, <1>5, <1>6, <1>7, <1>8 DEF Control

\* Steps that only send or lose what is on the wire.
LEMMA WireControl ==
    ASSUME Control, UNCHANGED <<startVars, state, transport, timers, monitoring, messageId>>,
           net' # <<>> => wire' \in {"open", "broken"},
           \/ wire' = wire
           \/ wire = "open" /\ wire' \in {"broken", "dead"}
           \/ wire = "polling" /\ wire' = "dead"
    PROVE  Control'
<1>1. (Unstarted /\ Idle /\ Attempt)'
  BY DEF Control, Unstarted, Idle, Attempt, startVars
<1>2. (LateTimers /\ LongPolling /\ OnWire)'
  BY DEF Control, LateTimers, LongPolling, OnWire
<1>3. (Watched /\ Tried /\ ReconnectingIsLimited)'
  BY DEF Control, Watched, Tried, ReconnectingIsLimited, Streaming
<1> QED BY <1>1, <1>2, <1>3 DEF Control

LEMMA FrameType ==
    ASSUME IInv, NEW type \in {"initialized", "messages", "disconnect"},
           NEW upTo \in 0..MaxMessages, Send(type, upTo)
    PROVE  /\ net' \in Seq(Frames) /\ Len(net') = Len(net) + 1
           /\ \A i \in 1..Len(net) : net'[i] = net[i]
           /\ net'[Len(net) + 1].type = type
<1> DEFINE frame == [type |-> type, from |-> position, upTo |-> upTo]
<1>1. frame \in Frames /\ frame.type = type /\ net \in Seq(Frames)
  BY DEF Frames, IInv, Typed
<1>2. net' = Append(net, frame)
  BY DEF Send
<1> HIDE DEF frame
<1> QED BY <1>1, <1>2

LEMMA SendIInv ==
    ASSUME IInv, SendInitialized \/ SendMessages \/ SendDisconnect
    PROVE  IInv'
<1>1. /\ wire = "open" /\ wire' = "open"
      /\ UNCHANGED <<startVars, state, transport, timers, monitoring, messageId, published>>
  BY DEF SendInitialized, SendMessages, SendDisconnect, Unchanged, dataVars, envVars, Fail
<1>2. \E type \in {"initialized", "messages", "disconnect"}, upTo \in 0..MaxMessages :
         /\ Send(type, upTo) /\ position' \in {position, upTo}
         /\ IF type = "initialized" THEN ~greeted /\ greeted' ELSE greeted' = greeted
  <2>1. position \in 0..MaxMessages /\ published \in 0..MaxMessages
    BY DEF IInv, Typed
  <2>2. CASE SendInitialized
    BY <2>1, <2>2 DEF SendInitialized
  <2>3. CASE SendMessages
    <3>1. PICK upTo \in (position + 1)..published : Send("messages", upTo) /\ position' = upTo
      BY <2>3 DEF SendMessages
    <3>2. upTo \in 0..MaxMessages /\ greeted' = greeted
      BY <2>1, <2>3, SignalRAssumption DEF SendMessages
    <3> QED BY <3>1, <3>2
  <2>4. CASE SendDisconnect
    BY <2>1, <2>4 DEF SendDisconnect
  <2> QED BY <2>2, <2>3, <2>4
<1>3. PICK type \in {"initialized", "messages", "disconnect"}, upTo \in 0..MaxMessages :
         /\ Send(type, upTo) /\ position' \in {position, upTo}
         /\ IF type = "initialized" THEN ~greeted /\ greeted' ELSE greeted' = greeted
  BY <1>2
<1>4. /\ net' \in Seq(Frames) /\ Len(net') = Len(net) + 1
      /\ \A i \in 1..Len(net) : net'[i] = net[i]
      /\ net'[Len(net) + 1].type = type
  BY <1>3, FrameType
<1>5. Typed'
  BY <1>1, <1>3, <1>4 DEF IInv, Typed
<1>6. Control'
  BY <1>1, WireControl DEF IInv
<1>7. Greeting'
  <2>1. net \in Seq(Frames) /\ Len(net) \in Nat
    BY DEF IInv, Typed
  <2>2. CASE type = "initialized"
    <3>1. ~greeted /\ greeted' /\ state' = "connecting"
      BY <1>1, <1>3, <2>2 DEF IInv, Greeting
    <3>2. \A i \in 1..Len(net) : net'[i].type # "initialized"
      BY <1>4, <3>1 DEF IInv, Greeting
    <3> QED BY <1>4, <2>1, <3>1, <3>2 DEF Greeting
  <2>3. CASE type # "initialized"
    <3>1. \A i \in 1..Len(net') : net'[i].type = "initialized" => i \in 1..Len(net)
      BY <1>4, <2>1, <2>3
    <3> QED BY <1>1, <1>3, <1>4, <2>1, <2>3, <3>1 DEF IInv, Greeting
  <2> QED BY <2>2, <2>3
<1> QED BY <1>5, <1>6, <1>7 DEF IInv

LEMMA ServerIInv ==
    ASSUME IInv, Publish \/ KeepAlive \/ Silence \/ PollDead
    PROVE  IInv'
<1>1. /\ UNCHANGED <<startVars, state, transport, timers, monitoring, messageId, net,
                     position, greeted>>
      /\ wire' = wire \/ (wire = "polling" /\ wire' = "dead")
      /\ published' \in {published, published + 1}
      /\ published' # published => published < MaxMessages
  <2>1. CASE Publish
    BY <2>1 DEF Publish, dataVars, wireVars
  <2>2. CASE KeepAlive
    BY <2>2 DEF KeepAlive, Unchanged, dataVars, wireVars, envVars
  <2>3. CASE Silence
    <3>1. published' = published
      BY <2>3 DEF Silence, Fail, envVars
    <3> QED BY <2>3, <3>1 DEF Silence, Unchanged, dataVars, wireVars
  <2>4. CASE PollDead
    BY <2>4 DEF PollDead, Unchanged, dataVars, Fail
  <2> QED BY <2>1, <2>2, <2>3, <2>4
<1>2. Typed'
  BY <1>1, SignalRAssumption DEF IInv, Typed
<1>3. Control'
  <2>1. net' # <<>> => wire' \in {"open", "broken"}
    BY <1>1 DEF IInv, Control, OnWire
  <2> QED BY <1>1, <2>1, WireControl DEF IInv
<1>4. Greeting'
  BY <1>1 DEF IInv, Greeting
<1> QED BY <1>2, <1>3, <1>4 DEF IInv

LEMMA BreakIInv == ASSUME IInv, Break PROVE IInv'
<1>1. /\ UNCHANGED <<startVars, state, transport, timers, monitoring, messageId, position,
                     greeted, published>>
      /\ wire = "open"
  BY DEF Break, Unchanged, dataVars, Fail
<1>2. \/ wire' = "broken" /\ \E n \in 0..Len(net) : net' = SubSeq(net, 1, n)
      \/ wire' = "dead" /\ net' = <<>>
  BY DEF Break
<1>3. /\ net' \in Seq(Frames) /\ Len(net') \in 0..Len(net)
      /\ \A i \in 1..Len(net') : net'[i] = net[i]
  <2>1. net \in Seq(Frames) /\ Len(net) \in Nat
    BY DEF IInv, Typed
  <2>2. CASE net' = <<>>
    BY <2>1, <2>2
  <2>3. CASE \E n \in 0..Len(net) : net' = SubSeq(net, 1, n)
    <3>1. PICK n \in 0..Len(net) : net' = SubSeq(net, 1, n)
      BY <2>3
    <3> QED BY <2>1, <3>1
  <2> QED BY <1>2, <2>2, <2>3
<1>4. Typed'
  BY <1>1, <1>3 DEF IInv, Typed
<1>5. Control'
  BY <1>1, <1>2, WireControl DEF IInv
<1>6. Greeting'
  BY <1>1, <1>2, <1>3, SMTT(30) DEF IInv, Typed, Greeting
<1> QED BY <1>4, <1>5, <1>6 DEF IInv

LEMMA EndIInv ==
    ASSUME IInv, NegotiateFails \/ PollDisconnected \/ onReconnectTimeout \/ pingServer \/ unload
    PROVE  IInv'
<1>1. stop /\ published' = published /\ deferral' \in {deferral, "rejected"}
  BY DEF NegotiateFails, PollDisconnected, onReconnectTimeout, pingServer, unload, Fail, envVars
<1>2. loaded /\ deferral # "none"
  <2>1. CASE NegotiateFails
    BY <2>1 DEF NegotiateFails, IInv, Control, Unstarted, Attempt
  <2>2. CASE PollDisconnected
    BY <2>2 DEF PollDisconnected, IInv, Control, Unstarted, Idle
  <2>3. CASE onReconnectTimeout \/ pingServer
    BY <2>3 DEF onReconnectTimeout, pingServer, IInv, Control, Unstarted, Timers
  <2>4. CASE unload
    BY <2>4 DEF unload, IInv, Control, Unstarted
  <2> QED BY <2>1, <2>2, <2>3, <2>4
<1> QED BY <1>1, <1>2, StopIInv

LEMMA TryIInv ==
    ASSUME IInv, Negotiated \/ ConnectTimeout
    PROVE  IInv'
<1>1. CASE Negotiated
  <2>1. negotiating /\ published' = published
    BY <1>1 DEF Negotiated, envVars
  <2>2. PICK transports : initialize(transports, timers)
    BY <1>1 DEF Negotiated
  <2>3. state = "connecting" /\ timers["poll"] = 0 /\ timers \in [Timers -> Nat]
    BY <2>1, SignalRAssumption
       DEF IInv, Typed, Control, Attempt, LongPolling, Timers, Transports
  <2> QED BY <2>1, <2>2, <2>3, InitializeIInv
<1>2. CASE ConnectTimeout
  BY <1>2, OnFailedIInv DEF ConnectTimeout, envVars, IInv, Control, Attempt
<1> QED BY <1>1, <1>2

LEMMA ReceiveIInv == ASSUME IInv, Receive PROVE IInv'
<1> DEFINE frame == Head(net)
<1>1. /\ net # <<>> /\ net \in Seq(Frames) /\ published' = published
      /\ processMessages(frame)
  BY DEF Receive, envVars, IInv, Typed
<1>2. /\ frame \in Frames /\ frame = net[1] /\ 1 \in 1..Len(net)
      /\ Tail(net) \in Seq(Frames) /\ Len(Tail(net)) = Len(net) - 1 /\ Len(net) \in Nat
      /\ \A i \in 1..Len(Tail(net)) : Tail(net)[i] = net[i + 1]
  BY <1>1
<1>3. frame.upTo \in 0..MaxMessages
  BY <1>2 DEF Frames
<1>4. wire \in {"open", "broken"} /\ loaded /\ deferral # "none" /\ transport # "longPolling"
  BY <1>1 DEF IInv, Control, OnWire, Idle, Unstarted, LongPolling
<1> HIDE DEF frame
<1>5. CASE stop /\ UNCHANGED deferral
  BY <1>1, <1>4, <1>5, StopIInv
<1>6. CASE /\ frame.type = "initialized" /\ onSuccess(frame.upTo)
           /\ net' = Tail(net) /\ UNCHANGED <<wire, position, greeted>>
  <2>1. state = "connecting" /\ greeted
        /\ \A j \in 1..Len(net) : net[j].type = "initialized" => j = 1
    BY <1>2, <1>6 DEF IInv, Greeting
  <2>2. Control' /\ state' = "connected" /\ timers' \in [Timers -> Nat]
        /\ messageId' = frame.upTo
    BY <1>1, <1>3, <1>4, <1>6, <2>1, SuccessControl
  <2>3. Typed'
    BY <1>1, <1>2, <1>3, <1>6, <2>2 DEF IInv, Typed, States
  <2>4. Greeting'
    <3>1. \A i \in 1..Len(net') : net'[i].type # "initialized"
      BY <1>2, <1>6, <2>1
    <3> QED BY <1>6, <2>1, <3>1 DEF Greeting
  <2> QED BY <2>2, <2>3, <2>4 DEF IInv
<1>7. CASE /\ onReceived(frame.from, frame.upTo) /\ net' = Tail(net)
           /\ UNCHANGED <<startVars, state, transport, wire, position, greeted, timers,
                          monitoring>>
  <2>1. messageId' = frame.upTo /\ frame.upTo # None
    BY <1>3, <1>7, SignalRAssumption DEF onReceived
  <2>2. Typed'
    BY <1>1, <1>2, <1>3, <1>7, <2>1 DEF IInv, Typed
  <2>3. Control'
    <3>1. (Unstarted /\ Idle /\ Attempt)'
      BY <1>7 DEF IInv, Control, Unstarted, Idle, Attempt, startVars
    <3>2. (LateTimers /\ LongPolling /\ OnWire)'
      BY <1>4, <1>7, <2>1 DEF IInv, Control, LateTimers, LongPolling, OnWire
    <3>3. (Watched /\ Tried /\ ReconnectingIsLimited)'
      BY <1>7 DEF IInv, Control, Watched, Tried, ReconnectingIsLimited, Streaming
    <3> QED BY <3>1, <3>2, <3>3 DEF Control
  <2>4. Greeting'
    <3>1. \A i \in 1..Len(net') : i + 1 \in 1..Len(net) /\ net'[i] = net[i + 1]
      BY <1>2, <1>7
    <3>2. \A i \in 1..Len(net) : net[i].type = "initialized" =>
             /\ state = "connecting" /\ greeted
             /\ \A j \in 1..Len(net) : net[j].type = "initialized" => j = i
      BY DEF IInv, Greeting
    <3>3. \A i \in 1..Len(net') : net'[i].type = "initialized" =>
             /\ state = "connecting" /\ greeted
             /\ \A j \in 1..Len(net') : net'[j].type = "initialized" => j = i
      BY <3>1, <3>2
    <3> QED BY <1>7, <3>3 DEF IInv, Greeting
  <2> QED BY <2>2, <2>3, <2>4 DEF IInv
<1> QED BY <1>1, <1>5, <1>6, <1>7 DEF processMessages, frame

LEMMA ParseFailureIInv == ASSUME IInv, handleParseFailure PROVE IInv'
<1>1. published' = published /\ wire \in {"open", "polling"}
  BY DEF handleParseFailure, Fail
<1>2. CASE state = "connecting"
  BY <1>1, <1>2, OnFailedIInv DEF handleParseFailure
<1>3. CASE state # "connecting"
  <2>1. stop /\ deferral' = deferral
    BY <1>3 DEF handleParseFailure
  <2>2. loaded /\ deferral # "none"
    BY <1>1 DEF IInv, Control, Unstarted, Idle
  <2> QED BY <1>1, <2>1, <2>2, StopIInv
<1> QED BY <1>2, <1>3

\* The timers after the reconnect of a transport: one of them will open a wire.
LEMMA Reconnects ==
    ASSUME NEW ts \in [Timers -> Nat]
    PROVE  /\ reconnect(ts) \in [Timers -> Nat]
           /\ \A t \in Timers \ {"frame", "reconnect"} : reconnect(ts)[t] = ts[t]
           /\ reconnect(ts)["reconnect"] # ts["reconnect"] => state \in {"connected", "reconnecting"}
           /\ state \in {"connected", "reconnecting"} =>
                 \/ transport = "foreverFrame" /\ reconnect(ts)["frame"] > 0
                 \/ transport # "foreverFrame" /\ reconnect(ts)["reconnect"] > 0
<1>1. CASE transport = "foreverFrame"
  <2>1. reconnect(ts) = [ts EXCEPT !["frame"] = IF @ < MaxTimers THEN @ + 1 ELSE @]
    BY <1>1 DEF reconnect
  <2>2. ts["frame"] \in Nat /\ MaxTimers \in Nat \ {0}
    BY SignalRAssumption DEF Timers
  <2> QED BY <1>1, <2>1, <2>2 DEF Timers
<1>2. CASE transport # "foreverFrame" /\ state \in {"connected", "reconnecting"}
  <2>1. reconnect(ts) = [ts EXCEPT !["reconnect"] = 1]
    BY <1>2 DEF reconnect, setTimeout
  <2> QED BY <1>2, <2>1 DEF Timers
<1>3. CASE transport # "foreverFrame" /\ state \notin {"connected", "reconnecting"}
  <2>1. reconnect(ts) = ts
    BY <1>3 DEF reconnect
  <2> QED BY <1>3, <2>1
<1> QED BY <1>1, <1>2, <1>3

\* Steps that set and clear timers, and may find a wire closed.
LEMMA TimersControl ==
    ASSUME IInv, UNCHANGED <<startVars, state, transport, monitoring, messageId, net>>,
           loaded, deferral # "none",
           \A t \in {"connect", "disconnect", "poll"} : timers'[t] = timers[t],
           \A t \in {"reconnect", "sse", "check"} :
              timers'[t] > 0 => state # "connecting" /\ transport # "longPolling",
           state \in {"connected", "reconnecting"} /\ Streaming => timers'["check"] > 0,
           wire' = wire \/ (wire' = "closed" /\ wire \in {"opening", "broken"} /\ net = <<>>),
           Tried'
    PROVE  Control'
<1>1. (Unstarted /\ Idle /\ Attempt)'
  BY DEF IInv, Control, Unstarted, Idle, Attempt, startVars
<1>2. (LateTimers /\ LongPolling /\ OnWire)'
  BY DEF IInv, Control, LateTimers, LongPolling, OnWire
<1>3. Watched' /\ ReconnectingIsLimited'
  BY DEF IInv, Control, Watched, ReconnectingIsLimited, Streaming
<1> QED BY <1>1, <1>2, <1>3 DEF Control

LEMMA CloseIInv == ASSUME IInv, onclose \/ ConnectFails PROVE IInv'
<1>1. /\ wire \in {"opening", "broken"} /\ net = <<>> /\ published' = published
      /\ transport # "longPolling" /\ loaded /\ deferral # "none"
  BY DEF onclose, ConnectFails, Fail, envVars, IInv, Control, OnWire, Unstarted, Idle, LongPolling
<1>2. CASE onFailed /\ state = "connecting"
  BY <1>1, <1>2, OnFailedIInv
<1>3. CASE /\ timers' = reconnect(timers) \/ (timers' = timers /\ transport = "serverSentEvents"
                                              /\ wire = "opening")
           /\ wire' = "closed"
           /\ UNCHANGED <<startVars, state, transport, net, position, greeted, monitoring, messageId>>
  <2>1. timers \in [Timers -> Nat]
    BY DEF IInv, Typed
  <2>2. /\ timers' \in [Timers -> Nat]
        /\ \A t \in Timers \ {"frame", "reconnect"} : timers'[t] = timers[t]
        /\ timers'["reconnect"] # timers["reconnect"] => state \in {"connected", "reconnecting"}
    BY <1>3, <2>1, Reconnects
  <2>3. Tried'
    <3>1. CASE timers' = timers /\ transport = "serverSentEvents" /\ wire = "opening"
      BY <1>3, <3>1 DEF IInv, Control, Tried
    <3>2. CASE timers' = reconnect(timers)
      BY <1>3, <2>1, <3>2, Reconnects DEF Tried
    <3> QED BY <1>3, <3>1, <3>2
  <2>4. \A t \in {"reconnect", "sse", "check"} :
           timers'[t] > 0 => state # "connecting" /\ transport # "longPolling"
    BY <1>1, <2>2 DEF IInv, Control, LateTimers, Timers
  <2>5. state \in {"connected", "reconnecting"} /\ Streaming => timers'["check"] > 0
    BY <2>2 DEF IInv, Control, Watched, Timers
  <2>6. \A t \in {"connect", "disconnect", "poll"} : timers'[t] = timers[t]
    BY <2>2 DEF Timers
  <2>7. Control'
    BY <1>1, <1>3, <2>3, <2>4, <2>5, <2>6, TimersControl
  <2>8. Typed'
    BY <1>1, <1>3, <2>2 DEF IInv, Typed
  <2>9. Greeting'
    BY <1>1, <1>3 DEF Greeting
  <2> QED BY <2>7, <2>8, <2>9 DEF IInv
<1>4. CASE onclose
  <2>1. timers' = reconnect(timers) /\ wire' = "closed" /\ messageId' = messageId
        /\ UNCHANGED <<startVars, state, transport, net, position, greeted, monitoring>>
    BY <1>4 DEF onclose, dataVars
  <2> QED BY <1>3, <2>1
<1>5. CASE ConnectFails
  <2>1. CASE state = "connecting" /\ transport # "foreverFrame"
    BY <1>2, <1>5, <2>1 DEF ConnectFails
  <2>2. CASE ~(state = "connecting" /\ transport # "foreverFrame")
    <3>1. /\ wire = "opening" /\ wire' = "closed" /\ messageId' = messageId
          /\ UNCHANGED <<startVars, state, transport, net, position, greeted, monitoring>>
          /\ timers' = IF transport = "serverSentEvents" THEN timers ELSE reconnect(timers)
      BY <1>5, <2>2 DEF ConnectFails, dataVars
    <3> QED BY <1>3, <3>1
  <2> QED BY <2>1, <2>2
<1> QED BY <1>4, <1>5

LEMMA SseIInv == ASSUME IInv, SseTimer PROVE IInv'
<1> DEFINE fired == clearTimeout(timers, {"sse"})
<1>1. /\ UNCHANGED <<startVars, state, transport, monitoring, messageId, net, wire, position,
                     greeted, published>>
      /\ timers["sse"] > 0
      /\ timers' = IF wire = "none" THEN fired ELSE reconnect(fired)
  BY DEF SseTimer, wireVars, dataVars, envVars
<1>2. /\ fired \in [Timers -> Nat] /\ fired["sse"] = 0
      /\ \A t \in Timers \ {"sse"} : fired[t] = timers[t]
  <2>1. timers \in [Timers -> Nat]
    BY DEF IInv, Typed
  <2> QED BY <2>1, Cleared DEF Timers
<1> HIDE DEF fired
<1>3. loaded /\ deferral # "none" /\ state # "connecting" /\ transport # "longPolling"
  BY <1>1 DEF IInv, Control, Unstarted, LateTimers, Timers
<1>4. /\ timers' \in [Timers -> Nat]
      /\ \A t \in Timers \ {"frame", "reconnect", "sse"} : timers'[t] = timers[t]
  BY <1>1, <1>2, Reconnects
<1>5. Tried'
  <2>1. CASE wire = "none"
    BY <1>1, <2>1 DEF Tried
  <2>2. CASE wire # "none"
    BY <1>1, <1>2, <2>2, Reconnects DEF Tried
  <2> QED BY <2>1, <2>2
<1>6. state \in {"connected", "reconnecting"} /\ Streaming => timers'["check"] > 0
  BY <1>4 DEF IInv, Control, Watched, Timers
<1>7. \A t \in {"connect", "disconnect", "poll"} : timers'[t] = timers[t]
  BY <1>4 DEF Timers
<1>8. Control'
  BY <1>1, <1>3, <1>5, <1>6, <1>7, TimersControl
<1>9. Typed' /\ Greeting'
  BY <1>1, <1>4 DEF IInv, Typed, Greeting
<1> QED BY <1>8, <1>9 DEF IInv

LEMMA CheckIInv == ASSUME IInv, checkIfAlive PROVE IInv'
<1> DEFINE next == [timers EXCEPT !["check"] = IF monitoring THEN 1 ELSE 0]
<1>1. /\ UNCHANGED <<startVars, state, transport, monitoring, messageId, net, wire, position,
                     greeted, published>>
      /\ timers["check"] > 0
      /\ timers' = IF state = "connected" /\ silent THEN reconnect(next) ELSE next
  BY DEF checkIfAlive, wireVars, dataVars, envVars
<1>2. /\ next \in [Timers -> Nat] /\ next["check"] = IF monitoring THEN 1 ELSE 0
      /\ \A t \in Timers \ {"check"} : next[t] = timers[t]
  BY DEF IInv, Typed, Timers
<1> HIDE DEF next
<1>3. loaded /\ deferral # "none" /\ state # "connecting" /\ transport # "longPolling"
  BY <1>1 DEF IInv, Control, Unstarted, LateTimers, Timers
<1>4. /\ timers' \in [Timers -> Nat]
      /\ \A t \in Timers \ {"frame", "reconnect", "check"} : timers'[t] = timers[t]
      /\ timers'["check"] = next["check"]
  BY <1>1, <1>2, Reconnects DEF Timers
<1>5. Tried'
  <2>1. CASE state = "connected" /\ silent
    BY <1>1, <1>2, <2>1, Reconnects DEF Tried
  <2>2. CASE ~(state = "connected" /\ silent)
    BY <1>1, <1>2, <2>2 DEF IInv, Control, Tried, Timers
  <2> QED BY <2>1, <2>2
<1>6. state \in {"connected", "reconnecting"} /\ Streaming => timers'["check"] > 0
  BY <1>2, <1>4 DEF IInv, Control, Watched
<1>7. \A t \in {"connect", "disconnect", "poll"} : timers'[t] = timers[t]
  BY <1>4 DEF Timers
<1>8. Control'
  BY <1>1, <1>3, <1>5, <1>6, <1>7, TimersControl
<1>9. Typed' /\ Greeting'
  BY <1>1, <1>4 DEF IInv, Typed, Greeting
<1> QED BY <1>8, <1>9 DEF IInv

\* The two changes of state after a connection is made.
LEMMA EnsureReconnecting ==
    ASSUME IInv, NEW ts \in [Timers -> Nat], ts["disconnect"] = timers["disconnect"],
           ensureReconnectingState(ts)
    PROVE  /\ state \in {"connected", "reconnecting"} /\ state' = "reconnecting"
           /\ timers' \in [Timers -> Nat] /\ ReconnectingIsLimited'
           /\ \A t \in Timers \ {"disconnect"} : timers'[t] = ts[t]
<1>1. state \in {"connected", "reconnecting"} /\ state' = "reconnecting"
  BY DEF ensureReconnectingState
<1>2. CASE state = "connected"
  <2>1. timers' = setTimeout(ts, "disconnect")
    BY <1>2 DEF ensureReconnectingState
  <2> QED BY <1>1, <2>1 DEF setTimeout, ReconnectingIsLimited, Timers
<1>3. CASE state = "reconnecting"
  <2>1. timers' = ts
    BY <1>3 DEF ensureReconnectingState
  <2> QED BY <1>1, <1>3, <2>1 DEF IInv, Control, ReconnectingIsLimited
<1> QED BY <1>1, <1>2, <1>3

LEMMA Reconnected ==
    ASSUME IInv, NEW ts \in [Timers -> Nat], ts["disconnect"] = timers["disconnect"],
           reconnected(ts)
    PROVE  /\ state' = state \/ (state = "reconnecting" /\ state' = "connected")
           /\ timers' \in [Timers -> Nat] /\ ReconnectingIsLimited'
           /\ \A t \in Timers \ {"disconnect"} : timers'[t] = ts[t]
<1>1. CASE state = "reconnecting"
  <2>1. state' = "connected" /\ timers' = clearTimeout(ts, {"disconnect"})
    BY <1>1 DEF reconnected
  <2> QED BY <1>1, <2>1 DEF clearTimeout, ReconnectingIsLimited, Timers
<1>2. CASE state # "reconnecting"
  <2>1. state' = state /\ timers' = ts
    BY <1>2 DEF reconnected
  <2> QED BY <1>2, <2>1 DEF IInv, Control, ReconnectingIsLimited
<1> QED BY <1>1, <1>2

\* Steps of a connection that is made, or was, and that keep its transport.
LEMMA StartedControl ==
    ASSUME IInv, UNCHANGED <<startVars, transport, monitoring>>, loaded, deferral # "none",
           \/ state' = state
           \/ state \in {"connected", "reconnecting"} /\ state' \in {"connected", "reconnecting"},
           messageId' = messageId \/ (messageId # None /\ messageId' # None),
           timers'["connect"] > 0 => timers["connect"] > 0,
           \A t \in {"reconnect", "sse", "check"} :
              timers'[t] > 0 => state' # "connecting" /\ transport # "longPolling",
           timers'["poll"] > 0 => transport = "longPolling",
           timers'["check"] = timers["check"],
           wire' # wire => /\ state # "disconnected" /\ wire' \in {"opening", "open", "polling", "closed"}
                           /\ transport = "longPolling" => wire' \in {"polling", "closed"}
                           /\ wire' = "polling" => transport = "longPolling"
                           /\ ~negotiating,
           net' # <<>> => wire' \in {"open", "broken"},
           Tried', ReconnectingIsLimited'
    PROVE  Control'
<1>1. (Unstarted /\ Idle /\ Attempt)'
  BY DEF IInv, Control, Unstarted, Idle, Attempt, startVars
<1>2. (LateTimers /\ LongPolling /\ OnWire)'
  BY DEF IInv, Control, LateTimers, LongPolling, OnWire
<1>3. Watched'
  BY DEF IInv, Control, Watched, Streaming
<1> QED BY <1>1, <1>2, <1>3 DEF Control

LEMMA OpenIInv == ASSUME IInv, onopen PROVE IInv'
<1> DEFINE gone == {"sse"} \cup OwnTimers(transport)
           ts == clearTimeout(timers, gone)
<1>1. /\ wire = "opening" /\ wire' = "open" /\ reconnected(ts)
      /\ position' = IF state = "connecting" THEN published ELSE messageId
      /\ greeted' = (state # "connecting")
      /\ UNCHANGED <<startVars, transport, net, monitoring, messageId, published>>
  BY DEF onopen, dataVars, envVars
<1>2. /\ net = <<>> /\ loaded /\ deferral # "none" /\ state # "disconnected" /\ ~negotiating
      /\ transport # "longPolling"
      /\ state \in {"connected", "reconnecting"} => messageId # None
  BY <1>1 DEF IInv, Control, OnWire, Idle, Unstarted, Attempt, LongPolling
<1>3. /\ ts \in [Timers -> Nat]
      /\ \A t \in Timers : ts[t] \in {0, timers[t]}
      /\ ts["disconnect"] = timers["disconnect"] /\ ts["check"] = timers["check"]
  <2>1. "disconnect" \notin gone /\ "check" \notin gone
    BY DEF OwnTimers
  <2>2. timers \in [Timers -> Nat]
    BY DEF IInv, Typed
  <2> HIDE DEF gone
  <2> QED BY <2>1, <2>2, Cleared DEF Timers
<1> HIDE DEF ts
<1>4. /\ state' = state \/ (state = "reconnecting" /\ state' = "connected")
      /\ timers' \in [Timers -> Nat] /\ ReconnectingIsLimited'
      /\ \A t \in Timers \ {"disconnect"} : timers'[t] = ts[t]
  BY <1>1, <1>3, Reconnected
<1>5. Typed'
  BY <1>1, <1>2, <1>4 DEF IInv, Typed, States
<1>6. /\ timers'["connect"] > 0 => timers["connect"] > 0
      /\ timers'["poll"] > 0 => transport = "longPolling"
      /\ timers'["check"] = timers["check"]
      /\ \A t \in {"reconnect", "sse", "check"} :
              timers'[t] > 0 => state' # "connecting" /\ transport # "longPolling"
  BY <1>3, <1>4 DEF IInv, Control, LateTimers, LongPolling, Timers
<1>7. Tried'
  BY <1>1 DEF Tried
<1>8. Control'
  BY <1>1, <1>2, <1>4, <1>6, <1>7, StartedControl
<1>9. Greeting'
  <2>1. CASE state = "connecting"
    BY <1>1, <1>2, <1>4, <2>1 DEF Greeting
  <2>2. CASE state # "connecting"
    <3>1. greeted' = TRUE
      BY <1>1, <2>2
    <3> QED BY <1>1, <1>2, <3>1 DEF Greeting
  <2> QED BY <2>1, <2>2
<1> QED BY <1>5, <1>8, <1>9 DEF IInv

LEMMA ReconnectTimerIInv == ASSUME IInv, ReconnectTimer PROVE IInv'
<1> DEFINE cleared == clearTimeout(timers, {"reconnect"})
           ts == [cleared EXCEPT !["sse"] = IF transport = "serverSentEvents" THEN 1 ELSE @]
<1>1. /\ timers["reconnect"] > 0 /\ ensureReconnectingState(ts)
      /\ wire' = "opening" /\ net' = <<>>
      /\ UNCHANGED <<startVars, transport, position, greeted, monitoring, messageId, published>>
  BY DEF ReconnectTimer, dataVars, envVars
<1>2. loaded /\ deferral # "none" /\ transport # "longPolling"
  BY <1>1 DEF IInv, Control, Unstarted, LateTimers, Timers
<1>3. /\ ts \in [Timers -> Nat] /\ ts["reconnect"] = 0
      /\ \A t \in Timers \ {"reconnect", "sse"} : ts[t] = timers[t]
      /\ transport = "serverSentEvents" => ts["sse"] = 1
  <2>1. timers \in [Timers -> Nat]
    BY DEF IInv, Typed
  <2>2. /\ cleared \in [Timers -> Nat] /\ cleared["reconnect"] = 0
        /\ \A t \in Timers \ {"reconnect"} : cleared[t] = timers[t]
    BY <2>1, Cleared DEF Timers
  <2> HIDE DEF cleared
  <2> QED BY <2>2 DEF Timers
<1> HIDE DEF ts
<1>4. /\ state \in {"connected", "reconnecting"} /\ state' = "reconnecting"
      /\ timers' \in [Timers -> Nat] /\ ReconnectingIsLimited'
      /\ \A t \in Timers \ {"disconnect"} : timers'[t] = ts[t]
  BY <1>1, <1>3, EnsureReconnecting DEF Timers
<1>5. Typed'
  BY <1>1, <1>4 DEF IInv, Typed, States
<1>6. /\ timers'["connect"] > 0 => timers["connect"] > 0
      /\ timers'["poll"] > 0 => transport = "longPolling"
      /\ timers'["check"] = timers["check"]
      /\ \A t \in {"reconnect", "sse", "check"} :
              timers'[t] > 0 => state' # "connecting" /\ transport # "longPolling"
  BY <1>2, <1>3, <1>4 DEF IInv, Control, LongPolling, Timers
<1>7. Tried'
  BY <1>1, <1>3, <1>4 DEF Tried, Timers
<1>8. ~negotiating
  BY <1>4 DEF IInv, Control, Attempt
<1>9. Control'
  BY <1>1, <1>2, <1>4, <1>6, <1>7, <1>8, StartedControl
<1>10. Greeting'
  BY <1>1 DEF Greeting
<1> QED BY <1>5, <1>9, <1>10 DEF IInv

LEMMA FrameTimerIInv == ASSUME IInv, FrameTimer PROVE IInv'
<1> DEFINE fired == [timers EXCEPT !["frame"] = @ - 1]
<1>1. /\ timers["frame"] > 0
      /\ UNCHANGED <<startVars, transport, position, greeted, monitoring, messageId, published>>
      /\ IF transport = "foreverFrame" /\ state # "connecting"
           THEN ensureReconnectingState(fired) /\ wire' = "opening" /\ net' = <<>>
           ELSE timers' = fired /\ UNCHANGED <<state, wire, net>>
  BY DEF FrameTimer, dataVars, envVars
<1>2. loaded /\ deferral # "none"
  BY <1>1 DEF IInv, Control, Unstarted, Timers
<1>3. fired \in [Timers -> Nat] /\ \A t \in Timers \ {"frame"} : fired[t] = timers[t]
  <2>1. timers \in [Timers -> Nat] /\ timers["frame"] - 1 \in Nat
    BY <1>1 DEF IInv, Typed, Timers
  <2> QED BY <2>1
<1> HIDE DEF fired
<1>4. CASE transport = "foreverFrame" /\ state # "connecting"
  <2>1. ensureReconnectingState(fired) /\ wire' = "opening" /\ net' = <<>>
    BY <1>1, <1>4
  <2>2. /\ state \in {"connected", "reconnecting"} /\ state' = "reconnecting"
        /\ timers' \in [Timers -> Nat] /\ ReconnectingIsLimited'
        /\ \A t \in Timers \ {"disconnect"} : timers'[t] = fired[t]
    BY <1>3, <2>1, EnsureReconnecting DEF Timers
  <2>3. Typed'
    BY <1>1, <2>1, <2>2 DEF IInv, Typed, States
  <2>4. /\ timers'["connect"] > 0 => timers["connect"] > 0
        /\ timers'["poll"] > 0 => transport = "longPolling"
        /\ timers'["check"] = timers["check"]
        /\ \A t \in {"reconnect", "sse", "check"} :
                timers'[t] > 0 => state' # "connecting" /\ transport # "longPolling"
    BY <1>3, <1>4, <2>2 DEF IInv, Control, LongPolling, Timers
  <2>5. Tried'
    BY <1>1, <1>4, <2>1 DEF Tried
  <2>6. ~negotiating
    BY <2>2 DEF IInv, Control, Attempt
  <2>7. Control'
    BY <1>1, <1>2, <1>4, <2>1, <2>2, <2>4, <2>5, <2>6, StartedControl
  <2>8. Greeting'
    BY <2>1 DEF Greeting
  <2> QED BY <2>3, <2>7, <2>8 DEF IInv
<1>5. CASE ~(transport = "foreverFrame" /\ state # "connecting")
  <2>1. timers' = fired /\ UNCHANGED <<state, wire, net>>
    BY <1>1, <1>5
  <2>2. Typed'
    BY <1>1, <1>3, <2>1 DEF IInv, Typed
  <2>3. Tried'
    BY <1>1, <1>3, <1>5, <2>1 DEF IInv, Control, Tried, Timers
  <2>4. /\ \A t \in {"connect", "disconnect", "poll"} : timers'[t] = timers[t]
        /\ \A t \in {"reconnect", "sse", "check"} :
              timers'[t] > 0 => state # "connecting" /\ transport # "longPolling"
        /\ state \in {"connected", "reconnecting"} /\ Streaming => timers'["check"] > 0
    BY <1>3, <2>1 DEF IInv, Control, LateTimers, Watched, Timers
  <2>5. Control'
    BY <1>1, <1>2, <2>1, <2>3, <2>4, TimersControl
  <2>6. Greeting'
    BY <1>1, <2>1 DEF IInv, Greeting
  <2> QED BY <2>2, <2>5, <2>6 DEF IInv
<1> QED BY <1>4, <1>5

LEMMA PollTimerIInv == ASSUME IInv, PollTimer PROVE IInv'
<1> DEFINE fired == clearTimeout(timers, {"poll"})
<1>1. /\ timers["poll"] > 0
      /\ wire' = IF state = "disconnected" THEN wire ELSE "polling"
      /\ timers' = IF messageId = None THEN fired ELSE setTimeout(fired, "fireReconnected")
      /\ UNCHANGED <<startVars, state, transport, net, position, greeted, monitoring, messageId,
                     published>>
  BY DEF PollTimer, pollVars, dataVars, envVars
<1>2. /\ transport = "longPolling" /\ loaded /\ deferral # "none" /\ net = <<>>
      /\ state # "disconnected" /\ ~negotiating
  BY <1>1, SignalRAssumption
     DEF IInv, Control, Unstarted, Idle, Attempt, LongPolling, OnWire, Timers, Transports
<1>3. /\ timers' \in [Timers -> Nat] /\ timers'["poll"] = 0
      /\ \A t \in Timers \ {"poll", "fireReconnected"} : timers'[t] = timers[t]
  <2>1. timers \in [Timers -> Nat]
    BY DEF IInv, Typed
  <2>2. /\ fired \in [Timers -> Nat] /\ fired["poll"] = 0
        /\ \A t \in Timers \ {"poll"} : fired[t] = timers[t]
    BY <2>1, Cleared DEF Timers
  <2> HIDE DEF fired
  <2> QED BY <1>1, <2>2, Set DEF Timers
<1>4. Typed'
  BY <1>1, <1>3 DEF IInv, Typed
<1>5. /\ \A t \in {"connect", "disconnect", "check"} : timers'[t] = timers[t]
      /\ \A t \in {"reconnect", "sse", "check"} :
            timers'[t] > 0 => state # "connecting" /\ transport # "longPolling"
  BY <1>3 DEF IInv, Control, LateTimers, Timers
<1>6. Tried' /\ ReconnectingIsLimited'
  BY <1>1, <1>2, <1>5 DEF IInv, Control, Tried, ReconnectingIsLimited
<1>7. Control'
  BY <1>1, <1>2, <1>3, <1>5, <1>6, StartedControl
<1>8. Greeting'
  BY <1>1, <1>2 DEF IInv, Greeting
<1> QED BY <1>4, <1>7, <1>8 DEF IInv

\* A poll raises reconnected, on its own or because it is answered.
LEMMA PollStateIInv ==
    ASSUME IInv, loaded, deferral # "none",
           UNCHANGED <<startVars, transport, wire, net, position, greeted, monitoring, published>>,
           messageId' = messageId \/ (messageId # None /\ messageId' \in 0..MaxMessages),
           \/ reconnected(clearTimeout(timers, {"fireReconnected"}))
           \/ UNCHANGED <<state, timers>>
    PROVE  IInv'
<1> DEFINE ts == clearTimeout(timers, {"fireReconnected"})
<1>1. /\ ts \in [Timers -> Nat] /\ timers \in [Timers -> Nat]
      /\ \A t \in Timers \ {"fireReconnected"} : ts[t] = timers[t]
  <2>1. timers \in [Timers -> Nat]
    BY DEF IInv, Typed
  <2> QED BY <2>1, Cleared DEF Timers
<1>2. reconnected(ts) \/ UNCHANGED <<state, timers>>
  OBVIOUS
<1> HIDE DEF ts
<1>3. /\ state' = state \/ (state = "reconnecting" /\ state' = "connected")
      /\ timers' \in [Timers -> Nat] /\ ReconnectingIsLimited'
      /\ \A t \in Timers \ {"disconnect", "fireReconnected"} : timers'[t] = timers[t]
  <2>1. CASE reconnected(ts)
    BY <1>1, <2>1, Reconnected DEF Timers
  <2>2. CASE UNCHANGED <<state, timers>>
    BY <1>1, <2>2 DEF IInv, Control, ReconnectingIsLimited
  <2> QED BY <1>2, <2>1, <2>2
<1>4. messageId' = messageId \/ (messageId # None /\ messageId' # None)
  BY SignalRAssumption
<1>5. Typed'
  BY <1>3 DEF IInv, Typed, States
<1>6. /\ timers'["connect"] > 0 => timers["connect"] > 0
      /\ timers'["poll"] > 0 => transport = "longPolling"
      /\ timers'["check"] = timers["check"]
      /\ \A t \in {"reconnect", "sse", "check"} :
              timers'[t] > 0 => state' # "connecting" /\ transport # "longPolling"
  BY <1>3 DEF IInv, Control, LateTimers, LongPolling, Timers
<1>7. Tried'
  BY <1>3 DEF IInv, Control, Tried, Timers
<1>8. net' # <<>> => wire' \in {"open", "broken"}
  BY DEF IInv, Control, OnWire
<1>9. Control'
  BY <1>3, <1>4, <1>6, <1>7, <1>8, StartedControl
<1>10. Greeting'
  BY <1>3 DEF IInv, Greeting
<1> QED BY <1>5, <1>9, <1>10 DEF IInv

LEMMA PollIInv ==
    ASSUME IInv, fireReconnected \/ PollReceived
    PROVE  IInv'
<1>1. CASE fireReconnected
  <2>1. loaded /\ deferral # "none"
    BY <1>1 DEF fireReconnected, IInv, Control, Unstarted, Timers
  <2>2. /\ UNCHANGED <<startVars, transport, wire, net, position, greeted, monitoring, published>>
        /\ messageId' = messageId
        /\ reconnected(clearTimeout(timers, {"fireReconnected"}))
    BY <1>1 DEF fireReconnected, pollVars, dataVars, envVars
  <2> QED BY <2>1, <2>2, PollStateIInv
<1>2. CASE PollReceived
  <2>1. wire = "polling" /\ messageId # None
    BY <1>2 DEF PollReceived
  <2>2. loaded /\ deferral # "none"
    BY <2>1 DEF IInv, Control, Unstarted, Idle
  <2>3. PICK upTo \in messageId..published : onReceived(messageId, upTo)
    BY <1>2 DEF PollReceived
  <2>4. messageId' = upTo /\ upTo \in 0..MaxMessages
    <3>1. messageId \in 0..MaxMessages /\ published \in 0..MaxMessages
      BY <2>1 DEF IInv, Typed
    <3> QED BY <2>3, <3>1, SignalRAssumption DEF onReceived
  <2>5. UNCHANGED <<startVars, transport, wire, net, position, greeted, monitoring, published>>
    BY <1>2 DEF PollReceived, pollVars, envVars
  <2>6. \/ reconnected(clearTimeout(timers, {"fireReconnected"}))
        \/ UNCHANGED <<state, timers>>
    BY <1>2 DEF PollReceived, answered
  <2> QED BY <2>1, <2>2, <2>4, <2>5, <2>6, PollStateIInv
<1> QED BY <1>1, <1>2

LEMMA PollConnectedIInv == ASSUME IInv, PollConnected PROVE IInv'
<1>1. /\ wire = "polling" /\ messageId = None /\ onSuccess(published)
      /\ UNCHANGED <<wire, net, position, greeted, published>>
  BY DEF PollConnected, wireVars, envVars
<1>2. state = "connecting" /\ published \in 0..MaxMessages
  BY <1>1 DEF IInv, Typed, Control, LongPolling
<1>3. /\ Control'
      /\ state' = "connected" /\ timers' \in [Timers -> Nat] /\ messageId' = published
  BY <1>1, <1>2, SuccessControl
<1>4. Typed'
  BY <1>1, <1>2, <1>3 DEF IInv, Typed, States
<1>5. Greeting'
  <2>1. net = <<>>
    BY <1>1 DEF IInv, Control, OnWire
  <2> QED BY <1>1, <2>1 DEF Greeting
<1> QED BY <1>3, <1>4, <1>5 DEF IInv

\* A poll that fails, or that tells of the end of its server.
LEMMA PollFailsIInv ==
    ASSUME IInv, PollError \/ PollShouldReconnect
    PROVE  IInv'
<1>1. wire = "polling" /\ published' = published
  BY DEF PollError, PollShouldReconnect, Fail
<1>2. /\ transport = "longPolling" /\ loaded /\ deferral # "none" /\ state # "disconnected"
      /\ net = <<>> /\ ~negotiating /\ timers \in [Timers -> Nat]
  BY <1>1, SignalRAssumption
     DEF IInv, Typed, Control, Unstarted, Idle, Attempt, LongPolling, OnWire, Transports
<1>3. CASE state = "connecting" /\ PollError
  BY <1>1, <1>3, OnFailedIInv DEF PollError
<1>4. ASSUME wire' \in {"polling", "closed"}, state # "connecting",
             state' = "reconnecting", timers' \in [Timers -> Nat], ReconnectingIsLimited',
             wire' = "closed" => timers'["poll"] > 0,
             \A t \in {"connect", "reconnect", "sse", "check"} : timers'[t] = timers[t],
             UNCHANGED <<startVars, transport, net, position, greeted, monitoring, messageId>>
      PROVE  IInv'
  <2>1. Typed'
    BY <1>1, <1>4 DEF IInv, Typed, States
  <2>2. state \in {"connected", "reconnecting"}
    BY <1>2, <1>4 DEF IInv, Typed, States
  <2>3. \A t \in {"reconnect", "sse", "check"} :
           timers'[t] > 0 => state' # "connecting" /\ transport # "longPolling"
    BY <1>4 DEF IInv, Control, LateTimers
  <2>4. Tried'
    BY <1>2, <1>4 DEF Tried
  <2>5. Control'
    BY <1>1, <1>2, <1>4, <2>2, <2>3, <2>4, StartedControl
  <2>6. Greeting'
    BY <1>2, <1>4 DEF Greeting
  <2> QED BY <2>1, <2>5, <2>6 DEF IInv
<1>5. CASE state # "connecting" /\ PollError
  <2> DEFINE ts == setTimeout(clearTimeout(timers, {"fireReconnected"}), "poll")
  <2>1. /\ ensureReconnectingState(ts) /\ wire' = "closed"
        /\ UNCHANGED <<startVars, transport, net, position, greeted, monitoring, messageId>>
    BY <1>5 DEF PollError, dataVars
  <2>2. /\ ts \in [Timers -> Nat] /\ ts["poll"] = 1
        /\ \A t \in Timers \ {"fireReconnected", "poll"} : ts[t] = timers[t]
    <3> DEFINE cleared == clearTimeout(timers, {"fireReconnected"})
    <3>1. /\ cleared \in [Timers -> Nat]
          /\ \A t \in Timers \ {"fireReconnected"} : cleared[t] = timers[t]
      BY <1>2, Cleared
    <3>2. ts = setTimeout(cleared, "poll")
      OBVIOUS
    <3> HIDE DEF cleared, ts
    <3> QED BY <3>1, <3>2, Set DEF Timers
  <2> HIDE DEF ts
  <2>3. /\ state' = "reconnecting" /\ timers' \in [Timers -> Nat] /\ ReconnectingIsLimited'
        /\ \A t \in Timers \ {"disconnect"} : timers'[t] = ts[t]
    BY <2>1, <2>2, EnsureReconnecting DEF Timers
  <2>4. /\ timers'["poll"] > 0
        /\ \A t \in {"connect", "reconnect", "sse", "check"} : timers'[t] = timers[t]
    BY <2>2, <2>3 DEF Timers
  <2> QED BY <1>4, <1>5, <2>1, <2>3, <2>4
<1>6. CASE PollShouldReconnect
  <2>1. /\ state' = "reconnecting" /\ messageId # None
        /\ timers' = setTimeout(setTimeout(timers, "disconnect"), "fireReconnected")
        /\ UNCHANGED <<startVars, transport, wire, net, position, greeted, monitoring, messageId>>
    BY <1>6 DEF PollShouldReconnect, wireVars, dataVars
  <2>2. state # "connecting"
    BY <1>2, <2>1 DEF IInv, Control, LongPolling
  <2>3. /\ timers' \in [Timers -> Nat] /\ timers'["disconnect"] = 1
        /\ \A t \in {"connect", "reconnect", "sse", "check"} : timers'[t] = timers[t]
    BY <1>2, <2>1 DEF setTimeout, Timers
  <2>4. ReconnectingIsLimited'
    BY <2>1, <2>3 DEF ReconnectingIsLimited
  <2> QED BY <1>1, <1>4, <2>1, <2>2, <2>3, <2>4
<1> QED BY <1>3, <1>5, <1>6

LEMMA IInvNext == IInv /\ [Next]_vars => IInv'
<1> SUFFICES ASSUME IInv, [Next]_vars PROVE IInv'
  OBVIOUS
<1>1. CASE UNCHANGED vars
  <2>1. UNCHANGED <<startVars, state, transport, wire, net, position, greeted, timers,
                    monitoring, messageId, published>>
    BY <1>1 DEF vars, wireVars, dataVars, envVars
  <2>2. Typed' /\ Greeting'
    BY <2>1 DEF IInv, Typed, Greeting
  <2>3. net' # <<>> => wire' \in {"open", "broken"}
    BY <2>1 DEF IInv, Control, OnWire
  <2>4. Control'
    BY <2>1, <2>3, WireControl DEF IInv
  <2> QED BY <2>2, <2>4 DEF IInv
<1>2. CASE Next
  <2>1. CASE start \/ load \/ Negotiated \/ NegotiateFails \/ ConnectTimeout
             \/ Receive \/ handleParseFailure
    BY <2>1, StartIInv, TryIInv, EndIInv, ReceiveIInv, ParseFailureIInv
  <2>2. CASE Publish \/ SendInitialized \/ SendMessages \/ SendDisconnect \/ KeepAlive
             \/ Silence \/ Break
    BY <2>2, ServerIInv, SendIInv, BreakIInv
  <2>3. CASE onopen \/ ConnectFails \/ onclose \/ ReconnectTimer \/ SseTimer \/ FrameTimer
             \/ checkIfAlive
    BY <2>3, OpenIInv, CloseIInv, ReconnectTimerIInv, SseIInv, FrameTimerIInv, CheckIInv
  <2>4. CASE PollTimer \/ fireReconnected \/ PollConnected \/ PollReceived
             \/ PollShouldReconnect \/ PollDisconnected \/ PollError \/ PollDead
    BY <2>4, PollTimerIInv, PollIInv, PollConnectedIInv, PollFailsIInv, EndIInv, ServerIInv
  <2>5. CASE onReconnectTimeout \/ pingServer \/ unload
    BY <2>5, EndIInv
  <2> QED BY <1>2, <2>1, <2>2, <2>3, <2>4, <2>5 DEF Next
<1> QED BY <1>1, <1>2

LEMMA IInvAlways == Spec => []IInv
  BY IInvInit, IInvNext, PTL DEF Spec

\* When the connection is over, what is still on its way finds nothing to work on.
LEMMA FinalStep ==
    ASSUME IInv, Over, Next
    PROVE  Over' /\ wire' = "none" /\ shown' = shown
<1>1. /\ transport = None /\ wire = "none" /\ net = <<>> /\ ~negotiating
      /\ state = "disconnected" /\ loaded /\ deferral # "none"
      /\ timers["connect"] = 0 /\ timers["poll"] = 0 /\ timers \in [Timers -> Nat]
  BY SignalRAssumption DEF Over, IInv, Typed, Control, Idle, Attempt, LongPolling, OnWire,
     Timers, Transports
<1>2. \/ onReconnectTimeout \/ pingServer
      \/ Publish \/ Silence \/ SseTimer \/ FrameTimer \/ checkIfAlive \/ fireReconnected
  <2>1. ~(start \/ load)
    BY <1>1 DEF start, load
  <2>2. ~(Negotiated \/ NegotiateFails \/ ConnectTimeout \/ Receive \/ handleParseFailure)
    BY <1>1 DEF Negotiated, NegotiateFails, ConnectTimeout, Receive, handleParseFailure
  <2>3. ~(SendInitialized \/ SendMessages \/ SendDisconnect \/ KeepAlive \/ Break)
    BY <1>1 DEF SendInitialized, SendMessages, SendDisconnect, KeepAlive, Break
  <2>4. ~(onopen \/ ConnectFails \/ onclose \/ ReconnectTimer)
    BY <1>1 DEF onopen, ConnectFails, onclose, ReconnectTimer, ensureReconnectingState
  <2>5. ~(PollTimer \/ PollConnected \/ PollReceived \/ PollShouldReconnect
          \/ PollDisconnected \/ PollError \/ PollDead)
    BY <1>1 DEF PollTimer, PollConnected, PollReceived, PollShouldReconnect,
       PollDisconnected, PollError, PollDead
  <2>6. ~unload
    BY <1>1 DEF unload
  <2> QED BY <2>1, <2>2, <2>3, <2>4, <2>5, <2>6 DEF Next
<1>3. CASE onReconnectTimeout \/ pingServer
  <2>1. stop /\ deferral' = deferral
    BY <1>3 DEF onReconnectTimeout, pingServer
  <2> QED BY <1>1, <2>1 DEF stop, Over
<1>4. CASE Publish \/ Silence \/ SseTimer \/ checkIfAlive
  BY <1>1, <1>4 DEF Publish, Silence, SseTimer, checkIfAlive, Unchanged, startVars, wireVars,
     dataVars, Over
<1>5. CASE FrameTimer
  <2>1. transport # "foreverFrame"
    BY <1>1, SignalRAssumption DEF Transports
  <2> QED BY <1>1, <1>5, <2>1 DEF FrameTimer, startVars, dataVars, Over
<1>6. CASE fireReconnected
  BY <1>1, <1>6 DEF fireReconnected, reconnected, pollVars, startVars, dataVars, Over
<1> QED BY <1>2, <1>3, <1>4, <1>5, <1>6

\* The timeout that ends a reconnect is set exactly as long as the connection reconnects.
THEOREM ReconnectLimited == Spec => []ReconnectingIsLimited
<1>1. IInv => ReconnectingIsLimited
  BY DEF IInv, Control
<1> QED BY IInvAlways, <1>1, PTL

\* A connection over a streaming transport that claims to be connected has a look at its
\* keep alive ahead of it.
THEOREM LossWatched == Spec => []LossIsWatched
<1>1. IInv => LossIsWatched
  BY DEF IInv, Control, Watched, LossIsWatched
<1> QED BY IInvAlways, <1>1, PTL

\* A connection whose wire is closed has a timer that opens another.
THEOREM TriesAgain == Spec => []AlwaysATry
<1>1. IInv => AlwaysATry
  BY DEF IInv, Control, OnWire, Tried, AlwaysATry
<1> QED BY IInvAlways, <1>1, PTL

\* A connection that is over stays over and gives the page nothing more, whatever
\* timers were left behind.
THEOREM StaysDisconnected == Spec => DisconnectedIsFinal
<1>1. IInv /\ [Next]_vars => [Over => Over' /\ wire' = "none" /\ shown' = shown]_vars
  BY FinalStep
<1> QED BY IInvAlways, <1>1, PTL DEF Spec, DisconnectedIsFinal

(***************************************************************************)
(* The connection implements PageStream.                                   *)
(***************************************************************************)

\* The first message that a wire has yet to bring comes right after this one.
Reached == IF net # <<>> THEN net[1].from ELSE IF wire = "open" THEN position ELSE published

\* What is on its way is one piece of the stream, and while the wire is open it goes on
\* to where the server is.
OneStream ==
    /\ \A i \in 1..Len(net) :
          /\ net[i].from <= net[i].upTo /\ net[i].upTo <= position
          /\ net[i].type # "messages" => net[i].from = net[i].upTo
          /\ i < Len(net) => net[i + 1].from = net[i].upTo
          /\ i = Len(net) /\ wire = "open" => net[i].upTo = position
    /\ position <= published
    /\ messageId # None => messageId <= published

\* A connection that is made has taken everything before what is on its way; one that
\* is being made has buffered nothing that could come again.
Taken ==
    /\ buffer \in Seq(Nat)
    /\ state # "connecting" => buffer = <<>>
    /\ Stage = "starting" => shown = <<>>
    /\ \A i \in 1..Len(buffer) : buffer[i] <= Reached
    /\ Stage = "started" /\ (net # <<>> \/ wire = "open") => messageId = Reached

StreamInv == OneStream /\ Taken

LEMMA StreamInit == Init => StreamInv /\ Stream!Init
<1> SUFFICES ASSUME Init PROVE StreamInv /\ Stream!Init
  OBVIOUS
<1>1. /\ net = <<>> /\ Len(net) = 0 /\ position = 0 /\ published = 0 /\ wire = "none"
      /\ messageId = None /\ buffer = <<>> /\ shown = <<>> /\ Stage = "starting"
  BY DEF Init, Stage, Over
<1>2. OneStream
  BY <1>1 DEF OneStream
<1>3. Taken
  BY <1>1 DEF Taken
<1> QED BY <1>1, <1>2, <1>3 DEF StreamInv, Stream!Init

LEMMA StageCases ==
    ASSUME IInv
    PROVE  /\ Stage = "over" <=> Over
           /\ Stage = "started" <=> state \in {"connected", "reconnecting"}
           /\ Stage = "starting" <=> ~Over /\ state \in {"disconnected", "connecting"}
           /\ state = "connecting" => Stage = "starting"
  BY DEF Stage, Over, IInv, Typed, States

\* What the wire has yet to bring is there to be brought.
LEMMA ReachedType ==
    ASSUME IInv, OneStream
    PROVE  Reached \in 0..MaxMessages /\ Reached <= published
<1>1. /\ position \in 0..MaxMessages /\ published \in 0..MaxMessages /\ position <= published
      /\ net \in Seq(Frames)
  BY DEF IInv, Typed, OneStream
<1>2. CASE net # <<>>
  <2>1. 1 \in 1..Len(net) /\ net[1] \in Frames
    BY <1>1, <1>2
  <2>2. net[1].from \in 0..MaxMessages /\ net[1].upTo \in 0..MaxMessages
    BY <2>1 DEF Frames
  <2>3. net[1].from <= net[1].upTo /\ net[1].upTo <= position
    BY <2>1 DEF OneStream
  <2> QED BY <1>1, <1>2, <2>2, <2>3, SignalRAssumption DEF Reached
<1>3. CASE net = <<>>
  BY <1>1, <1>3 DEF Reached
<1> QED BY <1>2, <1>3

LEMMA NumbersUpTo ==
    ASSUME NEW from \in Nat, NEW upTo \in Nat, from <= upTo
    PROVE  /\ Numbers(from, upTo) \in Seq(Nat)
           /\ \A i \in 1..Len(Numbers(from, upTo)) : Numbers(from, upTo)[i] <= upTo
<1>1. upTo - from \in Nat
  OBVIOUS
<1> QED BY <1>1 DEF Numbers

\* What is held while connecting is older than what the wire has yet to bring.
LEMMA BufferedIsOlder ==
    ASSUME IInv, StreamInv, Stage = "starting", NEW at \in Nat, Reached <= at
    PROVE  Stream!Newer(at)
<1>1. shown = <<>> /\ buffer \in Seq(Nat) /\ \A i \in 1..Len(buffer) : buffer[i] <= Reached
  BY DEF StreamInv, Taken
<1>2. shown \o buffer = buffer /\ DOMAIN buffer = 1..Len(buffer)
  BY <1>1, ConcatEmptySeq
<1>3. Reached \in Nat
  BY ReachedType, SignalRAssumption DEF StreamInv
<1>4. \A i \in 1..Len(buffer) : buffer[i] <= at
  <2> SUFFICES ASSUME NEW i \in 1..Len(buffer) PROVE buffer[i] <= at
    OBVIOUS
  <2>1. buffer[i] \in Nat /\ buffer[i] <= Reached
    BY <1>1
  <2> QED BY <1>3, <2>1
<1> QED BY <1>2, <1>4 DEF Stream!Newer

\* The end of a connection.
LEMMA EndStream ==
    ASSUME OneStream, stop, loaded', deferral' # "none", published' = published
    PROVE  StreamInv' /\ Stream!End
<1>1. /\ state' = "disconnected" /\ wire' = "none" /\ net' = <<>> /\ messageId' = None
      /\ buffer' = <<>> /\ shown' = shown /\ position' = position
  BY DEF stop
<1>2. Stage' = "over"
  BY <1>1 DEF Stage, Over
<1>3. OneStream'
  BY <1>1 DEF OneStream
<1>4. Taken'
  BY <1>1, <1>2 DEF Taken
<1> QED BY <1>1, <1>2, <1>3, <1>4 DEF StreamInv, Stream!End

\* Another transport joins the stream, or the connection ends.
LEMMA TryStream ==
    ASSUME IInv, StreamInv, state = "connecting", published' = published,
           NEW transports, NEW stopped, initialize(transports, stopped)
    PROVE  StreamInv' /\ Stream!Next
<1>1. loaded /\ deferral # "none" /\ Stage = "starting"
  BY StageCases DEF IInv, Control, Unstarted
<1>2. CASE transports = <<>>
  <2>1. stop /\ loaded' /\ deferral' # "none"
    BY <1>1, <1>2 DEF initialize, stop
  <2> QED BY <2>1, EndStream DEF StreamInv, Stream!Next
<1>3. CASE transports # <<>>
  <2>1. /\ UNCHANGED <<state, deferral, loaded, position, buffer, shown>> /\ net' = <<>>
        /\ messageId' \in {None, messageId} /\ wire' \in {"none", "opening"}
    BY <1>3 DEF initialize
  <2>2. Stage' = "starting"
    BY <1>1, <2>1 DEF Stage, Over
  <2>3. OneStream'
    BY <2>1 DEF StreamInv, OneStream
  <2>4. Reached' = published /\ Reached <= published /\ Reached \in Nat /\ published \in Nat
    BY <2>1, ReachedType, SignalRAssumption DEF Reached, StreamInv, IInv, Typed
  <2>5. Taken'
    <3>1. buffer' \in Seq(Nat) /\ shown' = <<>>
      BY <1>1, <2>1 DEF StreamInv, Taken
    <3>2. \A i \in 1..Len(buffer') : buffer'[i] <= Reached'
      <4> SUFFICES ASSUME NEW i \in 1..Len(buffer') PROVE buffer'[i] <= Reached'
        OBVIOUS
      <4>1. buffer'[i] \in Nat /\ buffer'[i] <= Reached
        BY <2>1, <3>1 DEF StreamInv, Taken
      <4> QED BY <2>4, <4>1
    <3> QED BY <2>1, <2>2, <3>1, <3>2 DEF Taken
  <2>6. Stream!Join
    <3>1. messageId' \in {None} \cup 0..MaxMessages
      BY <2>1 DEF IInv, Typed
    <3> QED BY <1>1, <2>1, <2>2, <3>1 DEF Stream!Join
  <2> QED BY <2>3, <2>5, <2>6 DEF StreamInv, Stream!Next
<1> QED BY <1>2, <1>3

LEMMA FailedStream ==
    ASSUME IInv, StreamInv, state = "connecting", published' = published, onFailed
    PROVE  StreamInv' /\ Stream!Next
  BY TryStream DEF onFailed

\* Steps that bring the page nothing: whatever becomes of the wire, the page has taken
\* all before what is yet to come.
LEMMA QuietStream ==
    ASSUME IInv, StreamInv, UNCHANGED <<loaded, deferral, messageId, buffer, shown>>,
           \/ state' = state
           \/ state \in {"connected", "reconnecting"} /\ state' \in {"connected", "reconnecting"},
           OneStream', Reached' \in Nat,
           state = "connecting" => Reached <= Reached',
           state # "connecting" /\ (net' # <<>> \/ wire' = "open") => messageId = Reached'
    PROVE  StreamInv' /\ UNCHANGED Stream!vars
<1>1. Stage' = Stage /\ (state' = "connecting" <=> state = "connecting")
  BY DEF Stage, Over
<1>2. Taken'
  <2>1. buffer' \in Seq(Nat) /\ (state' # "connecting" => buffer' = <<>>)
    BY <1>1 DEF StreamInv, Taken
  <2>2. \A i \in 1..Len(buffer') : buffer'[i] <= Reached'
    <3> SUFFICES ASSUME NEW i \in 1..Len(buffer') PROVE buffer'[i] <= Reached'
      OBVIOUS
    <3>1. state = "connecting" /\ buffer'[i] \in Nat /\ buffer'[i] <= Reached
      BY <1>1, <2>1 DEF StreamInv, Taken
    <3>2. Reached \in Nat
      BY ReachedType, SignalRAssumption DEF StreamInv
    <3> QED BY <3>1, <3>2
  <2>3. Stage' = "started" => state # "connecting"
    BY <1>1, StageCases
  <2> QED BY <1>1, <2>1, <2>2, <2>3 DEF StreamInv, Taken
<1> QED BY <1>1, <1>2 DEF StreamInv, Stream!vars

LEMMA StartStream ==
    ASSUME IInv, StreamInv, start \/ load
    PROVE  StreamInv' /\ UNCHANGED Stream!vars
<1>1. /\ UNCHANGED <<wire, net, position, messageId, buffer, shown, published>>
      /\ deferral' \in {deferral, "pending"}
      /\ \/ state' = state /\ ~loaded' /\ deferral' = "pending"
         \/ UNCHANGED <<state, deferral>> /\ loaded' /\ deferral # "pending"
         \/ state' = "connecting"
  BY DEF start, load, negotiate, wireVars, dataVars, envVars
<1>2. /\ state = "disconnected" /\ wire = "none" /\ net = <<>>
      /\ deferral \in {"none", "pending"}
      /\ ~loaded \/ deferral = "none"
  BY DEF start, load, IInv, Control, Unstarted, Idle, OnWire
<1>3. Stage = "starting" /\ Stage' = "starting"
  BY <1>1, <1>2 DEF Stage, Over
<1>4. OneStream'
  BY <1>1 DEF StreamInv, OneStream
<1>5. Taken'
  <2>1. Reached' = Reached /\ buffer' = <<>>
    BY <1>1, <1>2 DEF Reached, StreamInv, Taken
  <2> QED BY <1>1, <1>3, <2>1 DEF StreamInv, Taken
<1> QED BY <1>1, <1>3, <1>4, <1>5 DEF StreamInv, Stream!vars

LEMMA NegotiateStream ==
    ASSUME IInv, StreamInv, Negotiated \/ ConnectTimeout
    PROVE  StreamInv' /\ Stream!Next
<1>1. state = "connecting" /\ published' = published
  BY DEF Negotiated, ConnectTimeout, envVars, IInv, Control, Attempt
<1>2. CASE Negotiated
  <2>1. PICK transports : initialize(transports, timers)
    BY <1>2 DEF Negotiated
  <2> QED BY <1>1, <2>1, TryStream
<1>3. CASE ConnectTimeout
  BY <1>1, <1>3, FailedStream DEF ConnectTimeout
<1> QED BY <1>2, <1>3

LEMMA StopStream ==
    ASSUME IInv, StreamInv,
           NegotiateFails \/ PollDisconnected \/ onReconnectTimeout \/ pingServer \/ unload
    PROVE  StreamInv' /\ Stream!Next
<1>1. stop /\ published' = published /\ deferral' \in {deferral, "rejected"} /\ loaded' = loaded
  BY DEF NegotiateFails, PollDisconnected, onReconnectTimeout, pingServer, unload, Fail, envVars,
     stop
<1>2. loaded /\ deferral # "none"
  <2>1. CASE NegotiateFails
    BY <2>1 DEF NegotiateFails, IInv, Control, Unstarted, Attempt
  <2>2. CASE PollDisconnected
    BY <2>2 DEF PollDisconnected, IInv, Control, Unstarted, Idle
  <2>3. CASE onReconnectTimeout \/ pingServer
    BY <2>3 DEF onReconnectTimeout, pingServer, IInv, Control, Unstarted, Timers
  <2>4. CASE unload
    BY <2>4 DEF unload, IInv, Control, Unstarted
  <2> QED BY <2>1, <2>2, <2>3, <2>4
<1> QED BY <1>1, <1>2, EndStream DEF StreamInv, Stream!Next

\* The connection is made at the place up to which all has been taken or dropped.
LEMMA SuccessStream ==
    ASSUME IInv, StreamInv, state = "connecting", NEW at \in 0..MaxMessages, onSuccess(at),
           Reached <= at, at <= published, OneStream',
           net' # <<>> \/ wire' = "open" => Reached' = at
    PROVE  StreamInv' /\ Stream!Next
<1>1. /\ state' = "connected" /\ messageId' = at /\ shown' = shown \o buffer /\ buffer' = <<>>
  BY DEF onSuccess
<1>2. Stage = "starting" /\ Stage' = "started"
  BY <1>1, StageCases DEF Stage, Over
<1>3. Taken'
  BY <1>1, <1>2 DEF Taken
<1>4. Stream!Newer(at)
  BY <1>2, BufferedIsOlder, SignalRAssumption
<1>5. Stream!Start(at)
  BY <1>1, <1>2, <1>4 DEF Stream!Start
<1> QED BY <1>3, <1>5 DEF StreamInv, Stream!Next

\* Messages are taken from where the page is.
LEMMA TakenStream ==
    ASSUME IInv, StreamInv, NEW from \in 0..MaxMessages, NEW upTo \in 0..MaxMessages,
           from <= upTo, UNCHANGED <<loaded, deferral>>, onReceived(from, upTo), OneStream',
           Reached' \in Nat, upTo <= Reached',
           \/ /\ state = "connecting" /\ state' = state /\ Reached = from
           \/ /\ state \in {"connected", "reconnecting"} /\ state' \in {"connected", "reconnecting"}
              /\ messageId = from
              /\ net' # <<>> \/ wire' = "open" => Reached' = upTo
    PROVE  StreamInv' /\ Stream!Next
<1>1. messageId' = upTo /\ Stage' = Stage
  BY DEF onReceived, Stage, Over
<1>2. from \in Nat /\ upTo \in Nat /\ Stream!Numbers(from, upTo) = Numbers(from, upTo)
  BY SignalRAssumption DEF Stream!Numbers, Numbers
<1>3. CASE state = "connecting"
  <2>1. buffer' = buffer \o Numbers(from, upTo) /\ shown' = shown /\ Stage = "starting"
    BY <1>3, StageCases DEF onReceived
  <2>2. Stream!Newer(from)
    BY <1>2, <1>3, <2>1, BufferedIsOlder
  <2>3. Stream!Hold(from, upTo)
    BY <1>1, <1>2, <2>1, <2>2 DEF Stream!Hold
  <2>4. Taken'
    <3> DEFINE numbers == Numbers(from, upTo)
    <3>1. /\ numbers \in Seq(Nat) /\ \A i \in 1..Len(numbers) : numbers[i] <= upTo
      BY <1>2, NumbersUpTo
    <3>2. buffer \in Seq(Nat) /\ \A i \in 1..Len(buffer) : buffer[i] <= from
      BY <1>3 DEF StreamInv, Taken
    <3>3. buffer' = buffer \o numbers
      BY <2>1
    <3> HIDE DEF numbers
    <3>4. buffer' \in Seq(Nat) /\ \A i \in 1..Len(buffer') : buffer'[i] <= Reached'
      <4>1. buffer' \in Seq(Nat)
        BY <3>1, <3>2, <3>3
      <4> SUFFICES ASSUME NEW i \in 1..Len(buffer') PROVE buffer'[i] <= Reached'
        BY <4>1
      <4>2. CASE i \in 1..Len(buffer)
        <5>1. buffer'[i] = buffer[i] /\ buffer[i] \in Nat /\ buffer[i] <= from
          BY <3>1, <3>2, <3>3, <4>2
        <5> QED BY <1>2, <5>1
      <4>3. CASE i \notin 1..Len(buffer)
        <5>1. i - Len(buffer) \in 1..Len(numbers) /\ buffer'[i] = numbers[i - Len(buffer)]
          BY <3>1, <3>2, <3>3, <4>3
        <5>2. buffer'[i] \in Nat /\ buffer'[i] <= upTo
          BY <3>1, <5>1
        <5> QED BY <1>2, <5>2
      <4> QED BY <4>2, <4>3
    <3>5. state' = "connecting" /\ shown' = <<>>
      BY <1>3, <2>1 DEF StreamInv, Taken
    <3> QED BY <1>1, <2>1, <3>4, <3>5 DEF Taken
  <2> QED BY <2>3, <2>4 DEF StreamInv, Stream!Next
<1>4. CASE state # "connecting"
  <2>1. /\ shown' = shown \o Numbers(from, upTo) /\ buffer' = buffer /\ Stage = "started"
        /\ messageId = from
    BY <1>4, StageCases DEF onReceived
  <2>2. Stream!Show(upTo)
    BY <1>1, <1>2, <2>1 DEF Stream!Show
  <2>3. Taken'
    <3>1. buffer' = <<>>
      BY <1>4, <2>1 DEF StreamInv, Taken
    <3> QED BY <1>1, <1>4, <2>1, <3>1 DEF Taken
  <2> QED BY <2>1, <2>2, <2>3 DEF StreamInv, Stream!Next
<1> QED BY <1>3, <1>4

\* The first frame on the wire is taken off it: the stream goes on where it ended.
LEMMA TailStream ==
    ASSUME IInv, StreamInv, net # <<>>, net' = Tail(net),
           UNCHANGED <<wire, position, published>>,
           messageId' # None => messageId' <= published
    PROVE  /\ OneStream' /\ Reached' \in Nat
           /\ Head(net).from = Reached /\ Head(net) \in Frames
           /\ Head(net).from <= Head(net).upTo /\ Head(net).upTo <= published
           /\ Head(net).upTo <= Reached'
           /\ net' # <<>> \/ wire' = "open" => Reached' = Head(net).upTo
           /\ Head(net).type # "messages" => Head(net).from = Head(net).upTo
<1>1. /\ net \in Seq(Frames) /\ position \in Nat /\ published \in Nat /\ position <= published
  BY SignalRAssumption DEF IInv, Typed, StreamInv, OneStream
<1>2. /\ net' \in Seq(Frames) /\ Len(net') = Len(net) - 1 /\ Len(net) \in Nat \ {0}
      /\ \A i \in 1..Len(net') : net'[i] = net[i + 1]
      /\ Head(net) = net[1]
  BY <1>1
<1>3. \A i \in 1..Len(net) :
         /\ net[i] \in Frames
         /\ net[i].from <= net[i].upTo /\ net[i].upTo <= position
         /\ net[i].type # "messages" => net[i].from = net[i].upTo
         /\ i < Len(net) => net[i + 1].from = net[i].upTo
         /\ i = Len(net) /\ wire = "open" => net[i].upTo = position
  BY <1>1 DEF StreamInv, OneStream
<1>4. OneStream'
  <2>1. ASSUME NEW i \in 1..Len(net')
        PROVE  /\ net'[i].from <= net'[i].upTo /\ net'[i].upTo <= position
               /\ net'[i].type # "messages" => net'[i].from = net'[i].upTo
               /\ i < Len(net') => net'[i + 1].from = net'[i].upTo
               /\ i = Len(net') /\ wire = "open" => net'[i].upTo = position
    <3> DEFINE j == i + 1
    <3>1. j \in 1..Len(net) /\ net'[i] = net[j]
      BY <1>2
    <3>2. i < Len(net') => j < Len(net) /\ net'[j] = net[j + 1]
      <4>1. i < Len(net') => j \in 1..Len(net') /\ j < Len(net)
        BY <1>2
      <4> QED BY <1>2, <4>1
    <3>3. i = Len(net') => j = Len(net)
      BY <1>2
    <3> HIDE DEF j
    <3>4. i < Len(net') => net'[j].from = net'[i].upTo
      BY <1>3, <3>1, <3>2
    <3>5. j = i + 1
      BY DEF j
    <3> QED BY <1>3, <3>1, <3>3, <3>4, <3>5
  <2> QED BY <1>1, <2>1 DEF OneStream
<1>5. /\ net[1] \in Frames /\ net[1].from \in Nat /\ net[1].upTo \in Nat
      /\ net[1].from <= net[1].upTo /\ net[1].upTo <= position
      /\ net[1].type # "messages" => net[1].from = net[1].upTo
  <2>1. 1 \in 1..Len(net)
    BY <1>2
  <2> QED BY <1>3, <2>1, SignalRAssumption DEF Frames
<1>6. Reached = net[1].from
  BY DEF Reached
<1>7. CASE net' # <<>>
  <2>1. ASSUME NEW i \in 1..Len(net), NEW j \in 1..Len(net), j = i + 1
        PROVE  net[j].from = net[i].upTo
    <3>1. i < Len(net)
      BY <1>2, <2>1
    <3> QED BY <1>3, <2>1, <3>1
  <2>2. 1 \in 1..Len(net) /\ 2 \in 1..Len(net) /\ 2 = 1 + 1 /\ net'[1] = net[2]
    <3>1. 1 \in 1..Len(net')
      BY <1>2, <1>7
    <3>2. net'[1] = net[1 + 1] /\ 1 + 1 = 2
      BY <1>2, <3>1
    <3> QED BY <1>2, <3>1, <3>2
  <2>3. Reached' = net'[1].from
    BY <1>7 DEF Reached
  <2>4. Reached' = net[1].upTo
    BY <2>1, <2>2, <2>3
  <2> QED BY <1>1, <1>2, <1>4, <1>5, <1>6, <2>4
<1>8. CASE net' = <<>>
  <2>1. Len(net) = 1
    <3>1. Len(net') = 0
      BY <1>2, <1>8, EmptySeq
    <3> QED BY <1>2, <3>1
  <2>2. wire = "open" => net[1].upTo = position
    BY <1>3, <2>1
  <2>3. Reached' = IF wire = "open" THEN position ELSE published
    BY <1>8 DEF Reached
  <2> QED BY <1>1, <1>2, <1>4, <1>5, <1>6, <1>8, <2>2, <2>3
<1> QED BY <1>7, <1>8

LEMMA ReceiveStream ==
    ASSUME IInv, StreamInv, Receive
    PROVE  StreamInv' /\ Stream!Next
<1> DEFINE frame == Head(net)
<1>1. /\ net # <<>> /\ net \in Seq(Frames) /\ published' = published
      /\ processMessages(frame)
  BY DEF Receive, envVars, IInv, Typed
<1>2. frame \in Frames /\ frame = net[1] /\ 1 \in 1..Len(net)
  BY <1>1
<1>3. frame.from \in 0..MaxMessages /\ frame.upTo \in 0..MaxMessages /\ frame.upTo # None
  BY <1>2, SignalRAssumption DEF Frames
<1>4. wire \in {"open", "broken"} /\ loaded /\ deferral # "none" /\ state # "disconnected"
  BY <1>1 DEF IInv, Control, OnWire, Idle, Unstarted
<1>5. frame.upTo <= published
  <2>1. frame.upTo <= position /\ position <= published
    BY <1>2 DEF StreamInv, OneStream
  <2> QED BY <1>3, <2>1, SignalRAssumption DEF IInv, Typed
<1>6. CASE stop /\ UNCHANGED deferral
  BY <1>1, <1>4, <1>6, EndStream DEF StreamInv, Stream!Next, stop
<1>7. CASE /\ frame.type = "initialized" /\ onSuccess(frame.upTo)
           /\ net' = Tail(net) /\ UNCHANGED <<wire, position, greeted>>
  <2>1. state = "connecting"
    BY <1>2, <1>7 DEF IInv, Greeting
  <2>2. messageId' = frame.upTo
    BY <1>7 DEF onSuccess
  <2>3. /\ OneStream' /\ frame.from = Reached /\ frame.from = frame.upTo
        /\ net' # <<>> \/ wire' = "open" => Reached' = frame.upTo
    BY <1>1, <1>5, <1>7, <2>2, TailStream
  <2> HIDE DEF frame
  <2>4. Reached <= frame.upTo
    BY <1>3, <2>3
  <2> QED BY <1>3, <1>5, <1>7, <2>1, <2>3, <2>4, SuccessStream
<1>8. CASE /\ onReceived(frame.from, frame.upTo) /\ net' = Tail(net)
           /\ UNCHANGED <<startVars, state, transport, wire, position, greeted, timers,
                          monitoring>>
  <2>1. messageId' = frame.upTo /\ UNCHANGED <<loaded, deferral>>
    BY <1>8 DEF onReceived, startVars
  <2>2. /\ OneStream' /\ Reached' \in Nat /\ frame.from = Reached /\ frame.from <= frame.upTo
        /\ frame.upTo <= Reached'
        /\ net' # <<>> \/ wire' = "open" => Reached' = frame.upTo
    BY <1>1, <1>5, <1>8, <2>1, TailStream
  <2>3. state \in {"connected", "reconnecting"} => messageId = Reached
    BY <1>1, StageCases DEF StreamInv, Taken
  <2>4. state \in {"connecting", "connected", "reconnecting"}
    BY <1>4 DEF IInv, Typed, States
  <2> HIDE DEF frame
  <2>5. state' = state
    BY <1>8
  <2> QED BY <1>3, <1>8, <2>1, <2>2, <2>3, <2>4, <2>5, TakenStream
<1> QED BY <1>1, <1>6, <1>7, <1>8 DEF processMessages

\* While nothing is on its way and no wire is open, everything is yet to come.
LEMMA NoWire ==
    ASSUME IInv, OneStream, net' = <<>>, wire' # "open", position' = position,
           published' = published, messageId' = messageId
    PROVE  OneStream' /\ Reached' \in Nat /\ Reached <= Reached'
<1>1. OneStream'
  BY DEF OneStream
<1>2. Reached' = published /\ published \in Nat
  BY SignalRAssumption DEF Reached, IInv, Typed
<1> QED BY <1>1, <1>2, ReachedType

\* Nothing happens on the wire, and it has no less to bring.
LEMMA SameWire ==
    ASSUME IInv, OneStream, UNCHANGED <<net, position, messageId>>,
           wire' = wire \/ (wire # "open" /\ wire' # "open"),
           published' \in 0..MaxMessages, published <= published'
    PROVE  /\ OneStream' /\ Reached' \in Nat /\ Reached <= Reached'
           /\ net # <<>> \/ wire = "open" => Reached' = Reached
<1>1. /\ position \in Nat /\ published \in Nat /\ published' \in Nat /\ Reached \in Nat
      /\ messageId # None => messageId \in Nat
  BY ReachedType, SignalRAssumption DEF IInv, Typed
<1>2. OneStream'
  BY <1>1 DEF OneStream
<1>3. Reached' = Reached \/ (net = <<>> /\ wire # "open" /\ Reached = published /\ Reached' = published')
  BY DEF Reached
<1> QED BY <1>1, <1>2, <1>3

\* Timers that fire, wires that close and what happens on the way to the next wire.
LEMMA IdleStream ==
    ASSUME IInv, StreamInv,
           UNCHANGED <<loaded, deferral, messageId, buffer, shown, position, published>>,
           \/ state' = state
           \/ state \in {"connected", "reconnecting"} /\ state' \in {"connected", "reconnecting"},
           \/ net' = <<>> /\ wire' # "open"
           \/ UNCHANGED <<net, wire>>
    PROVE  StreamInv' /\ UNCHANGED Stream!vars
<1>1. published \in 0..MaxMessages /\ published <= published'
  BY SignalRAssumption DEF IInv, Typed
<1>2. CASE net' = <<>> /\ wire' # "open"
  BY <1>2, NoWire, QuietStream DEF StreamInv
<1>3. CASE UNCHANGED <<net, wire>>
  <2>1. /\ OneStream' /\ Reached' \in Nat /\ Reached <= Reached'
        /\ net # <<>> \/ wire = "open" => Reached' = Reached
    BY <1>1, <1>3, SameWire DEF StreamInv
  <2>2. state # "connecting" /\ (net # <<>> \/ wire = "open") => messageId = Reached
    BY StageCases DEF StreamInv, Taken, IInv, Typed, States, Control, Idle, OnWire
  <2> QED BY <1>3, <2>1, <2>2, QuietStream
<1> QED BY <1>2, <1>3

LEMMA ServerStream ==
    ASSUME IInv, StreamInv, Publish \/ KeepAlive \/ Silence \/ PollDead
    PROVE  StreamInv' /\ UNCHANGED Stream!vars
<1>1. CASE Publish
  <2>1. /\ UNCHANGED <<loaded, deferral, state, wire, net, position, messageId, buffer, shown>>
        /\ published' = published + 1 /\ published < MaxMessages
    BY <1>1 DEF Publish, startVars, wireVars, dataVars
  <2>2. published' \in 0..MaxMessages /\ published <= published'
    BY <2>1, SignalRAssumption DEF IInv, Typed
  <2>3. /\ OneStream' /\ Reached' \in Nat /\ Reached <= Reached'
        /\ net # <<>> \/ wire = "open" => Reached' = Reached
    BY <2>1, <2>2, SameWire DEF StreamInv
  <2>4. state # "connecting" /\ (net # <<>> \/ wire = "open") => messageId = Reached
    BY StageCases DEF StreamInv, Taken, IInv, Typed, States, Control, Idle, OnWire
  <2> QED BY <2>1, <2>3, <2>4, QuietStream
<1>2. CASE KeepAlive \/ Silence
  <2>1. published' = published
    BY <1>2 DEF KeepAlive, Silence, Fail, envVars
  <2>2. UNCHANGED <<loaded, deferral, state, messageId, buffer, shown, position, net, wire>>
    BY <1>2 DEF KeepAlive, Silence, Unchanged, startVars, wireVars, dataVars
  <2> QED BY <2>1, <2>2, IdleStream
<1>3. CASE PollDead
  <2>1. /\ UNCHANGED <<loaded, deferral, state, messageId, buffer, shown, position, published, net>>
        /\ wire = "polling" /\ wire' = "dead"
    BY <1>3 DEF PollDead, Unchanged, Fail, startVars, dataVars
  <2>2. net = <<>>
    BY <2>1 DEF IInv, Control, OnWire
  <2> QED BY <2>1, <2>2, IdleStream
<1> QED BY <1>1, <1>2, <1>3

LEMMA TimerStream ==
    ASSUME IInv, StreamInv,
           onclose \/ ReconnectTimer \/ SseTimer \/ FrameTimer \/ checkIfAlive \/ PollTimer
             \/ fireReconnected \/ PollShouldReconnect
    PROVE  StreamInv' /\ UNCHANGED Stream!vars
<1>1. UNCHANGED <<loaded, deferral, messageId, buffer, shown, position, published>>
  BY DEF onclose, ReconnectTimer, SseTimer, FrameTimer, checkIfAlive, PollTimer,
     fireReconnected, PollShouldReconnect, startVars, dataVars, wireVars, pollVars, envVars, Fail
<1>2. CASE onclose
  BY <1>1, <1>2, IdleStream DEF onclose
<1>3. CASE ReconnectTimer
  <2>1. /\ state \in {"connected", "reconnecting"} /\ state' = "reconnecting"
        /\ net' = <<>> /\ wire' = "opening"
    BY <1>3 DEF ReconnectTimer, ensureReconnectingState
  <2> QED BY <1>1, <2>1, IdleStream
<1>4. CASE SseTimer \/ checkIfAlive
  <2>1. UNCHANGED <<state, net, wire>>
    BY <1>4 DEF SseTimer, checkIfAlive, wireVars
  <2> QED BY <1>1, <2>1, IdleStream
<1>5. CASE FrameTimer
  <2>1. \/ /\ state \in {"connected", "reconnecting"} /\ state' = "reconnecting"
           /\ net' = <<>> /\ wire' = "opening"
        \/ UNCHANGED <<state, net, wire>>
    BY <1>5 DEF FrameTimer, ensureReconnectingState
  <2> QED BY <1>1, <2>1, IdleStream
<1>6. CASE PollTimer
  <2>1. timers["poll"] > 0 /\ state' = state /\ net' = net /\ wire' \in {wire, "polling"}
    BY <1>6 DEF PollTimer, pollVars
  <2>2. net = <<>> /\ wire # "open"
    BY <2>1 DEF IInv, Control, LongPolling, OnWire
  <2> QED BY <1>1, <2>1, <2>2, IdleStream
<1>7. CASE fireReconnected
  <2>1. /\ state' = state \/ (state = "reconnecting" /\ state' = "connected")
        /\ UNCHANGED <<net, wire>>
    BY <1>7 DEF fireReconnected, reconnected, pollVars
  <2> QED BY <1>1, <2>1, IdleStream
<1>8. CASE PollShouldReconnect
  <2>1. /\ wire = "polling" /\ messageId # None /\ state' = "reconnecting"
        /\ UNCHANGED <<net, wire>>
    BY <1>8 DEF PollShouldReconnect, wireVars
  <2>2. state \in {"connected", "reconnecting"}
    BY <2>1, SignalRAssumption DEF IInv, Typed, States, Control, LongPolling, Idle, Transports
  <2> QED BY <1>1, <2>1, <2>2, IdleStream
<1> QED BY <1>2, <1>3, <1>4, <1>5, <1>6, <1>7, <1>8

\* A new wire goes on where the page is, or, while connecting, joins at the end.
LEMMA OpenStream ==
    ASSUME IInv, StreamInv, onopen
    PROVE  StreamInv' /\ UNCHANGED Stream!vars
<1>1. /\ wire = "opening" /\ wire' = "open" /\ net' = net
      /\ position' = IF state = "connecting" THEN published ELSE messageId
      /\ state' = state \/ (state = "reconnecting" /\ state' = "connected")
      /\ UNCHANGED <<loaded, deferral, messageId, buffer, shown, published>>
  BY DEF onopen, reconnected, startVars, dataVars, envVars
<1>2. net = <<>> /\ Reached = published /\ Reached' = position' /\ published \in Nat
  BY <1>1, SignalRAssumption DEF IInv, Typed, Control, OnWire, Reached
<1>3. state # "connecting" => messageId # None /\ messageId \in Nat /\ messageId <= published
  <2>1. state # "connecting" => state \in {"connected", "reconnecting"}
    BY <1>1 DEF IInv, Typed, States, Control, Idle
  <2> QED BY <2>1, SignalRAssumption DEF IInv, Typed, Control, OnWire, StreamInv, OneStream
<1>4. position' \in Nat /\ position' <= published
  BY <1>1, <1>2, <1>3
<1>5. OneStream'
  BY <1>1, <1>2, <1>4 DEF StreamInv, OneStream
<1> QED BY <1>1, <1>2, <1>3, <1>4, <1>5, QuietStream

\* What gets through before a wire breaks is the beginning of what was on its way.
LEMMA BreakStream ==
    ASSUME IInv, StreamInv, Break
    PROVE  StreamInv' /\ UNCHANGED Stream!vars
<1>1. /\ UNCHANGED <<loaded, deferral, state, messageId, buffer, shown, position, published>>
      /\ wire = "open" /\ wire' \in {"broken", "dead"}
      /\ net' = <<>> \/ \E n \in 0..Len(net) : net' = SubSeq(net, 1, n)
  BY DEF Break, Unchanged, startVars, dataVars, Fail
<1>2. CASE net' = <<>>
  BY <1>1, <1>2, IdleStream
<1>3. CASE net' # <<>>
  <2>1. net \in Seq(Frames) /\ Len(net) \in Nat
    BY DEF IInv, Typed
  <2>2. /\ Len(net') \in 1..Len(net)
        /\ \A i \in 1..Len(net') : i \in 1..Len(net) /\ net'[i] = net[i]
    <3>1. PICK n \in 0..Len(net) : net' = SubSeq(net, 1, n)
      BY <1>1, <1>3
    <3> QED BY <1>3, <2>1, <3>1
  <2>3. net # <<>> /\ 1 \in 1..Len(net')
    BY <2>1, <2>2
  <2>4. OneStream'
    <3>1. \A i \in 1..Len(net') : i < Len(net') =>
             i < Len(net) /\ i + 1 \in 1..Len(net') /\ net'[i + 1] = net[i + 1]
      BY <2>1, <2>2
    <3> QED BY <1>1, <2>2, <3>1 DEF StreamInv, OneStream
  <2>5. Reached' = Reached
    BY <1>3, <2>2, <2>3 DEF Reached
  <2>6. state # "connecting" => messageId = Reached
    <3>1. state \in {"connected", "reconnecting", "connecting"}
      BY <1>1 DEF IInv, Typed, States, Control, Idle
    <3> QED BY <1>1, <3>1, StageCases DEF StreamInv, Taken
  <2>7. Reached \in Nat
    BY ReachedType, SignalRAssumption DEF StreamInv
  <2> QED BY <1>1, <2>4, <2>5, <2>6, <2>7, QuietStream
<1> QED BY <1>2, <1>3

\* The server puts the next piece of the stream on the wire.
LEMMA SendStream ==
    ASSUME IInv, StreamInv, SendInitialized \/ SendMessages \/ SendDisconnect
    PROVE  StreamInv' /\ UNCHANGED Stream!vars
<1>1. /\ UNCHANGED <<loaded, deferral, state, messageId, buffer, shown, published>>
      /\ wire = "open" /\ wire' = "open"
  BY DEF SendInitialized, SendMessages, SendDisconnect, Unchanged, startVars, dataVars, envVars,
     Fail
<1>2. /\ position \in 0..MaxMessages /\ published \in 0..MaxMessages /\ position <= published
      /\ net \in Seq(Frames) /\ Len(net) \in Nat /\ MaxMessages \in Nat
  BY SignalRAssumption DEF IInv, Typed, StreamInv, OneStream
<1>3. PICK type \in {"initialized", "messages", "disconnect"}, upTo \in 0..MaxMessages :
         /\ Send(type, upTo) /\ position' = upTo /\ position <= upTo /\ upTo <= published
         /\ type # "messages" => upTo = position
  <2>1. CASE SendInitialized
    BY <1>2, <2>1 DEF SendInitialized
  <2>2. CASE SendMessages
    <3>1. PICK upTo \in (position + 1)..published : Send("messages", upTo) /\ position' = upTo
      BY <2>2 DEF SendMessages
    <3> QED BY <1>2, <3>1
  <2>3. CASE SendDisconnect
    BY <1>2, <2>3 DEF SendDisconnect
  <2> QED BY <2>1, <2>2, <2>3
<1>4. /\ net' \in Seq(Frames) /\ Len(net') = Len(net) + 1
      /\ \A i \in 1..Len(net) : net'[i] = net[i]
      /\ net'[Len(net) + 1].type = type
      /\ net'[Len(net) + 1].from = position /\ net'[Len(net) + 1].upTo = upTo
  <2> DEFINE frame == [type |-> type, from |-> position, upTo |-> upTo]
  <2>1. /\ frame \in Frames /\ frame.type = type /\ frame.from = position /\ frame.upTo = upTo
    BY <1>2 DEF Frames
  <2>2. net' = Append(net, frame)
    BY <1>3 DEF Send
  <2> HIDE DEF frame
  <2> QED BY <1>2, <2>1, <2>2
<1>5. \A i \in 1..Len(net) :
         /\ net[i].from <= net[i].upTo /\ net[i].upTo <= position
         /\ net[i].from \in Nat /\ net[i].upTo \in Nat
         /\ net[i].type # "messages" => net[i].from = net[i].upTo
         /\ i < Len(net) => net[i + 1].from = net[i].upTo
         /\ i = Len(net) => net[i].upTo = position
  <2>1. \A i \in 1..Len(net) : net[i].from \in Nat /\ net[i].upTo \in Nat
    <3>1. \A i \in 1..Len(net) : net[i] \in Frames
      BY <1>2
    <3>2. \A f \in Frames : f.from \in Nat /\ f.upTo \in Nat
      BY <1>2 DEF Frames
    <3> QED BY <3>1, <3>2
  <2> QED BY <1>1, <2>1 DEF StreamInv, OneStream
<1>6. OneStream'
  <2>1. ASSUME NEW i \in 1..Len(net')
        PROVE  /\ net'[i].from <= net'[i].upTo /\ net'[i].upTo <= position'
               /\ net'[i].type # "messages" => net'[i].from = net'[i].upTo
               /\ i < Len(net') => net'[i + 1].from = net'[i].upTo
               /\ i = Len(net') => net'[i].upTo = position'
    <3>1. CASE i \in 1..Len(net)
      <4>1. i < Len(net) => i + 1 \in 1..Len(net) /\ net'[i + 1] = net[i + 1]
        BY <1>2, <1>4, <3>1
      <4>2. i = Len(net) => net'[i + 1].from = position
        BY <1>4
      <4>3. i # Len(net') /\ (i < Len(net) \/ i = Len(net))
        BY <1>2, <1>4, <3>1
      <4>4. net'[i] = net[i]
        BY <1>4, <3>1
      <4> QED BY <1>2, <1>3, <1>5, <3>1, <4>1, <4>2, <4>3, <4>4
    <3>2. CASE i \notin 1..Len(net)
      <4>1. i = Len(net) + 1 /\ i = Len(net')
        BY <1>2, <1>4, <3>2
      <4> QED BY <1>2, <1>3, <1>4, <4>1
    <3> QED BY <3>1, <3>2
  <2> QED BY <1>1, <1>2, <1>3, <2>1 DEF StreamInv, OneStream
<1>7. Reached' = Reached
  <2>1. net' # <<>>
    BY <1>2, <1>4, EmptySeq
  <2>2. CASE net = <<>>
    <3>1. Len(net) = 0
      BY <2>2
    <3> QED BY <1>1, <1>4, <2>1, <2>2, <3>1 DEF Reached
  <2>3. CASE net # <<>>
    <3>1. 1 \in 1..Len(net)
      BY <1>2, <2>3
    <3> QED BY <1>4, <2>1, <2>3, <3>1 DEF Reached
  <2> QED BY <2>2, <2>3
<1>8. state # "connecting" => messageId = Reached
  <2>1. state \in {"connected", "reconnecting", "connecting"}
    BY <1>1 DEF IInv, Typed, States, Control, Idle
  <2> QED BY <1>1, <2>1, StageCases DEF StreamInv, Taken
<1>9. Reached \in Nat
  BY ReachedType, SignalRAssumption DEF StreamInv
<1> QED BY <1>1, <1>6, <1>7, <1>8, <1>9, QuietStream

\* A wire that does not open, a poll that fails or a response that is no JSON.
LEMMA FailStream ==
    ASSUME IInv, StreamInv, ConnectFails \/ PollError \/ handleParseFailure
    PROVE  StreamInv' /\ (Stream!Next \/ UNCHANGED Stream!vars)
<1>1. wire # "none" /\ published' = published
  BY DEF ConnectFails, PollError, handleParseFailure, Fail
<1>2. state # "disconnected" /\ loaded /\ deferral # "none"
  BY <1>1 DEF IInv, Control, Unstarted, Idle
<1>3. CASE state = "connecting" /\ onFailed
  BY <1>1, <1>3, FailedStream
<1>4. CASE ConnectFails /\ ~(state = "connecting" /\ onFailed)
  <2>1. /\ UNCHANGED <<loaded, deferral, state, messageId, buffer, shown, position, net>>
        /\ wire = "opening" /\ wire' = "closed"
    BY <1>4 DEF ConnectFails, startVars, dataVars
  <2>2. net = <<>>
    BY <2>1 DEF IInv, Control, OnWire
  <2> QED BY <1>1, <2>1, <2>2, IdleStream
<1>5. CASE PollError /\ ~(state = "connecting" /\ onFailed)
  <2>1. /\ UNCHANGED <<loaded, deferral, messageId, buffer, shown, position, net>>
        /\ state \in {"connected", "reconnecting"} /\ state' = "reconnecting"
        /\ wire = "polling" /\ wire' = "closed"
    BY <1>5 DEF PollError, ensureReconnectingState, startVars, dataVars
  <2>2. net = <<>>
    BY <2>1 DEF IInv, Control, OnWire
  <2> QED BY <1>1, <2>1, <2>2, IdleStream
<1>6. CASE handleParseFailure /\ ~(state = "connecting" /\ onFailed)
  <2>1. stop /\ deferral' = deferral
    BY <1>6 DEF handleParseFailure
  <2>2. loaded'
    BY <1>2, <2>1 DEF stop
  <2> QED BY <1>1, <1>2, <2>1, <2>2, EndStream DEF StreamInv, Stream!Next
<1> QED BY <1>3, <1>4, <1>5, <1>6

\* A poll is one request: what it brings is all there is after the messageId.
LEMMA PollStream ==
    ASSUME IInv, StreamInv, PollConnected \/ PollReceived
    PROVE  StreamInv' /\ Stream!Next
<1>1. /\ wire = "polling" /\ UNCHANGED <<wire, net, position, published>>
  BY DEF PollConnected, PollReceived, pollVars, wireVars, envVars
<1>2. /\ transport = "longPolling" /\ net = <<>> /\ loaded /\ deferral # "none"
      /\ state # "disconnected" /\ (messageId = None <=> state = "connecting")
      /\ published \in 0..MaxMessages /\ Reached = published /\ Reached' = published
  BY <1>1 DEF IInv, Typed, Control, Unstarted, Idle, LongPolling, OnWire, Reached
<1>3. ASSUME messageId' \in Nat, messageId' <= published PROVE OneStream'
  BY <1>1, <1>3 DEF StreamInv, OneStream
<1>4. published \in Nat /\ published <= published
  BY <1>2, SignalRAssumption
<1>5. CASE PollConnected
  <2>1. onSuccess(published) /\ state = "connecting" /\ messageId' = published
    BY <1>2, <1>5 DEF PollConnected, onSuccess
  <2> QED BY <1>1, <1>2, <1>3, <1>4, <2>1, SuccessStream
<1>6. CASE PollReceived
  <2>1. messageId # None /\ messageId \in 0..MaxMessages /\ messageId \in Nat
    BY <1>6, SignalRAssumption DEF PollReceived, IInv, Typed
  <2>2. PICK upTo \in messageId..published : onReceived(messageId, upTo)
    BY <1>6 DEF PollReceived
  <2>3. /\ upTo \in 0..MaxMessages /\ messageId <= upTo /\ upTo <= published
        /\ upTo \in Nat /\ messageId' = upTo
    BY <1>2, <2>1, <2>2, SignalRAssumption DEF onReceived
  <2>4. /\ UNCHANGED <<loaded, deferral>>
        /\ state' = state \/ (state = "reconnecting" /\ state' = "connected")
    BY <1>6 DEF PollReceived, answered, reconnected, pollVars, startVars
  <2>5. state \in {"connected", "reconnecting"} /\ state' \in {"connected", "reconnecting"}
    BY <1>2, <2>1, <2>4 DEF IInv, Typed, States
  <2>6. net' = <<>> /\ wire' # "open"
    BY <1>1, <1>2
  <2>7. OneStream'
    BY <1>3, <2>3
  <2> QED BY <1>2, <1>4, <2>1, <2>2, <2>3, <2>4, <2>5, <2>6, <2>7, TakenStream
<1> QED BY <1>5, <1>6

LEMMA StreamNext ==
    IInv /\ StreamInv /\ [Next]_vars => StreamInv' /\ [Stream!Next]_(Stream!vars)
<1> SUFFICES ASSUME IInv, StreamInv, [Next]_vars
             PROVE  StreamInv' /\ [Stream!Next]_(Stream!vars)
  OBVIOUS
<1>1. CASE UNCHANGED vars
  <2>1. UNCHANGED <<loaded, deferral, state, messageId, buffer, shown, position, published,
                    net, wire>>
    BY <1>1 DEF vars, startVars, wireVars, dataVars, envVars
  <2> QED BY <2>1, IdleStream
<1>2. CASE start \/ load \/ Negotiated \/ NegotiateFails \/ ConnectTimeout \/ Receive
           \/ handleParseFailure
  BY <1>2, StartStream, NegotiateStream, StopStream, ReceiveStream, FailStream
<1>3. CASE Publish \/ SendInitialized \/ SendMessages \/ SendDisconnect \/ KeepAlive \/ Silence
           \/ Break
  BY <1>3, ServerStream, SendStream, BreakStream
<1>4. CASE onopen \/ ConnectFails \/ onclose \/ ReconnectTimer \/ SseTimer \/ FrameTimer
           \/ checkIfAlive
  BY <1>4, OpenStream, FailStream, TimerStream
<1>5. CASE PollTimer \/ fireReconnected \/ PollConnected \/ PollReceived
           \/ PollShouldReconnect \/ PollDisconnected \/ PollError \/ PollDead
  BY <1>5, TimerStream, PollStream, StopStream, FailStream, ServerStream
<1>6. CASE onReconnectTimeout \/ pingServer \/ unload
  BY <1>6, StopStream
<1> QED BY <1>1, <1>2, <1>3, <1>4, <1>5, <1>6 DEF Next

\* Over all fallbacks from transport to transport and all reconnects, the page sees the
\* stream of PageStream: in order, nothing twice and nothing left out.
THEOREM StreamOfThePage == Spec => ImplementsPageStream
<1>1. Init => Stream!Init
  BY StreamInit
<1>2. Spec => []StreamInv
  BY StreamInit, StreamNext, IInvAlways, PTL DEF Spec
<1>3. IInv /\ StreamInv /\ [Next]_vars => [Stream!Next]_(Stream!vars)
  BY StreamNext
<1> QED BY <1>1, <1>2, <1>3, IInvAlways, PTL DEF Spec, ImplementsPageStream, Stream!Spec

(***************************************************************************)
(* What PageStream means for the page: order, and nothing twice.           *)
(***************************************************************************)

Rising(s) == \A i, j \in 1..Len(s) : i < j => s[i] < s[j]

\* What was shown comes before what is held, and what was shown at all before what the
\* connection asks for next.
OrderInv ==
    /\ shown \in Seq(Nat) /\ Rising(shown)
    /\ buffer \in Seq(Nat) /\ Rising(buffer)
    /\ Stage = "starting" => shown = <<>>
    /\ Stage = "started" => /\ buffer = <<>> /\ messageId \in Nat
                            /\ \A i \in 1..Len(shown) : shown[i] <= messageId

LEMMA RisingNumbers ==
    ASSUME NEW from \in Nat, NEW upTo \in Nat, from <= upTo
    PROVE  /\ Stream!Numbers(from, upTo) \in Seq(Nat) /\ Rising(Stream!Numbers(from, upTo))
           /\ \A i \in 1..Len(Stream!Numbers(from, upTo)) :
                 /\ from < Stream!Numbers(from, upTo)[i]
                 /\ Stream!Numbers(from, upTo)[i] <= upTo
<1>1. upTo - from \in Nat
  OBVIOUS
<1> QED BY <1>1 DEF Stream!Numbers, Rising

LEMMA RisingConcat ==
    ASSUME NEW s \in Seq(Nat), NEW t \in Seq(Nat), NEW from \in Nat, NEW upTo \in Nat,
           from <= upTo, Rising(s), Rising(t),
           \A i \in 1..Len(s) : s[i] <= from,
           \A i \in 1..Len(t) : from < t[i] /\ t[i] <= upTo
    PROVE  /\ s \o t \in Seq(Nat) /\ Rising(s \o t)
           /\ \A i \in 1..Len(s \o t) : (s \o t)[i] <= upTo
<1> DEFINE st == s \o t
<1>1. st \in Seq(Nat) /\ Len(st) = Len(s) + Len(t) /\ Len(s) \in Nat /\ Len(t) \in Nat
  OBVIOUS
<1>2. ASSUME NEW i \in 1..Len(st)
      PROVE  \/ i \in 1..Len(s) /\ st[i] = s[i]
             \/ i - Len(s) \in 1..Len(t) /\ st[i] = t[i - Len(s)]
  BY <1>1
<1> HIDE DEF st
<1>3. ASSUME NEW i \in 1..Len(st), NEW j \in 1..Len(st), i < j PROVE st[i] < st[j]
  <2>1. CASE j \in 1..Len(s) /\ st[j] = s[j]
    <3>1. i \in 1..Len(s) /\ st[i] = s[i]
      BY <1>1, <1>2, <1>3, <2>1
    <3> QED BY <1>3, <2>1, <3>1 DEF Rising
  <2>2. CASE j - Len(s) \in 1..Len(t) /\ st[j] = t[j - Len(s)]
    <3>1. CASE i \in 1..Len(s) /\ st[i] = s[i]
      <4>1. s[i] \in Nat /\ s[i] <= from /\ t[j - Len(s)] \in Nat /\ from < t[j - Len(s)]
        BY <2>2, <3>1, SMTT(30)
      <4> QED BY <2>2, <3>1, <4>1
    <3>2. CASE i - Len(s) \in 1..Len(t) /\ st[i] = t[i - Len(s)]
      <4>1. i - Len(s) < j - Len(s)
        BY <1>1, <1>3
      <4> QED BY <2>2, <3>2, <4>1 DEF Rising
    <3> QED BY <1>2, <3>1, <3>2
  <2> QED BY <1>2, <2>1, <2>2
<1>4. ASSUME NEW i \in 1..Len(st) PROVE st[i] <= upTo
  <2>1. CASE i \in 1..Len(s) /\ st[i] = s[i]
    <3>1. s[i] \in Nat /\ s[i] <= from
      BY <2>1
    <3> QED BY <2>1, <3>1
  <2>2. CASE i - Len(s) \in 1..Len(t) /\ st[i] = t[i - Len(s)]
    BY <2>2
  <2> QED BY <1>2, <2>1, <2>2
<1>5. Rising(st)
  BY <1>3 DEF Rising
<1> QED BY <1>1, <1>4, <1>5 DEF st

LEMMA OrderStep ==
    ASSUME OrderInv, [Stream!Next]_(Stream!vars)
    PROVE  OrderInv'
<1>1. shown \in Seq(Nat) /\ buffer \in Seq(Nat) /\ 0..MaxMessages \subseteq Nat
  BY SignalRAssumption DEF OrderInv
<1>2. CASE Stream!Join \/ UNCHANGED Stream!vars
  <2>1. /\ UNCHANGED <<shown, buffer>> /\ Stage' = Stage
        /\ Stage = "started" => messageId' = messageId
    BY <1>2 DEF Stream!Join, Stream!vars
  <2> QED BY <2>1 DEF OrderInv
<1>3. CASE Stream!End
  <2>1. shown' = shown /\ buffer' = <<>> /\ Stage' = "over"
    BY <1>3 DEF Stream!End
  <2>2. <<>> \in Seq(Nat) /\ Rising(<<>>)
    BY DEF Rising
  <2> QED BY <2>1, <2>2 DEF OrderInv
<1>4. ASSUME NEW at \in 0..MaxMessages, Stream!Start(at) PROVE OrderInv'
  <2>1. /\ Stage = "starting" /\ Stage' = "started" /\ shown' = shown \o buffer
        /\ buffer' = <<>> /\ messageId' = at /\ Stream!Newer(at)
    BY <1>4 DEF Stream!Start
  <2>2. shown = <<>> /\ shown \o buffer = buffer
    BY <1>1, <2>1, ConcatEmptySeq DEF OrderInv
  <2>3. \A i \in 1..Len(buffer) : buffer[i] <= at
    BY <1>1, <2>1, <2>2 DEF Stream!Newer
  <2>4. <<>> \in Seq(Nat) /\ Rising(<<>>)
    BY DEF Rising
  <2> QED BY <1>1, <2>1, <2>2, <2>3, <2>4 DEF OrderInv
<1>5. ASSUME NEW from \in 0..MaxMessages, NEW upTo \in 0..MaxMessages, from <= upTo,
             Stream!Hold(from, upTo)
      PROVE  OrderInv'
  <2>1. /\ Stage = "starting" /\ Stage' = "starting" /\ shown' = shown
        /\ buffer' = buffer \o Stream!Numbers(from, upTo) /\ Stream!Newer(from)
    BY <1>5 DEF Stream!Hold
  <2>2. shown = <<>> /\ shown \o buffer = buffer
    BY <1>1, <2>1, ConcatEmptySeq DEF OrderInv
  <2>3. \A i \in 1..Len(buffer) : buffer[i] <= from
    BY <1>1, <2>1, <2>2 DEF Stream!Newer
  <2>4. from \in Nat /\ upTo \in Nat
    BY <1>1
  <2>5. buffer' \in Seq(Nat) /\ Rising(buffer')
    BY <1>1, <1>5, <2>1, <2>3, <2>4, RisingNumbers, RisingConcat DEF OrderInv
  <2>6. Rising(buffer)'
    BY <2>5 DEF Rising
  <2> QED BY <2>1, <2>5, <2>6 DEF OrderInv
<1>6. ASSUME NEW upTo \in 0..MaxMessages, messageId \in 0..MaxMessages, messageId <= upTo,
             Stream!Show(upTo)
      PROVE  OrderInv'
  <2>1. /\ Stage = "started" /\ Stage' = "started" /\ buffer' = buffer /\ messageId' = upTo
        /\ shown' = shown \o Stream!Numbers(messageId, upTo)
    BY <1>6 DEF Stream!Show
  <2>2. /\ buffer = <<>> /\ \A i \in 1..Len(shown) : shown[i] <= messageId
        /\ messageId \in Nat /\ upTo \in Nat
    BY <1>1, <2>1 DEF OrderInv
  <2>3. /\ shown' \in Seq(Nat) /\ Rising(shown')
        /\ \A i \in 1..Len(shown') : shown'[i] <= upTo
    BY <1>1, <1>6, <2>1, <2>2, RisingNumbers, RisingConcat DEF OrderInv
  <2>4. Rising(shown)'
    BY <2>3 DEF Rising
  <2> QED BY <2>1, <2>2, <2>3, <2>4 DEF OrderInv
<1> QED BY <1>2, <1>3, <1>4, <1>5, <1>6 DEF Stream!Next

\* The page is given every message after those that it was given before, and none
\* twice, over all transports, reconnects and what was buffered while connecting.
THEOREM ShownInOrder == Spec => [](\A i, j \in 1..Len(shown) : i < j => shown[i] < shown[j])
<1>1. Init => OrderInv
  <2> SUFFICES ASSUME Init PROVE OrderInv
    OBVIOUS
  <2>1. shown = <<>> /\ buffer = <<>> /\ Stage = "starting"
    BY DEF Init, Stage, Over
  <2>2. <<>> \in Seq(Nat) /\ Rising(<<>>)
    BY DEF Rising
  <2> QED BY <2>1, <2>2 DEF OrderInv
<1>2. OrderInv /\ [Stream!Next]_(Stream!vars) => OrderInv'
  BY OrderStep
<1>3. OrderInv => \A i, j \in 1..Len(shown) : i < j => shown[i] < shown[j]
  BY DEF OrderInv, Rising
<1> QED BY <1>1, <1>2, <1>3, StreamOfThePage, PTL
        DEF ImplementsPageStream, Stream!Spec, Spec

(***************************************************************************)
(* The types of all variables.                                             *)
(***************************************************************************)

\* What holds the connection together, without timers and messages.
Parts ==
    /\ browser \in Browsers
    /\ loaded \in BOOLEAN
    /\ deferral \in {"none", "pending", "resolved", "rejected"}
    /\ negotiating \in BOOLEAN
    /\ transport \in Transports \cup {None}
    /\ untried \in Seq(Transports)
    /\ wire \in Wires
    /\ greeted \in BOOLEAN
    /\ monitoring \in BOOLEAN
    /\ silent \in BOOLEAN
    /\ failures \in 0..MaxFailures

Clocks == [Timers -> 0..MaxTimers]

Given == buffer \in Seq(1..MaxMessages) /\ shown \in Seq(1..MaxMessages)

LEMMA ClocksKept ==
    ASSUME NEW ts \in Clocks
    PROVE  /\ \A cleared : clearTimeout(ts, cleared) \in Clocks
           /\ \A t \in Timers : setTimeout(ts, t) \in Clocks
           /\ reconnect(ts) \in Clocks
           /\ ensureReconnectingState(ts) => timers' \in Clocks
           /\ reconnected(ts) => timers' \in Clocks
<1>1. 0 \in 0..MaxTimers /\ 1 \in 0..MaxTimers
  BY SignalRAssumption
<1>2. \A cleared : clearTimeout(ts, cleared) \in Clocks
  BY <1>1 DEF clearTimeout, Clocks
<1>3. \A t \in Timers : setTimeout(ts, t) \in Clocks
  BY <1>1 DEF setTimeout, Clocks
<1>4. reconnect(ts) \in Clocks
  <2>1. CASE transport = "foreverFrame"
    <3>1. (IF ts["frame"] < MaxTimers THEN ts["frame"] + 1 ELSE ts["frame"]) \in 0..MaxTimers
      BY SignalRAssumption DEF Clocks, Timers
    <3> QED BY <2>1, <3>1 DEF reconnect, Clocks
  <2>2. CASE transport # "foreverFrame"
    BY <1>3, <2>2 DEF reconnect, Timers
  <2> QED BY <2>1, <2>2
<1>5. ensureReconnectingState(ts) => timers' \in Clocks
  BY <1>3 DEF ensureReconnectingState, Timers
<1>6. reconnected(ts) => timers' \in Clocks
  BY <1>2 DEF reconnected
<1> QED BY <1>2, <1>3, <1>4, <1>5, <1>6

LEMMA NumbersGiven ==
    ASSUME NEW from \in 0..MaxMessages, NEW upTo \in 0..MaxMessages
    PROVE  Numbers(from, upTo) \in Seq(1..MaxMessages)
<1>1. from \in Nat /\ upTo \in Nat /\ MaxMessages \in Nat /\ upTo <= MaxMessages
  BY SignalRAssumption
<1>2. CASE from <= upTo
  <2>1. upTo - from \in Nat
    BY <1>1, <1>2
  <2>2. \A i \in 1..(upTo - from) : from + i \in 1..MaxMessages
    BY <1>1, <1>2
  <2> QED BY <2>1, <2>2 DEF Numbers
<1>3. CASE ~(from <= upTo)
  <2>1. 1..(upTo - from) = 1..0
    BY <1>1, <1>3
  <2> QED BY <2>1 DEF Numbers
<1> QED BY <1>2, <1>3

LEMMA StopTypes ==
    ASSUME Parts, timers \in Clocks, Given, stop,
           deferral' \in {"none", "pending", "resolved", "rejected"},
           failures' \in 0..MaxFailures
    PROVE  Parts' /\ timers' \in Clocks /\ Given'
<1>1. Parts'
  BY DEF stop, Parts, Wires
<1>2. timers' \in Clocks
  BY ClocksKept DEF stop
<1>3. Given'
  BY DEF stop, Given
<1> QED BY <1>1, <1>2, <1>3

LEMMA InitializeTypes ==
    ASSUME Parts, Given, timers \in Clocks, failures' \in 0..MaxFailures,
           NEW transports \in Seq(Transports), NEW stopped \in Clocks,
           initialize(transports, stopped)
    PROVE  Parts' /\ timers' \in Clocks /\ Given'
<1>1. CASE transports = <<>>
  BY <1>1, StopTypes DEF initialize
<1>2. CASE transports # <<>>
  <2>1. Head(transports) \in Transports /\ Tail(transports) \in Seq(Transports)
    BY <1>2
  <2>2. /\ transport' = Head(transports) /\ untried' = Tail(transports) /\ greeted' = FALSE
        /\ negotiating' = FALSE /\ wire' \in {"none", "opening"}
        /\ UNCHANGED <<deferral, browser, loaded, monitoring, silent, buffer, shown>>
    BY <1>2 DEF initialize
  <2>3. Parts'
    BY <2>1, <2>2 DEF Parts, Wires
  <2>4. timers' \in Clocks
    <3>1. setTimeout(stopped, "connect") \in Clocks
      BY ClocksKept DEF Timers
    <3>2. setTimeout(setTimeout(stopped, "connect"), "poll") \in Clocks
      BY <3>1, ClocksKept DEF Timers
    <3> QED BY <1>2, <3>1, <3>2 DEF initialize
  <2> QED BY <2>2, <2>3, <2>4 DEF Given
<1> QED BY <1>1, <1>2

LEMMA OnFailedTypes ==
    ASSUME Parts, Given, timers \in Clocks, failures' \in 0..MaxFailures, onFailed
    PROVE  Parts' /\ timers' \in Clocks /\ Given'
<1>1. untried \in Seq(Transports)
  BY DEF Parts
<1>2. clearTimeout(timers, {"connect"} \cup OwnTimers(transport)) \in Clocks
  BY ClocksKept
<1> QED BY <1>1, <1>2, InitializeTypes DEF onFailed

LEMMA FailureTypes == ASSUME Parts PROVE /\ Fail => failures' \in 0..MaxFailures
                                         /\ UNCHANGED envVars => failures' \in 0..MaxFailures
  BY SignalRAssumption DEF Parts, Fail, envVars

\* What the page is given is a stretch of the numbers, or nothing.
LEMMA ReceivedTypes ==
    ASSUME Given, NEW from \in 0..MaxMessages, NEW upTo \in 0..MaxMessages,
           onReceived(from, upTo)
    PROVE  Given'
<1> DEFINE numbers == Numbers(from, upTo)
<1>1. numbers \in Seq(1..MaxMessages)
  BY NumbersGiven
<1>2. \/ buffer' = buffer \o numbers /\ shown' = shown
      \/ shown' = shown \o numbers /\ buffer' = buffer
  BY DEF onReceived
<1> HIDE DEF numbers
<1> QED BY <1>1, <1>2, ConcatProperties DEF Given

LEMMA SuccessTypes ==
    ASSUME Parts, Given, timers \in Clocks, NEW at, onSuccess(at), UNCHANGED envVars,
           wire' = wire, greeted' = greeted
    PROVE  Parts' /\ timers' \in Clocks /\ Given'
<1>1. /\ UNCHANGED <<browser, loaded, negotiating, untried, transport, wire, greeted, failures>>
      /\ deferral' = "resolved" /\ silent' = FALSE /\ monitoring' = Streaming
      /\ shown' = shown \o buffer /\ buffer' = <<>>
  BY DEF onSuccess, envVars
<1>2. Streaming \in BOOLEAN
  BY DEF Streaming
<1>3. Parts'
  BY <1>1, <1>2 DEF Parts
<1>4. Given'
  BY <1>1 DEF Given
<1>5. timers' \in Clocks
  <2> DEFINE ts == clearTimeout(timers, {"connect"})
  <2>1. ts \in Clocks
    BY ClocksKept
  <2>2. timers' = [ts EXCEPT !["ping"] = 1, !["check"] = IF Streaming THEN 1 ELSE @]
    BY DEF onSuccess
  <2> HIDE DEF ts
  <2>3. 1 \in 0..MaxTimers
    BY SignalRAssumption
  <2> QED BY <2>1, <2>2, <2>3 DEF Clocks, Timers
<1> QED BY <1>3, <1>4, <1>5

\* The actions that give the page nothing and touch no timer, those that only touch
\* timers, and those that open, lose or close a wire.
LEMMA QuietTypes ==
    ASSUME IInv, Parts, timers \in Clocks, Given,
           \/ start \/ load \/ Publish \/ SendInitialized \/ SendMessages \/ SendDisconnect
           \/ KeepAlive \/ Silence \/ Break \/ PollDead
    PROVE  Parts' /\ timers' \in Clocks /\ Given'
<1>1. UNCHANGED <<timers, buffer, shown>>
  BY DEF start, load, Publish, SendInitialized, SendMessages, SendDisconnect, KeepAlive,
     Silence, Break, PollDead, Unchanged, dataVars
<1>2. failures' \in 0..MaxFailures
  BY FailureTypes DEF Parts, start, load, Publish, SendInitialized, SendMessages,
     SendDisconnect, KeepAlive, Silence, Break, PollDead, envVars
<1>3. CASE start \/ load
  <2>1. /\ UNCHANGED <<browser, untried, transport, wire, greeted, monitoring, silent>>
        /\ loaded' \in {loaded, TRUE} /\ deferral' \in {deferral, "pending"}
        /\ negotiating' \in {negotiating, TRUE}
    BY <1>3 DEF start, load, negotiate, wireVars
  <2>2. Parts'
    BY <1>2, <2>1 DEF Parts
  <2> QED BY <1>1, <2>2 DEF Given
<1>4. CASE ~(start \/ load)
  <2>1. /\ UNCHANGED <<startVars, transport, monitoring>>
        /\ wire' \in {wire, "broken", "dead"} /\ greeted' \in {greeted, TRUE}
        /\ silent' \in {silent, TRUE, FALSE}
    BY <1>4 DEF Publish, SendInitialized, SendMessages, SendDisconnect, KeepAlive,
       Silence, Break, PollDead, Unchanged, wireVars
  <2>2. Parts'
    BY <1>2, <2>1, ZenonT(40) DEF Parts, Wires, startVars
  <2> QED BY <1>1, <2>2 DEF Given
<1> QED BY <1>3, <1>4

LEMMA TimerTypes ==
    ASSUME IInv, Parts, timers \in Clocks, Given,
           \/ onclose \/ ReconnectTimer \/ SseTimer \/ FrameTimer \/ checkIfAlive \/ onopen
           \/ PollTimer \/ fireReconnected \/ PollShouldReconnect
    PROVE  Parts' /\ timers' \in Clocks /\ Given'
<1>1. /\ UNCHANGED <<startVars, transport, monitoring, buffer, shown>>
      /\ wire' \in {wire, "closed", "opening", "open", "polling"}
      /\ greeted' \in {greeted, state # "connecting"} /\ silent' \in {silent, FALSE}
  BY DEF onclose, ReconnectTimer, SseTimer, FrameTimer, checkIfAlive, onopen, PollTimer,
     fireReconnected, PollShouldReconnect, pollVars, wireVars, dataVars, reconnected
<1>2. failures' \in 0..MaxFailures
  BY FailureTypes DEF Parts, onclose, ReconnectTimer, SseTimer, FrameTimer, checkIfAlive,
     onopen, PollTimer, fireReconnected, PollShouldReconnect, pollVars, envVars
<1>3. Parts'
  <2>1. wire' \in Wires /\ greeted' \in BOOLEAN /\ silent' \in BOOLEAN
    BY <1>1 DEF Parts, Wires
  <2> QED BY <1>1, <1>2, <2>1 DEF Parts, startVars
<1>4. Given'
  BY <1>1 DEF Given
<1>5. timers' \in Clocks
  <2>1. /\ \A cleared : clearTimeout(timers, cleared) \in Clocks
        /\ \A t \in Timers : setTimeout(timers, t) \in Clocks
        /\ reconnect(timers) \in Clocks
    BY ClocksKept
  <2>2. 0 \in 0..MaxTimers /\ 1 \in 0..MaxTimers
    BY SignalRAssumption
  <2>3. CASE onclose
    BY <2>1, <2>3 DEF onclose
  <2>4. CASE ReconnectTimer
    <3> DEFINE cleared == clearTimeout(timers, {"reconnect"})
               ts == [cleared EXCEPT
                         !["sse"] = IF transport = "serverSentEvents" THEN 1 ELSE @]
    <3>1. ensureReconnectingState(ts)
      BY <2>4 DEF ReconnectTimer
    <3>2. cleared \in Clocks
      BY <2>1
    <3> HIDE DEF cleared
    <3>3. ts \in Clocks
      BY <2>2, <3>2 DEF Clocks
    <3> HIDE DEF ts
    <3> QED BY <3>1, <3>3, ClocksKept
  <2>5. CASE SseTimer
    <3> DEFINE fired == clearTimeout(timers, {"sse"})
    <3>1. fired \in Clocks
      BY <2>1
    <3>2. timers' = IF wire = "none" THEN fired ELSE reconnect(fired)
      BY <2>5 DEF SseTimer
    <3> HIDE DEF fired
    <3> QED BY <3>1, <3>2, ClocksKept
  <2>6. CASE FrameTimer
    <3> DEFINE fired == [timers EXCEPT !["frame"] = @ - 1]
    <3>1. timers["frame"] - 1 \in 0..MaxTimers
      BY <2>6, SignalRAssumption DEF FrameTimer, Clocks, Timers
    <3>2. fired \in Clocks
      BY <3>1 DEF Clocks
    <3>3. ensureReconnectingState(fired) \/ timers' = fired
      BY <2>6 DEF FrameTimer
    <3> HIDE DEF fired
    <3> QED BY <3>2, <3>3, ClocksKept
  <2>7. CASE checkIfAlive
    <3> DEFINE next == [timers EXCEPT !["check"] = IF monitoring THEN 1 ELSE 0]
    <3>1. next \in Clocks
      BY <2>2 DEF Clocks
    <3>2. timers' = IF state = "connected" /\ silent THEN reconnect(next) ELSE next
      BY <2>7 DEF checkIfAlive
    <3> HIDE DEF next
    <3> QED BY <3>1, <3>2, ClocksKept
  <2>8. CASE onopen
    BY <2>1, <2>8, ClocksKept DEF onopen
  <2>9. CASE PollTimer
    <3> DEFINE fired == clearTimeout(timers, {"poll"})
    <3>1. fired \in Clocks
      BY <2>1
    <3>2. timers' = IF messageId = None THEN fired ELSE setTimeout(fired, "fireReconnected")
      BY <2>9 DEF PollTimer
    <3> HIDE DEF fired
    <3> QED BY <3>1, <3>2, ClocksKept DEF Timers
  <2>10. CASE fireReconnected
    BY <2>1, <2>10, ClocksKept DEF fireReconnected
  <2>11. CASE PollShouldReconnect
    <3>1. setTimeout(timers, "disconnect") \in Clocks
      BY <2>1 DEF Timers
    <3> QED BY <2>11, <3>1, ClocksKept DEF PollShouldReconnect, Timers
  <2> QED BY <2>3, <2>4, <2>5, <2>6, <2>7, <2>8, <2>9, <2>10, <2>11
<1> QED BY <1>3, <1>4, <1>5

\* The transports are tried in their order; the ends of a connection.
LEMMA TryTypes ==
    ASSUME IInv, Parts, timers \in Clocks, Given,
           \/ Negotiated \/ NegotiateFails \/ ConnectTimeout \/ handleParseFailure
           \/ ConnectFails \/ PollDisconnected \/ PollError
           \/ onReconnectTimeout \/ pingServer \/ unload
    PROVE  Parts' /\ timers' \in Clocks /\ Given'
<1>1. failures' \in 0..MaxFailures
  BY FailureTypes DEF Negotiated, NegotiateFails, ConnectTimeout, handleParseFailure,
     ConnectFails, PollDisconnected, PollError, onReconnectTimeout, pingServer, unload, envVars
<1>2. deferral \in {"none", "pending", "resolved", "rejected"}
  BY DEF Parts
<1>3. CASE Negotiated
  <2>1. \A t \in Transports : Only(t) \in Seq(Transports)
    BY DEF Only
  <2>2. supportedTransports \in Seq(Transports)
    <3> DEFINE a == Only("webSockets")
               b == Only("serverSentEvents")
               c == Only("foreverFrame")
               d == Only("longPolling")
    <3>1. a \in Seq(Transports) /\ b \in Seq(Transports) /\ c \in Seq(Transports)
          /\ d \in Seq(Transports)
      BY <2>1 DEF Transports
    <3>2. supportedTransports = a \o b \o c \o d
      BY DEF supportedTransports
    <3> HIDE DEF a, b, c, d
    <3> QED BY <3>1, <3>2
  <2> QED BY <1>1, <1>3, <2>2, InitializeTypes DEF Negotiated
<1>4. CASE onFailed
  BY <1>1, <1>4, OnFailedTypes
<1>5. CASE stop /\ deferral' \in {deferral, "rejected"}
  BY <1>1, <1>2, <1>5, StopTypes
<1>6. CASE ConnectFails /\ ~onFailed
  <2>1. /\ UNCHANGED <<startVars, transport, greeted, monitoring, silent, buffer, shown>>
        /\ wire' = "closed"
        /\ timers' = IF transport = "serverSentEvents" THEN timers ELSE reconnect(timers)
    BY <1>6 DEF ConnectFails, dataVars
  <2>2. Parts'
    BY <1>1, <2>1 DEF Parts, Wires, startVars
  <2>3. timers' \in Clocks
    BY <2>1, ClocksKept
  <2> QED BY <2>1, <2>2, <2>3 DEF Given
<1>7. CASE PollError /\ ~onFailed
  <2> DEFINE ts == setTimeout(clearTimeout(timers, {"fireReconnected"}), "poll")
  <2>1. /\ UNCHANGED <<startVars, transport, greeted, monitoring, silent, buffer, shown>>
        /\ wire' = "closed" /\ ensureReconnectingState(ts)
    BY <1>7 DEF PollError, dataVars
  <2>2. ts \in Clocks
    <3>1. clearTimeout(timers, {"fireReconnected"}) \in Clocks
      BY ClocksKept
    <3> QED BY <3>1, ClocksKept DEF Timers
  <2> HIDE DEF ts
  <2>3. Parts'
    BY <1>1, <2>1 DEF Parts, Wires, startVars
  <2>4. timers' \in Clocks
    BY <2>1, <2>2, ClocksKept
  <2> QED BY <2>1, <2>3, <2>4 DEF Given
<1> QED BY <1>3, <1>4, <1>5, <1>6, <1>7
        DEF NegotiateFails, ConnectTimeout, handleParseFailure, ConnectFails,
            PollDisconnected, PollError, onReconnectTimeout, pingServer, unload

LEMMA MessageTypes ==
    ASSUME IInv, Parts, timers \in Clocks, Given, Receive \/ PollConnected \/ PollReceived
    PROVE  Parts' /\ timers' \in Clocks /\ Given'
<1>1. failures' \in 0..MaxFailures
  BY FailureTypes DEF Receive, PollConnected, PollReceived, pollVars, envVars
<1>2. CASE Receive
  <2>1. net # <<>> /\ processMessages(Head(net)) /\ UNCHANGED envVars
    BY <1>2 DEF Receive
  <2>2. Head(net) \in Frames
    BY <2>1 DEF IInv, Typed
  <2>3. PICK f \in Frames : processMessages(f)
    BY <2>1, <2>2
  <2>4. CASE stop /\ deferral' = deferral
    BY <1>1, <2>4, StopTypes DEF Parts
  <2>5. CASE onSuccess(f.upTo) /\ UNCHANGED <<wire, greeted>>
    BY <2>1, <2>5, SuccessTypes
  <2>6. CASE onReceived(f.from, f.upTo) /\ silent' = FALSE
             /\ UNCHANGED <<startVars, transport, wire, greeted, timers, monitoring>>
    <3>1. f.from \in 0..MaxMessages /\ f.upTo \in 0..MaxMessages
      BY DEF Frames
    <3>2. Given'
      BY <2>6, <3>1, ReceivedTypes
    <3>3. Parts'
      BY <1>1, <2>6 DEF Parts, startVars
    <3> QED BY <2>6, <3>2, <3>3
  <2> QED BY <2>3, <2>4, <2>5, <2>6 DEF processMessages
<1>3. CASE PollConnected
  BY <1>3, SuccessTypes DEF PollConnected, wireVars
<1>4. CASE PollReceived
  <2>1. messageId \in 0..MaxMessages /\ published \in 0..MaxMessages
    BY <1>4 DEF PollReceived, IInv, Typed
  <2>2. PICK upTo \in messageId..published : onReceived(messageId, upTo)
    BY <1>4 DEF PollReceived
  <2>3. upTo \in 0..MaxMessages
    BY <2>1, <2>2, SignalRAssumption
  <2>4. Given'
    BY <2>1, <2>2, <2>3, ReceivedTypes
  <2>5. /\ UNCHANGED <<startVars, transport, wire, greeted, monitoring>>
        /\ silent' \in {silent, FALSE}
    BY <1>4 DEF PollReceived, answered, reconnected, pollVars
  <2>6. Parts'
    BY <1>1, <2>5 DEF Parts, startVars
  <2>7. timers' \in Clocks
    BY <1>4, ClocksKept DEF PollReceived, answered
  <2> QED BY <2>4, <2>6, <2>7
<1> QED BY <1>2, <1>3, <1>4

\* Every variable keeps its type, whatever the browser can do and whatever fails.
THEOREM TypeCorrect == Spec => []TypeOK
<1> DEFINE T == Parts /\ timers \in Clocks /\ Given
<1>1. Init => T
  <2> SUFFICES ASSUME Init PROVE T
    OBVIOUS
  <2>1. 0 \in 0..MaxTimers /\ 0 \in 0..MaxFailures
    BY SignalRAssumption
  <2>2. <<>> \in Seq(Transports) /\ <<>> \in Seq(1..MaxMessages)
    OBVIOUS
  <2>3. Parts
    BY <2>1, <2>2 DEF Init, Parts, Wires
  <2>4. timers \in Clocks
    BY <2>1 DEF Init, Clocks
  <2> QED BY <2>2, <2>3, <2>4 DEF Init, Given
<1>2. IInv /\ T /\ [Next]_vars => T'
  <2> SUFFICES ASSUME IInv, T, [Next]_vars PROVE T'
    OBVIOUS
  <2>1. CASE UNCHANGED vars
    BY <2>1 DEF Parts, Given, vars, startVars, wireVars, dataVars, envVars
  <2>2. CASE Next
    BY <2>2, QuietTypes, TimerTypes, TryTypes, MessageTypes DEF Next
  <2> QED BY <2>1, <2>2
<1>3. IInv /\ T => TypeOK
  BY DEF IInv, Typed, Parts, Clocks, Given, TypeOK
<1> HIDE DEF T
<1> QED BY <1>1, <1>2, <1>3, IInvAlways, PTL DEF Spec

===============================================================================
