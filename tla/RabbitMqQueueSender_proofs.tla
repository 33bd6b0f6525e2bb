----------------------- MODULE RabbitMqQueueSender_proofs -----------------------
(***************************************************************************)
(* Proofs about the calls that send a message, for any set of calls and    *)
(* any number of failures.                                                 *)
(***************************************************************************)
EXTENDS RabbitMqQueueSender, TLAPS

\* How far a call is, and what it holds there.
Held(c) ==
    /\ pc[c] = "begin" => connection[c] = "none"
    /\ pc[c] \in {"CreateModel", "Send", "Close model", "Close connection"}
          => connection[c] \in {"open", "lost"}
    /\ pc[c] \in {"begin", "CreateModel", "Send"} => ~thrown[c] /\ fate[c] = "unsent"
    /\ outcome[c] = "ok" => pc[c] = "end"

\* What a call may count on while its connection held.
Undisturbed(c) ==
    ~broken[c] =>
        /\ connection[c] # "lost"
        /\ ~thrown[c]
        /\ fate[c] # "lost"
        /\ pc[c] \in {"Send", "Close model"} => model[c] = "open"
        /\ pc[c] = "Close model" => fate[c] \in {"sent", "queued", "dropped"}
        /\ pc[c] = "Close connection" => fate[c] \in {"queued", "dropped"}
        /\ outcome[c] = "ok" => fate[c] \in {"queued", "dropped"}

\* Routes stay, so a message that had one is not dropped.
RouteStays(c) ==
    /\ routed[c] => Routed(c)
    /\ fate[c] = "dropped" => ~routed[c]

Leaks(c) ==
    pc[c] = "end" /\ connection[c] \in {"open", "lost"} => closeFailed[c]

CallInv(c) == Held(c) /\ Undisturbed(c) /\ RouteStays(c) /\ Leaks(c)

IInv == TypeOK /\ \A c \in Calls : CallInv(c)

LEMMA IInvInit == Init => IInv
<1> SUFFICES ASSUME Init PROVE IInv
  OBVIOUS
<1>1. TypeOK
  BY SenderAssumption DEF Init, TypeOK, Exchanges
<1>2. ASSUME NEW c \in Calls PROVE CallInv(c)
  BY DEF Init, CallInv, Held, Undisturbed, RouteStays, Leaks
<1> QED BY <1>1, <1>2 DEF IInv

\* What a call knows of itself survives a step that changes nothing of it and takes
\* no route away.
LEMMA Untouched ==
    ASSUME NEW d \in Calls, CallInv(d),
           exchange'[d] = exchange[d], declared \subseteq declared',
           pc'[d] = pc[d], connection'[d] = connection[d], model'[d] = model[d],
           thrown'[d] = thrown[d], outcome'[d] = outcome[d], fate'[d] = fate[d],
           routed'[d] = routed[d], broken'[d] = broken[d], closeFailed'[d] = closeFailed[d]
    PROVE  CallInv(d)'
<1>1. Routed(d) => Routed(d)'
  BY DEF Routed
<1>2. Held(d)' /\ Leaks(d)'
  BY DEF CallInv, Held, Leaks
<1>3. Undisturbed(d)'
  BY DEF CallInv, Undisturbed
<1>4. RouteStays(d)'
  BY <1>1 DEF CallInv, RouteStays
<1> QED BY <1>2, <1>3, <1>4 DEF CallInv

LEMMA DeclareIInv == ASSUME IInv, Declare PROVE IInv'
<1>1. declared \subseteq declared' /\ UNCHANGED <<exchange, callVars, historyVars, failures>>
  BY DEF Declare
<1>2. TypeOK'
  <2>1. declared' \in SUBSET (Exchanges \cup {"queue", "command queue"})
    <3>1. PICK x \in {"queue", "CommandExchange", "command queue"} :
             declared' = declared \cup {x}
      BY DEF Declare
    <3>2. x \in Exchanges \cup {"queue", "command queue"}
      BY <3>1 DEF Exchanges
    <3> QED BY <3>1, <3>2 DEF IInv, TypeOK
  <2> QED BY <1>1, <2>1 DEF IInv, TypeOK, callVars, historyVars
<1>3. ASSUME NEW d \in Calls PROVE CallInv(d)'
  BY <1>1, <1>3, Untouched DEF IInv, callVars, historyVars
<1> QED BY <1>2, <1>3 DEF IInv

\* A step of one call, or of the broker about it.
Step(c) ==
    \/ Route(c) \/ LoseConnection(c) \/ RecoverConnection(c)
    \/ CreateConnection(c) \/ CreateConnectionFails(c)
    \/ CreateModel(c) \/ CreateModelFails(c)
    \/ Send(c) \/ CloseModel(c) \/ CloseModelThrows(c) \/ CloseConnection(c)

LEMMA FailuresBounded ==
    ASSUME IInv, Fail \/ UNCHANGED failures
    PROVE  failures' \in 0..MaxFailures
<1>1. failures \in 0..MaxFailures
  BY DEF IInv, TypeOK
<1> QED BY <1>1, SenderAssumption DEF Fail

LEMMA StepType == ASSUME IInv, NEW c \in Calls, Step(c) PROVE TypeOK'
<1> DEFINE Fates == {"unsent", "sent", "queued", "dropped", "lost"}
<1>1. CASE Route(c)
  <2>1. fate' \in [Calls -> Fates]
    BY <1>1 DEF Route, Becomes, IInv, TypeOK
  <2>2. model' \in [Calls -> {"none", "open", "closed"}] /\ broken' \in [Calls -> BOOLEAN]
    <3>1. CASE UNCHANGED <<model, broken>>
      BY <3>1 DEF IInv, TypeOK
    <3>2. CASE Becomes(model, c, "closed") /\ Becomes(broken, c, TRUE)
      BY <3>2 DEF Becomes, IInv, TypeOK
    <3> QED BY <1>1, <3>1, <3>2 DEF Route
  <2> QED BY <1>1, <2>1, <2>2 DEF Route, IInv, TypeOK
<1>2. CASE LoseConnection(c)
  <2>1. fate' \in [Calls -> Fates]
    BY <1>2 DEF LoseConnection, Becomes, IInv, TypeOK
  <2>2. connection' \in [Calls -> {"none", "open", "lost", "closed"}]
    BY <1>2 DEF LoseConnection, Becomes, IInv, TypeOK
  <2>3. broken' \in [Calls -> BOOLEAN]
    BY <1>2 DEF LoseConnection, Becomes, IInv, TypeOK
  <2>4. failures' \in 0..MaxFailures
    BY <1>2, FailuresBounded DEF LoseConnection
  <2> QED BY <1>2, <2>1, <2>2, <2>3, <2>4 DEF LoseConnection, IInv, TypeOK
<1>3. CASE RecoverConnection(c)
  BY <1>3 DEF RecoverConnection, Becomes, historyVars, IInv, TypeOK
<1>4. CASE CreateConnection(c)
  <2>1. Routed(c) \in BOOLEAN
    <3>1. CASE exchange[c] = "default"
      BY <3>1 DEF Routed
    <3>2. CASE exchange[c] # "default"
      BY <3>2 DEF Routed
    <3> QED BY <3>1, <3>2
  <2>2. routed' \in [Calls -> BOOLEAN]
    BY <1>4, <2>1 DEF CreateConnection, Becomes, IInv, TypeOK
  <2> QED BY <1>4, <2>2 DEF CreateConnection, Becomes, IInv, TypeOK
<1>5. CASE CreateConnectionFails(c) \/ CreateModelFails(c)
  <2>1. failures' \in 0..MaxFailures
    BY <1>5, FailuresBounded DEF CreateConnectionFails, CreateModelFails
  <2>2. closeFailed' \in [Calls -> BOOLEAN]
    BY <1>5 DEF CreateConnectionFails, CreateModelFails, Becomes, historyVars, IInv, TypeOK
  <2>3. /\ pc' = [pc EXCEPT ![c] = "end"]
        /\ outcome' = [outcome EXCEPT ![c] = "NullReferenceException"]
        /\ UNCHANGED <<exchange, declared, connection, model, thrown, fate, routed, broken>>
    BY <1>5 DEF CreateConnectionFails, CreateModelFails, Ends, Becomes, historyVars
  <2> QED BY <2>1, <2>2, <2>3 DEF IInv, TypeOK
<1>6. CASE CreateModel(c)
  BY <1>6 DEF CreateModel, Becomes, historyVars, IInv, TypeOK
<1>7. CASE Send(c)
  <2>1. fate' \in [Calls -> Fates] /\ thrown' \in [Calls -> BOOLEAN]
    BY <1>7 DEF Send, Becomes, IInv, TypeOK
  <2> QED BY <1>7, <2>1 DEF Send, Becomes, historyVars, IInv, TypeOK
<1>8. CASE CloseModel(c)
  BY <1>8 DEF CloseModel, Becomes, historyVars, IInv, TypeOK
<1>9. CASE CloseModelThrows(c) \/ CloseConnection(c)
  BY <1>9, ZenonT(40) DEF CloseModelThrows, CloseConnection, Ends, Becomes, historyVars, IInv, TypeOK
<1> QED BY <1>1, <1>2, <1>3, <1>4, <1>5, <1>6, <1>7, <1>8, <1>9 DEF Step

LEMMA StepOthers ==
    ASSUME IInv, NEW c \in Calls, Step(c), NEW d \in Calls, d # c
    PROVE  CallInv(d)'
<1>1. /\ exchange' = exchange /\ declared' = declared
      /\ pc'[d] = pc[d] /\ connection'[d] = connection[d] /\ model'[d] = model[d]
      /\ thrown'[d] = thrown[d] /\ outcome'[d] = outcome[d] /\ fate'[d] = fate[d]
      /\ routed'[d] = routed[d] /\ broken'[d] = broken[d]
      /\ closeFailed'[d] = closeFailed[d]
  <2> USE DEF IInv, TypeOK, Becomes, Ends, callVars, historyVars
  <2>1. CASE Route(c) \/ LoseConnection(c) \/ RecoverConnection(c)
    BY <2>1, ZenonT(40) DEF Route, LoseConnection, RecoverConnection
  <2>2. CASE CreateConnection(c) \/ CreateConnectionFails(c)
    BY <2>2, ZenonT(40) DEF CreateConnection, CreateConnectionFails
  <2>3. CASE CreateModel(c) \/ CreateModelFails(c)
    BY <2>3, ZenonT(40) DEF CreateModel, CreateModelFails
  <2>4. CASE Send(c) \/ CloseModel(c)
    BY <2>4, ZenonT(40) DEF Send, CloseModel
  <2>5. CASE CloseModelThrows(c) \/ CloseConnection(c)
    BY <2>5, ZenonT(40) DEF CloseModelThrows, CloseConnection
  <2> QED BY <2>1, <2>2, <2>3, <2>4, <2>5 DEF Step
<1>2. CallInv(d)
  BY DEF IInv
<1> QED BY <1>1, <1>2, Untouched

LEMMA StepOwn == ASSUME IInv, NEW c \in Calls, Step(c) PROVE CallInv(c)'
<1>1. CallInv(c)
  BY DEF IInv
<1>2. exchange' = exchange /\ declared' = declared
  BY DEF Step, Route, LoseConnection, RecoverConnection, CreateConnection,
     CreateConnectionFails, CreateModel, CreateModelFails, Send, CloseModel,
     CloseModelThrows, CloseConnection
<1>3. Routed(c)' = Routed(c)
  BY <1>2 DEF Routed
<1> USE DEF IInv, TypeOK, CallInv, Held, Undisturbed, RouteStays, Leaks, Becomes, Ends,
            callVars, historyVars
<1>4. CASE Route(c)
  <2>1. fate[c] = "sent" /\ fate' = [fate EXCEPT ![c] = IF Routed(c) THEN "queued" ELSE "dropped"]
    BY <1>4 DEF Route
  <2>2. \/ model'[c] = model[c] /\ broken'[c] = broken[c]
        \/ broken'[c]
    <3>1. CASE UNCHANGED <<model, broken>>
      BY <3>1
    <3>2. CASE Becomes(model, c, "closed") /\ Becomes(broken, c, TRUE)
      BY <3>2
    <3> QED BY <1>4, <3>1, <3>2 DEF Route
  <2>3. UNCHANGED <<pc, connection, thrown, outcome, routed, closeFailed>>
    BY <1>4 DEF Route
  <2> QED BY <1>1, <1>3, <2>1, <2>2, <2>3
<1>5. CASE LoseConnection(c)
  BY <1>1, <1>3, <1>5, ZenonT(40) DEF LoseConnection
<1>6. CASE RecoverConnection(c)
  BY <1>1, <1>3, <1>6 DEF RecoverConnection
<1>7. CASE CreateConnection(c)
  BY <1>1, <1>3, <1>7 DEF CreateConnection
<1>8. CASE CreateConnectionFails(c)
  BY <1>1, <1>3, <1>8 DEF CreateConnectionFails
<1>9. CASE CreateModel(c)
  BY <1>1, <1>3, <1>9 DEF CreateModel
<1>10. CASE CreateModelFails(c)
  BY <1>1, <1>3, <1>10, ZenonT(40) DEF CreateModelFails
<1>11. CASE Send(c)
  <2>1. CASE connection[c] = "open"
    <3>1. /\ pc[c] = "Send" /\ pc'[c] = "Close model" /\ fate'[c] = "sent"
          /\ UNCHANGED <<connection, model, thrown, outcome, routed, broken, closeFailed>>
      BY <1>11, <2>1 DEF Send
    <3> QED BY <1>1, <1>3, <3>1
  <2>2. CASE connection[c] # "open"
    BY <1>1, <1>3, <1>11, <2>2 DEF Send
  <2> QED BY <2>1, <2>2
<1>12. CASE CloseModel(c)
  BY <1>1, <1>3, <1>12 DEF CloseModel, Works
<1>13. CASE CloseModelThrows(c)
  BY <1>1, <1>3, <1>13 DEF CloseModelThrows, Works
<1>14. CASE CloseConnection(c)
  BY <1>1, <1>3, <1>14, ZenonT(40) DEF CloseConnection
<1> QED BY <1>4, <1>5, <1>6, <1>7, <1>8, <1>9, <1>10, <1>11, <1>12, <1>13, <1>14 DEF Step

LEMMA IInvNext == IInv /\ [Next]_vars => IInv'
<1> SUFFICES ASSUME IInv, [Next]_vars PROVE IInv'
  OBVIOUS
<1>1. CASE Declare
  BY <1>1, DeclareIInv
<1>2. ASSUME NEW c \in Calls, Step(c) PROVE IInv'
  <2>1. ASSUME NEW d \in Calls PROVE CallInv(d)'
    BY <1>2, StepOwn, StepOthers
  <2> QED BY <1>2, <2>1, StepType DEF IInv
<1>3. CASE UNCHANGED vars
  <2>1. TypeOK'
    BY <1>3 DEF vars, callVars, historyVars, IInv, TypeOK
  <2>2. ASSUME NEW d \in Calls PROVE CallInv(d)'
    BY <1>3, Untouched DEF vars, callVars, historyVars, IInv
  <2> QED BY <2>1, <2>2 DEF IInv
<1> QED BY <1>1, <1>2, <1>3 DEF Next, Step

LEMMA IInvAlways == Spec => []IInv
  BY IInvInit, IInvNext, PTL DEF Spec

\* Type correctness of calls, connections and channels.
THEOREM TypeCorrect == Spec => []TypeOK
<1>1. IInv => TypeOK
  BY DEF IInv
<1> QED BY IInvAlways, <1>1, PTL

\* A call that returned over a connection that held has its message in its queue, if
\* there was a route: the close of the channel is what makes it so.
THEOREM SendWaitsForBroker == Spec => []SentIsQueued
<1>1. IInv => SentIsQueued
  BY DEF IInv, CallInv, Undisturbed, RouteStays, SentIsQueued
<1> QED BY IInvAlways, <1>1, PTL

\* Connections are left behind by failed closes and refused channels only.
THEOREM ConnectionsClosed == Spec => []LeaksOnlyOnFailure
<1>1. IInv => LeaksOnlyOnFailure
  BY DEF IInv, CallInv, Leaks, LeaksOnlyOnFailure
<1> QED BY IInvAlways, <1>1, PTL

===============================================================================
