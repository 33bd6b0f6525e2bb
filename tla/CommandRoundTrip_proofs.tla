------------------------ MODULE CommandRoundTrip_proofs ------------------------
(***************************************************************************)
(* Proofs about CommandRoundTrip, for any number of requests and devices,  *)
(* any retry time and any number of failures: the safety properties that   *)
(* the runs check, and that the command path implements RequestReply.      *)
(***************************************************************************)
EXTENDS CommandRoundTrip, TLAPS

(***************************************************************************)
(* The inductive invariant.                                                *)
(***************************************************************************)
\* A command that is anywhere on its way was asked of some device.
Asked ==
    /\ \A r \in Requests : caller[r] # "none" => device[r] \in Devices
    /\ \A r \in commands \cup pushed : caller[r] # "none"
    /\ \A r \in Requests, d \in Devices : <<r, d>> \in shown =>
          caller[r] # "none" /\ d = device[r]

\* A response that names a request comes from the page that was asked and has
\* shown the command.
Truthful(p) ==
    p.id \in Requests => p.by = device[p.id] /\ <<p.id, p.by>> \in shown

ResponsesTruthful == \A p \in posts \cup responses : Truthful(p)

\* A response grain holds only what was meant for it.
ResultsTruthful ==
    \A r \in Requests : resultValue[r] # NoAnswer =>
        resultValue[r].id = r /\ Truthful(resultValue[r])

\* The queue of a device is bound before the start message is sent.
BoundInTime ==
    /\ \A d \in Devices :
          setup[d] \in {"bound", "queued", "announced", "listening"} => d \in bound
    /\ known \subseteq bound

IInv ==
    /\ TypeOK
    /\ Asked
    /\ ResponsesTruthful
    /\ ResultsTruthful
    /\ AnswersOwnRequest
    /\ BoundInTime

PageAction(d) ==
    \/ HubStart(d) \/ PageCloses(d) \/ CreateQueue(d) \/ SendStart(d)
    \/ QueueStartFails(d) \/ StartCommandProcessorHost(d) \/ StartListener(d)

PollAction(r) == GetResultAsync(r) \/ Wakes(r)

LEMMA InitInvariant == Init => IInv
  BY RoundTripAssumption DEF Init, IInv, TypeOK, Asked, ResponsesTruthful, ResultsTruthful,
     Truthful, AnswersOwnRequest, BoundInTime, Setups, Callers, Grains

LEMMA TypeStep == TypeOK /\ [Next]_vars => TypeOK'
<1> SUFFICES ASSUME TypeOK, [Next]_vars PROVE TypeOK'
    OBVIOUS
<1> USE RoundTripAssumption
<1>1. ASSUME NEW d \in Devices, PageAction(d) PROVE TypeOK'
      BY <1>1 DEF PageAction, HubStart, PageCloses, CreateQueue, SendStart, QueueStartFails,
         StartCommandProcessorHost, StartListener, SetUp, Fail, TypeOK, Setups,
         callVars, pushVars, deviceVars, replyVars
<1>2. ASSUME ListenersLost PROVE TypeOK'
      BY <1>2 DEF ListenersLost, Fail, TypeOK, Setups, callVars, pushVars,
         deviceVars, replyVars
<1>3. ASSUME HubDown \/ HubUp PROVE TypeOK'
      BY <1>3 DEF HubDown, HubUp, Fail, TypeOK, pageVars, callVars, deviceVars, replyVars
<1>4. ASSUME NEW d \in Devices, PostGarbled(d) PROVE TypeOK'
      BY <1>4 DEF PostGarbled, Fail, TypeOK, Responses, pageVars, callVars, pushVars, replyVars
<1>5. ASSUME NEW r \in Requests, NEW d \in Devices, GetResponse(r, d) PROVE TypeOK'
      BY <1>5 DEF GetResponse, TypeOK, Callers, pageVars, pushVars, deviceVars, replyVars
<1>6. ASSUME NEW r \in Requests, RequestForResponse(r) \/ RequestFails(r) PROVE TypeOK'
      BY <1>6 DEF RequestForResponse, RequestFails, Routed, Fail, TypeOK, Callers,
         pageVars, deviceVars, replyVars
<1>7. ASSUME NEW r \in Requests, PollAction(r) PROVE TypeOK'
  <2>1. PICK time \in 0..RetryTicks : PollAt(r, time)
        BY <1>7 DEF PollAction, GetResultAsync, Wakes, TypeOK
  <2> QED BY <2>1 DEF PollAt, TypeOK, Callers, Grains, pageVars, pushVars, deviceVars, replyVars
<1>8. ASSUME NEW r \in Requests, ClientTimeout(r) PROVE TypeOK'
      BY <1>8 DEF ClientTimeout, TypeOK, Callers, pageVars, pushVars, deviceVars, replyVars
<1>9. ASSUME NEW r \in Requests, RouteMessageToClient(r) \/ CommandLost(r) PROVE TypeOK'
      BY <1>9 DEF RouteMessageToClient, CommandLost, Fail, TypeOK, pageVars, callVars,
         deviceVars, replyVars
<1>10. ASSUME NEW r \in Requests, MessageUpdate(r) PROVE TypeOK'
      BY <1>10 DEF MessageUpdate, Shows, TypeOK, Responses, pageVars, callVars, replyVars
<1>11. ASSUME NEW p \in Responses, PostAsync(p) \/ PostFails(p) \/ ResponseLost(p)
       PROVE  TypeOK'
      BY <1>11 DEF PostAsync, PostFails, ResponseLost, Fail, TypeOK,
         pageVars, callVars, pushVars, deviceVars, replyVars
<1>12. ASSUME NEW p \in Responses, RouteMessageToHub(p) PROVE TypeOK'
      BY <1>12 DEF RouteMessageToHub, TryParse, Fail, TypeOK, Grains,
         pageVars, callVars, pushVars, deviceVars
<1>13. ASSUME NEW g \in Grains, ResponseGrainLost(g) PROVE TypeOK'
      BY <1>13 DEF ResponseGrainLost, Fail, TypeOK, Callers, pageVars, pushVars, deviceVars
<1>14. CASE UNCHANGED vars
      BY <1>14 DEF vars, TypeOK, pageVars, callVars, pushVars, deviceVars, replyVars
<1> QED BY <1>1, <1>2, <1>3, <1>4, <1>5, <1>6, <1>7, <1>8, <1>9, <1>10, <1>11, <1>12,
           <1>13, <1>14 DEF Next, PageAction, PollAction

LEMMA AskedStep == TypeOK /\ Asked /\ [Next]_vars => Asked'
<1> SUFFICES ASSUME TypeOK, Asked, [Next]_vars PROVE Asked'
    OBVIOUS
<1> USE RoundTripAssumption DEF Asked
<1>1. CASE UNCHANGED <<commands, pushed, shown, device, caller>>
      BY <1>1
<1>2. ASSUME NEW r \in Requests, NEW d \in Devices, GetResponse(r, d) PROVE Asked'
      BY <1>2 DEF GetResponse, TypeOK, pushVars, deviceVars
<1>3. ASSUME NEW r \in Requests, RequestForResponse(r) \/ RequestFails(r) PROVE Asked'
      BY <1>3 DEF RequestForResponse, RequestFails, Routed, TypeOK, deviceVars
<1>4. ASSUME NEW r \in Requests, PollAction(r) PROVE Asked'
  <2>1. /\ \E c \in {"empty", "answered", "delaying"} : caller' = [caller EXCEPT ![r] = c]
        /\ caller[r] # "none"
        /\ UNCHANGED <<commands, pushed, shown, device>>
        BY <1>4 DEF PollAction, GetResultAsync, Wakes, PollAt, pushVars, deviceVars
  <2> QED BY <2>1 DEF TypeOK
<1>5. ASSUME NEW r \in Requests, ClientTimeout(r) PROVE Asked'
      BY <1>5 DEF ClientTimeout, TypeOK, pushVars, deviceVars
<1>6. ASSUME NEW r \in Requests, RouteMessageToClient(r) \/ CommandLost(r) PROVE Asked'
      BY <1>6 DEF RouteMessageToClient, CommandLost, callVars, deviceVars
<1>7. ASSUME NEW r \in Requests, MessageUpdate(r) PROVE Asked'
      BY <1>7 DEF MessageUpdate, Shows, callVars
<1>8. ASSUME NEW g \in Grains, ResponseGrainLost(g) PROVE Asked'
      BY <1>8 DEF ResponseGrainLost, TypeOK, pushVars, deviceVars
<1>9. ASSUME NEW d \in Devices, PageAction(d) \/ PostGarbled(d) PROVE Asked'
      BY <1>9, <1>1 DEF PageAction, HubStart, PageCloses, CreateQueue, SendStart,
         QueueStartFails, StartCommandProcessorHost, StartListener, PostGarbled,
         callVars, pushVars, deviceVars
<1>10. ASSUME NEW p \in Responses,
              PostAsync(p) \/ PostFails(p) \/ RouteMessageToHub(p) \/ ResponseLost(p)
       PROVE  Asked'
      BY <1>10, <1>1 DEF PostAsync, PostFails, RouteMessageToHub, ResponseLost,
         callVars, pushVars, deviceVars
<1>11. CASE ListenersLost \/ HubDown \/ HubUp \/ UNCHANGED vars
      BY <1>11, <1>1 DEF ListenersLost, HubDown, HubUp, vars, callVars, pushVars, deviceVars
<1> QED BY <1>2, <1>3, <1>4, <1>5, <1>6, <1>7, <1>8, <1>9, <1>10, <1>11
        DEF Next, PageAction, PollAction

\* A response that is truthful stays so: the device of a request that was asked
\* never changes, and a page that showed a command has shown it for good.
LEMMA TruthfulStays ==
    ASSUME TypeOK, Asked, [Next]_vars, NEW p \in Responses, Truthful(p)
    PROVE  Truthful(p)'
<1> USE DEF Truthful
<1>1. CASE UNCHANGED <<shown, device>>
      BY <1>1
<1>2. ASSUME NEW r \in Requests, NEW d \in Devices, GetResponse(r, d) PROVE Truthful(p)'
      BY <1>2 DEF GetResponse, TypeOK, Asked, Responses, deviceVars
<1>3. ASSUME NEW r \in Requests, MessageUpdate(r) PROVE Truthful(p)'
      BY <1>3 DEF MessageUpdate, Shows, callVars
<1>4. ASSUME NEW r \in Requests,
             \/ RequestForResponse(r) \/ RequestFails(r) \/ PollAction(r)
             \/ ClientTimeout(r) \/ RouteMessageToClient(r) \/ CommandLost(r)
      PROVE  Truthful(p)'
      BY <1>4, <1>1 DEF RequestForResponse, RequestFails, PollAction, GetResultAsync, Wakes,
         PollAt, ClientTimeout, RouteMessageToClient, CommandLost, callVars, deviceVars
<1>5. ASSUME NEW d \in Devices, PageAction(d) \/ PostGarbled(d) PROVE Truthful(p)'
      BY <1>5, <1>1 DEF PageAction, HubStart, PageCloses, CreateQueue, SendStart,
         QueueStartFails, StartCommandProcessorHost, StartListener, PostGarbled,
         callVars, deviceVars
<1>6. ASSUME NEW q \in Responses,
             PostAsync(q) \/ PostFails(q) \/ RouteMessageToHub(q) \/ ResponseLost(q)
      PROVE  Truthful(p)'
      BY <1>6, <1>1 DEF PostAsync, PostFails, RouteMessageToHub, ResponseLost,
         callVars, deviceVars
<1>7. ASSUME NEW g \in Grains, ResponseGrainLost(g) PROVE Truthful(p)'
      BY <1>7, <1>1 DEF ResponseGrainLost, deviceVars
<1>8. CASE ListenersLost \/ HubDown \/ HubUp \/ UNCHANGED vars
      BY <1>8, <1>1 DEF ListenersLost, HubDown, HubUp, vars, callVars, deviceVars
<1> QED BY <1>2, <1>3, <1>4, <1>5, <1>6, <1>7, <1>8 DEF Next, PageAction, PollAction

LEMMA ResponsesStep ==
    TypeOK /\ Asked /\ ResponsesTruthful /\ [Next]_vars => ResponsesTruthful'
<1> SUFFICES ASSUME TypeOK, Asked, ResponsesTruthful, [Next]_vars,
                    NEW p \in posts' \cup responses'
             PROVE  Truthful(p)'
    BY DEF ResponsesTruthful
<1> USE RoundTripAssumption
<1>1. CASE p \in posts \cup responses
      BY <1>1, TruthfulStays DEF ResponsesTruthful, TypeOK
<1>2. CASE p \notin posts \cup responses
  <2>1. CASE \E r \in Requests : MessageUpdate(r)
        BY <2>1, <1>2 DEF MessageUpdate, Shows, Truthful, replyVars, callVars
  <2>2. CASE \E d \in Devices : PostGarbled(d)
        BY <2>2, <1>2 DEF PostGarbled, Truthful, replyVars
  <2>3. CASE posts' \cup responses' \subseteq posts \cup responses
        BY <2>3, <1>2
  <2>4. ASSUME NEW r \in Requests,
               \/ \E d \in Devices : GetResponse(r, d)
               \/ RequestForResponse(r) \/ RequestFails(r) \/ PollAction(r)
               \/ ClientTimeout(r) \/ RouteMessageToClient(r) \/ CommandLost(r)
        PROVE  Truthful(p)'
        BY <2>4, <2>3 DEF GetResponse, RequestForResponse, RequestFails, PollAction,
           GetResultAsync, Wakes, PollAt, ClientTimeout, RouteMessageToClient, CommandLost,
           deviceVars, replyVars
  <2>5. ASSUME NEW d \in Devices, PageAction(d) PROVE Truthful(p)'
        BY <2>5, <2>3 DEF PageAction, HubStart, PageCloses, CreateQueue, SendStart,
           QueueStartFails, StartCommandProcessorHost, StartListener, deviceVars, replyVars
  <2>6. ASSUME NEW q \in Responses,
               PostAsync(q) \/ PostFails(q) \/ RouteMessageToHub(q) \/ ResponseLost(q)
        PROVE  Truthful(p)'
        BY <2>6, <2>3 DEF PostAsync, PostFails, RouteMessageToHub, ResponseLost,
           deviceVars, replyVars
  <2>7. ASSUME NEW g \in Grains, ResponseGrainLost(g) PROVE Truthful(p)'
        BY <2>7, <2>3 DEF ResponseGrainLost, deviceVars
  <2>8. CASE ListenersLost \/ HubDown \/ HubUp \/ UNCHANGED vars
        BY <2>8, <2>3 DEF ListenersLost, HubDown, HubUp, vars, deviceVars, replyVars
  <2> QED BY <2>1, <2>2, <2>4, <2>5, <2>6, <2>7, <2>8 DEF Next, PageAction, PollAction
<1> QED BY <1>1, <1>2

LEMMA ResultsStep ==
    TypeOK /\ Asked /\ ResponsesTruthful /\ ResultsTruthful /\ [Next]_vars
        => ResultsTruthful'
<1> SUFFICES ASSUME TypeOK, Asked, ResponsesTruthful, ResultsTruthful, [Next]_vars,
                    NEW r \in Requests, NEW p, p = resultValue'[r], p # NoAnswer
             PROVE  p.id = r /\ Truthful(p)'
    BY DEF ResultsTruthful, Truthful
<1> USE RoundTripAssumption
<1>1. CASE resultValue'[r] = resultValue[r]
      BY <1>1, TruthfulStays DEF ResultsTruthful, TypeOK, Grains
<1>2. ASSUME NEW q \in Responses, RouteMessageToHub(q)
      PROVE  p.id = r /\ Truthful(p)'
  <2>1. CASE TryParse(q.id) = r
    <3>1. p = q
          BY <1>2, <2>1 DEF RouteMessageToHub, TypeOK, Grains
    <3>2. q.id = r /\ Truthful(q)
          BY <1>2, <2>1 DEF RouteMessageToHub, TryParse, ResponsesTruthful
    <3> QED BY <3>1, <3>2, TruthfulStays
  <2>2. CASE TryParse(q.id) # r
        BY <1>2, <2>2, <1>1 DEF RouteMessageToHub, TypeOK, Grains
  <2> QED BY <2>1, <2>2
<1>3. ASSUME NEW g \in Grains, ResponseGrainLost(g)
      PROVE  p.id = r /\ Truthful(p)'
      BY <1>3, <1>1 DEF ResponseGrainLost, TypeOK, Grains
<1>4. ASSUME NEW q \in Requests,
             \/ \E d \in Devices : GetResponse(q, d)
             \/ RequestForResponse(q) \/ RequestFails(q) \/ PollAction(q)
             \/ ClientTimeout(q) \/ RouteMessageToClient(q) \/ CommandLost(q)
             \/ MessageUpdate(q)
      PROVE  p.id = r /\ Truthful(p)'
      BY <1>4, <1>1 DEF GetResponse, RequestForResponse, RequestFails, PollAction,
         GetResultAsync, Wakes, PollAt, ClientTimeout, RouteMessageToClient, CommandLost,
         MessageUpdate, replyVars
<1>5. ASSUME NEW d \in Devices, PageAction(d) \/ PostGarbled(d)
      PROVE  p.id = r /\ Truthful(p)'
      BY <1>5, <1>1 DEF PageAction, HubStart, PageCloses, CreateQueue, SendStart,
         QueueStartFails, StartCommandProcessorHost, StartListener, PostGarbled, replyVars
<1>6. ASSUME NEW q \in Responses, PostAsync(q) \/ PostFails(q) \/ ResponseLost(q)
      PROVE  p.id = r /\ Truthful(p)'
      BY <1>6, <1>1 DEF PostAsync, PostFails, ResponseLost, replyVars
<1>7. CASE ListenersLost \/ HubDown \/ HubUp \/ UNCHANGED vars
      BY <1>7, <1>1 DEF ListenersLost, HubDown, HubUp, vars, replyVars
<1> QED BY <1>2, <1>3, <1>4, <1>5, <1>6, <1>7 DEF Next, PageAction, PollAction

\* The variables an answer is about change for a request that was answered only
\* when further pages show its command.
LEMMA AnswersStep ==
    TypeOK /\ Asked /\ ResultsTruthful /\ AnswersOwnRequest /\ [Next]_vars
        => AnswersOwnRequest'
<1> SUFFICES ASSUME TypeOK, Asked, ResultsTruthful, AnswersOwnRequest, [Next]_vars
             PROVE  AnswersOwnRequest'
    OBVIOUS
<1> USE RoundTripAssumption DEF AnswersOwnRequest
<1>1. CASE UNCHANGED <<caller, answer, device>> /\ shown \subseteq shown'
      BY <1>1
<1>2. ASSUME NEW r \in Requests, PollAction(r) PROVE AnswersOwnRequest'
  <2>1. PICK time \in 0..RetryTicks : PollAt(r, time)
        BY <1>2 DEF PollAction, GetResultAsync, Wakes, TypeOK
  <2>2. UNCHANGED <<device, shown>>
        BY <2>1 DEF PollAt, deviceVars
  <2>3. ASSUME NEW q \in Requests, q # r
        PROVE  caller'[q] = caller[q] /\ answer'[q] = answer[q]
        BY <2>1, <2>3 DEF PollAt, TypeOK
  <2>4. caller'[r] = "answered" =>
           answer'[r] = resultValue[r] /\ resultValue[r] # NoAnswer
        BY <2>1 DEF PollAt, TypeOK
  <2>5. resultValue[r] # NoAnswer =>
           resultValue[r] = [id |-> r, by |-> device[r]] /\ <<r, device[r]>> \in shown
    <3>1. \A p \in Responses : p = [id |-> p.id, by |-> p.by]
          BY DEF Responses
    <3>2. resultValue[r] # NoAnswer => resultValue[r] \in Responses
          BY DEF TypeOK, Grains
    <3>3. resultValue[r] # NoAnswer =>
             /\ resultValue[r].id = r /\ resultValue[r].by = device[r]
             /\ <<r, device[r]>> \in shown
          BY DEF ResultsTruthful, Truthful
    <3> QED BY <3>1, <3>2, <3>3
  <2> QED BY <2>2, <2>3, <2>4, <2>5
<1>3. ASSUME NEW r \in Requests, NEW d \in Devices, GetResponse(r, d)
      PROVE  AnswersOwnRequest'
      BY <1>3 DEF GetResponse, TypeOK, deviceVars
<1>4. ASSUME NEW r \in Requests,
             RequestForResponse(r) \/ RequestFails(r) \/ ClientTimeout(r)
      PROVE  AnswersOwnRequest'
      BY <1>4 DEF RequestForResponse, RequestFails, ClientTimeout, TypeOK, deviceVars
<1>5. ASSUME NEW r \in Requests,
             RouteMessageToClient(r) \/ CommandLost(r) \/ MessageUpdate(r)
      PROVE  AnswersOwnRequest'
      BY <1>5, <1>1 DEF RouteMessageToClient, CommandLost, MessageUpdate, Shows,
         callVars, deviceVars
<1>6. ASSUME NEW g \in Grains, ResponseGrainLost(g) PROVE AnswersOwnRequest'
      BY <1>6 DEF ResponseGrainLost, TypeOK, deviceVars
<1>7. ASSUME NEW d \in Devices, PageAction(d) \/ PostGarbled(d) PROVE AnswersOwnRequest'
      BY <1>7, <1>1 DEF PageAction, HubStart, PageCloses, CreateQueue, SendStart,
         QueueStartFails, StartCommandProcessorHost, StartListener, PostGarbled,
         callVars, deviceVars
<1>8. ASSUME NEW p \in Responses,
             PostAsync(p) \/ PostFails(p) \/ RouteMessageToHub(p) \/ ResponseLost(p)
      PROVE  AnswersOwnRequest'
      BY <1>8, <1>1 DEF PostAsync, PostFails, RouteMessageToHub, ResponseLost,
         callVars, deviceVars
<1>9. CASE ListenersLost \/ HubDown \/ HubUp \/ UNCHANGED vars
      BY <1>9, <1>1 DEF ListenersLost, HubDown, HubUp, vars, callVars, deviceVars
<1> QED BY <1>2, <1>3, <1>4, <1>5, <1>6, <1>7, <1>8, <1>9 DEF Next, PageAction, PollAction

LEMMA BoundStep == TypeOK /\ BoundInTime /\ [Next]_vars => BoundInTime'
<1> SUFFICES ASSUME TypeOK, BoundInTime, [Next]_vars PROVE BoundInTime'
    OBVIOUS
<1> USE DEF BoundInTime
<1>1. CASE UNCHANGED <<setup, bound, known>>
      BY <1>1
<1>2. ASSUME NEW d \in Devices, PageAction(d) PROVE BoundInTime'
      BY <1>2 DEF PageAction, HubStart, PageCloses, CreateQueue, SendStart,
         QueueStartFails, StartCommandProcessorHost, StartListener, SetUp, TypeOK
<1>3. CASE ListenersLost
      BY <1>3 DEF ListenersLost, TypeOK
<1>4. ASSUME NEW r \in Requests,
             \/ \E d \in Devices : GetResponse(r, d)
             \/ RequestForResponse(r) \/ RequestFails(r) \/ PollAction(r)
             \/ ClientTimeout(r) \/ RouteMessageToClient(r) \/ CommandLost(r)
             \/ MessageUpdate(r)
      PROVE  BoundInTime'
      BY <1>4, <1>1 DEF GetResponse, RequestForResponse, RequestFails, PollAction,
         GetResultAsync, Wakes, PollAt, ClientTimeout, RouteMessageToClient, CommandLost,
         MessageUpdate, pageVars
<1>5. ASSUME NEW p \in Responses,
             PostAsync(p) \/ PostFails(p) \/ RouteMessageToHub(p) \/ ResponseLost(p)
      PROVE  BoundInTime'
      BY <1>5, <1>1 DEF PostAsync, PostFails, RouteMessageToHub, ResponseLost, pageVars
<1>6. ASSUME NEW g \in Grains, ResponseGrainLost(g) PROVE BoundInTime'
      BY <1>6, <1>1 DEF ResponseGrainLost, pageVars
<1>7. ASSUME NEW d \in Devices, PostGarbled(d) PROVE BoundInTime'
      BY <1>7, <1>1 DEF PostGarbled, pageVars
<1>8. CASE HubDown \/ HubUp \/ UNCHANGED vars
      BY <1>8, <1>1 DEF HubDown, HubUp, vars, pageVars
<1> QED BY <1>2, <1>3, <1>4, <1>5, <1>6, <1>7, <1>8 DEF Next, PageAction, PollAction

(***************************************************************************)
(* The theorems.                                                           *)
(***************************************************************************)
\* The inductive invariant holds in every reachable state.
THEOREM Invariance == Spec => []IInv
<1>1. Init => IInv
      BY InitInvariant
<1>2. IInv /\ [Next]_vars => IInv'
      BY TypeStep, AskedStep, ResponsesStep, ResultsStep, AnswersStep, BoundStep DEF IInv
<1> QED BY <1>1, <1>2, PTL DEF Spec

\* Every variable of the round trip keeps its type.
THEOREM TypeCorrect == Spec => []TypeOK
<1>1. IInv => TypeOK
      BY DEF IInv
<1> QED BY <1>1, Invariance, PTL

\* GetResponse answers with the response of the device asked to the very
\* command of this call, however many calls and devices there are and whatever
\* is lost, repeated, delayed or garbled on the way.
THEOREM OwnAnswer == Spec => []AnswersOwnRequest
<1>1. IInv => AnswersOwnRequest
      BY DEF IInv
<1> QED BY <1>1, Invariance, PTL

\* A command for a device that the WebHub pages list is queued when the call
\* that sends it succeeds: the exchange never drops it.
THEOREM QueueBeforeList == Spec => KnownDeviceHasQueue
<1> DEFINE Q == \A r \in Requests :
       caller[r] = "asking" /\ caller'[r] = "published" /\ device[r] \in known
           => r \in commands'
<1>1. IInv /\ [Next]_vars => [Q]_vars
  <2> SUFFICES ASSUME IInv, Next, NEW r \in Requests,
                      caller[r] = "asking", caller'[r] = "published", device[r] \in known
               PROVE  r \in commands'
      OBVIOUS
  <2>1. TypeOK /\ device[r] \in bound
        BY DEF IInv, BoundInTime
  <2>2. CASE UNCHANGED caller
        BY <2>2
  <2>3. ASSUME NEW q \in Requests, RequestForResponse(q) PROVE r \in commands'
        BY <2>1, <2>3 DEF RequestForResponse, Routed, TypeOK
  <2>4. ASSUME NEW q \in Requests, NEW c \in Callers \ {"published"},
               caller' = [caller EXCEPT ![q] = c]
        PROVE  FALSE
        BY <2>1, <2>4 DEF TypeOK
  <2>5. ASSUME NEW q \in Requests,
               \/ \E d \in Devices : GetResponse(q, d)
               \/ RequestFails(q) \/ ClientTimeout(q) \/ PollAction(q)
        PROVE  r \in commands'
        BY <2>4, <2>5 DEF GetResponse, RequestFails, ClientTimeout, PollAction,
           GetResultAsync, Wakes, PollAt, Callers
  <2>6. ASSUME NEW g \in Grains, ResponseGrainLost(g) PROVE r \in commands'
        BY <2>1, <2>6 DEF ResponseGrainLost, TypeOK
  <2>7. ASSUME NEW q \in Requests,
               RouteMessageToClient(q) \/ CommandLost(q) \/ MessageUpdate(q)
        PROVE  r \in commands'
        BY <2>2, <2>7 DEF RouteMessageToClient, CommandLost, MessageUpdate, callVars
  <2>8. ASSUME NEW d \in Devices, PageAction(d) \/ PostGarbled(d)
        PROVE  r \in commands'
        BY <2>2, <2>8 DEF PageAction, HubStart, PageCloses, CreateQueue, SendStart,
           QueueStartFails, StartCommandProcessorHost, StartListener, PostGarbled, callVars
  <2>9. ASSUME NEW p \in Responses,
               PostAsync(p) \/ PostFails(p) \/ RouteMessageToHub(p) \/ ResponseLost(p)
        PROVE  r \in commands'
        BY <2>2, <2>9 DEF PostAsync, PostFails, RouteMessageToHub, ResponseLost, callVars
  <2>10. CASE ListenersLost \/ HubDown \/ HubUp
        BY <2>2, <2>10 DEF ListenersLost, HubDown, HubUp, callVars
  <2> QED BY <2>3, <2>5, <2>6, <2>7, <2>8, <2>9, <2>10 DEF Next, PageAction, PollAction
<1> QED BY <1>1, Invariance, PTL DEF Spec, KnownDeviceHasQueue

(***************************************************************************)
(* The command path implements RequestReply.  A step that lets pages show  *)
(* a command executes it; every other step moves at most one caller.       *)
(***************************************************************************)
Outcomes == [r \in Requests |-> Outcome(r)]

AnswersGiven == [r \in Requests |-> AnswerOf(r)]

Executed == {r \in Requests : <<r, device[r]>> \in shown}

\* What a step does to the caller of one request.
CallerStep(r) ==
    \/ caller'[r] = caller[r]
    \/ caller[r] = "none" /\ caller'[r] = "asking"
    \/ caller[r] \in {"asking", "published", "delaying"} /\
       caller'[r] \in {"published", "delaying", "answered", "empty", "timedout", "failed"}

LEMMA OutcomeFacts ==
    ASSUME AnswersOwnRequest, AnswersOwnRequest', NEW r \in Requests, CallerStep(r)
    PROVE  \/ Outcome(r)' = Outcome(r) /\ AnswerOf(r)' = AnswerOf(r)
           \/ /\ Outcome(r) = "idle" /\ Outcome(r)' = "waiting"
              /\ AnswerOf(r)' = AnswerOf(r)
           \/ /\ Outcome(r) = "waiting" /\ Outcome(r)' = "answered"
              /\ AnswerOf(r)' = r /\ <<r, device[r]>>' \in shown'
           \/ /\ Outcome(r) = "waiting" /\ Outcome(r)' = "unanswered"
              /\ AnswerOf(r)' = AnswerOf(r)
<1>0. ASSUME NEW p, NEW d, p = [id |-> r, by |-> d] PROVE p.id = r
      BY <1>0
<1>1. caller[r] = "answered" => answer[r].id = r
      BY <1>0, Zenon DEF AnswersOwnRequest
<1>2. caller'[r] = "answered" => answer'[r].id = r /\ <<r, device'[r]>> \in shown'
      BY <1>0, Zenon DEF AnswersOwnRequest
<1>3. AnswerOf(r) = IF caller[r] = "answered" THEN r ELSE NoAnswer
      BY <1>1 DEF AnswerOf
<1>4. AnswerOf(r)' = IF caller'[r] = "answered" THEN r ELSE NoAnswer
      BY <1>2 DEF AnswerOf
<1>5. CASE caller'[r] = caller[r]
      BY <1>5, <1>3, <1>4 DEF Outcome
<1>6. CASE caller[r] = "none" /\ caller'[r] = "asking"
      BY <1>6, <1>3, <1>4 DEF Outcome, Returned
<1>7. CASE /\ caller[r] \in {"asking", "published", "delaying"}
           /\ caller'[r] \in {"published", "delaying", "answered", "empty", "timedout",
                              "failed"}
  <2>1. Outcome(r) = "waiting" /\ AnswerOf(r) = NoAnswer
        BY <1>7, <1>3 DEF Outcome, Returned
  <2>2. CASE caller'[r] \in {"published", "delaying"}
        BY <2>1, <2>2, <1>4 DEF Outcome, Returned
  <2>3. CASE caller'[r] = "answered"
        BY <2>1, <2>3, <1>2, <1>4 DEF Outcome
  <2>4. CASE caller'[r] \in {"empty", "timedout", "failed"}
        BY <2>1, <2>4, <1>4 DEF Outcome, Returned
  <2> QED BY <1>7, <2>2, <2>3, <2>4
<1> QED BY <1>5, <1>6, <1>7 DEF CallerStep

\* One caller moves, or pages show one command, or nothing changes that the
\* abstract specification sees.
OneCallerMoves ==
    /\ Executed' = Executed
    /\ \E r \in Requests :
          /\ CallerStep(r)
          /\ \A q \in Requests \ {r} : caller'[q] = caller[q] /\ answer'[q] = answer[q]

OneCommandShown ==
    /\ UNCHANGED <<caller, answer>>
    /\ \E r \in Requests : caller[r] # "none" /\ Executed' \in {Executed, Executed \cup {r}}

LEMMA StepKinds ==
    ASSUME TypeOK, Asked, [Next]_vars
    PROVE  \/ OneCallerMoves
           \/ OneCommandShown
           \/ UNCHANGED <<caller, answer>> /\ Executed' = Executed
<1> USE RoundTripAssumption
<1> DEFINE Goal == \/ OneCallerMoves
                   \/ OneCommandShown
                   \/ UNCHANGED <<caller, answer>> /\ Executed' = Executed
<1>1. CASE UNCHANGED <<caller, answer, device, shown>>
      BY <1>1 DEF Executed
<1>2. ASSUME NEW r \in Requests, NEW c \in Callers, CallerStep(r),
             UNCHANGED shown, caller' = [caller EXCEPT ![r] = c],
             \/ UNCHANGED <<device, answer>>
             \/ UNCHANGED device /\ \E a : answer' = [answer EXCEPT ![r] = a]
      PROVE  Goal
  <2>1. Executed' = Executed
        BY <1>2 DEF Executed
  <2>2. \A q \in Requests \ {r} : caller'[q] = caller[q] /\ answer'[q] = answer[q]
        BY <1>2 DEF TypeOK
  <2> QED BY <1>2, <2>1, <2>2 DEF OneCallerMoves
<1>3. ASSUME NEW r \in Requests, NEW d \in Devices, GetResponse(r, d) PROVE Goal
  <2>1. Executed' = Executed
    <3>1. <<r, device[r]>> \notin shown /\ <<r, d>> \notin shown
          BY <1>3 DEF GetResponse, Asked, TypeOK
    <3>2. device' = [device EXCEPT ![r] = d] /\ shown' = shown
          BY <1>3 DEF GetResponse, deviceVars
    <3>3. device'[r] = d /\ \A q \in Requests \ {r} : device'[q] = device[q]
          BY <3>2 DEF TypeOK
    <3> QED BY <3>1, <3>2, <3>3 DEF Executed
  <2>2. CallerStep(r) /\ \A q \in Requests \ {r} : caller'[q] = caller[q] /\ answer'[q] = answer[q]
        BY <1>3 DEF GetResponse, CallerStep, TypeOK
  <2> QED BY <2>1, <2>2 DEF OneCallerMoves
<1>4. ASSUME NEW r \in Requests,
             RequestForResponse(r) \/ RequestFails(r) \/ ClientTimeout(r) PROVE Goal
  <2>1. PICK c \in {"published", "failed", "timedout"} : caller' = [caller EXCEPT ![r] = c]
        BY <1>4 DEF RequestForResponse, RequestFails, ClientTimeout
  <2>2. /\ caller[r] \in {"asking", "delaying"}
        /\ UNCHANGED <<shown, device, answer>>
        BY <1>4 DEF RequestForResponse, RequestFails, ClientTimeout, deviceVars
  <2>3. CallerStep(r)
        BY <2>1, <2>2 DEF CallerStep, TypeOK
  <2> QED BY <1>2, <2>1, <2>2, <2>3 DEF Callers
<1>5. ASSUME NEW r \in Requests, PollAction(r) PROVE Goal
  <2>1. PICK time \in 0..RetryTicks : PollAt(r, time)
        BY <1>5 DEF PollAction, GetResultAsync, Wakes, TypeOK
  <2>2. PICK c \in {"empty", "answered", "delaying"} : caller' = [caller EXCEPT ![r] = c]
        BY <2>1 DEF PollAt
  <2>3. /\ caller[r] \in {"published", "delaying"}
        /\ UNCHANGED <<shown, device>>
        /\ answer' = answer \/ \E a : answer' = [answer EXCEPT ![r] = a]
        BY <1>5, <2>1 DEF PollAction, GetResultAsync, Wakes, PollAt, deviceVars
  <2>4. CallerStep(r)
        BY <2>2, <2>3 DEF CallerStep, TypeOK
  <2> QED BY <1>2, <2>2, <2>3, <2>4 DEF Callers
<1>6. ASSUME NEW g \in Grains, ResponseGrainLost(g) PROVE Goal
  <2>1. UNCHANGED <<shown, device, answer>>
        BY <1>6 DEF ResponseGrainLost, deviceVars
  <2>2. CASE g \in Requests /\ caller[g] = "delaying"
    <3>1. caller' = [caller EXCEPT ![g] = "failed"]
          BY <1>6, <2>2 DEF ResponseGrainLost, TypeOK
    <3>2. CallerStep(g)
          BY <2>2, <3>1 DEF CallerStep, TypeOK
    <3> QED BY <1>2, <2>1, <2>2, <3>1, <3>2 DEF Callers
  <2>3. CASE ~(g \in Requests /\ caller[g] = "delaying")
    <3>1. caller' = caller
          BY <1>6, <2>3 DEF ResponseGrainLost, TypeOK
    <3> QED BY <1>1, <2>1, <3>1
  <2> QED BY <2>2, <2>3
<1>7. ASSUME NEW r \in Requests, MessageUpdate(r) PROVE Goal
  <2> DEFINE pages == {d \in Devices : page[d] = "open" /\ d = device[r]}
  <2>1. UNCHANGED <<caller, answer, device>> /\ shown' = shown \cup ({r} \X pages)
        BY <1>7 DEF MessageUpdate, Shows, callVars
  <2>2. caller[r] # "none"
        BY <1>7 DEF MessageUpdate, Asked
  <2>3. \A q \in Requests : <<q, device[q]>> \in shown' =>
           <<q, device[q]>> \in shown \/ (q = r /\ device[r] \in pages)
        BY <2>1
  <2>4. device[r] \in pages => <<r, device[r]>> \in shown'
        BY <2>1
  <2>5. Executed' \in {Executed, Executed \cup {r}}
    <3>1. CASE device[r] \in pages
          BY <2>1, <2>3, <2>4, <3>1 DEF Executed
    <3>2. CASE device[r] \notin pages
          BY <2>1, <2>3, <3>2 DEF Executed
    <3> QED BY <3>1, <3>2
  <2> QED BY <2>1, <2>2, <2>5 DEF OneCommandShown
<1>8. ASSUME NEW r \in Requests, RouteMessageToClient(r) \/ CommandLost(r) PROVE Goal
      BY <1>8, <1>1 DEF RouteMessageToClient, CommandLost, callVars, deviceVars
<1>9. ASSUME NEW d \in Devices, PageAction(d) \/ PostGarbled(d) PROVE Goal
      BY <1>9, <1>1 DEF PageAction, HubStart, PageCloses, CreateQueue, SendStart,
         QueueStartFails, StartCommandProcessorHost, StartListener, PostGarbled,
         callVars, deviceVars
<1>10. ASSUME NEW p \in Responses,
              PostAsync(p) \/ PostFails(p) \/ RouteMessageToHub(p) \/ ResponseLost(p)
       PROVE  Goal
      BY <1>10, <1>1 DEF PostAsync, PostFails, RouteMessageToHub, ResponseLost,
         callVars, deviceVars
<1>11. CASE ListenersLost \/ HubDown \/ HubUp \/ UNCHANGED vars
      BY <1>11, <1>1 DEF ListenersLost, HubDown, HubUp, vars, callVars, deviceVars
<1> QED BY <1>3, <1>4, <1>5, <1>6, <1>7, <1>8, <1>9, <1>10, <1>11
        DEF Next, PageAction, PollAction

LEMMA ReplySimulation ==
    ASSUME IInv, IInv', [Next]_vars
    PROVE  Reply!Next \/ UNCHANGED <<Outcomes, AnswersGiven, Executed>>
<1> USE DEF IInv
<1> DEFINE Goal == Reply!Next \/ UNCHANGED <<Outcomes, AnswersGiven, Executed>>
<1>1. CASE UNCHANGED <<caller, answer>> /\ Executed' = Executed
      BY <1>1 DEF Outcomes, AnswersGiven, Outcome, AnswerOf
<1>2. CASE OneCommandShown
  <2>1. UNCHANGED <<Outcomes, AnswersGiven>>
        BY <1>2 DEF OneCommandShown, Outcomes, AnswersGiven, Outcome, AnswerOf
  <2>2. PICK r \in Requests : /\ caller[r] # "none"
                              /\ Executed' \in {Executed, Executed \cup {r}}
        BY <1>2 DEF OneCommandShown
  <2>3. Outcomes[r] # "idle"
        BY <2>2 DEF Outcomes, Outcome
  <2>4. CASE Executed' = Executed \cup {r}
    <3>1. Reply!Execute(r)
          BY <2>1, <2>3, <2>4 DEF Reply!Execute, Outcomes, AnswersGiven, Executed
    <3> QED BY <3>1 DEF Reply!Next
  <2> QED BY <2>1, <2>2, <2>4
<1>3. CASE OneCallerMoves
  <2>1. Executed' = Executed
        BY <1>3 DEF OneCallerMoves
  <2>2. PICK r \in Requests :
           /\ CallerStep(r)
           /\ \A q \in Requests \ {r} : caller'[q] = caller[q] /\ answer'[q] = answer[q]
        BY <1>3 DEF OneCallerMoves
  <2>3. \A q \in Requests \ {r} : Outcome(q)' = Outcome(q) /\ AnswerOf(q)' = AnswerOf(q)
        BY <2>2 DEF Outcome, AnswerOf
  <2>4. CASE Outcome(r)' = Outcome(r) /\ AnswerOf(r)' = AnswerOf(r)
        BY <2>1, <2>3, <2>4 DEF Outcomes, AnswersGiven
  <2>5. CASE Outcome(r) = "idle" /\ Outcome(r)' = "waiting" /\ AnswerOf(r)' = AnswerOf(r)
    <3>1. /\ Outcomes[r] = "idle" /\ Outcomes' = [Outcomes EXCEPT ![r] = "waiting"]
          /\ AnswersGiven' = AnswersGiven
          BY <2>3, <2>5 DEF Outcomes, AnswersGiven
    <3>2. Reply!Ask(r)
          BY <2>1, <3>1 DEF Reply!Ask, Outcomes, AnswersGiven, Executed
    <3> QED BY <3>2 DEF Reply!Next
  <2>6. CASE /\ Outcome(r) = "waiting" /\ Outcome(r)' = "answered"
             /\ AnswerOf(r)' = r /\ <<r, device'[r]>> \in shown'
    <3>1. /\ Outcomes[r] = "waiting" /\ Outcomes' = [Outcomes EXCEPT ![r] = "answered"]
          /\ AnswersGiven' = [AnswersGiven EXCEPT ![r] = r]
          BY <2>3, <2>6 DEF Outcomes, AnswersGiven
    <3>2. r \in Executed
          BY <2>1, <2>6 DEF Executed
    <3>3. Reply!Answer(r)
          BY <2>1, <3>1, <3>2 DEF Reply!Answer, Outcomes, AnswersGiven, Executed
    <3> QED BY <3>3 DEF Reply!Next
  <2>7. CASE /\ Outcome(r) = "waiting" /\ Outcome(r)' = "unanswered"
             /\ AnswerOf(r)' = AnswerOf(r)
    <3>1. /\ Outcomes[r] = "waiting" /\ Outcomes' = [Outcomes EXCEPT ![r] = "unanswered"]
          /\ AnswersGiven' = AnswersGiven
          BY <2>3, <2>7 DEF Outcomes, AnswersGiven
    <3>2. Reply!GiveUp(r)
          BY <2>1, <3>1 DEF Reply!GiveUp, Outcomes, AnswersGiven, Executed
    <3> QED BY <3>2 DEF Reply!Next
  <2> QED BY <2>2, <2>4, <2>5, <2>6, <2>7, OutcomeFacts
<1> QED BY <1>1, <1>2, <1>3, StepKinds

\* Every behaviour of the command path is one of RequestReply: callers get
\* nothing but the answers of their own, executed commands.
THEOREM Implementation == Spec => ImplementsReply
<1>1. Init => Reply!Init
      BY DEF Init, Reply!Init, Outcome, AnswerOf
<1>2. IInv /\ IInv' /\ [Next]_vars => [Reply!Next]_(Reply!vars)
      BY ReplySimulation DEF Reply!vars, Outcomes, AnswersGiven, Executed
<1> QED BY Invariance, <1>1, <1>2, PTL DEF Spec, ImplementsReply, Reply!Spec

===============================================================================
