--------------------- MODULE RabbitMqQueueListener_proofs ---------------------
(***************************************************************************)
(* Proofs about RabbitMqQueueListener for any number of silos, messages,   *)
(* deliveries, host grains and failures.  The inductive invariant is built *)
(* in layers, and each layer has a lemma that a step of Next preserves it  *)
(* when the layers below it hold.                                          *)
(***************************************************************************)
EXTENDS RabbitMqQueueListener, FiniteSetTheorems, TLAPS

(***************************************************************************)
(* The inductive invariant.                                                *)
(***************************************************************************)

\* The deliveries in use are 1..delivered, each of a published message to a
\* listener; nothing has happened to the others.
Allocated ==
    /\ ready \subseteq 1..published
    /\ \A d \in Deliveries :
          IF d <= delivered
          THEN msg[d] \in 1..published /\ to[d] \in Hosts /\ tag[d] # "unused"
          ELSE /\ msg[d] = 0 /\ to[d] = 0 /\ tag[d] = "unused"
               /\ handler[d] = "unused" /\ call[d] = "none"

\* A host grain that was not created is nowhere; connections and handlers that
\* go on belong to host grains that are placed on a silo.
Placed ==
    /\ \A h \in Hosts : /\ h > hosts => place[h] = NoSilo
                        /\ link[h] # "none" => place[h] \in Silos
    /\ \A d \in Deliveries :
          handler[d] \in {"queued", "ignored", "issued", "failed", "thrown"} =>
              place[to[d]] \in Silos

Bookkeeping == Allocated /\ Placed

\* The handler is past the message action only if that issued the call.
ActionRan ==
    \A d \in Deliveries : handler[d] \in {"issued", "done"} => call[d] # "none"

\* Host grains are on silos that run, an open call is at an activation on a silo that
\* runs, and beside suspected ones there is one activation on such a silo.
Placement ==
    /\ \A h \in Hosts : place[h] # NoSilo => Alive(place[h])
    /\ \A d \in Deliveries : call[d] \in Open => at[d] \in homes /\ Alive(at[d])
    /\ \A s, t \in homes :
          silo[s] \in {"up", "stopping"} /\ silo[t] \in {"up", "stopping"} => s = t

\* An activation works one request at a time.
TurnByTurn ==
    \A d, e \in Deliveries :
        call[d] = "running" /\ call[e] = "running" /\ at[d] = at[e] => d = e

\* Until a second failure the open calls for one message are at one activation.
SameActivation ==
    failures < 2 =>
        \A d, e \in Deliveries :
            call[d] \in Open /\ call[e] \in Open /\ msg[d] = msg[e] => at[d] = at[e]

\* Nothing has failed yet but that a silo is wrongly taken for dead, which still runs.
Calm == failures = 0 \/ (failures = 1 /\ \E s \in Silos : silo[s] = "suspected")

\* Every host grain is connected and keeps what was delivered to it.
Peace ==
    /\ \A s \in Silos : silo[s] # "stopping"
    /\ \A s \in homes : Alive(s)
    /\ \A h \in Hosts : h <= hosts => place[h] # NoSilo /\ link[h] = "open"
    /\ \A d \in Deliveries : d <= delivered =>
          tag[d] \in {"held", "acked"} /\ handler[d] \in {"queued", "issued", "done"}
    /\ \A d \in Deliveries : call[d] # "lost"

\* A silo is suspected only at the price of a failure, and does no harm as long as it
\* is the only one.
Undisturbed ==
    /\ failures = 0 => \A s \in Silos : silo[s] # "suspected"
    /\ failures < 2 => \A s, t \in Silos :
                          silo[s] = "suspected" /\ silo[t] = "suspected" => s = t
    /\ Calm => Peace

\* The broker waits for an acknowledgement only on a connection that is open, and a
\* handler that goes on has a listener that was connected.
Connected ==
    /\ \A d \in Deliveries : to[d] <= hosts
    /\ \A d \in Deliveries : tag[d] = "held" => link[to[d]] = "open"
    /\ \A d \in Deliveries :
          handler[d] \in {"queued", "ignored", "issued", "failed", "thrown"} =>
              link[to[d]] # "none"

\* The deliveries of a message that the broker took back, those whose handler is
\* about to give it back, and the silos that an earlier failure takes down later.
Returned(m) == {d \in DeliveriesOf(m) : tag[d] = "returned"}
Owed(m) == {d \in DeliveriesOf(m) : handler[d] = "failed" /\ tag[d] = "held"}
Doomed ==
    {s \in Silos : \/ silo[s] \in {"stopping", "suspected"}
                   \/ \E h \in HostsOn(s) : link[h] = "lost"
                   \/ \E d \in Deliveries : /\ to[d] \in HostsOn(s)
                                            /\ handler[d] \in {"failed", "thrown"}}

\* Every failure pays for two redeliveries of a message: for one that it causes
\* itself, and for one when the silo that it dooms goes down.
ReturnsPaid ==
    /\ IsFiniteSet(Doomed)
    /\ \A m \in Messages :
          Cardinality(Returned(m)) + Cardinality(Owed(m)) + Cardinality(Doomed)
              <= 2 * failures

IInv ==
    /\ TypeOK
    /\ Bookkeeping
    /\ ExactlyOnePlace
    /\ ActionRan
    /\ SettledAfterHandoff
    /\ Placement
    /\ TurnByTurn
    /\ SameActivation
    /\ Undisturbed
    /\ Connected
    /\ ReturnsPaid

USE ListenerAssumption DEF Messages, Deliveries, Hosts

LEMMA InitInvariant == Init => IInv
<1> SUFFICES ASSUME Init PROVE IInv
  OBVIOUS
<1>1. /\ TypeOK /\ Bookkeeping /\ ExactlyOnePlace /\ ActionRan /\ SettledAfterHandoff
      /\ Placement /\ TurnByTurn /\ SameActivation /\ Undisturbed
  BY DEF Init, TypeOK, Bookkeeping, Allocated, Placed, ExactlyOnePlace, ActionRan,
         SettledAfterHandoff, Placement, TurnByTurn, SameActivation, Undisturbed, Peace,
         DeliveriesOf, Claims, Alive, Tags, Handlers, Calls, Links, Open
<1>2. Connected
  BY DEF Init, Connected
<1>3. Doomed = {}
  <2>1. \A s \in Silos : HostsOn(s) = {} /\ silo[s] = "down"
    BY DEF Init, HostsOn
  <2> QED
    BY <2>1 DEF Doomed
<1>4. ASSUME NEW m \in Messages
      PROVE  Returned(m) = {} /\ Owed(m) = {}
  BY DEF Init, Returned, Owed, DeliveriesOf
<1>5. IsFiniteSet({}) /\ Cardinality({}) = 0 /\ failures = 0
  BY FS_EmptySet DEF Init
<1>6. ReturnsPaid
  BY <1>3, <1>4, <1>5 DEF ReturnsPaid
<1> QED
  BY <1>1, <1>2, <1>6 DEF IInv

\* What the broker takes back when channels close.
LEMMA ReturnHeldFacts ==
    ASSUME TypeOK, Allocated, NEW hs, ReturnHeld(hs)
    PROVE  /\ ready' \subseteq 1..published
           /\ tag' \in [Deliveries -> Tags]
           /\ \A d \in Deliveries :
                 tag'[d] = IF to[d] \in hs /\ tag[d] = "held" THEN "returned" ELSE tag[d]
           /\ \A m : m \in ready' <=>
                 m \in ready \/ \E d \in Deliveries :
                                   to[d] \in hs /\ tag[d] = "held" /\ msg[d] = m
<1> DEFINE orphans == {d \in Deliveries : to[d] \in hs /\ tag[d] = "held"}
<1>1. \A d \in orphans : msg[d] \in 1..published
  BY DEF Allocated, TypeOK
<1>2. /\ tag' = [d \in Deliveries |-> IF d \in orphans THEN "returned" ELSE tag[d]]
      /\ ready' = ready \cup {msg[d] : d \in orphans}
  BY DEF ReturnHeld
<1>3. ready' \subseteq 1..published
  BY <1>1, <1>2 DEF Allocated
<1>4. tag' \in [Deliveries -> Tags]
  BY <1>2 DEF TypeOK, Tags
<1> QED
  BY <1>2, <1>3, <1>4

\* What a handler that failed gives back.
LEMMA AbandonFacts ==
    ASSUME TypeOK, Allocated, NEW d \in Deliveries, AbandonAsync(d)
    PROVE  /\ ready' \subseteq 1..published
           /\ tag' \in [Deliveries -> Tags]
           /\ \A e \in Deliveries : e # d => tag'[e] = tag[e]
           /\ tag'[d] = IF link[to[d]] = "open" /\ tag[d] = "held"
                        THEN "returned" ELSE tag[d]
           /\ \A m : m \in ready' <=>
                 m \in ready \/ (link[to[d]] = "open" /\ tag[d] = "held" /\ m = msg[d])
           /\ \A e \in Deliveries : tag'[e] = "unused" <=> tag[e] = "unused"
<1> USE DEF TypeOK, Allocated, Tags
<1>1. d <= delivered /\ msg[d] \in 1..published
  BY DEF AbandonAsync
<1>2. CASE link[to[d]] = "open" /\ tag[d] = "held"
  <2>1. tag' = [tag EXCEPT ![d] = "returned"] /\ ready' = ready \cup {msg[d]}
    BY <1>2 DEF AbandonAsync
  <2> QED
    BY <1>1, <1>2, <2>1
<1>3. CASE ~(link[to[d]] = "open" /\ tag[d] = "held")
  <2>1. tag' = tag /\ ready' = ready
    BY <1>3 DEF AbandonAsync
  <2> QED
    BY <1>3, <2>1
<1> QED
  BY <1>2, <1>3

\* What the end of a process changes.
LEMMA TerminateFacts ==
    ASSUME TypeOK, Allocated, NEW s \in Silos, Terminate(s)
    PROVE  /\ ready' \subseteq 1..published
           /\ tag' \in [Deliveries -> Tags]
           /\ \A d \in Deliveries : tag'[d] =
                 IF to[d] \in HostsOn(s) /\ tag[d] = "held" THEN "returned" ELSE tag[d]
           /\ call' \in [Deliveries -> Calls]
           /\ \A d \in Deliveries : call'[d] = call[d] \/ (call[d] # "none" /\ call'[d] = "lost")
           /\ at' \in [Deliveries -> Silos \cup {NoSilo}]
           /\ \A d \in Deliveries : call'[d] \in Open =>
                 call'[d] = call[d] /\ at'[d] = at[d] /\ at[d] # s
           /\ UNCHANGED <<published, delivered, msg, to, hosts, homes>>
<1>1. /\ ready' \subseteq 1..published
      /\ tag' \in [Deliveries -> Tags]
      /\ \A d \in Deliveries : tag'[d] =
            IF to[d] \in HostsOn(s) /\ tag[d] = "held" THEN "returned" ELSE tag[d]
  BY ReturnHeldFacts DEF Terminate
<1>2. PICK unsent \in SUBSET {d \in Deliveries :
                                to[d] \in HostsOn(s) /\ call[d] = "pending"} :
          call' = [d \in Deliveries |-> IF d \in unsent \/ (at[d] = s /\ call[d] \in Open)
                                       THEN "lost" ELSE call[d]]
  BY DEF Terminate, LoseCalls
<1>3. call' \in [Deliveries -> Calls]
  BY <1>2 DEF TypeOK, Calls
<1>4. /\ at' = [d \in Deliveries |-> IF call'[d] \in Open THEN at[d] ELSE NoSilo]
      /\ UNCHANGED <<published, delivered, msg, to, hosts, homes>>
  BY DEF Terminate, LoseCalls, deliveryVars
<1>5. \A d \in Deliveries : call'[d] \in Open =>
         call'[d] = call[d] /\ at'[d] = at[d] /\ at[d] # s
  BY <1>2, <1>4 DEF Open
<1>6. at' \in [Deliveries -> Silos \cup {NoSilo}]
  BY <1>4 DEF TypeOK
<1>7. \A d \in Deliveries : call'[d] = call[d] \/ (call[d] # "none" /\ call'[d] = "lost")
  BY <1>2 DEF Open
<1> QED
  BY <1>1, <1>3, <1>4, <1>5, <1>6, <1>7

\* The types, which deliveries are in use, and where handlers run.
LEMMA TypeStep ==
    ASSUME TypeOK, Bookkeeping, [Next]_vars
    PROVE  TypeOK' /\ Bookkeeping'
<1> DEFINE Goal == TypeOK /\ Allocated /\ Placed
<1> SUFFICES Goal'
  BY DEF Bookkeeping
<1> USE DEF Bookkeeping, TypeOK, Tags, Handlers, Calls, Links,
            brokerVars, deliveryVars, grainVars, siloVars
<1>1. ASSUME NEW s \in Silos, Terminate(s), failures' \in 0..MaxFailures
      PROVE  Goal'
  <2>1. TypeOK'
    <3>1. /\ silo' \in [Silos -> {"down", "up", "suspected", "stopping"}]
          /\ place' \in [Hosts -> Silos \cup {NoSilo}]
          /\ link' \in [Hosts -> Links]
      BY <1>1 DEF Terminate
    <3>2. handler' \in [Deliveries -> Handlers]
      BY <1>1 DEF Terminate
    <3>3. /\ ready' \subseteq 1..published /\ tag' \in [Deliveries -> Tags]
          /\ call' \in [Deliveries -> Calls]
          /\ at' \in [Deliveries -> Silos \cup {NoSilo}]
          /\ UNCHANGED <<published, delivered, msg, to, hosts, homes>>
      BY <1>1, TerminateFacts
    <3> QED
      BY <1>1, <3>1, <3>2, <3>3
  <2>2. Allocated'
    <3>1. \A d \in Deliveries : to[d] = 0 => to[d] \notin HostsOn(s)
      BY DEF HostsOn
    <3>2. ready' \subseteq 1..published'
      BY <1>1, TerminateFacts
    <3>3. ASSUME NEW d \in Deliveries, d <= delivered
          PROVE  msg[d] \in 1..published /\ to[d] \in Hosts /\ tag'[d] # "unused"
      BY <1>1, <3>3, TerminateFacts DEF Allocated
    <3>4. ASSUME NEW d \in Deliveries, ~(d <= delivered)
          PROVE  /\ msg[d] = 0 /\ to[d] = 0 /\ tag'[d] = "unused"
                 /\ handler'[d] = "unused" /\ call'[d] = "none"
      <4>1. msg[d] = 0 /\ to[d] = 0 /\ tag[d] = "unused" /\ handler[d] = "unused"
            /\ call[d] = "none"
        BY <3>4 DEF Allocated
      <4> QED
        BY <1>1, <3>1, <4>1, TerminateFacts DEF Terminate
    <3> QED
      <4>1. UNCHANGED <<published, delivered, msg, to>>
        BY <1>1, TerminateFacts
      <4> QED
        BY <3>2, <3>3, <3>4, <4>1 DEF Allocated
  <2>3. Placed'
    BY <1>1 DEF Terminate, Placed, HostsOn, Allocated
  <2> QED
    BY <2>1, <2>2, <2>3
<1>2. CASE Publish
  BY <1>2 DEF Publish, Allocated, Placed
<1>3. ASSUME NEW s \in Silos, Start(s) \/ StartFails(s)
      PROVE  Goal'
  <2>1. PICK newLink \in {"open", "none"} : Join(s, newLink)
    BY <1>3 DEF Start, StartFails
  <2>2. hosts + 1 \in Hosts /\ failures' \in 0..MaxFailures
    BY <1>3, <2>1 DEF Join, Start, StartFails
  <2>3. PICK p \in Silos : place' = [place EXCEPT ![hosts + 1] = p]
    BY <2>1 DEF Join
  <2>4. TypeOK'
    BY <2>1, <2>2, <2>3 DEF Join
  <2>5. Allocated'
    BY <2>1 DEF Join, Allocated
  <2>6. Placed'
    BY <2>1, <2>2, <2>3 DEF Join, Placed, Allocated
  <2> QED
    BY <2>4, <2>5, <2>6
<1>4. ASSUME NEW s \in Silos, Crash(s)
      PROVE  Goal'
  BY <1>1, <1>4 DEF Crash
<1>5. ASSUME NEW s \in Silos, Stop(s) \/ Suspect(s) \/ DetectDeath(s)
      PROVE  Goal'
  <2>1. CASE Stop(s)
    BY <2>1 DEF Stop, Allocated, Placed, HostsOn
  <2>2. CASE Suspect(s)
    BY <2>2 DEF Suspect, Allocated, Placed
  <2>3. CASE DetectDeath(s)
    BY <2>3 DEF DetectDeath, Allocated, Placed
  <2> QED
    BY <1>5, <2>1, <2>2, <2>3
<1>6. ASSUME NEW s \in Silos, Exit(s)
      PROVE  Goal'
  BY <1>1, <1>6 DEF Exit
<1>7. ASSUME NEW h \in Hosts, LoseConnection(h)
      PROVE  Goal'
  <2>1. /\ ready' \subseteq 1..published
        /\ tag' \in [Deliveries -> Tags]
        /\ \A d \in Deliveries :
              tag'[d] = IF to[d] \in {h} /\ tag[d] = "held" THEN "returned" ELSE tag[d]
    BY <1>7, ReturnHeldFacts DEF LoseConnection
  <2>2. TypeOK'
    BY <1>7, <2>1 DEF LoseConnection
  <2>3. Allocated'
    BY <1>7, <2>1 DEF LoseConnection, Allocated
  <2>4. Placed'
    BY <1>7 DEF LoseConnection, Placed
  <2> QED
    BY <2>2, <2>3, <2>4
<1>8. ASSUME NEW h \in Hosts, RecoverConnection(h)
      PROVE  Goal'
  BY <1>8 DEF RecoverConnection, Allocated, Placed
<1>9. ASSUME NEW h \in Hosts, Received(h)
      PROVE  Goal'
  <2>1. PICK m \in ready : Deliver(h, m, "held")
    BY <1>9 DEF Received
  <2>2. m \in 1..published /\ delivered + 1 \in Deliveries /\ delivered \in Nat
    BY <2>1 DEF Deliver, Allocated
  <2>3. TypeOK'
    BY <2>1, <2>2 DEF Deliver
  <2>4. Allocated'
    BY <2>1, <2>2 DEF Deliver, Allocated
  <2>5. Placed'
    BY <2>1, <2>2 DEF Deliver, Placed
  <2> QED
    BY <2>3, <2>4, <2>5
<1>10. ASSUME NEW d \in Deliveries, MessageAction(d) \/ MessageActionThrows(d)
       PROVE  Goal'
  <2>1. handler[d] = "queued" /\ d <= delivered
    BY <1>10 DEF MessageAction, MessageActionThrows, NextTask, Allocated
  <2>2. CASE MessageAction(d)
    <3>0. PICK s \in Silos : Issue(d, s) /\ homes' = homes \cup {s}
      BY <2>2 DEF MessageAction, Targets
    <3>1. TypeOK'
      BY <3>0 DEF Issue
    <3>2. Allocated'
      BY <2>1, <3>0 DEF Issue, Allocated
    <3>3. Placed'
      BY <2>1, <3>0 DEF Issue, Placed
    <3> QED
      BY <3>1, <3>2, <3>3
  <2>3. CASE MessageActionThrows(d)
    <3>1. TypeOK'
      BY <2>3 DEF MessageActionThrows
    <3>2. Allocated'
      BY <2>1, <2>3 DEF MessageActionThrows, Allocated
    <3>3. Placed'
      BY <2>1, <2>3 DEF MessageActionThrows, Placed
    <3> QED
      BY <3>1, <3>2, <3>3
  <2> QED
    BY <1>10, <2>2, <2>3
<1>11. ASSUME NEW d \in Deliveries, CompleteAsync(d)
       PROVE  Goal'
  <2>1. d <= delivered
    BY <1>11 DEF CompleteAsync, Allocated
  <2>2. TypeOK'
    BY <1>11 DEF CompleteAsync
  <2>3. Allocated'
    BY <1>11, <2>1, SMTT(30) DEF CompleteAsync, Allocated
  <2>4. Placed'
    BY <1>11 DEF CompleteAsync, Placed
  <2> QED
    BY <2>2, <2>3, <2>4
<1>12. ASSUME NEW d \in Deliveries, AbandonAsync(d)
       PROVE  Goal'
  <2>1. d <= delivered
    BY <1>12 DEF AbandonAsync, Allocated
  <2>2. /\ ready' \subseteq 1..published
        /\ tag' \in [Deliveries -> Tags]
        /\ \A e \in Deliveries : tag'[e] = "unused" <=> tag[e] = "unused"
    BY <1>12, AbandonFacts
  <2>3. TypeOK'
    BY <1>12, <2>2 DEF AbandonAsync
  <2>4. Allocated'
    BY <1>12, <2>1, <2>2 DEF AbandonAsync, Allocated
  <2>5. Placed'
    BY <1>12 DEF AbandonAsync, Placed
  <2> QED
    BY <2>3, <2>4, <2>5
<1>13. ASSUME NEW d \in Deliveries, UnhandledException(d)
       PROVE  Goal'
  <2>1. place[to[d]] \in Silos
    BY <1>13 DEF UnhandledException, Placed
  <2> QED
    BY <1>1, <1>13, <2>1 DEF UnhandledException
<1>14. ASSUME NEW d \in Deliveries, ProcessMessage(d) \/ ProcessMessageEnds(d)
       PROVE  Goal'
  <2>1. TypeOK'
    BY <1>14 DEF ProcessMessage, ProcessMessageEnds
  <2>2. Allocated'
    <3>1. d <= delivered
      BY <1>14 DEF ProcessMessage, ProcessMessageEnds, Allocated
    <3>2. \A e \in Deliveries : e # d => call'[e] = call[e]
      BY <1>14 DEF ProcessMessage, ProcessMessageEnds
    <3> QED
      BY <1>14, <3>1, <3>2, ZenonT(40) DEF ProcessMessage, ProcessMessageEnds, Allocated
  <2>3. Placed'
    BY <1>14, SMTT(30) DEF ProcessMessage, ProcessMessageEnds, Placed
  <2> QED
    BY <2>1, <2>2, <2>3
<1>15. CASE UNCHANGED vars
  BY <1>15 DEF vars, Allocated, Placed
<1> QED
  BY <1>2, <1>3, <1>4, <1>5, <1>6, <1>7, <1>8, <1>9, <1>10, <1>11, <1>12, <1>13,
     <1>14, <1>15 DEF Next

\* What a delivery changes.
LEMMA ReceivedFacts ==
    ASSUME TypeOK, NEW h \in Hosts, Received(h)
    PROVE  /\ link[h] = "open"
           /\ delivered + 1 \in Deliveries /\ delivered' = delivered + 1
           /\ published' = published
           /\ \E m \in ready : /\ ready' = ready \ {m}
                               /\ msg' = [msg EXCEPT ![delivered + 1] = m]
           /\ to' = [to EXCEPT ![delivered + 1] = h]
           /\ tag' = [tag EXCEPT ![delivered + 1] = "held"]
<1>1. PICK m \in ready : Deliver(h, m, "held")
  BY DEF Received
<1>2. delivered + 1 \in Deliveries
  BY <1>1 DEF Deliver, TypeOK
<1> QED
  BY <1>1, <1>2 DEF Deliver

\* What an acknowledgement changes.
LEMMA CompleteFacts ==
    ASSUME TypeOK, NEW d \in Deliveries, CompleteAsync(d)
    PROVE  /\ \A e \in Deliveries : e # d => tag'[e] = tag[e]
           /\ tag'[d] = IF link[to[d]] = "open" /\ tag[d] = "held"
                        THEN "acked" ELSE tag[d]
           /\ UNCHANGED <<published, ready, delivered, msg, to, call>>
BY DEF CompleteAsync, TypeOK, brokerVars, deliveryVars, grainVars

\* As the broker sees it there are six kinds of steps.
LEMMA BrokerSteps ==
    ASSUME TypeOK, Bookkeeping, [Next]_vars
    PROVE  \/ Publish
           \/ \E hs \in SUBSET Hosts :
                 ReturnHeld(hs) /\ UNCHANGED <<published, delivered, msg>>
           \/ \E h \in Hosts : Received(h)
           \/ \E d \in Deliveries : CompleteAsync(d)
           \/ \E d \in Deliveries : AbandonAsync(d)
           \/ UNCHANGED <<published, ready, delivered, msg, tag>>
<1> USE DEF brokerVars, deliveryVars, siloVars, grainVars
<1> DEFINE Returns == \E hs \in SUBSET Hosts :
                          ReturnHeld(hs) /\ UNCHANGED <<published, delivered, msg>>
<1>1. ASSUME NEW s \in Silos, Terminate(s)
      PROVE  Returns
  <2>1. ReturnHeld(HostsOn(s)) /\ HostsOn(s) \in SUBSET Hosts
    BY <1>1 DEF Terminate, HostsOn
  <2> QED
    BY <1>1, <2>1 DEF Terminate
<1>2. ASSUME NEW d \in Deliveries, UnhandledException(d)
      PROVE  Returns
  <2>1. place[to[d]] \in Silos
    BY <1>2 DEF UnhandledException, TypeOK, Bookkeeping, Placed
  <2> QED
    BY <1>1, <1>2, <2>1 DEF UnhandledException
<1>3. ASSUME NEW s \in Silos,
             Start(s) \/ StartFails(s) \/ Stop(s) \/ Suspect(s) \/ DetectDeath(s)
      PROVE  UNCHANGED <<published, ready, delivered, msg, tag>>
  BY <1>3 DEF Start, StartFails, Join, Stop, Suspect, DetectDeath
<1>4. ASSUME NEW s \in Silos, Crash(s) \/ Exit(s)
      PROVE  Returns
  BY <1>1, <1>4 DEF Crash, Exit
<1>5. ASSUME NEW h \in Hosts, LoseConnection(h)
      PROVE  Returns
  <2>1. ReturnHeld({h}) /\ {h} \in SUBSET Hosts
    BY <1>5 DEF LoseConnection
  <2> QED
    BY <1>5, <2>1 DEF LoseConnection
<1>6. ASSUME NEW h \in Hosts, RecoverConnection(h)
      PROVE  UNCHANGED <<published, ready, delivered, msg, tag>>
  BY <1>6 DEF RecoverConnection
<1>7. ASSUME NEW d \in Deliveries,
             \/ MessageAction(d) \/ MessageActionThrows(d)
             \/ ProcessMessage(d) \/ ProcessMessageEnds(d)
      PROVE  UNCHANGED <<published, ready, delivered, msg, tag>>
  BY <1>7 DEF MessageAction, Issue, MessageActionThrows, ProcessMessage, ProcessMessageEnds
<1>8. CASE UNCHANGED vars
  BY <1>8 DEF vars
<1> QED
  BY <1>2, <1>3, <1>4, <1>5, <1>6, <1>7, <1>8 DEF Next

\* Messages are neither dropped nor doubled.
LEMMA PlaceStep ==
    ASSUME TypeOK, Bookkeeping, ExactlyOnePlace, Bookkeeping', [Next]_vars
    PROVE  ExactlyOnePlace'
<1> USE DEF ExactlyOnePlace, DeliveriesOf, Claims
<1>1. CASE Publish
  <2>1. \A d \in Deliveries : msg[d] # published + 1
    BY DEF TypeOK, Bookkeeping, Allocated
  <2>2. /\ published' = published + 1 /\ ready' = ready \cup {published + 1}
        /\ UNCHANGED <<msg, tag>>
    BY <1>1 DEF Publish, deliveryVars
  <2> QED
    BY <2>1, <2>2 DEF TypeOK, Bookkeeping, Allocated
<1>2. ASSUME NEW hs \in SUBSET Hosts, ReturnHeld(hs), UNCHANGED <<published, delivered, msg>>
      PROVE  ExactlyOnePlace'
  <2>1. \A d \in Deliveries : tag'[d] =
            IF to[d] \in hs /\ tag[d] = "held" THEN "returned" ELSE tag[d]
    BY <1>2, ReturnHeldFacts DEF Bookkeeping
  <2>2. \A m : m \in ready' <=>
            m \in ready \/ \E d \in Deliveries :
                              to[d] \in hs /\ tag[d] = "held" /\ msg[d] = m
    BY <1>2, ReturnHeldFacts DEF Bookkeeping
  <2>3. ASSUME NEW m \in 1..published
        PROVE  m \in ready' <=> \A d \in DeliveriesOf(m) : ~Claims(d)'
    BY <1>2, <2>1, <2>2
  <2> QED
    BY <1>2, <2>1, <2>3
<1>3. ASSUME NEW h \in Hosts, Received(h)
      PROVE  ExactlyOnePlace'
  <2>1. PICK m \in ready : /\ ready' = ready \ {m}
                           /\ msg' = [msg EXCEPT ![delivered + 1] = m]
    BY <1>3, ReceivedFacts
  <2>2. /\ delivered + 1 \in Deliveries /\ published' = published
        /\ tag' = [tag EXCEPT ![delivered + 1] = "held"]
    BY <1>3, ReceivedFacts
  <2>3. tag[delivered + 1] = "unused" /\ m \in 1..published
    BY <2>1, <2>2 DEF TypeOK, Bookkeeping, Allocated
  <2>4. \A d \in Deliveries : Claims(d)' <=> Claims(d) \/ d = delivered + 1
    BY <2>2, <2>3 DEF TypeOK
  <2>5. \A d \in Deliveries : msg'[d] = IF d = delivered + 1 THEN m ELSE msg[d]
    BY <2>1, <2>2 DEF TypeOK
  <2> QED
    BY <2>1, <2>2, <2>3, <2>4, <2>5
<1>4. ASSUME NEW d \in Deliveries, CompleteAsync(d)
      PROVE  ExactlyOnePlace'
  BY <1>4, CompleteFacts
<1>5. ASSUME NEW d \in Deliveries, AbandonAsync(d)
      PROVE  ExactlyOnePlace'
  <2>1. UNCHANGED <<published, msg>>
    BY <1>5 DEF AbandonAsync, deliveryVars
  <2> QED
    BY <1>5, <2>1, AbandonFacts DEF Bookkeeping
<1>6. CASE UNCHANGED <<published, ready, delivered, msg, tag>>
  BY <1>6
<1> QED
  BY <1>1, <1>2, <1>3, <1>4, <1>5, <1>6, BrokerSteps

\* A message is handed over before it is settled.
LEMMA HandoffStep ==
    ASSUME TypeOK, Bookkeeping, ActionRan, SettledAfterHandoff, [Next]_vars
    PROVE  ActionRan' /\ SettledAfterHandoff'
<1> USE DEF ActionRan, SettledAfterHandoff, brokerVars, deliveryVars, grainVars, siloVars
<1>1. ASSUME NEW s \in Silos, Terminate(s)
      PROVE  ActionRan' /\ SettledAfterHandoff'
  <2>1. \A d \in Deliveries : /\ call[d] # "none" => call'[d] # "none"
                              /\ tag'[d] = "acked" => tag[d] = "acked"
    BY <1>1, TerminateFacts DEF Bookkeeping
  <2>2. \A d \in Deliveries :
           handler'[d] \in {"issued", "done"} => handler'[d] = handler[d]
    BY <1>1 DEF Terminate
  <2> QED
    BY <2>1, <2>2
<1>2. CASE Publish
  BY <1>2 DEF Publish
<1>3. ASSUME NEW s \in Silos,
             Start(s) \/ StartFails(s) \/ Stop(s) \/ Suspect(s) \/ DetectDeath(s)
      PROVE  ActionRan' /\ SettledAfterHandoff'
  BY <1>3 DEF Start, StartFails, Join, Stop, Suspect, DetectDeath
<1>4. ASSUME NEW s \in Silos, Crash(s) \/ Exit(s)
      PROVE  ActionRan' /\ SettledAfterHandoff'
  BY <1>1, <1>4 DEF Crash, Exit
<1>5. ASSUME NEW h \in Hosts, LoseConnection(h) \/ RecoverConnection(h)
      PROVE  ActionRan' /\ SettledAfterHandoff'
  BY <1>5, ReturnHeldFacts DEF LoseConnection, RecoverConnection, Bookkeeping
<1>6. ASSUME NEW h \in Hosts, Received(h)
      PROVE  ActionRan' /\ SettledAfterHandoff'
  BY <1>6 DEF Received, Deliver, TypeOK
<1>7. ASSUME NEW d \in Deliveries, MessageAction(d) \/ MessageActionThrows(d)
      PROVE  ActionRan' /\ SettledAfterHandoff'
  BY <1>7 DEF MessageAction, Issue, MessageActionThrows, TypeOK
<1>8. ASSUME NEW d \in Deliveries, CompleteAsync(d)
      PROVE  ActionRan' /\ SettledAfterHandoff'
  <2>1. call[d] # "none" /\ call' = call
    BY <1>8 DEF CompleteAsync
  <2>2. \A e \in Deliveries : e # d => handler'[e] = handler[e] /\ tag'[e] = tag[e]
    BY <1>8 DEF CompleteAsync, TypeOK
  <2> QED
    BY <2>1, <2>2
<1>9. ASSUME NEW d \in Deliveries, AbandonAsync(d)
      PROVE  ActionRan' /\ SettledAfterHandoff'
  <2>1. handler' = [handler EXCEPT ![d] = "thrown"] /\ call' = call
    BY <1>9 DEF AbandonAsync
  <2>2. \A e \in Deliveries : tag'[e] = "acked" => tag[e] = "acked"
    BY <1>9, AbandonFacts DEF Bookkeeping
  <2>3. \A e \in Deliveries :
           handler'[e] \in {"issued", "done"} => handler'[e] = handler[e]
    BY <2>1 DEF TypeOK
  <2> QED
    BY <2>1, <2>2, <2>3
<1>10. ASSUME NEW d \in Deliveries, UnhandledException(d)
       PROVE  ActionRan' /\ SettledAfterHandoff'
  <2>1. place[to[d]] \in Silos
    BY <1>10 DEF UnhandledException, Bookkeeping, Placed
  <2> QED
    BY <1>1, <1>10, <2>1 DEF UnhandledException
<1>11. ASSUME NEW d \in Deliveries, ProcessMessage(d) \/ ProcessMessageEnds(d)
       PROVE  ActionRan' /\ SettledAfterHandoff'
  BY <1>11 DEF ProcessMessage, ProcessMessageEnds, TypeOK
<1>12. CASE UNCHANGED vars
  BY <1>12 DEF vars
<1> QED
  BY <1>2, <1>3, <1>4, <1>5, <1>6, <1>7, <1>8, <1>9, <1>10, <1>11, <1>12 DEF Next

\* A step counts one failure or none.
LEMMA FailureCount ==
    ASSUME TypeOK, [Next]_vars
    PROVE  failures' \in {failures, failures + 1}
BY DEF Next, vars, Publish, Start, StartFails, Crash, Stop, Suspect, Exit, DetectDeath,
       Terminate, LoseConnection, RecoverConnection, Received, Deliver, MessageAction,
       Issue, MessageActionThrows, CompleteAsync, AbandonAsync, UnhandledException,
       ProcessMessage, ProcessMessageEnds

\* A delivery that led to a call carries the same message for good.
LEMMA MessagesStay ==
    ASSUME TypeOK, Bookkeeping, [Next]_vars
    PROVE  \A d \in Deliveries : call[d] # "none" => msg'[d] = msg[d]
<1>1. ASSUME NEW h \in Hosts, Received(h)
      PROVE  \A d \in Deliveries : call[d] # "none" => msg'[d] = msg[d]
  <2>1. PICK m \in ready : msg' = [msg EXCEPT ![delivered + 1] = m]
    BY <1>1, ReceivedFacts
  <2>2. delivered \in Nat /\ delivered + 1 \in Deliveries
    BY <1>1, ReceivedFacts DEF TypeOK
  <2>3. call[delivered + 1] = "none"
    BY <2>2 DEF Bookkeeping, Allocated
  <2> QED
    BY <2>1, <2>3 DEF TypeOK
<1> QED
  BY <1>1, BrokerSteps DEF Publish, CompleteAsync, AbandonAsync, deliveryVars

\* Where activations and host grains are.
LEMMA PlacementStep ==
    ASSUME TypeOK, Bookkeeping, Placement, [Next]_vars
    PROVE  Placement'
<1> USE DEF Placement, Alive, TypeOK, Bookkeeping, Open, brokerVars, deliveryVars,
            grainVars, siloVars
<1>1. ASSUME NEW s \in Silos, Terminate(s)
      PROVE  Placement'
  <2>1. /\ silo' = [silo EXCEPT ![s] = "down"]
        /\ place' = [h \in Hosts |-> IF place[h] = s THEN NoSilo ELSE place[h]]
    BY <1>1 DEF Terminate
  <2>2. /\ homes' = homes
        /\ \A d \in Deliveries : call'[d] \in Open =>
              call'[d] = call[d] /\ at'[d] = at[d] /\ at[d] # s
    BY <1>1, TerminateFacts
  <2> QED
    BY <2>1, <2>2
<1>2. CASE Publish
  BY <1>2 DEF Publish
<1>3. ASSUME NEW s \in Silos, Start(s) \/ StartFails(s)
      PROVE  Placement'
  <2>1. /\ silo[s] = "down" /\ silo' = [silo EXCEPT ![s] = "up"]
        /\ homes' = homes \ {s} /\ UNCHANGED <<call, at>>
        /\ \E p \in Silos : silo'[p] = "up" /\ place' = [place EXCEPT ![hosts + 1] = p]
    BY <1>3 DEF Start, StartFails, Join
  <2> QED
    BY <2>1
<1>4. ASSUME NEW s \in Silos, Stop(s) \/ Suspect(s) \/ DetectDeath(s)
      PROVE  Placement'
  <2>1. CASE Stop(s)
    BY <2>1 DEF Stop
  <2>2. CASE Suspect(s)
    BY <2>2 DEF Suspect
  <2>3. CASE DetectDeath(s)
    BY <2>3 DEF DetectDeath
  <2> QED
    BY <1>4, <2>1, <2>2, <2>3
<1>5. ASSUME NEW s \in Silos, Crash(s) \/ Exit(s)
      PROVE  Placement'
  BY <1>1, <1>5 DEF Crash, Exit
<1>6. ASSUME NEW h \in Hosts, LoseConnection(h) \/ RecoverConnection(h) \/ Received(h)
      PROVE  Placement'
  BY <1>6 DEF LoseConnection, RecoverConnection, Received, Deliver
<1>7. ASSUME NEW d \in Deliveries, MessageAction(d)
      PROVE  Placement'
  <2>1. PICK s \in Silos : s \in Targets(d) /\ Issue(d, s) /\ homes' = homes \cup {s}
    BY <1>7 DEF MessageAction, Targets
  <2>2. s \in homes \/ \A t \in homes : silo[t] = "suspected"
    BY <2>1 DEF Targets
  <2>3. UNCHANGED <<silo, place>>
    BY <2>1 DEF Issue
  <2>4. \A e \in Deliveries : call'[e] \in Open =>
            \/ at'[e] = s /\ Alive(s)
            \/ call[e] \in Open /\ at'[e] = at[e]
    BY <2>1 DEF Issue
  <2> QED
    BY <2>1, <2>2, <2>3, <2>4
<1>8. ASSUME NEW d \in Deliveries,
             MessageActionThrows(d) \/ CompleteAsync(d) \/ AbandonAsync(d)
      PROVE  Placement'
  BY <1>8 DEF MessageActionThrows, CompleteAsync, AbandonAsync
<1>9. ASSUME NEW d \in Deliveries, UnhandledException(d)
      PROVE  Placement'
  <2>1. place[to[d]] \in Silos
    BY <1>9 DEF UnhandledException, Placed
  <2> QED
    BY <1>1, <1>9, <2>1 DEF UnhandledException
<1>10. ASSUME NEW d \in Deliveries, ProcessMessage(d) \/ ProcessMessageEnds(d)
       PROVE  Placement'
  BY <1>10 DEF ProcessMessage, ProcessMessageEnds
<1>11. CASE UNCHANGED vars
  BY <1>11 DEF vars
<1> QED
  BY <1>2, <1>3, <1>4, <1>5, <1>6, <1>7, <1>8, <1>9, <1>10, <1>11 DEF Next

\* What a step does to the open calls: they end where they are, but for the one that
\* it issues or begins.
LEMMA CallSteps ==
    ASSUME TypeOK, Bookkeeping, [Next]_vars
    PROVE  \/ \A d \in Deliveries : call'[d] \in Open => call'[d] = call[d] /\ at'[d] = at[d]
           \/ \E d \in Deliveries : MessageAction(d)
           \/ \E d \in Deliveries : ProcessMessage(d)
<1> USE DEF TypeOK, brokerVars, deliveryVars, grainVars, siloVars
<1> DEFINE Fewer == \A d \in Deliveries :
                       call'[d] \in Open => call'[d] = call[d] /\ at'[d] = at[d]
<1>1. ASSUME NEW s \in Silos, Terminate(s)
      PROVE  Fewer
  BY <1>1, TerminateFacts DEF Bookkeeping
<1>2. ASSUME NEW s \in Silos, Crash(s) \/ Exit(s)
      PROVE  Fewer
  BY <1>1, <1>2 DEF Crash, Exit
<1>3. ASSUME NEW d \in Deliveries, UnhandledException(d)
      PROVE  Fewer
  <2>1. place[to[d]] \in Silos
    BY <1>3 DEF UnhandledException, Bookkeeping, Placed
  <2> QED
    BY <1>1, <1>3, <2>1 DEF UnhandledException
<1>4. ASSUME NEW d \in Deliveries, ProcessMessageEnds(d)
      PROVE  Fewer
  BY <1>4 DEF ProcessMessageEnds, Open
<1>5. CASE UNCHANGED <<call, at>>
  BY <1>5
<1> QED
  BY <1>2, <1>3, <1>4, <1>5
  DEF Next, vars, Publish, Start, StartFails, Join, Stop, Suspect, DetectDeath,
      LoseConnection, RecoverConnection, Received, Deliver, MessageActionThrows,
      CompleteAsync, AbandonAsync

\* An activation begins a request when it has ended the one before.
LEMMA TurnStep ==
    ASSUME TypeOK, Bookkeeping, TurnByTurn, [Next]_vars
    PROVE  TurnByTurn'
<1> USE DEF TypeOK, TurnByTurn
<1>1. CASE \A d \in Deliveries : call'[d] \in Open => call'[d] = call[d] /\ at'[d] = at[d]
  BY <1>1 DEF Open
<1>2. ASSUME NEW d \in Deliveries, MessageAction(d)
      PROVE  TurnByTurn'
  <2>1. \A e \in Deliveries : call'[e] = "running" => call[e] = "running" /\ at'[e] = at[e]
    BY <1>2 DEF MessageAction, Issue
  <2> QED
    BY <2>1
<1>3. ASSUME NEW d \in Deliveries, ProcessMessage(d)
      PROVE  TurnByTurn'
  BY <1>3 DEF ProcessMessage
<1> QED
  BY <1>1, <1>2, <1>3, CallSteps

\* Redeliveries of a message find the activation that the first delivery went to.
LEMMA SameActivationStep ==
    ASSUME TypeOK, Bookkeeping, ExactlyOnePlace, Placement, Undisturbed, SameActivation,
           [Next]_vars
    PROVE  SameActivation'
<1> SUFFICES ASSUME failures' < 2,
                    NEW d \in Deliveries, NEW e \in Deliveries,
                    call'[d] \in Open, call'[e] \in Open, msg'[d] = msg'[e]
             PROVE  at'[d] = at'[e]
  BY DEF SameActivation
<1> USE DEF TypeOK
<1>1. failures < 2
  BY FailureCount
<1>2. \A c \in Deliveries : call[c] # "none" => msg'[c] = msg[c]
  BY MessagesStay
<1>3. CASE \A c \in Deliveries : call'[c] \in Open => call'[c] = call[c] /\ at'[c] = at[c]
  BY <1>1, <1>2, <1>3 DEF SameActivation, Open
<1>4. ASSUME NEW c \in Deliveries, ProcessMessage(c)
      PROVE  at'[d] = at'[e]
  <2>1. call[d] \in Open /\ call[e] \in Open /\ at' = at
    BY <1>4 DEF ProcessMessage, Open
  <2> QED
    BY <1>1, <1>2, <2>1 DEF SameActivation, Open
<1>5. ASSUME NEW c \in Deliveries, MessageAction(c)
      PROVE  at'[d] = at'[e]
  <2>1. PICK s \in Silos : s \in Targets(c) /\ Issue(c, s)
    BY <1>5 DEF MessageAction, Targets
  <2>2. \A x \in Deliveries : x # c => call'[x] = call[x] /\ at'[x] = at[x]
    BY <2>1 DEF Issue
  <2>3. msg' = msg /\ handler[c] = "queued"
    BY <1>5, <2>1 DEF MessageAction, Issue, NextTask, deliveryVars
  <2>4. ASSUME NEW x \in Deliveries, x # c, call[x] \in Open, call'[c] \in Open,
               msg[x] = msg[c]
        PROVE  at'[c] = at[x]
    <3>1. Alive(s) /\ at'[c] = s
      BY <2>1, <2>4 DEF Issue, Open
    <3>2. \A t \in Silos : silo[t] # "suspected"
      <4> SUFFICES ASSUME NEW t \in Silos, silo[t] = "suspected"
                   PROVE  FALSE
        OBVIOUS
      <4>1. Calm
        BY <1>1 DEF Undisturbed, Calm
      <4>2. x <= delivered /\ c <= delivered
        BY <2>3, <2>4 DEF Bookkeeping, Allocated, Open
      <4>3. Claims(x) /\ Claims(c)
        BY <4>1, <4>2 DEF Undisturbed, Peace, Claims
      <4> QED
        BY <2>4, <4>3 DEF ExactlyOnePlace
    <3>3. at[x] \in homes /\ Alive(at[x])
      BY <2>4 DEF Placement
    <3>4. s \in homes
      BY <2>1, <3>2, <3>3 DEF Targets
    <3>5. silo[s] \in {"up", "stopping"} /\ silo[at[x]] \in {"up", "stopping"}
      BY <3>1, <3>2, <3>3, <3>4 DEF Alive
    <3> QED
      BY <3>1, <3>3, <3>4, <3>5 DEF Placement
  <2>5. CASE d = e
    BY <2>5
  <2>6. CASE d # c /\ e # c
    BY <1>1, <2>2, <2>3, <2>6 DEF SameActivation
  <2>7. CASE d = c /\ e # c
    BY <2>2, <2>3, <2>4, <2>7
  <2>8. CASE d # c /\ e = c
    BY <2>2, <2>3, <2>4, <2>8
  <2> QED
    BY <2>5, <2>6, <2>7, <2>8
<1> QED
  BY <1>3, <1>4, <1>5, CallSteps

\* Only Suspect has a silo declared dead that runs, and it is a failure.
LEMMA SuspicionStep ==
    ASSUME TypeOK, [Next]_vars
    PROVE  \/ \A s \in Silos : silo'[s] = "suspected" => silo[s] = "suspected"
           \/ failures' = failures + 1 /\ \E s \in Silos : Suspect(s)
<1> USE DEF TypeOK, siloVars
<1>1. ASSUME NEW s \in Silos, Start(s) \/ StartFails(s) \/ Crash(s) \/ Stop(s) \/ Exit(s)
      PROVE  \A t \in Silos : silo'[t] = "suspected" => silo[t] = "suspected"
  BY <1>1 DEF Start, StartFails, Join, Crash, Stop, Exit, Terminate
<1>2. ASSUME NEW s \in Silos, Suspect(s)
      PROVE  failures' = failures + 1 /\ \E t \in Silos : Suspect(t)
  BY <1>2 DEF Suspect
<1>3. ASSUME NEW d \in Deliveries, UnhandledException(d)
      PROVE  \A t \in Silos : silo'[t] = "suspected" => silo[t] = "suspected"
  BY <1>3 DEF UnhandledException, Terminate
<1>4. CASE silo' = silo
  BY <1>4
<1> QED
  BY <1>1, <1>2, <1>3, <1>4
  DEF Next, vars, Publish, DetectDeath, LoseConnection, RecoverConnection, Received,
      Deliver, MessageAction, Issue, MessageActionThrows, CompleteAsync, AbandonAsync,
      ProcessMessage, ProcessMessageEnds

\* While nothing has failed but a suspicion, nothing is given back, lost or interrupted.
LEMMA PeaceStep ==
    ASSUME TypeOK, Bookkeeping, Placement, Undisturbed, Calm, Calm', Peace,
           failures' = failures, [Next]_vars
    PROVE  Peace'
<1> USE DEF TypeOK, Bookkeeping, Peace, Open, brokerVars, deliveryVars, grainVars, siloVars
<1>1. failures # failures + 1
  OBVIOUS
<1>2. \A d \in Deliveries : handler[d] \notin {"failed", "thrown"}
  BY DEF Allocated
<1>3. CASE Publish
  BY <1>3 DEF Publish, Alive
<1>4. ASSUME NEW s \in Silos, Start(s)
      PROVE  Peace'
  <2>1. PICK p \in Silos : place' = [place EXCEPT ![hosts + 1] = p]
    BY <1>4 DEF Start, Join
  <2>2. \A h \in Hosts : h <= hosts' => place'[h] # NoSilo /\ link'[h] = "open"
    BY <1>4, <2>1 DEF Start, Join
  <2>3. silo' = [silo EXCEPT ![s] = "up"] /\ homes' \subseteq homes
    BY <1>4 DEF Start, Join
  <2> QED
    BY <1>4, <2>2, <2>3 DEF Start, Join, Alive
<1>5. ASSUME NEW s \in Silos, StartFails(s) \/ Crash(s) \/ Stop(s) \/ Suspect(s)
      PROVE  FALSE
  BY <1>1, <1>5 DEF StartFails, Crash, Stop, Suspect
<1>6. ASSUME NEW s \in Silos, Exit(s)
      PROVE  FALSE
  <2>1. silo[s] = "suspected" /\ silo' = [silo EXCEPT ![s] = "down"]
    BY <1>6 DEF Exit, Terminate
  <2>2. failures = 1 /\ \A t \in Silos : silo[t] = "suspected" => t = s
    BY <2>1 DEF Undisturbed, Calm
  <2>3. PICK t \in Silos : silo'[t] = "suspected"
    BY <2>2 DEF Calm
  <2> QED
    BY <2>1, <2>2, <2>3
<1>7. ASSUME NEW s \in Silos, DetectDeath(s)
      PROVE  FALSE
  BY <1>7 DEF DetectDeath, Alive
<1>8. ASSUME NEW h \in Hosts, LoseConnection(h) \/ RecoverConnection(h)
      PROVE  FALSE
  BY <1>1, <1>8 DEF LoseConnection, RecoverConnection, Placed
<1>9. ASSUME NEW h \in Hosts, Received(h)
      PROVE  Peace'
  <2>1. silo[place[h]] # "stopping"
    BY <1>9, ReceivedFacts DEF Placed
  <2>2. PICK m \in ready : Deliver(h, m, "held")
    BY <1>9 DEF Received
  <2>3. \A d \in Deliveries :
           IF d = delivered + 1
           THEN tag'[d] = "held" /\ handler'[d] = "queued"
           ELSE tag'[d] = tag[d] /\ handler'[d] = handler[d]
    BY <2>1, <2>2 DEF Deliver
  <2> QED
    BY <2>2, <2>3 DEF Deliver, Alive
<1>10. ASSUME NEW d \in Deliveries, MessageAction(d)
       PROVE  Peace'
  <2>1. PICK s \in Targets(d) : Issue(d, s) /\ homes' = homes \cup {s}
    BY <1>10 DEF MessageAction
  <2>2. handler[d] = "queued" /\ place[to[d]] \in Silos /\ to[d] \in Hosts
    BY <1>10 DEF MessageAction, NextTask, Placed, Allocated
  <2>3. Alive(s)
    BY <2>1, <2>2 DEF Targets, Placement, Alive
  <2>4. \A e \in Deliveries : handler'[e] \in {handler[e], "issued"} /\ call'[e] # "lost"
    BY <2>1, <2>3 DEF Issue
  <2> QED
    BY <2>1, <2>3, <2>4 DEF Issue, Alive
<1>11. ASSUME NEW d \in Deliveries, CompleteAsync(d)
       PROVE  Peace'
  <2>1. to[d] \in Hosts /\ place[to[d]] \in Silos
    BY <1>11 DEF CompleteAsync, Allocated, Placed
  <2>2. link[to[d]] = "open"
    BY <2>1 DEF Placed
  <2> QED
    BY <1>11, <2>2 DEF CompleteAsync, Alive
<1>12. ASSUME NEW d \in Deliveries,
              MessageActionThrows(d) \/ AbandonAsync(d) \/ UnhandledException(d)
       PROVE  FALSE
  BY <1>1, <1>2, <1>12 DEF MessageActionThrows, AbandonAsync, UnhandledException
<1>13. ASSUME NEW d \in Deliveries, ProcessMessage(d) \/ ProcessMessageEnds(d)
       PROVE  Peace'
  <2>1. \A e \in Deliveries : call'[e] # "lost"
    BY <1>13 DEF ProcessMessage, ProcessMessageEnds
  <2>2. UNCHANGED <<silo, homes, place, link, hosts, delivered, tag, handler>>
    BY <1>13 DEF ProcessMessage, ProcessMessageEnds
  <2> QED
    BY <2>1, <2>2 DEF Alive
<1>14. CASE UNCHANGED vars
  BY <1>14 DEF vars, Alive
<1> QED
  BY <1>3, <1>4, <1>5, <1>6, <1>7, <1>8, <1>9, <1>10, <1>11, <1>12, <1>13, <1>14 DEF Next

LEMMA UndisturbedStep ==
    ASSUME TypeOK, Bookkeeping, Placement, Undisturbed, [Next]_vars
    PROVE  Undisturbed'
<1>1. failures' \in {failures, failures + 1} /\ failures \in Nat
  BY FailureCount DEF TypeOK
<1>2. ASSUME NEW s \in Silos, Suspect(s)
      PROVE  Undisturbed'
  <2>1. /\ failures' = failures + 1 /\ silo[s] = "up"
        /\ silo' = [silo EXCEPT ![s] = "suspected"]
        /\ UNCHANGED <<homes, hosts, place, link, delivered, tag, handler, call>>
    BY <1>2 DEF Suspect, deliveryVars, grainVars
  <2>2. CASE failures = 0
    <3>1. Peace /\ \A t \in Silos : silo[t] # "suspected"
      BY <2>2 DEF Undisturbed, Calm
    <3>2. Peace'
      BY <2>1, <3>1 DEF Peace, Alive, TypeOK
    <3>3. \A t \in Silos : silo'[t] = "suspected" => t = s
      BY <2>1, <3>1 DEF TypeOK
    <3> QED
      BY <1>1, <2>1, <2>2, <3>2, <3>3 DEF Undisturbed
  <2>3. CASE failures # 0
    BY <1>1, <2>1, <2>3 DEF Undisturbed, Calm
  <2> QED
    BY <2>2, <2>3
<1>3. CASE \A s \in Silos : silo'[s] = "suspected" => silo[s] = "suspected"
  <2>1. failures' = 0 => \A s \in Silos : silo'[s] # "suspected"
    BY <1>1, <1>3 DEF Undisturbed
  <2>2. failures' < 2 => \A s, t \in Silos :
            silo'[s] = "suspected" /\ silo'[t] = "suspected" => s = t
    BY <1>1, <1>3 DEF Undisturbed
  <2>3. ASSUME Calm'
        PROVE  Peace'
    <3>1. Calm /\ failures' = failures
      BY <1>1, <1>3, <2>3 DEF Calm, Undisturbed
    <3>2. Peace
      BY <3>1 DEF Undisturbed
    <3> QED
      BY <2>3, <3>1, <3>2, PeaceStep
  <2> QED
    BY <2>1, <2>2, <2>3 DEF Undisturbed
<1> QED
  BY <1>2, <1>3, SuspicionStep

(***************************************************************************)
(* What the failures pay for.                                              *)
(***************************************************************************)
LEMMA ConnectedStep ==
    ASSUME TypeOK, Bookkeeping, Connected, [Next]_vars
    PROVE  Connected'
<1> USE DEF TypeOK, Bookkeeping, Connected, brokerVars, deliveryVars, grainVars, siloVars
<1>1. ASSUME NEW s \in Silos, Terminate(s)
      PROVE  Connected'
  <2>1. /\ \A d \in Deliveries : tag'[d] =
              IF to[d] \in HostsOn(s) /\ tag[d] = "held" THEN "returned" ELSE tag[d]
        /\ UNCHANGED <<to, hosts>>
    BY <1>1, TerminateFacts
  <2>2. /\ link' = [h \in Hosts |-> IF place[h] = s THEN "none" ELSE link[h]]
        /\ handler' = [d \in Deliveries |->
                         IF to[d] \in HostsOn(s) /\ handler[d] # "done"
                         THEN "dead" ELSE handler[d]]
    BY <1>1 DEF Terminate
  <2>3. \A d \in Deliveries : tag'[d] = "held" => link'[to'[d]] = "open"
    BY <2>1, <2>2 DEF HostsOn, Allocated
  <2>4. \A d \in Deliveries :
           handler'[d] \in {"queued", "ignored", "issued", "failed", "thrown"} =>
               link'[to'[d]] # "none"
    BY <2>1, <2>2 DEF HostsOn, Allocated
  <2> QED
    BY <2>1, <2>3, <2>4
<1>2. CASE Publish
  BY <1>2 DEF Publish
<1>3. ASSUME NEW s \in Silos, Start(s) \/ StartFails(s)
      PROVE  Connected'
  <2>1. PICK newLink : link' = [link EXCEPT ![hosts + 1] = newLink]
    BY <1>3 DEF Start, StartFails, Join
  <2>2. hosts' = hosts + 1 /\ UNCHANGED <<to, tag, handler>>
    BY <1>3 DEF Start, StartFails, Join
  <2>3. \A d \in Deliveries : to[d] \in Hosts => link'[to[d]] = link[to[d]]
    BY <2>1
  <2>4. \A d \in Deliveries :
           \/ tag[d] = "held"
           \/ handler[d] \in {"queued", "ignored", "issued", "failed", "thrown"}
           => to[d] \in Hosts
    BY DEF Allocated
  <2>5. \A d \in Deliveries : to[d] <= hosts'
    BY <2>2
  <2>6. \A d \in Deliveries : tag'[d] = "held" => link'[to'[d]] = "open"
    BY <2>2, <2>3, <2>4
  <2>7. \A d \in Deliveries :
           handler'[d] \in {"queued", "ignored", "issued", "failed", "thrown"} =>
               link'[to'[d]] # "none"
    BY <2>2, <2>3, <2>4
  <2> QED
    BY <2>2, <2>5, <2>6, <2>7
<1>4. ASSUME NEW s \in Silos, Stop(s) \/ Suspect(s) \/ DetectDeath(s)
      PROVE  Connected'
  BY <1>4 DEF Stop, Suspect, DetectDeath
<1>5. ASSUME NEW s \in Silos, Crash(s) \/ Exit(s)
      PROVE  Connected'
  BY <1>1, <1>5 DEF Crash, Exit
<1>6. ASSUME NEW h \in Hosts, LoseConnection(h)
      PROVE  Connected'
  <2>1. \A d \in Deliveries :
           tag'[d] = IF to[d] \in {h} /\ tag[d] = "held" THEN "returned" ELSE tag[d]
    BY <1>6, ReturnHeldFacts DEF LoseConnection
  <2> QED
    BY <1>6, <2>1 DEF LoseConnection, Allocated
<1>7. ASSUME NEW h \in Hosts, RecoverConnection(h)
      PROVE  Connected'
  BY <1>7 DEF RecoverConnection, Allocated
<1>8. ASSUME NEW h \in Hosts, Received(h)
      PROVE  Connected'
  <2>1. PICK m \in ready : Deliver(h, m, "held")
    BY <1>8 DEF Received
  <2>2. link[h] = "open" /\ h <= hosts /\ delivered + 1 \in Deliveries
    BY <2>1 DEF Deliver, Placed
  <2>3. /\ \A d \in Deliveries : IF d = delivered + 1
                                 THEN to'[d] = h
                                 ELSE /\ to'[d] = to[d] /\ tag'[d] = tag[d]
                                      /\ handler'[d] = handler[d]
        /\ UNCHANGED <<link, hosts>>
    BY <2>1 DEF Deliver
  <2> QED
    BY <2>2, <2>3
<1>9. ASSUME NEW d \in Deliveries, MessageAction(d) \/ MessageActionThrows(d)
      PROVE  Connected'
  <2>1. /\ handler[d] = "queued" /\ UNCHANGED <<to, tag, link, hosts>>
        /\ \A e \in Deliveries : e # d => handler'[e] = handler[e]
    BY <1>9 DEF MessageAction, Issue, MessageActionThrows, NextTask
  <2> QED
    BY <2>1
<1>10. ASSUME NEW d \in Deliveries, CompleteAsync(d)
       PROVE  Connected'
  BY <1>10, CompleteFacts DEF CompleteAsync
<1>11. ASSUME NEW d \in Deliveries, AbandonAsync(d)
       PROVE  Connected'
  BY <1>11, AbandonFacts DEF AbandonAsync
<1>12. ASSUME NEW d \in Deliveries, UnhandledException(d)
       PROVE  Connected'
  <2>1. place[to[d]] \in Silos
    BY <1>12 DEF UnhandledException, Placed
  <2> QED
    BY <1>1, <1>12, <2>1 DEF UnhandledException
<1>13. ASSUME NEW d \in Deliveries, ProcessMessage(d) \/ ProcessMessageEnds(d)
       PROVE  Connected'
  BY <1>13, SMTT(30) DEF ProcessMessage, ProcessMessageEnds
<1>14. CASE UNCHANGED vars
  BY <1>14 DEF vars
<1> QED
  BY <1>2, <1>3, <1>4, <1>5, <1>6, <1>7, <1>8, <1>9, <1>10, <1>11, <1>12, <1>13,
     <1>14 DEF Next

\* A finite set that changes by at most one element.
LEMMA CardinalityChange ==
    ASSUME NEW S, IsFiniteSet(S), NEW T
    PROVE  /\ Cardinality(S) \in Nat
           /\ T \subseteq S => /\ IsFiniteSet(T) /\ Cardinality(T) \in Nat
                               /\ Cardinality(T) <= Cardinality(S)
           /\ \A x : T \subseteq S \cup {x} =>
                /\ IsFiniteSet(T) /\ Cardinality(T) \in Nat
                /\ Cardinality(T) <= Cardinality(S) + 1
           /\ \A x \in S : T \subseteq S \ {x} =>
                /\ IsFiniteSet(T) /\ Cardinality(T) \in Nat
                /\ Cardinality(T) + 1 <= Cardinality(S)
<1>1. Cardinality(S) \in Nat
  BY FS_CardinalityType
<1>2. ASSUME T \subseteq S
      PROVE  /\ IsFiniteSet(T) /\ Cardinality(T) \in Nat
             /\ Cardinality(T) <= Cardinality(S)
  BY <1>2, FS_Subset, FS_CardinalityType
<1>3. ASSUME NEW x, T \subseteq S \cup {x}
      PROVE  /\ IsFiniteSet(T) /\ Cardinality(T) \in Nat
             /\ Cardinality(T) <= Cardinality(S) + 1
  <2>1. /\ IsFiniteSet(S \cup {x})
        /\ Cardinality(S \cup {x}) = IF x \in S THEN Cardinality(S) ELSE Cardinality(S) + 1
    BY FS_AddElement
  <2>2. IsFiniteSet(T) /\ Cardinality(T) <= Cardinality(S \cup {x})
    BY <1>3, <2>1, FS_Subset
  <2>3. Cardinality(T) \in Nat
    BY <2>2, FS_CardinalityType
  <2> QED
    BY <1>1, <2>1, <2>2, <2>3
<1>4. ASSUME NEW x \in S, T \subseteq S \ {x}
      PROVE  /\ IsFiniteSet(T) /\ Cardinality(T) \in Nat
             /\ Cardinality(T) + 1 <= Cardinality(S)
  <2>1. IsFiniteSet(S \ {x}) /\ Cardinality(S \ {x}) = Cardinality(S) - 1
    BY FS_RemoveElement
  <2>2. IsFiniteSet(T) /\ Cardinality(T) <= Cardinality(S \ {x})
    BY <1>4, <2>1, FS_Subset
  <2>3. Cardinality(T) \in Nat
    BY <2>2, FS_CardinalityType
  <2> QED
    BY <1>1, <2>1, <2>2, <2>3
<1> QED
  BY <1>1, <1>2, <1>3, <1>4

LEMMA FiniteDeliveries ==
    ASSUME NEW D \in SUBSET Deliveries
    PROVE  IsFiniteSet(D) /\ Cardinality(D) \in Nat
<1>1. IsFiniteSet(1..MaxDeliveries)
  BY FS_Interval
<1> QED
  BY <1>1, FS_Subset, FS_CardinalityType

\* What a step that returns tags does to what was returned of a message: its tag was
\* held by one delivery at most.
LEMMA OneReturn ==
    ASSUME TypeOK, ExactlyOnePlace, NEW m \in Messages, UNCHANGED msg,
           \A d \in Deliveries : tag'[d] # tag[d] => tag[d] = "held"
    PROVE  \E x : Returned(m)' \subseteq Returned(m) \cup {x}
<1>1. \A d, e \in Deliveries :
         d \in Returned(m)' \ Returned(m) /\ e \in Returned(m)' \ Returned(m) => d = e
  BY DEF Returned, DeliveriesOf, ExactlyOnePlace, Claims
<1>2. CASE Returned(m)' \subseteq Returned(m)
  BY <1>2
<1>3. ASSUME NEW x \in Returned(m)' \ Returned(m)
      PROVE  Returned(m)' \subseteq Returned(m) \cup {x}
  BY <1>1 DEF Returned, DeliveriesOf
<1> QED
  BY <1>2, <1>3

\* The end of a process: it may return a message, and it lifts the doom of its silo.
LEMMA TerminateCharges ==
    ASSUME TypeOK, Bookkeeping, ExactlyOnePlace, NEW s \in Silos, Terminate(s)
    PROVE  /\ Doomed' \subseteq Doomed \ {s}
           /\ \A m \in Messages : /\ \E x : Returned(m)' \subseteq Returned(m) \cup {x}
                                  /\ Owed(m)' \subseteq Owed(m)
<1>1. /\ \A d \in Deliveries : tag'[d] =
            IF to[d] \in HostsOn(s) /\ tag[d] = "held" THEN "returned" ELSE tag[d]
      /\ UNCHANGED <<msg, to>>
  BY TerminateFacts DEF Bookkeeping
<1>2. /\ silo' = [silo EXCEPT ![s] = "down"]
      /\ place' = [h \in Hosts |-> IF place[h] = s THEN NoSilo ELSE place[h]]
      /\ link' = [h \in Hosts |-> IF place[h] = s THEN "none" ELSE link[h]]
      /\ handler' = [d \in Deliveries |->
                       IF to[d] \in HostsOn(s) /\ handler[d] # "done"
                       THEN "dead" ELSE handler[d]]
  BY DEF Terminate
<1>3. ASSUME NEW p \in Doomed'
      PROVE  p \in Doomed \ {s}
  <2>1. p \in Silos /\ p # NoSilo
    BY DEF Doomed
  <2>2. \A h \in HostsOn(p)' : h \in Hosts /\ place[h] = p /\ p # s /\ link'[h] = link[h]
    BY <1>2, <2>1 DEF HostsOn
  <2>3. CASE silo'[p] \in {"stopping", "suspected"}
    BY <1>2, <2>1, <2>3 DEF TypeOK, Doomed
  <2>4. ASSUME NEW h \in HostsOn(p)', link'[h] = "lost"
        PROVE  p \in Doomed \ {s}
    BY <2>1, <2>2, <2>4 DEF Doomed, HostsOn
  <2>5. ASSUME NEW d \in Deliveries, to'[d] \in HostsOn(p)', handler'[d] \in {"failed", "thrown"}
        PROVE  p \in Doomed \ {s}
    <3>1. to[d] \in HostsOn(p) /\ p # s
      BY <1>1, <2>2, <2>5 DEF HostsOn
    <3>2. handler[d] \in {"failed", "thrown"}
      BY <1>2, <2>5
    <3> QED
      BY <2>1, <3>1, <3>2 DEF Doomed
  <2> QED
    BY <2>3, <2>4, <2>5 DEF Doomed
<1>4. ASSUME NEW m \in Messages
      PROVE  Owed(m)' \subseteq Owed(m)
  BY <1>1, <1>2 DEF Owed, DeliveriesOf
<1>5. ASSUME NEW m \in Messages
      PROVE  \E x : Returned(m)' \subseteq Returned(m) \cup {x}
  <2>1. \A d \in Deliveries : tag'[d] # tag[d] => tag[d] = "held"
    BY <1>1
  <2> QED
    BY <1>1, <2>1, OneReturn
<1> QED
  BY <1>3, <1>4, <1>5

\* What the sets of charges may do in a step, and what it must cost then.
LEMMA ReturnsPaidStep ==
    ASSUME TypeOK, Bookkeeping, ExactlyOnePlace, Connected, ReturnsPaid, [Next]_vars
    PROVE  ReturnsPaid'
<1> USE DEF TypeOK, Bookkeeping, brokerVars, deliveryVars, grainVars, siloVars
<1> DEFINE Kept == Doomed' \subseteq Doomed
           Struck == \E s \in Silos : Doomed' \subseteq Doomed \cup {s}
           Lifted == \E s \in Doomed : Doomed' \subseteq Doomed \ {s}
           Quiet(m) == Returned(m)' \subseteq Returned(m) /\ Owed(m)' \subseteq Owed(m)
           Back(m) == /\ \E x : Returned(m)' \subseteq Returned(m) \cup {x}
                      /\ Owed(m)' \subseteq Owed(m)
           Failed(m) == /\ Returned(m)' \subseteq Returned(m)
                        /\ \E x : Owed(m)' \subseteq Owed(m) \cup {x}
           Given(m) == /\ \E x : Returned(m)' \subseteq Returned(m) \cup {x}
                       /\ \E x \in Owed(m) : Owed(m)' \subseteq Owed(m) \ {x}
           Goal == /\ Doomed' \subseteq Doomed \/ Struck \/ Lifted
                   /\ \A m \in Messages :
                         \/ Quiet(m) /\ Kept /\ failures' >= failures
                         \/ Given(m) /\ Kept /\ failures' >= failures
                         \/ Back(m) /\ Lifted /\ failures' >= failures
                         \/ Back(m) /\ Kept /\ failures' = failures + 1
                         \/ Back(m) /\ Struck /\ failures' = failures + 1
                         \/ Failed(m) /\ Struck /\ failures' = failures + 1
<1>0. failures' \in {failures, failures + 1}
  BY FailureCount
<1>1. SUFFICES Goal
  <2> SUFFICES ASSUME Goal PROVE ReturnsPaid'
    OBVIOUS
  <2>0. IsFiniteSet(Doomed) /\ Cardinality(Doomed) \in Nat
    BY FS_CardinalityType DEF ReturnsPaid
  <2>1. IsFiniteSet(Doomed')
    BY <2>0, CardinalityChange
  <2>2. ASSUME NEW m \in Messages
        PROVE  Cardinality(Returned(m)') + Cardinality(Owed(m)') + Cardinality(Doomed')
                   <= 2 * failures'
    <3> DEFINE r == Cardinality(Returned(m))
               o == Cardinality(Owed(m))
               c == Cardinality(Doomed)
               rr == Cardinality(Returned(m)')
               oo == Cardinality(Owed(m)')
               cc == Cardinality(Doomed')
    <3>1. /\ IsFiniteSet(Returned(m)) /\ IsFiniteSet(Owed(m))
          /\ r \in Nat /\ o \in Nat /\ rr \in Nat /\ oo \in Nat
      BY FiniteDeliveries DEF Returned, Owed, DeliveriesOf
    <3>2. c \in Nat /\ cc \in Nat
      BY <2>0, <2>1, FS_CardinalityType
    <3>3. r + o + c <= 2 * failures
      BY DEF ReturnsPaid
    <3>4. /\ Returned(m)' \subseteq Returned(m) => rr <= r
          /\ Owed(m)' \subseteq Owed(m) => oo <= o
          /\ Kept => cc <= c
      BY <2>0, <3>1, CardinalityChange
    <3>5. /\ (\E x : Returned(m)' \subseteq Returned(m) \cup {x}) => rr <= r + 1
          /\ (\E x : Owed(m)' \subseteq Owed(m) \cup {x}) => oo <= o + 1
          /\ Struck => cc <= c + 1
      BY <2>0, <3>1, CardinalityChange
    <3>6. /\ (\E x \in Owed(m) : Owed(m)' \subseteq Owed(m) \ {x}) => oo + 1 <= o
          /\ Lifted => cc + 1 <= c
      BY <2>0, <3>1, CardinalityChange
    <3>7. failures \in Nat
      OBVIOUS
    <3> HIDE DEF r, o, c, rr, oo, cc, Kept, Struck, Lifted
    <3>8. \/ rr <= r /\ oo <= o /\ cc <= c /\ failures' >= failures
          \/ rr <= r + 1 /\ oo + 1 <= o /\ cc <= c /\ failures' >= failures
          \/ rr <= r + 1 /\ oo <= o /\ cc + 1 <= c /\ failures' >= failures
          \/ rr <= r + 1 /\ oo <= o /\ cc <= c + 1 /\ failures' = failures + 1
          \/ rr <= r /\ oo <= o + 1 /\ cc <= c + 1 /\ failures' = failures + 1
      <4>1. \/ Quiet(m) /\ Kept /\ failures' >= failures
            \/ Given(m) /\ Kept /\ failures' >= failures
            \/ Back(m) /\ Lifted /\ failures' >= failures
            \/ Back(m) /\ Kept /\ failures' = failures + 1
            \/ Back(m) /\ Struck /\ failures' = failures + 1
            \/ Failed(m) /\ Struck /\ failures' = failures + 1
        OBVIOUS
      <4>2. CASE Quiet(m) /\ Kept /\ failures' >= failures
        BY <3>4, <4>2
      <4>3. CASE Given(m) /\ Kept /\ failures' >= failures
        BY <3>4, <3>5, <3>6, <4>3
      <4>4. CASE Back(m) /\ Lifted /\ failures' >= failures
        BY <3>4, <3>5, <3>6, <4>4
      <4>5. CASE Back(m) /\ Kept /\ failures' = failures + 1
        <5>1. rr <= r + 1 /\ oo <= o /\ cc <= c
          BY <3>4, <3>5, <4>5
        <5> QED
          BY <3>2, <4>5, <5>1
      <4>7. CASE Back(m) /\ Struck /\ failures' = failures + 1
        BY <3>4, <3>5, <4>7
      <4>6. CASE Failed(m) /\ Struck /\ failures' = failures + 1
        BY <3>4, <3>5, <4>6
      <4> QED
        BY <4>1, <4>2, <4>3, <4>4, <4>5, <4>6, <4>7
    <3>9. rr + oo + cc <= 2 * failures'
      <4> DEFINE f == failures
                 g == failures'
      <4>1. f \in Nat /\ g \in {f, f + 1} /\ r + o + c <= 2 * f
        BY <1>0, <3>3, <3>7
      <4>2. \/ rr <= r /\ oo <= o /\ cc <= c /\ g >= f
            \/ rr <= r + 1 /\ oo + 1 <= o /\ cc <= c /\ g >= f
            \/ rr <= r + 1 /\ oo <= o /\ cc + 1 <= c /\ g >= f
            \/ rr <= r + 1 /\ oo <= o /\ cc <= c + 1 /\ g = f + 1
            \/ rr <= r /\ oo <= o + 1 /\ cc <= c + 1 /\ g = f + 1
        BY <3>8
      <4>3. SUFFICES rr + oo + cc <= 2 * g
        OBVIOUS
      <4> HIDE DEF f, g
      <4> QED
        BY ONLY <3>1, <3>2, <4>1, <4>2
    <3> QED
      BY <3>9 DEF rr, oo, cc
  <2> QED
    BY <2>1, <2>2 DEF ReturnsPaid
<1>2. ASSUME NEW s \in Silos, Terminate(s), failures' = failures,
             s \in Doomed
      PROVE  Goal
  <2>1. Lifted /\ \A m \in Messages : Back(m)
    BY <1>2, TerminateCharges
  <2>2. failures' >= failures
    BY <1>2
  <2> HIDE DEF Kept, Struck, Lifted, Quiet, Back, Failed, Given
  <2> QED
    BY <2>1, <2>2
<1>3. CASE Publish
  BY <1>3 DEF Publish, Doomed, HostsOn, Returned, Owed, DeliveriesOf
<1>4. ASSUME NEW s \in Silos, Start(s) \/ StartFails(s)
      PROVE  Goal
  <2>1. PICK newLink \in {"open", "none"} : Join(s, newLink)
    BY <1>4 DEF Start, StartFails
  <2>2. PICK p \in Silos : place' = [place EXCEPT ![hosts + 1] = p]
    BY <2>1 DEF Join
  <2>3. hosts + 1 \in Hosts /\ \A d \in Deliveries : to[d] # hosts + 1
    BY <2>1 DEF Join, Connected
  <2>4. /\ silo' = [silo EXCEPT ![s] = "up"]
        /\ link' = [link EXCEPT ![hosts + 1] = newLink]
        /\ UNCHANGED <<msg, to, tag, handler>>
    BY <2>1 DEF Join
  <2>5. ASSUME NEW t \in Doomed'
        PROVE  t \in Doomed
    <3>1. \A h \in HostsOn(t)' : h = hosts + 1 \/ (h \in HostsOn(t) /\ link'[h] = link[h])
      BY <2>2, <2>4 DEF HostsOn
    <3>2. CASE silo'[t] \in {"stopping", "suspected"}
      BY <2>4, <3>2 DEF Doomed
    <3>3. ASSUME NEW h \in HostsOn(t)', link'[h] = "lost"
          PROVE  t \in Doomed
      <4>1. link'[hosts + 1] # "lost"
        BY <2>3, <2>4
      <4> QED
        BY <3>1, <3>3, <4>1 DEF Doomed
    <3>4. ASSUME NEW d \in Deliveries, to'[d] \in HostsOn(t)', handler'[d] \in {"failed", "thrown"}
          PROVE  t \in Doomed
      BY <2>3, <2>4, <3>1, <3>4 DEF Doomed
    <3> QED
      BY <3>2, <3>3, <3>4 DEF Doomed
  <2>6. \A m \in Messages : Quiet(m)
    BY <2>4 DEF Returned, Owed, DeliveriesOf
  <2> QED
    BY <1>0, <2>5, <2>6
<1>5. ASSUME NEW s \in Silos, Crash(s)
      PROVE  Goal
  <2>1. Terminate(s) /\ failures' = failures + 1
    BY <1>5 DEF Crash
  <2> QED
    BY <2>1, TerminateCharges
<1>6. ASSUME NEW s \in Silos, Stop(s) \/ Suspect(s)
      PROVE  Goal
  <2>1. failures' = failures + 1 /\ UNCHANGED <<msg, to, tag, place, link>>
    BY <1>6 DEF Stop, Suspect
  <2>2. \A d \in Deliveries : handler'[d] \in {handler[d], "ignored"}
    BY <1>6 DEF Stop, Suspect
  <2>0. \E x : silo' = [silo EXCEPT ![s] = x]
    BY <1>6 DEF Stop, Suspect
  <2>3. Doomed' \subseteq Doomed \cup {s}
    BY <2>0, <2>1, <2>2 DEF Doomed, HostsOn
  <2>4. \A m \in Messages : Quiet(m)
    BY <2>1, <2>2 DEF Returned, Owed, DeliveriesOf
  <2> QED
    BY <2>1, <2>3, <2>4
<1>7. ASSUME NEW s \in Silos, Exit(s)
      PROVE  Goal
  <2>1. s \in Doomed
    BY <1>7 DEF Exit, Doomed
  <2> QED
    BY <1>2, <1>7, <2>1 DEF Exit
<1>8. ASSUME NEW h \in Hosts, LoseConnection(h)
      PROVE  Goal
  <2>1. \A d \in Deliveries :
           tag'[d] = IF to[d] \in {h} /\ tag[d] = "held" THEN "returned" ELSE tag[d]
    BY <1>8, ReturnHeldFacts DEF LoseConnection
  <2>2. /\ link' = [link EXCEPT ![h] = "lost"] /\ failures' = failures + 1
        /\ UNCHANGED <<msg, to, handler, silo, place>>
    BY <1>8 DEF LoseConnection
  <2>3. place[h] \in Silos
    BY <1>8 DEF LoseConnection, Placed
  <2>4. Doomed' \subseteq Doomed \cup {place[h]}
    BY <2>2 DEF Doomed, HostsOn
  <2>5. ASSUME NEW m \in Messages
        PROVE  Back(m)
    <3>1. \E x : Returned(m)' \subseteq Returned(m) \cup {x}
      BY <2>1, <2>2, OneReturn
    <3>2. Owed(m)' \subseteq Owed(m)
      BY <2>1, <2>2 DEF Owed, DeliveriesOf
    <3> QED
      BY <3>1, <3>2
  <2> QED
    BY <2>2, <2>3, <2>4, <2>5
<1>9. ASSUME NEW h \in Hosts, RecoverConnection(h)
      PROVE  Goal
  <2>1. /\ link' = [link EXCEPT ![h] = "open"]
        /\ UNCHANGED <<msg, to, tag, handler, silo, place, failures>>
    BY <1>9 DEF RecoverConnection
  <2>2. Kept
    BY <2>1 DEF Doomed, HostsOn
  <2>3. \A m \in Messages : Quiet(m)
    BY <2>1 DEF Returned, Owed, DeliveriesOf
  <2> QED
    BY <2>1, <2>2, <2>3
<1>10. ASSUME NEW h \in Hosts, Received(h)
       PROVE  Goal
  <2>1. PICK n \in ready : Deliver(h, n, "held")
    BY <1>10 DEF Received
  <2>2. delivered + 1 \in Deliveries /\ handler[delivered + 1] = "unused"
    BY <2>1 DEF Deliver, Allocated
  <2>3. /\ \A d \in Deliveries : IF d = delivered + 1
                                 THEN tag'[d] = "held" /\ handler'[d] \in {"queued", "ignored"}
                                 ELSE /\ msg'[d] = msg[d] /\ to'[d] = to[d]
                                      /\ tag'[d] = tag[d] /\ handler'[d] = handler[d]
        /\ UNCHANGED <<silo, place, link, failures>>
    BY <2>1 DEF Deliver
  <2>4. Kept
    BY <2>3 DEF Doomed, HostsOn
  <2>5. \A m \in Messages : Quiet(m)
    BY <2>3 DEF Returned, Owed, DeliveriesOf
  <2> QED
    BY <2>3, <2>4, <2>5
<1>11. ASSUME NEW d \in Deliveries, MessageAction(d)
       PROVE  Goal
  <2>1. /\ \A e \in Deliveries : handler'[e] \in {handler[e], "issued"}
        /\ UNCHANGED <<msg, to, tag, silo, place, link, failures>>
    BY <1>11 DEF MessageAction, Issue
  <2>2. Kept
    BY <2>1 DEF Doomed, HostsOn
  <2>3. \A m \in Messages : Quiet(m)
    BY <2>1 DEF Returned, Owed, DeliveriesOf
  <2> QED
    BY <2>1, <2>2, <2>3
<1>12. ASSUME NEW d \in Deliveries, MessageActionThrows(d)
       PROVE  Goal
  <2>1. /\ handler[d] = "queued" /\ failures' = failures + 1
        /\ \A e \in Deliveries : e # d => handler'[e] = handler[e]
        /\ UNCHANGED <<msg, to, tag, silo, place, link>>
    BY <1>12 DEF MessageActionThrows, NextTask
  <2>2. place[to[d]] \in Silos
    BY <2>1 DEF Placed
  <2>3. Doomed' \subseteq Doomed \cup {place[to[d]]}
    BY <2>1 DEF Doomed, HostsOn
  <2>4. ASSUME NEW m \in Messages
        PROVE  Failed(m)
    <3>1. Returned(m)' \subseteq Returned(m)
      BY <2>1 DEF Returned, DeliveriesOf
    <3>2. Owed(m)' \subseteq Owed(m) \cup {d}
      BY <2>1 DEF Owed, DeliveriesOf
    <3> QED
      BY <3>1, <3>2
  <2> QED
    BY <2>1, <2>2, <2>3, <2>4
<1>13. ASSUME NEW d \in Deliveries, CompleteAsync(d)
       PROVE  Goal
  <2>1. /\ handler[d] = "issued"
        /\ \A e \in Deliveries : e # d => handler'[e] = handler[e] /\ tag'[e] = tag[e]
        /\ link[to[d]] = "open" => handler'[d] = "done" /\ tag'[d] \in {tag[d], "acked"}
        /\ link[to[d]] # "open" => tag'[d] = tag[d]
        /\ UNCHANGED <<msg, to, silo, place, link, failures>>
    BY <1>13 DEF CompleteAsync
  <2>2. d <= delivered /\ to[d] \in Hosts /\ place[to[d]] \in Silos
    BY <2>1 DEF Allocated, Placed
  <2>3. CASE link[to[d]] = "open"
    <3>1. Kept
      BY <2>1, <2>3 DEF Doomed, HostsOn
    <3>2. \A m \in Messages : Quiet(m)
      BY <2>1, <2>3 DEF Returned, Owed, DeliveriesOf
    <3> QED
      BY <2>1, <3>1, <3>2
  <2>4. CASE link[to[d]] # "open"
    <3>1. link[to[d]] = "lost" /\ tag[d] # "held"
      BY <2>1, <2>2, <2>4 DEF Connected, Links
    <3>2. place[to[d]] \in Doomed
      BY <2>2, <3>1 DEF Doomed, HostsOn
    <3>3. Kept
      BY <2>1, <3>2 DEF Doomed, HostsOn
    <3>4. \A m \in Messages : Quiet(m)
      BY <2>1, <2>4, <3>1 DEF Returned, Owed, DeliveriesOf
    <3> QED
      BY <2>1, <3>3, <3>4
  <2> QED
    BY <2>3, <2>4
<1>14. ASSUME NEW d \in Deliveries, AbandonAsync(d)
       PROVE  Goal
  <2>1. /\ handler[d] = "failed" /\ handler'[d] = "thrown"
        /\ \A e \in Deliveries : e # d => handler'[e] = handler[e]
        /\ UNCHANGED <<msg, to, silo, place, link, failures>>
    BY <1>14 DEF AbandonAsync
  <2>2. /\ \A e \in Deliveries : e # d => tag'[e] = tag[e]
        /\ tag'[d] # tag[d] => tag[d] = "held"
    BY <1>14, AbandonFacts
  <2>3. Kept
    BY <2>1 DEF Doomed, HostsOn
  <2>4. ASSUME NEW m \in Messages
        PROVE  Quiet(m) \/ Given(m)
    <3>1. CASE tag'[d] # tag[d] /\ msg[d] = m
      <4>1. d \in Owed(m)
        BY <2>1, <2>2, <3>1 DEF Owed, DeliveriesOf
      <4>2. Returned(m)' \subseteq Returned(m) \cup {d}
        BY <2>1, <2>2 DEF Returned, DeliveriesOf
      <4>3. Owed(m)' \subseteq Owed(m) \ {d}
        BY <2>1, <2>2 DEF Owed, DeliveriesOf
      <4> QED
        BY <4>1, <4>2, <4>3
    <3>2. CASE tag'[d] = tag[d] \/ msg[d] # m
      BY <2>1, <2>2, <3>2 DEF Returned, Owed, DeliveriesOf
    <3> QED
      BY <3>1, <3>2
  <2>5. failures' >= failures
    BY <2>1
  <2> HIDE DEF Struck, Lifted, Quiet, Back, Failed, Given
  <2> QED
    BY <2>3, <2>4, <2>5
<1>15. ASSUME NEW d \in Deliveries, UnhandledException(d)
       PROVE  Goal
  <2>1. handler[d] = "thrown" /\ Terminate(place[to[d]]) /\ failures' = failures
    BY <1>15 DEF UnhandledException
  <2>2. d <= delivered /\ to[d] \in Hosts /\ place[to[d]] \in Silos
    BY <2>1 DEF Allocated, Placed
  <2>3. place[to[d]] \in Doomed
    BY <2>1, <2>2 DEF Doomed, HostsOn
  <2> QED
    BY <1>2, <2>1, <2>2, <2>3
<1>16. CASE UNCHANGED <<msg, to, tag, handler, silo, place, link, failures>>
  <2>1. Kept
    BY <1>16 DEF Doomed, HostsOn
  <2>2. \A m \in Messages : Quiet(m)
    BY <1>16 DEF Returned, Owed, DeliveriesOf
  <2> QED
    BY <1>16, <2>1, <2>2
<1>17. ASSUME \/ \E s \in Silos : DetectDeath(s)
              \/ \E d \in Deliveries : ProcessMessage(d) \/ ProcessMessageEnds(d)
       PROVE  Goal
  BY <1>16, <1>17 DEF DetectDeath, ProcessMessage, ProcessMessageEnds
<1>18. CASE UNCHANGED vars
  BY <1>16, <1>18 DEF vars
<1> HIDE DEF Goal
<1> QED
  BY <1>3, <1>4, <1>5, <1>6, <1>7, <1>8, <1>9, <1>10, <1>11, <1>12, <1>13, <1>14,
     <1>15, <1>17, <1>18, Zenon DEF Next

\* The invariant that the theorems below follow from.
THEOREM Invariance == Spec => []IInv
<1>1. IInv /\ [Next]_vars => IInv'
  <2> SUFFICES ASSUME IInv, [Next]_vars
               PROVE  IInv'
    OBVIOUS
  <2>1. TypeOK' /\ Bookkeeping'
    BY TypeStep DEF IInv
  <2>2. ExactlyOnePlace'
    BY <2>1, PlaceStep DEF IInv
  <2>3. ActionRan' /\ SettledAfterHandoff'
    BY HandoffStep DEF IInv
  <2>4. Placement' /\ TurnByTurn'
    BY PlacementStep, TurnStep DEF IInv
  <2>5. SameActivation'
    BY SameActivationStep DEF IInv
  <2>6. Undisturbed'
    BY UndisturbedStep DEF IInv
  <2>7. Connected'
    BY ConnectedStep DEF IInv
  <2>8. ReturnsPaid'
    BY ReturnsPaidStep DEF IInv
  <2> QED
    BY <2>1, <2>2, <2>3, <2>4, <2>5, <2>6, <2>7, <2>8 DEF IInv
<1> QED
  BY InitInvariant, <1>1, PTL DEF Spec

\* Every variable keeps its type, in every instance of the model.
THEOREM TypeCorrect == Spec => []TypeOK
BY Invariance, PTL DEF IInv

\* CompleteAsync comes after the message action: a settled message was handed
\* to the EventProcessorGrain by the delivery that settled it.
THEOREM Handover == Spec => []SettledAfterHandoff
BY Invariance, PTL DEF IInv

\* Acks, nacks, lost connections and dying silos neither drop a message nor
\* double it: it waits in the queue or exactly one delivery claims it.
THEOREM NothingDropped == Spec => []ExactlyOnePlace
BY Invariance, PTL DEF IInv

\* The calls for a message meet in one EventProcessorGrain, so without a second failure
\* the message is never worked on twice at the same time.
THEOREM OneWorker == Spec => []NeverTwiceAtOnce
<1>1. IInv => NeverTwiceAtOnce
  BY DEF IInv, NeverTwiceAtOnce, SameActivation, TurnByTurn, Open
<1> QED
  BY <1>1, Invariance, PTL

\* However many deliveries and silos there are, a message leads to at most two calls
\* more for every failure, its own redelivery and that of the silo's end.
THEOREM RedeliveriesPaid == Spec => []DuplicatesBounded
<1>1. IInv => DuplicatesBounded
  <2> SUFFICES ASSUME IInv, NEW m \in Messages
               PROVE  Cardinality({d \in DeliveriesOf(m) : call[d] # "none"})
                          <= 1 + 2 * failures
    BY DEF DuplicatesBounded
  <2> DEFINE called == {d \in DeliveriesOf(m) : call[d] # "none"}
  <2>1. \E x : called \subseteq Returned(m) \cup {x}
    <3>1. \A d \in called \ Returned(m) : Claims(d) /\ msg[d] = m /\ d \in Deliveries
      BY DEF IInv, TypeOK, Bookkeeping, Allocated, Returned, DeliveriesOf, Claims, Tags
    <3>2. \A d, e \in called \ Returned(m) : d = e
      BY <3>1 DEF IInv, ExactlyOnePlace
    <3> HIDE DEF called
    <3>3. CASE called \subseteq Returned(m)
      BY <3>3
    <3>4. ASSUME NEW x \in called \ Returned(m)
          PROVE  called \subseteq Returned(m) \cup {x}
      BY <3>2
    <3> QED
      BY <3>3, <3>4
  <2>2. /\ IsFiniteSet(Returned(m)) /\ Cardinality(Returned(m)) \in Nat
        /\ Cardinality(Owed(m)) \in Nat
    BY FiniteDeliveries DEF Returned, Owed, DeliveriesOf
  <2>3. Cardinality(called) <= Cardinality(Returned(m)) + 1 /\ Cardinality(called) \in Nat
    <3> HIDE DEF called
    <3>1. PICK x : called \subseteq Returned(m) \cup {x}
      BY <2>1
    <3> QED
      BY <2>2, <3>1, CardinalityChange, SMTT(30)
  <2>4. Cardinality(Doomed) \in Nat
    BY FS_CardinalityType DEF IInv, ReturnsPaid
  <2>5. Cardinality(Returned(m)) + Cardinality(Owed(m)) + Cardinality(Doomed) <= 2 * failures
    BY DEF IInv, ReturnsPaid
  <2>6. failures \in Nat
    BY DEF IInv, TypeOK
  <2> QED
    BY <2>2, <2>3, <2>4, <2>5, <2>6
<1> QED
  BY <1>1, Invariance, PTL

\* Without failures every message is delivered once and no call is lost.
THEOREM ExactlyOnce == Spec => []FailureFreeExactlyOnce
<1>1. IInv => FailureFreeExactlyOnce
  <2> SUFFICES ASSUME IInv, failures = 0
               PROVE  /\ \A d, e \in 1..delivered : msg[d] = msg[e] => d = e
                      /\ \A d \in Deliveries :
                            /\ handler[d] \notin {"failed", "thrown", "dead"}
                            /\ call[d] # "lost"
    BY DEF FailureFreeExactlyOnce
  <2>1. \A d \in 1..delivered : /\ d \in Deliveries /\ Claims(d)
                                /\ handler[d] \in {"queued", "issued", "done"}
    BY DEF IInv, TypeOK, Undisturbed, Calm, Peace, Claims
  <2>2. \A d, e \in 1..delivered : msg[d] = msg[e] => d = e
    BY <2>1 DEF IInv, ExactlyOnePlace
  <2>3. \A d \in Deliveries : handler[d] \notin {"failed", "thrown", "dead"}
    <3> SUFFICES ASSUME NEW d \in Deliveries
                 PROVE  handler[d] \notin {"failed", "thrown", "dead"}
      OBVIOUS
    <3>1. CASE d <= delivered
      BY <2>1, <3>1
    <3>2. CASE ~(d <= delivered)
      BY <3>2 DEF IInv, Bookkeeping, Allocated
    <3> QED
      BY <3>1, <3>2
  <2> QED
    BY <2>2, <2>3 DEF IInv, Undisturbed, Calm, Peace
<1> QED
  BY Invariance, <1>1, PTL

(***************************************************************************)
(* Refinement: every step of the listener is a step of MessageHandoff.     *)
(***************************************************************************)
Stage == [m \in Messages |-> StageOf(m)]
Offered == {msg[d] : d \in {c \in Deliveries : call[c] # "none"}}

\* How the broker's bookkeeping shows the stage of a message.
LEMMA StageFacts ==
    ASSUME TypeOK, Bookkeeping, ExactlyOnePlace, NEW m \in Messages
    PROVE  /\ StageOf(m) = "unpublished" <=> m > published
           /\ StageOf(m) = "ready" <=> m \in ready
           /\ StageOf(m) = "taken" <=> \E d \in Deliveries : msg[d] = m /\ tag[d] = "held"
           /\ StageOf(m) = "settled" <=> \E d \in Deliveries : msg[d] = m /\ tag[d] = "acked"
           /\ StageOf(m) \in {"unpublished", "ready", "taken", "settled"}
<1> USE DEF TypeOK, StageOf, DeliveriesOf
<1>1. \A d \in Deliveries : tag[d] \in {"held", "acked"} => msg[d] \in 1..published
  BY DEF Bookkeeping, Allocated
<1>2. CASE m > published
  BY <1>1, <1>2 DEF Bookkeeping, Allocated
<1>3. CASE m <= published
  <2>1. m \in ready <=> \A d \in DeliveriesOf(m) : ~Claims(d)
    BY <1>3 DEF ExactlyOnePlace
  <2>2. \A d, e \in Deliveries : Claims(d) /\ Claims(e) /\ msg[d] = msg[e] => d = e
    BY DEF ExactlyOnePlace
  <2> QED
    BY <1>3, <2>1, <2>2 DEF Claims
<1> QED
  BY <1>2, <1>3

\* Only the message action adds to what was offered.
LEMMA OfferedStep ==
    ASSUME TypeOK, Bookkeeping, [Next]_vars
    PROVE  \/ Offered' = Offered
           \/ \E d \in Deliveries : MessageAction(d)
<1> SUFFICES ASSUME ~ \E d \in Deliveries : MessageAction(d)
             PROVE  Offered' = Offered
  OBVIOUS
<1> USE DEF TypeOK, brokerVars, deliveryVars, grainVars, siloVars
<1>1. \A d \in Deliveries : call'[d] = "none" <=> call[d] = "none"
  <2>1. ASSUME NEW s \in Silos, Terminate(s)
        PROVE  \A d \in Deliveries : call'[d] = "none" <=> call[d] = "none"
    BY <2>1, TerminateFacts DEF Bookkeeping, Allocated
  <2>2. ASSUME NEW d \in Deliveries, UnhandledException(d)
        PROVE  \A e \in Deliveries : call'[e] = "none" <=> call[e] = "none"
    <3>1. place[to[d]] \in Silos
      BY <2>2 DEF UnhandledException, Bookkeeping, Placed
    <3> QED
      BY <2>1, <2>2, <3>1 DEF UnhandledException
  <2>3. ASSUME NEW s \in Silos, Crash(s) \/ Exit(s)
        PROVE  \A e \in Deliveries : call'[e] = "none" <=> call[e] = "none"
    BY <2>1, <2>3 DEF Crash, Exit
  <2>4. ASSUME NEW d \in Deliveries, ProcessMessage(d) \/ ProcessMessageEnds(d)
        PROVE  \A e \in Deliveries : call'[e] = "none" <=> call[e] = "none"
    BY <2>4 DEF ProcessMessage, ProcessMessageEnds
  <2>5. CASE call' = call
    BY <2>5
  <2> QED
    BY <2>2, <2>3, <2>4, <2>5
    DEF Next, vars, Publish, Start, StartFails, Join, Stop, Suspect, DetectDeath,
        LoseConnection, RecoverConnection, Received, Deliver, MessageActionThrows,
        CompleteAsync, AbandonAsync
<1>2. \A d \in Deliveries : call[d] # "none" => msg'[d] = msg[d]
  BY MessagesStay
<1> QED
  BY <1>1, <1>2 DEF Offered

\* The stages after a step, in terms of what the broker knows then.
LEMMA StageAfter ==
    ASSUME IInv', NEW m \in Messages
    PROVE  /\ StageOf(m)' = "unpublished" <=> m > published'
           /\ StageOf(m)' = "ready" <=> m \in ready'
           /\ StageOf(m)' = "taken" <=> \E d \in Deliveries : msg'[d] = m /\ tag'[d] = "held"
           /\ StageOf(m)' = "settled" <=> \E d \in Deliveries : msg'[d] = m /\ tag'[d] = "acked"
           /\ StageOf(m)' \in {"unpublished", "ready", "taken", "settled"}
<1> USE DEF TypeOK, StageOf, DeliveriesOf, IInv
<1>1. \A d \in Deliveries : tag'[d] \in {"held", "acked"} => msg'[d] \in 1..published'
  BY DEF Bookkeeping, Allocated
<1>2. CASE m > published'
  BY <1>1, <1>2 DEF Bookkeeping, Allocated
<1>3. CASE m <= published'
  <2>1. m \in ready' <=> \A d \in DeliveriesOf(m)' : ~Claims(d)'
    BY <1>3 DEF ExactlyOnePlace
  <2>2. \A d, e \in Deliveries : Claims(d)' /\ Claims(e)' /\ msg'[d] = msg'[e] => d = e
    BY DEF ExactlyOnePlace
  <2> QED
    BY <1>3, <2>1, <2>2 DEF Claims
<1> QED
  BY <1>2, <1>3

\* Each step of the listener is a step of the hand-off, or none.
LEMMA HandoffSimulation ==
    ASSUME IInv, IInv', [Next]_vars
    PROVE  Handoff!Next \/ (Stage' = Stage /\ Offered' = Offered)
<1> USE DEF IInv
<1> DEFINE Goal == Handoff!Next \/ (Stage' = Stage /\ Offered' = Offered)
<1>1. ASSUME NEW d \in Deliveries, MessageAction(d)
      PROVE  Goal
  <2>1. msg[d] \in 1..published /\ published \in 0..MaxMessages
    BY <1>1 DEF MessageAction, NextTask, Bookkeeping, Allocated, TypeOK
  <2>2. /\ UNCHANGED <<published, msg, tag>>
        /\ \E x \in {"pending", "lost"} : call' = [call EXCEPT ![d] = x]
    BY <1>1 DEF MessageAction, Issue, brokerVars, deliveryVars
  <2>3. Stage' = Stage
    BY <2>2 DEF Stage, StageOf, DeliveriesOf
  <2>4. Offered' = Offered \cup {msg[d]}
    BY <2>2 DEF Offered, TypeOK
  <2>5. PICK m \in Messages : m = msg[d]
    BY <2>1
  <2>6. Stage[m] # "unpublished"
    BY <2>1, <2>5, StageFacts DEF Stage
  <2>7. Handoff!Offer(m)
    BY <2>3, <2>4, <2>5, <2>6 DEF Handoff!Offer, Stage, Offered, Handoff!Messages
  <2> QED
    BY <2>7 DEF Handoff!Next, Handoff!Messages
<1>2. CASE Offered' = Offered
  <2>1. CASE Publish
    <3>1. PICK m \in Messages : m = published + 1
      BY <2>1 DEF Publish, TypeOK
    <3>2. published' = m /\ ready' = ready \cup {m} /\ UNCHANGED <<msg, tag>>
      BY <2>1, <3>1 DEF Publish, deliveryVars
    <3>3. Stage[m] = "unpublished" /\ \A k \in Messages : k < m => Stage[k] # "unpublished"
      BY <3>1, <3>2, StageFacts DEF Stage, TypeOK
    <3>4. Stage' = [Stage EXCEPT ![m] = "ready"]
      <4>1. StageOf(m)' = "ready"
        BY <3>1, <3>2, StageAfter
      <4>2. \A k \in Messages : k # m => StageOf(k)' = StageOf(k)
        BY <3>1, <3>2 DEF StageOf, DeliveriesOf, TypeOK
      <4> QED
        BY <4>1, <4>2 DEF Stage
    <3>5. Handoff!Publish(m)
      BY <1>2, <3>3, <3>4 DEF Handoff!Publish, Handoff!Messages, Stage, Offered
    <3> QED
      BY <3>5 DEF Handoff!Next, Handoff!Messages
  <2>2. ASSUME NEW h \in Hosts, Received(h)
        PROVE  Goal
    <3>1. PICK m \in ready : /\ ready' = ready \ {m}
                             /\ msg' = [msg EXCEPT ![delivered + 1] = m]
      BY <2>2, ReceivedFacts
    <3>2. /\ delivered + 1 \in Deliveries /\ published' = published
          /\ tag' = [tag EXCEPT ![delivered + 1] = "held"]
      BY <2>2, ReceivedFacts
    <3>3. m \in Messages
      BY <3>1 DEF TypeOK
    <3>4. tag[delivered + 1] = "unused"
      BY <3>2 DEF Bookkeeping, Allocated, TypeOK
    <3>5. Stage[m] = "ready"
      BY <3>1, <3>3, StageFacts DEF Stage
    <3>6. Stage' = [Stage EXCEPT ![m] = "taken"]
      <4>1. StageOf(m)' = "taken"
        BY <3>1, <3>2, <3>3, StageAfter DEF TypeOK
      <4>2. ASSUME NEW k \in Messages, k # m
            PROVE  StageOf(k)' = StageOf(k)
        <5>1. \A x : (\E d \in Deliveries : msg'[d] = k /\ tag'[d] = x /\ x \in {"held", "acked"})
                  <=> (\E d \in Deliveries : msg[d] = k /\ tag[d] = x /\ x \in {"held", "acked"})
          BY <3>1, <3>2, <3>4, <4>2 DEF TypeOK
        <5>2. /\ (\E d \in DeliveriesOf(k)' : tag'[d] = "acked")
                   <=> (\E d \in DeliveriesOf(k) : tag[d] = "acked")
              /\ (\E d \in DeliveriesOf(k)' : tag'[d] = "held")
                   <=> (\E d \in DeliveriesOf(k) : tag[d] = "held")
          BY <5>1 DEF DeliveriesOf
        <5> QED
          BY <3>2, <5>2 DEF StageOf
      <4> QED
        BY <3>3, <4>1, <4>2 DEF Stage
    <3>7. Handoff!Take(m)
      BY <1>2, <3>5, <3>6 DEF Handoff!Take, Handoff!Messages, Stage, Offered
    <3> QED
      BY <3>3, <3>7 DEF Handoff!Next, Handoff!Messages
  <2>3. ASSUME NEW S \in SUBSET Messages,
               \A m \in S : Stage[m] = "taken",
               \A m \in S : m \in ready',
               \A m \in Messages \ S : StageOf(m)' = StageOf(m)
        PROVE  Goal
    <3>1. \A m \in S : StageOf(m)' = "ready"
      BY <2>3, StageAfter
    <3>2. Stage' = [m \in Messages |-> IF m \in S THEN "ready" ELSE Stage[m]]
      BY <2>3, <3>1 DEF Stage
    <3>3. Handoff!Return(S)
      BY <1>2, <2>3, <3>2 DEF Handoff!Return, Handoff!Messages, Stage, Offered
    <3> QED
      BY <3>3 DEF Handoff!Next, Handoff!Messages
  <2>4. ASSUME NEW hs \in SUBSET Hosts, ReturnHeld(hs), UNCHANGED <<published, delivered, msg>>
        PROVE  Goal
    <3> DEFINE S == {m \in Messages :
                       \E d \in Deliveries : to[d] \in hs /\ tag[d] = "held" /\ msg[d] = m}
    <3>1. /\ \A d \in Deliveries : tag'[d] =
                IF to[d] \in hs /\ tag[d] = "held" THEN "returned" ELSE tag[d]
          /\ \A m : m \in ready' <=>
                m \in ready \/ \E d \in Deliveries :
                                  to[d] \in hs /\ tag[d] = "held" /\ msg[d] = m
      BY <2>4, ReturnHeldFacts DEF Bookkeeping, Allocated
    <3>2. \A m \in S : Stage[m] = "taken" /\ m \in ready'
      BY <3>1, StageFacts DEF Stage
    <3>3. \A m \in Messages \ S : StageOf(m)' = StageOf(m)
      BY <2>4, <3>1 DEF StageOf, DeliveriesOf
    <3> HIDE DEF S
    <3>4. S \in SUBSET Messages
      BY DEF S
    <3> QED
      BY <2>3, <3>2, <3>3, <3>4
  <2>5. ASSUME NEW d \in Deliveries, CompleteAsync(d)
        PROVE  Goal
    <3>1. UNCHANGED <<published, ready, msg>>
      BY <2>5, CompleteFacts
    <3>2. CASE link[to[d]] = "open" /\ tag[d] = "held"
      <4>1. tag'[d] = "acked" /\ \A e \in Deliveries : e # d => tag'[e] = tag[e]
        BY <2>5, <3>2, CompleteFacts
      <4>2. msg[d] \in Messages /\ call[d] # "none"
        BY <2>5 DEF CompleteAsync, ActionRan, Bookkeeping, Allocated, TypeOK
      <4>3. Stage[msg[d]] = "taken" /\ msg[d] \in Offered
        BY <3>2, <4>2, StageFacts DEF Stage, Offered
      <4>4. Stage' = [Stage EXCEPT ![msg[d]] = "settled"]
        <5>1. StageOf(msg[d])' = "settled"
          <6>1. \A m \in Messages : m = msg[d] => StageOf(m)' = "settled"
            BY <3>1, <4>1, StageAfter
          <6> QED
            BY <3>1, <4>2, <6>1
        <5>2. \A k \in Messages : k # msg[d] => StageOf(k)' = StageOf(k)
          BY <3>1, <4>1 DEF StageOf, DeliveriesOf
        <5> QED
          BY <3>1, <4>2, <5>1, <5>2 DEF Stage
      <4>5. Handoff!Settle(msg[d])
        BY <1>2, <4>3, <4>4 DEF Handoff!Settle, Handoff!Messages, Stage, Offered
      <4> QED
        BY <4>2, <4>5 DEF Handoff!Next, Handoff!Messages
    <3>3. CASE ~(link[to[d]] = "open" /\ tag[d] = "held")
      <4>1. \A e \in Deliveries : tag'[e] = tag[e]
        BY <2>5, <3>3, CompleteFacts
      <4> QED
        BY <1>2, <3>1, <4>1 DEF Stage, StageOf, DeliveriesOf
    <3> QED
      BY <3>2, <3>3
  <2>6. ASSUME NEW d \in Deliveries, AbandonAsync(d)
        PROVE  Goal
    <3>1. UNCHANGED <<published, msg>>
      BY <2>6 DEF AbandonAsync, deliveryVars
    <3>2. CASE link[to[d]] = "open" /\ tag[d] = "held"
      <4>1. /\ tag'[d] = "returned" /\ \A e \in Deliveries : e # d => tag'[e] = tag[e]
            /\ msg[d] \in ready'
        BY <2>6, <3>2, AbandonFacts DEF Bookkeeping, Allocated
      <4>2. msg[d] \in Messages
        BY <2>6 DEF AbandonAsync, Bookkeeping, Allocated, TypeOK
      <4>3. Stage[msg[d]] = "taken"
        BY <3>2, <4>2, StageFacts DEF Stage
      <4>4. \A k \in Messages \ {msg[d]} : StageOf(k)' = StageOf(k)
        BY <3>1, <4>1 DEF StageOf, DeliveriesOf
      <4> DEFINE S == {msg[d]}
      <4>5. /\ S \in SUBSET Messages
            /\ \A m \in S : Stage[m] = "taken" /\ m \in ready'
            /\ \A m \in Messages \ S : StageOf(m)' = StageOf(m)
        BY <4>1, <4>2, <4>3, <4>4
      <4> HIDE DEF S
      <4> QED
        BY <2>3, <4>5
    <3>3. CASE ~(link[to[d]] = "open" /\ tag[d] = "held")
      <4>1. \A e \in Deliveries : tag'[e] = tag[e]
        BY <2>6, <3>3, AbandonFacts DEF Bookkeeping, Allocated
      <4> QED
        BY <1>2, <3>1, <4>1 DEF Stage, StageOf, DeliveriesOf
    <3> QED
      BY <3>2, <3>3
  <2>7. CASE UNCHANGED <<published, ready, delivered, msg, tag>>
    BY <1>2, <2>7 DEF Stage, StageOf, DeliveriesOf
  <2> QED
    BY <2>1, <2>2, <2>4, <2>5, <2>6, <2>7, BrokerSteps
<1> QED
  BY <1>1, <1>2, OfferedStep

\* The listener keeps the promise MessageHandoff states: taken
\* messages come back or are settled, after the message action was given them.
THEOREM Implementation == Spec => ImplementsHandoff
<1>1. Init => Handoff!Init
  BY DEF Init, Handoff!Init, Handoff!Messages, StageOf
<1>2. IInv /\ IInv' /\ [Next]_vars => [Handoff!Next]_(Handoff!vars)
  BY HandoffSimulation DEF Handoff!vars, Stage, Offered
<1> QED
  BY Invariance, <1>1, <1>2, PTL DEF Spec, ImplementsHandoff, Handoff!Spec

===============================================================================
