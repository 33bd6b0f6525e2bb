------------------------ MODULE RabbitMqQueueListener ------------------------
(***************************************************************************)
(* One durable queue (MessageQueue or DataQueue), consumed by the          *)
(* RabbitMqQueueListener of every EventProcessorHostGrain, down to the     *)
(* EventProcessorGrain that works the messages off.                        *)
(*                                                                         *)
(* A silo that starts asks a host grain with a fresh key to start a        *)
(* listener; the runtime places that grain on any silo that runs.  Every   *)
(* delivery to a listener starts one run of the async Received handler.    *)
(* The handler awaits the message action, then acknowledges; a failure of  *)
(* either is answered with a nack and an exception out of an async void    *)
(* lambda.  The message action that the host grain passes in is            *)
(* Task.Factory.StartNew(() => processor.ProcessMessage(message)): the     *)
(* handler therefore waits until the grain call was ISSUED on the host     *)
(* grain's scheduler, never until the message was processed.               *)
(*                                                                         *)
(* Messages are numbered in the order they were published; in which order  *)
(* the broker hands them out is its affair, so the waiting messages are a  *)
(* set.  A silo that is wrongly declared dead goes on until it learns of   *)
(* it, and while it does the processor may be active on two silos.         *)
(***************************************************************************)
EXTENDS Naturals, FiniteSets

CONSTANTS
    Silos,          \* the silo processes
    NoSilo,         \* "the grain has no activation", "no call under way"
    MaxMessages,    \* bound: messages published
    MaxDeliveries,  \* bound: deliveries, redeliveries included
    MaxHosts,       \* bound: host grains, one for every start of a silo
    MaxFailures     \* bound: crashes, stops, suspicions, faults, lost connections

ASSUME ListenerAssumption ==
    /\ NoSilo \notin Silos
    /\ MaxMessages \in Nat
    /\ MaxDeliveries \in Nat
    /\ MaxHosts \in Nat
    /\ MaxFailures \in Nat

Messages   == 1..MaxMessages
Deliveries == 1..MaxDeliveries
Hosts      == 1..MaxHosts

VARIABLES
    published,   \* number of messages published so far
    ready,       \* the messages waiting in the queue
    delivered,   \* number of deliveries made so far
    msg,         \* delivery -> its message
    to,          \* delivery -> the host grain whose listener got it
    tag,         \* delivery -> what the broker knows of its delivery tag
    handler,     \* delivery -> where its run of the Received handler stands
    call,        \* delivery -> the ProcessMessage call it led to
    at,          \* delivery -> the silo that call was sent to, while it is open
    homes,       \* the silos taken to have an EventProcessorGrain activation
    silo,        \* silo -> the state of its process
    hosts,       \* number of host grains created so far
    place,       \* host grain -> the silo of its activation
    link,        \* host grain -> the RabbitMQ connection of its listener
    failures     \* failures that happened so far

brokerVars   == <<published, ready>>
deliveryVars == <<delivered, msg, to>>
grainVars    == <<call, at, homes>>
siloVars     == <<silo, hosts, place, link>>
vars == <<brokerVars, deliveryVars, tag, handler, grainVars, siloVars, failures>>

Tags     == {"unused", "held", "acked", "returned"}
Handlers == {"unused", "queued", "ignored", "issued", "done",
             "failed", "thrown", "dead"}
Links    == {"none", "open", "lost"}
Calls    == {"none", "pending", "running", "ended", "lost"}
Open     == {"pending", "running"}

Alive(s) == silo[s] # "down"
HostsOn(s) == {h \in Hosts : place[h] = s}

(***************************************************************************)
(* The broker and the life of a silo.                                      *)
(***************************************************************************)
Init ==
    /\ published = 0
    /\ ready = {}
    /\ delivered = 0
    /\ msg = [d \in Deliveries |-> 0]
    /\ to = [d \in Deliveries |-> 0]
    /\ tag = [d \in Deliveries |-> "unused"]
    /\ handler = [d \in Deliveries |-> "unused"]
    /\ call = [d \in Deliveries |-> "none"]
    /\ at = [d \in Deliveries |-> NoSilo]
    /\ homes = {}
    /\ silo = [s \in Silos |-> "down"]
    /\ hosts = 0
    /\ place = [h \in Hosts |-> NoSilo]
    /\ link = [h \in Hosts |-> "none"]
    /\ failures = 0

Publish ==
    /\ published < MaxMessages
    /\ published' = published + 1
    /\ ready' = ready \cup {published + 1}
    /\ UNCHANGED <<deliveryVars, tag, handler, grainVars, siloVars, failures>>

\* A silo joins, and its bootstrap provider creates a host grain somewhere.  An
\* activation that the silo had before is forgotten with its old incarnation.
Join(s, newLink) ==
    /\ silo[s] = "down"
    /\ hosts < MaxHosts
    /\ silo' = [silo EXCEPT ![s] = "up"]
    /\ hosts' = hosts + 1
    /\ \E p \in Silos : silo'[p] = "up" /\ place' = [place EXCEPT ![hosts + 1] = p]
    /\ link' = [link EXCEPT ![hosts + 1] = newLink]
    /\ homes' = homes \ {s}
    /\ UNCHANGED <<brokerVars, deliveryVars, tag, handler, call, at>>

Start(s) ==
    /\ Join(s, "open")
    /\ UNCHANGED failures

\* RabbitMQ refuses the connection, the declaration or the consumer: the host
\* grain logs the exception, and nobody asks it to start again.
StartFails(s) ==
    /\ failures < MaxFailures
    /\ failures' = failures + 1
    /\ Join(s, "none")

\* The broker takes back what the channels of these hosts still held.
ReturnHeld(hs) ==
    LET orphans == {d \in Deliveries : to[d] \in hs /\ tag[d] = "held"}
    IN  /\ tag' = [d \in Deliveries |-> IF d \in orphans THEN "returned" ELSE tag[d]]
        /\ ready' = ready \cup {msg[d] : d \in orphans}

\* The calls at the silo are lost, and so may be those in its outgoing queues.
LoseCalls(s) ==
    /\ \E unsent \in SUBSET {d \in Deliveries :
                                to[d] \in HostsOn(s) /\ call[d] = "pending"} :
          call' = [d \in Deliveries |-> IF d \in unsent \/ (at[d] = s /\ call[d] \in Open)
                                       THEN "lost" ELSE call[d]]
    /\ at' = [d \in Deliveries |-> IF call'[d] \in Open THEN at[d] ELSE NoSilo]
    /\ UNCHANGED homes

\* The process ends, with the host grains, handlers and activation in it.
Terminate(s) ==
    /\ Alive(s)
    /\ ReturnHeld(HostsOn(s))
    /\ LoseCalls(s)
    /\ silo' = [silo EXCEPT ![s] = "down"]
    /\ place' = [h \in Hosts |-> IF place[h] = s THEN NoSilo ELSE place[h]]
    /\ link' = [h \in Hosts |-> IF place[h] = s THEN "none" ELSE link[h]]
    /\ handler' = [d \in Deliveries |->
                     IF to[d] \in HostsOn(s) /\ handler[d] # "done"
                     THEN "dead" ELSE handler[d]]
    /\ UNCHANGED <<published, deliveryVars, hosts>>

Crash(s) ==
    /\ failures < MaxFailures
    /\ failures' = failures + 1
    /\ Terminate(s)

\* A graceful stop deactivates the host grains; their deactivation leaves the
\* listener attached, and tasks for the stopped schedulers are never run.
Stop(s) ==
    /\ failures < MaxFailures
    /\ failures' = failures + 1
    /\ silo[s] = "up"
    /\ silo' = [silo EXCEPT ![s] = "stopping"]
    /\ handler' = [d \in Deliveries |->
                     IF to[d] \in HostsOn(s) /\ handler[d] = "queued"
                     THEN "ignored" ELSE handler[d]]
    /\ UNCHANGED <<brokerVars, deliveryVars, tag, grainVars, hosts, place, link>>

\* The others declare a silo dead that runs: it works on, connected to RabbitMQ,
\* until it reads that it is dead and ends itself (Exit).
Suspect(s) ==
    /\ failures < MaxFailures
    /\ failures' = failures + 1
    /\ silo[s] = "up"
    /\ silo' = [silo EXCEPT ![s] = "suspected"]
    /\ UNCHANGED <<brokerVars, deliveryVars, tag, handler, grainVars, hosts, place, link>>

Exit(s) ==
    /\ silo[s] \in {"stopping", "suspected"}
    /\ Terminate(s)
    /\ UNCHANGED failures

\* The directory learns late that a silo is gone; calls sent until then are lost.
DetectDeath(s) ==
    /\ silo[s] = "down"
    /\ s \in homes
    /\ homes' = homes \ {s}
    /\ UNCHANGED <<brokerVars, deliveryVars, tag, handler, call, at, siloVars, failures>>

\* The broker redelivers while the handlers of the old deliveries go on.
LoseConnection(h) ==
    /\ failures < MaxFailures
    /\ failures' = failures + 1
    /\ link[h] = "open"
    /\ link' = [link EXCEPT ![h] = "lost"]
    /\ ReturnHeld({h})
    /\ UNCHANGED <<published, deliveryVars, handler, grainVars, silo, hosts, place>>

RecoverConnection(h) ==
    /\ link[h] = "lost"
    /\ link' = [link EXCEPT ![h] = "open"]
    /\ UNCHANGED <<brokerVars, deliveryVars, tag, handler, grainVars,
                   silo, hosts, place, failures>>

(***************************************************************************)
(* The Received handler, one action per stretch between two awaits.        *)
(***************************************************************************)

\* The handler runs up to its first await: the task is on the scheduler.
Deliver(h, m, newTag) ==
    /\ link[h] = "open"
    /\ delivered < MaxDeliveries
    /\ ready' = ready \ {m}
    /\ delivered' = delivered + 1
    /\ msg' = [msg EXCEPT ![delivered + 1] = m]
    /\ to' = [to EXCEPT ![delivered + 1] = h]
    /\ tag' = [tag EXCEPT ![delivered + 1] = newTag]
    /\ handler' = [handler EXCEPT ![delivered + 1] =
                     IF silo[place[h]] = "stopping" THEN "ignored" ELSE "queued"]
    /\ UNCHANGED <<published, grainVars, siloVars, failures>>

\* Mutant: BasicConsume with noAck = true.
ReceivedNoAck(h) == \E m \in ready : Deliver(h, m, "acked")

\* BasicConsume without noAck: the broker holds the message until the ack.
Received(h) == \E m \in ready : Deliver(h, m, "held")

\* The host grain's scheduler runs its tasks first in, first out.
NextTask(d) ==
    /\ handler[d] = "queued"
    /\ \A e \in Deliveries : to[e] = to[d] /\ handler[e] = "queued" => d <= e

Issue(d, s) ==
    /\ handler' = [handler EXCEPT ![d] = "issued"]
    /\ call' = [call EXCEPT ![d] = IF Alive(s) THEN "pending" ELSE "lost"]
    /\ at' = [at EXCEPT ![d] = IF Alive(s) THEN s ELSE NoSilo]
    /\ UNCHANGED <<brokerVars, deliveryVars, tag, siloVars, failures>>

\* Where the runtime may send a call of delivery d: to an activation it knows, or
\* to a new one when there is none or every one is on a silo declared dead.
Targets(d) ==
    IF \A s \in homes : silo[s] = "suspected"
    THEN homes \cup {s \in Silos : silo[s] = "up" \/ s = place[to[d]]}
    ELSE homes

\* Mutant: every call has a grain of its own, with a fresh Guid for a key.
MessageActionFreshGrain(d) ==
    /\ NextTask(d)
    /\ \E s \in Silos : silo[s] = "up" /\ Issue(d, s)
    /\ UNCHANGED homes

\* The lambda issues the call to the grain that has the queue's name for a key, and
\* returns: the awaited task is complete.
MessageAction(d) ==
    /\ NextTask(d)
    /\ \E s \in Targets(d) : Issue(d, s) /\ homes' = homes \cup {s}

MessageActionThrows(d) ==
    /\ failures < MaxFailures
    /\ failures' = failures + 1
    /\ NextTask(d)
    /\ handler' = [handler EXCEPT ![d] = "failed"]
    /\ UNCHANGED <<brokerVars, deliveryVars, tag, grainVars, siloVars>>

\* Mutant: a nack where the ack belongs.
CompleteAsyncNacks(d) ==
    /\ handler[d] = "issued"
    /\ handler' = [handler EXCEPT ![d] = "done"]
    /\ IF link[to[d]] = "open" /\ tag[d] = "held"
         THEN /\ tag' = [tag EXCEPT ![d] = "returned"]
              /\ ready' = ready \cup {msg[d]}
         ELSE UNCHANGED <<tag, ready>>
    /\ UNCHANGED <<published, deliveryVars, grainVars, siloVars, failures>>

\* BasicAck throws on a closed connection; on a recovered one the client
\* drops the tags of the deliveries made before it.
CompleteAsync(d) ==
    /\ handler[d] = "issued"
    /\ IF link[to[d]] = "open"
         THEN /\ handler' = [handler EXCEPT ![d] = "done"]
              /\ tag' = [tag EXCEPT ![d] = IF @ = "held" THEN "acked" ELSE @]
         ELSE /\ handler' = [handler EXCEPT ![d] = "failed"]
              /\ UNCHANGED tag
    /\ UNCHANGED <<brokerVars, deliveryVars, grainVars, siloVars, failures>>

\* Mutant: BasicNack without requeue.
AbandonAsyncDrops(d) ==
    /\ handler[d] = "failed"
    /\ handler' = [handler EXCEPT ![d] = "thrown"]
    /\ tag' = [tag EXCEPT ![d] = IF @ = "held" THEN "returned" ELSE @]
    /\ UNCHANGED <<brokerVars, deliveryVars, grainVars, siloVars, failures>>

\* Mutant: the tag of the next delivery is nacked.
AbandonAsyncWrongTag(d) ==
    /\ handler[d] = "failed"
    /\ handler' = [handler EXCEPT ![d] = "thrown"]
    /\ IF link[to[d]] = "open" /\ d < MaxDeliveries
         THEN /\ tag' = [tag EXCEPT ![d + 1] = "returned"]
              /\ ready' = ready \cup {msg[d + 1]}
         ELSE UNCHANGED <<tag, ready>>
    /\ UNCHANGED <<published, deliveryVars, grainVars, siloVars, failures>>

\* Mutant: the message is published again in place of a nack.
AbandonAsyncRepublishes(d) ==
    /\ handler[d] = "failed"
    /\ handler' = [handler EXCEPT ![d] = "thrown"]
    /\ tag' = [tag EXCEPT ![d] = IF link[to[d]] = "open" /\ @ = "held"
                                THEN "returned" ELSE @]
    /\ ready' = ready \cup {msg[d]}
    /\ UNCHANGED <<published, deliveryVars, grainVars, siloVars, failures>>

\* BasicNack with requeue; whether it works or throws, the handler throws.
AbandonAsync(d) ==
    /\ handler[d] = "failed"
    /\ handler' = [handler EXCEPT ![d] = "thrown"]
    /\ IF link[to[d]] = "open" /\ tag[d] = "held"
         THEN /\ tag' = [tag EXCEPT ![d] = "returned"]
              /\ ready' = ready \cup {msg[d]}
         ELSE UNCHANGED <<tag, ready>>
    /\ UNCHANGED <<published, deliveryVars, grainVars, siloVars, failures>>

\* The handler is an async void lambda: nobody catches its exception.
UnhandledException(d) ==
    /\ handler[d] = "thrown"
    /\ Terminate(place[to[d]])
    /\ UNCHANGED failures

(***************************************************************************)
(* The EventProcessorGrain: an activation takes one request at a time.     *)
(* Nobody awaits the ProcessMessage task, so a failed call ends like a     *)
(* good one.                                                               *)
(***************************************************************************)
ProcessMessage(d) ==
    /\ call[d] = "pending"
    /\ \A e \in Deliveries : call[e] = "running" => at[e] # at[d]
    /\ call' = [call EXCEPT ![d] = "running"]
    /\ UNCHANGED <<brokerVars, deliveryVars, tag, handler, at, homes, siloVars, failures>>

\* Mutant: the grain waits until its message is acknowledged.
ProcessMessageEndsAcked(d) ==
    /\ call[d] = "running"
    /\ tag[d] = "acked"
    /\ call' = [call EXCEPT ![d] = "ended"]
    /\ at' = [at EXCEPT ![d] = NoSilo]
    /\ UNCHANGED <<brokerVars, deliveryVars, tag, handler, homes, siloVars, failures>>

ProcessMessageEnds(d) ==
    /\ call[d] = "running"
    /\ call' = [call EXCEPT ![d] = "ended"]
    /\ at' = [at EXCEPT ![d] = NoSilo]
    /\ UNCHANGED <<brokerVars, deliveryVars, tag, handler, homes, siloVars, failures>>

Next ==
    \/ Publish
    \/ \E s \in Silos : \/ Start(s) \/ StartFails(s) \/ Crash(s) \/ Stop(s)
                        \/ Suspect(s) \/ Exit(s) \/ DetectDeath(s)
    \/ \E h \in Hosts : LoseConnection(h) \/ RecoverConnection(h) \/ Received(h)
    \/ \E d \in Deliveries :
          \/ MessageAction(d) \/ MessageActionThrows(d)
          \/ CompleteAsync(d) \/ AbandonAsync(d) \/ UnhandledException(d)
          \/ ProcessMessage(d) \/ ProcessMessageEnds(d)

Spec == Init /\ [][Next]_vars

\* Silos are restarted by their environment, a silo declared dead finds out, and
\* connections recover by themselves; the thread pool, the grain schedulers and the
\* broker run what is runnable.
Fairness ==
    /\ \A s \in Silos : WF_vars(Start(s)) /\ WF_vars(Exit(s))
    /\ \A h \in Hosts : WF_vars(RecoverConnection(h)) /\ WF_vars(Received(h))
    /\ \A d \in Deliveries : /\ WF_vars(MessageAction(d)) /\ WF_vars(CompleteAsync(d))
                             /\ WF_vars(AbandonAsync(d))
                             /\ WF_vars(UnhandledException(d))
                             /\ WF_vars(ProcessMessage(d))
                             /\ WF_vars(ProcessMessageEnds(d))

FairSpec == Spec /\ Fairness

(***************************************************************************)
(* Properties.                                                             *)
(***************************************************************************)
DeliveriesOf(m) == {d \in Deliveries : msg[d] = m}

\* The broker counts on delivery d to settle its message, or has settled it.
Claims(d) == tag[d] \in {"held", "acked"}

\* Every variable keeps its type: the broker's bookkeeping, the handlers, the
\* grain calls and the silos.
TypeOK ==
    /\ published \in 0..MaxMessages
    /\ ready \in SUBSET Messages
    /\ delivered \in 0..MaxDeliveries
    /\ msg \in [Deliveries -> 0..MaxMessages]
    /\ to \in [Deliveries -> 0..MaxHosts]
    /\ tag \in [Deliveries -> Tags]
    /\ handler \in [Deliveries -> Handlers]
    /\ call \in [Deliveries -> Calls]
    /\ at \in [Deliveries -> Silos \cup {NoSilo}]
    /\ homes \in SUBSET Silos
    /\ silo \in [Silos -> {"down", "up", "suspected", "stopping"}]
    /\ hosts \in 0..MaxHosts
    /\ place \in [Hosts -> Silos \cup {NoSilo}]
    /\ link \in [Hosts -> Links]
    /\ failures \in 0..MaxFailures

\* ProcessMessage awaits the message action before CompleteAsync: a message is
\* never settled for good before the EventProcessorGrain call for it was issued
\* by the very delivery that settles it.
SettledAfterHandoff ==
    \A d \in Deliveries : tag[d] = "acked" => call[d] # "none"

\* Between acks, nacks, lost connections and dying silos a published message is
\* neither dropped nor doubled: it waits in the queue exactly when no delivery
\* claims it, and two deliveries never claim it together.
ExactlyOnePlace ==
    /\ \A m \in 1..published :
          m \in ready <=> \A d \in DeliveriesOf(m) : ~Claims(d)
    /\ \A d, e \in Deliveries : Claims(d) /\ Claims(e) /\ msg[d] = msg[e] => d = e

\* Duplicates come only from failures: until the first one every message is
\* delivered once, no handler has failed and no grain call is lost.
FailureFreeExactlyOnce ==
    failures = 0 =>
        /\ \A d, e \in 1..delivered : msg[d] = msg[e] => d = e
        /\ \A d \in Deliveries : handler[d] \notin {"failed", "thrown", "dead"}
                                 /\ call[d] # "lost"

\* A failure can cost a message one redelivery when it happens, and one more
\* when its aftermath takes the silo down; it is never called more often.
DuplicatesBounded ==
    \A m \in Messages :
        Cardinality({d \in DeliveriesOf(m) : call[d] # "none"}) <= 1 + 2 * failures

\* GetGrain is given the name of the queue, so redeliveries of a message meet in one
\* EventProcessorGrain: no two calls work on it at the same time unless a second
\* failure gave it a second activation.
NeverTwiceAtOnce ==
    failures < 2 =>
        \A d, e \in Deliveries :
            call[d] = "running" /\ call[e] = "running" /\ msg[d] = msg[e] => d = e

\* Every message published is settled in the end, however it was handed around
\* by failing silos, unless no listener is left for good: a silo starts its host
\* grain once, possibly on another silo, and a start that failed is not repeated.
\* What was published stays so, and so does what is settled.
EveryMessageSettled ==
    \/ []<>(\A m \in 1..published : \E d \in Deliveries : msg[d] = m /\ tag[d] = "acked")
    \/ <>[](\A h \in Hosts : link[h] = "none")

\* Every grain call that was issued ends: it is worked off, well or badly, or is lost
\* with a silo.  A call that has ended does not begin again.
EveryCallEnds ==
    \A d \in Deliveries : []<>(call[d] \in {"none", "ended", "lost"})

(***************************************************************************)
(* Refinement: what the listener promises about each message.              *)
(***************************************************************************)
StageOf(m) ==
    IF m > published THEN "unpublished"
    ELSE IF \E d \in DeliveriesOf(m) : tag[d] = "acked" THEN "settled"
    ELSE IF \E d \in DeliveriesOf(m) : tag[d] = "held" THEN "taken"
    ELSE "ready"

Handoff == INSTANCE MessageHandoff WITH
    stage <- [m \in Messages |-> StageOf(m)],
    offered <- {msg[d] : d \in {c \in Deliveries : call[c] # "none"}}

\* The listener implements the hand-off it promises.
ImplementsHandoff == Handoff!Spec

===============================================================================
