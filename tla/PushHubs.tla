-------------------------------- MODULE PushHubs --------------------------------
(***************************************************************************)
(* The tables of hub connections of MessagePushGrain and PushNotifierGrain. *)
(*                                                                         *)
(* Both grains are reentrant stateless workers: the runtime activates as   *)
(* many as it likes, and each keeps a table of its own from the address of *)
(* a web role instance to a SignalR connection.  A worker fills the table  *)
(* when it is activated and compares it with the role's instances every    *)
(* minute; on a developer's machine there is one fixed address and no      *)
(* timer.  A message goes to every connection of the one worker that takes *)
(* it, if that is connected; otherwise the message is dropped for that hub *)
(* and the connection is started, which nobody waits for.                  *)
(*                                                                         *)
(* NotifyNewDevice and the SendMessage of PushNotifierGrain differ only in *)
(* what they invoke.  A connection that is left behind, by a refresh, a    *)
(* failed activation or a worker that is gone, stays open unused.          *)
(***************************************************************************)
EXTENDS Naturals

CONSTANTS
    Workers,        \* activations of the grain, on any silo
    Hubs,           \* addresses of instances of the web role
    LocalHub,       \* the address on a developer's machine
    Messages,
    MaxFailures,    \* bound: everything that goes wrong
    MaxChanges      \* bound: changes of the list of instances

ASSUME PushAssumption ==
    /\ LocalHub \in Hubs
    /\ MaxFailures \in Nat
    /\ MaxChanges \in Nat

VARIABLES
    azure,          \* AzureEnvironment.IsInAzure
    instances,      \* what RoleEnvironment lists, or the one local hub
    serving,        \* the hubs whose web process answers
    changes,        \* changes of instances so far
    pc,             \* worker -> where its activation or its refresh stands
    seen,           \* worker -> addresses in its last refresh
    adding,         \* worker -> its AddHub calls that await Start
    refused,        \* worker -> AddHub calls of its last refresh that threw
    hubs,           \* worker -> the keys of its table
    conn,           \* worker -> hub -> state of the connection
    pending,        \* messages that wait for a worker
    inflight,       \* <<worker, hub, message>>: invocations on their way
    copies,         \* message -> hub -> invocations since it was published
    repeats,        \* message -> how often it was delivered again
    failures        \* failures so far

roleVars   == <<azure, instances, serving, changes>>
workerVars == <<pc, seen, adding, refused, hubs>>
pushVars   == <<pending, inflight, copies, repeats>>
vars == <<roleVars, workerVars, conn, pushVars, failures>>

States == {"none", "connecting", "connected", "reconnecting", "disconnected"}
Ready  == {"idle", "refreshing"}

Init ==
    /\ azure \in BOOLEAN
    /\ IF azure THEN instances \in SUBSET Hubs ELSE instances = {LocalHub}
    /\ serving \in SUBSET instances
    /\ changes = 0
    /\ pc = [w \in Workers |-> "none"]
    /\ seen = [w \in Workers |-> {}]
    /\ adding = [w \in Workers |-> {}]
    /\ refused = [w \in Workers |-> {}]
    /\ hubs = [w \in Workers |-> {}]
    /\ conn = [w \in Workers |-> [h \in Hubs |-> "none"]]
    /\ pending = {}
    /\ inflight = {}
    /\ copies = [m \in Messages |-> [h \in Hubs |-> 0]]
    /\ repeats = [m \in Messages |-> 0]
    /\ failures = 0

Fail ==
    /\ failures < MaxFailures
    /\ failures' = failures + 1

(***************************************************************************)
(* The web role.                                                           *)
(***************************************************************************)

Change ==
    /\ azure
    /\ changes < MaxChanges
    /\ changes' = changes + 1
    /\ UNCHANGED <<azure, workerVars, conn, pushVars, failures>>

AddInstance(h) ==
    /\ Change
    /\ h \notin instances
    /\ instances' = instances \cup {h}
    /\ UNCHANGED serving

RemoveInstance(h) ==
    /\ Change
    /\ h \in instances
    /\ instances' = instances \ {h}
    /\ UNCHANGED serving

HubUp(h) ==
    /\ h \in instances \ serving
    /\ serving' = serving \cup {h}
    /\ UNCHANGED <<azure, instances, changes, workerVars, conn, pushVars, failures>>

HubDown(h) ==
    /\ h \in serving
    /\ IF h \in instances THEN Fail ELSE UNCHANGED failures
    /\ serving' = serving \ {h}
    /\ UNCHANGED <<azure, instances, changes, workerVars, conn, pushVars>>

(***************************************************************************)
(* RefreshHubs and AddHub.                                                 *)
(***************************************************************************)

\* Mutant: dead hubs stay in the table.
RefreshKeepsDead(w, addresses) ==
    /\ seen' = [seen EXCEPT ![w] = addresses]
    /\ adding' = [adding EXCEPT ![w] = addresses \ hubs[w]]
    /\ refused' = [refused EXCEPT ![w] = {}]
    /\ conn' = [conn EXCEPT ![w] = [h \in Hubs |->
                    IF h \in addresses \ hubs[w] THEN "connecting" ELSE @[h]]]
    /\ UNCHANGED hubs

\* Up to the await: dead hubs are forgotten, new ones are being connected.
RefreshHubs(w, addresses) ==
    /\ seen' = [seen EXCEPT ![w] = addresses]
    /\ adding' = [adding EXCEPT ![w] = addresses \ hubs[w]]
    /\ refused' = [refused EXCEPT ![w] = {}]
    /\ hubs' = [hubs EXCEPT ![w] = @ \cap addresses]
    /\ conn' = [conn EXCEPT ![w] = [h \in Hubs |->
                    IF h \in addresses \ hubs[w] THEN "connecting"
                    ELSE IF h \in addresses THEN @[h] ELSE "none"]]

\* A call has the runtime activate a worker.  Outside of Azure it connects to the
\* one local hub instead.
OnActivateAsync(w) ==
    /\ pc[w] = "none"
    /\ pending # {}
    /\ pc' = [pc EXCEPT ![w] = "activating"]
    /\ RefreshHubs(w, IF azure THEN instances ELSE {LocalHub})
    /\ UNCHANGED <<roleVars, pushVars, failures>>

\* The timer: the runtime does not run it again before it has returned.
RefreshTimer(w) ==
    /\ azure
    /\ pc[w] = "idle"
    /\ pc' = [pc EXCEPT ![w] = "refreshing"]
    /\ RefreshHubs(w, instances)
    /\ UNCHANGED <<roleVars, pushVars, failures>>

AddHub(w, h) ==
    /\ h \in adding[w]
    /\ h \in serving
    /\ conn[w][h] = "connecting"
    /\ adding' = [adding EXCEPT ![w] = @ \ {h}]
    /\ hubs' = [hubs EXCEPT ![w] = @ \cup {h}]
    /\ conn' = [conn EXCEPT ![w][h] = "connected"]
    /\ UNCHANGED <<roleVars, pc, seen, refused, pushVars, failures>>

AddHubThrows(w, h) ==
    /\ h \in adding[w]
    /\ IF h \in serving THEN Fail ELSE UNCHANGED failures
    /\ adding' = [adding EXCEPT ![w] = @ \ {h}]
    /\ refused' = [refused EXCEPT ![w] = @ \cup {h}]
    /\ conn' = [conn EXCEPT ![w][h] = "none"]
    /\ UNCHANGED <<roleVars, pc, seen, hubs, pushVars>>

Forget(w) ==
    /\ pc' = [pc EXCEPT ![w] = "none"]
    /\ seen' = [seen EXCEPT ![w] = {}]
    /\ adding' = [adding EXCEPT ![w] = {}]
    /\ refused' = [refused EXCEPT ![w] = {}]
    /\ hubs' = [hubs EXCEPT ![w] = {}]
    /\ conn' = [conn EXCEPT ![w] = [h \in Hubs |-> "none"]]

\* Mutant: a timer whose refresh threw is not run again.
WhenAllOnce(w) ==
    /\ pc[w] \in {"activating", "refreshing"}
    /\ adding[w] = {}
    /\ pc' = [pc EXCEPT ![w] = IF refused[w] = {} THEN "idle" ELSE "refreshing"]
    /\ UNCHANGED <<seen, adding, refused, hubs, conn, roleVars, pushVars, failures>>

\* WhenAll throws when one AddHub did.  That is the end of an activation, and of
\* the calls that wait for it; a timer is run again after its period all the same.
WhenAll(w) ==
    /\ pc[w] \in {"activating", "refreshing"}
    /\ adding[w] = {}
    /\ IF pc[w] = "activating" /\ refused[w] # {}
         THEN Forget(w) /\ pending' \in SUBSET pending
         ELSE /\ pc' = [pc EXCEPT ![w] = "idle"]
              /\ UNCHANGED <<seen, adding, refused, hubs, conn, pending>>
    /\ UNCHANGED <<roleVars, inflight, copies, repeats, failures>>

\* Its silo dies, or the runtime collects it.
Gone(w) ==
    /\ Fail
    /\ pc[w] # "none"
    /\ Forget(w)
    /\ pending' \in SUBSET pending
    /\ UNCHANGED <<roleVars, inflight, copies, repeats>>

(***************************************************************************)
(* The life of a connection in a table.                                    *)
(***************************************************************************)

Becomes(w, h, from, next) ==
    /\ h \in hubs[w]
    /\ conn[w][h] \in from
    /\ conn' = [conn EXCEPT ![w][h] = next]
    /\ UNCHANGED <<roleVars, workerVars, pushVars>>

Drop(w, h) ==
    /\ IF h \in serving THEN Fail ELSE UNCHANGED failures
    /\ Becomes(w, h, {"connected"}, "reconnecting")

\* Reconnecting, or the Start that a message called for.
Connect(w, h) ==
    /\ h \in serving
    /\ Becomes(w, h, {"reconnecting", "connecting"}, "connected")
    /\ UNCHANGED failures

\* The disconnect timeout, or a Start that fails: nobody observes its task.
Disconnect(w, h) ==
    /\ IF h \in serving THEN Fail ELSE UNCHANGED failures
    /\ Becomes(w, h, {"reconnecting", "connecting"}, "disconnected")

(***************************************************************************)
(* Messages.                                                               *)
(***************************************************************************)

\* Messages are few; one is used again when nothing of it is left.
Publish(m) ==
    /\ m \notin pending
    /\ \A i \in inflight : i[3] # m
    /\ pending' = pending \cup {m}
    /\ copies' = [copies EXCEPT ![m] = [h \in Hubs |-> 0]]
    /\ repeats' = [repeats EXCEPT ![m] = 0]
    /\ UNCHANGED <<inflight, roleVars, workerVars, conn, failures>>

Connected(w) == {h \in hubs[w] : conn[w][h] = "connected"}

\* The loop over hubs.Values.  A connection that breaks between the look at its
\* State and Invoke ends in the catch: that is an invocation that is lost.
ForEachHub(w, m) ==
    /\ inflight' = inflight \cup {<<w, h, m>> : h \in Connected(w)}
    /\ copies' = [copies EXCEPT ![m] = [h \in Hubs |->
                      @[h] + (IF h \in Connected(w) THEN 1 ELSE 0)]]
    /\ conn' = [conn EXCEPT ![w] = [h \in Hubs |->
                    IF h \in hubs[w] /\ @[h] = "disconnected" THEN "connecting" ELSE @[h]]]

\* Mutant: a message that found a hub not connected is sent again.
SendUntilConnected(w, m) ==
    /\ pc[w] \in Ready
    /\ m \in pending
    /\ pending' = IF Connected(w) = hubs[w] THEN pending \ {m} ELSE pending
    /\ ForEachHub(w, m)
    /\ UNCHANGED <<repeats, failures, roleVars, workerVars>>

\* Mutant: a hub that is not connected is left alone.
SendToConnected(w, m) ==
    /\ pc[w] \in Ready
    /\ m \in pending
    /\ pending' = pending \ {m}
    /\ inflight' = inflight \cup {<<w, h, m>> : h \in Connected(w)}
    /\ copies' = [copies EXCEPT ![m] = [h \in Hubs |->
                      @[h] + (IF h \in Connected(w) THEN 1 ELSE 0)]]
    /\ UNCHANGED <<repeats, failures, conn, roleVars, workerVars>>

\* Also while a refresh of the worker awaits its connections.
SendMessage(w, m) ==
    /\ pc[w] \in Ready
    /\ m \in pending
    /\ \/ pending' = pending \ {m} /\ UNCHANGED <<repeats, failures>>
       \/ /\ Fail                             \* the queue delivers it again
          /\ repeats' = [repeats EXCEPT ![m] = @ + 1]
          /\ UNCHANGED pending
    /\ ForEachHub(w, m)
    /\ UNCHANGED <<roleVars, workerVars>>

\* The hub runs the method, or the invocation goes down with its connection.
HubMethod(i) ==
    /\ i \in inflight
    /\ inflight' = inflight \ {i}
    /\ UNCHANGED <<pending, copies, repeats, roleVars, workerVars, conn, failures>>

Next ==
    \/ \E h \in Hubs : AddInstance(h) \/ RemoveInstance(h) \/ HubUp(h) \/ HubDown(h)
    \/ \E w \in Workers :
          \/ OnActivateAsync(w) \/ RefreshTimer(w) \/ WhenAll(w) \/ Gone(w)
          \/ \E h \in Hubs : \/ AddHub(w, h) \/ AddHubThrows(w, h)
                             \/ Drop(w, h) \/ Connect(w, h) \/ Disconnect(w, h)
          \/ \E m \in Messages : SendMessage(w, m)
    \/ \E m \in Messages : Publish(m)
    \/ \E i \in inflight : HubMethod(i)

Spec == Init /\ [][Next]_vars

\* Timers are run, connections are made, given up or refused in the end, and a call
\* gets a worker.  Nobody has to publish, and no instance has to come up.
Fairness ==
    /\ \A m \in Messages : WF_vars(\E w \in Workers : SendMessage(w, m))
    /\ \A w \in Workers, h \in Hubs, m \in Messages : WF_vars(HubMethod(<<w, h, m>>))
    /\ WF_vars(\E w \in Workers : OnActivateAsync(w))
    /\ \A w \in Workers :
          /\ WF_vars(RefreshTimer(w)) /\ WF_vars(WhenAll(w))
          /\ \A h \in Hubs :
                /\ WF_vars(AddHub(w, h)) /\ WF_vars(AddHubThrows(w, h))
                /\ WF_vars(Connect(w, h)) /\ WF_vars(Disconnect(w, h))

FairSpec == Spec /\ Fairness

(***************************************************************************)
(* Properties.                                                             *)
(***************************************************************************)

\* Every variable keeps its type.
TypeOK ==
    /\ azure \in BOOLEAN
    /\ instances \in SUBSET Hubs
    /\ serving \in SUBSET Hubs
    /\ changes \in 0..MaxChanges
    /\ pc \in [Workers -> {"none", "activating", "idle", "refreshing"}]
    /\ seen \in [Workers -> SUBSET Hubs]
    /\ adding \in [Workers -> SUBSET Hubs]
    /\ refused \in [Workers -> SUBSET Hubs]
    /\ hubs \in [Workers -> SUBSET Hubs]
    /\ conn \in [Workers -> [Hubs -> States]]
    /\ pending \in SUBSET Messages
    /\ inflight \in SUBSET (Workers \X Hubs \X Messages)
    /\ copies \in [Messages -> [Hubs -> Nat]]
    /\ repeats \in [Messages -> Nat]
    /\ failures \in 0..MaxFailures

\* A refresh leaves a table of the addresses it saw, all of them but those that
\* could not be connected, and none else; a worker that was just activated has all
\* of them.  In between no address gets lost, and none whose AddHub is under way gets
\* into the table, whatever messages and broken connections come: hubs.Add, which
\* throws on a key that is there, never does.
TableIsLastRefresh ==
    \A w \in Workers :
        /\ hubs[w] \cup adding[w] = seen[w] \ refused[w]
        /\ hubs[w] \cap adding[w] = {}
        /\ pc[w] = "idle" => adding[w] = {}

\* A hub gets a message no more often than the queue delivers it, whichever workers
\* take it and whatever their connections and refreshes do.
OncePerDelivery ==
    \A m \in Messages, h \in Hubs : copies[m][h] <= 1 + repeats[m]

\* However many hubs could not be connected on the way, an instance that stays and
\* serves ends up in the table of every worker that stays, and one that is gone for
\* good is in none.
TablesConverge ==
    azure => \A w \in Workers, h \in Hubs :
        /\ <>[](h \in instances \cap serving) => <>[](pc[w] \in Ready => h \in hubs[w])
        /\ <>[](h \notin instances) => <>[](h \notin hubs[w])

\* A hub that serves is connected again in the end, if messages keep coming: a
\* refresh does not do it, the messages that find it disconnected do.
MessagesWakeHubs ==
    \A w \in Workers, h \in Hubs :
        /\ <>[](h \in serving /\ h \in hubs[w])
        /\ []<><<\E m \in Messages : SendMessage(w, m)>>_vars
        => <>[](conn[w][h] = "connected")

===============================================================================
