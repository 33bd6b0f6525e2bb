---------------------------- MODULE CommandListener ----------------------------
(***************************************************************************)
(* The CommandListenerGrain "CommandListener": it turns start messages of  *)
(* device pages into listeners on the devices' command queues, and keeps   *)
(* the devices in the blob behind AzureBlobStorage.                        *)
(*                                                                         *)
(* DeviceMappings maps every device to null, because the queue name is     *)
(* computed only after TryAdd: the mappings are a set of devices, and the  *)
(* guard string.IsNullOrEmpty(queueName) never keeps a device from being   *)
(* started again.  Listeners live in the silo of the activation that       *)
(* started them; a new activation starts none.  Nobody calls               *)
(* SubscribeForNewDevice.                                                  *)
(***************************************************************************)
EXTENDS AzureBlobStorage

CONSTANTS
    Devices,        \* the device pages
    None,           \* neither a device nor an activation
    MaxStarts       \* bound: start messages

NoMappings == {None}    \* DeviceMappings = null

ASSUME ListenerAssumption ==
    /\ MaxStarts \in Nat
    /\ None \notin Devices \cup Activations
    /\ EmptyState = [initialized |-> FALSE, mappings |-> NoMappings]

VARIABLES
    starts,         \* number of start messages sent so far
    pending,        \* devices with a start message waiting for the grain
    placed,         \* the activation that the grain directory knows, or None
    pc,             \* activation -> where its current call stands
    current,        \* activation -> the device of that call
    announced,      \* the devices NotifyNewDevice was called for
    listeners       \* activation -> device -> number of its listeners

callVars == <<starts, pending, placed, pc, current, announced, listeners>>
vars == <<storageVars, failures, callVars>>

Steps == {"none", "loaded", "idle", "mapping", "saving", "starting"}

Init ==
    /\ StorageInit
    /\ starts = 0
    /\ pending = {}
    /\ placed = None
    /\ pc = [a \in Activations |-> "none"]
    /\ current = [a \in Activations |-> None]
    /\ announced = {}
    /\ listeners = [a \in Activations |-> [d \in Devices |-> 0]]

Step(a, from, next) ==
    /\ pc[a] = from
    /\ pc' = [pc EXCEPT ![a] = next]

CallEnds(a) ==
    /\ Step(a, pc[a], "idle")
    /\ current' = [current EXCEPT ![a] = None]

SendStart(d) ==
    /\ starts < MaxStarts
    /\ starts' = starts + 1
    /\ d \notin pending
    /\ pending' = pending \cup {d}
    /\ UNCHANGED <<placed, pc, current, announced, listeners, storageVars, failures>>

\* A call or the reminder has the runtime activate the grain: the state is read
\* before OnActivateAsync is called.
Activate(a) ==
    /\ placed = None
    /\ placed' = a
    /\ Step(a, "none", "loaded")
    /\ ReadStateAsync(a)
    /\ UNCHANGED <<starts, pending, current, announced, listeners>>

\* The silo of the activation is wrongly taken for dead, and the activation
\* lives on for a while.
Suspect(a) ==
    /\ Fail
    /\ placed = a
    /\ placed' = None
    /\ UNCHANGED <<starts, pending, pc, current, announced, listeners, storageVars>>

\* Mutant: the flag is set, the dictionary is not created.
OnActivateNoMappings(a) ==
    /\ Step(a, "loaded", "idle")
    /\ WriteStateAsync(a, [state[a] EXCEPT !.initialized = TRUE])
    /\ UNCHANGED <<starts, pending, placed, current, announced, listeners>>

\* An initialized state is written back as it is.
OnActivateAsync(a) ==
    /\ Step(a, "loaded", "idle")
    /\ WriteStateAsync(a,
          [initialized |-> TRUE,
           mappings |-> IF state[a].initialized \/ state[a].mappings # NoMappings
                          THEN state[a].mappings ELSE {}])
    /\ UNCHANGED <<starts, pending, placed, current, announced, listeners>>

StartCommandProcessorHost(a, d) ==
    /\ Step(a, "idle", "mapping")
    /\ d \in pending
    /\ pending' = pending \ {d}
    /\ current' = [current EXCEPT ![a] = d]
    /\ ReadStateAsync(a)
    /\ UNCHANGED <<starts, placed, announced, listeners>>

TryAdd(a) ==
    state' = [state EXCEPT ![a] = [initialized |-> @.initialized,
                                   mappings |-> @.mappings \cup {current[a]}]]

\* Mutant: a device in the mappings is not started again.
NotifyNewDeviceOnce(a) ==
    /\ pc[a] = "mapping"
    /\ IF current[a] \in state[a].mappings
         THEN CallEnds(a) /\ UNCHANGED <<state, announced>>
         ELSE /\ Step(a, "mapping", "saving")
              /\ TryAdd(a)
              /\ announced' = announced \cup {current[a]}
              /\ UNCHANGED current
    /\ UNCHANGED <<starts, pending, placed, listeners, container, blob, versions, etag,
                   failures>>

NotifyNewDevice(a) ==
    /\ Step(a, "mapping", "saving")
    /\ TryAdd(a)
    /\ announced' = announced \cup {current[a]}
    /\ UNCHANGED <<starts, pending, placed, current, listeners, container, blob, versions,
                   etag, failures>>

\* Mutant: the call goes on when the push hub could not be told.
NotifyNewDeviceFailsUnnoticed(a) ==
    /\ Fail
    /\ Step(a, "mapping", "saving")
    /\ TryAdd(a)
    /\ UNCHANGED <<starts, pending, placed, current, announced, listeners, container, blob,
                   versions, etag>>

\* The exception ends the call, the added device stays in State.
NotifyNewDeviceFails(a) ==
    /\ Fail
    /\ pc[a] = "mapping"
    /\ CallEnds(a)
    /\ TryAdd(a)
    /\ announced' \in {announced, announced \cup {current[a]}}
    /\ UNCHANGED <<starts, pending, placed, listeners, container, blob, versions, etag>>

\* Mutant: the mappings are not written.
SaveNothing(a) ==
    /\ Step(a, "saving", "starting")
    /\ UNCHANGED <<starts, pending, placed, current, announced, listeners, storageVars,
                   failures>>

SaveMappings(a) ==
    /\ Step(a, "saving", "starting")
    /\ WriteStateAsync(a, state[a])
    /\ UNCHANGED <<starts, pending, placed, current, announced, listeners>>

StartListener(a) ==
    /\ pc[a] = "starting"
    /\ CallEnds(a)
    /\ listeners' = [listeners EXCEPT ![a][current[a]] = @ + 1]
    /\ UNCHANGED <<starts, pending, placed, announced, storageVars, failures>>

\* The exception is logged, and the start message is gone.
StartListenerFails(a) ==
    /\ Fail
    /\ pc[a] = "starting"
    /\ CallEnds(a)
    /\ UNCHANGED <<starts, pending, placed, announced, listeners, storageVars>>

\* The silo dies, with the activation, its call and its listeners.
Crash(a) ==
    /\ Fail
    /\ pc[a] # "none"
    /\ Step(a, pc[a], "none")
    /\ placed' = IF placed = a THEN None ELSE placed
    /\ current' = [current EXCEPT ![a] = None]
    /\ listeners' = [listeners EXCEPT ![a] = [d \in Devices |-> 0]]
    /\ state' = [state EXCEPT ![a] = EmptyState]
    /\ etag' = [etag EXCEPT ![a] = NoEtag]
    /\ UNCHANGED <<starts, pending, announced, container, blob, versions>>

Next ==
    \/ ContainerDeleted /\ UNCHANGED callVars
    \/ \E d \in Devices : SendStart(d)
    \/ \E a \in Activations :
          \/ Activate(a) \/ Suspect(a) \/ OnActivateAsync(a)
          \/ \E d \in Devices : StartCommandProcessorHost(a, d)
          \/ NotifyNewDevice(a) \/ NotifyNewDeviceFails(a) \/ SaveMappings(a)
          \/ StartListener(a) \/ StartListenerFails(a) \/ Crash(a)

Spec == Init /\ [][Next]_vars

\* A start message activates the grain; its turns and awaits are run to the end,
\* and the requests of one grain are taken in turn.
Fairness ==
    /\ WF_vars(\E a \in Activations : Activate(a))
    /\ \A a \in Activations :
          /\ WF_vars(OnActivateAsync(a)) /\ WF_vars(NotifyNewDevice(a))
          /\ WF_vars(SaveMappings(a)) /\ WF_vars(StartListener(a))
          /\ \A d \in Devices : SF_vars(StartCommandProcessorHost(a, d))

FairSpec == Spec /\ Fairness

(***************************************************************************)
(* Properties.                                                             *)
(***************************************************************************)
States == {EmptyState} \cup [initialized : {TRUE}, mappings : SUBSET Devices]

Persisted(d) == blob.etag # NoEtag /\ d \in blob.data.mappings

\* Every variable keeps its type; ETags are versions that were written.
TypeOK ==
    /\ container \in BOOLEAN
    /\ versions \in 0..MaxVersions
    /\ blob = NoBlob \/ blob \in [etag : 1..versions, data : States \ {EmptyState}]
    /\ state \in [Activations -> States]
    /\ etag \in [Activations -> 0..versions]
    /\ failures \in 0..MaxFailures
    /\ starts \in 0..MaxStarts
    /\ pending \in SUBSET Devices
    /\ placed \in Activations \cup {None}
    /\ pc \in [Activations -> Steps]
    /\ current \in [Activations -> Devices \cup {None}]
    /\ announced \in SUBSET Devices
    /\ listeners \in [Activations -> [Devices -> Nat]]

\* However the activation came by its state, from a blob, from nothing or from a
\* read that failed, StartCommandProcessorHost finds a dictionary in it.
MappingsThere ==
    \A a \in Activations : pc[a] \notin {"none", "loaded"} =>
        state[a].mappings # NoMappings

\* An activation whose ETag is that of the blob knows every device in the blob,
\* so a write under an ETag never drops a device that another activation saved.
\* Devices are lost only with the container, or by a write of an activation whose
\* ETag is null, because a write or the read at its activation failed.
OnlyBlindWritesForget ==
    [][\A d \in Devices : Persisted(d) /\ ~Persisted(d)' =>
           \/ container /\ ~container'
           \/ \E a \in Activations : /\ pc[a] \in {"loaded", "saving"}
                                     /\ pc'[a] # pc[a]
                                     /\ etag[a] = NoEtag]_vars

\* Until something fails, every device with a listener is in the blob.
ListeningIsPersisted ==
    failures = 0 =>
        \A a \in Activations, d \in Devices : listeners[a][d] > 0 => Persisted(d)

\* The push hub was told of every device in the blob.  An announcement that fails
\* leaves its device in State, and it takes a second failure, of the next read,
\* for State to be written with it.
PersistedWasAnnounced ==
    failures < 2 => \A d \in Devices : Persisted(d) => d \in announced

\* A start message leads to a listener for its device unless something fails after
\* it was sent.  A device that was started before, and is in the blob, gets its
\* listener back after a crash.
EveryStartListened ==
    \A d \in Devices, before \in 0..MaxFailures :
        (d \in pending /\ failures = before) ~>
            \/ failures > before
            \/ \E a \in Activations : listeners[a][d] > 0

===============================================================================
