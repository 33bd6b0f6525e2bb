------------------------ MODULE CommandListener_proofs ------------------------
(***************************************************************************)
(* Proofs about CommandListener for any number of activations, devices,    *)
(* start messages and failures.                                            *)
(***************************************************************************)
EXTENDS CommandListener, TLAPS

(***************************************************************************)
(* The inductive invariant.                                                *)
(***************************************************************************)

\* A call in progress is for some device.
Working ==
    \A a \in Activations :
        pc[a] \in {"mapping", "saving", "starting"} => current[a] \in Devices

\* An activation that has the ETag of the blob has every device of the blob.
EtagSeen ==
    \A a \in Activations :
        etag[a] # NoEtag /\ etag[a] = blob.etag => blob.data.mappings \subseteq state[a].mappings

\* There is no blob without the container.
BlobContained == ~container => blob.etag = NoEtag

\* Until something fails there is one activation, and it has the ETag of the blob;
\* the blob has the device of a call that was saved.
Healthy ==
    failures = 0 =>
        \A a \in Activations :
            /\ pc[a] # "none" => placed = a
            /\ IF pc[a] = "none" THEN etag[a] = NoEtag ELSE etag[a] = blob.etag
            /\ pc[a] \notin {"none", "loaded"} => blob.etag # NoEtag
            /\ pc[a] = "saving" => current[a] \in state[a].mappings
            /\ pc[a] = "starting" => current[a] \in blob.data.mappings

\* The devices in the State of an activation that the push hub was not told of.
Untold(a) == (state[a].mappings \cap Devices) \ announced

\* One failure leaves such a device only in an activation that waits for its next
\* call, and there is a blob, so only a second failure keeps that call from reading
\* it.
UntoldOnlyIdle ==
    failures < 2 =>
        \A a \in Activations : Untold(a) # {} =>
            /\ pc[a] = "idle"
            /\ failures = 1
            /\ blob.etag # NoEtag

IInv == /\ TypeOK
        /\ Working
        /\ MappingsThere
        /\ EtagSeen
        /\ BlobContained
        /\ Healthy
        /\ ListeningIsPersisted
        /\ UntoldOnlyIdle
        /\ PersistedWasAnnounced

(***************************************************************************)
(* What the storage provider does to the types and to the ETags.           *)
(***************************************************************************)
StorageTypeOK ==
    /\ container \in BOOLEAN
    /\ versions \in 0..MaxVersions
    /\ blob = NoBlob \/ blob \in [etag : 1..versions, data : States \ {EmptyState}]
    /\ state \in [Activations -> States]
    /\ etag \in [Activations -> 0..versions]
    /\ failures \in 0..MaxFailures

CallTypeOK ==
    /\ starts \in 0..MaxStarts
    /\ pending \in SUBSET Devices
    /\ placed \in Activations \cup {None}
    /\ pc \in [Activations -> Steps]
    /\ current \in [Activations -> Devices \cup {None}]
    /\ announced \in SUBSET Devices
    /\ listeners \in [Activations -> [Devices -> Nat]]

\* A State that is not the empty one has a dictionary of devices.
LEMMA StateFacts ==
    ASSUME NEW s \in States
    PROVE  /\ s.mappings \in SUBSET (Devices \cup {None})
           /\ s # EmptyState => /\ s.initialized
                                /\ s.mappings \in SUBSET Devices
                                /\ s.mappings # NoMappings
                                /\ s = [initialized |-> TRUE, mappings |-> s.mappings]
           /\ s.mappings # NoMappings => s # EmptyState
           /\ s.initialized => s # EmptyState
<1> USE ListenerAssumption
<1>1. CASE s = EmptyState
      BY <1>1 DEF NoMappings
<1>2. CASE s \in [initialized : {TRUE}, mappings : SUBSET Devices]
  <2>1. s = [initialized |-> TRUE, mappings |-> s.mappings]
        BY <1>2
  <2>2. s.initialized /\ s.mappings \in SUBSET Devices
        BY <1>2
  <2>3. s.mappings # NoMappings
        BY <2>2 DEF NoMappings
  <2>4. s # EmptyState
        BY <2>3
  <2> QED BY <2>1, <2>2, <2>3, <2>4
<1> QED BY <1>1, <1>2 DEF States

LEMMA Initialized ==
    ASSUME NEW m \in SUBSET Devices
    PROVE  [initialized |-> TRUE, mappings |-> m] \in States \ {EmptyState}
BY ListenerAssumption DEF States

LEMMA ReadTypes ==
    ASSUME StorageTypeOK, NEW a \in Activations, ReadStateAsync(a)
    PROVE  StorageTypeOK'
<1> USE StorageAssumption
<1>1. failures' \in 0..MaxFailures
      BY DEF StorageTypeOK, ReadStateAsync, Fail
<1>2. CASE UNCHANGED <<state, etag>>
      BY <1>1, <1>2 DEF StorageTypeOK, ReadStateAsync, NoBlob
<1>3. CASE /\ blob.etag # NoEtag
           /\ state' = [state EXCEPT ![a] = blob.data]
           /\ etag' = [etag EXCEPT ![a] = blob.etag]
  <2>1. blob \in [etag : 1..versions, data : States \ {EmptyState}]
        BY <1>3 DEF StorageTypeOK, NoBlob
  <2> QED BY <1>1, <1>3, <2>1 DEF StorageTypeOK, ReadStateAsync, NoBlob
<1> QED BY <1>2, <1>3 DEF ReadStateAsync

LEMMA WriteTypes ==
    ASSUME StorageTypeOK, NEW a \in Activations, NEW s \in States \ {EmptyState},
           WriteStateAsync(a, s)
    PROVE  StorageTypeOK'
<1> USE StorageAssumption DEF StorageTypeOK
<1>1. state' \in [Activations -> States]
      BY DEF WriteStateAsync
<1>5. failures' \in 0..MaxFailures
  <2>1. UNCHANGED failures \/ Fail
        BY Zenon DEF WriteStateAsync
  <2> QED BY <2>1 DEF Fail
<1>4. container' \in BOOLEAN
      BY Zenon DEF WriteStateAsync
<1>2. /\ versions' \in 0..MaxVersions
      /\ versions <= versions'
      /\ blob' = NoBlob \/ blob' \in [etag : 1..versions', data : States \ {EmptyState}]
  <2>1. CASE UNCHANGED <<blob, versions>>
        BY <2>1 DEF NoBlob
  <2>2. CASE Uploaded(s)
        BY <2>2 DEF Uploaded
  <2> QED BY <2>1, <2>2 DEF WriteStateAsync
<1>3. etag' \in [Activations -> 0..versions']
  <2>1. CASE UNCHANGED etag
        BY <1>2, <2>1
  <2>2. CASE etag' = [etag EXCEPT ![a] = versions + 1] /\ Uploaded(s)
        BY <1>2, <2>2 DEF Uploaded
  <2>3. CASE etag' = [etag EXCEPT ![a] = NoEtag]
        BY <1>2, <2>3 DEF NoEtag
  <2> QED BY <2>1, <2>2, <2>3 DEF WriteStateAsync
<1> QED BY <1>1, <1>2, <1>3, <1>4, <1>5 DEF NoBlob

\* A write leaves the other activations without the ETag of the blob, unless the
\* blob stays as it is, and the writer's with what was written.
LEMMA WriteKeepsEtagSeen ==
    ASSUME StorageTypeOK, EtagSeen, NEW a \in Activations, NEW s \in States \ {EmptyState},
           state[a].mappings \subseteq s.mappings \/ state[a] = EmptyState,
           WriteStateAsync(a, s)
    PROVE  EtagSeen'
<1> SUFFICES ASSUME NEW b \in Activations, etag'[b] # NoEtag, etag'[b] = blob'.etag
             PROVE  blob'.data.mappings \subseteq state'[b].mappings
    BY DEF EtagSeen
<1> USE StorageAssumption DEF StorageTypeOK
<1>1. /\ state'[a] = s
      /\ b # a => state'[b] = state[b]
      /\ b # a => etag'[b] = etag[b]
      BY DEF WriteStateAsync
<1>2. CASE Uploaded(s)
  <2>1. blob'.etag = versions + 1 /\ blob'.data = s
        BY <1>2 DEF Uploaded
  <2>2. b = a
        BY <1>1, <2>1
  <2> QED BY <1>1, <2>1, <2>2
<1>3. CASE UNCHANGED blob /\ etag'[b] = etag[b]
  <2>1. blob.data.mappings \subseteq state[b].mappings
        BY <1>3 DEF EtagSeen
  <2>2. blob \in [etag : 1..versions, data : States \ {EmptyState}]
        BY <1>3 DEF NoBlob
  <2>3. blob.data.mappings \in SUBSET Devices
        BY <2>2, StateFacts
  <2>4. CASE b = a /\ state[a] = EmptyState
    <3>1. blob.data.mappings = {}
          BY <2>1, <2>3, <2>4, ListenerAssumption DEF NoMappings
    <3> QED BY <1>3, <3>1
  <2> QED BY <1>1, <1>3, <2>1, <2>4
<1> QED BY <1>2, <1>3 DEF WriteStateAsync, NoEtag

(***************************************************************************)
(* Every step preserves the types.                                         *)
(***************************************************************************)
LEMMA TypeSplit == TypeOK <=> StorageTypeOK /\ CallTypeOK
BY DEF TypeOK, StorageTypeOK, CallTypeOK

\* What OnActivateAsync writes.
LEMMA ActivatedState ==
    ASSUME TypeOK, NEW a \in Activations, OnActivateAsync(a)
    PROVE  \E s \in States \ {EmptyState} :
              /\ WriteStateAsync(a, s)
              /\ state[a].mappings \subseteq s.mappings \/ state[a] = EmptyState
<1> DEFINE m == IF state[a].initialized \/ state[a].mappings # NoMappings
                  THEN state[a].mappings ELSE {}
           s == [initialized |-> TRUE, mappings |-> m]
<1>1. state[a] \in States
      BY DEF TypeOK
<1>2. CASE state[a] = EmptyState
  <2>1. m = {}
        BY <1>2, ListenerAssumption DEF NoMappings
  <2>2. s \in States \ {EmptyState}
        BY <2>1, Initialized
  <2> QED BY <1>2, <2>2 DEF OnActivateAsync
<1>3. CASE state[a] # EmptyState
  <2>1. m = state[a].mappings /\ m \in SUBSET Devices
        BY <1>1, <1>3, StateFacts
  <2>2. s \in States \ {EmptyState}
        BY <2>1, Initialized
  <2> QED BY <2>1, <2>2 DEF OnActivateAsync
<1> QED BY <1>2, <1>3

\* What TryAdd adds a device to.
LEMMA AddedState ==
    ASSUME TypeOK, Working, MappingsThere, NEW a \in Activations, pc[a] = "mapping", TryAdd(a)
    PROVE  /\ current[a] \in Devices
           /\ state' \in [Activations -> States]
           /\ state'[a] # EmptyState
           /\ state'[a].mappings = state[a].mappings \cup {current[a]}
           /\ \A b \in Activations : b # a => state'[b] = state[b]
<1> DEFINE m == state[a].mappings \cup {current[a]}
<1>1. current[a] \in Devices
      BY DEF Working
<1>2. state[a] \in States /\ state[a] # EmptyState
      BY StateFacts DEF TypeOK, MappingsThere, NoMappings
<1>3. state[a].mappings \in SUBSET Devices /\ state[a].initialized = TRUE
      BY <1>2, StateFacts, Zenon
<1>4. state' = [state EXCEPT ![a] = [initialized |-> state[a].initialized, mappings |-> m]]
      BY DEF TryAdd
<1>5. [initialized |-> TRUE, mappings |-> m] \in States \ {EmptyState}
      BY <1>1, <1>3, Initialized
<1>6. state' = [state EXCEPT ![a] = [initialized |-> TRUE, mappings |-> m]]
      BY <1>3, <1>4, Zenon
<1> QED BY <1>1, <1>5, <1>6 DEF TypeOK

LEMMA SavedState ==
    ASSUME TypeOK, MappingsThere, NEW a \in Activations, SaveMappings(a)
    PROVE  state[a] \in States \ {EmptyState}
BY StateFacts, ListenerAssumption DEF TypeOK, MappingsThere, SaveMappings, Step

LEMMA StorageTypeStep ==
    ASSUME TypeOK, Working, MappingsThere, [Next]_vars
    PROVE  StorageTypeOK'
<1> USE StorageAssumption
<1>0. StorageTypeOK
      BY TypeSplit
<1>1. CASE ContainerDeleted
  <2>1. container' \in BOOLEAN
        BY <1>1, Zenon DEF ContainerDeleted
  <2>2. failures' \in 0..MaxFailures
        BY <1>0, <1>1 DEF ContainerDeleted, Fail, StorageTypeOK
  <2>3. NoBlob' = NoBlob
        BY DEF NoBlob
  <2> QED BY <1>0, <1>1, <2>1, <2>2, <2>3 DEF ContainerDeleted, StorageTypeOK
<1>2. ASSUME NEW a \in Activations, ReadStateAsync(a)
      PROVE  StorageTypeOK'
      BY <1>0, <1>2, ReadTypes
<1>3. ASSUME NEW a \in Activations, NEW s \in States \ {EmptyState}, WriteStateAsync(a, s)
      PROVE  StorageTypeOK'
      BY <1>0, <1>3, WriteTypes
<1>4. CASE UNCHANGED <<storageVars, failures>>
      BY <1>0, <1>4 DEF storageVars, StorageTypeOK, NoBlob
<1>5. CASE UNCHANGED storageVars /\ Fail
      BY <1>0, <1>5 DEF storageVars, StorageTypeOK, NoBlob, Fail
<1>6. ASSUME NEW a \in Activations, pc[a] = "mapping", TryAdd(a),
             UNCHANGED <<container, blob, versions, etag>>,
             UNCHANGED failures \/ Fail
      PROVE  StorageTypeOK'
  <2>1. state' \in [Activations -> States]
        BY <1>6, AddedState
  <2> QED BY <1>0, <1>6, <2>1 DEF StorageTypeOK, NoBlob, Fail
<1>7. ASSUME NEW a \in Activations, Crash(a)
      PROVE  StorageTypeOK'
  <2>1. EmptyState \in States
        BY DEF States
  <2> QED BY <1>0, <1>7, <2>1 DEF Crash, StorageTypeOK, NoBlob, Fail, NoEtag
<1>8. ASSUME NEW a \in Activations, OnActivateAsync(a)
      PROVE  StorageTypeOK'
      BY <1>3, <1>8, ActivatedState
<1>9. ASSUME NEW a \in Activations, SaveMappings(a)
      PROVE  StorageTypeOK'
      BY <1>3, <1>9, SavedState DEF SaveMappings
<1>10. CASE UNCHANGED vars
      BY <1>4, <1>10 DEF vars
<1>11. ASSUME NEW d \in Devices, SendStart(d)
      PROVE  StorageTypeOK'
      BY <1>4, <1>11 DEF SendStart
<1>12. ASSUME NEW a \in Activations, NotifyNewDevice(a) \/ NotifyNewDeviceFails(a)
      PROVE  StorageTypeOK'
      BY <1>6, <1>12, Zenon DEF NotifyNewDevice, NotifyNewDeviceFails, Step
<1>13. ASSUME NEW a \in Activations, Activate(a) \/ \E d \in Devices : StartCommandProcessorHost(a, d)
      PROVE  StorageTypeOK'
      BY <1>2, <1>13 DEF Activate, StartCommandProcessorHost
<1>14. ASSUME NEW a \in Activations, Suspect(a) \/ StartListener(a) \/ StartListenerFails(a)
      PROVE  StorageTypeOK'
      BY <1>4, <1>5, <1>14, Zenon DEF Suspect, StartListener, StartListenerFails
<1> QED BY <1>1, <1>7, <1>8, <1>9, <1>10, <1>11, <1>12, <1>13, <1>14, Zenon DEF Next

LEMMA CallTypeStep ==
    ASSUME TypeOK, Working, [Next]_vars
    PROVE  CallTypeOK'
<1> USE ListenerAssumption DEF CallTypeOK, Steps
<1>0. CallTypeOK
      BY TypeSplit
<1>1. CASE UNCHANGED callVars
      BY <1>0, <1>1 DEF callVars
<1>2. ASSUME NEW d \in Devices, SendStart(d)
      PROVE  CallTypeOK'
      BY <1>0, <1>2 DEF SendStart
<1>3. ASSUME NEW a \in Activations, Activate(a) \/ Suspect(a)
      PROVE  CallTypeOK'
      BY <1>0, <1>3 DEF Activate, Suspect, Step
<1>4. ASSUME NEW a \in Activations, OnActivateAsync(a) \/ SaveMappings(a)
      PROVE  CallTypeOK'
      BY <1>0, <1>4 DEF OnActivateAsync, SaveMappings, Step
<1>5. ASSUME NEW a \in Activations, NEW d \in Devices, StartCommandProcessorHost(a, d)
      PROVE  CallTypeOK'
      BY <1>0, <1>5 DEF StartCommandProcessorHost, Step
<1>6. ASSUME NEW a \in Activations, NotifyNewDevice(a) \/ NotifyNewDeviceFails(a)
      PROVE  CallTypeOK'
  <2>1. current[a] \in Devices
        BY <1>6 DEF Working, NotifyNewDevice, NotifyNewDeviceFails, Step
  <2> QED BY <1>0, <1>6, <2>1 DEF NotifyNewDevice, NotifyNewDeviceFails, Step, CallEnds
<1>7. ASSUME NEW a \in Activations, StartListener(a)
      PROVE  CallTypeOK'
  <2>1. current[a] \in Devices
        BY <1>7 DEF Working, StartListener
  <2>2. listeners' \in [Activations -> [Devices -> Nat]]
        BY <1>0, <1>7, <2>1 DEF StartListener
  <2> QED BY <1>0, <1>7, <2>2 DEF StartListener, Step, CallEnds
<1>8. ASSUME NEW a \in Activations, StartListenerFails(a)
      PROVE  CallTypeOK'
      BY <1>0, <1>8 DEF StartListenerFails, Step, CallEnds
<1>9. ASSUME NEW a \in Activations, Crash(a)
      PROVE  CallTypeOK'
      BY <1>0, <1>9 DEF Crash, Step
<1> QED BY <1>1, <1>2, <1>3, <1>4, <1>5, <1>6, <1>7, <1>8, <1>9, Zenon DEF Next, vars

(***************************************************************************)
(* Every step preserves the rest.                                          *)
(***************************************************************************)
LEMMA WorkingStep ==
    ASSUME TypeOK, Working, [Next]_vars
    PROVE  Working'
<1> USE DEF TypeOK, Working
<1>1. CASE UNCHANGED <<pc, current>>
      BY <1>1
<1>2. ASSUME NEW a \in Activations, NEW next \in {"loaded", "idle", "none"},
             Step(a, pc[a], next),
             UNCHANGED current \/ current' = [current EXCEPT ![a] = None]
      PROVE  Working'
      BY <1>2 DEF Step
<1>3. ASSUME NEW a \in Activations, NEW next, Step(a, pc[a], next),
             pc[a] \in {"mapping", "saving"}, UNCHANGED current
      PROVE  Working'
      BY <1>3 DEF Step
<1>4. ASSUME NEW a \in Activations, NEW d \in Devices, StartCommandProcessorHost(a, d)
      PROVE  Working'
      BY <1>4 DEF StartCommandProcessorHost, Step
<1>5. ASSUME NEW a \in Activations, Activate(a) \/ OnActivateAsync(a)
      PROVE  Working'
      BY <1>2, <1>5 DEF Activate, OnActivateAsync, Step
<1>6. ASSUME NEW a \in Activations, NotifyNewDevice(a) \/ SaveMappings(a)
      PROVE  Working'
      BY <1>3, <1>6 DEF NotifyNewDevice, SaveMappings, Step
<1>7. ASSUME NEW a \in Activations,
             NotifyNewDeviceFails(a) \/ StartListener(a) \/ StartListenerFails(a) \/ Crash(a)
      PROVE  Working'
      BY <1>2, <1>7, Zenon DEF NotifyNewDeviceFails, StartListener, StartListenerFails, Crash, CallEnds
<1>8. CASE UNCHANGED callVars
      BY <1>1, <1>8 DEF callVars
<1>9. ASSUME NEW a \in Activations, Suspect(a)
      PROVE  Working'
      BY <1>1, <1>9 DEF Suspect
<1>10. ASSUME NEW d \in Devices, SendStart(d)
      PROVE  Working'
      BY <1>1, <1>10 DEF SendStart
<1> QED BY <1>4, <1>5, <1>6, <1>7, <1>8, <1>9, <1>10, Zenon DEF Next, vars

\* What a read leaves in the activation.
LEMMA ReadState ==
    ASSUME TypeOK, NEW a \in Activations, ReadStateAsync(a)
    PROVE  /\ \/ /\ state'[a] = blob.data /\ state'[a] \in States \ {EmptyState}
                 /\ etag'[a] = blob.etag
              \/ /\ state'[a] = state[a] /\ etag'[a] = etag[a]
                 /\ blob.etag = NoEtag \/ failures' > failures
           /\ \A b \in Activations : b # a => state'[b] = state[b] /\ etag'[b] = etag[b]
           /\ blob' = blob
           /\ failures' >= failures
<1>1. failures' = failures \/ failures' = failures + 1
      BY DEF ReadStateAsync, Fail
<1>2. failures \in Nat
      BY StorageAssumption DEF TypeOK
<1>3. CASE /\ UNCHANGED <<state, etag>>
           /\ IF blob.etag = NoEtag THEN UNCHANGED failures ELSE Fail
      BY <1>1, <1>2, <1>3 DEF ReadStateAsync, Fail
<1>4. CASE /\ blob.etag # NoEtag
           /\ state' = [state EXCEPT ![a] = blob.data]
           /\ etag' = [etag EXCEPT ![a] = blob.etag]
  <2>1. blob.data \in States \ {EmptyState}
        BY <1>4 DEF TypeOK, NoBlob
  <2> QED BY <1>1, <1>2, <1>4, <2>1 DEF TypeOK, ReadStateAsync
<1> QED BY <1>3, <1>4 DEF ReadStateAsync

LEMMA MappingsStep ==
    ASSUME TypeOK, Working, MappingsThere, [Next]_vars
    PROVE  MappingsThere'
<1> USE DEF TypeOK, MappingsThere
<1> NoMappings' = NoMappings
      BY DEF NoMappings
<1>1. CASE UNCHANGED <<pc, state>>
      BY <1>1
<1>2. ASSUME NEW a \in Activations, NEW next \in {"loaded", "none"},
             pc' = [pc EXCEPT ![a] = next],
             \A b \in Activations : b # a => state'[b] = state[b]
      PROVE  MappingsThere'
      BY <1>2
<1>3. ASSUME NEW a \in Activations, NEW next, pc' = [pc EXCEPT ![a] = next],
             state'[a].mappings # NoMappings,
             \A b \in Activations : b # a => state'[b] = state[b]
      PROVE  MappingsThere'
      BY <1>3
<1>4. ASSUME NEW a \in Activations, NEW next, pc' = [pc EXCEPT ![a] = next],
             NEW s \in States \ {EmptyState}, state' = [state EXCEPT ![a] = s]
      PROVE  MappingsThere'
  <2>1. s.mappings # NoMappings
        BY StateFacts
  <2> QED BY <1>3, <1>4, <2>1
<1>5. ASSUME NEW a \in Activations, Activate(a)
      PROVE  MappingsThere'
      BY <1>2, <1>5, ReadState DEF Activate, Step
<1>6. ASSUME NEW a \in Activations, OnActivateAsync(a)
      PROVE  MappingsThere'
  <2>1. PICK s \in States \ {EmptyState} : WriteStateAsync(a, s)
        BY <1>6, ActivatedState
  <2> QED BY <1>4, <1>6, <2>1 DEF WriteStateAsync, OnActivateAsync, Step
<1>7. ASSUME NEW a \in Activations, SaveMappings(a)
      PROVE  MappingsThere'
      BY <1>4, <1>7, SavedState DEF SaveMappings, WriteStateAsync, Step
<1>8. ASSUME NEW a \in Activations, NEW d \in Devices, StartCommandProcessorHost(a, d)
      PROVE  MappingsThere'
  <2>0. state[a].mappings # NoMappings
        BY <1>8 DEF StartCommandProcessorHost, Step
  <2>2. state'[a] = state[a] \/ state'[a] \in States \ {EmptyState}
        BY <1>8, ReadState DEF StartCommandProcessorHost
  <2>1. state'[a].mappings # NoMappings
    <3>1. \A s \in States \ {EmptyState} : s.mappings # NoMappings
          BY StateFacts
    <3>2. CASE state'[a] = state[a]
          BY <2>0, <3>2
    <3> QED BY <2>2, <3>1, <3>2, Zenon
  <2> QED BY <1>3, <1>8, <2>1, ReadState DEF StartCommandProcessorHost, Step
<1>9. ASSUME NEW a \in Activations, NotifyNewDevice(a) \/ NotifyNewDeviceFails(a)
      PROVE  MappingsThere'
  <2>1. pc[a] = "mapping" /\ TryAdd(a) /\ \E next : pc' = [pc EXCEPT ![a] = next]
        BY <1>9 DEF NotifyNewDevice, NotifyNewDeviceFails, CallEnds, Step
  <2>2. state'[a].mappings # NoMappings
    <3>1. current[a] \in Devices /\ current[a] \in state'[a].mappings
          BY <2>1, AddedState
    <3> QED BY <3>1, ListenerAssumption DEF NoMappings
  <2> QED BY <1>3, <2>1, <2>2, AddedState
<1>10. ASSUME NEW a \in Activations, StartListener(a) \/ StartListenerFails(a)
      PROVE  MappingsThere'
  <2>1. pc[a] = "starting" /\ UNCHANGED state /\ pc' = [pc EXCEPT ![a] = "idle"]
        BY <1>10, Zenon DEF StartListener, StartListenerFails, CallEnds, Step, storageVars
  <2> QED BY <2>1
<1>11. ASSUME NEW a \in Activations, Crash(a)
      PROVE  MappingsThere'
      BY <1>2, <1>11 DEF Crash, Step
<1>12. ASSUME NEW a \in Activations, Suspect(a)
      PROVE  MappingsThere'
      BY <1>1, <1>12 DEF Suspect, storageVars
<1>13. ASSUME NEW d \in Devices, SendStart(d)
      PROVE  MappingsThere'
      BY <1>1, <1>13 DEF SendStart, storageVars
<1>14. CASE ContainerDeleted /\ UNCHANGED callVars
      BY <1>1, <1>14 DEF ContainerDeleted, callVars
<1>15. CASE UNCHANGED vars
      BY <1>1, <1>15 DEF vars, storageVars, callVars
<1> QED BY <1>5, <1>6, <1>7, <1>8, <1>9, <1>10, <1>11, <1>12, <1>13, <1>14, <1>15, Zenon DEF Next

LEMMA EtagSeenStep ==
    ASSUME TypeOK, Working, MappingsThere, EtagSeen, [Next]_vars
    PROVE  EtagSeen'
<1> USE DEF EtagSeen
<1>0. StorageTypeOK
      BY TypeSplit
<1>1. CASE UNCHANGED <<blob, state, etag>>
      BY <1>1 DEF NoEtag
<1>2. ASSUME NEW a \in Activations, ReadStateAsync(a)
      PROVE  EtagSeen'
  <2>1. /\ blob' = blob
        /\ \A b \in Activations : b # a => state'[b] = state[b] /\ etag'[b] = etag[b]
        /\ \/ state'[a] = blob.data
           \/ state'[a] = state[a] /\ etag'[a] = etag[a]
        BY <1>2, ReadState
  <2> QED BY <2>1 DEF NoEtag
<1>3. ASSUME NEW a \in Activations, OnActivateAsync(a)
      PROVE  EtagSeen'
      BY <1>0, <1>3, ActivatedState, WriteKeepsEtagSeen
<1>4. ASSUME NEW a \in Activations, SaveMappings(a)
      PROVE  EtagSeen'
      BY <1>0, <1>4, SavedState, WriteKeepsEtagSeen DEF SaveMappings
<1>5. ASSUME NEW a \in Activations, NotifyNewDevice(a) \/ NotifyNewDeviceFails(a)
      PROVE  EtagSeen'
  <2>1. pc[a] = "mapping" /\ TryAdd(a) /\ UNCHANGED <<blob, etag>>
        BY <1>5 DEF NotifyNewDevice, NotifyNewDeviceFails, Step
  <2>2. \A b \in Activations : state[b].mappings \subseteq state'[b].mappings
        BY <2>1, AddedState
  <2> QED BY <2>1, <2>2 DEF NoEtag
<1>6. ASSUME NEW a \in Activations, Crash(a)
      PROVE  EtagSeen'
      BY <1>6 DEF Crash, TypeOK, NoEtag
<1>7. CASE ContainerDeleted
      BY <1>7 DEF ContainerDeleted, NoBlob, NoEtag
<1>8. CASE UNCHANGED storageVars
      BY <1>1, <1>8 DEF storageVars
<1>9. ASSUME NEW a \in Activations,
             Activate(a) \/ \E d \in Devices : StartCommandProcessorHost(a, d)
      PROVE  EtagSeen'
      BY <1>2, <1>9 DEF Activate, StartCommandProcessorHost
<1>10. ASSUME NEW a \in Activations, Suspect(a) \/ StartListener(a) \/ StartListenerFails(a)
      PROVE  EtagSeen'
      BY <1>8, <1>10, Zenon DEF Suspect, StartListener, StartListenerFails
<1>11. ASSUME NEW d \in Devices, SendStart(d)
      PROVE  EtagSeen'
      BY <1>8, <1>11 DEF SendStart
<1> QED BY <1>3, <1>4, <1>5, <1>6, <1>7, <1>8, <1>9, <1>10, <1>11, Zenon DEF Next, vars

LEMMA ContainedStep ==
    ASSUME BlobContained, [Next]_vars
    PROVE  BlobContained'
<1> USE DEF BlobContained
<1>1. CASE UNCHANGED <<container, blob>>
      BY <1>1 DEF NoEtag
<1>2. CASE ContainerDeleted
      BY <1>2 DEF ContainerDeleted, NoBlob, NoEtag
<1>3. ASSUME NEW a \in Activations, NEW s, WriteStateAsync(a, s)
      PROVE  BlobContained'
  <2>1. container' \/ UNCHANGED <<container, blob>>
        BY <1>3, Zenon DEF WriteStateAsync
  <2> QED BY <1>1, <2>1
<1>4. ASSUME NEW a \in Activations, OnActivateAsync(a) \/ SaveMappings(a)
      PROVE  BlobContained'
      BY <1>3, <1>4 DEF OnActivateAsync, SaveMappings
<1>5. ASSUME NEW a \in Activations,
             \/ Activate(a) \/ Suspect(a) \/ NotifyNewDevice(a) \/ NotifyNewDeviceFails(a)
             \/ StartListener(a) \/ StartListenerFails(a) \/ Crash(a)
             \/ \E d \in Devices : StartCommandProcessorHost(a, d)
      PROVE  BlobContained'
  <2>1. UNCHANGED <<container, blob>>
        BY <1>5 DEF Activate, Suspect, NotifyNewDevice, NotifyNewDeviceFails, StartListener,
                    StartListenerFails, Crash, StartCommandProcessorHost, ReadStateAsync,
                    storageVars
  <2> QED BY <1>1, <2>1
<1>6. CASE UNCHANGED vars \/ \E d \in Devices : SendStart(d)
      BY <1>1, <1>6 DEF vars, storageVars, SendStart
<1> QED BY <1>2, <1>4, <1>5, <1>6, Zenon DEF Next

\* A write of an activation that has the ETag of the blob, when nothing fails.
LEMMA SuccessfulWrite ==
    ASSUME TypeOK, NEW a \in Activations, NEW s, WriteStateAsync(a, s),
           failures' = failures, etag[a] = blob.etag
    PROVE  /\ blob' = [etag |-> versions + 1, data |-> s]
           /\ etag' = [etag EXCEPT ![a] = versions + 1]
           /\ state' = [state EXCEPT ![a] = s]
           /\ versions + 1 # NoEtag
<1>1. failures \in Nat /\ versions \in Nat
      BY StorageAssumption DEF TypeOK
<1>2. ~Fail
      BY <1>1 DEF Fail
<1>3. Matches(a)
      BY DEF Matches
<1>4. /\ Uploaded(s)
      /\ etag' = [etag EXCEPT ![a] = versions + 1]
      /\ state' = [state EXCEPT ![a] = s]
      BY <1>2, <1>3, Zenon DEF WriteStateAsync
<1> QED BY <1>1, <1>4 DEF Uploaded, NoEtag

LEMMA HealthyStep ==
    ASSUME TypeOK, Working, MappingsThere, EtagSeen, Healthy, ListeningIsPersisted, [Next]_vars
    PROVE  Healthy' /\ ListeningIsPersisted'
<1> SUFFICES ASSUME failures' = 0
             PROVE  Healthy' /\ ListeningIsPersisted'
    BY DEF Healthy, ListeningIsPersisted
<1> USE DEF Healthy, ListeningIsPersisted, Persisted
<1>0. failures \in Nat /\ versions \in Nat /\ ~Fail
      BY StorageAssumption DEF TypeOK, Fail
<1>1. CASE UNCHANGED <<storageVars, failures, placed, pc, current, listeners>>
      BY <1>1 DEF NoEtag, storageVars
<1>2. ASSUME NEW a \in Activations, Activate(a)
      PROVE  Healthy' /\ ListeningIsPersisted'
  <2>1. failures = 0 /\ UNCHANGED <<blob, listeners>>
        BY <1>0, <1>2 DEF Activate, ReadStateAsync
  <2>2. \A b \in Activations : pc[b] = "none"
        BY <1>2, <2>1, ListenerAssumption DEF Activate
  <2>3. /\ etag'[a] = blob.etag
        /\ \A b \in Activations : b # a => etag'[b] = etag[b]
        BY <1>0, <1>2, <2>1, <2>2, ReadState DEF Activate
  <2> QED BY <1>2, <2>1, <2>2, <2>3 DEF Activate, Step, TypeOK, NoEtag
<1>3. ASSUME NEW a \in Activations, NEW s \in States \ {EmptyState}, WriteStateAsync(a, s),
             state[a].mappings \subseteq s.mappings \/ state[a] = EmptyState,
             failures = 0, pc[a] # "none"
      PROVE  /\ blob'.etag # NoEtag
             /\ blob'.data = s
             /\ etag'[a] = blob'.etag
             /\ \A b \in Activations : b # a => etag'[b] = etag[b]
             /\ state'[a] = s
             /\ \A d \in Devices : Persisted(d) => Persisted(d)'
  <2>1. etag[a] = blob.etag
        BY <1>3
  <2>2. /\ blob' = [etag |-> versions + 1, data |-> s]
        /\ etag' = [etag EXCEPT ![a] = versions + 1]
        /\ state' = [state EXCEPT ![a] = s]
        /\ versions + 1 # NoEtag
        BY <1>3, <2>1, SuccessfulWrite
  <2>3. ASSUME NEW d \in Devices, Persisted(d)
        PROVE  Persisted(d)'
    <3>1. d \in state[a].mappings
          BY <2>1, <2>3 DEF EtagSeen
    <3>2. d \in s.mappings
          BY <1>3, <3>1, ListenerAssumption DEF NoMappings
    <3> QED BY <2>2, <3>2 DEF NoEtag
  <2> QED BY <2>2, <2>3 DEF TypeOK
<1>4. ASSUME NEW a \in Activations, OnActivateAsync(a)
      PROVE  Healthy' /\ ListeningIsPersisted'
  <2>1. failures = 0 /\ pc[a] = "loaded" /\ pc' = [pc EXCEPT ![a] = "idle"]
        BY <1>0, <1>4 DEF OnActivateAsync, WriteStateAsync, Step
  <2>2. PICK s \in States \ {EmptyState} :
               /\ WriteStateAsync(a, s)
               /\ state[a].mappings \subseteq s.mappings \/ state[a] = EmptyState
        BY <1>4, ActivatedState
  <2>3. /\ blob'.etag # NoEtag
        /\ etag'[a] = blob'.etag
        /\ \A b \in Activations : b # a => etag'[b] = etag[b]
        /\ \A d \in Devices : Persisted(d) => Persisted(d)'
        BY <1>3, <2>1, <2>2
  <2>4. \A b \in Activations : b # a => pc[b] = "none"
        BY <2>1
  <2> QED BY <1>4, <2>1, <2>3, <2>4 DEF OnActivateAsync, TypeOK, NoEtag
<1>5. ASSUME NEW a \in Activations, SaveMappings(a)
      PROVE  Healthy' /\ ListeningIsPersisted'
  <2>1. failures = 0 /\ pc[a] = "saving" /\ pc' = [pc EXCEPT ![a] = "starting"]
        BY <1>0, <1>5 DEF SaveMappings, WriteStateAsync, Step
  <2>2. state[a] \in States \ {EmptyState} /\ WriteStateAsync(a, state[a])
        BY <1>5, SavedState DEF SaveMappings
  <2>3. /\ blob'.etag # NoEtag
        /\ blob'.data = state[a]
        /\ etag'[a] = blob'.etag
        /\ \A b \in Activations : b # a => etag'[b] = etag[b]
        /\ \A d \in Devices : Persisted(d) => Persisted(d)'
        BY <1>3, <2>1, <2>2
  <2>4. \A b \in Activations : b # a => pc[b] = "none"
        BY <2>1
  <2> QED BY <1>5, <2>1, <2>3, <2>4 DEF SaveMappings, TypeOK, NoEtag
<1>6. ASSUME NEW a \in Activations, NEW d \in Devices, StartCommandProcessorHost(a, d)
      PROVE  Healthy' /\ ListeningIsPersisted'
  <2>1. /\ failures = 0
        /\ pc[a] = "idle"
        /\ pc' = [pc EXCEPT ![a] = "mapping"]
        /\ UNCHANGED <<blob, listeners, placed>>
        BY <1>0, <1>6 DEF StartCommandProcessorHost, ReadStateAsync, Step
  <2>2. /\ etag'[a] = blob.etag
        /\ \A b \in Activations : b # a => etag'[b] = etag[b]
        BY <1>6, <2>1, ReadState DEF StartCommandProcessorHost
  <2>3. \A b \in Activations : b # a => pc[b] = "none"
        BY <2>1
  <2> QED BY <1>6, <2>1, <2>2, <2>3 DEF TypeOK, NoEtag
<1>7. ASSUME NEW a \in Activations, NotifyNewDevice(a)
      PROVE  Healthy' /\ ListeningIsPersisted'
  <2>1. /\ pc[a] = "mapping" /\ TryAdd(a)
        /\ pc' = [pc EXCEPT ![a] = "saving"]
        /\ UNCHANGED <<blob, etag, current, listeners, placed, failures>>
        BY <1>7 DEF NotifyNewDevice, Step
  <2>2. current[a] \in state'[a].mappings
        BY <2>1, AddedState
  <2>3. \A b \in Activations : b # a => pc[b] = "none"
        BY <2>1
  <2> QED BY <2>1, <2>2, <2>3 DEF TypeOK, NoEtag
<1>8. ASSUME NEW a \in Activations, StartListener(a)
      PROVE  Healthy' /\ ListeningIsPersisted'
  <2>1. /\ pc[a] = "starting"
        /\ pc' = [pc EXCEPT ![a] = "idle"]
        /\ listeners' = [listeners EXCEPT ![a][current[a]] = @ + 1]
        /\ UNCHANGED <<blob, etag, state, placed, failures>>
        BY <1>8 DEF StartListener, CallEnds, Step, storageVars
  <2>2. Persisted(current[a]) /\ current[a] \in Devices
        BY <2>1 DEF Working
  <2>3. ListeningIsPersisted'
    <3> SUFFICES ASSUME NEW b \in Activations, NEW d \in Devices, listeners'[b][d] > 0
                 PROVE  Persisted(d)'
        OBVIOUS
    <3>1. d = current[a] \/ listeners[b][d] > 0
          BY <2>1 DEF TypeOK
    <3> QED BY <2>1, <2>2, <3>1 DEF NoEtag
  <2>4. Healthy'
        BY <2>1 DEF TypeOK, NoEtag
  <2> QED BY <2>3, <2>4
<1>9. ASSUME NEW d \in Devices, SendStart(d)
      PROVE  Healthy' /\ ListeningIsPersisted'
      BY <1>1, <1>9 DEF SendStart
<1>10. CASE UNCHANGED vars
      BY <1>1, <1>10 DEF vars, callVars
<1>11. ASSUME NEW a \in Activations
       PROVE  ~(Suspect(a) \/ NotifyNewDeviceFails(a) \/ StartListenerFails(a) \/ Crash(a))
      BY <1>0, Zenon DEF Suspect, NotifyNewDeviceFails, StartListenerFails, Crash
<1>12. ~ContainerDeleted
      BY <1>0, Zenon DEF ContainerDeleted
<1> QED BY <1>2, <1>4, <1>5, <1>6, <1>7, <1>8, <1>9, <1>10, <1>11, <1>12, Zenon DEF Next

\* An activation that is not idle writes only devices that were announced.
LEMMA AnnouncedWrite ==
    ASSUME UntoldOnlyIdle, PersistedWasAnnounced, NEW a \in Activations, pc[a] # "idle",
           NEW s \in States \ {EmptyState}, WriteStateAsync(a, s),
           s.mappings \cap Devices \subseteq state[a].mappings,
           UNCHANGED announced, failures \in Nat, versions \in Nat,
           state \in [Activations -> States],
           \A b \in Activations : b # a => pc'[b] = pc[b]
    PROVE  UntoldOnlyIdle' /\ PersistedWasAnnounced'
<1> SUFFICES ASSUME failures' < 2
             PROVE  /\ \A b \in Activations : Untold(b)' # {} =>
                         pc'[b] = "idle" /\ failures' = 1 /\ blob'.etag # NoEtag
                    /\ \A d \in Devices : Persisted(d)' => d \in announced
    BY DEF UntoldOnlyIdle, PersistedWasAnnounced, NoEtag
<1>1. failures' = failures \/ failures' = failures + 1
  <2>1. UNCHANGED failures \/ Fail
        BY Zenon DEF WriteStateAsync
  <2> QED BY <2>1 DEF Fail
<1>2. failures < 2
      BY <1>1
<1>3. Untold(a) = {}
      BY <1>2 DEF UntoldOnlyIdle
<1>4. s.mappings \cap Devices \subseteq announced
      BY <1>3 DEF Untold
<1>5. state' = [state EXCEPT ![a] = s]
      BY DEF WriteStateAsync
<1>6. (UNCHANGED blob) \/ (blob'.data = s /\ blob'.etag # NoEtag)
  <2>1. (UNCHANGED blob) \/ Uploaded(s)
        BY Zenon DEF WriteStateAsync
  <2> QED BY <2>1 DEF Uploaded, NoEtag
<1>7. ASSUME NEW b \in Activations, Untold(b)' # {}
      PROVE  pc'[b] = "idle" /\ failures' = 1 /\ blob'.etag # NoEtag
  <2>1. b # a
        BY <1>4, <1>5, <1>7 DEF Untold
  <2>2. Untold(b) # {}
        BY <1>5, <1>7, <2>1 DEF Untold
  <2>3. pc[b] = "idle" /\ failures = 1 /\ blob.etag # NoEtag
        BY <1>2, <2>2 DEF UntoldOnlyIdle
  <2> QED BY <1>1, <1>6, <2>1, <2>3
<1>8. ASSUME NEW d \in Devices, Persisted(d)'
      PROVE  d \in announced
      BY <1>2, <1>4, <1>6, <1>8 DEF Persisted, PersistedWasAnnounced, NoEtag
<1> QED BY <1>7, <1>8

LEMMA AnnouncedStep ==
    ASSUME TypeOK, Working, MappingsThere, Healthy, UntoldOnlyIdle, PersistedWasAnnounced,
           [Next]_vars
    PROVE  UntoldOnlyIdle' /\ PersistedWasAnnounced'
<1> SUFFICES ASSUME failures' < 2
             PROVE  UntoldOnlyIdle' /\ PersistedWasAnnounced'
    BY DEF UntoldOnlyIdle, PersistedWasAnnounced
<1> USE DEF UntoldOnlyIdle, PersistedWasAnnounced
<1>0. failures \in Nat /\ versions \in Nat /\ state \in [Activations -> States]
      BY StorageAssumption DEF TypeOK
<1>1. CASE UNCHANGED <<blob, state, announced, pc>> /\ (UNCHANGED failures \/ Fail)
  <2>1. failures < 2 /\ (failures' = 1 \/ failures' = failures)
        BY <1>0, <1>1 DEF Fail
  <2> QED BY <1>1, <2>1 DEF Untold, Persisted, NoEtag
<1>2. ASSUME NEW a \in Activations, NEW next, ReadStateAsync(a),
             pc[a] \in {"none", "idle"}, Step(a, pc[a], next), UNCHANGED announced
      PROVE  UntoldOnlyIdle' /\ PersistedWasAnnounced'
  <2>1. failures < 2 /\ (failures' = failures \/ failures' = 1)
        BY <1>0, <1>2 DEF ReadStateAsync, Fail
  <2>2. UNCHANGED blob
        BY <1>2 DEF ReadStateAsync
  <2>3. Untold(a)' = {}
    <3>1. CASE state'[a] = blob.data /\ blob.etag # NoEtag
          BY <1>2, <2>1, <3>1 DEF Untold, Persisted
    <3>2. CASE /\ UNCHANGED <<state, etag>>
               /\ IF blob.etag = NoEtag THEN UNCHANGED failures ELSE Fail
          BY <1>0, <1>2, <2>1, <3>2 DEF Untold, Fail
    <3> QED BY <1>0, <1>2, <3>1, <3>2 DEF ReadStateAsync
  <2>4. ASSUME NEW b \in Activations, b # a
        PROVE  Untold(b)' = Untold(b) /\ pc'[b] = pc[b]
        BY <1>2, <2>4, ReadState DEF Untold, Step
  <2> QED BY <1>2, <2>1, <2>2, <2>3, <2>4 DEF Persisted, NoEtag
<1>3. ASSUME NEW a \in Activations, OnActivateAsync(a)
      PROVE  UntoldOnlyIdle' /\ PersistedWasAnnounced'
  <2>1. PICK s \in States \ {EmptyState} :
               /\ WriteStateAsync(a, s)
               /\ s.mappings \cap Devices \subseteq state[a].mappings
    <3> DEFINE m == IF state[a].initialized \/ state[a].mappings # NoMappings
                      THEN state[a].mappings ELSE {}
    <3>1. WriteStateAsync(a, [initialized |-> TRUE, mappings |-> m])
          BY <1>3 DEF OnActivateAsync
    <3>2. state[a] \in States
          BY <1>0
    <3>3. m \in SUBSET Devices
          BY <3>2, StateFacts, ListenerAssumption
    <3> QED BY <3>1, <3>3, Initialized
  <2>2. pc[a] # "idle" /\ UNCHANGED announced /\ \A b \in Activations : b # a => pc'[b] = pc[b]
        BY <1>3 DEF OnActivateAsync, Step
  <2> QED BY <1>0, <2>1, <2>2, AnnouncedWrite
<1>4. ASSUME NEW a \in Activations, SaveMappings(a)
      PROVE  UntoldOnlyIdle' /\ PersistedWasAnnounced'
  <2>1. state[a] \in States \ {EmptyState} /\ WriteStateAsync(a, state[a])
        BY <1>4, SavedState DEF SaveMappings
  <2>2. pc[a] # "idle" /\ UNCHANGED announced /\ \A b \in Activations : b # a => pc'[b] = pc[b]
        BY <1>4 DEF SaveMappings, Step
  <2> QED BY <1>0, <2>1, <2>2, AnnouncedWrite
<1>5. ASSUME NEW a \in Activations, NotifyNewDevice(a)
      PROVE  UntoldOnlyIdle' /\ PersistedWasAnnounced'
  <2>1. /\ pc[a] = "mapping" /\ TryAdd(a)
        /\ announced' = announced \cup {current[a]}
        /\ UNCHANGED <<blob, failures>>
        /\ \A b \in Activations : b # a => pc'[b] = pc[b]
        BY <1>5 DEF NotifyNewDevice, Step
  <2>2. Untold(a) = {}
        BY <2>1
  <2>3. Untold(a)' = {}
        BY <2>1, <2>2, AddedState DEF Untold
  <2>4. ASSUME NEW b \in Activations, b # a
        PROVE  Untold(b)' \subseteq Untold(b)
        BY <2>1, <2>4, AddedState DEF Untold
  <2> QED BY <2>1, <2>3, <2>4 DEF Persisted, NoEtag
<1>6. ASSUME NEW a \in Activations, NotifyNewDeviceFails(a)
      PROVE  UntoldOnlyIdle' /\ PersistedWasAnnounced'
  <2>1. /\ pc[a] = "mapping" /\ TryAdd(a) /\ pc'[a] = "idle"
        /\ announced \subseteq announced'
        /\ UNCHANGED blob
        /\ \A b \in Activations : b # a => pc'[b] = pc[b]
        BY <1>6 DEF NotifyNewDeviceFails, CallEnds, Step, TypeOK
  <2>2. failures = 0 /\ failures' = 1
        BY <1>0, <1>6 DEF NotifyNewDeviceFails, Fail
  <2>3. blob.etag # NoEtag
        BY <2>1, <2>2 DEF Healthy
  <2>4. ASSUME NEW b \in Activations, b # a
        PROVE  Untold(b)' = {}
    <3>1. Untold(b) = {}
          BY <2>2
    <3> QED BY <2>1, <2>4, <3>1, AddedState DEF Untold
  <2> QED BY <2>1, <2>2, <2>3, <2>4 DEF Persisted, NoEtag
<1>7. ASSUME NEW a \in Activations, Crash(a)
      PROVE  UntoldOnlyIdle' /\ PersistedWasAnnounced'
  <2>1. failures = 0 /\ failures' = 1 /\ UNCHANGED <<blob, announced>>
        BY <1>0, <1>7 DEF Crash, Fail
  <2>2. ASSUME NEW b \in Activations
        PROVE  Untold(b)' = {}
    <3>1. Untold(b) = {}
          BY <2>1
    <3>2. state'[b] = state[b] \/ state'[b] = EmptyState
          BY <1>0, <1>7 DEF Crash
    <3>3. CASE state'[b] = EmptyState
          BY <3>3, ListenerAssumption DEF Untold, NoMappings
    <3> QED BY <2>1, <3>1, <3>2, <3>3 DEF Untold
  <2> QED BY <2>1, <2>2 DEF Persisted, NoEtag
<1>8. CASE ContainerDeleted /\ UNCHANGED callVars
  <2>1. failures = 0 /\ UNCHANGED <<state, announced>> /\ blob' = NoBlob
        BY <1>0, <1>8 DEF ContainerDeleted, Fail, callVars
  <2>2. \A b \in Activations : Untold(b)' = {}
        BY <2>1 DEF Untold
  <2> QED BY <2>1, <2>2 DEF Persisted, NoBlob, NoEtag
<1>9. ASSUME NEW a \in Activations, StartListener(a) \/ StartListenerFails(a)
      PROVE  UntoldOnlyIdle' /\ PersistedWasAnnounced'
  <2>1. /\ pc[a] = "starting" /\ UNCHANGED <<blob, state, announced>>
        /\ UNCHANGED failures \/ Fail
        /\ \A b \in Activations : b # a => pc'[b] = pc[b]
    <3>1. UNCHANGED failures \/ Fail
          BY <1>9, Zenon DEF StartListener, StartListenerFails
    <3>2. pc[a] = "starting" /\ CallEnds(a) /\ UNCHANGED <<storageVars, announced>>
          BY <1>9, Zenon DEF StartListener, StartListenerFails
    <3> QED BY <3>1, <3>2 DEF CallEnds, Step, storageVars
  <2>2. failures < 2 /\ (failures' = 1 \/ failures' = failures)
        BY <1>0, <2>1 DEF Fail
  <2>3. Untold(a) = {}
        BY <2>1, <2>2
  <2>4. \A b \in Activations : Untold(b)' = Untold(b)
        BY <2>1 DEF Untold
  <2> QED BY <2>1, <2>2, <2>3, <2>4 DEF Persisted, NoEtag
<1>10. ASSUME NEW a \in Activations, Suspect(a)
       PROVE  UntoldOnlyIdle' /\ PersistedWasAnnounced'
       BY <1>1, <1>10 DEF Suspect, storageVars
<1>11. ASSUME NEW d \in Devices, SendStart(d)
       PROVE  UntoldOnlyIdle' /\ PersistedWasAnnounced'
       BY <1>1, <1>11 DEF SendStart, storageVars
<1>12. CASE UNCHANGED vars
       BY <1>1, <1>12 DEF vars, storageVars, callVars
<1>13. ASSUME NEW a \in Activations,
              Activate(a) \/ \E d \in Devices : StartCommandProcessorHost(a, d)
       PROVE  UntoldOnlyIdle' /\ PersistedWasAnnounced'
       BY <1>2, <1>13 DEF Activate, StartCommandProcessorHost, Step
<1> QED BY <1>3, <1>4, <1>5, <1>6, <1>7, <1>8, <1>9, <1>10, <1>11, <1>12, <1>13, Zenon DEF Next

(***************************************************************************)
(* The theorems.                                                           *)
(***************************************************************************)
\* The inductive invariant holds in every reachable state.
THEOREM Invariance == Spec => []IInv
<1>1. Init => IInv
  <2> SUFFICES ASSUME Init PROVE IInv
      OBVIOUS
  <2> USE StorageAssumption, ListenerAssumption DEF Init, StorageInit
  <2>1. TypeOK
    <3>1. EmptyState \in States /\ container \in BOOLEAN
          BY Zenon DEF States
    <3> QED BY <3>1 DEF TypeOK, Steps, NoEtag
  <2>2. Working /\ MappingsThere /\ EtagSeen /\ BlobContained
        BY DEF Working, MappingsThere, EtagSeen, BlobContained, NoBlob, NoEtag
  <2>3. Healthy /\ ListeningIsPersisted
        BY DEF Healthy, ListeningIsPersisted, NoBlob, NoEtag
  <2>4. UntoldOnlyIdle /\ PersistedWasAnnounced
        BY DEF UntoldOnlyIdle, Untold, PersistedWasAnnounced, Persisted, NoBlob, NoEtag,
               NoMappings
  <2> QED BY <2>1, <2>2, <2>3, <2>4 DEF IInv
<1>2. IInv /\ [Next]_vars => IInv'
  <2> SUFFICES ASSUME IInv, [Next]_vars PROVE IInv'
      OBVIOUS
  <2>1. TypeOK'
    <3>1. StorageTypeOK' /\ CallTypeOK'
          BY StorageTypeStep, CallTypeStep DEF IInv
    <3> QED BY <3>1 DEF TypeOK, StorageTypeOK, CallTypeOK
  <2> QED BY <2>1, WorkingStep, MappingsStep, EtagSeenStep, ContainedStep, HealthyStep,
             AnnouncedStep DEF IInv
<1> QED BY <1>1, <1>2, PTL DEF Spec

\* Every variable of the grain and of its storage keeps its type, and every ETag is
\* that of a version that was written.
THEOREM TypeCorrect == Spec => []TypeOK
<1>1. IInv => TypeOK
      BY DEF IInv
<1> QED BY <1>1, Invariance, PTL

\* StartCommandProcessorHost never finds a null dictionary, whatever reads and
\* writes failed.
THEOREM DictionaryThere == Spec => []MappingsThere
<1>1. IInv => MappingsThere
      BY DEF IInv
<1> QED BY <1>1, Invariance, PTL

\* Until something fails, the blob has every device with a listener.
THEOREM ListenersPersisted == Spec => []ListeningIsPersisted
<1>1. IInv => ListeningIsPersisted
      BY DEF IInv
<1> QED BY <1>1, Invariance, PTL

\* Until two things fail, the push hub was told of every device that is written to
\* the blob, also of a device whose announcement was the one that failed.
THEOREM AnnouncedBeforeSaved == Spec => []PersistedWasAnnounced
<1>1. IInv => PersistedWasAnnounced
      BY DEF IInv
<1> QED BY <1>1, Invariance, PTL

\* No write under an ETag drops a device that another activation saved, however
\* many activations there are.
THEOREM NothingForgotten == Spec => OnlyBlindWritesForget
<1> DEFINE Q == \A d \in Devices : Persisted(d) /\ ~Persisted(d)' =>
               \/ container /\ ~container'
               \/ \E a \in Activations : /\ pc[a] \in {"loaded", "saving"}
                                         /\ pc'[a] # pc[a]
                                         /\ etag[a] = NoEtag
<1>1. IInv /\ [Next]_vars => [Q]_vars
  <2> SUFFICES ASSUME IInv, Next, NEW d \in Devices, Persisted(d), ~Persisted(d)'
               PROVE  \/ container /\ ~container'
                      \/ \E a \in Activations : /\ pc[a] \in {"loaded", "saving"}
                                                /\ pc'[a] # pc[a]
                                                /\ etag[a] = NoEtag
      OBVIOUS
  <2> DEFINE Blind(a) == /\ pc[a] \in {"loaded", "saving"}
                         /\ pc'[a] # pc[a]
                         /\ etag[a] = NoEtag
  <2>1. blob' # blob
        BY DEF Persisted, NoEtag
  <2>2. ASSUME NEW a \in Activations, NEW s \in States \ {EmptyState}, WriteStateAsync(a, s),
               state[a].mappings \subseteq s.mappings \/ state[a] = EmptyState
        PROVE  etag[a] = NoEtag
    <3>1. Matches(a) /\ Uploaded(s)
          BY <2>1, <2>2, Zenon DEF WriteStateAsync
    <3>2. SUFFICES ASSUME etag[a] = blob.etag, etag[a] # NoEtag PROVE FALSE
          BY <3>1 DEF Matches
    <3>3. d \in state[a].mappings
          BY <3>2 DEF IInv, EtagSeen, Persisted
    <3>4. d \in s.mappings
          BY <2>2, <3>3, ListenerAssumption DEF NoMappings
    <3>5. versions \in Nat
          BY StorageAssumption DEF IInv, TypeOK
    <3> QED BY <3>1, <3>4, <3>5 DEF Uploaded, Persisted, NoEtag
  <2>3. ASSUME NEW a \in Activations, OnActivateAsync(a)
        PROVE  Blind(a)
    <3>1. pc[a] = "loaded" /\ pc'[a] # pc[a]
          BY <2>3 DEF OnActivateAsync, Step, IInv, TypeOK
    <3>2. TypeOK
          BY DEF IInv
    <3> QED BY <2>2, <2>3, <3>1, <3>2, ActivatedState
  <2>4. ASSUME NEW a \in Activations, SaveMappings(a)
        PROVE  Blind(a)
    <3>1. pc[a] = "saving" /\ pc'[a] # pc[a]
          BY <2>4 DEF SaveMappings, Step, IInv, TypeOK
    <3>2. state[a] \in States \ {EmptyState} /\ WriteStateAsync(a, state[a])
          BY <2>4, SavedState DEF IInv, SaveMappings
    <3> QED BY <2>2, <3>1, <3>2
  <2>5. CASE ContainerDeleted
    <3>1. ~container'
          BY <2>5 DEF ContainerDeleted
    <3>2. container
          BY DEF IInv, BlobContained, Persisted
    <3> QED BY <3>1, <3>2
  <2>6. ASSUME NEW a \in Activations
        PROVE  ~(\/ Activate(a) \/ Suspect(a) \/ NotifyNewDevice(a)
                 \/ NotifyNewDeviceFails(a) \/ StartListener(a) \/ StartListenerFails(a)
                 \/ Crash(a) \/ \E e \in Devices : StartCommandProcessorHost(a, e))
        BY <2>1 DEF Activate, Suspect, NotifyNewDevice, NotifyNewDeviceFails, StartListener,
                    StartListenerFails, Crash, StartCommandProcessorHost, ReadStateAsync,
                    storageVars
  <2>7. ASSUME NEW e \in Devices
        PROVE  ~SendStart(e)
        BY <2>1 DEF SendStart, storageVars
  <2> QED BY <2>3, <2>4, <2>5, <2>6, <2>7, Zenon DEF Next
<1> QED BY <1>1, Invariance, PTL DEF Spec, OnlyBlindWritesForget

===============================================================================
