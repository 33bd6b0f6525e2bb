---------------------------- MODULE PushHubs_proofs ----------------------------
(***************************************************************************)
(* Proofs about the tables of hub connections, for any sets of workers,    *)
(* hubs and messages and any number of failures.                           *)
(***************************************************************************)
EXTENDS PushHubs, TLAPS

\* AddHub is under way only while an activation or a refresh awaits it.
AddingAwaited ==
    \A w \in Workers : pc[w] \in {"none", "idle"} => adding[w] = {}

\* A message that still waits was tried once for each time it is to come again.
PendingCopies ==
    \A m \in pending, h \in Hubs : copies[m][h] <= repeats[m]

IInv == TypeOK /\ AddingAwaited /\ TableIsLastRefresh /\ PendingCopies /\ OncePerDelivery

LEMMA IInvInit == Init => IInv
<1> SUFFICES ASSUME Init PROVE IInv
  OBVIOUS
<1> USE DEF Init
<1>1. TypeOK
  <2>1. instances \in SUBSET Hubs /\ serving \in SUBSET Hubs
    BY PushAssumption
  <2> QED BY <2>1, PushAssumption DEF TypeOK, States
<1>2. AddingAwaited /\ TableIsLastRefresh
  BY DEF AddingAwaited, TableIsLastRefresh
<1>3. PendingCopies /\ OncePerDelivery
  BY DEF PendingCopies, OncePerDelivery
<1> QED BY <1>1, <1>2, <1>3 DEF IInv

\* The web role changes nothing in the grains.
LEMMA RoleIInv ==
    ASSUME IInv, NEW h \in Hubs,
           AddInstance(h) \/ RemoveInstance(h) \/ HubUp(h) \/ HubDown(h)
    PROVE  IInv'
<1> USE DEF AddInstance, RemoveInstance, HubUp, HubDown, Change, Fail, workerVars, pushVars
<1>1. TypeOK'
  BY PushAssumption DEF IInv, TypeOK
<1>2. (AddingAwaited /\ TableIsLastRefresh)'
  BY DEF IInv, AddingAwaited, TableIsLastRefresh
<1>3. (PendingCopies /\ OncePerDelivery)'
  BY DEF IInv, PendingCopies, OncePerDelivery
<1> QED BY <1>1, <1>2, <1>3 DEF IInv

\* The step up to the await of a refresh, or of an activation.
LEMMA RefreshIInv ==
    ASSUME IInv, NEW w \in Workers, OnActivateAsync(w) \/ RefreshTimer(w)
    PROVE  IInv'
<1>1. PICK addresses \in SUBSET Hubs : RefreshHubs(w, addresses)
  <2>1. instances \in SUBSET Hubs /\ {LocalHub} \in SUBSET Hubs
    BY PushAssumption DEF IInv, TypeOK
  <2> QED BY <2>1 DEF OnActivateAsync, RefreshTimer
<1>2. /\ pc' \in [Workers -> {"none", "activating", "idle", "refreshing"}]
      /\ pc'[w] \in {"activating", "refreshing"}
      /\ \A v \in Workers : v # w => pc'[v] = pc[v]
      /\ UNCHANGED <<roleVars, pushVars, failures>>
  BY DEF OnActivateAsync, RefreshTimer, IInv, TypeOK
<1>3. TypeOK'
  <2>1. /\ seen' \in [Workers -> SUBSET Hubs] /\ adding' \in [Workers -> SUBSET Hubs]
        /\ refused' \in [Workers -> SUBSET Hubs] /\ hubs' \in [Workers -> SUBSET Hubs]
    BY <1>1 DEF RefreshHubs, IInv, TypeOK
  <2>2. conn' \in [Workers -> [Hubs -> States]]
    BY <1>1 DEF RefreshHubs, IInv, TypeOK, States
  <2> QED BY <1>2, <2>1, <2>2 DEF IInv, TypeOK, roleVars, pushVars
<1>4. AddingAwaited'
  BY <1>1, <1>2 DEF RefreshHubs, IInv, TypeOK, AddingAwaited
<1>5. TableIsLastRefresh'
  <2>1. hubs'[w] \cup adding'[w] = seen'[w] \ refused'[w] /\ hubs'[w] \cap adding'[w] = {}
    BY <1>1 DEF RefreshHubs, IInv, TypeOK
  <2>2. \A v \in Workers : v # w => /\ hubs'[v] = hubs[v] /\ adding'[v] = adding[v]
                                    /\ seen'[v] = seen[v] /\ refused'[v] = refused[v]
    BY <1>1 DEF RefreshHubs, IInv, TypeOK
  <2> QED BY <1>2, <2>1, <2>2 DEF IInv, TableIsLastRefresh
<1>6. (PendingCopies /\ OncePerDelivery)'
  BY <1>2 DEF IInv, PendingCopies, OncePerDelivery, pushVars
<1> QED BY <1>3, <1>4, <1>5, <1>6 DEF IInv

\* A connection is made, and its address leaves adding for the table.
LEMMA AddHubIInv ==
    ASSUME IInv, NEW w \in Workers, NEW h \in Hubs, AddHub(w, h) \/ AddHubThrows(w, h)
    PROVE  IInv'
<1>1. UNCHANGED <<roleVars, pc, seen, pushVars>> /\ failures' \in 0..MaxFailures
  BY PushAssumption DEF AddHub, AddHubThrows, Fail, IInv, TypeOK
<1>2. h \in adding[w] /\ h \notin hubs[w]
  BY DEF AddHub, AddHubThrows, IInv, TableIsLastRefresh
<1>3. TypeOK'
  <2>1. adding' \in [Workers -> SUBSET Hubs]
    BY DEF AddHub, AddHubThrows, IInv, TypeOK
  <2>2. refused' \in [Workers -> SUBSET Hubs]
    BY SMTT(30) DEF AddHub, AddHubThrows, IInv, TypeOK
  <2>3. hubs' \in [Workers -> SUBSET Hubs]
    BY SMTT(30) DEF AddHub, AddHubThrows, IInv, TypeOK
  <2>4. PICK next \in States : conn' = [conn EXCEPT ![w][h] = next]
    BY DEF AddHub, AddHubThrows, States
  <2>5. conn' \in [Workers -> [Hubs -> States]]
    BY <2>4 DEF IInv, TypeOK
  <2> QED BY <1>1, <2>1, <2>2, <2>3, <2>5 DEF IInv, TypeOK, roleVars, pushVars
<1>4. AddingAwaited'
  BY <1>1 DEF AddHub, AddHubThrows, IInv, TypeOK, AddingAwaited
<1>5. TableIsLastRefresh'
  <2>1. hubs'[w] \cup adding'[w] = seen'[w] \ refused'[w] /\ hubs'[w] \cap adding'[w] = {}
    BY <1>1, <1>2 DEF AddHub, AddHubThrows, IInv, TypeOK, TableIsLastRefresh
  <2>2. adding'[w] \subseteq adding[w]
    BY DEF AddHub, AddHubThrows, IInv, TypeOK
  <2>3. \A v \in Workers : v # w => /\ hubs'[v] = hubs[v] /\ adding'[v] = adding[v]
                                    /\ seen'[v] = seen[v] /\ refused'[v] = refused[v]
    BY <1>1 DEF AddHub, AddHubThrows, IInv, TypeOK
  <2> QED BY <1>1, <2>1, <2>2, <2>3 DEF IInv, TableIsLastRefresh
<1>6. (PendingCopies /\ OncePerDelivery)'
  BY <1>1 DEF IInv, PendingCopies, OncePerDelivery, pushVars
<1> QED BY <1>3, <1>4, <1>5, <1>6 DEF IInv

\* The await is over, or the worker is.
LEMMA EndIInv ==
    ASSUME IInv, NEW w \in Workers, WhenAll(w) \/ Gone(w)
    PROVE  IInv'
<1>1. /\ UNCHANGED <<roleVars, inflight, copies, repeats>>
      /\ pending' \in SUBSET pending
      /\ failures' \in 0..MaxFailures
  BY PushAssumption DEF WhenAll, Gone, Fail, IInv, TypeOK
<1>2. CASE Forget(w)
  <2>1. /\ pc' = [pc EXCEPT ![w] = "none"] /\ seen' = [seen EXCEPT ![w] = {}]
        /\ adding' = [adding EXCEPT ![w] = {}] /\ refused' = [refused EXCEPT ![w] = {}]
        /\ hubs' = [hubs EXCEPT ![w] = {}]
        /\ conn' = [conn EXCEPT ![w] = [h \in Hubs |-> "none"]]
    BY <1>2 DEF Forget
  <2>2. TypeOK'
    BY <1>1, <2>1 DEF IInv, TypeOK, States, roleVars
  <2>3. (AddingAwaited /\ TableIsLastRefresh)'
    BY <2>1 DEF IInv, TypeOK, AddingAwaited, TableIsLastRefresh
  <2>4. (PendingCopies /\ OncePerDelivery)'
    BY <1>1 DEF IInv, PendingCopies, OncePerDelivery
  <2> QED BY <2>2, <2>3, <2>4 DEF IInv
<1>3. CASE /\ WhenAll(w) /\ pc' = [pc EXCEPT ![w] = "idle"]
           /\ UNCHANGED <<seen, adding, refused, hubs, conn, pending>>
  <2>1. adding[w] = {}
    BY <1>3 DEF WhenAll
  <2>2. TypeOK'
    BY <1>1, <1>3 DEF IInv, TypeOK, roleVars
  <2>3. (AddingAwaited /\ TableIsLastRefresh)'
    BY <1>3, <2>1 DEF IInv, TypeOK, AddingAwaited, TableIsLastRefresh
  <2>4. (PendingCopies /\ OncePerDelivery)'
    BY <1>1 DEF IInv, PendingCopies, OncePerDelivery
  <2> QED BY <2>2, <2>3, <2>4 DEF IInv
<1> QED BY <1>2, <1>3 DEF WhenAll, Gone

\* Connections come and go; the tables stay.
LEMMA ConnectionIInv ==
    ASSUME IInv, NEW w \in Workers, NEW h \in Hubs,
           Drop(w, h) \/ Connect(w, h) \/ Disconnect(w, h)
    PROVE  IInv'
<1>1. /\ UNCHANGED <<roleVars, workerVars, pushVars>> /\ failures' \in 0..MaxFailures
      /\ \E next \in States : conn' = [conn EXCEPT ![w][h] = next]
  BY PushAssumption DEF Drop, Connect, Disconnect, Becomes, Fail, IInv, TypeOK, States
<1>2. TypeOK'
  BY <1>1 DEF IInv, TypeOK, roleVars, workerVars, pushVars
<1>3. (AddingAwaited /\ TableIsLastRefresh)'
  BY <1>1 DEF IInv, AddingAwaited, TableIsLastRefresh, workerVars
<1>4. (PendingCopies /\ OncePerDelivery)'
  BY <1>1 DEF IInv, PendingCopies, OncePerDelivery, pushVars
<1> QED BY <1>2, <1>3, <1>4 DEF IInv

LEMMA PublishIInv ==
    ASSUME IInv, NEW m \in Messages, Publish(m)
    PROVE  IInv'
<1>1. /\ UNCHANGED <<inflight, roleVars, workerVars, conn, failures>>
      /\ pending' = pending \cup {m}
      /\ copies' = [copies EXCEPT ![m] = [h \in Hubs |-> 0]]
      /\ repeats' = [repeats EXCEPT ![m] = 0]
  BY DEF Publish
<1>2. TypeOK'
  BY <1>1 DEF IInv, TypeOK, roleVars, workerVars
<1>3. (AddingAwaited /\ TableIsLastRefresh)'
  BY <1>1 DEF IInv, AddingAwaited, TableIsLastRefresh, workerVars
<1>4. /\ repeats'[m] = 0 /\ \A h \in Hubs : copies'[m][h] = 0
      /\ \A n \in Messages : n # m => copies'[n] = copies[n] /\ repeats'[n] = repeats[n]
  BY <1>1 DEF IInv, TypeOK
<1>5. (PendingCopies /\ OncePerDelivery)'
  BY <1>1, <1>4 DEF IInv, TypeOK, PendingCopies, OncePerDelivery
<1> QED BY <1>2, <1>3, <1>5 DEF IInv

\* A send adds one copy at most for each hub, and one repetition if it is to come again.
LEMMA SendIInv ==
    ASSUME IInv, NEW w \in Workers, NEW m \in Messages, SendMessage(w, m)
    PROVE  IInv'
<1>1. UNCHANGED <<roleVars, workerVars>> /\ m \in pending /\ failures' \in 0..MaxFailures
  BY PushAssumption DEF SendMessage, Fail, IInv, TypeOK
<1>2. /\ copies' \in [Messages -> [Hubs -> Nat]]
      /\ \A h \in Hubs : copies'[m][h] <= copies[m][h] + 1
      /\ \A n \in Messages : n # m => copies'[n] = copies[n]
  BY DEF SendMessage, ForEachHub, IInv, TypeOK
<1>3. \/ pending' = pending \ {m} /\ repeats' = repeats
      \/ pending' = pending /\ repeats' = [repeats EXCEPT ![m] = @ + 1]
  BY DEF SendMessage
<1>4. TypeOK'
  <2>1. inflight' \in SUBSET (Workers \X Hubs \X Messages)
    BY DEF SendMessage, ForEachHub, Connected, IInv, TypeOK
  <2>2. conn' \in [Workers -> [Hubs -> States]]
    BY DEF SendMessage, ForEachHub, IInv, TypeOK, States
  <2>3. repeats' \in [Messages -> Nat] /\ pending' \in SUBSET Messages
    BY <1>3 DEF IInv, TypeOK
  <2> QED BY <1>1, <1>2, <2>1, <2>2, <2>3 DEF IInv, TypeOK, roleVars, workerVars
<1>5. (AddingAwaited /\ TableIsLastRefresh)'
  BY <1>1 DEF IInv, AddingAwaited, TableIsLastRefresh, workerVars
<1>6. \A h \in Hubs : copies[m][h] \in Nat /\ copies[m][h] <= repeats[m] /\ repeats[m] \in Nat
  BY <1>1 DEF IInv, TypeOK, PendingCopies
<1>7. \A h \in Hubs : copies'[m][h] \in Nat
  BY <1>2
<1>8. OncePerDelivery'
  BY <1>2, <1>3, <1>6, <1>7, SMTT(30) DEF IInv, TypeOK, OncePerDelivery
<1>9. PendingCopies'
  BY <1>2, <1>3, <1>6, <1>7 DEF IInv, TypeOK, PendingCopies
<1> QED BY <1>4, <1>5, <1>8, <1>9 DEF IInv

LEMMA HubMethodIInv ==
    ASSUME IInv, NEW i \in inflight, HubMethod(i)
    PROVE  IInv'
<1>1. TypeOK'
  BY DEF HubMethod, IInv, TypeOK, roleVars, workerVars
<1>2. (AddingAwaited /\ TableIsLastRefresh)'
  BY DEF HubMethod, IInv, AddingAwaited, TableIsLastRefresh, workerVars
<1>3. (PendingCopies /\ OncePerDelivery)'
  BY DEF HubMethod, IInv, PendingCopies, OncePerDelivery
<1> QED BY <1>1, <1>2, <1>3 DEF IInv

LEMMA IInvNext == IInv /\ [Next]_vars => IInv'
<1> SUFFICES ASSUME IInv, [Next]_vars PROVE IInv'
  OBVIOUS
<1>1. CASE UNCHANGED vars
  BY <1>1 DEF vars, roleVars, workerVars, pushVars, IInv, TypeOK, AddingAwaited,
     TableIsLastRefresh, PendingCopies, OncePerDelivery
<1>2. CASE Next
  BY <1>2, RoleIInv, RefreshIInv, AddHubIInv, EndIInv, ConnectionIInv, PublishIInv, SendIInv,
     HubMethodIInv DEF Next
<1> QED BY <1>1, <1>2

LEMMA IInvAlways == Spec => []IInv
  BY IInvInit, IInvNext, PTL DEF Spec

\* Type correctness of tables, connections and counters.
THEOREM TypeCorrect == Spec => []TypeOK
<1>1. IInv => TypeOK
  BY DEF IInv
<1> QED BY IInvAlways, <1>1, PTL

\* A table holds the addresses of the last refresh that could be connected, hubs.Add
\* never meets a key that is there, and the timer finds nothing left of its last run.
THEOREM TablesFollowRefresh == Spec => []TableIsLastRefresh
<1>1. IInv => TableIsLastRefresh
  BY DEF IInv
<1> QED BY IInvAlways, <1>1, PTL

\* No hub gets a message more often than the queue delivers it, with any number of
\* workers that share the messages.
THEOREM CopiesBounded == Spec => []OncePerDelivery
<1>1. IInv => OncePerDelivery
  BY DEF IInv
<1> QED BY IInvAlways, <1>1, PTL

===============================================================================
