---------------------------- MODULE AzureEnvironment ----------------------------
(***************************************************************************)
(* AzureEnvironment.IsInAzure: a double-checked lock around two plain      *)
(* static fields, called by the stateless workers of the push grains and by *)
(* the web roles from any thread.                                          *)
(*                                                                         *)
(* The fields are neither volatile nor read under the lock on the fast     *)
(* path.  The roles are x64 processes: a store waits in the buffer of its  *)
(* thread and reaches memory in program order, loads are not reordered,    *)
(* and entering or leaving a lock empties the buffer.  A thread leaves the *)
(* lock after its stores and before its next load, so a load never meets a *)
(* store of its own in the buffer.                                         *)
(***************************************************************************)
EXTENDS Naturals, Sequences

CONSTANTS
    Threads,        \* the threads that read the property
    None            \* no thread, no answer

ASSUME ThreadsAssumption == None \notin Threads \cup BOOLEAN

VARIABLES
    memory,         \* field -> its value in memory
    buffer,         \* thread -> its stores that are not in memory yet
    holder,         \* the thread in the lock, or None
    pc,             \* thread -> where its call stands
    answer,         \* thread -> what its last call returned
    outcome,        \* what RoleEnvironment said when it was first asked
    asked           \* how often it was asked

vars == <<memory, buffer, holder, pc, answer, outcome, asked>>

Fields == {"alreadyChecked", "inAzure"}
Stores == Fields \X BOOLEAN
Steps  == {"idle", "check", "enter", "recheck", "ask", "mark", "exit", "read",
           "readLocked"}

Init ==
    /\ memory = [f \in Fields |-> FALSE]
    /\ buffer = [t \in Threads |-> <<>>]
    /\ holder = None
    /\ pc = [t \in Threads |-> "idle"]
    /\ answer = [t \in Threads |-> None]
    /\ outcome = None
    /\ asked = 0

Step(t, from, next) ==
    /\ pc[t] = from
    /\ pc' = [pc EXCEPT ![t] = next]

Call(t) ==
    /\ Step(t, "idle", "check")
    /\ UNCHANGED <<memory, buffer, holder, answer, outcome, asked>>

FirstCheck(t) ==
    /\ Step(t, "check", IF memory.alreadyChecked THEN "read" ELSE "enter")
    /\ UNCHANGED <<memory, buffer, holder, answer, outcome, asked>>

Enter(t) ==
    /\ holder = None
    /\ buffer[t] = <<>>
    /\ holder' = t
    /\ Step(t, "enter", "recheck")
    /\ UNCHANGED <<memory, buffer, answer, outcome, asked>>

\* Mutant: the flag is not looked at again under the lock.
NoSecondCheck(t) ==
    /\ Step(t, "recheck", "ask")
    /\ UNCHANGED <<memory, buffer, holder, answer, outcome, asked>>

SecondCheck(t) ==
    /\ Step(t, "recheck", IF memory.alreadyChecked THEN "readLocked" ELSE "ask")
    /\ UNCHANGED <<memory, buffer, holder, answer, outcome, asked>>

Store(t, field, value) ==
    buffer' = [buffer EXCEPT ![t] = Append(@, <<field, value>>)]

\* RoleEnvironment.IsAvailable answers TRUE or FALSE, or throws.
IsAvailable(available) ==
    /\ asked' = asked + 1
    /\ outcome' = IF asked = 0 THEN available ELSE outcome

\* Mutant: the flag is set before the value.
AskAfterMark(t) ==
    /\ Step(t, "ask", "exit")
    /\ \E available \in BOOLEAN :
          /\ IsAvailable(available)
          /\ buffer' = [buffer EXCEPT ![t] = <<<<"alreadyChecked", TRUE>>,
                                               <<"inAzure", available>>>>]
    /\ UNCHANGED <<memory, holder, answer>>

\* FALSE is stored only where the property threw.
Ask(t) ==
    /\ Step(t, "ask", "mark")
    /\ \/ IsAvailable(TRUE) /\ Store(t, "inAzure", TRUE)
       \/ IsAvailable(FALSE) /\ UNCHANGED buffer
       \/ IsAvailable(FALSE) /\ Store(t, "inAzure", FALSE)
    /\ UNCHANGED <<memory, holder, answer>>

Mark(t) ==
    /\ Step(t, "mark", "exit")
    /\ Store(t, "alreadyChecked", TRUE)
    /\ UNCHANGED <<memory, holder, answer, outcome, asked>>

Flush(t) ==
    /\ buffer[t] # <<>>
    /\ memory' = [memory EXCEPT ![Head(buffer[t])[1]] = Head(buffer[t])[2]]
    /\ buffer' = [buffer EXCEPT ![t] = Tail(@)]
    /\ UNCHANGED <<holder, pc, answer, outcome, asked>>

Exit(t) ==
    /\ buffer[t] = <<>>
    /\ holder' = None
    /\ Step(t, "exit", "read")
    /\ UNCHANGED <<memory, buffer, answer, outcome, asked>>

Read(t) ==
    /\ Step(t, "read", "idle")
    /\ answer' = [answer EXCEPT ![t] = memory.inAzure]
    /\ UNCHANGED <<memory, buffer, holder, outcome, asked>>

\* The value is read before the lock is left.
ReadLocked(t) ==
    /\ Step(t, "readLocked", "idle")
    /\ answer' = [answer EXCEPT ![t] = memory.inAzure]
    /\ holder' = None
    /\ UNCHANGED <<memory, buffer, outcome, asked>>

Next ==
    \E t \in Threads :
        \/ Call(t) \/ FirstCheck(t) \/ Enter(t) \/ SecondCheck(t) \/ Ask(t) \/ Mark(t)
        \/ Flush(t) \/ Exit(t) \/ Read(t) \/ ReadLocked(t)

Spec == Init /\ [][Next]_vars

(***************************************************************************)
(* Properties.                                                             *)
(***************************************************************************)

\* Every variable keeps its type.
TypeOK ==
    /\ memory \in [Fields -> BOOLEAN]
    /\ buffer \in [Threads -> Seq(Stores)]
    /\ holder \in Threads \cup {None}
    /\ pc \in [Threads -> Steps]
    /\ answer \in [Threads -> BOOLEAN \cup {None}]
    /\ outcome \in BOOLEAN \cup {None}
    /\ asked \in Nat

\* Every caller is told what RoleEnvironment said when it was first asked, whether
\* it took the fast path, waited for the lock, or asked itself; so the grains of a
\* silo never disagree on where their hubs are.
AnswersAgree == \A t \in Threads : answer[t] \in {None, outcome}

\* However many threads call at once, RoleEnvironment is asked at most once.
AskedOnce == asked <= 1

===============================================================================
