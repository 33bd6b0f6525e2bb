-------------------------- MODULE RabbitMqQueueSender --------------------------
(***************************************************************************)
(* Calls that send one message: the three controllers of the device page   *)
(* and RabbitMQSenderGrain.  Each has a RabbitMqQueueSender of its own,    *)
(* with a connection and a channel, in a using block.                      *)
(*                                                                         *)
(* The constructor disposes of what it has when it fails, and Dispose      *)
(* closes the channel without a look at whether there is one.  Publishing  *)
(* only writes to the connection; a close waits for an answer, which comes *)
(* after everything that was written before.  A message is not mandatory:  *)
(* without a route it is dropped, without its exchange the broker closes   *)
(* the channel.  The default exchange is always there.                     *)
(***************************************************************************)
EXTENDS Naturals

CONSTANTS
    Calls,          \* calls that send a message
    MaxFailures     \* bound: refused and lost connections, refused channels

ASSUME SenderAssumption == MaxFailures \in Nat

VARIABLES
    exchange,       \* call -> the exchange it publishes to
    declared,       \* what was declared at the broker so far
    pc,             \* call -> the next step of its using block
    connection,     \* call -> the connection of its sender
    model,          \* call -> the channel of its sender
    thrown,         \* call -> Send has thrown
    outcome,        \* call -> what its caller sees
    fate,           \* call -> where its message is
    routed,         \* call -> there was a route for its message when it began
    broken,         \* call -> its connection was lost, or its channel closed on it
    closeFailed,    \* call -> its channel was refused or could not be closed
    failures        \* failures so far

callVars == <<pc, connection, model, thrown, outcome, fate>>
historyVars == <<routed, broken, closeFailed>>
vars == <<exchange, declared, callVars, historyVars, failures>>

Exchanges == {"default", "CommandExchange"}

Init ==
    /\ exchange \in [Calls -> Exchanges]
    /\ declared = {"default"}
    /\ pc = [c \in Calls |-> "begin"]
    /\ connection = [c \in Calls |-> "none"]
    /\ model = [c \in Calls |-> "none"]
    /\ thrown = [c \in Calls |-> FALSE]
    /\ outcome = [c \in Calls |-> "none"]
    /\ fate = [c \in Calls |-> "unsent"]
    /\ routed = [c \in Calls |-> FALSE]
    /\ broken = [c \in Calls |-> FALSE]
    /\ closeFailed = [c \in Calls |-> FALSE]
    /\ failures = 0

Fail ==
    /\ failures < MaxFailures
    /\ failures' = failures + 1

Routed(c) ==
    IF exchange[c] = "default" THEN "queue" \in declared ELSE "command queue" \in declared

Becomes(f, c, value) == f' = [f EXCEPT ![c] = value]

(***************************************************************************)
(* The broker.                                                             *)
(***************************************************************************)

\* A listener declares its queue; CreateQueue declares the exchange, then a command
\* queue that is bound to it.  Nothing is ever deleted.
Declare ==
    /\ \E x \in {"queue", "CommandExchange", "command queue"} \ declared :
          /\ x = "command queue" => "CommandExchange" \in declared
          /\ declared' = declared \cup {x}
    /\ UNCHANGED <<exchange, callVars, historyVars, failures>>

\* The broker takes what was published.
Route(c) ==
    /\ fate[c] = "sent"
    /\ Becomes(fate, c, IF Routed(c) THEN "queued" ELSE "dropped")
    /\ IF exchange[c] \in declared
         THEN UNCHANGED <<model, broken>>
         ELSE Becomes(model, c, "closed") /\ Becomes(broken, c, TRUE)
    /\ UNCHANGED <<exchange, declared, pc, connection, thrown, outcome, routed,
                   closeFailed, failures>>

\* With what was not yet read from it.
LoseConnection(c) ==
    /\ Fail
    /\ connection[c] = "open"
    /\ Becomes(connection, c, "lost")
    /\ Becomes(broken, c, TRUE)
    /\ Becomes(fate, c, IF fate[c] = "sent" THEN "lost" ELSE fate[c])
    /\ UNCHANGED <<exchange, declared, pc, model, thrown, outcome, routed, closeFailed>>

\* The client recovers what nobody has closed, and its channel with it.
RecoverConnection(c) ==
    /\ connection[c] = "lost"
    /\ Becomes(connection, c, "open")
    /\ UNCHANGED <<exchange, declared, pc, model, thrown, outcome, fate, historyVars,
                   failures>>

(***************************************************************************)
(* InitializeConnection.                                                   *)
(***************************************************************************)

Ends(c, what) == Becomes(pc, c, "end") /\ Becomes(outcome, c, what)

CreateConnection(c) ==
    /\ pc[c] = "begin"
    /\ Becomes(pc, c, "CreateModel")
    /\ Becomes(connection, c, "open")
    /\ Becomes(routed, c, Routed(c))
    /\ UNCHANGED <<exchange, declared, model, thrown, outcome, fate, broken, closeFailed,
                   failures>>

\* The catch calls Dispose, Close calls a method of null, and the RabbitMQException
\* is never thrown.
CreateConnectionFails(c) ==
    /\ pc[c] = "begin"
    /\ Fail
    /\ Ends(c, "NullReferenceException")
    /\ UNCHANGED <<exchange, declared, connection, model, thrown, fate, historyVars>>

CreateModel(c) ==
    /\ pc[c] = "CreateModel"
    /\ connection[c] = "open"
    /\ Becomes(pc, c, "Send")
    /\ Becomes(model, c, "open")
    /\ UNCHANGED <<exchange, declared, connection, thrown, outcome, fate, historyVars,
                   failures>>

\* The same, and nobody closes the connection that was made: the constructor has
\* not returned, so there is nothing for the using block to dispose of.
CreateModelFails(c) ==
    /\ pc[c] = "CreateModel"
    /\ IF connection[c] = "open" THEN Fail ELSE UNCHANGED failures
    /\ Ends(c, "NullReferenceException")
    /\ Becomes(closeFailed, c, TRUE)
    /\ UNCHANGED <<exchange, declared, connection, model, thrown, fate, routed, broken>>

(***************************************************************************)
(* Send, and the end of the using block.                                   *)
(***************************************************************************)

\* BasicPublish writes to the connection, or throws if that is known to be lost.
Send(c) ==
    /\ pc[c] = "Send"
    /\ Becomes(pc, c, "Close model")
    /\ IF connection[c] = "open"
         THEN Becomes(fate, c, "sent") /\ UNCHANGED thrown
         ELSE Becomes(thrown, c, TRUE) /\ UNCHANGED fate
    /\ UNCHANGED <<exchange, declared, connection, model, outcome, historyVars, failures>>

Works(c) == connection[c] = "open" /\ model[c] = "open"

\* Mutant: the channel is aborted, which waits for nothing.
CloseModelAborts(c) ==
    /\ pc[c] = "Close model"
    /\ Becomes(pc, c, "Close connection")
    /\ Becomes(model, c, "closed")
    /\ Becomes(fate, c, IF fate[c] = "sent" THEN "lost" ELSE fate[c])
    /\ UNCHANGED <<exchange, declared, connection, thrown, outcome, historyVars, failures>>

\* The answer to the close comes when the message was taken.  The close of a channel
\* that is closed already, or has lost its connection, may return at once.
CloseModel(c) ==
    /\ pc[c] = "Close model"
    /\ Works(c) => fate[c] # "sent"
    /\ Becomes(pc, c, "Close connection")
    /\ Becomes(model, c, "closed")
    /\ UNCHANGED <<exchange, declared, connection, thrown, outcome, fate, historyVars,
                   failures>>

\* Or it throws, and the connection is not closed.
CloseModelThrows(c) ==
    /\ pc[c] = "Close model"
    /\ ~Works(c)
    /\ Ends(c, "exception of Close")
    /\ Becomes(closeFailed, c, TRUE)
    /\ UNCHANGED <<exchange, declared, connection, model, thrown, fate, routed, broken,
                   failures>>

\* Mutant: only the channel is closed.
CloseConnectionForgotten(c) ==
    /\ pc[c] = "Close connection"
    /\ Ends(c, IF thrown[c] THEN "exception of Send" ELSE "ok")
    /\ UNCHANGED <<exchange, declared, connection, model, thrown, fate, historyVars,
                   failures>>

\* Close of a lost connection may throw too, in place of what Send has thrown; it is
\* not recovered any more all the same.
CloseConnection(c) ==
    /\ pc[c] = "Close connection"
    /\ \/ Ends(c, IF thrown[c] THEN "exception of Send" ELSE "ok")
       \/ connection[c] = "lost" /\ Ends(c, "exception of Close")
    /\ Becomes(connection, c, "closed")
    /\ UNCHANGED <<exchange, declared, model, thrown, fate, historyVars, failures>>

Next ==
    \/ Declare
    \/ \E c \in Calls :
          \/ Route(c) \/ LoseConnection(c) \/ RecoverConnection(c)
          \/ CreateConnection(c) \/ CreateConnectionFails(c)
          \/ CreateModel(c) \/ CreateModelFails(c)
          \/ Send(c) \/ CloseModel(c) \/ CloseModelThrows(c) \/ CloseConnection(c)

Spec == Init /\ [][Next]_vars

(***************************************************************************)
(* Properties.                                                             *)
(***************************************************************************)

\* Every variable keeps its type.
TypeOK ==
    /\ exchange \in [Calls -> Exchanges]
    /\ declared \in SUBSET (Exchanges \cup {"queue", "command queue"})
    /\ pc \in [Calls -> {"begin", "CreateModel", "Send", "Close model",
                         "Close connection", "end"}]
    /\ connection \in [Calls -> {"none", "open", "lost", "closed"}]
    /\ model \in [Calls -> {"none", "open", "closed"}]
    /\ thrown \in [Calls -> BOOLEAN]
    /\ outcome \in [Calls -> {"none", "ok", "NullReferenceException",
                              "exception of Send", "exception of Close"}]
    /\ fate \in [Calls -> {"unsent", "sent", "queued", "dropped", "lost"}]
    /\ routed \in [Calls -> BOOLEAN]
    /\ broken \in [Calls -> BOOLEAN]
    /\ closeFailed \in [Calls -> BOOLEAN]
    /\ failures \in 0..MaxFailures

\* A call that returns well over a connection that held has its message in the queue
\* if there was a route when it began, although BasicPublish waits for nobody: what
\* the page then sends comes after it.  Messages from before the first declaration
\* are dropped without a word, and so may be those of a lost connection.
SentIsQueued ==
    \A c \in Calls : outcome[c] = "ok" /\ ~broken[c] =>
        fate[c] = "queued" \/ (~routed[c] /\ fate[c] = "dropped")

\* A call that has ended leaves a connection behind only if its channel was refused,
\* or the close of the channel threw: Close goes no further then.
LeaksOnlyOnFailure ==
    \A c \in Calls : pc[c] = "end" /\ connection[c] \in {"open", "lost"} => closeFailed[c]

===============================================================================
