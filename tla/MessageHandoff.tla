---------------------------- MODULE MessageHandoff ----------------------------
(***************************************************************************)
(* What a queue listener with manual acknowledgement promises about every  *)
(* message of its queue, whatever happens to the silos that consume it:    *)
(* a message that was taken and not settled may come back, and a message   *)
(* is settled for good only after the message action was given it at least *)
(* once.  It says nothing about the order of messages, which is the        *)
(* broker's, nor about what becomes of the action: neither is the          *)
(* listener's promise.                                                     *)
(***************************************************************************)
EXTENDS Naturals

CONSTANT MaxMessages

Messages == 1..MaxMessages

VARIABLES
    stage,      \* [Messages -> Stages]: where the broker has each message
    offered     \* the messages the message action was given at least once

vars == <<stage, offered>>

Stages == {"unpublished", "ready", "taken", "settled"}

Init ==
    /\ stage = [m \in Messages |-> "unpublished"]
    /\ offered = {}

Publish(m) ==
    /\ stage[m] = "unpublished"
    /\ \A k \in Messages : k < m => stage[k] # "unpublished"
    /\ stage' = [stage EXCEPT ![m] = "ready"]
    /\ UNCHANGED offered

\* A message waiting in the queue goes to a consumer.
Take(m) ==
    /\ stage[m] = "ready"
    /\ stage' = [stage EXCEPT ![m] = "taken"]
    /\ UNCHANGED offered

\* A delivery that was given up may still reach the message action later,
\* so the message need not be taken at that time.
Offer(m) ==
    /\ stage[m] # "unpublished"
    /\ offered' = offered \cup {m}
    /\ UNCHANGED stage

Settle(m) ==
    /\ stage[m] = "taken"
    /\ m \in offered
    /\ stage' = [stage EXCEPT ![m] = "settled"]
    /\ UNCHANGED offered

\* Several messages come back at once when their consumer goes away.
Return(S) ==
    /\ \A m \in S : stage[m] = "taken"
    /\ stage' = [m \in Messages |-> IF m \in S THEN "ready" ELSE stage[m]]
    /\ UNCHANGED offered

Next ==
    \/ \E m \in Messages : Publish(m) \/ Take(m) \/ Offer(m) \/ Settle(m)
    \/ \E S \in SUBSET Messages : Return(S)

Spec == Init /\ [][Next]_vars

===============================================================================
