----------------------------- MODULE RequestReply -----------------------------
(***************************************************************************)
(* What the command path promises to a caller of GET api/command: it gets  *)
(* an answer to its own command, given by a device that carried that       *)
(* command out, or it gets none.  A command may be carried out without its *)
(* caller ever learning of it, even after the caller was sent away.        *)
(***************************************************************************)
CONSTANTS Requests, Nobody

VARIABLES
    outcome,    \* request -> "idle", "waiting", "answered" or "unanswered"
    answers,    \* request -> the request its answer belongs to, or Nobody
    executed    \* the requests whose device showed the command

vars == <<outcome, answers, executed>>

Init ==
    /\ outcome = [r \in Requests |-> "idle"]
    /\ answers = [r \in Requests |-> Nobody]
    /\ executed = {}

Ask(r) ==
    /\ outcome[r] = "idle"
    /\ outcome' = [outcome EXCEPT ![r] = "waiting"]
    /\ UNCHANGED <<answers, executed>>

Execute(r) ==
    /\ outcome[r] # "idle"
    /\ executed' = executed \cup {r}
    /\ UNCHANGED <<outcome, answers>>

Answer(r) ==
    /\ outcome[r] = "waiting"
    /\ r \in executed
    /\ outcome' = [outcome EXCEPT ![r] = "answered"]
    /\ answers' = [answers EXCEPT ![r] = r]
    /\ UNCHANGED executed

GiveUp(r) ==
    /\ outcome[r] = "waiting"
    /\ outcome' = [outcome EXCEPT ![r] = "unanswered"]
    /\ UNCHANGED <<answers, executed>>

Next == \E r \in Requests : Ask(r) \/ Execute(r) \/ Answer(r) \/ GiveUp(r)

Spec == Init /\ [][Next]_vars

===============================================================================
