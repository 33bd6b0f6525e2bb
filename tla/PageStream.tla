------------------------------- MODULE PageStream -------------------------------
(***************************************************************************)
(* What a SignalR connection promises to the page that opened it,          *)
(* whichever transports carry it and however often they reconnect: the     *)
(* messages of the hub come in order, none twice, and none is left out     *)
(* from the moment the connection is started until it is over.  Messages   *)
(* that come before the start are held back; until then messages may be    *)
(* missed, because each transport that is tried joins the stream anew.     *)
(***************************************************************************)
EXTENDS Integers, Sequences

CONSTANTS
    MaxMessages,    \* bound: messages are numbered 1..MaxMessages
    None            \* no position

VARIABLES
    stage,          \* "starting", "started" or "over"
    position,       \* number of the last message that was taken, or None
    held,           \* messages that wait for the start
    shown           \* messages the page was given

vars == <<stage, position, held, shown>>

Numbers(from, upTo) == [i \in 1..(upTo - from) |-> from + i]

Init ==
    /\ stage = "starting"
    /\ position = None
    /\ held = <<>>
    /\ shown = <<>>

\* Every message so far is older than the one after from.
Newer(from) == \A i \in DOMAIN (shown \o held) : (shown \o held)[i] <= from

\* Another transport joins, or has yet to.
Join ==
    /\ stage = "starting"
    /\ position' \in {None} \cup 0..MaxMessages
    /\ UNCHANGED <<stage, held, shown>>

Hold(from, upTo) ==
    /\ stage = "starting"
    /\ Newer(from)
    /\ held' = held \o Numbers(from, upTo)
    /\ position' = upTo
    /\ UNCHANGED <<stage, shown>>

Start(at) ==
    /\ stage = "starting"
    /\ Newer(at)
    /\ stage' = "started"
    /\ shown' = shown \o held
    /\ held' = <<>>
    /\ position' = at

Show(upTo) ==
    /\ stage = "started"
    /\ shown' = shown \o Numbers(position, upTo)
    /\ position' = upTo
    /\ UNCHANGED <<stage, held>>

End ==
    /\ stage' = "over"
    /\ position' = None
    /\ held' = <<>>
    /\ UNCHANGED shown

Next ==
    \/ Join
    \/ End
    \/ \E at \in 0..MaxMessages : Start(at)
    \/ \E from, upTo \in 0..MaxMessages :
          from <= upTo /\ (Hold(from, upTo) \/ (from = position /\ Show(upTo)))

Spec == Init /\ [][Next]_vars

===============================================================================
