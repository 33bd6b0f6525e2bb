------------------------ MODULE MCRabbitMqQueueSender ------------------------
(***************************************************************************)
(* Two calls, which are interchangeable.                                   *)
(***************************************************************************)
EXTENDS RabbitMqQueueSender, TLC

CONSTANTS c1, c2

CallSet == {c1, c2}
Symmetry == Permutations(CallSet)

===============================================================================
