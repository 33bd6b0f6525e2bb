----------------------- MODULE MCRabbitMqQueueListener -----------------------
(***************************************************************************)
(* Two silos consuming one queue.  The silos are interchangeable.          *)
(***************************************************************************)
EXTENDS RabbitMqQueueListener, TLC

CONSTANTS s1, s2

SiloSet == {s1, s2}
Symmetry == Permutations(SiloSet)

===============================================================================
