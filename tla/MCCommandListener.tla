-------------------------- MODULE MCCommandListener --------------------------
(***************************************************************************)
(* Two activations, which is one too many, and two devices.                *)
(***************************************************************************)
EXTENDS CommandListener, TLC

CONSTANTS a1, a2, d1, d2

MCEmptyState == [initialized |-> FALSE, mappings |-> {None}]

Symmetry == Permutations({a1, a2}) \cup Permutations({d1, d2})

===============================================================================
