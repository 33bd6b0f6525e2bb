-------------------------- MODULE MCCommandRoundTrip --------------------------
(***************************************************************************)
(* Two requests and one or two devices, all interchangeable.               *)
(***************************************************************************)
EXTENDS CommandRoundTrip, TLC

CONSTANTS r1, r2, d1, d2

Symmetry == Permutations({r1, r2}) \cup Permutations({d1, d2})

===============================================================================
