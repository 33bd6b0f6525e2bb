------------------------------ MODULE MCSiloHost ------------------------------
(***************************************************************************)
(* Two plain words and two deployment ids, so that the order of the words  *)
(* tells.                                                                  *)
(***************************************************************************)
EXTENDS SiloHost

===============================================================================
