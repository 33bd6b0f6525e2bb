-------------------------- MODULE MCAzureEnvironment --------------------------
(***************************************************************************)
(* Three threads, so that one is in the lock, one waits for it and one     *)
(* takes the fast path.                                                    *)
(***************************************************************************)
EXTENDS AzureEnvironment

CONSTANTS t1, t2, t3

===============================================================================
