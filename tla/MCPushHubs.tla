------------------------------- MODULE MCPushHubs -------------------------------
(***************************************************************************)
(* Two workers, two web role instances, one message again and again.       *)
(***************************************************************************)
EXTENDS PushHubs

CONSTANTS w1, w2, h1, h2, m1

===============================================================================
