---------------------------- MODULE MCWindowQueue ----------------------------
(***************************************************************************)
(* A window with a workspace of two tabs, one of its own it can switch to, *)
(* and one that another window shows.                                      *)
(***************************************************************************)
EXTENDS WindowQueue, TLC

CONSTANTS w1, w2, w3, t1, t2, t3, t4, t5

MCInit == w1 :> <<t1, t2>> @@ w2 :> <<t3>> @@ w3 :> <<t5>>
=============================================================================
