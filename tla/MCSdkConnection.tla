-------------------------- MODULE MCSdkConnection --------------------------
(***************************************************************************)
(* A small instance of SdkConnection: two requests, a message on the lane  *)
(* of the requests and one on another, a channel and lanes of one.         *)
(***************************************************************************)
EXTENDS SdkConnection, TLC

CONSTANTS r1, r2, m1, m2

NormalAndBulk == (m1 :> 1) @@ (m2 :> 2)
=============================================================================
