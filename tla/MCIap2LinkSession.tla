------------------------- MODULE MCIap2LinkSession --------------------------
(***************************************************************************)
(* A small instance of Iap2LinkSession: channels of two.                   *)
(***************************************************************************)
EXTENDS Iap2LinkSession
=============================================================================
