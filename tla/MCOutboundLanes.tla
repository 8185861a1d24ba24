-------------------------- MODULE MCOutboundLanes ---------------------------
(***************************************************************************)
(* Small instances of OutboundLanes: two senders, an item wider than the   *)
(* budget and wider than a batch.                                          *)
(***************************************************************************)
EXTENDS OutboundLanes

CONSTANTS a, b

LaneReserve == <<70, 20, 10>>
=============================================================================
