-------------------------- MODULE MCLaneScheduler ---------------------------
(***************************************************************************)
(* Small instances of LaneScheduler, with the percentages of LANE_RESERVE. *)
(***************************************************************************)
EXTENDS LaneScheduler

LaneReserve == <<70, 20, 10>>
=============================================================================
