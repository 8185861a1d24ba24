---------------------------- MODULE MCAssetPull ----------------------------
(***************************************************************************)
(* A small instance of AssetPull: an asset that fits the memory sink and   *)
(* one that does not, and a pacer that moves between two windows.          *)
(***************************************************************************)
EXTENDS AssetPull
=============================================================================
