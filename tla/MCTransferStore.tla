-------------------------- MODULE MCTransferStore --------------------------
(***************************************************************************)
(* Small instances of TransferStore: two ids, two contents of two blocks   *)
(* and of one, chunks that may belong to either.                           *)
(***************************************************************************)
EXTENDS TransferStore

CONSTANTS x, y

Long == [size |-> 2, sha |-> <<x, x>>]
Short == [size |-> 1, sha |-> <<y>>]
Unhashed == [size |-> 1, sha |-> NoHash]

TwoArtifacts == {Long, Short}
ShortAndUnhashed == {Short, Unhashed}
ShortOnly == {Short}

SingleBlocks == {<<x>>, <<y>>}
=============================================================================
