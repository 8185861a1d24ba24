------------------------- MODULE MCIap2Established -------------------------
(***************************************************************************)
(* Small instances of Iap2Established.  The PSNs wrap within every run.    *)
(***************************************************************************)
EXTENDS Iap2Established

\* Both ends announce the same max_outgoing.
Window3 == [e \in Side |-> 3]
Window5 == [e \in Side |-> 5]

\* The host's first PSNs wrap at once.
LatePsn == [e \in Side |-> IF e = "host" THEN Modulus - 3 ELSE 0]

\* Chunks submitted by the host and by the device.
Host4 == [host |-> 4, device |-> 0]
Host6Device1 == [host |-> 6, device |-> 1]
=============================================================================
