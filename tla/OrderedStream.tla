---------------------------- MODULE OrderedStream ----------------------------
(***************************************************************************)
(* What the iAP2 link promises the sessions that use it: two streams of    *)
(* chunks, one each way.  An application submits chunks; the other end     *)
(* receives a prefix of them, each once and in order; an end may go down,  *)
(* after which it neither submits nor receives.                            *)
(***************************************************************************)
EXTENDS Integers, Sequences

CONSTANT Submissions   \* [Side -> Nat]: bound on the chunks submitted

Side == {"host", "device"}

Peer(e) == IF e = "host" THEN "device" ELSE "host"

VARIABLES
  submitted,   \* how many chunks each application has submitted
  delivered,   \* the chunks each application has received
  up           \* the ends that are still running

Init ==
  /\ submitted = [e \in Side |-> 0]
  /\ delivered = [e \in Side |-> <<>>]
  /\ up = [e \in Side |-> TRUE]

Submit(e) ==
  /\ up[e]
  /\ \E n \in 1..(Submissions[e] - submitted[e]) :
       submitted' = [submitted EXCEPT ![e] = @ + n]
  /\ UNCHANGED <<delivered, up>>

\* The next chunks of the other end's stream.
Deliver(e) ==
  /\ up[e]
  /\ \E n \in 1..(submitted[Peer(e)] - Len(delivered[e])) :
       delivered' = [delivered EXCEPT ![e] = @ \o [i \in 1..n |-> Len(@) + i]]
  /\ UNCHANGED <<submitted, up>>

GoDown(e) ==
  /\ up[e]
  /\ up' = [up EXCEPT ![e] = FALSE]
  /\ UNCHANGED <<submitted, delivered>>

Next == \E e \in Side : Submit(e) \/ Deliver(e) \/ GoDown(e)

Spec == Init /\ [][Next]_<<submitted, delivered, up>>
=============================================================================
