--------------------------- MODULE MCSynchronizer ---------------------------
(* Instances of Synchronizer for TLC. *)
EXTENDS Synchronizer, TLC

CONSTANTS r1, r2, r3, n1, n2

\* Two relays share the slot of a network, the third is alone on its own.  A
\* batch can end inside a second of r1 and mix the events of two relays.
MCHistory == (r1 :> {<<1, 1>>, <<1, 3>>, <<2, 2>>}) @@ (r2 :> {<<2, 5>>}) @@ (r3 :> {<<1, 4>>})
MCNetwork == (r1 :> n1) @@ (r2 :> n1) @@ (r3 :> n2)
OneTask == [n \in Network |-> 1]
=============================================================================
