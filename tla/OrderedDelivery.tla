-------------------------- MODULE OrderedDelivery --------------------------
(***************************************************************************)
(* What stream_events promises to its consumer, without windows, splits,   *)
(* verification or limits.  `held' are the events the relay has had since  *)
(* the stream was opened and still has.  Events come one at a time in      *)
(* strictly ascending (created_at, id) order; none of `held' is passed     *)
(* over; and the stream closes normally only once all of `held' is out.    *)
(* It may be cut short at any point.                                       *)
(***************************************************************************)
EXTENDS EventOrder

CONSTANT Event

VARIABLES held, delivered, status

vars == <<held, delivered, status>>

Init ==
    /\ held \in SUBSET Event
    /\ delivered = <<>>
    /\ status = "open" \/ (status = "closed" /\ held = {})

After(e) == delivered = <<>> \/ Precedes(delivered[Len(delivered)], e)

Deliver(e) ==
    /\ status = "open"
    /\ After(e)
    /\ \A x \in held : Precedes(x, e) => x \in SetOf(delivered)
    /\ delivered' = Append(delivered, e)
    /\ UNCHANGED <<held, status>>

\* The relay no longer has some of the events.
Release ==
    /\ held' \in SUBSET held
    /\ UNCHANGED <<delivered, status>>

Close ==
    /\ status = "open"
    /\ held \subseteq SetOf(delivered)
    /\ status' = "closed"
    /\ UNCHANGED <<held, delivered>>

CutShort ==
    /\ status = "open"
    /\ status' = "cut"
    /\ UNCHANGED <<held, delivered>>

Next == (\E e \in Event : Deliver(e)) \/ Release \/ Close \/ CutShort

Spec == Init /\ [][Next]_vars
=============================================================================
