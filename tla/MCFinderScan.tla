---------------------------- MODULE MCFinderScan ----------------------------
(* Instances of FinderScan for TLC. *)
EXTENDS FinderScan, TLC

CONSTANTS r1, r2, u1, u2, u3, s1, s2

\* A URL that two events mention, and a full buffer after one row.
PairMentions == <<{u1, u2}, {u2}>>
TwoMentions == <<{u1}, {u2}>>

\* One source lists a URL that no event mentions, one is no longer configured.
MCLists == (s1 :> {u2, u3}) @@ (s2 :> {u1})
=============================================================================
