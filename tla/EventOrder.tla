----------------------------- MODULE EventOrder -----------------------------
(***************************************************************************)
(* Nostr events as the services see them: pairs <<created_at, id>>.  All   *)
(* cursors and sorts of the services use the order (created_at, id).       *)
(***************************************************************************)
EXTENDS Integers, Sequences

\* The sort key (created_at, id), strict.
Precedes(e, f) ==
    \/ e[1] < f[1]
    \/ e[1] = f[1] /\ e[2] < f[2]

\* The same order, reflexive.
UpTo(e, f) == e = f \/ Precedes(e, f)

\* The members of a sequence.
SetOf(s) == {s[i] : i \in DOMAIN s}
=============================================================================
