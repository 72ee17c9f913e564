-------------------------- MODULE MCServiceProcess --------------------------
(* Instances of ServiceProcess for TLC. *)
EXTENDS ServiceProcess

CONSTANTS r1, e1, e2, d1

\* One relay, seen at two times, one event, one document stored under two
\* types, one state key.
RelayAt(t) == [u \in {r1} |-> t]
SeenAt(t) == [k \in {<<e1, r1>>} |-> t]
CheckedAt(t, type) == [k \in {<<r1, t, type>>} |-> d1]
StateIs(v) == [k \in {"cursor"} |-> v]

MCCalls == {
    InsertRelay(RelayAt(1)), InsertEventRelay(RelayAt(1), SeenAt(1), TRUE),
    InsertEventRelay(RelayAt(1), SeenAt(1), FALSE),
    InsertRelayMetadata(RelayAt(1), CheckedAt(1, "rtt"), TRUE),
    InsertRelayMetadata(RelayAt(1), CheckedAt(1, "rtt"), FALSE),
    UpsertServiceState(StateIs(1)), DeleteServiceState({"cursor"}), RefreshView,
    InsertEvent({e1, e2})}

MCOthers == {
    InsertEventRelay(RelayAt(2), SeenAt(2), TRUE), InsertMetadata({<<d1, "info">>})}

MCCleanups == {DeleteOrphanEvent, DeleteOrphanMetadata}
=============================================================================
