------------------------------- MODULE Archive -------------------------------
(***************************************************************************)
(* The tables and stored procedures that core/brotr.py calls, as functions *)
(* on a database state.  A procedure runs in one transaction, so it is one *)
(* step; when it raises, nothing of it is kept.                            *)
(*                                                                         *)
(* A table is a function from its primary key to the other columns that    *)
(* matter; tables whose rows are addressed by their content are the set of *)
(* their keys.  A batch is a part of a table: no caller repeats a key      *)
(* within a batch with another value.                                      *)
(***************************************************************************)
EXTENDS Integers, FiniteSets

\* The empty function: a table without rows, or a batch without records.
NoRows == [k \in {} |-> 0]

\* The primary key of a metadata document is (id, type); a relay_metadata row
\* (relay_url, generated_at, metadata_type) |-> metadata_id refers to one.
DocOf(key, id) == <<id, key[3]>>

EmptyDb == [relay |-> NoRows, event |-> {}, metadata |-> {},
            event_relay |-> NoRows, relay_metadata |-> NoRows, state |-> NoRows]

\* ON CONFLICT DO NOTHING: rows of f that exist stay as they are.
Keep(f, g) == [k \in DOMAIN f \cup DOMAIN g |-> IF k \in DOMAIN f THEN f[k] ELSE g[k]]

Without(f, S) == [k \in DOMAIN f \ S |-> f[k]]

-----------------------------------------------------------------------------
(* Level 1: one table *)

\* relay_insert
RelayInsert(db, rows) == [db EXCEPT !.relay = Keep(@, rows)]

\* event_insert
EventInsert(db, ids) == [db EXCEPT !.event = @ \cup ids]

\* metadata_insert
MetadataInsert(db, docs) == [db EXCEPT !.metadata = @ \cup docs]

\* The foreign keys of the junction tables.
EventRelayFks(db, rows) ==
    \A k \in DOMAIN rows : k[1] \in db.event /\ k[2] \in DOMAIN db.relay

RelayMetadataFks(db, rows) ==
    \A k \in DOMAIN rows : k[1] \in DOMAIN db.relay /\ DocOf(k, rows[k]) \in db.metadata

\* event_relay_insert and relay_metadata_insert
EventRelayInsert(db, rows) == [db EXCEPT !.event_relay = Keep(@, rows)]
RelayMetadataInsert(db, rows) == [db EXCEPT !.relay_metadata = Keep(@, rows)]

\* Mutant: the new value is added to the stored one.
StateUpsertAdds(db, rows) ==
    [db EXCEPT !.state = Keep([k \in DOMAIN rows |->
                                  IF k \in DOMAIN db.state THEN db.state[k] + rows[k]
                                  ELSE rows[k]], @)]

\* service_state_upsert: the stored value is replaced.
StateUpsert(db, rows) == [db EXCEPT !.state = Keep(rows, @)]

\* service_state_delete
StateDelete(db, keys) == [db EXCEPT !.state = Without(@, keys)]

-----------------------------------------------------------------------------
(* Level 2: parents first, then the junction rows *)

EventRelayCascade(db, c) ==
    EventRelayInsert(EventInsert(RelayInsert(db, c.relay), c.event), c.event_relay)

RelayMetadataCascade(db, c) ==
    RelayMetadataInsert(MetadataInsert(RelayInsert(db, c.relay), c.metadata),
                        c.relay_metadata)

-----------------------------------------------------------------------------
(* Clean-up *)

\* Deleting a parent row deletes the junction rows that refer to it.
EventDelete(db, ids) ==
    [db EXCEPT !.event = @ \ ids,
               !.event_relay = Without(@, {k \in DOMAIN @ : k[1] \in ids})]

MetadataDelete(db, docs) ==
    [db EXCEPT !.metadata = @ \ docs,
               !.relay_metadata = Without(@, {k \in DOMAIN @ : DocOf(k, @[k]) \in docs})]

\* Mutant: the junction rows of a deleted relay stay.
RelayDeleteOnly(db, url) == [db EXCEPT !.relay = Without(@, {url})]

\* A relay deleted by the operator (no code under src/ deletes one).
RelayDelete(db, url) ==
    [db EXCEPT !.relay = Without(@, {url}),
               !.event_relay = Without(@, {k \in DOMAIN @ : k[2] = url}),
               !.relay_metadata = Without(@, {k \in DOMAIN @ : k[1] = url})]

OrphanEvents(db) == {e \in db.event : \A k \in DOMAIN db.event_relay : k[1] # e}

\* Mutant: the outer DELETE compares the id alone.
OrphanMetadataById(db) ==
    {d \in db.metadata :
        \E x \in db.metadata :
            /\ x[1] = d[1]
            /\ \A k \in DOMAIN db.relay_metadata : DocOf(k, db.relay_metadata[k]) # x}

OrphanMetadata(db) ==
    {d \in db.metadata :
        \A k \in DOMAIN db.relay_metadata : DocOf(k, db.relay_metadata[k]) # d}

\* orphan_event_delete and orphan_metadata_delete: what their DELETE selects,
\* and what it does to the rows selected (a batch holds all of them).
Orphans(db, op) ==
    IF op = "orphan_event_delete" THEN OrphanEvents(db) ELSE OrphanMetadata(db)

OrphanDelete(db, op, rows) ==
    IF op = "orphan_event_delete" THEN EventDelete(db, rows) ELSE MetadataDelete(db, rows)

\* The junction rows that refer to some of these rows.
Referring(db, op, rows) ==
    IF op = "orphan_event_delete"
    THEN {k \in DOMAIN db.event_relay : k[1] \in rows}
    ELSE {k \in DOMAIN db.relay_metadata : DocOf(k, db.relay_metadata[k]) \in rows}

-----------------------------------------------------------------------------
(* The calls of Brotr, as records of the rows they carry *)

NoCall == [op |-> "none", size |-> 0, relay |-> NoRows, event |-> {}, metadata |-> {},
           event_relay |-> NoRows, relay_metadata |-> NoRows, state |-> NoRows, keys |-> {}]

InsertRelay(rows) ==
    [NoCall EXCEPT !.op = "relay_insert", !.size = Cardinality(DOMAIN rows), !.relay = rows]

InsertEvent(ids) ==
    [NoCall EXCEPT !.op = "event_insert", !.size = Cardinality(ids), !.event = ids]

InsertMetadata(docs) ==
    [NoCall EXCEPT !.op = "metadata_insert", !.size = Cardinality(docs), !.metadata = docs]

\* insert_event_relay: with cascade the parent rows travel along.
InsertEventRelay(relays, rows, cascade) ==
    [NoCall EXCEPT !.op = IF cascade THEN "event_relay_insert_cascade"
                                     ELSE "event_relay_insert",
                   !.size = Cardinality(DOMAIN rows),
                   !.relay = IF cascade THEN relays ELSE NoRows,
                   !.event = IF cascade THEN {k[1] : k \in DOMAIN rows} ELSE {},
                   !.event_relay = rows]

InsertRelayMetadata(relays, rows, cascade) ==
    [NoCall EXCEPT !.op = IF cascade THEN "relay_metadata_insert_cascade"
                                     ELSE "relay_metadata_insert",
                   !.size = Cardinality(DOMAIN rows),
                   !.relay = IF cascade THEN relays ELSE NoRows,
                   !.metadata = IF cascade THEN {DocOf(k, rows[k]) : k \in DOMAIN rows} ELSE {},
                   !.relay_metadata = rows]

UpsertServiceState(rows) ==
    [NoCall EXCEPT !.op = "service_state_upsert", !.size = Cardinality(DOMAIN rows),
                   !.state = rows]

DeleteServiceState(keys) ==
    [NoCall EXCEPT !.op = "service_state_delete", !.size = Cardinality(keys), !.keys = keys]

\* delete_orphan_event and delete_orphan_metadata carry no rows; no service
\* calls them.
DeleteOrphanEvent == "orphan_event_delete"
DeleteOrphanMetadata == "orphan_metadata_delete"

\* get_service_state, the plain SELECTs, and refresh_materialized_view leave
\* the tables alone.
GetServiceState == [NoCall EXCEPT !.op = "service_state_get"]
RefreshView == [NoCall EXCEPT !.op = "refresh"]

Batched == {"relay_insert", "event_insert", "metadata_insert", "event_relay_insert",
            "event_relay_insert_cascade", "relay_metadata_insert",
            "relay_metadata_insert_cascade", "service_state_upsert", "service_state_delete"}

\* The procedure does not raise: only the junction-only inserts can meet a
\* parent that is missing.
Succeeds(db, c) ==
    /\ c.op = "event_relay_insert" => EventRelayFks(db, c.event_relay)
    /\ c.op = "relay_metadata_insert" => RelayMetadataFks(db, c.relay_metadata)

\* What a call that succeeds leaves behind.
Apply(db, c) ==
    CASE c.op = "relay_insert" -> RelayInsert(db, c.relay)
      [] c.op = "event_insert" -> EventInsert(db, c.event)
      [] c.op = "metadata_insert" -> MetadataInsert(db, c.metadata)
      [] c.op = "event_relay_insert" -> EventRelayInsert(db, c.event_relay)
      [] c.op = "event_relay_insert_cascade" -> EventRelayCascade(db, c)
      [] c.op = "relay_metadata_insert" -> RelayMetadataInsert(db, c.relay_metadata)
      [] c.op = "relay_metadata_insert_cascade" -> RelayMetadataCascade(db, c)
      [] c.op = "service_state_upsert" -> StateUpsert(db, c.state)
      [] c.op = "service_state_delete" -> StateDelete(db, c.keys)
      [] OTHER -> db

\* The shape of a call: rows only where its procedure takes them, and with
\* cascade the parents of every junction row.
WellFormed(c) ==
    /\ c.relay # NoRows => c.op \in {"relay_insert", "event_relay_insert_cascade",
                                     "relay_metadata_insert_cascade"}
    /\ c.event # {} => c.op \in {"event_insert", "event_relay_insert_cascade"}
    /\ c.metadata # {} => c.op \in {"metadata_insert", "relay_metadata_insert_cascade"}
    /\ c.event_relay # NoRows =>
          c.op \in {"event_relay_insert", "event_relay_insert_cascade"}
    /\ c.relay_metadata # NoRows =>
          c.op \in {"relay_metadata_insert", "relay_metadata_insert_cascade"}
    /\ c.state # NoRows => c.op = "service_state_upsert"
    /\ c.keys # {} => c.op = "service_state_delete"
    /\ c.op = "event_relay_insert_cascade" =>
          \A k \in DOMAIN c.event_relay : k[1] \in c.event /\ k[2] \in DOMAIN c.relay
    /\ c.op = "relay_metadata_insert_cascade" =>
          \A k \in DOMAIN c.relay_metadata :
             k[1] \in DOMAIN c.relay /\ DocOf(k, c.relay_metadata[k]) \in c.metadata

\* Every junction row has its parents.
ReferencesHold(db) ==
    EventRelayFks(db, db.event_relay) /\ RelayMetadataFks(db, db.relay_metadata)

\* The rows of a call are there.
RowsStored(db, c) ==
    /\ DOMAIN c.relay \subseteq DOMAIN db.relay
    /\ c.event \subseteq db.event /\ c.metadata \subseteq db.metadata
    /\ DOMAIN c.event_relay \subseteq DOMAIN db.event_relay
    /\ DOMAIN c.relay_metadata \subseteq DOMAIN db.relay_metadata
    /\ DOMAIN c.state \subseteq DOMAIN db.state
    /\ c.keys \cap DOMAIN db.state = {}
=============================================================================
